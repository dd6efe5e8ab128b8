--------------------------- MODULE BodyStreamProofs ---------------------------
(***************************************************************************)
(* Proofs about BodyStream, for bodies, caps and buffers of any size.  An  *)
(* answer depends on the error with which the read loop ended, so the      *)
(* invariant says what each error that leaves the loop stands for.         *)
(***************************************************************************)
EXTENDS BodyStream, TLAPS

Request == [store : Stores, framing : {"length", "chunked"}, len : 0..MaxLen, honest : BOOLEAN]

(* The loop has ended with err, and the answer is still to come. *)
Left == st \in {"chunk", "drained", "aborted"}

(* The body has been read to its end and is the one that was signed. *)
Complete == request.honest /\ read = request.len /\ read <= Limit

(* What the errors stand for: an EOF that got past the wrappers is the end *)
(* of the signed body; an ErrUnexpectedEOF is that or a broken connection; *)
(* a mismatch is the end of another body.                                  *)
ErrorsMean ==
  /\ Left /\ err = "eof" => Complete
  /\ Left /\ err = "unexpected_eof" => read <= Limit /\ (wire = "cut" \/ Complete)
  /\ failed => ~request.honest /\ read = request.len /\ wire = "up" /\ read <= Limit
  /\ Left /\ err = "mismatch" => failed
  /\ st = "drained" => err \in {"eof", "unexpected_eof"}
  /\ st = "drained" /\ request.store = "memory" => err = "eof"
  /\ st = "chunk" => request.store = "postgres"
  /\ st = "drained" \/ request.store = "memory" => buf = 0

(* The guard knows of an overrun as soon as there is one. *)
Counted == over <=> read > Limit

IInv ==
  /\ request \in Request
  /\ TypeOK /\ Counted /\ ErrorsMean
  /\ (st # "answered" <=> status = "none")
  /\ StoredIsSigned /\ OversizeIsTooLarge /\ MismatchMeansOtherBytes

(* One Read through the wrappers: what its error means, given what the     *)
(* errors before it meant.                                                 *)
LEMMA WrappedMeans ==
  ASSUME IInv, NEW n \in Nat, NEW e \in Errors, Wrapped(n, e)
  PROVE  /\ read' = read + n /\ read' <= request.len /\ read' \in Nat
         /\ (over' <=> read' > Limit) /\ failed' \in BOOLEAN /\ over' \in BOOLEAN /\ wire' \in {"up", "cut", "io"}
         /\ e = "eof" => request.honest /\ read' = request.len /\ read' <= Limit
         /\ e = "unexpected_eof" => wire' = "cut" /\ read' <= Limit
         /\ e = "mismatch" => failed'
         /\ failed' => ~request.honest /\ read' = request.len /\ wire' = "up" /\ read' <= Limit
<1> USE SizeAssumption
<1>1. /\ read \in Nat /\ read <= request.len /\ request.len \in Nat /\ (over <=> read > Limit)
      /\ wire \in {"up", "cut", "io"} /\ failed \in BOOLEAN /\ over \in BOOLEAN /\ request.honest \in BOOLEAN
      /\ failed => ~request.honest /\ read = request.len /\ wire = "up" /\ read <= Limit
  BY DEF IInv, TypeOK, Request, Counted, ErrorsMean
<1>2. CASE failed
  BY <1>1, <1>2 DEF Wrapped
<1>3. CASE ~failed
  <2>1. PICK net \in NetErrors :
          /\ NetRead(n, net)
          /\ e = Digest(n, Count(n, net))
          /\ read' = read + n
          /\ over' = (over \/ Count(n, net) = "too_large")
          /\ failed' = (e = "mismatch")
    BY <1>3 DEF Wrapped
  <2>2. /\ read' <= request.len /\ read' \in Nat /\ wire' \in {"up", "cut", "io"}
        /\ net = "eof" => read' = request.len /\ wire = "up" /\ wire' = wire
        /\ net = "unexpected_eof" => wire' = "cut"
    BY <1>1, <2>1 DEF NetRead, NetErrors
  <2>3. Count(n, net) = "too_large" <=> read' > Limit
    BY <1>1, <2>1 DEF Count, NetErrors
  <2>4. read > Limit => read' > Limit
    BY <1>1, <2>1
  <2>5. over' \in BOOLEAN /\ (over' <=> read' > Limit)
    BY <1>1, <2>1, <2>3, <2>4, Zenon
  <2>6. /\ e = "eof" => net = "eof" /\ request.honest /\ read' <= Limit
        /\ e = "unexpected_eof" => net = "unexpected_eof" /\ read' <= Limit
        /\ e = "mismatch" => net = "eof" /\ ~request.honest /\ read' <= Limit
    BY <1>1, <2>1, <2>2, <2>3 DEF Digest, Count, NetErrors
  <2>7. failed' \in BOOLEAN /\ (failed' <=> e = "mismatch")
    BY <2>1
  <2> QED BY <2>1, <2>2, <2>5, <2>6, <2>7
<1> QED BY <1>1, <1>2, <1>3

(* A step that answers, and reads nothing, keeps the invariant if it       *)
(* answers "created" only for a drained body on a context that has not     *)
(* ended, and "digest_mismatch" only for one that failed the digest.       *)
LEMMA AnswerPreserves ==
  ASSUME IInv, NEW code \in {"created", "refused", "conflict", "empty", "digest_mismatch", "internal"},
         Answer(code), code = "created" => st = "drained" /\ ~(request.store = "postgres" /\ wire = "cut"),
         code = "digest_mismatch" => failed,
         UNCHANGED <<request, wire, read, over, failed, buf, size, err>>
  PROVE  IInv'
<1> USE SizeAssumption
<1>1. /\ st' = "answered"
      /\ status' = IF over THEN "too_large" ELSE code
      /\ (over <=> read > Limit) /\ read \in Nat /\ request.len \in Nat
  BY DEF Answer, IInv, Counted, TypeOK, Request
<1>2. TypeOK' /\ Counted' /\ request' \in Request /\ (st # "answered" <=> status = "none")'
  BY <1>1 DEF IInv, TypeOK, Counted, Errors
<1>3. ErrorsMean'
  BY <1>1 DEF IInv, ErrorsMean, Left, Complete
<1>4. StoredIsSigned'
  <2> SUFFICES ASSUME status' = "created"
               PROVE  request.honest /\ size = request.len
    BY DEF StoredIsSigned, Stored
  <2>1. st = "drained" /\ ~(request.store = "postgres" /\ wire = "cut") /\ buf = 0 /\ size = read
    BY <1>1 DEF IInv, TypeOK, ErrorsMean
  <2>2. request.store = "memory" \/ request.store = "postgres"
    BY DEF IInv, Request
  <2>3. Complete
    BY <2>1, <2>2 DEF IInv, ErrorsMean, Left
  <2> QED BY <2>1, <2>3 DEF Complete
<1>5. OversizeIsTooLarge'
  <2>1. status' = "created" => size <= Limit
    BY <1>1 DEF IInv, TypeOK, ErrorsMean, Left, Complete
  <2>2. status' = "too_large" => request.len > Limit
    BY <1>1 DEF IInv, TypeOK
  <2> QED BY <1>1, <2>1, <2>2 DEF OversizeIsTooLarge, Stored
<1>6. MismatchMeansOtherBytes'
  BY <1>1 DEF IInv, ErrorsMean, MismatchMeansOtherBytes
<1> QED BY <1>2, <1>3, <1>4, <1>5, <1>6 DEF IInv

(* Every step preserves the invariant. *)
LEMMA StepPreserves ==
  ASSUME IInv, [Next]_vars
  PROVE  IInv'
<1> USE SizeAssumption
<1>1. CASE UNCHANGED vars \/ Done
  BY <1>1 DEF vars, Done, IInv, TypeOK, Counted, ErrorsMean, Left, Complete, Stored,
              StoredIsSigned, OversizeIsTooLarge, MismatchMeansOtherBytes
<1>2. CASE Admit
  <2>1. CASE st' = "admitted"
    BY <1>2, <2>1 DEF Admit, IInv, TypeOK, Counted, ErrorsMean, Left, Complete, Stored, Answer,
              StoredIsSigned, OversizeIsTooLarge, MismatchMeansOtherBytes
  <2>2. CASE request.len > Limit /\ Answer("too_large")
    BY <1>2, <2>2 DEF Admit, IInv, TypeOK, Counted, ErrorsMean, Left, Complete, Stored, Answer,
              StoredIsSigned, OversizeIsTooLarge, MismatchMeansOtherBytes
  <2> QED BY <1>2, <2>1, <2>2 DEF Admit
<1>3. CASE Start
  <2>1. CASE st' = "reading" /\ UNCHANGED status
    BY <1>3, <2>1 DEF Start, IInv, TypeOK, Counted, ErrorsMean, Left, Complete, Stored,
              StoredIsSigned, OversizeIsTooLarge, MismatchMeansOtherBytes
  <2>2. CASE \E code \in {"refused", "conflict"} : Answer(code)
    BY <1>3, <2>2, AnswerPreserves DEF Start
  <2> QED BY <1>3, <2>1, <2>2 DEF Start
<1>4. CASE ReadFull
  <2>1. PICK n \in 0..BufSize - buf, e \in Errors :
          /\ Wrapped(n, e)
          /\ buf' = buf + n
          /\ \/ /\ buf + n = BufSize
                /\ st' = "chunk" /\ err' = "nil"
             \/ /\ buf + n < BufSize /\ e = "nil"
                /\ UNCHANGED <<st, err>>
             \/ /\ buf + n < BufSize /\ e # "nil"
                /\ st' = "chunk"
                /\ err' = IF e = "eof" /\ buf + n > 0 THEN "unexpected_eof" ELSE e
    BY <1>4 DEF ReadFull
  <2>2. n \in Nat /\ buf \in Nat /\ size \in Int /\ size + buf = read /\ st = "reading"
        /\ request.store = "postgres" /\ err \in Errors /\ request' = request /\ size' = size /\ status' = "none" /\ status = "none"
    BY <1>4, <2>1 DEF ReadFull, IInv, TypeOK
  <2>3. /\ read' = read + n /\ read' <= request.len /\ read' \in Nat
        /\ (over' <=> read' > Limit) /\ failed' \in BOOLEAN /\ over' \in BOOLEAN /\ wire' \in {"up", "cut", "io"}
        /\ e = "eof" => request.honest /\ read' = request.len /\ read' <= Limit
        /\ e = "unexpected_eof" => wire' = "cut" /\ read' <= Limit
        /\ e = "mismatch" => failed'
        /\ failed' => ~request.honest /\ read' = request.len /\ wire' = "up" /\ read' <= Limit
    BY <2>1, <2>2, WrappedMeans
  <2>4. TypeOK' /\ Counted' /\ (st # "answered" <=> status = "none")'
    BY <2>1, <2>2, <2>3 DEF IInv, TypeOK, Counted, Errors
  <2>5. ErrorsMean'
    BY <2>1, <2>2, <2>3 DEF IInv, TypeOK, ErrorsMean, Left, Complete, Errors
  <2>6. (StoredIsSigned /\ OversizeIsTooLarge /\ MismatchMeansOtherBytes)'
    BY <2>1, <2>2 DEF StoredIsSigned, OversizeIsTooLarge, MismatchMeansOtherBytes, Stored
  <2> QED BY <2>2, <2>4, <2>5, <2>6 DEF IInv
<1>5. CASE ReadAll
  <2>1. PICK n \in 0..MaxLen, e \in Errors :
          /\ Wrapped(n, e)
          /\ size' = size + n
          /\ err' = e
          /\ st' = CASE e = "nil" -> "reading" [] e = "eof" -> "drained" [] OTHER -> "aborted"
    BY <1>5 DEF ReadAll
  <2>2. /\ n \in Nat /\ buf \in Nat /\ size \in Int /\ size + buf = read
        /\ st = "reading" /\ request.store = "memory" /\ request' = request
        /\ buf' = buf /\ buf = 0 /\ status' = "none" /\ status = "none"
    BY <1>5, <2>1 DEF ReadAll, IInv, TypeOK, ErrorsMean
  <2>3. /\ read' = read + n /\ read' <= request.len /\ read' \in Nat
        /\ (over' <=> read' > Limit) /\ failed' \in BOOLEAN /\ over' \in BOOLEAN /\ wire' \in {"up", "cut", "io"}
        /\ e = "eof" => request.honest /\ read' = request.len /\ read' <= Limit
        /\ e = "unexpected_eof" => wire' = "cut" /\ read' <= Limit
        /\ e = "mismatch" => failed'
        /\ failed' => ~request.honest /\ read' = request.len /\ wire' = "up" /\ read' <= Limit
    BY <2>1, <2>2, WrappedMeans
  <2>4. TypeOK' /\ Counted' /\ (st # "answered" <=> status = "none")'
    BY <2>1, <2>2, <2>3 DEF IInv, TypeOK, Counted, Errors
  <2>5. ErrorsMean'
    BY <2>1, <2>2, <2>3 DEF IInv, TypeOK, ErrorsMean, Left, Complete, Errors
  <2>6. (StoredIsSigned /\ OversizeIsTooLarge /\ MismatchMeansOtherBytes)'
    BY <2>1, <2>2 DEF StoredIsSigned, OversizeIsTooLarge, MismatchMeansOtherBytes, Stored
  <2> QED BY <2>2, <2>4, <2>5, <2>6 DEF IInv
<1>6. CASE StoreChunk
  <2>1. CASE UNCHANGED status
    <3>1. /\ st = "chunk" /\ status = "none" /\ size' = size + buf /\ buf' = 0
          /\ UNCHANGED <<request, wire, read, over, failed, err, status>>
          /\ st' = CASE err = "nil" -> "reading"
                     [] err \in {"eof", "unexpected_eof"} -> "drained"
                     [] OTHER -> "aborted"
      BY <1>6, <2>1 DEF StoreChunk, Answer, IInv, TypeOK
    <3>2. size' = read /\ read \in 0..request.len
      BY <3>1 DEF IInv, TypeOK
    <3>3. TypeOK' /\ Counted' /\ (st # "answered" <=> status = "none")'
      BY <3>1, <3>2 DEF IInv, TypeOK, Counted, Errors
    <3>4. ErrorsMean'
      BY <3>1, <3>2 DEF IInv, TypeOK, ErrorsMean, Left, Complete, Errors
    <3>5. (StoredIsSigned /\ OversizeIsTooLarge /\ MismatchMeansOtherBytes)'
      BY <3>1 DEF StoredIsSigned, OversizeIsTooLarge, MismatchMeansOtherBytes, Stored
    <3> QED BY <3>1, <3>3, <3>4, <3>5 DEF IInv
  <2>2. CASE (\E code \in {"conflict", "internal"} : Answer(code)) /\ UNCHANGED <<size, buf>>
    BY <1>6, <2>2, AnswerPreserves DEF StoreChunk
  <2> QED BY <1>6, <2>1, <2>2 DEF StoreChunk
<1>7. CASE Store
  BY <1>7, AnswerPreserves DEF Store, ContextEnded
<1>8. CASE Abort
  <2>1. err = "mismatch" => failed
    BY <1>8 DEF Abort, IInv, ErrorsMean, Left
  <2> QED BY <1>8, <2>1, AnswerPreserves DEF Abort
<1> QED BY <1>1, <1>2, <1>3, <1>4, <1>5, <1>6, <1>7, <1>8 DEF Next

(* A request that has just arrived has been told nothing. *)
LEMMA InitEstablishes == Init => IInv
<1> SUFFICES ASSUME Init
             PROVE  IInv
  OBVIOUS
<1> USE SizeAssumption
<1>1. request \in Request /\ request.len \in Nat
  BY DEF Init, Request
<1>2. TypeOK /\ Counted
  <2>1. ~over /\ over \in BOOLEAN /\ ~failed /\ failed \in BOOLEAN
    BY Zenon DEF Init
  <2>2. read = 0 /\ size = 0 /\ buf = 0 /\ ~(read > Limit)
    BY DEF Init
  <2> QED BY <1>1, <2>1, <2>2 DEF Init, TypeOK, Counted, Errors
<1>3. ErrorsMean /\ (st # "answered" <=> status = "none")
  BY Zenon DEF Init, ErrorsMean, Left
<1>4. StoredIsSigned /\ OversizeIsTooLarge /\ MismatchMeansOtherBytes
  BY <1>1 DEF Init, Stored, StoredIsSigned, OversizeIsTooLarge, MismatchMeansOtherBytes
<1> QED BY <1>1, <1>2, <1>3, <1>4 DEF IInv

(* The invariant holds throughout, for every size of body, cap and buffer. *)
THEOREM Invariance == Spec => []IInv
<1>1. Init => IInv
  BY InitEstablishes
<1>2. IInv /\ [Next]_vars => IInv'
  BY StepPreserves
<1> QED BY <1>1, <1>2, PTL DEF Spec

(* The counters of the guard, the wrappers and the read loop agree.         *)
THEOREM TypeCorrect == Spec => []TypeOK
<1>1. IInv => TypeOK
  BY DEF IInv
<1> QED BY <1>1, Invariance, PTL

(* A body is stored only whole and only if it hashes to what the proof     *)
(* signed: one that broke off never is, whatever the read loop made of it. *)
THEOREM StoredBodiesAreSigned == Spec => []StoredIsSigned
<1>1. IInv => StoredIsSigned
  BY DEF IInv
<1> QED BY <1>1, Invariance, PTL

(* No body over the cap is stored, and its sender is told 413.             *)
THEOREM OversizeIsRefused == Spec => []OversizeIsTooLarge
<1>1. IInv => OversizeIsTooLarge
  BY DEF IInv
<1> QED BY <1>1, Invariance, PTL

(* A digest mismatch is reported only to a client whose whole body arrived *)
(* and was not the signed one.                                             *)
THEOREM MismatchesAreReal == Spec => []MismatchMeansOtherBytes
<1>1. IInv => MismatchMeansOtherBytes
  BY DEF IInv
<1> QED BY <1>1, Invariance, PTL
===============================================================================
