----------------------------- MODULE ClientProofs -----------------------------
(***************************************************************************)
(* Proofs about Client, for any number of calls, copies and resends.       *)
(***************************************************************************)
EXTENDS Client, BlobKeysProofs

(* What the store holds and answers. *)
StoreOK ==
  /\ log \in [Stream -> Seq(Call \cup {"seed"})]
  /\ pending \in [Copy -> Key \cup {Store!NoKey}]
  /\ reply \in [Copy -> Ans]

(* A call knows its request once it has begun, has no answer before it     *)
(* returns, and waits for a copy that was sent.                            *)
CallsProceed ==
  \A c \in Call :
    /\ call[c].st = "new" => call[c].attempt = 1
    /\ call[c].st # "new" => call[c].req \in Request[c]
    /\ call[c].st # "returned" => call[c].ans = "none"
    /\ call[c].st = "waiting" => call[c].n >= 1 /\ copy[Current(c)].st # "unsent"

(* Call c may have put the n-th copy of attempt a on the wire. *)
Reached(c, a, n) ==
  \/ a < call[c].attempt
  \/ a = call[c].attempt /\ n <= call[c].n /\ call[c].st \in {"waiting", "returned"}

(* Only what its call has come to is on the wire; only a copy that was     *)
(* sent has an answer, and only one that is over an effect.                *)
CopiesAreSent ==
  \A d \in Copy :
    /\ copy[d].st # "unsent" => Reached(d[1], d[2], d[3])
    /\ copy[d].st = "unsent" => copy[d].ans = "none"
    /\ copy[d].did => copy[d].st = "over"

(* The copy was let through to a handler that has not yet failed to change *)
(* the store.                                                              *)
Passed(d) == copy[d].st = "handling" \/ copy[d].did

(* One copy per proof is let through, and a proof on record was carried by *)
(* a copy that reached the server.                                         *)
ProofsPassOnce ==
  /\ \A d \in Copy : Passed(d) => ProofOf(d) \in spent
  /\ \A d, e \in Copy : Passed(d) /\ Passed(e) /\ ProofOf(d) = ProofOf(e) => d = e
  /\ \A p \in spent : \E d \in Copy : ProofOf(d) = p /\ copy[d].st \in {"handling", "over"}

(* Attempt a of call c was put on the wire more than once. *)
Resent(c, a) ==
  \E d \in Copy : ProofOf(d) = <<c, a>> /\ d[3] > 1 /\ copy[d].st # "unsent"

(* No copy of attempt a of call c changes the store any more. *)
Settled(c, a) ==
  <<c, a>> \in spent /\ \A d \in Copy : ProofOf(d) = <<c, a>> => copy[d].st # "handling"

(* What an answer to attempt a of call c says about the copies of it. *)
Means(c, a, ans) ==
  /\ ans = "reused" => <<c, a>> \in spent /\ Resent(c, a)
  /\ ans \notin {"none", "failed", "reused"} => Settled(c, a)
  /\ call[c].req.op = "append" =>
       /\ ans = "stored" => \E d \in Copy : ProofOf(d) = <<c, a>> /\ copy[d].did
       /\ ans = "conflict" => \A d \in Copy : ProofOf(d) = <<c, a>> => ~copy[d].did

AnswersMean ==
  /\ \A d \in Copy : Means(d[1], d[2], copy[d].ans)
  /\ \A c \in Call : Means(c, call[c].attempt, call[c].ans)

(* A second attempt is the Go client's, for a request without a body whose *)
(* first proof a second copy was refused for; its last word on such a      *)
(* refusal comes from the second attempt.                                  *)
RetriesOnce ==
  \A c \in Call :
    /\ call[c].attempt = 2 => Bodyless(c) /\ <<c, 1>> \in spent /\ Resent(c, 1)
    /\ kind = "go" /\ call[c].ans = "reused" /\ Bodyless(c) => call[c].attempt = 2

IInv ==
  /\ TypeOK /\ StoreOK /\ CallsProceed /\ CopiesAreSent
  /\ ProofsPassOnce /\ AnswersMean /\ RetriesOnce
-------------------------------------------------------------------------------
(* The parts of TypeOK that are about the mutex. *)
MutexOK ==
  /\ limits \in BOOLEAN /\ mu \in Call \cup {"free"}
  /\ kind = "go" => \A c \in Call : mu = c <=> call[c].st = "fetching"
  /\ kind = "go" /\ limits => mu = "free"

(* TypeOK, part by part. *)
LEMMA TypeParts ==
  TypeOK <=> /\ kind \in Kinds /\ MutexOK /\ spent \subseteq Call \X (1..2)
             /\ call \in [Call -> CallState] /\ copy \in [Copy -> CopyState]
BY DEF TypeOK, MutexOK

(* The names of the answers are told apart. *)
LEMMA NamesDiffer ==
  /\ \A c \in Call : c # "free" /\ c # "none" /\ c # "failed" /\ c # "reused" /\ c # "internal"
  /\ "free" \notin Call
BY ClientAssumption DEF Outcome

(* A copy is the call, the attempt and the number it was sent under; the   *)
(* proof it carries tells the first two.                                   *)
LEMMA CopyParts ==
  /\ \A d \in Copy : /\ d = <<d[1], d[2], d[3]>>
                     /\ d[1] \in Call /\ d[2] \in 1..2 /\ d[3] \in 1..MaxCopies
                     /\ ProofOf(d) = <<d[1], d[2]>> /\ ProofOf(d) \in Call \X (1..2)
  /\ \A c \in Call, a \in 1..2, n \in 1..MaxCopies :
       /\ <<c, a, n>> \in Copy /\ ProofOf(<<c, a, n>>) = <<c, a>>
       /\ <<c, a, n>>[1] = c /\ <<c, a, n>>[2] = a /\ <<c, a, n>>[3] = n
BY DEF Copy, ProofOf

(* What a call and a copy are in a state of the invariant. *)
LEMMA StateFacts ==
  ASSUME TypeOK
  PROVE  /\ \A c \in Call : /\ call[c] \in CallState
                            /\ call[c].attempt \in 1..2 /\ call[c].n \in 0..MaxCopies
                            /\ call[c].ans \in Ans
         /\ \A d \in Copy : /\ copy[d] \in CopyState /\ copy[d].ans \in Ans
                            /\ copy[d].st \in {"unsent", "onway", "handling", "over"}
                            /\ copy[d].did \in BOOLEAN
BY DEF TypeOK, CallState, CopyState

(* The call waits for a copy of its own. *)
LEMMA CurrentFacts ==
  ASSUME IInv, NEW c \in Call, call[c].st = "waiting"
  PROVE  /\ Current(c) \in Copy /\ Current(c)[1] = c /\ Current(c)[2] = call[c].attempt
         /\ ProofOf(Current(c)) = <<c, call[c].attempt>>
         /\ Current(c)[3] = call[c].n /\ copy[Current(c)].st # "unsent"
<1>1. call[c].attempt \in 1..2 /\ call[c].n \in 0..MaxCopies
  BY StateFacts DEF IInv
<1>2. call[c].n >= 1 /\ copy[Current(c)].st # "unsent"
  BY DEF IInv, CallsProceed
<1>3. call[c].n \in 1..MaxCopies
  BY <1>1, <1>2, ClientAssumption
<1> QED BY <1>1, <1>2, <1>3, CopyParts DEF Current

(* Nothing is on the wire yet, and nobody has been let in. *)
LEMMA InitIInv == Init => IInv
<1> SUFFICES ASSUME Init PROVE IInv
  OBVIOUS
<1>1. ASSUME NEW c \in Call
      PROVE  call[c] = [st |-> "new", req |-> NoRequest, attempt |-> 1, n |-> 0, ans |-> "none"]
  BY DEF Init
<1>2. ASSUME NEW d \in Copy PROVE copy[d] = [st |-> "unsent", ans |-> "none", did |-> FALSE]
  BY DEF Init
<1>3. spent = {} /\ mu = "free" /\ limits = FALSE /\ kind \in Kinds
  BY DEF Init
<1>4. call \in [Call -> CallState]
  BY <1>1, ClientAssumption DEF Init, CallState, Ans, Outcome
<1>5. copy \in [Copy -> CopyState]
  BY <1>2 DEF Init, CopyState, Ans, Outcome
<1>6. MutexOK
  <2>1. \A c \in Call : mu # c /\ call[c].st # "fetching"
    BY <1>1, <1>3, NamesDiffer
  <2>2. limits \in BOOLEAN
    BY <1>3
  <2> QED BY <1>3, <2>1, <2>2, Zenon DEF MutexOK
<1>7. StoreOK
  <2>1. log \in [Stream -> Seq(Call \cup {"seed"})]
    <3>1. <<"seed">> \in Seq(Call \cup {"seed"}) /\ << >> \in Seq(Call \cup {"seed"})
      OBVIOUS
    <3> QED BY <3>1 DEF Init
  <2> QED BY <2>1 DEF Init, StoreOK, Ans, Outcome
<1>8. CallsProceed /\ CopiesAreSent
  BY <1>1, <1>2 DEF CallsProceed, CopiesAreSent
<1>9. ProofsPassOnce /\ RetriesOnce
  <2>1. \A d \in Copy : copy[d].st = "unsent" /\ copy[d].did = FALSE
    BY <1>2
  <2>2. ProofsPassOnce
    BY <1>3, <2>1 DEF ProofsPassOnce, Passed
  <2>3. RetriesOnce
    BY <1>1 DEF RetriesOnce
  <2> QED BY <2>2, <2>3
<1>10. AnswersMean
  BY <1>1, <1>2 DEF AnswersMean, Means
<1> QED BY <1>3, <1>4, <1>5, <1>6, <1>7, <1>8, <1>9, <1>10, TypeParts DEF IInv

-------------------------------------------------------------------------------
(* What no step undoes: a proof stays on record, a copy stays sent, none   *)
(* is let through with a proof on record, and only a copy that was let     *)
(* through changes the store.                                              *)
Grows ==
  /\ spent \subseteq spent'
  /\ \A e \in Copy : /\ copy[e].st # "unsent" => copy'[e].st # "unsent"
                     /\ copy'[e].st = "handling" => copy[e].st = "handling" \/ ProofOf(e) \notin spent
                     /\ copy[e].did => copy'[e].did
                     /\ copy'[e].did => Passed(e)

(* An attempt that was sent again has been for good. *)
LEMMA ResentKept ==
  ASSUME Grows, NEW c, NEW a, Resent(c, a)
  PROVE  Resent(c, a)'
BY DEF Grows, Resent, ProofOf

(* What an answer means stays true. *)
LEMMA MeaningKept ==
  ASSUME Grows, NEW c \in Call, NEW a, NEW ans, call'[c].req = call[c].req, Means(c, a, ans)
  PROVE  Means(c, a, ans)'
<1>1. ans = "reused" => <<c, a>> \in spent' /\ Resent(c, a)'
  BY ResentKept DEF Grows, Means
<1>2. Settled(c, a) => Settled(c, a)'
  BY DEF Settled, Grows, ProofOf
<1>3. ASSUME ans = "stored", call[c].req.op = "append"
      PROVE  \E d \in Copy : ProofOf(d) = <<c, a>> /\ copy'[d].did
  BY <1>3 DEF Means, Grows
<1>4. ASSUME ans = "conflict", call[c].req.op = "append"
      PROVE  \A d \in Copy : ProofOf(d) = <<c, a>> => ~copy'[d].did
  BY <1>4 DEF Means, Settled, Grows, Passed
<1> QED BY <1>1, <1>2, <1>3, <1>4 DEF Means, ProofOf

(* Every answer that a step leaves where it was, drops, or hands from the  *)
(* copy to its call keeps its meaning.                                     *)
LEMMA AnswersKept ==
  ASSUME IInv, TypeOK', Grows,
         \A d \in Copy :
           \/ copy'[d].ans = "none"
           \/ call'[d[1]].req = call[d[1]].req /\ copy'[d].ans = copy[d].ans
           \/ Means(d[1], d[2], copy[d].ans)',
         \A c \in Call :
           \/ call'[c].ans \in {"none", "failed"}
           \/ /\ call'[c].req = call[c].req /\ call'[c].attempt = call[c].attempt
              /\ \/ call'[c].ans = call[c].ans
                 \/ call[c].st = "waiting" /\ call'[c].ans = copy[Current(c)].ans
  PROVE  AnswersMean'
<1>1. ASSUME NEW d \in Copy PROVE Means(d[1], d[2], copy[d].ans)'
  <2> SUFFICES ASSUME NEW ans, copy'[d].ans = ans PROVE Means(d[1], d[2], ans)'
    BY DEF Means
  <2>0. d[1] \in Call
    BY CopyParts
  <2>1. CASE ans = "none"
    BY <2>1 DEF Means
  <2>2. CASE call'[d[1]].req = call[d[1]].req /\ copy'[d].ans = copy[d].ans
    <3>1. Means(d[1], d[2], ans)
      BY <2>2 DEF IInv, AnswersMean
    <3> QED BY <2>0, <2>2, <3>1, MeaningKept
  <2>3. CASE Means(d[1], d[2], copy[d].ans)'
    BY <2>3 DEF Means
  <2> QED BY <2>1, <2>2, <2>3
<1>2. ASSUME NEW c \in Call PROVE Means(c, call[c].attempt, call[c].ans)'
  <2> SUFFICES ASSUME NEW ans, call'[c].ans = ans, NEW a, call'[c].attempt = a PROVE Means(c, a, ans)'
    BY DEF Means
  <2>1. CASE ans \in {"none", "failed"}
    BY <2>1 DEF Means
  <2>2. CASE call'[c].req = call[c].req /\ call[c].attempt = a /\ ans = call[c].ans
    <3>1. Means(c, a, ans)
      BY <2>2 DEF IInv, AnswersMean
    <3> QED BY <2>2, <3>1, MeaningKept
  <2>3. CASE /\ call'[c].req = call[c].req /\ call[c].attempt = a
             /\ call[c].st = "waiting" /\ ans = copy[Current(c)].ans
    <3>1. Means(c, a, ans)
      BY <2>3, CurrentFacts DEF IInv, AnswersMean
    <3> QED BY <2>3, <3>1, MeaningKept
  <2> QED BY <2>1, <2>2, <2>3
<1> QED BY <1>1, <1>2 DEF AnswersMean

-------------------------------------------------------------------------------
(* A step of call c: it may put copies of its request on the wire and take *)
(* an answer, and it touches nothing else.                                 *)
CallMoves(c) ==
  /\ UNCHANGED <<kind, spent, storeVars>>
  /\ MutexOK'
  /\ call' = [call EXCEPT ![c] = call'[c]]
  /\ call'[c] \in CallState
  /\ call'[c].st # "new" /\ call[c].st # "returned"
  /\ IF call[c].st = "new" THEN call'[c].req \in Request[c] ELSE call'[c].req = call[c].req
  /\ \A a \in 1..2, n \in 1..MaxCopies : Reached(c, a, n) => Reached(c, a, n)'
  /\ call'[c].attempt # call[c].attempt =>
       call[c].st = "waiting" /\ Retries(c) /\ call'[c].ans = "none"
  /\ call'[c].st # "returned" => call'[c].ans = "none"
  /\ \/ call'[c].ans \in {"none", "failed"}
     \/ call[c].st = "waiting" /\ ~Retries(c) /\ call'[c].ans = copy[Current(c)].ans
  /\ call'[c].st = "waiting" => call'[c].n >= 1 /\ copy'[Current(c)'].st # "unsent"
  /\ copy' \in [Copy -> CopyState]
  /\ \A d \in Copy : /\ copy'[d].did = copy[d].did
                     /\ copy'[d].ans \in {copy[d].ans, "none"}
                     /\ \/ copy'[d].st = copy[d].st
                        \/ /\ copy[d].st = "unsent" /\ copy'[d].st = "onway"
                           /\ d[1] = c /\ Reached(d[1], d[2], d[3])'

(* Such a step keeps the invariant. *)
LEMMA CallMovesKeep ==
  ASSUME IInv, NEW c \in Call, CallMoves(c)
  PROVE  IInv'
<1>1. /\ call'[c] \in CallState /\ \A b \in Call : b # c => call'[b] = call[b]
      /\ call' \in [Call -> CallState]
  BY DEF CallMoves, IInv, TypeOK
<1>2. TypeOK'
  <2>1. kind' \in Kinds /\ spent' \subseteq Call \X (1..2)
    BY DEF CallMoves, IInv, TypeOK
  <2>2. MutexOK' /\ copy' \in [Copy -> CopyState]
    BY DEF CallMoves
  <2> QED BY <1>1, <2>1, <2>2 DEF TypeOK, MutexOK
<1>3. StoreOK'
  BY DEF IInv, StoreOK, CallMoves, storeVars
<1>4. Grows
  BY StateFacts DEF Grows, CallMoves, IInv, Passed
<1>5. CallsProceed'
  <2> SUFFICES ASSUME NEW b \in Call
               PROVE  /\ call'[b].st = "new" => call'[b].attempt = 1
                      /\ call'[b].st # "new" => call'[b].req \in Request[b]
                      /\ call'[b].st # "returned" => call'[b].ans = "none"
                      /\ call'[b].st = "waiting" => call'[b].n >= 1 /\ copy'[Current(b)'].st # "unsent"
    BY DEF CallsProceed
  <2>1. CASE b = c
    BY <2>1 DEF CallMoves, IInv, CallsProceed
  <2>2. CASE b # c
    <3>1. call'[b] = call[b]
      BY <1>1, <2>2
    <3>2. call[b].st = "waiting" => copy'[Current(b)].st # "unsent"
      BY CurrentFacts, <1>4 DEF Grows
    <3>3. Current(b)' = Current(b)
      BY <3>1 DEF Current
    <3> QED BY <3>1, <3>2, <3>3 DEF IInv, CallsProceed
  <2> QED BY <2>1, <2>2
<1>6. ASSUME NEW d \in Copy, Reached(d[1], d[2], d[3]) PROVE Reached(d[1], d[2], d[3])'
  <2>1. d[1] \in Call /\ d[2] \in 1..2 /\ d[3] \in 1..MaxCopies
    BY CopyParts
  <2>2. CASE d[1] = c
    BY <1>6, <2>1, <2>2 DEF CallMoves
  <2>3. CASE d[1] # c
    BY <1>1, <1>6, <2>1, <2>3 DEF Reached
  <2> QED BY <2>2, <2>3
<1>7. CopiesAreSent'
  <2> SUFFICES ASSUME NEW d \in Copy
               PROVE  /\ copy'[d].st # "unsent" => Reached(d[1], d[2], d[3])'
                      /\ copy'[d].st = "unsent" => copy'[d].ans = "none"
                      /\ copy'[d].did => copy'[d].st = "over"
    BY DEF CopiesAreSent
  <2>1. /\ copy[d].st # "unsent" => Reached(d[1], d[2], d[3])
        /\ copy[d].st = "unsent" => copy[d].ans = "none"
        /\ copy[d].did => copy[d].st = "over"
    BY DEF IInv, CopiesAreSent
  <2>2. /\ copy'[d].did = copy[d].did
        /\ copy'[d].ans \in {copy[d].ans, "none"}
        /\ \/ copy'[d].st = copy[d].st
           \/ copy[d].st = "unsent" /\ copy'[d].st = "onway" /\ Reached(d[1], d[2], d[3])'
    BY DEF CallMoves
  <2> QED BY <1>6, <2>1, <2>2
<1>8. ProofsPassOnce'
  <2>1. ASSUME NEW d \in Copy PROVE Passed(d)' <=> Passed(d)
    BY <2>1 DEF CallMoves, Passed
  <2>2. \A d \in Copy : copy[d].st \in {"handling", "over"} => copy'[d].st \in {"handling", "over"}
    BY DEF CallMoves
  <2>3. spent' = spent
    BY DEF CallMoves
  <2>4. /\ \A d \in Copy : Passed(d)' => ProofOf(d) \in spent'
        /\ \A d, e \in Copy : Passed(d)' /\ Passed(e)' /\ ProofOf(d) = ProofOf(e) => d = e
    BY <2>1, <2>3 DEF IInv, ProofsPassOnce
  <2>5. \A p \in spent' : \E d \in Copy : ProofOf(d) = p /\ copy'[d].st \in {"handling", "over"}
    BY <2>2, <2>3 DEF IInv, ProofsPassOnce
  <2> QED BY <2>4, <2>5 DEF ProofsPassOnce, ProofOf
<1>9. call[c].st = "new" =>
        /\ call[c].attempt = 1 /\ call'[c].ans \in {"none", "failed"}
        /\ \A d \in Copy : d[1] = c => copy'[d].ans = "none"
  <2> SUFFICES ASSUME call[c].st = "new"
               PROVE  /\ call[c].attempt = 1 /\ call'[c].ans \in {"none", "failed"}
                      /\ \A d \in Copy : d[1] = c => copy'[d].ans = "none"
    OBVIOUS
  <2>1. call[c].attempt = 1 /\ call'[c].ans \in {"none", "failed"}
    BY DEF IInv, CallsProceed, CallMoves
  <2>2. ASSUME NEW d \in Copy, d[1] = c PROVE copy[d].ans = "none"
    <3>1. ~Reached(d[1], d[2], d[3])
      BY <2>1, <2>2, CopyParts DEF Reached
    <3> QED BY <3>1 DEF IInv, CopiesAreSent
  <2> QED BY <2>1, <2>2 DEF CallMoves
<1>10. AnswersMean'
  <2>1. ASSUME NEW d \in Copy
        PROVE  \/ copy'[d].ans = "none"
               \/ call'[d[1]].req = call[d[1]].req /\ copy'[d].ans = copy[d].ans
    BY <1>1, <1>9, CopyParts DEF CallMoves
  <2>2. ASSUME NEW b \in Call
        PROVE  \/ call'[b].ans \in {"none", "failed"}
               \/ /\ call'[b].req = call[b].req /\ call'[b].attempt = call[b].attempt
                  /\ \/ call'[b].ans = call[b].ans
                     \/ call[b].st = "waiting" /\ call'[b].ans = copy[Current(b)].ans
    <3>1. CASE b = c
      BY <1>9, <3>1 DEF CallMoves
    <3>2. CASE b # c
      BY <1>1, <3>2
    <3> QED BY <3>1, <3>2
  <2> QED BY <1>2, <1>4, <2>1, <2>2, AnswersKept
<1>11. RetriesOnce'
  <2> SUFFICES ASSUME NEW b \in Call
               PROVE  /\ call'[b].attempt = 2 => Bodyless(b)' /\ <<b, 1>> \in spent' /\ Resent(b, 1)'
                      /\ kind' = "go" /\ call'[b].ans = "reused" /\ Bodyless(b)' => call'[b].attempt = 2
    BY DEF RetriesOnce
  <2>0. /\ call[b].attempt = 2 => Bodyless(b) /\ <<b, 1>> \in spent /\ Resent(b, 1)
        /\ kind = "go" /\ call[b].ans = "reused" /\ Bodyless(b) => call[b].attempt = 2
    BY DEF IInv, RetriesOnce
  <2>1. spent' = spent /\ kind' = kind /\ (Resent(b, 1) => Resent(b, 1)')
    BY <1>4, ResentKept DEF CallMoves
  <2>2. CASE b # c
    BY <1>1, <2>0, <2>1, <2>2 DEF Bodyless
  <2>3. CASE b = c /\ call[c].st = "new"
    BY <1>9, <2>3 DEF CallMoves
  <2>4. CASE b = c /\ call[c].st # "new"
    <3>1. call'[c].req = call[c].req /\ (Bodyless(c)' <=> Bodyless(c))
      BY <2>4 DEF CallMoves, Bodyless
    <3>2. ASSUME call[c].st = "waiting", Retries(c) PROVE <<c, 1>> \in spent /\ Resent(c, 1)
      <4>1. call[c].attempt = 1 /\ copy[Current(c)].ans = "reused"
        BY <3>2 DEF Retries
      <4>2. Means(c, 1, "reused")
        BY <3>2, <4>1, CurrentFacts DEF IInv, AnswersMean
      <4> QED BY <4>2 DEF Means
    <3>3. call'[c].attempt = 2 => Bodyless(c)' /\ <<c, 1>> \in spent' /\ Resent(c, 1)'
      <4>1. CASE call'[c].attempt = call[c].attempt
        BY <2>0, <2>1, <2>4, <3>1, <4>1
      <4>2. CASE call'[c].attempt # call[c].attempt
        BY <2>1, <2>4, <3>1, <3>2, <4>2 DEF CallMoves, Retries
      <4> QED BY <4>1, <4>2
    <3>4. ASSUME kind = "go", call'[c].ans = "reused", Bodyless(c) PROVE call'[c].attempt = 2
      <4>1. call[c].st = "waiting" /\ ~Retries(c) /\ copy[Current(c)].ans = "reused"
        BY <3>4 DEF CallMoves
      <4>2. call[c].attempt # 1
        BY <3>4, <4>1 DEF Retries
      <4>3. call'[c].attempt = call[c].attempt
        BY <3>4 DEF CallMoves
      <4> QED BY <4>2, <4>3, StateFacts DEF IInv
    <3> QED BY <2>1, <2>4, <3>1, <3>3, <3>4
  <2> QED BY <2>2, <2>3, <2>4
<1> QED BY <1>2, <1>3, <1>5, <1>7, <1>8, <1>10, <1>11 DEF IInv

(* To give a field the value it has is to leave it alone. *)
LEMMA SameField ==
  ASSUME NEW s \in CallState, NEW st, NEW ans, NEW a, NEW n
  PROVE  /\ s.ans = "none" => [s EXCEPT !.st = st, !.ans = "none"] = [s EXCEPT !.st = st]
         /\ s.ans = "none" =>
              [s EXCEPT !.st = st, !.attempt = a, !.ans = "none"] = [s EXCEPT !.st = st, !.attempt = a]
         /\ [s EXCEPT !.st = st, !.attempt = s.attempt, !.ans = ans] = [s EXCEPT !.st = st, !.ans = ans]
         /\ s.st = "waiting" => [s EXCEPT !.st = "waiting", !.n = n] = [s EXCEPT !.n = n]
<1>1. s.ans = "none" => [s EXCEPT !.st = st, !.ans = "none"] = [s EXCEPT !.st = st]
  BY DEF CallState
<1>2. s.ans = "none" =>
        [s EXCEPT !.st = st, !.attempt = a, !.ans = "none"] = [s EXCEPT !.st = st, !.attempt = a]
  BY DEF CallState
<1>3. [s EXCEPT !.st = st, !.attempt = s.attempt, !.ans = ans] = [s EXCEPT !.st = st, !.ans = ans]
  BY DEF CallState
<1>4. s.st = "waiting" => [s EXCEPT !.st = "waiting", !.n = n] = [s EXCEPT !.n = n]
  BY DEF CallState
<1> QED BY <1>1, <1>2, <1>3, <1>4

(* The mutex is of no concern to a step that neither starts nor ends a     *)
(* fetch of the limits.                                                    *)
LEMMA MutexUntouched ==
  ASSUME IInv, UNCHANGED <<kind, limits, mu>>,
         \A b \in Call : call'[b].st = "fetching" <=> call[b].st = "fetching"
  PROVE  MutexOK'
<1>1. MutexOK
  BY TypeParts DEF IInv
<1> QED BY <1>1 DEF MutexOK

(* A step of a call that has nothing on the wire. *)
LEMMA LocalMoves ==
  ASSUME IInv, NEW c \in Call,
         UNCHANGED <<kind, copy, spent, storeVars>>, MutexOK',
         call' = [call EXCEPT ![c] = call'[c]], call'[c] \in CallState,
         call[c].st \in {"new", "start", "fetching", "ready"},
         call'[c].st \in {"start", "fetching", "ready", "returned"},
         call'[c].attempt = call[c].attempt, call'[c].n = call[c].n,
         IF call[c].st = "new" THEN call'[c].req \in Request[c] ELSE call'[c].req = call[c].req,
         call'[c].ans = IF call'[c].st = "returned" THEN "failed" ELSE "none"
  PROVE  CallMoves(c)
<1>1. \A a \in 1..2, n \in 1..MaxCopies : Reached(c, a, n) => Reached(c, a, n)'
  BY DEF Reached
<1>2. copy' \in [Copy -> CopyState]
  BY DEF IInv, TypeOK
<1> QED BY <1>1, <1>2 DEF CallMoves

(* A call begins with one of its requests. *)
LEMMA BeginKeeps ==
  ASSUME IInv, NEW c \in Call, NEW r \in Request[c], Begin(c, r)
  PROVE  IInv'
<1> DEFINE new == [call[c] EXCEPT !.st = "start", !.req = r]
<1>1. call[c] \in CallState /\ call[c].st = "new" /\ call[c].ans = "none"
  BY StateFacts DEF Begin, IInv, CallsProceed
<1>2. call' = [call EXCEPT ![c] = new]
  BY DEF Begin, IInv, TypeOK
<1>3. r \in [op : Op, k : Key]
  BY ClientAssumption
<1>4. /\ new \in CallState /\ new.st = "start" /\ new.req = r /\ new.ans = call[c].ans
      /\ new.attempt = call[c].attempt /\ new.n = call[c].n
  BY <1>1, <1>3 DEF CallState
<1> HIDE DEF new
<1>5. call'[c] = new /\ \A b \in Call : b # c => call'[b] = call[b]
  BY <1>2 DEF IInv, TypeOK
<1>6. MutexOK'
  BY <1>1, <1>4, <1>5, MutexUntouched DEF Begin
<1>7. CallMoves(c)
  BY <1>1, <1>2, <1>4, <1>5, <1>6, LocalMoves DEF Begin
<1> QED BY <1>7, CallMovesKeep

(* A call that has not sent anything goes on or gives up. *)
LEMMA StartKeeps ==
  ASSUME IInv, NEW c \in Call,
         LocalError(c) \/ Limits(c) \/ LimitsTs(c) \/ Fetched(c) \/ FetchFailed(c)
  PROVE  IInv'
<1>0. MutexOK /\ kind \in {"go", "ts"} /\ limits \in BOOLEAN
  BY TypeParts, ClientAssumption DEF IInv, MutexOK
<1>1. /\ call[c] \in CallState /\ call[c].st \in {"start", "fetching", "ready"}
      /\ call[c].ans = "none"
  BY StateFacts DEF LocalError, Limits, LimitsTs, Fetched, FetchFailed, IInv, CallsProceed
<1>2. PICK st \in {"fetching", "ready", "returned"} :
        call' = [call EXCEPT ![c] = [call[c] EXCEPT !.st = st,
                                       !.ans = IF st = "returned" THEN "failed" ELSE "none"]]
  <2>1. call \in [Call -> CallState]
    BY DEF IInv, TypeOK
  <2>2. CASE LocalError(c) \/ FetchFailed(c)
    BY <1>1, <2>1, <2>2 DEF LocalError, FetchFailed, Returned, CallState
  <2>3. CASE Fetched(c)
    BY <1>1, <2>1, <2>3 DEF Fetched, CallState
  <2>4. CASE Limits(c) \/ LimitsTs(c)
    <3>1. PICK st \in {"fetching", "ready"} : call' = [call EXCEPT ![c].st = st]
      BY <2>4 DEF Limits, LimitsTs
    <3>2. call' = [call EXCEPT ![c] = [call[c] EXCEPT !.st = st]]
      BY <3>1
    <3>3. [call[c] EXCEPT !.st = st] = [call[c] EXCEPT !.st = st, !.ans = "none"]
      BY <1>1, SameField
    <3>4. call' = [call EXCEPT ![c] = [call[c] EXCEPT !.st = st,
                                         !.ans = IF st = "returned" THEN "failed" ELSE "none"]]
      BY <3>1, <3>2, <3>3
    <3> QED BY <3>1, <3>4
  <2> QED BY <2>2, <2>3, <2>4
<1> DEFINE new == [call[c] EXCEPT !.st = st, !.ans = IF st = "returned" THEN "failed" ELSE "none"]
<1>4. /\ new \in CallState /\ new.st = st /\ new.req = call[c].req
      /\ new.ans = IF st = "returned" THEN "failed" ELSE "none"
      /\ new.attempt = call[c].attempt /\ new.n = call[c].n
  BY <1>1 DEF CallState, Ans, Outcome
<1>5. call' = [call EXCEPT ![c] = new]
  BY <1>2
<1> HIDE DEF new
<1>6. call'[c] = new /\ \A b \in Call : b # c => call'[b] = call[b]
  BY <1>5 DEF IInv, TypeOK
<1>7. UNCHANGED <<kind, copy, spent, storeVars>>
  BY DEF LocalError, Limits, LimitsTs, Fetched, FetchFailed
<1>8. MutexOK'
  <2>1. CASE LocalError(c)
    <3>1. call'[c].st # "fetching" /\ call[c].st # "fetching"
      BY <2>1, <1>1 DEF LocalError, Returned, IInv, TypeOK, CallState
    <3> QED BY <2>1, <3>1, <1>6, MutexUntouched DEF LocalError
  <2>2. CASE Limits(c)
    <3>1. /\ kind = "go" /\ mu = "free" /\ (limits' <=> limits) /\ kind' = kind
          /\ limits => call'[c].st = "ready" /\ mu' = "free"
          /\ ~limits => call'[c].st = "fetching" /\ mu' = c
      BY <2>2, <1>0, <1>1 DEF Limits, IInv, TypeOK, CallState
    <3>2. \A b \in Call : call[b].st # "fetching"
      BY <1>0, <3>1, NamesDiffer DEF MutexOK
    <3>3. limits' \in BOOLEAN
      BY <2>2, <1>0 DEF Limits
    <3>4. CASE limits
      BY <1>6, <3>1, <3>2, <3>3, <3>4, NamesDiffer DEF MutexOK
    <3>5. CASE ~limits
      BY <1>6, <3>1, <3>2, <3>3, <3>5, NamesDiffer DEF MutexOK
    <3> QED BY <3>4, <3>5
  <2>3. CASE LimitsTs(c)
    BY <2>3, <1>0 DEF LimitsTs, MutexOK
  <2>4. CASE Fetched(c) \/ FetchFailed(c)
    <3>1. call[c].st = "fetching" /\ mu' = "free" /\ kind' = kind /\ limits' \in BOOLEAN
      BY <2>4, <1>0 DEF Fetched, FetchFailed
    <3>2. call'[c].st # "fetching"
      BY <2>4, <1>1 DEF Fetched, FetchFailed, Returned, IInv, TypeOK, CallState
    <3>3. kind = "go" => \A b \in Call : call'[b].st # "fetching"
      BY <1>0, <1>6, <3>1, <3>2 DEF MutexOK
    <3> QED BY <3>1, <3>3, NamesDiffer DEF MutexOK
  <2> QED BY <2>1, <2>2, <2>3, <2>4
<1>9. CallMoves(c)
  BY <1>1, <1>4, <1>5, <1>6, <1>7, <1>8, LocalMoves
<1> QED BY <1>9, CallMovesKeep

(* The first copy of an attempt, or another copy of one, goes out. *)
LEMMA SendKeeps ==
  ASSUME IInv, NEW c \in Call, Send(c) \/ Resend(c)
  PROVE  IInv'
<1>1. /\ call[c] \in CallState /\ call[c].attempt \in 1..2 /\ call[c].n \in 0..MaxCopies
      /\ call[c].st \in {"ready", "waiting"} /\ call[c].ans = "none"
      /\ call \in [Call -> CallState] /\ copy \in [Copy -> CopyState]
  BY StateFacts DEF Send, Resend, IInv, TypeOK, CallsProceed
<1>2. PICK n \in 1..MaxCopies :
        /\ call' = [call EXCEPT ![c] = [call[c] EXCEPT !.st = "waiting", !.n = n]]
        /\ copy' = [copy EXCEPT ![<<c, call[c].attempt, n>>].st = "onway"]
        /\ call[c].st = "waiting" => n = call[c].n + 1
  <2>1. CASE Send(c)
    <3>1. call' = [call EXCEPT ![c] = [call[c] EXCEPT !.st = "waiting", !.n = 1]]
      BY <1>1, <2>1 DEF Send
    <3>2. 1 \in 1..MaxCopies /\ call[c].st # "waiting"
      BY <2>1, ClientAssumption DEF Send
    <3> QED BY <2>1, <3>1, <3>2 DEF Send
  <2>2. CASE Resend(c)
    <3>1. call[c].n + 1 \in 1..MaxCopies
      BY <1>1, <2>2, ClientAssumption DEF Resend
    <3>2. call' = [call EXCEPT ![c] = [call[c] EXCEPT !.n = call[c].n + 1]] /\ call[c].st = "waiting"
      BY <1>1, <2>2 DEF Resend
    <3>3. [call[c] EXCEPT !.n = call[c].n + 1] = [call[c] EXCEPT !.st = "waiting", !.n = call[c].n + 1]
      BY <1>1, <3>2, SameField
    <3>4. call' = [call EXCEPT ![c] = [call[c] EXCEPT !.st = "waiting", !.n = call[c].n + 1]]
      BY <3>2, <3>3
    <3> QED BY <2>2, <3>1, <3>4 DEF Resend
  <2> QED BY <2>1, <2>2
<1>3. PICK e \in Copy : e = <<c, call[c].attempt, n>>
  BY <1>1, CopyParts
<1>4. e[1] = c /\ e[2] = call[c].attempt /\ e[3] = n
  BY <1>1, <1>3, CopyParts
<1>5. copy[e].st = "unsent"
  <2>1. ~Reached(c, e[2], e[3])
    BY <1>1, <1>2, <1>4 DEF Reached
  <2> QED BY <1>4, <2>1 DEF IInv, CopiesAreSent
<1> DEFINE new == [call[c] EXCEPT !.st = "waiting", !.n = n]
<1>6. /\ new \in CallState /\ new.st = "waiting" /\ new.req = call[c].req /\ new.ans = "none"
      /\ new.attempt = call[c].attempt /\ new.n = n
  <2>1. n \in 0..MaxCopies
    OBVIOUS
  <2> QED BY <1>1, <2>1 DEF CallState
<1>7. call' = [call EXCEPT ![c] = new]
  BY <1>2
<1> HIDE DEF new
<1>8. call'[c] = new /\ \A b \in Call : b # c => call'[b] = call[b]
  BY <1>1, <1>7
<1>9. /\ copy' \in [Copy -> CopyState] /\ copy'[e].st = "onway"
      /\ copy'[e].ans = copy[e].ans /\ copy'[e].did = copy[e].did
      /\ \A d \in Copy : d # e => copy'[d] = copy[d]
  <2>1. copy' = [copy EXCEPT ![e].st = "onway"]
    BY <1>2, <1>3
  <2> QED BY <1>1, <2>1 DEF CopyState
<1>10. UNCHANGED <<kind, limits, mu, spent, storeVars>>
  BY DEF Send, Resend
<1>11. MutexOK'
  BY <1>1, <1>6, <1>8, <1>10, MutexUntouched
<1>12. \A a \in 1..2, m \in 1..MaxCopies : Reached(c, a, m) => Reached(c, a, m)'
  BY <1>1, <1>2, <1>6, <1>8 DEF Reached
<1>13. Current(c)' = e
  BY <1>3, <1>6, <1>8 DEF Current
<1>14. Reached(e[1], e[2], e[3])'
  BY <1>1, <1>4, <1>6, <1>8 DEF Reached
<1>15. CallMoves(c)
  <2>1. \A d \in Copy : /\ copy'[d].did = copy[d].did
                        /\ copy'[d].ans \in {copy[d].ans, "none"}
                        /\ \/ copy'[d].st = copy[d].st
                           \/ /\ copy[d].st = "unsent" /\ copy'[d].st = "onway"
                              /\ d[1] = c /\ Reached(d[1], d[2], d[3])'
    BY <1>4, <1>5, <1>9, <1>14
  <2>2. call'[c].n >= 1 /\ copy'[Current(c)'].st # "unsent"
    BY <1>6, <1>8, <1>9, <1>13
  <2> QED BY <1>1, <1>6, <1>7, <1>8, <1>9, <1>10, <1>11, <1>12, <2>1, <2>2 DEF CallMoves
<1> QED BY <1>15, CallMovesKeep

(* The call takes an answer, signs a second proof, or gives up waiting. *)
LEMMA ReceiveKeeps ==
  ASSUME IInv, NEW c \in Call, Receive(c) \/ GiveUp(c)
  PROVE  IInv'
<1>1. /\ call[c] \in CallState /\ call[c].attempt \in 1..2 /\ call[c].n \in 0..MaxCopies
      /\ call[c].st = "waiting" /\ call[c].ans = "none"
      /\ call \in [Call -> CallState] /\ copy \in [Copy -> CopyState]
  BY StateFacts DEF Receive, GiveUp, IInv, TypeOK, CallsProceed
<1>2. PICK e \in Copy : e = Current(c)
  BY <1>1, CurrentFacts
<1>3. copy[e].ans \in Ans
  BY StateFacts DEF IInv
<1>4. PICK st \in {"ready", "returned"}, a \in 1..2, ans \in Ans :
        /\ call' = [call EXCEPT ![c] = [call[c] EXCEPT !.st = st, !.attempt = a, !.ans = ans]]
        /\ \/ st = "ready" /\ Retries(c) /\ a = 2 /\ ans = "none"
           \/ st = "returned" /\ a = call[c].attempt /\ ans = "failed"
           \/ st = "returned" /\ a = call[c].attempt /\ ans = copy[Current(c)].ans /\ ~Retries(c)
  <2>1. "none" \in Ans /\ "failed" \in Ans
    BY DEF Ans, Outcome
  <2>2. CASE GiveUp(c)
    <3>1. call' = [call EXCEPT ![c] = [call[c] EXCEPT !.st = "returned", !.ans = "failed"]]
      BY <1>1, <2>2 DEF GiveUp, Returned
    <3>2. [call[c] EXCEPT !.st = "returned", !.ans = "failed"]
            = [call[c] EXCEPT !.st = "returned", !.attempt = call[c].attempt, !.ans = "failed"]
      BY <1>1, SameField
    <3>3. call' = [call EXCEPT ![c] = [call[c] EXCEPT !.st = "returned", !.attempt = call[c].attempt,
                                                      !.ans = "failed"]]
      BY <3>1, <3>2
    <3> QED BY <1>1, <2>1, <3>3
  <2>3. CASE Receive(c) /\ Retries(c)
    <3>1. call' = [call EXCEPT ![c] = [call[c] EXCEPT !.st = "ready", !.attempt = 2]]
      BY <1>1, <2>3 DEF Receive
    <3>2. 2 \in 1..2
      OBVIOUS
    <3>3. [call[c] EXCEPT !.st = "ready", !.attempt = 2]
            = [call[c] EXCEPT !.st = "ready", !.attempt = 2, !.ans = "none"]
      BY <1>1, SameField
    <3>4. call' = [call EXCEPT ![c] = [call[c] EXCEPT !.st = "ready", !.attempt = 2, !.ans = "none"]]
      BY <3>1, <3>3
    <3> QED BY <2>1, <2>3, <3>2, <3>4
  <2>4. CASE Receive(c) /\ ~Retries(c)
    <3>1. call' = [call EXCEPT ![c] = [call[c] EXCEPT !.st = "returned", !.ans = copy[Current(c)].ans]]
      BY <1>1, <2>4 DEF Receive, Returned
    <3> QED BY <1>1, <1>2, <1>3, <2>4, <3>1, SameField
  <2> QED BY <2>2, <2>3, <2>4
<1> DEFINE new == [call[c] EXCEPT !.st = st, !.attempt = a, !.ans = ans]
<1>5. /\ new \in CallState /\ new.st = st /\ new.req = call[c].req /\ new.ans = ans
      /\ new.attempt = a /\ new.n = call[c].n
  BY <1>1 DEF CallState
<1>6. call' = [call EXCEPT ![c] = new]
  BY <1>4
<1> HIDE DEF new
<1>7. call'[c] = new /\ \A b \in Call : b # c => call'[b] = call[b]
  BY <1>1, <1>6
<1>8. /\ copy' \in [Copy -> CopyState] /\ copy'[e].ans = "none"
      /\ copy'[e].st = copy[e].st /\ copy'[e].did = copy[e].did
      /\ \A d \in Copy : d # e => copy'[d] = copy[d]
  <2>1. copy' = [copy EXCEPT ![e].ans = "none"]
    BY <1>2 DEF Receive, GiveUp
  <2> QED BY <1>1, <2>1 DEF CopyState, Ans, Outcome
<1>9. UNCHANGED <<kind, limits, mu, spent, storeVars>>
  BY DEF Receive, GiveUp
<1>10. MutexOK'
  BY <1>1, <1>5, <1>7, <1>9, MutexUntouched
<1>11. \A b \in 1..2, m \in 1..MaxCopies : Reached(c, b, m) => Reached(c, b, m)'
  BY <1>1, <1>4, <1>5, <1>7 DEF Reached, Retries
<1>12. CallMoves(c)
  BY <1>1, <1>4, <1>5, <1>6, <1>7, <1>8, <1>9, <1>10, <1>11 DEF CallMoves
<1> QED BY <1>12, CallMovesKeep

-------------------------------------------------------------------------------
(* A step of the server or of the network with copy d: it is let through   *)
(* with a proof that is not on record, or it is over.                      *)
CopyMoves(d) ==
  /\ UNCHANGED <<kind, limits, mu, call>>
  /\ StoreOK'
  /\ copy[d].st \in {"onway", "handling"}
  /\ copy' = [copy EXCEPT ![d] = copy'[d]]
  /\ copy'[d] \in CopyState
  /\ spent' \in {spent, spent \cup {ProofOf(d)}}
  /\ \/ /\ copy[d].st = "onway" /\ copy'[d].st = "handling" /\ ~copy'[d].did
        /\ ProofOf(d) \notin spent /\ ProofOf(d) \in spent'
     \/ /\ copy'[d].st = "over"
        /\ copy'[d].did => copy[d].st = "handling"
  /\ copy'[d].ans = copy[d].ans \/ Means(d[1], d[2], copy[d].ans)'

(* Such a step keeps the invariant. *)
LEMMA CopyMovesKeep ==
  ASSUME IInv, NEW d \in Copy, CopyMoves(d)
  PROVE  IInv'
<1>1. /\ copy'[d] \in CopyState /\ \A e \in Copy : e # d => copy'[e] = copy[e]
      /\ copy' \in [Copy -> CopyState]
  BY DEF CopyMoves, IInv, TypeOK
<1>2. /\ copy[d].st \in {"onway", "handling"} /\ ~copy[d].did
      /\ copy'[d].st \in {"handling", "over"}
  BY DEF CopyMoves, IInv, CopiesAreSent
<1>3. spent \subseteq spent' /\ spent' \subseteq spent \cup {ProofOf(d)} /\ call' = call /\ kind' = kind
  BY DEF CopyMoves
<1>4. TypeOK'
  <2>1. spent' \subseteq Call \X (1..2)
    BY <1>3, CopyParts DEF IInv, TypeOK
  <2> QED BY <1>1, <2>1 DEF TypeOK, IInv, CopyMoves
<1>5. StoreOK'
  BY DEF CopyMoves
<1>6. Grows
  <2> SUFFICES ASSUME NEW e \in Copy
               PROVE  /\ copy[e].st # "unsent" => copy'[e].st # "unsent"
                      /\ copy'[e].st = "handling" => copy[e].st = "handling" \/ ProofOf(e) \notin spent
                      /\ copy[e].did => copy'[e].did
                      /\ copy'[e].did => Passed(e)
    BY <1>3 DEF Grows
  <2>1. CASE e = d
    BY <1>2, <2>1 DEF CopyMoves, Passed
  <2>2. CASE e # d
    BY <1>1, <2>2 DEF Passed
  <2> QED BY <2>1, <2>2
<1>7. CallsProceed'
  <2> SUFFICES ASSUME NEW c \in Call, call[c].st = "waiting" PROVE copy'[Current(c)].st # "unsent"
    BY <1>3 DEF CallsProceed, IInv, Current
  <2> QED BY CurrentFacts, <1>6 DEF Grows
<1>8. CopiesAreSent'
  <2> SUFFICES ASSUME NEW e \in Copy
               PROVE  /\ copy'[e].st # "unsent" => Reached(e[1], e[2], e[3])
                      /\ copy'[e].st = "unsent" => copy'[e].ans = "none"
                      /\ copy'[e].did => copy'[e].st = "over"
    BY <1>3 DEF CopiesAreSent, Reached
  <2>1. CASE e = d
    BY <1>2, <2>1 DEF CopyMoves, IInv, CopiesAreSent
  <2>2. CASE e # d
    BY <1>1, <2>2 DEF IInv, CopiesAreSent
  <2> QED BY <2>1, <2>2
<1>9. ProofsPassOnce'
  <2>1. \A e \in Copy : e # d => (Passed(e)' <=> Passed(e))
    BY <1>1 DEF Passed
  <2>2. Passed(d)' => \/ Passed(d)
                      \/ ProofOf(d) \notin spent /\ ProofOf(d) \in spent'
    BY <1>2 DEF CopyMoves, Passed
  <2>3. \A e \in Copy : Passed(e) => ProofOf(e) \in spent
    BY DEF IInv, ProofsPassOnce
  <2>4. \A e \in Copy : Passed(e)' => ProofOf(e) \in spent'
    BY <1>3, <2>1, <2>2, <2>3
  <2>5. ASSUME NEW e \in Copy, NEW f \in Copy, Passed(e)', Passed(f)', ProofOf(e) = ProofOf(f)
        PROVE  e = f
    <3>1. CASE Passed(e) /\ Passed(f)
      BY <2>5, <3>1 DEF IInv, ProofsPassOnce
    <3>2. CASE ~Passed(e) \/ ~Passed(f)
      BY <2>1, <2>2, <2>3, <2>5, <3>2
    <3> QED BY <3>1, <3>2
  <2>6. ASSUME NEW p \in spent'
        PROVE  \E e \in Copy : ProofOf(e) = p /\ copy'[e].st \in {"handling", "over"}
    <3>1. CASE p = ProofOf(d)
      BY <1>2, <3>1
    <3>2. CASE p \in spent
      <4>1. PICK e \in Copy : ProofOf(e) = p /\ copy[e].st \in {"handling", "over"}
        BY <3>2 DEF IInv, ProofsPassOnce
      <4>2. copy'[e].st \in {"handling", "over"}
        BY <1>1, <1>2, <4>1
      <4> QED BY <4>1, <4>2
    <3> QED BY <1>3, <3>1, <3>2
  <2> QED BY <2>4, <2>5, <2>6 DEF ProofsPassOnce, ProofOf
<1>10. AnswersMean'
  <2>1. ASSUME NEW e \in Copy
        PROVE  \/ copy'[e].ans = "none"
               \/ call'[e[1]].req = call[e[1]].req /\ copy'[e].ans = copy[e].ans
               \/ Means(e[1], e[2], copy[e].ans)'
    <3>1. CASE e = d
      BY <1>3, <3>1 DEF CopyMoves
    <3>2. CASE e # d
      BY <1>1, <1>3, <3>2
    <3> QED BY <3>1, <3>2
  <2> QED BY <1>3, <1>4, <1>6, <2>1, AnswersKept
<1>11. RetriesOnce'
  <2> SUFFICES ASSUME NEW c \in Call
               PROVE  /\ call[c].attempt = 2 => Bodyless(c) /\ <<c, 1>> \in spent' /\ Resent(c, 1)'
                      /\ kind = "go" /\ call[c].ans = "reused" /\ Bodyless(c) => call[c].attempt = 2
    BY <1>3 DEF RetriesOnce, Bodyless
  <2> QED BY <1>3, <1>6, ResentKept DEF IInv, RetriesOnce
<1> QED BY <1>4, <1>5, <1>7, <1>8, <1>9, <1>10, <1>11 DEF IInv

(* A copy is lost. *)
LEMMA LoseKeeps ==
  ASSUME IInv, NEW d \in Copy, Lose(d)
  PROVE  IInv'
<1>1. copy[d] \in CopyState /\ copy \in [Copy -> CopyState]
  BY StateFacts DEF IInv, TypeOK
<1> DEFINE new == [copy[d] EXCEPT !.st = "over"]
<1>2. new \in CopyState /\ new.st = "over" /\ new.ans = copy[d].ans /\ new.did = copy[d].did
  BY <1>1 DEF CopyState
<1>3. copy' = [copy EXCEPT ![d] = new]
  BY <1>1 DEF Lose
<1> HIDE DEF new
<1>4. copy'[d] = new /\ copy[d].st = "onway" /\ ~copy[d].did
  BY <1>1, <1>3 DEF Lose, IInv, CopiesAreSent
<1>5. StoreOK'
  BY DEF Lose, storeVars, IInv, StoreOK
<1>6. CopyMoves(d)
  BY <1>2, <1>3, <1>4, <1>5 DEF CopyMoves, Lose
<1> QED BY <1>6, CopyMovesKeep

(* A copy is answered. *)
LEMMA AnsweredMoves ==
  ASSUME IInv, NEW d \in Copy, NEW ans \in Ans, NEW did \in BOOLEAN,
         copy[d].st \in {"onway", "handling"}, did => copy[d].st = "handling",
         Answered(d, ans, did), UNCHANGED <<kind, limits, mu, call>>, StoreOK',
         spent' \in {spent, spent \cup {ProofOf(d)}}, Means(d[1], d[2], ans)'
  PROVE  CopyMoves(d)
<1>1. PICK a \in Ans : /\ copy' = [copy EXCEPT ![d] = [st |-> "over", ans |-> a, did |-> did]]
                       /\ a \in {ans, "none"}
  BY DEF Answered, Ans, Outcome
<1>2. copy'[d] = [st |-> "over", ans |-> a, did |-> did]
  BY <1>1 DEF IInv, TypeOK
<1>3. Means(d[1], d[2], a)'
  BY <1>1 DEF Means
<1>4. Means(d[1], d[2], copy[d].ans)'
  BY <1>2, <1>3 DEF Means
<1>5. copy'[d] \in CopyState
  BY <1>2 DEF CopyState
<1>6. copy' = [copy EXCEPT ![d] = copy'[d]]
  BY <1>1, <1>2
<1> QED BY <1>2, <1>4, <1>5, <1>6 DEF CopyMoves

(* The middleware refuses a copy, fails it, or lets it through. *)
LEMMA AuthenticateKeeps ==
  ASSUME IInv, NEW d \in Copy, Authenticate(d)
  PROVE  IInv'
<1>0. /\ copy[d].st = "onway" /\ copy[d] \in CopyState /\ copy \in [Copy -> CopyState]
      /\ UNCHANGED <<kind, limits, mu, call>> /\ ~copy[d].did
      /\ d[1] \in Call /\ d[2] \in 1..2 /\ ProofOf(d) = <<d[1], d[2]>>
  BY StateFacts, CopyParts DEF Authenticate, IInv, TypeOK, CopiesAreSent
<1>1. StoreOK'
  BY DEF Authenticate, storeVars, IInv, StoreOK
<1>2. "failed" \in Ans /\ "reused" \in Ans
  BY DEF Ans, Outcome
<1>3. CASE Answered(d, "failed", FALSE) /\ spent' \in {spent, spent \cup {ProofOf(d)}}
  <2>1. Means(d[1], d[2], "failed")'
    BY DEF Means
  <2>2. CopyMoves(d)
    BY <1>0, <1>1, <1>2, <1>3, <2>1, AnsweredMoves
  <2> QED BY <2>2, CopyMovesKeep
<1>4. CASE ProofOf(d) \in spent /\ Answered(d, "reused", FALSE) /\ UNCHANGED spent
  <2>1. PICK e \in Copy : ProofOf(e) = ProofOf(d) /\ copy[e].st \in {"handling", "over"}
    BY <1>4 DEF IInv, ProofsPassOnce
  <2>2. e # d /\ e[1] = d[1] /\ e[2] = d[2]
    BY <1>0, <2>1 DEF ProofOf
  <2>3. copy'[d].st = "over" /\ copy'[e] = copy[e]
    BY <1>0, <1>4, <2>2 DEF Answered
  <2>4. d[3] > 1 \/ e[3] > 1
    BY <2>2, CopyParts
  <2>5. Resent(d[1], d[2])'
    BY <1>0, <2>1, <2>3, <2>4 DEF Resent, ProofOf
  <2>6. Means(d[1], d[2], "reused")'
    BY <1>0, <1>4, <2>5 DEF Means
  <2>7. CopyMoves(d)
    BY <1>0, <1>1, <1>2, <1>4, <2>6, AnsweredMoves
  <2> QED BY <2>7, CopyMovesKeep
<1>5. CASE /\ ProofOf(d) \notin spent /\ copy' = [copy EXCEPT ![d].st = "handling"]
           /\ spent' = spent \cup {ProofOf(d)}
  <2> DEFINE new == [copy[d] EXCEPT !.st = "handling"]
  <2>1. new \in CopyState /\ new.st = "handling" /\ new.ans = copy[d].ans /\ new.did = copy[d].did
    BY <1>0 DEF CopyState
  <2>2. copy' = [copy EXCEPT ![d] = new]
    BY <1>5
  <2> HIDE DEF new
  <2>3. copy'[d] = new
    BY <1>0, <2>2
  <2>4. CopyMoves(d)
    BY <1>0, <1>1, <1>5, <2>1, <2>2, <2>3 DEF CopyMoves
  <2> QED BY <2>4, CopyMovesKeep
<1> QED BY <1>3, <1>4, <1>5 DEF Authenticate

(* A handler runs for a call that has begun, with a request of its. *)
LEMMA HandlerFacts ==
  ASSUME IInv, NEW d \in Copy, copy[d].st = "handling"
  PROVE  RequestOf(d) \in [op : Op, k : Key]
<1>1. d[1] \in Call /\ d[2] \in 1..2 /\ Reached(d[1], d[2], d[3])
  BY CopyParts DEF IInv, CopiesAreSent
<1>2. call[d[1]].attempt \in 1..2
  BY <1>1, StateFacts DEF IInv
<1>3. call[d[1]].st # "new"
  BY <1>1, <1>2 DEF Reached, IInv, CallsProceed
<1>4. call[d[1]].req \in Request[d[1]]
  BY <1>1, <1>3 DEF IInv, CallsProceed
<1> QED BY <1>1, <1>4, ClientAssumption DEF RequestOf

(* The body of an append starts to stream. *)
LEMMA OpenAppendKeeps ==
  ASSUME IInv, NEW d \in Copy, OpenAppend(d)
  PROVE  IInv'
<1>1. RequestOf(d).k \in Key
  BY HandlerFacts DEF OpenAppend
<1>2. StoreOK'
  BY <1>1 DEF OpenAppend, Store!AppendOpen, IInv, StoreOK, Ans, Outcome
<1>3. UNCHANGED <<kind, limits, mu, call, copy, spent>>
  BY DEF OpenAppend
<1>4. TypeOK'
  BY <1>3 DEF IInv, TypeOK
<1>5. CallsProceed' /\ CopiesAreSent'
  BY <1>3 DEF IInv, CallsProceed, CopiesAreSent, Reached, Current
<1>6. ProofsPassOnce' /\ RetriesOnce'
  BY <1>3 DEF IInv, ProofsPassOnce, Passed, RetriesOnce, Bodyless, Resent
<1>7. AnswersMean'
  BY <1>3 DEF IInv, AnswersMean, Means, Resent, Settled
<1> QED BY <1>2, <1>4, <1>5, <1>6, <1>7 DEF IInv

(* What the store's answer r to the request of copy d says about the step. *)
Told(d, r) ==
  /\ r \in Ans /\ r \notin {"reused", "failed"}
  /\ RequestOf(d).op = "append" /\ r = "stored" => log' # log
  /\ RequestOf(d).op = "append" /\ r = "conflict" => log' = log

(* The store answers within its types, and tells of an append what it did. *)
LEMMA StoreAnswers ==
  ASSUME IInv, NEW d \in Copy, Handle(d)
  PROVE  StoreOK' /\ Told(d, reply'[d])
<1> DEFINE r == RequestOf(d)
           S == Seq(Call \cup {"seed"})
<1>0. /\ log \in [Stream -> S] /\ pending \in [Copy -> Key \cup {Store!NoKey}] /\ reply \in [Copy -> Ans]
      /\ r \in [op : Op, k : Key] /\ d[1] \in Call /\ << >> \in S
  BY HandlerFacts, CopyParts DEF IInv, StoreOK, Handle
<1>1. ASSUME NEW a \in Ans, Store!Return(d, a), log' \in [Stream -> S]
      PROVE  StoreOK' /\ reply'[d] = a
  BY <1>0, <1>1 DEF Store!Return, StoreOK
<1>2. ASSUME NEW k \in Key PROVE StreamOf(k) \in Stream /\ k.s \in Nat /\ k.s >= 1
  BY StreamOfKey, BoundsAssumption DEF Key, SeqNo
<1>3. Outcome \subseteq Ans /\ Call \subseteq Ans /\ "seed" \in Ans
  BY DEF Ans
<1>4. ASSUME ~Store!Idle(d), Store!Extend(pending[d], d[1])
      PROVE  log' \in [Stream -> S] /\ log' # log
  <2>1. pending[d] \in Key
    BY <1>0, <1>4 DEF Store!Idle
  <2>2. PICK t \in Stream : t = StreamOf(pending[d])
    BY <1>2, <2>1
  <2>3. log[t] \in S /\ Append(log[t], d[1]) \in S /\ Len(Append(log[t], d[1])) = Len(log[t]) + 1
    BY <1>0
  <2>4. Len(log[t]) \in Nat
    BY <2>3
  <2>5. log' = [log EXCEPT ![t] = Append(log[t], d[1])]
    BY <1>4, <2>2 DEF Store!Extend, Store!StreamOf, StreamOf
  <2>6. log'[t] # log[t]
    BY <1>0, <2>3, <2>4, <2>5
  <2> QED BY <1>0, <2>3, <2>5, <2>6
<1>5. CASE Store!Return(d, "internal") /\ UNCHANGED log
  BY <1>0, <1>1, <1>3, <1>5 DEF Told, Outcome
<1>6. CASE r.op = "append" /\ Store!AppendStored(d, d[1])
  BY <1>1, <1>3, <1>4, <1>6 DEF Told, Outcome, Store!AppendStored
<1>7. CASE r.op = "append" /\ Store!AppendUnknown(d, d[1])
  BY <1>1, <1>3, <1>4, <1>7 DEF Told, Outcome, Store!AppendUnknown
<1>8. CASE r.op = "append" /\ Store!AppendConflict(d, r.k)
  BY <1>0, <1>1, <1>3, <1>8 DEF Told, Outcome, Store!AppendConflict
<1>9. CASE r.op = "get" /\ Store!Get(d, r.k)
  <2>1. PICK t \in Stream : t = StreamOf(r.k)
    BY <1>0, <1>2
  <2>2. PICK a : /\ a = IF r.k.s <= Len(log[t]) THEN log[t][r.k.s] ELSE "not_found"
                 /\ Store!Return(d, a) /\ log' = log
    BY <1>9, <2>1 DEF Store!Get, Store!StreamOf, StreamOf
  <2>3. a \in Call \cup {"seed", "not_found"}
    <3>1. CASE r.k.s <= Len(log[t])
      <4>1. log[t] \in Seq(Call \cup {"seed"})
        BY <1>0
      <4>2. r.k.s \in 1..Len(log[t])
        BY <1>0, <1>2, <3>1, <4>1
      <4> QED BY <2>2, <3>1, <4>1, <4>2
    <3>2. CASE ~(r.k.s <= Len(log[t]))
      BY <2>2, <3>2
    <3> QED BY <3>1, <3>2
  <2>4. a \in Ans /\ a # "reused" /\ a # "failed"
    BY <1>3, <2>3, NamesDiffer DEF Outcome
  <2> QED BY <1>0, <1>1, <1>9, <2>2, <2>4 DEF Told
<1>10. CASE r.op = "prune" /\ Store!DeleteGeneration(d, StreamOf(r.k))
  <2>1. PICK a \in {"retention_guard", "not_found", "pruned"} : Store!Return(d, a)
    BY <1>10 DEF Store!DeleteGeneration
  <2>2. log' \in [Stream -> S]
    BY <1>0, <1>10 DEF Store!DeleteGeneration
  <2>3. a \in Ans /\ a # "reused" /\ a # "failed"
    BY <1>3 DEF Outcome
  <2> QED BY <1>1, <1>10, <2>1, <2>2, <2>3 DEF Told
<1>11. CASE r.op = "erase" /\ Store!DeleteAccount(d, r.k.p)
  <2>1. log' \in [Stream -> S] /\ Store!Return(d, "erased")
    BY <1>0, <1>11 DEF Store!DeleteAccount, Store!Stream, Stream, Store!Generation, Generation
  <2> QED BY <1>1, <1>3, <1>11, <2>1 DEF Told, Outcome
<1> QED BY <1>5, <1>6, <1>7, <1>8, <1>9, <1>10, <1>11 DEF Handle

(* A handler answers. *)
LEMMA HandleKeeps ==
  ASSUME IInv, NEW d \in Copy, Handle(d)
  PROVE  IInv'
<1>0. /\ copy[d].st = "handling" /\ copy \in [Copy -> CopyState]
      /\ UNCHANGED <<kind, limits, mu, call, spent>> /\ ~copy[d].did
      /\ d[1] \in Call /\ d[2] \in 1..2 /\ ProofOf(d) = <<d[1], d[2]>>
  BY CopyParts DEF Handle, IInv, TypeOK, CopiesAreSent
<1>1. StoreOK' /\ Told(d, reply'[d])
  BY StoreAnswers
<1>2. PICK did \in BOOLEAN : did <=> log' # log
  OBVIOUS
<1>3. PICK ans \in Ans : Answered(d, ans, did) /\ (ans = "failed" \/ Told(d, ans))
  <2>1. PICK a \in {reply'[d], "internal"} : Answered(d, IF a = "internal" THEN "failed" ELSE a, log' # log)
    BY DEF Handle
  <2>2. did = (log' # log)
    BY <1>2
  <2>3. Answered(d, IF a = "internal" THEN "failed" ELSE a, did)
    BY <2>1, <2>2
  <2>4. "failed" \in Ans
    BY DEF Ans, Outcome
  <2>5. CASE a = "internal"
    <3>1. Answered(d, "failed", did)
      BY <2>3, <2>5 DEF Answered
    <3> QED BY <2>4, <3>1
  <2>6. CASE a # "internal" /\ a = reply'[d]
    BY <1>1, <2>3, <2>6 DEF Told
  <2> QED BY <2>5, <2>6
<1>4. Passed(d) /\ \A e \in Copy : Passed(e) /\ ProofOf(e) = ProofOf(d) => e = d
  BY <1>0 DEF Passed, IInv, ProofsPassOnce
<1>5. copy'[d].st = "over" /\ copy'[d].did = did /\ \A e \in Copy : e # d => copy'[e] = copy[e]
  BY <1>0, <1>3 DEF Answered
<1>6. Settled(d[1], d[2])'
  <2>1. ProofOf(d) \in spent
    BY <1>4 DEF IInv, ProofsPassOnce
  <2>2. \A e \in Copy : ProofOf(e) = ProofOf(d) => copy'[e].st # "handling"
    BY <1>4, <1>5 DEF Passed
  <2> QED BY <1>0, <2>1, <2>2 DEF Settled, ProofOf
<1>7. ASSUME RequestOf(d).op = "append"
      PROVE  /\ ans = "stored" => \E e \in Copy : ProofOf(e) = <<d[1], d[2]>> /\ copy'[e].did
             /\ ans = "conflict" => \A e \in Copy : ProofOf(e) = <<d[1], d[2]>> => ~copy'[e].did
  <2>1. ans = "stored" => did
    BY <1>2, <1>3, <1>7 DEF Told
  <2>2. ans = "conflict" => ~did
    BY <1>2, <1>3, <1>7 DEF Told
  <2>3. \A e \in Copy : e # d /\ ProofOf(e) = ProofOf(d) => ~copy'[e].did
    BY <1>4, <1>5 DEF Passed
  <2> QED BY <1>0, <1>5, <2>1, <2>2, <2>3
<1>8. Means(d[1], d[2], ans)'
  <2>1. ans # "reused" /\ call' = call
    BY <1>0, <1>3 DEF Told
  <2> QED BY <1>6, <1>7, <2>1 DEF Means, RequestOf, ProofOf
<1>9. CopyMoves(d)
  BY <1>0, <1>1, <1>3, <1>8, AnsweredMoves
<1> QED BY <1>9, CopyMovesKeep

-------------------------------------------------------------------------------
(* The invariant holds in every state of the client, whatever is sent      *)
(* again, lost or answered late.                                           *)
THEOREM Invariance == Spec => []IInv
<1>1. Init => IInv
  BY InitIInv
<1>2. IInv /\ [Next]_vars => IInv'
  <2> SUFFICES ASSUME IInv, [Next]_vars PROVE IInv'
    OBVIOUS
  <2>1. ASSUME NEW c \in Call, NEW r \in Request[c], Begin(c, r) PROVE IInv'
    BY <2>1, BeginKeeps
  <2>2. ASSUME NEW c \in Call, CallStep(c) \/ LocalError(c) \/ Resend(c) \/ GiveUp(c) PROVE IInv'
    BY <2>2, StartKeeps, SendKeeps, ReceiveKeeps DEF CallStep
  <2>3. ASSUME NEW d \in Copy, CopyStep(d) \/ Lose(d) PROVE IInv'
    BY <2>3, AuthenticateKeeps, OpenAppendKeeps, HandleKeeps, LoseKeeps DEF CopyStep
  <2>4. CASE UNCHANGED vars
    <3>1. UNCHANGED <<kind, limits, mu, call, copy, spent, log, pending, reply>>
      BY <2>4 DEF vars, storeVars
    <3>2. TypeOK' /\ StoreOK'
      BY <3>1 DEF IInv, TypeOK, StoreOK
    <3>3. CallsProceed' /\ CopiesAreSent'
      BY <3>1 DEF IInv, CallsProceed, CopiesAreSent, Reached, Current
    <3>4. ProofsPassOnce' /\ RetriesOnce'
      BY <3>1 DEF IInv, ProofsPassOnce, Passed, RetriesOnce, Bodyless, Resent
    <3>5. AnswersMean'
      BY <3>1 DEF IInv, AnswersMean, Means, Resent, Settled
    <3> QED BY <3>2, <3>3, <3>4, <3>5 DEF IInv
  <2> QED BY <2>1, <2>2, <2>3, <2>4 DEF Next
<1> QED BY <1>1, <1>2, PTL DEF Spec

(* The effects of a call are counted by the attempts that had one. *)
LEMMA EffectsCounted ==
  ASSUME IInv, NEW c \in Call
  PROVE  /\ Effects(c) \in Nat /\ Effects(c) <= call[c].attempt
         /\ (\E d \in Copy : d[1] = c /\ copy[d].did) => Effects(c) >= 1
         /\ (\A d \in Copy : d[1] = c => ~copy[d].did) => Effects(c) = 0
<1> DEFINE D(a) == {d \in Copy : d[1] = c /\ copy[d].did /\ d[2] = a}
           E == {d \in Copy : d[1] = c /\ copy[d].did}
<1>1. E = D(1) \cup D(2)
  <2>1. \A d \in Copy : d[2] = 1 \/ d[2] = 2
    BY CopyParts
  <2> QED BY <2>1
<1>2. ASSUME NEW a \in 1..2, D(a) # {} PROVE \E d \in Copy : D(a) = {d}
  <2>1. PICK d \in Copy : d[1] = c /\ copy[d].did /\ d[2] = a
    BY <1>2
  <2>2. ASSUME NEW e \in D(a) PROVE e = d
    <3>1. Passed(d) /\ Passed(e) /\ ProofOf(d) = ProofOf(e)
      BY <2>1, <2>2 DEF Passed, ProofOf
    <3> QED BY <3>1 DEF IInv, ProofsPassOnce
  <2> QED BY <2>1, <2>2
<1>3. ASSUME NEW a \in 1..2
      PROVE  IsFiniteSet(D(a)) /\ Cardinality(D(a)) \in 0..1 /\ (Cardinality(D(a)) = 0 <=> D(a) = {})
  <2>1. CASE D(a) = {}
    BY <2>1, FS_EmptySet
  <2>2. CASE D(a) # {}
    <3>1. PICK d \in Copy : D(a) = {d}
      BY <1>2, <2>2
    <3>2. IsFiniteSet({d}) /\ Cardinality({d}) = 1
      BY FS_Singleton
    <3> HIDE DEF D
    <3> QED BY <2>2, <3>1, <3>2
  <2> QED BY <2>1, <2>2
<1>4. D(1) \cap D(2) = {}
  OBVIOUS
<1>5. Effects(c) = Cardinality(D(1)) + Cardinality(D(2))
  <2>1. Cardinality(D(1) \cup D(2)) = Cardinality(D(1)) + Cardinality(D(2)) - Cardinality(D(1) \cap D(2))
    BY <1>3, FS_Union
  <2>2. Cardinality(D(1) \cap D(2)) = 0
    BY <1>4, FS_EmptySet
  <2>3. Effects(c) = Cardinality(E)
    BY DEF Effects
  <2> HIDE DEF D, E
  <2> QED BY <1>1, <1>3, <2>1, <2>2, <2>3
<1>6. call[c].attempt \in 1..2 /\ (call[c].attempt = 1 => D(2) = {})
  <2>1. call[c].attempt \in 1..2
    BY StateFacts DEF IInv
  <2>2. ASSUME NEW d \in D(2) PROVE call[c].attempt # 1
    <3>1. Reached(c, 2, d[3])
      BY <2>2 DEF IInv, CopiesAreSent
    <3> QED BY <2>1, <3>1 DEF Reached
  <2> QED BY <2>1, <2>2
<1>7. (\E d \in Copy : d[1] = c /\ copy[d].did) <=> D(1) # {} \/ D(2) # {}
  <2>1. (\E d \in Copy : d[1] = c /\ copy[d].did) <=> E # {}
    OBVIOUS
  <2> HIDE DEF D, E
  <2> QED BY <1>1, <2>1
<1> HIDE DEF D, E
<1> QED BY <1>3, <1>5, <1>6, <1>7

(* Calls, copies, the mutex and the record of proofs are always in their   *)
(* types; in particular concurrent first calls of the Go client collapse   *)
(* into one fetch of the limits.                                           *)
THEOREM TypeCorrect == Spec => []TypeOK
<1>1. IInv => TypeOK
  BY DEF IInv
<1> QED BY <1>1, Invariance, PTL

(* However often the transport sends a request again and however late the  *)
(* server works on a copy, it takes effect at most once per proof, and the *)
(* second proof is for a bodyless request whose first is on record.        *)
THEOREM RetriesAreEarned == Spec => []RetryFollowsUse
<1>1. IInv => RetryFollowsUse
  BY EffectsCounted DEF IInv, RetriesOnce, RetryFollowsUse
<1> QED BY <1>1, Invariance, PTL

(* An upload is stored at most once, and its caller's "stored" and         *)
(* "conflict" are the truth about every copy of it.                        *)
THEOREM UploadsTakeEffectOnce == Spec => []AppendsOnce
<1>1. ASSUME IInv PROVE AppendsOnce
  <2> SUFFICES ASSUME NEW c \in Call, call[c].req.op = "append"
               PROVE  /\ Effects(c) <= 1
                      /\ call[c].ans = "stored" => Effects(c) = 1
                      /\ call[c].ans = "conflict" => Effects(c) = 0
    BY DEF AppendsOnce
  <2>1. call[c].attempt = 1
    <3>1. call[c].attempt \in 1..2
      BY <1>1, StateFacts DEF IInv
    <3>2. call[c].attempt # 2
      BY <1>1 DEF IInv, RetriesOnce, Bodyless
    <3> QED BY <3>1, <3>2
  <2>2. Effects(c) \in Nat /\ Effects(c) <= 1
    BY <1>1, <2>1, EffectsCounted
  <2>3. Means(c, 1, call[c].ans)
    BY <1>1, <2>1 DEF IInv, AnswersMean
  <2>4. ASSUME call[c].ans = "stored" PROVE Effects(c) = 1
    <3>1. \E d \in Copy : d[1] = c /\ copy[d].did
      BY <2>3, <2>4, CopyParts DEF Means
    <3> QED BY <1>1, <2>2, <3>1, EffectsCounted
  <2>5. ASSUME call[c].ans = "conflict", NEW d \in Copy, d[1] = c PROVE ~copy[d].did
    <3>1. ASSUME copy[d].did PROVE ProofOf(d) = <<c, 1>>
      <4>1. Reached(c, d[2], d[3])
        BY <1>1, <2>5, <3>1 DEF IInv, CopiesAreSent
      <4> QED BY <2>1, <2>5, <4>1, CopyParts DEF Reached
    <3> QED BY <2>3, <2>5, <3>1 DEF Means
  <2> QED BY <1>1, <2>2, <2>4, <2>5, EffectsCounted
<1> QED BY <1>1, Invariance, PTL

(* The Go client's caller sees "proof already used" for a bodyless request *)
(* only if both attempts were sent more than once.                         *)
THEOREM RetryRecovers == Spec => []OneResendRecovered
<1>1. ASSUME IInv PROVE OneResendRecovered
  <2> SUFFICES ASSUME NEW c \in Call, kind = "go", call[c].ans = "reused", Bodyless(c), NEW a \in 1..2
               PROVE  Resent(c, a)
    BY DEF OneResendRecovered, Resent
  <2>1. call[c].attempt = 2 /\ Resent(c, 1)
    BY <1>1 DEF IInv, RetriesOnce
  <2>2. Means(c, 2, "reused")
    BY <1>1, <2>1 DEF IInv, AnswersMean
  <2>3. Resent(c, 2)
    BY <2>2 DEF Means
  <2>4. a = 1 \/ a = 2
    OBVIOUS
  <2> QED BY <2>1, <2>3, <2>4
<1> QED BY <1>1, Invariance, PTL

(* Only a handler changes the store. *)
LEMMA EffectsAreHandled ==
  ASSUME IInv, Next, NEW d \in Copy, copy'[d].did, ~copy[d].did
  PROVE  copy[d].st = "handling"
<1>0. copy \in [Copy -> CopyState]
  BY DEF IInv, TypeOK
<1>1. ASSUME NEW e \in Copy, NEW st, copy' = [copy EXCEPT ![e].st = st] PROVE FALSE
  BY <1>0, <1>1 DEF CopyState
<1>2. ASSUME NEW e \in Copy, NEW a, copy' = [copy EXCEPT ![e].ans = a] PROVE FALSE
  BY <1>0, <1>2 DEF CopyState
<1>3. ASSUME NEW e \in Copy, NEW ans, NEW did, Answered(e, ans, did) PROVE e = d /\ did
  BY <1>0, <1>3 DEF Answered
<1>4. ASSUME NEW c \in Call, (\E r \in Request[c] : Begin(c, r)) \/ CallStep(c)
                             \/ LocalError(c) \/ Resend(c) \/ GiveUp(c)
      PROVE  FALSE
  <2>1. copy' # copy
    OBVIOUS
  <2>2. Send(c) \/ Resend(c) \/ Receive(c) \/ GiveUp(c)
    BY <1>4, <2>1 DEF Begin, CallStep, Limits, LimitsTs, Fetched, FetchFailed, LocalError
  <2>3. call[c].attempt \in 1..2 /\ call[c].n \in 0..MaxCopies
    BY StateFacts DEF IInv
  <2>4. CASE Send(c)
    <3>1. <<c, call[c].attempt, 1>> \in Copy
      BY <2>3, ClientAssumption, CopyParts
    <3> QED BY <1>1, <2>4, <3>1 DEF Send
  <2>5. CASE Resend(c)
    <3>1. call[c].n + 1 \in 1..MaxCopies
      BY <2>3, <2>5, ClientAssumption DEF Resend
    <3>2. <<c, call[c].attempt, call[c].n + 1>> \in Copy
      BY <2>3, <3>1, CopyParts
    <3> QED BY <1>1, <2>5, <3>2 DEF Resend
  <2>6. CASE Receive(c) \/ GiveUp(c)
    <3>1. Current(c) \in Copy
      BY <2>6, CurrentFacts DEF Receive, GiveUp
    <3> QED BY <1>2, <2>6, <3>1 DEF Receive, GiveUp
  <2> QED BY <2>2, <2>4, <2>5, <2>6
<1>5. ASSUME NEW e \in Copy, CopyStep(e) \/ Lose(e) PROVE copy[d].st = "handling"
  <2>1. CASE Lose(e)
    BY <1>1, <2>1 DEF Lose
  <2>2. CASE OpenAppend(e)
    BY <2>2 DEF OpenAppend
  <2>3. CASE Authenticate(e)
    BY <1>1, <1>3, <2>3 DEF Authenticate
  <2>4. CASE Handle(e)
    BY <1>3, <2>4 DEF Handle
  <2> QED BY <1>5, <2>1, <2>2, <2>3, <2>4 DEF CopyStep
<1> QED BY <1>4, <1>5 DEF Next

(* Once a caller has its success, only the handler of a first attempt that *)
(* was retried can still change the store in its name: no copy that was    *)
(* sent again or is answered late does.                                    *)
THEOREM NothingLandsLate == Spec => NoLateEffect
<1>1. IInv /\ [Next]_vars =>
        [\A d \in Copy : copy'[d].did /\ ~copy[d].did /\ Succeeded(d[1]) =>
           d[2] = 1 /\ call[d[1]].attempt = 2]_vars
  <2> SUFFICES ASSUME IInv, Next, NEW d \in Copy, copy'[d].did, ~copy[d].did, Succeeded(d[1])
               PROVE  d[2] = 1 /\ call[d[1]].attempt = 2
    OBVIOUS
  <2>1. copy[d].st = "handling"
    BY EffectsAreHandled
  <2>2. d[1] \in Call /\ d[2] \in 1..2 /\ ProofOf(d) = <<d[1], d[2]>>
    BY CopyParts
  <2>3. call[d[1]].ans \notin {"none", "failed", "reused"}
    BY NamesDiffer DEF Succeeded
  <2>4. Settled(d[1], call[d[1]].attempt)
    BY <2>2, <2>3 DEF IInv, AnswersMean, Means
  <2>5. d[2] # call[d[1]].attempt
    BY <2>1, <2>2, <2>4 DEF Settled
  <2>6. Reached(d[1], d[2], d[3]) /\ call[d[1]].attempt \in 1..2
    BY <2>1, <2>2, StateFacts DEF IInv, CopiesAreSent
  <2> QED BY <2>2, <2>5, <2>6 DEF Reached
<1> QED BY <1>1, Invariance, PTL DEF Spec, NoLateEffect

-------------------------------------------------------------------------------
(* Every call comes to its end *)

(* How much is left of a call: its states, the copies of this attempt that *)
(* may yet be sent and, before the retry, a second attempt.                *)
CallRank(s) ==
  IF s.st = "returned" THEN 0
  ELSE (IF s.attempt = 1 THEN MaxCopies + 1 ELSE 0)
       + (IF s.st = "waiting" THEN MaxCopies - s.n ELSE MaxCopies)
       + (IF s.st = "new" THEN 4 ELSE IF s.st = "start" THEN 3 ELSE IF s.st = "fetching" THEN 2 ELSE 1)

(* How much the server has left to do about a copy. *)
CopyRank(st, key) ==
  IF st = "unsent" THEN 4
  ELSE IF st = "onway" THEN 3
  ELSE IF st = "over" THEN 0
  ELSE IF key = Store!NoKey THEN 2 ELSE 1

(* A call moves on; copies are sent, and none is set back. *)
CallProgress(c) ==
  /\ CallRank(call'[c]) < CallRank(call[c])
  /\ \A b \in Call \ {c} : call'[b] = call[b]
  /\ \A d \in Copy : CopyRank(copy'[d].st, pending'[d]) <= CopyRank(copy[d].st, pending[d])

(* The server moves on with a copy, and touches no other. *)
CopyProgress(d) ==
  /\ CopyRank(copy'[d].st, pending'[d]) < CopyRank(copy[d].st, pending[d])
  /\ \A e \in Copy \ {d} : copy'[e] = copy[e] /\ pending'[e] = pending[e]
  /\ call' = call

ClientProgress == (\E c \in Call : CallProgress(c)) \/ (\E d \in Copy : CopyProgress(d))

(* Ranks are bounded, and 0 for just the calls that have returned. *)
RankBound ==
  \A c \in Call : /\ CallRank(call[c]) \in 0..2 * MaxCopies + 5
                  /\ CallRank(call[c]) = 0 <=> call[c].st = "returned"

(* The invariant bounds the copies of an attempt, and so the ranks. *)
LEMMA RanksAreBounded == IInv => RankBound
<1> SUFFICES ASSUME IInv, NEW c \in Call
             PROVE  /\ CallRank(call[c]) \in 0..2 * MaxCopies + 5
                    /\ CallRank(call[c]) = 0 <=> call[c].st = "returned"
  BY DEF RankBound
<1>1. call[c].n \in 0..MaxCopies /\ MaxCopies \in Nat
  BY StateFacts, ClientAssumption DEF IInv
<1> QED BY <1>1 DEF CallRank

(* A call that has nothing on the wire moves on or returns. *)
LEMMA LocalProgress ==
  ASSUME IInv, NEW c \in Call,
         \/ \E r \in Request[c] : Begin(c, r)
         \/ LocalError(c) \/ Limits(c) \/ LimitsTs(c) \/ Fetched(c) \/ FetchFailed(c)
  PROVE  CallProgress(c)
<1>0. /\ call[c] \in CallState /\ call \in [Call -> CallState]
      /\ call[c].n \in 0..MaxCopies /\ MaxCopies \in Nat
  BY StateFacts, ClientAssumption DEF IInv, TypeOK
<1>1. copy' = copy /\ pending' = pending
  BY DEF Begin, LocalError, Limits, LimitsTs, Fetched, FetchFailed, storeVars
<1>2. \A d \in Copy : CopyRank(copy'[d].st, pending'[d]) <= CopyRank(copy[d].st, pending[d])
  BY <1>1 DEF CopyRank
<1>3. \A b \in Call \ {c} : call'[b] = call[b]
  BY <1>0 DEF Begin, LocalError, Limits, LimitsTs, Fetched, FetchFailed, Returned
<1>4. /\ call'[c].attempt = call[c].attempt
      /\ \/ call[c].st = "new" /\ call'[c].st = "start"
         \/ call[c].st = "start" /\ call'[c].st \in {"fetching", "ready", "returned"}
         \/ call[c].st \in {"fetching", "ready"} /\ call'[c].st = "returned"
         \/ call[c].st = "fetching" /\ call'[c].st = "ready"
  <2>1. ASSUME NEW r \in Request[c], Begin(c, r)
        PROVE  call'[c].attempt = call[c].attempt /\ call[c].st = "new" /\ call'[c].st = "start"
    BY <1>0, <2>1 DEF Begin, CallState
  <2>2. CASE LocalError(c) \/ FetchFailed(c)
    BY <1>0, <2>2 DEF LocalError, FetchFailed, Returned, CallState
  <2>3. CASE Limits(c) \/ LimitsTs(c)
    BY <1>0, <2>3 DEF Limits, LimitsTs, CallState
  <2>4. CASE Fetched(c)
    BY <1>0, <2>4 DEF Fetched, CallState
  <2> QED BY <2>1, <2>2, <2>3, <2>4
<1>5. CallRank(call'[c]) < CallRank(call[c])
  BY <1>0, <1>4 DEF CallRank
<1> QED BY <1>2, <1>3, <1>5 DEF CallProgress

(* Sending uses up a copy. *)
LEMMA SendProgress ==
  ASSUME IInv, NEW c \in Call, Send(c) \/ Resend(c)
  PROVE  CallProgress(c)
<1>0. /\ call[c] \in CallState /\ call \in [Call -> CallState] /\ copy \in [Copy -> CopyState]
      /\ call[c].n \in 0..MaxCopies /\ MaxCopies \in Nat
  BY StateFacts, ClientAssumption DEF IInv, TypeOK
<1>1. pending' = pending /\ \A b \in Call \ {c} : call'[b] = call[b]
  BY <1>0 DEF Send, Resend, storeVars
<1>2. /\ call'[c].attempt = call[c].attempt /\ call'[c].st = "waiting"
      /\ \/ call[c].st = "ready" /\ call'[c].n = 1
         \/ call[c].st = "waiting" /\ call'[c].n = call[c].n + 1
  BY <1>0 DEF Send, Resend, CallState
<1>3. CallRank(call'[c]) < CallRank(call[c])
  BY <1>0, <1>2 DEF CallRank
<1>4. PICK e \in Copy : copy[e].st = "unsent" /\ copy' = [copy EXCEPT ![e].st = "onway"]
  <2>0. call[c].attempt \in 1..2
    BY StateFacts DEF IInv
  <2>1. PICK n \in 1..MaxCopies : /\ copy' = [copy EXCEPT ![<<c, call[c].attempt, n>>].st = "onway"]
                                  /\ ~Reached(c, call[c].attempt, n)
    <3>1. CASE Send(c)
      <4>1. 1 \in 1..MaxCopies /\ copy' = [copy EXCEPT ![<<c, call[c].attempt, 1>>].st = "onway"]
        BY <3>1, ClientAssumption DEF Send
      <4>2. ~Reached(c, call[c].attempt, 1)
        BY <2>0, <3>1 DEF Send, Reached
      <4> QED BY <4>1, <4>2
    <3>2. CASE Resend(c)
      <4>1. call[c].n + 1 \in 1..MaxCopies
        BY <1>0, <3>2 DEF Resend
      <4>2. ~Reached(c, call[c].attempt, call[c].n + 1)
        BY <1>0, <2>0 DEF Reached
      <4> QED BY <3>2, <4>1, <4>2 DEF Resend
    <3> QED BY <3>1, <3>2
  <2>2. PICK e \in Copy : e = <<c, call[c].attempt, n>>
    BY <2>0, CopyParts
  <2>3. e[1] = c /\ e[2] = call[c].attempt /\ e[3] = n
    BY <2>0, <2>2, CopyParts
  <2>4. copy[e].st = "unsent"
    BY <2>1, <2>3 DEF IInv, CopiesAreSent
  <2> QED BY <2>1, <2>2, <2>4
<1>5. \A d \in Copy : CopyRank(copy'[d].st, pending'[d]) <= CopyRank(copy[d].st, pending[d])
  <2>1. copy'[e].st = "onway" /\ \A d \in Copy : d # e => copy'[d] = copy[d]
    BY <1>0, <1>4 DEF CopyState
  <2> QED BY <1>1, <1>4, <2>1 DEF CopyRank
<1> QED BY <1>1, <1>3, <1>5 DEF CallProgress

(* An answer ends the call or uses up its retry. *)
LEMMA ReceiveProgress ==
  ASSUME IInv, NEW c \in Call, Receive(c) \/ GiveUp(c)
  PROVE  CallProgress(c)
<1>0. /\ call[c] \in CallState /\ call \in [Call -> CallState] /\ copy \in [Copy -> CopyState]
      /\ call[c].n \in 0..MaxCopies /\ MaxCopies \in Nat /\ call[c].st = "waiting"
  BY StateFacts, ClientAssumption DEF IInv, TypeOK, Receive, GiveUp
<1>1. pending' = pending /\ \A b \in Call \ {c} : call'[b] = call[b]
  BY <1>0 DEF Receive, GiveUp, Returned, storeVars
<1>2. \/ call'[c].st = "returned"
      \/ call[c].attempt = 1 /\ call'[c].attempt = 2 /\ call'[c].st = "ready"
  BY <1>0 DEF Receive, GiveUp, Returned, Retries, CallState
<1>3. CallRank(call'[c]) < CallRank(call[c])
  BY <1>0, <1>2 DEF CallRank
<1>4. PICK e \in Copy : e = Current(c)
  BY <1>0, CurrentFacts
<1>5. \A d \in Copy : copy'[d].st = copy[d].st
  <2>1. copy' = [copy EXCEPT ![e].ans = "none"]
    BY <1>4 DEF Receive, GiveUp
  <2> QED BY <1>0, <2>1 DEF CopyState
<1>6. \A d \in Copy : CopyRank(copy'[d].st, pending'[d]) <= CopyRank(copy[d].st, pending[d])
  BY <1>1, <1>5 DEF CopyRank
<1> QED BY <1>1, <1>3, <1>6 DEF CallProgress

(* The server loses, refuses, lets through, opens or answers a copy: each  *)
(* once.                                                                   *)
LEMMA ServerProgress ==
  ASSUME IInv, NEW d \in Copy, CopyStep(d) \/ Lose(d)
  PROVE  CopyProgress(d)
<1>0. copy \in [Copy -> CopyState] /\ copy[d] \in CopyState /\ DOMAIN pending = Copy
  BY DEF IInv, TypeOK, StoreOK
<1>1. call' = call
  BY DEF CopyStep, Authenticate, OpenAppend, Handle, Lose
<1>2. \A e \in Copy \ {d} : copy'[e] = copy[e]
  <2>1. CASE OpenAppend(d)
    BY <2>1 DEF OpenAppend
  <2>2. CASE Authenticate(d) \/ Lose(d)
    BY <1>0, <2>2 DEF Authenticate, Answered, Lose
  <2>3. CASE Handle(d)
    BY <1>0, <2>3 DEF Handle, Answered
  <2> QED BY <2>1, <2>2, <2>3 DEF CopyStep
<1>3. CASE Lose(d) \/ Authenticate(d)
  <2>1. copy[d].st = "onway" /\ copy'[d].st \in {"over", "handling"} /\ pending' = pending
    BY <1>0, <1>3 DEF Lose, Authenticate, Answered, storeVars, CopyState
  <2> QED BY <1>1, <1>2, <2>1 DEF CopyProgress, CopyRank
<1>4. CASE OpenAppend(d)
  <2>1. copy[d].st = "handling" /\ copy' = copy /\ RequestOf(d).k \in Key
    BY <1>4, HandlerFacts DEF OpenAppend
  <2>2. pending[d] = Store!NoKey /\ pending' = [pending EXCEPT ![d] = RequestOf(d).k]
    BY <1>4 DEF OpenAppend, Store!AppendOpen, Store!Idle
  <2>3. RequestOf(d).k # Store!NoKey
    BY <2>1 DEF Store!NoKey, Key
  <2>4. CopyRank(copy'[d].st, pending'[d]) < CopyRank(copy[d].st, pending[d])
    BY <1>0, <2>1, <2>2, <2>3 DEF CopyRank
  <2> QED BY <1>1, <1>2, <2>2, <2>4 DEF CopyProgress
<1>5. CASE Handle(d)
  <2>1. copy[d].st = "handling" /\ copy'[d].st = "over"
    BY <1>0, <1>5 DEF Handle, Answered
  <2>2. PICK a : Store!Return(d, a)
    BY <1>5 DEF Handle, Store!AppendStored, Store!AppendUnknown, Store!AppendConflict, Store!Get,
                Store!DeleteGeneration, Store!DeleteAccount
  <2>3. \A e \in Copy \ {d} : pending'[e] = pending[e]
    BY <1>0, <2>2 DEF Store!Return
  <2> QED BY <1>1, <1>2, <2>1, <2>3 DEF CopyProgress, CopyRank
<1> QED BY <1>3, <1>4, <1>5 DEF CopyStep

(* do, roundTrip and the transport: no call goes round in circles and none *)
(* is set back by another.  Every step takes one call, or the server with  *)
(* one copy of a request, strictly nearer to its end: a call takes at most *)
(* 2 * MaxCopies + 5 steps, its retry included, and the server three for   *)
(* each copy.                                                              *)
THEOREM EveryStepIsProgress == Spec => []RankBound /\ [][ClientProgress]_vars
<1>1. ASSUME IInv, Next PROVE ClientProgress
  BY <1>1, LocalProgress, SendProgress, ReceiveProgress, ServerProgress DEF Next, CallStep, ClientProgress
<1> QED BY <1>1, RanksAreBounded, Invariance, PTL DEF Spec

(* The call, or the server on its behalf, has a step to take that waits    *)
(* for nobody: the copy it awaits is on its way or handled, or through, so *)
(* that there is an answer to take or nothing left but to give up.         *)
GoesOn(c) ==
  \/ call[c].st = "start" /\ (kind = "go" => mu = "free")
  \/ call[c].st \in {"fetching", "ready"}
  \/ call[c].st = "waiting" /\ Current(c) \in Copy /\ copy[Current(c)].st \in {"onway", "handling", "over"}

CallsGoOn ==
  \A c \in Call : call[c].st \notin {"new", "returned"} =>
    GoesOn(c) \/ (mu \in Call /\ call[mu].st = "fetching")

(* Limits and its mutex: a call under way can go on, or waits for the      *)
(* mutex, and then its holder is at its fetch and can.  The mutex is never *)
(* left locked, and nobody waits for a request that was not sent.          *)
THEOREM CallsNeverStuck == Spec => []CallsGoOn
<1>1. ASSUME IInv, NEW c \in Call, call[c].st \notin {"new", "returned"}
      PROVE  GoesOn(c) \/ (mu \in Call /\ call[mu].st = "fetching")
  <2>1. call[c].st \in {"start", "fetching", "ready", "waiting"}
    BY <1>1, StateFacts DEF IInv, CallState
  <2>2. CASE call[c].st = "waiting"
    <3>1. Current(c) \in Copy /\ copy[Current(c)].st # "unsent"
      BY <1>1, <2>2, CurrentFacts
    <3>2. copy[Current(c)].st \in {"onway", "handling", "over"}
      BY <1>1, <3>1, StateFacts DEF IInv
    <3> QED BY <2>2, <3>1, <3>2 DEF GoesOn
  <2>3. CASE call[c].st = "start" /\ kind = "go" /\ mu # "free"
    BY <1>1, <2>3 DEF IInv, TypeOK
  <2> QED BY <2>1, <2>2, <2>3 DEF GoesOn
<1>2. IInv => CallsGoOn
  BY <1>1 DEF CallsGoOn
<1> QED BY <1>2, Invariance, PTL
===============================================================================
