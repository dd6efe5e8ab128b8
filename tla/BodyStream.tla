------------------------------ MODULE BodyStream ------------------------------
(***************************************************************************)
(* One upload's body on its way into a store, and the answer on its way    *)
(* out: the readers that wrap each other around the request body and the   *)
(* writer that wraps the response.                                         *)
(*                                                                         *)
(*   net/http body -> countingBody -> digestVerifyingBody -> the store's   *)
(*   read loop (io.ReadFull for Postgres, io.ReadAll for memory)           *)
(*                                                                         *)
(* A read may return bytes and an error together, io.ReadFull drops the    *)
(* error that came with the bytes that filled its buffer, and three        *)
(* different ends (EOF, a connection that broke off, a failure) travel     *)
(* the same way.  Which bytes are stored and what the client is told       *)
(* depends on all of them.  The Postgres store's loop takes a connection   *)
(* that broke off for an end of the body; what keeps such a body from      *)
(* being stored is that net/http has ended the request's context by then.  *)
(*                                                                         *)
(* Bytes are counted, not kept.  The body either hashes to the digest that *)
(* the proof signed or does not (honest), and a proper prefix never does.  *)
(***************************************************************************)
EXTENDS Integers

CONSTANTS
  Stores,     \* stores to run with, out of "memory", "postgres"
  MaxLen,     \* the longest body a client sends
  Limit,      \* MAX_BLOB_BYTES
  BufSize     \* ChunkBytes, the buffer of the Postgres store

ASSUME SizeAssumption ==
  /\ MaxLen \in Nat
  /\ Limit \in Nat \ {0}
  /\ BufSize \in Nat \ {0}
  /\ Stores \subseteq {"memory", "postgres"}

VARIABLES
  request,  \* store, framing ("length" or "chunked"), len and honest: fixed
  wire,     \* "up", "cut" or "io": whether the connection still delivers
  read,     \* countingBody.read
  over,     \* sizeGuard.over
  failed,   \* digestVerifyingBody.failed
  buf,      \* bytes in the buffer that io.ReadFull is filling
  size,     \* bytes the store has taken
  st,       \* where the handler is
  err,      \* the error the last read loop iteration ended with
  status    \* the answer, "none" until there is one

vars == <<request, wire, read, over, failed, buf, size, st, err, status>>

Init ==
  /\ request \in [store : Stores, framing : {"length", "chunked"},
                  len : 0..MaxLen, honest : BOOLEAN]
  /\ wire = "up" /\ read = 0 /\ over = FALSE /\ failed = FALSE
  /\ buf = 0 /\ size = 0
  /\ st = "arrived" /\ err = "nil" /\ status = "none"

-------------------------------------------------------------------------------
(* Mutant: the handler's own answer goes out although the body overran. *)
AnswerUnguarded(code) == st' = "answered" /\ status' = code

(* sizeGuard.WriteHeader: once the body overran, every answer is the 413. *)
Answer(code) ==
  /\ st' = "answered"
  /\ status' = IF over THEN "too_large" ELSE code

(* maxBody on the way in: a declared length is believed only to refuse. *)
Admit ==
  /\ st = "arrived"
  /\ IF request.framing = "length" /\ request.len > Limit
     THEN Answer("too_large")
     ELSE st' = "admitted" /\ UNCHANGED status
  /\ UNCHANGED <<request, wire, read, over, failed, buf, size, err>>

(* The middleware and the handler may answer before a byte is read (401,   *)
(* 415, 400, and 409 from the store's first check), or start the read loop. *)
Start ==
  /\ st = "admitted"
  /\ \/ \E code \in {"refused", "conflict"} : Answer(code)
     \/ st' = "reading" /\ UNCHANGED status
  /\ UNCHANGED <<request, wire, read, over, failed, buf, size, err>>

-------------------------------------------------------------------------------
(* What one Read of net/http's body may return: n bytes and an error.  A   *)
(* connection that breaks off early is io.ErrUnexpectedEOF; a chunked body *)
(* can break off after its last byte, before the final chunk says so.  The *)
(* "io" errors are the others: a read deadline, a malformed chunk.         *)
NetRead(n, e) ==
  /\ read + n <= request.len
  /\ \/ wire = "cut" /\ n = 0 /\ e = "unexpected_eof"
     \/ wire = "io" /\ n = 0 /\ e = "io"
     \/ /\ wire = "up"
        /\ \/ e = "nil" /\ n > 0
           \/ e = "eof" /\ read + n = request.len
           \/ e = "unexpected_eof" /\ (read + n < request.len \/ request.framing = "chunked")
           \/ e = "io"
  /\ wire' = IF e = "unexpected_eof" THEN "cut" ELSE IF e = "io" THEN "io" ELSE wire

NetErrors == {"nil", "eof", "unexpected_eof", "io"}

(* countingBody.Read: its error, given what the network returned. *)
Count(n, e) == IF read + n > Limit THEN "too_large" ELSE e

(* Mutant: a digest that does not match goes unnoticed. *)
DigestUnchecked(n, e) == e

(* Mutant: the digest is compared at any end. *)
DigestAtAnyEnd(n, e) ==
  IF e # "nil" /\ ~(request.honest /\ read + n = request.len) THEN "mismatch" ELSE e

(* digestVerifyingBody.Read: EOF, and only EOF, is when the digest is      *)
(* compared.                                                               *)
Digest(n, e) == IF e = "eof" /\ ~request.honest THEN "mismatch" ELSE e

(* One Read through all wrappers.  Once the digest has failed, nothing     *)
(* below is asked any more.                                                *)
Wrapped(n, e) ==
  IF failed
  THEN /\ n = 0 /\ e = "mismatch"
       /\ UNCHANGED <<wire, read, over, failed>>
  ELSE \E net \in NetErrors :
         /\ NetRead(n, net)
         /\ e = Digest(n, Count(n, net))
         /\ read' = read + n
         /\ over' = (over \/ Count(n, net) = "too_large")
         /\ failed' = (e = "mismatch")

Errors == {"nil", "eof", "unexpected_eof", "io", "too_large", "mismatch"}

(* io.ReadFull, one Read at a time: a full buffer is returned without the  *)
(* error that came with its last bytes, and an EOF after some bytes as     *)
(* io.ErrUnexpectedEOF.                                                    *)
ReadFull ==
  /\ st = "reading" /\ request.store = "postgres"
  /\ \E n \in 0..BufSize - buf : \E e \in Errors :
       /\ Wrapped(n, e)
       /\ buf' = buf + n
       /\ \/ /\ buf + n = BufSize
             /\ st' = "chunk" /\ err' = "nil"
          \/ /\ buf + n < BufSize /\ e = "nil"
             /\ UNCHANGED <<st, err>>
          \/ /\ buf + n < BufSize /\ e # "nil"
             /\ st' = "chunk"
             /\ err' = IF e = "eof" /\ buf + n > 0 THEN "unexpected_eof" ELSE e
  /\ UNCHANGED <<request, size, status>>

(* Mutant: the append runs on a context of its own. *)
ContextDetached == FALSE

(* net/http cancels the request's context when its connection is lost,     *)
(* before the body returns io.ErrUnexpectedEOF.  Append passes that        *)
(* context to the store, where every statement and the COMMIT use it.      *)
ContextEnded == wire = "cut"

(* Mutant: the error is looked at before the bytes that came with it. *)
StoreChunkErrorFirst ==
  /\ st = "chunk"
  /\ size' = (IF err = "nil" THEN size + buf ELSE size) /\ buf' = 0
  /\ st' = CASE err = "nil" -> "reading"
             [] err \in {"eof", "unexpected_eof"} -> "drained"
             [] OTHER -> "aborted"
  /\ UNCHANGED <<request, wire, read, over, failed, err, status>>

(* The rest of the loop's body: what was read is inserted, whatever the    *)
(* error; then EOF and ErrUnexpectedEOF leave the loop and any other error *)
(* ends the append.  The insert itself may fail or meet a conflict, and it *)
(* fails for sure once the context has ended.                              *)
StoreChunk ==
  /\ st = "chunk"
  /\ \/ /\ buf = 0 \/ ~ContextEnded
        /\ size' = size + buf /\ buf' = 0
        /\ st' = CASE err = "nil" -> "reading"
                   [] err \in {"eof", "unexpected_eof"} -> "drained"
                   [] OTHER -> "aborted"
        /\ UNCHANGED status
     \/ /\ buf > 0
        /\ \/ Answer("internal")
           \/ ~ContextEnded /\ Answer("conflict")
        /\ UNCHANGED <<size, buf>>
  /\ UNCHANGED <<request, wire, read, over, failed, err>>

(* io.ReadAll: EOF is the only good end. *)
ReadAll ==
  /\ st = "reading" /\ request.store = "memory"
  /\ \E n \in 0..MaxLen : \E e \in Errors :
       /\ Wrapped(n, e)
       /\ size' = size + n
       /\ err' = e
       /\ st' = CASE e = "nil" -> "reading" [] e = "eof" -> "drained" [] OTHER -> "aborted"
  /\ UNCHANGED <<request, buf, status>>

(* The append of a drained body: refused when empty, else stored, unless   *)
(* the store fails or someone else took the sequence number.  The row of   *)
(* blob_log and the COMMIT fail once the context has ended.                *)
Store ==
  /\ st = "drained"
  /\ \/ size = 0 /\ Answer("empty")
     \/ size > 0 /\ Answer("internal")
     \/ /\ size > 0 /\ (request.store = "postgres" => ~ContextEnded)
        /\ \E code \in {"created", "conflict"} : Answer(code)
  /\ UNCHANGED <<request, wire, read, over, failed, buf, size, err>>

(* The append returned the read error: nothing is stored. *)
Abort ==
  /\ st = "aborted"
  /\ Answer(IF err = "mismatch" THEN "digest_mismatch" ELSE "internal")
  /\ UNCHANGED <<request, wire, read, over, failed, buf, size, err>>

Done == st = "answered" /\ UNCHANGED vars

Next == Admit \/ Start \/ ReadFull \/ StoreChunk \/ ReadAll \/ Store \/ Abort \/ Done

Spec == Init /\ [][Next]_vars

-------------------------------------------------------------------------------
(* Properties *)

(* Counters stay within the body and the buffer, and the handler is at one *)
(* of its control points.                                                  *)
TypeOK ==
  /\ read \in 0..request.len /\ size \in 0..request.len /\ buf \in 0..BufSize
  /\ size + buf = read
  /\ wire \in {"up", "cut", "io"} /\ over \in BOOLEAN /\ failed \in BOOLEAN
  /\ st \in {"arrived", "admitted", "reading", "chunk", "drained", "aborted", "answered"}
  /\ err \in Errors
  /\ status \in {"none", "created", "refused", "conflict", "empty", "digest_mismatch",
                 "internal", "too_large"}

Stored == status = "created"

(* "The digest the proof signed is checked against the actual bytes as the *)
(* handler streams them" (middlewares/authproof.go), and "nothing is kept  *)
(* from a bad upload" (handlers/append.go): what is stored is the whole    *)
(* body and hashes to what was signed, however its reads are cut up,       *)
(* whichever error arrives with the bytes that fill a buffer, and although *)
(* the Postgres store's loop ends well on a connection that broke off.     *)
StoredIsSigned == Stored => request.honest /\ size = request.len

(* A body that overruns the cap is never stored, whether or not it         *)
(* declared its length and although the overrun may arrive with the bytes  *)
(* that fill a buffer; the client is told 413, whatever the handler would  *)
(* have said, and nobody else is.                                          *)
OversizeIsTooLarge ==
  /\ Stored => size <= Limit
  /\ st = "answered" /\ read > Limit => status = "too_large"
  /\ status = "too_large" => request.len > Limit

(* Whoever is told that the digest did not match did send other bytes than *)
(* the signed ones, all of them: a connection that broke off, a timeout or *)
(* an oversize body is not blamed on the digest.                           *)
MismatchMeansOtherBytes ==
  status = "digest_mismatch" =>
    ~request.honest /\ read = request.len /\ wire = "up" /\ read <= Limit
===============================================================================
