------------------------------- MODULE BlobStore -------------------------------
(***************************************************************************)
(* What the BlobStore interface promises, whichever implementation is      *)
(* behind it: every stream is a gapless log that only grows at its end, a  *)
(* generation goes as a whole and never from the retained window, an       *)
(* account goes as a whole, and a caller's answer says what happened.      *)
(*                                                                         *)
(* Every operation takes effect in one step, the step in which it answers. *)
(* An append is the only call that is open for more than a step, since its *)
(* body streams in between.                                                *)
(***************************************************************************)
EXTENDS BlobKeys, Sequences

CONSTANTS Caller, Blob

VARIABLES
  log,      \* log[t] is the sequence of blobs of stream t
  pending,  \* pending[c] is the key of the append caller c has open, if any
  reply     \* reply[c] is the answer to the last call of c

vars == <<log, pending, reply>>

(* The caller has no append open. *)
NoKey == [p |-> "none"]

(* What a call may answer: a Get answers the blob itself. *)
Answer == Blob \cup {"none", "stored", "conflict", "empty", "body_error",
                    "internal", "not_found", "retention_guard", "pruned", "erased"}

Init ==
  /\ log = [t \in Stream |-> <<>>]
  /\ pending = [c \in Caller |-> NoKey]
  /\ reply = [c \in Caller |-> "none"]

Idle(c) == pending[c] = NoKey

Return(c, r) ==
  /\ pending' = [pending EXCEPT ![c] = NoKey]
  /\ reply' = [reply EXCEPT ![c] = r]

AppendOpen(c, k) ==
  /\ Idle(c)
  /\ pending' = [pending EXCEPT ![c] = k]
  /\ reply' = [reply EXCEPT ![c] = "none"]
  /\ UNCHANGED log

IsNext(k) == k.s = Len(log[StreamOf(k)]) + 1

Extend(k, b) == log' = [log EXCEPT ![StreamOf(k)] = Append(@, b)]

(* The blob becomes the last of its stream exactly when the caller is told. *)
AppendStored(c, b) ==
  /\ ~Idle(c)
  /\ IsNext(pending[c])
  /\ Extend(pending[c], b)
  /\ Return(c, "stored")

(* A conflict is answered only for a key that is not the next of its stream *)
(* at that moment, whether or not the call was seen opening.                *)
AppendConflict(c, k) ==
  /\ Idle(c) \/ pending[c] = k
  /\ ~IsNext(k)
  /\ Return(c, "conflict")
  /\ UNCHANGED log

(* An empty body, a body that could not be read, or a failure of the store: *)
(* nothing is kept.                                                         *)
AppendRefused(c) ==
  /\ \E r \in {"empty", "body_error", "internal"} : Return(c, r)
  /\ UNCHANGED log

(* An error after the blob became durable: the caller cannot tell it from   *)
(* the failures above.                                                      *)
AppendUnknown(c, b) ==
  /\ ~Idle(c)
  /\ IsNext(pending[c])
  /\ Extend(pending[c], b)
  /\ Return(c, "internal")

Newest(p, d) ==
  MaxOrZero({t.g : t \in {u \in Stream : u.p = p /\ u.d = d /\ log[u] # <<>>}})

DeleteGeneration(c, t) ==
  /\ Idle(c)
  /\ \/ /\ InRetainedWindow(t.g, Newest(t.p, t.d))
        /\ Return(c, "retention_guard")
        /\ UNCHANGED log
     \/ /\ ~InRetainedWindow(t.g, Newest(t.p, t.d))
        /\ log' = [log EXCEPT ![t] = <<>>]
        /\ Return(c, IF log[t] = <<>> THEN "not_found" ELSE "pruned")

DeleteAccount(c, p) ==
  /\ Idle(c)
  /\ log' = [t \in Stream |-> IF t.p = p THEN <<>> ELSE log[t]]
  /\ Return(c, "erased")

(* The blob at k, or not_found: a key that was never stored and a key that  *)
(* was deleted are answered alike.                                          *)
Get(c, k) ==
  /\ Idle(c)
  /\ Return(c, IF k.s <= Len(log[StreamOf(k)]) THEN log[StreamOf(k)][k.s]
               ELSE "not_found")
  /\ UNCHANGED log

Next ==
  \E c \in Caller :
    \/ \E k \in Key : AppendOpen(c, k) \/ AppendConflict(c, k) \/ Get(c, k)
    \/ \E b \in Blob : AppendStored(c, b) \/ AppendUnknown(c, b)
    \/ AppendRefused(c)
    \/ \E t \in Stream : DeleteGeneration(c, t)
    \/ \E p \in Pseudonym : DeleteAccount(c, p)

Spec == Init /\ [][Next]_vars
===============================================================================
