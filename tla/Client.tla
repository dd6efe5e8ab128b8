-------------------------------- MODULE Client --------------------------------
(***************************************************************************)
(* The clients (client/client.go and ts-client/src/client.ts) and what is  *)
(* left of a request on its way to the store: one client object that       *)
(* several calls share, a transport that may send a request again, the     *)
(* server's replay guard, and the store as BlobStore describes it.         *)
(*                                                                         *)
(* A call fetches the server's identity key if it is not cached, signs a   *)
(* proof and sends one request.  The transport may find the connection     *)
(* dead and send the same bytes again, or give up; the server may still be *)
(* working on a copy whose answer nobody reads any more.  The Go client    *)
(* answers the replay refusal that such a copy earns with one fresh proof. *)
(*                                                                         *)
(* A copy of a request is <<call, attempt, n>>: the n-th time the attempt  *)
(* was put on the wire.  Copies of one attempt carry one proof.  Expiry is *)
(* AuthProof's subject: here a proof may be refused at any time, and a     *)
(* nonce that was consumed stays on record.                                *)
(***************************************************************************)
EXTENDS BlobKeys, Sequences

CONSTANTS
  Call,       \* calls made through the client
  Kinds,      \* clients to run with, out of "go", "ts"
  Request,    \* Request[c]: what call c may ask for, records [op, k]
  MaxCopies,  \* how often one attempt is put on the wire at most
  MaxResends, \* how many requests are sent again in all
  Seeded      \* generations that hold one blob from the start

(* "get" stands for all that only reads: Blob, Index and Manifest. *)
Op == {"append", "get", "prune", "erase"}

(* What a call or a copy of its request may be answered, blobs aside. *)
Outcome == {"none", "failed", "reused", "internal", "stored", "conflict",
            "not_found", "retention_guard", "pruned", "erased"}

ASSUME ClientAssumption ==
  /\ Call \cap (Outcome \cup {"free", "seed"}) = {}
  /\ Kinds \subseteq {"go", "ts"}
  /\ Request \in [Call -> SUBSET [op : Op, k : Key]]
  /\ MaxCopies \in Nat \ {0}
  /\ MaxResends \in Nat
  /\ Seeded \subseteq Generation

VARIABLES
  kind,     \* which client this is
  limits,   \* whether the limits are cached (c.limits, cachedLimits)
  mu,       \* the call that holds c.mu, or "free"
  call,     \* call[c]: where call c is
  copy,     \* copy[d]: where copy d of a request is
  spent,    \* proofs <<call, attempt>> whose nonce is on record
  log, pending, reply   \* the store's

storeVars == <<log, pending, reply>>
vars == <<kind, limits, mu, call, copy, spent, storeVars>>

Copy == Call \X (1..2) \X (1..MaxCopies)

(* The handlers run on the interface, one caller per copy; the bytes of an *)
(* upload are those of its call.                                           *)
Store == INSTANCE BlobStore WITH Caller <- Copy, Blob <- Call \cup {"seed"}

NoRequest == [op |-> "none"]

Init ==
  /\ kind \in Kinds
  /\ limits = FALSE
  /\ mu = "free"
  /\ call = [c \in Call |-> [st |-> "new", req |-> NoRequest, attempt |-> 1, n |-> 0, ans |-> "none"]]
  /\ copy = [d \in Copy |-> [st |-> "unsent", ans |-> "none", did |-> FALSE]]
  /\ spent = {}
  /\ log = [t \in Stream |-> IF t.g \in Seeded THEN <<"seed">> ELSE <<>>]
  /\ pending = [d \in Copy |-> Store!NoKey]
  /\ reply = [d \in Copy |-> "none"]

-------------------------------------------------------------------------------
(* The call *)

Bodyless(c) == call[c].req.op # "append"

(* The copy whose answer the transport is waiting for. *)
Current(c) == <<c, call[c].attempt, call[c].n>>

Returned(c, ans) == call' = [call EXCEPT ![c].st = "returned", ![c].ans = ans]

Begin(c, r) ==
  /\ call[c].st = "new"
  /\ call' = [call EXCEPT ![c].st = "start", ![c].req = r]
  /\ UNCHANGED <<kind, limits, mu, copy, spent, storeVars>>

(* The wallet could not be built, or does not sign. *)
LocalError(c) ==
  /\ call[c].st \in {"start", "ready"}
  /\ Returned(c, "failed")
  /\ UNCHANGED <<kind, limits, mu, copy, spent, storeVars>>

(* Mutant: the cache is looked at without the mutex. *)
LimitsUnlocked(c) ==
  /\ call[c].st = "start"
  /\ kind = "go"
  /\ call' = [call EXCEPT ![c].st = IF limits THEN "ready" ELSE "fetching"]
  /\ UNCHANGED <<kind, limits, mu, copy, spent, storeVars>>

(* Limits of the Go client: the mutex is held across the fetch. *)
Limits(c) ==
  /\ call[c].st = "start"
  /\ kind = "go"
  /\ mu = "free"
  /\ call' = [call EXCEPT ![c].st = IF limits THEN "ready" ELSE "fetching"]
  /\ mu' = IF limits THEN "free" ELSE c
  /\ UNCHANGED <<kind, limits, copy, spent, storeVars>>

(* limits of the TypeScript client, up to the await of its fetch. *)
LimitsTs(c) ==
  /\ call[c].st = "start"
  /\ kind = "ts"
  /\ call' = [call EXCEPT ![c].st = IF limits THEN "ready" ELSE "fetching"]
  /\ UNCHANGED <<kind, limits, mu, copy, spent, storeVars>>

(* The limits arrived and are cached. *)
Fetched(c) ==
  /\ call[c].st = "fetching"
  /\ call' = [call EXCEPT ![c].st = "ready"]
  /\ limits' = TRUE
  /\ mu' = "free"
  /\ UNCHANGED <<kind, copy, spent, storeVars>>

(* Mutant: the error path returns without unlocking. *)
FetchFailedLocked(c) ==
  /\ call[c].st = "fetching"
  /\ Returned(c, "failed")
  /\ UNCHANGED <<kind, limits, mu, copy, spent, storeVars>>

(* The fetch failed, was refused or answered without a usable key: nothing *)
(* is cached, so that the next call tries again.                           *)
FetchFailed(c) ==
  /\ call[c].st = "fetching"
  /\ Returned(c, "failed")
  /\ mu' = "free"
  /\ UNCHANGED <<kind, limits, copy, spent, storeVars>>

(* roundTrip, authedFetch: sign and put the request on the wire. *)
Send(c) ==
  /\ call[c].st = "ready"
  /\ call' = [call EXCEPT ![c].st = "waiting", ![c].n = 1]
  /\ copy' = [copy EXCEPT ![<<c, call[c].attempt, 1>>].st = "onway"]
  /\ UNCHANGED <<kind, limits, mu, spent, storeVars>>

(* The connection dies before an answer is read and the same bytes go out  *)
(* on another one: net/http does so with a request without a body, a proxy *)
(* on the way may do so with any.  An answer that was under way then is    *)
(* never read: it is one with the answer of a copy handled after this.     *)
Resend(c) ==
  /\ call[c].st = "waiting"
  /\ copy[Current(c)].ans = "none"
  /\ call[c].n < MaxCopies
  /\ Cardinality({d \in Copy : d[3] > 1 /\ copy[d].st # "unsent"}) < MaxResends
  /\ call' = [call EXCEPT ![c].n = @ + 1]
  /\ copy' = [copy EXCEPT ![<<c, call[c].attempt, call[c].n + 1>>].st = "onway"]
  /\ UNCHANGED <<kind, limits, mu, spent, storeVars>>

(* The caller's context ends, the connection is not made again, or the     *)
(* answer cannot be decoded.  The server goes on with what it has.         *)
GiveUp(c) ==
  /\ call[c].st = "waiting"
  /\ Returned(c, "failed")
  /\ copy' = [copy EXCEPT ![Current(c)].ans = "none"]
  /\ UNCHANGED <<kind, limits, mu, spent, storeVars>>

(* Mutant: a request with a body is signed and sent again too. *)
RetriesAnything(c) ==
  /\ kind = "go" /\ call[c].attempt = 1 /\ copy[Current(c)].ans = "reused"

(* Mutant: the refusal goes to the caller. *)
RetriesNothing(c) == FALSE

(* Mutant: any failure is taken for a replay. *)
RetriesFailures(c) ==
  /\ kind = "go" /\ Bodyless(c) /\ call[c].attempt = 1 /\ copy[Current(c)].ans \in {"reused", "failed"}

(* isSpentProofRefusal, and the conditions around it in do: the TypeScript *)
(* client has no such rule, and the second attempt is the last.            *)
Retries(c) ==
  /\ kind = "go"
  /\ Bodyless(c)
  /\ call[c].attempt = 1
  /\ copy[Current(c)].ans = "reused"

(* do: the answer is the caller's, or there is a second attempt with a     *)
(* proof of its own.                                                       *)
Receive(c) ==
  /\ call[c].st = "waiting"
  /\ copy[Current(c)].ans # "none"
  /\ IF Retries(c) THEN call' = [call EXCEPT ![c].st = "ready", ![c].attempt = 2]
     ELSE Returned(c, copy[Current(c)].ans)
  /\ copy' = [copy EXCEPT ![Current(c)].ans = "none"]
  /\ UNCHANGED <<kind, limits, mu, spent, storeVars>>

-------------------------------------------------------------------------------
(* The server *)

ProofOf(d) == <<d[1], d[2]>>
RequestOf(d) == call[d[1]].req

(* The copy never reaches the server. *)
Lose(d) ==
  /\ copy[d].st = "onway"
  /\ copy' = [copy EXCEPT ![d].st = "over"]
  /\ UNCHANGED <<kind, limits, mu, call, spent, storeVars>>

(* Somebody still waits for the answer of this copy. *)
Awaited(d) == call[d[1]].st = "waiting" /\ Current(d[1]) = d

(* The server is through with the copy; an answer nobody awaits is dropped. *)
Answered(d, ans, did) ==
  copy' = [copy EXCEPT ![d] =
             [st |-> "over", ans |-> IF Awaited(d) THEN ans ELSE "none", did |-> did]]

(* Mutant: every verified proof is let through. *)
AuthenticateAnyProof(d) ==
  /\ copy[d].st = "onway"
  /\ copy' = [copy EXCEPT ![d].st = "handling"]
  /\ spent' = spent \cup {ProofOf(d)}
  /\ UNCHANGED <<kind, limits, mu, call, storeVars>>

(* The middleware: refused by Verify, failed by the nonce store with or    *)
(* without the nonce on record, refused as a replay, or let through.       *)
Authenticate(d) ==
  /\ copy[d].st = "onway"
  /\ \/ Answered(d, "failed", FALSE) /\ spent' \in {spent, spent \cup {ProofOf(d)}}
     \/ IF ProofOf(d) \in spent THEN Answered(d, "reused", FALSE) /\ UNCHANGED spent
        ELSE /\ copy' = [copy EXCEPT ![d].st = "handling"]
             /\ spent' = spent \cup {ProofOf(d)}
  /\ UNCHANGED <<kind, limits, mu, call, storeVars>>

(* The append handler starts to stream the body. *)
OpenAppend(d) ==
  /\ copy[d].st = "handling" /\ RequestOf(d).op = "append"
  /\ Store!AppendOpen(d, RequestOf(d).k)
  /\ UNCHANGED <<kind, limits, mu, call, copy, spent>>

(* The handler's store call ends and its answer goes out.  The store may   *)
(* fail without a trace, and an error after a delete took effect is told   *)
(* as any other failure.                                                   *)
Handle(d) ==
  /\ copy[d].st = "handling"
  /\ LET r == RequestOf(d) IN
     /\ \/ Store!Return(d, "internal") /\ UNCHANGED log
        \/ r.op = "append" /\ Store!AppendStored(d, d[1])
        \/ r.op = "append" /\ Store!AppendUnknown(d, d[1])
        \/ r.op = "append" /\ Store!AppendConflict(d, r.k)
        \/ r.op = "get" /\ Store!Get(d, r.k)
        \/ r.op = "prune" /\ Store!DeleteGeneration(d, StreamOf(r.k))
        \/ r.op = "erase" /\ Store!DeleteAccount(d, r.k.p)
     /\ \E ans \in {reply'[d]} \cup (IF r.op \in {"prune", "erase"} THEN {"internal"} ELSE {}) :
          Answered(d, IF ans = "internal" THEN "failed" ELSE ans, log' # log)
  /\ UNCHANGED <<kind, limits, mu, call, spent>>

-------------------------------------------------------------------------------
CallStep(c) ==
  \/ Limits(c) \/ LimitsTs(c)
  \/ Fetched(c) \/ FetchFailed(c)
  \/ Send(c) \/ Receive(c)

CopyStep(d) == Authenticate(d) \/ OpenAppend(d) \/ Handle(d)

Next ==
  \/ \E c \in Call : \/ \E r \in Request[c] : Begin(c, r)
                     \/ CallStep(c)
                     \/ LocalError(c) \/ Resend(c) \/ GiveUp(c)
  \/ \E d \in Copy : CopyStep(d) \/ Lose(d)

Spec == Init /\ [][Next]_vars

(* A client goes on as long as it can, the fetch of the limits ends one    *)
(* way or the other, the server answers what reaches it (its timeouts end  *)
(* the bodies), and a connection whose request was lost is given up.       *)
Fairness ==
  /\ \A c \in Call : /\ WF_vars(CallStep(c))
                     /\ WF_vars(GiveUp(c) /\ copy[Current(c)].st = "over")
  /\ \A d \in Copy : WF_vars(CopyStep(d))

FairSpec == Spec /\ Fairness

-------------------------------------------------------------------------------
(* Properties *)

Succeeded(c) ==
  call[c].st = "returned" /\ call[c].ans \in Call \cup {"seed", "stored", "pruned", "erased", "not_found"}

Ans == Call \cup {"seed"} \cup Outcome

CallState ==
  [st : {"new", "start", "fetching", "ready", "waiting", "returned"},
   req : [op : Op, k : Key] \cup {NoRequest}, attempt : 1..2, n : 0..MaxCopies, ans : Ans]

CopyState == [st : {"unsent", "onway", "handling", "over"}, ans : Ans, did : BOOLEAN]

(* Calls and copies are at their control points; and "concurrent first     *)
(* calls collapse into one request" (client.go): with the Go client the    *)
(* call that fetches the limits is the one that holds the mutex, and none  *)
(* fetches them once they are known.                                       *)
TypeOK ==
  /\ kind \in Kinds /\ limits \in BOOLEAN /\ mu \in Call \cup {"free"}
  /\ kind = "go" => \A c \in Call : mu = c <=> call[c].st = "fetching"
  /\ kind = "go" /\ limits => mu = "free"
  /\ call \in [Call -> CallState]
  /\ copy \in [Copy -> CopyState]
  /\ spent \subseteq Call \X (1..2)

(* How often a copy of c changed the store. *)
Effects(c) == Cardinality({d \in Copy : d[1] = c /\ copy[d].did})

(* "re-signing would double-append rather than recover": an upload takes   *)
(* effect at most once, whatever copies of its request are about; and one  *)
(* that was told of a conflict has not taken effect and will not, in       *)
(* whatever copy.                                                          *)
AppendsOnce ==
  \A c \in Call : call[c].req.op = "append" =>
    /\ Effects(c) <= 1
    /\ call[c].ans = "stored" => Effects(c) = 1
    /\ call[c].ans = "conflict" => Effects(c) = 0

(* A request takes effect at most once per proof signed for it, and a      *)
(* second proof is signed only for a request without a body whose first    *)
(* proof the server has on record: no other failure is retried.            *)
RetryFollowsUse ==
  \A c \in Call :
    /\ Effects(c) <= call[c].attempt
    /\ call[c].attempt = 2 => Bodyless(c) /\ <<c, 1>> \in spent

(* "retrying exactly once recovers that case": with the Go client a        *)
(* request without a body is told "proof already used" only if both of its *)
(* attempts were put on the wire twice.                                    *)
OneResendRecovered ==
  \A c \in Call : kind = "go" /\ call[c].ans = "reused" /\ Bodyless(c) =>
    \A a \in 1..2 : \E d \in Copy : ProofOf(d) = <<c, a>> /\ d[3] > 1 /\ copy[d].st # "unsent"

(* Once the caller has its success, no copy of the request that is still   *)
(* about changes the store any more: a resent prune or erasure cannot hit  *)
(* what was written after it.  The exception is a call that retried: the   *)
(* handler of its first attempt may not have finished when the second is   *)
(* answered.                                                               *)
NoLateEffect ==
  [][\A d \in Copy : copy'[d].did /\ ~copy[d].did /\ Succeeded(d[1]) =>
       d[2] = 1 /\ call[d[1]].attempt = 2]_vars

(* Every call returns, whatever its requests meet and whoever else needs   *)
(* the limits at the time.                                                 *)
EveryCallReturns == \A c \in Call : (call[c].st # "new") ~> (call[c].st = "returned")
===============================================================================
