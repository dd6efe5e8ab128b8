------------------------------- MODULE AuthProof -------------------------------
(***************************************************************************)
(* One proof, one request: the AuthProof middleware, authproof.Sign and    *)
(* authproof.Verify, and the two nonce stores behind Consume.              *)
(*                                                                         *)
(* A client signs a proof that is good for Window; the request that        *)
(* carries it may be delivered more than once (a proxy or a transport      *)
(* resends, a copy is delayed), to any replica.  Verify compares the       *)
(* expiry with the replica's clock, and only then is the nonce consumed,   *)
(* in a store with a clock of its own that drops records once they have    *)
(* expired.  Time passes between any two steps.                            *)
(*                                                                         *)
(* now is the clock of the nonce store.  A nonce stands for its proof: it  *)
(* is 32 random bytes drawn by Sign.                                       *)
(***************************************************************************)
EXTENDS Integers, FiniteSets

CONSTANTS
  Proof,          \* proofs that may be signed
  Delivery,       \* requests that reach a replica, each carrying one proof
  Backends,       \* nonce stores to run with, out of "memory", "postgres"
  Window,         \* how long a proof is good for
  Skew,           \* tolerated clock difference
  ClientDrift,    \* client clocks, relative to now
  ReplicaDrift,   \* replica clocks, relative to now
  MaxTime         \* bound on the clock

ASSUME TimeAssumption ==
  /\ Window \in Nat \ {0}
  /\ Skew \in Nat
  /\ MaxTime \in Nat \ {0}
  /\ ClientDrift \subseteq Int
  /\ ReplicaDrift \subseteq Int
  /\ Backends \subseteq {"memory", "postgres"}

VARIABLES
  backend,    \* the nonce store: openStore picks it at boot and it stays
  now,        \* the nonce store's clock
  expiresAt,  \* the expiry of each proof that has been signed
  seen,       \* nonces on record
  req         \* req[d]: where delivery d is, its proof, and when it was consumed

vars == <<backend, now, expiresAt, seen, req>>

Signed == DOMAIN expiresAt

Init ==
  /\ backend \in Backends
  /\ now = 1
  /\ expiresAt = [p \in {} |-> 0]
  /\ seen = {}
  /\ req = [d \in Delivery |-> [st |-> "new", p |-> "none", at |-> 0]]

Tick ==
  /\ now < MaxTime
  /\ now' = now + 1
  /\ UNCHANGED <<backend, expiresAt, seen, req>>

(* authproof.Sign, by a client whose clock is off by drift. *)
Sign(p, drift) ==
  /\ p \notin Signed
  /\ expiresAt' = [q \in Signed \cup {p} |->
                     IF q = p THEN now + drift + Window ELSE expiresAt[q]]
  /\ UNCHANGED <<backend, now, seen, req>>

(* Mutant: any expiry is believed. *)
TooFarFutureNever(p, t) == FALSE

(* Verify's view of the expiry at time t. *)
Expired(p, t) == t >= expiresAt[p]
TooFarFuture(p, t) == expiresAt[p] - t > Window + Skew

(* What authproof.Verify may return at time t.  "refused" stands for what  *)
(* does not depend on the time: an action that is not this request's, a    *)
(* key or signature that cannot be read, a signature that does not hold.   *)
Verdicts(p, t) ==
  {"refused", IF Expired(p, t) THEN "expired"
              ELSE IF TooFarFuture(p, t) THEN "too_far" ELSE "verified"}

(* Mutant: the nonce is consumed before the proof is verified. *)
VerifyAfterRecording(d, p, drift) ==
  /\ req[d].st = "new"
  /\ p \in Signed
  /\ \E st \in Verdicts(p, now + drift) :
       req' = [req EXCEPT ![d] = [st |-> st, p |-> p, at |-> 0]]
  /\ seen' = seen \cup {p}
  /\ UNCHANGED <<backend, now, expiresAt>>

(* The middleware up to and including Verify, on a replica whose clock is  *)
(* off by drift (the memory store serves a single process, whose clock is  *)
(* the store's own).  A missing or malformed header and an upload without  *)
(* a digest are refused as well.                                           *)
Verify(d, p, drift) ==
  /\ req[d].st = "new"
  /\ p \in Signed
  /\ backend = "memory" => drift = 0
  /\ \E st \in Verdicts(p, now + drift) :
       req' = [req EXCEPT ![d] = [st |-> st, p |-> p, at |-> 0]]
  /\ UNCHANGED <<backend, now, expiresAt, seen>>

(* Mutant: records go at the expiry already. *)
SweepableAtExpiry == {p \in seen : expiresAt[p] <= now}

(* Records whose proofs have expired: time.After for the map, < now() for  *)
(* the table.                                                              *)
Sweepable == {p \in seen : expiresAt[p] < now}

Answer(d, st) == req' = [req EXCEPT ![d] = [st |-> st, p |-> req[d].p, at |-> now]]

(* Mutant: a request whose header was not decoded is consumed too. *)
ConsumeMemoryUndecoded(d) ==
  /\ backend = "memory"
  /\ req[d].st = "new"
  /\ seen' = seen \cup {req[d].p}
  /\ Answer(d, "handled")
  /\ UNCHANGED <<backend, now, expiresAt>>

(* MemoryStore.Consume: sweep, look up and record under one mutex. *)
ConsumeMemory(d) ==
  /\ backend = "memory"
  /\ req[d].st = "verified"
  /\ LET kept == seen \ Sweepable IN
     IF req[d].p \in kept
     THEN seen' = kept /\ Answer(d, "reused")
     ELSE seen' = kept \cup {req[d].p} /\ Answer(d, "handled")
  /\ UNCHANGED <<backend, now, expiresAt>>

(* PostgresStore.Consume, first statement: one call in 64 sweeps, the      *)
(* others go straight on.  A sweep that fails fails the request.           *)
Sweep(d) ==
  /\ backend = "postgres"
  /\ req[d].st = "verified"
  /\ seen' \in {seen, seen \ Sweepable}
  /\ \/ req' = [req EXCEPT ![d] = [st |-> "swept", p |-> req[d].p, at |-> 0]]
     \/ Answer(d, "sweep_failed")
  /\ UNCHANGED <<backend, now, expiresAt>>

(* Second statement: INSERT ... ON CONFLICT DO NOTHING; one row affected   *)
(* means the nonce is fresh.  Each statement commits by itself.            *)
Insert(d) ==
  /\ backend = "postgres"
  /\ req[d].st = "swept"
  /\ IF req[d].p \in seen
     THEN seen' = seen /\ Answer(d, "reused")
     ELSE seen' = seen \cup {req[d].p} /\ Answer(d, "handled")
  /\ UNCHANGED <<backend, now, expiresAt>>

(* The insert is not answered, whether or not it took effect: the request  *)
(* is answered 500 and goes no further.                                    *)
InsertFails(d) ==
  /\ backend = "postgres"
  /\ req[d].st = "swept"
  /\ seen' \in {seen, seen \cup {req[d].p}}
  /\ Answer(d, "internal")
  /\ UNCHANGED <<backend, now, expiresAt>>

Consume(d) == ConsumeMemory(d) \/ Sweep(d) \/ Insert(d) \/ InsertFails(d)

Next ==
  \/ Tick
  \/ \E p \in Proof : \E drift \in ClientDrift : Sign(p, drift)
  \/ \E d \in Delivery :
       \/ \E p \in Proof : \E drift \in ReplicaDrift \cup {0} : Verify(d, p, drift)
       \/ Consume(d)

Spec == Init /\ [][Next]_vars

-------------------------------------------------------------------------------
(* Properties *)

(* Clocks are numbers, records belong to signed proofs, and a delivery is  *)
(* at one of the middleware's control points.                              *)
TypeOK ==
  /\ backend \in Backends
  /\ now \in 1..MaxTime
  /\ Signed \subseteq Proof /\ expiresAt \in [Signed -> Int]
  /\ seen \subseteq Signed
  /\ req \in [Delivery -> [st : {"new", "refused", "expired", "too_far", "verified", "swept",
                                 "sweep_failed", "handled", "reused", "internal"},
                           p : Proof \cup {"none"}, at : 0..MaxTime]]
  /\ \A d \in Delivery : req[d].st # "new" => req[d].p \in Signed

(* While a proof is valid by the store's clock it lets one request through *)
(* and no more, however its copies, the sweeps and the inserts of several  *)
(* replicas interleave: of two that got through, one was consumed after    *)
(* the expiry.                                                             *)
SingleUseWhileValid ==
  \A d, e \in Delivery :
    d # e /\ req[d].st = "handled" /\ req[e].st = "handled" /\ req[d].p = req[e].p =>
      req[d].at > expiresAt[req[d].p] \/ req[e].at > expiresAt[req[d].p]

(* "Single-use, and only after the signature held -- otherwise anyone      *)
(* could burn nonces into the store": a nonce is on record only because a  *)
(* delivery that passed Verify got through, or lost the store's answer.    *)
NoNonceBurnt ==
  \A p \in seen : \E d \in Delivery : req[d].p = p /\ req[d].st \in {"handled", "internal"}

(* A proof refused as reused was used, or its first copy met a failing     *)
(* store: a fresh proof is never turned away as a replay.                  *)
ReuseMeansUsed ==
  \A d \in Delivery : req[d].st = "reused" =>
    \E e \in Delivery \ {d} : req[e].p = req[d].p /\ req[e].st \in {"handled", "internal"}
                              /\ req[e].at <= req[d].at

(* "the table only ever holds one validity window's worth of rows": a      *)
(* nonce goes on record at most Window and Skew (and the drift of the      *)
(* replica that checked the proof) ahead of the moment it can be swept,    *)
(* however far ahead the client's clock was and however long the request   *)
(* waited between Verify and Consume.                                      *)
RecordsExpire ==
  \A d \in Delivery : req[d].st \in {"handled", "internal"} =>
    \E drift \in ReplicaDrift \cup {0} :
      expiresAt[req[d].p] <= req[d].at + drift + Window + Skew
===============================================================================
