---------------------------- MODULE AuthProofProofs ----------------------------
(***************************************************************************)
(* Proofs about AuthProof, for any number of proofs and deliveries and any *)
(* clocks.  The properties hold together: what a request was told is       *)
(* related to the nonces on record by Recorded, and to the time it was     *)
(* told by Dated and InTime.                                               *)
(***************************************************************************)
EXTENDS AuthProof, TLAPS

(* No request was answered in the future. *)
Dated == \A d \in Delivery : req[d].at <= now

(* The nonce of a request that got through is on record until it expires. *)
Recorded ==
  \A d \in Delivery : req[d].st = "handled" =>
    req[d].p \in seen \/ expiresAt[req[d].p] < now

(* A proof that passed Verify is no further ahead than Verify allows. *)
InTime ==
  \A d \in Delivery : req[d].st \in {"verified", "swept"} =>
    \E drift \in ReplicaDrift \cup {0} : expiresAt[req[d].p] <= now + drift + Window + Skew

IInv ==
  /\ TypeOK /\ Dated /\ Recorded /\ InTime
  /\ SingleUseWhileValid /\ NoNonceBurnt /\ ReuseMeansUsed /\ RecordsExpire

(* What each answer of the nonce stores amounts to, whichever store gave   *)
(* it: what it may drop, what it may record, and what it may then say.     *)
Settles(d, st) ==
  /\ req[d].st \in {"verified", "swept"}
  /\ st \in {"sweep_failed", "handled", "reused", "internal"}
  /\ Answer(d, st)
  /\ seen' \subseteq seen \cup {req[d].p}
  /\ \A p \in seen \ seen' : expiresAt[p] < now
  /\ req[d].p \in seen' \ seen => st \in {"handled", "internal"}
  /\ st = "handled" => /\ req[d].p \in seen'
                       /\ req[d].p \in seen => expiresAt[req[d].p] < now
  /\ st = "reused" => req[d].p \in seen
  /\ UNCHANGED <<backend, now, expiresAt>>

(* Every answer of Consume preserves the invariant. *)
LEMMA SettlesPreserves ==
  ASSUME IInv, NEW d \in Delivery, NEW st, Settles(d, st)
  PROVE  IInv'
<1> USE TimeAssumption
<1>1. /\ TypeOK /\ Dated /\ Recorded /\ InTime
      /\ SingleUseWhileValid /\ NoNonceBurnt /\ ReuseMeansUsed /\ RecordsExpire
  BY DEF IInv
<1>2. /\ now \in Int /\ now \in 1..MaxTime /\ now' = now
      /\ expiresAt' = expiresAt /\ backend' = backend
      /\ \A p \in Signed : expiresAt[p] \in Int
  BY <1>1 DEF TypeOK, Settles, Signed
<1>3. /\ req[d].p \in Signed /\ req[d].p \in Proof \cup {"none"}
      /\ req[d].st \in {"verified", "swept"}
  BY <1>1 DEF TypeOK, Settles
<1>4. req' = [req EXCEPT ![d] = [st |-> st, p |-> req[d].p, at |-> now]]
  BY <1>1 DEF Settles, Answer, TypeOK
<1>5. /\ req'[d] = [st |-> st, p |-> req[d].p, at |-> now]
      /\ \A e \in Delivery \ {d} : req'[e] = req[e]
      /\ \A e \in Delivery : req'[e].p = req[e].p
  BY <1>1, <1>4 DEF TypeOK
<1>6. TypeOK'
  <2>1. seen' \subseteq Signed
    BY <1>1, <1>3 DEF TypeOK, Settles
  <2>2. req' \in [Delivery -> [st : {"new", "refused", "expired", "too_far", "verified", "swept",
                                 "sweep_failed", "handled", "reused", "internal"},
                           p : Proof \cup {"none"}, at : 0..MaxTime]]
    BY <1>1, <1>2, <1>3, <1>4 DEF TypeOK, Settles
  <2>3. \A e \in Delivery : req'[e].st # "new" => req'[e].p \in Signed
    BY <1>1, <1>3, <1>5 DEF TypeOK
  <2> QED BY <1>1, <1>2, <2>1, <2>2, <2>3 DEF TypeOK, Signed
<1>7. Dated'
  BY <1>1, <1>2, <1>5 DEF Dated
<1>8. Recorded'
  <2> SUFFICES ASSUME NEW e \in Delivery, req'[e].st = "handled"
               PROVE  req'[e].p \in seen' \/ expiresAt[req'[e].p] < now
    BY <1>2 DEF Recorded
  <2>1. CASE e = d
    BY <2>1, <1>5 DEF Settles
  <2>2. CASE e # d
    BY <2>2, <1>1, <1>5 DEF Recorded, Settles
  <2> QED BY <2>1, <2>2
<1>9. InTime'
  BY <1>1, <1>2, <1>5 DEF InTime, Settles
<1>10. SingleUseWhileValid'
  <2> SUFFICES ASSUME NEW e \in Delivery, NEW f \in Delivery, e # f,
                      req'[e].st = "handled", req'[f].st = "handled", req'[e].p = req'[f].p
               PROVE  req'[e].at > expiresAt[req'[e].p] \/ req'[f].at > expiresAt[req'[e].p]
    BY <1>2 DEF SingleUseWhileValid
  <2>0. expiresAt[req[d].p] \in Int
    BY <1>2, <1>3
  <2>1. CASE e # d /\ f # d
    BY <2>1, <1>1, <1>5 DEF SingleUseWhileValid
  <2>2. CASE e = d
    <3>1. req[f].st = "handled" /\ req[f].p = req[d].p
      BY <2>2, <1>5
    <3>2. st = "handled"
      BY <2>2, <1>5
    <3>3. expiresAt[req[d].p] < now
      BY <3>1, <3>2, <1>1 DEF Recorded, Settles
    <3> QED BY <3>3, <2>0, <2>2, <1>2, <1>5
  <2>3. CASE f = d
    <3>1. req[e].st = "handled" /\ req[e].p = req[d].p
      BY <2>3, <1>5
    <3>2. st = "handled"
      BY <2>3, <1>5
    <3>3. expiresAt[req[d].p] < now
      BY <3>1, <3>2, <1>1 DEF Recorded, Settles
    <3> QED BY <3>3, <2>0, <2>3, <1>2, <1>5
  <2> QED BY <2>1, <2>2, <2>3
<1>11. NoNonceBurnt'
  <2> SUFFICES ASSUME NEW p \in seen'
               PROVE  \E e \in Delivery : req'[e].p = p /\ req'[e].st \in {"handled", "internal"}
    BY DEF NoNonceBurnt
  <2>1. CASE p \in seen
    <3>1. PICK e \in Delivery : req[e].p = p /\ req[e].st \in {"handled", "internal"}
      BY <2>1, <1>1 DEF NoNonceBurnt
    <3> QED BY <3>1, <1>3, <1>5
  <2>2. CASE p \notin seen
    BY <2>2, <1>5 DEF Settles
  <2> QED BY <2>1, <2>2
<1>12. ReuseMeansUsed'
  <2> SUFFICES ASSUME NEW e \in Delivery, req'[e].st = "reused"
               PROVE  \E f \in Delivery \ {e} : /\ req'[f].p = req'[e].p
                                                /\ req'[f].st \in {"handled", "internal"}
                                                /\ req'[f].at <= req'[e].at
    BY DEF ReuseMeansUsed
  <2>1. CASE e # d
    <3>1. PICK f \in Delivery \ {e} : /\ req[f].p = req[e].p
                                      /\ req[f].st \in {"handled", "internal"}
                                      /\ req[f].at <= req[e].at
      BY <2>1, <1>1, <1>5 DEF ReuseMeansUsed
    <3> QED BY <3>1, <2>1, <1>3, <1>5
  <2>2. CASE e = d
    <3>1. PICK f \in Delivery : req[f].p = req[d].p /\ req[f].st \in {"handled", "internal"}
      BY <2>2, <1>1, <1>5 DEF NoNonceBurnt, Settles
    <3>2. f # d /\ req[f].at <= now
      BY <3>1, <1>1, <1>3 DEF Dated
    <3> QED BY <3>1, <3>2, <2>2, <1>5
  <2> QED BY <2>1, <2>2
<1>13. RecordsExpire'
  <2> SUFFICES ASSUME NEW e \in Delivery, req'[e].st \in {"handled", "internal"}
               PROVE  \E drift \in ReplicaDrift \cup {0} :
                        expiresAt[req'[e].p] <= req'[e].at + drift + Window + Skew
    BY <1>2 DEF RecordsExpire
  <2>1. CASE e = d
    BY <2>1, <1>1, <1>3, <1>5 DEF InTime
  <2>2. CASE e # d
    BY <2>2, <1>1, <1>5 DEF RecordsExpire
  <2> QED BY <2>1, <2>2
<1> QED BY <1>6, <1>7, <1>8, <1>9, <1>10, <1>11, <1>12, <1>13 DEF IInv

(* ConsumeMemory, Insert and InsertFails answer, and so does a Sweep that   *)
(* fails: each is an answer in the sense of Settles.                        *)
LEMMA ConsumeSettles ==
  ASSUME IInv, NEW d \in Delivery, ConsumeMemory(d) \/ Insert(d) \/ InsertFails(d)
  PROVE  \E st \in {"handled", "reused", "internal"} : Settles(d, st)
<1>1. seen \subseteq Signed /\ now \in Int /\ \A p \in Signed : expiresAt[p] \in Int
  BY DEF IInv, TypeOK
<1>2. CASE ConsumeMemory(d)
  <2>1. CASE req[d].p \in seen \ Sweepable
    <3>1. Settles(d, "reused")
      BY <1>1, <1>2, <2>1 DEF ConsumeMemory, Settles, Sweepable
    <3> QED BY <3>1
  <2>2. CASE req[d].p \notin seen \ Sweepable
    <3>1. Settles(d, "handled")
      BY <1>1, <1>2, <2>2 DEF ConsumeMemory, Settles, Sweepable
    <3> QED BY <3>1
  <2> QED BY <2>1, <2>2
<1>3. CASE Insert(d)
  <2>1. CASE req[d].p \in seen
    <3>1. Settles(d, "reused")
      BY <1>3, <2>1 DEF Insert, Settles
    <3> QED BY <3>1
  <2>2. CASE req[d].p \notin seen
    <3>1. Settles(d, "handled")
      BY <1>3, <2>2 DEF Insert, Settles
    <3> QED BY <3>1
  <2> QED BY <2>1, <2>2
<1>4. CASE InsertFails(d)
  <2>1. Settles(d, "internal")
    BY <1>4 DEF InsertFails, Settles
  <2> QED BY <2>1
<1> QED BY <1>2, <1>3, <1>4

(* A request that moves on before it is answered, from st to a control      *)
(* point that is none of the answers, leaves the properties about answers   *)
(* alone.                                                                   *)
LEMMA AdvancePreserves ==
  ASSUME IInv, NEW d \in Delivery, NEW st, NEW p \in Signed,
         req[d].st \in {"new", "verified"},
         st \in {"refused", "expired", "too_far", "verified", "swept"},
         req' = [req EXCEPT ![d] = [st |-> st, p |-> p, at |-> 0]],
         st \in {"verified", "swept"} =>
           \E drift \in ReplicaDrift \cup {0} : expiresAt[p] <= now + drift + Window + Skew,
         seen' \subseteq seen,
         \A q \in seen \ seen' : expiresAt[q] < now,
         UNCHANGED <<backend, now, expiresAt>>
  PROVE  IInv'
<1> USE TimeAssumption
<1>1. /\ TypeOK /\ Dated /\ Recorded /\ InTime
      /\ SingleUseWhileValid /\ NoNonceBurnt /\ ReuseMeansUsed /\ RecordsExpire
  BY DEF IInv
<1>2. now \in 1..MaxTime /\ now' = now /\ expiresAt' = expiresAt /\ p \in Proof
  BY <1>1 DEF TypeOK, Signed
<1>3. /\ req'[d] = [st |-> st, p |-> p, at |-> 0]
      /\ \A e \in Delivery \ {d} : req'[e] = req[e]
  BY <1>1 DEF TypeOK
<1>4. TypeOK'
  <2>1. req' \in [Delivery -> [st : {"new", "refused", "expired", "too_far", "verified", "swept",
                                 "sweep_failed", "handled", "reused", "internal"},
                           p : Proof \cup {"none"}, at : 0..MaxTime]]
    BY <1>1, <1>2 DEF TypeOK
  <2>2. \A e \in Delivery : req'[e].st # "new" => req'[e].p \in Signed
    BY <1>1, <1>3 DEF TypeOK
  <2> QED BY <1>1, <1>2, <2>1, <2>2 DEF TypeOK, Signed
<1>5. Dated'
  BY <1>1, <1>2, <1>3 DEF Dated
<1>6. Recorded'
  BY <1>1, <1>2, <1>3 DEF Recorded
<1>7. InTime'
  BY <1>1, <1>2, <1>3 DEF InTime
<1>8. SingleUseWhileValid'
  BY <1>1, <1>2, <1>3 DEF SingleUseWhileValid
<1>9. NoNonceBurnt'
  <2> SUFFICES ASSUME NEW q \in seen'
               PROVE  \E e \in Delivery : req'[e].p = q /\ req'[e].st \in {"handled", "internal"}
    BY DEF NoNonceBurnt
  <2>1. PICK e \in Delivery : req[e].p = q /\ req[e].st \in {"handled", "internal"}
    BY <1>1 DEF NoNonceBurnt
  <2> QED BY <2>1, <1>3
<1>10. ReuseMeansUsed'
  <2> SUFFICES ASSUME NEW e \in Delivery, req'[e].st = "reused"
               PROVE  \E f \in Delivery \ {e} : /\ req'[f].p = req'[e].p
                                                /\ req'[f].st \in {"handled", "internal"}
                                                /\ req'[f].at <= req'[e].at
    BY DEF ReuseMeansUsed
  <2>1. e # d
    BY <1>3
  <2>2. PICK f \in Delivery \ {e} : /\ req[f].p = req[e].p
                                    /\ req[f].st \in {"handled", "internal"}
                                    /\ req[f].at <= req[e].at
    BY <2>1, <1>1, <1>3 DEF ReuseMeansUsed
  <2> QED BY <2>1, <2>2, <1>3
<1>11. RecordsExpire'
  BY <1>1, <1>2, <1>3 DEF RecordsExpire
<1> QED BY <1>4, <1>5, <1>6, <1>7, <1>8, <1>9, <1>10, <1>11 DEF IInv

(* Signing a proof touches no request and no record, and time only makes    *)
(* more proofs expire.                                                      *)
LEMMA TimeAndSignPreserve ==
  ASSUME IInv, Tick \/ \E p \in Proof : \E drift \in ClientDrift : Sign(p, drift)
  PROVE  IInv'
<1> USE TimeAssumption
<1>1. /\ TypeOK /\ Dated /\ Recorded /\ InTime
      /\ SingleUseWhileValid /\ NoNonceBurnt /\ ReuseMeansUsed /\ RecordsExpire
  BY DEF IInv
<1>2. /\ seen' = seen /\ req' = req /\ backend' = backend
      /\ now \in 1..MaxTime /\ now' \in 1..MaxTime /\ now <= now'
      /\ Signed \subseteq Signed' /\ Signed' \subseteq Proof
      /\ expiresAt' \in [Signed' -> Int]
      /\ \A p \in Signed : expiresAt[p] \in Int /\ expiresAt'[p] = expiresAt[p]
  <2>1. CASE Tick
    BY <2>1, <1>1 DEF Tick, TypeOK, Signed
  <2>2. CASE \E p \in Proof : \E drift \in ClientDrift : Sign(p, drift)
    <3>1. PICK p \in Proof, drift \in ClientDrift : Sign(p, drift)
      BY <2>2
    <3> QED BY <3>1, <1>1 DEF Sign, TypeOK, Signed
  <2> QED BY <2>1, <2>2
<1>3. \A d \in Delivery : req[d].st # "new" => req[d].p \in Signed /\ expiresAt'[req[d].p] = expiresAt[req[d].p]
  BY <1>1, <1>2 DEF TypeOK
<1>4. TypeOK'
  BY <1>1, <1>2 DEF TypeOK
<1>5. Dated' /\ Recorded' /\ InTime'
  BY <1>1, <1>2, <1>3 DEF Dated, Recorded, InTime, TypeOK
<1>6. SingleUseWhileValid' /\ NoNonceBurnt' /\ ReuseMeansUsed' /\ RecordsExpire'
  BY <1>1, <1>2, <1>3 DEF SingleUseWhileValid, NoNonceBurnt, ReuseMeansUsed, RecordsExpire
<1> QED BY <1>4, <1>5, <1>6 DEF IInv

(* Every step preserves the invariant. *)
LEMMA StepPreserves ==
  ASSUME IInv, [Next]_vars
  PROVE  IInv'
<1> USE TimeAssumption
<1>1. CASE UNCHANGED vars
  BY <1>1 DEF vars, IInv, TypeOK, Signed, Dated, Recorded, InTime, SingleUseWhileValid,
              NoNonceBurnt, ReuseMeansUsed, RecordsExpire
<1>2. CASE Tick \/ \E p \in Proof : \E drift \in ClientDrift : Sign(p, drift)
  BY <1>2, TimeAndSignPreserve
<1>3. ASSUME NEW d \in Delivery, NEW p \in Proof, NEW drift \in ReplicaDrift \cup {0},
             Verify(d, p, drift)
      PROVE  IInv'
  <2>1. PICK st \in Verdicts(p, now + drift) :
          req' = [req EXCEPT ![d] = [st |-> st, p |-> p, at |-> 0]]
    BY <1>3 DEF Verify
  <2>2. st \in {"refused", "expired", "too_far", "verified"}
    BY <2>1 DEF Verdicts
  <2>3. p \in Signed /\ expiresAt[p] \in Int /\ now \in Int /\ drift \in Int
    BY <1>3 DEF Verify, IInv, TypeOK
  <2>4. st = "verified" => expiresAt[p] <= now + drift + Window + Skew
    BY <2>1, <2>3 DEF Verdicts, TooFarFuture
  <2> QED BY <1>3, <2>1, <2>2, <2>3, <2>4, AdvancePreserves DEF Verify
<1>4. ASSUME NEW d \in Delivery, ConsumeMemory(d) \/ Insert(d) \/ InsertFails(d)
      PROVE  IInv'
  BY <1>4, ConsumeSettles, SettlesPreserves
<1>5. ASSUME NEW d \in Delivery, Sweep(d)
      PROVE  IInv'
  <2>1. req[d].st = "verified" /\ req[d].p \in Signed
    BY <1>5 DEF Sweep, IInv, TypeOK
  <2>2. CASE req' = [req EXCEPT ![d] = [st |-> "swept", p |-> req[d].p, at |-> 0]]
    <3>1. \E drift \in ReplicaDrift \cup {0} : expiresAt[req[d].p] <= now + drift + Window + Skew
      BY <2>1 DEF IInv, InTime
    <3>2. seen' \subseteq seen /\ \A q \in seen \ seen' : expiresAt[q] < now
      BY <1>5 DEF Sweep, Sweepable
    <3> QED BY <1>5, <2>1, <2>2, <3>1, <3>2, AdvancePreserves DEF Sweep
  <2>3. CASE Answer(d, "sweep_failed")
    <3>1. seen' \subseteq seen /\ \A q \in seen \ seen' : expiresAt[q] < now
      BY <1>5 DEF Sweep, Sweepable
    <3>2. Settles(d, "sweep_failed")
      BY <1>5, <2>3, <3>1 DEF Sweep, Settles
    <3> QED BY <3>2, SettlesPreserves
  <2> QED BY <1>5, <2>2, <2>3 DEF Sweep
<1> QED BY <1>1, <1>2, <1>3, <1>4, <1>5 DEF Next, Consume

(* Before the first request nothing is on record. *)
LEMMA InitEstablishes == Init => IInv
BY TimeAssumption DEF Init, IInv, TypeOK, Signed, Dated, Recorded, InTime, SingleUseWhileValid,
   NoNonceBurnt, ReuseMeansUsed, RecordsExpire

(* The invariant and, with it, all that the run checks.                     *)
THEOREM Invariance == Spec => []IInv
<1>1. Init => IInv
  BY InitEstablishes
<1>2. IInv /\ [Next]_vars => IInv'
  BY StepPreserves
<1> QED BY <1>1, <1>2, PTL DEF Spec

(* The middleware's state is well-formed, whatever the number of requests. *)
THEOREM TypeCorrect == Spec => []TypeOK
<1>1. IInv => TypeOK
  BY DEF IInv
<1> QED BY <1>1, Invariance, PTL

(* Of any two requests that the same proof let through, one was consumed    *)
(* after the proof had expired by the nonce store's clock: while it is      *)
(* valid, a proof lets one request through, on either nonce store.          *)
THEOREM UsedOnceWhileValid == Spec => []SingleUseWhileValid
<1>1. IInv => SingleUseWhileValid
  BY DEF IInv
<1> QED BY <1>1, Invariance, PTL

(* A nonce is on record only because a request that passed Verify consumed  *)
(* it: nobody burns nonces into the store.                                  *)
THEOREM NoncesBelongToRequests == Spec => []NoNonceBurnt
<1>1. IInv => NoNonceBurnt
  BY DEF IInv
<1> QED BY <1>1, Invariance, PTL

(* A proof is refused as reused only if another request with it had its     *)
(* nonce consumed, or lost the store's answer, no later.                    *)
THEOREM ReuseIsReal == Spec => []ReuseMeansUsed
<1>1. IInv => ReuseMeansUsed
  BY DEF IInv
<1> QED BY <1>1, Invariance, PTL

(* No record is kept longer than a validity window, the tolerated skew and  *)
(* the drift of the replica that admitted it.                               *)
THEOREM RecordsAreBounded == Spec => []RecordsExpire
<1>1. IInv => RecordsExpire
  BY DEF IInv
<1> QED BY <1>1, Invariance, PTL
===============================================================================
