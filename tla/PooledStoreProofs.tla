--------------------------- MODULE PooledStoreProofs ---------------------------
(***************************************************************************)
(* The connection pool only delays the calls of PostgresStore, so that     *)
(* what is proved of the store holds behind a pool of any size, for any    *)
(* mix of requests.                                                        *)
(***************************************************************************)
EXTENDS PooledStore, PostgresStoreProofs

(* The pool opens with the store's initial state. *)
LEMMA PooledInitIsInit == PooledInit => Init
BY DEF PooledInit

(* A step of a session is a step of its store call, or none of the store.  *)
LEMMA PooledNextIsNext == [PooledNext]_pooledVars => [Next]_vars
<1> SUFFICES ASSUME [PooledNext]_pooledVars PROVE [Next]_vars
  OBVIOUS
<1>1. CASE UNCHANGED pooledVars
  BY <1>1 DEF pooledVars
<1>2. ASSUME NEW s \in Session, Consume(s) \/ WaitCancelled(s)
      PROVE  UNCHANGED vars
  BY <1>2 DEF Consume, WaitCancelled
<1>3. ASSUME NEW s \in Session, StoreCall(s)
      PROVE  Next
  BY <1>3 DEF StoreCall, Next
<1>4. ASSUME NEW s \in Session, TransactionStep(s)
      PROVE  Next
  BY <1>4 DEF TransactionStep, Next
<1>5. ASSUME NEW s \in Session, TransactionFail(s)
      PROVE  Next
  BY <1>5 DEF TransactionFail, Next
<1> QED BY <1>1, <1>2, <1>3, <1>4, <1>5 DEF PooledNext, SessionStep

(* Behind the pool the store is still the store: PooledStore implements    *)
(* PostgresStore (SetMaxOpenConns and the shared nonce store change when   *)
(* things happen, not what happens).                                       *)
THEOREM PoolOnlyDelays == PooledSpec => Spec
BY PooledInitIsInit, PooledNextIsNext, PTL DEF PooledSpec, Spec

(* What the log lists is whole, behind any pool. *)
THEOREM PooledBlobsAreWhole == PooledSpec => []WholeBlobs
BY PoolOnlyDelays, ListedBlobsAreWhole, PTL

(* The store's state is well-formed, behind any pool. *)
THEOREM PooledTypeCorrect == PooledSpec => []TypeOK
BY PoolOnlyDelays, TypeCorrect, PTL

(* What an upload was answered stays true, behind any pool. *)
THEOREM PooledAnswersAreTrue == PooledSpec => []AnswersAreTrue
BY PoolOnlyDelays, AnswersStayTrue, PTL

(* A conflict is met before a second chunk is read, behind any pool. *)
THEOREM PooledFirstChunkDecides == PooledSpec => []ConflictsAreEarly
BY PoolOnlyDelays, FirstChunkDecides, PTL

(* What an answered delete was called for is gone, behind any pool. *)
THEOREM PooledDeletesAreForGood == PooledSpec => []DeletedForGood
BY PoolOnlyDelays, DeletesAreForGood, PTL

-------------------------------------------------------------------------------
(* Nobody waits in a circle. *)

(* A transaction that is open has its connection. *)
LEMMA HoldersAreGranted == \A s \in Holders : Granted(s)
BY PoolAssumption DEF Holders, Granted

(* A delete holds rows only in the steps from the end of its first DELETE. *)
LEMMA HeldWhen ==
  ASSUME NEW y \in Deleter
  PROVE  /\ del[y].st \notin {"between", "log", "commit"} => HeldChunks(y) = {}
         /\ del[y].st # "commit" => HeldLog(y) = {}
BY DEF HeldChunks, HeldLog

(* Of the open transactions one can go on.  They are ranked by what they   *)
(* wait for: a delete past its statements waits for none; at the second    *)
(* DELETE only for those, at the first only for these; an upload that has  *)
(* its first chunk waits for no one but deletes, and one that has not for  *)
(* uploads that have theirs.                                               *)
LEMMA SomeoneGoesOn ==
  ASSUME IInv, ConflictsAreEarly, Holders # {}
  PROVE  \E s \in Holders : GoesOn(s)
<1> DEFINE In(S) == {x \in Deleter : del[x].st \in S}
<1>0. In({"chunks", "between", "log", "commit"}) \subseteq Holders
  BY DEF Holders
<1>1. CASE In({"between", "commit"}) # {}
  <2>1. PICK x \in Deleter : del[x].st \in {"between", "commit"}
    BY <1>1
  <2>2. GoesOn(x)
    BY <2>1 DEF GoesOn, Answered
  <2> QED BY <1>0, <2>1, <2>2
<1>2. CASE In({"between", "commit"}) = {} /\ In({"log"}) # {}
  <2>1. PICK x \in Deleter : del[x].st = "log"
    BY <1>2
  <2>2. \A y \in Deleter : HeldLog(y) = {}
    BY <1>2, HeldWhen
  <2>3. GoesOn(x)
    BY <2>1, <2>2 DEF GoesOn, Answered
  <2> QED BY <1>0, <2>1, <2>3
<1>3. CASE In({"between", "log", "commit"}) = {} /\ In({"chunks"}) # {}
  <2>1. PICK x \in Deleter : del[x].st = "chunks"
    BY <1>3
  <2>2. \A y \in Deleter : HeldChunks(y) = {}
    BY <1>3, HeldWhen
  <2>3. GoesOn(x)
    BY <2>1, <2>2 DEF GoesOn, Answered
  <2> QED BY <1>0, <2>1, <2>3
<1>4. ASSUME NEW u \in Upload, up[u].n > 0 PROVE u \in Holders /\ GoesOn(u)
  <2>1. up[u].st \notin Outcome \cup {"new"} /\ up[u].n \in 0..MaxChunks
    BY <1>4, UploadFacts
  <2>2. ~ChunkHeld(u, up[u].k, up[u].n) /\ (up[u].st = "log" => ~LogHeld(u, up[u].k))
    BY <1>4, <2>1 DEF ConflictsAreEarly
  <2> QED BY <1>4, <2>1, <2>2 DEF Holders, GoesOn
<1>5. CASE /\ In({"chunks", "between", "log", "commit"}) = {}
           /\ \A u \in Upload : ~(up[u].n > 0)
  <2>1. PICK s \in Holders : s \in Upload \cup Reader
    BY <1>5 DEF Holders
  <2>2. CASE s \in Reader
    <3>1. rd[s].st \in {"sized", "stream"}
      BY <2>1, <2>2, PoolAssumption DEF Holders
    <3> QED BY <2>1, <2>2, <3>1 DEF GoesOn
  <2>3. CASE s \in Upload
    <3>1. /\ up[s].st \notin Outcome \cup {"new"} /\ up[s].st # "log" /\ up[s].n = 0
          /\ \A v \in Upload : up[v].n = 0
      BY <1>5, <2>1, <2>3, UploadFacts, PoolAssumption DEF Holders
    <3>2. \A x \in Deleter : HeldChunks(x) = {}
      BY <1>5, HeldWhen
    <3>3. ~ChunkHeld(s, up[s].k, up[s].n)
      BY <3>1, <3>2 DEF ChunkHeld
    <3> QED BY <2>1, <2>3, <3>1, <3>3 DEF GoesOn
  <2> QED BY <2>1, <2>2, <2>3
<1> QED BY <1>1, <1>2, <1>3, <1>4, <1>5

(* SetMaxOpenConns and the row locks together: whatever the size of the    *)
(* pool and the number of requests, transactions that hold every           *)
(* connection do not wait for each other in a circle, nor for a connection. *)
THEOREM PoolIsNeverStuck == PooledSpec => []PoolNeverStuck
<1>1. IInv /\ ConflictsAreEarly => PoolNeverStuck
  <2>1. Holders = {} => Free
    <3>1. Cardinality({}) = 0
      BY FS_EmptySet
    <3> QED BY <3>1, PoolAssumption DEF Free
  <2> QED BY <2>1, SomeoneGoesOn, HoldersAreGranted DEF PoolNeverStuck
<1>2. PooledSpec => [](IInv /\ ConflictsAreEarly)
  BY PoolOnlyDelays, Invariance, FirstChunkDecides, PTL
<1> QED BY <1>1, <1>2, PTL

-------------------------------------------------------------------------------
(* Every request comes to its end. *)

(* How far a request is with its authentication. *)
AuthOK == auth \in [Session -> {"absent", "waiting", "passed", "refused"}]

(* A request that was made has been answered. *)
AllDone == \A s \in Session : auth[s] # "absent" => Done(s)

(* s waits for nothing: neither for a connection nor for a row. *)
MayStep(s) ==
  \/ auth[s] = "waiting" /\ Free
  \/ auth[s] = "passed" /\ Unstarted(s) /\ Free
  \/ Granted(s) /\ GoesOn(s)

(* Authentication only moves between its four states. *)
LEMMA AuthTyped == PooledSpec => []AuthOK
<1>1. PooledInit => AuthOK
  BY DEF PooledInit, AuthOK
<1>2. AuthOK /\ [PooledNext]_pooledVars => AuthOK'
  BY DEF AuthOK, pooledVars, PooledNext, SessionStep, Consume, StoreCall, TransactionStep,
         WaitCancelled, TransactionFail
<1> QED BY <1>1, <1>2, PTL DEF PooledSpec

(* The whole service never comes to a standstill: unless every request is  *)
(* answered, one of them waits neither for a connection nor for a row.     *)
THEOREM NoStandstill == PooledSpec => [](AllDone \/ \E s \in Session : MayStep(s))
<1>1. ASSUME IInv, ConflictsAreEarly, AuthOK PROVE AllDone \/ \E s \in Session : MayStep(s)
  <2>1. CASE Holders # {}
    <3>1. PICK s \in Holders : GoesOn(s)
      BY <1>1, <2>1, SomeoneGoesOn
    <3>2. s \in Session /\ MayStep(s)
      BY <3>1, HoldersAreGranted DEF MayStep, Holders, Session
    <3> QED BY <3>2
  <2>2. CASE Holders = {}
    <3>1. Free
      BY <2>2, FS_EmptySet, PoolAssumption DEF Free
    <3> SUFFICES ASSUME NEW s \in Session, auth[s] # "absent", ~Done(s) PROVE MayStep(s)
      BY DEF AllDone
    <3>2. auth[s] \in {"waiting", "passed"}
      BY <1>1 DEF AuthOK, Done
    <3>3. CASE s \in Upload
      <4>1. up[s].st = "new"
        BY <2>2, <3>3 DEF Holders, Done
      <4> QED BY <3>1, <3>2, <3>3, <4>1 DEF MayStep, Unstarted
    <3>4. CASE s \in Reader
      <4>1. rd[s].st \in {"new", "sized", "stream"}
        BY <1>1, <3>4 DEF IInv, TypeOK, ReaderState, Done
      <4>2. rd[s].st = "new"
        BY <2>2, <3>4, <4>1 DEF Holders
      <4> QED BY <3>1, <3>2, <3>4, <4>2 DEF MayStep, Unstarted
    <3>5. CASE s \in Deleter
      <4>1. del[s].st \in {"new", "begin"}
        BY <1>1, <2>2, <3>5, DeleterFacts DEF DeleterState, Holders, Done
      <4>2. CASE del[s].st = "new"
        BY <3>1, <3>2, <3>5, <4>2 DEF MayStep, Unstarted
      <4>3. CASE del[s].st = "begin"
        BY <3>1, <3>5, <4>3 DEF MayStep, Granted, GoesOn, Answered
      <4> QED BY <4>1, <4>2, <4>3
    <3> QED BY <3>3, <3>4, <3>5 DEF Session
  <2> QED BY <2>1, <2>2
<1>2. PooledSpec => [](IInv /\ ConflictsAreEarly)
  BY PoolOnlyDelays, Invariance, FirstChunkDecides, PTL
<1> QED BY <1>1, <1>2, AuthTyped, PTL

(* A step of a request before its store call. *)
AuthRank(a) == IF a = "waiting" THEN 2 ELSE IF a = "passed" THEN 1 ELSE 0

AuthProgress(s) ==
  /\ AuthRank(auth'[s]) < AuthRank(auth[s])
  /\ (\A z \in Session \ {s} : auth'[z] = auth[z]) /\ vars' = vars

(* Nor does it go round in circles: a step takes one request nearer to its *)
(* answer, in its authentication or in its store call, and sets none back. *)
(* With NoStandstill: however many requests there are for however few      *)
(* connections, the service answers them all as long as it takes steps.    *)
THEOREM EveryPooledStepIsProgress ==
  PooledSpec => [][(\E s \in Session : AuthProgress(s)) \/ (Progress /\ auth' = auth)]_pooledVars
<1>1. ASSUME NEW s \in Session, AuthOK, Consume(s) \/ WaitCancelled(s) PROVE AuthProgress(s)
  BY <1>1 DEF AuthOK, Consume, WaitCancelled, AuthProgress, AuthRank, vars
<1>2. ASSUME NEW s \in Session, StoreCall(s) \/ TransactionStep(s) \/ TransactionFail(s)
      PROVE  Next /\ auth' = auth
  BY <1>2 DEF StoreCall, TransactionStep, TransactionFail, Next
<1>3. AuthOK /\ PooledNext => (\E s \in Session : AuthProgress(s)) \/ (Next /\ auth' = auth)
  BY <1>1, <1>2 DEF PooledNext, SessionStep
<1>4. IInv /\ Next => Progress
  BY NextIsProgress
<1>5. PooledSpec => []IInv
  BY PoolOnlyDelays, Invariance, PTL
<1> QED BY <1>3, <1>4, <1>5, AuthTyped, PTL DEF PooledSpec
===============================================================================
