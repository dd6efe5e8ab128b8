--------------------------- MODULE MemoryStoreProofs ---------------------------
(***************************************************************************)
(* Theorems about MemoryStore, for every number of callers, accounts,      *)
(* devices, generations and blobs.                                         *)
(***************************************************************************)
EXTENDS MemoryStore, BlobKeysProofs

(* The sequence numbers that a set of keys gives to a stream. *)
SeqsIn(D, t) == {k.s : k \in {x \in D : StreamOf(x) = t}}

(* Contiguous says that a stream's numbers are those up to its head; to be *)
(* inductive it must also say that there is a head, a natural number.      *)
Gapless == \A t \in Stream : \E n \in Nat : SeqsIn(DOMAIN rows, t) = 1..n

IInv == TypeOK /\ Gapless

-------------------------------------------------------------------------------
(* headSeqLocked returns the end of the interval a stream's numbers form. *)
LEMMA HeadOfInterval ==
  ASSUME NEW t, NEW n \in Nat, SeqsIn(DOMAIN rows, t) = 1..n
  PROVE  HeadSeq(t) = n
BY MaxOfInterval DEF HeadSeq, KeysOfStream, SeqsIn

(* A caller without an append open has no key: NoKey is none. *)
LEMMA NoKeyIsNoKey == NoKey \notin Key
<1> SUFFICES ASSUME NEW k \in Key PROVE k # NoKey
  OBVIOUS
<1>1. "d" \in DOMAIN k
  BY DEF Key
<1>2. "d" \notin DOMAIN NoKey
  BY DEF NoKey
<1> QED BY <1>1, <1>2

-------------------------------------------------------------------------------
(* The store starts empty and well typed. *)
LEMMA InitIInv == Init => IInv
<1> SUFFICES ASSUME Init PROVE IInv
  OBVIOUS
<1>1. DOMAIN rows = {}
  BY DEF Init
<1>2. TypeOK
  BY <1>1 DEF Init, TypeOK, Answer
<1>3. \A t : SeqsIn(DOMAIN rows, t) = 1..0
  BY <1>1 DEF SeqsIn
<1> QED BY <1>2, <1>3 DEF IInv, Gapless

(* Deleting whole streams leaves the others as they were. *)
LEMMA DeleteStreams ==
  ASSUME IInv, NEW ks, ks \subseteq DOMAIN rows, rows' = Without(ks),
         \A k \in ks : \A x \in DOMAIN rows : StreamOf(x) = StreamOf(k) => x \in ks
  PROVE  /\ DOMAIN rows' = DOMAIN rows \ ks
         /\ \A k \in DOMAIN rows' : rows'[k] = rows[k]
         /\ rows' = [k \in DOMAIN rows' |-> rows'[k]]
         /\ \A t \in Stream : \/ SeqsIn(DOMAIN rows', t) = SeqsIn(DOMAIN rows, t)
                              \/ SeqsIn(DOMAIN rows', t) = {}
         /\ Gapless'
<1>1. DOMAIN rows' = DOMAIN rows \ ks
  BY DEF Without
<1>2. \A k \in DOMAIN rows' : rows'[k] = rows[k]
  BY DEF Without
<1>3. rows' = [k \in DOMAIN rows' |-> rows'[k]]
  BY DEF Without
<1>4. ASSUME NEW t \in Stream
      PROVE  \/ SeqsIn(DOMAIN rows', t) = SeqsIn(DOMAIN rows, t)
             \/ SeqsIn(DOMAIN rows', t) = {}
  <2>1. CASE \E k \in ks : StreamOf(k) = t
    BY <1>1, <2>1 DEF SeqsIn
  <2>2. CASE ~\E k \in ks : StreamOf(k) = t
    <3>1. {x \in DOMAIN rows' : StreamOf(x) = t} = {x \in DOMAIN rows : StreamOf(x) = t}
      BY <1>1, <2>2
    <3> QED BY <3>1 DEF SeqsIn
  <2> QED BY <2>1, <2>2
<1>5. 1..0 = {}
  OBVIOUS
<1>6. Gapless'
  <2> SUFFICES ASSUME NEW t \in Stream PROVE \E n \in Nat : SeqsIn(DOMAIN rows', t) = 1..n
    BY DEF Gapless
  <2>1. \E n \in Nat : SeqsIn(DOMAIN rows, t) = 1..n
    BY DEF IInv, Gapless
  <2> QED BY <1>4, <1>5, <2>1
<1> QED BY <1>1, <1>2, <1>3, <1>4, <1>6

(* A map write at one past the head makes the stream's interval one longer *)
(* and touches nothing that was there.                                     *)
LEMMA WriteAtHead ==
  ASSUME IInv, NEW k \in Key, NEW b \in Blob,
         k.s = HeadSeq(StreamOf(k)) + 1,
         rows' = [x \in DOMAIN rows \cup {k} |-> IF x = k THEN b ELSE rows[x]]
  PROVE  /\ k \notin DOMAIN rows
         /\ DOMAIN rows' = DOMAIN rows \cup {k}
         /\ rows'[k] = b
         /\ \A x \in DOMAIN rows : rows'[x] = rows[x]
         /\ rows' = [x \in DOMAIN rows' |-> rows'[x]]
         /\ HeadSeq(StreamOf(k)) \in Nat
         /\ SeqsIn(DOMAIN rows, StreamOf(k)) = 1..(k.s - 1)
         /\ SeqsIn(DOMAIN rows', StreamOf(k)) = 1..k.s
         /\ \A t \in Stream \ {StreamOf(k)} : SeqsIn(DOMAIN rows', t) = SeqsIn(DOMAIN rows, t)
         /\ Gapless'
<1> DEFINE t0 == StreamOf(k)
<1>0. t0 \in Stream
  BY StreamOfKey
<1>1. PICK n \in Nat : SeqsIn(DOMAIN rows, t0) = 1..n
  BY <1>0 DEF IInv, Gapless
<1>2. HeadSeq(t0) = n /\ k.s = n + 1
  BY <1>1, HeadOfInterval
<1>3. k \notin DOMAIN rows
  <2> SUFFICES ASSUME k \in DOMAIN rows PROVE FALSE
    OBVIOUS
  <2>1. k.s \in SeqsIn(DOMAIN rows, t0)
    BY DEF SeqsIn
  <2> QED BY <2>1, <1>1, <1>2
<1>4. /\ DOMAIN rows' = DOMAIN rows \cup {k}
      /\ rows'[k] = b
      /\ rows' = [x \in DOMAIN rows' |-> rows'[x]]
  OBVIOUS
<1>5. \A x \in DOMAIN rows : rows'[x] = rows[x]
  BY <1>3
<1>6. SeqsIn(DOMAIN rows', t0) = 1..k.s
  <2>1. SeqsIn(DOMAIN rows', t0) = SeqsIn(DOMAIN rows, t0) \cup {k.s}
    BY <1>4 DEF SeqsIn
  <2>2. (1..n) \cup {n + 1} = 1..(n + 1)
    OBVIOUS
  <2> QED BY <2>1, <2>2, <1>1, <1>2
<1>7. ASSUME NEW t \in Stream \ {t0}
      PROVE  SeqsIn(DOMAIN rows', t) = SeqsIn(DOMAIN rows, t)
  <2>1. {x \in DOMAIN rows' : StreamOf(x) = t} = {x \in DOMAIN rows : StreamOf(x) = t}
    BY <1>4
  <2> QED BY <2>1 DEF SeqsIn
<1>8. Gapless'
  <2> SUFFICES ASSUME NEW t \in Stream PROVE \E m \in Nat : SeqsIn(DOMAIN rows', t) = 1..m
    BY DEF Gapless
  <2>1. CASE t = t0
    BY <2>1, <1>6, <1>2
  <2>2. CASE t # t0
    BY <2>2, <1>7 DEF IInv, Gapless
  <2> QED BY <2>1, <2>2
<1>9. k.s - 1 = n
  BY <1>2
<1> QED BY <1>1, <1>2, <1>3, <1>4, <1>5, <1>6, <1>7, <1>8, <1>9
(* Every step preserves the types and the intervals. *)
LEMMA NextIInv == IInv /\ [Next]_vars => IInv'
<1> SUFFICES ASSUME IInv, [Next]_vars PROVE IInv'
  OBVIOUS
<1> USE NoKeyIsNoKey
<1>1. ASSUME NEW c \in Caller, NEW k \in Key, AppendCheck(c, k)
      PROVE  IInv'
  <2>1. TypeOK'
    BY <1>1 DEF AppendCheck, Return, IInv, TypeOK, Answer
  <2> QED BY <1>1, <2>1 DEF AppendCheck, IInv, Gapless
<1>2. ASSUME NEW c \in Caller, AppendAbort(c)
      PROVE  IInv'
  <2>1. TypeOK'
    BY <1>2 DEF AppendAbort, Return, IInv, TypeOK, Answer
  <2> QED BY <1>2, <2>1 DEF AppendAbort, IInv, Gapless
<1>3. ASSUME NEW c \in Caller, NEW b \in Blob, AppendStore(c, b)
      PROVE  IInv'
  <2>1. PICK k \in Key : k = draining[c]
    BY <1>3 DEF AppendStore, Idle, IInv, TypeOK
  <2>2. CASE k.s = HeadSeq(StreamOf(k)) + 1
    <3>1. /\ rows' = [x \in DOMAIN rows \cup {k} |-> IF x = k THEN b ELSE rows[x]]
          /\ Return(c, "stored")
      BY <1>3, <2>1, <2>2 DEF AppendStore
    <3>2. /\ DOMAIN rows' = DOMAIN rows \cup {k}
          /\ rows'[k] = b
          /\ \A x \in DOMAIN rows : rows'[x] = rows[x]
          /\ rows' = [x \in DOMAIN rows' |-> rows'[x]]
          /\ Gapless'
      BY <2>2, <3>1, WriteAtHead
    <3>3. TypeOK'
      BY <3>1, <3>2 DEF Return, IInv, TypeOK, Answer
    <3> QED BY <3>2, <3>3 DEF IInv
  <2>3. CASE k.s # HeadSeq(StreamOf(k)) + 1
    <3>1. Return(c, "conflict") /\ UNCHANGED rows
      BY <1>3, <2>1, <2>3 DEF AppendStore
    <3>2. TypeOK'
      BY <3>1 DEF Return, IInv, TypeOK, Answer
    <3> QED BY <3>1, <3>2 DEF IInv, Gapless
  <2> QED BY <2>2, <2>3
<1>4. ASSUME NEW c \in Caller, NEW k \in Key, Get(c, k)
      PROVE  IInv'
  <2>1. TypeOK'
    BY <1>4 DEF Get, Return, IInv, TypeOK, Answer
  <2> QED BY <1>4, <2>1 DEF Get, IInv, Gapless
<1>5. ASSUME NEW c \in Caller, NEW t \in Stream, DeleteGeneration(c, t)
      PROVE  IInv'
  <2>1. CASE UNCHANGED rows /\ Return(c, "retention_guard")
    <3>1. TypeOK'
      BY <2>1 DEF Return, IInv, TypeOK, Answer
    <3> QED BY <2>1, <3>1 DEF IInv, Gapless
  <2>2. CASE /\ rows' = Without(KeysOfStream(t))
             /\ Return(c, IF KeysOfStream(t) = {} THEN "not_found" ELSE "pruned")
    <3>1. KeysOfStream(t) \subseteq DOMAIN rows
      BY DEF KeysOfStream
    <3>2. \A k \in KeysOfStream(t) : \A x \in DOMAIN rows :
             StreamOf(x) = StreamOf(k) => x \in KeysOfStream(t)
      BY DEF KeysOfStream
    <3>3. /\ DOMAIN rows' \subseteq DOMAIN rows
          /\ \A k \in DOMAIN rows' : rows'[k] = rows[k]
          /\ rows' = [k \in DOMAIN rows' |-> rows'[k]]
          /\ Gapless'
      BY <2>2, <3>1, <3>2, DeleteStreams
    <3>4. TypeOK'
      BY <2>2, <3>3 DEF Return, IInv, TypeOK, Answer
    <3> QED BY <3>3, <3>4 DEF IInv
  <2> QED BY <1>5, <2>1, <2>2 DEF DeleteGeneration
<1>6. ASSUME NEW c \in Caller, NEW p \in Pseudonym, DeleteAccount(c, p)
      PROVE  IInv'
  <2> DEFINE ks == {k \in DOMAIN rows : k.p = p}
  <2>1. rows' = Without(ks) /\ Return(c, "erased")
    BY <1>6 DEF DeleteAccount
  <2>2. \A k \in ks : \A x \in DOMAIN rows : StreamOf(x) = StreamOf(k) => x \in ks
    BY DEF StreamOf
  <2>3. /\ DOMAIN rows' \subseteq DOMAIN rows
        /\ \A k \in DOMAIN rows' : rows'[k] = rows[k]
        /\ rows' = [k \in DOMAIN rows' |-> rows'[k]]
        /\ Gapless'
    <3> HIDE DEF ks
    <3>1. ks \subseteq DOMAIN rows
      BY DEF ks
    <3> QED BY <2>1, <2>2, <3>1, DeleteStreams
  <2>4. TypeOK'
    BY <2>1, <2>3 DEF Return, IInv, TypeOK, Answer
  <2> QED BY <2>3, <2>4 DEF IInv
<1>7. CASE UNCHANGED vars
  BY <1>7 DEF IInv, TypeOK, Gapless, vars
<1> QED BY <1>1, <1>2, <1>3, <1>4, <1>5, <1>6, <1>7 DEF Next

(* The inductive invariant gives the stated ones. *)
LEMMA IInvContiguous == IInv => Contiguous
<1> SUFFICES ASSUME IInv, NEW t \in Stream
             PROVE  {k.s : k \in KeysOfStream(t)} = 1..HeadSeq(t)
  BY DEF Contiguous
<1>1. PICK n \in Nat : SeqsIn(DOMAIN rows, t) = 1..n
  BY DEF IInv, Gapless
<1> QED BY <1>1, HeadOfInterval DEF SeqsIn, KeysOfStream

(* The inductive invariant holds throughout. *)
THEOREM Invariance == Spec => []IInv
BY InitIInv, NextIInv, PTL DEF Spec

(* No interleaving of appends, prunes, erasures and reads takes the store  *)
(* out of its types.                                                       *)
THEOREM TypeCorrect == Spec => []TypeOK
<1>1. IInv => TypeOK
  BY DEF IInv
<1> QED BY <1>1, Invariance, PTL

(* Append's second check keeps every stream gapless, whatever happened     *)
(* while the body was drained.                                             *)
THEOREM AlwaysContiguous == Spec => []Contiguous
BY IInvContiguous, Invariance, PTL

-------------------------------------------------------------------------------
(* Append writes only where nothing is, and nothing else writes. *)
LEMMA NextNoOverwrite ==
  IInv /\ [Next]_vars => \A k \in DOMAIN rows : k \in DOMAIN rows' => rows'[k] = rows[k]
<1> SUFFICES ASSUME IInv, [Next]_vars, rows' # rows
             PROVE  \A k \in DOMAIN rows : k \in DOMAIN rows' => rows'[k] = rows[k]
  OBVIOUS
<1>1. ASSUME NEW c \in Caller, NEW b \in Blob, AppendStore(c, b)
      PROVE  \A x \in DOMAIN rows : rows'[x] = rows[x]
  <2>1. PICK k \in Key : k = draining[c]
    BY <1>1, NoKeyIsNoKey DEF AppendStore, Idle, IInv, TypeOK
  <2>2. /\ k.s = HeadSeq(StreamOf(k)) + 1
        /\ rows' = [x \in DOMAIN rows \cup {k} |-> IF x = k THEN b ELSE rows[x]]
    BY <1>1, <2>1 DEF AppendStore
  <2> QED BY <2>2, WriteAtHead
<1>2. ASSUME NEW ks, rows' = Without(ks)
      PROVE  \A x \in DOMAIN rows : x \in DOMAIN rows' => rows'[x] = rows[x]
  BY <1>2 DEF Without
<1>3. ASSUME NEW c \in Caller, NEW t \in Stream, DeleteGeneration(c, t)
      PROVE  rows' = Without(KeysOfStream(t))
  BY <1>3 DEF DeleteGeneration
<1>4. ASSUME NEW c \in Caller, NEW p \in Pseudonym, DeleteAccount(c, p)
      PROVE  rows' = Without({k \in DOMAIN rows : k.p = p})
  BY <1>4 DEF DeleteAccount
<1> QED BY <1>1, <1>2, <1>3, <1>4 DEF Next, vars, AppendCheck, AppendAbort, Get

(* Append never replaces a stored blob: the second check and the write are *)
(* one critical section, and the check passes only past the head.          *)
THEOREM NeverOverwrites == Spec => NoOverwrite
BY NextNoOverwrite, Invariance, PTL DEF Spec, NoOverwrite

(* What a step removes, and what it may not. *)
LEMMA NextRetention ==
  IInv /\ [Next]_vars =>
    \A k \in DOMAIN rows \ DOMAIN rows' :
       /\ \A x \in DOMAIN rows' : StreamOf(x) # StreamOf(k)
       /\ \/ \E c \in Caller : DeleteAccount(c, k.p)
          \/ k.g <= NewestGeneration(k.p, k.d) - RetainedGenerations
<1> SUFFICES ASSUME IInv, [Next]_vars, NEW k \in DOMAIN rows \ DOMAIN rows'
             PROVE  /\ \A x \in DOMAIN rows' : StreamOf(x) # StreamOf(k)
                    /\ \/ \E c \in Caller : DeleteAccount(c, k.p)
                       \/ k.g <= NewestGeneration(k.p, k.d) - RetainedGenerations
  OBVIOUS
<1>1. ASSUME NEW c \in Caller, NEW b \in Blob, AppendStore(c, b)
      PROVE  FALSE
  BY <1>1 DEF AppendStore
<1>2. ASSUME NEW c \in Caller, NEW t \in Stream, DeleteGeneration(c, t)
      PROVE  /\ \A x \in DOMAIN rows' : StreamOf(x) # StreamOf(k)
             /\ k.g <= NewestGeneration(k.p, k.d) - RetainedGenerations
  <2>1. /\ ~InRetainedWindow(t.g, NewestGeneration(t.p, t.d))
        /\ rows' = Without(KeysOfStream(t))
    BY <1>2 DEF DeleteGeneration
  <2>2. DOMAIN rows' = DOMAIN rows \ KeysOfStream(t)
    BY <2>1 DEF Without
  <2>3. StreamOf(k) = t /\ t.p = k.p /\ t.d = k.d /\ t.g = k.g
    BY <2>2 DEF KeysOfStream, StreamOf
  <2> DEFINE S == {x.g : x \in KeysOfDevice(k.p, k.d)}
  <2>4. S \subseteq 1..MaxGeneration /\ k.g \in S
    BY DEF KeysOfDevice, IInv, TypeOK, Key, Generation
  <2>5. NewestGeneration(k.p, k.d) \in Nat /\ NewestGeneration(k.p, k.d) >= k.g
    BY <2>4, MaxExists, BoundsAssumption DEF NewestGeneration
  <2>6. NewestGeneration(k.p, k.d) > 0
    BY <2>4, <2>5, BoundsAssumption
  <2>7. \A x \in DOMAIN rows' : StreamOf(x) # StreamOf(k)
    BY <2>2, <2>3 DEF KeysOfStream
  <2>8. ~(k.g > NewestGeneration(k.p, k.d) - RetainedGenerations)
    BY <2>1, <2>3, <2>6 DEF InRetainedWindow
  <2>9. k.g \in Nat
    BY <2>4, BoundsAssumption
  <2>10. k.g <= NewestGeneration(k.p, k.d) - RetainedGenerations
    BY <2>5, <2>8, <2>9 DEF RetainedGenerations
  <2> QED BY <2>7, <2>10
<1>3. ASSUME NEW c \in Caller, NEW p \in Pseudonym, DeleteAccount(c, p)
      PROVE  /\ \A x \in DOMAIN rows' : StreamOf(x) # StreamOf(k)
             /\ DeleteAccount(c, k.p)
  <2>1. rows' = Without({x \in DOMAIN rows : x.p = p})
    BY <1>3 DEF DeleteAccount
  <2>2. DOMAIN rows' = DOMAIN rows \ {x \in DOMAIN rows : x.p = p}
    BY <2>1 DEF Without
  <2>3. k.p = p
    BY <2>2
  <2> QED BY <1>3, <2>2, <2>3 DEF StreamOf
<1> QED BY <1>1, <1>2, <1>3 DEF Next, vars, AppendCheck, AppendAbort, Get

(* A prune takes whole streams from below the retained window only. *)
THEOREM PruneRespectsWindow == Spec => RetentionFloor
BY NextRetention, Invariance, PTL DEF Spec, RetentionFloor

-------------------------------------------------------------------------------
(* The store implements the interface. *)

(* A stream's keys are exactly those at the numbers it holds. *)
KeyFacts ==
  \A t \in Stream : \A i : i \in SeqsIn(DOMAIN rows, t) <=> KeyAt(t, i) \in DOMAIN rows

(* A number a stream holds and the key at that number come together. *)
LEMMA KeyAtStream == IInv => KeyFacts
<1> SUFFICES ASSUME IInv, NEW t \in Stream, NEW i
             PROVE  i \in SeqsIn(DOMAIN rows, t) <=> KeyAt(t, i) \in DOMAIN rows
  BY DEF KeyFacts
<1>1. ASSUME i \in SeqsIn(DOMAIN rows, t) PROVE KeyAt(t, i) \in DOMAIN rows
  <2>1. PICK k \in DOMAIN rows : StreamOf(k) = t /\ k.s = i
    BY <1>1 DEF SeqsIn
  <2>2. k = KeyAt(t, i)
    BY <2>1 DEF KeyAt, StreamOf, IInv, TypeOK, Key
  <2> QED BY <2>2
<1>2. ASSUME KeyAt(t, i) \in DOMAIN rows PROVE i \in SeqsIn(DOMAIN rows, t)
  <2>1. StreamOf(KeyAt(t, i)) = t /\ KeyAt(t, i).s = i
    BY DEF KeyAt, StreamOf, Stream
  <2> QED BY <1>2, <2>1 DEF SeqsIn
<1> QED BY <1>1, <1>2

(* The log that stands for a stream whose numbers are 1..n has n blobs. *)
LogFacts ==
  \A t \in Stream : \A n \in Nat : SeqsIn(DOMAIN rows, t) = 1..n =>
    /\ LogOf(t) = [i \in 1..n |-> rows[KeyAt(t, i)]]
    /\ LogOf(t) \in Seq(Blob)
    /\ Len(LogOf(t)) = n
    /\ LogOf(t) = <<>> <=> KeysOfStream(t) = {}

(* The refinement mapping reads off each log as it is meant to. *)
LEMMA LogOfStream == IInv => LogFacts
<1> SUFFICES ASSUME IInv, NEW t \in Stream, NEW n \in Nat, SeqsIn(DOMAIN rows, t) = 1..n
             PROVE  /\ LogOf(t) = [i \in 1..n |-> rows[KeyAt(t, i)]]
                    /\ LogOf(t) \in Seq(Blob)
                    /\ Len(LogOf(t)) = n
                    /\ LogOf(t) = <<>> <=> KeysOfStream(t) = {}
  BY DEF LogFacts
<1>1. LogOf(t) = [i \in 1..n |-> rows[KeyAt(t, i)]]
  BY HeadOfInterval DEF LogOf, KeyAt
<1>2. \A i \in 1..n : rows[KeyAt(t, i)] \in Blob
  BY KeyAtStream DEF KeyFacts, IInv, TypeOK
<1>3. LogOf(t) \in Seq(Blob) /\ Len(LogOf(t)) = n
  BY <1>1, <1>2
<1>4. LogOf(t) = <<>> <=> n = 0
  BY <1>3
<1>5. n = 0 <=> SeqsIn(DOMAIN rows, t) = {}
  OBVIOUS
<1>6. SeqsIn(DOMAIN rows, t) = {} <=> KeysOfStream(t) = {}
  BY DEF SeqsIn, KeysOfStream
<1> QED BY <1>1, <1>3, <1>4, <1>5, <1>6

(* The same of the next state. *)
LEMMA NextFacts == IInv' => KeyFacts' /\ LogFacts'
<1>1. IInv => KeyFacts /\ LogFacts
  BY KeyAtStream, LogOfStream
<1> QED BY <1>1, PTL

(* Both modules address blobs alike. *)
LEMMA SameAddresses ==
  /\ Abs!Key = Key
  /\ Abs!Stream = Stream
  /\ Abs!NoKey = NoKey
  /\ \A k : Abs!StreamOf(k) = StreamOf(k)
  /\ \A g, n : Abs!InRetainedWindow(g, n) <=> InRetainedWindow(g, n)
  /\ \A S : Abs!MaxOrZero(S) = MaxOrZero(S)
BY DEF Abs!Key, Key, Abs!Stream, Stream, Abs!NoKey, NoKey, Abs!StreamOf, StreamOf,
       Abs!Generation, Generation, Abs!SeqNo, SeqNo, Abs!InRetainedWindow, InRetainedWindow,
       Abs!RetainedGenerations, RetainedGenerations, Abs!MaxOrZero, MaxOrZero, Abs!Max, Max

(* Initially both are empty. *)
LEMMA InitRefines == Init => Abs!Init
<1> SUFFICES ASSUME Init PROVE Abs!Init
  OBVIOUS
<1>1. IInv
  BY InitIInv
<1>2. \A t \in Stream : KeysOfStream(t) = {}
  BY DEF Init, KeysOfStream
<1>3. \A t \in Stream : LogOf(t) = <<>>
  BY <1>1, <1>2, LogOfStream DEF LogFacts, IInv, Gapless
<1> QED BY <1>3, SameAddresses DEF Abs!Init, Init

(* Where the map is not touched, no log is. *)
LEMMA SameLogs ==
  ASSUME rows' = rows
  PROVE  [t \in Stream |-> LogOf(t)]' = [t \in Stream |-> LogOf(t)]
BY DEF LogOf, HeadSeq, KeysOfStream

(* The interface compares a key with its log as the store does. *)
LEMMA NextKey ==
  ASSUME IInv, NEW k \in Key
  PROVE  /\ Abs!IsNext(k) <=> k.s = HeadSeq(StreamOf(k)) + 1
         /\ k \in DOMAIN rows <=> k.s <= Len(LogOf(StreamOf(k)))
         /\ k \in DOMAIN rows => LogOf(StreamOf(k))[k.s] = rows[k]
<1>1. StreamOf(k) \in Stream
  BY StreamOfKey
<1>2. PICK n \in Nat : SeqsIn(DOMAIN rows, StreamOf(k)) = 1..n
  BY <1>1 DEF IInv, Gapless
<1>3. HeadSeq(StreamOf(k)) = n /\ Len(LogOf(StreamOf(k))) = n
  BY <1>1, <1>2, HeadOfInterval, LogOfStream DEF LogFacts
<1>4. KeyAt(StreamOf(k), k.s) = k
  BY DEF KeyAt, StreamOf, Key
<1>5. k \in DOMAIN rows <=> k.s \in 1..n
  BY <1>1, <1>2, <1>4, KeyAtStream DEF KeyFacts
<1>6. k.s \in Nat /\ k.s >= 1
  BY BoundsAssumption DEF Key, SeqNo
<1>7. k.s \in 1..n => LogOf(StreamOf(k))[k.s] = rows[k]
  BY <1>1, <1>2, <1>4, LogOfStream DEF LogFacts
<1>8. Abs!IsNext(k) <=> k.s = HeadSeq(StreamOf(k)) + 1
  BY <1>1, <1>3 DEF Abs!IsNext, Abs!StreamOf, StreamOf
<1> QED BY <1>3, <1>5, <1>6, <1>7, <1>8

(* The map write is an Append to the log of the key's stream. *)
LEMMA WriteExtends ==
  ASSUME IInv, IInv', NEW k \in Key, NEW b \in Blob,
         k.s = HeadSeq(StreamOf(k)) + 1,
         rows' = [x \in DOMAIN rows \cup {k} |-> IF x = k THEN b ELSE rows[x]]
  PROVE  Abs!Extend(k, b)
<1> DEFINE t0 == StreamOf(k)
<1>0. t0 \in Stream
  BY StreamOfKey
<1>1. /\ DOMAIN rows' = DOMAIN rows \cup {k}
      /\ rows'[k] = b
      /\ \A x \in DOMAIN rows : rows'[x] = rows[x]
      /\ SeqsIn(DOMAIN rows, t0) = 1..(k.s - 1)
      /\ SeqsIn(DOMAIN rows', t0) = 1..k.s
      /\ \A t \in Stream \ {t0} : SeqsIn(DOMAIN rows', t) = SeqsIn(DOMAIN rows, t)
  BY WriteAtHead
<1>2. k.s \in Nat /\ k.s - 1 \in Nat
  BY BoundsAssumption DEF Key, SeqNo
<1>3. /\ LogOf(t0) = [i \in 1..(k.s - 1) |-> rows[KeyAt(t0, i)]]
      /\ LogOf(t0) \in Seq(Blob)
      /\ Len(LogOf(t0)) = k.s - 1
  BY <1>0, <1>1, <1>2, LogOfStream DEF LogFacts
<1>4. /\ LogOf(t0)' = [i \in 1..k.s |-> rows'[KeyAt(t0, i)]]
      /\ LogOf(t0)' \in Seq(Blob)
      /\ Len(LogOf(t0)') = k.s
  BY <1>0, <1>1, <1>2, NextFacts DEF LogFacts
<1>5. KeyAt(t0, k.s) = k
  BY DEF KeyAt, StreamOf, Key
<1>6. \A i \in 1..(k.s - 1) : rows'[KeyAt(t0, i)] = rows[KeyAt(t0, i)]
  BY <1>0, <1>1, KeyAtStream DEF KeyFacts
<1>7. LogOf(t0)' = Append(LogOf(t0), b)
  <2>1. PICK s \in Seq(Blob) : s = LogOf(t0)
    BY <1>3
  <2>2. PICK u \in Seq(Blob) : u = LogOf(t0)'
    BY <1>4
  <2>3. Len(s) = k.s - 1 /\ Len(u) = k.s
    BY <1>3, <1>4, <2>1, <2>2
  <2>4. \A i \in 1..(k.s - 1) : u[i] = s[i]
    <3>1. u = [i \in 1..k.s |-> rows'[KeyAt(t0, i)]]
      BY <1>4, <2>2
    <3>2. s = [i \in 1..(k.s - 1) |-> rows[KeyAt(t0, i)]]
      BY <1>3, <2>1
    <3>3. 1..(k.s - 1) \subseteq 1..k.s
      BY <1>2
    <3> QED BY <1>6, <3>1, <3>2, <3>3
  <2>5. u[k.s] = b
    BY <1>1, <1>2, <1>4, <1>5, <2>2
  <2>6. u = Append(s, b)
    BY <1>2, <2>3, <2>4, <2>5, AppendIsExtension
  <2> QED BY <2>1, <2>2, <2>6
<1>8. ASSUME NEW t \in Stream \ {t0} PROVE LogOf(t)' = LogOf(t)
  <2>1. PICK n \in Nat : SeqsIn(DOMAIN rows, t) = 1..n
    BY DEF IInv, Gapless
  <2>2. SeqsIn(DOMAIN rows', t) = 1..n
    BY <1>1, <2>1
  <2>3. LogOf(t) = [i \in 1..n |-> rows[KeyAt(t, i)]]
    BY <2>1, LogOfStream DEF LogFacts
  <2>4. LogOf(t)' = [i \in 1..n |-> rows'[KeyAt(t, i)]]
    BY <2>2, NextFacts DEF LogFacts
  <2>5. \A i \in 1..n : rows'[KeyAt(t, i)] = rows[KeyAt(t, i)]
    BY <1>1, <2>1, KeyAtStream DEF KeyFacts
  <2> QED BY <2>3, <2>4, <2>5
<1> QED BY <1>0, <1>7, <1>8, SameAddresses DEF Abs!Extend

(* Deleting whole streams empties their logs and leaves the others alone. *)
LEMMA DeleteEmpties ==
  ASSUME IInv, IInv', NEW ks, ks \subseteq DOMAIN rows, rows' = Without(ks),
         NEW T, T \subseteq Stream, \A k \in DOMAIN rows : k \in ks <=> StreamOf(k) \in T
  PROVE  [t \in Stream |-> LogOf(t)]' = [t \in Stream |-> IF t \in T THEN <<>> ELSE LogOf(t)]
<1>1. DOMAIN rows' = DOMAIN rows \ ks /\ \A k \in DOMAIN rows' : rows'[k] = rows[k]
  BY DEF Without
<1>2. ASSUME NEW t \in Stream, t \in T PROVE LogOf(t)' = <<>>
  <2>1. KeysOfStream(t)' = {}
    BY <1>1, <1>2 DEF KeysOfStream
  <2>2. \E n \in Nat : SeqsIn(DOMAIN rows', t) = 1..n
    BY DEF IInv, Gapless
  <2> QED BY <2>1, <2>2, NextFacts DEF LogFacts
<1>3. ASSUME NEW t \in Stream, t \notin T PROVE LogOf(t)' = LogOf(t)
  <2>1. {x \in DOMAIN rows' : StreamOf(x) = t} = {x \in DOMAIN rows : StreamOf(x) = t}
    BY <1>1, <1>3
  <2>2. PICK n \in Nat : SeqsIn(DOMAIN rows, t) = 1..n
    BY DEF IInv, Gapless
  <2>3. SeqsIn(DOMAIN rows', t) = 1..n
    BY <2>1, <2>2 DEF SeqsIn
  <2>4. LogOf(t) = [i \in 1..n |-> rows[KeyAt(t, i)]]
    BY <2>2, LogOfStream DEF LogFacts
  <2>5. LogOf(t)' = [i \in 1..n |-> rows'[KeyAt(t, i)]]
    BY <2>3, NextFacts DEF LogFacts
  <2>6. \A i \in 1..n : KeyAt(t, i) \in DOMAIN rows'
    BY <2>3, NextFacts DEF KeyFacts
  <2> QED BY <1>1, <2>4, <2>5, <2>6
<1> QED BY <1>2, <1>3

(* The scan for the newest generation and the interface's definition of it *)
(* look at the same generations.                                           *)
LEMMA SameNewest ==
  ASSUME IInv, NEW p, NEW d
  PROVE  Abs!Newest(p, d) = NewestGeneration(p, d)
<1> DEFINE A == {u \in Stream : u.p = p /\ u.d = d /\ LogOf(u) # <<>>}
<1>1. \A u \in Stream : LogOf(u) # <<>> <=> KeysOfStream(u) # {}
  BY LogOfStream DEF LogFacts, IInv, Gapless
<1>2. ASSUME NEW u \in A PROVE u.g \in {k.g : k \in KeysOfDevice(p, d)}
  <2>1. PICK k \in DOMAIN rows : StreamOf(k) = u
    BY <1>1 DEF KeysOfStream
  <2> QED BY <2>1 DEF StreamOf, KeysOfDevice
<1>3. ASSUME NEW k \in KeysOfDevice(p, d) PROVE k.g \in {u.g : u \in A}
  <2>1. k \in Key /\ k \in KeysOfStream(StreamOf(k)) /\ StreamOf(k) \in Stream
    BY StreamOfKey DEF KeysOfDevice, KeysOfStream, IInv, TypeOK
  <2>2. StreamOf(k).p = p /\ StreamOf(k).d = d /\ StreamOf(k).g = k.g
    BY DEF StreamOf, KeysOfDevice
  <2>3. StreamOf(k) \in A
    BY <1>1, <2>1, <2>2
  <2> QED BY <2>2, <2>3
<1>4. {u.g : u \in A} = {k.g : k \in KeysOfDevice(p, d)}
  BY <1>2, <1>3
<1>5. {u \in Stream : u.p = p /\ u.d = d /\ [t \in Stream |-> LogOf(t)][u] # <<>>} = A
  OBVIOUS
<1> QED BY <1>4, <1>5, SameAddresses DEF Abs!Newest, NewestGeneration

(* Every step of the store is one of the interface or leaves it as it is. *)
LEMMA NextRefines == IInv /\ IInv' /\ [Next]_vars => [Abs!Next]_(Abs!vars)
<1> SUFFICES ASSUME IInv, IInv', [Next]_vars PROVE [Abs!Next]_(Abs!vars)
  OBVIOUS
<1> USE SameAddresses, NoKeyIsNoKey
<1>1. ASSUME NEW c \in Caller, NEW k \in Key, AppendCheck(c, k)
      PROVE  Abs!AppendOpen(c, k) \/ Abs!AppendConflict(c, k)
  <2>1. [t \in Stream |-> LogOf(t)]' = [t \in Stream |-> LogOf(t)]
    BY <1>1, SameLogs DEF AppendCheck
  <2>2. CASE k.s = HeadSeq(StreamOf(k)) + 1
    BY <1>1, <2>1, <2>2 DEF AppendCheck, Idle, Abs!AppendOpen, Abs!Idle
  <2>3. CASE k.s # HeadSeq(StreamOf(k)) + 1
    BY <1>1, <2>1, <2>3, NextKey
       DEF AppendCheck, Idle, Return, Abs!AppendConflict, Abs!Idle, Abs!Return
  <2> QED BY <2>2, <2>3
<1>2. ASSUME NEW c \in Caller, AppendAbort(c)
      PROVE  Abs!AppendRefused(c)
  BY <1>2, SameLogs DEF AppendAbort, Return, Abs!AppendRefused, Abs!Return
<1>3. ASSUME NEW c \in Caller, NEW b \in Blob, AppendStore(c, b)
      PROVE  Abs!AppendStored(c, b) \/ \E k \in Key : Abs!AppendConflict(c, k)
  <2>1. PICK k \in Key : k = draining[c]
    BY <1>3 DEF AppendStore, Idle, IInv, TypeOK
  <2>2. CASE k.s = HeadSeq(StreamOf(k)) + 1
    <3>1. /\ rows' = [x \in DOMAIN rows \cup {k} |-> IF x = k THEN b ELSE rows[x]]
          /\ Return(c, "stored")
      BY <1>3, <2>1, <2>2 DEF AppendStore
    <3>2. Abs!Extend(k, b)
      BY <2>2, <3>1, WriteExtends
    <3>3. Abs!IsNext(k)
      BY <2>2, NextKey
    <3> QED BY <2>1, <3>1, <3>2, <3>3 DEF Return, Abs!AppendStored, Abs!Idle, Abs!Return
  <2>3. CASE k.s # HeadSeq(StreamOf(k)) + 1
    <3>1. Return(c, "conflict") /\ rows' = rows
      BY <1>3, <2>1, <2>3 DEF AppendStore
    <3>2. ~Abs!IsNext(k)
      BY <2>3, NextKey
    <3> QED BY <2>1, <3>1, <3>2, SameLogs DEF Return, Abs!AppendConflict, Abs!Idle, Abs!Return
  <2> QED BY <2>2, <2>3
<1>4. ASSUME NEW c \in Caller, NEW k \in Key, Get(c, k)
      PROVE  Abs!Get(c, k)
  <2>1. StreamOf(k) \in Stream
    BY StreamOfKey
  <2>2. (IF k \in DOMAIN rows THEN rows[k] ELSE "not_found")
        = IF k.s <= Len([t \in Stream |-> LogOf(t)][StreamOf(k)])
          THEN [t \in Stream |-> LogOf(t)][StreamOf(k)][k.s] ELSE "not_found"
    BY <2>1, NextKey
  <2> QED BY <1>4, <2>2, SameLogs DEF Get, Idle, Return, Abs!Get, Abs!Idle, Abs!Return
<1>5. ASSUME NEW c \in Caller, NEW t \in Stream, DeleteGeneration(c, t)
      PROVE  Abs!DeleteGeneration(c, t)
  <2>1. Abs!Newest(t.p, t.d) = NewestGeneration(t.p, t.d)
    BY SameNewest
  <2>2. CASE InRetainedWindow(t.g, NewestGeneration(t.p, t.d))
    BY <1>5, <2>1, <2>2, SameLogs
       DEF DeleteGeneration, Idle, Return, Abs!DeleteGeneration, Abs!Idle, Abs!Return
  <2>3. CASE ~InRetainedWindow(t.g, NewestGeneration(t.p, t.d))
    <3>1. /\ rows' = Without(KeysOfStream(t))
          /\ Return(c, IF KeysOfStream(t) = {} THEN "not_found" ELSE "pruned")
      BY <1>5, <2>3 DEF DeleteGeneration
    <3>2. /\ KeysOfStream(t) \subseteq DOMAIN rows
          /\ \A k \in DOMAIN rows : k \in KeysOfStream(t) <=> StreamOf(k) \in {t}
      BY DEF KeysOfStream
    <3>3. PICK ks : ks = KeysOfStream(t)
      OBVIOUS
    <3>5. PICK T : T = {t} /\ T \subseteq Stream
      OBVIOUS
    <3>6. [u \in Stream |-> LogOf(u)]' = [u \in Stream |-> IF u \in T THEN <<>> ELSE LogOf(u)]
      BY <3>1, <3>2, <3>3, <3>5, DeleteEmpties
    <3>4. LogOf(t) = <<>> <=> KeysOfStream(t) = {}
      BY LogOfStream DEF LogFacts, IInv, Gapless
    <3> QED BY <1>5, <2>1, <2>3, <3>1, <3>4, <3>5, <3>6
         DEF DeleteGeneration, Idle, Return, Abs!DeleteGeneration, Abs!Idle, Abs!Return
  <2> QED BY <2>2, <2>3
<1>6. ASSUME NEW c \in Caller, NEW p \in Pseudonym, DeleteAccount(c, p)
      PROVE  Abs!DeleteAccount(c, p)
  <2> DEFINE ks == {k \in DOMAIN rows : k.p = p}
             T == {t \in Stream : t.p = p}
  <2>1. rows' = Without(ks) /\ Return(c, "erased") /\ Idle(c)
    BY <1>6 DEF DeleteAccount
  <2>2. \A k \in DOMAIN rows : k \in ks <=> StreamOf(k) \in T
    <3> SUFFICES ASSUME NEW k \in DOMAIN rows PROVE k \in ks <=> StreamOf(k) \in T
      OBVIOUS
    <3>1. StreamOf(k) \in Stream
      BY StreamOfKey DEF IInv, TypeOK
    <3>2. StreamOf(k).p = k.p
      BY DEF StreamOf
    <3> QED BY <3>1, <3>2
  <2>3. ks \subseteq DOMAIN rows /\ T \subseteq Stream
    OBVIOUS
  <2>4. [t \in Stream |-> LogOf(t)]' = [t \in Stream |-> IF t \in T THEN <<>> ELSE LogOf(t)]
    <3> HIDE DEF ks, T
    <3> QED BY <2>1, <2>2, <2>3, DeleteEmpties
  <2> QED BY <2>1, <2>4 DEF Idle, Return, Abs!DeleteAccount, Abs!Idle, Abs!Return
<1>7. CASE UNCHANGED vars
  BY <1>7, SameLogs DEF vars, Abs!vars
<1> QED BY <1>1, <1>2, <1>3, <1>4, <1>5, <1>6, <1>7 DEF Next, Abs!Next

(* MemoryStore is a BlobStore: the append, whose check and write are two   *)
(* critical sections with a drain between them, takes effect in one step   *)
(* against a gapless log, and so do the deletes and reads around it.       *)
THEOREM Refinement == Spec => ImplementsBlobStore
BY InitRefines, NextRefines, Invariance, PTL DEF Spec, ImplementsBlobStore, Abs!Spec
-------------------------------------------------------------------------------
(* The restore walk *)

(* Index returns the entries that follow on each other from the number     *)
(* asked for, as many as the page may have and the stream holds.           *)
LEMMA IndexOfInterval ==
  ASSUME IInv, NEW t \in Stream, NEW n \in Nat, SeqsIn(DOMAIN rows, t) = 1..n,
         NEW from \in 1..n + 1, NEW limit \in Nat \ {0}
  PROVE  Index(t, from, limit) =
           [i \in 1..(IF limit <= n - from + 1 THEN limit ELSE n - from + 1) |->
              [seq |-> from + i - 1, blob |-> rows[KeyAt(t, from + i - 1)]]]
<1> DEFINE S == {k.s : k \in {x \in KeysOfStream(t) : x.s >= from}}
           len == IF limit <= n - from + 1 THEN limit ELSE n - from + 1
           seqs == [i \in 1..len |-> from + i - 1]
<1>1. S = from..n
  <2>1. S = {s \in SeqsIn(DOMAIN rows, t) : s >= from}
    BY DEF KeysOfStream, SeqsIn
  <2>2. {s \in 1..n : s >= from} = from..n
    OBVIOUS
  <2> QED BY <2>1, <2>2
<1>2. FirstNumbers(from..n, limit) = seqs
  BY PageOfInterval
<1>3. Index(t, from, limit) = Entries(t, seqs)
  BY <1>1, <1>2 DEF Index
<1>4. DOMAIN seqs = 1..len /\ \A i \in 1..len : seqs[i] = from + i - 1
  OBVIOUS
<1> HIDE DEF seqs, len
<1>5. Entries(t, seqs) = [i \in 1..len |-> [seq |-> from + i - 1, blob |-> rows[KeyAt(t, from + i - 1)]]]
  BY <1>4 DEF Entries
<1> QED BY <1>3, <1>5 DEF len

(* A stream has as many keys as numbers. *)
LEMMA CountOfKeys ==
  ASSUME IInv, NEW t \in Stream, NEW n \in Nat, SeqsIn(DOMAIN rows, t) = 1..n
  PROVE  Cardinality(KeysOfStream(t)) = n
<1> DEFINE f == [i \in 1..n |-> KeyAt(t, i)]
           T == KeysOfStream(t)
<1>1. \A i \in 1..n : KeyAt(t, i) \in DOMAIN rows /\ StreamOf(KeyAt(t, i)) = t /\ KeyAt(t, i).s = i
  BY KeyAtStream DEF KeyFacts, KeyAt, StreamOf, Stream
<1>2. \A k \in T : k.s \in 1..n /\ k = KeyAt(t, k.s)
  BY DEF KeysOfStream, SeqsIn, KeyAt, StreamOf, IInv, TypeOK, Key
<1>3. /\ f \in [1..n -> T]
      /\ \A i, j \in 1..n : f[i] = f[j] => i = j
      /\ \A k \in T : \E i \in 1..n : f[i] = k
  BY <1>1, <1>2 DEF KeysOfStream
<1> HIDE DEF f, T
<1>4. f \in Bijection(1..n, T)
  BY <1>3 DEF Bijection, Injection, Surjection, IsInjective
<1>5. ExistsBijection(1..n, T)
  BY <1>4 DEF ExistsBijection
<1>6. IsFiniteSet(1..n) /\ Cardinality(1..n) = n
  BY FS_Interval
<1>7. Cardinality(T) = n
  BY <1>5, <1>6, FS_Bijection
<1> QED BY <1>7 DEF T

(* Index, Manifest and the page sizes of the handler: whatever a manifest  *)
(* advertises can be replayed, page by page and without a hole, up to the  *)
(* head.                                                                   *)
THEOREM RestoreReachesHead == Spec => []RestoreWalk
<1>1. ASSUME IInv, NEW p \in Pseudonym, NEW m \in Manifest(p)
      PROVE  /\ m.total = m.headSeq
             /\ \A from \in 1..m.headSeq + 1 : \A limit \in 0..DefaultIndexLimit + 1 :
                  LET got == Index(m.stream, from, PageLimit(limit))
                  IN  /\ from <= m.headSeq => got # <<>>
                      /\ \A i \in DOMAIN got : /\ got[i].seq = from + i - 1
                                               /\ got[i].seq <= m.headSeq
                                               /\ got[i].seq = m.headSeq => got[i].blob = m.head
  <2>1. PICK k \in DOMAIN rows :
          LET t == StreamOf(k)
          IN  m = [stream |-> t, headSeq |-> HeadSeq(t),
                   head |-> rows[CHOOSE x \in KeysOfStream(t) : x.s = HeadSeq(t)],
                   total |-> Cardinality(KeysOfStream(t))]
    BY <1>1 DEF Manifest
  <2> DEFINE t == StreamOf(k)
  <2>2. t \in Stream /\ k \in Key
    BY <1>1, StreamOfKey DEF IInv, TypeOK
  <2>3. PICK n \in Nat : SeqsIn(DOMAIN rows, t) = 1..n
    BY <1>1, <2>2 DEF IInv, Gapless
  <2>4. HeadSeq(t) = n /\ Cardinality(KeysOfStream(t)) = n
    BY <1>1, <2>2, <2>3, HeadOfInterval, CountOfKeys
  <2>5. n >= 1
    <3>1. k.s \in SeqsIn(DOMAIN rows, t)
      BY DEF SeqsIn
    <3> QED BY <2>3, <3>1
  <2>6. (CHOOSE x \in KeysOfStream(t) : x.s = n) = KeyAt(t, n)
    <3>1. KeyAt(t, n) \in KeysOfStream(t) /\ KeyAt(t, n).s = n
      BY <1>1, <2>2, <2>3, <2>5, KeyAtStream DEF KeyFacts, KeyAt, StreamOf, Stream, KeysOfStream
    <3>2. \A x \in KeysOfStream(t) : x.s = n => x = KeyAt(t, n)
      BY <1>1 DEF KeysOfStream, KeyAt, StreamOf, IInv, TypeOK, Key
    <3> QED BY <3>1, <3>2
  <2>7. m.stream = t /\ m.headSeq = n /\ m.total = n /\ m.head = rows[KeyAt(t, n)]
    BY <2>1, <2>4, <2>6
  <2> HIDE DEF t
  <2>8. ASSUME NEW from \in 1..n + 1, NEW limit \in 0..DefaultIndexLimit + 1
        PROVE  LET got == Index(t, from, PageLimit(limit))
               IN  /\ from <= n => got # <<>>
                   /\ \A i \in DOMAIN got : /\ got[i].seq = from + i - 1
                                            /\ got[i].seq <= n
                                            /\ got[i].seq = n => got[i].blob = rows[KeyAt(t, n)]
    <3> DEFINE page == PageLimit(limit)
               len == IF page <= n - from + 1 THEN page ELSE n - from + 1
               got == Index(t, from, page)
    <3>1. page \in Nat \ {0}
      BY BoundsAssumption DEF PageLimit
    <3>2. got = [i \in 1..len |-> [seq |-> from + i - 1, blob |-> rows[KeyAt(t, from + i - 1)]]]
      BY <1>1, <2>2, <2>3, <3>1, IndexOfInterval
    <3>3. len <= n - from + 1 /\ len \in Int /\ (from <= n => len >= 1)
      BY <3>1
    <3> HIDE DEF len, page, got
    <3>4. /\ DOMAIN got = 1..len
          /\ \A i \in 1..len : got[i].seq = from + i - 1 /\ got[i].blob = rows[KeyAt(t, from + i - 1)]
      BY <3>2
    <3>5. from <= n => got # <<>>
      <4>1. from <= n => 1 \in DOMAIN got
        BY <3>3, <3>4
      <4>2. 1 \notin DOMAIN <<>>
        OBVIOUS
      <4> QED BY <4>1, <4>2
    <3>6. \A i \in DOMAIN got : got[i].seq <= n
      BY <3>3, <3>4
    <3> QED BY <3>4, <3>5, <3>6 DEF got, page
  <2> QED BY <2>7, <2>8
<1>2. IInv => RestoreWalk
  BY <1>1 DEF RestoreWalk
<1> QED BY <1>2, Invariance, PTL
===============================================================================
