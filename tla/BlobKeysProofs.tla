---------------------------- MODULE BlobKeysProofs ----------------------------
(***************************************************************************)
(* Lemmas about the operators of BlobKeys that the proofs about the two    *)
(* stores share: the highest number of a stream or a device, the page of   *)
(* an index, and a log that grows at its end.                              *)
(***************************************************************************)
EXTENDS BlobKeys, TLAPS, WellFoundedInduction, FiniteSetTheorems, SequenceTheorems

(* A key's stream is a stream. *)
LEMMA StreamOfKey == \A k \in Key : StreamOf(k) \in Stream
BY DEF StreamOf, Stream, Key

(* The largest of 1..n, or 0 when there is none, is n. *)
LEMMA MaxOfInterval == \A n \in Nat : MaxOrZero(1..n) = n
<1> SUFFICES ASSUME NEW n \in Nat PROVE MaxOrZero(1..n) = n
  OBVIOUS
<1> DEFINE S == (1..n) \cup {0}
<1>1. n \in S /\ \A y \in S : n >= y
  OBVIOUS
<1>2. \A x \in S : (\A y \in S : x >= y) => x = n
  BY <1>1
<1>3. (CHOOSE x \in S : \A y \in S : x >= y) = n
  BY <1>1, <1>2
<1> QED BY <1>3 DEF MaxOrZero, Max

(* The largest of no numbers is 0: the device or the stream holds nothing. *)
LEMMA MaxOfNothing == MaxOrZero({}) = 0
<1>1. 1..0 = {}
  OBVIOUS
<1> QED BY <1>1, MaxOfInterval

(* A bounded set of numbers has a largest one, 0 for none, no less than    *)
(* any.                                                                    *)
LEMMA MaxExists ==
  \A bound \in Nat : \A S \in SUBSET (1..bound) :
    /\ MaxOrZero(S) \in S \cup {0}
    /\ MaxOrZero(S) \in Nat
    /\ \A x \in S : MaxOrZero(S) >= x
<1> SUFFICES ASSUME NEW bound \in Nat, NEW S \in SUBSET (1..bound)
             PROVE  /\ MaxOrZero(S) \in S \cup {0}
                    /\ MaxOrZero(S) \in Nat
                    /\ \A x \in S : MaxOrZero(S) >= x
  OBVIOUS
<1> DEFINE T == S \cup {0}
           U == {n \in Nat : \A y \in T : n >= y}
           R == OpToRel(<, Nat)
<1>1. T \subseteq 0..bound /\ bound \in U
  OBVIOUS
<1>2. PICK m \in U : \A y \in U : <<y, m>> \notin R
  <2>1. U \subseteq Nat /\ U # {}
    BY <1>1
  <2> HIDE DEF U, R
  <2>2. IsWellFoundedOn(R, Nat)
    BY NatLessThanWellFounded DEF R
  <2> QED BY <2>1, <2>2, WFMin
<1>3. \A y \in U : ~(y < m)
  <2>1. \A y \in Nat : y < m => <<y, m>> \in R
    BY DEF OpToRel
  <2> QED BY <1>2, <2>1
<1>4. m \in T
  <2> SUFFICES ASSUME m \notin T PROVE FALSE
    OBVIOUS
  <2>1. m \in Nat /\ m # 0 /\ \A y \in T : m > y
    BY <1>1
  <2>2. m - 1 \in U
    BY <1>1, <2>1
  <2> QED BY <1>3, <2>1, <2>2
<1>5. \A x \in T : (\A y \in T : x >= y) => x = m
  BY <1>1, <1>4
<1>6. (CHOOSE x \in T : \A y \in T : x >= y) = m
  BY <1>4, <1>5
<1> QED BY <1>4, <1>6 DEF MaxOrZero, Max

-------------------------------------------------------------------------------
(* The smaller of two numbers. *)
LEMMA MinOfTwo ==
  \A a, b \in Int : Min({a, b}) = IF a <= b THEN a ELSE b
<1> SUFFICES ASSUME NEW a \in Int, NEW b \in Int
             PROVE  Min({a, b}) = IF a <= b THEN a ELSE b
  OBVIOUS
<1> DEFINE m == IF a <= b THEN a ELSE b
<1>1. m \in {a, b} /\ \A y \in {a, b} : m <= y
  OBVIOUS
<1>2. \A x \in {a, b} : (\A y \in {a, b} : x <= y) => x = m
  OBVIOUS
<1>3. (CHOOSE x \in {a, b} : \A y \in {a, b} : x <= y) = m
  BY <1>1, <1>2
<1> QED BY <1>3 DEF Min

(* A page of a stream without holes: numbers that follow on each other,    *)
(* from the one asked for on.                                              *)
LEMMA PageOfInterval ==
  \A a, b, limit \in Int : a <= b + 1 =>
    FirstNumbers(a..b, limit) =
      [i \in 1..(IF limit <= b - a + 1 THEN limit ELSE b - a + 1) |-> a + i - 1]
<1> SUFFICES ASSUME NEW a \in Int, NEW b \in Int, NEW limit \in Int, a <= b + 1
             PROVE  FirstNumbers(a..b, limit) =
                      [i \in 1..(IF limit <= b - a + 1 THEN limit ELSE b - a + 1) |-> a + i - 1]
  OBVIOUS
<1> DEFINE S == a..b
           len == IF limit <= b - a + 1 THEN limit ELSE b - a + 1
           nth(i) == CHOOSE n \in S : Cardinality({m \in S : m <= n}) = i
<1>1. Cardinality(S) = b - a + 1
  BY FS_Interval
<1>2. Min({limit, Cardinality(S)}) = len
  BY <1>1, MinOfTwo
<1>3. \A n \in S : Cardinality({m \in S : m <= n}) = n - a + 1
  <2> SUFFICES ASSUME NEW n \in S PROVE Cardinality({m \in S : m <= n}) = n - a + 1
    OBVIOUS
  <2>1. {m \in S : m <= n} = a..n
    OBVIOUS
  <2>2. n \in Int /\ ~(a > n)
    OBVIOUS
  <2>3. Cardinality(a..n) = n - a + 1
    BY <2>2, FS_Interval
  <2> QED BY <2>1, <2>3
<1>4. \A i \in 1..len : nth(i) = a + i - 1
  <2> SUFFICES ASSUME NEW i \in 1..len PROVE nth(i) = a + i - 1
    OBVIOUS
  <2> HIDE DEF S
  <2>1. a + i - 1 \in S
    BY DEF S
  <2>2. \A n \in S : Cardinality({m \in S : m <= n}) = i <=> n = a + i - 1
    <3>1. \A n \in S : n \in Int
      BY DEF S
    <3> QED BY <1>3, <3>1
  <2>3. \E n \in S : Cardinality({m \in S : m <= n}) = i
    BY <2>1, <2>2
  <2>4. nth(i) \in S /\ Cardinality({m \in S : m <= nth(i)}) = i
    BY <2>3, Zenon
  <2> QED BY <2>2, <2>4
<1>5. FirstNumbers(S, limit) = [i \in 1..Min({limit, Cardinality(S)}) |-> nth(i)]
  BY DEF FirstNumbers
<1> QED BY <1>2, <1>4, <1>5
-------------------------------------------------------------------------------
(* Append puts one element behind those that are there. *)
LEMMA AppendIsExtension ==
  ASSUME NEW S, NEW s \in Seq(S), NEW e \in S, NEW u \in Seq(S),
         Len(u) = Len(s) + 1, \A i \in 1..Len(s) : u[i] = s[i], u[Len(s) + 1] = e
  PROVE  u = Append(s, e)
<1>1. /\ Append(s, e) \in Seq(S)
      /\ Len(Append(s, e)) = Len(u)
      /\ \A i \in 1..Len(s) : Append(s, e)[i] = u[i]
      /\ Append(s, e)[Len(s) + 1] = u[Len(s) + 1]
  BY AppendProperties
<1>2. Len(s) \in Nat
  OBVIOUS
<1>3. \A i \in 1..Len(u) : u[i] = Append(s, e)[i]
  BY <1>1, <1>2
<1> QED BY <1>1, <1>3, SeqEqual
===============================================================================
