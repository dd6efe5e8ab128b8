------------------------------ MODULE MCAuthProof ------------------------------
(* Instances of AuthProof for TLC. *)
EXTENDS AuthProof, TLC

(* A client clock that is right, one behind, and one so far ahead that its *)
(* proofs are refused until the skew allows them.                          *)
ClientClocks == {-1, 0, 3}

(* Replica clocks one unit to either side of the database's. *)
ReplicaClocks == {-1, 1}

Symmetric == Permutations(Proof) \cup Permutations(Delivery)
===============================================================================
