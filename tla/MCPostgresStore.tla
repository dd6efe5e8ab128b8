---------------------------- MODULE MCPostgresStore ----------------------------
(* Instances of PostgresStore for TLC. *)
EXTENDS PostgresStore, TLC

CONSTANTS alice, laptop

(* A device that has compacted before: generations 1, 2 and 3, one entry each. *)
Compacted == {[p |-> alice, d |-> laptop, g |-> g, s |-> 1] : g \in 1..3}

(* A device with two entries in its first generation. *)
TwoEntries == {[p |-> alice, d |-> laptop, g |-> 1, s |-> s] : s \in 1..2}

(* The account and the device of the instances. *)
Accounts == {alice}
Devices == {laptop}

Nothing == {}

Symmetric == Permutations(Upload) \cup Permutations(Pruner)
===============================================================================
