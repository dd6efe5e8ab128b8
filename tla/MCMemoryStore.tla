----------------------------- MODULE MCMemoryStore -----------------------------
(* Instances of MemoryStore for TLC. *)
EXTENDS MemoryStore, TLC

Symmetric == Permutations(Caller) \cup Permutations(Blob)
===============================================================================
