----------------------------- MODULE MCPooledStore -----------------------------
(* Instances of PooledStore for TLC. *)
EXTENDS PooledStore

CONSTANTS alice, laptop, u1, u2, x1, x2, x3, r1

Accounts == {alice}
Devices == {laptop}

Nothing == {}

Uploads == {u1, u2}
Pruners == {x3}
Erasers == {x1, x2}
Readers == {r1}

(* A download with two uploads and an erasure, or with one upload and two  *)
(* erasures, one request more than there are connections; and an upload,   *)
(* an erasure and a prune.                                                 *)
ThreeOrFour == {{u1, u2, x1, r1}, {u1, x1, x2, r1}, {u1, x1, x3}}
===============================================================================
