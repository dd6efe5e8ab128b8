------------------------------- MODULE MCClient -------------------------------
(* Instances of Client for TLC. *)
EXTENDS Client, TLC

CONSTANTS alice, laptop, c1, c2

Accounts == {alice}
Devices == {laptop}

Both == {c1, c2}

At(g, s) == [p |-> alice, d |-> laptop, g |-> g, s |-> s]

(* A device with generations 1 and 3: one call appends what starts the     *)
(* newer log over, reads or prunes the older one, while the other appends  *)
(* the next entry or erases the account.                                   *)
Requests ==
  (c1 :> {[op |-> "append", k |-> At(3, 1)], [op |-> "get", k |-> At(1, 1)],
          [op |-> "prune", k |-> At(1, 1)]})
  @@ (c2 :> {[op |-> "append", k |-> At(3, 2)], [op |-> "erase", k |-> At(1, 1)]})

OldAndNew == {1, 3}
===============================================================================
