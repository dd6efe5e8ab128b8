------------------------------ MODULE BootProofs ------------------------------
(***************************************************************************)
(* Proofs about Boot, for any number of replicas, crashes and stops.       *)
(***************************************************************************)
EXTENDS Boot, TLAPS

(* Replica r is through with the i-th migration. *)
Past(r, i) ==
  \/ rep[r].st \in {"serving", "draining", "closing"}
  \/ rep[r].st \in {"look", "act"} /\ rep[r].pc > i

(* The old table is the blob_log there is, and nobody is past the first    *)
(* migration while it is there.                                            *)
OldIsThere ==
  old => "blob_log" \in objects /\ \A r \in Replica : ~Past(r, 1)

(* What some migration has created may be gone again, but only while a     *)
(* replica (the one that dropped it) has yet to come to that migration.    *)
MissingIsToCome ==
  \A i \in 2..6 : (\A r \in Replica : Past(r, i)) => Migrations[i] \in objects

(* A database that never held the old table loses nothing: nobody is about *)
(* to drop a table, and what a replica has passed is there.                *)
NothingDropped ==
  found # "old" =>
    /\ ~old
    /\ \A r \in Replica : rep[r].st = "act" => rep[r].pc # 1
    /\ \A r \in Replica : \A i \in 2..6 : Past(r, i) => Migrations[i] \in objects

(* CREATE INDEX keeps its table locked. *)
TablesLocked ==
  \A r \in Replica : rep[r].st = "act" /\ rep[r].pc \in 2..6 => 
    TableOf(Migrations[rep[r].pc]) \in objects \cup {Migrations[rep[r].pc]}

(* The pool is open until main closes it, and what is still busy then is   *)
(* known to be late.                                                       *)
PoolOpen ==
  \A r \in Replica :
    /\ rep[r].st \notin {"closing", "down"} => rep[r].db
    /\ rep[r].st = "closing" /\ rep[r].busy => rep[r].late

IInv == TypeOK /\ OldIsThere /\ MissingIsToCome /\ NothingDropped /\ TablesLocked /\ PoolOpen

-------------------------------------------------------------------------------
(* The migrations one by one. *)
LEMMA MigrationFacts ==
  /\ Len(Migrations) = 6
  /\ Migrations[1] = "drop_old" /\ Migrations[2] = "blob_log" /\ Migrations[3] = "blob_log_head"
  /\ Migrations[4] = "blob_chunks" /\ Migrations[5] = "auth_nonces"
  /\ Migrations[6] = "auth_nonces_expiry"
BY DEF Migrations

(* The objects of the schema, and the tables of its indexes. *)
LEMMA SchemaFacts ==
  /\ Schema = {"blob_log", "blob_log_head", "blob_chunks", "auth_nonces", "auth_nonces_expiry"}
  /\ TableOf("drop_old") = "drop_old"
  /\ TableOf("blob_log") = "blob_log" /\ TableOf("blob_log_head") = "blob_log"
  /\ TableOf("blob_chunks") = "blob_chunks"
  /\ TableOf("auth_nonces") = "auth_nonces" /\ TableOf("auth_nonces_expiry") = "auth_nonces"
<1>1. Schema = {Migrations[i] : i \in 2..6}
  BY MigrationFacts DEF Schema
<1>2. 2..6 = {2, 3, 4, 5, 6}
  OBVIOUS
<1>3. Schema = {"blob_log", "blob_log_head", "blob_chunks", "auth_nonces", "auth_nonces_expiry"}
  BY <1>1, <1>2, MigrationFacts
<1>4. /\ TableOf("drop_old") = "drop_old"
      /\ TableOf("blob_log") = "blob_log" /\ TableOf("blob_log_head") = "blob_log"
      /\ TableOf("blob_chunks") = "blob_chunks"
      /\ TableOf("auth_nonces") = "auth_nonces" /\ TableOf("auth_nonces_expiry") = "auth_nonces"
  BY DEF TableOf
<1> QED BY <1>3, <1>4

(* Whatever the database held, nothing has been started on it yet. *)
LEMMA InitIInv == Init => IInv
<1> SUFFICES ASSUME Init PROVE IInv
  OBVIOUS
<1> USE BootAssumption, MigrationFacts, SchemaFacts
<1>1. found \in {"empty", "old", "current"}
  BY DEF Init
<1>2. \A r \in Replica : rep[r] = Down
  BY DEF Init
<1>3. \A r \in Replica, i \in 1..6 : ~Past(r, i)
  BY <1>2 DEF Past, Down
<1>4. TypeOK
  <2>1. objects \subseteq Schema /\ \A o \in objects : TableOf(o) \in objects
    BY <1>1 DEF Init
  <2>2. rep \in [Replica -> [st : {"down", "look", "act", "serving", "draining", "closing"},
                             pc : 0..Len(Migrations), busy : BOOLEAN, db : BOOLEAN, late : BOOLEAN]]
    BY DEF Init, Down
  <2>3. old \in BOOLEAN /\ rows \in BOOLEAN
    BY Zenon DEF Init
  <2> QED BY <1>2, <2>1, <2>2, <2>3 DEF Init, TypeOK, Down
<1>5. OldIsThere
  <2>1. CASE found = "old"
    BY <1>3, <2>1 DEF Init, OldIsThere
  <2>2. CASE found # "old"
    BY Zenon, <2>2 DEF Init, OldIsThere
  <2> QED BY <2>1, <2>2
<1>6. MissingIsToCome
  BY <1>3 DEF MissingIsToCome
<1>7. NothingDropped
  <2>1. found # "old" => ~old
    BY Zenon DEF Init
  <2> QED BY <1>2, <1>3, <2>1 DEF NothingDropped, Down
<1>8. TablesLocked /\ PoolOpen
  BY <1>2 DEF TablesLocked, PoolOpen, Down
<1> QED BY <1>4, <1>5, <1>6, <1>7, <1>8 DEF IInv

ReplicaState ==
  [st : {"down", "look", "act", "serving", "draining", "closing"},
   pc : 0..6, busy : BOOLEAN, db : BOOLEAN, late : BOOLEAN]

(* A step of replica r that leaves the schema alone, keeps r well-formed   *)
(* and passes a migration only if what it creates is there.                *)
Moves(r) ==
  /\ UNCHANGED <<found, objects, old>> /\ rows' \in BOOLEAN
  /\ faults' \in 0..MaxFaults /\ stops' \in 0..MaxStops
  /\ rep' = [rep EXCEPT ![r] = rep'[r]]
  /\ rep'[r] \in ReplicaState
  /\ rep'[r].pc > 0 <=> rep'[r].st \in {"look", "act"}
  /\ rep'[r].st = "down" => rep'[r] = Down
  /\ Past(r, 1)' => ~old
  /\ \A i \in 2..6 : Past(r, i)' => Past(r, i) \/ Migrations[i] \in objects
  /\ rep'[r].st = "act" /\ rep'[r].pc = 1 => found = "old"
  /\ rep'[r].st = "act" /\ rep'[r].pc > 1 =>
       TableOf(Migrations[rep'[r].pc]) \in objects \cup {Migrations[rep'[r].pc]}
  /\ rep'[r].st \notin {"closing", "down"} => rep'[r].db
  /\ rep'[r].st = "closing" /\ rep'[r].busy => rep'[r].late

(* Such a step keeps the invariant. *)
LEMMA MovesPreserve ==
  ASSUME IInv, NEW r \in Replica, Moves(r)
  PROVE  IInv'
<1> USE MigrationFacts DEF ReplicaState
<1>1. /\ \A q \in Replica \ {r} : rep'[q] = rep[q]
      /\ objects' = objects /\ old' = old /\ found' = found
  BY DEF IInv, TypeOK, Moves
<1>2. \A q \in Replica \ {r} : \A i \in 1..6 : Past(q, i)' <=> Past(q, i)
  BY <1>1 DEF Past
<1>3. TypeOK'
  BY <1>1 DEF IInv, TypeOK, Moves
<1>4. OldIsThere'
  BY <1>1, <1>2 DEF IInv, OldIsThere, Moves
<1>5. MissingIsToCome'
  BY <1>1, <1>2 DEF IInv, MissingIsToCome, Moves
<1>6. NothingDropped'
  BY <1>1, <1>2 DEF IInv, NothingDropped, Moves
<1>7. TablesLocked'
  BY <1>1 DEF IInv, TablesLocked, TypeOK, Moves
<1>8. PoolOpen'
  BY <1>1 DEF IInv, PoolOpen, Moves
<1> QED BY <1>3, <1>4, <1>5, <1>6, <1>7, <1>8 DEF IInv

(* What the invariant says of one replica. *)
LEMMA ReplicaFacts ==
  ASSUME IInv, NEW r \in Replica
  PROVE  /\ rep[r] \in ReplicaState /\ DOMAIN rep = Replica
         /\ rep = [rep EXCEPT ![r] = rep[r]]
         /\ rep[r].st \in {"look", "act"} => rep[r].pc \in 1..6
         /\ rep[r].st \notin {"look", "act"} => rep[r].pc = 0
         /\ rep[r].st = "down" => rep[r] = Down
         /\ rep[r].st \notin {"closing", "down"} => rep[r].db
         /\ rep[r].st = "closing" /\ rep[r].busy => rep[r].late
         /\ faults \in 0..MaxFaults /\ stops \in 0..MaxStops /\ rows \in BOOLEAN
BY MigrationFacts DEF IInv, TypeOK, PoolOpen, ReplicaState

(* An exit is safe at any moment: a process that is down has passed no     *)
(* migration.                                                              *)
LEMMA ExitMoves ==
  ASSUME IInv, NEW r \in Replica, Exit(r), UNCHANGED <<found, database>>,
         faults' \in 0..MaxFaults, stops' \in 0..MaxStops
  PROVE  Moves(r)
<1> USE ReplicaFacts
<1>1. rep'[r] = Down
  BY DEF Exit
<1>2. rep' = [rep EXCEPT ![r] = rep'[r]]
  BY <1>1 DEF Exit
<1>3. Down \in ReplicaState /\ Down.pc = 0 /\ Down.st = "down"
  BY DEF Down, ReplicaState
<1>4. \A i \in 1..6 : ~Past(r, i)'
  BY <1>1, <1>3 DEF Past
<1> QED BY <1>1, <1>2, <1>3, <1>4 DEF Moves, database

(* So is any step of a replica that has listened and does not start again. *)
LEMMA ServerMoves ==
  ASSUME IInv, NEW r \in Replica, UNCHANGED <<found, objects, old>>, rows' \in BOOLEAN,
         faults' \in 0..MaxFaults, stops' \in 0..MaxStops,
         rep[r].st \in {"serving", "draining", "closing"},
         rep' = [rep EXCEPT ![r] = rep'[r]], rep'[r] \in ReplicaState,
         rep'[r].st \in {"serving", "draining", "closing"}, rep'[r].pc = 0,
         rep'[r].st # "closing" => rep'[r].db,
         rep'[r].st = "closing" /\ rep'[r].busy => rep'[r].late
  PROVE  Moves(r)
<1>1. \A i \in 1..6 : Past(r, i)
  BY DEF Past
<1>2. ~old
  BY <1>1 DEF IInv, OldIsThere
<1> QED BY <1>1, <1>2 DEF Moves

(* The answer of a handler: nothing but busy and rows changes. *)
LEMMA RespondMoves ==
  ASSUME IInv, NEW r \in Replica, Respond(r)
  PROVE  Moves(r)
<1> USE ReplicaFacts
<1>1. rep' = [rep EXCEPT ![r] = rep'[r]] /\ rep'[r] \in ReplicaState
  BY DEF Respond, ReplicaState
<1>2. /\ rep'[r].st = rep[r].st /\ rep'[r].pc = rep[r].pc
      /\ rep'[r].db = rep[r].db /\ rep'[r].late = rep[r].late /\ ~rep'[r].busy
  BY DEF Respond, ReplicaState
<1>3. rep[r].st # "down"
  BY DEF Respond, Down
<1>4. rows' \in BOOLEAN
  BY DEF Respond, ReplicaState
<1>5. \A i \in 1..6 : Past(r, i)' <=> Past(r, i)
  BY <1>2 DEF Past
<1>6. /\ Past(r, 1) => ~old
      /\ rep[r].st = "act" /\ rep[r].pc > 1 =>
           TableOf(Migrations[rep[r].pc]) \in objects \cup {Migrations[rep[r].pc]}
      /\ rep[r].st = "act" /\ rep[r].pc = 1 => found = "old"
  BY DEF IInv, OldIsThere, TablesLocked, NothingDropped
<1> QED BY <1>1, <1>2, <1>3, <1>4, <1>5, <1>6 DEF Moves, Respond

(* The steps that neither create nor drop anything. *)
LEMMA QuietSteps ==
  ASSUME IInv, NEW r \in Replica,
         Start(r) \/ Look(r) \/ Accept(r) \/ Stop(r) \/ Shutdown(r) \/ CloseStore(r) \/ End(r) \/ Fault(r)
  PROVE  Moves(r)
<1> USE ReplicaFacts, BootAssumption DEF database
<1>1. CASE Start(r)
  BY <1>1 DEF Start, Moves, Past, ReplicaState
<1>2. CASE Accept(r)
  <2>1. rep' = [rep EXCEPT ![r] = rep'[r]] /\ rep'[r] \in ReplicaState
    BY <1>2 DEF Accept, ReplicaState
  <2>2. rep'[r].pc = 0 /\ rep'[r].st = "serving" /\ rep'[r].db = rep[r].db
    BY <1>2 DEF Accept, ReplicaState
  <2> QED BY <1>2, <2>1, <2>2, ServerMoves DEF Accept
<1>3. CASE Stop(r)
  <2>1. rep' = [rep EXCEPT ![r] = rep'[r]] /\ rep'[r] \in ReplicaState
    BY <1>3 DEF Stop, ReplicaState
  <2>2. rep'[r].pc = 0 /\ rep'[r].st = "draining" /\ rep'[r].db = rep[r].db
    BY <1>3 DEF Stop, ReplicaState
  <2>3. stops' \in 0..MaxStops
    BY <1>3 DEF Stop
  <2> QED BY <1>3, <2>1, <2>2, <2>3, ServerMoves DEF Stop
<1>4. CASE Shutdown(r)
  <2>0. rep[r] \in ReplicaState /\ rep[r].busy \in BOOLEAN /\ DOMAIN rep = Replica
    BY DEF ReplicaState
  <2> DEFINE new == [rep[r] EXCEPT !.st = "closing", !.late = rep[r].busy]
  <2>a. rep' = [rep EXCEPT ![r] = new]
    BY <1>4 DEF Shutdown
  <2>b. new \in ReplicaState
    BY <2>0 DEF ReplicaState
  <2>1. rep' = [rep EXCEPT ![r] = rep'[r]] /\ rep'[r] \in ReplicaState
    <3> HIDE DEF new
    <3> QED BY <2>0, <2>a, <2>b
  <2>2. /\ rep'[r].pc = 0 /\ rep'[r].st = "closing"
        /\ rep'[r].late = rep[r].busy /\ rep'[r].busy = rep[r].busy
    BY <1>4 DEF Shutdown, ReplicaState
  <2> QED BY <1>4, <2>1, <2>2, ServerMoves DEF Shutdown
<1>5. CASE CloseStore(r)
  <2>1. rep' = [rep EXCEPT ![r] = rep'[r]] /\ rep'[r] \in ReplicaState
    BY <1>5 DEF CloseStore, ReplicaState
  <2>2. /\ rep'[r].pc = 0 /\ rep'[r].st = "closing"
        /\ rep'[r].late = rep[r].late /\ rep'[r].busy = rep[r].busy
    BY <1>5 DEF CloseStore, ReplicaState
  <2> QED BY <1>5, <2>1, <2>2, ServerMoves DEF CloseStore
<1>6. CASE End(r)
  BY <1>6, ExitMoves DEF End
<1>7. CASE Fault(r)
  BY <1>7, ExitMoves DEF Fault
<1>8. CASE Look(r)
  <2> DEFINE o == Statement(r)
  <2>0. old => ~Past(r, 1)
    BY DEF IInv, OldIsThere
  <2>a. old => found = "old"
    BY DEF IInv, NothingDropped
  <2>1. CASE TableOf(o) # o /\ TableOf(o) \notin objects
    BY <1>8, <2>1, ExitMoves DEF Look
  <2>2. CASE ~(TableOf(o) # o /\ TableOf(o) \notin objects) /\ Wanted(o)
    BY <1>8, <2>0, <2>a, <2>2, MigrationFacts DEF Look, Statement, Wanted, Moves, Past, ReplicaState
  <2>3. CASE ~(TableOf(o) # o /\ TableOf(o) \notin objects) /\ ~Wanted(o)
    BY <1>8, <2>0, <2>3, MigrationFacts
       DEF Look, Statement, Wanted, Advance, IInv, OldIsThere, Moves, Past, ReplicaState
  <2> QED BY <2>1, <2>2, <2>3
<1> QED BY <1>1, <1>2, <1>3, <1>4, <1>5, <1>6, <1>7, <1>8

(* DROP TABLE: whoever drops has yet to come to the migrations that create *)
(* what is gone, and no index of the table is being created.               *)
LEMMA DropPreserves ==
  ASSUME IInv, NEW r \in Replica, Drop(r)
  PROVE  IInv'
<1> USE ReplicaFacts, MigrationFacts, SchemaFacts
<1>0. rep[r].st = "act" /\ rep[r].pc = 1 /\ found = "old"
  BY DEF Drop, Statement, IInv, NothingDropped
<1>1. CASE "blob_log" \notin objects
  BY <1>1, ExitMoves, MovesPreserve DEF Drop
<1>2. CASE "blob_log" \in objects
  <2>1. /\ rep' = [rep EXCEPT ![r] = rep'[r]] /\ rep'[r] \in ReplicaState
        /\ rep'[r].st = "look" /\ rep'[r].pc = 2
        /\ rep'[r].busy = rep[r].busy /\ rep'[r].db = rep[r].db
    BY <1>0, <1>2 DEF Drop, Advance, ReplicaState
  <2>2. /\ objects' = objects \ {"blob_log", "blob_log_head"} /\ ~old' /\ ~rows'
        /\ old' \in BOOLEAN /\ rows' \in BOOLEAN
        /\ UNCHANGED <<found, faults, stops>>
    BY <1>2 DEF Drop
  <2>3. \A q \in Replica \ {r} : rep'[q] = rep[q]
    BY <2>1
  <2>4. \A q \in Replica \ {r} : \A i \in 1..6 : Past(q, i)' <=> Past(q, i)
    BY <2>3 DEF Past
  <2>5. \A i \in 2..6 : ~Past(r, i)'
    BY <2>1 DEF Past
  <2>6. TypeOK'
    <3>1. /\ objects' \subseteq Schema /\ \A o \in objects' : TableOf(o) \in objects'
      BY <2>2 DEF IInv, TypeOK
    <3>2. rep' \in [Replica -> ReplicaState]
      BY <2>1 DEF IInv, TypeOK, ReplicaState
    <3> QED BY <2>1, <2>2, <2>3, <3>1, <3>2 DEF IInv, TypeOK, ReplicaState
  <2>7. OldIsThere' /\ MissingIsToCome' /\ NothingDropped'
    BY <1>0, <2>2, <2>5 DEF OldIsThere, MissingIsToCome, NothingDropped
  <2>8. TablesLocked'
    <3> SUFFICES ASSUME NEW q \in Replica, rep'[q].st = "act", rep'[q].pc \in 2..6
                 PROVE  TableOf(Migrations[rep'[q].pc]) \in objects' \cup {Migrations[rep'[q].pc]}
      BY DEF TablesLocked
    <3>1. q # r /\ rep[q].st = "act" /\ rep[q].pc \in 2..6 /\ rep'[q].pc = rep[q].pc
      BY <2>1, <2>3
    <3>2. rep[q].pc # 3
      BY <3>1 DEF Drop, Statement
    <3>3. TableOf(Migrations[rep[q].pc]) \in objects \cup {Migrations[rep[q].pc]}
      BY <3>1 DEF IInv, TablesLocked
    <3> QED BY <2>2, <3>1, <3>2, <3>3
  <2>9. PoolOpen'
    BY <1>0, <2>1, <2>3 DEF IInv, PoolOpen
  <2> QED BY <2>6, <2>7, <2>8, <2>9 DEF IInv
<1> QED BY <1>1, <1>2

(* CREATE: what is created is there when the replica passes on. *)
LEMMA CreatePreserves ==
  ASSUME IInv, NEW r \in Replica, Create(r)
  PROVE  IInv'
<1> USE ReplicaFacts, MigrationFacts, SchemaFacts
<1>0. rep[r].st = "act" /\ rep[r].pc \in 2..6
  BY DEF Create, Statement
<1>1. CASE Statement(r) \in objects
  BY <1>1, ExitMoves, MovesPreserve DEF Create, database
<1>2. CASE Statement(r) \notin objects
  <2>1. /\ rep' = [rep EXCEPT ![r] = rep'[r]] /\ rep'[r] \in ReplicaState
        /\ rep'[r].st \in {"look", "serving"}
        /\ rep'[r].st = "look" => rep[r].pc < 6 /\ rep'[r].pc = rep[r].pc + 1
        /\ rep'[r].st = "serving" => rep'[r].pc = 0 /\ rep[r].pc = 6
        /\ rep'[r].busy = rep[r].busy /\ rep'[r].db = rep[r].db
    BY <1>0, <1>2 DEF Create, Advance, ReplicaState
  <2>2. /\ objects' = objects \cup {Migrations[rep[r].pc]}
        /\ UNCHANGED <<found, old, rows, faults, stops>>
    BY <1>2 DEF Create, Statement
  <2>3. \A q \in Replica \ {r} : rep'[q] = rep[q]
    BY <2>1
  <2>4. \A q \in Replica \ {r} : \A i \in 1..6 : Past(q, i)' <=> Past(q, i)
    BY <2>3 DEF Past
  <2>5. \A i \in 1..6 : Past(r, i)' => Past(r, i) \/ i = rep[r].pc
    BY <1>0, <2>1 DEF Past
  <2>6. Past(r, 1) /\ ~old
    BY <1>0 DEF Past, IInv, OldIsThere
  <2>7. TypeOK'
    <3>1. TableOf(Migrations[rep[r].pc]) \in objects'
      BY <1>0, <2>2 DEF IInv, TablesLocked
    <3>a. Migrations[rep[r].pc] \in Schema
      BY ONLY <1>0, MigrationFacts DEF Schema
    <3>2. objects' \subseteq Schema
      BY <2>2, <3>a DEF IInv, TypeOK
    <3>3. rep' \in [Replica -> ReplicaState]
      BY <2>1 DEF IInv, TypeOK, ReplicaState
    <3>4. \A o \in objects' : TableOf(o) \in objects'
      BY <2>2, <3>1 DEF IInv, TypeOK
    <3>5. \A q \in Replica : /\ rep'[q].pc > 0 <=> rep'[q].st \in {"look", "act"}
                             /\ rep'[q].st = "down" => rep'[q] = Down
      BY <1>0, <2>1, <2>3 DEF IInv, TypeOK
    <3> QED BY <2>2, <3>2, <3>3, <3>4, <3>5 DEF IInv, TypeOK, ReplicaState
  <2>8. OldIsThere'
    BY <2>2, <2>6 DEF OldIsThere
  <2>9. MissingIsToCome'
    BY <2>2, <2>4, <2>5 DEF IInv, MissingIsToCome
  <2>10. NothingDropped'
    BY <2>1, <2>2, <2>3, <2>4, <2>5 DEF IInv, NothingDropped
  <2>11. TablesLocked'
    BY <2>1, <2>2, <2>3 DEF IInv, TablesLocked
  <2>12. PoolOpen'
    BY <1>0, <2>1, <2>3 DEF IInv, PoolOpen
  <2> QED BY <2>7, <2>8, <2>9, <2>10, <2>11, <2>12 DEF IInv
<1> QED BY <1>1, <1>2

-------------------------------------------------------------------------------
(* Every step keeps the invariant. *)
LEMMA NextIInv == IInv /\ [Next]_vars => IInv'
<1> SUFFICES ASSUME IInv, [Next]_vars PROVE IInv'
  OBVIOUS
<1>1. CASE UNCHANGED vars
  BY <1>1 DEF vars, database, IInv, TypeOK, OldIsThere, MissingIsToCome, NothingDropped,
              TablesLocked, PoolOpen, Past
<1>2. ASSUME NEW r \in Replica, Progress(r) \/ Accept(r) \/ Respond(r) \/ Stop(r) \/ Fault(r)
      PROVE  IInv'
  BY <1>2, QuietSteps, RespondMoves, MovesPreserve, DropPreserves, CreatePreserves DEF Progress
<1> QED BY <1>1, <1>2 DEF Next

(* The invariant holds throughout. *)
THEOREM Invariance == Spec => []IInv
<1> QED BY InitIInv, NextIInv, PTL DEF Spec

(* The schema, the replicas and their counters are well-formed at any      *)
(* moment, and no index is without its table.                              *)
THEOREM TypeCorrect == Spec => []TypeOK
<1>1. IInv => TypeOK
  BY DEF IInv
<1> QED BY <1>1, Invariance, PTL

(* However many replicas run the migrations side by side, crash and start  *)
(* again: when all serve, the schema is complete, and on a database that   *)
(* never held the old table it is so as soon as one serves.                *)
THEOREM SchemaIsComplete == Spec => []ServesCompleteSchema
<1>1. IInv => ServesCompleteSchema
  <2> SUFFICES ASSUME IInv PROVE ServesCompleteSchema
    OBVIOUS
  <2> USE MigrationFacts, SchemaFacts
  <2>1. \A r \in Replica : rep[r].st = "serving" => \A i \in 1..6 : Past(r, i)
    BY DEF Past
  <2>2. ASSUME ~old, \A i \in 2..6 : Migrations[i] \in objects
        PROVE  Complete
    <3>1. objects \subseteq Schema
      BY DEF IInv, TypeOK
    <3>2. /\ Migrations[2] \in objects /\ Migrations[3] \in objects /\ Migrations[4] \in objects
          /\ Migrations[5] \in objects /\ Migrations[6] \in objects
      BY <2>2
    <3> QED BY <2>2, <3>1, <3>2 DEF Complete
  <2>3. ASSUME \A r \in Replica : rep[r].st = "serving"
        PROVE  Complete
    BY <2>1, <2>2, <2>3, BootAssumption DEF IInv, OldIsThere, MissingIsToCome
  <2>4. ASSUME found # "old", NEW r \in Replica, rep[r].st = "serving"
        PROVE  Complete
    BY <2>1, <2>2, <2>4 DEF IInv, NothingDropped
  <2> QED BY <2>3, <2>4 DEF ServesCompleteSchema, AllServe
<1> QED BY <1>1, Invariance, PTL

(* No handler loses its database before the time that a stop allows it is  *)
(* over.                                                                   *)
THEOREM StopsDrain == Spec => []DrainsBeforeClosing
<1>1. IInv => DrainsBeforeClosing
  BY ReplicaFacts DEF DrainsBeforeClosing, Down
<1> QED BY <1>1, Invariance, PTL

(* The old table is gone and nobody is about to drop what took its place. *)
Settled == ~old /\ \A r \in Replica : rep[r].st = "act" => rep[r].pc # 1

(* A replica that serves is past the first migration, so the old table is  *)
(* gone.                                                                   *)
LEMMA ServingIsSettled == IInv /\ OldIsBehind => Settled
<1> SUFFICES ASSUME IInv, OldIsBehind PROVE Settled
  OBVIOUS
<1>1. PICK r \in Replica : rep[r].st = "serving"
  BY DEF OldIsBehind
<1>2. Past(r, 1)
  BY <1>1 DEF Past
<1>3. \A q \in Replica : rep[q].st = "act" => rep[q].pc # 1
  BY DEF OldIsBehind
<1> QED BY <1>2, <1>3 DEF IInv, OldIsThere, Settled

(* The old table does not come back, so that no replica, started again as  *)
(* often as may be, finds a table to drop.                                 *)
LEMMA SettledIsStable == IInv /\ Settled /\ [Next]_vars => Settled' /\ (rows => rows')
<1> SUFFICES ASSUME IInv, Settled, [Next]_vars PROVE Settled' /\ (rows => rows')
  OBVIOUS
<1>1. CASE UNCHANGED vars
  BY <1>1 DEF vars, database, Settled
<1>2. ASSUME NEW r \in Replica, Progress(r) \/ Accept(r) \/ Respond(r) \/ Stop(r) \/ Fault(r)
      PROVE  Settled' /\ (rows => rows')
  <2>0. /\ DOMAIN rep = Replica /\ rep[r] \in ReplicaState
        /\ rep[r].st \in {"look", "act"} => rep[r].pc \in 1..6
        /\ rep[r].st = "act" => rep[r].pc # 1
    BY ReplicaFacts DEF Settled
  <2>1. ~Drop(r)
    BY <2>0, MigrationFacts DEF Drop, Statement
  <2>2. ~old' /\ (rows => rows')
    <3>1. CASE Respond(r)
      BY <3>1 DEF Respond, Settled
    <3>2. CASE ~Respond(r)
      BY <1>2, <2>1, <3>2 DEF Progress, Start, Look, Create, Shutdown, CloseStore, End, Accept, Stop,
                              Fault, database, Settled
    <3> QED BY <3>1, <3>2
  <2>3. \/ Exit(r)
        \/ Advance(r) /\ rep[r].st \in {"look", "act"}
        \/ Look(r) /\ rep' = [rep EXCEPT ![r].st = "act"]
        \/ Start(r) \/ Accept(r) \/ Respond(r) \/ Stop(r) \/ Shutdown(r) \/ CloseStore(r)
    BY <1>2, <2>1 DEF Progress, Look, Create, End, Fault
  <2>4. \A q \in Replica \ {r} : rep'[q] = rep[q]
    <3>1. CASE Exit(r) \/ Advance(r)
      BY <2>0, <3>1 DEF Exit, Advance
    <3>2. CASE ~(Exit(r) \/ Advance(r))
      BY <2>0, <2>3, <3>2 DEF Start, Accept, Respond, Stop, Shutdown, CloseStore
    <3> QED BY <3>1, <3>2
  <2>5. rep'[r].st = "act" => rep'[r].pc # 1
    <3>1. CASE Exit(r)
      BY <2>0, <3>1 DEF Exit, Down
    <3>2. CASE Advance(r) /\ rep[r].st \in {"look", "act"}
      BY <2>0, <3>2 DEF Advance, ReplicaState
    <3>3. CASE Look(r) /\ rep' = [rep EXCEPT ![r].st = "act"]
      <4>1. Wanted(Statement(r)) \/ Exit(r) \/ Advance(r)
        BY <3>3 DEF Look
      <4>2. Wanted(Statement(r)) => rep[r].pc # 1
        BY MigrationFacts DEF Wanted, Statement, Settled
      <4>3. rep[r].st = "look" /\ rep'[r].pc = rep[r].pc
        BY <2>0, <3>3 DEF Look, ReplicaState
      <4> QED BY <2>0, <3>1, <3>2, <4>1, <4>2, <4>3
    <3>4. CASE Start(r) \/ Accept(r) \/ Stop(r) \/ Shutdown(r) \/ CloseStore(r)
      BY <2>0, <3>4 DEF Start, Accept, Stop, Shutdown, CloseStore, ReplicaState
    <3>5. CASE Respond(r)
      BY <2>0, <3>5 DEF Respond, ReplicaState
    <3> QED BY <2>3, <3>1, <3>2, <3>3, <3>4, <3>5
  <2> QED BY <2>2, <2>4, <2>5 DEF Settled
<1> QED BY <1>1, <1>2 DEF Next

(* Once a replica serves and none is still at the first migration,         *)
(* whatever the database held, no start, crash or stop of any replica      *)
(* costs it an acknowledged entry.                                         *)
THEOREM SettledEntriesAreKept == Spec => SettledEntriesLast
<1>1. IInv /\ OldIsBehind => Settled
  BY ServingIsSettled
<1>2. IInv /\ Settled /\ [Next]_vars => Settled' /\ (rows => rows')
  BY SettledIsStable
<1> QED BY <1>1, <1>2, Invariance, PTL DEF Spec, SettledEntriesLast
===============================================================================
