---------------------------------- MODULE Boot ----------------------------------
(***************************************************************************)
(* The life of the server processes (cmd/server/main.go) on one database:  *)
(* several replicas start, run the migrations of the blob store and of the *)
(* nonce store, serve, are told to stop, crash and are started again.      *)
(*                                                                         *)
(* Each migration is a statement that first looks and then acts, and the   *)
(* replicas run them side by side.  Postgres is modelled as the statements *)
(* rely on it:                                                             *)
(*   - CREATE ... IF NOT EXISTS that found nothing fails (23505) when      *)
(*     another session has created the object in the meantime;             *)
(*   - CREATE INDEX fails without its table, and locks it from before it   *)
(*     looks until it is done, so that a DROP TABLE waits;                 *)
(*   - DROP TABLE takes the table of that name there is when it runs, and  *)
(*     its indexes with it, and fails if there is none.                    *)
(* A process that exits is started again by its supervisor.                *)
(***************************************************************************)
EXTENDS Naturals, Sequences, FiniteSets

CONSTANTS
  Replica,     \* server processes on the database
  Found,       \* what the database may hold at first, out of "empty", "old", "current"
  MaxFaults,   \* how many crashes and failed statements there are in all
  MaxStops     \* how many replicas are told to stop in all

ASSUME BootAssumption ==
  /\ Replica # {}
  /\ Found \subseteq {"empty", "old", "current"}
  /\ MaxFaults \in Nat /\ MaxStops \in Nat

VARIABLES
  found,    \* what the database held at first
  objects,  \* the tables and indexes that exist
  old,      \* whether blob_log is the pre-streaming table
  rows,     \* whether blob_log holds an acknowledged entry
  rep,      \* rep[r]: where replica r is
  faults, stops

database == <<objects, old, rows>>
vars == <<found, database, rep, faults, stops>>

(* Migrations of the two stores, in the order in which openStore runs      *)
(* them.  "drop_old" is the conditional DROP TABLE blob_log.               *)
Migrations ==
  <<"drop_old", "blob_log", "blob_log_head", "blob_chunks", "auth_nonces", "auth_nonces_expiry">>

Schema == {Migrations[i] : i \in 2..Len(Migrations)}

TableOf(o) ==
  IF o = "blob_log_head" THEN "blob_log" ELSE IF o = "auth_nonces_expiry" THEN "auth_nonces" ELSE o

Complete == objects = Schema /\ ~old

Down == [st |-> "down", pc |-> 0, busy |-> FALSE, db |-> FALSE, late |-> FALSE]

Init ==
  /\ found \in Found
  /\ \/ found = "empty" /\ objects = {}
     \/ found = "old" /\ objects \in {{"blob_log"}, {"blob_log", "blob_log_head"}}
     \/ found = "current" /\ objects = Schema
  /\ old = (found = "old")
  /\ rows = (found = "current")
  /\ rep = [r \in Replica |-> Down]
  /\ faults = 0 /\ stops = 0

-------------------------------------------------------------------------------
(* Start-up *)

(* os.Exit(1), a crash, or the end of main: what the process held is gone. *)
Exit(r) == rep' = [rep EXCEPT ![r] = Down]

(* NewPostgresStore opens the pool. *)
Start(r) ==
  /\ rep[r].st = "down"
  /\ rep' = [rep EXCEPT ![r].st = "look", ![r].pc = 1, ![r].db = TRUE]
  /\ UNCHANGED <<found, database, faults, stops>>

(* The statement at hand is through; after the last one the server listens. *)
Advance(r) ==
  rep' = [rep EXCEPT ![r].pc = IF @ = Len(Migrations) THEN 0 ELSE @ + 1,
                     ![r].st = IF rep[r].pc = Len(Migrations) THEN "serving" ELSE "look"]

Statement(r) == Migrations[rep[r].pc]

(* Mutant: whatever blob_log is there is dropped. *)
WantedAlways(o) == IF o = "drop_old" THEN "blob_log" \in objects ELSE o \notin objects

(* Mutant: CREATE without IF NOT EXISTS. *)
WantedAgain(o) == o = "drop_old" => ("blob_log" \in objects /\ old)

(* What the statement looks for: blob_log with a ciphertext column, or the *)
(* absence of what it creates.                                             *)
Wanted(o) == IF o = "drop_old" THEN "blob_log" \in objects /\ old ELSE o \notin objects

(* Mutant: a statement that fails is logged and passed over. *)
LookPassingErrors(r) ==
  /\ rep[r].st = "look"
  /\ IF Wanted(Statement(r)) THEN rep' = [rep EXCEPT ![r].st = "act"] ELSE Advance(r)
  /\ UNCHANGED <<found, database, faults, stops>>

(* The first half of a statement; CREATE INDEX fails without its table. *)
Look(r) ==
  LET o == Statement(r) IN
  /\ rep[r].st = "look"
  /\ IF TableOf(o) # o /\ TableOf(o) \notin objects THEN Exit(r)
     ELSE IF Wanted(o) THEN rep' = [rep EXCEPT ![r].st = "act"]
     ELSE Advance(r)
  /\ UNCHANGED <<found, database, faults, stops>>

(* DROP TABLE blob_log *)
Drop(r) ==
  /\ rep[r].st = "act" /\ Statement(r) = "drop_old"
  /\ \A q \in Replica : ~(rep[q].st = "act" /\ Statement(q) = "blob_log_head")
  /\ IF "blob_log" \notin objects THEN Exit(r) /\ UNCHANGED database
     ELSE /\ objects' = objects \ {"blob_log", "blob_log_head"}
          /\ old' = FALSE
          /\ rows' = FALSE
          /\ Advance(r)
  /\ UNCHANGED <<found, faults, stops>>

(* CREATE TABLE, CREATE INDEX *)
Create(r) ==
  /\ rep[r].st = "act" /\ Statement(r) # "drop_old"
  /\ IF Statement(r) \in objects THEN Exit(r) /\ UNCHANGED objects
     ELSE objects' = objects \cup {Statement(r)} /\ Advance(r)
  /\ UNCHANGED <<found, old, rows, faults, stops>>

-------------------------------------------------------------------------------
(* Serving and stopping *)

(* A request comes in and its handler runs. *)
Accept(r) ==
  /\ rep[r].st = "serving" /\ ~rep[r].busy
  /\ rep' = [rep EXCEPT ![r].busy = TRUE]
  /\ UNCHANGED <<found, database, faults, stops>>

(* handlers.Append is through: an append that finds its tables and an      *)
(* open pool is acknowledged, any other fails.                             *)
Respond(r) ==
  /\ rep[r].busy
  /\ rep' = [rep EXCEPT ![r].busy = FALSE]
  /\ rows' = (rows \/ (Complete /\ rep[r].db))
  /\ UNCHANGED <<found, objects, old, faults, stops>>

(* Mutant: the store is closed as soon as the signal arrives. *)
StopClosing(r) ==
  /\ rep[r].st = "serving" /\ stops < MaxStops
  /\ rep' = [rep EXCEPT ![r].st = "draining", ![r].db = FALSE]
  /\ stops' = stops + 1
  /\ UNCHANGED <<found, database, faults>>

(* SIGTERM: Shutdown closes the listeners. *)
Stop(r) ==
  /\ rep[r].st = "serving" /\ stops < MaxStops
  /\ rep' = [rep EXCEPT ![r].st = "draining"]
  /\ stops' = stops + 1
  /\ UNCHANGED <<found, database, faults>>

(* Mutant: Shutdown with a context that never ends. *)
ShutdownPatient(r) ==
  /\ rep[r].st = "draining" /\ ~rep[r].busy
  /\ rep' = [rep EXCEPT ![r].st = "closing"]
  /\ UNCHANGED <<found, database, faults, stops>>

(* Shutdown returns: no handler is left, or its 15 seconds are over. *)
Shutdown(r) ==
  /\ rep[r].st = "draining"
  /\ rep' = [rep EXCEPT ![r].st = "closing", ![r].late = rep[r].busy]
  /\ UNCHANGED <<found, database, faults, stops>>

(* The deferred closeStore, and then the end of the process. *)
CloseStore(r) ==
  /\ rep[r].st = "closing" /\ rep[r].db
  /\ rep' = [rep EXCEPT ![r].db = FALSE]
  /\ UNCHANGED <<found, database, faults, stops>>

End(r) ==
  /\ rep[r].st = "closing" /\ ~rep[r].db
  /\ Exit(r)
  /\ UNCHANGED <<found, database, faults, stops>>

(* The process dies, a statement of its start-up fails, or ListenAndServe  *)
(* does.                                                                   *)
Fault(r) ==
  /\ rep[r].st # "down" /\ faults < MaxFaults
  /\ Exit(r)
  /\ faults' = faults + 1
  /\ UNCHANGED <<found, database, stops>>

-------------------------------------------------------------------------------
Progress(r) ==
  \/ Start(r) \/ Look(r) \/ Drop(r) \/ Create(r)
  \/ Shutdown(r) \/ CloseStore(r) \/ End(r)

Next ==
  \E r \in Replica : Progress(r) \/ Accept(r) \/ Respond(r) \/ Stop(r) \/ Fault(r)

Spec == Init /\ [][Next]_vars

(* main goes on whenever it can, and the supervisor restarts what exited.  *)
(* No handler has to end: a body may outlast the 15 seconds by far.        *)
FairSpec == Spec /\ \A r \in Replica : WF_vars(Progress(r))

-------------------------------------------------------------------------------
(* Properties *)

(* Objects and replicas are of their kinds, an index has its table, and    *)
(* only a process has a pool or a handler.                                 *)
TypeOK ==
  /\ objects \subseteq Schema /\ \A o \in objects : TableOf(o) \in objects
  /\ old \in BOOLEAN /\ rows \in BOOLEAN
  /\ faults \in 0..MaxFaults /\ stops \in 0..MaxStops
  /\ rep \in [Replica -> [st : {"down", "look", "act", "serving", "draining", "closing"},
                          pc : 0..Len(Migrations), busy : BOOLEAN, db : BOOLEAN, late : BOOLEAN]]
  /\ \A r \in Replica :
       /\ rep[r].pc > 0 <=> rep[r].st \in {"look", "act"}
       /\ rep[r].st = "down" => rep[r] = Down

AllServe == \A r \in Replica : rep[r].st = "serving"

(* "Migrations are idempotent and run at boot": once all replicas serve,   *)
(* whatever the database held and however their statements ran into each   *)
(* other, the schema is there in full; and while the database never held   *)
(* the old table that is so as soon as one of them serves.                 *)
ServesCompleteSchema ==
  /\ AllServe => Complete
  /\ found # "old" => \A r \in Replica : rep[r].st = "serving" => Complete

(* "The first statement drops the pre-streaming table (single bytea        *)
(* column, 1 MiB cap) if it is what's there" (postgres.go): no migration   *)
(* costs the new table an entry that was acknowledged.                     *)
BootsKeepEntries == [][rows => rows']_vars

(* A replica serves, and no other is still at the first migration. *)
OldIsBehind ==
  /\ \E r \in Replica : rep[r].st = "serving"
  /\ \A r \in Replica : rep[r].st \in {"look", "act"} => rep[r].pc > 1

(* From then on, even on a database that held the old table, what is       *)
(* acknowledged is there for good: no crash, stop, restart or replica      *)
(* started later drops the table.  So a roll-out that has one replica      *)
(* serving before it starts the others avoids the loss that                *)
(* BootsKeepEntries shows.                                                 *)
SettledEntriesLast == [](OldIsBehind => [](rows => []rows))

(* A stop waits for the requests under way: no handler loses its database  *)
(* before the 15 seconds are over.                                         *)
DrainsBeforeClosing ==
  \A r \in Replica : rep[r].busy /\ ~rep[r].db => rep[r].late

(* A replica that is told to stop does, even if a request never ends.      *)
EveryStopEnds == \A r \in Replica : (rep[r].st = "draining") ~> (rep[r].st = "down")

(* Replicas that make each other's migrations fail do not go on doing so:  *)
(* in the end all of them serve.                                           *)
AllServeInTheEnd == <>[]AllServe
===============================================================================
