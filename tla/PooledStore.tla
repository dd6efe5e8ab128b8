------------------------------ MODULE PooledStore ------------------------------
(***************************************************************************)
(* PostgresStore behind the connection pool that it shares with the nonce  *)
(* store (NewPostgresStore, PostgresStore.DB, server.StreamTimeout).       *)
(*                                                                         *)
(* A request first consumes its nonce, a statement that takes a connection *)
(* and puts it back, and then makes its store call, whose transaction      *)
(* keeps a connection from BEGIN until it ends: for as long as the body    *)
(* takes.  A connection is not free while as many transactions are open as *)
(* the pool may have connections.                                          *)
(***************************************************************************)
EXTENDS PostgresStore

CONSTANTS
  Conns,     \* SetMaxOpenConns, 25 in the code
  Traffic    \* which calls are made together: sets of uploads, deleters and readers

VARIABLE auth    \* auth[s]: how far request s is with its authentication

pooledVars == <<vars, auth>>

(* Every call of the store is made by a request of its own. *)
Session == Upload \cup Deleter \cup Reader

ASSUME PoolAssumption ==
  /\ Conns \in Nat \ {0}
  /\ Upload \cap Deleter = {} /\ Reader \cap (Upload \cup Deleter) = {}
  /\ Traffic \subseteq SUBSET Session

PooledInit ==
  /\ Init
  /\ \E T \in Traffic : auth = [s \in Session |-> IF s \in T THEN "waiting" ELSE "absent"]

(* The sessions whose transaction is open.  A delete that has not run its  *)
(* first statement has no connection yet, and an upload whose rows are     *)
(* still uncommitted has not given its one back.                           *)
Holders ==
  {u \in Upload : up[u].st \notin Outcome \cup {"new"} \/ up[u].n > 0}
  \cup {x \in Deleter : del[x].st \in {"chunks", "between", "log", "commit"}}
  \cup {r \in Reader : rd[r].st \in {"sized", "stream"}}

Free == Cardinality(Holders) < Conns

(* The middleware, up to its call of the handler: Consume takes a free     *)
(* connection and returns it; a replay or an error refuses the request.    *)
Consume(s) ==
  /\ auth[s] = "waiting"
  /\ Free
  /\ \E a \in {"passed", "refused"} : auth' = [auth EXCEPT ![s] = a]
  /\ UNCHANGED vars

Unstarted(s) ==
  \/ s \in Upload /\ up[s].st = "new"
  \/ s \in Deleter /\ del[s].st = "new"
  \/ s \in Reader /\ rd[s].st = "new"

(* The request ends while it waits for a connection. *)
WaitCancelled(s) ==
  /\ auth[s] \in {"waiting", "passed"} /\ Unstarted(s)
  /\ auth' = [auth EXCEPT ![s] = "refused"]
  /\ UNCHANGED vars

(* The handler's first statement: the head check of an append, the check   *)
(* of a prune (which gives its connection back), the size of a download.   *)
StoreCall(s) ==
  /\ auth[s] = "passed"
  /\ Free
  /\ \/ s \in Upload /\ \E k \in Key : AppendBegin(s, k)
     \/ s \in Pruner /\ \E t \in Stream : PruneCheck(s, t)
     \/ s \in Eraser /\ \E p \in Pseudonym : EraseBegin(s, p)
     \/ s \in Reader /\ \E k \in Key : GetSize(s, k)
  /\ UNCHANGED auth

(* Mutant: the statements go through the pool and not through the          *)
(* transaction, so that a call needs a second connection.                  *)
GrantedOfTwo(s) == Free

(* Only BEGIN needs a connection: that of an append or a download was      *)
(* StoreCall, that of a delete is its first step.                          *)
Granted(s) == s \in Deleter /\ del[s].st = "begin" => Free

(* A step of a call under way. *)
TransactionStep(s) ==
  /\ Granted(s)
  /\ \/ s \in Upload /\ UploadStep(s)
     \/ s \in Deleter /\ DeleterStep(s)
     \/ s \in Reader /\ ReaderStep(s)
  /\ UNCHANGED auth

TransactionFail(s) ==
  /\ \/ s \in Upload /\ AppendFail(s)
     \/ s \in Deleter /\ DeleteFail(s)
     \/ s \in Reader /\ GetFail(s)
  /\ UNCHANGED auth

SessionStep(s) == Consume(s) \/ StoreCall(s) \/ TransactionStep(s)

PooledNext == \E s \in Session : SessionStep(s) \/ WaitCancelled(s) \/ TransactionFail(s)

PooledSpec == PooledInit /\ [][PooledNext]_pooledVars

(* A session that can go on does: StreamTimeout ends a body that does not  *)
(* (ReadEnd), and Postgres runs a statement once nothing holds its rows.   *)
(* database/sql wakes the waiting requests in no particular order; as only *)
(* so many are made, each has its turn.  Nothing has to fail.              *)
FairPooledSpec == PooledSpec /\ \A s \in Session : WF_pooledVars(SessionStep(s))

-------------------------------------------------------------------------------
(* Properties *)

(* The call of s is under way and its next statement waits for no row that *)
(* another transaction holds.                                              *)
GoesOn(s) ==
  \/ /\ s \in Upload /\ up[s].st \notin Outcome \cup {"new"}
     /\ up[s].st \in {"insert_more", "insert_last", "insert_error"} => ~ChunkHeld(s, up[s].k, up[s].n)
     /\ up[s].st = "log" => ~LogHeld(s, up[s].k)
  \/ /\ s \in Deleter /\ del[s].st \notin Answered \cup {"new"}
     /\ \A y \in Deleter \ {s} :
          /\ del[s].st = "chunks" => del[s].chunks \cap HeldChunks(y) = {}
          /\ del[s].st = "log" => del[s].log \cap HeldLog(y) = {}
  \/ s \in Reader /\ rd[s].st \in {"sized", "stream"}

(* When all connections are taken, one of the transactions that hold them  *)
(* can go on: no transaction needs a second connection, and none waits for *)
(* rows that a request without a connection holds, so that slow uploads    *)
(* can delay authentication but not stall it (server.go, StreamTimeout).   *)
PoolNeverStuck == Free \/ \E s \in Holders : Granted(s) /\ GoesOn(s)

Done(s) ==
  \/ auth[s] = "refused"
  \/ s \in Upload /\ up[s].st \in Outcome
  \/ s \in Deleter /\ del[s].st \in Answered
  \/ s \in Reader /\ rd[s].st \in {"eof", "not_found", "internal"}

(* Every request is answered, though there are more of them than           *)
(* connections: sessions wait for connections and for each other's rows    *)
(* but never in a circle, and a transaction that ends, on whatever path,   *)
(* lets go of its rows and of its connection.                              *)
EveryRequestAnswered == \A s \in Session : (auth[s] = "waiting") ~> Done(s)
===============================================================================
