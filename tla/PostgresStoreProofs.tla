-------------------------- MODULE PostgresStoreProofs --------------------------
(***************************************************************************)
(* Proofs about PostgresStore, for any number of uploads, deletes and      *)
(* downloads, accounts, devices, generations and chunks.                   *)
(***************************************************************************)
EXTENDS PostgresStore, BlobKeysProofs

(* The number of chunks goes with the control point of an upload. *)
Counts ==
  \A u \in Upload :
    /\ up[u].st \in Outcome \cup {"new"} => up[u].n = 0
    /\ up[u].st \in {"insert_more", "insert_last"} => up[u].n < MaxChunks
    /\ up[u].st \in {"log", "commit"} => up[u].n > 0
    /\ IF up[u].st = "new" THEN up[u].k = NoKey ELSE up[u].k \in Key

(* Before its COMMIT nobody has seen a row of an upload; and as each       *)
(* upload commits once, a row that is gone does not come back.             *)
Unseen ==
  \A u \in Upload : up[u].st \notin {"stored", "internal"} =>
    /\ \A q \in blob_log \cup blob_chunks : q.b # u
    /\ \A x \in Deleter : \A q \in del[x].chunks \cup del[x].log \cup del[x].owed : q.b # u

(* The first chunk that an upload inserts gives it the key for itself. *)
Exclusive ==
  \A u \in Upload : up[u].n > 0 =>
    /\ \A c \in blob_chunks : c.k # up[u].k
    /\ \A v \in Upload \ {u} : up[v].n > 0 => up[v].k # up[u].k

(* Chunks come and go by blobs: the first one of a key is there if any is, *)
(* and a delete that is to remove one chunk of a key is to remove all.     *)
FirstChunks == \A c \in blob_chunks : \E d \in blob_chunks : d.k = c.k /\ d.i = 0

AllOfAKey ==
  \A x \in Deleter : \A c \in del[x].chunks \cap blob_chunks :
    \A d \in blob_chunks : d.k = c.k => d \in del[x].chunks

(* What an open delete holds is committed, and held by no other. *)
Held ==
  \A x \in Deleter :
    /\ HeldChunks(x) \subseteq blob_chunks /\ HeldLog(x) \subseteq blob_log
    /\ \A y \in Deleter \ {x} : /\ HeldChunks(x) \cap HeldChunks(y) = {}
                                /\ HeldLog(x) \cap HeldLog(y) = {}

(* The second DELETE finds the log row of every chunk of the first one. *)
LogCovered ==
  \A x \in Deleter : del[x].st \in {"log", "commit"} =>
    \A c \in del[x].chunks : \A r \in blob_log : r.k = c.k => r \in del[x].log

(* A delete is after what its call named, and after all of it that was     *)
(* there when it was made.                                                 *)
OnTarget ==
  \A x \in Deleter :
    /\ del[x].st = "new" => del[x].chunks = {} /\ del[x].log = {} /\ del[x].owed = {}
    /\ \A q \in del[x].chunks \cup del[x].log \cup del[x].owed : Matches(del[x].kind, del[x].t, q.k)
    /\ del[x].st \in {"chunks", "between", "log", "commit"} =>
         del[x].owed \cap blob_chunks \subseteq del[x].chunks
    /\ del[x].st \in {"log", "commit"} => del[x].owed \cap blob_log \subseteq del[x].log

(* A download's snapshot is a whole blob, of one upload. *)
Snapshots ==
  \A r \in Reader :
    /\ rd[r].st \in {"sized", "stream", "eof"} =>
         \E b \in Content : rd[r].snap = Chunks(rd[r].k, b, rd[r].size)
    /\ rd[r].st = "eof" => rd[r].got = rd[r].size

IInv ==
  /\ TypeOK /\ Counts /\ Unseen /\ Exclusive /\ FirstChunks /\ AllOfAKey /\ Held
  /\ LogCovered /\ OnTarget /\ Snapshots /\ WholeBlobs /\ DeletedForGood

-------------------------------------------------------------------------------
(* A seeded blob has one chunk, the first. *)
LEMMA OneChunk == \A k : Chunks(k, "seed", 1) = {[k |-> k, i |-> 0, b |-> "seed"]}
<1>1. 0..1 - 1 = {0}
  OBVIOUS
<1> QED BY <1>1 DEF Chunks

(* The seeded blobs are whole, and nothing is under way. *)
LEMMA InitIInv == Init => IInv
<1> SUFFICES ASSUME Init PROVE IInv
  OBVIOUS
<1> USE StoreAssumption
<1>1. /\ \A r \in blob_log : r.k \in Seed /\ r = [k |-> r.k, b |-> "seed", n |-> 1]
      /\ \A c \in blob_chunks : c.k \in Seed /\ c = [k |-> c.k, i |-> 0, b |-> "seed"]
      /\ \A k \in Seed : [k |-> k, i |-> 0, b |-> "seed"] \in blob_chunks
  BY OneChunk DEF Init
<1>2. /\ \A u \in Upload : up[u] = [st |-> "new", k |-> NoKey, n |-> 0]
      /\ \A x \in Deleter : del[x] = [st |-> "new", kind |-> "none", t |-> NoKey,
                                     chunks |-> {}, log |-> {}, owed |-> {}]
      /\ \A r \in Reader : rd[r] = [st |-> "new", k |-> NoKey, size |-> 0, snap |-> {}, got |-> 0]
  BY DEF Init
<1>3. TypeOK
  <2>1. blob_log \subseteq LogRow
    <3> SUFFICES ASSUME NEW r \in blob_log PROVE r \in LogRow
      OBVIOUS
    <3>1. r.k \in Key /\ r = [k |-> r.k, b |-> "seed", n |-> 1]
      BY <1>1
    <3>2. 1 \in 1..MaxChunks /\ "seed" \in Content
      BY DEF Content
    <3> QED BY <3>1, <3>2 DEF LogRow
  <2>2. blob_chunks \subseteq ChunkRow
    <3> SUFFICES ASSUME NEW c \in blob_chunks PROVE c \in ChunkRow
      OBVIOUS
    <3>1. c.k \in Key /\ c = [k |-> c.k, i |-> 0, b |-> "seed"]
      BY <1>1
    <3>2. 0 \in 0..MaxChunks /\ "seed" \in Content
      BY DEF Content
    <3> QED BY <3>1, <3>2 DEF ChunkRow
  <2>3. up \in [Upload -> UploadState] /\ rd \in [Reader -> ReaderState]
    BY DEF Init, UploadState, ReaderState
  <2>4. del \in [Deleter -> DeleterState]
    BY DEF Init, DeleterState, NoKey
  <2> QED BY <1>2, <2>1, <2>2, <2>3, <2>4 DEF TypeOK
<1>4. Counts /\ Exclusive /\ Snapshots
  BY <1>2 DEF Counts, Exclusive, Snapshots
<1>5. Unseen
  BY <1>1, <1>2 DEF Unseen
<1>6. FirstChunks
  BY <1>1 DEF FirstChunks
<1>7. AllOfAKey /\ Held /\ LogCovered /\ OnTarget /\ DeletedForGood
  BY <1>2 DEF AllOfAKey, Held, HeldChunks, HeldLog, LogCovered, OnTarget, DeletedForGood
<1>8. WholeBlobs
  <2> SUFFICES ASSUME NEW r \in blob_log
               PROVE  {c \in blob_chunks : c.k = r.k} = Chunks(r.k, r.b, r.n)
    BY DEF WholeBlobs
  <2>1. r.k \in Seed /\ r.b = "seed" /\ r.n = 1
    BY <1>1
  <2>2. {c \in blob_chunks : c.k = r.k} = {[k |-> r.k, i |-> 0, b |-> "seed"]}
    BY <1>1, <2>1
  <2> QED BY <2>1, <2>2, OneChunk
<1> QED BY <1>3, <1>4, <1>5, <1>6, <1>7, <1>8 DEF IInv

-------------------------------------------------------------------------------
(* Steps of an upload before its COMMIT *)

(* Such a step of u: it leaves its count and key in order, un-ends nothing *)
(* and gets a key only for itself.                                         *)
UploadMoves(u) ==
  /\ UNCHANGED <<blob_log, blob_chunks, del, rd>>
  /\ up' = [up EXCEPT ![u] = up'[u]] /\ up'[u] \in UploadState
  /\ up'[u].st \in Outcome \cup {"new"} => up'[u].n = 0
  /\ up'[u].st \in {"insert_more", "insert_last"} => up'[u].n < MaxChunks
  /\ up'[u].st \in {"log", "commit"} => up'[u].n > 0
  /\ up'[u].st # "new" /\ up'[u].k \in Key
  /\ up[u].st \notin {"stored", "internal"}
  /\ up'[u].n > 0 =>
       /\ \A c \in blob_chunks : c.k # up'[u].k
       /\ \A v \in Upload \ {u} : up[v].n > 0 => up[v].k # up'[u].k

(* It keeps the invariant. *)
LEMMA UploadMovesPreserve ==
  ASSUME IInv, NEW u \in Upload, UploadMoves(u)
  PROVE  IInv'
<1>1. /\ blob_log' = blob_log /\ blob_chunks' = blob_chunks /\ del' = del /\ rd' = rd
      /\ \A v \in Upload \ {u} : up'[v] = up[v]
  BY DEF UploadMoves, IInv, TypeOK
<1>2. TypeOK'
  BY <1>1 DEF IInv, TypeOK, UploadMoves
<1>3. Counts'
  BY <1>1 DEF IInv, Counts, UploadMoves
<1>4. Unseen'
  BY <1>1 DEF IInv, Unseen, UploadMoves
<1>5. Exclusive'
  BY <1>1 DEF IInv, Exclusive, UploadMoves
<1>6. /\ FirstChunks' /\ AllOfAKey' /\ Held' /\ LogCovered' /\ OnTarget' /\ Snapshots'
      /\ WholeBlobs' /\ DeletedForGood'
  BY <1>1 DEF IInv, FirstChunks, AllOfAKey, Held, HeldChunks, HeldLog, LogCovered, OnTarget,
              Snapshots, WholeBlobs, DeletedForGood
<1> QED BY <1>2, <1>3, <1>4, <1>5, <1>6 DEF IInv

(* What the invariant says of one upload. *)
LEMMA UploadFacts ==
  ASSUME IInv, NEW u \in Upload
  PROVE  /\ up[u] \in UploadState /\ DOMAIN up = Upload
         /\ up[u].n \in Nat /\ up[u].n <= MaxChunks
         /\ up[u].st \in Outcome \cup {"new"} => up[u].n = 0
         /\ up[u].st \in {"insert_more", "insert_last"} => up[u].n < MaxChunks
         /\ up[u].st \in {"log", "commit"} => up[u].n > 0
         /\ IF up[u].st = "new" THEN up[u].k = NoKey ELSE up[u].k \in Key
         /\ up[u].n > 0 =>
              /\ \A c \in blob_chunks : c.k # up[u].k
              /\ \A v \in Upload \ {u} : up[v].n > 0 => up[v].k # up[u].k
BY StoreAssumption DEF IInv, TypeOK, Counts, Exclusive, UploadState

(* A call that ends without a COMMIT keeps nothing. *)
LEMMA EndedMoves ==
  ASSUME IInv, NEW u \in Upload, NEW o \in Outcome, up' = Ended(u, o), up[u].st \notin Outcome \cup {"new"},
         UNCHANGED <<blob_log, blob_chunks, del, rd>>
  PROVE  UploadMoves(u)
<1> USE UploadFacts, StoreAssumption
<1>1. up'[u].st = o /\ up'[u].n = 0 /\ up'[u].k = up[u].k
  BY DEF Ended, UploadState
<1>2. up' = [up EXCEPT ![u] = up'[u]] /\ up'[u] \in UploadState
  <2>1. up' = [up EXCEPT ![u] = [up[u] EXCEPT !.st = o, !.n = 0]]
    BY DEF Ended
  <2>2. up[u] \in UploadState /\ 0 \in 0..MaxChunks
    OBVIOUS
  <2>3. [up[u] EXCEPT !.st = o, !.n = 0] \in UploadState
    BY ONLY <2>2, o \in Outcome DEF UploadState
  <2> QED BY <2>1, <2>3
<1>3. o \notin {"new", "insert_more", "insert_last", "log", "commit"} /\ up[u].st \notin {"stored", "internal", "new"}
  BY DEF Outcome
<1> QED BY <1>1, <1>2, <1>3 DEF UploadMoves

(* The steps of an upload up to its COMMIT. *)
LEMMA UploadSteps ==
  ASSUME IInv, NEW u \in Upload,
         \/ \E k \in Key : AppendBegin(u, k)
         \/ ReadChunk(u) \/ ReadEnd(u) \/ InsertChunk(u) \/ InsertLog(u) \/ AppendFail(u)
  PROVE  UploadMoves(u)
<1> USE UploadFacts, StoreAssumption
<1>1. ASSUME NEW k \in Key, AppendBegin(u, k)
      PROVE  UploadMoves(u)
  <2>1. up'[u].st \in {"read", "conflict"} /\ up'[u].k = k /\ up'[u].n = 0
    BY <1>1 DEF AppendBegin
  <2>2. up' = [up EXCEPT ![u] = up'[u]] /\ up'[u] \in UploadState
    BY <1>1 DEF AppendBegin, UploadState, Outcome
  <2> QED BY <1>1, <2>1, <2>2 DEF UploadMoves, AppendBegin
<1>2. CASE ReadChunk(u)
  <2>1. /\ up'[u].st \in {"insert_more", "insert_last", "insert_error"}
        /\ up'[u].st # "insert_error" => up[u].n < MaxChunks
        /\ up'[u].k = up[u].k /\ up'[u].n = up[u].n
    BY <1>2 DEF ReadChunk, UploadState
  <2>2. up' = [up EXCEPT ![u] = up'[u]] /\ up'[u] \in UploadState
    <3>1. PICK st \in {"insert_more", "insert_last", "insert_error"} :
            up' = [up EXCEPT ![u] = [up[u] EXCEPT !.st = st]]
      BY <1>2 DEF ReadChunk
    <3>2. [up[u] EXCEPT !.st = st] \in UploadState
      BY DEF UploadState
    <3> QED BY <3>1, <3>2
  <2> QED BY <1>2, <2>1, <2>2 DEF UploadMoves, ReadChunk, Outcome
<1>3. CASE ReadEnd(u)
  <2>0. up[u].st \notin Outcome \cup {"new"}
    BY <1>3 DEF ReadEnd, Outcome
  <2>1. CASE \E o \in {"empty", "body_error"} : up' = Ended(u, o)
    BY <1>3, <2>0, <2>1, EndedMoves DEF ReadEnd, Outcome
  <2>2. CASE up' = [up EXCEPT ![u].st = "log"] /\ up[u].n # 0
    <3>1. up'[u].st = "log" /\ up'[u].k = up[u].k /\ up'[u].n = up[u].n
      BY <2>2 DEF UploadState
    <3>2. up' = [up EXCEPT ![u] = up'[u]] /\ up'[u] \in UploadState
      BY <2>2 DEF UploadState
    <3> QED BY <1>3, <2>2, <3>1, <3>2 DEF UploadMoves, ReadEnd, Outcome
  <2> QED BY <1>3, <2>1, <2>2 DEF ReadEnd
<1>4. CASE InsertChunk(u)
  <2>0. up[u].st \in {"insert_more", "insert_last", "insert_error"} /\ up[u].st \notin Outcome \cup {"new"}
    BY <1>4 DEF InsertChunk, Outcome
  <2>1. CASE \E o \in {"conflict", "body_error"} : up' = Ended(u, o)
    BY <1>4, <2>0, <2>1, EndedMoves DEF InsertChunk, Outcome
  <2>2. CASE /\ ~\E c \in blob_chunks : c.k = up[u].k /\ c.i = up[u].n
             /\ up[u].st # "insert_error"
             /\ up' = [up EXCEPT ![u].st = IF @ = "insert_more" THEN "read" ELSE "log", ![u].n = up[u].n + 1]
    <3>1. /\ up'[u].st \in {"read", "log"} /\ up'[u].k = up[u].k /\ up'[u].n = up[u].n + 1
          /\ up[u].n < MaxChunks
      BY <2>0, <2>2 DEF UploadState
    <3>2. up' = [up EXCEPT ![u] = up'[u]] /\ up'[u] \in UploadState
      BY <2>0, <2>2 DEF UploadState
    <3>3. ASSUME up[u].n = 0
          PROVE  /\ \A c \in blob_chunks : c.k # up[u].k
                 /\ \A v \in Upload \ {u} : up[v].n > 0 => up[v].k # up[u].k
      BY <1>4, <2>2, <3>3 DEF InsertChunk, ChunkHeld, IInv, FirstChunks
    <3> QED BY <1>4, <2>0, <3>1, <3>2, <3>3 DEF UploadMoves, InsertChunk, Outcome
  <2> QED BY <1>4, <2>1, <2>2 DEF InsertChunk
<1>5. CASE InsertLog(u)
  <2>0. up[u].st = "log" /\ up[u].st \notin Outcome \cup {"new"}
    BY <1>5 DEF InsertLog, Outcome
  <2>1. CASE up' = Ended(u, "conflict")
    BY <1>5, <2>0, <2>1, EndedMoves DEF InsertLog, Outcome
  <2>2. CASE up' = [up EXCEPT ![u].st = "commit"]
    <3>1. up'[u].st = "commit" /\ up'[u].k = up[u].k /\ up'[u].n = up[u].n
      BY <2>2 DEF UploadState
    <3>2. up' = [up EXCEPT ![u] = up'[u]] /\ up'[u] \in UploadState
      BY <2>2 DEF UploadState
    <3> QED BY <1>5, <2>0, <3>1, <3>2 DEF UploadMoves, InsertLog, Outcome
  <2> QED BY <1>5, <2>1, <2>2 DEF InsertLog
<1>6. CASE AppendFail(u)
  BY <1>6, EndedMoves DEF AppendFail, Outcome
<1> QED BY <1>1, <1>2, <1>3, <1>4, <1>5, <1>6

-------------------------------------------------------------------------------
(* COMMIT of an upload *)

(* A listed blob has a first chunk. *)
LEMMA ListedHasChunks ==
  ASSUME IInv, NEW r \in blob_log
  PROVE  \E c \in blob_chunks : c.k = r.k
<1>1. r.n \in Nat /\ r.n >= 1
  BY StoreAssumption DEF IInv, TypeOK, LogRow
<1>2. [k |-> r.k, i |-> 0, b |-> r.b] \in Chunks(r.k, r.b, r.n)
  BY <1>1 DEF Chunks
<1> QED BY <1>2 DEF IInv, WholeBlobs

(* No listed blob and no chunk has the key that an upload has chunks for. *)
LEMMA KeyIsFree ==
  ASSUME IInv, NEW u \in Upload, up[u].n > 0
  PROVE  /\ \A c \in blob_chunks : c.k # up[u].k
         /\ \A r \in blob_log : r.k # up[u].k
BY UploadFacts, ListedHasChunks

(* An upload commits a whole blob under a key of its own. *)
LEMMA AppendCommitPreserves ==
  ASSUME IInv, NEW u \in Upload, AppendCommit(u)
  PROVE  IInv'
<1> DEFINE k == up[u].k
           n == up[u].n
           row == [k |-> k, b |-> u, n |-> n]
           new == Chunks(k, u, n)
<1>1. /\ k \in Key /\ n \in Nat /\ n > 0 /\ n <= MaxChunks /\ MaxChunks \in Nat
      /\ up[u].st = "commit" /\ DOMAIN up = Upload
  BY UploadFacts, StoreAssumption DEF AppendCommit
<1>2. /\ \A c \in blob_chunks : c.k # k
      /\ \A r \in blob_log : r.k # k
  BY <1>1, KeyIsFree
<1>3. /\ blob_log' = blob_log \cup {row} /\ blob_chunks' = blob_chunks \cup new
      /\ del' = del /\ rd' = rd
  BY DEF AppendCommit
<1>4. /\ row \in LogRow /\ row.k = k /\ row.b = u /\ row.n = n
      /\ \A c \in new : c \in ChunkRow /\ c.k = k /\ c.b = u
      /\ [k |-> k, i |-> 0, b |-> u] \in new
  <2>1. row \in LogRow /\ row.k = k /\ row.b = u /\ row.n = n
    BY <1>1 DEF LogRow, Content
  <2>2. ASSUME NEW i \in 0..n - 1
        PROVE  [k |-> k, i |-> i, b |-> u] \in ChunkRow
    <3>1. i \in 0..MaxChunks /\ u \in Content
      BY <1>1 DEF Content
    <3> QED BY <1>1, <3>1 DEF ChunkRow
  <2>3. 0 \in 0..n - 1
    BY <1>1
  <2> QED BY <2>1, <2>2, <2>3 DEF Chunks
<1>5. /\ \A v \in Upload \ {u} : up'[v] = up[v]
      /\ up'[u].st \in {"stored", "internal"} /\ up'[u].n = 0 /\ up'[u].k = k
      /\ up' \in [Upload -> UploadState]
  <2>1. PICK o \in {"stored", "internal"} : up' = [up EXCEPT ![u] = [up[u] EXCEPT !.st = o, !.n = 0]]
    BY DEF AppendCommit, Ended
  <2>2. up[u] \in UploadState /\ 0 \in 0..MaxChunks /\ o \in Outcome /\ up \in [Upload -> UploadState]
    BY UploadFacts, <1>1 DEF Outcome, IInv, TypeOK
  <2>3. /\ [up[u] EXCEPT !.st = o, !.n = 0] \in UploadState
        /\ [up[u] EXCEPT !.st = o, !.n = 0].st = o
        /\ [up[u] EXCEPT !.st = o, !.n = 0].n = 0
        /\ [up[u] EXCEPT !.st = o, !.n = 0].k = k
    BY ONLY <2>2 DEF UploadState
  <2> QED BY <2>1, <2>2, <2>3
<1> HIDE DEF row, new, k, n
<1>6. /\ \A q \in blob_log \cup blob_chunks : q.b # u
      /\ \A x \in Deleter : \A q \in del[x].chunks \cup del[x].log \cup del[x].owed : q.b # u
  BY <1>1 DEF IInv, Unseen
<1>7. TypeOK'
  BY <1>3, <1>4, <1>5 DEF IInv, TypeOK
<1>8. Counts'
  BY <1>1, <1>5 DEF IInv, Counts, Outcome
<1>9. Unseen'
  <2> SUFFICES ASSUME NEW v \in Upload, up'[v].st \notin {"stored", "internal"}
               PROVE  /\ \A q \in blob_log' \cup blob_chunks' : q.b # v
                      /\ \A x \in Deleter : \A q \in del'[x].chunks \cup del'[x].log \cup del'[x].owed : q.b # v
    BY DEF Unseen
  <2>1. v # u /\ up'[v] = up[v]
    BY <1>5
  <2> QED BY <1>3, <1>4, <2>1 DEF IInv, Unseen
<1>10. Exclusive'
  <2> SUFFICES ASSUME NEW v \in Upload, up'[v].n > 0
               PROVE  /\ \A c \in blob_chunks' : c.k # up'[v].k
                      /\ \A w \in Upload \ {v} : up'[w].n > 0 => up'[w].k # up'[v].k
    BY DEF Exclusive
  <2>1. v # u /\ up'[v] = up[v]
    BY <1>5
  <2>2. up[v].k # k
    BY <1>1, <2>1, UploadFacts DEF k, n
  <2>3. \A c \in blob_chunks' : c.k # up'[v].k
    BY <1>3, <1>4, <2>1, <2>2, UploadFacts
  <2>4. \A w \in Upload \ {v} : up'[w].n > 0 => up'[w].k # up'[v].k
    BY <1>5, <2>1, UploadFacts
  <2> QED BY <2>3, <2>4
<1>11. FirstChunks'
  <2> SUFFICES ASSUME NEW c \in blob_chunks' PROVE \E d \in blob_chunks' : d.k = c.k /\ d.i = 0
    BY DEF FirstChunks
  <2>1. CASE c \in blob_chunks
    BY <1>3, <2>1 DEF IInv, FirstChunks
  <2>2. CASE c \in new
    <3> DEFINE d == [k |-> k, i |-> 0, b |-> u]
    <3>1. d \in blob_chunks' /\ d.k = c.k /\ d.i = 0
      BY <1>3, <1>4, <2>2
    <3> QED BY <3>1
  <2> QED BY <1>3, <2>1, <2>2
<1>12. AllOfAKey'
  <2> SUFFICES ASSUME NEW x \in Deleter, NEW c \in del[x].chunks \cap blob_chunks',
                      NEW d \in blob_chunks', d.k = c.k
               PROVE  d \in del[x].chunks
    BY <1>3 DEF AllOfAKey
  <2>1. c \in blob_chunks
    BY <1>3, <1>4, <1>6
  <2>2. d \in blob_chunks
    BY <1>2, <1>3, <1>4, <2>1
  <2> QED BY <2>1, <2>2 DEF IInv, AllOfAKey
<1>13. Held'
  BY <1>3 DEF IInv, Held, HeldChunks, HeldLog
<1>14. LogCovered'
  <2> SUFFICES ASSUME NEW x \in Deleter, del[x].st \in {"log", "commit"},
                      NEW c \in del[x].chunks, NEW r \in blob_log', r.k = c.k
               PROVE  r \in del[x].log
    BY <1>3 DEF LogCovered
  <2>1. c \in blob_chunks
    BY DEF IInv, Held, HeldChunks
  <2>2. r \in blob_log
    BY <1>2, <1>3, <1>4, <2>1
  <2> QED BY <2>2 DEF IInv, LogCovered
<1>15. OnTarget'
  <2>1. \A x \in Deleter : /\ del[x].owed \cap blob_chunks' = del[x].owed \cap blob_chunks
                           /\ del[x].owed \cap blob_log' = del[x].owed \cap blob_log
    BY <1>3, <1>4, <1>6
  <2> QED BY <1>3, <2>1 DEF IInv, OnTarget
<1>16. DeletedForGood'
  BY <1>3, <1>4, <1>6 DEF IInv, DeletedForGood
<1>17. WholeBlobs'
  <2> SUFFICES ASSUME NEW r \in blob_log'
               PROVE  {c \in blob_chunks' : c.k = r.k} = Chunks(r.k, r.b, r.n)
    BY DEF WholeBlobs
  <2>1. CASE r \in blob_log
    <3>1. {c \in blob_chunks' : c.k = r.k} = {c \in blob_chunks : c.k = r.k}
      BY <1>2, <1>3, <1>4, <2>1
    <3> QED BY <2>1, <3>1 DEF IInv, WholeBlobs
  <2>2. CASE r = row
    <3>1. {c \in blob_chunks' : c.k = k} = new
      BY <1>2, <1>3, <1>4
    <3> QED BY <1>4, <2>2, <3>1 DEF new
  <2> QED BY <1>3, <2>1, <2>2
<1>18. Snapshots'
  BY <1>3 DEF IInv, Snapshots
<1> QED BY <1>7, <1>8, <1>9, <1>10, <1>11, <1>12, <1>13, <1>14, <1>15, <1>16, <1>17, <1>18 DEF IInv
-------------------------------------------------------------------------------
(* Steps of a delete before its COMMIT *)

(* Such a step of x: what it is after was there to be seen, and comes by   *)
(* whole keys; what it holds is committed and nobody else's.               *)
DeleterMoves(x) ==
  /\ UNCHANGED <<blob_log, blob_chunks, up, rd>>
  /\ del' = [del EXCEPT ![x] = del'[x]] /\ del'[x] \in DeleterState
  /\ del'[x].st \notin {"done", "not_found"}
  /\ del'[x].chunks \subseteq del[x].chunks \cup blob_chunks
  /\ del'[x].log \subseteq del[x].log \cup blob_log
  /\ del'[x].owed \subseteq del[x].owed \cup blob_log \cup blob_chunks
  /\ \A c \in del'[x].chunks \cap blob_chunks : \A d \in blob_chunks :
       d.k = c.k => d \in del'[x].chunks
  /\ HeldChunks(x)' \subseteq blob_chunks /\ HeldLog(x)' \subseteq blob_log
  /\ \A y \in Deleter \ {x} : /\ HeldChunks(x)' \cap HeldChunks(y) = {}
                              /\ HeldLog(x)' \cap HeldLog(y) = {}
  /\ del'[x].st \in {"log", "commit"} =>
       \A c \in del'[x].chunks : \A r \in blob_log : r.k = c.k => r \in del'[x].log
  /\ del'[x].st # "new"
  /\ \A q \in del'[x].chunks \cup del'[x].log \cup del'[x].owed : Matches(del'[x].kind, del'[x].t, q.k)
  /\ del'[x].st \in {"chunks", "between", "log", "commit"} =>
       del'[x].owed \cap blob_chunks \subseteq del'[x].chunks
  /\ del'[x].st \in {"log", "commit"} => del'[x].owed \cap blob_log \subseteq del'[x].log

(* It keeps the invariant. *)
LEMMA DeleterMovesPreserve ==
  ASSUME IInv, NEW x \in Deleter, DeleterMoves(x)
  PROVE  IInv'
<1>1. /\ blob_log' = blob_log /\ blob_chunks' = blob_chunks /\ up' = up /\ rd' = rd
      /\ \A y \in Deleter \ {x} : del'[y] = del[y]
  BY DEF DeleterMoves, IInv, TypeOK
<1>2. TypeOK'
  BY <1>1 DEF IInv, TypeOK, DeleterMoves
<1>3. Counts' /\ Exclusive' /\ FirstChunks' /\ Snapshots' /\ WholeBlobs'
  BY <1>1 DEF IInv, Counts, Exclusive, FirstChunks, Snapshots, WholeBlobs
<1>4. Unseen'
  <2> SUFFICES ASSUME NEW u \in Upload, up[u].st \notin {"stored", "internal"}, NEW y \in Deleter,
                      NEW q \in del'[y].chunks \cup del'[y].log \cup del'[y].owed
               PROVE  q.b # u
    BY <1>1 DEF IInv, Unseen
  <2>1. q \in del[y].chunks \cup del[y].log \cup del[y].owed \cup blob_log \cup blob_chunks
    BY <1>1 DEF DeleterMoves
  <2> QED BY <2>1 DEF IInv, Unseen
<1>5. AllOfAKey'
  BY <1>1 DEF IInv, AllOfAKey, DeleterMoves
<1>6. Held'
  <2>1. \A y \in Deleter \ {x} : HeldChunks(y)' = HeldChunks(y) /\ HeldLog(y)' = HeldLog(y)
    BY <1>1 DEF HeldChunks, HeldLog
  <2> QED BY <1>1, <2>1 DEF IInv, Held, DeleterMoves
<1>7. LogCovered'
  BY <1>1 DEF IInv, LogCovered, DeleterMoves
<1>8. OnTarget'
  BY <1>1 DEF IInv, OnTarget, DeleterMoves
<1>9. DeletedForGood'
  BY <1>1 DEF IInv, DeletedForGood, DeleterMoves
<1> QED BY <1>2, <1>3, <1>4, <1>5, <1>6, <1>7, <1>8, <1>9 DEF IInv

(* What the invariant says of one delete. *)
LEMMA DeleterFacts ==
  ASSUME IInv, NEW x \in Deleter
  PROVE  /\ del[x] \in DeleterState /\ DOMAIN del = Deleter
         /\ blob_log \subseteq LogRow /\ blob_chunks \subseteq ChunkRow
         /\ \A c \in del[x].chunks \cap blob_chunks : \A d \in blob_chunks :
              d.k = c.k => d \in del[x].chunks
         /\ HeldChunks(x) \subseteq blob_chunks /\ HeldLog(x) \subseteq blob_log
         /\ \A y \in Deleter \ {x} : /\ HeldChunks(x) \cap HeldChunks(y) = {}
                                     /\ HeldLog(x) \cap HeldLog(y) = {}
         /\ del[x].st \in {"log", "commit"} =>
              \A c \in del[x].chunks : \A r \in blob_log : r.k = c.k => r \in del[x].log
         /\ del[x].st = "new" => del[x].chunks = {} /\ del[x].log = {} /\ del[x].owed = {}
         /\ \A q \in del[x].chunks \cup del[x].log \cup del[x].owed : Matches(del[x].kind, del[x].t, q.k)
         /\ del[x].st \in {"chunks", "between", "log", "commit"} =>
              del[x].owed \cap blob_chunks \subseteq del[x].chunks
         /\ del[x].st \in {"log", "commit"} => del[x].owed \cap blob_log \subseteq del[x].log
BY DEF IInv, TypeOK, AllOfAKey, Held, LogCovered, OnTarget

(* A call that begins has all of its target's rows to remove. *)
LEMMA BegunMoves ==
  ASSUME IInv, NEW x \in Deleter, NEW kind \in {"prune", "erase"},
         NEW t \in Stream \cup [p : Pseudonym \cup {"none"}], Begun(x, kind, t),
         UNCHANGED <<blob_log, blob_chunks, up, rd>>
  PROVE  DeleterMoves(x)
<1> DEFINE owed == {q \in blob_log \cup blob_chunks : Matches(kind, t, q.k)}
           s == [st |-> "begin", kind |-> kind, t |-> t, chunks |-> {}, log |-> {}, owed |-> owed]
<1>1. del' = [del EXCEPT ![x] = s]
  BY DEF Begun
<1>2. /\ s.st = "begin" /\ s.kind = kind /\ s.t = t /\ s.chunks = {} /\ s.log = {} /\ s.owed = owed
      /\ owed \subseteq LogRow \cup ChunkRow
  BY DeleterFacts
<1>3. s \in DeleterState
  BY <1>2 DEF DeleterState
<1>4. \A q \in owed : Matches(kind, t, q.k)
  OBVIOUS
<1> HIDE DEF s
<1>5. del'[x] = s
  BY <1>1, DeleterFacts
<1> QED BY <1>1, <1>2, <1>3, <1>4, <1>5 DEF DeleterMoves, HeldChunks, HeldLog

(* The steps of a delete up to its COMMIT. *)
LEMMA DeleterSteps ==
  ASSUME IInv, NEW x \in Deleter,
         \/ \E t \in Stream : PruneCheck(x, t)
         \/ \E p \in Pseudonym : EraseBegin(x, p)
         \/ DeleteChunksStart(x) \/ DeleteChunks(x) \/ DeleteLogStart(x) \/ DeleteLog(x)
         \/ DeleteFail(x)
  PROVE  DeleterMoves(x)
<1> DEFINE s == del[x]
<1>0. /\ s \in DeleterState /\ DOMAIN del = Deleter
      /\ s.chunks \subseteq ChunkRow /\ s.log \subseteq LogRow
  BY DeleterFacts DEF DeleterState
<1>1. ASSUME NEW t \in Stream, PruneCheck(x, t)
      PROVE  DeleterMoves(x)
  <2>1. CASE Begun(x, "prune", t)
    BY <1>1, <2>1, BegunMoves DEF PruneCheck
  <2>2. CASE del' = [del EXCEPT ![x].st = "retention_guard", ![x].kind = "prune"]
    <3> DEFINE new == [s EXCEPT !.st = "retention_guard", !.kind = "prune"]
    <3>1. del' = [del EXCEPT ![x] = new]
      BY <2>2
    <3>2. new \in DeleterState
      BY <1>0 DEF DeleterState, Answered
    <3>3. /\ del'[x].st = "retention_guard" /\ del'[x].kind = "prune" /\ del'[x].t = s.t
          /\ del'[x].chunks = s.chunks /\ del'[x].log = s.log /\ del'[x].owed = s.owed
      BY <1>0, <3>1 DEF DeleterState
    <3>4. s.chunks = {} /\ s.log = {} /\ s.owed = {} /\ UNCHANGED <<blob_log, blob_chunks, up, rd>>
      BY <1>1, DeleterFacts DEF PruneCheck
    <3> HIDE DEF new
    <3>5. del' = [del EXCEPT ![x] = del'[x]] /\ del'[x] \in DeleterState
      BY <1>0, <3>1, <3>2
    <3>6. HeldChunks(x)' = {} /\ HeldLog(x)' = {}
      BY <3>3 DEF HeldChunks, HeldLog
    <3> QED BY <3>3, <3>4, <3>5, <3>6 DEF DeleterMoves
  <2> QED BY <1>1, <2>1, <2>2 DEF PruneCheck
<1>2. ASSUME NEW p \in Pseudonym, EraseBegin(x, p)
      PROVE  DeleterMoves(x)
  <2>1. [p |-> p] \in [p : Pseudonym \cup {"none"}]
    OBVIOUS
  <2> QED BY <1>2, <2>1, BegunMoves DEF EraseBegin
<1>3. CASE DeleteChunksStart(x)
  <2> DEFINE new == [s EXCEPT !.st = "chunks", !.chunks = Matching(x, blob_chunks)]
  <2>1. del' = [del EXCEPT ![x] = new]
    BY <1>3 DEF DeleteChunksStart
  <2>2. Matching(x, blob_chunks) \subseteq blob_chunks /\ blob_chunks \subseteq ChunkRow
    BY DeleterFacts DEF Matching
  <2>3. new \in DeleterState
    BY <1>0, <2>2 DEF DeleterState
  <2>4. /\ del'[x].st = "chunks" /\ del'[x].kind = s.kind /\ del'[x].t = s.t
        /\ del'[x].chunks = Matching(x, blob_chunks) /\ del'[x].log = s.log /\ del'[x].owed = s.owed
    BY <1>0, <2>1 DEF DeleterState
  <2>5. /\ \A c \in Matching(x, blob_chunks) : \A d \in blob_chunks :
             d.k = c.k => d \in Matching(x, blob_chunks)
        /\ \A q \in Matching(x, blob_chunks) \cup s.log \cup s.owed : Matches(s.kind, s.t, q.k)
        /\ s.owed \cap blob_chunks \subseteq Matching(x, blob_chunks)
    BY DeleterFacts DEF Matching
  <2> HIDE DEF new
  <2>6. del' = [del EXCEPT ![x] = del'[x]] /\ del'[x] \in DeleterState
    BY <1>0, <2>1, <2>3
  <2> QED BY <1>3, <2>2, <2>4, <2>5, <2>6 DEF DeleterMoves, HeldChunks, HeldLog, DeleteChunksStart
<1>4. CASE DeleteChunks(x)
  <2> DEFINE new == [s EXCEPT !.st = "between", !.chunks = s.chunks \cap blob_chunks]
  <2>1. del' = [del EXCEPT ![x] = new]
    BY <1>4 DEF DeleteChunks
  <2>2. new \in DeleterState
    BY <1>0 DEF DeleterState
  <2>3. /\ del'[x].st = "between" /\ del'[x].kind = s.kind /\ del'[x].t = s.t
        /\ del'[x].chunks = s.chunks \cap blob_chunks /\ del'[x].log = s.log /\ del'[x].owed = s.owed
    BY <1>0, <2>1 DEF DeleterState
  <2>4. /\ s.st = "chunks" /\ UNCHANGED <<blob_log, blob_chunks, up, rd>>
        /\ \A y \in Deleter \ {x} : s.chunks \cap HeldChunks(y) = {}
    BY <1>4 DEF DeleteChunks
  <2> HIDE DEF new
  <2>5. del' = [del EXCEPT ![x] = del'[x]] /\ del'[x] \in DeleterState
    BY <1>0, <2>1, <2>2
  <2>6. HeldChunks(x)' = s.chunks \cap blob_chunks /\ HeldLog(x)' = {}
    BY <2>3 DEF HeldChunks, HeldLog
  <2> QED BY <2>3, <2>4, <2>5, <2>6, DeleterFacts DEF DeleterMoves
<1>5. CASE DeleteLogStart(x)
  <2> DEFINE new == [s EXCEPT !.st = "log", !.log = Matching(x, blob_log)]
  <2>1. del' = [del EXCEPT ![x] = new]
    BY <1>5 DEF DeleteLogStart
  <2>2. Matching(x, blob_log) \subseteq blob_log /\ blob_log \subseteq LogRow
    BY DeleterFacts DEF Matching
  <2>3. new \in DeleterState
    BY <1>0, <2>2 DEF DeleterState
  <2>4. /\ del'[x].st = "log" /\ del'[x].kind = s.kind /\ del'[x].t = s.t
        /\ del'[x].chunks = s.chunks /\ del'[x].log = Matching(x, blob_log) /\ del'[x].owed = s.owed
    BY <1>0, <2>1 DEF DeleterState
  <2>5. s.st = "between" /\ UNCHANGED <<blob_log, blob_chunks, up, rd>>
    BY <1>5 DEF DeleteLogStart
  <2>6. /\ \A c \in s.chunks : \A r \in blob_log : r.k = c.k => r \in Matching(x, blob_log)
        /\ s.owed \cap blob_log \subseteq Matching(x, blob_log)
        /\ \A q \in s.chunks \cup Matching(x, blob_log) \cup s.owed : Matches(s.kind, s.t, q.k)
    BY DeleterFacts DEF Matching
  <2> HIDE DEF new
  <2>7. del' = [del EXCEPT ![x] = del'[x]] /\ del'[x] \in DeleterState
    BY <1>0, <2>1, <2>3
  <2>8. HeldChunks(x)' = s.chunks /\ HeldChunks(x) = s.chunks /\ HeldLog(x)' = {}
    BY <2>4, <2>5 DEF HeldChunks, HeldLog
  <2> QED BY <2>2, <2>4, <2>5, <2>6, <2>7, <2>8, DeleterFacts DEF DeleterMoves
<1>6. CASE DeleteLog(x)
  <2> DEFINE new == [s EXCEPT !.st = "commit", !.log = s.log \cap blob_log]
  <2>1. del' = [del EXCEPT ![x] = new]
    BY <1>6 DEF DeleteLog
  <2>2. new \in DeleterState
    BY <1>0 DEF DeleterState
  <2>3. /\ del'[x].st = "commit" /\ del'[x].kind = s.kind /\ del'[x].t = s.t
        /\ del'[x].chunks = s.chunks /\ del'[x].log = s.log \cap blob_log /\ del'[x].owed = s.owed
    BY <1>0, <2>1 DEF DeleterState
  <2>4. /\ s.st = "log" /\ UNCHANGED <<blob_log, blob_chunks, up, rd>>
        /\ \A y \in Deleter \ {x} : s.log \cap HeldLog(y) = {}
    BY <1>6 DEF DeleteLog
  <2> HIDE DEF new
  <2>5. del' = [del EXCEPT ![x] = del'[x]] /\ del'[x] \in DeleterState
    BY <1>0, <2>1, <2>2
  <2>6. HeldChunks(x)' = s.chunks /\ HeldChunks(x) = s.chunks /\ HeldLog(x)' = s.log \cap blob_log
    BY <2>3, <2>4 DEF HeldChunks, HeldLog
  <2> QED BY <2>3, <2>4, <2>5, <2>6, DeleterFacts DEF DeleterMoves
<1>7. CASE DeleteFail(x)
  <2> DEFINE new == [s EXCEPT !.st = "internal", !.chunks = {}, !.log = {}]
  <2>1. del' = [del EXCEPT ![x] = new]
    BY <1>7 DEF DeleteFail
  <2>2. new \in DeleterState
    BY <1>0 DEF DeleterState, Answered
  <2>3. /\ del'[x].st = "internal" /\ del'[x].kind = s.kind /\ del'[x].t = s.t
        /\ del'[x].chunks = {} /\ del'[x].log = {} /\ del'[x].owed = s.owed
    BY <1>0, <2>1 DEF DeleterState
  <2> HIDE DEF new
  <2>4. del' = [del EXCEPT ![x] = del'[x]] /\ del'[x] \in DeleterState
    BY <1>0, <2>1, <2>2
  <2>5. HeldChunks(x)' = {} /\ HeldLog(x)' = {}
    BY <2>3 DEF HeldChunks, HeldLog
  <2> QED BY <1>7, <2>3, <2>4, <2>5, DeleterFacts DEF DeleterMoves, DeleteFail
<1> QED BY <1>1, <1>2, <1>3, <1>4, <1>5, <1>6, <1>7

-------------------------------------------------------------------------------
(* COMMIT of a delete *)

(* A delete removes whole blobs, with all that it was called for; and none *)
(* of it is held by another.                                               *)
LEMMA DeleteCommitPreserves ==
  ASSUME IInv, NEW x \in Deleter, DeleteCommit(x)
  PROVE  IInv'
<1> DEFINE chunks == del[x].chunks
           log == del[x].log
<1>1. /\ blob_log' = blob_log \ log /\ blob_chunks' = blob_chunks \ chunks
      /\ up' = up /\ rd' = rd /\ del[x].st = "commit"
  BY DEF DeleteCommit
<1>2. /\ \A y \in Deleter \ {x} : del'[y] = del[y]
      /\ del' \in [Deleter -> DeleterState]
      /\ del'[x].st \in {"internal", "not_found", "done"} /\ del'[x].kind = del[x].kind
      /\ del'[x].t = del[x].t /\ del'[x].chunks = chunks /\ del'[x].log = log
      /\ del'[x].owed = del[x].owed
  <2>1. PICK o \in {"internal", "not_found", "done"} : del' = [del EXCEPT ![x] = [del[x] EXCEPT !.st = o]]
    BY DEF DeleteCommit
  <2>2. del[x] \in DeleterState /\ del \in [Deleter -> DeleterState] /\ o \in Answered
    BY DeleterFacts DEF IInv, TypeOK, Answered
  <2>3. /\ [del[x] EXCEPT !.st = o] \in DeleterState
        /\ [del[x] EXCEPT !.st = o].st = o
        /\ [del[x] EXCEPT !.st = o].kind = del[x].kind
        /\ [del[x] EXCEPT !.st = o].t = del[x].t
        /\ [del[x] EXCEPT !.st = o].chunks = chunks
        /\ [del[x] EXCEPT !.st = o].log = log
        /\ [del[x] EXCEPT !.st = o].owed = del[x].owed
    BY ONLY <2>2 DEF DeleterState
  <2> QED BY <2>1, <2>2, <2>3
<1>3. /\ HeldChunks(x) = chunks /\ HeldLog(x) = log
      /\ HeldChunks(x)' = {} /\ HeldLog(x)' = {}
      /\ \A y \in Deleter \ {x} : HeldChunks(y)' = HeldChunks(y) /\ HeldLog(y)' = HeldLog(y)
  BY <1>1, <1>2 DEF HeldChunks, HeldLog
<1>4. /\ \A c \in chunks : c \in blob_chunks
      /\ \A c \in chunks : \A d \in blob_chunks : d.k = c.k => d \in chunks
      /\ \A c \in chunks : \A r \in blob_log : r.k = c.k => r \in log
  BY <1>1, <1>3, DeleterFacts
<1> HIDE DEF chunks, log
<1>5. TypeOK'
  BY <1>1, <1>2 DEF IInv, TypeOK
<1>6. Counts' /\ Exclusive' /\ Snapshots'
  BY <1>1 DEF IInv, Counts, Exclusive, Snapshots
<1>7. Unseen'
  <2> SUFFICES ASSUME NEW u \in Upload, up[u].st \notin {"stored", "internal"}
               PROVE  /\ \A q \in blob_log' \cup blob_chunks' : q.b # u
                      /\ \A y \in Deleter : \A q \in del'[y].chunks \cup del'[y].log \cup del'[y].owed : q.b # u
    BY <1>1 DEF Unseen
  <2>1. \A q \in blob_log' \cup blob_chunks' : q.b # u
    BY <1>1 DEF IInv, Unseen
  <2>2. \A y \in Deleter : /\ del'[y].chunks = del[y].chunks /\ del'[y].log = del[y].log
                           /\ del'[y].owed = del[y].owed
    BY <1>2 DEF chunks, log
  <2> QED BY <2>1, <2>2 DEF IInv, Unseen
<1>8. FirstChunks'
  <2> SUFFICES ASSUME NEW c \in blob_chunks, c \notin chunks
               PROVE  \E d \in blob_chunks : d \notin chunks /\ d.k = c.k /\ d.i = 0
    BY <1>1 DEF FirstChunks
  <2>1. PICK d \in blob_chunks : d.k = c.k /\ d.i = 0
    BY DEF IInv, FirstChunks
  <2> QED BY <1>4, <2>1
<1>9. AllOfAKey'
  <2> SUFFICES ASSUME NEW y \in Deleter, NEW c \in del[y].chunks \cap blob_chunks',
                      NEW d \in blob_chunks', d.k = c.k
               PROVE  d \in del[y].chunks
    BY <1>2 DEF AllOfAKey, chunks
  <2> QED BY <1>1 DEF IInv, AllOfAKey
<1>10. Held'
  <2> SUFFICES ASSUME NEW y \in Deleter
               PROVE  /\ HeldChunks(y)' \subseteq blob_chunks' /\ HeldLog(y)' \subseteq blob_log'
                      /\ \A z \in Deleter \ {y} : /\ HeldChunks(y)' \cap HeldChunks(z)' = {}
                                                  /\ HeldLog(y)' \cap HeldLog(z)' = {}
    BY DEF Held
  <2>1. CASE y = x
    BY <1>3, <2>1
  <2>2. CASE y # x
    <3>1. HeldChunks(y) \cap chunks = {} /\ HeldLog(y) \cap log = {}
      BY <1>3, <2>2, DeleterFacts
    <3> QED BY <1>1, <1>3, <2>2, <3>1, DeleterFacts
  <2> QED BY <2>1, <2>2
<1>11. LogCovered'
  <2> SUFFICES ASSUME NEW y \in Deleter \ {x}, del[y].st \in {"log", "commit"}
               PROVE  \A c \in del[y].chunks : \A r \in blob_log' : r.k = c.k => r \in del[y].log
    BY <1>2 DEF LogCovered
  <2> QED BY <1>1, DeleterFacts
<1>12. OnTarget'
  <2> SUFFICES ASSUME NEW y \in Deleter
               PROVE  /\ del'[y].st = "new" => del'[y].chunks = {} /\ del'[y].log = {} /\ del'[y].owed = {}
                      /\ \A q \in del'[y].chunks \cup del'[y].log \cup del'[y].owed : Matches(del'[y].kind, del'[y].t, q.k)
                      /\ del'[y].st \in {"chunks", "between", "log", "commit"} =>
                           del'[y].owed \cap blob_chunks' \subseteq del'[y].chunks
                      /\ del'[y].st \in {"log", "commit"} => del'[y].owed \cap blob_log' \subseteq del'[y].log
    BY DEF OnTarget
  <2>1. CASE y = x
    BY <1>2, <2>1, DeleterFacts DEF chunks, log
  <2>2. CASE y # x
    BY <1>1, <1>2, <2>2, DeleterFacts
  <2> QED BY <2>1, <2>2
<1>13. DeletedForGood'
  <2> SUFFICES ASSUME NEW y \in Deleter, del'[y].st \in {"done", "not_found"}
               PROVE  del'[y].owed \cap (blob_log' \cup blob_chunks') = {}
    BY DEF DeletedForGood
  <2>1. CASE y = x
    <3>1. del[x].owed \cap blob_chunks \subseteq chunks /\ del[x].owed \cap blob_log \subseteq log
      BY <1>1, DeleterFacts DEF chunks, log
    <3> QED BY <1>1, <1>2, <2>1, <3>1
  <2>2. CASE y # x
    <3>1. del[y].st \in {"done", "not_found"} /\ del'[y].owed = del[y].owed
      BY <1>2, <2>2
    <3> QED BY <1>1, <3>1 DEF IInv, DeletedForGood
  <2> QED BY <2>1, <2>2
<1>14. WholeBlobs'
  <2> SUFFICES ASSUME NEW r \in blob_log, r \notin log
               PROVE  {c \in blob_chunks' : c.k = r.k} = Chunks(r.k, r.b, r.n)
    BY <1>1 DEF WholeBlobs
  <2>1. \A c \in chunks : c.k # r.k
    BY <1>4
  <2>2. {c \in blob_chunks' : c.k = r.k} = {c \in blob_chunks : c.k = r.k}
    BY <1>1, <2>1
  <2> QED BY <2>2 DEF IInv, WholeBlobs
<1> QED BY <1>5, <1>6, <1>7, <1>8, <1>9, <1>10, <1>11, <1>12, <1>13, <1>14 DEF IInv

-------------------------------------------------------------------------------
(* Steps of a download *)

(* A blob of n chunks has n of them. *)
LEMMA ChunkCount == \A k, b : \A n \in Nat : Cardinality(Chunks(k, b, n)) = n
<1> SUFFICES ASSUME NEW k, NEW b, NEW n \in Nat PROVE Cardinality(Chunks(k, b, n)) = n
  OBVIOUS
<1> DEFINE S == 0..n - 1
           T == Chunks(k, b, n)
           f == [i \in S |-> [k |-> k, i |-> i, b |-> b]]
<1>1. IsFiniteSet(S) /\ Cardinality(S) = n
  BY FS_Interval
<1>2. f \in [S -> T]
  BY DEF Chunks
<1>3. \A i, j \in S : f[i] = f[j] => i = j
  OBVIOUS
<1>4. \A c \in T : \E i \in S : f[i] = c
  BY DEF Chunks
<1> HIDE DEF f, S, T
<1>5. f \in Bijection(S, T)
  BY <1>2, <1>3, <1>4 DEF Bijection, Injection, Surjection, IsInjective
<1>6. ExistsBijection(S, T)
  BY <1>5 DEF ExistsBijection
<1>7. Cardinality(T) = Cardinality(S)
  BY <1>1, <1>6, FS_Bijection
<1> QED BY <1>1, <1>7 DEF T

(* A step of r: what it has to send is one blob, of the size it promised. *)
ReaderMoves(r) ==
  /\ UNCHANGED <<blob_log, blob_chunks, up, del>>
  /\ rd' = [rd EXCEPT ![r] = rd'[r]] /\ rd'[r] \in ReaderState /\ rd'[r].got <= rd'[r].size
  /\ rd'[r].st \in {"sized", "stream", "eof"} =>
       \E b \in Content : rd'[r].snap = Chunks(rd'[r].k, b, rd'[r].size)
  /\ rd'[r].st = "eof" => rd'[r].got = rd'[r].size

(* It keeps the invariant. *)
LEMMA ReaderMovesPreserve ==
  ASSUME IInv, NEW r \in Reader, ReaderMoves(r)
  PROVE  IInv'
<1>1. /\ blob_log' = blob_log /\ blob_chunks' = blob_chunks /\ up' = up /\ del' = del
      /\ \A q \in Reader \ {r} : rd'[q] = rd[q]
  BY DEF ReaderMoves, IInv, TypeOK
<1>2. TypeOK'
  BY <1>1 DEF IInv, TypeOK, ReaderMoves
<1>3. Snapshots'
  BY <1>1 DEF IInv, Snapshots, ReaderMoves
<1>4. /\ Counts' /\ Unseen' /\ Exclusive' /\ FirstChunks' /\ AllOfAKey' /\ LogCovered'
      /\ OnTarget' /\ WholeBlobs' /\ DeletedForGood'
  BY <1>1 DEF IInv, Counts, Unseen, Exclusive, FirstChunks, AllOfAKey, LogCovered,
              OnTarget, WholeBlobs, DeletedForGood
<1>5. Held'
  BY <1>1 DEF IInv, Held, HeldChunks, HeldLog
<1> QED BY <1>2, <1>3, <1>4, <1>5 DEF IInv

(* The steps of a download: its snapshot is the whole blob it found. *)
LEMMA ReaderSteps ==
  ASSUME IInv, NEW r \in Reader,
         \/ \E k \in Key : GetSize(r, k)
         \/ GetChunks(r) \/ ReadRow(r) \/ GetFail(r)
  PROVE  ReaderMoves(r)
<1> DEFINE s == rd[r]
<1>0. /\ s \in ReaderState /\ DOMAIN rd = Reader /\ s.got \in Nat /\ s.size \in Nat
      /\ s.got <= s.size /\ s.size <= MaxChunks /\ MaxChunks \in Nat
      /\ s.st \in {"sized", "stream", "eof"} => \E b \in Content : s.snap = Chunks(s.k, b, s.size)
      /\ s.st = "eof" => s.got = s.size
  BY StoreAssumption DEF IInv, TypeOK, ReaderState, Snapshots
<1>1. ASSUME NEW k \in Key, GetSize(r, k)
      PROVE  ReaderMoves(r)
  <2>1. CASE \E q \in blob_log : q.k = k
    <3> DEFINE snap == {c \in blob_chunks : c.k = k}
    <3>1. PICK q \in blob_log :
            /\ q.k = k
            /\ rd' = [rd EXCEPT ![r] = [st |-> "sized", k |-> k, size |-> q.n, got |-> 0, snap |-> snap]]
      BY <1>1, <2>1 DEF GetSize
    <3>2. q.n \in 0..MaxChunks /\ q.n \in Nat /\ 0 \in 0..MaxChunks /\ snap \subseteq ChunkRow
      BY <1>0 DEF IInv, TypeOK, LogRow
    <3>3. q.b \in Content /\ snap = Chunks(k, q.b, q.n)
      BY <3>1 DEF IInv, TypeOK, LogRow, WholeBlobs
    <3> HIDE DEF snap
    <3> DEFINE new == [st |-> "sized", k |-> k, size |-> q.n, got |-> 0, snap |-> snap]
    <3>4. new \in ReaderState
      BY <3>2 DEF ReaderState
    <3>5. new.st = "sized" /\ new.k = k /\ new.got = 0 /\ new.size = q.n /\ new.snap = snap
      OBVIOUS
    <3>6. rd' = [rd EXCEPT ![r] = new]
      BY <3>1
    <3> HIDE DEF new
    <3>7. rd' = [rd EXCEPT ![r] = rd'[r]] /\ rd'[r] = new
      BY <1>0, <3>6
    <3> QED BY <1>1, <3>2, <3>3, <3>4, <3>5, <3>7 DEF ReaderMoves, GetSize
  <2>2. CASE ~\E q \in blob_log : q.k = k
    <3> DEFINE new == [s EXCEPT !.st = "not_found", !.k = k]
    <3>1. rd' = [rd EXCEPT ![r] = new]
      BY <1>1, <2>2 DEF GetSize
    <3>2. new \in ReaderState /\ new.st = "not_found" /\ new.got = s.got /\ new.size = s.size
      BY <1>0 DEF ReaderState
    <3> HIDE DEF new
    <3>3. rd' = [rd EXCEPT ![r] = rd'[r]] /\ rd'[r] = new
      BY <1>0, <3>1
    <3> QED BY <1>0, <1>1, <3>2, <3>3 DEF ReaderMoves, GetSize
  <2> QED BY <2>1, <2>2
<1>2. CASE GetChunks(r)
  <2> DEFINE new == [s EXCEPT !.st = "stream"]
  <2>1. rd' = [rd EXCEPT ![r] = new] /\ s.st = "sized"
    BY <1>2 DEF GetChunks
  <2>2. /\ new \in ReaderState /\ new.st = "stream" /\ new.k = s.k
        /\ new.got = s.got /\ new.size = s.size /\ new.snap = s.snap
    BY <1>0 DEF ReaderState
  <2> HIDE DEF new
  <2>3. rd' = [rd EXCEPT ![r] = rd'[r]] /\ rd'[r] = new
    BY <1>0, <2>1
  <2> QED BY <1>0, <1>2, <2>1, <2>2, <2>3 DEF ReaderMoves, GetChunks
<1>3. CASE ReadRow(r)
  <2>0. s.st = "stream" /\ Cardinality(s.snap) = s.size /\ UNCHANGED <<blob_log, blob_chunks, up, del>>
    BY <1>0, <1>3, ChunkCount DEF ReadRow
  <2>1. CASE s.got < s.size
    <3> DEFINE new == [s EXCEPT !.got = s.got + 1]
    <3>1. rd' = [rd EXCEPT ![r] = new]
      BY <1>3, <2>0, <2>1 DEF ReadRow
    <3>2. s.got + 1 \in 0..MaxChunks
      BY <1>0, <2>1
    <3>3. /\ new \in ReaderState /\ new.st = s.st /\ new.k = s.k
          /\ new.got = s.got + 1 /\ new.size = s.size /\ new.snap = s.snap
      BY <1>0, <3>2 DEF ReaderState
    <3> HIDE DEF new
    <3>4. rd' = [rd EXCEPT ![r] = rd'[r]] /\ rd'[r] = new
      BY <1>0, <3>1
    <3> QED BY <1>0, <2>0, <2>1, <3>3, <3>4 DEF ReaderMoves
  <2>2. CASE s.got = s.size
    <3> DEFINE new == [s EXCEPT !.st = "eof"]
    <3>1. rd' = [rd EXCEPT ![r] = new]
      BY <1>0, <1>3, <2>0, <2>2 DEF ReadRow
    <3>2. /\ new \in ReaderState /\ new.st = "eof" /\ new.k = s.k
          /\ new.got = s.got /\ new.size = s.size /\ new.snap = s.snap
      BY <1>0 DEF ReaderState
    <3> HIDE DEF new
    <3>3. rd' = [rd EXCEPT ![r] = rd'[r]] /\ rd'[r] = new
      BY <1>0, <3>1
    <3> QED BY <1>0, <2>0, <2>2, <3>2, <3>3 DEF ReaderMoves
  <2> QED BY <1>0, <2>1, <2>2
<1>4. CASE GetFail(r)
  <2> DEFINE new == [s EXCEPT !.st = "internal"]
  <2>1. rd' = [rd EXCEPT ![r] = new]
    BY <1>4 DEF GetFail
  <2>2. new \in ReaderState /\ new.st = "internal" /\ new.got = s.got /\ new.size = s.size
    BY <1>0 DEF ReaderState
  <2> HIDE DEF new
  <2>3. rd' = [rd EXCEPT ![r] = rd'[r]] /\ rd'[r] = new
    BY <1>0, <2>1
  <2> QED BY <1>0, <1>4, <2>2, <2>3 DEF ReaderMoves, GetFail
<1> QED BY <1>1, <1>2, <1>3, <1>4

-------------------------------------------------------------------------------
(* Every step of every call keeps the invariant. *)
LEMMA NextIInv == IInv /\ [Next]_vars => IInv'
<1> SUFFICES ASSUME IInv, [Next]_vars PROVE IInv'
  OBVIOUS
<1>1. ASSUME NEW u \in Upload, (\E k \in Key : AppendBegin(u, k)) \/ UploadStep(u) \/ AppendFail(u)
      PROVE  IInv'
  BY <1>1, UploadSteps, UploadMovesPreserve, AppendCommitPreserves DEF UploadStep
<1>2. ASSUME NEW x \in Deleter,
             \/ \E t \in Stream : PruneCheck(x, t)
             \/ \E p \in Pseudonym : EraseBegin(x, p)
             \/ DeleterStep(x) \/ DeleteFail(x)
      PROVE  IInv'
  BY <1>2, DeleterSteps, DeleterMovesPreserve, DeleteCommitPreserves DEF DeleterStep
<1>3. ASSUME NEW r \in Reader, (\E k \in Key : GetSize(r, k)) \/ ReaderStep(r) \/ GetFail(r)
      PROVE  IInv'
  BY <1>3, ReaderSteps, ReaderMovesPreserve DEF ReaderStep
<1>4. CASE UNCHANGED vars
  BY <1>4 DEF vars, IInv, TypeOK, Counts, Unseen, Exclusive, FirstChunks, AllOfAKey, Held,
              HeldChunks, HeldLog, LogCovered, OnTarget, Snapshots, WholeBlobs, DeletedForGood
<1> QED BY <1>1, <1>2, <1>3, <1>4 DEF Next, Deleter

(* The inductive invariant holds throughout. *)
THEOREM Invariance == Spec => []IInv
BY InitIInv, NextIInv, PTL DEF Spec

(* The tables and the calls stay within their types. *)
THEOREM TypeCorrect == Spec => []TypeOK
<1>1. IInv => TypeOK
  BY DEF IInv
<1> QED BY Invariance, <1>1, PTL

(* Append and its transaction: what the log lists is there, whole, and of  *)
(* one upload, whatever ran at the same time.                              *)
THEOREM ListedBlobsAreWhole == Spec => []WholeBlobs
<1>1. IInv => WholeBlobs
  BY DEF IInv
<1> QED BY Invariance, <1>1, PTL

(* The primary keys: who has inserted the first chunk of a key meets no    *)
(* conflict later.                                                         *)
THEOREM FirstChunkDecides == Spec => []ConflictsAreEarly
<1>1. ASSUME IInv PROVE ConflictsAreEarly
  <2> SUFFICES ASSUME NEW u \in Upload
               PROVE  /\ up[u].n > 0 => \A i \in 0..MaxChunks : /\ ~ChunkHeld(u, up[u].k, i)
                                                               /\ \A c \in blob_chunks : c.k # up[u].k
                      /\ up[u].st = "log" => /\ ~LogHeld(u, up[u].k)
                                             /\ \A r \in blob_log : r.k # up[u].k
    BY DEF ConflictsAreEarly
  <2>1. ASSUME up[u].n > 0, NEW i \in 0..MaxChunks PROVE ~ChunkHeld(u, up[u].k, i)
    <3>1. ASSUME NEW v \in Upload \ {u}, up[v].k = up[u].k PROVE ~(i < up[v].n)
      <4>1. ~(up[v].n > 0) /\ up[v].n \in Nat
        BY <1>1, <2>1, <3>1, UploadFacts
      <4> QED BY <4>1
    <3>2. \A x \in Deleter : \A c \in HeldChunks(x) : c.k # up[u].k
      BY <1>1, <2>1, KeyIsFree DEF IInv, Held
    <3> QED BY <3>1, <3>2 DEF ChunkHeld
  <2>2. ASSUME up[u].st = "log" PROVE up[u].n > 0
    BY <1>1, <2>2, UploadFacts
  <2>3. ASSUME up[u].st = "log" PROVE ~LogHeld(u, up[u].k)
    <3>1. \A v \in Upload \ {u} : up[v].k = up[u].k => up[v].st # "commit"
      BY <1>1, <2>2, <2>3, UploadFacts
    <3>2. \A x \in Deleter : \A r \in HeldLog(x) : r.k # up[u].k
      BY <1>1, <2>2, <2>3, KeyIsFree DEF IInv, Held
    <3> QED BY <3>1, <3>2 DEF LogHeld
  <2> QED BY <1>1, <2>1, <2>2, <2>3, KeyIsFree
<1> QED BY Invariance, <1>1, PTL

(* DeleteGeneration and DeleteAccount: what was there before the call is   *)
(* gone when it is answered, and stays gone.                               *)
THEOREM DeletesAreForGood == Spec => []DeletedForGood
<1>1. IInv => DeletedForGood
  BY DEF IInv
<1> QED BY Invariance, <1>1, PTL

(* Get: the bytes streamed are as many as were promised, and of one blob. *)
THEOREM DownloadsAreComplete == Spec => []ServesPromisedBytes
<1>1. IInv => ServesPromisedBytes
  BY DEF IInv, Snapshots, ServesPromisedBytes
<1> QED BY Invariance, <1>1, PTL

-------------------------------------------------------------------------------
(* Streams without holes *)

(* The sequence numbers that a stream holds. *)
Numbers(t) == {r.k.s : r \in {q \in blob_log : StreamOf(q.k) = t}}

(* The append has passed its head check and has not ended. *)
Streaming(u) == up[u].st \notin Outcome \cup {"new"}

(* A stream has no hole, and no append under way can make one: each was    *)
(* for the number after the head when it began, and the head only grew.    *)
Intact(t) ==
  \E n \in Nat :
    /\ Numbers(t) = 1..n
    /\ \A u \in Upload : Streaming(u) /\ StreamOf(up[u].k) = t => up[u].k.s <= n + 1

(* The head of such a stream is its last number. *)
LEMMA HeadOfIntact ==
  ASSUME NEW t, Intact(t)
  PROVE  /\ HeadSeq(t) \in Nat /\ Numbers(t) = 1..HeadSeq(t)
         /\ \A u \in Upload : Streaming(u) /\ StreamOf(up[u].k) = t => up[u].k.s <= HeadSeq(t) + 1
<1>1. PICK n \in Nat :
        /\ Numbers(t) = 1..n
        /\ \A u \in Upload : Streaming(u) /\ StreamOf(up[u].k) = t => up[u].k.s <= n + 1
  BY DEF Intact
<1>2. HeadSeq(t) = n
  BY <1>1, MaxOfInterval DEF HeadSeq, Numbers
<1> QED BY <1>1, <1>2

(* An append under way was under way for the same key before the step, or  *)
(* has just passed its head check.                                         *)
LEMMA StreamingBefore ==
  ASSUME IInv, [Next]_vars, NEW v \in Upload, Streaming(v)'
  PROVE  \/ Streaming(v) /\ up'[v].k = up[v].k
         \/ up'[v].k.s = HeadSeq(StreamOf(up'[v].k)) + 1
<1> DEFINE Goal == \/ Streaming(v) /\ up'[v].k = up[v].k
                   \/ up'[v].k.s = HeadSeq(StreamOf(up'[v].k)) + 1
<1> USE UploadFacts
<1>1. CASE up' = up
  BY <1>1 DEF Streaming
<1>2. ASSUME NEW u \in Upload, \E k \in Key : AppendBegin(u, k) PROVE Goal
  BY <1>2 DEF AppendBegin, Streaming, Outcome
<1>3. ASSUME NEW u \in Upload, NEW o \in Outcome, up' = Ended(u, o) PROVE Goal
  BY <1>3 DEF Ended, Streaming
<1>4. ASSUME NEW u \in Upload, ReadChunk(u) PROVE Goal
  BY <1>4 DEF ReadChunk, Streaming, Outcome, UploadState
<1>5. ASSUME NEW u \in Upload, ReadEnd(u) PROVE Goal
  BY <1>3, <1>5 DEF ReadEnd, Streaming, Outcome, UploadState
<1>6. ASSUME NEW u \in Upload, InsertChunk(u) PROVE Goal
  BY <1>3, <1>6 DEF InsertChunk, Streaming, Outcome, UploadState
<1>7. ASSUME NEW u \in Upload, InsertLog(u) PROVE Goal
  BY <1>3, <1>7 DEF InsertLog, Streaming, Outcome, UploadState
<1>8. ASSUME NEW u \in Upload, AppendCommit(u) \/ AppendFail(u) PROVE Goal
  BY <1>3, <1>8 DEF AppendCommit, AppendFail, Outcome
<1>9. ASSUME NEW x \in Deleter, DeleterStep(x) \/ DeleteFail(x) PROVE up' = up
  BY <1>9 DEF DeleterStep, DeleteFail, DeleteChunksStart, DeleteChunks, DeleteLogStart, DeleteLog, DeleteCommit
<1>10. ASSUME NEW x \in Deleter, (\E t \in Stream : PruneCheck(x, t)) \/ (\E p \in Pseudonym : EraseBegin(x, p))
       PROVE  up' = up
  BY <1>10 DEF PruneCheck, EraseBegin
<1>11. ASSUME NEW r \in Reader, (\E k \in Key : GetSize(r, k)) \/ ReaderStep(r) \/ GetFail(r)
       PROVE  up' = up
  BY <1>11 DEF GetSize, ReaderStep, GetChunks, ReadRow, GetFail
<1> QED BY <1>1, <1>2, <1>4, <1>5, <1>6, <1>7, <1>8, <1>9, <1>10, <1>11 DEF Next, vars, UploadStep, Deleter

(* Only the two COMMITs change the log. *)
LEMMA LogChanges ==
  ASSUME [Next]_vars
  PROVE  \/ blob_log' = blob_log /\ blob_chunks' = blob_chunks
         \/ \E u \in Upload : AppendCommit(u)
         \/ \E x \in Deleter : DeleteCommit(x)
<1>1. ASSUME NEW u \in Upload, (\E k \in Key : AppendBegin(u, k)) \/ UploadStep(u) \/ AppendFail(u)
      PROVE  (blob_log' = blob_log /\ blob_chunks' = blob_chunks) \/ AppendCommit(u)
  BY <1>1 DEF AppendBegin, UploadStep, ReadChunk, ReadEnd, InsertChunk, InsertLog, AppendFail
<1>2. ASSUME NEW x \in Deleter,
             \/ \E t \in Stream : PruneCheck(x, t)
             \/ \E p \in Pseudonym : EraseBegin(x, p)
             \/ DeleterStep(x) \/ DeleteFail(x)
      PROVE  (blob_log' = blob_log /\ blob_chunks' = blob_chunks) \/ DeleteCommit(x)
  BY <1>2 DEF PruneCheck, EraseBegin, DeleterStep, DeleteFail, DeleteChunksStart, DeleteChunks,
              DeleteLogStart, DeleteLog
<1>3. ASSUME NEW r \in Reader, (\E k \in Key : GetSize(r, k)) \/ ReaderStep(r) \/ GetFail(r)
      PROVE  blob_log' = blob_log /\ blob_chunks' = blob_chunks
  BY <1>3 DEF GetSize, ReaderStep, GetChunks, ReadRow, GetFail
<1> QED BY <1>1, <1>2, <1>3 DEF Next, vars, Deleter

(* The row that an upload commits is for the number after the head. *)
LEMMA CommitsAtHead ==
  ASSUME IInv, NEW u \in Upload, AppendCommit(u), Intact(StreamOf(up[u].k))
  PROVE  /\ up[u].k \in Key /\ StreamOf(up[u].k) \in Stream
         /\ up[u].k.s = HeadSeq(StreamOf(up[u].k)) + 1
<1> DEFINE k == up[u].k
           n == HeadSeq(StreamOf(k))
<1>1. k \in Key /\ up[u].n > 0 /\ Streaming(u)
  BY UploadFacts DEF AppendCommit, Streaming, Outcome
<1>2. k.s \in Nat /\ k.s >= 1 /\ StreamOf(k) \in Stream
  BY <1>1, BoundsAssumption, StreamOfKey DEF Key, SeqNo
<1>3. n \in Nat /\ Numbers(StreamOf(k)) = 1..n /\ k.s <= n + 1
  BY <1>1, HeadOfIntact
<1>4. k.s \notin Numbers(StreamOf(k))
  <2>1. \A r \in blob_log : r.k # k
    BY <1>1, KeyIsFree
  <2>2. ASSUME NEW r \in blob_log, StreamOf(r.k) = StreamOf(k), r.k.s = k.s PROVE r.k = k
    <3>1. r.k \in Key
      BY DEF IInv, TypeOK, LogRow
    <3> QED BY <1>1, <2>2, <3>1 DEF Key, StreamOf
  <2> QED BY <2>1, <2>2 DEF Numbers
<1> QED BY <1>1, <1>2, <1>3, <1>4

(* A step that takes nothing from a stream leaves it without a hole. *)
LEMMA IntactStep ==
  ASSUME IInv, [Next]_vars, NEW t \in Stream, Intact(t),
         \A r \in blob_log : StreamOf(r.k) = t => r \in blob_log'
  PROVE  Intact(t)'
<1> DEFINE n == HeadSeq(t)
<1>1. /\ n \in Nat /\ Numbers(t) = 1..n
      /\ \A u \in Upload : Streaming(u) /\ StreamOf(up[u].k) = t => up[u].k.s <= n + 1
  BY HeadOfIntact
<1>2. \A u \in Upload : Streaming(u)' /\ StreamOf(up'[u].k) = t => up'[u].k.s <= n + 1
  BY <1>1, StreamingBefore
<1> HIDE DEF n
<1>3. ASSUME Numbers(t)' = Numbers(t) PROVE Intact(t)'
  BY <1>1, <1>2, <1>3 DEF Intact
<1>4. CASE blob_log' = blob_log
  BY <1>3, <1>4 DEF Numbers
<1>5. ASSUME NEW u \in Upload, AppendCommit(u) PROVE Intact(t)'
  <2> DEFINE k == up[u].k
  <2>1. blob_log' = blob_log \cup {[k |-> k, b |-> u, n |-> up[u].n]}
    BY <1>5 DEF AppendCommit
  <2>2. CASE StreamOf(k) # t
    BY <1>3, <2>1, <2>2 DEF Numbers
  <2>3. CASE StreamOf(k) = t
    <3>1. k.s = n + 1
      BY <1>5, <2>3, CommitsAtHead DEF n
    <3>2. Numbers(t)' = Numbers(t) \cup {k.s}
      <4> DEFINE row == [k |-> k, b |-> u, n |-> up[u].n]
      <4>1. row.k = k /\ blob_log' = blob_log \cup {row}
        BY <2>1
      <4> HIDE DEF row
      <4>2. {q \in blob_log' : StreamOf(q.k) = t} = {q \in blob_log : StreamOf(q.k) = t} \cup {row}
        BY <2>3, <4>1
      <4> QED BY <4>1, <4>2 DEF Numbers
    <3>3. (1..n) \cup {n + 1} = 1..(n + 1)
      BY <1>1
    <3>4. Numbers(t)' = 1..(n + 1) /\ n + 1 \in Nat
      BY <1>1, <3>1, <3>2, <3>3
    <3>5. \A v \in Upload : Streaming(v)' /\ StreamOf(up'[v].k) = t => up'[v].k.s <= (n + 1) + 1
      <4>1. \A v \in Upload : Streaming(v)' => up'[v].k \in Key
        BY NextIInv DEF IInv, Counts, Streaming
      <4>2. \A v \in Upload : Streaming(v)' => up'[v].k.s \in Int
        BY <4>1, BoundsAssumption DEF Key, SeqNo
      <4> QED BY <1>1, <1>2, <4>2
    <3> QED BY <3>4, <3>5 DEF Intact
  <2> QED BY <2>2, <2>3
<1>6. ASSUME NEW x \in Deleter, DeleteCommit(x) PROVE Intact(t)'
  <2>1. blob_log' \subseteq blob_log
    BY <1>6 DEF DeleteCommit
  <2>2. Numbers(t)' = Numbers(t)
    BY <2>1 DEF Numbers
  <2> QED BY <1>3, <2>2
<1> QED BY <1>4, <1>5, <1>6, LogChanges

-------------------------------------------------------------------------------
(* A device that nobody deletes from *)

(* No stream has a hole from the start. *)
SeedGapless == \A t \in Stream : \E n \in Nat : {k.s : k \in {q \in Seed : StreamOf(q) = t}} = 1..n

(* The log lists the seeded keys at the start. *)
LEMMA SeedIsListed ==
  ASSUME Init
  PROVE  /\ \A r \in blob_log : r.k \in Seed
         /\ \A k \in Seed : \E r \in blob_log : r.k = k
<1>1. \A r \in blob_log : r.k \in Seed
  BY DEF Init
<1>2. ASSUME NEW k \in Seed PROVE \E r \in blob_log : r.k = k
  <2> DEFINE row == [k |-> k, b |-> "seed", n |-> 1]
  <2>1. row \in blob_log /\ row.k = k
    BY DEF Init
  <2> QED BY <2>1
<1> QED BY <1>1, <1>2

(* At the start nothing is under way, and the numbers are those seeded. *)
LEMMA InitIntact ==
  ASSUME Init, SeedGapless, NEW t \in Stream
  PROVE  Intact(t)
<1>1. \A u \in Upload : ~Streaming(u)
  BY DEF Init, Streaming
<1>2. Numbers(t) = {k.s : k \in {q \in Seed : StreamOf(q) = t}}
  <2>1. {r.k : r \in {q \in blob_log : StreamOf(q.k) = t}} = {q \in Seed : StreamOf(q) = t}
    BY SeedIsListed
  <2> QED BY <2>1 DEF Numbers
<1> QED BY <1>1, <1>2 DEF SeedGapless, Intact

(* Without deletes, a log row is never lost. *)
LEMMA AppendOnlyLog ==
  ASSUME Deleter = {}, [Next]_vars
  PROVE  blob_log \subseteq blob_log'
BY LogChanges DEF AppendCommit

(* Without deletes, the chunks and the log row of a blob come together. *)
LEMMA InitNoOrphans == Init => NoOrphanChunks
<1> SUFFICES ASSUME Init PROVE NoOrphanChunks
  OBVIOUS
<1>1. \A c \in blob_chunks : c.k \in Seed
  BY OneChunk DEF Init
<1> QED BY <1>1, SeedIsListed DEF NoOrphanChunks

(* ... and stay together. *)
LEMMA NextNoOrphans ==
  ASSUME Deleter = {}, NoOrphanChunks, [Next]_vars
  PROVE  NoOrphanChunks'
<1>1. CASE blob_log' = blob_log /\ blob_chunks' = blob_chunks
  BY <1>1 DEF NoOrphanChunks
<1>2. ASSUME NEW u \in Upload, AppendCommit(u) PROVE NoOrphanChunks'
  <2> DEFINE row == [k |-> up[u].k, b |-> u, n |-> up[u].n]
  <2>1. row.k = up[u].k /\ blob_log' = blob_log \cup {row}
    BY <1>2 DEF AppendCommit
  <2>2. /\ blob_chunks' = blob_chunks \cup Chunks(up[u].k, u, up[u].n)
        /\ \A c \in Chunks(up[u].k, u, up[u].n) : c.k = up[u].k
    BY <1>2 DEF AppendCommit, Chunks
  <2> HIDE DEF row
  <2> QED BY <2>1, <2>2 DEF NoOrphanChunks
<1> QED BY <1>1, <1>2, LogChanges

(* Appends, their failures and their races leave no chunk without its log  *)
(* row, so what a conflict answers for is listed.                          *)
THEOREM AppendsLeaveNoOrphans ==
  ASSUME Deleter = {}
  PROVE  Spec => []NoOrphanChunks
<1>1. NoOrphanChunks /\ [Next]_vars => NoOrphanChunks'
  BY NextNoOrphans
<1> QED BY <1>1, InitNoOrphans, PTL DEF Spec

-------------------------------------------------------------------------------
(* Appends implement the interface. *)

(* The primary key of blob_log. *)
OneRowPerKey == \A q, r \in blob_log : q.k = r.k => q = r

(* What holds while nobody deletes: nothing is lost, so every stream is    *)
(* without a hole, and a chunk that is in the way belongs to a listed blob. *)
AppendInv ==
  IInv /\ OneRowPerKey /\ NoOrphanChunks /\ \A t \in Stream : Intact(t)

(* The refinement mapping: the log, open append and answer of each. *)
Logs == [t \in Stream |-> [i \in 1..HeadSeq(t) |-> BlobAt(t, i)]]
Pending == [u \in Upload |-> IF up[u].st \in Outcome THEN NoKey ELSE up[u].k]
Reply == [u \in Upload |-> IF up[u].st \in Outcome THEN up[u].st ELSE "none"]

(* The primary key holds: two rows of a key would be two blobs with the    *)
(* same chunks, so with the same bytes and the same size.                  *)
LEMMA KeysAreUnique == IInv => OneRowPerKey
<1> SUFFICES ASSUME IInv, NEW q \in blob_log, NEW r \in blob_log, q.k = r.k PROVE q = r
  BY DEF OneRowPerKey
<1>1. q \in LogRow /\ r \in LogRow /\ q.n \in Nat \ {0} /\ r.n \in Nat \ {0}
  BY StoreAssumption DEF IInv, TypeOK, LogRow
<1>2. Chunks(q.k, q.b, q.n) = Chunks(q.k, r.b, r.n)
  BY DEF IInv, WholeBlobs
<1>3. ASSUME NEW b, NEW c, NEW m \in Nat \ {0}, NEW n \in Nat \ {0},
             Chunks(q.k, b, m) = Chunks(q.k, c, n)
      PROVE  b = c /\ m <= n
  <2> DEFINE last == [k |-> q.k, i |-> m - 1, b |-> b]
  <2>1. last \in Chunks(q.k, b, m)
    BY DEF Chunks
  <2>2. PICK i \in 0..n - 1 : last = [k |-> q.k, i |-> i, b |-> c]
    BY <1>3, <2>1 DEF Chunks
  <2>3. last.b = b /\ last.b = c /\ last.i = m - 1 /\ last.i = i
    BY <2>2
  <2> HIDE DEF last
  <2> QED BY <2>3
<1>4. q.b = r.b /\ q.n = r.n
  BY <1>1, <1>2, <1>3
<1> QED BY <1>1, <1>4 DEF LogRow

(* The row at a number of a stream is the one its blob is read from. *)
BlobFacts ==
  /\ \A r \in blob_log : BlobAt(StreamOf(r.k), r.k.s) = r.b
  /\ \A t \in Stream : /\ HeadSeq(t) \in Nat
                       /\ \A i \in 1..HeadSeq(t) : \E r \in blob_log : StreamOf(r.k) = t /\ r.k.s = i

(* With one stored row per key, the read of a key (BlobAt) finds exactly  *)
(* the bytes that were committed there, and there is a row for every       *)
(* position up to the head of a log.                                       *)
LEMMA BlobsAreRead == AppendInv => BlobFacts
<1> SUFFICES ASSUME AppendInv PROVE BlobFacts
  OBVIOUS
<1>1. ASSUME NEW r \in blob_log PROVE BlobAt(StreamOf(r.k), r.k.s) = r.b
  <2> DEFINE P(q) == StreamOf(q.k) = StreamOf(r.k) /\ q.k.s = r.k.s
  <2>1. \A q \in blob_log : P(q) => q = r
    <3> SUFFICES ASSUME NEW q \in blob_log, P(q) PROVE q = r
      OBVIOUS
    <3>1. q.k \in Key /\ r.k \in Key
      BY DEF AppendInv, IInv, TypeOK, LogRow
    <3>2. q.k = r.k
      BY <3>1 DEF Key, StreamOf
    <3> QED BY <3>2 DEF AppendInv, OneRowPerKey
  <2>2. P(r)
    OBVIOUS
  <2> HIDE DEF P
  <2>3. (CHOOSE q \in blob_log : P(q)) = r
    BY <2>1, <2>2
  <2> QED BY <2>3 DEF BlobAt, P
<1>2. ASSUME NEW t \in Stream
      PROVE  /\ HeadSeq(t) \in Nat
             /\ \A i \in 1..HeadSeq(t) : \E r \in blob_log : StreamOf(r.k) = t /\ r.k.s = i
  <2>1. HeadSeq(t) \in Nat /\ Numbers(t) = 1..HeadSeq(t)
    BY HeadOfIntact DEF AppendInv
  <2> QED BY <2>1 DEF Numbers
<1> QED BY <1>1, <1>2 DEF BlobFacts

(* The same of the next state. *)
LEMMA NextBlobsAreRead == AppendInv' => BlobFacts'
BY BlobsAreRead, PTL

(* A call without a key is none: NoKey is no key. *)
LEMMA NoKeyIsNoKey == NoKey \notin Key
<1> SUFFICES ASSUME NEW k \in Key PROVE k # NoKey
  OBVIOUS
<1>1. "d" \in DOMAIN k
  BY DEF Key
<1>2. "d" \notin DOMAIN NoKey
  BY DEF NoKey
<1> QED BY <1>1, <1>2

(* Both modules address blobs alike. *)
LEMMA SameAddresses ==
  /\ Abs!Key = Key
  /\ Abs!Stream = Stream
  /\ Abs!NoKey = NoKey
  /\ \A k : Abs!StreamOf(k) = StreamOf(k)
BY DEF Abs!Key, Key, Abs!Stream, Stream, Abs!NoKey, NoKey, Abs!StreamOf, StreamOf,
       Abs!Generation, Generation, Abs!SeqNo, SeqNo

(* A log is a sequence of bytes as long as its stream. *)
LogFacts ==
  \A t \in Stream : /\ Logs[t] = [i \in 1..HeadSeq(t) |-> BlobAt(t, i)]
                   /\ Logs[t] \in Seq(Content) /\ Len(Logs[t]) = HeadSeq(t)

(* The refinement mapping yields, for every stream, the sequence of the    *)
(* contents stored at positions 1 to the head.                             *)
LEMMA LogsAreSequences == AppendInv => LogFacts
<1> SUFFICES ASSUME AppendInv, NEW t \in Stream
             PROVE  /\ Logs[t] = [i \in 1..HeadSeq(t) |-> BlobAt(t, i)]
                    /\ Logs[t] \in Seq(Content) /\ Len(Logs[t]) = HeadSeq(t)
  BY DEF LogFacts
<1>1. HeadSeq(t) \in Nat
  BY BlobsAreRead DEF BlobFacts
<1>2. \A i \in 1..HeadSeq(t) : BlobAt(t, i) \in Content
  <2> SUFFICES ASSUME NEW i \in 1..HeadSeq(t) PROVE BlobAt(t, i) \in Content
    OBVIOUS
  <2>1. PICK r \in blob_log : StreamOf(r.k) = t /\ r.k.s = i
    BY BlobsAreRead DEF BlobFacts
  <2>2. BlobAt(t, i) = r.b
    BY <2>1, BlobsAreRead DEF BlobFacts
  <2>3. r.b \in Content
    BY DEF AppendInv, IInv, TypeOK, LogRow
  <2> QED BY <2>2, <2>3
<1>3. Logs[t] = [i \in 1..HeadSeq(t) |-> BlobAt(t, i)]
  BY DEF Logs
<1> QED BY <1>1, <1>2, <1>3

(* The same of the next state. *)
LEMMA NextLogsAreSequences == AppendInv' => LogFacts'
BY LogsAreSequences, PTL

(* Where the log is not touched, no stream is. *)
LEMMA SameLogs ==
  ASSUME blob_log' = blob_log
  PROVE  Logs' = Logs
BY DEF Logs, HeadSeq, BlobAt

(* The interface compares a key with its log as the store does. *)
LEMMA NextKey ==
  ASSUME AppendInv, NEW k \in Key
  PROVE  /\ Abs!IsNext(k) <=> k.s = HeadSeq(StreamOf(k)) + 1
         /\ (\E r \in blob_log : r.k = k) => ~Abs!IsNext(k)
<1>1. StreamOf(k) \in Stream
  BY StreamOfKey
<1>2. Len(Logs[StreamOf(k)]) = HeadSeq(StreamOf(k)) /\ HeadSeq(StreamOf(k)) \in Nat
  BY <1>1, LogsAreSequences, BlobsAreRead DEF LogFacts, BlobFacts
<1>3. Abs!IsNext(k) <=> k.s = HeadSeq(StreamOf(k)) + 1
  BY <1>2 DEF Abs!IsNext, Abs!StreamOf, StreamOf, Logs
<1>4. ASSUME NEW r \in blob_log, r.k = k PROVE k.s # HeadSeq(StreamOf(k)) + 1
  <2>1. k.s \in Numbers(StreamOf(k))
    BY <1>4 DEF Numbers
  <2>2. Numbers(StreamOf(k)) = 1..HeadSeq(StreamOf(k))
    BY <1>1, HeadOfIntact DEF AppendInv
  <2> QED BY <1>2, <2>1, <2>2
<1> QED BY <1>3, <1>4

(* A call that ends answers as the interface does. *)
LEMMA EndedReturns ==
  ASSUME IInv, NEW u \in Upload, NEW o \in Outcome, up' = Ended(u, o)
  PROVE  Abs!Return(u, o)
<1>1. up'[u].st = o /\ \A v \in Upload \ {u} : up'[v] = up[v]
  BY UploadFacts DEF Ended, UploadState
<1>2. Pending' = [Pending EXCEPT ![u] = NoKey] /\ Reply' = [Reply EXCEPT ![u] = o]
  BY <1>1 DEF Pending, Reply
<1> QED BY <1>2, SameAddresses DEF Abs!Return, Pending, Reply

(* A call that goes on is open as before. *)
LEMMA StaysOpen ==
  ASSUME NEW u \in Upload, \A v \in Upload \ {u} : up'[v] = up[v],
         up[u].st \notin Outcome, up'[u].st \notin Outcome, up'[u].k = up[u].k
  PROVE  Pending' = Pending /\ Reply' = Reply
BY DEF Pending, Reply

(* A commit puts one blob behind the last of its stream. *)
LEMMA CommitExtends ==
  ASSUME AppendInv, AppendInv', NEW u \in Upload, AppendCommit(u)
  PROVE  Abs!IsNext(up[u].k) /\ Abs!Extend(up[u].k, u)
<1>a. PICK k \in Key : k = up[u].k
  BY UploadFacts DEF AppendCommit, AppendInv
<1> DEFINE t0 == StreamOf(k)
<1>b. t0 \in Stream
  BY StreamOfKey
<1>c. PICK n \in Nat : n = HeadSeq(t0)
  BY <1>b, BlobsAreRead DEF BlobFacts
<1>0. t0 \in Stream /\ k.s = n + 1
  BY <1>a, <1>b, <1>c, CommitsAtHead DEF AppendInv
<1> DEFINE row == [k |-> k, b |-> u, n |-> up[u].n]
<1>1. blob_log' = blob_log \cup {row} /\ row.k = k /\ row.b = u
  BY <1>a DEF AppendCommit
<1>2. n \in Nat
  OBVIOUS
<1> HIDE DEF row
<1>3. HeadSeq(t0)' = n + 1
  <2>1. {q \in blob_log' : StreamOf(q.k) = t0} = {q \in blob_log : StreamOf(q.k) = t0} \cup {row}
    BY <1>1
  <2>2. Numbers(t0)' = Numbers(t0) \cup {n + 1}
    BY <1>0, <1>1, <2>1 DEF Numbers
  <2>3. Numbers(t0) = 1..n
    BY <1>0, <1>c, HeadOfIntact DEF AppendInv
  <2>4. (1..n) \cup {n + 1} = 1..(n + 1)
    BY <1>2
  <2>5. Numbers(t0)' = 1..(n + 1) /\ n + 1 \in Nat
    BY <1>2, <2>2, <2>3, <2>4
  <2> QED BY <2>5, MaxOfInterval DEF HeadSeq, Numbers
<1>4. /\ \A r \in blob_log : BlobAt(StreamOf(r.k), r.k.s)' = r.b /\ BlobAt(StreamOf(r.k), r.k.s) = r.b
      /\ BlobAt(t0, n + 1)' = u
  <2>1. \A r \in blob_log' : BlobAt(StreamOf(r.k), r.k.s)' = r.b
    BY NextBlobsAreRead DEF BlobFacts
  <2>2. row \in blob_log' /\ StreamOf(row.k) = t0 /\ row.k.s = n + 1 /\ row.b = u
    BY <1>0, <1>1
  <2> QED BY <1>1, <2>1, <2>2, BlobsAreRead DEF BlobFacts
<1>5. \A t \in Stream : \A i \in 1..HeadSeq(t) : BlobAt(t, i)' = BlobAt(t, i)
  <2> SUFFICES ASSUME NEW t \in Stream, NEW i \in 1..HeadSeq(t) PROVE BlobAt(t, i)' = BlobAt(t, i)
    OBVIOUS
  <2>1. PICK r \in blob_log : StreamOf(r.k) = t /\ r.k.s = i
    BY BlobsAreRead DEF BlobFacts
  <2> QED BY <1>4, <2>1
<1>6. Logs'[t0] = Append(Logs[t0], u)
  <2>1. PICK s \in Seq(Content) : s = Logs[t0] /\ Len(s) = n /\ \A i \in 1..n : s[i] = BlobAt(t0, i)
    BY <1>0, <1>c, LogsAreSequences DEF LogFacts
  <2>2. PICK w \in Seq(Content) :
          w = Logs'[t0] /\ Len(w) = n + 1 /\ \A i \in 1..n + 1 : w[i] = BlobAt(t0, i)'
    BY <1>0, <1>3, NextLogsAreSequences DEF LogFacts
  <2>3. \A i \in 1..n : w[i] = s[i]
    <3>1. 1..n \subseteq 1..n + 1
      BY <1>2
    <3> QED BY <1>0, <1>c, <1>5, <2>1, <2>2, <3>1
  <2>4. w[n + 1] = u
    <3>1. n + 1 \in 1..n + 1
      BY <1>2
    <3> QED BY <1>4, <2>2, <3>1
  <2>5. u \in Content
    BY DEF Content
  <2>6. w = Append(s, u)
    BY <1>2, <2>1, <2>2, <2>3, <2>4, <2>5, AppendIsExtension
  <2> QED BY <2>1, <2>2, <2>6
<1>7. ASSUME NEW t \in Stream \ {t0} PROVE Logs'[t] = Logs[t]
  <2>1. {q \in blob_log' : StreamOf(q.k) = t} = {q \in blob_log : StreamOf(q.k) = t}
    BY <1>1
  <2>2. HeadSeq(t)' = HeadSeq(t)
    BY <2>1 DEF HeadSeq
  <2> QED BY <1>5, <2>2 DEF Logs
<1>8. Logs' = [Logs EXCEPT ![t0] = Append(@, u)]
  BY <1>0, <1>6, <1>7 DEF Logs
<1>9. Abs!IsNext(k)
  BY <1>0, <1>c, NextKey
<1> QED BY <1>a, <1>8, <1>9, SameAddresses DEF Abs!Extend, Logs

(* At the start both are empty. *)
LEMMA InitRefines == Seed = {} /\ Init => Abs!Init
<1> SUFFICES ASSUME Seed = {}, Init PROVE Abs!Init
  OBVIOUS
<1>1. blob_log = {}
  BY DEF Init
<1>2. \A t \in Stream : HeadSeq(t) = 0
  BY <1>1, MaxOfNothing DEF HeadSeq
<1>3. \A t \in Stream : Logs[t] = <<>>
  BY <1>2 DEF Logs
<1>4. \A u \in Upload : up[u].st = "new" /\ up[u].k = NoKey
  BY DEF Init
<1>5. Logs = [t \in Stream |-> <<>>]
  BY <1>3 DEF Logs
<1>6. Pending = [u \in Upload |-> NoKey] /\ Reply = [u \in Upload |-> "none"]
  BY <1>4 DEF Pending, Reply, Outcome
<1> QED BY <1>5, <1>6, SameAddresses DEF Abs!Init, Logs, Pending, Reply

(* Every step of an append is the step of the interface with its answer,   *)
(* or changes nothing the interface shows.                                 *)
LEMMA NextRefines ==
  ASSUME AppendInv, AppendInv', Deleter = {}, [Next]_vars
  PROVE  [Abs!Next]_(Abs!vars)
<1> USE SameAddresses
<1>0. IInv
  BY DEF AppendInv
<1>1. ASSUME Logs' = Logs, Pending' = Pending, Reply' = Reply PROVE UNCHANGED Abs!vars
  BY <1>1 DEF Abs!vars, Logs, Pending, Reply
<1>2. ASSUME NEW u \in Upload, NEW k \in Key, AppendBegin(u, k)
      PROVE  Abs!AppendOpen(u, k) \/ Abs!AppendConflict(u, k)
  <2>1. /\ \A v \in Upload \ {u} : up'[v] = up[v]
        /\ up[u].st = "new" /\ up[u].k = NoKey /\ up'[u].k = k
        /\ up'[u].st = IF k.s = HeadSeq(StreamOf(k)) + 1 THEN "read" ELSE "conflict"
    BY <1>0, <1>2, UploadFacts DEF AppendBegin
  <2>2. Logs' = Logs
    BY <1>2, SameLogs DEF AppendBegin
  <2>3. Abs!Idle(u)
    BY <2>1 DEF Abs!Idle, Outcome
  <2>4. CASE k.s = HeadSeq(StreamOf(k)) + 1
    <3>1. Pending' = [Pending EXCEPT ![u] = k] /\ Reply' = [Reply EXCEPT ![u] = "none"]
      BY <2>1, <2>4 DEF Pending, Reply, Outcome
    <3> QED BY <2>2, <2>3, <3>1 DEF Abs!AppendOpen, Logs, Pending, Reply
  <2>5. CASE k.s # HeadSeq(StreamOf(k)) + 1
    <3>1. Pending' = [Pending EXCEPT ![u] = NoKey] /\ Reply' = [Reply EXCEPT ![u] = "conflict"]
      BY <2>1, <2>5 DEF Pending, Reply, Outcome
    <3>2. ~Abs!IsNext(k)
      BY <2>5, NextKey
    <3> QED BY <2>2, <2>3, <3>1, <3>2 DEF Abs!AppendConflict, Abs!Return, Logs, Pending, Reply
  <2> QED BY <2>4, <2>5
<1>3. ASSUME NEW u \in Upload, up' = Ended(u, "conflict"), blob_log' = blob_log, Streaming(u),
             \E r \in blob_log : r.k = up[u].k
      PROVE  Abs!AppendConflict(u, up[u].k) /\ up[u].k \in Key
  <2>1. up[u].k \in Key
    BY <1>0, <1>3, UploadFacts DEF Streaming
  <2>2. ~Abs!IsNext(up[u].k)
    BY <1>3, <2>1, NextKey
  <2>3. Pending[u] = up[u].k
    BY <1>3 DEF Pending, Streaming
  <2>4. Abs!Return(u, "conflict") /\ Logs' = Logs
    BY <1>0, <1>3, EndedReturns, SameLogs DEF Outcome
  <2> QED BY <2>1, <2>2, <2>3, <2>4 DEF Abs!AppendConflict, Logs, Pending
<1>4. ASSUME NEW u \in Upload, NEW o \in {"empty", "body_error", "internal"}, up' = Ended(u, o),
             blob_log' = blob_log
      PROVE  Abs!AppendRefused(u)
  <2>1. Abs!Return(u, o) /\ Logs' = Logs
    BY <1>0, <1>4, EndedReturns, SameLogs DEF Outcome
  <2> QED BY <2>1 DEF Abs!AppendRefused, Logs
<1>5. ASSUME NEW u \in Upload, blob_log' = blob_log, \A v \in Upload \ {u} : up'[v] = up[v],
             Streaming(u), up'[u].st \notin Outcome, up'[u].k = up[u].k
      PROVE  UNCHANGED Abs!vars
  <2>1. Pending' = Pending /\ Reply' = Reply
    BY <1>5, StaysOpen DEF Streaming
  <2> QED BY <1>1, <1>5, <2>1, SameLogs
<1>6. ASSUME NEW u \in Upload, ReadChunk(u)
      PROVE  UNCHANGED Abs!vars
  <2>1. /\ blob_log' = blob_log /\ \A v \in Upload \ {u} : up'[v] = up[v]
        /\ Streaming(u) /\ up'[u].st \notin Outcome /\ up'[u].k = up[u].k
    BY <1>0, <1>6, UploadFacts DEF ReadChunk, Streaming, Outcome, UploadState
  <2> QED BY <1>5, <2>1
<1>7. ASSUME NEW u \in Upload, ReadEnd(u)
      PROVE  Abs!AppendRefused(u) \/ UNCHANGED Abs!vars
  <2>1. CASE \E o \in {"empty", "body_error"} : up' = Ended(u, o)
    BY <1>4, <1>7, <2>1 DEF ReadEnd
  <2>2. CASE up' = [up EXCEPT ![u].st = "log"]
    <3>1. /\ blob_log' = blob_log /\ \A v \in Upload \ {u} : up'[v] = up[v]
          /\ Streaming(u) /\ up'[u].st \notin Outcome /\ up'[u].k = up[u].k
      BY <1>0, <1>7, <2>2, UploadFacts DEF ReadEnd, Streaming, Outcome, UploadState
    <3> QED BY <1>5, <3>1
  <2> QED BY <1>7, <2>1, <2>2 DEF ReadEnd
<1>8. ASSUME NEW u \in Upload, InsertChunk(u)
      PROVE  \/ Abs!AppendConflict(u, up[u].k) /\ up[u].k \in Key
             \/ Abs!AppendRefused(u) \/ UNCHANGED Abs!vars
  <2>0. Streaming(u) /\ blob_log' = blob_log
    BY <1>8 DEF InsertChunk, Streaming, Outcome
  <2>1. CASE up' = Ended(u, "conflict") /\ \E c \in blob_chunks : c.k = up[u].k
    BY <1>3, <2>0, <2>1 DEF AppendInv, NoOrphanChunks
  <2>2. CASE up' = Ended(u, "body_error")
    BY <1>4, <2>0, <2>2
  <2>3. CASE up' = [up EXCEPT ![u].st = IF @ = "insert_more" THEN "read" ELSE "log", ![u].n = up[u].n + 1]
    <3>1. /\ \A v \in Upload \ {u} : up'[v] = up[v]
          /\ up'[u].st \notin Outcome /\ up'[u].k = up[u].k
      BY <1>0, <2>3, UploadFacts DEF Outcome, UploadState
    <3> QED BY <1>5, <2>0, <3>1
  <2> QED BY <1>8, <2>1, <2>2, <2>3 DEF InsertChunk
<1>9. ASSUME NEW u \in Upload, InsertLog(u)
      PROVE  (Abs!AppendConflict(u, up[u].k) /\ up[u].k \in Key) \/ UNCHANGED Abs!vars
  <2>0. Streaming(u) /\ blob_log' = blob_log
    BY <1>9 DEF InsertLog, Streaming, Outcome
  <2>1. CASE up' = Ended(u, "conflict") /\ \E r \in blob_log : r.k = up[u].k
    BY <1>3, <2>0, <2>1
  <2>2. CASE up' = [up EXCEPT ![u].st = "commit"]
    <3>1. /\ \A v \in Upload \ {u} : up'[v] = up[v]
          /\ up'[u].st \notin Outcome /\ up'[u].k = up[u].k
      BY <1>0, <2>2, UploadFacts DEF Outcome, UploadState
    <3> QED BY <1>5, <2>0, <3>1
  <2> QED BY <1>9, <2>1, <2>2 DEF InsertLog
<1>10. ASSUME NEW u \in Upload, AppendCommit(u)
       PROVE  Abs!AppendStored(u, u) \/ Abs!AppendUnknown(u, u)
  <2>1. Abs!IsNext(up[u].k) /\ Abs!Extend(up[u].k, u)
    BY <1>10, CommitExtends
  <2>2. Pending[u] = up[u].k /\ up[u].k \in Key
    BY <1>0, <1>10, UploadFacts DEF Pending, AppendCommit, Outcome
  <2>3. Abs!Return(u, "stored") \/ Abs!Return(u, "internal")
    BY <1>0, <1>10, EndedReturns DEF AppendCommit, Outcome
  <2>4. ~Abs!Idle(u)
    BY <2>2, NoKeyIsNoKey DEF Abs!Idle, Pending
  <2> QED BY <2>1, <2>2, <2>3, <2>4 DEF Abs!AppendStored, Abs!AppendUnknown, Pending
<1>11. ASSUME NEW u \in Upload, AppendFail(u) PROVE Abs!AppendRefused(u)
  BY <1>4, <1>11 DEF AppendFail
<1>12. ASSUME UNCHANGED <<blob_log, up>> PROVE UNCHANGED Abs!vars
  BY <1>1, <1>12, SameLogs DEF Pending, Reply
<1>13. ASSUME NEW r \in Reader, (\E k \in Key : GetSize(r, k)) \/ ReaderStep(r) \/ GetFail(r)
       PROVE  UNCHANGED <<blob_log, up>>
  BY <1>13 DEF GetSize, ReaderStep, GetChunks, ReadRow, GetFail
<1>14. CASE UNCHANGED vars
  BY <1>12, <1>14 DEF vars
<1>15. CASE \E u \in Upload : (\E k \in Key : AppendBegin(u, k)) \/ UploadStep(u) \/ AppendFail(u)
  BY <1>2, <1>6, <1>7, <1>8, <1>9, <1>10, <1>11, <1>15 DEF UploadStep, Abs!Next
<1> QED BY <1>12, <1>13, <1>14, <1>15 DEF Next, Deleter

(* What the appends rely on holds throughout. *)
LEMMA AppendInvariance ==
  ASSUME Deleter = {}, SeedGapless
  PROVE  Spec => []AppendInv
<1>1. Init => AppendInv
  BY InitIInv, KeysAreUnique, InitNoOrphans, InitIntact DEF AppendInv
<1>2. AppendInv /\ [Next]_vars => AppendInv'
  <2>1. IInv' => OneRowPerKey'
    BY KeysAreUnique, PTL
  <2> QED BY <2>1, NextIInv, NextNoOrphans, IntactStep, AppendOnlyLog DEF AppendInv
<1> QED BY <1>1, <1>2, PTL DEF Spec

(* Append's head check and the primary keys: appends that race, fail and   *)
(* lose their connections leave every stream without a hole.               *)
THEOREM AppendsAreContiguous ==
  ASSUME Deleter = {}, SeedGapless
  PROVE  Spec => []Contiguous
<1>1. AppendInv => Contiguous
  BY HeadOfIntact DEF AppendInv, Contiguous, Numbers
<1>2. Spec => []AppendInv
  BY AppendInvariance
<1> QED BY <1>1, <1>2, PTL

(* Concurrent appends, with their rollbacks and lost answers, are          *)
(* linearizable to the interface's specification: each takes effect at its *)
(* COMMIT or not at all, and is answered accordingly.                      *)
THEOREM AppendsImplementBlobStore ==
  ASSUME Deleter = {}, Seed = {}
  PROVE  Spec => ImplementsBlobStore
<1>1. SeedGapless
  <2>1. 1..0 = {} /\ 0 \in Nat
    OBVIOUS
  <2>2. \A t \in Stream : {k.s : k \in {q \in Seed : StreamOf(q) = t}} = {}
    OBVIOUS
  <2> QED BY <2>1, <2>2 DEF SeedGapless
<1>2. Init => Abs!Init
  BY InitRefines
<1>3. AppendInv /\ AppendInv' /\ [Next]_vars => [Abs!Next]_(Abs!vars)
  BY NextRefines
<1>4. Spec => []AppendInv
  BY <1>1, AppendInvariance
<1> QED BY <1>2, <1>3, <1>4, PTL DEF Spec, ImplementsBlobStore, Abs!Spec

-------------------------------------------------------------------------------
(* The restore walk *)

(* Index returns the entries that follow on each other from the number     *)
(* asked for, each with the size of its row.                               *)
LEMMA IndexOfStream ==
  ASSUME AppendInv, NEW t \in Stream, NEW n \in Nat, n = HeadSeq(t),
         NEW from \in 1..n + 1, NEW limit \in Nat \ {0}
  PROVE  /\ DOMAIN Index(t, from, limit) =
              1..(IF limit <= n - from + 1 THEN limit ELSE n - from + 1)
         /\ \A i \in DOMAIN Index(t, from, limit) :
              /\ Index(t, from, limit)[i].seq = from + i - 1
              /\ Index(t, from, limit)[i].size > 0
<1> DEFINE S == {r.k.s : r \in {q \in RowsOf(t) : q.k.s >= from}}
           len == IF limit <= n - from + 1 THEN limit ELSE n - from + 1
           seqs == [i \in 1..len |-> from + i - 1]
<1>0. Numbers(t) = 1..n
  BY HeadOfIntact DEF AppendInv
<1>1. S = from..n
  <2>1. S = {s \in Numbers(t) : s >= from}
    BY DEF RowsOf, Numbers
  <2>2. {s \in 1..n : s >= from} = from..n
    OBVIOUS
  <2> QED BY <1>0, <2>1, <2>2
<1>2. FirstNumbers(from..n, limit) = seqs
  BY PageOfInterval
<1>3. Index(t, from, limit) = Entries(t, seqs)
  BY <1>1, <1>2 DEF Index
<1>4. /\ DOMAIN seqs = 1..len
      /\ \A i \in 1..len : seqs[i] = from + i - 1 /\ seqs[i] \in 1..n
  OBVIOUS
<1> HIDE DEF seqs, len
<1>5. ASSUME NEW s \in 1..n PROVE (CHOOSE r \in RowsOf(t) : r.k.s = s).n > 0
  <2>1. \E r \in RowsOf(t) : r.k.s = s
    BY <1>0 DEF Numbers, RowsOf
  <2>2. (CHOOSE r \in RowsOf(t) : r.k.s = s) \in RowsOf(t)
    BY <2>1
  <2>3. \A r \in RowsOf(t) : r.n > 0
    BY StoreAssumption DEF RowsOf, AppendInv, IInv, TypeOK, LogRow
  <2> QED BY <2>2, <2>3
<1>6. /\ DOMAIN Entries(t, seqs) = 1..len
      /\ \A i \in 1..len : /\ Entries(t, seqs)[i].seq = from + i - 1
                           /\ Entries(t, seqs)[i].size > 0
  BY <1>4, <1>5 DEF Entries
<1> QED BY <1>3, <1>6 DEF len

(* Index, Manifest and the page sizes of the handler: while nobody deletes, *)
(* what a manifest advertises can be replayed, page by page and without a   *)
(* hole, up to the head.                                                    *)
THEOREM AppendsCanBeReplayed ==
  ASSUME Deleter = {}, SeedGapless
  PROVE  Spec => []RestoreWalk
<1>1. ASSUME AppendInv, NEW p \in Pseudonym, NEW m \in Manifest(p),
             NEW from \in 1..m.headSeq + 1, NEW limit \in 0..DefaultIndexLimit + 1
      PROVE  LET got == Index(m.stream, from, PageLimit(limit))
             IN  /\ from <= m.headSeq => got # <<>>
                 /\ \A i \in DOMAIN got : /\ got[i].seq = from + i - 1
                                          /\ got[i].seq <= m.headSeq
                                          /\ got[i].size > 0
  <2>1. PICK t \in Stream : m.stream = t /\ m.headSeq = HeadSeq(t)
    <3>1. \A r \in blob_log : StreamOf(r.k) \in Stream
      BY <1>1, StreamOfKey DEF AppendInv, IInv, TypeOK, LogRow
    <3> QED BY <1>1, <3>1 DEF Manifest
  <2>2. PICK n \in Nat : n = HeadSeq(t)
    BY <1>1, HeadOfIntact DEF AppendInv
  <2> DEFINE page == PageLimit(limit)
             len == IF page <= n - from + 1 THEN page ELSE n - from + 1
             got == Index(t, from, page)
  <2>3. page \in Nat \ {0}
    BY <1>1, BoundsAssumption DEF PageLimit
  <2>4. from \in 1..n + 1
    BY <1>1, <2>1, <2>2
  <2>5. /\ DOMAIN got = 1..len
        /\ \A i \in 1..len : got[i].seq = from + i - 1 /\ got[i].size > 0
    <3> HIDE DEF page
    <3> QED BY <1>1, <2>2, <2>3, <2>4, IndexOfStream
  <2>6. len <= n - from + 1 /\ len \in Int /\ (from <= n => len >= 1)
    BY <2>3, <2>4
  <2> HIDE DEF len, page, got
  <2>7. from <= n => got # <<>>
    <3>1. from <= n => 1 \in DOMAIN got
      BY <2>5, <2>6
    <3>2. 1 \notin DOMAIN <<>>
      OBVIOUS
    <3> QED BY <3>1, <3>2
  <2>8. \A i \in DOMAIN got : got[i].seq <= n
    BY <2>4, <2>5, <2>6
  <2> QED BY <2>1, <2>2, <2>5, <2>7, <2>8 DEF got, page
<1>2. AppendInv => RestoreWalk
  BY <1>1 DEF RestoreWalk
<1>3. Spec => []AppendInv
  BY AppendInvariance
<1> QED BY <1>2, <1>3, PTL

-------------------------------------------------------------------------------
(* The manifest *)

(* The chunks of a stream that a download can reach. *)
Listed(t) == {c \in blob_chunks : StreamOf(c.k) = t /\ \E r \in blob_log : r.k = c.k}

(* Unit i of the size of a row stands for chunk i - 1 of its blob: the sum  *)
(* of the sizes of a stream counts its listed chunks one by one.            *)
LEMMA TotalIsListed ==
  ASSUME IInv, NEW t \in Stream
  PROVE  TotalOf(t) = Cardinality(Listed(t))
<1> DEFINE S == UNION {{r} \X (1..r.n) : r \in RowsOf(t)}
           T == Listed(t)
           f == [e \in S |-> [k |-> e[1].k, i |-> e[2] - 1, b |-> e[1].b]]
           G == SeqNo \X (1..MaxChunks)
           g == [e \in S |-> <<e[1].k.s, e[2]>>]
<1>0. OneRowPerKey
  BY KeysAreUnique
<1>1. \A r \in RowsOf(t) : /\ r \in blob_log /\ r \in LogRow /\ StreamOf(r.k) = t
                           /\ r.k \in Key /\ r.n \in 1..MaxChunks /\ r.k.s \in SeqNo
  BY DEF RowsOf, IInv, TypeOK, LogRow, Key
<1>2. \A e \in S : e = <<e[1], e[2]>> /\ e[1] \in RowsOf(t) /\ e[2] \in 1..e[1].n
  OBVIOUS
<1>3. \A r \in RowsOf(t) : \A i \in 1..r.n : <<r, i>> \in S
  OBVIOUS
<1>4. \A q, r \in RowsOf(t) : q.k.s = r.k.s => q = r
  <2> SUFFICES ASSUME NEW q \in RowsOf(t), NEW r \in RowsOf(t), q.k.s = r.k.s PROVE q = r
    OBVIOUS
  <2>1. StreamOf(q.k) = StreamOf(r.k) /\ q.k \in Key /\ r.k \in Key
    BY <1>1
  <2>2. q.k = r.k
    BY <2>1 DEF StreamOf, Key
  <2> QED BY <1>0, <1>1, <2>2 DEF OneRowPerKey
<1> HIDE DEF S
<1>5. IsFiniteSet(S)
  <2>1. IsFiniteSet(G)
    <3>1. IsFiniteSet(SeqNo) /\ IsFiniteSet(1..MaxChunks)
      BY FS_Interval, BoundsAssumption, StoreAssumption DEF SeqNo
    <3> QED BY <3>1, FS_Product
  <2>2. g \in [S -> G]
    <3>1. ASSUME NEW e \in S PROVE <<e[1].k.s, e[2]>> \in G
      <4>1. e[1] \in RowsOf(t) /\ e[2] \in 1..e[1].n
        BY <1>2
      <4>2. e[1].k.s \in SeqNo /\ e[1].n \in 1..MaxChunks
        BY <1>1, <4>1
      <4>3. e[2] \in 1..MaxChunks
        BY <4>1, <4>2, StoreAssumption
      <4> QED BY <4>2, <4>3
    <3> QED BY <3>1
  <2>3. ASSUME NEW d \in S, NEW e \in S, g[d] = g[e] PROVE d = e
    <3>1. d[1].k.s = e[1].k.s /\ d[2] = e[2]
      BY <2>3
    <3> QED BY <1>2, <1>4, <3>1
  <2> HIDE DEF g, G
  <2>4. g \in Injection(S, G)
    BY <2>2, <2>3 DEF Injection, IsInjective
  <2> QED BY <2>1, <2>4, FS_Injection
<1>6. ASSUME NEW r \in RowsOf(t), NEW i \in 1..r.n
      PROVE  [k |-> r.k, i |-> i - 1, b |-> r.b] \in T
  <2> DEFINE c == [k |-> r.k, i |-> i - 1, b |-> r.b]
  <2>1. c.k = r.k /\ r \in blob_log /\ StreamOf(r.k) = t /\ r.n \in 1..MaxChunks
    BY <1>1
  <2>2. i - 1 \in 0..r.n - 1
    BY <2>1
  <2>3. c \in Chunks(r.k, r.b, r.n)
    BY <2>2 DEF Chunks
  <2>4. c \in blob_chunks
    BY <2>1, <2>3 DEF IInv, WholeBlobs
  <2> HIDE DEF c
  <2>5. c \in T
    BY <2>1, <2>4 DEF Listed
  <2> QED BY <2>5 DEF c
<1>7. f \in [S -> T]
  <2> HIDE DEF T
  <2> QED BY <1>2, <1>6
<1>8. ASSUME NEW d \in S, NEW e \in S, f[d] = f[e] PROVE d = e
  <2>1. f[d] = [k |-> d[1].k, i |-> d[2] - 1, b |-> d[1].b] /\ f[e] = [k |-> e[1].k, i |-> e[2] - 1, b |-> e[1].b]
    OBVIOUS
  <2>2. d[1].k = e[1].k /\ d[2] - 1 = e[2] - 1
    BY <1>8, <2>1
  <2>3. d[1].k.s = e[1].k.s /\ d[1] \in RowsOf(t) /\ e[1] \in RowsOf(t) /\ d[2] \in Int /\ e[2] \in Int
    BY <1>2, <2>2
  <2>4. d[1] = e[1] /\ d[2] = e[2]
    BY <1>4, <2>2, <2>3
  <2> QED BY <1>2, <2>4
<1>9. ASSUME NEW c \in T PROVE \E e \in S : f[e] = c
  <2>1. PICK r \in blob_log : r.k = c.k
    BY DEF Listed
  <2>2. c \in blob_chunks /\ StreamOf(c.k) = t
    BY DEF Listed
  <2>3. r \in RowsOf(t)
    BY <2>1, <2>2 DEF RowsOf
  <2>4. c \in Chunks(r.k, r.b, r.n)
    BY <2>1, <2>2 DEF IInv, WholeBlobs
  <2>5. PICK i \in 0..r.n - 1 : c = [k |-> r.k, i |-> i, b |-> r.b]
    BY <2>4 DEF Chunks
  <2>6. r.n \in 1..MaxChunks
    BY <1>1, <2>3
  <2>7. i + 1 \in 1..r.n /\ (i + 1) - 1 = i
    BY <2>6
  <2> DEFINE e == <<r, i + 1>>
  <2>8. e \in S
    BY <1>3, <2>3, <2>7
  <2>9. e[1] = r /\ e[2] = i + 1
    OBVIOUS
  <2> HIDE DEF e
  <2>10. f[e] = c
    BY <2>5, <2>7, <2>8, <2>9
  <2> QED BY <2>8, <2>10
<1> HIDE DEF f, T
<1>10. f \in Bijection(S, T)
  BY <1>7, <1>8, <1>9 DEF Bijection, Injection, Surjection, IsInjective
<1>11. Cardinality(T) = Cardinality(S)
  BY <1>5, <1>10, FS_Bijection DEF ExistsBijection
<1> QED BY <1>11 DEF TotalOf, S, T
(* The streams that a manifest names are streams, with their totals. *)
LEMMA ManifestRows ==
  ASSUME IInv, NEW p \in Pseudonym, NEW m \in Manifest(p)
  PROVE  m.stream \in Stream /\ m.total = TotalOf(m.stream)
<1>1. \A r \in blob_log : StreamOf(r.k) \in Stream
  BY StreamOfKey DEF IInv, TypeOK, LogRow
<1> QED BY <1>1 DEF Manifest

(* Manifest: whatever is appended, pruned and erased at the same time, the *)
(* total of a stream is the number of chunks that can be downloaded of it. *)
(* (Chunks that a prune left without a row are not counted.)               *)
THEOREM ManifestCountsListed ==
  Spec => [](\A p \in Pseudonym : \A m \in Manifest(p) : m.total = Cardinality(Listed(m.stream)))
<1>1. IInv => \A p \in Pseudonym : \A m \in Manifest(p) : m.total = Cardinality(Listed(m.stream))
  BY ManifestRows, TotalIsListed
<1> QED BY <1>1, Invariance, PTL

(* While nobody deletes, it is the number of all the chunks that there are *)
(* of the stream: the store keeps nothing that its manifest leaves out.    *)
THEOREM AppendsAddUp ==
  ASSUME Deleter = {}
  PROVE  Spec => []TotalsAddUp
<1>1. IInv /\ NoOrphanChunks => TotalsAddUp
  <2> SUFFICES ASSUME IInv, NoOrphanChunks, NEW p \in Pseudonym, NEW m \in Manifest(p)
               PROVE  m.total = Cardinality({c \in blob_chunks : StreamOf(c.k) = m.stream})
    BY DEF TotalsAddUp
  <2>1. Listed(m.stream) = {c \in blob_chunks : StreamOf(c.k) = m.stream}
    BY DEF Listed, NoOrphanChunks
  <2> QED BY <2>1, ManifestRows, TotalIsListed
<1>2. Spec => []NoOrphanChunks
  BY AppendsLeaveNoOrphans
<1> QED BY <1>1, <1>2, Invariance, PTL

(* A step leaves a key listed, but with other bytes or another size. *)
EntryReplaced == \E r \in blob_log, q \in blob_log' : q.k = r.k /\ q # r

(* Append and the primary keys: an entry that the log lists may go, but no *)
(* append, prune or erasure ever replaces it.                              *)
THEOREM EntriesAreImmutable == Spec => [][~EntryReplaced]_vars
<1>1. ASSUME IInv, [Next]_vars PROVE ~EntryReplaced
  <2>0. OneRowPerKey
    BY <1>1, KeysAreUnique
  <2>1. CASE blob_log' \subseteq blob_log
    BY <2>0, <2>1 DEF EntryReplaced, OneRowPerKey
  <2>2. ASSUME NEW u \in Upload, AppendCommit(u) PROVE ~EntryReplaced
    <3> DEFINE row == [k |-> up[u].k, b |-> u, n |-> up[u].n]
    <3>1. row.k = up[u].k /\ blob_log' = blob_log \cup {row}
      BY <2>2 DEF AppendCommit
    <3>2. \A r \in blob_log : r.k # up[u].k
      BY <1>1, <2>2, UploadFacts, KeyIsFree DEF AppendCommit
    <3> HIDE DEF row
    <3> QED BY <2>0, <3>1, <3>2 DEF EntryReplaced, OneRowPerKey
  <2>3. ASSUME NEW x \in Deleter, DeleteCommit(x) PROVE blob_log' \subseteq blob_log
    BY <2>3 DEF DeleteCommit
  <2> QED BY <1>1, <2>1, <2>2, <2>3, LogChanges
<1> QED BY <1>1, Invariance, PTL DEF Spec

-------------------------------------------------------------------------------
(* What uploads are told *)

(* The row of u is listed, or a delete for its key has removed it. *)
KeptOf(u) == (\E r \in blob_log : r.k = up[u].k /\ r.b = u) \/ WasRemoved(u)

StoredIsKept == \A u \in Upload : up[u].st = "stored" => KeptOf(u)

(* An upload that has been answered makes no further step, and only its    *)
(* own COMMIT answers one as stored.                                       *)
LEMMA StoredBefore ==
  ASSUME IInv, [Next]_vars, NEW v \in Upload, up'[v].st = "stored"
  PROVE  AppendCommit(v) \/ up'[v] = up[v]
<1> DEFINE Goal == AppendCommit(v) \/ up'[v] = up[v]
<1> USE UploadFacts
<1>1. CASE up' = up
  BY <1>1
<1>2. ASSUME NEW u \in Upload, \E k \in Key : AppendBegin(u, k) PROVE Goal
  BY <1>2 DEF AppendBegin
<1>3. ASSUME NEW u \in Upload, NEW o \in Outcome \ {"stored"}, up' = Ended(u, o) PROVE Goal
  BY <1>3 DEF Ended, UploadState
<1>4. ASSUME NEW u \in Upload, ReadChunk(u) PROVE Goal
  BY <1>4 DEF ReadChunk, UploadState
<1>5. ASSUME NEW u \in Upload, ReadEnd(u) PROVE Goal
  BY <1>3, <1>5 DEF ReadEnd, Outcome, UploadState
<1>6. ASSUME NEW u \in Upload, InsertChunk(u) PROVE Goal
  BY <1>3, <1>6 DEF InsertChunk, Outcome, UploadState
<1>7. ASSUME NEW u \in Upload, InsertLog(u) PROVE Goal
  BY <1>3, <1>7 DEF InsertLog, Outcome, UploadState
<1>8. ASSUME NEW u \in Upload, AppendFail(u) PROVE Goal
  BY <1>3, <1>8 DEF AppendFail, Outcome
<1>9. ASSUME NEW u \in Upload, AppendCommit(u) PROVE Goal
  BY <1>9 DEF AppendCommit, Ended
<1>10. ASSUME NEW x \in Deleter, DeleterStep(x) \/ DeleteFail(x) PROVE up' = up
  BY <1>10 DEF DeleterStep, DeleteFail, DeleteChunksStart, DeleteChunks, DeleteLogStart, DeleteLog, DeleteCommit
<1>11. ASSUME NEW x \in Deleter, (\E t \in Stream : PruneCheck(x, t)) \/ (\E p \in Pseudonym : EraseBegin(x, p))
       PROVE  up' = up
  BY <1>11 DEF PruneCheck, EraseBegin
<1>12. ASSUME NEW r \in Reader, (\E k \in Key : GetSize(r, k)) \/ ReaderStep(r) \/ GetFail(r)
       PROVE  up' = up
  BY <1>12 DEF GetSize, ReaderStep, GetChunks, ReadRow, GetFail
<1> QED BY <1>1, <1>2, <1>4, <1>5, <1>6, <1>7, <1>8, <1>9, <1>10, <1>11, <1>12 DEF Next, vars, UploadStep, Deleter

(* A delete that has been answered makes no further step either. *)
LEMMA AnsweredStays ==
  ASSUME IInv, [Next]_vars, NEW x \in Deleter, del[x].st \in {"done", "internal"}
  PROVE  del'[x] = del[x]
<1>0. /\ DOMAIN del = Deleter /\ \A y \in Deleter : del[y] \in DeleterState
  BY DeleterFacts
<1>1. ASSUME NEW y \in Deleter, (\E t \in Stream : PruneCheck(y, t)) \/ (\E p \in Pseudonym : EraseBegin(y, p))
      PROVE  del'[x] = del[x]
  BY <1>0, <1>1 DEF PruneCheck, EraseBegin, Begun
<1>2. ASSUME NEW y \in Deleter, DeleterStep(y) \/ DeleteFail(y)
      PROVE  del'[x] = del[x]
  BY <1>0, <1>2 DEF DeleterStep, DeleteFail, DeleteChunksStart, DeleteChunks, DeleteLogStart, DeleteLog,
                    DeleteCommit, Answered
<1>3. ASSUME NEW u \in Upload, (\E k \in Key : AppendBegin(u, k)) \/ UploadStep(u) \/ AppendFail(u)
      PROVE  del' = del
  BY <1>3 DEF AppendBegin, UploadStep, ReadChunk, ReadEnd, InsertChunk, InsertLog, AppendCommit, AppendFail
<1>4. ASSUME NEW r \in Reader, (\E k \in Key : GetSize(r, k)) \/ ReaderStep(r) \/ GetFail(r)
      PROVE  del' = del
  BY <1>4 DEF GetSize, ReaderStep, GetChunks, ReadRow, GetFail
<1> QED BY <1>1, <1>2, <1>3, <1>4 DEF Next, vars, Deleter

(* A delete that removes a row was made for it, is not answered with 404,  *)
(* and is known ever after to have removed it.                             *)
LEMMA RemovedByMatch ==
  ASSUME IInv, NEW x \in Deleter, DeleteCommit(x), NEW r \in blob_log, r \notin blob_log'
  PROVE  r \in Removed(x)' /\ Matches(del'[x].kind, del'[x].t, r.k)
<1>1. r \in del[x].log /\ del[x] \in DeleterState /\ DOMAIN del = Deleter
  BY DeleterFacts DEF DeleteCommit
<1>2. Matches(del[x].kind, del[x].t, r.k)
  BY <1>1 DEF IInv, OnTarget
<1>3. PICK st \in {"done", "internal"} : del' = [del EXCEPT ![x].st = st]
  BY <1>1 DEF DeleteCommit
<1>4. /\ del'[x].st = st /\ del'[x].kind = del[x].kind /\ del'[x].t = del[x].t
      /\ del'[x].log = del[x].log
  BY <1>1, <1>3 DEF DeleterState
<1> QED BY <1>1, <1>2, <1>3, <1>4 DEF Removed

(* Whatever step is taken, what was stored is kept. *)
LEMMA NextStoredIsKept == IInv /\ StoredIsKept /\ [Next]_vars => StoredIsKept'
<1> SUFFICES ASSUME IInv, StoredIsKept, [Next]_vars, NEW v \in Upload, up'[v].st = "stored"
             PROVE  KeptOf(v)'
  BY DEF StoredIsKept
<1>1. CASE AppendCommit(v)
  <2> DEFINE row == [k |-> up[v].k, b |-> v, n |-> up[v].n]
  <2>1. row \in blob_log' /\ row.k = up[v].k /\ row.b = v
    BY <1>1 DEF AppendCommit
  <2>2. up'[v].k = up[v].k
    BY <1>1, UploadFacts DEF AppendCommit, Ended, UploadState
  <2> HIDE DEF row
  <2> QED BY <2>1, <2>2 DEF KeptOf
<1>2. CASE up'[v] = up[v]
  <2>0. KeptOf(v)
    BY <1>2 DEF StoredIsKept
  <2>1. CASE \E r \in blob_log : r.k = up[v].k /\ r.b = v
    <3>1. PICK r \in blob_log : r.k = up[v].k /\ r.b = v
      BY <2>1
    <3>2. CASE r \in blob_log'
      BY <1>2, <3>1, <3>2 DEF KeptOf
    <3>3. CASE r \notin blob_log'
      <4>1. PICK x \in Deleter : DeleteCommit(x)
        BY <3>3, LogChanges DEF AppendCommit
      <4>2. r \in Removed(x)' /\ Matches(del'[x].kind, del'[x].t, r.k)
        BY <3>3, <4>1, RemovedByMatch
      <4> QED BY <1>2, <3>1, <4>2 DEF KeptOf, WasRemoved
    <3> QED BY <3>2, <3>3
  <2>2. ASSUME NEW x \in Deleter, Matches(del[x].kind, del[x].t, up[v].k),
               NEW r \in Removed(x), r.k = up[v].k, r.b = v
        PROVE  KeptOf(v)'
    <3>1. del[x].st \in {"done", "internal"}
      BY <2>2 DEF Removed
    <3>2. del'[x] = del[x]
      BY <3>1, AnsweredStays
    <3>3. r \in Removed(x)'
      BY <2>2, <3>2 DEF Removed
    <3> QED BY <1>2, <2>2, <3>2, <3>3 DEF KeptOf, WasRemoved
  <2> QED BY <2>0, <2>1, <2>2 DEF KeptOf, WasRemoved
<1> QED BY <1>1, <1>2, StoredBefore

(* Append: the deferred Rollback leaves nothing of an upload that was      *)
(* refused, and what was answered as stored is there, in spite of every    *)
(* other call, until a call that was made for its key removes this very    *)
(* row and commits.                                                        *)
THEOREM AnswersStayTrue == Spec => []AnswersAreTrue
<1>1. Init => StoredIsKept
  BY DEF Init, StoredIsKept
<1>2. Spec => []StoredIsKept
  BY <1>1, NextStoredIsKept, Invariance, PTL DEF Spec
<1>3. IInv /\ StoredIsKept => AnswersAreTrue
  BY DEF IInv, Unseen, StoredIsKept, KeptOf, AnswersAreTrue
<1> QED BY <1>2, <1>3, Invariance, PTL

-------------------------------------------------------------------------------
(* Every call comes to its end. *)

(* How many steps a call has left, at most. *)
UploadRank(s) ==
  IF s.st = "new" THEN 5 + 2 * MaxChunks
  ELSE IF s.st = "read" THEN 4 + 2 * (MaxChunks - s.n)
  ELSE IF s.st \in {"insert_more", "insert_last", "insert_error"} THEN 3 + 2 * (MaxChunks - s.n)
  ELSE IF s.st = "log" THEN 2
  ELSE IF s.st = "commit" THEN 1 ELSE 0

DeleterRank(s) ==
  IF s.st = "new" THEN 6
  ELSE IF s.st = "begin" THEN 5
  ELSE IF s.st = "chunks" THEN 4
  ELSE IF s.st = "between" THEN 3
  ELSE IF s.st = "log" THEN 2
  ELSE IF s.st = "commit" THEN 1 ELSE 0

ReaderRank(s) ==
  IF s.st = "new" THEN 3 + MaxChunks
  ELSE IF s.st = "sized" THEN 2 + s.size - s.got
  ELSE IF s.st = "stream" THEN 1 + s.size - s.got ELSE 0

(* A step of one call takes it nearer to its end and moves no other. *)
UploadProgress(u) ==
  /\ UploadRank(up'[u]) < UploadRank(up[u])
  /\ (\A v \in Upload \ {u} : up'[v] = up[v]) /\ del' = del /\ rd' = rd

DeleterProgress(x) ==
  /\ DeleterRank(del'[x]) < DeleterRank(del[x])
  /\ (\A y \in Deleter \ {x} : del'[y] = del[y]) /\ up' = up /\ rd' = rd

ReaderProgress(r) ==
  /\ ReaderRank(rd'[r]) < ReaderRank(rd[r])
  /\ (\A q \in Reader \ {r} : rd'[q] = rd[q]) /\ up' = up /\ del' = del

Progress ==
  \/ \E u \in Upload : UploadProgress(u)
  \/ \E x \in Deleter : DeleterProgress(x)
  \/ \E r \in Reader : ReaderProgress(r)

(* The ranks are bounded, and 0 for just the calls that are answered. *)
RankBound ==
  /\ \A u \in Upload : /\ UploadRank(up[u]) \in 0..5 + 2 * MaxChunks
                       /\ UploadRank(up[u]) = 0 <=> up[u].st \in Outcome
  /\ \A x \in Deleter : /\ DeleterRank(del[x]) \in 0..6
                        /\ DeleterRank(del[x]) = 0 <=> del[x].st \in Answered
  /\ \A r \in Reader : /\ ReaderRank(rd[r]) \in 0..3 + MaxChunks
                       /\ ReaderRank(rd[r]) = 0 <=> rd[r].st \in {"eof", "not_found", "internal"}

(* ... by the types of the calls' states. *)
LEMMA RanksAreBounded == IInv => RankBound
<1> SUFFICES ASSUME IInv PROVE RankBound
  OBVIOUS
<1>1. MaxChunks \in Nat
  BY StoreAssumption
<1>2. ASSUME NEW u \in Upload
      PROVE  /\ UploadRank(up[u]) \in 0..5 + 2 * MaxChunks
             /\ UploadRank(up[u]) = 0 <=> up[u].st \in Outcome
  <2>1. up[u].n \in Nat /\ up[u].n <= MaxChunks /\ up[u] \in UploadState
    BY UploadFacts
  <2> QED BY <1>1, <2>1 DEF UploadRank, UploadState, Outcome
<1>3. ASSUME NEW x \in Deleter
      PROVE  /\ DeleterRank(del[x]) \in 0..6
             /\ DeleterRank(del[x]) = 0 <=> del[x].st \in Answered
  <2>1. del[x] \in DeleterState
    BY DeleterFacts
  <2> QED BY <2>1 DEF DeleterRank, DeleterState, Answered
<1>4. ASSUME NEW r \in Reader
      PROVE  /\ ReaderRank(rd[r]) \in 0..3 + MaxChunks
             /\ ReaderRank(rd[r]) = 0 <=> rd[r].st \in {"eof", "not_found", "internal"}
  <2>1. /\ rd[r] \in ReaderState /\ rd[r].got \in Nat /\ rd[r].size \in Nat
        /\ rd[r].got <= rd[r].size /\ rd[r].size <= MaxChunks
    BY <1>1 DEF IInv, TypeOK, ReaderState
  <2> QED BY <1>1, <2>1 DEF ReaderRank, ReaderState
<1> QED BY <1>2, <1>3, <1>4 DEF RankBound

(* An upload moves on with every chunk that it reads and inserts. *)
LEMMA UploadsProgress ==
  ASSUME IInv, NEW u \in Upload, (\E k \in Key : AppendBegin(u, k)) \/ UploadStep(u) \/ AppendFail(u)
  PROVE  UploadProgress(u)
<1> DEFINE s == up[u]
           Goes(new) == up' = [up EXCEPT ![u] = new] /\ UploadRank(new) < UploadRank(s)
<1>0. /\ s \in UploadState /\ DOMAIN up = Upload /\ s.n \in Nat /\ s.n <= MaxChunks /\ MaxChunks \in Nat
      /\ s.st \in {"insert_more", "insert_last"} => s.n < MaxChunks
  BY UploadFacts, StoreAssumption
<1>1. del' = del /\ rd' = rd
  BY DEF AppendBegin, UploadStep, ReadChunk, ReadEnd, InsertChunk, InsertLog, AppendCommit, AppendFail
<1>2. ASSUME NEW new, Goes(new) PROVE UploadProgress(u)
  <2> HIDE DEF s
  <2>1. up'[u] = new /\ \A v \in Upload \ {u} : up'[v] = up[v]
    BY <1>0, <1>2
  <2> QED BY <1>1, <1>2, <2>1 DEF UploadProgress, s
<1>3. ASSUME NEW o \in Outcome, up' = Ended(u, o), s.st \notin Outcome PROVE UploadProgress(u)
  <2> DEFINE new == [s EXCEPT !.st = o, !.n = 0]
  <2>1. up' = [up EXCEPT ![u] = new] /\ new.st = o
    BY <1>0, <1>3 DEF Ended, UploadState
  <2> HIDE DEF new
  <2>2. UploadRank(new) = 0
    BY <2>1 DEF UploadRank, Outcome
  <2>3. UploadRank(s) > 0
    BY <1>0, <1>3 DEF UploadRank, Outcome, UploadState
  <2> QED BY <1>2, <2>1, <2>2, <2>3
<1>4. ASSUME NEW st, NEW n \in Nat, up' = [up EXCEPT ![u].st = st, ![u].n = n],
             UploadRank([st |-> st, n |-> n]) < UploadRank([st |-> s.st, n |-> s.n])
      PROVE  UploadProgress(u)
  <2> DEFINE new == [s EXCEPT !.st = st, !.n = n]
  <2>1. up' = [up EXCEPT ![u] = new] /\ new.st = st /\ new.n = n
    BY <1>0, <1>4 DEF UploadState
  <2> HIDE DEF new
  <2>2. UploadRank(new) = UploadRank([st |-> st, n |-> n]) /\ UploadRank(s) = UploadRank([st |-> s.st, n |-> s.n])
    BY <2>1 DEF UploadRank
  <2> QED BY <1>2, <1>4, <2>1, <2>2
<1>5. ASSUME NEW st, up' = [up EXCEPT ![u].st = st],
             UploadRank([st |-> st, n |-> s.n]) < UploadRank([st |-> s.st, n |-> s.n])
      PROVE  UploadProgress(u)
  <2> DEFINE new == [s EXCEPT !.st = st]
  <2>1. up' = [up EXCEPT ![u] = new] /\ new.st = st /\ new.n = s.n
    BY <1>0, <1>5 DEF UploadState
  <2> HIDE DEF new
  <2>2. UploadRank(new) = UploadRank([st |-> st, n |-> s.n]) /\ UploadRank(s) = UploadRank([st |-> s.st, n |-> s.n])
    BY <2>1 DEF UploadRank
  <2> QED BY <1>2, <1>5, <2>1, <2>2
<1>6. ASSUME NEW k \in Key, AppendBegin(u, k) PROVE UploadProgress(u)
  <2>1. PICK st \in {"read", "conflict"} : up' = [up EXCEPT ![u] = [st |-> st, k |-> k, n |-> 0]]
    BY <1>6 DEF AppendBegin
  <2>2. s.st = "new"
    BY <1>6 DEF AppendBegin
  <2>3. UploadRank([st |-> st, k |-> k, n |-> 0]) < UploadRank(s)
    BY <1>0, <2>2 DEF UploadRank
  <2> QED BY <1>2, <2>1, <2>3
<1>7. CASE ReadChunk(u)
  <2>1. PICK st \in {"insert_more", "insert_last", "insert_error"} : up' = [up EXCEPT ![u].st = st]
    BY <1>7 DEF ReadChunk
  <2>2. UploadRank([st |-> st, n |-> s.n]) < UploadRank([st |-> s.st, n |-> s.n])
    BY <1>0, <1>7 DEF UploadRank, ReadChunk
  <2> QED BY <1>5, <2>1, <2>2
<1>8. CASE ReadEnd(u)
  <2>1. s.st = "read" /\ s.st \notin Outcome
    BY <1>8 DEF ReadEnd, Outcome
  <2>2. CASE up' = [up EXCEPT ![u].st = "log"]
    <3>1. UploadRank([st |-> "log", n |-> s.n]) < UploadRank([st |-> s.st, n |-> s.n])
      BY <1>0, <2>1 DEF UploadRank
    <3> QED BY <1>5, <2>2, <3>1
  <2>3. CASE up' = Ended(u, "empty") \/ up' = Ended(u, "body_error")
    BY <1>3, <2>1, <2>3 DEF Outcome
  <2> QED BY <1>8, <2>2, <2>3 DEF ReadEnd
<1>9. CASE InsertChunk(u)
  <2>1. s.st \in {"insert_more", "insert_last", "insert_error"} /\ s.st \notin Outcome
    BY <1>9 DEF InsertChunk, Outcome
  <2>2. CASE up' = Ended(u, "conflict") \/ up' = Ended(u, "body_error")
    BY <1>3, <2>1, <2>2 DEF Outcome
  <2>3. CASE s.st # "insert_error" /\ \E st \in {"read", "log"} : up' = [up EXCEPT ![u].st = st, ![u].n = s.n + 1]
    <3>1. PICK st \in {"read", "log"} : up' = [up EXCEPT ![u].st = st, ![u].n = s.n + 1]
      BY <2>3
    <3>2. UploadRank([st |-> st, n |-> s.n + 1]) < UploadRank([st |-> s.st, n |-> s.n])
      BY <1>0, <2>1, <2>3 DEF UploadRank
    <3>3. s.n + 1 \in Nat
      BY <1>0
    <3> QED BY <1>4, <3>1, <3>2, <3>3
  <2> QED BY <1>9, <2>2, <2>3 DEF InsertChunk
<1>10. CASE InsertLog(u)
  <2>1. s.st = "log" /\ s.st \notin Outcome
    BY <1>10 DEF InsertLog, Outcome
  <2>2. CASE up' = Ended(u, "conflict")
    BY <1>3, <2>1, <2>2 DEF Outcome
  <2>3. CASE up' = [up EXCEPT ![u].st = "commit"]
    <3>1. UploadRank([st |-> "commit", n |-> s.n]) < UploadRank([st |-> s.st, n |-> s.n])
      BY <1>0, <2>1 DEF UploadRank
    <3> QED BY <1>5, <2>3, <3>1
  <2> QED BY <1>10, <2>2, <2>3 DEF InsertLog
<1>11. CASE AppendCommit(u) \/ AppendFail(u)
  BY <1>3, <1>11 DEF AppendCommit, AppendFail, Outcome
<1> QED BY <1>6, <1>7, <1>8, <1>9, <1>10, <1>11 DEF UploadStep

(* A delete moves on with every statement. *)
LEMMA DeletersProgress ==
  ASSUME IInv, NEW x \in Deleter,
         \/ \E t \in Stream : PruneCheck(x, t)
         \/ \E p \in Pseudonym : EraseBegin(x, p)
         \/ DeleterStep(x) \/ DeleteFail(x)
  PROVE  DeleterProgress(x)
<1>0. del[x] \in DeleterState /\ DOMAIN del = Deleter
  BY DeleterFacts
<1>1. up' = up /\ rd' = rd
  BY DEF PruneCheck, EraseBegin, DeleterStep, DeleteFail, DeleteChunksStart, DeleteChunks, DeleteLogStart,
         DeleteLog, DeleteCommit
<1>2. \A y \in Deleter \ {x} : del'[y] = del[y]
  BY <1>0 DEF PruneCheck, EraseBegin, Begun, DeleterStep, DeleteFail, DeleteChunksStart, DeleteChunks,
              DeleteLogStart, DeleteLog, DeleteCommit
<1>3. \/ del[x].st = "new" /\ del'[x].st \in Answered \cup {"begin"}
      \/ del[x].st = "begin" /\ del'[x].st = "chunks"
      \/ del[x].st = "chunks" /\ del'[x].st = "between"
      \/ del[x].st = "between" /\ del'[x].st = "log"
      \/ del[x].st = "log" /\ del'[x].st = "commit"
      \/ del[x].st = "commit" /\ del'[x].st \in Answered
      \/ del[x].st \notin Answered \cup {"new"} /\ del'[x].st = "internal"
  <2>1. CASE (\E t \in Stream : PruneCheck(x, t)) \/ (\E p \in Pseudonym : EraseBegin(x, p))
    <3>1. CASE \E kind, t : Begun(x, kind, t)
      <4>1. PICK kind, t : Begun(x, kind, t)
        BY <3>1
      <4>2. del'[x].st = "begin"
        BY <1>0, <4>1 DEF Begun
      <4>3. del[x].st = "new"
        BY <2>1 DEF PruneCheck, EraseBegin
      <4> QED BY <4>2, <4>3
    <3>2. CASE del' = [del EXCEPT ![x].st = "retention_guard", ![x].kind = "prune"]
      BY <1>0, <2>1, <3>2 DEF PruneCheck, EraseBegin, DeleterState, Answered
    <3> QED BY <2>1, <3>1, <3>2 DEF PruneCheck, EraseBegin
  <2>2. CASE DeleterStep(x)
    BY <1>0, <2>2 DEF DeleterStep, DeleteChunksStart, DeleteChunks, DeleteLogStart, DeleteLog, DeleteCommit,
                      DeleterState, Answered
  <2>3. CASE DeleteFail(x)
    BY <1>0, <2>3 DEF DeleteFail, DeleterState
  <2> QED BY <2>1, <2>2, <2>3
<1>4. DeleterRank(del'[x]) < DeleterRank(del[x])
  BY <1>0, <1>3 DEF DeleterRank, DeleterState, Answered
<1> QED BY <1>1, <1>2, <1>4 DEF DeleterProgress

(* A download moves on with every row. *)
LEMMA ReadersProgress ==
  ASSUME IInv, NEW r \in Reader, (\E k \in Key : GetSize(r, k)) \/ ReaderStep(r) \/ GetFail(r)
  PROVE  ReaderProgress(r)
<1> DEFINE s == rd[r]
           t == rd'[r]
<1>0. /\ s \in ReaderState /\ DOMAIN rd = Reader /\ MaxChunks \in Nat
      /\ s.got \in Nat /\ s.size \in Nat /\ s.got <= s.size
  BY StoreAssumption DEF IInv, TypeOK, ReaderState
<1>1. ReaderMoves(r)
  BY ReaderSteps DEF ReaderStep
<1>2. /\ up' = up /\ del' = del /\ \A q \in Reader \ {r} : rd'[q] = rd[q]
      /\ t.got \in Nat /\ t.size \in 0..MaxChunks /\ t.got <= t.size
  BY <1>0, <1>1 DEF ReaderMoves, ReaderState
<1>3. \/ s.st = "new" /\ t.st \in {"sized", "not_found"}
      \/ s.st = "sized" /\ t.st = "stream" /\ t.size = s.size /\ t.got = s.got
      \/ s.st = "stream" /\ t.st = "stream" /\ t.size = s.size /\ t.got = s.got + 1
      \/ s.st = "stream" /\ t.st = "eof"
      \/ s.st \in {"sized", "stream"} /\ t.st = "internal"
  <2>1. CASE \E k \in Key : GetSize(r, k)
    BY <1>0, <2>1 DEF GetSize, ReaderState
  <2>2. CASE GetChunks(r)
    BY <1>0, <2>2 DEF GetChunks, ReaderState
  <2>3. CASE ReadRow(r)
    BY <1>0, <2>3 DEF ReadRow, ReaderState
  <2>4. CASE GetFail(r)
    BY <1>0, <2>4 DEF GetFail, ReaderState
  <2> QED BY <2>1, <2>2, <2>3, <2>4 DEF ReaderStep
<1>4. ReaderRank(t) < ReaderRank(s)
  <2> HIDE DEF s, t
  <2> QED BY <1>0, <1>2, <1>3 DEF ReaderRank
<1> QED BY <1>2, <1>4 DEF ReaderProgress

(* Whichever call takes the step. *)
LEMMA NextIsProgress == IInv /\ Next => Progress
<1> SUFFICES ASSUME IInv, Next PROVE Progress
  OBVIOUS
<1>1. ASSUME NEW u \in Upload, (\E k \in Key : AppendBegin(u, k)) \/ UploadStep(u) \/ AppendFail(u)
      PROVE  Progress
  BY <1>1, UploadsProgress DEF Progress
<1>2. ASSUME NEW x \in Deleter,
             \/ \E t \in Stream : PruneCheck(x, t)
             \/ \E p \in Pseudonym : EraseBegin(x, p)
             \/ DeleterStep(x) \/ DeleteFail(x)
      PROVE  Progress
  BY <1>2, DeletersProgress DEF Progress
<1>3. ASSUME NEW r \in Reader, (\E k \in Key : GetSize(r, k)) \/ ReaderStep(r) \/ GetFail(r)
      PROVE  Progress
  BY <1>3, ReadersProgress DEF Progress
<1> QED BY <1>1, <1>2, <1>3 DEF Next, Deleter

(* No call loops or is set back: every step of the store takes the one     *)
(* call that makes it strictly nearer to its answer, whatever the others   *)
(* do.  So an append makes at most 5 + 2 * MaxChunks steps, a delete 6 and *)
(* a download 3 + MaxChunks, failures included.                            *)
THEOREM EveryStepIsProgress == Spec => []RankBound /\ [][Progress]_vars
BY NextIsProgress, RanksAreBounded, Invariance, PTL DEF Spec

-------------------------------------------------------------------------------
(* A device that holds a backup, and is pruned *)

(* Every device has something from the start.  (Of one that has nothing,   *)
(* a prune's check finds no newest generation and lets everything go.)     *)
EveryDeviceSeeded ==
  \A p \in Pseudonym, d \in Device : \E k \in Seed : k.p = p /\ k.d = d

(* The delete has passed its check and has not ended. *)
Deleting(x) == del[x].st \notin Answered \cup {"new"}

(* What the newest generation is: some row has it, and none a newer one.   *)
NewestFacts ==
  \A p \in Pseudonym, d \in Device :
    /\ NewestGeneration(p, d) \in Nat
    /\ \A r \in blob_log : r.k.p = p /\ r.k.d = d => r.k.g <= NewestGeneration(p, d)
    /\ NewestGeneration(p, d) > 0 =>
         \E r \in blob_log : r.k.p = p /\ r.k.d = d /\ r.k.g = NewestGeneration(p, d)

(* What holds while nobody erases: the newest generation of a device stays *)
(* or grows, so that what was below the window when a prune checked it     *)
(* still is when the prune commits; and a stream in the window has been in *)
(* it for as long as it is there.                                          *)
WindowInv ==
  /\ IInv
  /\ \A p \in Pseudonym, d \in Device : NewestGeneration(p, d) > 0
  /\ \A x \in Deleter : Deleting(x) =>
       /\ del[x].kind = "prune" /\ del[x].t \in Stream
       /\ del[x].t.g <= NewestGeneration(del[x].t.p, del[x].t.d) - RetainedGenerations
  /\ \A t \in Stream : InRetainedWindow(t.g, NewestGeneration(t.p, t.d)) => Intact(t)

(* SELECT MAX(generation) finds the newest. *)
LEMMA NewestIsMax == IInv => NewestFacts
<1> SUFFICES ASSUME IInv, NEW p \in Pseudonym, NEW d \in Device
             PROVE  /\ NewestGeneration(p, d) \in Nat
                    /\ \A r \in blob_log : r.k.p = p /\ r.k.d = d => r.k.g <= NewestGeneration(p, d)
                    /\ NewestGeneration(p, d) > 0 =>
                         \E r \in blob_log : r.k.p = p /\ r.k.d = d /\ r.k.g = NewestGeneration(p, d)
  BY DEF NewestFacts
<1> DEFINE S == {r.k.g : r \in {q \in blob_log : q.k.p = p /\ q.k.d = d}}
<1>1. \A r \in blob_log : r.k.g \in 1..MaxGeneration
  BY DEF IInv, TypeOK, LogRow, Key, Generation
<1>2. S \subseteq 1..MaxGeneration
  BY <1>1
<1>3. /\ NewestGeneration(p, d) \in S \cup {0} /\ NewestGeneration(p, d) \in Nat
      /\ \A g \in S : NewestGeneration(p, d) >= g
  BY <1>2, MaxExists, BoundsAssumption DEF NewestGeneration
<1>4. \A r \in blob_log : r.k.p = p /\ r.k.d = d => r.k.g <= NewestGeneration(p, d)
  <2> SUFFICES ASSUME NEW r \in blob_log, r.k.p = p, r.k.d = d PROVE r.k.g <= NewestGeneration(p, d)
    OBVIOUS
  <2>1. r.k.g \in S
    OBVIOUS
  <2>2. r.k.g \in Nat
    BY <1>1, BoundsAssumption
  <2> QED BY <1>3, <2>1, <2>2
<1>5. ASSUME NewestGeneration(p, d) > 0
      PROVE  \E r \in blob_log : r.k.p = p /\ r.k.d = d /\ r.k.g = NewestGeneration(p, d)
  <2>1. NewestGeneration(p, d) \in S
    BY <1>3, <1>5
  <2> QED BY <2>1
<1> QED BY <1>3, <1>4, <1>5

(* The same of the next state. *)
LEMMA NextNewestIsMax == IInv' => NewestFacts'
BY NewestIsMax, PTL

(* What a prune removes is below the window. *)
LEMMA PrunedIsOld ==
  ASSUME WindowInv, NEW x \in Deleter, DeleteCommit(x), NEW r \in blob_log, r \notin blob_log'
  PROVE  /\ r.k \in Key
         /\ r.k.g <= NewestGeneration(r.k.p, r.k.d) - RetainedGenerations
<1>1. r \in del[x].log /\ Deleting(x)
  BY DEF DeleteCommit, Deleting, Answered
<1>2. r.k \in Key
  BY DEF WindowInv, IInv, TypeOK, LogRow
<1>3. /\ del[x].kind = "prune"
      /\ del[x].t.g <= NewestGeneration(del[x].t.p, del[x].t.d) - RetainedGenerations
  BY <1>1 DEF WindowInv
<1>4. StreamOf(r.k) = del[x].t
  BY <1>1, <1>3, DeleterFacts DEF WindowInv, Matches
<1>5. r.k.p = del[x].t.p /\ r.k.d = del[x].t.d /\ r.k.g = del[x].t.g
  BY <1>4 DEF StreamOf
<1> QED BY <1>2, <1>3, <1>5

(* The newest generation of a device never goes back. *)
LEMMA NewestGrows ==
  ASSUME WindowInv, IInv', [Next]_vars, NEW p \in Pseudonym, NEW d \in Device
  PROVE  NewestGeneration(p, d)' >= NewestGeneration(p, d)
<1>1. PICK r \in blob_log : r.k.p = p /\ r.k.d = d /\ r.k.g = NewestGeneration(p, d)
  BY NewestIsMax DEF WindowInv, NewestFacts
<1>2. ASSUME r \in blob_log' PROVE NewestGeneration(p, d)' >= NewestGeneration(p, d)
  <2>1. r.k.g <= NewestGeneration(p, d)' /\ NewestGeneration(p, d)' \in Nat
    BY <1>1, <1>2, NextNewestIsMax DEF NewestFacts
  <2>2. NewestGeneration(p, d) \in Nat
    BY NewestIsMax DEF WindowInv, NewestFacts
  <2> QED BY <1>1, <2>1, <2>2
<1>3. ASSUME NEW x \in Deleter, DeleteCommit(x) PROVE r \in blob_log'
  <2> SUFFICES ASSUME r \notin blob_log' PROVE FALSE
    OBVIOUS
  <2>1. r.k.g <= NewestGeneration(r.k.p, r.k.d) - 2
    BY <1>3, PrunedIsOld DEF RetainedGenerations
  <2>2. NewestGeneration(p, d) \in Nat
    BY NewestIsMax DEF WindowInv, NewestFacts
  <2> QED BY <1>1, <2>1, <2>2
<1>4. ASSUME NEW u \in Upload, AppendCommit(u) PROVE r \in blob_log'
  BY <1>4 DEF AppendCommit
<1> QED BY <1>2, <1>3, <1>4, LogChanges

(* A delete under way was under way for the same target before the step,   *)
(* or has just passed its check.                                           *)
LEMMA DeletingBefore ==
  ASSUME IInv, [Next]_vars, Eraser = {}, NEW x \in Deleter, Deleting(x)'
  PROVE  \/ Deleting(x) /\ del'[x].kind = del[x].kind /\ del'[x].t = del[x].t
         \/ /\ del'[x].kind = "prune" /\ del'[x].t \in Stream
            /\ ~InRetainedWindow(del'[x].t.g, NewestGeneration(del'[x].t.p, del'[x].t.d))
            /\ blob_log' = blob_log
<1> DEFINE Goal == \/ Deleting(x) /\ del'[x].kind = del[x].kind /\ del'[x].t = del[x].t
                   \/ /\ del'[x].kind = "prune" /\ del'[x].t \in Stream
                      /\ ~InRetainedWindow(del'[x].t.g, NewestGeneration(del'[x].t.p, del'[x].t.d))
                      /\ blob_log' = blob_log
<1>0. /\ DOMAIN del = Deleter /\ \A y \in Deleter : del[y] \in DeleterState
  BY DeleterFacts
<1>1. CASE del' = del
  BY <1>1 DEF Deleting
<1>2. ASSUME NEW y \in Deleter, NEW t \in Stream, PruneCheck(y, t) PROVE Goal
  <2>1. CASE y # x
    <3>1. del'[x] = del[x]
      BY <1>0, <1>2, <2>1 DEF PruneCheck, Begun
    <3> QED BY <3>1 DEF Deleting
  <2>2. CASE y = x /\ InRetainedWindow(t.g, NewestGeneration(t.p, t.d))
    <3>1. del' = [del EXCEPT ![x].st = "retention_guard", ![x].kind = "prune"]
      BY <1>2, <2>2 DEF PruneCheck
    <3>2. del'[x].st = "retention_guard"
      BY <1>0, <3>1 DEF DeleterState
    <3> QED BY <3>2 DEF Deleting, Answered
  <2>3. CASE y = x /\ ~InRetainedWindow(t.g, NewestGeneration(t.p, t.d))
    <3>1. Begun(x, "prune", t) /\ blob_log' = blob_log
      BY <1>2, <2>3 DEF PruneCheck
    <3>2. del'[x].kind = "prune" /\ del'[x].t = t
      BY <1>0, <3>1 DEF Begun
    <3> QED BY <2>3, <3>1, <3>2
  <2> QED BY <2>1, <2>2, <2>3
<1>3. ASSUME NEW y \in Deleter, DeleterStep(y) \/ DeleteFail(y)
      PROVE  Goal
  <2>1. /\ del[y].st \notin Answered \cup {"new"}
        /\ \A z \in Deleter \ {y} : del'[z] = del[z]
        /\ del'[y].kind = del[y].kind /\ del'[y].t = del[y].t
    <3>1. CASE DeleteChunksStart(y)
      BY <1>0, <3>1 DEF DeleteChunksStart, DeleterState, Answered
    <3>2. CASE DeleteChunks(y)
      BY <1>0, <3>2 DEF DeleteChunks, DeleterState, Answered
    <3>3. CASE DeleteLogStart(y)
      BY <1>0, <3>3 DEF DeleteLogStart, DeleterState, Answered
    <3>4. CASE DeleteLog(y)
      BY <1>0, <3>4 DEF DeleteLog, DeleterState, Answered
    <3>5. CASE DeleteCommit(y)
      BY <1>0, <3>5 DEF DeleteCommit, DeleterState, Answered
    <3>6. CASE DeleteFail(y)
      BY <1>0, <3>6 DEF DeleteFail, DeleterState, Answered
    <3> QED BY <1>3, <3>1, <3>2, <3>3, <3>4, <3>5, <3>6 DEF DeleterStep
  <2> QED BY <2>1 DEF Deleting
<1>4. ASSUME NEW u \in Upload, (\E k \in Key : AppendBegin(u, k)) \/ UploadStep(u) \/ AppendFail(u)
      PROVE  del' = del
  BY <1>4 DEF AppendBegin, UploadStep, ReadChunk, ReadEnd, InsertChunk, InsertLog, AppendCommit, AppendFail
<1>5. ASSUME NEW r \in Reader, (\E k \in Key : GetSize(r, k)) \/ ReaderStep(r) \/ GetFail(r)
      PROVE  del' = del
  BY <1>5 DEF GetSize, ReaderStep, GetChunks, ReadRow, GetFail
<1> QED BY <1>1, <1>2, <1>3, <1>4, <1>5 DEF Next, vars, Deleter

(* The window's invariant is inductive. *)
LEMMA NextWindowInv ==
  ASSUME WindowInv, [Next]_vars, Eraser = {}
  PROVE  WindowInv'
<1>1. IInv /\ IInv'
  BY NextIInv DEF WindowInv
<1>2. \A p \in Pseudonym, d \in Device :
        /\ NewestGeneration(p, d) \in Nat /\ NewestGeneration(p, d)' \in Nat
        /\ NewestGeneration(p, d) > 0
        /\ NewestGeneration(p, d)' >= NewestGeneration(p, d)
  BY <1>1, NewestIsMax, NextNewestIsMax, NewestGrows DEF WindowInv, NewestFacts
<1>3. \A p \in Pseudonym, d \in Device : NewestGeneration(p, d)' > 0
  BY <1>2
<1>4. ASSUME NEW x \in Deleter, Deleting(x)'
      PROVE  /\ del'[x].kind = "prune" /\ del'[x].t \in Stream
             /\ (del[x].t.g <= NewestGeneration(del[x].t.p, del[x].t.d) - RetainedGenerations)'
  <2>1. CASE Deleting(x) /\ del'[x].kind = del[x].kind /\ del'[x].t = del[x].t
    <3>1. PICK t \in Stream : /\ del[x].t = t /\ del'[x].t = t /\ del[x].kind = "prune"
                             /\ t.g <= NewestGeneration(t.p, t.d) - RetainedGenerations
      BY <2>1 DEF WindowInv
    <3>2. t.p \in Pseudonym /\ t.d \in Device /\ t.g \in Nat
      BY BoundsAssumption DEF Stream, Generation
    <3>3. t.g <= NewestGeneration(t.p, t.d)' - RetainedGenerations
      BY <1>2, <3>1, <3>2 DEF RetainedGenerations
    <3>4. NewestGeneration(del[x].t.p, del[x].t.d)' = NewestGeneration(t.p, t.d)'
      BY <3>1 DEF NewestGeneration
    <3> QED BY <2>1, <3>1, <3>3, <3>4
  <2>2. CASE /\ del'[x].kind = "prune" /\ del'[x].t \in Stream
             /\ ~InRetainedWindow(del'[x].t.g, NewestGeneration(del'[x].t.p, del'[x].t.d))
             /\ blob_log' = blob_log
    <3>1. PICK t \in Stream : /\ del'[x].t = t
                             /\ ~InRetainedWindow(t.g, NewestGeneration(t.p, t.d))
      BY <2>2
    <3>2. t.p \in Pseudonym /\ t.d \in Device /\ t.g \in Nat
      BY BoundsAssumption DEF Stream, Generation
    <3>3. t.g <= NewestGeneration(t.p, t.d)' - RetainedGenerations
      BY <1>2, <3>1, <3>2 DEF RetainedGenerations, InRetainedWindow
    <3>4. NewestGeneration(del[x].t.p, del[x].t.d)' = NewestGeneration(t.p, t.d)'
      BY <3>1 DEF NewestGeneration
    <3> QED BY <2>2, <3>1, <3>3, <3>4
  <2> QED BY <1>1, <1>4, <2>1, <2>2, DeletingBefore
<1>5. ASSUME NEW t \in Stream, InRetainedWindow(t.g, NewestGeneration(t.p, t.d)')
      PROVE  Intact(t)'
  <2>1. t.p \in Pseudonym /\ t.d \in Device /\ t.g \in Nat
    BY BoundsAssumption DEF Stream, Generation
  <2>2. /\ InRetainedWindow(t.g, NewestGeneration(t.p, t.d))
        /\ ~(t.g <= NewestGeneration(t.p, t.d) - RetainedGenerations)
    BY <1>2, <1>5, <2>1 DEF InRetainedWindow, RetainedGenerations
  <2>3. Intact(t)
    BY <2>2 DEF WindowInv
  <2>4. ASSUME NEW r \in blob_log, StreamOf(r.k) = t PROVE r \in blob_log'
    <3>1. r.k.p = t.p /\ r.k.d = t.d /\ r.k.g = t.g
      BY <2>4 DEF StreamOf
    <3>2. ASSUME NEW x \in Deleter, DeleteCommit(x) PROVE r \in blob_log'
      BY <2>2, <3>1, <3>2, PrunedIsOld
    <3>3. ASSUME NEW u \in Upload, AppendCommit(u) PROVE r \in blob_log'
      BY <3>3 DEF AppendCommit
    <3> QED BY <3>2, <3>3, LogChanges
  <2> QED BY <1>1, <2>3, <2>4, IntactStep
<1> QED BY <1>1, <1>3, <1>4, <1>5 DEF WindowInv

(* A device's seeded blobs make a newest generation. *)
LEMMA InitWindowInv ==
  ASSUME Init, EveryDeviceSeeded, SeedGapless
  PROVE  WindowInv
<1>1. IInv
  BY InitIInv
<1>2. ASSUME NEW p \in Pseudonym, NEW d \in Device PROVE NewestGeneration(p, d) > 0
  <2>1. PICK k \in Seed : k.p = p /\ k.d = d
    BY DEF EveryDeviceSeeded
  <2>2. PICK r \in blob_log : r.k = k
    BY SeedIsListed
  <2>3. r.k.g \in Nat /\ r.k.g > 0
    BY <2>2, StoreAssumption, BoundsAssumption DEF Key, Generation
  <2>4. r.k.g <= NewestGeneration(p, d) /\ NewestGeneration(p, d) \in Nat
    BY <1>1, <2>1, <2>2, NewestIsMax DEF NewestFacts
  <2> QED BY <2>3, <2>4
<1>3. \A x \in Deleter : ~Deleting(x)
  BY DEF Init, Deleting
<1> QED BY <1>1, <1>2, <1>3, InitIntact DEF WindowInv

(* What the prunes rely on holds throughout. *)
LEMMA WindowInvariance ==
  ASSUME Eraser = {}, EveryDeviceSeeded, SeedGapless
  PROVE  Spec => []WindowInv
<1>1. Init => WindowInv
  BY InitWindowInv
<1>2. WindowInv /\ [Next]_vars => WindowInv'
  BY NextWindowInv
<1> QED BY <1>1, <1>2, PTL DEF Spec

(* DeleteGeneration and the retained window: on devices that hold a backup *)
(* and that nobody erases, the check outside the transaction is enough.    *)
THEOREM PrunesKeepTheFloor ==
  ASSUME Eraser = {}, EveryDeviceSeeded, SeedGapless
  PROVE  Spec => RetentionFloor
<1>1. ASSUME WindowInv, [Next]_vars
      PROVE  [\A x \in Deleter : del[x].kind = "prune" /\ DeleteCommit(x) =>
                \A r \in blob_log \ blob_log' :
                  ~InRetainedWindow(r.k.g, NewestGeneration(r.k.p, r.k.d))]_vars
  <2> SUFFICES ASSUME NEW x \in Deleter, DeleteCommit(x), NEW r \in blob_log, r \notin blob_log'
               PROVE  ~InRetainedWindow(r.k.g, NewestGeneration(r.k.p, r.k.d))
    OBVIOUS
  <2>1. r.k \in Key /\ r.k.g <= NewestGeneration(r.k.p, r.k.d) - RetainedGenerations
    BY <1>1, PrunedIsOld
  <2>2. r.k.g \in Nat /\ NewestGeneration(r.k.p, r.k.d) \in Nat
    BY <1>1, <2>1, NewestIsMax, BoundsAssumption DEF WindowInv, NewestFacts, Key, Generation
  <2> QED BY <2>1, <2>2 DEF InRetainedWindow, RetainedGenerations
<1>2. Spec => []WindowInv
  BY WindowInvariance
<1> QED BY <1>1, <1>2, PTL DEF Spec, RetentionFloor

(* The window that a restore starts from never has a hole, whatever        *)
(* appends and prunes run at the same time.                                *)
THEOREM WindowHasNoHoles ==
  ASSUME Eraser = {}, EveryDeviceSeeded, SeedGapless
  PROVE  Spec => []WindowContiguous
<1>1. WindowInv => WindowContiguous
  BY HeadOfIntact DEF WindowInv, WindowContiguous, Numbers
<1>2. Spec => []WindowInv
  BY WindowInvariance
<1> QED BY <1>1, <1>2, PTL
===============================================================================
