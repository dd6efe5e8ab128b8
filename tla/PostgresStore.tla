----------------------------- MODULE PostgresStore -----------------------------
(***************************************************************************)
(* blobstore.PostgresStore: two tables, and transactions that overlap.     *)
(*                                                                         *)
(* blob_log holds one row per blob (its metadata and its size), and        *)
(* blob_chunks the bytes, one row per ChunkBytes of the body.  An append   *)
(* is one READ COMMITTED transaction that inserts the chunks while the     *)
(* body streams in and the log row at the end; a prune or an erasure is    *)
(* one that deletes the chunks and then the log rows; a download is one    *)
(* REPEATABLE READ transaction.  One action is one statement (or one read  *)
(* of the body), so everything that can happen between two of them does.   *)
(*                                                                         *)
(* Postgres itself is modelled as the code relies on it:                   *)
(*   - a statement under READ COMMITTED sees what was committed when it    *)
(*     started; the uncommitted rows of other sessions are invisible;      *)
(*   - an INSERT whose primary key is held by an uncommitted insert or     *)
(*     delete waits for that transaction; if the key is then committed it  *)
(*     fails with unique_violation (23505);                                *)
(*   - a DELETE waits for rows another transaction has deleted and skips   *)
(*     them if that transaction commits; its own locks are modelled as     *)
(*     taken together, and of two that lock each other out row by row      *)
(*     Postgres fails one, as any statement may fail;                      *)
(*   - COMMIT makes all of a transaction's changes visible at once, and a  *)
(*     connection may be lost before or after it took effect.              *)
(*                                                                         *)
(* The number of chunks stands for the size of a blob, and the upload it   *)
(* came from for its bytes.  Each call is made once: a retry is another    *)
(* upload or deleter.                                                      *)
(***************************************************************************)
EXTENDS BlobKeys, Sequences

CONSTANTS
  Upload,      \* calls of Append
  Pruner,      \* calls of DeleteGeneration
  Eraser,      \* calls of DeleteAccount
  Reader,      \* calls of Get
  Seed,        \* keys that hold a blob from the start
  MaxChunks    \* the size cap (MAX_BLOB_BYTES) in chunks

ASSUME StoreAssumption ==
  /\ MaxChunks \in Nat \ {0}
  /\ Pruner \cap Eraser = {}
  /\ "seed" \notin Upload
  /\ Seed \subseteq Key

VARIABLES
  blob_log,     \* committed rows [k, b, n]: key, bytes and number of chunks
  blob_chunks,  \* committed rows [k, i, b]: key, index and bytes
  up,           \* up[u]: where Append call u is
  del,          \* del[x]: where DeleteGeneration or DeleteAccount call x is
  rd            \* rd[r]: where Get call r is

vars == <<blob_log, blob_chunks, up, del, rd>>

Deleter == Pruner \cup Eraser

Chunks(k, b, n) == {[k |-> k, i |-> i, b |-> b] : i \in 0..n - 1}

(* An upload or reader that has no key yet, a deleter that has no target. *)
NoKey == [p |-> "none"]

Init ==
  /\ blob_log = {[k |-> k, b |-> "seed", n |-> 1] : k \in Seed}
  /\ blob_chunks = UNION {Chunks(k, "seed", 1) : k \in Seed}
  /\ up = [u \in Upload |-> [st |-> "new", k |-> NoKey, n |-> 0]]
  /\ del = [x \in Deleter |-> [st |-> "new", kind |-> "none", t |-> NoKey,
                               chunks |-> {}, log |-> {}, owed |-> {}]]
  /\ rd = [r \in Reader |-> [st |-> "new", k |-> NoKey, size |-> 0, snap |-> {}, got |-> 0]]

-------------------------------------------------------------------------------
(* Append *)

HeadSeq(t) == MaxOrZero({r.k.s : r \in {q \in blob_log : StreamOf(q.k) = t}})

(* Mutant: any number past the head will do. *)
AppendBeginAhead(u, k) ==
  /\ up[u].st = "new"
  /\ up' = [up EXCEPT ![u] =
       [st |-> IF k.s > HeadSeq(StreamOf(k)) THEN "read" ELSE "conflict", k  |-> k, n |-> 0]]
  /\ UNCHANGED <<blob_log, blob_chunks, del, rd>>

(* BEGIN, SELECT MAX(seq), and the comparison with the requested number. *)
AppendBegin(u, k) ==
  /\ up[u].st = "new"
  /\ up' = [up EXCEPT ![u] =
       [st |-> IF k.s = HeadSeq(StreamOf(k)) + 1 THEN "read" ELSE "conflict",
        k  |-> k, n |-> 0]]
  /\ UNCHANGED <<blob_log, blob_chunks, del, rd>>

(* Mutant: no deferred Rollback, so a call that fails leaves its           *)
(* transaction open.                                                       *)
EndedWithoutRollback(u, outcome) ==
  [up EXCEPT ![u].st = outcome, ![u].n = IF outcome = "stored" THEN 0 ELSE @]

(* The transaction of u ends, by the deferred Rollback or by Commit: the   *)
(* rows it had inserted are no longer its own uncommitted ones.            *)
Ended(u, outcome) == [up EXCEPT ![u].st = outcome, ![u].n = 0]

(* Mutant: nothing counts the bytes. *)
ReadChunkUncapped(u) ==
  /\ up[u].st = "read"
  /\ \E st \in {"insert_more", "insert_last", "insert_error"} : up' = [up EXCEPT ![u].st = st]
  /\ UNCHANGED <<blob_log, blob_chunks, del, rd>>

(* io.ReadFull returned bytes: a full buffer; what was left before EOF or  *)
(* io.ErrUnexpectedEOF (a connection that broke off gives that too, but    *)
(* ends the request's context with it, so that AppendFail follows: see     *)
(* BodyStream); or what was read before another error, which is inserted   *)
(* all the same before the error is looked at.  Bytes past the cap only    *)
(* come with an error.                                                     *)
ReadChunk(u) ==
  /\ up[u].st = "read"
  /\ \E st \in {"insert_more", "insert_last", "insert_error"} :
       /\ up[u].n < MaxChunks \/ st = "insert_error"
       /\ up' = [up EXCEPT ![u].st = st]
  /\ UNCHANGED <<blob_log, blob_chunks, del, rd>>

(* io.ReadFull returned no bytes: EOF, which ends the loop, or an error    *)
(* (connection, size cap, digest mismatch), which ends the call.           *)
ReadEnd(u) ==
  /\ up[u].st = "read"
  /\ \/ up' = IF up[u].n = 0 THEN Ended(u, "empty") ELSE [up EXCEPT ![u].st = "log"]
     \/ up' = Ended(u, "body_error")
  /\ UNCHANGED <<blob_log, blob_chunks, del, rd>>

(* The rows whose deletion x has not committed yet. *)
HeldChunks(x) == IF del[x].st \in {"between", "log", "commit"} THEN del[x].chunks ELSE {}
HeldLog(x) == IF del[x].st = "commit" THEN del[x].log ELSE {}

(* The primary key is in use by another transaction that has not ended. *)
ChunkHeld(u, k, i) ==
  \/ \E v \in Upload \ {u} : up[v].k = k /\ i < up[v].n
  \/ \E x \in Deleter : \E c \in HeldChunks(x) : c.k = k /\ c.i = i

LogHeld(u, k) ==
  \/ \E v \in Upload \ {u} : up[v].k = k /\ up[v].st = "commit"
  \/ \E x \in Deleter : \E r \in HeldLog(x) : r.k = k

(* Mutant: the chunks go in through the pool (db.Exec), not through the    *)
(* transaction, and are committed one by one.                              *)
InsertChunkAutocommit(u) ==
  LET k == up[u].k  i == up[u].n IN
  /\ up[u].st \in {"insert_more", "insert_last", "insert_error"}
  /\ ~ChunkHeld(u, k, i)
  /\ IF \E c \in blob_chunks : c.k = k /\ c.i = i
     THEN up' = Ended(u, "conflict") /\ UNCHANGED blob_chunks
     ELSE /\ blob_chunks' = blob_chunks \cup {[k |-> k, i |-> i, b |-> u]}
          /\ up' = IF up[u].st = "insert_error" THEN Ended(u, "body_error")
                   ELSE [up EXCEPT ![u].st = IF @ = "insert_more" THEN "read" ELSE "log",
                                   ![u].n = i + 1]
  /\ UNCHANGED <<blob_log, del, rd>>

(* INSERT INTO blob_chunks; a unique violation is answered as a conflict. *)
InsertChunk(u) ==
  LET k == up[u].k  i == up[u].n IN
  /\ up[u].st \in {"insert_more", "insert_last", "insert_error"}
  /\ ~ChunkHeld(u, k, i)
  /\ up' = IF \E c \in blob_chunks : c.k = k /\ c.i = i THEN Ended(u, "conflict")
           ELSE IF up[u].st = "insert_error" THEN Ended(u, "body_error")
           ELSE [up EXCEPT ![u].st = IF @ = "insert_more" THEN "read" ELSE "log",
                           ![u].n = i + 1]
  /\ UNCHANGED <<blob_log, blob_chunks, del, rd>>

(* INSERT INTO blob_log *)
InsertLog(u) ==
  LET k == up[u].k IN
  /\ up[u].st = "log"
  /\ ~LogHeld(u, k)
  /\ up' = IF \E r \in blob_log : r.k = k THEN Ended(u, "conflict")
           ELSE [up EXCEPT ![u].st = "commit"]
  /\ UNCHANGED <<blob_log, blob_chunks, del, rd>>

(* Mutant: Commit is deferred and its error is not looked at. *)
AppendCommitUnchecked(u) ==
  /\ up[u].st = "commit"
  /\ \/ /\ blob_log' = blob_log \cup {[k |-> up[u].k, b |-> u, n |-> up[u].n]}
        /\ blob_chunks' = blob_chunks \cup Chunks(up[u].k, u, up[u].n)
     \/ UNCHANGED <<blob_log, blob_chunks>>
  /\ up' = Ended(u, "stored")
  /\ UNCHANGED <<del, rd>>

(* COMMIT took effect; the answer may be lost on the way to the server. *)
AppendCommit(u) ==
  /\ up[u].st = "commit"
  /\ blob_log' = blob_log \cup {[k |-> up[u].k, b |-> u, n |-> up[u].n]}
  /\ blob_chunks' = blob_chunks \cup Chunks(up[u].k, u, up[u].n)
  /\ \E st \in {"stored", "internal"} : up' = Ended(u, st)
  /\ UNCHANGED <<del, rd>>

Outcome == {"stored", "conflict", "empty", "body_error", "internal"}

(* A statement fails, the request is cancelled or the server dies before   *)
(* COMMIT took effect: nothing is kept.                                    *)
AppendFail(u) ==
  /\ up[u].st \notin Outcome \cup {"new"}
  /\ up' = Ended(u, "internal")
  /\ UNCHANGED <<blob_log, blob_chunks, del, rd>>

-------------------------------------------------------------------------------
(* DeleteGeneration and DeleteAccount *)

NewestGeneration(p, d) ==
  MaxOrZero({r.k.g : r \in {q \in blob_log : q.k.p = p /\ q.k.d = d}})

(* What a delete of this kind aimed at t matches. *)
Matches(kind, t, k) == IF kind = "erase" THEN k.p = t.p ELSE StreamOf(k) = t

(* BEGIN.  owed is a history variable: the rows the caller expects to go.  *)
Begun(x, kind, t) ==
  del' = [del EXCEPT ![x] =
    [st |-> "begin", kind |-> kind, t |-> t, chunks |-> {}, log |-> {},
     owed |-> {q \in blob_log \cup blob_chunks : Matches(kind, t, q.k)}]]

(* Mutant: the window is one generation short, only the newest is kept. *)
PruneCheckOffByOne(x, t) ==
  /\ del[x].st = "new"
  /\ IF NewestGeneration(t.p, t.d) > 0 /\ t.g >= NewestGeneration(t.p, t.d)
     THEN del' = [del EXCEPT ![x].st = "retention_guard", ![x].kind = "prune"]
     ELSE Begun(x, "prune", t)
  /\ UNCHANGED <<blob_log, blob_chunks, up, rd>>

(* SELECT MAX(generation), before and outside the transaction. *)
PruneCheck(x, t) ==
  /\ del[x].st = "new"
  /\ IF InRetainedWindow(t.g, NewestGeneration(t.p, t.d))
     THEN del' = [del EXCEPT ![x].st = "retention_guard", ![x].kind = "prune"]
     ELSE Begun(x, "prune", t)
  /\ UNCHANGED <<blob_log, blob_chunks, up, rd>>

EraseBegin(x, p) ==
  /\ del[x].st = "new"
  /\ Begun(x, "erase", [p |-> p])
  /\ UNCHANGED <<blob_log, blob_chunks, up, rd>>

Matching(x, rows) == {q \in rows : Matches(del[x].kind, del[x].t, q.k)}

(* Mutant: only the metadata is deleted. *)
DeleteChunksStartSkipped(x) ==
  /\ del[x].st = "begin"
  /\ del' = [del EXCEPT ![x].st = "between"]
  /\ UNCHANGED <<blob_log, blob_chunks, up, rd>>

(* DELETE FROM blob_chunks starts: the rows it will visit are those that   *)
(* are committed now.                                                      *)
DeleteChunksStart(x) ==
  /\ del[x].st = "begin"
  /\ del' = [del EXCEPT ![x].st = "chunks", ![x].chunks = Matching(x, blob_chunks)]
  /\ UNCHANGED <<blob_log, blob_chunks, up, rd>>

(* Mutant: the two DELETEs are not one transaction. *)
DeleteChunksAutocommit(x) ==
  /\ del[x].st = "chunks"
  /\ \A y \in Deleter \ {x} : del[x].chunks \cap HeldChunks(y) = {}
  /\ del' = [del EXCEPT ![x].st = "between", ![x].chunks = {}]
  /\ blob_chunks' = blob_chunks \ del[x].chunks
  /\ UNCHANGED <<blob_log, up, rd>>

(* It ends once no other transaction holds one of them, having skipped the *)
(* ones that are gone.                                                     *)
DeleteChunks(x) ==
  /\ del[x].st = "chunks"
  /\ \A y \in Deleter \ {x} : del[x].chunks \cap HeldChunks(y) = {}
  /\ del' = [del EXCEPT ![x].st = "between", ![x].chunks = @ \cap blob_chunks]
  /\ UNCHANGED <<blob_log, blob_chunks, up, rd>>

(* DELETE FROM blob_log, a statement with a snapshot of its own. *)
DeleteLogStart(x) ==
  /\ del[x].st = "between"
  /\ del' = [del EXCEPT ![x].st = "log", ![x].log = Matching(x, blob_log)]
  /\ UNCHANGED <<blob_log, blob_chunks, up, rd>>

DeleteLog(x) ==
  /\ del[x].st = "log"
  /\ \A y \in Deleter \ {x} : del[x].log \cap HeldLog(y) = {}
  /\ del' = [del EXCEPT ![x].st = "commit", ![x].log = @ \cap blob_log]
  /\ UNCHANGED <<blob_log, blob_chunks, up, rd>>

(* COMMIT took effect.  A prune that removed no log row is answered with   *)
(* 404, and the answer may be lost.                                        *)
DeleteCommit(x) ==
  /\ del[x].st = "commit"
  /\ blob_log' = blob_log \ del[x].log
  /\ blob_chunks' = blob_chunks \ del[x].chunks
  /\ \E st \in {"internal", IF del[x].kind = "prune" /\ del[x].log = {} THEN "not_found" ELSE "done"} :
       del' = [del EXCEPT ![x].st = st]
  /\ UNCHANGED <<up, rd>>

Answered == {"done", "not_found", "retention_guard", "internal"}

(* A statement fails, or the server dies, before COMMIT took effect: the   *)
(* rows are not deleted after all.                                         *)
DeleteFail(x) ==
  /\ del[x].st \notin Answered \cup {"new"}
  /\ del' = [del EXCEPT ![x].st = "internal", ![x].chunks = {}, ![x].log = {}]
  /\ UNCHANGED <<blob_log, blob_chunks, up, rd>>

-------------------------------------------------------------------------------
(* Get *)

(* SELECT size: the first statement of the REPEATABLE READ transaction,    *)
(* which fixes the snapshot for the second one too.                        *)
GetSize(r, k) ==
  /\ rd[r].st = "new"
  /\ IF \E q \in blob_log : q.k = k
     THEN \E q \in blob_log :
            /\ q.k = k
            /\ rd' = [rd EXCEPT ![r] =
                 [st |-> "sized", k |-> k, size |-> q.n, got |-> 0,
                  snap |-> {c \in blob_chunks : c.k = k}]]
     ELSE rd' = [rd EXCEPT ![r].st = "not_found", ![r].k = k]
  /\ UNCHANGED <<blob_log, blob_chunks, up, del>>

(* Mutant: READ COMMITTED, so the second statement has its own snapshot. *)
GetChunksReadCommitted(r) ==
  /\ rd[r].st = "sized"
  /\ rd' = [rd EXCEPT ![r].st = "stream", ![r].snap = {c \in blob_chunks : c.k = rd[r].k}]
  /\ UNCHANGED <<blob_log, blob_chunks, up, del>>

(* SELECT chunk ... ORDER BY idx: the result set that Read then walks. *)
GetChunks(r) ==
  /\ rd[r].st = "sized"
  /\ rd' = [rd EXCEPT ![r].st = "stream"]
  /\ UNCHANGED <<blob_log, blob_chunks, up, del>>

(* chunkReader.Read: the next row, or EOF after the last one. *)
ReadRow(r) ==
  /\ rd[r].st = "stream"
  /\ rd' = IF rd[r].got < Cardinality(rd[r].snap) THEN [rd EXCEPT ![r].got = @ + 1]
           ELSE [rd EXCEPT ![r].st = "eof"]
  /\ UNCHANGED <<blob_log, blob_chunks, up, del>>

(* The download breaks off: the transaction is rolled back by Close. *)
GetFail(r) ==
  /\ rd[r].st \in {"sized", "stream"}
  /\ rd' = [rd EXCEPT ![r].st = "internal"]
  /\ UNCHANGED <<blob_log, blob_chunks, up, del>>

-------------------------------------------------------------------------------
UploadStep(u) ==
  ReadChunk(u) \/ ReadEnd(u) \/ InsertChunk(u) \/ InsertLog(u) \/ AppendCommit(u)

DeleterStep(x) ==
  \/ DeleteChunksStart(x) \/ DeleteChunks(x)
  \/ DeleteLogStart(x) \/ DeleteLog(x)
  \/ DeleteCommit(x)

ReaderStep(r) == GetChunks(r) \/ ReadRow(r)

Next ==
  \/ \E u \in Upload : \/ \E k \in Key : AppendBegin(u, k)
                       \/ UploadStep(u)
                       \/ AppendFail(u)
  \/ \E x \in Pruner : \E t \in Stream : PruneCheck(x, t)
  \/ \E x \in Eraser : \E p \in Pseudonym : EraseBegin(x, p)
  \/ \E x \in Deleter : DeleterStep(x) \/ DeleteFail(x)
  \/ \E r \in Reader : \/ \E k \in Key : GetSize(r, k)
                       \/ ReaderStep(r)
                       \/ GetFail(r)

Spec == Init /\ [][Next]_vars

-------------------------------------------------------------------------------
(* What the listings return: each is one statement, so one snapshot. *)

RowsOf(t) == {r \in blob_log : StreamOf(r.k) = t}

Entries(t, seqs) ==
  [i \in DOMAIN seqs |-> [seq |-> seqs[i], size |-> (CHOOSE r \in RowsOf(t) : r.k.s = seqs[i]).n]]

(* Mutant: from is the last number already seen. *)
IndexAfter(t, from, limit) ==
  Entries(t, FirstNumbers({r.k.s : r \in {q \in RowsOf(t) : q.k.s > from}}, limit))

Index(t, from, limit) ==
  Entries(t, FirstNumbers({r.k.s : r \in {q \in RowsOf(t) : q.k.s >= from}}, limit))

(* SUM(size): one for every unit of size of every row. *)
TotalOf(t) == Cardinality(UNION {{r} \X (1..r.n) : r \in RowsOf(t)})

(* One row per device and generation: the head and the sum of the sizes. *)
Manifest(p) ==
  {[stream |-> t, headSeq |-> HeadSeq(t), total |-> TotalOf(t)] :
   t \in {StreamOf(r.k) : r \in {q \in blob_log : q.k.p = p}}}

-------------------------------------------------------------------------------
(* Properties *)

Content == Upload \cup {"seed"}
LogRow == [k : Key, b : Content, n : 1..MaxChunks]
ChunkRow == [k : Key, i : 0..MaxChunks, b : Content]

UploadState ==
  [st : Outcome \cup {"new", "read", "insert_more", "insert_last", "insert_error", "log", "commit"},
   k : Key \cup {NoKey}, n : 0..MaxChunks]

DeleterState ==
  [st : Answered \cup {"new", "begin", "chunks", "between", "log", "commit"},
   kind : {"none", "prune", "erase"}, t : Stream \cup [p : Pseudonym \cup {"none"}],
   chunks : SUBSET ChunkRow, log : SUBSET LogRow, owed : SUBSET (LogRow \cup ChunkRow)]

ReaderState ==
  [st : {"new", "sized", "stream", "eof", "not_found", "internal"}, k : Key \cup {NoKey},
   size : 0..MaxChunks, snap : SUBSET ChunkRow, got : 0..MaxChunks]

(* The tables hold rows of their columns' types, and every call is at one  *)
(* of its control points with a key, a count and row sets of the right     *)
(* kind.                                                                   *)
TypeOK ==
  /\ blob_log \subseteq LogRow
  /\ blob_chunks \subseteq ChunkRow
  /\ up \in [Upload -> UploadState]
  /\ del \in [Deleter -> DeleterState]
  /\ rd \in [Reader -> ReaderState] /\ \A r \in Reader : rd[r].got <= rd[r].size

(* A blob that the log lists is there, whole and unmixed: its chunks are   *)
(* exactly the ones its own upload inserted, whatever uploads, prunes and  *)
(* erasures of the same key ran into each other, failed or lost their      *)
(* connection.  (Append: "a failed upload leaves no trace".)               *)
WholeBlobs ==
  \A r \in blob_log : {c \in blob_chunks : c.k = r.k} = Chunks(r.k, r.b, r.n)

(* The log rows that x has deleted for good: its COMMIT took effect, and   *)
(* at most its answer was lost.                                            *)
Removed(x) == IF del[x].st \in {"done", "internal"} THEN del[x].log ELSE {}

(* The row of u was deleted by a call that was made for its key. *)
WasRemoved(u) ==
  \E x \in Deleter :
    /\ Matches(del[x].kind, del[x].t, up[u].k)
    /\ \E r \in Removed(x) : r.k = up[u].k /\ r.b = u

(* What an upload was told is true ever after.  "Nothing is kept from a    *)
(* bad upload" (handlers/append.go), nor of an empty body or a lost race   *)
(* for the sequence number; and one that was answered as stored is listed, *)
(* with its own bytes, until a delete that was made for its key removed    *)
(* this very row and committed: no COMMIT that failed, no rolled back      *)
(* delete, none that looked before the row was there and none of anything  *)
(* else loses it.                                                          *)
AnswersAreTrue ==
  \A u \in Upload :
    /\ up[u].st \in {"conflict", "empty", "body_error"} =>
         \A q \in blob_log \cup blob_chunks : q.b # u
    /\ up[u].st = "stored" =>
         (\E r \in blob_log : r.k = up[u].k /\ r.b = u) \/ WasRemoved(u)

(* A unique violation can only be met at the first chunk: once that is in, *)
(* neither a later chunk nor the log row of the key can be committed or    *)
(* held by anyone else.  So a body of more than one chunk is never         *)
(* streamed to its end for a client to be told that another append holds   *)
(* the sequence.                                                           *)
ConflictsAreEarly ==
  \A u \in Upload :
    /\ up[u].n > 0 => \A i \in 0..MaxChunks : /\ ~ChunkHeld(u, up[u].k, i)
                                               /\ \A c \in blob_chunks : c.k # up[u].k
    /\ up[u].st = "log" => /\ ~LogHeld(u, up[u].k)
                           /\ \A r \in blob_log : r.k # up[u].k

(* What a delete was asked to remove is gone when it is answered: every    *)
(* row, of either table, that was committed before the call.               *)
DeletedForGood ==
  \A x \in Deleter : del[x].st \in {"done", "not_found"} =>
    del[x].owed \cap (blob_log \cup blob_chunks) = {}

(* Get: "a concurrent prune or erasure cannot make the promised            *)
(* Content-Length and the streamed bytes disagree", nor can a new blob for *)
(* the same key: what a finished download sent is all of one upload.       *)
ServesPromisedBytes ==
  \A r \in Reader : rd[r].st = "eof" =>
    rd[r].got = rd[r].size /\ \E b \in Content : rd[r].snap = Chunks(rd[r].k, b, rd[r].size)

(* blobstore.go, ErrSeqConflict: "Appends must be contiguous: a gap would  *)
(* leave a silent hole in a restore".                                      *)
Contiguous ==
  \A t \in Stream :
    {r.k.s : r \in {q \in blob_log : StreamOf(q.k) = t}} = 1..HeadSeq(t)

(* What the manifest says a stream takes is what is there to be            *)
(* downloaded: the sizes in the log are those of the chunks, and no chunk  *)
(* of another upload is among them.                                        *)
TotalsAddUp ==
  \A p \in Pseudonym : \A m \in Manifest(p) :
    m.total = Cardinality({c \in blob_chunks : StreamOf(c.k) = m.stream})

(* The restore walk, at any moment between uploads that succeed, fail or   *)
(* lose their connection: what the manifest advertises can be replayed     *)
(* page by page from the index up to the head, without a hole and without  *)
(* an empty entry.                                                         *)
RestoreWalk ==
  \A p \in Pseudonym : \A m \in Manifest(p) :
    \A from \in 1..m.headSeq + 1 : \A limit \in 0..DefaultIndexLimit + 1 :
      LET got == Index(m.stream, from, PageLimit(limit))
      IN  /\ from <= m.headSeq => got # <<>>
          /\ \A i \in DOMAIN got : /\ got[i].seq = from + i - 1
                                   /\ got[i].seq <= m.headSeq
                                   /\ got[i].size > 0

(* Of the generations in the retained window, which a restore starts from, *)
(* none ever has a hole.                                                   *)
WindowContiguous ==
  \A t \in Stream : InRetainedWindow(t.g, NewestGeneration(t.p, t.d)) =>
    {r.k.s : r \in {q \in blob_log : StreamOf(q.k) = t}} = 1..HeadSeq(t)

(* Chunks without a log row are "invisible storage leaked"                 *)
(* (postgres_test.go), and after an erasure they are data that was to be   *)
(* removed.                                                                *)
NoOrphanChunks == \A c \in blob_chunks : \E r \in blob_log : r.k = c.k

(* prune.go: "The server refuses to delete anything inside the retained    *)
(* window".  When a prune takes effect, the rows it removes are below the  *)
(* window as it then is.                                                   *)
RetentionFloor ==
  [][\A x \in Deleter : del[x].kind = "prune" /\ DeleteCommit(x) =>
       \A r \in blob_log \ blob_log' :
         ~InRetainedWindow(r.k.g, NewestGeneration(r.k.p, r.k.d))]_vars

-------------------------------------------------------------------------------
(* Where nothing is deleted, the store implements the interface: as the    *)
(* log of a stream read the bytes of its rows up to its head; an append is *)
(* open from its head check until its transaction ends.                    *)
BlobAt(t, i) == (CHOOSE r \in blob_log : StreamOf(r.k) = t /\ r.k.s = i).b

Abs == INSTANCE BlobStore WITH
  Caller  <- Upload,
  Blob    <- Upload,
  log     <- [t \in Stream |-> [i \in 1..HeadSeq(t) |-> BlobAt(t, i)]],
  pending <- [u \in Upload |-> IF up[u].st \in Outcome THEN NoKey ELSE up[u].k],
  reply   <- [u \in Upload |-> IF up[u].st \in Outcome THEN up[u].st ELSE "none"]

(* Concurrent appends are linearizable: each one that is answered "stored" *)
(* extended a gapless log by one, each one answered with a conflict was    *)
(* late at that moment, and one that lost its connection did either or     *)
(* nothing.                                                                *)
ImplementsBlobStore == Abs!Spec
===============================================================================
