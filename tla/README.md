# Verification of the private backup cache

TLA+ models of the backup cache server, TLC runs that check them on small
instances, and TLAPS proofs for instances of any size. Paths are relative to
the repository (`src/`).

## 1. The system

A client keeps encrypted backups on the server. Every device of an account
(`pseudonym`) writes *generations*, each of them a *stream*: a log of blobs
numbered 1, 2, 3, ... that a restore replays from the start. When a device
compacts it starts a new generation and prunes old ones. Each request carries
a signed, single-use proof. Any number of replicas may run against one Postgres
database; a single process may run on memory alone.

| Component | Source | State | Operations |
|---|---|---|---|
| Addressing, store interface | `internal/blobstore/blobstore.go`, `internal/server/handlers/handlers.go` | none | key ranges, retention rule, the interface's contract |
| Memory store | `internal/blobstore/memory.go` | a map under a read-write mutex | Append, Get, Index, Manifest, DeleteGeneration, DeleteAccount |
| Postgres store | `internal/blobstore/postgres.go` | tables `blob_log`, `blob_chunks` | the same, as transactions of several statements |
| Auth proof middleware | `internal/server/middlewares/authproof.go`, `internal/authproof/` | none of its own; reads the clock | Sign (client), Verify, then Consume |
| Nonce stores | `internal/nonce/` | a map, or the table `auth_nonces` | Consume (with its sweep) |
| Upload body pipeline | `internal/server/server.go` (maxBody), `middlewares/authproof.go` (digestVerifyingBody), the stores' read loops | bytes counted, flags `over`, `failed` | Read through all layers, the answer through sizeGuard |
| HTTP handlers | `internal/server/handlers/` | none | parameter checks, mapping of errors to answers |
| Router, timeouts, CORS | `internal/server/` | none | StreamTimeout bounds every body |
| Connection pool | `internal/blobstore/postgres.go`, `internal/nonce/postgres.go` | 25 connections | taken by every statement, kept by every transaction |
| Go and TypeScript clients | `client/`, `ts-client/` | cached limits (Go: under a mutex) | one proof per attempt; Go: one retry of a bodyless request |
| Start-up, configuration | `cmd/server`, `internal/config` | the database schema | migrations, listening, SIGTERM, closing the store |
| Tracing, telemetry, logging | several | none that requests depend on | |

How they interact: the middleware verifies a proof and consumes its nonce, then
hands the body to the handler wrapped in two readers; the handler calls the
blob store, which *reads the body while its transaction is open* (Postgres) or
between two critical sections (memory). So an append lasts as long as its body
takes, up to StreamTimeout, and every other call may run in the meantime.

What is hard here:

- **Interleaving**: appends check the head of a stream, then stream for
  minutes, then write. Prunes and erasures run in between.
- **Isolation levels**: Postgres transactions are READ COMMITTED (each
  statement has a snapshot of its own), except downloads; conflicting inserts
  wait for each other.
- **Failure**: a body breaks off, a connection is lost before or after COMMIT
  took effect, a nonce is recorded and the answer is lost.
- **Time**: the client, each replica and the nonce store have clocks of their
  own; a proof is verified at one moment and consumed at another.
- **Delivery**: the transport sends a request again without telling the client,
  and the copies reach the server in any order, some after the call returned.
- **Waiting**: calls of a client wait for the mutex of the limits, requests for
  one of the shared connections, transactions for each other's rows.
- **Start-up**: replicas run migrations that look and then act, side by side,
  and die half way through them.
- **Errors that travel with bytes**: `io.Reader` may return both, and
  `io.ReadFull` drops or renames errors.

What makes it correct: streams have no gaps; nothing is overwritten; listed
blobs are whole; a refused upload leaves nothing; a prune respects the retained
window; an erasure erases; a proof admits one request; only signed bytes are
stored; a request that is sent again takes effect once; replicas agree on a
complete schema; every call returns. `PROJECT.json` lists the hazards by line with the
properties that are about each.

## 2. The modules

```
BlobKeys ── keys, ranges, retention rule        BlobKeysProofs
   ├── BlobStore      what the interface promises (abstract)
   ├── MemoryStore    implements BlobStore      MemoryStoreProofs   MCMemoryStore
   ├── PostgresStore  implements it for appends PostgresStoreProofs MCPostgresStore
   │     └── PooledStore  with auth and pool    PooledStoreProofs   MCPooledStore
   └── Client         calls, copies, replays    ClientProofs        MCClient
AuthProof   proofs, clocks, nonces              AuthProofProofs     MCAuthProof
BodyStream  one upload's body and answer        BodyStreamProofs
Boot        replicas, migrations, shutdown      BootProofs
```

**BlobKeys.** `Key`, `Stream`, the accepted ranges, `InRetainedWindow` (the
guard of both `DeleteGeneration`s), the page size of the index handler. The
code bounds `seq` and `generation` by 2^30; here these bounds are constants.

**BlobStore** (abstract). `log[t]` is the sequence of blobs of stream `t`.
Every operation takes effect in the step that answers it: an append answered
"stored" extended its log by one in that step, a conflict was one at that
moment, `AppendUnknown` is the error after the commit took effect.

**MemoryStore.** `rows` is the map, `draining[c]` the key whose body caller `c`
is reading with the mutex free, `reply[c]` its last answer. One critical
section is one action. `AppendCheck` is Append up to the drain, `AppendAbort`
the drain that fails or is empty, `AppendStore` the second check and the write.
`Index` and `Manifest` are operators, since they change nothing.

**PostgresStore.** `blob_log` and `blob_chunks` hold *committed* rows. `up[u]`,
`del[x]`, `rd[r]` are the control points of one call each, with what its open
transaction has inserted (`up[u].n` chunks) or deleted (`del[x].chunks`,
`del[x].log`). One action is one statement or one read of the body:

| Actions | Code |
|---|---|
| `AppendBegin`, `ReadChunk`, `ReadEnd`, `InsertChunk`, `InsertLog`, `AppendCommit` | `Append`: BEGIN and head check, `io.ReadFull`, the two INSERTs, COMMIT |
| `PruneCheck` | `DeleteGeneration`'s guard, a query outside the transaction, and BEGIN |
| `EraseBegin` | `DeleteAccount`'s BEGIN |
| `DeleteChunksStart`/`DeleteChunks`, `DeleteLogStart`/`DeleteLog`, `DeleteCommit` | the two DELETEs (snapshot, then rows once nobody holds them) and COMMIT |
| `GetSize`, `GetChunks`, `ReadRow` | `Get` and `chunkReader` in one REPEATABLE READ transaction |
| `AppendFail`, `DeleteFail`, `GetFail` | any error, cancelled request or crash before COMMIT took effect |

The header of the module says what is assumed of Postgres: snapshots per
statement, waiting on uncommitted keys and rows, unique violations, atomic
COMMIT. A commit whose answer is lost is part of the two Commit actions.

**AuthProof.** `now` is the clock of the nonce store; clients and replicas have
theirs at an offset. `expiresAt` holds the signed proofs, `seen` the recorded
nonces, `req[d]` where delivery `d` is; several deliveries may carry the same
proof. `Sign`, `Verify`, `ConsumeMemory`, and for the table `Sweep`, `Insert`,
`InsertFails`. Time passes between any two of them (`Tick`). The cryptography
is taken as sound: `Verify` may refuse any request, and never accepts a proof
that was not signed.

**BodyStream.** One upload. `NetRead` is what `net/http` may return, `Count` is
`countingBody`, `Digest` is `digestVerifyingBody`, `Wrapped` their composition;
`ReadFull` with `StoreChunk` is the read loop of the Postgres store, `ReadAll`
that of the memory store; `Answer` is `sizeGuard`. Bytes are counted, and
`request.honest` says whether the whole body hashes to the signed digest.
`ContextEnded`: `net/http` cancels the request's context when it meets the end of
a connection, before the body returns `io.ErrUnexpectedEOF`, and the Postgres
store's statements and COMMIT fail on it.

**PooledStore** extends PostgresStore by what comes before a store call and by
the connections. `auth[s]` says how far request `s` is. `Holders` are the
sessions whose transaction is open, and a connection is `Free` while they are
fewer than `Conns`. `Consume` (the nonce) needs a free connection and returns
it; so does the check of a prune; `StoreCall` opens the transaction of an append
or a download and the first DELETE that of a prune or an erasure; the other
statements run on the connection the session has (`Granted`). `Traffic` says
which calls are made together. `GoesOn` says, without ENABLED, that the next
statement of a call waits for no row; on all states of `postgres_overlap`
`Granted(s) /\ GoesOn(s)` was found to agree with `ENABLED TransactionStep(s)`.

**Client.** One client object, Go or TypeScript, and the calls made through it.
`limits` and `mu` are the cache and its mutex (`Limits`, `Fetched`,
`FetchFailed`; `LimitsTs` has no mutex). `Send` signs a proof and puts the first
copy of an attempt on the wire, `Resend` another copy with the same proof,
`Lose` drops one, `GiveUp` is the end of the caller's patience. `Authenticate`
is the middleware as AuthProof has it, without the clock; `OpenAppend` and
`Handle` are the handlers on the interface of BlobStore, which is instantiated
with one caller per copy. `Receive` is `do`: the answer goes to the caller, or
`Retries` and a second attempt is made. Answers that nobody awaits are dropped
when they are given; an answer lost later is one with an answer to a copy
already superseded. `copy[d].did` records whether copy `d` changed the store.

**Boot.** `objects` are the tables and indexes, `old` whether `blob_log` is the
pre-streaming table, `rows` whether it holds an acknowledged entry. `rep[r]` is
a process: the migration it is at (`Look`, then `Drop` or `Create`), serving,
draining, closing. A failed migration is an exit, and a supervisor starts the
process again (`Start`). `Stop`, `Shutdown`, `CloseStore`, `End` are the end of
`main`, in its order; `Fault` is a crash or a failed statement. What is assumed
of DDL in Postgres is in the module's header.

Operators introduced by a comment "Mutant: ..." are not part of any
specification. Each is a plausible mistake in the definition that follows it;
with it in place one of the runs fails, which shows that the property depends
on that piece of code.

## 3. The runs

Passing runs:

| Run | Instance | Shows |
|---|---|---|
| `memory` | 2 callers, 2 blobs, 3 generations, 2 sequence numbers | no gap, no overwrite, no cut into the window, every page of every advertised stream is right, refinement of BlobStore |
| `postgres_append` | 3 uploads of up to 2 chunks into 3 sequence numbers | without deletes: linearizable to BlobStore, no stray chunk, the totals of the manifest are the chunks there are, what it advertises can be replayed |
| `postgres_overlap` | a download with 2 uploads and an erasure, or with an upload and 2 erasures, or an upload, an erasure and a prune, of one key; 3 connections | listed blobs are whole and unmixed, what uploads were told stays true (a stored row is there until a committed delete for its key removed it), a conflict is met before the second chunk, erasures remove all that was there before them, the pool is never stuck, every request is answered |
| `postgres_prune` | 1 upload, 2 prunes, 1 download, generations 1..3 in place and a 4th possible | the window keeps its floor and has no holes, downloads are as long as promised and of one upload |
| `authproof` | 2 proofs, 3 deliveries, both nonce stores | single use while valid, nonces belong to verified requests, no false replay, records expire |
| `body` | bodies of 0..8 units, cap 6, buffer 3, both stores | stored bytes are the whole signed body, however it was read or broke off, oversize is 413, a mismatch means other bytes |
| `client` | 2 calls of one client (append, get or prune; append or erase), 2 attempts of up to 2 copies, 2 resends in all | one fetch at a time, appends take effect once, retries only after a replay refusal, one resend is recovered, no effect after a success, every call returns |
| `boot` | 3 replicas, empty, old or current database, 1 crash, 1 stop | in the end all serve a complete schema; once one serves and none is still at the first migration, no entry is lost; stops drain and end |

Runs that refute a statement of the repository (section 6): `postgres_gap`,
`postgres_orphan`, `postgres_floor`, `boot_drop` (2 replicas, old database, no
crash).

**Why the bounds are enough to be interesting.** Two callers give one append
whose body drains while the other does anything. Three generations with a
window of two leave one that may be pruned; the Postgres run adds a fourth, so
that the window moves during a prune. Two chunks tell the first from a later
one and a partial upload from a whole one. Two index entries per page and up to
three entries give page borders. In AuthProof three deliveries of two proofs
give a duplicate beside an unrelated request; window 2, skew 1 and drifts from
-1 to 3 with seven units of time put proofs on either side of each comparison,
and long after it. A body of 8 with cap 6 and buffer 3 can end exactly at, one
before and one after a buffer border and the cap. Four requests on three
connections leave one waiting at any time, and three transactions can overlap.
Two calls of a client give one that waits for the other's fetch, and a log that
changes under a late copy; the append of entry 1 after an erasure is what a late
copy of the erasure would destroy. Two resends are what it takes to exhaust the
one retry. Three replicas give one that looks, one that creates and one that
already serves. Account and device are single
in every instance: no operation reads rows of another account, and the proofs
about both stores cover any number of both.

Symmetry (callers, blobs, uploads, deleters, proofs, deliveries) is used in
runs without liveness only. The Postgres, AuthProof and Client instances make a
fixed number of calls and then stop, so deadlock is not checked there;
`EveryRequestAnswered` and `EveryCallReturns` check in its stead that no call is
stuck on the way.

**Fairness** is weak fairness throughout, of steps that the code or its
environment takes as soon as it can; failures are never obliged to happen.

- `postgres_overlap`: each session goes on when it can. A body cannot stall for
  ever because StreamTimeout ends it, and Postgres runs a statement once nothing
  holds the rows it waits for. `database/sql` wakes waiting requests in no
  particular order; weak fairness is enough because the requests of an instance
  are finitely many. Under unending load a request might be passed over for ever;
  the model does not rule that out and the code does not either.
- `client`: a call goes on, the fetch of the limits ends one way or the other
  (the caller's context or the transport ends it), the server answers a request
  that reaches it, and a call whose copy is lost gives up in the end.
- `boot`: `main` goes on, `Shutdown` returns (it has a deadline), and the
  supervisor restarts what exited. Handlers are *not* assumed to end.

## 4. The proofs

The proofs hold for all values of the constants under the named assumptions,
which TLC evaluates in every run:

| Assumption | Says |
|---|---|
| `BoundsAssumption` | bounds are naturals, a page has room for an entry |
| `StoreAssumption` | a chunk is possible, a delete is a prune or an erasure, seeded bytes are those of no upload |
| `PoolAssumption` | the pool has a connection, a session is an upload, a delete or a download |
| `ClientAssumption` | requests are well-formed, a copy is possible, the names of calls are not those of answers |
| `TimeAssumption` | the window is positive, clocks are integers |
| `SizeAssumption` | cap and buffer are positive |
| `BootAssumption` | there is a replica |

Each module proves `Invariance`, that an inductive invariant `IInv` always
holds, and derives the properties from it. `IInv` was checked by TLC on the
instance of the run before it was proved. The proofs about a step go by the
actions; where many actions do the same sort of thing, a predicate says what
(`CallMoves`, `CopyMoves` in ClientProofs, for instance), one lemma shows that
such a step keeps `IInv`, and one lemma per action that it is such a step.

**BlobKeysProofs** holds the facts about the shared operators: the stream of a
key, the maximum that `MAX()` finds, and `PageOfInterval`, what a page of a
gapless index is.

**MemoryStoreProofs.** `IInv == TypeOK /\ Gapless`, where `Gapless` says of
every stream that its numbers are `1..n` for some `n`. That form, rather than
`Contiguous` with its maximum, is what a step preserves: `WriteAtHead` (writing
`n+1` makes `1..n+1`) and `DeleteStreams` (removing whole streams) are the two
ways `rows` changes. From it: `TypeCorrect`, `AlwaysContiguous`,
`NeverOverwrites` (the key one past the head is not in the map; the `memory` run
covers it by the refinement),
`PruneRespectsWindow`, `RestoreReachesHead` (with `CountOfKeys`: a gapless stream
has as many keys as its head says), and `Refinement`, that every step is a step
of BlobStore or a stutter. The latter needs that the mapped log of a stream has
as many entries as its head says (`LogFacts`), that the write extends exactly one
log (`WriteExtends`) and that both sides find the same newest generation.

**PostgresStoreProofs.** None of the properties is inductive, because what a
statement may do depends on what other open transactions have done and not yet
committed. `IInv` says so of each: nobody has seen a row of an upload before its
COMMIT (`Unseen`); an upload with a chunk in has its key for itself
(`Exclusive`); chunks come and go by blobs (`FirstChunks`, and `AllOfAKey` for
what a DELETE has picked); what a delete holds is committed and held by no other
(`Held`); its second DELETE finds the log row of every chunk of its first
(`LogCovered`); it is after what its call named and all of it that was there
(`OnTarget`); and a download's snapshot is a whole blob (`Snapshots`). The order
of the two DELETEs and of the two INSERTs is what `LogCovered` and `Exclusive`
rest on. From it, with any number of uploads, prunes, erasures and downloads:
`ListedBlobsAreWhole`, `FirstChunkDecides`, `DeletesAreForGood`,
`DownloadsAreComplete`, `EntriesAreImmutable`, and

- `AnswersStayTrue`. It takes a second invariant on top of `IInv`, `StoredIsKept`:
  a stored upload is listed (and then whole), or a delete made for its key has
  removed this very row and committed (`WasRemoved`; a delete that was rolled back
  has removed nothing). The step that could break it is the COMMIT of a delete:
  that it removes only what matches its call is `OnTarget`.
- `ManifestCountsListed`: the total of a stream is the number of its chunks that
  belong to a listed blob. `SUM(size)` is modelled as the number of pairs of a row
  and one of its chunk numbers, which takes no recursion, and `TotalIsListed` maps
  those pairs one to one to the chunks.
- `EveryStepIsProgress`: every call has a rank, bounded by its chunks, that is 0
  when it is answered; each step lowers the rank of the call that takes it and
  leaves all other calls where they are.

The properties that section 6 refutes in general are proved where they do hold,
and the theorems say where:

- nobody deletes (`Deleter = {}`): `AppendsLeaveNoOrphans` and so `AppendsAddUp`,
  that the manifest leaves out no chunk; if the streams have no
  hole at first (`SeedGapless`), `AppendsAreContiguous` and `AppendsCanBeReplayed`;
  and from an empty database (`Seed = {}`), `AppendsImplementBlobStore`, that every
  step is a step of BlobStore or a stutter. `AppendInv` adds to `IInv` that a key
  has one row, that there is no stray chunk and that every stream is `1..n`. The
  step that needs it is the conflict: whoever finds a chunk of its key in the
  way finds it committed, so its blob is listed and the number is taken *now*.
- nobody erases, and every device had something at first (`Eraser = {}`,
  `EveryDeviceSeeded`, `SeedGapless`): `PrunesKeepTheFloor` and `WindowHasNoHoles`.
  `WindowInv` says that the newest generation of a device never goes back, so that
  what was below the window when a prune looked still is when it commits. Of a
  device that had nothing, a prune's look finds no newest generation and lets
  everything go: that is `postgres_floor`.

**PooledStoreProofs.** `PoolOnlyDelays`: every behaviour behind the pool is one of
PostgresStore, so the unconditional theorems carry over to the specification that
`postgres_overlap` runs.

`PoolIsNeverStuck` is about waiting in circles, for any number of connections and
requests. Everybody takes chunk rows before log rows, and that ranks the open
transactions by whom they can wait for (`SomeoneGoesOn`): a delete past its
statements waits for nobody, one at its second DELETE for those, one at its first
for these; an upload with a chunk in has its key for itself (`ConflictsAreEarly`)
and waits for nobody; a download waits for nobody; and an upload without a chunk
only for the others. Someone of the lowest rank there is goes on.
No holder needs another connection (`HoldersAreGranted`). `NoStandstill` adds the
requests that are still to be authenticated: until all are answered one can take a
step, and by `EveryPooledStepIsProgress` that step brings an answer nearer.

**ClientProofs.** The state of a call says little about copies of its request that
are still about. `IInv` says what its *answer* says about them (`Means`): a
replay refusal means that the proof is on record and the attempt was sent more
than once; an answer of the store means that no copy of that attempt is at work
or will be (`Settled`: one was let through, is through, and the proof is on
record); "stored" and "conflict" mean that it did or did not change the store.
What makes this last is `Grows`: proofs stay on record, and none is let through
whose proof is. `ProofsPassOnce` says that one copy per proof is let through,
`CopiesAreSent` that copies exist only of attempts the call has come to,
`RetriesOnce` what a second attempt presupposes. From it: `TypeCorrect` (with
the mutex), `RetriesAreEarned`, `UploadsTakeEffectOnce`, `RetryRecovers`,
`NothingLandsLate`. `EffectsCounted` counts effects by the attempts that had one.
`EveryStepIsProgress` ranks calls by the copies and the retry they have left, and
copies by what the server has yet to do; `CallsNeverStuck` is about the mutex.

**BootProofs.** `IInv` relates the schema to how far *every* replica is: nobody is
past the first migration while the old table is there (`OldIsThere`), an object
is missing only while some replica has yet to come to it (`MissingIsToCome`,
since the replica that drops the old table still has all of them before it), and
on a database that never held the old table what anybody has passed is there
(`NothingDropped`). From it: `TypeCorrect`, `SchemaIsComplete`, `StopsDrain`, and
`SettledEntriesAreKept`. The latter goes by a predicate that is stable once it
holds (`Settled`: the old table is gone and nobody is between the look and the
DROP); a serving replica brings it about by `OldIsThere`.

**AuthProofProofs.** The properties alone are not inductive. `IInv` adds that no
consumption lies in the future (`Dated`), that a proof which let a request
through is on record or has expired (`Recorded`), and that a request waiting
between Verify and Consume was verified within the bound (`InTime`).
`Recorded` is what makes `UsedOnceWhileValid` go through: a second success
needs the record gone, and a sweep takes it only after the expiry. Also
`TypeCorrect`, `NoncesBelongToRequests`, `ReuseIsReal`, `RecordsAreBounded`.

**BodyStreamProofs.** `IInv` adds `Counted` (`over` is set exactly when more than
the cap was read) and `ErrorsMean` (what each error at each control point says
about the body read so far). `WrappedMeans` derives the latter for one Read
through all layers. An `io.ErrUnexpectedEOF` that ends the loop stands for the end
of the signed body or for a lost connection; in the latter case the context has
ended and "created" is out of reach (`AnswerPreserves`). Then `TypeCorrect`, `StoredBodiesAreSigned`,
`OversizeIsRefused`, `MismatchesAreReal`.

**Only model-checked**: what must happen in the end (`EveryRequestAnswered`,
`EveryCallReturns`, `EveryStopEnds`, `AllServeInTheEnd`), as liveness under
fairness is out of reach of the proof system used. Of the first two the safety
part is proved: somebody can always go on, and every step is one of boundedly many.
What is left to the runs is that weak fairness turns "can" into "does".

## 5. Abstractions

A blob stands for its bytes, digest and length; in PostgresStore the upload it
came from stands for the bytes and the number of chunks for the size. `createdAt`
and `prevSha256` are stored and listed but no operation depends on them.
Parameter parsing is the range it accepts. Whether a body is good is a choice
in the stores' models and the subject of BodyStream. In Client a blob is the
call that wrote it, all reads are one operation, and every error but the replay
refusal is "failed". In Boot an append is one step of a serving replica.

## 6. What the runs found

| Run | The code | What is said of it |
|---|---|---|
| `postgres_gap` | an erasure commits while an append streams; the append then commits entry 3 into an empty log (`postgres.go:117`) | "Appends must be contiguous" (`blobstore.go:18`) |
| `postgres_orphan` | an append that commits between the two DELETEs of an erasure loses its log row and keeps its chunks (`postgres.go:395`) | "an erasure request is all-or-nothing" (`postgres.go:381`) |
| `postgres_floor` | a prune looks for the newest generation before a device's first append and deletes after it (`postgres.go:340`) | "refuses to delete anything inside the retained window" (`prune.go:16`) |
| `boot_drop` | a replica that was slow between its look for the old table and the DROP drops the new table that another one has created and filled (`postgres.go:29`) | "drops the pre-streaming table [...] if it is what's there" (`postgres.go:25`) |

The passing runs say how far the damage goes: without deletes the Postgres
store has neither gaps nor orphans (`postgres_append`); with prunes alone the
retained window has no holes (`postgres_prune`); listed blobs are whole in all
cases (`postgres_overlap`); a second use of a proof happens only after its
expiry; and starting one replica first, until it serves, makes the migration from
the old table safe (`SettledEntriesLast` in `boot`).

`body` shows what an integrity guarantee rests on. The Postgres store's loop leaves
on `io.ErrUnexpectedEOF` as on EOF (`postgres.go:147`), although a lost connection
gives that error without a digest comparison. Such a body is not stored only
because the statements and the COMMIT run on `r.Context()`, which has been
cancelled by then: with a context of its own (`ContextDetached`) `StoredIsSigned`
fails.

Three more disagreements are not runs of their own. Each shows when the weaker
property that is checked is replaced by the plain one:

- The retention guard counts generation numbers, not generations: a device that
  holds 1 and 3 may prune 1 (`memory.go:181`), while `client.go:264` says the
  server "refuses the newest two".
- A proof verified just before its expiry and consumed after the sweep is let
  through a second time (`middlewares/authproof.go:79`), while `nonce.go:14` says
  "exactly once per nonce". `SingleUseWhileValid` is what holds.
- When an erasure is retried, the handler of its first attempt may still be at
  work when the second is answered, and erase what was appended since
  (`client.go:320`). `NoLateEffect` therefore excepts first attempts of calls that
  retried; "can safely retry" (`client.go:278`) is true of the answer only.

## 7. Not modelled

- How a client reads a whole backup back (manifest, pages, downloads) against
  concurrent prunes: `RestoreWalk` looks at one moment only.
- Requests with parameters outside their ranges: they are refused before any
  state is touched. An index request whose `from` exceeds the column's range is
  answered by an error of the database.
- Which of several refusals an oversize chunked upload gets (`server.go:127`).
- Health checks and idle or expired connections of the pool.
- Routing, CORS, response writing, telemetry, tracing, configuration: no state
  that the properties above depend on.

## 8. Plan

Done: BlobKeys, BlobStore, MemoryStore, PostgresStore and PooledStore on top of
it, AuthProof, BodyStream, Client and Boot, each with its proofs. Every safety
property of a passing run has a theorem.

Next: the refinement of BlobStore with deletes where it holds, i.e. the weakest
restriction on erasures under which the Postgres store stays linearizable; and
`Restore`, a client that walks manifest, index pages and downloads against
concurrent appends, prunes and erasures.
