------------------------------ MODULE MemoryStore ------------------------------
(***************************************************************************)
(* blobstore.MemoryStore: one map under one read-write mutex, called by    *)
(* any number of request goroutines (Caller).                              *)
(*                                                                         *)
(* Everything done while the mutex is held is one step.  Append takes it   *)
(* twice, first to compare the sequence number with the head and, after    *)
(* the body was drained with the mutex free, to compare again and write:   *)
(* AppendCheck and AppendStore.  Anything may happen between the two.      *)
(*                                                                         *)
(* A blob stands for its bytes, their sha256 and their length.             *)
(***************************************************************************)
EXTENDS BlobKeys, Sequences

CONSTANTS Caller, Blob

VARIABLES
  rows,      \* the map: a function from the keys it holds to blobs
  draining,  \* draining[c]: the key whose body c reads, or NoKey
  reply      \* reply[c]: what the last call of c returned

vars == <<rows, draining, reply>>

(* No body is being read. *)
NoKey == [p |-> "none"]

Answer == Blob \cup {"none", "stored", "conflict", "empty", "body_error",
                    "not_found", "retention_guard", "pruned", "erased"}

Init ==
  /\ rows = [k \in {} |-> {}]
  /\ draining = [c \in Caller |-> NoKey]
  /\ reply = [c \in Caller |-> "none"]

Idle(c) == draining[c] = NoKey

Return(c, r) ==
  /\ draining' = [draining EXCEPT ![c] = NoKey]
  /\ reply' = [reply EXCEPT ![c] = r]

-------------------------------------------------------------------------------
(* What the scans over the map compute. *)

KeysOfStream(t) == {k \in DOMAIN rows : StreamOf(k) = t}

KeysOfDevice(p, d) == {k \in DOMAIN rows : k.p = p /\ k.d = d}

(* headSeqLocked *)
HeadSeq(t) == MaxOrZero({k.s : k \in KeysOfStream(t)})

NewestGeneration(p, d) == MaxOrZero({k.g : k \in KeysOfDevice(p, d)})

Without(ks) == [k \in DOMAIN rows \ ks |-> rows[k]]

-------------------------------------------------------------------------------
(* Append up to the drain: the advisory check under the read lock. *)
AppendCheck(c, k) ==
  /\ Idle(c)
  /\ IF k.s = HeadSeq(StreamOf(k)) + 1
     THEN /\ draining' = [draining EXCEPT ![c] = k]
          /\ reply' = [reply EXCEPT ![c] = "none"]
     ELSE Return(c, "conflict")
  /\ UNCHANGED rows

(* Mutant: no check for an empty body, which is stored like any other. *)
AppendAbortKeepsEmpty(c) ==
  /\ ~Idle(c)
  /\ rows' = [x \in DOMAIN rows \cup {draining[c]} |-> IF x = draining[c] THEN "" ELSE rows[x]]
  /\ Return(c, "stored")

(* io.ReadAll failed (connection, size cap, digest) or read no bytes. *)
AppendAbort(c) ==
  /\ ~Idle(c)
  /\ \E r \in {"body_error", "empty"} : Return(c, r)
  /\ UNCHANGED rows

(* Mutant: the check before the drain is the only one. *)
AppendStoreUnchecked(c, b) ==
  /\ ~Idle(c)
  /\ LET k == draining[c]
     IN  rows' = [x \in DOMAIN rows \cup {k} |-> IF x = k THEN b ELSE rows[x]]
  /\ Return(c, "stored")

(* The rest of Append, under the write lock: the same check again, against *)
(* whatever the map holds by now, and the map write.                       *)
AppendStore(c, b) ==
  /\ ~Idle(c)
  /\ LET k == draining[c]
     IN  IF k.s = HeadSeq(StreamOf(k)) + 1
         THEN /\ rows' = [x \in DOMAIN rows \cup {k} |-> IF x = k THEN b ELSE rows[x]]
              /\ Return(c, "stored")
         ELSE /\ Return(c, "conflict")
              /\ UNCHANGED rows

(* The blob is copied out under the lock, so the caller's stream cannot    *)
(* change under it.                                                        *)
Get(c, k) ==
  /\ Idle(c)
  /\ Return(c, IF k \in DOMAIN rows THEN rows[k] ELSE "not_found")
  /\ UNCHANGED rows

(* Mutant: the window is one generation short, only the newest is kept. *)
DeleteGenerationOffByOne(c, t) ==
  /\ Idle(c)
  /\ IF NewestGeneration(t.p, t.d) > 0 /\ t.g >= NewestGeneration(t.p, t.d)
     THEN /\ Return(c, "retention_guard")
          /\ UNCHANGED rows
     ELSE /\ rows' = Without(KeysOfStream(t))
          /\ Return(c, IF KeysOfStream(t) = {} THEN "not_found" ELSE "pruned")

(* The handler answers a prune that removed no rows with 404. *)
DeleteGeneration(c, t) ==
  /\ Idle(c)
  /\ IF InRetainedWindow(t.g, NewestGeneration(t.p, t.d))
     THEN /\ Return(c, "retention_guard")
          /\ UNCHANGED rows
     ELSE /\ rows' = Without(KeysOfStream(t))
          /\ Return(c, IF KeysOfStream(t) = {} THEN "not_found" ELSE "pruned")

(* Mutant: the retention guard applies to an erasure too. *)
DeleteAccountGuarded(c, p) ==
  /\ Idle(c)
  /\ rows' = Without({k \in DOMAIN rows :
                        k.p = p /\ ~InRetainedWindow(k.g, NewestGeneration(k.p, k.d))})
  /\ Return(c, "erased")

DeleteAccount(c, p) ==
  /\ Idle(c)
  /\ rows' = Without({k \in DOMAIN rows : k.p = p})
  /\ Return(c, "erased")

Next ==
  \E c \in Caller :
    \/ \E k \in Key : AppendCheck(c, k)
    \/ AppendAbort(c)
    \/ \E b \in Blob : AppendStore(c, b)
    \/ \E k \in Key : Get(c, k)
    \/ \E t \in Stream : DeleteGeneration(c, t)
    \/ \E p \in Pseudonym : DeleteAccount(c, p)

Spec == Init /\ [][Next]_vars

-------------------------------------------------------------------------------
(* What the read calls return. *)

KeyAt(t, i) == [p |-> t.p, d |-> t.d, g |-> t.g, s |-> i]

Entries(t, seqs) == [i \in DOMAIN seqs |-> [seq |-> seqs[i], blob |-> rows[KeyAt(t, seqs[i])]]]

(* Mutant: from is the last number already seen. *)
IndexAfter(t, from, limit) ==
  Entries(t, FirstNumbers({k.s : k \in {x \in KeysOfStream(t) : x.s > from}}, limit))

(* Index: the entries of a stream from a sequence number on. *)
Index(t, from, limit) ==
  Entries(t, FirstNumbers({k.s : k \in {x \in KeysOfStream(t) : x.s >= from}}, limit))

(* Manifest: for each device and generation that holds anything, the entry *)
(* with the highest sequence number and how much there is in all.          *)
Manifest(p) ==
  {[stream |-> t,
    headSeq |-> HeadSeq(t),
    head |-> rows[CHOOSE k \in KeysOfStream(t) : k.s = HeadSeq(t)],
    total |-> Cardinality(KeysOfStream(t))] :
   t \in {StreamOf(k) : k \in {x \in DOMAIN rows : x.p = p}}}

-------------------------------------------------------------------------------
(* Properties *)

(* Every row is a blob under a well-formed key, every call in flight has a *)
(* well-formed key and every answer is one the API has.                    *)
TypeOK ==
  /\ DOMAIN rows \subseteq Key
  /\ \A k \in DOMAIN rows : rows[k] \in Blob
  /\ rows = [k \in DOMAIN rows |-> rows[k]]
  /\ draining \in [Caller -> Key \cup {NoKey}]
  /\ reply \in [Caller -> Answer]

(* "Appends must be contiguous: a gap would leave a silent hole in a       *)
(* restore" (blobstore.go, ErrSeqConflict): the sequence numbers a stream  *)
(* holds are 1..n, however appends, prunes and erasures interleave with    *)
(* bodies that are still being read.                                       *)
Contiguous ==
  \A t \in Stream : {k.s : k \in KeysOfStream(t)} = 1..HeadSeq(t)

(* "an overwrite would destroy a backup entry" (blobstore.go): a key that  *)
(* holds a blob holds that blob until it is deleted, so Append's map write *)
(* never replaces anything.                                                *)
NoOverwrite ==
  [][\A k \in DOMAIN rows : k \in DOMAIN rows' => rows'[k] = rows[k]]_vars

(* A step that removes rows removes whole streams, so a restore never meets *)
(* a log cut off in the middle; and unless the step is an erasure, the      *)
(* newest generation of each device and the one numbered just below it are  *)
(* never the ones that go (prune.go: "The server refuses to delete anything *)
(* inside the retained window").                                            *)
RetentionFloor ==
  [][\A k \in DOMAIN rows \ DOMAIN rows' :
       /\ \A x \in DOMAIN rows' : StreamOf(x) # StreamOf(k)
       /\ \/ \E c \in Caller : DeleteAccount(c, k.p)
          \/ k.g <= NewestGeneration(k.p, k.d) - RetainedGenerations]_vars

(* The restore walk: every stream the manifest advertises can be replayed  *)
(* from its index by asking again and again for the entries past the last  *)
(* one received, whatever page size is asked for: each page but the last,  *)
(* empty one starts where the one before ended, has no hole and does not   *)
(* go past the advertised head, which is its entry's.                      *)
RestoreWalk ==
  \A p \in Pseudonym : \A m \in Manifest(p) :
    /\ m.total = m.headSeq
    /\ \A from \in 1..m.headSeq + 1 : \A limit \in 0..DefaultIndexLimit + 1 :
         LET got == Index(m.stream, from, PageLimit(limit))
         IN  /\ from <= m.headSeq => got # <<>>
             /\ \A i \in DOMAIN got : /\ got[i].seq = from + i - 1
                                      /\ got[i].seq <= m.headSeq
                                      /\ got[i].seq = m.headSeq => got[i].blob = m.head

-------------------------------------------------------------------------------
(* The store implements the interface: as the log of a stream read the     *)
(* blobs at 1, 2, ... up to its head.                                      *)
LogOf(t) == [i \in 1..HeadSeq(t) |-> rows[KeyAt(t, i)]]

Abs == INSTANCE BlobStore
         WITH log <- [t \in Stream |-> LogOf(t)], pending <- draining

(* MemoryStore is a BlobStore: each step is a step of the interface's      *)
(* specification or changes nothing of it.                                 *)
ImplementsBlobStore == Abs!Spec
===============================================================================
