---------------------------- MODULE Persistence -----------------------------
(***************************************************************************)
(* src/persistence/persistence.rs: the append-only log (AOL), the full     *)
(* snapshot that truncates it, the append and fsync workers, shutdown,     *)
(* crashes, and load.  Commits push into the datastore and then append to  *)
(* the log, as TransactionInner::commit does; their versions are unique    *)
(* and ascending here (module CommitPipeline asks whether they are).       *)
(*                                                                         *)
(* The log is a sequence of records, one per key written, of which the     *)
(* first `synced' are on the medium; the rest is in the page cache.  File  *)
(* positions count records.  A record cut short by a failed write is Torn: *)
(* decoding stops there when nothing follows it, and is off by some bytes  *)
(* when something does, so that nothing after it is recovered.             *)
(***************************************************************************)
EXTENDS Integers, Sequences, FiniteSets, SequencesExt

CONSTANTS
    Commit,       \* transactions, each committed once
    NoCommit,     \* a tombstone, and the answer of an absent key
    Key,          \* keys, ordered
    Writes,       \* the keys each commit writes
    Deletes,      \* the commits whose writes are tombstones
    Snapshotter,  \* threads in snapshot(): the worker, callers of db.snapshot()
    Async,        \* AolMode::AsynchronousAfterCommit, else SynchronousOnCommit
    FsyncModes,   \* the values of FsyncMode a configuration may have
    BatchSize,    \* BATCH_SIZE
    Faults,       \* the faults that happen in this instance
    MaxCrashes,   \* how often the process goes down
    MaxSnapshots, \* how many snapshots are begun
    Free,         \* the AOL mutex is not held
    Torn          \* a record cut short

ASSUME PersistenceAssumption ==
    /\ NoCommit \notin Commit /\ Free \notin Commit
    /\ Key \subseteq Nat /\ Writes \in [Commit -> SUBSET Key \ {{}}]
    /\ Deletes \subseteq Commit /\ Async \in BOOLEAN
    /\ FsyncModes \subseteq {"never", "every", "interval"}
    /\ BatchSize \in Nat \ {0} /\ MaxCrashes \in Nat /\ MaxSnapshots \in Nat
    /\ Faults \subseteq {"append", "tear", "snapshot", "power", "clock"}

V == INSTANCE Versions WITH Value <- Commit, None <- NoCommit

VARIABLES
    mode,      \* "up", "closing" (Database dropped) or "down"
    ts,        \* oracle.timestamp
    store,     \* datastore: the chain of each key that has an entry
    kept,      \* history: the watermark each key was last collected at
    contended, \* history: keys that two commits in flight were both writing
    tx,        \* each commit's program counter, version and keys to push
    aol,       \* the log file
    synced,    \* how much of it is on the medium
    pending,   \* pending_syncs
    lock,      \* who holds the AOL mutex between writing and syncing
    injector,  \* async_append_injector
    batch,     \* the append worker's batch
    snap,      \* the snapshot file, whether it is on the medium, and
               \* whether some snapshot file was ever incomplete
    tmp,       \* the temporary file: who has it open since it was created
    sn,        \* each snapshot thread's locals
    crashes,   \* how often the process has gone down
    begun,     \* how many snapshots were begun
    fsync      \* fsync_mode

memory == <<ts, store, kept, contended>>
log == <<aol, synced, pending>>
queue == <<injector, batch>>
snapshots == <<snap, tmp, sn>>
rest == <<crashes, begun, fsync>>
vars == <<mode, memory, tx, log, lock, queue, snapshots, rest>>

IsStore(st) == DOMAIN st \subseteq Key /\ st \in [DOMAIN st -> Seq(V!Version)]

TxPc == {"idle", "push", "append", "sync", "acked", "unlogged", "lost", "dropped"}
SnPc == {"idle", "cutoff", "iterate", "rename", "sync", "truncate"}

MinOf(S) == CHOOSE x \in S : \A y \in S : x <= y

Record == [key : Key, version : Nat, value : Commit \cup {NoCommit}]

TypeOK ==
    /\ mode \in {"up", "closing", "down"}
    /\ ts \in Nat /\ kept \in [Key -> Nat] /\ contended \subseteq Key
    /\ IsStore(store) /\ IsStore(snap.data)
    /\ tx \in [Commit -> [pc : TxPc, version : Nat, todo : SUBSET Key]]
    /\ aol \in Seq(Record \cup {Torn})
    /\ synced \in 0..Len(aol) /\ pending \in Nat
    /\ lock \in Commit \cup {Free, "appender"}
    /\ injector \in Seq(Commit) /\ batch \in Seq(Commit) /\ Len(batch) <= BatchSize
    /\ snap.synced \in BOOLEAN /\ snap.torn \in BOOLEAN
    /\ tmp \subseteq Snapshotter
    /\ \A s \in Snapshotter : /\ sn[s].pc \in SnPc /\ sn[s].cutoff \in Nat
                               /\ sn[s].todo \subseteq Key /\ IsStore(sn[s].data)
    /\ crashes \in 0..MaxCrashes /\ begun \in 0..MaxSnapshots
    /\ fsync \in FsyncModes

Empty == [k \in {} |-> <<>>]
Resting == [pc |-> "idle", cutoff |-> 0, todo |-> {}, data |-> Empty]

Init ==
    /\ mode = "up"
    /\ ts = 0 /\ store = Empty /\ kept = [k \in Key |-> 0] /\ contended = {}
    /\ tx = [t \in Commit |-> [pc |-> "idle", version |-> 0, todo |-> {}]]
    /\ aol = <<>> /\ synced = 0 /\ pending = 0 /\ lock = Free
    /\ injector = <<>> /\ batch = <<>>
    /\ snap = [data |-> Empty, synced |-> TRUE, torn |-> FALSE]
    /\ tmp = {} /\ sn = [s \in Snapshotter |-> Resting]
    /\ crashes = 0 /\ begun = 0 /\ fsync \in FsyncModes

InFlight(t) == tx[t].pc \in {"push", "append", "sync"}
ValueOf(t) == IF t \in Deletes THEN NoCommit ELSE t
With(st, k, chain) == [j \in DOMAIN st \cup {k} |-> IF j = k THEN chain ELSE st[j]]
Visible(st, k, v) == IF k \in DOMAIN st THEN V!FetchVersion(st[k], v) ELSE NoCommit

-----------------------------------------------------------------------------
(* TransactionInner::commit, from the version on *)

Merge(t) ==
    /\ mode = "up" /\ tx[t].pc = "idle"
    /\ ts' = ts + 1
    /\ tx' = [tx EXCEPT ![t] = [pc |-> "push", version |-> ts + 1, todo |-> Writes[t]]]
    /\ contended' = contended \cup
          UNION {Writes[t] \cap Writes[u] : u \in {u \in Commit : InFlight(u)}}
    /\ UNCHANGED <<mode, store, kept, log, lock, queue, snapshots, rest>>

\* One key of the write set, in key order.
PushKey(t) ==
    /\ mode = "up" /\ tx[t].pc = "push"
    /\ LET k == MinOf(tx[t].todo)
           v == [version |-> tx[t].version, value |-> ValueOf(t)]
       IN  /\ store' = With(store, k, IF k \in DOMAIN store THEN V!Push(store[k], v)
                                                             ELSE V!From(v))
           /\ tx' = [tx EXCEPT ![t].todo = @ \ {k},
                               ![t].pc = IF tx[t].todo = {k} THEN "append" ELSE "push"]
    /\ UNCHANGED <<mode, ts, kept, contended, log, lock, queue, snapshots, rest>>

\* gc_key at a watermark that no commit in flight is below.
Collect(k, w) ==
    /\ mode = "up" /\ k \in DOMAIN store /\ kept[k] < w
    /\ \A t \in Commit : tx[t].pc \in {"push", "append"} => w < tx[t].version
    /\ LET chain == V!GcOlderVersions(store[k], w)
       IN  store' = IF chain = <<>>
                    THEN [j \in DOMAIN store \ {k} |-> store[j]]
                    ELSE [store EXCEPT ![k] = chain]
    /\ kept' = [kept EXCEPT ![k] = w]
    /\ UNCHANGED <<mode, ts, contended, tx, log, lock, queue, snapshots, rest>>

-----------------------------------------------------------------------------
(* append *)

\* The records of a write set, in key order.
Records(t) ==
    LET ks == SetToSortSeq(Writes[t], LAMBDA a, b : a < b)
    IN  [i \in 1..Len(ks) |->
            [key |-> ks[i], version |-> tx[t].version, value |-> ValueOf(t)]]

\* What a write that fails leaves in the file.
Remains(recs) ==
    {SubSeq(recs, 1, n) : n \in 0..Len(recs)}
        \cup (IF "tear" \in Faults
              THEN {Append(SubSeq(recs, 1, n), Torn) : n \in 0..(Len(recs) - 1)} ELSE {})

Enqueue(t) ==
    /\ mode = "up" /\ tx[t].pc = "append" /\ Async
    /\ injector' = Append(injector, t)
    /\ tx' = [tx EXCEPT ![t].pc = "acked"]
    /\ UNCHANGED <<mode, memory, log, lock, batch, snapshots, rest>>

\* Take the mutex, encode every record, flush.
Write(t) ==
    /\ mode = "up" /\ tx[t].pc = "append" /\ ~Async /\ lock = Free
    /\ aol' = aol \o Records(t)
    /\ lock' = t
    /\ tx' = [tx EXCEPT ![t].pc = "sync"]
    /\ UNCHANGED <<mode, memory, synced, pending, queue, snapshots, rest>>

\* commit returns TxCommitNotPersisted; the datastore keeps the pushes.
WriteFails(t) ==
    /\ mode = "up" /\ tx[t].pc = "append" /\ ~Async /\ lock = Free
    /\ "append" \in Faults
    /\ \E r \in Remains(Records(t)) : aol' = aol \o r
    /\ tx' = [tx EXCEPT ![t].pc = "unlogged"]
    /\ UNCHANGED <<mode, memory, synced, pending, lock, queue, snapshots, rest>>

\* Mutation of SyncPolicy: EveryAppend rest instead of syncing.
SyncPolicyCounts == pending' = pending + 1 /\ synced' = synced

\* match fsync_mode, of append and of the append worker.
SyncPolicy ==
    \/ fsync = "never" /\ pending' = pending + 1 /\ synced' = synced
    \/ fsync = "every" /\ synced' = Len(aol) /\ pending' = pending
    \/ fsync = "interval" /\ synced' = Len(aol) /\ pending' = 0
    \/ fsync = "interval" /\ pending' = pending + 1 /\ synced' = synced

Sync(t) ==
    /\ mode = "up" /\ lock = t
    /\ SyncPolicy
    /\ lock' = Free
    /\ tx' = [tx EXCEPT ![t].pc = "acked"]
    /\ UNCHANGED <<mode, memory, aol, queue, snapshots, rest>>

SyncFails(t) ==
    /\ mode = "up" /\ lock = t /\ "append" \in Faults /\ fsync # "never"
    /\ lock' = Free
    /\ tx' = [tx EXCEPT ![t].pc = "unlogged"]
    /\ UNCHANGED <<mode, memory, log, queue, snapshots, rest>>

-----------------------------------------------------------------------------
(* spawn_appender_worker and spawn_fsync_worker *)

Steal ==
    /\ mode = "up" /\ lock # "appender"
    /\ injector # <<>> /\ Len(batch) < BatchSize
    /\ batch' = Append(batch, Head(injector))
    /\ injector' = Tail(injector)
    /\ UNCHANGED <<mode, memory, tx, log, lock, snapshots, rest>>

BatchRecords == FlattenSeq([i \in 1..Len(batch) |-> Records(batch[i])])

\* The batch is full, the queue is empty, or the worker is told to stop.
BatchDue == /\ batch # <<>> /\ lock = Free
            /\ Len(batch) = BatchSize \/ injector = <<>> \/ mode = "closing"

\* Mutation of WriteBatch: a partial batch waits for more.
WriteBatchFull ==
    /\ mode # "down" /\ BatchDue /\ Len(batch) = BatchSize
    /\ aol' = aol \o BatchRecords
    /\ lock' = "appender"
    /\ UNCHANGED <<mode, memory, tx, synced, pending, queue, snapshots, rest>>

\* Mutation of WriteBatch: only the batch's first operation is encoded.
WriteBatchFirst ==
    /\ mode # "down" /\ BatchDue
    /\ aol' = aol \o Records(Head(batch))
    /\ lock' = "appender"
    /\ UNCHANGED <<mode, memory, tx, synced, pending, queue, snapshots, rest>>

WriteBatch ==
    /\ mode # "down" /\ BatchDue
    /\ aol' = aol \o BatchRecords
    /\ lock' = "appender"
    /\ UNCHANGED <<mode, memory, tx, synced, pending, queue, snapshots, rest>>

SyncBatch ==
    /\ mode # "down" /\ lock = "appender"
    /\ SyncPolicy
    /\ lock' = Free
    /\ batch' = <<>>
    /\ UNCHANGED <<mode, memory, tx, aol, injector, snapshots, rest>>

\* An error is logged and the batch cleared, its commits long since returned.
BatchFails ==
    /\ mode # "down" /\ BatchDue /\ "append" \in Faults
    /\ \E r \in Remains(BatchRecords) : aol' = aol \o r
    /\ tx' = [t \in Commit |-> IF t \in ToSet(batch) THEN [tx[t] EXCEPT !.pc = "dropped"]
                                                    ELSE tx[t]]
    /\ batch' = <<>>
    /\ UNCHANGED <<mode, memory, synced, pending, lock, injector, snapshots, rest>>

FsyncWorker ==
    /\ mode = "up" /\ fsync = "interval" /\ pending > 0 /\ lock = Free
    /\ synced' = Len(aol) /\ pending' = 0
    /\ UNCHANGED <<mode, memory, tx, aol, lock, queue, snapshots, rest>>

-----------------------------------------------------------------------------
(* snapshot, by the worker or by a caller: the same steps *)

SnapAt(s, l) == mode # "down" /\ sn[s].pc = l

\* File::create: truncates a temporary file another thread has open.
SnapCreate(s) ==
    /\ SnapAt(s, "idle") /\ mode = "up" /\ begun < MaxSnapshots
    /\ begun' = begun + 1
    /\ tmp' = tmp \cup {s}
    /\ sn' = [sn EXCEPT ![s].pc = "cutoff"]
    /\ UNCHANGED <<mode, memory, tx, log, lock, queue, snap, crashes, fsync>>

\* aol_cutoff_position
SnapCutoff(s) ==
    /\ SnapAt(s, "cutoff") /\ lock = Free
    /\ sn' = [sn EXCEPT ![s].pc = "iterate", ![s].cutoff = Len(aol), ![s].todo = Key]
    /\ UNCHANGED <<mode, memory, tx, log, lock, queue, snap, tmp, rest>>

\* One entry: its chain, copied under the read lock.  Keys without an entry and
\* entries with an empty chain are not written.
SnapEntry(s) ==
    /\ SnapAt(s, "iterate") /\ sn[s].todo # {}
    /\ LET k == MinOf(sn[s].todo)
       IN  sn' = [sn EXCEPT ![s].todo = @ \ {k},
                            ![s].data = IF k \in DOMAIN store /\ store[k] # <<>>
                                        THEN With(@, k, store[k]) ELSE @]
    /\ UNCHANGED <<mode, memory, tx, log, lock, queue, snap, tmp, rest>>

\* Mutation of SnapRename: the cutoff is taken after the iteration.
SnapRenameLateCutoff(s) ==
    /\ SnapAt(s, "iterate") /\ sn[s].todo = {} /\ tmp # {}
    /\ snap' = [data |-> sn[s].data, synced |-> FALSE, torn |-> snap.torn \/ tmp # {s}]
    /\ tmp' = {}
    /\ sn' = [sn EXCEPT ![s].pc = "sync", ![s].cutoff = Len(aol)]
    /\ UNCHANGED <<mode, memory, tx, log, lock, queue, rest>>

\* flush and rename.  Two threads that wrote one temporary file left a mixture.
SnapRename(s) ==
    /\ SnapAt(s, "iterate") /\ sn[s].todo = {} /\ tmp # {}
    /\ snap' = [data |-> sn[s].data, synced |-> FALSE, torn |-> snap.torn \/ tmp # {s}]
    /\ tmp' = {}
    /\ sn' = [sn EXCEPT ![s].pc = "sync"]
    /\ UNCHANGED <<mode, memory, tx, log, lock, queue, rest>>

\* sync_all of the renamed file.
SnapSync(s) ==
    /\ SnapAt(s, "sync")
    /\ snap' = [snap EXCEPT !.synced = TRUE]
    /\ sn' = [sn EXCEPT ![s].pc = "truncate"]
    /\ UNCHANGED <<mode, memory, tx, log, lock, queue, tmp, rest>>

\* Mutation of SnapTruncate: clearing the file forgets that nothing is synced.
SnapTruncateKeepsSynced(s) ==
    /\ SnapAt(s, "truncate") /\ lock = Free
    /\ LET position == sn[s].cutoff
           grown == Len(aol) > position
       IN  /\ aol' = IF grown THEN aol \o SubSeq(aol, position + 1, Len(aol)) ELSE <<>>
           /\ synced' = synced
           /\ pending' = IF position = 0 THEN 0 ELSE pending
    /\ sn' = [sn EXCEPT ![s] = Resting]
    /\ UNCHANGED <<mode, memory, tx, lock, queue, snap, tmp, rest>>

\* truncate.  The file is open in append mode, so that copying back what follows
\* the cutoff puts it at the end of a file nothing was removed from.
SnapTruncate(s) ==
    /\ SnapAt(s, "truncate") /\ lock = Free
    /\ LET position == sn[s].cutoff
           grown == Len(aol) > position
       IN  /\ aol' = IF grown THEN aol \o SubSeq(aol, position + 1, Len(aol)) ELSE <<>>
           /\ synced' = IF grown THEN synced ELSE 0
           /\ pending' = IF position = 0 THEN 0 ELSE pending
    /\ sn' = [sn EXCEPT ![s] = Resting]
    /\ UNCHANGED <<mode, memory, tx, lock, queue, snap, tmp, rest>>

\* An I/O error, or a rename that finds no temporary file: it is removed.
SnapFails(s) ==
    /\ mode # "down" /\ sn[s].pc # "idle"
    /\ \/ "snapshot" \in Faults
       \/ sn[s].pc = "iterate" /\ sn[s].todo = {} /\ tmp = {}
    /\ tmp' = {}
    /\ sn' = [sn EXCEPT ![s] = Resting]
    /\ UNCHANGED <<mode, memory, tx, log, lock, queue, snap, rest>>

-----------------------------------------------------------------------------
(* load *)

LoadChain(chain) == FoldLeft(V!Push, <<>>, chain)

\* Mutation of ReplayRecord: the record replaces the entry's chain.
ReplayRecordInsert(st, r) ==
    With(st, r.key, V!From([version |-> r.version, value |-> r.value]))

ReplayRecord(st, r) ==
    LET v == [version |-> r.version, value |-> r.value]
    IN  With(st, r.key, IF r.key \in DOMAIN st THEN V!Push(st[r.key], v) ELSE V!From(v))

\* The records before the first that does not decode.
Readable(file) ==
    LET n == SelectInSeq(file, LAMBDA r : r = Torn)
    IN  IF n = 0 THEN file ELSE SubSeq(file, 1, n - 1)

Recover(data, file) ==
    FoldLeft(ReplayRecord, [k \in DOMAIN data |-> LoadChain(data[k])], Readable(file))

\* new_with_options: load, and the oracle reads the wall clock.
Load ==
    /\ mode = "down"
    /\ mode' = "up"
    /\ store' = Recover(snap.data, aol)
    /\ \E now \in IF "clock" \in Faults THEN 0..ts ELSE {ts} : ts' = now
    /\ UNCHANGED <<kept, contended, tx, log, lock, queue, snapshots, rest>>

-----------------------------------------------------------------------------
(* Shutdown and crashes *)

\* Database::shutdown with no transaction open: the workers are told to stop.
Close ==
    /\ mode = "up" /\ crashes < MaxCrashes
    /\ \A t \in Commit : ~InFlight(t)
    /\ mode' = "closing"
    /\ UNCHANGED <<memory, tx, log, lock, queue, snapshots, rest>>

\* Memory is gone.  Commits still running are lost; of those that returned, the
\* ones in gone never reached the file, which leaves them at label l.
Down(gone, l) ==
    /\ mode' = "down"
    /\ crashes' = crashes + 1
    /\ tx' = [t \in Commit |->
                IF InFlight(t) THEN [tx[t] EXCEPT !.pc = "lost", !.todo = {}]
                ELSE IF t \in gone THEN [tx[t] EXCEPT !.pc = l]
                ELSE tx[t]]
    /\ store' = Empty
    /\ lock' = Free /\ pending' = 0
    /\ injector' = <<>> /\ batch' = <<>>
    /\ tmp' = {} /\ sn' = [s \in Snapshotter |-> Resting]
    /\ UNCHANGED <<ts, kept, contended, begun, fsync>>

\* Persistence::drop, the workers joined: a last sync_all if anything is pending.
Drop ==
    /\ mode = "closing"
    /\ batch = <<>> /\ \A s \in Snapshotter : sn[s].pc = "idle"
    /\ Down(ToSet(injector), "dropped")
    /\ synced' = IF pending > 0 THEN Len(aol) ELSE synced
    /\ UNCHANGED <<aol, snap>>

Queued == ToSet(injector) \cup (IF lock = "appender" THEN {} ELSE ToSet(batch))

\* The process dies: the page cache survives.
Kill ==
    /\ mode # "down" /\ crashes < MaxCrashes
    /\ Down(Queued, "lost")
    /\ UNCHANGED <<aol, synced, snap>>

\* The machine dies: of the log, the synced part and some of the rest survive;
\* a snapshot that was not synced may be cut short after any entry.
PowerLoss ==
    /\ mode # "down" /\ crashes < MaxCrashes /\ "power" \in Faults
    /\ Down(Queued, "lost")
    /\ \E n \in synced..Len(aol) : aol' = SubSeq(aol, 1, n) /\ synced' = n
    /\ \E D \in SUBSET DOMAIN snap.data :
          /\ \A j \in D, k \in DOMAIN snap.data : k < j => k \in D
          /\ snap.synced => D = DOMAIN snap.data
          /\ snap' = [data |-> [k \in D |-> snap.data[k]], synced |-> TRUE,
                      torn |-> snap.torn \/ D # DOMAIN snap.data]

-----------------------------------------------------------------------------
SnapStep(s) ==
    \/ SnapCutoff(s) \/ SnapEntry(s) \/ SnapRename(s)
    \/ SnapSync(s) \/ SnapTruncate(s) \/ SnapFails(s)

Next ==
    \/ \E t \in Commit :
          \/ Merge(t) \/ PushKey(t) \/ Enqueue(t)
          \/ Write(t) \/ WriteFails(t) \/ Sync(t) \/ SyncFails(t)
    \/ \E k \in Key, w \in 1..ts : Collect(k, w)
    \/ Steal \/ WriteBatch \/ SyncBatch \/ BatchFails \/ FsyncWorker
    \/ \E s \in Snapshotter : SnapCreate(s) \/ SnapStep(s)
    \/ Close \/ Drop \/ Kill \/ PowerLoss \/ Load

Spec == Init /\ [][Next]_vars

\* The threads that shutdown joins run until they are done.
FairSpec ==
    /\ Spec
    /\ WF_vars(Steal) /\ WF_vars(WriteBatch) /\ WF_vars(SyncBatch) /\ WF_vars(Drop)
    /\ \A s \in Snapshotter : WF_vars(SnapStep(s))

-----------------------------------------------------------------------------
(* Properties *)

\* The log with what is on its way to it.
Coming == aol \o BatchRecords \o FlattenSeq([i \in 1..Len(injector) |-> Records(injector[i])])

\* What k answers in st is the newest acknowledged write to it, or a newer one.
Covers(st, k) ==
    \A t \in Commit : k \in Writes[t] /\ tx[t].pc = "acked" =>
        \E u \in Commit : /\ k \in Writes[u] /\ tx[u].version >= tx[t].version
                          /\ Visible(st, k, ts) = ValueOf(u)

\* Every tombstone of k is in the log, in version order.  RecoveredAsWritten is
\* about what happens otherwise.
Sound(k) ==
    \A t \in Deletes : k \in Writes[t] =>
        k \notin contended /\ tx[t].pc \notin {"lost", "unlogged", "dropped"}

\* A commit that returned Ok is never missing from the files that load would
\* read (and, in asynchronous mode, the queue before them), whatever snapshot,
\* truncate, appends and collection are doing: persistence.rs says that a crash
\* at any time loses nothing.  A power failure that tears an unsynced snapshot is
\* SnapshotWhole's subject, and one that loses the end of the log AckedOnMedium's.
AckedRecoverable ==
    ~snap.torn => \A k \in Key : Sound(k) => Covers(Recover(snap.data, Coming), k)

\* With EveryAppend the part of the log that is on the medium is enough: a
\* commit that returned survives a power failure, unless that tears a snapshot.
AckedOnMedium ==
    snap.synced /\ ~snap.torn =>
        \A k \in Key : Sound(k) => Covers(Recover(snap.data, SubSeq(aol, 1, synced)), k)

\* Nothing is on its way to the log, and all that was pushed got there.
Settled ==
    /\ mode = "up" /\ injector = <<>> /\ batch = <<>>
    /\ \A t \in Commit : ~InFlight(t) /\ tx[t].pc \notin {"unlogged", "dropped"}

SameReads(k) ==
    \A v \in kept[k]..ts : Visible(Recover(snap.data, aol), k, v) = Visible(store, k, v)

\* load would rebuild the datastore: every read at or above the watermark of the
\* last collection has the answer it had before, from the snapshot's chains and
\* the log together, of which parts overlap.
RecoveryExact == Settled => \A k \in Key : Sound(k) => SameReads(k)

\* docs/006_snapshot.md: after load, fetch_version(v) sees exactly what it saw
\* when the snapshot was written (also for tombstones pushed out of order).
RecoveredAsWritten == Settled => \A k \in Key : SameReads(k)

\* docs/006_snapshot.md: whenever it crashes, the snapshot file is the old one or
\* the whole new one, never a part of it.
SnapshotWhole == ~snap.torn

\* docs/008_aol_module.md: after truncate the log holds only what followed the
\* snapshot's cutoff.
LogTrimmed ==
    [][\A s \in Snapshotter :
          SnapTruncate(s) => aol' = SubSeq(aol, sn[s].cutoff + 1, Len(aol))]_vars

\* persistence.rs, of truncate: where pending_syncs is reset nothing is left that
\* needs an fsync.
PendingCoversUnsynced == mode = "up" /\ lock = Free /\ synced < Len(aol) => pending > 0

\* transaction_inner.rs, of a failed append: the memory state is rolled back.
UnloggedInvisible ==
    \A t \in Commit \ Deletes : tx[t].pc = "unlogged" =>
        \A k \in Writes[t] : Visible(store, k, tx[t].version) # t

\* docs/008_aol_module.md: when commit has returned, the write set is on disk or
\* in the page cache; a clean shutdown therefore loses none.
ShutdownKeepsAcked == \A t \in Commit : tx[t].pc # "dropped"

\* docs/006_snapshot.md: every version on disk is below the snapshot version of
\* the restarted database, so that nothing becomes invisible.
RecoveredBelowClock ==
    \A k \in DOMAIN store : \A i \in 1..Len(store[k]) : store[k][i].version <= ts

\* docs/006_snapshot.md: that the snapshot has no single instant does not affect
\* correctness: a transaction is recovered with all its writes or with none.
RecoveredWhole ==
    \A t \in Commit \ Deletes : mode = "up" /\ tx[t].pc = "lost" =>
        \/ \A k \in Writes[t] : Visible(store, k, tx[t].version) = t
        \/ \A k \in Writes[t] : Visible(store, k, tx[t].version) # t

\* A write set taken into the append worker's queue does not stay there: it is
\* in the file, or the process is gone.
QueueDrains == \A t \in Commit : t \in ToSet(injector) ~> t \notin ToSet(injector \o batch)
=============================================================================
