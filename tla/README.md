# A TLA+ model of stupid-kv

stupid-kv is an embedded, in-memory, multi-version key-value store in Rust with
optimistic transactions and optional persistence.  This directory models the
parts of it whose correctness depends on the order in which threads, crashes and
calls happen.  TLC checks them on small instances.  TLAPS proves the safety
properties of every part but Persistence for instances of any size.

Run a check with `tlc -config <run>.cfg <module>`, and the proofs with `tlapm` on
SnapshotRegistryProofs, VersionsProofs, DatastoreProofs, CommitPipelineProofs,
PublicationProofs, ConflictCheckProofs, WorkersProofs and FrontEndsProofs.  `PROJECT.json`
lists the runs and the theorems, and maps every definition to the lines it translates.

## Inventory

| Part of the system | Source | State and operations | Module |
|---|---|---|---|
| Snapshot registry, GC watermarks | `tx/transaction_inner.rs`, `tx/transaction.rs`, `db/inner.rs` | `counter_by_oracle`, `counter_by_commit`, `gc_floor`; `register_counter`, `release_counter`, drop, `earliest_active`, `compute_cleanup_ts`, `run_cleanup_inner` | SnapshotRegistry |
| Version chain | `versions/` | `push`, `fetch_version`, `gc_older_versions` | Versions |
| Datastore entry and collection | `db/inner.rs`, `tx/transaction_inner.rs` | SkipMap entry, lock, `is_removed`, dirty queue, full scan | Datastore |
| Commit pipeline | `tx/transaction_inner.rs`, `queue/` | commit queue, merge queue, timestamp; `commit`, `auto_commit`, `atomic_merge`, `get` | CommitPipeline |
| Transaction API, object pool | `tx/`, `pool/pool.rs` | `get`, `exists`, `set`, `put`, `del`, modes, commit, cancel, drop, pool | TransactionApi |
| Persistence | `persistence/persistence.rs`, `db/db.rs` | log, snapshot file, append / fsync / snapshot workers, truncate, load, shutdown | Persistence |
| Conflict comparison, Bloom filter | `queue/commit.rs`, `bloom/`, `tx/transaction_inner.rs` | key ranges, filter, merge walk, read set; `insert`, `clear`, `may_contain` | ConflictCheck |
| Construction, workers, shutdown | `db/db.rs`, `persistence/persistence.rs`, `oracle/oracle.rs` | flags, park tokens, `JoinHandle`s, `Arc` owners; the six threads | Workers |
| Oracle | `oracle/` | timestamp and clock; resync thread | SnapshotRegistry, CommitPipeline; Workers |
| HTTP server | `server/` | the five handlers, `map_kv_error` | FrontEnds, AtomicMap |
| C interface, Go package, Python class | `stupid-kv-*` | transaction handles, error codes, buffers, exceptions | FrontEnds |
| Options, compression, key conversion | `options/`, `compression/`, `kv/` | no concurrent state of their own | not modelled |

How the parts interact: a transaction registers a version snapshot and a
commit-id snapshot (SnapshotRegistry), reads at the first (Datastore, and the
merge queue of CommitPipeline), and validates at the second against the commit
queue.  A commit takes a slot in the commit queue, scans for conflicts, takes a
version in the merge queue, publishes it in the timestamp, pushes every key
into the datastore, and appends to the log (Persistence).  Collectors compute
watermarks from the registry, and trim the commit queue and the version chains.
The collectors and the workers of Persistence are threads that the Database starts and
joins (Workers).  Programs come in through the crate, the server or a binding
(FrontEnds), all of which call the transactions of TransactionApi.

## The modules

**SnapshotRegistry.** One step per atomic operation.  `clock` is the atomic being
registered: the oracle's timestamp (`HasFloor = TRUE`) or the commit id
(`HasFloor = FALSE`, no floor, one scan).  `map` is the SkipMap, `count` the
counters' values, and `Tombstone` the value that marks a counter its last holder has
released.  A transaction goes through `Load`, `GetOrInsert`, `Acquire`, `CheckStable`,
`CheckFloor` (or `Rollback`, `RollbackUnlink`), `DropRelease`, `DropRemove`.  A
collector reads its fallback, walks the map (`ScanNext`, `ScanLoad`), and with the
floor proposes, publishes and scans again.  The wall clock is any value.

**Versions.** Operators on sequences, no state.  `InsertOrUpdate` and `Push` have
the cases of the code in the code's order, the deduplication included.

**Datastore.** One key; entries are locked one at a time, so keys do not
interact.  Looking an entry up and locking it are separate steps, what happens
under the lock is one.  `log` is a history of pushes and the reference that
reads are compared with.  The watermark is any value SnapshotRegistry permits.

**CommitPipeline.** One step per operation on shared state, iterator steps
included.  Transactions follow a plan (`Reads`, `Writes`); the value `t` writes is
`t`.  `hist` records whether the snapshots were taken in a quiet moment, whether they
agree (`aligned`: every commit with a slot up to the one is a version up to the other),
and whether the slot was fresh.  `Cleanup` uses the bound that `run_cleanup_inner` is meant to
have; `ConflictWindowKept` of SnapshotRegistry fails when it has another one.

**ConflictCheck.** One comparison of a committing transaction with one entry of the
commit queue, a step per key that an iterator yields: the ranges, the filter of the
write set, the merge walk over two sorted sets and, under SSI, the read set's filter and
the read set.  Before it come the calls that fill read set and filter, and the
resets between the lives of a pooled object.  The base hashes are any function of the
keys; the derivation of the probes, with its wrap-around, is the code's.
CommitPipeline takes the verdict as an intersection of sets, which `VerdictExact`
justifies.

**Workers.** Both constructors, `Database::drop`, `Persistence::drop` and
`Oracle::drop` as lists of steps (`todo`), and the loops of the six workers.  A park
token is remembered as given before or after the flag was cleared: a load of the flag
with Relaxed or Acquire may answer with the old value until the thread has taken a token
of the second kind, or has read the new value once.  `owns`, `cycle` and `live` are the
owners of the `Arc<Inner>`; the last of them to go runs `Oracle::drop`.

**TransactionApi.** Clients, handles and pooled `TransactionInner` objects.
Snapshots and commits are atomic here, so what is left is the
life cycle: which fields survive `reset`, and what each call answers.

**FrontEnds** extends TransactionApi by the ways in (`via`).  `job` is the handler or
call a client is in.  An HTTP request is one action for each transaction call its
handler makes, so requests, and programs using the crate, Go or Python, interleave between
them.  A Go call is two steps: the C function, with the code and the buffers it
returns, and what the Go side makes of them.  The database is in memory.

**AtomicMap** is what the server promises: each request takes effect at one instant, or
is a write answered 409 without effect.  FrontEnds implements it with `map <- db` and
`job <- Requested`, which says when a request has taken effect: a read, or an
insert that finds its key, with its snapshot; any other write with its commit.

**Persistence.** Commits from the merge on, the log as a sequence of records with
a synced prefix, the AOL mutex, the injector queue and the batch of the append
worker, the snapshot thread step by step, `truncate` as it acts on a file opened in
append mode, `load`, clean shutdown, kill, and power failure.  Versions are unique
and ascending here.

The `MC*` modules give the constants their values: plans, ranges, options, hashes and
ways in.
An operator whose comment begins "Mutation of" is a deliberately wrong variant; no
specification uses it.  Replacing the named definition by it makes TLC report the
property that `PROJECT.json` pairs with it.

## The runs

| Run | Checks | What it shows |
|---|---|---|
| RegistryFloor | `TypeOK`, `WatermarkBelowSnapshots`, `FloorNotAhead`, `LiveCounterLinked`, `NoLeakedEntry`, `RegistrationCompletes` | The two-scan protocol with the floor is safe, the tombstones neither lose nor leak an entry, and registration ends. |
| RegistryCommit | `BelowFallbackNotMissed` | Without a floor the scan still finds every snapshot below its fallback. |
| DatastoreSafe | `SnapshotReadsIntact`, `ReadsLinearizable`, `ChainsWellFormed`, `InFlightAboveWatermark` | Collection and unlinking are invisible to live snapshots. |
| PipelineSnapshots | `WinnerSeen`, `PassedSlotsDistinct`, `PublishedVisible`, `QuietReadsExact`, `VersionsFollowCommits` | What the commit protocol does guarantee to writers and readers, with its exact preconditions. |
| PipelineSsi | `FirstCommitterWins`, `CommitReturns` | Write skew is caught; commit returns. |
| PipelineLostUpdate (violated) | `NoLostUpdate` | The two snapshots of one transaction may disagree. |
| ConflictExact | `VerdictExact`, `NoFalseNegative` | The comparison refuses exactly when keys are shared, whatever the filters collide on. |
| PersistSync | `TypeOK`, `AckedRecoverable`, `AckedOnMedium`, `RecoveryExact` | At every instant the files hold every acknowledged commit. |
| PersistAsync | `AckedRecoverable`, `QueueDrains` | The same with the queue counted in; the queue empties. |
| PersistOverlap (violated) | `AckedRecoverable` | Two overlapping `snapshot()` calls lose a commit. |
| WorkersStop | `StoppedBeforeRelease`, `NoWorkBeforeLoad`, `StolenAreWritten`, `SyncedAfterDrop`, `DropReturns`, `QueueServed`, `AppendReturns`, `ThreadsEnd` | Drop returns without waiting for a timeout, loses no stolen batch, and, where no snapshot resets `pending_syncs`, leaves nothing unsynced; no worker runs too early or too late. |
| FrontEnds | `ReadYourWrites`, `ReadsTracked`, `ObjectsExclusive`, `BuffersReleased`, `ErrorNamed`, `RequestsAtomic` | Recycled objects carry nothing over, requests are atomic, buffers and errors get through the bindings. |

Every module has a type invariant.  The registry's is proved and Persistence's is in
PersistSync; those of the others hold too when they are added to their runs, which
leave them out.

### Bounds

- RegistryFloor has two transactions, a collector and two times: enough for a
  transaction to leave a tombstone, meet one, roll back for either reason and race
  both scans.  RegistryCommit has three transactions and times 0..2, so that a scan
  can pass one key and stop at another.  The proofs cover all larger instances.
- DatastoreSafe has three transactions (two writers and a reader, or three
  writers), versions up to 3, two values and the tombstone, and three nodes, so
  that an entry is unlinked, made anew, and pushed to out of order.
- PipelineSnapshots has three transactions: three writers, because a slot is only
  reused after a conflict with a third, or two writers and a reader that gets twice.
  The two writers overwrite the same keys or one key each: only commits that do not
  conflict are in the merge queue together.
  Clocks 1..2 make versions come out of order.  PipelineSsi has the two transactions that
  skew.  Every transaction runs once, which bounds ids and versions; the proofs have no such bound.
- ConflictExact has three keys, so that a range can enclose a key it does not have, a
  filter of 16 bits with hashes that collide, overlap and wrap around, and one reset
  (`MaxLives`).  Each comparison is with one entry: the scan makes them one by one.
- WorkersStop has five sets of options, one transaction that may outlive the Database,
  and two pushed operations with a batch of 2, so that batches are empty, partial and full.
- FrontEnds has two clients in five combinations of ways, two objects and a pool of one,
  so that the pool is empty, full and recycling, and one key, since requests have one key.
- The Persist runs have two commits, two keys, one crash (`MaxCrashes`) and one or two
  snapshots (`MaxSnapshots`): a second snapshot is needed for the log to have been
  emptied once before.  `BatchSize` is 2, so that batches are full, partial and empty.
- Symmetry is used only in runs without liveness (`RequestsAtomic` and
  `VersionsFollowCommits` are safety properties, and symmetric).  CHECK_DEADLOCK is off in the
  Datastore and Persist runs, whose transactions and crashes run out.

### Fairness

Weak fairness of each thread that is inside a call or a worker's loop, and
nothing about clients: a client may keep a transaction forever, never commit, or never
call `snapshot()`.  The code justifies it: these threads run on
the operating system's scheduler, and hold locks only for finite sections.
`RegistrationCompletes` holds because the timestamp of the instance stops rising; a
stream of commits that never ends could send one registration round its loop each
time, and the code has no bound on that.
In Workers a timeout of `park_timeout` may expire at any time and is never assumed to:
an interval may be hours, and what WorkersStop shows does not wait for one.

## What is proved

### The snapshot registry

`SnapshotRegistryProofs` proves, for any finite set of transactions, and any sets
of collectors, counters and times (natural numbers):

- `TypeCorrect`: `TypeOK` is an invariant;
- `WatermarkSafe`: with the floor, no collection runs with a watermark above a
  registered snapshot;
- `ScanComplete`: `BelowFallbackNotMissed`, with or without a floor;
- `CounterLinked`, `NoLeak`: `LiveCounterLinked` and `NoLeakedEntry`;
- `FloorSafe`: `FloorNotAhead`.

The assumptions are those named in SnapshotRegistry: the tombstone is a number
greater than the number of transactions (the code's is `u64::MAX`), and times are
naturals.

All of them follow from one inductive invariant, `IInv` (theorem `Inductive`):

- `CountInv`: a counter that is not a tombstone counts exactly its holders.  It is
  why the last holder knows that it is the last.
- `HoldInv`, `AcquireInv`, `UnlinkInv`: who holds a counter finds it in the map;
  who has fetched one and not yet incremented it finds it there, or dead; who left
  a tombstone is alone in unlinking it, and the map still has it.  The last one is what makes
  the removal by key in `Transaction::drop` safe, which compares no pointers.
- `OwnerInv`: no counter is under two keys, and one that is zero or a tombstone has
  somebody about to increment or unlink it.
- `FloorInv`: proposals and the floor stay at or below the timestamp.
- `ScanInv`: a deciding scan has not yet passed a transaction that is active below the
  proposal.  This is the heart.  A transaction becomes active only if the
  atomic still has its value and the floor is not above it.  If its snapshot is
  below the proposal, then the floor (or, without one, the atomic) was
  raised only after its check; hence its counter was in the map before the deciding scan began.

Each conjunct has a lemma of its own that every step preserves it.  The lemmas about
types, the floor and the scan use of the counters only that a registered transaction's
counter is linked and counted (`LinkInv`), which `RegistryLinked` derives from the
registry's invariant.  The same properties are checked by RegistryFloor and RegistryCommit.

Without the floor check, RegistryFloor still holds: the reload of the atomic alone
keeps a registration at or above every proposal made so far, since proposals are
capped by the atomic.  What is not redundant is the second scan; taking it out breaks
`WatermarkBelowSnapshots`.

### Version chains and the datastore

`VersionsProofs` has the lemmas about the operators of Versions, for any chain:
`FetchVersion` answers the newest record at or below a snapshot (`FetchNewest`),
`Push` keeps a chain ascending and adds its version or leaves it out as redundant
(`PushEffect`), and `GcOlderVersions` changes no answer at or above the watermark
(`GcEffect`).  They take two facts about numbers as a hypothesis (`Counting`): a set
of naturals has a least element, and `1..n` has n elements.  The modules that use the
lemmas prove these facts at their end, from the well-foundedness of proper inclusion
on finite sets (`LeastNat`, `Counted`), so the hypothesis is gone from every theorem.

`DatastoreProofs` proves, for any transactions, collectors, nodes, values and times:

- `ChainsOrdered`: `ChainsWellFormed`;
- `WatermarkBelowWriters`: `InFlightAboveWatermark`;
- `CollectionInvisible`: `SnapshotReadsIntact`;
- `ReadersLinearize`: `ReadsLinearizable`.

The first two follow from `Shape`: who holds a node holds the entry or an unlinked
one, an unlinked node stays empty, a commit's version is above its snapshot, and a
watermark in use is at most every live snapshot.  The others need `Exact`.  It says
that the chain answers like the history of all pushes, not for the live snapshots
alone but for every `Safe` one: those at or above a live one, and those from the
timestamp on.  A transaction that begins, and a writer whose snapshot ends, can only
move inside this set, and no watermark is above a member of it.  For a reader between
its lookup and its lock, `Answerable` says that the node is still the entry, or that
the key was deleted at its snapshot at some moment since the lookup; then the empty
answer of the unlinked node is right for that moment.

`Benign`, the precondition, is about the pushes (`LatePushesVisible` fails without
it).  The proof led to one correction.  `ReadsLinearizable` had allowed only the
answers before and after a read; with four transactions two pushes fit in between, so
it now allows the answer of any moment from the lookup to the read.

### The commit pipeline

`CommitPipelineProofs` proves, for any set of transactions, any plan of reads and
writes and any clock, with commit ids unbounded (`Slot = Nat`):

- `FirstCommitter`: `FirstCommitterWins`;
- `SlotsOfPassed`: `PassedSlotsDistinct`;
- `VersionsFollow`: `VersionsFollowCommits`, an action property;
- `WinnerVisible`: `WinnerSeen`.

`PublicationProofs` continues with the readers, with versions unbounded too (`Time =
Nat`):

- `PublicationAtomic`: `PublishedVisible`;
- `QuietReadersExact`: `QuietReadsExact`.

The first two follow from `SInv`.  A slot lies above the commit snapshot of its
transaction and at most one above the commit id (`SlotAbove`).  An entry is still in
the queue, or below every snapshot that is registered or can be (`EntryKept`): this is
what makes the cleanup harmless.  No two holders share a slot (`SlotsDistinct`).  The
part of the window that a scan has passed is free of conflicts and stays so
(`ScanClean`), since nobody can fill a fresh slot below the commit id; when the scan
ends, this becomes `WindowClean`.  Steps that do not touch the queue are dealt with by
one lemma (`QuietInv`).  The third needs only that the timestamp is at least every
published version (`VInv`).  `WinnerSeen` adds `AInv`: below the commit snapshot of an
aligned transaction every fresh entry belongs to a version inside its other snapshot.
No later step can put one there.

The readers' theorems follow from `PInv`.  The merge queue holds exactly the
transactions between `Stage` and `Unstage`, each at its version (`QInv`).  A chain
holds exactly the versions of those that have pushed its key (`CInv`); where two have
one version, the value of either.  A write is thus in the queue, in the chain or in
both, from the rise of the timestamp on.  Below a quiet snapshot every commit has
ended and stays so (`Settled`), because a new version is above the timestamp; so the
walk through the queue finds nothing, the chain answers, and old answers stay right
(`RInv`).

Two corrections came out of the proofs.  `aligned` also has to exclude a commit that
is at its increment of the commit id with a slot that another one's increment has
covered already, which takes five transactions.  And `Newest` counted a transaction
that had lost its version to another and was about to choose again.

### The conflict comparison

`ConflictCheckProofs` proves `VerdictCorrect` (`VerdictExact`) and `FilterCorrect`
(`NoFalseNegative`) for any keys, any filter size, any modulus, any hash function and
any number of lives.  The invariant `IInv` says that each filter has the places of all keys of its set
(`WellFormed`, `ReadsKept`), and, for each loop, that the keys its iterator has passed are in
no intersection (`LoopInv`).  That a filter answers "absent" only for absent keys
then ends each loop with the right verdict.

### Workers

`WorkersProofs` proves `WorkersStopFirst` (`StoppedBeforeRelease`), `LoadBeforeWork`
(`NoWorkBeforeLoad`), `NothingStolenLost` (`StolenAreWritten`) and `DropSyncs`
(`SyncedAfterDrop`), for any set of options, any handles, batch size and number of
operations.

The invariant `WInv` reasons about the lists of steps that are left to the constructor
and to drop.  `Programs` says which steps they can have in which phase, that `take`,
`unpark` and `join` of a worker come together, and that `load` is ahead of every other
worker's start.  `Threads` connects them with the workers: one that runs has its
handle in its field until drop takes it, and during drop its `join` is still ahead of
the step that gives up `Inner` (or, for the append worker, of the `sync`).  `Batches`
says where the append worker can be with operations in its hands.  Steps that start
and end no worker are dealt with by one lemma (`Calm`).

### Transactions and front ends

`FrontEndsProofs` proves, for any clients, ways in, keys, values, objects and pool
size:

- `OwnWritesRead`, `ReadSetsComplete`, `ObjectsOwned`: `ReadYourWrites`,
  `ReadsTracked` and `ObjectsExclusive` of TransactionApi, under the steps of all
  front ends;
- `BuffersFreed`, `ErrorsKept`: `BuffersReleased` and `ErrorNamed`;
- `HandlersAtomic`: `RequestsAtomic`, the refinement of AtomicMap.

The invariant `FInv` has three parts.  Objects are owned once (`Exclusive`).  What a
client believes of its transaction is what the object holds: its writes over its
snapshot, its reads in the read set, and a snapshot that agrees with the database on
every key that no commit has touched since (`Mine`).  And for each step of a handler,
`Handler` says what the calls before it have left in the transaction and in the
answer.  The refinement then has one lemma per action of a handler, which shows the
instant of its request or a stutter.  For a write it is the commit: the conflict check
passed, so the snapshot's value of the key is still the database's, which makes the
answer that was read earlier (by delete) or the test (by insert) true at that instant.

The proofs need that values are not Booleans (`ApiAssumption`): in Rust they have
different types, and in TLA+ an answer of `get` could otherwise be one of `exists`.

### Only model-checked

- All liveness, which is outside what the prover handles: `RegistrationCompletes`,
  `CommitReturns`, `QueueDrains`, `DropReturns`, `QueueServed`, `AppendReturns`,
  `ThreadsEnd`.  That the  push loop of a commit ends is not checked.
- Persistence: `TypeOK`, `AckedRecoverable`, `AckedOnMedium` and `RecoveryExact`.
  Each of them  speaks of what `load` rebuilds, a fold of `push` over the snapshot and
  the log, and so  needs an induction over the log, for which the prover has no rule
  that it can apply.
- That the theorems of one module are what another takes as given (for example the
  watermarks Datastore may use, or the atomic commits of TransactionApi): the text of
  the modules says  so, no theorem does.

## Where the code and its documentation disagree

Two disagreements have runs (above) and are described under `findings`.  The
others met while modelling are stated as properties in the modules, and TLC refutes
each on the instance named here, as an `INVARIANT` (or `PROPERTY`) of a copy of the cfg.

| Property | Promise | What happens | Instance |
|---|---|---|---|
| `SnapshotsAboveWatermark` | `db/inner.rs:178`, snapshots are strictly above the watermark | They may be equal.  Harmless: `gc_older_versions` keeps the version visible at the watermark. | RegistryFloor |
| `ConflictWindowKept` | `docs/004:471`, the cleanup keeps every entry above an active snapshot | The iterator passes key v before a transaction registers there, then returns a later key, above the fallback it read first: entries the transaction has to scan are removed. | RegistryCommit with two transactions |
| `LatePushesVisible` | `docs/001:200`, late versions go in their place | `push` ignores a version equal to its predecessor, or a tombstone with none; a still older one arriving later then shows through. | DatastoreSafe |
| `CommitIdsUnique` | `transaction_inner.rs:499` | An id vacated by a conflict is filled again by a thread that loaded the old id. | PipelineLostUpdate with three transactions |
| `VersionsUnique` | `transaction_inner.rs:525` | A version is staged again after its first user left the merge queue. | PipelineLostUpdate |
| `RepeatableRead` | `transaction_inner.rs:269` | A version chosen before a snapshot and staged after it lies below it. | PipelineSnapshots |
| `CommittedVisible` | `docs/001:192` | A staged older version hides a newer one already in the datastore. | PipelineLostUpdate with `MaxNow = 2` |
| `ExistenceTruthful` | `transaction_inner.rs:374` | `exists` is true after the transaction's own `del`, and `put` is refused. | FrontEnds |
| `AckedRecoverable` with the fault `"tear"` | `docs/008:778`, later entries are unaffected | Nothing after a record cut short can be decoded, and appends go on after it. | two Narrow, `Faults = {"append", "tear"}` |
| `RecoveredAsWritten` | `docs/006:29` | `load` drops a tombstone at the head of a chain; an older record after it in the log revives the key. | one Narrow, one Eraser |
| `SnapshotWhole` | `docs/006:12` | The file is renamed before it is synced. | one Wide, `Faults = {"power"}` |
| `LogTrimmed` | `docs/008:419` | The tail is copied to the end of an append-mode file; nothing is removed. | two Narrow |
| `PendingCoversUnsynced` | `persistence.rs:494` | A cutoff of 0 resets the counter although the log has grown. | one Narrow, `FsyncModes = {"interval"}` |
| `UnloggedInvisible` | `transaction_inner.rs:347`, a failed append is rolled back | The pushes stay in the datastore. | one Wide, `Faults = {"append"}` |
| `ShutdownKeepsAcked` | `docs/008:30` | The append worker stops with operations in its queue. | one Wide, `Async = TRUE` |
| `RecoveredBelowClock` | `docs/006:241` | `load` does not raise the timestamp; a clock set back hides data. | one Narrow, `Faults = {"clock"}` |
| `RecoveredWhole` | `docs/006:241` | A snapshot catches part of a commit that never reaches the log. | one Wide |
| `NoThreadLeft` | `db/db.rs:58`, drop leaves no thread behind | With persistence, `Inner` holds a clone of the `Persistence`, which holds `Inner`; neither is freed, and the resync thread of the oracle runs on. | WorkersStop |

The passing properties carry these limits as preconditions, no wider than needed:
`Benign` in Datastore, `fresh`, `aligned` and `quiet` in CommitPipeline, `Sound` and
`snap.torn` in Persistence, `~cycle` in `ThreadsEnd`.  `SyncedAfterDrop` leaves out the
modes with snapshots, because of `PendingCoversUnsynced`, and a failing `sync_all`.
`RequestsAtomic` rests on TransactionApi's atomic snapshots and commits; where a
transaction's two snapshots disagree (PipelineLostUpdate), it fails with them.  AtomicMap
may refuse any write with 409, so how often writes lose is not part of the promise.

Seen in the bindings, and not stated as properties:

- the end of a Python `with` block ignores an error of its commit
  (`stupid-kv-py/src/lib.rs:267`), and a `cancel` of a closed transaction raises, where
  its comment says idempotent (`:192`);
- a Go call after `Close` passes a null handle and gets an unnamed error with code -1,
  where `errors.go` gives `ErrTxClosed` for a closed transaction;
- a Go finalizer may run `Close` while the last C call on the handle is still running;
- `pool_size` of the options is not used; the pool has `DEFAULT_POOL_SIZE`.

## What is not modelled

- Weak memory: steps are sequentially consistent.  The registry's operations are
  SeqCst with fences; the Acquire and Release operations of the pipeline are not.
- The oracle's anchor: the clock may return anything instead, which covers a resync.
- FNV: the base hashes are any function of the keys.
- Several `Database` values on one directory, and `Persistence` used without a Database.
- Options, compression and the conversion of keys to bytes: records, a library codec and
  copies, with no state that steps could interleave on.
- Of the bindings: option setters, the handle of the database itself, `snapshot()`.
  Of the server: start-up and its options.
- `AolMode::Never`, errors inside `truncate`'s copy, and the loss of an unsynced
  `set_len(0)` at a power failure.
- Two threads that write one temporary snapshot file: the result is marked torn, and
  the bytes are not modelled.

## Plan

1. Model: the commit queue's cleanup composed with the registry, instead of the bound
   it is meant to have; an abstract snapshot-isolation store that CommitPipeline
   implements under its preconditions, and an abstract durable store that Persistence
   implements.
2. Prove: where the records of an acknowledged commit are (in the synced log, in the snapshot, in
   the queue or the batch), as an invariant of Persistence that speaks of no fold; then what
   `Recover` makes of them, by a least counterexample (`LeastNat`) in place of induction.
