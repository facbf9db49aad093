----------------------------- MODULE Datastore ------------------------------
(***************************************************************************)
(* One key of Inner::datastore: the SkipMap entry with its lock-protected  *)
(* version chain, written by commits, read at snapshots, and compacted or  *)
(* unlinked by the version collector.  Entries are locked one at a time,   *)
(* so keys do not interact and one key stands for all.                     *)
(*                                                                         *)
(* A step taken under an entry's lock is one action; looking the entry up  *)
(* and locking it are two.  Registration of snapshots is the one step      *)
(* Begin, and the watermark any value that module SnapshotRegistry allows  *)
(* compute_cleanup_ts to return.                                           *)
(***************************************************************************)
EXTENDS Versions

CONSTANTS Tx,         \* transactions
          Collector,  \* the worker thread, and callers of run_gc
          Node,       \* addresses of SkipMap nodes
          NoNode,     \* no entry
          Time        \* versions

ASSUME NodeAssumption == NoNode \notin Node
ASSUME TimeAssumption == Time \subseteq Nat /\ 0 \in Time

VARIABLES
    ts,       \* oracle.timestamp
    entry,    \* the key's node in the SkipMap, or NoNode
    chain,    \* the versions stored in each node
    removed,  \* nodes for which is_removed() holds
    dirty,    \* how often the key is in gc_dirty_keys
    tx,       \* each transaction: pc, snapshot, version, value, node, answer
    gc,       \* each collector: pc, watermark, node, whether the key was seen
    log       \* history: the versions pushed, in the order they arrived

vars == <<ts, entry, chain, removed, dirty, tx, gc, log>>

NodeOrNone == Node \cup {NoNode}

TypeOK ==
    /\ ts \in Time
    /\ entry \in NodeOrNone
    /\ chain \in [Node -> Seq(Version)]
    /\ removed \subseteq Node
    /\ dirty \in Nat
    /\ tx \in [Tx -> [pc : {"idle", "active", "insert", "lock", "dirty", "read", "done"},
                      snap : Time, ver : Time, val : Value \cup {None},
                      at : NodeOrNone, since : Nat,
                      may : SUBSET (Value \cup {None}), got : Value \cup {None}]]
    /\ gc \in [Collector -> [pc : {"idle", "dirty", "dirtyLock", "full", "fullLock"},
                             wm : Time, at : NodeOrNone, seen : BOOLEAN]]
    /\ log \in Seq(Version)

Init ==
    /\ ts = 0
    /\ entry = NoNode
    /\ chain = [n \in Node |-> <<>>]
    /\ removed = {}
    /\ dirty = 0
    /\ tx = [t \in Tx |-> [pc |-> "idle", snap |-> 0, ver |-> 0, val |-> None,
                           at |-> NoNode, since |-> 0, may |-> {}, got |-> None]]
    /\ gc = [g \in Collector |-> [pc |-> "idle", wm |-> 0, at |-> NoNode,
                                  seen |-> FALSE]]
    /\ log = <<>>

Active(t) == tx[t].pc \notin {"idle", "done"}

\* The value a read at snapshot s owes its caller after some pushes: the last
\* to arrive of those with the greatest version <= s.
Latest(pushes, s) ==
    LET visible == {i \in 1..Len(pushes) : pushes[i].version <= s}
        newest == {i \in visible : \A j \in visible :
                      \/ pushes[j].version < pushes[i].version
                      \/ pushes[j].version = pushes[i].version /\ j <= i}
    IN  IF visible = {} THEN None ELSE pushes[CHOOSE i \in newest : TRUE].value

Reference(s) == Latest(log, s)

-----------------------------------------------------------------------------
(* Transactions *)

\* TransactionInner::new: the snapshot is the timestamp at registration.
Begin(t) ==
    /\ tx[t].pc = "idle"
    /\ tx' = [tx EXCEPT ![t].pc = "active", ![t].snap = ts]
    /\ UNCHANGED <<ts, entry, chain, removed, dirty, gc, log>>

\* atomic_merge: the version is above the timestamp it loads, hence above the
\* transaction's own snapshot; module CommitPipeline has the details.
AssignVersion(t) ==
    /\ tx[t].pc = "active"
    /\ \E v \in Time, x \in Value \cup {None} :
          /\ v > tx[t].snap
          /\ ts' = IF v > ts THEN v ELSE ts
          /\ tx' = [tx EXCEPT ![t].pc = "insert", ![t].ver = v, ![t].val = x]
    /\ UNCHANGED <<entry, chain, removed, dirty, gc, log>>

Written(t) == [version |-> tx[t].ver, value |-> tx[t].val]

\* An address the allocator may return.
Unreferenced(n) ==
    /\ n # entry
    /\ \A t \in Tx : tx[t].at # n
    /\ \A g \in Collector : gc[g].at # n

\* datastore.get_or_insert_with(key, || Versions::from(..))
GetOrInsert(t) ==
    /\ tx[t].pc = "insert"
    /\ \/ /\ entry # NoNode
          /\ tx' = [tx EXCEPT ![t].pc = "lock", ![t].at = entry]
          /\ UNCHANGED <<entry, chain, removed, log>>
       \/ /\ entry = NoNode
          /\ \E n \in Node :
                /\ Unreferenced(n)
                /\ entry' = n
                /\ chain' = [chain EXCEPT ![n] = From(Written(t))]
                /\ removed' = removed \ {n}
                /\ tx' = [tx EXCEPT ![t].pc = "lock", ![t].at = n]
          /\ log' = Append(log, Written(t))
    /\ UNCHANGED <<ts, dirty, gc>>

\* Mutation of LockAndPush: the write lock is trusted, is_removed is not asked.
LockAndPushBlind(t) ==
    /\ tx[t].pc = "lock"
    /\ chain' = [chain EXCEPT ![tx[t].at] = Push(@, Written(t))]
    /\ log' = Append(log, Written(t))
    /\ tx' = [tx EXCEPT ![t].pc = "dirty", ![t].at = NoNode]
    /\ UNCHANGED <<ts, entry, removed, dirty, gc>>

\* Under the write lock: start over when the node was unlinked, else push.
LockAndPush(t) ==
    /\ tx[t].pc = "lock"
    /\ \/ /\ tx[t].at \in removed
          /\ tx' = [tx EXCEPT ![t].pc = "insert", ![t].at = NoNode]
          /\ UNCHANGED <<chain, log>>
       \/ /\ tx[t].at \notin removed
          /\ chain' = [chain EXCEPT ![tx[t].at] = Push(@, Written(t))]
          /\ log' = Append(log, Written(t))
          /\ tx' = [tx EXCEPT ![t].pc = "dirty", ![t].at = NoNode]
    /\ UNCHANGED <<ts, entry, removed, dirty, gc>>

\* gc_dirty_keys.push(key); the transaction then ends.
MarkDirty(t) ==
    /\ tx[t].pc = "dirty"
    /\ dirty' = dirty + 1
    /\ tx' = [tx EXCEPT ![t].pc = "done"]
    /\ UNCHANGED <<ts, entry, chain, removed, gc, log>>

\* fetch_in_datastore, after the merge queue: look the entry up ...  (since and
\* may are history: the answers that are current from here to the read.)
Lookup(t) ==
    /\ tx[t].pc = "active"
    /\ tx' = [tx EXCEPT ![t].at = entry,
                        ![t].since = IF entry = NoNode THEN 0 ELSE Len(log),
                        ![t].may = IF entry = NoNode THEN {Reference(tx[t].snap)} ELSE {},
                        ![t].pc = IF entry = NoNode THEN "done" ELSE "read"]
    /\ UNCHANGED <<ts, entry, chain, removed, dirty, gc, log>>

\* ... and read its chain under the read lock.
Read(t) ==
    /\ tx[t].pc = "read"
    /\ tx' = [tx EXCEPT ![t].got = FetchVersion(chain[tx[t].at], tx[t].snap),
                        ![t].may = {Latest(SubSeq(log, 1, m), tx[t].snap) :
                                      m \in tx[t].since..Len(log)},
                        ![t].since = 0,
                        ![t].at = NoNode,
                        ![t].pc = "done"]
    /\ UNCHANGED <<ts, entry, chain, removed, dirty, gc, log>>

-----------------------------------------------------------------------------
(* The collector: run_gc, and one round of the worker thread *)

\* Mutation of StartGc: the watermark ignores the registered snapshots.
StartGcUnregistered(g) ==
    /\ gc[g].pc = "idle"
    /\ \E w \in Time :
          /\ w <= ts
          /\ gc' = [gc EXCEPT ![g].pc = "dirty", ![g].wm = w, ![g].seen = FALSE]
    /\ UNCHANGED <<ts, entry, chain, removed, dirty, tx, log>>

\* compute_cleanup_ts returns at most the timestamp and every live snapshot.
StartGc(g) ==
    /\ gc[g].pc = "idle"
    /\ \E w \in Time :
          /\ w <= ts
          /\ \A t \in Tx : Active(t) => w <= tx[t].snap
          /\ gc' = [gc EXCEPT ![g].pc = "dirty", ![g].wm = w, ![g].seen = FALSE]
    /\ UNCHANGED <<ts, entry, chain, removed, dirty, tx, log>>

\* run_gc_dirty_inner: pop a key; the first time it is seen, gc_key looks its
\* entry up.
PopDirty(g) ==
    /\ gc[g].pc = "dirty"
    /\ dirty > 0
    /\ dirty' = dirty - 1
    /\ gc' = [gc EXCEPT ![g].seen = TRUE,
                 ![g].at = IF gc[g].seen THEN NoNode ELSE entry,
                 ![g].pc = IF gc[g].seen \/ entry = NoNode THEN @ ELSE "dirtyLock"]
    /\ UNCHANGED <<ts, entry, chain, removed, tx, log>>

\* The queue is empty: a full scan follows in run_gc, and in every
\* gc_full_scan_frequency-th round of the worker.
DirtyEmpty(g) ==
    /\ gc[g].pc = "dirty"
    /\ dirty = 0
    /\ \E next \in {"full", "idle"} : gc' = [gc EXCEPT ![g].pc = next]
    /\ UNCHANGED <<ts, entry, chain, removed, dirty, tx, log>>

\* run_gc_full: the iterator reaches the key's entry, if it has one.
FullScan(g) ==
    /\ gc[g].pc = "full"
    /\ gc' = [gc EXCEPT ![g].at = entry,
                        ![g].pc = IF entry = NoNode THEN "idle" ELSE "fullLock"]
    /\ UNCHANGED <<ts, entry, chain, removed, dirty, tx, log>>

\* Under the write lock: compact the chain, and unlink the entry if that left
\* it empty.
Compact(g) ==
    /\ gc[g].pc \in {"dirtyLock", "fullLock"}
    /\ LET n == gc[g].at
           kept == GcOlderVersions(chain[n], gc[g].wm)
       IN  /\ chain' = [chain EXCEPT ![n] = kept]
           /\ removed' = IF kept = <<>> THEN removed \cup {n} ELSE removed
           /\ entry' = IF kept = <<>> /\ entry = n THEN NoNode ELSE entry
    /\ gc' = [gc EXCEPT ![g].at = NoNode,
                        ![g].pc = IF @ = "dirtyLock" THEN "dirty" ELSE "idle"]
    /\ UNCHANGED <<ts, dirty, tx, log>>

-----------------------------------------------------------------------------

Write(t) == GetOrInsert(t) \/ LockAndPush(t) \/ MarkDirty(t)

Collect(g) ==
    PopDirty(g) \/ DirtyEmpty(g) \/ FullScan(g) \/ Compact(g)

Next ==
    \/ \E t \in Tx : Begin(t) \/ AssignVersion(t) \/ Write(t) \/ Lookup(t) \/ Read(t)
    \/ \E g \in Collector : StartGc(g) \/ Collect(g)

Spec == Init /\ [][Next]_vars

-----------------------------------------------------------------------------
(* Properties *)

\* A new version, or the writer that inserted the entry pushing it once more.
InOrder(i, j) ==
    log[i].version < log[j].version \/ \E k \in 1..i : log[k] = log[j]

\* Versions are unique, and pushes reached the key in version order or carried
\* pairwise distinct live values: the deduplication in push is exact in these
\* two cases only.
Benign ==
    /\ \A i, j \in 1..Len(log) :
          log[i].version = log[j].version => log[i].value = log[j].value
    /\ \/ \A i, j \in 1..Len(log) : i < j => InOrder(i, j)
       \/ \A i, j \in 1..Len(log) :
             /\ log[i].value # None
             /\ log[i].value = log[j].value => log[i].version = log[j].version

\* What a read at snapshot s finds now.
Visible(s) == IF entry = NoNode THEN None ELSE FetchVersion(chain[entry], s)

\* Every live snapshot reads the newest version it may see: collection, the
\* unlinking of empty chains and the retry of writers that met an unlinked
\* node lose nothing and bring nothing back.
SnapshotReadsIntact ==
    Benign => \A t \in Tx : Active(t) => Visible(tx[t].snap) = Reference(tx[t].snap)

\* A reader that looked an entry up before the collector unlinked it still
\* answers what was current at some moment between its lookup and its read.
ReadsLinearizable ==
    Benign => \A t \in Tx :
        tx[t].pc = "done" /\ tx[t].may # {} => tx[t].got \in tx[t].may

\* push keeps every chain ascending, whatever order versions arrive in, and
\* an unlinked node holds no version: no write is stranded in it.
ChainsWellFormed ==
    \A n \in Node : Ascending(chain[n]) /\ (n \in removed => chain[n] = <<>>)

\* The collector never uses a watermark that reaches a version still on its
\* way into the chain.
InFlightAboveWatermark ==
    \A t \in Tx, g \in Collector :
        /\ tx[t].pc \in {"insert", "lock"}
        /\ gc[g].pc # "idle"
        => gc[g].wm < tx[t].ver

\* What docs/001 says of push and fetch_version: a version that arrives late
\* is put in its place, and a read finds the greatest version <= its own.
LatePushesVisible ==
    \A t \in Tx : Active(t) => Visible(tx[t].snap) = Reference(tx[t].snap)
=============================================================================
