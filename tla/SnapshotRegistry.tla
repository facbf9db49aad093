-------------------------- MODULE SnapshotRegistry --------------------------
(***************************************************************************)
(* The reference-counted snapshot registry and the watermark scan that the *)
(* two garbage collectors share.                                           *)
(*                                                                         *)
(* A transaction registers the value it reads from an atomic (the oracle's *)
(* `timestamp`, or `transaction_commit_id`) by adding one to a shared      *)
(* counter stored under that value in a concurrent map; a collector scans  *)
(* the map in ascending order for the first live counter.  Every atomic    *)
(* load, compare-exchange and map operation of the code is one step here.  *)
(*                                                                         *)
(* HasFloor = TRUE   counter_by_oracle, with the gc_floor check, collected *)
(*                   by compute_cleanup_ts (two scans);                    *)
(* HasFloor = FALSE  counter_by_commit, no floor, collected by             *)
(*                   run_cleanup_inner (one scan).                         *)
(*                                                                         *)
(* Steps interleave sequentially consistently: the SeqCst fences of the    *)
(* code are what justifies that reading.                                   *)
(***************************************************************************)
EXTENDS Integers, FiniteSets

CONSTANTS
    Tx,         \* calls of Database::transaction, each one lifetime
    Collector,  \* threads that may run a collection (worker, manual run_gc)
    Counter,    \* addresses of Arc<AtomicU64> counters
    NoCounter,  \* a local variable that holds no counter
    Time,       \* the values the registered atomic may take
    Tombstone,  \* COUNTER_TOMBSTONE
    HasFloor    \* whether register_counter is given the gc_floor

ASSUME TxAssumption == IsFiniteSet(Tx)
ASSUME CounterAssumption == NoCounter \notin Counter
ASSUME TimeAssumption == Time \subseteq Nat
ASSUME TombstoneAssumption == Tombstone \in Nat /\ Tombstone > Cardinality(Tx)
ASSUME FloorAssumption == HasFloor \in BOOLEAN

VARIABLES
    clock,     \* the atomic that transactions register against
    gc_floor,  \* Inner::gc_floor
    map,       \* the SkipMap: counter stored under each value, or NoCounter
    count,     \* the value of each counter
    pc,        \* where each transaction is
    ver,       \* its local v
    ctr,       \* its local counter
    gpc,       \* where each collector is
    now,       \* its fallback
    pos,       \* key of the map entry its scan stands on
    cur,       \* counter of that entry
    prop,      \* its `proposed` watermark
    wm         \* the watermark it collects with

txVars == <<pc, ver, ctr>>
gcVars == <<gpc, now, pos, cur, prop, wm>>
vars == <<clock, gc_floor, map, count, txVars, gcVars>>

TxPc == {"begin", "insert", "acquire", "stable", "floor", "rollback",
         "unlink", "active", "remove", "done"}
GcPc == {"idle", "first", "firstLoad", "propose", "publish", "final",
         "finalLoad", "collect"}

\* Watermarks are compared with values of Time and with the initial floor 0.
Mark == Time \cup {0}

TypeOK ==
    /\ clock \in Time
    /\ gc_floor \in Mark
    /\ map \in [Time -> Counter \cup {NoCounter}]
    /\ count \in [Counter -> Nat]
    /\ pc \in [Tx -> TxPc]
    /\ ver \in [Tx -> Time]
    /\ ctr \in [Tx -> Counter \cup {NoCounter}]
    /\ gpc \in [Collector -> GcPc]
    /\ now \in [Collector -> Mark]
    /\ pos \in [Collector -> Time \cup {-1}]
    /\ cur \in [Collector -> Counter \cup {NoCounter}]
    /\ prop \in [Collector -> Mark]
    /\ wm \in [Collector -> Mark]

Init ==
    /\ clock \in Time
    /\ \A n \in Time : clock <= n
    /\ gc_floor = 0
    /\ map = [k \in Time |-> NoCounter]
    /\ count = [c \in Counter |-> 0]
    /\ pc = [t \in Tx |-> "begin"]
    /\ ver = [t \in Tx |-> clock]
    /\ ctr = [t \in Tx |-> NoCounter]
    /\ gpc = [g \in Collector |-> "idle"]
    /\ now = [g \in Collector |-> 0]
    /\ pos = [g \in Collector |-> -1]
    /\ cur = [g \in Collector |-> NoCounter]
    /\ prop = [g \in Collector |-> 0]
    /\ wm = [g \in Collector |-> 0]

-----------------------------------------------------------------------------
(* The registered atomic moves forward when a commit publishes its version *)
(* (fetch_max of the timestamp) or its slot (fetch_add of the commit id).  *)

Advance ==
    /\ \E n \in Time : n > clock /\ clock' = n
    /\ UNCHANGED <<gc_floor, map, count, txVars, gcVars>>

-----------------------------------------------------------------------------
(* register_counter *)

Goto(t, l) == pc' = [pc EXCEPT ![t] = l]

\* let v = atomic.load()
Load(t) ==
    /\ pc[t] = "begin"
    /\ ver' = [ver EXCEPT ![t] = clock]
    /\ Goto(t, "insert")
    /\ UNCHANGED <<clock, gc_floor, map, count, ctr, gcVars>>

\* An address the allocator may return: no Arc clone of it is alive.
Unreferenced(c) ==
    /\ \A k \in Time : map[k] # c
    /\ \A t \in Tx : ctr[t] # c
    /\ \A g \in Collector : cur[g] # c

\* map.get_or_insert_with(v, || Arc::new(AtomicU64::new(0))).value().clone()
GetOrInsert(t) ==
    /\ pc[t] = "insert"
    /\ \/ /\ map[ver[t]] # NoCounter
          /\ ctr' = [ctr EXCEPT ![t] = map[ver[t]]]
          /\ UNCHANGED <<map, count>>
       \/ /\ map[ver[t]] = NoCounter
          /\ \E c \in Counter :
                /\ Unreferenced(c)
                /\ map' = [map EXCEPT ![ver[t]] = c]
                /\ count' = [count EXCEPT ![c] = 0]
                /\ ctr' = [ctr EXCEPT ![t] = c]
    /\ Goto(t, "acquire")
    /\ UNCHANGED <<clock, gc_floor, ver, gcVars>>

\* Mutation of Acquire: the tombstone is not recognised.
AcquireRevives(t) ==
    /\ pc[t] = "acquire"
    /\ count' = [count EXCEPT ![ctr[t]] = @ + 1]
    /\ Goto(t, "stable")
    /\ UNCHANGED <<clock, gc_floor, map, ver, ctr, gcVars>>

\* The compare-exchange loop: give up on a tombstone, otherwise add one.
Acquire(t) ==
    /\ pc[t] = "acquire"
    /\ \/ /\ count[ctr[t]] = Tombstone
          /\ ctr' = [ctr EXCEPT ![t] = NoCounter]
          /\ Goto(t, "begin")
          /\ UNCHANGED count
       \/ /\ count[ctr[t]] # Tombstone
          /\ count' = [count EXCEPT ![ctr[t]] = @ + 1]
          /\ Goto(t, "stable")
          /\ UNCHANGED ctr
    /\ UNCHANGED <<clock, gc_floor, map, ver, gcVars>>

\* Mutation of CheckStable: the atomic is not reloaded after the increment.
CheckStableSkipped(t) ==
    /\ pc[t] = "stable"
    /\ Goto(t, IF HasFloor THEN "floor" ELSE "active")
    /\ UNCHANGED <<clock, gc_floor, map, count, ver, ctr, gcVars>>

\* atomic_stable: reload the atomic after the increment.
CheckStable(t) ==
    /\ pc[t] = "stable"
    /\ \/ clock # ver[t] /\ Goto(t, "rollback")
       \/ clock = ver[t] /\ Goto(t, IF HasFloor THEN "floor" ELSE "active")
    /\ UNCHANGED <<clock, gc_floor, map, count, ver, ctr, gcVars>>

\* floor_ok: gc_floor.load() <= v.
CheckFloor(t) ==
    /\ pc[t] = "floor"
    /\ \/ gc_floor <= ver[t] /\ Goto(t, "active")
       \/ gc_floor > ver[t] /\ Goto(t, "rollback")
    /\ UNCHANGED <<clock, gc_floor, map, count, ver, ctr, gcVars>>

\* release_counter: the last holder leaves a tombstone and must unlink (true),
\* any other one just decrements (false).
ReleaseCounter(t, last, others) ==
    \/ /\ count[ctr[t]] > 1
       /\ count' = [count EXCEPT ![ctr[t]] = @ - 1]
       /\ ctr' = [ctr EXCEPT ![t] = NoCounter]
       /\ Goto(t, others)
    \/ /\ count[ctr[t]] = 1
       /\ count' = [count EXCEPT ![ctr[t]] = Tombstone]
       /\ Goto(t, last)
       /\ UNCHANGED ctr

Rollback(t) ==
    /\ pc[t] = "rollback"
    /\ ReleaseCounter(t, "unlink", "begin")
    /\ UNCHANGED <<clock, gc_floor, map, ver, gcVars>>

\* Mutation of RollbackUnlink: the tombstone is left in the map.
RollbackForgets(t) ==
    /\ pc[t] = "unlink"
    /\ ctr' = [ctr EXCEPT ![t] = NoCounter]
    /\ Goto(t, "begin")
    /\ UNCHANGED <<clock, gc_floor, map, count, ver, gcVars>>

\* Arc::ptr_eq guards the removal in the rollback path.
RollbackUnlink(t) ==
    /\ pc[t] = "unlink"
    /\ map' = IF map[ver[t]] = ctr[t]
                THEN [map EXCEPT ![ver[t]] = NoCounter] ELSE map
    /\ ctr' = [ctr EXCEPT ![t] = NoCounter]
    /\ Goto(t, "begin")
    /\ UNCHANGED <<clock, gc_floor, count, ver, gcVars>>

-----------------------------------------------------------------------------
(* Transaction::drop *)

DropRelease(t) ==
    /\ pc[t] = "active"
    /\ ReleaseCounter(t, "remove", "done")
    /\ UNCHANGED <<clock, gc_floor, map, ver, gcVars>>

\* map.remove(&v): by key, whatever counter is stored there now.
DropRemove(t) ==
    /\ pc[t] = "remove"
    /\ map' = [map EXCEPT ![ver[t]] = NoCounter]
    /\ ctr' = [ctr EXCEPT ![t] = NoCounter]
    /\ Goto(t, "done")
    /\ UNCHANGED <<clock, gc_floor, count, ver, gcVars>>

-----------------------------------------------------------------------------
(* earliest_active and its two callers *)

GcGoto(g, l) == gpc' = [gpc EXCEPT ![g] = l]

MinOf(a, b) == IF a <= b THEN a ELSE b
MaxOf(a, b) == IF a >= b THEN a ELSE b

\* compute_cleanup_ts reads the wall clock, which is tied to the timestamp in
\* neither direction: it may run ahead of it or, after a resync, behind it.
ReadNow(g) ==
    /\ gpc[g] = "idle"
    /\ HasFloor
    /\ \E n \in Time : now' = [now EXCEPT ![g] = n]
    /\ pos' = [pos EXCEPT ![g] = -1]
    /\ GcGoto(g, "first")
    /\ UNCHANGED <<clock, gc_floor, map, count, txVars, cur, prop, wm>>

\* run_cleanup_inner reads transaction_commit_id as the fallback.
ReadFallback(g) ==
    /\ gpc[g] = "idle"
    /\ ~HasFloor
    /\ now' = [now EXCEPT ![g] = clock]
    /\ prop' = [prop EXCEPT ![g] = clock]
    /\ pos' = [pos EXCEPT ![g] = -1]
    /\ GcGoto(g, "final")
    /\ UNCHANGED <<clock, gc_floor, map, count, txVars, cur, wm>>

\* What the caller does with the value e its scan returned.
ScanReturns(g, e) ==
    \/ /\ gpc[g] \in {"first", "firstLoad"}
       /\ prop' = [prop EXCEPT ![g] = MinOf(now[g], e)]
       /\ GcGoto(g, "propose")
       /\ UNCHANGED wm
    \/ /\ gpc[g] \in {"final", "finalLoad"}
       /\ wm' = [wm EXCEPT ![g] = IF HasFloor THEN MinOf(prop[g], e) ELSE e]
       /\ GcGoto(g, "collect")
       /\ UNCHANGED prop

Ahead(g) == {k \in Time : k > pos[g] /\ map[k] # NoCounter}

\* Mutation of ScanNext: the end of the map yields the last key visited.
ScanNextNoFallback(g) ==
    /\ gpc[g] \in {"first", "final"}
    /\ \/ /\ Ahead(g) = {}
          /\ ScanReturns(g, pos[g])
          /\ UNCHANGED <<pos, cur>>
       \/ \E k \in Ahead(g) :
             /\ \A j \in Ahead(g) : k <= j
             /\ pos' = [pos EXCEPT ![g] = k]
             /\ cur' = [cur EXCEPT ![g] = map[k]]
             /\ GcGoto(g, IF gpc[g] = "first" THEN "firstLoad" ELSE "finalLoad")
             /\ UNCHANGED <<prop, wm>>
    /\ UNCHANGED <<clock, gc_floor, map, count, txVars, now>>

\* The iterator moves to the next entry, or ends and yields the fallback.
ScanNext(g) ==
    /\ gpc[g] \in {"first", "final"}
    /\ \/ /\ Ahead(g) = {}
          /\ ScanReturns(g, now[g])
          /\ UNCHANGED <<pos, cur>>
       \/ \E k \in Ahead(g) :
             /\ \A j \in Ahead(g) : k <= j
             /\ pos' = [pos EXCEPT ![g] = k]
             /\ cur' = [cur EXCEPT ![g] = map[k]]
             /\ GcGoto(g, IF gpc[g] = "first" THEN "firstLoad" ELSE "finalLoad")
             /\ UNCHANGED <<prop, wm>>
    /\ UNCHANGED <<clock, gc_floor, map, count, txVars, now>>

\* The counter of that entry is loaded; zero and tombstone are passed over.
ScanLoad(g) ==
    /\ gpc[g] \in {"firstLoad", "finalLoad"}
    /\ \/ /\ count[cur[g]] \notin {0, Tombstone}
          /\ ScanReturns(g, pos[g])
       \/ /\ count[cur[g]] \in {0, Tombstone}
          /\ GcGoto(g, IF gpc[g] = "firstLoad" THEN "first" ELSE "final")
          /\ UNCHANGED <<prop, wm>>
    /\ cur' = [cur EXCEPT ![g] = NoCounter]
    /\ UNCHANGED <<clock, gc_floor, map, count, txVars, now, pos>>

\* Mutation of Propose: the proposal is not capped by the timestamp.
ProposeUncapped(g) ==
    /\ gpc[g] = "propose"
    /\ GcGoto(g, "publish")
    /\ UNCHANGED <<clock, gc_floor, map, count, txVars, now, pos, cur, prop, wm>>

\* oracle_now caps the proposal.
Propose(g) ==
    /\ gpc[g] = "propose"
    /\ prop' = [prop EXCEPT ![g] = MinOf(@, clock)]
    /\ GcGoto(g, "publish")
    /\ UNCHANGED <<clock, gc_floor, map, count, txVars, now, pos, cur, wm>>

\* Mutation of PublishFloor: the proposal is used without a second scan.
PublishFloorNoRescan(g) ==
    /\ gpc[g] = "publish"
    /\ gc_floor' = MaxOf(gc_floor, prop[g])
    /\ wm' = [wm EXCEPT ![g] = prop[g]]
    /\ GcGoto(g, "collect")
    /\ UNCHANGED <<clock, map, count, txVars, now, pos, cur, prop>>

\* gc_floor.fetch_max(proposed), then the second scan starts.
PublishFloor(g) ==
    /\ gpc[g] = "publish"
    /\ gc_floor' = MaxOf(gc_floor, prop[g])
    /\ pos' = [pos EXCEPT ![g] = -1]
    /\ GcGoto(g, "final")
    /\ UNCHANGED <<clock, map, count, txVars, now, cur, prop, wm>>

\* The collection with watermark wm[g] is over and its locals die.
Finish(g) ==
    /\ gpc[g] = "collect"
    /\ now' = [now EXCEPT ![g] = 0]
    /\ pos' = [pos EXCEPT ![g] = -1]
    /\ prop' = [prop EXCEPT ![g] = 0]
    /\ wm' = [wm EXCEPT ![g] = 0]
    /\ GcGoto(g, "idle")
    /\ UNCHANGED <<clock, gc_floor, map, count, txVars, cur>>

-----------------------------------------------------------------------------

Register(t) ==
    \/ Load(t) \/ GetOrInsert(t) \/ Acquire(t) \/ CheckStable(t)
    \/ CheckFloor(t) \/ Rollback(t) \/ RollbackUnlink(t)

Drop(t) == DropRelease(t) \/ DropRemove(t)

Collect(g) ==
    \/ ReadNow(g) \/ ReadFallback(g) \/ ScanNext(g) \/ ScanLoad(g)
    \/ Propose(g) \/ PublishFloor(g) \/ Finish(g)

Next ==
    \/ Advance
    \/ \E t \in Tx : Register(t) \/ Drop(t)
    \/ \E g \in Collector : Collect(g)

Spec == Init /\ [][Next]_vars

\* Every thread inside register_counter, drop or a collection keeps running.
\* When a client drops its transaction, and when commits happen, is up to it.
Fairness ==
    /\ \A t \in Tx : WF_vars(Register(t) \/ DropRemove(t))
    /\ \A g \in Collector : WF_vars(Collect(g))

FairSpec == Spec /\ Fairness

-----------------------------------------------------------------------------
(* Properties *)

Active(t) == pc[t] = "active"

\* The transactions that have added one to counter c and not released it.
Holding(t) == pc[t] \in {"stable", "floor", "rollback", "active"}
Holders(c) == {t \in Tx : Holding(t) /\ ctr[t] = c}

\* compute_cleanup_ts: no collection ever runs with a watermark above the
\* snapshot of a registered transaction, whichever way the transaction's
\* increment, reload and floor check interleave with the two scans and the
\* publication of the floor.
WatermarkBelowSnapshots ==
    \A g \in Collector, t \in Tx :
        gpc[g] = "collect" /\ Active(t) => wm[g] <= ver[t]

\* earliest_active: a transaction registered below the collector's fallback
\* is never missed by the scan (the invariant stated above register_counter).
BelowFallbackNotMissed ==
    \A g \in Collector, t \in Tx :
        gpc[g] = "collect" /\ Active(t) /\ ver[t] < prop[g] => wm[g] <= ver[t]

\* A registered transaction's counter stays reachable under its snapshot and
\* is neither zero nor a tombstone: the removal by key in Transaction::drop,
\* which does not compare pointers, never unlinks somebody else's counter.
LiveCounterLinked ==
    \A t \in Tx :
        Active(t) => /\ map[ver[t]] = ctr[t]
                     /\ count[ctr[t]] = Cardinality(Holders(ctr[t]))

\* Every entry of the map belongs to a transaction that will still unlink it:
\* retries and rollbacks of register_counter leak no entry.
NoLeakedEntry ==
    \A k \in Time :
        map[k] # NoCounter => \E t \in Tx : ctr[t] = map[k] /\ ver[t] = k

\* The published floor never passes the timestamp, so some snapshot can
\* always pass the floor check (the reason for the cap by oracle_now).
FloorNotAhead == gc_floor <= clock

\* register_counter returns: neither the floor check nor the tombstone of a
\* departing transaction sends it round its loop for ever.
RegistrationCompletes ==
    \A t \in Tx : pc[t] = "insert" ~> pc[t] = "active"

\* What the comment on compute_cleanup_ts promises of transactions: their
\* version is strictly above the returned watermark.
SnapshotsAboveWatermark ==
    \A g \in Collector, t \in Tx :
        gpc[g] = "collect" /\ Active(t) => ver[t] > wm[g]

\* What docs/004 promises of run_cleanup_inner: a commit-queue entry in the
\* conflict window (ver[t], ..) of a registered transaction is not deleted.
\* The collection deletes the entries below wm[g].
ConflictWindowKept ==
    \A g \in Collector, t \in Tx :
        gpc[g] = "collect" /\ Active(t) => wm[g] <= ver[t] + 1
=============================================================================
