--------------------------- MODULE CommitPipeline ---------------------------
(***************************************************************************)
(* TransactionInner::commit and the reads that race with it: the commit    *)
(* queue with its conflict scan, the merge queue that assigns versions,    *)
(* the pushes into the datastore, and get.                                 *)
(*                                                                         *)
(* Every load, fetch_add, fetch_max, insertion, removal and iterator step  *)
(* on shared state is one action.  Transactions follow a plan: they read   *)
(* keys of Reads[t] and then commit the write set Writes[t].  The value    *)
(* that t writes is t itself, so an answer names its writer.  The key's    *)
(* entry and its collection are module Datastore's subject, registration   *)
(* is module SnapshotRegistry's.                                           *)
(***************************************************************************)
EXTENDS Integers, Sequences, FiniteSets

CONSTANTS
    Tx,            \* transactions
    NoTx,          \* an empty queue slot, and the answer of an absent key
    Key,           \* keys, ordered
    Plans,         \* what the transactions may set out to do
    Now,           \* the values current_time_ns may return
    Time,          \* versions
    Slot,          \* commit ids
    MaxGets        \* how many gets a transaction makes at most

ASSUME PlanAssumption ==
    /\ NoTx \notin Tx
    /\ Key \subseteq Nat /\ Now \subseteq Time /\ Time \subseteq Nat /\ Slot \subseteq Nat
    /\ Plans \subseteq [writes : [Tx -> SUBSET Key], reads : [Tx -> SUBSET Key],
                        serializable : SUBSET Tx]
    /\ MaxGets \in Nat

V == INSTANCE Versions WITH Value <- Tx, None <- NoTx

VARIABLES
    timestamp,     \* oracle.timestamp
    commit_id,     \* transaction_commit_id
    commit_queue,  \* transaction_commit_queue: its occupant, per slot
    merge_queue,   \* transaction_merge_queue: its occupant, per version
    store,         \* the version chain of each key
    tx,            \* each transaction's locals
    hist,          \* history: how each transaction began and took its slot
    plan           \* what the transactions do; never changes

vars == <<timestamp, commit_id, commit_queue, merge_queue, store, tx, hist, plan>>

Writes == plan.writes              \* the keys each transaction sets
Reads == plan.reads                \* the keys it may get before it commits
Serializable == plan.serializable  \* the transactions in SSI mode

Pc == {"idle", "begin", "active", "walk", "fetch", "slot", "place", "bump",
       "scan", "merge", "stage", "publish", "push", "append", "unstage",
       "committed", "conflict", "unlogged"}

TypeOK ==
    /\ timestamp \in Time
    /\ commit_id \in Slot
    /\ commit_queue \in [Slot -> Tx \cup {NoTx}]
    /\ merge_queue \in [Time -> Tx \cup {NoTx}]
    /\ store \in [Key -> Seq(V!Version)]
    /\ tx \in [Tx -> [pc : Pc, version : Time, commit : Slot, slot : Slot,
                      pos : Nat, merged : Time, todo : SUBSET Key, err : BOOLEAN,
                      key : Key, gets : 0..MaxGets, readset : SUBSET Key,
                      answers : [Key -> SUBSET (Tx \cup {NoTx})]]]
    /\ plan \in Plans
    /\ hist \in [Tx -> [quiet : BOOLEAN, aligned : BOOLEAN, fresh : BOOLEAN]]

MinOf(S) == CHOOSE x \in S : \A y \in S : x <= y
MaxOf(S) == CHOOSE x \in S : \A y \in S : x >= y
Larger(x, y) == IF x >= y THEN x ELSE y

Init ==
    /\ plan \in Plans
    /\ timestamp = 0
    /\ commit_id = 0
    /\ commit_queue = [s \in Slot |-> NoTx]
    /\ merge_queue = [v \in Time |-> NoTx]
    /\ store = [k \in Key |-> <<>>]
    /\ tx = [t \in Tx |->
              [pc |-> "idle", version |-> 0, commit |-> 0, slot |-> 0, pos |-> 0,
               merged |-> 0, todo |-> {}, err |-> FALSE, key |-> MinOf(Key),
               gets |-> 0, readset |-> {}, answers |-> [k \in Key |-> {}]]]
    /\ hist = [t \in Tx |-> [quiet |-> FALSE, aligned |-> FALSE, fresh |-> FALSE]]

At(t, l) == tx[t].pc = l

\* Transactions whose version is chosen and whose pushes may be incomplete.
Merging(t) == tx[t].pc \in {"stage", "publish", "push", "append", "unstage"}

-----------------------------------------------------------------------------
(* TransactionInner::new: two registrations, one after the other *)

BeginVersion(t) ==
    /\ At(t, "idle")
    /\ tx' = [tx EXCEPT ![t].pc = "begin", ![t].version = timestamp]
    /\ hist' = [hist EXCEPT ![t].quiet = \A u \in Tx : ~Merging(u)]
    /\ UNCHANGED <<timestamp, commit_id, commit_queue, merge_queue, store>>

\* Aligned: every commit below the commit snapshot is in the version snapshot.
BeginCommit(t) ==
    /\ At(t, "begin")
    /\ tx' = [tx EXCEPT ![t].pc = "active", ![t].commit = commit_id]
    /\ hist' = [hist EXCEPT ![t].aligned = \A u \in Tx :
                   /\ tx[u].pc \notin {"scan", "merge", "stage", "publish"}
                   /\ At(u, "bump") => tx[u].slot > commit_id
                   /\ tx[u].merged <= tx[t].version]
    /\ UNCHANGED <<timestamp, commit_id, commit_queue, merge_queue, store>>

-----------------------------------------------------------------------------
(* get: fetch_in_datastore *)

\* Mutation of Get: the range over the merge queue has no upper bound.
GetUnbounded(t) ==
    /\ At(t, "active")
    /\ tx[t].gets < MaxGets
    /\ \E k \in Reads[t] :
          tx' = [tx EXCEPT ![t].pc = "walk", ![t].key = k, ![t].gets = @ + 1,
                           ![t].pos = MaxOf(Time) + 1]
    /\ UNCHANGED <<timestamp, commit_id, commit_queue, merge_queue, store, hist>>

Get(t) ==
    /\ At(t, "active")
    /\ tx[t].gets < MaxGets
    /\ \E k \in Reads[t] :
          tx' = [tx EXCEPT ![t].pc = "walk", ![t].key = k, ![t].gets = @ + 1,
                           ![t].pos = tx[t].version + 1]
    /\ UNCHANGED <<timestamp, commit_id, commit_queue, merge_queue, store, hist>>

\* The answer is returned; an SSI write transaction adds the key to its
\* read set.
Answer(t, a) ==
    tx' = [tx EXCEPT ![t].pc = "active",
              ![t].answers[tx[t].key] = @ \cup {a},
              ![t].readset = IF t \in Serializable /\ Writes[t] # {}
                             THEN @ \cup {tx[t].key} ELSE @]

\* The entries merge_queue.range(..=version).rev() has still to yield.
Staged(t) == {v \in Time : v < tx[t].pos /\ merge_queue[v] # NoTx}

Walk(t) ==
    /\ At(t, "walk")
    /\ \/ /\ Staged(t) = {}
          /\ tx' = [tx EXCEPT ![t].pc = "fetch"]
       \/ \E v \in Staged(t) :
             /\ \A w \in Staged(t) : w <= v
             /\ \/ /\ tx[t].key \in Writes[merge_queue[v]]
                   /\ Answer(t, merge_queue[v])
                \/ /\ tx[t].key \notin Writes[merge_queue[v]]
                   /\ tx' = [tx EXCEPT ![t].pos = v]
    /\ UNCHANGED <<timestamp, commit_id, commit_queue, merge_queue, store, hist>>

Fetch(t) ==
    /\ At(t, "fetch")
    /\ Answer(t, V!FetchVersion(store[tx[t].key], tx[t].version))
    /\ UNCHANGED <<timestamp, commit_id, commit_queue, merge_queue, store, hist>>

-----------------------------------------------------------------------------
(* auto_commit *)

\* commit with an empty write set returns at once.
CommitReadOnly(t) ==
    /\ At(t, "active")
    /\ Writes[t] = {}
    /\ tx' = [tx EXCEPT ![t].pc = "committed"]
    /\ UNCHANGED <<timestamp, commit_id, commit_queue, merge_queue, store, hist>>

LoadSlot(t) ==
    /\ \/ At(t, "active") /\ Writes[t] # {}
       \/ At(t, "slot")
    /\ tx' = [tx EXCEPT ![t].pc = "place", ![t].slot = commit_id + 1]
    /\ UNCHANGED <<timestamp, commit_id, commit_queue, merge_queue, store, hist>>

\* Mutation of PlaceSlot: insert, not get_or_insert.
PlaceSlotOverwrites(t) ==
    /\ At(t, "place")
    /\ commit_queue' = [commit_queue EXCEPT ![tx[t].slot] = t]
    /\ tx' = [tx EXCEPT ![t].pc = "bump"]
    /\ hist' = [hist EXCEPT ![t].fresh = (tx[t].slot = commit_id + 1)]
    /\ UNCHANGED <<timestamp, commit_id, merge_queue, store>>

\* Mutation of PlaceSlot: an occupied slot is tried again, not a new one.
PlaceSlotWaits(t) ==
    /\ At(t, "place")
    /\ \/ /\ commit_queue[tx[t].slot] = NoTx
          /\ commit_queue' = [commit_queue EXCEPT ![tx[t].slot] = t]
          /\ tx' = [tx EXCEPT ![t].pc = "bump"]
          /\ hist' = [hist EXCEPT ![t].fresh = (tx[t].slot = commit_id + 1)]
       \/ /\ commit_queue[tx[t].slot] # NoTx
          /\ UNCHANGED <<commit_queue, tx, hist>>
    /\ UNCHANGED <<timestamp, commit_id, merge_queue, store>>

\* commit_queue.get_or_insert_with(version, updates)
PlaceSlot(t) ==
    /\ At(t, "place")
    /\ \/ /\ commit_queue[tx[t].slot] = NoTx
          /\ commit_queue' = [commit_queue EXCEPT ![tx[t].slot] = t]
          /\ tx' = [tx EXCEPT ![t].pc = "bump"]
          /\ hist' = [hist EXCEPT ![t].fresh = (tx[t].slot = commit_id + 1)]
       \/ /\ commit_queue[tx[t].slot] # NoTx
          /\ tx' = [tx EXCEPT ![t].pc = "slot"]
          /\ UNCHANGED <<commit_queue, hist>>
    /\ UNCHANGED <<timestamp, commit_id, merge_queue, store>>

BumpCommitId(t) ==
    /\ At(t, "bump")
    /\ commit_id' = commit_id + 1
    /\ tx' = [tx EXCEPT ![t].pc = "scan", ![t].pos = tx[t].commit]
    /\ UNCHANGED <<timestamp, commit_queue, merge_queue, store, hist>>

-----------------------------------------------------------------------------
(* The conflict scan over (commit, slot) *)

\* Mutation of Conflicts: the read set is not compared.
ConflictsOnWriteOnly(u, t) == Writes[u] \cap Writes[t] # {}

\* u, found in the window of t, wrote what t writes or, under SSI, read.
Conflicts(u, t) ==
    \/ Writes[u] \cap Writes[t] # {}
    \/ t \in Serializable /\ Writes[u] \cap tx[t].readset # {}

\* Mutation of Ahead: the scan leaves one slot out.
AheadLate(t) == {s \in Slot : s > tx[t].pos + 1 /\ s < tx[t].slot
                               /\ commit_queue[s] # NoTx}

\* The entries the iterator over range(commit + 1..version) has still to yield.
Ahead(t) == {s \in Slot : s > tx[t].pos /\ s < tx[t].slot /\ commit_queue[s] # NoTx}

\* One step of the iterator; a conflict takes the own entry out again.
Scan(t) ==
    /\ At(t, "scan")
    /\ \/ /\ Ahead(t) = {}
          /\ tx' = [tx EXCEPT ![t].pc = "merge"]
          /\ UNCHANGED commit_queue
       \/ \E s \in Ahead(t) :
             /\ \A r \in Ahead(t) : s <= r
             /\ \/ /\ Conflicts(commit_queue[s], t)
                   /\ commit_queue' = [commit_queue EXCEPT ![tx[t].slot] = NoTx]
                   /\ tx' = [tx EXCEPT ![t].pc = "conflict"]
                \/ /\ ~Conflicts(commit_queue[s], t)
                   /\ tx' = [tx EXCEPT ![t].pos = s]
                   /\ UNCHANGED commit_queue
    /\ UNCHANGED <<timestamp, commit_id, merge_queue, store, hist>>

Registered(t) == tx[t].pc \notin {"idle", "begin", "committed", "conflict", "unlogged"}

\* run_cleanup_inner, with the watermark it is meant to have: no transaction
\* is registered below it.
Cleanup ==
    /\ LET marks == {tx[t].commit : t \in {u \in Tx : Registered(u)}} \cup {commit_id}
       IN  \E oldest \in marks :
              /\ \A m \in marks : oldest <= m
              /\ \E s \in Slot : s < oldest /\ commit_queue[s] # NoTx
              /\ commit_queue' = [s \in Slot |->
                                    IF s < oldest THEN NoTx ELSE commit_queue[s]]
    /\ UNCHANGED <<timestamp, commit_id, merge_queue, store, tx, hist>>

-----------------------------------------------------------------------------
(* atomic_merge *)

\* version = max(current_time_ns(), last_ts + 1)
LoadVersion(t) ==
    /\ At(t, "merge")
    /\ \E n \in Now :
          tx' = [tx EXCEPT ![t].pc = "stage",
                           ![t].merged = Larger(n, timestamp + 1)]
    /\ UNCHANGED <<timestamp, commit_id, commit_queue, merge_queue, store, hist>>

\* merge_queue.get_or_insert_with(version, updates)
Stage(t) ==
    /\ At(t, "stage")
    /\ \/ /\ merge_queue[tx[t].merged] = NoTx
          /\ merge_queue' = [merge_queue EXCEPT ![tx[t].merged] = t]
          /\ tx' = [tx EXCEPT ![t].pc = "publish"]
       \/ /\ merge_queue[tx[t].merged] # NoTx
          /\ tx' = [tx EXCEPT ![t].pc = "merge"]
          /\ UNCHANGED merge_queue
    /\ UNCHANGED <<timestamp, commit_id, commit_queue, store, hist>>

\* Mutation of Publish: store, not fetch_max.
PublishStores(t) ==
    /\ At(t, "publish")
    /\ timestamp' = tx[t].merged
    /\ tx' = [tx EXCEPT ![t].pc = "push", ![t].todo = Writes[t]]
    /\ UNCHANGED <<commit_id, commit_queue, merge_queue, store, hist>>

\* timestamp.fetch_max(version)
Publish(t) ==
    /\ At(t, "publish")
    /\ timestamp' = Larger(timestamp, tx[t].merged)
    /\ tx' = [tx EXCEPT ![t].pc = "push", ![t].todo = Writes[t]]
    /\ UNCHANGED <<commit_id, commit_queue, merge_queue, store, hist>>

-----------------------------------------------------------------------------
(* The pushes, the append-only log, and the end *)

\* Mutation of PushKey: the entry leaves the merge queue before the pushes.
PushKeyUnstaged(t) ==
    /\ At(t, "push")
    /\ LET k == MinOf(tx[t].todo)
           new == [version |-> tx[t].merged, value |-> t]
       IN  /\ store' = [store EXCEPT ![k] = V!Push(@, new)]
           /\ tx' = [tx EXCEPT ![t].todo = @ \ {k},
                               ![t].pc = IF tx[t].todo = {k} THEN "append" ELSE @]
    /\ merge_queue' = [merge_queue EXCEPT ![tx[t].merged] = NoTx]
    /\ UNCHANGED <<timestamp, commit_id, commit_queue, hist>>

\* The keys are pushed in order; a new key starts its chain with the version.
PushKey(t) ==
    /\ At(t, "push")
    /\ LET k == MinOf(tx[t].todo)
           new == [version |-> tx[t].merged, value |-> t]
       IN  /\ store' = [store EXCEPT ![k] =
                           IF @ = <<>> THEN V!From(new) ELSE V!Push(@, new)]
           /\ tx' = [tx EXCEPT ![t].todo = @ \ {k},
                               ![t].pc = IF tx[t].todo = {k} THEN "append" ELSE @]
    /\ UNCHANGED <<timestamp, commit_id, commit_queue, merge_queue, hist>>

\* p.append(version, writeset) succeeds, or fails, or there is no persistence.
AppendLog(t) ==
    /\ At(t, "append")
    /\ \E err \in BOOLEAN : tx' = [tx EXCEPT ![t].pc = "unstage", ![t].err = err]
    /\ UNCHANGED <<timestamp, commit_id, commit_queue, merge_queue, store, hist>>

\* merge_queue.remove(version), in both outcomes.
Unstage(t) ==
    /\ At(t, "unstage")
    /\ merge_queue' = [merge_queue EXCEPT ![tx[t].merged] = NoTx]
    /\ tx' = [tx EXCEPT ![t].pc = IF tx[t].err THEN "unlogged" ELSE "committed"]
    /\ UNCHANGED <<timestamp, commit_id, commit_queue, store, hist>>

-----------------------------------------------------------------------------

Commit(t) ==
    \/ PlaceSlot(t) \/ BumpCommitId(t) \/ Scan(t)
    \/ LoadVersion(t) \/ Stage(t) \/ Publish(t)
    \/ PushKey(t) \/ AppendLog(t) \/ Unstage(t)

Ended(t) == tx[t].pc \in {"committed", "conflict", "unlogged"}

Step(t) ==
    \/ BeginVersion(t) \/ BeginCommit(t)
    \/ Get(t) \/ Walk(t) \/ Fetch(t)
    \/ CommitReadOnly(t) \/ LoadSlot(t) \/ Commit(t)

Next ==
    /\ \/ \E t \in Tx : Step(t)
       \/ Cleanup
       \/ (\A t \in Tx : Ended(t)) /\ UNCHANGED vars
    /\ UNCHANGED plan

Spec == Init /\ [][Next]_vars

\* A thread that called commit keeps running: it never waits for a client.
Fairness ==
    \A t \in Tx :
        WF_vars((Commit(t) \/ (At(t, "slot") /\ LoadSlot(t))) /\ UNCHANGED plan)

FairSpec == Spec /\ Fairness

-----------------------------------------------------------------------------
(* Properties *)

\* Past the conflict scan.
Passed(t) == tx[t].pc \in {"merge", "stage", "publish", "push", "append",
                           "unstage", "committed", "unlogged"} /\ Writes[t] # {}

\* u wrote a key that t writes or, being serializable, read.
Overlap(u, t) ==
    Writes[u] \cap (Writes[t] \cup IF t \in Serializable THEN tx[t].readset ELSE {}) # {}

\* First committer wins: of two transactions that pass the scan and conflict,
\* the one in the higher slot began after the other took its slot.  The slots
\* must be fresh, that is, not filled anew after a conflict emptied them.
FirstCommitterWins ==
    \A t, u \in Tx :
        /\ Passed(t) /\ Passed(u) /\ hist[t].fresh /\ hist[u].fresh
        /\ tx[u].slot < tx[t].slot /\ Overlap(u, t)
        => tx[u].slot <= tx[t].commit

\* ... and then its reads saw the other's writes, if no commit stood between
\* its slot and its version when the two snapshots were taken.
WinnerSeen ==
    \A t, u \in Tx :
        /\ Passed(t) /\ Passed(u) /\ hist[t].fresh /\ hist[u].fresh
        /\ hist[t].aligned
        /\ tx[u].slot < tx[t].slot /\ Overlap(u, t)
        => tx[u].merged # 0 /\ tx[u].merged <= tx[t].version

\* Two transactions that pass the scan never hold the same slot, although a
\* slot is reused after a conflict.
PassedSlotsDistinct ==
    \A t, u \in Tx :
        t # u /\ Passed(t) /\ Passed(u) => tx[t].slot # tx[u].slot

\* The writers of k that a snapshot at version v has to read.  One at "merge"
\* has no version, or had to give it up.
Newest(k, v) ==
    LET W == {u \in Tx : Passed(u) /\ ~At(u, "merge") /\ k \in Writes[u]
                          /\ tx[u].merged \in 1..v}
    IN  {u \in W : \A w \in W : tx[w].merged <= tx[u].merged}

\* A transaction that began while no commit was between choosing its version
\* and leaving the merge queue reads exactly the newest write below its
\* snapshot, each time, whatever commits around it.
QuietReadsExact ==
    \A t \in Tx, k \in Key :
        hist[t].quiet /\ tx[t].answers[k] # {} =>
            LET N == Newest(k, tx[t].version)
            IN  IF N = {} THEN tx[t].answers[k] = {NoTx}
                ELSE tx[t].answers[k] \subseteq N

\* While a commit is published and not finished, every snapshot that includes
\* its version finds its write, or a newer one, for every key of its write
\* set: the merge queue hides that the pushes are one by one.
Found(k, v) ==
    LET staged == {n \in Time : n <= v /\ merge_queue[n] # NoTx
                                       /\ k \in Writes[merge_queue[n]]}
    IN  IF staged = {} THEN V!FetchVersion(store[k], v)
        ELSE merge_queue[MaxOf(staged)]

PublishedVisible ==
    \A t \in Tx, v \in Time :
        /\ tx[t].pc \in {"publish", "push", "append", "unstage"}
        /\ tx[t].merged <= v
        => \A k \in Writes[t] :
              Found(k, v) # NoTx /\ tx[Found(k, v)].merged >= tx[t].merged

\* Oracle::current_time_ns leaves the order of versions to atomic_merge: a
\* commit that chooses its version after another has returned gets a greater
\* one, however the clock was set back between them and although two commits
\* at the same time may get the same one.
VersionsFollowCommits ==
    [][\A t, u \in Tx :
          At(t, "merge") /\ tx'[t].pc = "stage" /\ At(u, "committed") /\ Writes[u] # {}
          => tx'[t].merged > tx[u].merged]_vars

\* auto_commit and atomic_merge return: the retry loops on an occupied slot or
\* version end.
CommitReturns ==
    \A t \in Tx : At(t, "place") ~> Ended(t)

-----------------------------------------------------------------------------
(* What comments and documents say, and the code does not keep *)

\* docs/001: of two concurrent transactions that modify the same key only the
\* first to commit succeeds.
NoLostUpdate ==
    \A t, u \in Tx :
        t # u /\ At(t, "committed") /\ At(u, "committed")
              /\ Writes[t] \cap Writes[u] # {}
        => \/ tx[u].merged <= tx[t].version
           \/ tx[t].merged <= tx[u].version

Placed(t) == Passed(t) \/ tx[t].pc \in {"bump", "scan", "conflict"}

\* auto_commit's comment: every transaction's commit id is unique.
CommitIdsUnique ==
    \A t, u \in Tx :
        t # u /\ Placed(t) /\ Placed(u) => tx[t].slot # tx[u].slot

\* atomic_merge's comment: every transaction's version is unique.
VersionsUnique ==
    \A t, u \in Tx :
        t # u /\ At(t, "committed") /\ At(u, "committed")
              /\ Writes[t] # {} /\ Writes[u] # {}
        => tx[t].merged # tx[u].merged

\* commit's comment: snapshot isolation is repeatable read.
RepeatableRead ==
    \A t \in Tx, k \in Key : Cardinality(tx[t].answers[k]) <= 1

\* docs/001: a read returns the largest version <= its own, here for a
\* transaction that begins now and a commit that has returned.
CommittedVisible ==
    \A t \in Tx, k \in Key :
        At(t, "committed") /\ k \in Writes[t] =>
            /\ Found(k, timestamp) # NoTx
            /\ tx[Found(k, timestamp)].merged >= tx[t].merged
=============================================================================
