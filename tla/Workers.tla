------------------------------ MODULE Workers -------------------------------
(***************************************************************************)
(* The background threads of a Database from construction to drop          *)
(* (src/db/db.rs), with those of its Persistence (src/persistence/         *)
(* persistence.rs) and of its Oracle (src/oracle/oracle.rs): who starts    *)
(* them, how they park, what stops them, and who owns the shared Inner.    *)
(*                                                                         *)
(* park_timeout returns on a token that unpark leaves, or on its timeout.  *)
(* The flags are read with Relaxed or Acquire: until a thread has taken a  *)
(* token given after a flag was cleared, or has once read FALSE, its load  *)
(* may still answer TRUE.                                                  *)
(* What the workers do to the data is the subject of the other modules.    *)
(***************************************************************************)
EXTENDS Integers, Sequences, FiniteSets

CONSTANTS Tx,         \* transaction handles, which may outlive the Database
          Modes,      \* the options a Database is built with
          BatchSize,  \* BATCH_SIZE
          MaxQueue    \* how many commits are pushed to the injector

Worker == {"resync", "snapshot", "append", "fsync", "cleanup", "gc"}

ASSUME WorkersAssumption ==
    /\ Modes \subseteq [persist : BOOLEAN, on : SUBSET (Worker \ {"resync"})]
    /\ BatchSize \in Nat \ {0} /\ MaxQueue \in Nat
    /\ "main" \notin Tx

\* The thread that builds and drops the Database, and those of the handles.
Thread == {"main"} \cup Tx

VARIABLES
    mode,      \* the options: with persistence or not, the workers enabled
    phase,     \* the Database: "opening", "open", "closing", "closed", "failed"
    todo,      \* the steps each thread has still to take in its current call
    flag,      \* resync_enable and the two background_threads_enabled
    pc,        \* the workers' program counters
    token,     \* a worker's park token: none, or given before or after the
               \* flag of that worker was cleared
    synced,    \* the workers whose next load of the flag cannot be stale
    handle,    \* the workers whose JoinHandle is in its field
    owns,      \* whether the Database's fields still own Inner
    cycle,     \* whether Inner.persistence holds a clone of the Persistence
    live,      \* the transactions that exist
    loaded,    \* whether load() has returned
    queue,     \* async_append_injector: how many operations
    batch,     \* the append worker's batch: how many operations
    pushed,    \* history: how many operations were ever pushed
    unsynced   \* whether the log holds writes that no sync_all covered

vars == <<mode, phase, todo, flag, pc, token, synced, handle, owns, cycle,
          live, loaded, queue, batch, pushed, unsynced>>
threadVars == <<pc, token, synced, handle>>
dataVars == <<loaded, queue, batch, pushed, unsynced>>

FlagOf(w) == CASE w = "resync" -> "oracle"
               [] w \in {"cleanup", "gc"} -> "inner"
               [] OTHER -> "persist"

\* A step of a call, and the worker or flag it is about.
Call == {"spawn", "load", "backfill", "clear", "take", "unpark", "join", "sync",
         "release", "wake"}
        \X (Worker \cup {"oracle", "inner", "persist", "none"})

TypeOK ==
    /\ mode \in Modes
    /\ phase \in {"opening", "open", "closing", "closed", "failed"}
    /\ todo \in [Thread -> Seq(Call)]
    /\ flag \in [{"oracle", "inner", "persist"} -> BOOLEAN]
    /\ pc \in [Worker -> {"none", "check", "park", "recheck", "inner", "steal",
                          "work", "exit"}]
    /\ token \in [Worker -> {"none", "early", "late"}]
    /\ synced \subseteq Worker /\ handle \subseteq Worker
    /\ owns \in BOOLEAN /\ cycle \in BOOLEAN /\ live \subseteq Tx
    /\ loaded \in BOOLEAN /\ unsynced \in BOOLEAN
    /\ queue \in 0..MaxQueue /\ batch \in 0..BatchSize /\ pushed \in 0..MaxQueue

Running(w) == pc[w] \notin {"none", "exit"}

-----------------------------------------------------------------------------
(* The calls of a thread, as lists of steps *)

\* Mutation of Opening: the collectors start before load.
OpeningCollectFirst(persist) ==
    << <<"spawn", "resync">>, <<"spawn", "cleanup">>, <<"spawn", "gc">> >>
    \o IF persist THEN << <<"load", "none">>, <<"spawn", "snapshot">>, <<"spawn", "append">>,
                          <<"spawn", "fsync">>, <<"backfill", "none">> >> ELSE <<>>

\* new_with_options, new_with_persistence
Opening(persist) ==
    << <<"spawn", "resync">> >>
    \o (IF persist THEN << <<"load", "none">>, <<"spawn", "snapshot">>, <<"spawn", "append">>,
                           <<"spawn", "fsync">>, <<"backfill", "none">> >> ELSE <<>>)
    \o << <<"spawn", "cleanup">>, <<"spawn", "gc">> >>

\* if let Some(handle) = field.take() { unpark; join }
Stop(w) == << <<"take", w>>, <<"unpark", w>>, <<"join", w>> >>

\* Mutation of PersistenceDrop: the last sync_all comes before the joins.
PersistenceDropSyncFirst ==
    << <<"clear", "persist">>, <<"sync", "none">> >>
    \o Stop("snapshot") \o Stop("append") \o Stop("fsync")

\* Mutation of PersistenceDrop: the append worker is joined and never woken.
PersistenceDropNoUnpark ==
    << <<"clear", "persist">> >> \o Stop("snapshot")
    \o << <<"take", "append">>, <<"clear", "persist">>, <<"join", "append">> >>
    \o Stop("fsync") \o << <<"sync", "none">> >>

\* Persistence::drop
PersistenceDrop ==
    << <<"clear", "persist">> >> \o Stop("snapshot") \o Stop("append") \o Stop("fsync")
    \o << <<"sync", "none">> >>

\* Mutation of Closing: the collectors are unparked before their flag is cleared.
ClosingUnparkFirst(persist) ==
    (IF persist THEN << <<"clear", "persist">> >> \o Stop("snapshot") ELSE <<>>)
    \o << <<"take", "cleanup">>, <<"unpark", "cleanup">>, <<"clear", "inner">>,
          <<"join", "cleanup">> >> \o Stop("gc")
    \o << <<"release", "none">> >>
    \o (IF persist THEN PersistenceDrop ELSE <<>>)

\* Mutation of Closing: the collector of versions is not joined.
ClosingNoJoin(persist) ==
    (IF persist THEN << <<"clear", "persist">> >> \o Stop("snapshot") ELSE <<>>)
    \o << <<"clear", "inner">> >> \o Stop("cleanup") \o << <<"release", "none">> >>
    \o (IF persist THEN PersistenceDrop ELSE <<>>)

\* Database::drop: shutdown, then the fields inner, pool and persistence.
Closing(persist) ==
    (IF persist THEN << <<"clear", "persist">> >> \o Stop("snapshot") ELSE <<>>)
    \o << <<"clear", "inner">> >> \o Stop("cleanup") \o Stop("gc")
    \o << <<"release", "none">> >>
    \o (IF persist THEN PersistenceDrop ELSE <<>>)

\* Mutation of OracleDrop: the thread is joined and never woken.
OracleDropNoUnpark == << <<"clear", "oracle">>, <<"take", "resync">>,
                         <<"clear", "oracle">>, <<"join", "resync">> >>

\* Oracle::drop, when Inner is dropped
OracleDrop == << <<"clear", "oracle">> >> \o Stop("resync")

Init ==
    /\ mode \in Modes
    /\ phase = "opening"
    /\ todo = [p \in Thread |-> IF p = "main" THEN Opening(mode.persist) ELSE <<>>]
    /\ flag = [f \in {"oracle", "inner", "persist"} |-> TRUE]
    /\ pc = [w \in Worker |-> "none"]
    /\ token = [w \in Worker |-> "none"]
    /\ synced = {} /\ handle = {} /\ live = {}
    /\ owns = TRUE /\ cycle = FALSE /\ loaded = ~mode.persist
    /\ queue = 0 /\ batch = 0 /\ pushed = 0 /\ unsynced = FALSE

\* The next step of thread p, and the worker or flag it is about.
Does(p, op) == todo[p] # <<>> /\ Head(todo[p])[1] = op
Arg(p) == Head(todo[p])[2]
Done(p) == todo' = [todo EXCEPT ![p] = Tail(@)]

-----------------------------------------------------------------------------
(* The steps of the threads *)

\* Oracle::background_resync, the three spawn_*_worker functions and the two
\* initialise_*_worker functions; a worker the options leave out is not started.
Spawn(p) ==
    LET w == Arg(p) IN
    /\ Does(p, "spawn")
    /\ \/ /\ w \in mode.on \cup {"resync"}
          /\ pc' = [pc EXCEPT ![w] = "check"]
          /\ handle' = handle \cup {w}
       \/ /\ w \notin mode.on \cup {"resync"}
          /\ UNCHANGED <<pc, handle>>
    /\ Done(p)
    /\ UNCHANGED <<mode, phase, flag, token, synced, owns, cycle, live, dataVars>>

\* load() restores the datastore, or fails: the Persistence is dropped before
\* it has started a thread, and with the last reference Inner.
Load(p) ==
    /\ Does(p, "load")
    /\ \/ /\ loaded' = TRUE
          /\ Done(p)
          /\ UNCHANGED <<phase, owns>>
       \/ /\ phase' = "failed" /\ owns' = FALSE
          /\ todo' = [todo EXCEPT ![p] = OracleDrop]
          /\ UNCHANGED loaded
    /\ UNCHANGED <<mode, flag, threadVars, cycle, live, queue, batch, pushed, unsynced>>

\* inner.persistence.write().replace(Arc::new(persist.clone()))
Backfill(p) ==
    /\ Does(p, "backfill")
    /\ cycle' = TRUE
    /\ Done(p)
    /\ UNCHANGED <<mode, phase, flag, threadVars, owns, live, dataVars>>

\* store(false)
Clear(p) ==
    /\ Does(p, "clear")
    /\ flag' = [flag EXCEPT ![Arg(p)] = FALSE]
    /\ Done(p)
    /\ UNCHANGED <<mode, phase, threadVars, owns, cycle, live, dataVars>>

\* The handle is taken out of its field; without one there is nobody to stop.
Take(p) ==
    LET w == Arg(p) IN
    /\ Does(p, "take")
    /\ \/ /\ w \in handle
          /\ handle' = handle \ {w}
          /\ Done(p)
       \/ /\ w \notin handle
          /\ todo' = [todo EXCEPT ![p] = SubSeq(@, 4, Len(@))]
          /\ UNCHANGED handle
    /\ UNCHANGED <<mode, phase, flag, pc, token, synced, owns, cycle, live, dataVars>>

Unpark(p) ==
    LET w == Arg(p) IN
    /\ Does(p, "unpark")
    /\ token' = [token EXCEPT ![w] = IF flag[FlagOf(w)] THEN "early" ELSE "late"]
    /\ Done(p)
    /\ UNCHANGED <<mode, phase, flag, pc, synced, handle, owns, cycle, live, dataVars>>

Join(p) ==
    LET w == Arg(p) IN
    /\ Does(p, "join")
    /\ pc[w] = "exit"
    /\ Done(p)
    /\ UNCHANGED <<mode, phase, flag, threadVars, owns, cycle, live, dataVars>>

\* The last sync_all of Persistence::drop, if pending_syncs is above zero: it
\* is when something is unsynced, as long as no sync_all fails and no snapshot
\* resets it.
FinalSync(p) ==
    /\ Does(p, "sync")
    /\ unsynced' = FALSE
    /\ Done(p)
    /\ UNCHANGED <<mode, phase, flag, threadVars, owns, cycle, live, loaded,
                   queue, batch, pushed>>

\* Whoever owns Inner besides the fields of the Database (and its pool, which
\* the transactions share) and the transactions of `left'.
OwnedElsewhere(left) ==
    left # {} \/ cycle \/ \E w \in {"snapshot", "cleanup", "gc"} : Running(w)

\* The fields inner and pool are dropped; the last owner drops the Oracle.
Release(p) ==
    /\ Does(p, "release")
    /\ owns' = FALSE
    /\ todo' = [todo EXCEPT ![p] = (IF OwnedElsewhere(live) THEN <<>> ELSE OracleDrop)
                                     \o Tail(@)]
    /\ UNCHANGED <<mode, phase, flag, threadVars, cycle, live, dataVars>>

\* The constructor, or drop, returns.
Return ==
    /\ todo["main"] = <<>>
    /\ phase \in {"opening", "closing"}
    /\ phase' = IF phase = "opening" THEN "open" ELSE "closed"
    /\ UNCHANGED <<mode, todo, flag, threadVars, owns, cycle, live, dataVars>>

DropDatabase ==
    /\ phase = "open"
    /\ phase' = "closing"
    /\ todo' = [todo EXCEPT !["main"] = Closing(mode.persist)]
    /\ UNCHANGED <<mode, flag, threadVars, owns, cycle, live, dataVars>>

\* Pool::get: the handle holds the pool, the object holds Inner.
Begin(t) ==
    /\ phase = "open"
    /\ t \notin live /\ todo[t] = <<>>
    /\ live' = live \cup {t}
    /\ UNCHANGED <<mode, phase, todo, flag, threadVars, owns, cycle, dataVars>>

\* Mutation of PushAppend: the worker is not woken.
PushAppendNoWake(t) ==
    /\ t \in live /\ todo[t] = <<>>
    /\ mode.persist /\ "append" \in mode.on /\ pushed < MaxQueue
    /\ queue' = queue + 1 /\ pushed' = pushed + 1
    /\ UNCHANGED <<mode, phase, todo, flag, threadVars, owns, cycle, live,
                   loaded, batch, unsynced>>

\* append, asynchronously: push, then unpark.
PushAppend(t) ==
    /\ t \in live /\ todo[t] = <<>>
    /\ mode.persist /\ "append" \in mode.on /\ pushed < MaxQueue
    /\ queue' = queue + 1 /\ pushed' = pushed + 1
    /\ todo' = [todo EXCEPT ![t] = << <<"wake", "append">> >>]
    /\ UNCHANGED <<mode, phase, flag, threadVars, owns, cycle, live, loaded,
                   batch, unsynced>>

\* Stop keeps the write lock of the handle's field until it has joined.
Locked(w) ==
    \E p \in Thread : (Does(p, "unpark") \/ Does(p, "join")) /\ Arg(p) = w

\* append_handle.read(), and unpark if there is a handle.
WakeAppend(t) ==
    /\ Does(t, "wake")
    /\ ~Locked("append")
    /\ token' = [token EXCEPT !["append"] =
                    IF "append" \in handle /\ @ = "none" THEN "early" ELSE @]
    /\ Done(t)
    /\ UNCHANGED <<mode, phase, flag, pc, synced, handle, owns, cycle, live, dataVars>>

\* Transaction::drop; the last owner of Inner drops the Oracle.
DropTx(t) ==
    /\ t \in live /\ todo[t] = <<>>
    /\ live' = live \ {t}
    /\ todo' = [todo EXCEPT ![t] =
                   IF owns \/ OwnedElsewhere(live \ {t}) THEN <<>> ELSE OracleDrop]
    /\ UNCHANGED <<mode, phase, flag, threadVars, owns, cycle, dataVars>>

-----------------------------------------------------------------------------
(* The workers *)

Goto(w, l) == pc' = [pc EXCEPT ![w] = l]

\* The values a load of the worker's flag may return.
Loads(w) == {flag[FlagOf(w)]} \cup (IF w \in synced THEN {} ELSE {TRUE})

\* while enable.load(..)
Check(w) ==
    /\ pc[w] = "check"
    /\ \E on \in Loads(w) :
          Goto(w, IF ~on THEN "exit" ELSE IF w = "append" THEN "inner" ELSE "park")
    /\ UNCHANGED <<mode, phase, todo, flag, token, synced, handle, owns, cycle,
                   live, dataVars>>

\* What follows park_timeout: resync goes on without a second look at its flag.
AfterPark(w) == CASE w = "resync" -> "work" [] w = "append" -> "inner"
                  [] OTHER -> "recheck"

WakeByToken(w) ==
    /\ pc[w] = "park" /\ token[w] # "none"
    /\ token' = [token EXCEPT ![w] = "none"]
    /\ synced' = IF token[w] = "late" THEN synced \cup {w} ELSE synced
    /\ Goto(w, AfterPark(w))
    /\ UNCHANGED <<mode, phase, todo, flag, handle, owns, cycle, live, dataVars>>

\* The interval is over, or the wakeup is spurious; a token that is there is
\* taken all the same, so this is the case without one.
WakeByTimeout(w) ==
    /\ pc[w] = "park" /\ token[w] = "none"
    /\ Goto(w, AfterPark(w))
    /\ UNCHANGED <<mode, phase, todo, flag, token, synced, handle, owns, cycle,
                   live, dataVars>>

Recheck(w) ==
    /\ pc[w] = "recheck"
    /\ \E on \in Loads(w) : Goto(w, IF on THEN "work" ELSE "exit")
    /\ UNCHANGED <<mode, phase, todo, flag, token, synced, handle, owns, cycle,
                   live, dataVars>>

\* Mutation of AppendInner: a cleared flag ends the thread at once.
AppendInnerExits ==
    /\ pc["append"] = "inner"
    /\ \E on \in Loads("append") : Goto("append", IF on THEN "steal" ELSE "exit")
    /\ UNCHANGED <<mode, phase, todo, flag, token, synced, handle, owns, cycle,
                   live, dataVars>>

\* The append worker's inner loop looks at the flag before each steal.
AppendInner ==
    /\ pc["append"] = "inner"
    /\ \E on \in Loads("append") :
          /\ Goto("append", IF on THEN "steal" ELSE IF batch > 0 THEN "work" ELSE "check")
          /\ synced' = IF on THEN synced ELSE synced \cup {"append"}
    /\ UNCHANGED <<mode, phase, todo, flag, token, handle, owns, cycle, live, dataVars>>

\* injector.steal(): one operation, or none and the batch is written, or none
\* and there is nothing to write.
AppendSteal ==
    /\ pc["append"] = "steal"
    /\ \/ /\ queue > 0
          /\ queue' = queue - 1 /\ batch' = batch + 1
          /\ Goto("append", IF batch + 1 >= BatchSize THEN "work" ELSE "inner")
       \/ /\ queue = 0
          /\ Goto("append", IF batch > 0 THEN "work" ELSE "park")
          /\ UNCHANGED <<queue, batch>>
    /\ UNCHANGED <<mode, phase, todo, flag, token, synced, handle, owns, cycle,
                   live, loaded, pushed, unsynced>>

\* One round of work: the append worker writes its batch, and syncs it or
\* not; the fsync worker syncs; a snapshot empties the log or rewrites its tail.
Work(w) ==
    /\ pc[w] = "work"
    /\ Goto(w, "check")
    /\ batch' = IF w = "append" THEN 0 ELSE batch
    /\ unsynced' \in CASE w \in {"append", "snapshot"} -> {TRUE, FALSE}
                       [] w = "fsync" -> {FALSE}
                       [] OTHER -> {unsynced}
    /\ UNCHANGED <<mode, phase, todo, flag, token, synced, handle, owns, cycle,
                   live, loaded, queue, pushed>>

-----------------------------------------------------------------------------

\* A thread inside the constructor, drop, append or Oracle::drop.
Step(p) ==
    \/ Spawn(p) \/ Load(p) \/ Backfill(p)
    \/ Clear(p) \/ Take(p) \/ Unpark(p) \/ Join(p) \/ FinalSync(p) \/ Release(p)

\* A worker that is not parked, or has a token.
Run(w) ==
    \/ Check(w) \/ WakeByToken(w) \/ Recheck(w) \/ Work(w)
    \/ w = "append" /\ (AppendInner \/ AppendSteal)

Client(t) == Begin(t) \/ PushAppend(t) \/ DropTx(t)

Over == phase \in {"closed", "failed"} /\ live = {} /\ \A p \in Thread : todo[p] = <<>>

Next ==
    \/ \E p \in Thread : Step(p)
    \/ Return \/ DropDatabase
    \/ \E t \in Tx : Client(t) \/ WakeAppend(t)
    \/ \E w \in Worker : Run(w) \/ WakeByTimeout(w)
    \/ Over /\ UNCHANGED vars

Spec == Init /\ [][Next]_vars

\* Threads that can run do run.  No timeout is assumed ever to be over, since
\* an interval may be hours: nothing below may wait for one.
Fairness ==
    /\ WF_vars(Step("main") \/ Return)
    /\ \A t \in Tx : WF_vars(Step(t) \/ WakeAppend(t))
    /\ \A w \in Worker : WF_vars(Run(w))

FairSpec == Spec /\ Fairness

-----------------------------------------------------------------------------
(* Properties *)

\* Database::drop returns, whatever its workers are doing when it begins, and
\* although no worker's timeout ever expires: the flag is cleared before the
\* token is given, so that no wakeup is lost.
DropReturns == phase = "closing" ~> phase = "closed"

\* When the fields of the Database are dropped, and when the constructor has
\* failed, no worker that works on Inner is running any more.
StoppedBeforeRelease ==
    ~owns => \A w \in {"snapshot", "cleanup", "gc"} : ~Running(w)

\* new_with_persistence's order constraint: no worker collects versions, cleans
\* up or takes a snapshot before load has restored the datastore.
NoWorkBeforeLoad ==
    \A w \in {"snapshot", "cleanup", "gc"} : pc[w] = "work" => loaded

\* The append worker never ends with operations that it took from the queue
\* and did not write.
StolenAreWritten == pc["append"] = "exit" => batch = 0

\* With the asynchronous log and no snapshot worker, every write that reached
\* the file is synced when drop returns: nothing is appended after the last
\* sync_all.
SyncedAfterDrop ==
    phase = "closed" /\ "append" \in mode.on /\ "snapshot" \notin mode.on => ~unsynced

\* An operation in the queue is taken by the append worker, however long its
\* timeout, unless the Database is being dropped.
QueueServed == queue > 0 ~> queue = 0 \/ phase \in {"closing", "closed"}

\* A commit's append returns, also while the append worker is being joined.
AppendReturns == \A t \in Tx : Does(t, "wake") ~> todo[t] = <<>>

\* Without persistence, and after a failed open, the last owner of Inner ends
\* the oracle's thread: once the Database and the transactions are dropped,
\* whoever is last, no thread is left.
ThreadsEnd ==
    (phase \in {"closed", "failed"} /\ live = {} /\ ~cycle)
        ~> \A w \in Worker : ~Running(w)

\* Database::drop's comment, for every Database: its drop leaves no thread
\* behind.
NoThreadLeft ==
    (phase \in {"closed", "failed"} /\ live = {}) ~> \A w \in Worker : ~Running(w)
=============================================================================
