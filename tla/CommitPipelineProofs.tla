------------------------ MODULE CommitPipelineProofs ------------------------
(***************************************************************************)
(* First committer wins, distinct slots, versions that follow commits, and *)
(* a validation that sees every winner, for any number of transactions,    *)
(* any plan and any clock, where commit ids and versions are not bounded.  *)
(***************************************************************************)
EXTENDS CommitPipeline, TLAPS

Fields == {"pc", "version", "commit", "slot", "pos", "merged", "todo", "err",
           "key", "gets", "readset", "answers"}

\* The domains of the functions.
Shape ==
    /\ DOMAIN tx = Tx /\ \A t \in Tx : DOMAIN tx[t] = Fields
    /\ DOMAIN hist = Tx /\ \A t \in Tx : DOMAIN hist[t] = {"quiet", "aligned", "fresh"}
    /\ DOMAIN commit_queue = Slot

Numbers ==
    /\ commit_id \in Nat
    /\ \A t \in Tx : tx[t].commit \in Nat /\ tx[t].slot \in Nat

\* The transactions whose entry was put into the commit queue and which have
\* not met a conflict.
Holds(t) == tx[t].pc \in {"bump", "scan"} \/ Passed(t)

\* A slot lies above the commit snapshot of its transaction and, but for the
\* increment to come, not above the commit id.
SlotAbove ==
    \A t \in Tx :
        /\ tx[t].commit <= commit_id
        /\ tx[t].pc = "place" \/ Holds(t) =>
              tx[t].commit < tx[t].slot /\ tx[t].slot <= commit_id + 1
        /\ Holds(t) /\ tx[t].pc # "bump" => tx[t].slot <= commit_id

\* The entry is still there, or lies below every snapshot that a registered
\* transaction has or a new one can get: the cleanup took it.
EntryKept ==
    \A u \in Tx : Holds(u) =>
        \/ commit_queue[tx[u].slot] = u
        \/ /\ tx[u].slot < commit_id
           /\ \A t \in Tx : Registered(t) => tx[u].slot < tx[t].commit

\* A transaction with nothing to write never comes near the queue.
Writing ==
    \A t \in Tx : tx[t].pc \notin {"idle", "begin", "active", "walk", "fetch", "committed"}
                     => Writes[t] # {}

SlotsDistinct ==
    \A t, u \in Tx : t # u /\ Holds(t) /\ Holds(u) => tx[t].slot # tx[u].slot

\* u took its slot in the window of t, neither slot being a reused one.
InWindow(u, t) ==
    /\ Holds(u) /\ hist[t].fresh /\ hist[u].fresh
    /\ tx[t].commit < tx[u].slot /\ tx[u].slot < tx[t].slot

\* What the scan has passed does not conflict.
ScanClean ==
    \A t \in Tx : tx[t].pc = "scan" =>
        /\ tx[t].pos \in Nat
        /\ \A u \in Tx : InWindow(u, t) /\ tx[u].slot <= tx[t].pos => ~Overlap(u, t)

\* ... nor does anything in the window of a transaction that passed.
WindowClean ==
    \A t, u \in Tx : Passed(t) /\ InWindow(u, t) => ~Overlap(u, t)

\* The inductive invariant of the commit queue.
SInv == /\ Shape /\ Numbers /\ Writing /\ SlotAbove /\ EntryKept
        /\ SlotsDistinct /\ ScanClean /\ WindowClean

-----------------------------------------------------------------------------
(* Steps that leave the commit queue alone *)

\* What all of them have in common.
Quiet(t) ==
    /\ UNCHANGED <<commit_id, commit_queue, plan>>
    /\ Shape'
    /\ \A u \in Tx : u # t => tx'[u] = tx[u]
    /\ \A u \in Tx : hist'[u].fresh = hist[u].fresh
    /\ tx'[t].slot = tx[t].slot /\ tx'[t].commit = tx[t].commit
    /\ tx[t].pc \notin {"place", "bump", "scan"} /\ tx'[t].pc \notin {"place", "bump", "scan"}
    /\ Passed(t)' <=> Passed(t)
    /\ Registered(t)' => Registered(t)
    /\ tx'[t].pc \in {"idle", "begin", "active", "walk", "fetch", "committed"} \/ Writes[t] # {}
    /\ Passed(t) => tx'[t].readset = tx[t].readset

LEMMA QuietInv ==
  ASSUME SInv, NEW t \in Tx, Quiet(t)
  PROVE  SInv'
<1> USE DEF SInv
<1>1. \A u \in Tx : /\ tx'[u].slot = tx[u].slot /\ tx'[u].commit = tx[u].commit
                    /\ Passed(u)' <=> Passed(u)
                    /\ Holds(u)' <=> Holds(u)
                    /\ Registered(u)' => Registered(u)
                    /\ tx'[u].pc \in {"place", "bump", "scan"} => tx'[u] = tx[u]
                    /\ tx[u].pc \in {"place", "bump", "scan"} => tx'[u] = tx[u]
  BY DEF Quiet, Passed, Holds, Registered, Writes
<1>2. \A u, w \in Tx : InWindow(u, w)' <=> InWindow(u, w)
  BY <1>1 DEF Quiet, InWindow
<1>3. \A u, w \in Tx : Passed(w) \/ tx[w].pc = "scan" => (Overlap(u, w)' <=> Overlap(u, w))
  BY <1>1 DEF Quiet, Overlap, Writes, Serializable
<1>4. Shape' /\ Numbers' /\ Writing'
  BY <1>1 DEF Quiet, Numbers, Writing, Writes
<1>5. SlotAbove'
  BY <1>1 DEF Quiet, SlotAbove
<1>6. EntryKept'
  BY <1>1 DEF Quiet, EntryKept
<1>7. SlotsDistinct'
  BY <1>1 DEF SlotsDistinct
<1>8. ScanClean'
  BY <1>1, <1>2, <1>3 DEF ScanClean
<1>9. WindowClean'
  BY <1>1, <1>2, <1>3 DEF WindowClean
<1> QED BY <1>4, <1>5, <1>6, <1>7, <1>8, <1>9

LEMMA BeginVersionQuiet ==
  ASSUME SInv, NEW t \in Tx, BeginVersion(t), UNCHANGED plan
  PROVE  Quiet(t)
BY SMTT(30), Z3T(30) DEF SInv, Shape, Fields, BeginVersion, At, Quiet, Passed, Registered, Writes

LEMMA AnswerQuiet ==
  ASSUME SInv, NEW t \in Tx, NEW x, Answer(t, x), tx[t].pc \in {"walk", "fetch"},
         UNCHANGED <<commit_id, commit_queue, hist, plan>>
  PROVE  Quiet(t)
BY DEF SInv, Shape, Fields, Answer, Quiet, Passed, Registered, Writes

LEMMA ReadQuiet ==
  ASSUME SInv, NEW t \in Tx, Get(t) \/ Walk(t) \/ Fetch(t) \/ CommitReadOnly(t),
         UNCHANGED plan
  PROVE  Quiet(t)
<1>1. CASE Get(t)
  <2>1. PICK k : tx' = [tx EXCEPT ![t].pc = "walk", ![t].key = k, ![t].gets = @ + 1,
                                  ![t].pos = tx[t].version + 1]
    BY <1>1, ZenonT(30) DEF Get
  <2>2. tx[t].pc = "active" /\ UNCHANGED <<commit_id, commit_queue, hist>>
    BY <1>1, ZenonT(30) DEF Get, At
  <2> QED BY <2>1, <2>2, SMTT(30), Z3T(30)
             DEF SInv, Shape, Fields, Quiet, Passed, Registered, Writes
<1>2. CASE Walk(t)
  <2>1. CASE Staged(t) = {}
    BY <1>2, <2>1 DEF SInv, Shape, Fields, Walk, At, Quiet, Passed, Registered, Writes
  <2>2. CASE Staged(t) # {}
    <3>1. \/ \E x : Answer(t, x)
          \/ \E v : tx' = [tx EXCEPT ![t].pos = v]
      BY <1>2, <2>2 DEF Walk
    <3>2. CASE \E x : Answer(t, x)
      BY <1>2, <3>2, AnswerQuiet DEF Walk, At
    <3>3. CASE \E v : tx' = [tx EXCEPT ![t].pos = v]
      BY <1>2, <3>3 DEF SInv, Shape, Fields, Walk, At, Quiet, Passed, Registered, Writes
    <3> QED BY <3>1, <3>2, <3>3
  <2> QED BY <2>1, <2>2
<1>3. CASE Fetch(t)
  BY <1>3, AnswerQuiet DEF Fetch, At
<1>4. CASE CommitReadOnly(t)
  BY <1>4, SMTT(30), Z3T(30) DEF SInv, Shape, Fields, CommitReadOnly, At, Quiet, Passed,
     Registered, Writes
<1> QED BY <1>1, <1>2, <1>3, <1>4

LEMMA MergeQuiet ==
  ASSUME SInv, NEW t \in Tx,
         LoadVersion(t) \/ Stage(t) \/ Publish(t) \/ PushKey(t) \/ AppendLog(t) \/ Unstage(t),
         UNCHANGED plan
  PROVE  Quiet(t)
<1> USE DEF SInv, Shape, Fields, At, Quiet, Passed, Registered, Writes, Writing
<1>1. CASE LoadVersion(t)
  <2>1. PICK v : tx' = [tx EXCEPT ![t].pc = "stage", ![t].merged = v]
    BY <1>1, ZenonT(30) DEF LoadVersion
  <2>2. tx[t].pc = "merge" /\ UNCHANGED <<commit_id, commit_queue, hist>>
    BY <1>1, ZenonT(30) DEF LoadVersion
  <2> QED BY <2>1, <2>2, SMTT(30), Z3T(30)
<1>2. CASE Stage(t)
  BY <1>2 DEF Stage
<1>3. CASE Publish(t)
  BY <1>3 DEF Publish
<1>4. CASE PushKey(t)
  BY <1>4 DEF PushKey
<1>5. CASE AppendLog(t)
  <2>1. PICK err : tx' = [tx EXCEPT ![t].pc = "unstage", ![t].err = err]
    BY <1>5, ZenonT(30) DEF AppendLog
  <2>2. tx[t].pc = "append" /\ UNCHANGED <<commit_id, commit_queue, hist>>
    BY <1>5, ZenonT(30) DEF AppendLog
  <2> QED BY <2>1, <2>2, SMTT(30), Z3T(30)
<1>6. CASE Unstage(t)
  BY <1>6 DEF Unstage
<1> QED BY <1>1, <1>2, <1>3, <1>4, <1>5, <1>6, ZenonT(30)

-----------------------------------------------------------------------------
(* The steps on the commit queue *)

\* The commit snapshot is the commit id: above every entry taken away.
LEMMA BeginCommitInv ==
  ASSUME SInv, NEW t \in Tx, BeginCommit(t), UNCHANGED plan
  PROVE  SInv'
<1> USE DEF SInv
<1>1. /\ tx[t].pc = "begin" /\ tx'[t].pc = "active"
      /\ tx'[t].commit = commit_id /\ tx'[t].slot = tx[t].slot
      /\ \A u \in Tx : u # t => tx'[u] = tx[u]
      /\ \A u \in Tx : hist'[u].fresh = hist[u].fresh
      /\ UNCHANGED <<commit_id, commit_queue, plan>>
  BY SMTT(30), Z3T(30) DEF BeginCommit, At, Shape, Fields
<1>2. \A u \in Tx : /\ Passed(u)' <=> Passed(u)
                    /\ Holds(u)' <=> Holds(u)
                    /\ Holds(u) \/ Passed(u) => u # t
                    /\ u # t => (Registered(u)' <=> Registered(u))
  BY <1>1 DEF Passed, Holds, Registered, Writes
<1>3. \A u, w \in Tx : w # t => /\ InWindow(u, w)' <=> InWindow(u, w)
                                /\ InWindow(u, w) => u # t
                                /\ (Overlap(u, w)' <=> Overlap(u, w))
  BY <1>1, <1>2 DEF InWindow, Overlap, Writes, Serializable
<1>4. Shape' /\ Numbers' /\ Writing'
  BY <1>1 DEF BeginCommit, Shape, Fields, Numbers, Writing, Writes
<1>5. SlotAbove'
  BY <1>1, <1>2 DEF SlotAbove, Numbers
<1>6. EntryKept'
  BY <1>1, <1>2 DEF EntryKept
<1>7. SlotsDistinct'
  BY <1>1, <1>2 DEF SlotsDistinct
<1>8. ScanClean'
  BY <1>1, <1>2, <1>3 DEF ScanClean
<1>9. WindowClean'
  BY <1>1, <1>2, <1>3 DEF WindowClean
<1> QED BY <1>4, <1>5, <1>6, <1>7, <1>8, <1>9

LEMMA LoadSlotInv ==
  ASSUME SInv, NEW t \in Tx, LoadSlot(t), UNCHANGED plan
  PROVE  SInv'
<1> USE DEF SInv
<1>1. /\ tx[t].pc \in {"active", "slot"} /\ tx'[t].pc = "place" /\ Writes[t] # {}
      /\ tx'[t].commit = tx[t].commit /\ tx'[t].slot = commit_id + 1
      /\ \A u \in Tx : u # t => tx'[u] = tx[u]
      /\ UNCHANGED <<commit_id, commit_queue, plan, hist>>
  BY DEF LoadSlot, At, Shape, Fields, Writing
<1>2. \A u \in Tx : /\ Passed(u)' <=> Passed(u)
                    /\ Holds(u)' <=> Holds(u)
                    /\ Holds(u) \/ Passed(u) => u # t
                    /\ Registered(u)' <=> Registered(u)
                    /\ tx'[u].commit = tx[u].commit
  BY <1>1 DEF Passed, Holds, Registered, Writes
<1>3. \A u, w \in Tx : w # t => /\ InWindow(u, w)' <=> InWindow(u, w)
                                /\ InWindow(u, w) => u # t
                                /\ (Overlap(u, w)' <=> Overlap(u, w))
  BY <1>1, <1>2 DEF InWindow, Overlap, Writes, Serializable
<1>4. Shape' /\ Numbers' /\ Writing'
  BY <1>1 DEF LoadSlot, Shape, Fields, Numbers, Writing, Writes
<1>5. SlotAbove'
  BY <1>1, <1>2, SMTT(30), Z3T(30) DEF SlotAbove, Numbers
<1>6. EntryKept'
  BY <1>1, <1>2, SMTT(30), Z3T(30) DEF EntryKept
<1>7. SlotsDistinct'
  BY <1>1, <1>2, SMTT(30), Z3T(30) DEF SlotsDistinct
<1>8. ScanClean'
  BY <1>1, <1>2, <1>3, SMTT(30), Z3T(30) DEF ScanClean
<1>9. WindowClean'
  BY <1>1, <1>2, <1>3 DEF WindowClean
<1> QED BY <1>4, <1>5, <1>6, <1>7, <1>8, <1>9

\* An occupied slot sends the transaction back.  A free one was not taken
\* from anyone who holds it: such an entry lies below every snapshot.
LEMMA PlaceSlotInv ==
  ASSUME Slot = Nat, SInv, NEW t \in Tx, PlaceSlot(t), UNCHANGED plan
  PROVE  SInv'
<1> USE DEF SInv
<1>1. CASE commit_queue[tx[t].slot] # NoTx
  <2>1. tx[t].pc = "place" /\ tx' = [tx EXCEPT ![t].pc = "slot"]
        /\ UNCHANGED <<commit_id, commit_queue, hist>>
    BY <1>1 DEF PlaceSlot, At
  <2>3. /\ tx'[t].pc = "slot" /\ tx'[t].slot = tx[t].slot /\ tx'[t].commit = tx[t].commit
        /\ \A u \in Tx : u # t => tx'[u] = tx[u]
    BY <2>1 DEF Shape, Fields
  <2>4. \A u \in Tx : /\ Passed(u)' <=> Passed(u)
                      /\ Holds(u)' <=> Holds(u)
                      /\ Holds(u) \/ Passed(u) => u # t
                      /\ Registered(u)' <=> Registered(u)
    BY <2>1, <2>3 DEF Passed, Holds, Registered, Writes
  <2>5. \A u, w \in Tx : w # t => /\ InWindow(u, w)' <=> InWindow(u, w)
                                  /\ InWindow(u, w) => u # t
                                  /\ (Overlap(u, w)' <=> Overlap(u, w))
    BY <2>1, <2>3, <2>4 DEF InWindow, Overlap, Writes, Serializable
  <2>6. Shape' /\ Numbers' /\ Writing'
    BY <2>1, <2>3 DEF Shape, Fields, Numbers, Writing, Writes
  <2>7. SlotAbove' /\ EntryKept' /\ SlotsDistinct'
    BY <2>1, <2>3, <2>4, SMTT(30), Z3T(30) DEF SlotAbove, EntryKept, SlotsDistinct
  <2>8. ScanClean'
    BY <2>3, <2>4, <2>5 DEF ScanClean
  <2>9. WindowClean'
    BY <2>3, <2>4, <2>5 DEF WindowClean
  <2> QED BY <2>6, <2>7, <2>8, <2>9
<1>2. CASE commit_queue[tx[t].slot] = NoTx
  <2>1. /\ tx[t].pc = "place"
        /\ commit_queue' = [commit_queue EXCEPT ![tx[t].slot] = t]
        /\ tx' = [tx EXCEPT ![t].pc = "bump"]
        /\ hist' = [hist EXCEPT ![t].fresh = (tx[t].slot = commit_id + 1)]
        /\ UNCHANGED <<commit_id, plan>>
    BY <1>2 DEF PlaceSlot, At
  <2>2. /\ tx'[t].pc = "bump" /\ tx'[t].slot = tx[t].slot /\ tx'[t].commit = tx[t].commit
        /\ \A u \in Tx : u # t => tx'[u] = tx[u] /\ hist'[u] = hist[u]
        /\ hist'[t].fresh => tx[t].slot = commit_id + 1
        /\ commit_queue'[tx[t].slot] = t
        /\ \A s \in Nat : s # tx[t].slot => commit_queue'[s] = commit_queue[s]
    BY <2>1, ZenonT(30) DEF Shape, Fields, Numbers
  <2>3. \A u \in Tx : /\ Passed(u)' <=> Passed(u)
                      /\ Holds(u)' <=> Holds(u) \/ u = t
                      /\ ~Holds(t) /\ ~Passed(t)
                      /\ Registered(u)' <=> Registered(u)
                      /\ tx'[u].slot = tx[u].slot /\ tx'[u].commit = tx[u].commit
    BY <2>1, <2>2 DEF Passed, Holds, Registered, Writes
  <2>4. ASSUME NEW u \in Tx, Holds(u) PROVE tx[u].slot # tx[t].slot
    <3>1. CASE commit_queue[tx[u].slot] = u
      BY <1>2, <3>1, PlanAssumption
    <3>2. CASE tx[u].slot < tx[t].commit
      BY <2>1, <3>2 DEF SlotAbove, Numbers
    <3>3. Registered(t)
      BY <2>1 DEF Registered
    <3> QED BY <2>4, <3>1, <3>2, <3>3 DEF EntryKept
  <2>5. Shape' /\ Numbers' /\ Writing'
    BY <2>1, <2>2, <2>3 DEF Shape, Fields, Numbers, Writing, Writes
  <2>6. SlotAbove'
    BY <2>1, <2>2, <2>3 DEF SlotAbove, Numbers
  <2>7. EntryKept'
    <3> SUFFICES ASSUME NEW u \in Tx, Holds(u)'
                 PROVE  \/ commit_queue'[tx'[u].slot] = u
                        \/ /\ tx'[u].slot < commit_id'
                           /\ \A w \in Tx : Registered(w)' => tx'[u].slot < tx'[w].commit
      BY DEF EntryKept
    <3>1. CASE u = t
      BY <2>2, <3>1
    <3>2. CASE u # t
      BY <2>1, <2>2, <2>3, <2>4, <3>2, SMTT(30), Z3T(30) DEF EntryKept, Numbers
    <3> QED BY <3>1, <3>2
  <2>8. SlotsDistinct'
    BY <2>3, <2>4 DEF SlotsDistinct
  <2>9. \A u, w \in Tx : w # t => (Overlap(u, w)' <=> Overlap(u, w))
    BY <2>1, <2>2 DEF Overlap, Writes, Serializable
  <2>10. ASSUME NEW u \in Tx, NEW w \in Tx, w # t, Passed(w) \/ tx[w].pc = "scan",
                InWindow(u, w)'
         PROVE  InWindow(u, w)
    <3>1. CASE u # t
      BY <2>2, <2>3, <2>10, <3>1 DEF InWindow
    <3>2. CASE u = t
      <4>1. tx[t].slot = commit_id + 1 /\ tx[t].slot < tx[w].slot
        BY <2>2, <2>3, <2>10, <3>2 DEF InWindow
      <4>2. tx[w].slot <= commit_id
        <5>1. tx[w].pc # "bump" /\ Holds(w)
          BY <2>10, SMTT(30), Z3T(30) DEF Holds, Passed
        <5> QED BY <5>1 DEF SlotAbove
      <4> QED BY <4>1, <4>2, SMTT(30), Z3T(30) DEF Numbers
    <3> QED BY <3>1, <3>2, SMTT(30), Z3T(30)
  <2>11. ScanClean'
    BY <2>2, <2>3, <2>9, <2>10, SMTT(30), Z3T(30) DEF ScanClean
  <2>12. WindowClean'
    BY <2>2, <2>3, <2>9, <2>10, SMTT(30), Z3T(30) DEF WindowClean
  <2> QED BY <2>5, <2>6, <2>7, <2>8, <2>11, <2>12
<1> QED BY <1>1, <1>2

\* The scan starts at the commit snapshot: nothing of the window is behind it.
LEMMA BumpInv ==
  ASSUME SInv, NEW t \in Tx, BumpCommitId(t), UNCHANGED plan
  PROVE  SInv'
<1> USE DEF SInv
<1>1. /\ tx[t].pc = "bump" /\ tx'[t].pc = "scan" /\ tx'[t].pos = tx[t].commit
      /\ tx'[t].commit = tx[t].commit /\ tx'[t].slot = tx[t].slot
      /\ \A u \in Tx : u # t => tx'[u] = tx[u]
      /\ commit_id' = commit_id + 1
      /\ UNCHANGED <<commit_queue, plan, hist>>
  BY SMTT(30), Z3T(30) DEF BumpCommitId, At, Shape, Fields
<1>2. \A u \in Tx : /\ Passed(u)' <=> Passed(u)
                    /\ Holds(u)' <=> Holds(u)
                    /\ ~Passed(t)
                    /\ Registered(u)' <=> Registered(u)
                    /\ tx'[u].commit = tx[u].commit /\ tx'[u].slot = tx[u].slot
  BY <1>1, SMTT(30), Z3T(30) DEF Passed, Holds, Registered, Writes
<1>3. \A u, w \in Tx : /\ InWindow(u, w)' <=> InWindow(u, w)
                       /\ w # t => (Overlap(u, w)' <=> Overlap(u, w))
  BY <1>1, <1>2, SMTT(30), Z3T(30) DEF InWindow, Overlap, Writes, Serializable
<1>4. Shape' /\ Numbers' /\ Writing'
  BY <1>1, <1>2, SMTT(30), Z3T(30) DEF BumpCommitId, Shape, Fields, Numbers, Writing, Writes
<1>5. SlotAbove'
  BY <1>1, <1>2, SMTT(30), Z3T(30) DEF SlotAbove, Numbers, Holds
<1>6. EntryKept'
  BY <1>1, <1>2 DEF EntryKept, Numbers
<1>7. SlotsDistinct'
  BY <1>2 DEF SlotsDistinct
<1>8. ScanClean'
  <2> SUFFICES ASSUME NEW w \in Tx, tx'[w].pc = "scan"
               PROVE  /\ tx'[w].pos \in Nat
                      /\ \A u \in Tx : InWindow(u, w)' /\ tx'[u].slot <= tx'[w].pos
                                         => ~Overlap(u, w)'
    BY SMTT(30), Z3T(30) DEF ScanClean
  <2>1. CASE w = t
    BY <1>1, <1>2, <1>3, <2>1, SMTT(30), Z3T(30) DEF InWindow, Numbers
  <2>2. CASE w # t
    BY <1>1, <1>2, <1>3, <2>2, SMTT(30), Z3T(30) DEF ScanClean
  <2> QED BY <2>1, <2>2, SMTT(30), Z3T(30)
<1>9. WindowClean'
  BY <1>2, <1>3, SMTT(30), Z3T(30) DEF WindowClean
<1> QED BY <1>4, <1>5, <1>6, <1>7, <1>8, <1>9

\* An entry of the window that the iterator has not passed is in the queue,
\* because the cleanup stays below the snapshot of t.
LEMMA WindowQueued ==
  ASSUME Slot = Nat, SInv, NEW t \in Tx, NEW u \in Tx, tx[t].pc = "scan",
         InWindow(u, t), ~(tx[u].slot <= tx[t].pos)
  PROVE  commit_queue[tx[u].slot] = u /\ tx[u].slot \in Ahead(t)
<1> USE DEF SInv
<1>1. Registered(t) /\ Holds(u) /\ tx[t].commit < tx[u].slot /\ tx[u].slot < tx[t].slot
  BY DEF Registered, InWindow
<1>2. tx[u].slot \in Nat /\ tx[t].commit \in Nat /\ tx[t].pos \in Nat
  BY DEF Numbers, ScanClean
<1>3. commit_queue[tx[u].slot] = u
  BY <1>1, <1>2 DEF EntryKept
<1> QED BY <1>1, <1>2, <1>3, PlanAssumption DEF Ahead

LEMMA ScanInv ==
  ASSUME Slot = Nat, SInv, NEW t \in Tx, Scan(t), UNCHANGED plan
  PROVE  SInv'
<1> USE DEF SInv
<1> DEFINE Clear == Ahead(t) = {} /\ tx' = [tx EXCEPT ![t].pc = "merge"] /\ UNCHANGED commit_queue
           Pass(s) == /\ \A r \in Ahead(t) : s <= r
                      /\ ~Conflicts(commit_queue[s], t)
                      /\ tx' = [tx EXCEPT ![t].pos = s] /\ UNCHANGED commit_queue
           Meet == /\ commit_queue' = [commit_queue EXCEPT ![tx[t].slot] = NoTx]
                   /\ tx' = [tx EXCEPT ![t].pc = "conflict"]
<1>1. Clear \/ Meet \/ \E s \in Ahead(t) : Pass(s)
  BY DEF Scan
<1>2. tx[t].pc = "scan" /\ UNCHANGED <<commit_id, hist, plan>>
  BY DEF Scan, At
<1>3. /\ Shape'
      /\ tx'[t].pc \in {"scan", "merge", "conflict"}
      /\ tx'[t].slot = tx[t].slot /\ tx'[t].commit = tx[t].commit
      /\ tx'[t].readset = tx[t].readset
      /\ \A u \in Tx : u # t => tx'[u] = tx[u]
  BY <1>1, <1>2 DEF Shape, Fields
<1>4. \A u \in Tx : /\ tx'[u].slot = tx[u].slot /\ tx'[u].commit = tx[u].commit
                    /\ tx'[u].readset = tx[u].readset
                    /\ Holds(u)' => Holds(u)
                    /\ Holds(t) /\ ~Passed(t)
                    /\ u # t => (Passed(u)' <=> Passed(u))
                    /\ Registered(u)' => Registered(u)
  BY <1>2, <1>3, SMTT(30), Z3T(30) DEF Passed, Holds, Registered, Writes
<1>5. \A u, w \in Tx : /\ InWindow(u, w)' => InWindow(u, w)
                       /\ Overlap(u, w)' <=> Overlap(u, w)
  BY <1>2, <1>4, SMTT(30), Z3T(30) DEF InWindow, Overlap, Writes, Serializable
<1>6. Numbers' /\ Writing'
  BY <1>2, <1>3, <1>4, SMTT(30), Z3T(30) DEF Numbers, Writing, Writes
<1>7. SlotAbove' /\ SlotsDistinct'
  BY <1>2, <1>3, <1>4 DEF SlotAbove, SlotsDistinct
<1>8. CASE Clear
  <2>1. tx'[t].pc = "merge" /\ commit_queue' = commit_queue
    BY <1>8 DEF Shape, Fields
  <2>2. \A u \in Tx : InWindow(u, t) => ~Overlap(u, t)
    BY <1>2, <1>8, WindowQueued, SMTT(30), Z3T(30) DEF ScanClean
  <2>3. EntryKept'
    BY <1>2, <1>4, <2>1, SMTT(30), Z3T(30) DEF EntryKept
  <2>4. ScanClean'
    BY <1>3, <1>4, <1>5, <2>1, SMTT(30), Z3T(30) DEF ScanClean
  <2>5. WindowClean'
    BY <1>4, <1>5, <2>2 DEF WindowClean
  <2> QED BY <1>3, <1>6, <1>7, <2>3, <2>4, <2>5
<1>9. CASE \E s \in Ahead(t) : Pass(s)
  <2>1. PICK s \in Ahead(t) : Pass(s)
    BY <1>9, ZenonT(30)
  <2>2. /\ tx'[t].pc = "scan" /\ tx'[t].pos = s /\ s \in Nat
        /\ commit_queue' = commit_queue /\ ~Passed(t)'
    BY <1>2, <2>1, SMTT(30), Z3T(30) DEF Shape, Fields, Ahead, Passed
  <2>3. EntryKept'
    BY <1>2, <1>4, <2>2 DEF EntryKept
  <2>4. ASSUME NEW u \in Tx, InWindow(u, t), tx[u].slot <= s PROVE ~Overlap(u, t)
    <3>1. CASE tx[u].slot <= tx[t].pos
      BY <1>2, <2>4, <3>1, SMTT(30), Z3T(30) DEF ScanClean
    <3>2. CASE ~(tx[u].slot <= tx[t].pos)
      <4>1. commit_queue[tx[u].slot] = u /\ tx[u].slot \in Ahead(t)
        BY <1>2, <2>4, <3>2, WindowQueued, SMTT(30), Z3T(30)
      <4>2. tx[u].slot = s
        BY <2>1, <2>2, <2>4, <4>1 DEF Numbers
      <4>3. ~Conflicts(u, t)
        BY <2>1, <4>1, <4>2, SMTT(30), Z3T(30)
      <4> QED BY <4>3 DEF Conflicts, Overlap
    <3> QED BY <3>1, <3>2
  <2>5. ScanClean'
    BY <1>3, <1>4, <1>5, <2>2, <2>4, SMTT(30), Z3T(30) DEF ScanClean
  <2>6. WindowClean'
    BY <1>4, <1>5, <2>2, ZenonT(30) DEF WindowClean
  <2> QED BY <1>3, <1>6, <1>7, <2>3, <2>5, <2>6, SMTT(30), Z3T(30)
<1>10. CASE Meet
  <2>1. tx'[t].pc = "conflict" /\ ~Holds(t)' /\ ~Passed(t)'
    BY <1>2, <1>10, SMTT(30), Z3T(30) DEF Shape, Fields, Holds, Passed
  <2>2. \A u \in Tx : Holds(u)' => tx[u].slot # tx[t].slot
    BY <1>4, <2>1 DEF SlotsDistinct
  <2>3. \A u \in Tx : Holds(u)' => commit_queue'[tx[u].slot] = commit_queue[tx[u].slot]
    BY <1>10, <2>2, SMTT(30), Z3T(30) DEF Shape, Numbers
  <2>4. EntryKept'
    BY <1>2, <1>4, <2>3, SMTT(30), Z3T(30) DEF EntryKept
  <2>5. ScanClean'
    BY <1>3, <1>4, <1>5, <2>1, ZenonT(30) DEF ScanClean
  <2>6. WindowClean'
    BY <1>4, <1>5, <2>1, SMTT(30), Z3T(30) DEF WindowClean
  <2> QED BY <1>3, <1>6, <1>7, <2>4, <2>5, <2>6
<1> QED BY <1>1, <1>8, <1>9, <1>10

\* The watermark is below every registered snapshot and the commit id.
LEMMA CleanupInv ==
  ASSUME Slot = Nat, SInv, Cleanup, UNCHANGED plan
  PROVE  SInv'
<1> USE DEF SInv
<1> DEFINE marks == {tx[t].commit : t \in {u \in Tx : Registered(u)}} \cup {commit_id}
<1>1. PICK oldest \in marks :
          /\ \A m \in marks : oldest <= m
          /\ commit_queue' = [s \in Slot |-> IF s < oldest THEN NoTx ELSE commit_queue[s]]
  BY DEF Cleanup
<1>2. UNCHANGED <<commit_id, tx, hist, plan>>
  BY DEF Cleanup
<1>3. oldest \in Nat /\ oldest <= commit_id /\ \A t \in Tx : Registered(t) => oldest <= tx[t].commit
  BY <1>1, SMTT(30), Z3T(30) DEF Numbers
<1>4. Shape' /\ Numbers' /\ Writing' /\ SlotAbove'
  BY <1>1, <1>2, SMTT(30), Z3T(30) DEF Shape, Numbers, Writing, SlotAbove, Holds, Passed, Writes
<1>5. EntryKept'
  <2> SUFFICES ASSUME NEW u \in Tx, Holds(u)
               PROVE  \/ commit_queue'[tx[u].slot] = u
                      \/ /\ tx[u].slot < commit_id
                         /\ \A t \in Tx : Registered(t) => tx[u].slot < tx[t].commit
    BY <1>2 DEF EntryKept, Holds, Passed, Registered, Writes
  <2>1. tx[u].slot \in Nat /\ commit_id \in Nat /\ \A t \in Tx : tx[t].commit \in Nat
    BY DEF Numbers
  <2>2. CASE tx[u].slot < oldest
    BY <1>3, <2>1, <2>2
  <2>3. CASE ~(tx[u].slot < oldest)
    <3>1. commit_queue'[tx[u].slot] = commit_queue[tx[u].slot]
      BY <1>1, <2>1, <2>3, SMTT(30), Z3T(30)
    <3> QED BY <3>1 DEF EntryKept
  <2> QED BY <2>2, <2>3, SMTT(30), Z3T(30)
<1>6. SlotsDistinct' /\ ScanClean' /\ WindowClean'
  BY <1>2, SMTT(30), Z3T(30) DEF SlotsDistinct, ScanClean, WindowClean, InWindow, Overlap, Holds,
     Passed,
              Writes, Serializable
<1> QED BY <1>4, <1>5, <1>6

LEMMA InitSInv ==
  ASSUME Slot = Nat, Init PROVE SInv
<1>1. \A t \in Tx : tx[t].pc = "idle" /\ tx[t].commit = 0 /\ tx[t].slot = 0
  BY DEF Init
<1>2. \A t \in Tx : ~Holds(t) /\ ~Passed(t)
  BY <1>1, SMTT(30), Z3T(30) DEF Holds, Passed
<1>3. Shape /\ Numbers
  BY SMTT(30), Z3T(30) DEF Init, Shape, Numbers, Fields
<1>4. Writing /\ SlotAbove
  BY <1>1, <1>2, SMTT(30), Z3T(30) DEF Init, Writing, SlotAbove
<1>5. EntryKept /\ SlotsDistinct /\ ScanClean /\ WindowClean
  BY <1>1, <1>2 DEF EntryKept, SlotsDistinct, ScanClean, WindowClean
<1> QED BY <1>3, <1>4, <1>5 DEF SInv

LEMMA NextSInv ==
  ASSUME Slot = Nat, SInv, [Next]_vars PROVE SInv'
<1>1. CASE UNCHANGED vars
  BY <1>1, ZenonT(30) DEF SInv, vars, Shape, Numbers, Writing, SlotAbove, EntryKept, SlotsDistinct,
              ScanClean, WindowClean, InWindow, Overlap, Holds, Passed, Registered,
              Writes, Serializable
<1>2. CASE Cleanup /\ UNCHANGED plan
  BY <1>2, CleanupInv
<1>3. ASSUME NEW t \in Tx, Step(t), UNCHANGED plan PROVE SInv'
  <2>1. CASE BeginVersion(t)
    BY <1>3, <2>1, BeginVersionQuiet, QuietInv
  <2>2. CASE BeginCommit(t)
    BY <1>3, <2>2, BeginCommitInv
  <2>3. CASE Get(t) \/ Walk(t) \/ Fetch(t) \/ CommitReadOnly(t)
    BY <1>3, <2>3, ReadQuiet, QuietInv
  <2>4. CASE LoadSlot(t)
    BY <1>3, <2>4, LoadSlotInv
  <2>5. CASE PlaceSlot(t)
    BY <1>3, <2>5, PlaceSlotInv
  <2>6. CASE BumpCommitId(t)
    BY <1>3, <2>6, BumpInv
  <2>7. CASE Scan(t)
    BY <1>3, <2>7, ScanInv
  <2>8. CASE LoadVersion(t) \/ Stage(t) \/ Publish(t) \/ PushKey(t) \/ AppendLog(t) \/ Unstage(t)
    BY <1>3, <2>8, MergeQuiet, QuietInv
  <2> QED BY <1>3, <2>1, <2>2, <2>3, <2>4, <2>5, <2>6, <2>7, <2>8 DEF Step, Commit
<1> QED BY <1>1, <1>2, <1>3, SMTT(30), Z3T(30) DEF Next

\* auto_commit lets the first committer win: of two transactions that pass the
\* conflict scan and overlap, the one in the higher slot began after the other
\* took its slot, for any number of transactions and any write and read sets.
THEOREM FirstCommitter ==
  ASSUME Slot = Nat PROVE Spec => []FirstCommitterWins
<1>1. SInv => FirstCommitterWins
  <2> SUFFICES ASSUME SInv, NEW t \in Tx, NEW u \in Tx,
                      Passed(t), Passed(u), hist[t].fresh, hist[u].fresh,
                      tx[u].slot < tx[t].slot, Overlap(u, t)
               PROVE  tx[u].slot <= tx[t].commit
    BY DEF FirstCommitterWins
  <2>1. Holds(u) /\ ~InWindow(u, t)
    BY DEF SInv, WindowClean, Holds
  <2>2. ~(tx[t].commit < tx[u].slot)
    BY <2>1, SMTT(30), Z3T(30) DEF InWindow
  <2> QED BY <2>2 DEF SInv, Numbers
<1> QED BY <1>1, InitSInv, NextSInv, PTL DEF Spec

\* A slot that a conflict emptied and another transaction filled is never held
\* by two transactions that passed the scan.
THEOREM SlotsOfPassed ==
  ASSUME Slot = Nat PROVE Spec => []PassedSlotsDistinct
<1>1. SInv => PassedSlotsDistinct
  BY SMTT(30), Z3T(30) DEF SInv, SlotsDistinct, PassedSlotsDistinct, Holds
<1> QED BY <1>1, InitSInv, NextSInv, PTL DEF Spec

-----------------------------------------------------------------------------
(* Versions and the oracle's timestamp *)

\* Past its fetch_max, with a version.
Published(u) ==
    tx[u].pc \in {"push", "append", "unstage", "committed", "unlogged"} /\ Writes[u] # {}

\* The timestamp is at least every published version.
VInv ==
    /\ timestamp \in Nat
    /\ \A u \in Tx : tx[u].merged \in Nat /\ (Published(u) => tx[u].merged <= timestamp)

\* The steps that choose no version and publish none.
Versionless(t) ==
    /\ timestamp' = timestamp
    /\ \A u \in Tx : u # t => tx'[u] = tx[u]
    /\ tx'[t].merged = tx[t].merged
    /\ Published(t)' => Published(t)
    /\ tx[t].pc # "merge" \/ tx'[t].pc # "stage"

LEMMA VersionlessSteps ==
  ASSUME Shape, NEW t \in Tx, Step(t), UNCHANGED plan, ~LoadVersion(t), ~Publish(t)
  PROVE  Versionless(t)
<1> USE DEF Shape, Fields, At, Versionless, Published, Writes
<1>1. CASE BeginVersion(t) \/ BeginCommit(t) \/ CommitReadOnly(t) \/ LoadSlot(t)
  BY <1>1 DEF BeginVersion, BeginCommit, CommitReadOnly, LoadSlot
<1>2. CASE Get(t)
  <2>1. PICK k : tx' = [tx EXCEPT ![t].pc = "walk", ![t].key = k, ![t].gets = @ + 1,
                                  ![t].pos = tx[t].version + 1]
    BY <1>2, ZenonT(30) DEF Get
  <2>2. UNCHANGED timestamp
    BY <1>2 DEF Get
  <2> QED BY <2>1, <2>2, SMTT(30), Z3T(30)
<1>3. ASSUME NEW x, Answer(t, x), UNCHANGED timestamp PROVE Versionless(t)
  BY <1>3 DEF Answer
<1>4. CASE Walk(t)
  <2>1. UNCHANGED timestamp /\ tx[t].pc = "walk"
    BY <1>4 DEF Walk
  <2>2. \/ tx' = [tx EXCEPT ![t].pc = "fetch"]
        \/ \E x : Answer(t, x)
        \/ \E v : tx' = [tx EXCEPT ![t].pos = v]
    BY <1>4 DEF Walk
  <2>3. CASE tx' = [tx EXCEPT ![t].pc = "fetch"]
    BY <2>1, <2>3
  <2>4. CASE \E v : tx' = [tx EXCEPT ![t].pos = v]
    BY <2>1, <2>4, SMTT(30), Z3T(30)
  <2> QED BY <1>3, <2>1, <2>2, <2>3, <2>4
<1>5. CASE Fetch(t)
  <2>1. (\E x : Answer(t, x)) /\ UNCHANGED timestamp
    BY <1>5 DEF Fetch
  <2> QED BY <1>3, <2>1, SMTT(30), Z3T(30)
<1>6. CASE PlaceSlot(t) \/ BumpCommitId(t)
  BY <1>6, SMTT(30), Z3T(30) DEF PlaceSlot, BumpCommitId
<1>7. CASE Scan(t)
  <2>1. UNCHANGED timestamp /\ tx[t].pc = "scan"
    BY <1>7 DEF Scan
  <2>2. \/ tx' = [tx EXCEPT ![t].pc = "merge"]
        \/ tx' = [tx EXCEPT ![t].pc = "conflict"]
        \/ \E s : tx' = [tx EXCEPT ![t].pos = s]
    BY <1>7 DEF Scan
  <2>3. CASE tx' = [tx EXCEPT ![t].pc = "merge"] \/ tx' = [tx EXCEPT ![t].pc = "conflict"]
    BY <2>1, <2>3
  <2>4. CASE \E s : tx' = [tx EXCEPT ![t].pos = s]
    BY <2>1, <2>4
  <2> QED BY <2>2, <2>3, <2>4
<1>8. CASE Stage(t) \/ PushKey(t) \/ Unstage(t)
  BY <1>8 DEF Stage, PushKey, Unstage
<1>9. CASE AppendLog(t)
  <2>1. PICK err : tx' = [tx EXCEPT ![t].pc = "unstage", ![t].err = err]
    BY <1>9, ZenonT(30) DEF AppendLog
  <2>2. UNCHANGED timestamp /\ tx[t].pc = "append"
    BY <1>9 DEF AppendLog
  <2> QED BY <2>1, <2>2, SMTT(30), Z3T(30)
<1> QED BY <1>1, <1>2, <1>4, <1>5, <1>6, <1>7, <1>8, <1>9, ZenonT(30) DEF Step, Commit

\* The new version is above the timestamp, whatever the clock says.
LEMMA LoadVersionStep ==
  ASSUME Shape, VInv, NEW t \in Tx, LoadVersion(t)
  PROVE  /\ tx[t].pc = "merge" /\ tx'[t].pc = "stage" /\ timestamp' = timestamp
         /\ tx'[t].merged \in Nat /\ tx'[t].merged > timestamp
         /\ \A u \in Tx : u # t => tx'[u] = tx[u]
<1>1. PICK n \in Now : tx' = [tx EXCEPT ![t].pc = "stage",
                                        ![t].merged = Larger(n, timestamp + 1)]
  BY ZenonT(30) DEF LoadVersion
<1>2. Larger(n, timestamp + 1) \in Nat /\ Larger(n, timestamp + 1) > timestamp
  BY PlanAssumption DEF VInv, Larger
<1>3. tx[t].pc = "merge" /\ timestamp' = timestamp
  BY DEF LoadVersion, At
<1> QED BY <1>1, <1>2, <1>3 DEF Shape, Fields

LEMMA PublishStep ==
  ASSUME Shape, VInv, NEW t \in Tx, Publish(t)
  PROVE  /\ tx[t].pc = "publish" /\ tx'[t].pc = "push" /\ tx'[t].merged = tx[t].merged
         /\ timestamp' \in Nat /\ timestamp' >= timestamp /\ timestamp' >= tx[t].merged
         /\ \A u \in Tx : u # t => tx'[u] = tx[u]
BY DEF Publish, At, Shape, Fields, VInv, Larger

LEMMA NextVInv ==
  ASSUME SInv, VInv, [Next]_vars PROVE VInv'
<1>1. CASE UNCHANGED vars \/ (Cleanup /\ UNCHANGED plan)
  BY <1>1 DEF vars, Cleanup, VInv, Published, Writes
<1>2. ASSUME NEW t \in Tx, Step(t), UNCHANGED plan PROVE VInv'
  <2>1. Shape
    BY DEF SInv
  <2>2. \A u \in Tx : tx'[u] = tx[u] => (Published(u)' <=> Published(u))
    BY <1>2, SMTT(30), Z3T(30) DEF Published, Writes
  <2>3. CASE LoadVersion(t)
    <3>1. ~Published(t)'
      BY <2>1, <2>3, LoadVersionStep, SMTT(30), Z3T(30) DEF Published
    <3> QED BY <2>1, <2>2, <2>3, <3>1, LoadVersionStep, SMTT(30), Z3T(30) DEF VInv
  <2>4. CASE Publish(t)
    BY <2>1, <2>2, <2>4, PublishStep, SMTT(30), Z3T(30) DEF VInv
  <2>5. CASE ~LoadVersion(t) /\ ~Publish(t)
    <3>1. Versionless(t)
      BY <1>2, <2>1, <2>5, VersionlessSteps
    <3> QED BY <2>2, <3>1 DEF VInv, Versionless
  <2> QED BY <2>3, <2>4, <2>5
<1> QED BY <1>1, <1>2, SMTT(30), Z3T(30) DEF Next

\* A commit that chooses its version after another returned gets a greater
\* one: atomic_merge takes it above oracle.timestamp, for any clock.
THEOREM VersionsFollow ==
  ASSUME Slot = Nat PROVE Spec => VersionsFollowCommits
<1> DEFINE A == \A t, u \in Tx :
          At(t, "merge") /\ tx'[t].pc = "stage" /\ At(u, "committed") /\ Writes[u] # {}
          => tx'[t].merged > tx[u].merged
<1>1. Init => VInv
  BY SMTT(30), Z3T(30) DEF Init, VInv, Published
<1>2. ASSUME SInv, VInv, [Next]_vars PROVE [A]_vars
  <2> SUFFICES ASSUME NEW t \in Tx, NEW u \in Tx, tx[t].pc = "merge", tx'[t].pc = "stage",
                      tx[u].pc = "committed", Writes[u] # {}
               PROVE  tx'[t].merged > tx[u].merged
    BY DEF At
  <2>1. Shape
    BY <1>2 DEF SInv
  <2>2. PICK x \in Tx : Step(x) /\ UNCHANGED plan
    BY <1>2 DEF Next, vars, Cleanup
  <2>3. LoadVersion(t)
    <3>1. CASE LoadVersion(x)
      BY <1>2, <2>1, <3>1, LoadVersionStep, SMTT(30), Z3T(30)
    <3>2. CASE Publish(x)
      BY <1>2, <2>1, <3>2, PublishStep, SMTT(30), Z3T(30)
    <3>3. CASE ~LoadVersion(x) /\ ~Publish(x)
      BY <2>1, <2>2, <3>3, VersionlessSteps, SMTT(30), Z3T(30) DEF Versionless
    <3> QED BY <3>1, <3>2, <3>3
  <2>4. tx'[t].merged \in Nat /\ tx'[t].merged > timestamp
    BY <1>2, <2>1, <2>3, LoadVersionStep
  <2>5. tx[u].merged \in Nat /\ timestamp \in Nat /\ tx[u].merged <= timestamp
    BY <1>2 DEF VInv, Published
  <2> QED BY <2>4, <2>5
<1>3. Spec => [][A]_vars
  BY <1>1, <1>2, InitSInv, NextSInv, NextVInv, PTL DEF Spec
<1> QED BY <1>3, SMTT(30), Z3T(30) DEF VersionsFollowCommits

-----------------------------------------------------------------------------
(* What a step of a transaction may change *)

\* From where to where a transaction moves.
Move(p, q) ==
    \/ p = "idle" /\ q = "begin"
    \/ p = "begin" /\ q = "active"
    \/ p = "active" /\ q \in {"walk", "committed", "place"}
    \/ p = "walk" /\ q \in {"walk", "fetch", "active"}
    \/ p = "fetch" /\ q = "active"
    \/ p = "slot" /\ q = "place"
    \/ p = "place" /\ q \in {"slot", "bump"}
    \/ p = "bump" /\ q = "scan"
    \/ p = "scan" /\ q \in {"scan", "merge", "conflict"}
    \/ p = "merge" /\ q = "stage"
    \/ p = "stage" /\ q \in {"merge", "publish"}
    \/ p = "publish" /\ q = "push"
    \/ p = "push" /\ q \in {"push", "append"}
    \/ p = "append" /\ q = "unstage"
    \/ p = "unstage" /\ q \in {"committed", "unlogged"}

\* The fields change where the code assigns them, and only there.
Frame(t) ==
    /\ Move(tx[t].pc, tx'[t].pc)
    /\ tx[t].pc # "idle" => tx'[t].version = tx[t].version /\ hist'[t].quiet = hist[t].quiet
    /\ tx[t].pc # "begin" => tx'[t].commit = tx[t].commit /\ hist'[t].aligned = hist[t].aligned
    /\ tx'[t].pc # "bump" => hist'[t].fresh = hist[t].fresh
    /\ tx'[t].pc # "place" => tx'[t].slot = tx[t].slot
    /\ tx'[t].pc # "stage" => tx'[t].merged = tx[t].merged
    /\ tx[t].pc \notin {"publish", "push"} => tx'[t].todo = tx[t].todo
    /\ tx[t].pc \notin {"walk", "fetch"} => tx'[t].answers = tx[t].answers
    /\ tx[t].pc = "active" /\ tx'[t].pc = "committed" => Writes[t] = {}

\* ... and the steps of t leave the locals of the others alone.
Alone(t) == \A u \in Tx : u # t => tx'[u] = tx[u] /\ hist'[u] = hist[u]

LEMMA ReadFrame ==
  ASSUME Shape, NEW t \in Tx, UNCHANGED plan,
         Get(t) \/ Walk(t) \/ Fetch(t) \/ CommitReadOnly(t)
  PROVE  Frame(t) /\ Alone(t)
<1> USE DEF Shape, Fields, Frame, Alone, Move
<1>0. UNCHANGED hist
  BY Zenon DEF Get, Walk, Fetch, CommitReadOnly
<1>1. CASE Get(t)
  <2>1. PICK k : tx' = [tx EXCEPT ![t].pc = "walk", ![t].key = k, ![t].gets = @ + 1,
                                  ![t].pos = tx[t].version + 1]
    BY <1>1, ZenonT(30) DEF Get
  <2>2. tx[t].pc = "active"
    BY <1>1, ZenonT(30) DEF Get, At
  <2> QED BY <1>0, <2>1, <2>2
<1>2. ASSUME NEW x, Answer(t, x), tx[t].pc \in {"walk", "fetch"} PROVE Frame(t) /\ Alone(t)
  BY <1>0, <1>2, SMTT(30), Z3T(30) DEF Answer
<1>3. CASE Walk(t)
  <2>1. tx[t].pc = "walk"
    BY <1>3 DEF Walk, At
  <2>2. \/ tx' = [tx EXCEPT ![t].pc = "fetch"]
        \/ \E x : Answer(t, x)
        \/ \E v : tx' = [tx EXCEPT ![t].pos = v]
    BY <1>3 DEF Walk
  <2>3. CASE tx' = [tx EXCEPT ![t].pc = "fetch"]
    BY <1>0, <2>1, <2>3
  <2>4. CASE \E v : tx' = [tx EXCEPT ![t].pos = v]
    BY <1>0, <2>1, <2>4, SMTT(30), Z3T(30)
  <2> QED BY <1>2, <2>1, <2>2, <2>3, <2>4
<1>4. CASE Fetch(t)
  <2>1. (\E x : Answer(t, x)) /\ tx[t].pc = "fetch"
    BY <1>4, Zenon DEF Fetch, At
  <2> QED BY <1>2, <2>1, ZenonT(30)
<1>5. CASE CommitReadOnly(t)
  BY <1>0, <1>5, SMTT(30), Z3T(30) DEF CommitReadOnly, At
<1> QED BY <1>1, <1>3, <1>4, <1>5, ZenonT(30)

LEMMA QueueFrame ==
  ASSUME Shape, NEW t \in Tx, UNCHANGED plan,
         \/ BeginVersion(t) \/ BeginCommit(t) \/ LoadSlot(t)
         \/ PlaceSlot(t) \/ BumpCommitId(t) \/ Scan(t)
  PROVE  Frame(t) /\ Alone(t)
<1> USE DEF Shape, Fields, Frame, Alone, Move, At
<1>1. CASE BeginVersion(t)
  BY <1>1 DEF BeginVersion
<1>2. CASE BeginCommit(t)
  BY <1>2 DEF BeginCommit
<1>3. CASE LoadSlot(t)
  BY <1>3 DEF LoadSlot
<1>4. CASE PlaceSlot(t)
  BY <1>4 DEF PlaceSlot
<1>5. CASE BumpCommitId(t)
  BY <1>5 DEF BumpCommitId
<1>6. CASE Scan(t)
  <2>1. tx[t].pc = "scan" /\ UNCHANGED hist
    BY <1>6 DEF Scan
  <2>2. \/ tx' = [tx EXCEPT ![t].pc = "merge"]
        \/ tx' = [tx EXCEPT ![t].pc = "conflict"]
        \/ \E s : tx' = [tx EXCEPT ![t].pos = s]
    BY <1>6 DEF Scan
  <2>3. CASE tx' = [tx EXCEPT ![t].pc = "merge"] \/ tx' = [tx EXCEPT ![t].pc = "conflict"]
    BY <2>1, <2>3
  <2>4. CASE \E s : tx' = [tx EXCEPT ![t].pos = s]
    BY <2>1, <2>4, SMTT(30), Z3T(30)
  <2> QED BY <2>2, <2>3, <2>4
<1> QED BY <1>1, <1>2, <1>3, <1>4, <1>5, <1>6, Zenon

LEMMA MergeFrame ==
  ASSUME Shape, NEW t \in Tx, UNCHANGED plan,
         LoadVersion(t) \/ Stage(t) \/ Publish(t) \/ PushKey(t) \/ AppendLog(t) \/ Unstage(t)
  PROVE  Frame(t) /\ Alone(t)
<1> USE DEF Shape, Fields, Frame, Alone, Move, At
<1>1. CASE LoadVersion(t)
  <2>1. PICK v : tx' = [tx EXCEPT ![t].pc = "stage", ![t].merged = v]
    BY <1>1, ZenonT(30) DEF LoadVersion
  <2>2. tx[t].pc = "merge" /\ UNCHANGED hist
    BY <1>1, ZenonT(30) DEF LoadVersion
  <2> QED BY <2>1, <2>2
<1>2. CASE Stage(t)
  BY <1>2 DEF Stage
<1>3. CASE Publish(t)
  BY <1>3 DEF Publish
<1>4. CASE PushKey(t)
  <2> DEFINE k == MinOf(tx[t].todo)
  <2>1. /\ tx[t].pc = "push" /\ UNCHANGED hist
        /\ tx' = [tx EXCEPT ![t].todo = @ \ {k},
                            ![t].pc = IF tx[t].todo = {k} THEN "append" ELSE @]
    BY <1>4 DEF PushKey
  <2> HIDE DEF k
  <2> QED BY <2>1
<1>5. CASE AppendLog(t)
  <2>1. PICK err : tx' = [tx EXCEPT ![t].pc = "unstage", ![t].err = err]
    BY <1>5, ZenonT(30) DEF AppendLog
  <2>2. tx[t].pc = "append" /\ UNCHANGED hist
    BY <1>5, ZenonT(30) DEF AppendLog
  <2> QED BY <2>1, <2>2
<1>6. CASE Unstage(t)
  BY <1>6 DEF Unstage
<1> QED BY <1>1, <1>2, <1>3, <1>4, <1>5, <1>6, Zenon

LEMMA StepFrame ==
  ASSUME Shape, NEW t \in Tx, Step(t), UNCHANGED plan
  PROVE  Frame(t) /\ Alone(t)
BY ReadFrame, QueueFrame, MergeFrame, Zenon DEF Step, Commit

\* Past the choice of a version.
Chosen(u) ==
    /\ tx[u].pc \in {"stage", "publish", "push", "append", "unstage", "committed", "unlogged"}
    /\ Writes[u] # {}

\* A chosen version is not 0, and a snapshot is not above the timestamp.
MInv ==
    /\ VInv
    /\ \A u \in Tx : /\ Chosen(u) => tx[u].merged >= 1
                     /\ tx[u].version \in Nat /\ tx[u].version <= timestamp

\* The timestamp only grows, and a chosen version is above it.
LEMMA VersionStep ==
  ASSUME Shape, VInv, NEW t \in Tx, Step(t), UNCHANGED plan
  PROVE  /\ timestamp' \in Nat /\ timestamp' >= timestamp
         /\ tx'[t].pc = "stage" => tx'[t].merged \in Nat /\ tx'[t].merged > timestamp
<1>1. CASE LoadVersion(t)
  BY <1>1, LoadVersionStep DEF VInv
<1>2. CASE Publish(t)
  BY <1>2, PublishStep
<1>3. CASE ~LoadVersion(t) /\ ~Publish(t)
  <2>1. Versionless(t) /\ Frame(t)
    BY <1>3, VersionlessSteps, StepFrame, SMTT(30), Z3T(30)
  <2>2. tx'[t].pc # "stage"
    BY <2>1, ZenonT(30) DEF Versionless, Frame, Move
  <2> QED BY <2>1, <2>2 DEF Versionless, VInv
<1> QED BY <1>1, <1>2, <1>3, SMTT(30), Z3T(30)

LEMMA MInvStep ==
  ASSUME SInv, MInv, NEW t \in Tx, Step(t), UNCHANGED plan PROVE MInv'
<1>1. Shape /\ VInv /\ VInv'
  <2>1. Shape /\ VInv
    BY DEF SInv, MInv
  <2>2. [Next]_vars
    BY Zenon DEF Next
  <2> QED BY <2>1, <2>2, NextVInv, SMTT(30), Z3T(30)
<1>2. Frame(t) /\ Alone(t)
  BY <1>1, StepFrame, SMTT(30), Z3T(30)
<1>3. /\ timestamp \in Nat /\ timestamp' \in Nat /\ timestamp' >= timestamp
      /\ tx'[t].pc = "stage" => tx'[t].merged \in Nat /\ tx'[t].merged > timestamp
  BY <1>1, VersionStep, SMTT(30), Z3T(30) DEF VInv
<1>4. ASSUME NEW u \in Tx, u # t
      PROVE  /\ Chosen(u)' => tx'[u].merged >= 1
             /\ tx'[u].version \in Nat /\ tx'[u].version <= timestamp'
  BY <1>2, <1>3, <1>4, SMTT(30), Z3T(30) DEF Alone, MInv, Chosen, Writes
<1>5. tx'[t].version \in Nat /\ tx'[t].version <= timestamp'
  <2>1. CASE tx[t].pc = "idle"
    <3>1. BeginVersion(t)
      BY <2>1 DEF Step, Commit, BeginCommit, Get, Walk, Fetch, CommitReadOnly, LoadSlot,
                  PlaceSlot, BumpCommitId, Scan, LoadVersion, Stage, Publish, PushKey,
                  AppendLog, Unstage, At
    <3>2. tx'[t].version = timestamp
      BY <1>1, <3>1, SMTT(30), Z3T(30) DEF BeginVersion, Shape, Fields
    <3> QED BY <1>3, <3>2, SMTT(30), Z3T(30)
  <2>2. CASE tx[t].pc # "idle"
    BY <1>2, <1>3, <2>2, SMTT(30), Z3T(30) DEF Frame, MInv
  <2> QED BY <2>1, <2>2, SMTT(30), Z3T(30)
<1>6. Chosen(t)' => tx'[t].merged >= 1
  <2> SUFFICES ASSUME Chosen(t)' PROVE tx'[t].merged >= 1
    OBVIOUS
  <2>1. CASE tx'[t].pc = "stage"
    BY <1>3, <2>1, SMTT(30), Z3T(30)
  <2>2. CASE tx'[t].pc # "stage"
    <3>1. Chosen(t) /\ tx'[t].merged = tx[t].merged
      BY <1>2, <2>2, ZenonT(30) DEF Chosen, Writes, Frame, Move
    <3> QED BY <3>1, SMTT(30), Z3T(30) DEF MInv
  <2> QED BY <2>1, <2>2
<1> QED BY <1>1, <1>4, <1>5, <1>6 DEF MInv

\* A transaction began aligned: every entry at a fresh slot below its commit
\* snapshot belongs to a commit that its version snapshot includes.
AInv ==
    \A t \in Tx : hist[t].aligned =>
        /\ tx[t].pc \notin {"idle", "begin"}
        /\ \A u \in Tx : Holds(u) /\ hist[u].fresh /\ tx[u].slot <= tx[t].commit =>
              Published(u) /\ tx[u].merged # 0 /\ tx[u].merged <= tx[t].version

LEMMA AInvStep ==
  ASSUME SInv, MInv, AInv, NEW t \in Tx, Step(t), UNCHANGED plan, Shape' PROVE AInv'
<1>1. Shape /\ Frame(t) /\ Alone(t)
  BY StepFrame, SMTT(30), Z3T(30) DEF SInv
<1>2. SUFFICES ASSUME NEW w \in Tx, hist'[w].aligned
               PROVE  /\ tx'[w].pc \notin {"idle", "begin"}
                      /\ \A u \in Tx : Holds(u)' /\ hist'[u].fresh
                                       /\ tx'[u].slot <= tx'[w].commit =>
                            Published(u)' /\ tx'[u].merged # 0 /\ tx'[u].merged <= tx'[w].version
  BY ZenonT(30) DEF AInv
<1>3. CASE w = t /\ tx[t].pc = "begin"
  <2>1. BeginCommit(t)
    BY <1>3 DEF Step, Commit, BeginVersion, Get, Walk, Fetch, CommitReadOnly, LoadSlot,
                PlaceSlot, BumpCommitId, Scan, LoadVersion, Stage, Publish, PushKey,
                AppendLog, Unstage, At
  <2>2. /\ tx'[t].pc = "active" /\ tx'[t].commit = commit_id /\ tx'[t].version = tx[t].version
        /\ \A u \in Tx : /\ tx[u].pc \notin {"scan", "merge", "stage", "publish"}
                         /\ tx[u].pc = "bump" => tx[u].slot > commit_id
                         /\ tx[u].merged <= tx[t].version
    BY <1>1, <1>2, <1>3, <2>1, SMTT(30), Z3T(30) DEF BeginCommit, Shape, Fields, At
  <2>3. ASSUME NEW u \in Tx, Holds(u)', tx'[u].slot <= commit_id
        PROVE  Published(u)' /\ tx'[u].merged # 0 /\ tx'[u].merged <= tx[t].version
    <3>1. u # t
      BY <2>2, <2>3, SMTT(30), Z3T(30) DEF Holds, Passed
    <3>2. tx'[u] = tx[u] /\ Writes' = Writes
      BY <1>1, <3>1, SMTT(30), Z3T(30) DEF Alone, Writes
    <3>3. Holds(u) /\ tx[u].pc # "bump"
      BY <2>2, <2>3, <3>2, SMTT(30), Z3T(30) DEF Holds, Passed, SInv, Numbers
    <3>4. Published(u) /\ Chosen(u)
      BY <2>2, <3>3, SMTT(30), Z3T(30) DEF Holds, Passed, Published, Chosen
    <3>5. tx[u].merged \in Nat /\ tx[u].merged >= 1
      BY <3>4, SMTT(30), Z3T(30) DEF MInv, VInv
    <3> QED BY <2>2, <3>2, <3>4, <3>5, SMTT(30), Z3T(30) DEF Published
  <2> QED BY <1>3, <2>2, <2>3, SMTT(30), Z3T(30)
<1>4. CASE ~(w = t /\ tx[t].pc = "begin")
  <2>1. hist[w].aligned /\ tx[w].pc \notin {"idle", "begin"}
    BY <1>1, <1>2, <1>4, ZenonT(30) DEF Alone, Frame, AInv
  <2>2. /\ tx'[w].commit = tx[w].commit /\ tx'[w].version = tx[w].version
        /\ tx'[w].pc \notin {"idle", "begin"}
    BY <1>1, <2>1, ZenonT(30) DEF Alone, Frame, Move
  <2>3. ASSUME NEW u \in Tx, Holds(u)', hist'[u].fresh, tx'[u].slot <= tx[w].commit
        PROVE  Published(u)' /\ tx'[u].merged # 0 /\ tx'[u].merged <= tx[w].version
    <3>1. CASE u # t
      <4>1. tx'[u] = tx[u] /\ hist'[u] = hist[u] /\ Writes' = Writes
        BY <1>1, <3>1, SMTT(30), Z3T(30) DEF Alone, Writes
      <4>2. Holds(u)
        BY <2>3, <4>1, SMTT(30), Z3T(30) DEF Holds, Passed
      <4> QED BY <2>1, <2>3, <4>1, <4>2, SMTT(30), Z3T(30) DEF AInv, Published
    <3>2. CASE u = t /\ tx'[t].pc = "bump"
      <4>1. PlaceSlot(t)
        <5>1. tx[t].pc = "place"
          BY <1>1, <3>2, ZenonT(30) DEF Frame, Move
        <5> QED BY <5>1, SMTT(30), Z3T(30)
                   DEF Step, Commit, BeginVersion, BeginCommit, Get, Walk, Fetch,
                CommitReadOnly, LoadSlot, BumpCommitId, Scan, LoadVersion, Stage, Publish,
                PushKey, AppendLog, Unstage, At
      <4>2. tx'[t].slot = commit_id + 1
        <5>1. /\ tx' = [tx EXCEPT ![t].pc = "bump"]
              /\ hist' = [hist EXCEPT ![t].fresh = (tx[t].slot = commit_id + 1)]
          <6>1. tx' # [tx EXCEPT ![t].pc = "slot"]
            BY <1>1, <3>2 DEF Shape, Fields
          <6> QED BY <4>1, <6>1 DEF PlaceSlot
        <5>2. hist'[t].fresh = (tx[t].slot = commit_id + 1) /\ tx'[t].slot = tx[t].slot
          BY <1>1, <5>1, ZenonT(30) DEF Shape, Fields
        <5> QED BY <2>3, <3>2, <5>2, Zenon
      <4>3. commit_id \in Nat /\ tx[w].commit \in Nat /\ tx[w].commit <= commit_id
        BY DEF SInv, Numbers, SlotAbove
      <4> QED BY <2>3, <3>2, <4>2, <4>3, SMTT(30), Z3T(30)
    <3>3. CASE u = t /\ tx'[t].pc # "bump"
      <4>1. /\ Holds(t) /\ hist[t].fresh /\ tx'[t].slot = tx[t].slot
        BY <1>1, <2>3, <3>3, ZenonT(30) DEF Frame, Move, Holds, Passed, Writes
      <4>2. Published(t) /\ tx[t].merged # 0 /\ tx[t].merged <= tx[w].version
        BY <2>1, <2>3, <3>3, <4>1, ZenonT(30) DEF AInv
      <4>3. Published(t)' /\ tx'[t].merged = tx[t].merged
        BY <1>1, <4>2, ZenonT(30) DEF Frame, Move, Published, Writes
      <4> QED BY <3>3, <4>2, <4>3, SMTT(30), Z3T(30)
    <3> QED BY <3>1, <3>2, <3>3, ZenonT(30)
  <2> QED BY <2>2, <2>3, SMTT(30), Z3T(30)
<1> QED BY <1>3, <1>4

LEMMA InitAligned ==
  ASSUME Slot = Nat, Init PROVE MInv /\ AInv
<1>1. \A t \in Tx : /\ tx[t].pc = "idle" /\ tx[t].merged = 0 /\ tx[t].version = 0
                    /\ hist[t].aligned = FALSE
  BY SMTT(30), Z3T(30) DEF Init
<1>2. VInv /\ timestamp = 0
  BY <1>1, Zenon DEF Init, VInv, Published
<1> QED BY <1>1, <1>2, SMTT(30), Z3T(30) DEF MInv, AInv, Chosen

LEMMA NextAligned ==
  ASSUME SInv, MInv, AInv, [Next]_vars, SInv' PROVE MInv' /\ AInv'
<1>1. CASE UNCHANGED vars \/ (Cleanup /\ UNCHANGED plan)
  <2>1. UNCHANGED <<timestamp, tx, hist, plan>>
    BY <1>1 DEF vars, Cleanup
  <2> QED BY <2>1, ZenonT(30) DEF MInv, VInv, AInv, Chosen, Published, Holds, Passed, Writes
<1>2. ASSUME NEW t \in Tx, Step(t), UNCHANGED plan PROVE MInv' /\ AInv'
  BY <1>2, MInvStep, AInvStep DEF SInv
<1> QED BY <1>1, <1>2, SMTT(30), Z3T(30) DEF Next

\* auto_commit and the two registrations together: of two transactions that
\* pass the scan and overlap, the one in the higher slot has the other's
\* writes in its version snapshot, if it began aligned.  With FirstCommitter,
\* a commit never overwrites what its transaction could not read, but for
\* the beginnings between a slot and its version and for the reused slots.
THEOREM WinnerVisible ==
  ASSUME Slot = Nat PROVE Spec => []WinnerSeen
<1>1. SInv /\ AInv => WinnerSeen
  <2> SUFFICES ASSUME SInv, AInv, NEW t \in Tx, NEW u \in Tx,
                      Passed(t), Passed(u), hist[t].fresh, hist[u].fresh, hist[t].aligned,
                      tx[u].slot < tx[t].slot, Overlap(u, t)
               PROVE  tx[u].merged # 0 /\ tx[u].merged <= tx[t].version
    BY SMTT(30), Z3T(30) DEF WinnerSeen
  <2>1. Holds(u) /\ ~InWindow(u, t)
    BY SMTT(30), Z3T(30) DEF SInv, WindowClean, Holds
  <2>2. tx[u].slot <= tx[t].commit
    BY <2>1 DEF InWindow, SInv, Numbers
  <2> QED BY <2>1, <2>2, SMTT(30), Z3T(30) DEF AInv
<1> QED BY <1>1, InitSInv, NextSInv, InitAligned, NextAligned, PTL DEF Spec
=============================================================================
