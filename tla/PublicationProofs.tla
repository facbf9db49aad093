-------------------------- MODULE PublicationProofs --------------------------
(***************************************************************************)
(* What readers of the commit pipeline see: a published version is visible *)
(* as a whole, and the reads of a quiet transaction are exact, for any     *)
(* number of transactions and keys and any plan.                           *)
(***************************************************************************)
EXTENDS CommitPipelineProofs

-----------------------------------------------------------------------------
(* The merge queue *)

\* Between their insertion into the merge queue and their removal from it.
InQueue(u) == tx[u].pc \in {"publish", "push", "append", "unstage"}

\* The queue holds these transactions, each at its version.
QInv ==
    /\ DOMAIN merge_queue = Nat
    /\ \A n \in Nat : merge_queue[n] # NoTx =>
          merge_queue[n] \in Tx /\ InQueue(merge_queue[n]) /\ tx[merge_queue[n]].merged = n
    /\ \A u \in Tx : InQueue(u) => merge_queue[tx[u].merged] = u

LEMMA QueueKept ==
  ASSUME NEW t \in Tx, Step(t), tx[t].pc \notin {"stage", "unstage"}
  PROVE  merge_queue' = merge_queue
BY Zenon DEF Step, Commit, BeginVersion, BeginCommit, Get, Walk, Fetch, CommitReadOnly,
       LoadSlot, PlaceSlot, BumpCommitId, Scan, LoadVersion, Stage, Publish, PushKey,
       AppendLog, Unstage, At

LEMMA AtStage ==
  ASSUME NEW t \in Tx, Step(t), tx[t].pc = "stage" PROVE Stage(t)
BY DEF Step, Commit, BeginVersion, BeginCommit, Get, Walk, Fetch, CommitReadOnly,
       LoadSlot, PlaceSlot, BumpCommitId, Scan, LoadVersion, Publish, PushKey,
       AppendLog, Unstage, At

LEMMA AtUnstage ==
  ASSUME NEW t \in Tx, Step(t), tx[t].pc = "unstage" PROVE Unstage(t)
BY DEF Step, Commit, BeginVersion, BeginCommit, Get, Walk, Fetch, CommitReadOnly,
       LoadSlot, PlaceSlot, BumpCommitId, Scan, LoadVersion, Stage, Publish, PushKey,
       AppendLog, At

LEMMA QInvSame ==
  ASSUME QInv, merge_queue' = merge_queue,
         \A u \in Tx : (InQueue(u)' <=> InQueue(u)) /\ (InQueue(u) => tx'[u].merged = tx[u].merged)
  PROVE  QInv'
BY Zenon DEF QInv

LEMMA QInvStep ==
  ASSUME Shape, VInv, QInv, NEW t \in Tx, Step(t), UNCHANGED plan, VInv' PROVE QInv'
<1>1. /\ Frame(t) /\ Alone(t)
      /\ \A u \in Tx : tx[u].merged \in Nat /\ tx'[u].merged \in Nat
  BY StepFrame DEF VInv
<1>2. \A u \in Tx : u # t => tx'[u] = tx[u] /\ (InQueue(u)' <=> InQueue(u))
  BY <1>1 DEF Alone, InQueue
<1>3. CASE tx[t].pc \notin {"stage", "unstage"}
  <2>1. merge_queue' = merge_queue
    BY <1>3, QueueKept, SMTT(30), Z3T(30)
  <2>2. (InQueue(t)' <=> InQueue(t)) /\ (InQueue(t) => tx'[t].merged = tx[t].merged)
    BY <1>1, <1>3, ZenonT(30) DEF Frame, Move, InQueue
  <2>3. ASSUME NEW u \in Tx
        PROVE  (InQueue(u)' <=> InQueue(u)) /\ (InQueue(u) => tx'[u].merged = tx[u].merged)
    BY <1>2, <2>2
  <2> QED BY <2>1, <2>3, QInvSame, Zenon
<1>4. CASE tx[t].pc = "stage"
  <2>1. tx'[t].merged = tx[t].merged /\ ~InQueue(t)
    BY <1>1, <1>4, Zenon DEF Frame, Move, InQueue
  <2>2. \/ /\ merge_queue[tx[t].merged] = NoTx
           /\ merge_queue' = [merge_queue EXCEPT ![tx[t].merged] = t]
           /\ tx'[t].pc = "publish"
        \/ merge_queue' = merge_queue /\ tx'[t].pc = "merge"
    BY <1>4, AtStage, SMTT(30), Z3T(30) DEF Stage, Shape, Fields
  <2>3. CASE merge_queue' = merge_queue /\ tx'[t].pc = "merge"
    <3>1. ~InQueue(t)'
      BY <2>3 DEF InQueue
    <3>2. ASSUME NEW u \in Tx
          PROVE  (InQueue(u)' <=> InQueue(u)) /\ (InQueue(u) => tx'[u].merged = tx[u].merged)
      BY <1>2, <2>1, <3>1
    <3> QED BY <2>3, <3>2, QInvSame, Zenon
  <2>4. CASE /\ merge_queue[tx[t].merged] = NoTx
             /\ merge_queue' = [merge_queue EXCEPT ![tx[t].merged] = t]
             /\ tx'[t].pc = "publish"
    <3>1. /\ DOMAIN merge_queue' = Nat /\ merge_queue'[tx[t].merged] = t
          /\ \A n \in Nat : n # tx[t].merged => merge_queue'[n] = merge_queue[n]
      BY <1>1, <2>4 DEF QInv
    <3>2. InQueue(t)'
      BY <2>4 DEF InQueue
    <3>3. ASSUME NEW u \in Tx, InQueue(u), u # t PROVE tx[u].merged # tx[t].merged
      BY <2>4, <3>3, PlanAssumption DEF QInv
    <3>4. ASSUME NEW n \in Nat, merge_queue'[n] # NoTx
          PROVE  /\ merge_queue'[n] \in Tx /\ InQueue(merge_queue[n])'
                 /\ tx'[merge_queue'[n]].merged = n
      <4>1. CASE n = tx[t].merged
        BY <2>1, <3>1, <3>2, <4>1
      <4>2. CASE n # tx[t].merged
        <5>1. /\ merge_queue'[n] = merge_queue[n] /\ merge_queue[n] \in Tx
              /\ InQueue(merge_queue[n]) /\ tx[merge_queue[n]].merged = n
          BY <3>1, <3>4, <4>2 DEF QInv
        <5>2. merge_queue[n] # t
          BY <2>1, <5>1
        <5> QED BY <1>2, <5>1, <5>2, SMTT(30), Z3T(30) DEF InQueue
      <4> QED BY <4>1, <4>2
    <3>5. ASSUME NEW u \in Tx, InQueue(u)' PROVE merge_queue'[tx'[u].merged] = u
      <4>1. CASE u = t
        BY <2>1, <3>1, <4>1, SMTT(30), Z3T(30)
      <4>2. CASE u # t
        <5>1. InQueue(u) /\ tx'[u].merged = tx[u].merged
          BY <1>2, <3>5, <4>2
        <5> QED BY <1>1, <3>1, <3>3, <4>2, <5>1 DEF QInv
      <4> QED BY <4>1, <4>2
    <3> QED BY <3>1, <3>4, <3>5 DEF QInv
  <2> QED BY <2>2, <2>3, <2>4, SMTT(30), Z3T(30)
<1>5. CASE tx[t].pc = "unstage"
  <2>1. merge_queue' = [merge_queue EXCEPT ![tx[t].merged] = NoTx]
    BY <1>5, AtUnstage DEF Unstage
  <2>2. /\ DOMAIN merge_queue' = Nat /\ merge_queue'[tx[t].merged] = NoTx
        /\ \A n \in Nat : n # tx[t].merged => merge_queue'[n] = merge_queue[n]
    BY <1>1, <2>1, SMTT(30), Z3T(30) DEF QInv
  <2>3. InQueue(t) /\ ~InQueue(t)'
    BY <1>1, <1>5, ZenonT(30) DEF Frame, Move, InQueue
  <2>4. ASSUME NEW u \in Tx, InQueue(u), u # t PROVE tx[u].merged # tx[t].merged
    BY <2>3, <2>4 DEF QInv
  <2>5. ASSUME NEW n \in Nat, merge_queue'[n] # NoTx
        PROVE  /\ merge_queue'[n] \in Tx /\ InQueue(merge_queue[n])'
               /\ tx'[merge_queue'[n]].merged = n
    <3>1. /\ n # tx[t].merged /\ merge_queue'[n] = merge_queue[n] /\ merge_queue[n] \in Tx
          /\ InQueue(merge_queue[n]) /\ tx[merge_queue[n]].merged = n
      BY <2>2, <2>5 DEF QInv
    <3>2. merge_queue[n] # t
      BY <3>1, SMTT(30), Z3T(30)
    <3> QED BY <1>2, <3>1, <3>2 DEF InQueue
  <2>6. ASSUME NEW u \in Tx, InQueue(u)' PROVE merge_queue'[tx'[u].merged] = u
    <3>1. u # t
      BY <2>3, <2>6
    <3>2. InQueue(u) /\ tx'[u].merged = tx[u].merged
      BY <1>2, <2>6, <3>1
    <3> QED BY <1>1, <2>2, <2>4, <3>1, <3>2 DEF QInv
  <2> QED BY <2>2, <2>5, <2>6 DEF QInv
<1> QED BY <1>3, <1>4, <1>5

\* Every set of naturals has a least element; proved at the end.
WellOrdered == \A S \in SUBSET Nat : S # {} => \E m \in S : \A k \in S : m <= k

LEMMA MinOfNat ==
  ASSUME WellOrdered, NEW S \in SUBSET Nat, S # {} PROVE MinOf(S) \in S
<1>1. \E x \in S : \A y \in S : x <= y
  BY Zenon DEF WellOrdered
<1> QED BY <1>1, Zenon DEF MinOf

LEMMA MaxOfBounded ==
  ASSUME WellOrdered, NEW S \in SUBSET Nat, S # {}, NEW b \in Nat, \A x \in S : x <= b
  PROVE  MaxOf(S) \in S /\ \A y \in S : MaxOf(S) >= y
<1> DEFINE D == {b - x : x \in S}
<1>1. D \in SUBSET Nat /\ D # {}
  <2>1. \A x \in S : b - x \in Nat
    OBVIOUS
  <2> QED BY <2>1, Zenon
<1>2. PICK d \in D : \A e \in D : d <= e
  <2> HIDE DEF D
  <2> QED BY <1>1, Zenon DEF WellOrdered
<1>3. PICK m \in S : d = b - m
  OBVIOUS
<1>4. \A y \in S : m >= y
  <2>1. ASSUME NEW y \in S PROVE m >= y
    <3>1. b - m <= b - y
      BY <1>2, <1>3, Zenon
    <3> QED BY <3>1
  <2> QED BY <2>1
<1>5. \E x \in S : \A y \in S : x >= y
  BY <1>3, <1>4, Zenon
<1> QED BY <1>5, Zenon DEF MaxOf

\* What a snapshot finds in the merge queue is at least as new as any commit
\* in it that the snapshot includes.
LEMMA QueueVisible ==
  ASSUME Time = Nat, WellOrdered, VInv, QInv PROVE PublishedVisible
<1> SUFFICES ASSUME NEW t \in Tx, NEW v \in Nat, InQueue(t), tx[t].merged <= v,
                    NEW k \in Writes[t]
             PROVE  Found(k, v) # NoTx /\ tx[Found(k, v)].merged >= tx[t].merged
  BY DEF PublishedVisible, InQueue
<1> DEFINE staged == {n \in Time : n <= v /\ merge_queue[n] # NoTx
                                          /\ k \in Writes[merge_queue[n]]}
           m == MaxOf(staged)
<1>1. tx[t].merged \in Nat /\ merge_queue[tx[t].merged] = t
  BY DEF VInv, QInv
<1>2. tx[t].merged \in staged
  BY <1>1, PlanAssumption
<1>3. staged \in SUBSET Nat /\ staged # {} /\ \A n \in staged : n <= v
  BY <1>2
<1>4. m \in staged /\ m >= tx[t].merged
  <2> HIDE DEF staged
  <2> QED BY <1>2, <1>3, MaxOfBounded, Zenon
<1>5. Found(k, v) = merge_queue[m]
  BY <1>3, Zenon DEF Found
<1>6. m \in Nat /\ merge_queue[m] # NoTx
  BY <1>4
<1>7. tx[merge_queue[m]].merged = m
  BY <1>6, Zenon DEF QInv
<1> QED BY <1>4, <1>5, <1>6, <1>7, ZenonT(30)

-----------------------------------------------------------------------------
(* The version chains *)

Chain == {c \in Seq(V!Version) : V!Ascending(c)}

Records(c) == {c[i] : i \in 1..Len(c)}

\* What fetch_version and push do to a chain; proved at the end.
FetchExact ==
    \A c \in Chain, s \in Nat :
        \/ /\ \A r \in Records(c) : ~(r.version <= s)
           /\ V!FetchVersion(c, s) = NoTx
        \/ \E r \in Records(c) :
              /\ r.version <= s /\ V!FetchVersion(c, s) = r.value
              /\ \A q \in Records(c) : q.version <= s => q.version <= r.version

PushExact ==
    \A c \in Chain, v \in V!Version :
        /\ V!Push(c, v) \in Chain
        /\ \/ Records(V!Push(c, v)) = {r \in Records(c) : r.version # v.version} \cup {v}
           \/ V!FetchVersion(c, v.version) = v.value

ChainFacts ==
    /\ FetchExact /\ PushExact
    /\ \A v \in V!Version : V!From(v) \in Chain /\ Records(V!From(v)) = {v}
    /\ <<>> \in Chain /\ Records(<<>>) = {}

\* u's push of k is done.
Pushed(u, k) ==
    /\ k \in Writes[u]
    /\ \/ tx[u].pc \in {"append", "unstage", "committed", "unlogged"}
       \/ tx[u].pc = "push" /\ k \notin tx[u].todo

\* A chain holds the versions of the transactions that pushed the key: each of
\* its records is one's, and each one's version is there, its own value or
\* that of a transaction with the same version.
CInv ==
    /\ plan \in Plans
    /\ \A u \in Tx : tx[u].pc = "push" => tx[u].todo \subseteq Writes[u] /\ tx[u].todo # {}
    /\ DOMAIN store = Key /\ \A k \in Key : store[k] \in Chain
    /\ \A k \in Key : \A r \in Records(store[k]) :
          r.value \in Tx /\ Pushed(r.value, k) /\ tx[r.value].merged = r.version
    /\ \A k \in Key, u \in Tx :
          Pushed(u, k) => \E r \in Records(store[k]) : r.version = tx[u].merged

LEMMA PlanTypes ==
  ASSUME plan \in Plans
  PROVE  /\ \A u \in Tx : Writes[u] \in SUBSET Key /\ Reads[u] \in SUBSET Key
         /\ Key \subseteq Nat
BY PlanAssumption, SMTT(30), Z3T(30) DEF Writes, Reads

LEMMA StoreKept ==
  ASSUME NEW t \in Tx, Step(t), tx[t].pc # "push"
  PROVE  store' = store
BY ZenonT(30) DEF Step, Commit, BeginVersion, BeginCommit, Get, Walk, Fetch, CommitReadOnly,
       LoadSlot, PlaceSlot, BumpCommitId, Scan, LoadVersion, Stage, Publish, PushKey,
       AppendLog, Unstage, At

LEMMA AtPush ==
  ASSUME NEW t \in Tx, Step(t), tx[t].pc = "push" PROVE PushKey(t)
BY DEF Step, Commit, BeginVersion, BeginCommit, Get, Walk, Fetch, CommitReadOnly,
       LoadSlot, PlaceSlot, BumpCommitId, Scan, LoadVersion, Stage, Publish,
       AppendLog, Unstage, At

LEMMA AtPublish ==
  ASSUME Shape, NEW t \in Tx, Step(t), tx[t].pc = "publish"
  PROVE  tx'[t].pc = "push" /\ tx'[t].todo = Writes[t]
<1>1. Publish(t)
  BY DEF Step, Commit, BeginVersion, BeginCommit, Get, Walk, Fetch, CommitReadOnly,
         LoadSlot, PlaceSlot, BumpCommitId, Scan, LoadVersion, Stage, PushKey,
         AppendLog, Unstage, At
<1>2. tx' = [tx EXCEPT ![t].pc = "push", ![t].todo = Writes[t]]
  BY <1>1, Zenon DEF Publish
<1> HIDE DEF Writes
<1> QED BY <1>2, SMTT(30), Z3T(30) DEF Shape, Fields

\* Until the pushes, and after them.
LEMMA CInvOther ==
  ASSUME SInv, CInv, NEW t \in Tx, Step(t), UNCHANGED plan, tx[t].pc # "push"
  PROVE  CInv'
<1>1. Shape /\ Frame(t) /\ Alone(t) /\ store' = store /\ Writes' = Writes
  BY StepFrame, StoreKept, SMTT(30), Z3T(30) DEF SInv, Writes
<1>2. ASSUME NEW k \in Key
      PROVE  /\ Pushed(t, k)' <=> Pushed(t, k)
             /\ Pushed(t, k) => tx'[t].merged = tx[t].merged
  <2>1. CASE tx[t].pc = "publish"
    <3>1. tx'[t].pc = "push" /\ tx'[t].todo = Writes[t]
      BY <1>1, <2>1, AtPublish, SMTT(30), Z3T(30)
    <3> QED BY <1>1, <2>1, <3>1 DEF Pushed
  <2>2. CASE tx[t].pc # "publish"
    BY <1>1, <2>2, ZenonT(30) DEF Pushed, Frame, Move
  <2> QED BY <2>1, <2>2, SMTT(30), Z3T(30)
<1>3. ASSUME NEW u \in Tx, NEW k \in Key
      PROVE  /\ Pushed(u, k)' <=> Pushed(u, k)
             /\ Pushed(u, k) => tx'[u].merged = tx[u].merged
  <2>1. CASE u = t
    BY <1>2, <2>1, SMTT(30), Z3T(30)
  <2>2. CASE u # t
    BY <1>1, <2>2, SMTT(30), Z3T(30) DEF Alone, Pushed
  <2> QED BY <2>1, <2>2, ZenonT(30)
<1>4. ASSUME NEW u \in Tx, tx'[u].pc = "push"
      PROVE  tx'[u].todo \subseteq Writes[u] /\ tx'[u].todo # {}
  <2>1. CASE u = t
    <3>1. tx[t].pc = "publish"
      BY <1>1, <1>4, <2>1, ZenonT(30) DEF Frame, Move
    <3>2. tx'[t].todo = Writes[t]
      BY <1>1, <3>1, AtPublish, SMTT(30), Z3T(30)
    <3> QED BY <2>1, <3>1, <3>2, SMTT(30), Z3T(30) DEF SInv, Writing
  <2>2. CASE u # t
    BY <1>1, <1>4, <2>2, SMTT(30), Z3T(30) DEF Alone, CInv
  <2> QED BY <2>1, <2>2
<1>5. ASSUME NEW k \in Key, NEW r \in Records(store[k])
      PROVE  r.value \in Tx /\ Pushed(r.value, k)' /\ tx'[r.value].merged = r.version
  BY <1>3, ZenonT(30) DEF CInv
<1>6. ASSUME NEW k \in Key, NEW u \in Tx, Pushed(u, k)'
      PROVE  \E r \in Records(store[k]) : r.version = tx'[u].merged
  BY <1>3, <1>6, SMTT(30), Z3T(30) DEF CInv
<1>7. plan' \in Plans /\ DOMAIN store = Key /\ \A k \in Key : store[k] \in Chain
  BY DEF CInv
<1> QED BY <1>1, <1>4, <1>5, <1>6, <1>7 DEF CInv

\* A push puts the version into the chain: its value is new there, so that
\* push does not take it for a repetition.
LEMMA PushedChain ==
  ASSUME ChainFacts, CInv, NEW t \in Tx, NEW k \in Key, tx[t].pc = "push", k \in tx[t].todo,
         NEW new \in V!Version, new.value = t
  PROVE  /\ V!Push(store[k], new) \in Chain
         /\ Records(V!Push(store[k], new))
              = {r \in Records(store[k]) : r.version # new.version} \cup {new}
<1>1. store[k] \in Chain /\ new.version \in Nat
  BY DEF CInv, V!Version
<1>2. V!FetchVersion(store[k], new.version) # t
  <2>1. CASE V!FetchVersion(store[k], new.version) = NoTx
    BY <2>1, PlanAssumption, SMTT(30), Z3T(30)
  <2>2. CASE \E r \in Records(store[k]) : V!FetchVersion(store[k], new.version) = r.value
    <3>1. PICK r \in Records(store[k]) : V!FetchVersion(store[k], new.version) = r.value
      BY <2>2
    <3>2. Pushed(r.value, k)
      BY Zenon DEF CInv
    <3>3. ~Pushed(t, k)
      BY DEF Pushed
    <3> QED BY <3>1, <3>2, <3>3, SMTT(30), Z3T(30)
  <2>3. \/ V!FetchVersion(store[k], new.version) = NoTx
        \/ \E r \in Records(store[k]) : V!FetchVersion(store[k], new.version) = r.value
    <3>1. FetchExact
      BY Zenon DEF ChainFacts
    <3> QED BY <1>1, <3>1 DEF FetchExact
  <2> QED BY <2>1, <2>2, <2>3, SMTT(30), Z3T(30)
<1> QED BY <1>1, <1>2, Zenon DEF ChainFacts, PushExact

LEMMA PushKeyEffect ==
  ASSUME WellOrdered, ChainFacts, Shape, VInv, CInv, NEW t \in Tx, PushKey(t), tx[t].pc = "push"
  PROVE  \E k \in Key :
            /\ k \in tx[t].todo /\ k \in Writes[t]
            /\ DOMAIN store' = Key /\ store'[k] \in Chain
            /\ \A l \in Key : l # k => store'[l] = store[l]
            /\ \E new \in V!Version :
                  /\ new.version = tx[t].merged /\ new.value = t
                  /\ Records(store'[k]) = {r \in Records(store[k]) : r.version # new.version}
                                          \cup {new}
            /\ tx'[t].todo = tx[t].todo \ {k}
            /\ tx'[t].pc = IF tx[t].todo = {k} THEN "append" ELSE "push"
<1> DEFINE k == MinOf(tx[t].todo)
           new == [version |-> tx[t].merged, value |-> t]
<1>1. k \in tx[t].todo /\ k \in Writes[t] /\ k \in Key
  <2>1. /\ tx[t].todo \subseteq Writes[t] /\ tx[t].todo # {}
        /\ Writes[t] \subseteq Key /\ Key \subseteq Nat
    BY PlanTypes DEF CInv
  <2>2. k \in tx[t].todo
    BY <2>1, MinOfNat
  <2> QED BY <2>1, <2>2, SMTT(30), Z3T(30)
<1>2. /\ store' = [store EXCEPT ![k] = IF @ = <<>> THEN V!From(new) ELSE V!Push(@, new)]
      /\ tx' = [tx EXCEPT ![t].todo = @ \ {k},
                          ![t].pc = IF tx[t].todo = {k} THEN "append" ELSE @]
  BY Zenon DEF PushKey
<1>3. new \in V!Version /\ new.version = tx[t].merged /\ new.value = t
  BY SMTT(30), Z3T(30) DEF V!Version, VInv
<1> HIDE DEF k, new
<1>4. DOMAIN store = Key /\ store[k] \in Chain
  BY <1>1, SMTT(30), Z3T(30) DEF CInv
<1>5. /\ V!Push(store[k], new) \in Chain
      /\ Records(V!Push(store[k], new))
           = {r \in Records(store[k]) : r.version # new.version} \cup {new}
  BY <1>1, <1>3, PushedChain, SMTT(30), Z3T(30)
<1>6. /\ V!From(new) \in Chain
      /\ store[k] = <<>> =>
           Records(V!From(new)) = {r \in Records(store[k]) : r.version # new.version} \cup {new}
  <2>1. V!From(new) \in Chain /\ Records(V!From(new)) = {new} /\ Records(<<>>) = {}
    BY <1>3, Zenon DEF ChainFacts
  <2> QED BY <2>1
<1>7. /\ DOMAIN store' = Key /\ \A l \in Key : l # k => store'[l] = store[l]
      /\ store'[k] = IF store[k] = <<>> THEN V!From(new) ELSE V!Push(store[k], new)
  BY <1>1, <1>2, <1>4, SMTT(30), Z3T(30)
<1>8. /\ store'[k] \in Chain
      /\ Records(store'[k]) = {r \in Records(store[k]) : r.version # new.version} \cup {new}
  <2>1. CASE store[k] = <<>>
    BY <1>6, <1>7, <2>1, Zenon
  <2>2. CASE store[k] # <<>>
    BY <1>5, <1>7, <2>2, Zenon
  <2> QED BY <2>1, <2>2
<1>9. /\ tx'[t].todo = tx[t].todo \ {k}
      /\ tx'[t].pc = IF tx[t].todo = {k} THEN "append" ELSE "push"
  BY <1>2, SMTT(30), Z3T(30) DEF Shape, Fields
<1> QED BY <1>1, <1>3, <1>7, <1>8, <1>9, ZenonT(30)

LEMMA CInvPush ==
  ASSUME WellOrdered, ChainFacts, Shape, VInv, CInv, NEW t \in Tx, Step(t), UNCHANGED plan,
         tx[t].pc = "push"
  PROVE  CInv'
<1>1. Frame(t) /\ Alone(t) /\ Writes' = Writes /\ tx'[t].merged = tx[t].merged
  BY StepFrame, Zenon DEF Writes, Frame, Move
<1>2. PICK k \in Key :
            /\ k \in tx[t].todo /\ k \in Writes[t]
            /\ DOMAIN store' = Key /\ store'[k] \in Chain
            /\ \A l \in Key : l # k => store'[l] = store[l]
            /\ \E new \in V!Version :
                  /\ new.version = tx[t].merged /\ new.value = t
                  /\ Records(store'[k]) = {r \in Records(store[k]) : r.version # new.version}
                                          \cup {new}
            /\ tx'[t].todo = tx[t].todo \ {k}
            /\ tx'[t].pc = IF tx[t].todo = {k} THEN "append" ELSE "push"
  BY AtPush, PushKeyEffect, Zenon
<1>3. PICK new \in V!Version :
            /\ new.version = tx[t].merged /\ new.value = t
            /\ Records(store'[k]) = {r \in Records(store[k]) : r.version # new.version} \cup {new}
  BY <1>2, Zenon
<1>4. tx[t].todo \subseteq Writes[t] /\ plan \in Plans
  BY ZenonT(30) DEF CInv
<1>5. \A l \in Key : Pushed(t, l)' <=> Pushed(t, l) \/ l = k
  BY <1>1, <1>2, <1>4, SMTT(30), Z3T(30) DEF Pushed
<1>6. \A u \in Tx : u # t => /\ tx'[u] = tx[u]
                             /\ \A l \in Key : Pushed(u, l)' <=> Pushed(u, l)
  BY <1>1, SMTT(30), Z3T(30) DEF Alone, Pushed
<1>7. \A u \in Tx : tx'[u].merged = tx[u].merged
  BY <1>1, <1>6
<1>8. ASSUME NEW u \in Tx, tx'[u].pc = "push"
      PROVE  tx'[u].todo \subseteq Writes[u] /\ tx'[u].todo # {}
  <2>1. CASE u = t
    BY <1>2, <1>4, <1>8, <2>1, SMTT(30), Z3T(30)
  <2>2. CASE u # t
    BY <1>6, <1>8, <2>2, SMTT(30), Z3T(30) DEF CInv
  <2> QED BY <2>1, <2>2, SMTT(30), Z3T(30)
<1>9. \A l \in Key : store'[l] \in Chain
  BY <1>2, SMTT(30), Z3T(30) DEF CInv
<1>10. ASSUME NEW l \in Key, NEW r \in Records(store'[l])
       PROVE  r.value \in Tx /\ Pushed(r.value, l)' /\ tx'[r.value].merged = r.version
  <2>1. CASE l = k /\ r = new
    BY <1>3, <1>5, <1>7, <2>1, SMTT(30), Z3T(30)
  <2>2. CASE ~(l = k /\ r = new)
    <3>1. r \in Records(store[l])
      BY <1>2, <1>3, <1>10, <2>2, SMTT(30), Z3T(30)
    <3>2. r.value \in Tx /\ Pushed(r.value, l) /\ tx[r.value].merged = r.version
      BY <3>1, Zenon DEF CInv
    <3> QED BY <1>5, <1>6, <1>7, <3>2, SMTT(30), Z3T(30)
  <2> QED BY <2>1, <2>2, SMTT(30), Z3T(30)
<1>11. ASSUME NEW l \in Key, NEW u \in Tx, Pushed(u, l)'
       PROVE  \E r \in Records(store'[l]) : r.version = tx'[u].merged
  <2>1. CASE l = k /\ tx[u].merged = tx[t].merged
    BY <1>3, <1>7, <2>1, SMTT(30), Z3T(30)
  <2>2. CASE ~(l = k /\ tx[u].merged = tx[t].merged)
    <3>1. Pushed(u, l)
      BY <1>5, <1>6, <1>11, <2>2, SMTT(30), Z3T(30)
    <3>2. PICK r \in Records(store[l]) : r.version = tx[u].merged
      BY <3>1, Zenon DEF CInv
    <3>3. r \in Records(store'[l])
      BY <1>2, <1>3, <2>2, <3>2, SMTT(30), Z3T(30)
    <3> QED BY <1>7, <3>2, <3>3, SMTT(30), Z3T(30)
  <2> QED BY <2>1, <2>2, SMTT(30), Z3T(30)
<1> QED BY <1>1, <1>2, <1>4, <1>8, <1>9, <1>10, <1>11, ZenonT(30) DEF CInv

-----------------------------------------------------------------------------
(* A reader that began while no commit was merging *)

\* The writers of k with a version up to v, of which a reader has to find a
\* newest one.
Writers(k, v) == {u \in Tx : Chosen(u) /\ k \in Writes[u] /\ tx[u].merged \in 1..v}

Right(a, k, v) ==
    IF Writers(k, v) = {} THEN a = NoTx
    ELSE a \in Writers(k, v) /\ \A w \in Writers(k, v) : tx[w].merged <= tx[a].merged

\* No commit with a version up to v is still merging.
Settled(v) == \A u \in Tx : Chosen(u) /\ tx[u].merged <= v
                            => tx[u].pc \in {"committed", "unlogged"}

\* Below the snapshot of a quiet reader everything stays settled, and so the
\* answers it was given stay right.
Reader(t) ==
    /\ tx[t].pc \in {"walk", "fetch"} => tx[t].key \in Key
    /\ tx[t].pc = "walk" => tx[t].pos \in Nat /\ tx[t].pos <= tx[t].version + 1
    /\ DOMAIN tx[t].answers = Key
    /\ tx[t].pc = "idle" => ~hist[t].quiet /\ \A k \in Key : tx[t].answers[k] = {}
    /\ \A v \in Nat : hist[t].quiet /\ v = tx[t].version =>
          /\ Settled(v)
          /\ \A k \in Key : \A a \in tx[t].answers[k] : Right(a, k, v)

RInv == \A t \in Tx : Reader(t)

LEMMA WritersKept ==
  ASSUME Shape, MInv, NEW s \in Tx, Step(s), UNCHANGED plan,
         NEW v \in Nat, v <= timestamp, Settled(v)
  PROVE  /\ Settled(v)'
         /\ \A k : Writers(k, v)' = Writers(k, v)
         /\ \A k : \A u \in Writers(k, v) : tx'[u].merged = tx[u].merged
<1>1. Frame(s) /\ Alone(s) /\ Writes' = Writes
  BY StepFrame DEF Writes
<1>2. \A u \in Tx : tx[u].merged \in Nat
  BY DEF MInv, VInv
<1>3. /\ \A u \in Tx : u # s => tx'[u] = tx[u] /\ (Chosen(u)' <=> Chosen(u))
  BY <1>1, SMTT(30), Z3T(30) DEF Alone, Chosen
<1>4. CASE tx'[s].pc = "stage"
  <2>1. tx'[s].merged \in Nat /\ tx'[s].merged > v
    BY <1>4, VersionStep, SMTT(30), Z3T(30) DEF MInv, VInv
  <2>2. ~Chosen(s)
    BY <1>1, <1>4, ZenonT(30) DEF Frame, Move, Chosen
  <2>3. Settled(v)'
    BY <1>2, <1>3, <2>1, SMTT(30), Z3T(30) DEF Settled
  <2>4. \A u \in Tx : u # s =>
           \A k : (Chosen(u)' /\ k \in Writes'[u] /\ tx'[u].merged \in 1..v
                   <=> Chosen(u) /\ k \in Writes[u] /\ tx[u].merged \in 1..v)
    BY <1>1, <1>3, SMTT(30), Z3T(30)
  <2>5. \A k : Writers(k, v)' = Writers(k, v) /\ s \notin Writers(k, v)
    BY <2>1, <2>2, <2>4, SMTT(30), Z3T(30) DEF Writers
  <2> QED BY <1>3, <2>3, <2>5, SMTT(30), Z3T(30) DEF Writers
<1>5. CASE tx'[s].pc # "stage"
  <2>1. \A u \in Tx : tx'[u].merged = tx[u].merged
    BY <1>1, <1>3, <1>5, ZenonT(30) DEF Frame
  <2>2. tx[s].merged <= v => (Chosen(s)' <=> Chosen(s))
    <3>1. CASE tx[s].pc = "stage"
      BY <3>1, <1>1, ZenonT(30) DEF Settled, Frame, Move, Chosen
    <3>2. CASE tx[s].pc # "stage"
      BY <1>1, <1>5, <3>2, ZenonT(30) DEF Frame, Move, Chosen
    <3> QED BY <3>1, <3>2, SMTT(30), Z3T(30)
  <2>3. Settled(v)'
    <3>1. ASSUME NEW u \in Tx, Chosen(u)', tx[u].merged <= v
          PROVE  tx'[u].pc \in {"committed", "unlogged"}
      <4>1. Chosen(u)
        BY <1>3, <2>2, <3>1, SMTT(30), Z3T(30)
      <4>2. tx[u].pc \in {"committed", "unlogged"}
        BY <3>1, <4>1, SMTT(30), Z3T(30) DEF Settled
      <4> QED BY <1>1, <1>3, <4>2, ZenonT(30) DEF Frame, Move
    <3> QED BY <2>1, <3>1, SMTT(30), Z3T(30) DEF Settled
  <2>4. \A u \in Tx : \A k :
           (Chosen(u)' /\ k \in Writes'[u] /\ tx'[u].merged \in 1..v
             <=> Chosen(u) /\ k \in Writes[u] /\ tx[u].merged \in 1..v)
    BY <1>1, <1>2, <1>3, <2>1, <2>2, SMTT(30), Z3T(30)
  <2>5. \A k : Writers(k, v)' = Writers(k, v)
    BY <2>4, SMTT(30), Z3T(30) DEF Writers
  <2> QED BY <2>1, <2>3, <2>5, SMTT(30), Z3T(30) DEF Writers
<1> QED BY <1>4, <1>5

LEMMA RightKept ==
  ASSUME Shape, MInv, NEW s \in Tx, Step(s), UNCHANGED plan,
         NEW v \in Nat, v <= timestamp, Settled(v)
  PROVE  \A a, k : Right(a, k, v) => Right(a, k, v)'
<1>1. /\ \A k : Writers(k, v)' = Writers(k, v)
      /\ \A k : \A u \in Writers(k, v) : tx'[u].merged = tx[u].merged
  BY WritersKept
<1> QED BY <1>1 DEF Right

\* What a quiet reader fetches is right: everything up to its snapshot is in
\* the chain.
LEMMA FetchRight ==
  ASSUME ChainFacts, MInv, CInv, NEW k \in Key, NEW v \in Nat, Settled(v)
  PROVE  Right(V!FetchVersion(store[k], v), k, v)
<1> DEFINE R == Records(store[k])
           a == V!FetchVersion(store[k], v)
<1>1. store[k] \in Chain /\ \A u \in Tx : tx[u].merged \in Nat
  BY DEF CInv, MInv, VInv
<1>2. \A r \in R : r.value \in Tx /\ Pushed(r.value, k) /\ tx[r.value].merged = r.version
  BY Zenon DEF CInv
<1>3. ASSUME NEW r \in R, r.version <= v
      PROVE  r.value \in Writers(k, v)
  <2>1. r.value \in Tx /\ Pushed(r.value, k) /\ tx[r.value].merged = r.version
    BY <1>2
  <2>2. Chosen(r.value) /\ k \in Writes[r.value]
    BY <2>1 DEF Pushed, Chosen
  <2>3. tx[r.value].merged >= 1
    BY <2>1, <2>2, SMTT(30), Z3T(30) DEF MInv
  <2> QED BY <1>1, <1>3, <2>1, <2>2, <2>3, SMTT(30), Z3T(30) DEF Writers
<1>4. ASSUME NEW u \in Writers(k, v)
      PROVE  \E r \in R : r.version = tx[u].merged /\ r.version <= v
  <2>1. u \in Tx /\ Chosen(u) /\ k \in Writes[u] /\ tx[u].merged <= v
    BY <1>1 DEF Writers
  <2>2. Pushed(u, k)
    BY <2>1 DEF Settled, Pushed
  <2>3. \E r \in R : r.version = tx[u].merged
    BY <2>1, <2>2, ZenonT(30) DEF CInv
  <2> QED BY <2>1, <2>3, SMTT(30), Z3T(30)
<1> HIDE DEF R, a
<1>5. \/ /\ \A r \in R : ~(r.version <= v)
         /\ a = NoTx
      \/ \E r \in R :
            /\ r.version <= v /\ a = r.value
            /\ \A q \in R : q.version <= v => q.version <= r.version
  <2>1. FetchExact
    BY Zenon DEF ChainFacts
  <2> QED BY <1>1, <2>1 DEF FetchExact, R, a
<1>6. CASE /\ \A r \in R : ~(r.version <= v)
           /\ a = NoTx
  <2>1. Writers(k, v) = {}
    BY <1>4, <1>6, SMTT(30), Z3T(30)
  <2> QED BY <1>6, <2>1 DEF Right, a
<1>7. CASE \E r \in R : /\ r.version <= v /\ a = r.value
                        /\ \A q \in R : q.version <= v => q.version <= r.version
  <2>1. PICK r \in R : /\ r.version <= v /\ a = r.value
                       /\ \A q \in R : q.version <= v => q.version <= r.version
    BY <1>7, SMTT(30), Z3T(30)
  <2>2. a \in Writers(k, v) /\ tx[a].merged = r.version
    BY <1>2, <1>3, <2>1, SMTT(30), Z3T(30)
  <2>3. \A w \in Writers(k, v) : tx[w].merged <= tx[a].merged
    BY <1>4, <2>1, <2>2, SMTT(30), Z3T(30)
  <2> QED BY <2>2, <2>3, SMTT(30), Z3T(30) DEF Right, a
<1> QED BY <1>5, <1>6, <1>7, SMTT(30), Z3T(30)

\* A reader that a step gives no answer stays as it should be ...
LEMMA ReaderKept ==
  ASSUME Shape, MInv, RInv, NEW s \in Tx, Step(s), UNCHANGED plan, NEW t \in Tx,
         tx'[t].version = tx[t].version, hist'[t].quiet = hist[t].quiet,
         tx'[t].answers = tx[t].answers, tx'[t].pc = "idle" => tx[t].pc = "idle",
         tx'[t].pc \in {"walk", "fetch"} => tx'[t].key \in Key,
         tx'[t].pc = "walk" => tx'[t].pos \in Nat /\ tx'[t].pos <= tx[t].version + 1
  PROVE  Reader(t)'
<1>1. Reader(t)
  BY ZenonT(30) DEF RInv
<1>2. tx[t].version \in Nat /\ tx[t].version <= timestamp
  BY SMTT(30), Z3T(30) DEF MInv
<1>3. ASSUME NEW v \in Nat, hist'[t].quiet, v = tx'[t].version
      PROVE  /\ Settled(v)'
             /\ \A k \in Key : \A a \in tx'[t].answers[k] : Right(a, k, v)'
  <2>1. /\ Settled(v) /\ v <= timestamp
        /\ \A k \in Key : \A a \in tx[t].answers[k] : Right(a, k, v)
    BY <1>1, <1>2, <1>3, SMTT(30), Z3T(30) DEF Reader
  <2>2. Settled(v)'
    BY <2>1, WritersKept, ZenonT(30)
  <2>3. \A a, k : Right(a, k, v) => Right(a, k, v)'
    BY <2>1, RightKept
  <2> QED BY <2>1, <2>2, <2>3, ZenonT(30)
<1> QED BY <1>1, <1>3, ZenonT(30) DEF Reader

LEMMA AtIdle ==
  ASSUME Shape, NEW t \in Tx, Step(t), tx[t].pc = "idle"
  PROVE  /\ tx'[t].pc = "begin" /\ tx'[t].version = timestamp
         /\ tx'[t].answers = tx[t].answers
         /\ hist'[t].quiet = (\A u \in Tx : ~Merging(u))
<1>1. BeginVersion(t)
  BY DEF Step, Commit, BeginCommit, Get, Walk, Fetch, CommitReadOnly, LoadSlot,
         PlaceSlot, BumpCommitId, Scan, LoadVersion, Stage, Publish, PushKey,
         AppendLog, Unstage, At
<1>2. /\ tx' = [tx EXCEPT ![t].pc = "begin", ![t].version = timestamp]
      /\ hist' = [hist EXCEPT ![t].quiet = \A u \in Tx : ~Merging(u)]
  BY <1>1, Zenon DEF BeginVersion
<1> HIDE DEF Merging
<1> QED BY <1>2, SMTT(30), Z3T(30) DEF Shape, Fields

LEMMA AtActive ==
  ASSUME Shape, plan \in Plans, NEW t \in Tx, Step(t), tx[t].pc = "active", tx'[t].pc = "walk"
  PROVE  tx'[t].key \in Key /\ tx'[t].pos = tx[t].version + 1
<1>1. Get(t)
  <2>1. Get(t) \/ CommitReadOnly(t) \/ LoadSlot(t)
    BY DEF Step, Commit, BeginVersion, BeginCommit, Walk, Fetch, PlaceSlot, BumpCommitId,
           Scan, LoadVersion, Stage, Publish, PushKey, AppendLog, Unstage, At
  <2>2. ~CommitReadOnly(t) /\ ~LoadSlot(t)
    BY DEF CommitReadOnly, LoadSlot, Shape, Fields
  <2> QED BY <2>1, <2>2, SMTT(30), Z3T(30)
<1>2. PICK k \in Reads[t] :
         tx' = [tx EXCEPT ![t].pc = "walk", ![t].key = k, ![t].gets = @ + 1,
                          ![t].pos = tx[t].version + 1]
  BY <1>1, ZenonT(30) DEF Get
<1>3. k \in Key
  BY PlanTypes
<1>4. tx'[t].key = k /\ tx'[t].pos = tx[t].version + 1
  BY <1>2, SMTT(30), Z3T(30) DEF Shape, Fields
<1> QED BY <1>3, <1>4, SMTT(30), Z3T(30)

\* The field updates of an answer.
LEMMA Answered ==
  ASSUME Shape, NEW t \in Tx, NEW a, Answer(t, a), DOMAIN tx[t].answers = Key,
         tx[t].key \in Key
  PROVE  /\ tx'[t].pc = "active" /\ tx'[t].version = tx[t].version
         /\ DOMAIN tx'[t].answers = Key
         /\ \A k \in Key : tx'[t].answers[k] \subseteq
                              IF k = tx[t].key THEN tx[t].answers[k] \cup {a}
                              ELSE tx[t].answers[k]
<1>1. PICK r : tx' = [tx EXCEPT ![t].pc = "active",
                        ![t].answers[tx[t].key] = @ \cup {a}, ![t].readset = r]
  BY Zenon DEF Answer
<1> QED BY <1>1 DEF Shape, Fields

\* One step of the walk: it ends without an answer, goes on, or answers.
LEMMA AtWalk ==
  ASSUME Shape, Time = Nat, NEW t \in Tx, Step(t), tx[t].pc = "walk", Reader(t)
  PROVE  \/ /\ tx'[t].pc = "fetch" /\ tx'[t].key = tx[t].key
            /\ tx'[t].answers = tx[t].answers
         \/ \E v \in Nat : /\ v < tx[t].pos /\ merge_queue[v] # NoTx
                           /\ \/ Answer(t, merge_queue[v])
                              \/ /\ tx'[t].pc = "walk" /\ tx'[t].pos = v
                                 /\ tx'[t].key = tx[t].key
                                 /\ tx'[t].answers = tx[t].answers
<1>1. Walk(t)
  BY DEF Step, Commit, BeginVersion, BeginCommit, Get, Fetch, CommitReadOnly, LoadSlot,
         PlaceSlot, BumpCommitId, Scan, LoadVersion, Stage, Publish, PushKey,
         AppendLog, Unstage, At
<1>2. CASE tx' = [tx EXCEPT ![t].pc = "fetch"]
  BY <1>2 DEF Shape, Fields
<1>3. CASE \E v \in Staged(t) : \/ Answer(t, merge_queue[v])
                                \/ tx' = [tx EXCEPT ![t].pos = v]
  <2>1. PICK v \in Staged(t) : \/ Answer(t, merge_queue[v])
                               \/ tx' = [tx EXCEPT ![t].pos = v]
    BY <1>3
  <2>2. v \in Nat /\ v < tx[t].pos /\ merge_queue[v] # NoTx
    BY SMTT(30), Z3T(30) DEF Staged
  <2>3. CASE Answer(t, merge_queue[v])
    BY <2>2, <2>3, ZenonT(30)
  <2>4. CASE tx' = [tx EXCEPT ![t].pos = v]
    <3>1. /\ tx'[t].pc = "walk" /\ tx'[t].pos = v /\ tx'[t].key = tx[t].key
          /\ tx'[t].answers = tx[t].answers
      BY <2>4, SMTT(30), Z3T(30) DEF Shape, Fields
    <3> QED BY <2>2, <3>1, SMTT(30), Z3T(30)
  <2> QED BY <2>1, <2>3, <2>4, SMTT(30), Z3T(30)
<1> QED BY <1>1, <1>2, <1>3, ZenonT(30) DEF Walk

\* ... and one that is given an answer does if the answer is right.
LEMMA ReaderAnswered ==
  ASSUME Shape, MInv, RInv, NEW t \in Tx, Step(t), UNCHANGED plan, tx[t].key \in Key,
         hist'[t].quiet = hist[t].quiet, NEW a, Answer(t, a),
         \A v \in Nat : hist[t].quiet /\ v = tx[t].version => Right(a, tx[t].key, v)
  PROVE  Reader(t)'
<1>1. Reader(t) /\ DOMAIN tx[t].answers = Key
  BY ZenonT(30) DEF RInv, Reader
<1>2. tx[t].version \in Nat /\ tx[t].version <= timestamp
  BY SMTT(30), Z3T(30) DEF MInv
<1>3. /\ tx'[t].pc = "active" /\ tx'[t].version = tx[t].version
      /\ DOMAIN tx'[t].answers = Key
      /\ \A k \in Key : tx'[t].answers[k] \subseteq
                           IF k = tx[t].key THEN tx[t].answers[k] \cup {a}
                           ELSE tx[t].answers[k]
  BY <1>1, Answered, ZenonT(30)
<1>4. ASSUME NEW v \in Nat, hist'[t].quiet, v = tx'[t].version
      PROVE  /\ Settled(v)'
             /\ \A k \in Key : \A b \in tx'[t].answers[k] : Right(b, k, v)'
  <2>1. /\ Settled(v) /\ v <= timestamp /\ Right(a, tx[t].key, v)
        /\ \A k \in Key : \A b \in tx[t].answers[k] : Right(b, k, v)
    BY <1>1, <1>2, <1>3, <1>4, ZenonT(30) DEF Reader
  <2>2. Settled(v)'
    BY <2>1, WritersKept, ZenonT(30)
  <2>3. \A b, k : Right(b, k, v) => Right(b, k, v)'
    BY <2>1, RightKept, SMTT(30), Z3T(30)
  <2>4. ASSUME NEW k \in Key, NEW b \in tx'[t].answers[k]
        PROVE  Right(b, k, v)
    <3>1. b \in tx[t].answers[k] \/ (k = tx[t].key /\ b = a)
      BY <1>3, <2>4, SMTT(30), Z3T(30)
    <3> QED BY <2>1, <3>1, SMTT(30), Z3T(30)
  <2> QED BY <2>2, <2>3, <2>4, ZenonT(30)
<1> QED BY <1>3, <1>4, ZenonT(30) DEF Reader

LEMMA ReaderBegins ==
  ASSUME Shape, MInv, RInv, NEW t \in Tx, Step(t), UNCHANGED plan, tx[t].pc = "idle"
  PROVE  Reader(t)'
<1>1. /\ tx'[t].pc = "begin" /\ tx'[t].version = timestamp
      /\ tx'[t].answers = tx[t].answers
      /\ hist'[t].quiet = (\A u \in Tx : ~Merging(u))
  BY AtIdle, Zenon
<1>2. Alone(t) /\ Writes' = Writes
  BY StepFrame, SMTT(30), Z3T(30) DEF Writes
<1>3. DOMAIN tx[t].answers = Key /\ \A k \in Key : tx[t].answers[k] = {}
  BY DEF RInv, Reader
<1>4. ASSUME NEW v \in Nat, hist'[t].quiet
      PROVE  Settled(v)'
  <2>1. ASSUME NEW u \in Tx, Chosen(u)' PROVE tx'[u].pc \in {"committed", "unlogged"}
    <3>1. u # t
      BY <1>1, <2>1, SMTT(30), Z3T(30) DEF Chosen
    <3>2. Chosen(u) /\ tx'[u] = tx[u]
      BY <1>2, <2>1, <3>1, SMTT(30), Z3T(30) DEF Alone, Chosen
    <3>3. ~Merging(u)
      BY <1>1, <1>4, Zenon
    <3> QED BY <3>2, <3>3 DEF Chosen, Merging
  <2> QED BY <2>1 DEF Settled
<1> QED BY <1>1, <1>3, <1>4, SMTT(30), Z3T(30) DEF Reader

\* Nothing is staged below the snapshot of a quiet reader.
LEMMA NothingStaged ==
  ASSUME SInv, QInv, NEW v \in Nat, Settled(v)
  PROVE  \A n \in Nat : n <= v => merge_queue[n] = NoTx
<1> SUFFICES ASSUME NEW n \in Nat, n <= v, merge_queue[n] # NoTx PROVE FALSE
  OBVIOUS
<1>1. PICK u \in Tx : InQueue(u) /\ tx[u].merged = n
  BY DEF QInv
<1>2. Chosen(u)
  BY <1>1 DEF SInv, Writing, InQueue, Chosen
<1> QED BY <1>1, <1>2 DEF Settled, InQueue

LEMMA ReaderSteps ==
  ASSUME Time = Nat, ChainFacts, SInv, MInv, QInv, CInv, RInv,
         NEW t \in Tx, Step(t), UNCHANGED plan
  PROVE  Reader(t)'
<1>1. Shape /\ Reader(t) /\ tx[t].version \in Nat /\ plan \in Plans
  BY DEF SInv, RInv, MInv, CInv
<1>2. Frame(t)
  BY <1>1, StepFrame, SMTT(30), Z3T(30)
<1>3. CASE tx[t].pc = "idle"
  BY <1>1, <1>3, ReaderBegins, SMTT(30), Z3T(30)
<1>4. CASE tx[t].pc = "walk"
  <2>1. /\ tx[t].key \in Key /\ tx[t].pos \in Nat /\ tx[t].pos <= tx[t].version + 1
        /\ tx'[t].version = tx[t].version /\ hist'[t].quiet = hist[t].quiet
    BY <1>1, <1>2, <1>4, ZenonT(30) DEF Reader, Frame
  <2>2. CASE /\ tx'[t].pc = "fetch" /\ tx'[t].key = tx[t].key
             /\ tx'[t].answers = tx[t].answers
    BY <1>1, <2>1, <2>2, ReaderKept, ZenonT(30)
  <2>3. ASSUME NEW v \in Nat, v < tx[t].pos, merge_queue[v] # NoTx,
               Answer(t, merge_queue[v])
        PROVE  Reader(t)'
    <3>1. ASSUME NEW w \in Nat, hist[t].quiet, w = tx[t].version PROVE FALSE
      <4>1. Settled(w)
        BY <1>1, <3>1, ZenonT(30) DEF Reader
      <4>2. v <= w
        BY <1>1, <2>1, <2>3, <3>1, SMTT(30), Z3T(30)
      <4> QED BY <2>3, <4>1, <4>2, NothingStaged, ZenonT(30)
    <3> QED BY <1>1, <2>1, <2>3, <3>1, ReaderAnswered, ZenonT(30)
  <2>4. ASSUME NEW v \in Nat, v < tx[t].pos, tx'[t].pc = "walk", tx'[t].pos = v,
               tx'[t].key = tx[t].key, tx'[t].answers = tx[t].answers
        PROVE  Reader(t)'
    <3>1. /\ tx'[t].pc = "idle" => tx[t].pc = "idle"
          /\ tx'[t].pc \in {"walk", "fetch"} => tx'[t].key \in Key
          /\ tx'[t].pc = "walk" => tx'[t].pos \in Nat /\ tx'[t].pos <= tx[t].version + 1
      BY <1>1, <2>1, <2>4
    <3> QED BY <1>1, <2>1, <2>4, <3>1, ReaderKept, ZenonT(30)
  <2> QED BY <1>1, <1>4, <2>2, <2>3, <2>4, AtWalk, ZenonT(30)
<1>5. CASE tx[t].pc = "fetch"
  <2>1. /\ tx[t].key \in Key /\ hist'[t].quiet = hist[t].quiet
    BY <1>1, <1>2, <1>5, ZenonT(30) DEF Reader, Frame
  <2>2. Answer(t, V!FetchVersion(store[tx[t].key], tx[t].version))
    BY <1>5, SMTT(30), Z3T(30) DEF Step, Commit, BeginVersion, BeginCommit, Get, Walk, Fetch,
       CommitReadOnly,
                LoadSlot, PlaceSlot, BumpCommitId, Scan, LoadVersion, Stage, Publish,
                PushKey, AppendLog, Unstage, At
  <2>3. ASSUME NEW v \in Nat, hist[t].quiet, v = tx[t].version
        PROVE  Right(V!FetchVersion(store[tx[t].key], tx[t].version), tx[t].key, v)
    <3>1. Settled(v)
      BY <1>1, <2>3, ZenonT(30) DEF Reader
    <3> QED BY <2>1, <2>3, <3>1, FetchRight, ZenonT(30)
  <2> QED BY <1>1, <2>1, <2>2, <2>3, ReaderAnswered, ZenonT(30)
<1>6. CASE tx[t].pc \notin {"idle", "walk", "fetch"}
  <2>1. /\ tx'[t].version = tx[t].version /\ hist'[t].quiet = hist[t].quiet
        /\ tx'[t].answers = tx[t].answers /\ tx'[t].pc \notin {"idle", "fetch"}
        /\ tx'[t].pc = "walk" => tx[t].pc = "active"
    BY <1>2, <1>6, SMTT(30), Z3T(30) DEF Frame, Move
  <2>2. tx'[t].pc = "walk" => tx'[t].key \in Key /\ tx'[t].pos = tx[t].version + 1
    BY <1>1, <2>1, AtActive, SMTT(30), Z3T(30)
  <2>3. /\ tx'[t].pc = "idle" => tx[t].pc = "idle"
        /\ tx'[t].pc \in {"walk", "fetch"} => tx'[t].key \in Key
        /\ tx'[t].pc = "walk" => tx'[t].pos \in Nat /\ tx'[t].pos <= tx[t].version + 1
    BY <1>1, <2>1, <2>2, SMTT(30), Z3T(30)
  <2> QED BY <1>1, <2>1, <2>3, ReaderKept, ZenonT(30)
<1> QED BY <1>3, <1>4, <1>5, <1>6, SMTT(30), Z3T(30)

LEMMA RInvStep ==
  ASSUME Time = Nat, ChainFacts, SInv, MInv, QInv, CInv, RInv,
         NEW t \in Tx, Step(t), UNCHANGED plan
  PROVE  RInv'
<1> SUFFICES ASSUME NEW u \in Tx PROVE Reader(u)'
  BY DEF RInv
<1>1. CASE u = t
  BY <1>1, ReaderSteps, SMTT(30), Z3T(30)
<1>2. CASE u # t
  <2>1. Shape /\ Reader(u) /\ tx'[u] = tx[u] /\ hist'[u] = hist[u]
    BY <1>2, StepFrame, SMTT(30), Z3T(30) DEF SInv, RInv, Alone
  <2>2. /\ tx[u].pc \in {"walk", "fetch"} => tx[u].key \in Key
        /\ tx[u].pc = "walk" => tx[u].pos \in Nat /\ tx[u].pos <= tx[u].version + 1
    BY <2>1, SMTT(30), Z3T(30) DEF Reader
  <2> QED BY <2>1, <2>2, ReaderKept, SMTT(30), Z3T(30)
<1> QED BY <1>1, <1>2

LEMMA ReadersQuiet ==
  ASSUME MInv, RInv PROVE QuietReadsExact
<1> SUFFICES ASSUME NEW t \in Tx, NEW k \in Key, hist[t].quiet, tx[t].answers[k] # {}
             PROVE  LET N == Newest(k, tx[t].version)
                    IN  IF N = {} THEN tx[t].answers[k] = {NoTx}
                        ELSE tx[t].answers[k] \subseteq N
  BY SMTT(30), Z3T(30) DEF QuietReadsExact
<1> DEFINE v == tx[t].version
           A == tx[t].answers[k]
           N == Newest(k, v)
<1>1. \A a \in A : Right(a, k, v)
  BY SMTT(30), Z3T(30) DEF RInv, Reader, MInv
<1>2. N = {u \in Writers(k, v) : \A w \in Writers(k, v) : tx[w].merged <= tx[u].merged}
  BY DEF Newest, Writers, Passed, Chosen, At
<1> HIDE DEF N, A, v
<1>3. CASE Writers(k, v) = {}
  <2>1. N = {} /\ \A a \in A : a = NoTx
    BY <1>1, <1>2, <1>3, SMTT(30), Z3T(30) DEF Right
  <2> QED BY <2>1, SMTT(30), Z3T(30) DEF N, A, v
<1>4. CASE Writers(k, v) # {}
  <2>1. \A a \in A : a \in N
    BY <1>1, <1>2, <1>4 DEF Right
  <2> QED BY <2>1, SMTT(30), Z3T(30) DEF N, A, v
<1> QED BY <1>3, <1>4, SMTT(30), Z3T(30)

-----------------------------------------------------------------------------
(* The queue, the chains and the readers together *)

PInv == MInv /\ QInv /\ CInv /\ RInv

LEMMA InitPInv ==
  ASSUME Slot = Nat, Time = Nat, ChainFacts, Init PROVE PInv
<1>1. \A t \in Tx : /\ tx[t].pc = "idle" /\ tx[t].answers = [k \in Key |-> {}]
                    /\ hist[t].quiet = FALSE
  BY ZenonT(30) DEF Init
<1>2. MInv
  BY InitAligned, SMTT(30), Z3T(30)
<1>3. QInv
  BY <1>1 DEF Init, QInv, InQueue
<1>4. CInv
  <2>1. store = [k \in Key |-> <<>>] /\ plan \in Plans
    BY Zenon DEF Init
  <2>2. <<>> \in Chain /\ Records(<<>>) = {}
    BY Zenon DEF ChainFacts
  <2>3. \A k \in Key : store[k] \in Chain /\ Records(store[k]) = {}
    BY <2>1, <2>2, SMTT(30), Z3T(30)
  <2> QED BY <1>1, <2>1, <2>3, ZenonT(30) DEF CInv, Pushed
<1>5. RInv
  BY <1>1 DEF RInv, Reader
<1> QED BY <1>2, <1>3, <1>4, <1>5, SMTT(30), Z3T(30) DEF PInv

\* Cleanup changes only the commit queue.
LEMMA StillPInv ==
  ASSUME PInv, UNCHANGED <<timestamp, merge_queue, store, tx, hist, plan>> PROVE PInv'
<1>1. MInv'
  BY SMTT(30), Z3T(30) DEF PInv, MInv, VInv, Chosen, Published, Passed, Writes
<1>2. QInv'
  BY SMTT(30), Z3T(30) DEF PInv, QInv, InQueue
<1>3. CInv'
  <2>1. CInv /\ Writes' = Writes /\ store' = store /\ tx' = tx /\ plan' = plan
    BY DEF PInv, Writes
  <2>2. \A u, k : Pushed(u, k)' <=> Pushed(u, k)
    BY <2>1 DEF Pushed
  <2> QED BY <2>1, <2>2, SMTT(30), Z3T(30) DEF CInv
<1>4. RInv'
  <2>1. RInv /\ Writes' = Writes /\ tx' = tx /\ hist' = hist
    BY SMTT(30), Z3T(30) DEF PInv, Writes
  <2>2. \A u : Chosen(u)' <=> Chosen(u)
    BY <2>1, SMTT(30), Z3T(30) DEF Chosen
  <2>3. \A k, v : Writers(k, v)' = Writers(k, v)
    BY <2>1, <2>2, SMTT(30), Z3T(30) DEF Writers
  <2>4. \A v : Settled(v)' <=> Settled(v)
    BY <2>1, <2>2, SMTT(30), Z3T(30) DEF Settled
  <2>5. \A a, k, v : Right(a, k, v)' <=> Right(a, k, v)
    BY <2>1, <2>3, SMTT(30), Z3T(30) DEF Right
  <2> QED BY <2>1, <2>4, <2>5, ZenonT(30) DEF RInv, Reader
<1> QED BY <1>1, <1>2, <1>3, <1>4, SMTT(30), Z3T(30) DEF PInv

LEMMA NextPInv ==
  ASSUME Time = Nat, WellOrdered, ChainFacts, SInv, PInv, [Next]_vars, SInv' PROVE PInv'
<1>1. CASE UNCHANGED vars \/ (Cleanup /\ UNCHANGED plan)
  <2>1. UNCHANGED <<timestamp, merge_queue, store, tx, hist, plan>>
    BY <1>1, Zenon DEF vars, Cleanup
  <2> QED BY <2>1, StillPInv, SMTT(30), Z3T(30)
<1>2. ASSUME NEW t \in Tx, Step(t), UNCHANGED plan PROVE PInv'
  <2>1. Shape /\ VInv /\ MInv /\ QInv /\ CInv /\ RInv
    BY SMTT(30), Z3T(30) DEF SInv, PInv, MInv
  <2>2. MInv' /\ VInv'
    BY <1>2, <2>1, MInvStep, SMTT(30), Z3T(30) DEF MInv
  <2>3. QInv'
    BY <1>2, <2>1, <2>2, QInvStep, SMTT(30), Z3T(30)
  <2>4. CInv'
    <3>1. CASE tx[t].pc = "push"
      BY <1>2, <2>1, <3>1, CInvPush, SMTT(30), Z3T(30)
    <3>2. CASE tx[t].pc # "push"
      BY <1>2, <2>1, <3>2, CInvOther, SMTT(30), Z3T(30)
    <3> QED BY <3>1, <3>2, SMTT(30), Z3T(30)
  <2>5. RInv'
    BY <1>2, <2>1, RInvStep, SMTT(30), Z3T(30)
  <2> QED BY <2>2, <2>3, <2>4, <2>5, SMTT(30), Z3T(30) DEF PInv
<1> QED BY <1>1, <1>2, SMTT(30), Z3T(30) DEF Next

-----------------------------------------------------------------------------
(* What the version chains do, from module VersionsProofs *)

VP == INSTANCE VersionsProofs WITH Value <- Tx, None <- NoTx

F == INSTANCE FiniteSetTheorems

\* A set of naturals has a least element: among its initial segments one is
\* minimal, since the proper subset order on finite sets is well founded.
LEMMA LeastNat ==
  ASSUME NEW S \in SUBSET Nat, S # {}
  PROVE  \E m \in S : \A k \in S : m <= k
<1> DEFINE Family == {0..k : k \in S}
<1>1. Family \subseteq F!FiniteSubsetsOf(Nat) /\ Family # {}
  <2>1. ASSUME NEW k \in S PROVE 0..k \in SUBSET Nat /\ F!IsFiniteSet(0..k)
    BY F!FS_Interval, SMTT(30), Z3T(30)
  <2> QED BY <2>1, ZenonT(30) DEF F!FiniteSubsetsOf
<1>2. PICK x \in Family : \A y \in Family : ~(<<y, x>> \in F!StrictSubsetOrdering(Nat))
  <2> HIDE DEF Family
  <2> QED BY <1>1, F!WFMin, F!FS_StrictSubsetOrderingWellFounded, SMTT(30), Z3T(30)
<1>3. PICK m \in S : x = 0..m
  OBVIOUS
<1>4. ASSUME NEW k \in S, k < m PROVE FALSE
  <2>1. <<0..k, 0..m>> \in F!StrictSubsetOrdering(Nat)
    BY <1>4, SMTT(30), Z3T(30) DEF F!StrictSubsetOrdering
  <2> QED BY <2>1, <1>2, <1>3, ZenonT(30)
<1> QED BY <1>4, SMTT(30), Z3T(30)

LEMMA SameChains ==
  ASSUME NEW c, NEW v, NEW s
  PROVE  /\ V!Push(c, v) = VP!Push(c, v)
         /\ V!FetchVersion(c, s) = VP!FetchVersion(c, s)
<1>1. \A S : V!Cardinality(S) = VP!Cardinality(S)
  BY DEF V!Cardinality, VP!Cardinality
<1>2. \A x : V!FindIndexLte(c, x) = VP!FindIndexLte(c, x)
  BY <1>1, ZenonT(30) DEF V!FindIndexLte, VP!FindIndexLte
<1>3. V!FetchVersion(c, s) = VP!FetchVersion(c, s)
  BY <1>2, SMTT(30), Z3T(30) DEF V!FetchVersion, VP!FetchVersion
<1>4. \A i : V!InsertAt(c, i, v) = VP!InsertAt(c, i, v)
  BY ZenonT(30) DEF V!InsertAt, VP!InsertAt
<1>5. V!InsertOrUpdate(c, v) = VP!InsertOrUpdate(c, v)
  <2>1. /\ V!FindIndexLte(c, v.version) = VP!FindIndexLte(c, v.version)
        /\ V!InsertAt(c, 1, v) = VP!InsertAt(c, 1, v)
        /\ V!InsertAt(c, VP!FindIndexLte(c, v.version) + 1, v)
             = VP!InsertAt(c, VP!FindIndexLte(c, v.version) + 1, v)
    BY <1>2, <1>4, ZenonT(30)
  <2> QED BY <2>1, SMTT(30), Z3T(30) DEF V!InsertOrUpdate, VP!InsertOrUpdate
<1> QED BY <1>3, <1>5, SMTT(30), Z3T(30) DEF V!Push, VP!Push

LEMMA Naturals == WellOrdered
<1> SUFFICES ASSUME NEW S \in SUBSET Nat, S # {} PROVE \E m \in S : \A k \in S : m <= k
  BY DEF WellOrdered
<1> QED BY LeastNat, SMTT(30), Z3T(30)

LEMMA Counted == VP!Counting
<1>1. \A S \in SUBSET Nat : S # {} => \E m \in S : \A k \in S : m <= k
  BY LeastNat, ZenonT(30)
<1>2. \A n \in Nat : VP!Cardinality(1..n) = n
  <2>1. \A S : F!Cardinality(S) = VP!Cardinality(S)
    BY SMTT(30), Z3T(30) DEF F!Cardinality, VP!Cardinality
  <2>2. \A n \in Nat : F!Cardinality(1..n) = n
    BY F!FS_Interval, SMTT(30), Z3T(30)
  <2> QED BY <2>1, <2>2, ZenonT(30)
<1> QED BY <1>1, <1>2, ZenonT(30) DEF VP!Counting

LEMMA ChainsExact == ChainFacts
<1>1. VP!Chain = Chain /\ \A c : VP!Records(c) = Records(c)
  BY ZenonT(30) DEF Chain, Records, VP!Chain, VP!Records, V!Version, VP!Version, V!Ascending,
               VP!Ascending
<1>2. FetchExact
  <2> SUFFICES ASSUME NEW c \in Chain, NEW s \in Nat
               PROVE  \/ /\ \A r \in Records(c) : ~(r.version <= s)
                         /\ V!FetchVersion(c, s) = NoTx
                      \/ \E r \in Records(c) :
                            /\ r.version <= s /\ V!FetchVersion(c, s) = r.value
                            /\ \A q \in Records(c) : q.version <= s => q.version <= r.version
    BY SMTT(30), Z3T(30) DEF FetchExact
  <2> DEFINE i == VP!FindIndexLte(c, s)
  <2>1. V!FetchVersion(c, s) = VP!FetchVersion(c, s)
    BY SameChains, SMTT(30), Z3T(30)
  <2>2. \/ /\ \A r \in VP!Records(c) : ~(r.version <= s)
           /\ VP!FetchVersion(c, s) = NoTx
        \/ /\ i \in 1..Len(c)
           /\ VP!NewestAt(VP!Records(c), c[i], s)
           /\ VP!FetchVersion(c, s) = c[i].value
    BY <1>1, VP!FetchCases, Counted, PlanAssumption, ZenonT(30)
  <2> HIDE DEF i
  <2>3. CASE /\ \A r \in VP!Records(c) : ~(r.version <= s)
             /\ VP!FetchVersion(c, s) = NoTx
    BY <1>1, <2>1, <2>3, SMTT(30), Z3T(30)
  <2>4. CASE /\ i \in 1..Len(c)
             /\ VP!NewestAt(VP!Records(c), c[i], s)
             /\ VP!FetchVersion(c, s) = c[i].value
    <3>1. /\ c[i] \in Records(c) /\ c[i].version <= s
          /\ \A q \in Records(c) : q.version <= s => q.version <= c[i].version
      BY <1>1, <2>4, ZenonT(30) DEF VP!NewestAt
    <3> QED BY <2>1, <2>4, <3>1, SMTT(30), Z3T(30)
  <2> QED BY <2>2, <2>3, <2>4, SMTT(30), Z3T(30)
<1>3. PushExact
  <2> SUFFICES ASSUME NEW c \in Chain, NEW v \in V!Version
               PROVE  /\ V!Push(c, v) \in Chain
                      /\ \/ Records(V!Push(c, v))
                              = {r \in Records(c) : r.version # v.version} \cup {v}
                         \/ V!FetchVersion(c, v.version) = v.value
    BY SMTT(30), Z3T(30) DEF PushExact
  <2>1. /\ V!Push(c, v) = VP!Push(c, v)
        /\ V!FetchVersion(c, v.version) = VP!FetchVersion(c, v.version)
    BY SameChains, SMTT(30), Z3T(30)
  <2>2. v \in VP!Version /\ c \in VP!Chain
    BY <1>1, ZenonT(30) DEF V!Version, VP!Version
  <2>3. /\ VP!Push(c, v) \in VP!Chain
        /\ \/ VP!FetchVersion(c, v.version) = v.value
           \/ VP!Records(VP!Push(c, v))
                = {r \in VP!Records(c) : r.version # v.version} \cup {v}
    BY <2>2, VP!PushEffect, Counted, PlanAssumption, ZenonT(30)
  <2> QED BY <1>1, <2>1, <2>3, SMTT(30), Z3T(30)
<1>4. \A v \in V!Version : V!From(v) \in Chain /\ Records(V!From(v)) = {v}
  BY DEF V!From, V!Ascending, Chain, Records
<1>5. <<>> \in Chain /\ Records(<<>>) = {}
  BY SMTT(30), Z3T(30) DEF V!Ascending, Chain, Records
<1> QED BY <1>2, <1>3, <1>4, <1>5, SMTT(30), Z3T(30) DEF ChainFacts

\* atomic_merge and commit's loop over the write set: from the publication of
\* a version to the removal of its entry, a snapshot that includes the version
\* finds every one of its writes or a newer one, in the merge queue or in the
\* chain, although the pushes are made key by key.
THEOREM PublicationAtomic ==
  ASSUME Slot = Nat, Time = Nat PROVE Spec => []PublishedVisible
<1>1. WellOrdered /\ ChainFacts
  BY Naturals, ChainsExact, SMTT(30), Z3T(30)
<1>2. Init => SInv /\ PInv
  BY <1>1, InitSInv, InitPInv, SMTT(30), Z3T(30)
<1>3. SInv /\ PInv /\ [Next]_vars => SInv' /\ PInv'
  BY <1>1, NextSInv, NextPInv, SMTT(30), Z3T(30)
<1>4. PInv => PublishedVisible
  BY <1>1, QueueVisible, SMTT(30), Z3T(30) DEF PInv, MInv
<1> QED BY <1>2, <1>3, <1>4, PTL DEF Spec

\* TransactionInner::new and fetch_in_datastore: a transaction that began while
\* no commit was between the choice of its version and its end reads, each
\* time it asks, the newest write of the key below its snapshot, whatever is
\* staged, pushed and removed while it walks.
THEOREM QuietReadersExact ==
  ASSUME Slot = Nat, Time = Nat PROVE Spec => []QuietReadsExact
<1>1. WellOrdered /\ ChainFacts
  BY Naturals, ChainsExact
<1>2. Init => SInv /\ PInv
  BY <1>1, InitSInv, InitPInv
<1>3. SInv /\ PInv /\ [Next]_vars => SInv' /\ PInv'
  BY <1>1, NextSInv, NextPInv
<1>4. PInv => QuietReadsExact
  BY ReadersQuiet, SMTT(30), Z3T(30) DEF PInv
<1> QED BY <1>2, <1>3, <1>4, PTL DEF Spec
=============================================================================
