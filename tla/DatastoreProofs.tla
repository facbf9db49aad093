--------------------------- MODULE DatastoreProofs --------------------------
(***************************************************************************)
(* Proofs about the datastore: for any transactions, collectors, nodes,    *)
(* versions and values.                                                    *)
(***************************************************************************)
EXTENDS Datastore, VersionsProofs

-----------------------------------------------------------------------------
(* Lemmas about the reference: the latest of the pushes *)

\* Two pushes of one version carry one value.
Unique(l) ==
    \A q, r \in Records(l) : q.version = r.version => q.value = r.value

LEMMA PushTypes ==
  ASSUME NEW l \in Seq(Version)
  PROVE  \A r \in Records(l) : r \in Version /\ r.version \in Nat /\ r.value \in Option
<1>1. \A i \in 1..Len(l) : l[i] \in Version
  BY SeqElement
<1>2. \A r \in Version : r.version \in Nat /\ r.value \in Option
  BY DEF Version, Option
<1> QED BY <1>1, <1>2 DEF Records

\* Latest finds a push with the greatest version at or below s, if any.
LEMMA LatestCases ==
  ASSUME Counting, NEW l \in Seq(Version), NEW s \in Nat
  PROVE  \/ /\ \A r \in Records(l) : ~(r.version <= s)
            /\ Latest(l, s) = None
         \/ \E r \in Records(l) : NewestAt(Records(l), r, s) /\ Latest(l, s) = r.value
<1> DEFINE n == Len(l)
           visible == {i \in 1..n : l[i].version <= s}
           newest == {i \in visible : \A j \in visible :
                        \/ l[j].version < l[i].version
                        \/ l[j].version = l[i].version /\ j <= i}
<1>0. n \in Nat /\ \A i \in 1..n : l[i].version \in Nat
  BY PushTypes DEF Records
<1>1. CASE visible = {}
  <2>1. Latest(l, s) = None
    BY <1>1 DEF Latest
  <2> QED BY <1>1, <2>1 DEF Records
<1>2. CASE visible # {}
  <2>1. PICK a \in visible : \A j \in visible : l[j].version <= l[a].version
    <3> DEFINE Gap == {s - l[i].version : i \in visible}
    <3>1. Gap \in SUBSET Nat /\ Gap # {}
      <4>1. \A i \in visible : s - l[i].version \in Nat
        BY <1>0
      <4> QED BY <1>2, <4>1, Zenon
    <3>2. PICK g \in Gap : \A h \in Gap : g <= h
      BY <3>1, Zenon DEF Counting
    <3>3. PICK a \in visible : g = s - l[a].version
      BY <3>2
    <3>4. \A j \in visible : s - l[a].version <= s - l[j].version
      BY <3>2, <3>3
    <3>5. \A j \in visible : l[j].version <= l[a].version
      BY <1>0, <3>4
    <3> QED BY <3>5
  <2>2. PICK b \in visible : /\ l[b].version = l[a].version
                             /\ \A j \in visible : l[j].version = l[a].version => j <= b
    <3> DEFINE Same == {i \in visible : l[i].version = l[a].version}
               Gap == {n - i : i \in Same}
    <3>1. Gap \in SUBSET Nat /\ Gap # {}
      BY <1>0, <2>1
    <3>2. PICK g \in Gap : \A h \in Gap : g <= h
      BY <3>1, Zenon DEF Counting
    <3>3. PICK b \in Same : g = n - b
      BY <3>2
    <3>4. \A j \in Same : n - b <= n - j
      BY <3>2, <3>3
    <3>5. \A j \in Same : j <= b
      BY <1>0, <3>4
    <3> QED BY <3>3, <3>5, SMTT(30), Z3T(30)
  <2>3. b \in newest
    BY <1>0, <2>1, <2>2
  <2> DEFINE c == CHOOSE i \in newest : TRUE
  <2>4. c \in newest
    BY <2>3, Zenon
  <2>5. Latest(l, s) = l[c].value
    BY <1>2 DEF Latest
  <2> HIDE DEF c
  <2>6. NewestAt(Records(l), l[c], s)
    BY <1>0, <2>4, SMTT(30), Z3T(30) DEF NewestAt, Records
  <2> QED BY <2>5, <2>6 DEF NewestAt
<1> QED BY <1>1, <1>2

LEMMA LatestNewest ==
  ASSUME Counting, NEW l \in Seq(Version), NEW s \in Nat, Unique(l),
         NEW r, NewestAt(Records(l), r, s)
  PROVE  Latest(l, s) = r.value
<1>1. PICK q \in Records(l) : NewestAt(Records(l), q, s) /\ Latest(l, s) = q.value
  BY LatestCases DEF NewestAt
<1>2. q.version = r.version
  BY <1>1, PushTypes DEF NewestAt
<1> QED BY <1>1, <1>2 DEF Unique, NewestAt

LEMMA LatestNothing ==
  ASSUME Counting, NEW l \in Seq(Version), NEW s \in Nat, \A r \in Records(l) : ~(r.version <= s)
  PROVE  Latest(l, s) = None
BY LatestCases DEF NewestAt

LEMMA RecordsAppend ==
  ASSUME NEW l \in Seq(Version), NEW v \in Version
  PROVE  /\ Append(l, v) \in Seq(Version)
         /\ Len(Append(l, v)) = Len(l) + 1
         /\ Append(l, v)[Len(l) + 1] = v
         /\ \A i \in 1..Len(l) : Append(l, v)[i] = l[i]
         /\ Records(Append(l, v)) = Records(l) \cup {v}
<1> DEFINE m == Append(l, v)
<1>1. /\ m \in Seq(Version) /\ Len(m) = Len(l) + 1 /\ m[Len(l) + 1] = v
      /\ \A i \in 1..Len(l) : m[i] = l[i]
  OBVIOUS
<1>2. Len(l) \in Nat
  OBVIOUS
<1> HIDE DEF m
<1>3. ASSUME NEW i \in 1..Len(m) PROVE m[i] \in Records(l) \cup {v}
  BY <1>1, <1>2 DEF Records
<1>4. ASSUME NEW i \in 1..Len(l) PROVE l[i] \in Records(m)
  <2>1. i \in 1..Len(m) /\ m[i] = l[i]
    BY <1>1, <1>2
  <2> QED BY <2>1 DEF Records
<1>5. v \in Records(m)
  <2>1. Len(l) + 1 \in 1..Len(m)
    BY <1>1, <1>2
  <2> QED BY <1>1, <2>1 DEF Records
<1>6. Records(m) = Records(l) \cup {v}
  BY <1>3, <1>4, <1>5 DEF Records
<1> QED BY <1>1, <1>6 DEF m
\* A push that keeps the pushes benign: a repetition, the newest version so
\* far, or one more of pairwise distinct live values.
Tame(l, v) ==
    \/ v \in Records(l)
    \/ \A r \in Records(l) : r.version < v.version
    \/ /\ v.value # None
       /\ \A r \in Records(l) : /\ r.value # None /\ r.value # v.value
                                /\ r.version # v.version
       /\ \A q, r \in Records(l) : q.value = r.value => q.version = r.version

\* A tame push keeps a chain exact: where reads at s and at the version pushed
\* agreed with the reference, the read at s still does.
LEMMA PushExact ==
  ASSUME Counting, NEW c \in Chain, NEW l \in Seq(Version), NEW v \in Version, NEW s \in Nat,
         Records(c) \subseteq Records(l),
         Tame(l, v), Unique(Append(l, v)),
         FetchVersion(c, s) = Latest(l, s),
         v.version <= s => FetchVersion(c, v.version) = Latest(l, v.version)
  PROVE  FetchVersion(Push(c, v), s) = Latest(Append(l, v), s)
<1> DEFINE d == Push(c, v)
           m == Append(l, v)
<1>1. m \in Seq(Version) /\ Records(m) = Records(l) \cup {v}
  BY RecordsAppend
<1>2. /\ d \in Chain
      /\ \/ d = c /\ FetchVersion(c, v.version) = v.value
         \/ Records(d) = {r \in Records(c) : r.version # v.version} \cup {v}
  BY PushEffect
<1>3. v.version \in Nat /\ v.value \in Option
  BY DEF Version, Option
<1>4. \A r \in Records(l) : r \in Version /\ r.version \in Nat /\ r.value \in Option
  BY PushTypes
<1>5. Unique(m) /\ Unique(l)
  BY <1>1 DEF Unique
<1> SUFFICES FetchVersion(d, s) = Latest(m, s)
  OBVIOUS
<1> HIDE DEF d, m
<1>6. \/ /\ \A r \in Records(c) : ~(r.version <= s)
         /\ FetchVersion(c, s) = None
      \/ \E r \in Records(c) : NewestAt(Records(c), r, s) /\ FetchVersion(c, s) = r.value
  BY FetchCases DEF NewestAt
<1>7. \/ /\ \A r \in Records(l) : ~(r.version <= s)
         /\ Latest(l, s) = None
      \/ \E r \in Records(l) : NewestAt(Records(l), r, s) /\ Latest(l, s) = r.value
  BY LatestCases
<1>8. CASE ~(v.version <= s)
  <2>1. Latest(m, s) = Latest(l, s)
    <3>1. \A r \in Records(l) : NewestAt(Records(l), r, s) => NewestAt(Records(m), r, s)
      BY <1>1, <1>8 DEF NewestAt
    <3>2. (\A r \in Records(l) : ~(r.version <= s)) => \A r \in Records(m) : ~(r.version <= s)
      BY <1>1, <1>8
    <3> QED BY <1>1, <1>5, <1>7, <3>1, <3>2, LatestNewest, LatestNothing, Zenon DEF m
  <2>2. FetchVersion(d, s) = FetchVersion(c, s)
    <3>1. CASE d = c
      BY <3>1
    <3>2. CASE Records(d) = {r \in Records(c) : r.version # v.version} \cup {v}
      <4>1. \A r \in Records(c) : NewestAt(Records(c), r, s) => NewestAt(Records(d), r, s)
        BY <1>8, <3>2 DEF NewestAt
      <4>2. (\A r \in Records(c) : ~(r.version <= s)) => \A r \in Records(d) : ~(r.version <= s)
        BY <1>8, <3>2
      <4> QED BY <1>2, <1>6, <4>1, <4>2, FetchNewest, FetchNothing
    <3> QED BY <1>2, <3>1, <3>2
  <2> QED BY <2>1, <2>2
<1>9. CASE v.version <= s /\ v \in Records(l)
  <2>1. Records(m) = Records(l)
    BY <1>1, <1>9
  <2>2. Latest(m, s) = Latest(l, s)
    BY <1>1, <1>5, <1>7, <2>1, LatestNewest, LatestNothing, Zenon DEF m
  <2>3. FetchVersion(c, v.version) = v.value
    <3>1. NewestAt(Records(l), v, v.version)
      BY <1>3, <1>4, <1>9 DEF NewestAt
    <3> QED BY <1>3, <1>5, <1>9, <3>1, LatestNewest
  <2>4. ASSUME Records(d) = {r \in Records(c) : r.version # v.version} \cup {v}
        PROVE  FetchVersion(d, s) = FetchVersion(c, s)
    <3>1. \/ /\ \A r \in Records(c) : ~(r.version <= v.version)
             /\ v.value = None
          \/ \E r \in Records(c) : NewestAt(Records(c), r, v.version) /\ v.value = r.value
      BY <1>3, <2>3, FetchCases DEF NewestAt
    <3>2. CASE \E q \in Records(c) : q.version <= s /\ v.version < q.version
      <4>1. PICK r \in Records(c) : NewestAt(Records(c), r, s) /\ FetchVersion(c, s) = r.value
        BY <1>6, <3>2
      <4>2. v.version < r.version
        BY <1>3, <1>4, <3>2, <4>1 DEF NewestAt
      <4>3. NewestAt(Records(d), r, s)
        BY <1>3, <1>4, <2>4, <4>1, <4>2, SMTT(30), Z3T(30) DEF NewestAt
      <4> QED BY <1>2, <4>1, <4>3, FetchNewest
    <3>3. CASE ~ \E q \in Records(c) : q.version <= s /\ v.version < q.version
      <4>1. NewestAt(Records(d), v, s)
        BY <1>3, <1>4, <1>9, <2>4, <3>3 DEF NewestAt
      <4>2. FetchVersion(d, s) = v.value
        BY <1>2, <4>1, FetchNewest
      <4>3. CASE \A r \in Records(c) : ~(r.version <= v.version)
        <5>1. \A r \in Records(c) : ~(r.version <= s)
          BY <1>3, <1>4, <3>3, <4>3
        <5>2. v.value = None
          BY <3>1, <4>3 DEF NewestAt
        <5> QED BY <4>2, <5>1, <5>2, FetchNothing
      <4>4. CASE \E r \in Records(c) : NewestAt(Records(c), r, v.version) /\ v.value = r.value
        <5>1. PICK r \in Records(c) : NewestAt(Records(c), r, v.version) /\ v.value = r.value
          BY <4>4
        <5>2. NewestAt(Records(c), r, s)
          BY <1>3, <1>4, <1>9, <3>3, <5>1 DEF NewestAt
        <5> QED BY <4>2, <5>1, <5>2, FetchNewest
      <4> QED BY <3>1, <4>3, <4>4
    <3> QED BY <3>2, <3>3
  <2> QED BY <1>2, <2>2, <2>4
<1>10. CASE v.version <= s /\ v \notin Records(l) /\ \A r \in Records(l) : r.version < v.version
  <2>1. NewestAt(Records(m), v, s)
    BY <1>1, <1>3, <1>4, <1>10 DEF NewestAt
  <2>2. Latest(m, s) = v.value
    BY <1>1, <1>5, <2>1, LatestNewest, Zenon DEF m
  <2>3. CASE Records(d) = {r \in Records(c) : r.version # v.version} \cup {v}
    <3>1. NewestAt(Records(d), v, s)
      BY <1>3, <1>4, <1>10, <2>3 DEF NewestAt
    <3> QED BY <1>2, <2>2, <3>1, FetchNewest
  <2>4. CASE d = c /\ FetchVersion(c, v.version) = v.value
    <3>1. \A r \in Records(c) : r.version <= s /\ r.version <= v.version
      BY <1>3, <1>4, <1>10
    <3>2. FetchVersion(c, s) = FetchVersion(c, v.version)
      <4>1. CASE Records(c) = {}
        BY <1>3, <4>1, FetchNothing
      <4>2. CASE Records(c) # {}
        <5>1. PICK r \in Records(c) : NewestAt(Records(c), r, s) /\ FetchVersion(c, s) = r.value
          BY <1>6, <3>1, <4>2
        <5>2. NewestAt(Records(c), r, v.version)
          BY <3>1, <5>1 DEF NewestAt
        <5> QED BY <1>3, <5>1, <5>2, FetchNewest
      <4> QED BY <4>1, <4>2
    <3> QED BY <2>2, <2>4, <3>2
  <2> QED BY <1>2, <2>3, <2>4
<1>11. CASE /\ v.version <= s /\ v \notin Records(l)
            /\ v.value # None
            /\ \A r \in Records(l) : /\ r.value # None /\ r.value # v.value
                                     /\ r.version # v.version
            /\ \A q, r \in Records(l) : q.value = r.value => q.version = r.version
  <2>1. Records(d) = Records(c) \cup {v}
    <3>1. FetchVersion(c, v.version) # v.value
      <4>1. \/ FetchVersion(c, v.version) = None
            \/ \E r \in Records(c) : FetchVersion(c, v.version) = r.value
        BY <1>3, FetchCases DEF NewestAt
      <4> QED BY <1>11, <4>1
    <3> QED BY <1>2, <1>11, <3>1
  <2>2. CASE \A r \in Records(l) : ~(r.version <= s)
    <3>1. NewestAt(Records(m), v, s) /\ NewestAt(Records(d), v, s)
      BY <1>1, <1>3, <1>11, <2>1, <2>2 DEF NewestAt
    <3>2. Latest(m, s) = v.value
      BY <1>1, <1>5, <3>1, LatestNewest, Zenon
    <3>3. FetchVersion(d, s) = v.value
      BY <1>2, <3>1, FetchNewest
    <3> QED BY <3>2, <3>3
  <2>3. CASE ~ \A r \in Records(l) : ~(r.version <= s)
    <3>1. PICK q \in Records(l) : NewestAt(Records(l), q, s) /\ Latest(l, s) = q.value
      BY <1>7, <2>3
    <3>2. PICK r \in Records(c) : NewestAt(Records(c), r, s) /\ FetchVersion(c, s) = r.value
      BY <1>6, <1>11, <3>1
    <3>3. r \in Records(l) /\ q.value = r.value /\ q.version = r.version
      BY <1>11, <3>1, <3>2
    <3>4. CASE v.version < r.version
      <4>1. NewestAt(Records(m), q, s) /\ NewestAt(Records(d), r, s)
        BY <1>1, <1>3, <1>4, <1>11, <2>1, <3>1, <3>2, <3>3, <3>4, SMTT(30), Z3T(30) DEF NewestAt
      <4>2. Latest(m, s) = q.value
        BY <1>1, <1>5, <4>1, LatestNewest, ZenonT(30)
      <4>3. FetchVersion(d, s) = r.value
        BY <1>2, <4>1, FetchNewest
      <4> QED BY <3>3, <4>2, <4>3
    <3>5. CASE ~(v.version < r.version)
      <4>1. NewestAt(Records(m), v, s) /\ NewestAt(Records(d), v, s)
        BY <1>1, <1>3, <1>4, <1>11, <2>1, <3>1, <3>2, <3>3, <3>5 DEF NewestAt
      <4>2. Latest(m, s) = v.value
        BY <1>1, <1>5, <4>1, LatestNewest, ZenonT(30)
      <4>3. FetchVersion(d, s) = v.value
        BY <1>2, <4>1, FetchNewest
      <4> QED BY <4>2, <4>3
    <3> QED BY <3>4, <3>5
  <2> QED BY <2>2, <2>3
<1> QED BY <1>8, <1>9, <1>10, <1>11 DEF Tame
-----------------------------------------------------------------------------
(* The inductive invariant *)

\* A node some thread still holds is the key's entry, or was unlinked.
Held(n) == n \in Node /\ (n = entry \/ n \in removed)

\* A transaction's snapshot is not ahead of the timestamp; its version is above
\* the snapshot; until it ends it has read nothing.
TxShape(t) ==
    /\ tx[t].snap <= ts
    /\ tx[t].pc \in {"insert", "lock"} => tx[t].snap < tx[t].ver
    /\ tx[t].pc \in {"lock", "read"} => Held(tx[t].at)
    /\ tx[t].pc = "read" => tx[t].since <= Len(log)
    /\ tx[t].pc # "done" => tx[t].may = {} /\ tx[t].got = None

\* A watermark in use is at most the timestamp and every live snapshot.
GcShape(g) ==
    /\ gc[g].pc \in {"dirtyLock", "fullLock"} => Held(gc[g].at)
    /\ gc[g].pc # "idle" =>
          /\ gc[g].wm <= ts
          /\ \A t \in Tx : Active(t) => gc[g].wm <= tx[t].snap

Shape ==
    /\ TypeOK
    /\ ChainsWellFormed
    /\ entry \notin removed
    /\ entry # NoNode => Records(chain[entry]) \subseteq Records(log)
    /\ \A t \in Tx : TxShape(t)
    /\ \A g \in Collector : GcShape(g)

\* The snapshots that are, or may still be, read: no watermark is above one.
Safe(s) == ts <= s \/ \E t \in Tx : Active(t) /\ tx[t].snap <= s

\* A reader holds the entry, or the key was deleted since it looked it up.
Answerable(t) ==
    \/ tx[t].at = entry
    \/ \E m \in tx[t].since..Len(log) : Latest(SubSeq(log, 1, m), tx[t].snap) = None

Exact ==
    Benign => /\ \A s \in Nat : Safe(s) => Visible(s) = Reference(s)
              /\ \A t \in Tx : tx[t].pc = "read" => Answerable(t)

DInv == Shape /\ Exact /\ ReadsLinearizable

TxState == [pc : {"idle", "active", "insert", "lock", "dirty", "read", "done"},
            snap : Time, ver : Time, val : Value \cup {None}, at : NodeOrNone,
            since : Nat, may : SUBSET (Value \cup {None}), got : Value \cup {None}]

GcState == [pc : {"idle", "dirty", "dirtyLock", "full", "fullLock"},
            wm : Time, at : NodeOrNone, seen : BOOLEAN]

LEMMA Types ==
  ASSUME TypeOK
  PROVE  /\ ts \in Time /\ ts \in Nat /\ entry \in NodeOrNone
         /\ chain \in [Node -> Seq(Version)] /\ removed \subseteq Node /\ dirty \in Nat
         /\ tx \in [Tx -> TxState] /\ gc \in [Collector -> GcState] /\ log \in Seq(Version)
BY TimeAssumption DEF TypeOK, TxState, GcState

LEMMA WrittenVersion ==
  ASSUME TypeOK, NEW t \in Tx
  PROVE  Written(t) \in Version
BY TimeAssumption, ZenonT(30) DEF TypeOK, Written, Version

LEMMA TxUpdate ==
  ASSUME TypeOK, NEW t \in Tx, NEW r \in TxState, tx' = [tx EXCEPT ![t] = r]
  PROVE  /\ tx' \in [Tx -> TxState] /\ tx'[t] = r
         /\ \A u \in Tx : u # t => tx'[u] = tx[u]
BY Types

LEMMA GcUpdate ==
  ASSUME TypeOK, NEW g \in Collector, NEW r \in GcState, gc' = [gc EXCEPT ![g] = r]
  PROVE  /\ gc' \in [Collector -> GcState] /\ gc'[g] = r
         /\ \A h \in Collector : h # g => gc'[h] = gc[h]
BY Types

\* A step of one transaction that leaves the store alone.
LEMMA ShapeOwn ==
  ASSUME Shape, NEW t \in Tx, NEW r \in TxState, tx' = [tx EXCEPT ![t] = r],
         UNCHANGED <<ts, entry, chain, removed, gc, log>>, dirty' \in Nat,
         r.snap = ts \/ (r.snap = tx[t].snap /\ (Active(t)' => Active(t))),
         r.pc \in {"insert", "lock"} => r.snap < r.ver,
         r.pc \in {"lock", "read"} => Held(r.at),
         r.pc = "read" => r.since <= Len(log),
         r.pc # "done" => r.may = {} /\ r.got = None
  PROVE  Shape'
<1>0. TypeOK /\ ts \in Nat
  BY Types DEF Shape
<1>1. /\ tx' \in [Tx -> TxState] /\ tx'[t] = r
      /\ \A u \in Tx : u # t => tx'[u] = tx[u]
  BY <1>0, TxUpdate, Zenon
<1>2. TypeOK'
  BY <1>0, <1>1 DEF TypeOK, TxState
<1>3. r.snap <= ts
  BY <1>0 DEF Shape, TxShape
<1>4. ASSUME NEW u \in Tx PROVE TxShape(u)'
  BY <1>1, <1>3 DEF Shape, TxShape, Held
<1>5. ASSUME NEW g \in Collector PROVE GcShape(g)'
  <2>1. ASSUME NEW u \in Tx, gc[g].pc # "idle", Active(u)' PROVE gc[g].wm <= tx'[u].snap
    BY <1>1, <2>1 DEF Shape, GcShape, Active
  <2> QED BY <2>1, SMTT(30), Z3T(30) DEF Shape, GcShape, Held
<1>6. ChainsWellFormed' /\ (entry \notin removed)'
      /\ (entry # NoNode => Records(chain[entry]) \subseteq Records(log))'
  BY SMTT(30), Z3T(30) DEF Shape, ChainsWellFormed
<1> QED BY <1>2, <1>4, <1>5, <1>6 DEF Shape

\* A step of one collector that leaves the store alone.
LEMMA ShapeCollector ==
  ASSUME Shape, NEW g \in Collector, NEW r \in GcState, gc' = [gc EXCEPT ![g] = r],
         UNCHANGED <<ts, entry, chain, removed, tx, log>>, dirty' \in Nat,
         r.pc \in {"dirtyLock", "fullLock"} => Held(r.at),
         r.pc # "idle" => r.wm <= ts /\ \A t \in Tx : Active(t) => r.wm <= tx[t].snap
  PROVE  Shape'
<1>0. TypeOK
  BY DEF Shape
<1>1. /\ gc' \in [Collector -> GcState] /\ gc'[g] = r
      /\ \A h \in Collector : h # g => gc'[h] = gc[h]
  BY <1>0, GcUpdate, ZenonT(30)
<1>2. TypeOK'
  BY <1>0, <1>1 DEF TypeOK, GcState
<1>3. ASSUME NEW u \in Tx PROVE TxShape(u)'
  BY DEF Shape, TxShape, Held
<1>4. ASSUME NEW h \in Collector PROVE GcShape(h)'
  BY <1>1 DEF Shape, GcShape, Held, Active
<1>5. ChainsWellFormed' /\ (entry \notin removed)'
      /\ (entry # NoNode => Records(chain[entry]) \subseteq Records(log))'
  BY SMTT(30), Z3T(30) DEF Shape, ChainsWellFormed
<1> QED BY <1>2, <1>3, <1>4, <1>5, SMTT(30), Z3T(30) DEF Shape

LEMMA ShapeAssign ==
  ASSUME Shape, NEW t \in Tx, AssignVersion(t)
  PROVE  Shape'
<1>0. TypeOK /\ tx \in [Tx -> TxState] /\ ts \in Nat /\ gc \in [Collector -> GcState]
  BY Types, SMTT(30), Z3T(30) DEF Shape
<1>1. PICK v \in Time, x \in Value \cup {None} :
         /\ v > tx[t].snap /\ ts' = IF v > ts THEN v ELSE ts
         /\ tx' = [tx EXCEPT ![t].pc = "insert", ![t].ver = v, ![t].val = x]
  BY Zenon DEF AssignVersion
<1> DEFINE r == [tx[t] EXCEPT !.pc = "insert", !.ver = v, !.val = x]
<1>2. r \in TxState /\ tx' = [tx EXCEPT ![t] = r]
  BY <1>0, <1>1, ZenonT(30) DEF TxState
<1>3. /\ r.pc = "insert" /\ r.snap = tx[t].snap /\ r.ver = v
      /\ r.may = tx[t].may /\ r.got = tx[t].got
  BY <1>0 DEF TxState
<1> HIDE DEF r
<1>4. /\ tx' \in [Tx -> TxState] /\ tx'[t] = r
      /\ \A u \in Tx : u # t => tx'[u] = tx[u]
  BY <1>0, <1>2, TxUpdate
<1>5. tx[t].pc = "active" /\ UNCHANGED <<entry, chain, removed, dirty, gc, log>>
  BY DEF AssignVersion
<1>6. ts' \in Time /\ ts' \in Nat /\ ts' >= ts
  <2>1. v \in Nat /\ ts \in Time
    BY TimeAssumption, Types DEF Shape
  <2> QED BY <1>0, <1>1, <2>1
<1>7. TypeOK'
  BY <1>0, <1>4, <1>5, <1>6 DEF TypeOK, TxState
<1>8. \A u \in Tx : tx[u].snap \in Nat /\ tx'[u].snap = tx[u].snap
  BY <1>0, <1>3, <1>4, TimeAssumption, ZenonT(30) DEF TxState
<1>9. ASSUME NEW u \in Tx PROVE TxShape(u)'
  <2>1. TxShape(u) /\ TxShape(t)
    BY DEF Shape
  <2>2. CASE u = t
    BY <1>0, <1>1, <1>3, <1>4, <1>5, <1>6, <1>8, <2>1, <2>2, SMTT(30), Z3T(30) DEF TxShape
  <2>3. CASE u # t
    BY <1>0, <1>4, <1>5, <1>6, <1>8, <2>1, <2>3, SMTT(30), Z3T(30) DEF TxShape, Held
  <2> QED BY <2>2, <2>3
<1>10. ASSUME NEW g \in Collector PROVE GcShape(g)'
  <2>1. gc[g].wm \in Nat /\ GcShape(g)
    BY <1>0, TimeAssumption, Zenon DEF GcState, Shape
  <2>2. \A u \in Tx : Active(u)' => Active(u)
    BY <1>4, <1>5, SMTT(30), Z3T(30) DEF Active
  <2> QED BY <1>0, <1>5, <1>6, <1>8, <2>1, <2>2, SMTT(30), Z3T(30) DEF GcShape, Held
<1>11. ChainsWellFormed' /\ (entry \notin removed)'
       /\ (entry # NoNode => Records(chain[entry]) \subseteq Records(log))'
  BY <1>5 DEF Shape, ChainsWellFormed
<1> QED BY <1>7, <1>9, <1>10, <1>11 DEF Shape
\* The steps that leave the store alone, as one changed record each.
LEMMA BeginRecord ==
  ASSUME TypeOK, NEW t \in Tx, Begin(t)
  PROVE  \E r \in TxState :
            /\ tx' = [tx EXCEPT ![t] = r]
            /\ tx[t].pc = "idle" /\ r.pc = "active" /\ r.snap = ts
            /\ r.may = tx[t].may /\ r.got = tx[t].got
<1>0. tx \in [Tx -> TxState] /\ ts \in Time
  BY Types
<1> DEFINE r == [tx[t] EXCEPT !.pc = "active", !.snap = ts]
<1>1. r \in TxState /\ tx' = [tx EXCEPT ![t] = r] /\ tx[t].pc = "idle"
  BY <1>0, ZenonT(30) DEF TxState, Begin
<1>2. r.pc = "active" /\ r.snap = ts /\ r.may = tx[t].may /\ r.got = tx[t].got
  BY <1>0 DEF TxState
<1> QED BY <1>1, <1>2, Zenon

LEMMA FoundRecord ==
  ASSUME TypeOK, NEW t \in Tx, GetOrInsert(t), entry # NoNode
  PROVE  /\ UNCHANGED <<ts, entry, chain, removed, dirty, gc, log>>
         /\ \E r \in TxState :
               /\ tx' = [tx EXCEPT ![t] = r]
               /\ tx[t].pc = "insert" /\ r.pc = "lock" /\ r.at = entry
               /\ r.snap = tx[t].snap /\ r.ver = tx[t].ver
               /\ r.may = tx[t].may /\ r.got = tx[t].got
<1>0. tx \in [Tx -> TxState] /\ entry \in NodeOrNone
  BY Types
<1> DEFINE r == [tx[t] EXCEPT !.pc = "lock", !.at = entry]
<1>1. r \in TxState /\ tx' = [tx EXCEPT ![t] = r] /\ tx[t].pc = "insert"
  <2>1. /\ tx' = [tx EXCEPT ![t].pc = "lock", ![t].at = entry]
        /\ tx[t].pc = "insert"
    BY DEF GetOrInsert
  <2> QED BY ONLY <1>0, <2>1, t \in Tx, ZenonT(30) DEF TxState
<1>2. /\ r.pc = "lock" /\ r.at = entry /\ r.snap = tx[t].snap /\ r.ver = tx[t].ver
      /\ r.may = tx[t].may /\ r.got = tx[t].got
  BY <1>0 DEF TxState
<1>3. UNCHANGED <<ts, entry, chain, removed, dirty, gc, log>>
  BY DEF GetOrInsert
<1> QED BY <1>1, <1>2, <1>3, Zenon

LEMMA RetryRecord ==
  ASSUME TypeOK, NEW t \in Tx, LockAndPush(t), tx[t].at \in removed
  PROVE  /\ UNCHANGED <<ts, entry, chain, removed, dirty, gc, log>>
         /\ \E r \in TxState :
               /\ tx' = [tx EXCEPT ![t] = r]
               /\ tx[t].pc = "lock" /\ r.pc = "insert"
               /\ r.snap = tx[t].snap /\ r.ver = tx[t].ver
               /\ r.may = tx[t].may /\ r.got = tx[t].got
<1>0. tx \in [Tx -> TxState]
  BY Types
<1> DEFINE r == [tx[t] EXCEPT !.pc = "insert", !.at = NoNode]
<1>1. r \in TxState /\ tx' = [tx EXCEPT ![t] = r] /\ tx[t].pc = "lock"
  <2>1. /\ tx' = [tx EXCEPT ![t].pc = "insert", ![t].at = NoNode]
        /\ tx[t].pc = "lock"
    BY DEF LockAndPush
  <2> QED BY ONLY <1>0, <2>1, t \in Tx, ZenonT(30) DEF TxState, NodeOrNone
<1>2. /\ r.pc = "insert" /\ r.snap = tx[t].snap /\ r.ver = tx[t].ver
      /\ r.may = tx[t].may /\ r.got = tx[t].got
  BY <1>0 DEF TxState
<1>3. UNCHANGED <<ts, entry, chain, removed, dirty, gc, log>>
  BY DEF LockAndPush
<1> QED BY <1>1, <1>2, <1>3, Zenon

LEMMA MarkRecord ==
  ASSUME TypeOK, NEW t \in Tx, MarkDirty(t)
  PROVE  /\ dirty' \in Nat
         /\ \E r \in TxState :
               /\ tx' = [tx EXCEPT ![t] = r]
               /\ tx[t].pc = "dirty" /\ r.pc = "done"
               /\ r.snap = tx[t].snap /\ r.may = tx[t].may /\ r.got = tx[t].got
<1>0. tx \in [Tx -> TxState] /\ dirty \in Nat
  BY Types
<1> DEFINE r == [tx[t] EXCEPT !.pc = "done"]
<1>1. r \in TxState /\ tx' = [tx EXCEPT ![t] = r] /\ tx[t].pc = "dirty"
  BY <1>0 DEF TxState, MarkDirty
<1>2. r.pc = "done" /\ r.snap = tx[t].snap /\ r.may = tx[t].may /\ r.got = tx[t].got
  BY <1>0 DEF TxState
<1>3. dirty' \in Nat
  BY <1>0 DEF MarkDirty
<1> QED BY <1>1, <1>2, <1>3, Zenon

LEMMA LatestValue ==
  ASSUME Counting, NEW l \in Seq(Version), NEW s \in Nat
  PROVE  Latest(l, s) \in Value \cup {None}
BY LatestCases, PushTypes DEF Option

LEMMA LookupRecord ==
  ASSUME Counting, TypeOK, NEW t \in Tx, Lookup(t)
  PROVE  \E r \in TxState :
            /\ tx' = [tx EXCEPT ![t] = r]
            /\ tx[t].pc = "active"
            /\ r.pc = IF entry = NoNode THEN "done" ELSE "read"
            /\ r.at = entry /\ r.snap = tx[t].snap /\ r.got = tx[t].got
            /\ r.may = IF entry = NoNode THEN {Reference(tx[t].snap)} ELSE {}
            /\ r.since = IF entry = NoNode THEN 0 ELSE Len(log)
<1>0. tx \in [Tx -> TxState] /\ entry \in NodeOrNone /\ log \in Seq(Version)
  BY Types
<1> DEFINE since == IF entry = NoNode THEN 0 ELSE Len(log)
           may == IF entry = NoNode THEN {Reference(tx[t].snap)} ELSE {}
           pc == IF entry = NoNode THEN "done" ELSE "read"
           r == [tx[t] EXCEPT !.at = entry, !.since = since, !.may = may, !.pc = pc]
<1>1. Len(log) \in Nat /\ Reference(tx[t].snap) \in Value \cup {None}
  <2>1. tx[t].snap \in Nat
    BY <1>0, TimeAssumption, ZenonT(30) DEF TxState
  <2> QED BY <1>0, <2>1, LatestValue DEF Reference
<1>2. /\ since \in Nat /\ may \in SUBSET (Value \cup {None}) /\ pc \in {"done", "read"}
      /\ tx[t].pc = "active"
      /\ tx' = [tx EXCEPT ![t].at = entry, ![t].since = since, ![t].may = may, ![t].pc = pc]
  BY <1>1 DEF Lookup
<1> HIDE DEF since, may, pc
<1>3. r \in TxState /\ tx' = [tx EXCEPT ![t] = r]
  BY <1>0, <1>2 DEF TxState
<1>4. /\ r.pc = pc /\ r.at = entry /\ r.snap = tx[t].snap /\ r.got = tx[t].got
      /\ r.may = may /\ r.since = since
  BY <1>0 DEF TxState
<1> QED BY <1>2, <1>3, <1>4, ZenonT(30) DEF since, may, pc

LEMMA ReadRecord ==
  ASSUME Counting, TypeOK, ChainsWellFormed, NEW t \in Tx, Read(t), tx[t].at \in Node
  PROVE  \E r \in TxState :
            /\ tx' = [tx EXCEPT ![t] = r]
            /\ tx[t].pc = "read" /\ r.pc = "done" /\ r.snap = tx[t].snap
            /\ r.got = FetchVersion(chain[tx[t].at], tx[t].snap)
            /\ r.may = {Latest(SubSeq(log, 1, m), tx[t].snap) : m \in tx[t].since..Len(log)}
<1>0. /\ tx \in [Tx -> TxState] /\ log \in Seq(Version)
      /\ tx[t].snap \in Nat /\ tx[t].since \in Nat
  BY Types, TimeAssumption, ZenonT(30) DEF TxState
<1> DEFINE got == FetchVersion(chain[tx[t].at], tx[t].snap)
           may == {Latest(SubSeq(log, 1, m), tx[t].snap) : m \in tx[t].since..Len(log)}
           r == [tx[t] EXCEPT !.got = got, !.may = may, !.since = 0, !.at = NoNode, !.pc = "done"]
<1>1. got \in Value \cup {None}
  <2>1. chain[tx[t].at] \in Chain
    BY Types DEF ChainsWellFormed, Chain
  <2> QED BY <1>0, <2>1, FetchCases, ChainTypes, SMTT(30), Z3T(30) DEF Option
<1>2. may \in SUBSET (Value \cup {None})
  <2>1. ASSUME NEW m \in tx[t].since..Len(log)
        PROVE  Latest(SubSeq(log, 1, m), tx[t].snap) \in Value \cup {None}
    <3>1. SubSeq(log, 1, m) \in Seq(Version)
      <4>1. \A i \in 1..m : log[i] \in Version
        BY <1>0, SeqElement
      <4> QED BY <1>0, <4>1, SeqPart
    <3> QED BY <1>0, <3>1, LatestValue, ZenonT(30)
  <2> QED BY <2>1
<1>3. /\ tx[t].pc = "read"
      /\ tx' = [tx EXCEPT ![t].got = got, ![t].may = may, ![t].since = 0,
                          ![t].at = NoNode, ![t].pc = "done"]
  BY Zenon DEF Read
<1> HIDE DEF got, may
<1>4. r \in TxState /\ tx' = [tx EXCEPT ![t] = r]
  BY <1>0, <1>1, <1>2, <1>3, SMTT(30), Z3T(30) DEF TxState, NodeOrNone
<1>5. r.pc = "done" /\ r.snap = tx[t].snap /\ r.got = got /\ r.may = may
  BY <1>0 DEF TxState
<1> QED BY <1>3, <1>4, <1>5, ZenonT(30) DEF got, may
LEMMA ShapeTx ==
  ASSUME Counting, Shape, NEW t \in Tx,
         \/ Begin(t) \/ MarkDirty(t) \/ Lookup(t) \/ Read(t)
         \/ GetOrInsert(t) /\ entry # NoNode
         \/ LockAndPush(t) /\ tx[t].at \in removed
  PROVE  Shape'
<1>0. /\ TypeOK /\ ChainsWellFormed /\ TxShape(t) /\ entry \in NodeOrNone
      /\ log \in Seq(Version) /\ dirty \in Nat
  BY Types, SMTT(30), Z3T(30) DEF Shape
<1>1. CASE Begin(t)
  <2>1. UNCHANGED <<ts, entry, chain, removed, dirty, gc, log>>
    BY <1>1 DEF Begin
  <2>2. PICK r \in TxState :
            /\ tx' = [tx EXCEPT ![t] = r]
            /\ tx[t].pc = "idle" /\ r.pc = "active" /\ r.snap = ts
            /\ r.may = tx[t].may /\ r.got = tx[t].got
    BY <1>0, <1>1, BeginRecord
  <2> QED BY <1>0, <2>1, <2>2, ShapeOwn, ZenonT(30) DEF TxShape
<1>2. CASE MarkDirty(t)
  <2>1. UNCHANGED <<ts, entry, chain, removed, gc, log>>
    BY <1>2 DEF MarkDirty
  <2>2. dirty' \in Nat
    BY <1>0, <1>2, MarkRecord
  <2>3. PICK r \in TxState :
            /\ tx' = [tx EXCEPT ![t] = r]
            /\ tx[t].pc = "dirty" /\ r.pc = "done"
            /\ r.snap = tx[t].snap /\ r.may = tx[t].may /\ r.got = tx[t].got
    BY <1>0, <1>2, MarkRecord
  <2>4. Active(t)' => Active(t)
    BY <2>3, SMTT(30), Z3T(30) DEF Active
  <2> QED BY <1>0, <2>1, <2>2, <2>3, <2>4, ShapeOwn, ZenonT(30) DEF TxShape
<1>3. CASE Lookup(t)
  <2>1. UNCHANGED <<ts, entry, chain, removed, dirty, gc, log>>
    BY <1>3, SMTT(30), Z3T(30) DEF Lookup
  <2>2. PICK r \in TxState :
            /\ tx' = [tx EXCEPT ![t] = r]
            /\ tx[t].pc = "active"
            /\ r.pc = IF entry = NoNode THEN "done" ELSE "read"
            /\ r.at = entry /\ r.snap = tx[t].snap /\ r.got = tx[t].got
            /\ r.may = IF entry = NoNode THEN {Reference(tx[t].snap)} ELSE {}
            /\ r.since = IF entry = NoNode THEN 0 ELSE Len(log)
    BY <1>0, <1>3, LookupRecord, ZenonT(30)
  <2>3. Active(t)' => Active(t)
    BY <2>2, SMTT(30), Z3T(30) DEF Active
  <2>4. r.pc \in {"lock", "read"} => Held(r.at)
    BY <1>0, <2>2, SMTT(30), Z3T(30) DEF Held, NodeOrNone
  <2>5. r.pc = "read" => r.since <= Len(log)
    BY <1>0, <2>2, SMTT(30), Z3T(30)
  <2>6. r.pc # "done" => r.may = {} /\ r.got = None
    BY <1>0, <2>2, SMTT(30), Z3T(30) DEF TxShape
  <2>7. r.pc \notin {"insert", "lock"}
    BY <2>2, SMTT(30), Z3T(30)
  <2> QED BY <1>0, <2>1, <2>2, <2>3, <2>4, <2>5, <2>6, <2>7, ShapeOwn, ZenonT(30)
<1>4. CASE Read(t)
  <2>1. UNCHANGED <<ts, entry, chain, removed, dirty, gc, log>> /\ tx[t].pc = "read"
    BY <1>4, ZenonT(30) DEF Read
  <2>2. tx[t].at \in Node
    BY <1>0, <2>1, SMTT(30), Z3T(30) DEF TxShape, Held
  <2>3. PICK r \in TxState :
            /\ tx' = [tx EXCEPT ![t] = r] /\ r.pc = "done" /\ r.snap = tx[t].snap
    BY <1>0, <1>4, <2>2, ReadRecord, ZenonT(30)
  <2>4. Active(t)' => Active(t)
    BY <2>1, SMTT(30), Z3T(30) DEF Active
  <2> QED BY <1>0, <2>1, <2>3, <2>4, ShapeOwn, ZenonT(30)
<1>5. CASE GetOrInsert(t) /\ entry # NoNode
  <2>1. UNCHANGED <<ts, entry, chain, removed, dirty, gc, log>>
    BY <1>0, <1>5, FoundRecord, Zenon
  <2>2. PICK r \in TxState :
               /\ tx' = [tx EXCEPT ![t] = r]
               /\ tx[t].pc = "insert" /\ r.pc = "lock" /\ r.at = entry
               /\ r.snap = tx[t].snap /\ r.ver = tx[t].ver
               /\ r.may = tx[t].may /\ r.got = tx[t].got
    BY <1>0, <1>5, FoundRecord, ZenonT(30)
  <2>3. Active(t)
    BY <2>2 DEF Active
  <2>4. Held(r.at)
    BY <1>0, <1>5, <2>2, SMTT(30), Z3T(30) DEF Held, NodeOrNone
  <2> QED BY <1>0, <2>1, <2>2, <2>3, <2>4, ShapeOwn, ZenonT(30) DEF TxShape
<1>6. CASE LockAndPush(t) /\ tx[t].at \in removed
  <2>1. UNCHANGED <<ts, entry, chain, removed, dirty, gc, log>>
    BY <1>0, <1>6, RetryRecord, Zenon
  <2>2. PICK r \in TxState :
               /\ tx' = [tx EXCEPT ![t] = r]
               /\ tx[t].pc = "lock" /\ r.pc = "insert"
               /\ r.snap = tx[t].snap /\ r.ver = tx[t].ver
               /\ r.may = tx[t].may /\ r.got = tx[t].got
    BY <1>0, <1>6, RetryRecord
  <2>3. Active(t)
    BY <2>2 DEF Active
  <2> QED BY <1>0, <2>1, <2>2, <2>3, ShapeOwn, ZenonT(30) DEF TxShape
<1> QED BY <1>1, <1>2, <1>3, <1>4, <1>5, <1>6, SMTT(30), Z3T(30)
LEMMA ShapeGc ==
  ASSUME Shape, NEW g \in Collector,
         StartGc(g) \/ PopDirty(g) \/ DirtyEmpty(g) \/ FullScan(g)
  PROVE  Shape'
<1>0. /\ TypeOK /\ GcShape(g) /\ entry \in NodeOrNone /\ dirty \in Nat
      /\ gc \in [Collector -> GcState]
  BY Types DEF Shape
<1>1. CASE StartGc(g)
  <2>1. PICK w \in Time :
          /\ w <= ts /\ \A t \in Tx : Active(t) => w <= tx[t].snap
          /\ gc' = [gc EXCEPT ![g].pc = "dirty", ![g].wm = w, ![g].seen = FALSE]
    BY <1>1, Zenon DEF StartGc
  <2> DEFINE r == [gc[g] EXCEPT !.pc = "dirty", !.wm = w, !.seen = FALSE]
  <2>2. r \in GcState /\ gc' = [gc EXCEPT ![g] = r]
    BY ONLY <1>0, <2>1, g \in Collector, w \in Time, Zenon DEF GcState
  <2>3. r.pc = "dirty" /\ r.wm = w
    BY <1>0 DEF GcState
  <2>4. UNCHANGED <<ts, entry, chain, removed, dirty, tx, log>>
    BY <1>1, Zenon DEF StartGc
  <2> HIDE DEF r
  <2> QED BY <1>0, <2>1, <2>2, <2>3, <2>4, ShapeCollector, Zenon
<1>2. CASE PopDirty(g)
  <2> DEFINE at == IF gc[g].seen THEN NoNode ELSE entry
             pc == IF gc[g].seen \/ entry = NoNode THEN gc[g].pc ELSE "dirtyLock"
             r == [gc[g] EXCEPT !.seen = TRUE, !.at = at, !.pc = pc]
  <2>1. /\ gc[g].pc = "dirty" /\ dirty > 0 /\ dirty' = dirty - 1
        /\ gc' = [gc EXCEPT ![g].seen = TRUE, ![g].at = at, ![g].pc = pc]
        /\ UNCHANGED <<ts, entry, chain, removed, tx, log>>
    BY <1>2 DEF PopDirty
  <2>2. at \in NodeOrNone /\ pc \in {"dirty", "dirtyLock"}
        /\ (pc = "dirtyLock" => at = entry /\ entry # NoNode)
    BY <1>0, <2>1 DEF NodeOrNone
  <2> HIDE DEF at, pc
  <2>3. r \in GcState /\ gc' = [gc EXCEPT ![g] = r]
    BY ONLY <1>0, <2>1, <2>2, g \in Collector, Zenon DEF GcState
  <2>4. r.pc = pc /\ r.at = at /\ r.wm = gc[g].wm
    BY <1>0 DEF GcState
  <2>5. r.pc \in {"dirtyLock", "fullLock"} => Held(r.at)
    BY <1>0, <2>2, <2>4 DEF Held, NodeOrNone
  <2>6. dirty' \in Nat
    BY <1>0, <2>1
  <2>7. r.wm <= ts /\ \A t \in Tx : Active(t) => r.wm <= tx[t].snap
    BY <1>0, <2>1, <2>4, SMTT(30), Z3T(30) DEF GcShape
  <2> HIDE DEF r
  <2> QED BY <1>0, <2>1, <2>3, <2>5, <2>6, <2>7, ShapeCollector, Zenon
<1>3. CASE DirtyEmpty(g)
  <2>1. PICK next \in {"full", "idle"} : gc' = [gc EXCEPT ![g].pc = next]
    BY <1>3, Zenon DEF DirtyEmpty
  <2> DEFINE r == [gc[g] EXCEPT !.pc = next]
  <2>2. r \in GcState /\ gc' = [gc EXCEPT ![g] = r]
    BY ONLY <1>0, <2>1, g \in Collector, next \in {"full", "idle"} DEF GcState
  <2>3. r.pc = next /\ r.wm = gc[g].wm
    BY <1>0 DEF GcState
  <2>4. gc[g].pc = "dirty" /\ UNCHANGED <<ts, entry, chain, removed, dirty, tx, log>>
    BY <1>3 DEF DirtyEmpty
  <2>5. r.wm <= ts /\ \A t \in Tx : Active(t) => r.wm <= tx[t].snap
    BY <1>0, <2>3, <2>4 DEF GcShape
  <2>6. r.pc \notin {"dirtyLock", "fullLock"}
    BY <2>3
  <2> HIDE DEF r
  <2> QED BY <1>0, <2>2, <2>4, <2>5, <2>6, ShapeCollector, ZenonT(30)
<1>4. CASE FullScan(g)
  <2> DEFINE pc == IF entry = NoNode THEN "idle" ELSE "fullLock"
             r == [gc[g] EXCEPT !.at = entry, !.pc = pc]
  <2>1. /\ gc[g].pc = "full" /\ gc' = [gc EXCEPT ![g].at = entry, ![g].pc = pc]
        /\ UNCHANGED <<ts, entry, chain, removed, dirty, tx, log>>
    BY <1>4 DEF FullScan
  <2>2. pc \in {"idle", "fullLock"} /\ (pc = "fullLock" => entry # NoNode)
    OBVIOUS
  <2> HIDE DEF pc
  <2>3. r \in GcState /\ gc' = [gc EXCEPT ![g] = r]
    BY ONLY <1>0, <2>1, <2>2, g \in Collector DEF GcState
  <2>4. r.pc = pc /\ r.at = entry /\ r.wm = gc[g].wm
    BY <1>0 DEF GcState
  <2>5. r.pc \in {"dirtyLock", "fullLock"} => Held(r.at)
    BY <1>0, <2>2, <2>4 DEF Held, NodeOrNone
  <2>6. r.wm <= ts /\ \A t \in Tx : Active(t) => r.wm <= tx[t].snap
    BY <1>0, <2>1, <2>4 DEF GcShape
  <2> HIDE DEF r
  <2> QED BY <1>0, <2>1, <2>3, <2>5, <2>6, ShapeCollector, ZenonT(30)
<1> QED BY <1>1, <1>2, <1>3, <1>4

LEMMA FromChain ==
  ASSUME NEW v \in Version
  PROVE  From(v) \in Chain /\ Records(From(v)) = {v}
<1>1. <<v>> \in Seq(Version) /\ Len(<<v>>) = 1 /\ <<v>>[1] = v
  OBVIOUS
<1> QED BY <1>1 DEF From, Chain, Ascending, Records

\* get_or_insert_with finds no entry and links a new node.
LEMMA InsertRecord ==
  ASSUME TypeOK, NEW t \in Tx, GetOrInsert(t), entry = NoNode
  PROVE  \E n \in Node, r \in TxState :
            /\ Unreferenced(n) /\ entry' = n
            /\ chain' = [chain EXCEPT ![n] = From(Written(t))]
            /\ removed' = removed \ {n}
            /\ log' = Append(log, Written(t))
            /\ UNCHANGED <<ts, dirty, gc>>
            /\ tx' = [tx EXCEPT ![t] = r]
            /\ tx[t].pc = "insert" /\ r.pc = "lock" /\ r.at = n
            /\ r.snap = tx[t].snap /\ r.ver = tx[t].ver
            /\ r.may = tx[t].may /\ r.got = tx[t].got
<1>0. tx \in [Tx -> TxState]
  BY Types
<1>1. PICK n \in Node :
         /\ Unreferenced(n) /\ entry' = n
         /\ chain' = [chain EXCEPT ![n] = From(Written(t))]
         /\ removed' = removed \ {n}
         /\ tx' = [tx EXCEPT ![t].pc = "lock", ![t].at = n]
  BY DEF GetOrInsert
<1>2. log' = Append(log, Written(t)) /\ UNCHANGED <<ts, dirty, gc>> /\ tx[t].pc = "insert"
  BY DEF GetOrInsert
<1> DEFINE r == [tx[t] EXCEPT !.pc = "lock", !.at = n]
<1>3. r \in TxState /\ tx' = [tx EXCEPT ![t] = r]
  BY ONLY <1>0, <1>1, t \in Tx, n \in Node, ZenonT(30) DEF TxState, NodeOrNone
<1>4. /\ r.pc = "lock" /\ r.at = n /\ r.snap = tx[t].snap /\ r.ver = tx[t].ver
      /\ r.may = tx[t].may /\ r.got = tx[t].got
  BY <1>0 DEF TxState
<1> HIDE DEF r
<1> QED BY <1>1, <1>2, <1>3, <1>4, Zenon

LEMMA ShapeInsert ==
  ASSUME Shape, NEW t \in Tx, GetOrInsert(t), entry = NoNode
  PROVE  Shape'
<1>0. /\ TypeOK /\ ChainsWellFormed /\ log \in Seq(Version) /\ Written(t) \in Version
      /\ chain \in [Node -> Seq(Version)] /\ removed \subseteq Node
  BY Types, WrittenVersion DEF Shape
<1>1. PICK n \in Node, r \in TxState :
            /\ Unreferenced(n) /\ entry' = n
            /\ chain' = [chain EXCEPT ![n] = From(Written(t))]
            /\ removed' = removed \ {n}
            /\ log' = Append(log, Written(t))
            /\ UNCHANGED <<ts, dirty, gc>>
            /\ tx' = [tx EXCEPT ![t] = r]
            /\ tx[t].pc = "insert" /\ r.pc = "lock" /\ r.at = n
            /\ r.snap = tx[t].snap /\ r.ver = tx[t].ver
            /\ r.may = tx[t].may /\ r.got = tx[t].got
  BY <1>0, InsertRecord, Zenon
<1>2. /\ tx' \in [Tx -> TxState] /\ tx'[t] = r
      /\ \A u \in Tx : u # t => tx'[u] = tx[u]
  BY <1>0, <1>1, TxUpdate, Zenon
<1>3. /\ log' \in Seq(Version) /\ Len(log) <= Len(log')
      /\ Records(log') = Records(log) \cup {Written(t)}
  <2>1. /\ log' \in Seq(Version) /\ Len(log') = Len(log) + 1
        /\ Records(log') = Records(log) \cup {Written(t)}
    BY <1>0, <1>1, RecordsAppend, Zenon
  <2>2. Len(log) \in Nat
    BY <1>0, SeqDomain, Zenon
  <2> QED BY ONLY <2>1, <2>2
<1>4. From(Written(t)) \in Seq(Version) /\ Ascending(From(Written(t)))
      /\ Records(From(Written(t))) = {Written(t)}
  BY <1>0, FromChain DEF Chain
<1>5. /\ chain' \in [Node -> Seq(Version)] /\ chain'[n] = From(Written(t))
      /\ \A m \in Node : m # n => chain'[m] = chain[m]
  BY <1>0, <1>1, <1>4, SMTT(30), Z3T(30)
<1>6. TypeOK'
  BY <1>0, <1>1, <1>2, <1>3, <1>5, SMTT(30), Z3T(30) DEF TypeOK, TxState, NodeOrNone
<1>7. ChainsWellFormed'
  BY <1>0, <1>1, <1>4, <1>5, SMTT(30), Z3T(30) DEF ChainsWellFormed
<1>8. (entry \notin removed)' /\ (entry # NoNode => Records(chain[entry]) \subseteq Records(log))'
  BY <1>1, <1>3, <1>4, <1>5, SMTT(30), Z3T(30)
<1>9. \A m : Held(m) /\ m # n => Held(m)'
  BY <1>1, NodeAssumption DEF Held
<1>10. ASSUME NEW u \in Tx PROVE TxShape(u)'
  <2>1. TxShape(u) /\ TxShape(t) /\ tx[u].at # n
    BY <1>1, SMTT(30), Z3T(30) DEF Shape, Unreferenced
  <2>2. CASE u = t
    <3>1. Held(n)'
      BY <1>1, SMTT(30), Z3T(30) DEF Held
    <3> QED BY <1>1, <1>2, <2>1, <2>2, <3>1, ZenonT(30) DEF TxShape
  <2>3. CASE u # t
    <3>1. tx[u].since \in Nat /\ Len(log) \in Nat /\ Len(log') \in Nat
      BY <1>0, <1>3, Types DEF TxState
    <3>2. tx'[u] = tx[u] /\ ts' = ts /\ Len(log) <= Len(log')
      BY <1>1, <1>2, <1>3, <2>3, Zenon
    <3>3. Held(tx[u].at) => Held(tx[u].at)'
      BY <1>9, <2>1, <3>2, ZenonT(30) DEF Held
    <3> QED BY ONLY <2>1, <3>1, <3>2, <3>3, SMTT(30), Z3T(30) DEF TxShape
  <2> QED BY <2>2, <2>3, SMTT(30), Z3T(30)
<1>11. ASSUME NEW g \in Collector PROVE GcShape(g)'
  <2>1. GcShape(g) /\ gc[g].at # n
    BY <1>1 DEF Shape, Unreferenced
  <2>2. ASSUME NEW u \in Tx, Active(u)' PROVE Active(u) /\ tx'[u].snap = tx[u].snap
    BY <1>1, <1>2, <2>2 DEF Active
  <2> QED BY <1>1, <1>9, <2>1, <2>2, SMTT(30), Z3T(30) DEF GcShape
<1> QED BY <1>6, <1>7, <1>8, <1>10, <1>11, ZenonT(30) DEF Shape
\* Under the write lock of a linked node: push.
LEMMA PushRecord ==
  ASSUME TypeOK, NEW t \in Tx, LockAndPush(t), tx[t].at \notin removed
  PROVE  \E r \in TxState :
            /\ chain' = [chain EXCEPT ![tx[t].at] = Push(@, Written(t))]
            /\ log' = Append(log, Written(t))
            /\ UNCHANGED <<ts, entry, removed, dirty, gc>>
            /\ tx' = [tx EXCEPT ![t] = r]
            /\ tx[t].pc = "lock" /\ r.pc = "dirty"
            /\ r.snap = tx[t].snap /\ r.may = tx[t].may /\ r.got = tx[t].got
<1>0. tx \in [Tx -> TxState]
  BY Types
<1>1. /\ chain' = [chain EXCEPT ![tx[t].at] = Push(@, Written(t))]
      /\ log' = Append(log, Written(t))
      /\ UNCHANGED <<ts, entry, removed, dirty, gc>> /\ tx[t].pc = "lock"
      /\ tx' = [tx EXCEPT ![t].pc = "dirty", ![t].at = NoNode]
  BY DEF LockAndPush
<1> DEFINE r == [tx[t] EXCEPT !.pc = "dirty", !.at = NoNode]
<1>2. r \in TxState /\ tx' = [tx EXCEPT ![t] = r]
  BY ONLY <1>0, <1>1, t \in Tx, ZenonT(30) DEF TxState, NodeOrNone
<1>3. r.pc = "dirty" /\ r.snap = tx[t].snap /\ r.may = tx[t].may /\ r.got = tx[t].got
  BY <1>0 DEF TxState
<1> HIDE DEF r
<1> QED BY <1>1, <1>2, <1>3, Zenon

LEMMA ShapePush ==
  ASSUME Counting, Shape, NEW t \in Tx, LockAndPush(t), tx[t].at \notin removed
  PROVE  Shape'
<1>0. /\ TypeOK /\ ChainsWellFormed /\ log \in Seq(Version) /\ Written(t) \in Version
      /\ chain \in [Node -> Seq(Version)]
  BY Types, WrittenVersion, SMTT(30), Z3T(30) DEF Shape
<1>1. PICK r \in TxState :
            /\ chain' = [chain EXCEPT ![tx[t].at] = Push(@, Written(t))]
            /\ log' = Append(log, Written(t))
            /\ UNCHANGED <<ts, entry, removed, dirty, gc>>
            /\ tx' = [tx EXCEPT ![t] = r]
            /\ tx[t].pc = "lock" /\ r.pc = "dirty"
            /\ r.snap = tx[t].snap /\ r.may = tx[t].may /\ r.got = tx[t].got
  BY <1>0, PushRecord, SMTT(30), Z3T(30)
<1>2. /\ tx' \in [Tx -> TxState] /\ tx'[t] = r
      /\ \A u \in Tx : u # t => tx'[u] = tx[u]
  BY <1>0, <1>1, TxUpdate, ZenonT(30)
<1>3. /\ log' \in Seq(Version) /\ Len(log) <= Len(log')
      /\ Records(log') = Records(log) \cup {Written(t)}
  <2>1. /\ log' \in Seq(Version) /\ Len(log') = Len(log) + 1
        /\ Records(log') = Records(log) \cup {Written(t)}
    BY <1>0, <1>1, RecordsAppend, Zenon
  <2>2. Len(log) \in Nat
    BY <1>0, SeqDomain, Zenon
  <2> QED BY ONLY <2>1, <2>2
<1>4. tx[t].at = entry /\ entry \in Node /\ chain[entry] \in Chain
      /\ Records(chain[entry]) \subseteq Records(log)
  <2>1. tx[t].at = entry /\ entry \in Node
    BY <1>1, SMTT(30), Z3T(30) DEF Shape, TxShape, Held
  <2> QED BY <1>0, <2>1, NodeAssumption, SMTT(30), Z3T(30) DEF Shape, ChainsWellFormed, Chain
<1>5. /\ Push(chain[entry], Written(t)) \in Seq(Version)
      /\ Ascending(Push(chain[entry], Written(t)))
      /\ Records(Push(chain[entry], Written(t))) \subseteq Records(chain[entry]) \cup {Written(t)}
  BY <1>0, <1>4, PushEffect, ZenonT(30) DEF Chain
<1>6. /\ chain' \in [Node -> Seq(Version)] /\ chain'[entry] = Push(chain[entry], Written(t))
      /\ \A m \in Node : m # entry => chain'[m] = chain[m]
  BY <1>0, <1>1, <1>4, <1>5, SMTT(30), Z3T(30)
<1>7. TypeOK'
  BY <1>0, <1>1, <1>2, <1>3, <1>6, SMTT(30), Z3T(30) DEF TypeOK, TxState
<1>8. ChainsWellFormed'
  BY <1>0, <1>1, <1>4, <1>5, <1>6, ZenonT(30) DEF ChainsWellFormed, Shape
<1>9. (entry \notin removed)' /\ (entry # NoNode => Records(chain[entry]) \subseteq Records(log))'
  BY <1>1, <1>3, <1>4, <1>5, <1>6, ZenonT(30) DEF Shape
<1>10. ASSUME NEW u \in Tx PROVE TxShape(u)'
  <2>1. TxShape(u) /\ TxShape(t)
    BY SMTT(30), Z3T(30) DEF Shape
  <2>2. CASE u = t
    BY <1>1, <1>2, <2>1, <2>2, ZenonT(30) DEF TxShape
  <2>3. CASE u # t
    <3>1. tx[u].since \in Nat /\ Len(log) \in Nat /\ Len(log') \in Nat
      BY <1>0, <1>3, Types DEF TxState
    <3>2. tx'[u] = tx[u] /\ ts' = ts /\ Len(log) <= Len(log')
      BY <1>1, <1>2, <1>3, <2>3, ZenonT(30)
    <3>3. Held(tx[u].at) => Held(tx[u].at)'
      <4>1. tx'[u].at = tx[u].at /\ entry' = entry /\ removed' = removed
        BY <1>1, <3>2, Zenon
      <4> QED BY ONLY <4>1, Zenon DEF Held
    <3> QED BY ONLY <2>1, <3>1, <3>2, <3>3, SMTT(30), Z3T(30) DEF TxShape
  <2> QED BY <2>2, <2>3
<1>11. ASSUME NEW g \in Collector PROVE GcShape(g)'
  <2>1. GcShape(g)
    BY DEF Shape
  <2>2. ASSUME NEW u \in Tx, Active(u)' PROVE Active(u) /\ tx'[u].snap = tx[u].snap
    BY <1>1, <1>2, <2>2 DEF Active
  <2> QED BY <1>1, <2>1, <2>2, ZenonT(30) DEF GcShape, Held
<1> QED BY <1>7, <1>8, <1>9, <1>10, <1>11 DEF Shape

Kept(g) == GcOlderVersions(chain[gc[g].at], gc[g].wm)

LEMMA CompactRecord ==
  ASSUME TypeOK, NEW g \in Collector, Compact(g)
  PROVE  /\ chain' = [chain EXCEPT ![gc[g].at] = Kept(g)]
         /\ removed' = IF Kept(g) = <<>> THEN removed \cup {gc[g].at} ELSE removed
         /\ entry' = IF Kept(g) = <<>> /\ entry = gc[g].at THEN NoNode ELSE entry
         /\ UNCHANGED <<ts, dirty, tx, log>>
         /\ gc[g].pc \in {"dirtyLock", "fullLock"}
         /\ \E r \in GcState :
               /\ gc' = [gc EXCEPT ![g] = r]
               /\ r.pc \in {"dirty", "idle"} /\ r.wm = gc[g].wm
<1>0. gc \in [Collector -> GcState]
  BY Types
<1> DEFINE pc == IF gc[g].pc = "dirtyLock" THEN "dirty" ELSE "idle"
           r == [gc[g] EXCEPT !.at = NoNode, !.pc = pc]
<1>1. /\ chain' = [chain EXCEPT ![gc[g].at] = Kept(g)]
      /\ removed' = IF Kept(g) = <<>> THEN removed \cup {gc[g].at} ELSE removed
      /\ entry' = IF Kept(g) = <<>> /\ entry = gc[g].at THEN NoNode ELSE entry
      /\ UNCHANGED <<ts, dirty, tx, log>>
      /\ gc[g].pc \in {"dirtyLock", "fullLock"}
  BY DEF Compact, Kept
<1>2. gc' = [gc EXCEPT ![g].at = NoNode, ![g].pc = pc] /\ pc \in {"dirty", "idle"}
  BY DEF Compact
<1> HIDE DEF pc
<1>3. r \in GcState /\ gc' = [gc EXCEPT ![g] = r]
  BY ONLY <1>0, <1>2, g \in Collector, Zenon DEF GcState, NodeOrNone
<1>4. r.pc = pc /\ r.wm = gc[g].wm
  BY <1>0, SMTT(30), Z3T(30) DEF GcState
<1> HIDE DEF r
<1> QED BY <1>1, <1>2, <1>3, <1>4, Zenon

\* What compaction keeps of the node it locked.
LEMMA KeptChain ==
  ASSUME Counting, Shape, NEW g \in Collector, gc[g].pc \in {"dirtyLock", "fullLock"}
  PROVE  /\ gc[g].at \in Node /\ chain[gc[g].at] \in Chain /\ gc[g].wm \in Nat
         /\ Kept(g) \in Chain /\ Records(Kept(g)) \subseteq Records(chain[gc[g].at])
         /\ \A s \in Nat : gc[g].wm <= s =>
               FetchVersion(Kept(g), s) = FetchVersion(chain[gc[g].at], s)
         /\ gc[g].at \in removed => Kept(g) = <<>>
<1>1. gc[g].at \in Node /\ gc[g].wm \in Nat
  BY Types, TimeAssumption, ZenonT(30) DEF Shape, GcShape, Held, GcState
<1>2. chain[gc[g].at] \in Chain
  BY <1>1, Types DEF Shape, ChainsWellFormed, Chain
<1>3. ASSUME gc[g].at \in removed PROVE Kept(g) = <<>>
  <2>1. chain[gc[g].at] = <<>>
    BY <1>1, <1>3 DEF Shape, ChainsWellFormed
  <2>2. Len(chain[gc[g].at]) = 0
    BY <2>1
  <2>3. Records(chain[gc[g].at]) = {}
    BY <2>2, SMTT(30), Z3T(30) DEF Records
  <2>4. Kept(g) \in Chain /\ Records(Kept(g)) = {}
    BY <1>1, <1>2, <2>3, GcEffect, SMTT(30), Z3T(30) DEF Kept
  <2>5. Kept(g) \in Seq(Version)
    BY <2>4, ChainTypes, SMTT(30), Z3T(30)
  <2>6. ASSUME Kept(g) # <<>> PROVE FALSE
    <3>1. 1 \in 1..Len(Kept(g))
      BY <2>5, <2>6, SeqEmpty, SMTT(30), Z3T(30)
    <3> QED BY <2>4, <3>1, ZenonT(30) DEF Records
  <2> QED BY <2>6
<1> QED BY <1>1, <1>2, <1>3, GcEffect, SMTT(30), Z3T(30) DEF Kept

LEMMA ShapeCompact ==
  ASSUME Counting, Shape, NEW g \in Collector, Compact(g)
  PROVE  Shape'
<1> DEFINE n == gc[g].at
<1>0. /\ TypeOK /\ ChainsWellFormed /\ chain \in [Node -> Seq(Version)]
      /\ removed \subseteq Node /\ entry \in NodeOrNone
  BY Types, SMTT(30), Z3T(30) DEF Shape
<1>1. /\ chain' = [chain EXCEPT ![n] = Kept(g)]
      /\ removed' = IF Kept(g) = <<>> THEN removed \cup {n} ELSE removed
      /\ entry' = IF Kept(g) = <<>> /\ entry = n THEN NoNode ELSE entry
      /\ UNCHANGED <<ts, dirty, tx, log>>
      /\ gc[g].pc \in {"dirtyLock", "fullLock"}
  BY <1>0, CompactRecord, SMTT(30), Z3T(30)
<1>2. PICK r \in GcState :
         gc' = [gc EXCEPT ![g] = r] /\ r.pc \in {"dirty", "idle"} /\ r.wm = gc[g].wm
  BY <1>0, CompactRecord
<1>3. /\ gc' \in [Collector -> GcState] /\ gc'[g] = r
      /\ \A h \in Collector : h # g => gc'[h] = gc[h]
  BY <1>0, <1>2, GcUpdate, ZenonT(30)
<1>4. /\ n \in Node /\ Kept(g) \in Chain /\ Records(Kept(g)) \subseteq Records(chain[n])
      /\ (n \in removed => Kept(g) = <<>>)
  BY <1>1, KeptChain, SMTT(30), Z3T(30)
<1>5. Kept(g) \in Seq(Version) /\ Ascending(Kept(g))
  BY <1>4, SMTT(30), Z3T(30) DEF Chain
<1>6. /\ chain' \in [Node -> Seq(Version)] /\ chain'[n] = Kept(g)
      /\ \A m \in Node : m # n => chain'[m] = chain[m]
  BY <1>0, <1>1, <1>4, <1>5, SMTT(30), Z3T(30)
<1>7. TypeOK'
  BY <1>0, <1>1, <1>3, <1>4, <1>6, SMTT(30), Z3T(30) DEF TypeOK, GcState, NodeOrNone
<1>8. ChainsWellFormed'
  BY <1>0, <1>1, <1>4, <1>5, <1>6, SMTT(30), Z3T(30) DEF ChainsWellFormed
<1>9. (entry \notin removed)' /\ (entry # NoNode => Records(chain[entry]) \subseteq Records(log))'
  BY <1>0, <1>1, <1>4, <1>6, NodeAssumption, ZenonT(30) DEF Shape, NodeOrNone
<1>10. \A m : Held(m) => Held(m)'
  BY <1>1, <1>4, SMTT(30), Z3T(30) DEF Held
<1>11. ASSUME NEW u \in Tx PROVE TxShape(u)'
  BY <1>1, <1>10, ZenonT(30) DEF Shape, TxShape
<1>12. ASSUME NEW h \in Collector PROVE GcShape(h)'
  <2>1. GcShape(h) /\ GcShape(g)
    BY SMTT(30), Z3T(30) DEF Shape
  <2>2. CASE h = g
    BY <1>1, <1>2, <1>3, <2>1, <2>2, SMTT(30), Z3T(30) DEF GcShape, Active
  <2>3. CASE h # g
    BY <1>1, <1>3, <1>10, <2>1, <2>3, SMTT(30), Z3T(30) DEF GcShape, Active
  <2> QED BY <2>2, <2>3, SMTT(30), Z3T(30)
<1> QED BY <1>7, <1>8, <1>9, <1>11, <1>12 DEF Shape

LEMMA ShapeKept ==
  ASSUME Counting, Shape, [Next]_vars PROVE Shape'
<1>1. ASSUME NEW t \in Tx, Begin(t) \/ AssignVersion(t) \/ Write(t) \/ Lookup(t) \/ Read(t)
      PROVE  Shape'
  BY <1>1, ShapeTx, ShapeAssign, ShapeInsert, ShapePush, SMTT(30), Z3T(30) DEF Write
<1>2. ASSUME NEW g \in Collector, StartGc(g) \/ Collect(g) PROVE Shape'
  BY <1>2, ShapeGc, ShapeCompact, SMTT(30), Z3T(30) DEF Collect
<1>3. CASE UNCHANGED vars
  BY <1>3, SMTT(30), Z3T(30) DEF vars, Shape, TypeOK, ChainsWellFormed, TxShape, GcShape, Held,
     Active
<1> QED BY <1>1, <1>2, <1>3 DEF Next

LEMMA ShapeInit == Init => Shape
<1> SUFFICES ASSUME Init PROVE Shape
  BY SMTT(30), Z3T(30)
<1>1. TypeOK
  BY TimeAssumption, SMTT(30), Z3T(30) DEF Init, TypeOK, NodeOrNone
<1>2. ChainsWellFormed
  BY SMTT(30), Z3T(30) DEF Init, ChainsWellFormed, Ascending
<1>3. \A t \in Tx : TxShape(t)
  BY SMTT(30), Z3T(30) DEF Init, TxShape
<1>4. \A g \in Collector : GcShape(g)
  BY SMTT(30), Z3T(30) DEF Init, GcShape
<1> QED BY <1>1, <1>2, <1>3, <1>4 DEF Init, Shape

-----------------------------------------------------------------------------
(* Exactness of reads *)

LEMMA BenignSame ==
  ASSUME UNCHANGED log PROVE Benign' <=> Benign
<1>1. log' = log
  OBVIOUS
<1> QED BY <1>1, SMTT(30), Z3T(30) DEF Benign, InOrder

\* What one more benign push may be.
LEMMA BenignPush ==
  ASSUME NEW v \in Version, log \in Seq(Version), log' = Append(log, v), Benign'
  PROVE  Benign /\ Tame(log, v) /\ Unique(log')
<1> DEFINE n == Len(log)
<1>0. /\ n \in Nat /\ Len(log') = n + 1 /\ log'[n + 1] = v
      /\ \A i \in 1..n : log'[i] = log[i]
  BY RecordsAppend, SMTT(30), Z3T(30)
<1>1. \A i \in 1..n : i \in 1..(n + 1) /\ i < n + 1
  BY <1>0
<1>2. n + 1 \in 1..(n + 1)
  BY <1>0, SMTT(30), Z3T(30)
<1>3. \A i, j \in 1..(n + 1) :
         log'[i].version = log'[j].version => log'[i].value = log'[j].value
  <2>1. \A i, j \in 1..Len(log') :
           log'[i].version = log'[j].version => log'[i].value = log'[j].value
    BY Zenon DEF Benign
  <2>2. Len(log') = n + 1
    BY <1>0
  <2> QED BY ONLY <2>1, <2>2, Zenon
<1>4. \/ \A i, j \in 1..(n + 1) : i < j =>
            log'[i].version < log'[j].version \/ \E k \in 1..i : log'[k] = log'[j]
      \/ \A i, j \in 1..(n + 1) :
            /\ log'[i].value # None
            /\ log'[i].value = log'[j].value => log'[i].version = log'[j].version
  <2>1. \/ \A i, j \in 1..Len(log') : i < j => InOrder(i, j)'
        \/ \A i, j \in 1..Len(log') :
              /\ log'[i].value # None
              /\ log'[i].value = log'[j].value => log'[i].version = log'[j].version
    BY Zenon DEF Benign
  <2>2. Len(log') = n + 1
    BY <1>0
  <2> HIDE DEF n
  <2>3. \A i, j : InOrder(i, j)' <=>
           log'[i].version < log'[j].version \/ \E k \in 1..i : log'[k] = log'[j]
    BY SMTT(30), Z3T(30) DEF InOrder
  <2> QED BY ONLY <2>1, <2>2, <2>3, Zenon
<1>5. Unique(log')
  BY <1>0, <1>3, SMTT(30), Z3T(30) DEF Unique, Records
<1>6. \A i, j \in 1..n : log[i].version = log[j].version => log[i].value = log[j].value
  BY <1>0, <1>1, <1>3
<1>7. CASE \A i, j \in 1..(n + 1) : i < j =>
              log'[i].version < log'[j].version \/ \E k \in 1..i : log'[k] = log'[j]
  <2>1. ASSUME NEW i \in 1..n, NEW j \in 1..n, i < j PROVE InOrder(i, j)
    <3>1. log'[i].version < log'[j].version \/ \E k \in 1..i : log'[k] = log'[j]
      BY <1>1, <1>7, <2>1, SMTT(30), Z3T(30)
    <3>2. \A k \in 1..i : k \in 1..n
      BY <1>0, SMTT(30), Z3T(30)
    <3> QED BY <1>0, <3>1, <3>2, SMTT(30), Z3T(30) DEF InOrder
  <2>2. Benign
    BY <1>6, <2>1, SMTT(30), Z3T(30) DEF Benign
  <2>3. ASSUME NEW i \in 1..n PROVE log[i].version < v.version \/ v \in Records(log)
    <3>1. log'[i].version < log'[n + 1].version \/ \E k \in 1..i : log'[k] = log'[n + 1]
      BY <1>1, <1>2, <1>7, SMTT(30), Z3T(30)
    <3>2. \A k \in 1..i : k \in 1..n
      BY <1>0, SMTT(30), Z3T(30)
    <3> QED BY <1>0, <3>1, <3>2, SMTT(30), Z3T(30) DEF Records
  <2>4. Tame(log, v)
    BY <2>3, SMTT(30), Z3T(30) DEF Tame, Records
  <2> QED BY <1>5, <2>2, <2>4, SMTT(30), Z3T(30)
<1>8. CASE \A i, j \in 1..(n + 1) :
              /\ log'[i].value # None
              /\ log'[i].value = log'[j].value => log'[i].version = log'[j].version
  <2>1. Benign
    BY <1>0, <1>1, <1>6, <1>8, SMTT(30), Z3T(30) DEF Benign
  <2>2. ASSUME v \notin Records(log), NEW i \in 1..n
        PROVE  log[i].value # None /\ log[i].value # v.value /\ log[i].version # v.version
    <3>1. log[i].value # None /\ (log[i].value = v.value <=> log[i].version = v.version)
      BY <1>0, <1>1, <1>2, <1>3, <1>8, SMTT(30), Z3T(30)
    <3>2. log[i] \in Version /\ log[i] # v
      BY <2>2, SeqElement, SMTT(30), Z3T(30) DEF Records
    <3>3. \A p, q \in Version : p.version = q.version /\ p.value = q.value => p = q
      BY SMTT(30), Z3T(30) DEF Version
    <3> QED BY <3>1, <3>2, <3>3, SMTT(30), Z3T(30)
  <2>3. \A i, j \in 1..n : log[i].value = log[j].value => log[i].version = log[j].version
    BY <1>0, <1>1, <1>8, SMTT(30), Z3T(30)
  <2>4. v.value # None
    BY <1>0, <1>2, <1>8, SMTT(30), Z3T(30)
  <2>5. Tame(log, v)
    BY <2>2, <2>3, <2>4, SMTT(30), Z3T(30) DEF Tame, Records
  <2> QED BY <1>5, <2>1, <2>5
<1> QED BY <1>4, <1>7, <1>8, ZenonT(30)

LEMMA PrefixKept ==
  ASSUME NEW l \in Seq(Version), NEW v \in Version, NEW m \in 0..Len(l)
  PROVE  SubSeq(Append(l, v), 1, m) = SubSeq(l, 1, m)
<1>1. Len(l) \in Nat /\ m \in Nat /\ m \in Int
  OBVIOUS
<1>2. \A i \in 1..m : l[i] \in Version /\ Append(l, v)[i] = l[i]
  BY <1>1, SeqElement, RecordsAppend, SMTT(30), Z3T(30)
<1>3. /\ SubSeq(l, 1, m) \in Seq(Version)
      /\ Len(SubSeq(l, 1, m)) = IF 1 <= m THEN m - 1 + 1 ELSE 0
      /\ \A i \in 1..(m - 1 + 1) : SubSeq(l, 1, m)[i] = l[1 + i - 1]
  BY <1>1, <1>2, SeqPart, SMTT(30), Z3T(30)
<1>4. /\ SubSeq(Append(l, v), 1, m) \in Seq(Version)
      /\ Len(SubSeq(Append(l, v), 1, m)) = IF 1 <= m THEN m - 1 + 1 ELSE 0
      /\ \A i \in 1..(m - 1 + 1) : SubSeq(Append(l, v), 1, m)[i] = Append(l, v)[1 + i - 1]
  BY <1>1, <1>2, SeqPart, SMTT(30), Z3T(30)
<1>5. ASSUME NEW i \in 1..Len(SubSeq(l, 1, m))
      PROVE  SubSeq(Append(l, v), 1, m)[i] = SubSeq(l, 1, m)[i]
  <2>1. i \in 1..m /\ i \in 1..(m - 1 + 1) /\ 1 + i - 1 = i
    BY <1>1, <1>3, SMTT(30), Z3T(30)
  <2> QED BY <1>2, <1>3, <1>4, <2>1, SMTT(30), Z3T(30)
<1> QED BY <1>3, <1>4, <1>5, SeqSame

\* Steps that change neither the chain nor the log, and give up no snapshot
\* that they did not read.
LEMMA ExactQuiet ==
  ASSUME Exact, UNCHANGED <<entry, chain, log>>,
         \A s \in Nat : Safe(s)' => Safe(s),
         \A u \in Tx : tx'[u].pc = "read" =>
            \/ tx'[u].at = entry
            \/ tx[u].pc = "read" /\ tx'[u].at = tx[u].at
               /\ tx'[u].since = tx[u].since /\ tx'[u].snap = tx[u].snap
  PROVE  Exact'
<1>1. Benign' => Benign
  BY BenignSame, ZenonT(30)
<1>2. ASSUME Benign, NEW s \in Nat, Safe(s)' PROVE Visible(s)' = Reference(s)'
  <2>1. Visible(s) = Reference(s)
    BY <1>2, SMTT(30), Z3T(30) DEF Exact
  <2>2. Visible(s)' = Visible(s) /\ Reference(s)' = Reference(s)
    BY SMTT(30), Z3T(30) DEF Visible, Reference
  <2> QED BY <2>1, <2>2, SMTT(30), Z3T(30)
<1>3. ASSUME Benign, NEW u \in Tx, tx'[u].pc = "read" PROVE Answerable(u)'
  BY <1>3, SMTT(30), Z3T(30) DEF Exact, Answerable
<1> QED BY <1>1, <1>2, <1>3, SMTT(30), Z3T(30) DEF Exact

\* A step of one transaction that leaves the store alone.
LEMMA ExactOwn ==
  ASSUME Shape, Exact, NEW t \in Tx, NEW r \in TxState, tx' = [tx EXCEPT ![t] = r],
         UNCHANGED <<ts, entry, chain, log>>,
         r.snap = ts \/ (r.snap = tx[t].snap /\ (Active(t)' => Active(t))),
         r.pc = "read" => r.at = entry
  PROVE  Exact'
<1>1. tx'[t] = r /\ \A u \in Tx : u # t => tx'[u] = tx[u]
  BY TxUpdate, ZenonT(30) DEF Shape
<1>2. ASSUME NEW s \in Nat, Safe(s)' PROVE Safe(s)
  <2>1. CASE ts' <= s
    BY <2>1, SMTT(30), Z3T(30) DEF Safe
  <2>2. ASSUME NEW u \in Tx, Active(u)', tx'[u].snap <= s PROVE Safe(s)
    <3>1. CASE u = t
      BY <1>1, <2>2, <3>1, SMTT(30), Z3T(30) DEF Safe
    <3>2. CASE u # t
      BY <1>1, <2>2, <3>2, SMTT(30), Z3T(30) DEF Safe, Active
    <3> QED BY <3>1, <3>2, SMTT(30), Z3T(30)
  <2> QED BY <1>2, <2>1, <2>2, SMTT(30), Z3T(30) DEF Safe
<1>3. ASSUME NEW u \in Tx, tx'[u].pc = "read"
      PROVE  \/ tx'[u].at = entry
             \/ tx[u].pc = "read" /\ tx'[u].at = tx[u].at
                /\ tx'[u].since = tx[u].since /\ tx'[u].snap = tx[u].snap
  BY <1>1, <1>3, SMTT(30), Z3T(30)
<1> QED BY <1>2, <1>3, ExactQuiet, SMTT(30), Z3T(30)

LEMMA ExactAssign ==
  ASSUME Shape, Exact, NEW t \in Tx, AssignVersion(t)
  PROVE  Exact'
<1>0. TypeOK /\ tx \in [Tx -> TxState] /\ ts \in Nat
  BY Types, TimeAssumption, SMTT(30), Z3T(30) DEF Shape
<1>1. PICK v \in Time, x \in Value \cup {None} :
         /\ v > tx[t].snap /\ ts' = IF v > ts THEN v ELSE ts
         /\ tx' = [tx EXCEPT ![t].pc = "insert", ![t].ver = v, ![t].val = x]
  BY Zenon DEF AssignVersion
<1>2. UNCHANGED <<entry, chain, log>> /\ tx[t].pc = "active"
  BY DEF AssignVersion
<1>3. ts <= ts' /\ ts' \in Nat
  BY <1>0, <1>1, TimeAssumption, SMTT(30), Z3T(30)
<1> DEFINE r == [tx[t] EXCEPT !.pc = "insert", !.ver = v, !.val = x]
<1>4. r \in TxState /\ tx' = [tx EXCEPT ![t] = r]
  BY <1>0, <1>1, ZenonT(30) DEF TxState
<1>5. r.pc = "insert" /\ r.snap = tx[t].snap
  BY <1>0 DEF TxState
<1> HIDE DEF r
<1>6. tx'[t] = r /\ \A u \in Tx : u # t => tx'[u] = tx[u]
  BY <1>0, <1>4, TxUpdate
<1>7. \A u \in Tx : (Active(u)' => Active(u)) /\ tx'[u].snap = tx[u].snap
  BY <1>2, <1>5, <1>6, SMTT(30), Z3T(30) DEF Active
<1>8. ASSUME NEW s \in Nat, Safe(s)' PROVE Safe(s)
  <2>1. CASE ts' <= s
    BY <1>0, <1>3, <2>1, SMTT(30), Z3T(30) DEF Safe
  <2>2. CASE \E u \in Tx : Active(u)' /\ tx'[u].snap <= s
    BY <1>7, <2>2, SMTT(30), Z3T(30) DEF Safe
  <2> QED BY <1>8, <2>1, <2>2, SMTT(30), Z3T(30) DEF Safe
<1>9. \A u \in Tx : tx'[u].pc = "read" =>
         tx[u].pc = "read" /\ tx'[u].at = tx[u].at
         /\ tx'[u].since = tx[u].since /\ tx'[u].snap = tx[u].snap
  BY <1>5, <1>6, SMTT(30), Z3T(30)
<1> QED BY <1>2, <1>8, <1>9, ExactQuiet, SMTT(30), Z3T(30)

\* What a read finds: the value owed now, or, in an unlinked node, nothing.
LEMMA ReadExact ==
  ASSUME Counting, Shape, Exact, Benign, NEW t \in Tx, tx[t].pc = "read"
  PROVE  FetchVersion(chain[tx[t].at], tx[t].snap)
            \in {Latest(SubSeq(log, 1, m), tx[t].snap) : m \in tx[t].since..Len(log)}
<1> DEFINE n == tx[t].at
           s == tx[t].snap
<1>0. /\ log \in Seq(Version) /\ Len(log) \in Nat /\ tx[t].since \in Nat
      /\ s \in Nat /\ tx[t].since <= Len(log) /\ Held(n)
  <2>1. TypeOK /\ TxShape(t)
    BY ZenonT(30) DEF Shape
  <2>2. log \in Seq(Version) /\ Len(log) \in Nat /\ tx \in [Tx -> TxState]
    BY <2>1, Types
  <2>3. tx[t].since \in Nat /\ tx[t].snap \in Nat
    BY <2>2, TimeAssumption, Zenon DEF TxState
  <2> QED BY <2>1, <2>2, <2>3, SMTT(30), Z3T(30) DEF TxShape
<1>1. Answerable(t) /\ Active(t)
  BY DEF Exact, Active
<1>2. CASE n = entry
  <2>1. Visible(s) = Reference(s)
    BY <1>0, <1>1, SMTT(30), Z3T(30) DEF Exact, Safe
  <2>2. Visible(s) = FetchVersion(chain[n], s)
    BY <1>0, <1>2, NodeAssumption, SMTT(30), Z3T(30) DEF Visible, Held
  <2>3. Reference(s) = Latest(SubSeq(log, 1, Len(log)), s)
    BY <1>0, SeqWhole, ZenonT(30) DEF Reference
  <2>4. Len(log) \in tx[t].since..Len(log)
    BY <1>0
  <2> QED BY <2>1, <2>2, <2>3, <2>4, ZenonT(30)
<1>3. CASE n # entry
  <2>1. n \in Node /\ chain[n] = <<>>
    BY <1>0, <1>3, SMTT(30), Z3T(30) DEF Held, Shape, ChainsWellFormed
  <2>2. chain[n] \in Chain /\ Records(chain[n]) = {}
    BY <2>1, SeqEmpty, SMTT(30), Z3T(30) DEF Chain, Ascending, Records
  <2>3. FetchVersion(chain[n], s) = None
    BY <1>0, <2>2, FetchNothing, SMTT(30), Z3T(30)
  <2> QED BY <1>1, <1>3, <2>3, SMTT(30), Z3T(30) DEF Answerable
<1> QED BY <1>2, <1>3, SMTT(30), Z3T(30)

\* One key's chain after a push, seen from any snapshot no watermark is above.
LEMMA ExactPushed ==
  ASSUME Counting, Shape, Exact, NEW t \in Tx, tx[t].pc \in {"insert", "lock"},
         log' = Append(log, Written(t)), Benign',
         NEW c \in Chain, Records(c) \subseteq Records(log),
         \A s \in Nat : Visible(s) = FetchVersion(c, s),
         NEW s \in Nat, Safe(s)
  PROVE  FetchVersion(Push(c, Written(t)), s) = Reference(s)'
<1> DEFINE v == Written(t)
<1>0. /\ TypeOK /\ log \in Seq(Version) /\ v \in Version /\ tx[t].snap \in Nat
      /\ tx[t].ver \in Nat /\ tx[t].snap < tx[t].ver
  <2>1. TypeOK /\ TxShape(t)
    BY DEF Shape
  <2>2. log \in Seq(Version) /\ tx \in [Tx -> TxState] /\ v \in Version
    BY <2>1, Types, WrittenVersion
  <2>3. tx[t].ver \in Nat /\ tx[t].snap \in Nat
    BY <2>2, TimeAssumption, ZenonT(30) DEF TxState
  <2> QED BY <2>1, <2>2, <2>3, SMTT(30), Z3T(30) DEF TxShape
<1>1. v.version = tx[t].ver
  BY ZenonT(30) DEF Written
<1>2. Safe(tx[t].ver)
  BY <1>0, SMTT(30), Z3T(30) DEF Safe, Active
<1> HIDE DEF v
<1>3. Benign /\ Tame(log, v) /\ Unique(Append(log, v))
  BY <1>0, BenignPush, SMTT(30), Z3T(30) DEF v
<1>4. \A u \in Nat : Safe(u) => FetchVersion(c, u) = Latest(log, u)
  BY <1>3, SMTT(30), Z3T(30) DEF Exact, Reference
<1>5. FetchVersion(Push(c, v), s) = Latest(Append(log, v), s)
  BY <1>0, <1>1, <1>2, <1>3, <1>4, PushExact, ZenonT(30)
<1> QED BY <1>5, SMTT(30), Z3T(30) DEF Reference, v

\* A reader's moment without a value stays in its interval.
LEMMA AnswerableKept ==
  ASSUME TypeOK, NEW t \in Tx, NEW v \in Version, log' = Append(log, v),
         NEW m \in tx[t].since..Len(log), Latest(SubSeq(log, 1, m), tx[t].snap) = None,
         tx'[t] = tx[t]
  PROVE  Answerable(t)'
<1>1. log \in Seq(Version) /\ Len(log) \in Nat /\ tx[t].since \in Nat
  <2>1. log \in Seq(Version) /\ tx[t] \in TxState
    BY Types, Zenon
  <2>2. tx[t].since \in Nat
    BY <2>1, ZenonT(30) DEF TxState
  <2> QED BY <2>1, <2>2, SeqDomain, Zenon
<1>2. m \in 0..Len(log) /\ Len(log') = Len(log) + 1
  BY <1>1, RecordsAppend, SMTT(30), Z3T(30)
<1>3. m \in tx'[t].since..Len(log')
  BY <1>1, <1>2
<1>4. SubSeq(log', 1, m) = SubSeq(log, 1, m)
  BY <1>1, <1>2, PrefixKept, SMTT(30), Z3T(30)
<1> QED BY <1>3, <1>4, ZenonT(30) DEF Answerable

LEMMA ExactPush ==
  ASSUME Counting, Shape, Exact, NEW t \in Tx, LockAndPush(t), tx[t].at \notin removed
  PROVE  Exact'
<1>0. /\ TypeOK /\ ChainsWellFormed /\ log \in Seq(Version) /\ Written(t) \in Version
      /\ chain \in [Node -> Seq(Version)]
  BY Types, WrittenVersion, SMTT(30), Z3T(30) DEF Shape
<1>1. PICK r \in TxState :
            /\ chain' = [chain EXCEPT ![tx[t].at] = Push(@, Written(t))]
            /\ log' = Append(log, Written(t))
            /\ UNCHANGED <<ts, entry, removed, dirty, gc>>
            /\ tx' = [tx EXCEPT ![t] = r]
            /\ tx[t].pc = "lock" /\ r.pc = "dirty"
            /\ r.snap = tx[t].snap /\ r.may = tx[t].may /\ r.got = tx[t].got
  BY <1>0, PushRecord, ZenonT(30)
<1>2. tx'[t] = r /\ \A u \in Tx : u # t => tx'[u] = tx[u]
  BY <1>0, <1>1, TxUpdate, ZenonT(30)
<1>3. tx[t].at = entry /\ entry \in Node /\ chain[entry] \in Chain
      /\ Records(chain[entry]) \subseteq Records(log)
  <2>1. tx[t].at = entry /\ entry \in Node
    BY <1>1, ZenonT(30) DEF Shape, TxShape, Held
  <2> QED BY <1>0, <2>1, NodeAssumption, SMTT(30), Z3T(30) DEF Shape, ChainsWellFormed, Chain
<1>4. chain'[entry] = Push(chain[entry], Written(t))
  BY <1>0, <1>1, <1>3, SMTT(30), Z3T(30)
<1>5. ASSUME NEW s \in Nat, Safe(s)' PROVE Safe(s)
  <2>1. \A u \in Tx : Active(u)' => Active(u) /\ tx'[u].snap = tx[u].snap
    BY <1>1, <1>2, SMTT(30), Z3T(30) DEF Active
  <2> QED BY <1>1, <1>5, <2>1, SMTT(30), Z3T(30) DEF Safe
<1>6. ASSUME Benign', NEW s \in Nat, Safe(s)' PROVE Visible(s)' = Reference(s)'
  <2>1. \A u \in Nat : Visible(u) = FetchVersion(chain[entry], u)
    BY <1>3, NodeAssumption, SMTT(30), Z3T(30) DEF Visible
  <2>2. FetchVersion(Push(chain[entry], Written(t)), s) = Reference(s)'
    BY <1>1, <1>3, <1>5, <1>6, <2>1, ExactPushed, SMTT(30), Z3T(30)
  <2>3. Visible(s)' = FetchVersion(chain'[entry], s)
    BY <1>1, <1>3, NodeAssumption, SMTT(30), Z3T(30) DEF Visible
  <2> QED BY <1>4, <2>2, <2>3, SMTT(30), Z3T(30)
<1>7. ASSUME Benign', NEW u \in Tx, tx'[u].pc = "read" PROVE Answerable(u)'
  <2>1. u # t /\ tx'[u] = tx[u]
    BY <1>1, <1>2, <1>7, SMTT(30), Z3T(30)
  <2>2. Benign
    BY <1>0, <1>1, <1>7, BenignPush, SMTT(30), Z3T(30)
  <2>3. Answerable(u)
    BY <1>7, <2>1, <2>2, ZenonT(30) DEF Exact
  <2>4. CASE tx[u].at = entry
    BY <1>1, <2>1, <2>4, SMTT(30), Z3T(30) DEF Answerable
  <2> QED BY <1>0, <1>1, <2>1, <2>3, <2>4, AnswerableKept, SMTT(30), Z3T(30) DEF Answerable
<1> QED BY <1>6, <1>7, SMTT(30), Z3T(30) DEF Exact

\* A chain begun with a version reads like one it was pushed onto.
LEMMA FromPush ==
  ASSUME Counting, NEW v \in Version, NEW s \in Nat
  PROVE  FetchVersion(From(v), s) = FetchVersion(Push(<<>>, v), s)
<1>1. CASE v.value # None
  BY <1>1 DEF From, Push
<1>2. CASE v.value = None
  <2>1. From(v) \in Chain /\ Records(From(v)) = {v}
    BY FromChain, SMTT(30), Z3T(30)
  <2>2. FetchVersion(From(v), s) = None
    BY <1>2, <2>1, FetchCases, SMTT(30), Z3T(30) DEF NewestAt
  <2>3. <<>> \in Chain /\ Records(<<>>) = {}
    BY SeqEmpty DEF Chain, Ascending, Records
  <2>4. FetchVersion(<<>>, s) = None
    BY <2>3, FetchNothing, SMTT(30), Z3T(30)
  <2> QED BY <1>2, <2>2, <2>4, SMTT(30), Z3T(30) DEF Push
<1> QED BY <1>1, <1>2

LEMMA ExactInsert ==
  ASSUME Counting, Shape, Exact, NEW t \in Tx, GetOrInsert(t), entry = NoNode
  PROVE  Exact'
<1>0. /\ TypeOK /\ ChainsWellFormed /\ log \in Seq(Version) /\ Written(t) \in Version
      /\ chain \in [Node -> Seq(Version)]
  BY Types, WrittenVersion, SMTT(30), Z3T(30) DEF Shape
<1>1. PICK n \in Node, r \in TxState :
            /\ Unreferenced(n) /\ entry' = n
            /\ chain' = [chain EXCEPT ![n] = From(Written(t))]
            /\ removed' = removed \ {n}
            /\ log' = Append(log, Written(t))
            /\ UNCHANGED <<ts, dirty, gc>>
            /\ tx' = [tx EXCEPT ![t] = r]
            /\ tx[t].pc = "insert" /\ r.pc = "lock" /\ r.at = n
            /\ r.snap = tx[t].snap /\ r.ver = tx[t].ver
            /\ r.may = tx[t].may /\ r.got = tx[t].got
  BY <1>0, InsertRecord, Zenon
<1>2. tx'[t] = r /\ \A u \in Tx : u # t => tx'[u] = tx[u]
  BY <1>0, <1>1, TxUpdate, ZenonT(30)
<1>3. chain'[n] = From(Written(t))
  BY <1>0, <1>1
<1>4. <<>> \in Chain /\ Records(<<>>) = {}
  BY SeqEmpty, SMTT(30), Z3T(30) DEF Chain, Ascending, Records
<1>5. ASSUME NEW s \in Nat, Safe(s)' PROVE Safe(s)
  <2>1. \A u \in Tx : Active(u)' => Active(u) /\ tx'[u].snap = tx[u].snap
    BY <1>1, <1>2, SMTT(30), Z3T(30) DEF Active
  <2> QED BY <1>1, <1>5, <2>1, SMTT(30), Z3T(30) DEF Safe
<1>6. ASSUME Benign', NEW s \in Nat, Safe(s)' PROVE Visible(s)' = Reference(s)'
  <2>1. \A u \in Nat : Visible(u) = FetchVersion(<<>>, u)
    BY <1>4, FetchNothing, SMTT(30), Z3T(30) DEF Visible
  <2>2. FetchVersion(Push(<<>>, Written(t)), s) = Reference(s)'
    BY <1>1, <1>4, <1>5, <1>6, <2>1, ExactPushed, SMTT(30), Z3T(30)
  <2>3. Visible(s)' = FetchVersion(chain'[n], s)
    BY <1>1, NodeAssumption, SMTT(30), Z3T(30) DEF Visible
  <2> QED BY <1>0, <1>3, <2>2, <2>3, FromPush, SMTT(30), Z3T(30)
<1>7. ASSUME Benign', NEW u \in Tx, tx'[u].pc = "read" PROVE Answerable(u)'
  <2>1. u # t /\ tx'[u] = tx[u]
    BY <1>1, <1>2, <1>7, SMTT(30), Z3T(30)
  <2>2. Benign
    BY <1>0, <1>1, <1>7, BenignPush, SMTT(30), Z3T(30)
  <2>3. Answerable(u) /\ tx[u].at # entry
    BY <1>7, <2>1, <2>2, NodeAssumption, ZenonT(30) DEF Exact, Shape, TxShape, Held
  <2> QED BY <1>0, <1>1, <2>1, <2>3, AnswerableKept, SMTT(30), Z3T(30) DEF Answerable
<1> QED BY <1>6, <1>7, ZenonT(30) DEF Exact

\* No watermark in use is above a snapshot that may still be read.
LEMMA SafeAboveWatermark ==
  ASSUME Shape, NEW g \in Collector, gc[g].pc # "idle", NEW s \in Nat, Safe(s)
  PROVE  gc[g].wm <= s
<1>1. TypeOK /\ GcShape(g)
  BY DEF Shape
<1>2. /\ ts \in Nat /\ gc[g].wm \in Nat
      /\ \A t \in Tx : tx[t].snap \in Nat
  BY <1>1, Types, TimeAssumption, ZenonT(30) DEF TxState, GcState
<1> QED BY <1>1, <1>2, SMTT(30), Z3T(30) DEF Safe, GcShape

LEMMA ExactCompact ==
  ASSUME Counting, Shape, Exact, NEW g \in Collector, Compact(g)
  PROVE  Exact'
<1> DEFINE n == gc[g].at
<1>0. /\ TypeOK /\ chain \in [Node -> Seq(Version)] /\ entry \in NodeOrNone
      /\ log \in Seq(Version) /\ Len(log) \in Nat
  BY Types, SMTT(30), Z3T(30) DEF Shape
<1>1. /\ chain' = [chain EXCEPT ![n] = Kept(g)]
      /\ entry' = IF Kept(g) = <<>> /\ entry = n THEN NoNode ELSE entry
      /\ UNCHANGED <<ts, dirty, tx, log>>
      /\ gc[g].pc \in {"dirtyLock", "fullLock"}
  BY <1>0, CompactRecord, SMTT(30), Z3T(30)
<1>2. n \in Node /\ Kept(g) \in Chain
  BY <1>1, KeptChain, SMTT(30), Z3T(30)
<1>3. ASSUME NEW s \in Nat, Safe(s)
      PROVE  FetchVersion(Kept(g), s) = FetchVersion(chain[n], s)
  BY <1>1, <1>3, KeptChain, SafeAboveWatermark, ZenonT(30)
<1>4. chain'[n] = Kept(g) /\ \A m \in Node : m # n => chain'[m] = chain[m]
  BY <1>0, <1>1, <1>2, SMTT(30), Z3T(30)
<1>5. ASSUME Kept(g) = <<>>, NEW s \in Nat PROVE FetchVersion(Kept(g), s) = None
  <2>1. Records(Kept(g)) = {}
    BY <1>5, SeqEmpty DEF Records
  <2> QED BY <1>2, <2>1, FetchNothing, SMTT(30), Z3T(30)
<1>6. ASSUME NEW s \in Nat, Safe(s) PROVE Visible(s)' = Visible(s)
  <2>1. CASE entry = n
    <3>1. Visible(s) = FetchVersion(chain[n], s)
      BY <1>2, <2>1, NodeAssumption, SMTT(30), Z3T(30) DEF Visible
    <3>2. Visible(s)' = FetchVersion(Kept(g), s)
      BY <1>1, <1>2, <1>4, <1>5, <2>1, NodeAssumption, SMTT(30), Z3T(30) DEF Visible
    <3> QED BY <1>3, <1>6, <3>1, <3>2, SMTT(30), Z3T(30)
  <2>2. CASE entry # n
    <3>1. entry' = entry /\ (entry \in Node => chain'[entry] = chain[entry])
      BY <1>1, <1>4, <2>2, ZenonT(30)
    <3> QED BY <1>0, <3>1, SMTT(30), Z3T(30) DEF Visible, NodeOrNone
  <2> QED BY <2>1, <2>2, SMTT(30), Z3T(30)
<1>7. (Benign' => Benign) /\ \A s \in Nat : Safe(s)' => Safe(s)
  <2>1. Benign' => Benign
    BY <1>1, BenignSame, ZenonT(30)
  <2>2. \A s \in Nat : Safe(s)' => Safe(s)
    BY <1>1, SMTT(30), Z3T(30) DEF Safe, Active
  <2> QED BY <2>1, <2>2, SMTT(30), Z3T(30)
<1>8. \A s : Reference(s)' = Reference(s)
  BY <1>1 DEF Reference
<1>9. ASSUME Benign, NEW t \in Tx, tx[t].pc = "read" PROVE Answerable(t)'
  <2>1. Answerable(t) /\ Active(t)
    BY <1>9, SMTT(30), Z3T(30) DEF Exact, Active
  <2>2. CASE tx[t].at = entry /\ entry' # entry
    <3>1. tx[t].snap \in Nat /\ tx[t].since \in Nat /\ tx[t].since <= Len(log)
      <4>1. tx \in [Tx -> TxState] /\ TxShape(t)
        BY <1>0, Types DEF Shape
      <4>2. tx[t].snap \in Nat /\ tx[t].since \in Nat
        BY <4>1, TimeAssumption, ZenonT(30) DEF TxState
      <4> QED BY <1>9, <4>1, <4>2, SMTT(30), Z3T(30) DEF TxShape
    <3>2. Safe(tx[t].snap)
      BY <2>1, <3>1, SMTT(30), Z3T(30) DEF Safe
    <3>3. Latest(log, tx[t].snap) = None
      <4>1. Visible(tx[t].snap) = Reference(tx[t].snap)
        BY <1>9, <3>1, <3>2, SMTT(30), Z3T(30) DEF Exact
      <4>2. ASSUME NEW s \in Nat, s = tx[t].snap PROVE Visible(s) = None
        <5>1. Visible(s)' = None
          BY <1>1, <2>2 DEF Visible
        <5> QED BY <1>6, <3>2, <4>2, <5>1, SMTT(30), Z3T(30)
      <4> QED BY <3>1, <4>1, <4>2, SMTT(30), Z3T(30) DEF Reference
    <3>4. SubSeq(log, 1, Len(log)) = log
      BY <1>0, SeqWhole, SMTT(30), Z3T(30)
    <3>5. Len(log) \in tx[t].since..Len(log)
      BY <1>0, <3>1, SMTT(30), Z3T(30)
    <3> QED BY <1>1, <3>3, <3>4, <3>5, ZenonT(30) DEF Answerable
  <2>3. CASE ~(tx[t].at = entry /\ entry' # entry)
    BY <1>1, <2>1, <2>3, SMTT(30), Z3T(30) DEF Answerable
  <2> QED BY <2>2, <2>3, SMTT(30), Z3T(30)
<1> QED BY <1>1, <1>6, <1>7, <1>8, <1>9, ZenonT(30) DEF Exact

\* Answers given stay; the one this step gives, if any, must be right.
LEMMA ReadsOwn ==
  ASSUME Shape, ReadsLinearizable, NEW t \in Tx, NEW r \in TxState,
         tx' = [tx EXCEPT ![t] = r], Benign' => Benign,
         Benign /\ r.pc = "done" /\ r.may # {} => r.got \in r.may
  PROVE  ReadsLinearizable'
<1>1. tx'[t] = r /\ \A u \in Tx : u # t => tx'[u] = tx[u]
  BY TxUpdate, ZenonT(30) DEF Shape
<1>2. ASSUME Benign, NEW u \in Tx, tx'[u].pc = "done", tx'[u].may # {}
      PROVE  tx'[u].got \in tx'[u].may
  <2>1. CASE u = t
    BY <1>1, <1>2, <2>1, SMTT(30), Z3T(30)
  <2>2. CASE u # t
    BY <1>1, <1>2, <2>2, SMTT(30), Z3T(30) DEF ReadsLinearizable
  <2> QED BY <2>1, <2>2, SMTT(30), Z3T(30)
<1> QED BY <1>2, SMTT(30), Z3T(30) DEF ReadsLinearizable

\* Steps of transactions that leave the store alone.
LEMMA ExactTx ==
  ASSUME Counting, DInv, NEW t \in Tx,
         \/ Begin(t) \/ MarkDirty(t) \/ Lookup(t) \/ Read(t)
         \/ GetOrInsert(t) /\ entry # NoNode
         \/ LockAndPush(t) /\ tx[t].at \in removed
  PROVE  Exact' /\ ReadsLinearizable'
<1>0. /\ Shape /\ Exact /\ ReadsLinearizable
      /\ TypeOK /\ ChainsWellFormed /\ TxShape(t)
  BY ZenonT(30) DEF DInv, Shape
<1>1. UNCHANGED <<ts, entry, chain, log>>
  BY ZenonT(30) DEF Begin, MarkDirty, Lookup, Read, GetOrInsert, LockAndPush
<1>2. Benign' => Benign
  BY <1>1, BenignSame, Zenon
<1>3. CASE Begin(t)
  <2>1. PICK r \in TxState :
            tx' = [tx EXCEPT ![t] = r] /\ r.pc = "active" /\ r.snap = ts
    BY <1>0, <1>3, BeginRecord, SMTT(30), Z3T(30)
  <2> QED BY <1>0, <1>1, <1>2, <2>1, ExactOwn, ReadsOwn, ZenonT(30)
<1>4. CASE MarkDirty(t)
  <2>1. PICK r \in TxState :
            /\ tx' = [tx EXCEPT ![t] = r]
            /\ tx[t].pc = "dirty" /\ r.pc = "done"
            /\ r.snap = tx[t].snap /\ r.may = tx[t].may /\ r.got = tx[t].got
    BY <1>0, <1>4, MarkRecord
  <2>2. (Active(t)' => Active(t)) /\ r.may = {}
    BY <1>0, <2>1, ZenonT(30) DEF Active, TxShape
  <2> QED BY <1>0, <1>1, <1>2, <2>1, <2>2, ExactOwn, ReadsOwn, ZenonT(30)
<1>5. CASE Lookup(t)
  <2>1. PICK r \in TxState :
            /\ tx' = [tx EXCEPT ![t] = r]
            /\ tx[t].pc = "active"
            /\ r.pc = IF entry = NoNode THEN "done" ELSE "read"
            /\ r.at = entry /\ r.snap = tx[t].snap /\ r.got = tx[t].got
            /\ r.may = IF entry = NoNode THEN {Reference(tx[t].snap)} ELSE {}
            /\ r.since = IF entry = NoNode THEN 0 ELSE Len(log)
    BY <1>0, <1>5, LookupRecord, ZenonT(30)
  <2>2. Active(t)
    BY <2>1, Zenon DEF Active
  <2>3. ASSUME Benign, r.pc = "done" PROVE r.got \in r.may
    <3>1. tx[t].snap \in Nat
      BY <1>0, Types, TimeAssumption, ZenonT(30) DEF TxState
    <3>2. Visible(tx[t].snap) = Reference(tx[t].snap)
      BY <1>0, <2>2, <2>3, <3>1 DEF Exact, Safe
    <3>3. entry = NoNode /\ r.got = None
      BY <1>0, <2>1, <2>3, ZenonT(30) DEF TxShape
    <3> QED BY <2>1, <3>2, <3>3, ZenonT(30) DEF Visible
  <2>4. Exact'
    BY <1>0, <1>1, <2>1, <2>2, ExactOwn, ZenonT(30)
  <2> QED BY <1>0, <1>2, <2>1, <2>3, <2>4, ReadsOwn, ZenonT(30)
<1>6. CASE Read(t)
  <2>1. tx[t].pc = "read" /\ tx[t].at \in Node /\ Active(t)
    BY <1>0, <1>6, Zenon DEF Read, TxShape, Held, Active
  <2>2. PICK r \in TxState :
            /\ tx' = [tx EXCEPT ![t] = r] /\ r.pc = "done" /\ r.snap = tx[t].snap
            /\ r.got = FetchVersion(chain[tx[t].at], tx[t].snap)
            /\ r.may = {Latest(SubSeq(log, 1, m), tx[t].snap) : m \in tx[t].since..Len(log)}
    BY <1>0, <1>6, <2>1, ReadRecord, ZenonT(30)
  <2>3. Benign => r.got \in r.may
    BY <1>0, <2>1, <2>2, ReadExact, ZenonT(30)
  <2>4. Exact'
    BY <1>0, <1>1, <2>1, <2>2, ExactOwn, ZenonT(30)
  <2> QED BY <1>0, <1>2, <2>2, <2>3, <2>4, ReadsOwn, ZenonT(30)
<1>7. CASE GetOrInsert(t) /\ entry # NoNode
  <2>1. PICK r \in TxState :
            /\ tx' = [tx EXCEPT ![t] = r]
            /\ tx[t].pc = "insert" /\ r.pc = "lock" /\ r.snap = tx[t].snap
    BY <1>0, <1>7, FoundRecord, SMTT(30), Z3T(30)
  <2>2. Active(t)
    BY <2>1, SMTT(30), Z3T(30) DEF Active
  <2> QED BY <1>0, <1>1, <1>2, <2>1, <2>2, ExactOwn, ReadsOwn, ZenonT(30)
<1>8. CASE LockAndPush(t) /\ tx[t].at \in removed
  <2>1. PICK r \in TxState :
            /\ tx' = [tx EXCEPT ![t] = r]
            /\ tx[t].pc = "lock" /\ r.pc = "insert" /\ r.snap = tx[t].snap
    BY <1>0, <1>8, RetryRecord, ZenonT(30)
  <2>2. Active(t)
    BY <2>1 DEF Active
  <2> QED BY <1>0, <1>1, <1>2, <2>1, <2>2, ExactOwn, ReadsOwn, ZenonT(30)
<1> QED BY <1>3, <1>4, <1>5, <1>6, <1>7, <1>8, SMTT(30), Z3T(30)

\* AssignVersion, and the writes that change the chain.
LEMMA ExactWrite ==
  ASSUME Counting, DInv, NEW t \in Tx,
         \/ AssignVersion(t)
         \/ GetOrInsert(t) /\ entry = NoNode
         \/ LockAndPush(t) /\ tx[t].at \notin removed
  PROVE  Exact' /\ ReadsLinearizable'
<1>0. Shape /\ Exact /\ ReadsLinearizable /\ TypeOK
  BY SMTT(30), Z3T(30) DEF DInv, Shape
<1>1. CASE AssignVersion(t)
  <2>0. tx \in [Tx -> TxState]
    BY <1>0, Types
  <2>1. PICK v \in Time, x \in Value \cup {None} :
           tx' = [tx EXCEPT ![t].pc = "insert", ![t].ver = v, ![t].val = x]
    BY <1>1, Zenon DEF AssignVersion
  <2> DEFINE r == [tx[t] EXCEPT !.pc = "insert", !.ver = v, !.val = x]
  <2>2. r \in TxState /\ tx' = [tx EXCEPT ![t] = r]
    BY <2>0, <2>1, ZenonT(30) DEF TxState
  <2>3. r.pc = "insert"
    BY <2>0 DEF TxState
  <2> HIDE DEF r
  <2>4. UNCHANGED log
    BY <1>1, Zenon DEF AssignVersion
  <2>5. Benign' => Benign
    BY <2>4, BenignSame, Zenon
  <2> QED BY <1>0, <1>1, <2>2, <2>3, <2>5, ExactAssign, ReadsOwn, ZenonT(30)
<1>2. CASE GetOrInsert(t) /\ entry = NoNode
  <2>1. PICK r \in TxState :
           tx' = [tx EXCEPT ![t] = r] /\ r.pc = "lock" /\ log' = Append(log, Written(t))
    BY <1>0, <1>2, InsertRecord, ZenonT(30)
  <2>2. Benign' => Benign
    BY <1>0, <2>1, BenignPush, WrittenVersion, Types, SMTT(30), Z3T(30)
  <2> QED BY <1>0, <1>2, <2>1, <2>2, ExactInsert, ReadsOwn, Zenon
<1>3. CASE LockAndPush(t) /\ tx[t].at \notin removed
  <2>1. PICK r \in TxState :
           tx' = [tx EXCEPT ![t] = r] /\ r.pc = "dirty" /\ log' = Append(log, Written(t))
    BY <1>0, <1>3, PushRecord, SMTT(30), Z3T(30)
  <2>2. Benign' => Benign
    BY <1>0, <2>1, BenignPush, WrittenVersion, Types, SMTT(30), Z3T(30)
  <2> QED BY <1>0, <1>3, <2>1, <2>2, ExactPush, ReadsOwn, ZenonT(30)
<1> QED BY <1>1, <1>2, <1>3, SMTT(30), Z3T(30)

LEMMA LinearizableKept ==
  ASSUME ReadsLinearizable, UNCHANGED <<tx, log>> PROVE ReadsLinearizable'
<1>1. Benign' <=> Benign
  BY BenignSame, Zenon
<1> QED BY <1>1, Zenon DEF ReadsLinearizable

LEMMA ExactGc ==
  ASSUME Counting, DInv, NEW g \in Collector,
         StartGc(g) \/ PopDirty(g) \/ DirtyEmpty(g) \/ FullScan(g) \/ Compact(g)
  PROVE  Exact' /\ ReadsLinearizable'
<1>0. Shape /\ Exact /\ ReadsLinearizable
  BY SMTT(30), Z3T(30) DEF DInv
<1>1. UNCHANGED <<ts, tx, log>>
  BY ZenonT(30) DEF StartGc, PopDirty, DirtyEmpty, FullScan, Compact
<1>2. ReadsLinearizable'
  BY <1>0, <1>1, LinearizableKept, ZenonT(30)
<1>3. CASE StartGc(g) \/ PopDirty(g) \/ DirtyEmpty(g) \/ FullScan(g)
  <2>1. UNCHANGED <<entry, chain>>
    BY <1>3, ZenonT(30) DEF StartGc, PopDirty, DirtyEmpty, FullScan
  <2>2. \A s \in Nat : Safe(s)' => Safe(s)
    BY <1>1, SMTT(30), Z3T(30) DEF Safe, Active
  <2> QED BY <1>0, <1>1, <1>2, <2>1, <2>2, ExactQuiet, SMTT(30), Z3T(30)
<1> QED BY <1>0, <1>2, <1>3, ExactCompact, SMTT(30), Z3T(30)

LEMMA DInvKept ==
  ASSUME Counting, DInv, [Next]_vars PROVE DInv'
<1>0. Shape'
  BY ShapeKept, SMTT(30), Z3T(30) DEF DInv
<1>1. ASSUME NEW t \in Tx, Begin(t) \/ AssignVersion(t) \/ Write(t) \/ Lookup(t) \/ Read(t)
      PROVE  Exact' /\ ReadsLinearizable'
  BY <1>1, ExactTx, ExactWrite, SMTT(30), Z3T(30) DEF Write
<1>2. ASSUME NEW g \in Collector, StartGc(g) \/ Collect(g)
      PROVE  Exact' /\ ReadsLinearizable'
  BY <1>2, ExactGc DEF Collect
<1>3. ASSUME UNCHANGED vars PROVE Exact' /\ ReadsLinearizable'
  <2>1. Exact /\ UNCHANGED <<ts, entry, chain, log, tx>>
    BY <1>3, SMTT(30), Z3T(30) DEF DInv, vars
  <2>2. \A s \in Nat : Safe(s)' => Safe(s)
    BY <2>1, SMTT(30), Z3T(30) DEF Safe, Active
  <2>3. Exact'
    BY <2>1, <2>2, ExactQuiet, ZenonT(30)
  <2>4. ReadsLinearizable'
    BY <2>1, LinearizableKept, Zenon DEF DInv
  <2> QED BY <2>3, <2>4
<1> QED BY <1>0, <1>1, <1>2, <1>3, SMTT(30), Z3T(30) DEF Next, DInv

LEMMA DInvInit ==
  ASSUME Counting, Init PROVE DInv
<1>1. log \in Seq(Version) /\ Records(log) = {}
  BY SeqEmpty, SMTT(30), Z3T(30) DEF Init, Records
<1>2. \A s \in Nat : Visible(s) = None /\ Reference(s) = None
  BY <1>1, LatestNothing, ZenonT(30) DEF Init, Visible, Reference
<1>3. \A t \in Tx : tx[t].pc = "idle"
  BY DEF Init
<1> QED BY <1>2, <1>3, ShapeInit, ZenonT(30) DEF DInv, Exact, ReadsLinearizable

-----------------------------------------------------------------------------
(* The theorems *)

F == INSTANCE FiniteSetTheorems

\* A set of naturals has a least element: among its initial segments one is
\* minimal, since the proper subset order on finite sets is well founded.
LEMMA LeastNat ==
  ASSUME NEW S \in SUBSET Nat, S # {}
  PROVE  \E m \in S : \A k \in S : m <= k
<1> DEFINE Family == {0..k : k \in S}
<1>1. Family \subseteq F!FiniteSubsetsOf(Nat) /\ Family # {}
  <2>1. ASSUME NEW k \in S PROVE 0..k \in SUBSET Nat /\ F!IsFiniteSet(0..k)
    BY F!FS_Interval, SMTT(30), Z3T(30)
  <2> QED BY <2>1, ZenonT(30) DEF F!FiniteSubsetsOf
<1>2. PICK x \in Family : \A y \in Family : ~(<<y, x>> \in F!StrictSubsetOrdering(Nat))
  <2> HIDE DEF Family
  <2> QED BY <1>1, F!WFMin, F!FS_StrictSubsetOrderingWellFounded, SMTT(30), Z3T(30)
<1>3. PICK m \in S : x = 0..m
  OBVIOUS
<1>4. ASSUME NEW k \in S, k < m PROVE FALSE
  <2>1. <<0..k, 0..m>> \in F!StrictSubsetOrdering(Nat)
    BY <1>4 DEF F!StrictSubsetOrdering
  <2> QED BY <2>1, <1>2, <1>3, ZenonT(30)
<1> QED BY <1>4

LEMMA Counted == Counting
<1>1. \A S \in SUBSET Nat : S # {} => \E m \in S : \A k \in S : m <= k
  BY LeastNat, Zenon
<1>2. \A n \in Nat : Cardinality(1..n) = n
  <2>1. \A S : F!Cardinality(S) = Cardinality(S)
    BY DEF F!Cardinality, Cardinality
  <2>2. \A n \in Nat : F!Cardinality(1..n) = n
    BY F!FS_Interval
  <2> QED BY <2>1, <2>2, ZenonT(30)
<1> QED BY <1>1, <1>2, ZenonT(30) DEF Counting

LEMMA ShapeHolds == Spec => []Shape
<1>1. Init => Shape
  BY ShapeInit
<1>2. Shape /\ [Next]_vars => Shape'
  BY ShapeKept, Counted, SMTT(30), Z3T(30)
<1> QED BY <1>1, <1>2, PTL DEF Spec

\* push keeps every chain ascending, whatever order versions arrive in, and no
\* write is stranded in a node the collector unlinked.
THEOREM ChainsOrdered == Spec => []ChainsWellFormed
<1>1. Shape => ChainsWellFormed
  BY DEF Shape
<1> QED BY <1>1, ShapeHolds, PTL

\* No collector works with a watermark that reaches a version whose writer has
\* not finished pushing it.
THEOREM WatermarkBelowWriters == Spec => []InFlightAboveWatermark
<1>1. ASSUME Shape PROVE InFlightAboveWatermark
  <2> SUFFICES ASSUME NEW t \in Tx, NEW g \in Collector,
                      tx[t].pc \in {"insert", "lock"}, gc[g].pc # "idle"
               PROVE  gc[g].wm < tx[t].ver
    BY SMTT(30), Z3T(30) DEF InFlightAboveWatermark
  <2>1. tx[t].snap < tx[t].ver /\ gc[g].wm <= tx[t].snap
    BY <1>1, ZenonT(30) DEF Shape, TxShape, GcShape, Active
  <2>2. tx[t].snap \in Nat /\ tx[t].ver \in Nat /\ gc[g].wm \in Nat
    BY <1>1, Types, TimeAssumption, ZenonT(30) DEF Shape, TxState, GcState
  <2> QED BY <2>1, <2>2, SMTT(30), Z3T(30)
<1> QED BY <1>1, ShapeHolds, PTL

LEMMA DInvHolds == Spec => []DInv
<1>1. Init => DInv
  BY DInvInit, Counted, SMTT(30), Z3T(30)
<1>2. DInv /\ [Next]_vars => DInv'
  BY DInvKept, Counted
<1> QED BY <1>1, <1>2, PTL DEF Spec

\* Any number of transactions and collectors, any versions and values: as long
\* as pushes are benign, every live snapshot reads the newest version at or
\* below it, whatever Compact dropped or unlinked and however often writers
\* retried.
THEOREM CollectionInvisible == Spec => []SnapshotReadsIntact
<1>1. DInv => SnapshotReadsIntact
  <2> SUFFICES ASSUME DInv, Benign, NEW t \in Tx, Active(t)
               PROVE  Visible(tx[t].snap) = Reference(tx[t].snap)
    BY DEF SnapshotReadsIntact
  <2>1. tx[t].snap \in Nat
    BY Types, TimeAssumption, ZenonT(30) DEF DInv, Shape, TxState
  <2>2. tx[t].snap <= tx[t].snap
    BY <2>1, SMTT(30), Z3T(30)
  <2>3. Safe(tx[t].snap)
    BY <2>2, ZenonT(30) DEF Safe
  <2> QED BY <2>1, <2>3, ZenonT(30) DEF DInv, Exact
<1> QED BY <1>1, DInvHolds, PTL

\* fetch_in_datastore answers what was current at some moment between its
\* lookup of the entry and its read of the chain, although the collector may
\* unlink the entry and a writer insert another one in between.
THEOREM ReadersLinearize == Spec => []ReadsLinearizable
<1>1. DInv => ReadsLinearizable
  BY DEF DInv
<1> QED BY <1>1, DInvHolds, PTL
=============================================================================
