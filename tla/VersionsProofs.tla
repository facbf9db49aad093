--------------------------- MODULE VersionsProofs ---------------------------
(***************************************************************************)
(* Proofs about the version chain: what fetch_version, push and            *)
(* gc_older_versions do to any chain, for any version.                     *)
(***************************************************************************)
EXTENDS Versions, TLAPS

-----------------------------------------------------------------------------
(* What the proofs use of sequences *)

LEMMA SeqElement ==
  ASSUME NEW S, NEW s \in Seq(S), NEW n \in 1..Len(s) PROVE s[n] \in S
OBVIOUS

LEMMA SeqDomain ==
  ASSUME NEW S, NEW s \in Seq(S) PROVE Len(s) \in Nat /\ DOMAIN s = 1..Len(s)
OBVIOUS

LEMMA SeqEmpty ==
  ASSUME NEW S
  PROVE  /\ << >> \in Seq(S) /\ Len(<< >>) = 0
         /\ \A s \in Seq(S) : s # << >> => Len(s) \in Nat \ {0}
OBVIOUS

LEMMA SeqPart ==
  ASSUME NEW S, NEW s, NEW m \in Int, NEW n \in Int, \A i \in m..n : s[i] \in S
  PROVE  /\ SubSeq(s, m, n) \in Seq(S)
         /\ Len(SubSeq(s, m, n)) = IF m <= n THEN n - m + 1 ELSE 0
         /\ \A i \in 1..(n - m + 1) : SubSeq(s, m, n)[i] = s[m + i - 1]
OBVIOUS

LEMMA SeqWhole ==
  ASSUME NEW S, NEW s \in Seq(S) PROVE SubSeq(s, 1, Len(s)) = s
OBVIOUS

LEMMA SeqSame ==
  ASSUME NEW S, NEW s \in Seq(S), NEW t \in Seq(S), Len(s) = Len(t),
         \A i \in 1..Len(s) : s[i] = t[i]
  PROVE  s = t
OBVIOUS

LEMMA SeqJoin ==
  ASSUME NEW S, NEW s \in Seq(S), NEW t \in Seq(S)
  PROVE  /\ s \o t \in Seq(S) /\ Len(s \o t) = Len(s) + Len(t)
         /\ \A i \in 1..(Len(s) + Len(t)) :
               (s \o t)[i] = IF i <= Len(s) THEN s[i] ELSE t[i - Len(s)]
OBVIOUS

LEMMA SeqJoinEmpty ==
  ASSUME NEW S, NEW s \in Seq(S) PROVE s \o << >> = s /\ << >> \o s = s
OBVIOUS

LEMMA SeqNoPart ==
  ASSUME NEW s, NEW m \in Int, NEW n \in Int, n < m PROVE SubSeq(s, m, n) = << >>
OBVIOUS

LEMMA SeqUpdate ==
  ASSUME NEW S, NEW s \in Seq(S), NEW i \in 1..Len(s), NEW e \in S
  PROVE  /\ [s EXCEPT ![i] = e] \in Seq(S) /\ Len([s EXCEPT ![i] = e]) = Len(s)
         /\ \A j \in 1..Len(s) : [s EXCEPT ![i] = e][j] = IF j = i THEN e ELSE s[j]
OBVIOUS

-----------------------------------------------------------------------------
(* Lemmas about version chains *)

\* What the lemmas use of numbers and finite sets: every set of naturals has a
\* least element, and an interval has its length as its size. They are
\* hypotheses here; the modules that use the lemmas, DatastoreProofs and
\* PublicationProofs, prove both once, at their end.
Counting ==
    /\ \A S \in SUBSET Nat : S # {} => \E m \in S : \A k \in S : m <= k
    /\ \A n \in Nat : Cardinality(1..n) = n

Option == Value \cup {None}

Chain == {c \in Seq(Version) : Ascending(c)}

\* The versions a chain holds.
Records(c) == {c[i] : i \in 1..Len(c)}

LEMMA ChainTypes ==
  ASSUME NEW c \in Chain
  PROVE  /\ c \in Seq(Version) /\ Len(c) \in Nat
         /\ \A i \in 1..Len(c) : /\ c[i] \in Version
                                 /\ c[i].version \in Nat
                                 /\ c[i].value \in Option
<1>1. c \in Seq(Version)
  BY DEF Chain
<1>2. \A i \in 1..Len(c) : c[i] \in Version
  BY <1>1
<1>3. \A r \in Version : r.version \in Nat /\ r.value \in Option
  BY DEF Version, Option
<1> QED BY <1>1, <1>2, <1>3

\* find_index_lte_version cuts an ascending chain in two.
LEMMA IndexCut ==
  ASSUME Counting, NEW c \in Chain, NEW s \in Nat
  PROVE  /\ FindIndexLte(c, s) \in 0..Len(c)
         /\ \A i \in 1..Len(c) : c[i].version <= s <=> i <= FindIndexLte(c, s)
<1> DEFINE n == Len(c)
           Above == {i \in 1..(n + 1) : i = n + 1 \/ ~(c[i].version <= s)}
<1>1. n \in Nat /\ \A i \in 1..n : c[i].version \in Nat
  BY ChainTypes
<1>2. PICK m \in Above : \A k \in Above : m <= k
  <2>1. Above \in SUBSET Nat /\ n + 1 \in Above
    BY <1>1
  <2> QED BY <2>1, Zenon DEF Counting
<1>3. {i \in 1..n : c[i].version <= s} = 1..(m - 1)
  <2>1. ASSUME NEW i \in 1..n, c[i].version <= s PROVE i \in 1..(m - 1)
    <3>1. SUFFICES ASSUME i >= m PROVE FALSE
      BY <1>1, <1>2
    <3>2. m \in 1..n /\ ~(c[m].version <= s) /\ i # m
      BY <1>1, <1>2, <2>1, <3>1
    <3>3. c[m].version < c[i].version
      BY <1>1, <3>1, <3>2 DEF Chain, Ascending
    <3> QED BY <1>1, <2>1, <3>2, <3>3
  <2>2. ASSUME NEW i \in 1..(m - 1) PROVE i \in 1..n /\ c[i].version <= s
    <3>1. i \in 1..n /\ i \in 1..(n + 1) /\ ~(m <= i)
      BY <1>1, <1>2
    <3>2. i \notin Above
      BY <1>2, <3>1, Zenon
    <3> QED BY <3>1, <3>2, Zenon
  <2> QED BY <2>1, <2>2
<1>4. FindIndexLte(c, s) = m - 1
  <2>1. m - 1 \in Nat
    BY <1>1, <1>2
  <2>2. Cardinality(1..(m - 1)) = m - 1
    BY <2>1, Zenon DEF Counting
  <2> QED BY <1>3, <2>2, Zenon DEF FindIndexLte
<1> QED BY <1>1, <1>2, <1>3, <1>4
\* r is the version a read at s should find among records R.
NewestAt(R, r, s) ==
    /\ r \in R /\ r.version <= s
    /\ \A q \in R : q.version <= s => q.version <= r.version

\* fetch_version answers with the newest version at or below s ...
LEMMA FetchNewest ==
  ASSUME Counting, NEW c \in Chain, NEW s \in Nat, NEW r, NewestAt(Records(c), r, s)
  PROVE  FetchVersion(c, s) = r.value
<1>1. PICK i \in 1..Len(c) : r = c[i]
  BY DEF NewestAt, Records
<1> DEFINE k == FindIndexLte(c, s)
<1>2. k \in 0..Len(c) /\ \A j \in 1..Len(c) : c[j].version <= s <=> j <= k
  BY IndexCut
<1>3. i <= k
  BY <1>1, <1>2 DEF NewestAt
<1>4. k \in 1..Len(c) /\ k > 0 /\ c[k] \in Records(c) /\ c[k].version <= s
  BY <1>2, <1>3, ChainTypes DEF Records
<1>5. c[k].version <= c[i].version
  BY <1>1, <1>4 DEF NewestAt
<1>6. ~(i < k)
  <2>1. ASSUME i < k PROVE c[i].version < c[k].version
    BY <1>4, <2>1 DEF Chain, Ascending
  <2>2. c[i].version \in Nat /\ c[k].version \in Nat
    BY <1>4, ChainTypes
  <2> QED BY <1>5, <2>1, <2>2
<1>7. i = k
  BY <1>3, <1>4, <1>6, ChainTypes
<1> QED BY <1>1, <1>4, <1>7 DEF FetchVersion

\* ... and None when there is none.
LEMMA FetchNothing ==
  ASSUME Counting, NEW c \in Chain, NEW s \in Nat, \A r \in Records(c) : ~(r.version <= s)
  PROVE  FetchVersion(c, s) = None
<1>1. FindIndexLte(c, s) \in 0..Len(c)
      /\ \A j \in 1..Len(c) : c[j].version <= s <=> j <= FindIndexLte(c, s)
  BY IndexCut
<1>2. ~(FindIndexLte(c, s) > 0)
  BY <1>1, ChainTypes DEF Records
<1> QED BY <1>2 DEF FetchVersion

LEMMA FetchCases ==
  ASSUME Counting, NEW c \in Chain, NEW s \in Nat
  PROVE  \/ /\ \A r \in Records(c) : ~(r.version <= s)
            /\ FindIndexLte(c, s) = 0
            /\ FetchVersion(c, s) = None
         \/ /\ FindIndexLte(c, s) \in 1..Len(c)
            /\ NewestAt(Records(c), c[FindIndexLte(c, s)], s)
            /\ FetchVersion(c, s) = c[FindIndexLte(c, s)].value
<1> DEFINE k == FindIndexLte(c, s)
<1>1. k \in 0..Len(c) /\ \A j \in 1..Len(c) : c[j].version <= s <=> j <= k
  BY IndexCut
<1>2. CASE k = 0
  <2>1. \A j \in 1..Len(c) : ~(c[j].version <= s)
    BY <1>1, <1>2
  <2> QED BY <1>2, <2>1, FetchNothing DEF Records
<1>3. CASE k # 0
  <2>1. k \in 1..Len(c) /\ k > 0
    BY <1>1, <1>3, ChainTypes
  <2>2. ASSUME NEW j \in 1..Len(c), c[j].version <= s
        PROVE  c[j].version <= c[k].version
    <3>1. j <= k /\ c[j].version \in Nat /\ c[k].version \in Nat
      BY <1>1, <2>1, <2>2, ChainTypes
    <3>2. j < k => c[j].version < c[k].version
      BY <2>1 DEF Chain, Ascending
    <3>3. j = k \/ j < k
      BY <1>1, <3>1, ChainTypes
    <3> QED BY <3>1, <3>2, <3>3
  <2>3. NewestAt(Records(c), c[k], s)
    BY <1>1, <2>1, <2>2, ChainTypes DEF NewestAt, Records
  <2> QED BY <2>1, <2>3, FetchNewest
<1> QED BY <1>2, <1>3

LEMMA RecordTypes ==
  ASSUME NEW c \in Chain
  PROVE  /\ \A r \in Records(c) : r \in Version /\ r.version \in Nat /\ r.value \in Option
         /\ \A q, r \in Records(c) : q.version = r.version => q = r
<1>1. \A r \in Records(c) : r \in Version /\ r.version \in Nat /\ r.value \in Option
  BY ChainTypes DEF Records
<1>2. ASSUME NEW i \in 1..Len(c), NEW j \in 1..Len(c), c[i].version = c[j].version
      PROVE  i = j
  <2>1. i < j => c[i].version < c[j].version
    BY DEF Chain, Ascending
  <2>2. j < i => c[j].version < c[i].version
    BY DEF Chain, Ascending
  <2> QED BY <1>2, <2>1, <2>2, ChainTypes
<1> QED BY <1>1, <1>2 DEF Records

-----------------------------------------------------------------------------
(* Lemmas about push and gc_older_versions *)

\* A chain with v put between positions k and k + 1, where it belongs.
LEMMA InsertSorted ==
  ASSUME NEW c \in Chain, NEW v \in Version, NEW k \in 0..Len(c),
         \A i \in 1..Len(c) : IF i <= k THEN c[i].version < v.version
                                        ELSE v.version < c[i].version
  PROVE  /\ InsertAt(c, k + 1, v) \in Chain
         /\ Records(InsertAt(c, k + 1, v)) = Records(c) \cup {v}
<1> DEFINE d == InsertAt(c, k + 1, v)
<1>0. c \in Seq(Version) /\ Len(c) \in Nat /\ k \in Nat
  BY ChainTypes
<1>1. /\ d \in Seq(Version) /\ Len(d) = Len(c) + 1
      /\ \A i \in 1..(Len(c) + 1) :
            d[i] = IF i <= k THEN c[i] ELSE IF i = k + 1 THEN v ELSE c[i - 1]
  <2> DEFINE a == SubSeq(c, 1, k)
             b == SubSeq(c, k + 1, Len(c))
  <2>1. /\ a \in Seq(Version) /\ Len(a) = k
        /\ \A i \in 1..k : a[i] = c[i]
    <3>1. \A i \in 1..k : c[i] \in Version
      BY <1>0, SeqElement
    <3> QED BY <1>0, <3>1, SeqPart
  <2>2. /\ b \in Seq(Version) /\ Len(b) = Len(c) - k
        /\ \A i \in 1..(Len(c) - k) : b[i] = c[k + i]
    <3>1. \A i \in (k + 1)..Len(c) : c[i] \in Version
      BY <1>0, SeqElement
    <3>2. k + 1 \in Int /\ Len(c) \in Int
      BY <1>0
    <3>3. /\ b \in Seq(Version)
          /\ Len(b) = IF k + 1 <= Len(c) THEN Len(c) - (k + 1) + 1 ELSE 0
          /\ \A i \in 1..(Len(c) - (k + 1) + 1) : b[i] = c[(k + 1) + i - 1]
      BY <3>1, <3>2, SeqPart
    <3>4. \A i \in 1..(Len(c) - k) : (k + 1) + i - 1 = k + i
      BY <1>0
    <3> QED BY <1>0, <3>3, <3>4
  <2> HIDE DEF a, b
  <2> DEFINE e == a \o <<v>>
  <2>3. /\ e \in Seq(Version) /\ Len(e) = k + 1
        /\ \A i \in 1..(k + 1) : e[i] = IF i <= k THEN a[i] ELSE v
    <3>1. <<v>> \in Seq(Version) /\ Len(<<v>>) = 1 /\ <<v>>[1] = v
      OBVIOUS
    <3> QED BY <1>0, <2>1, <3>1, SeqJoin
  <2>4. d = e \o b
    <3>1. (k + 1) - 1 = k
      BY <1>0
    <3> QED BY <3>1, Zenon DEF InsertAt, a, b
  <2> HIDE DEF d, e
  <2>5. /\ d \in Seq(Version) /\ Len(d) = Len(e) + Len(b)
        /\ \A i \in 1..(Len(e) + Len(b)) :
              d[i] = IF i <= Len(e) THEN e[i] ELSE b[i - Len(e)]
    BY <2>2, <2>3, <2>4, SeqJoin, Zenon
  <2>6. Len(e) + Len(b) = Len(c) + 1
    BY <1>0, <2>2, <2>3
  <2>7. ASSUME NEW i \in 1..(Len(c) + 1)
        PROVE  d[i] = IF i <= k THEN c[i] ELSE IF i = k + 1 THEN v ELSE c[i - 1]
    <3>0. d[i] = IF i <= k + 1 THEN e[i] ELSE b[i - (k + 1)]
      BY <2>3, <2>5, <2>6, SMTT(30), Z3T(30)
    <3>1. CASE i <= k
      <4>1. i \in 1..k /\ i \in 1..(k + 1) /\ i <= k + 1
        BY <1>0, <3>1
      <4> QED BY <2>1, <2>3, <3>0, <3>1, <4>1
    <3>2. CASE i = k + 1
      <4>1. i \in 1..(k + 1) /\ i <= k + 1 /\ ~(i <= k)
        BY <1>0, <3>2
      <4> QED BY <2>3, <3>0, <3>2, <4>1
    <3>3. CASE i > k + 1
      <4>1. i - (k + 1) \in 1..(Len(c) - k) /\ k + (i - (k + 1)) = i - 1
        BY ONLY <1>0, <3>3, i \in 1..(Len(c) + 1)
      <4>2. ~(i <= k) /\ ~(i <= k + 1) /\ i # k + 1
        BY ONLY <1>0, <3>3, i \in 1..(Len(c) + 1)
      <4> QED BY <2>2, <3>0, <4>1, <4>2, SMTT(30), Z3T(30)
    <3> QED BY <1>0, <3>1, <3>2, <3>3
  <2> QED BY <2>5, <2>6, <2>7
<1>2. \A i \in 1..Len(c) : c[i].version \in Nat
  BY ChainTypes
<1>3. v.version \in Nat
  BY DEF Version
<1>4. Ascending(d)
  <2> SUFFICES ASSUME NEW i \in 1..Len(d), NEW j \in 1..Len(d), i < j
               PROVE  d[i].version < d[j].version
    BY DEF Ascending
  <2>1. \A a, b \in 1..Len(c) : a < b => c[a].version < c[b].version
    BY DEF Chain, Ascending
  <2> HIDE DEF d
  <2>2. /\ i \in 1..(Len(c) + 1) /\ j \in 1..(Len(c) + 1)
        /\ d[i] = IF i <= k THEN c[i] ELSE IF i = k + 1 THEN v ELSE c[i - 1]
        /\ d[j] = IF j <= k THEN c[j] ELSE IF j = k + 1 THEN v ELSE c[j - 1]
    BY <1>1, Zenon
  <2>3. CASE j <= k
    <3>1. i \in 1..Len(c) /\ j \in 1..Len(c) /\ d[i] = c[i] /\ d[j] = c[j]
      BY <1>0, <2>2, <2>3
    <3> QED BY <2>1, <3>1
  <2>4. CASE j = k + 1
    <3>1. i \in 1..Len(c) /\ i <= k /\ d[i] = c[i] /\ d[j] = v
      BY <1>0, <2>2, <2>4
    <3> QED BY <3>1
  <2>5. CASE j > k + 1
    <3>1. j - 1 \in 1..Len(c) /\ ~(j - 1 <= k) /\ d[j] = c[j - 1]
      BY <1>0, <2>2, <2>5
    <3>2. CASE i <= k
      <4>1. i \in 1..Len(c) /\ i < j - 1 /\ d[i] = c[i]
        BY <1>0, <2>2, <2>5, <3>2
      <4> QED BY <2>1, <3>1, <4>1
    <3>3. CASE i = k + 1
      <4>1. d[i] = v
        BY <1>0, <2>2, <3>3
      <4> QED BY <3>1, <4>1
    <3>4. CASE i > k + 1
      <4>1. i - 1 \in 1..Len(c) /\ i - 1 < j - 1 /\ d[i] = c[i - 1]
        BY <1>0, <2>2, <3>4
      <4> QED BY <2>1, <3>1, <4>1, SMTT(30), Z3T(30)
    <3> QED BY <1>0, <3>2, <3>3, <3>4
  <2> QED BY <1>0, <2>2, <2>3, <2>4, <2>5
<1>5. Records(d) = Records(c) \cup {v}
  <2>1. ASSUME NEW r \in Records(d) PROVE r \in Records(c) \cup {v}
    BY <1>0, <1>1, SMTT(30), Z3T(30) DEF Records
  <2>2. ASSUME NEW i \in 1..Len(c) PROVE c[i] \in Records(d)
    <3>1. CASE i <= k
      BY <1>0, <1>1, <3>1, SMTT(30), Z3T(30) DEF Records
    <3>2. CASE i > k
      <4>1. i + 1 \in 1..Len(d) /\ d[i + 1] = c[i]
        BY <1>0, <1>1, <3>2, SMTT(30), Z3T(30)
      <4> QED BY <4>1 DEF Records
    <3> QED BY <1>0, <3>1, <3>2
  <2>3. v \in Records(d)
    <3>1. k + 1 \in 1..Len(d) /\ d[k + 1] = v
      BY <1>0, <1>1, SMTT(30), Z3T(30)
    <3> QED BY <3>1 DEF Records
  <2> QED BY <2>1, <2>2, <2>3, Zenon DEF Records
<1> QED BY <1>1, <1>4, <1>5 DEF Chain
\* push keeps a chain ascending.  It ignores a version whose value a read at
\* that version finds already, and otherwise puts it in its place.
LEMMA PushEffect ==
  ASSUME Counting, NEW c \in Chain, NEW v \in Version
  PROVE  /\ Push(c, v) \in Chain
         /\ \/ Push(c, v) = c /\ FetchVersion(c, v.version) = v.value
            \/ Records(Push(c, v)) = {r \in Records(c) : r.version # v.version} \cup {v}
<1> DEFINE n == Len(c)
           k == FindIndexLte(c, v.version)
<1>0. c \in Seq(Version) /\ n \in Nat /\ v.version \in Nat
  BY ChainTypes, Zenon DEF Version
<1>1. \A i \in 1..n : c[i].version \in Nat
  BY ChainTypes
<1>2. \A i, j \in 1..n : i < j => c[i].version < c[j].version
  BY DEF Chain, Ascending
<1>3. k \in 0..n /\ \A i \in 1..n : c[i].version <= v.version <=> i <= k
  BY <1>0, IndexCut, Zenon
<1>4. ASSUME \A i \in 1..n : c[i].version # v.version
      PROVE  /\ InsertAt(c, k + 1, v) \in Chain
             /\ Records(InsertAt(c, k + 1, v)) = {r \in Records(c) : r.version # v.version} \cup {v}
  <2>1. \A i \in 1..n : IF i <= k THEN c[i].version < v.version
                                  ELSE v.version < c[i].version
    BY <1>0, <1>1, <1>3, <1>4
  <2>2. Records(c) = {r \in Records(c) : r.version # v.version}
    BY <1>4 DEF Records
  <2> QED BY <1>3, <2>1, <2>2, InsertSorted
<1>5. ASSUME NEW m \in 1..n, c[m].version = v.version
      PROVE  /\ [c EXCEPT ![m] = v] \in Chain
             /\ Records([c EXCEPT ![m] = v]) = {r \in Records(c) : r.version # v.version} \cup {v}
  <2> DEFINE d == [c EXCEPT ![m] = v]
  <2>1. d \in Seq(Version) /\ Len(d) = n /\ \A j \in 1..n : d[j] = IF j = m THEN v ELSE c[j]
    BY <1>0, SeqUpdate
  <2> HIDE DEF d
  <2>2. \A j \in 1..n : d[j].version = c[j].version
    BY <1>5, <2>1
  <2>3. d \in Chain
    BY <1>2, <2>1, <2>2 DEF Chain, Ascending
  <2>4. \A j \in 1..n : c[j].version = v.version => j = m
    BY <1>0, <1>1, <1>2, <1>5
  <2>5. Records(d) = {r \in Records(c) : r.version # v.version} \cup {v}
    <3>1. ASSUME NEW j \in 1..n
          PROVE  d[j] \in {r \in Records(c) : r.version # v.version} \cup {v}
      BY <2>1, <2>4 DEF Records
    <3>2. ASSUME NEW j \in 1..n, c[j].version # v.version PROVE c[j] \in Records(d)
      <4>1. d[j] = c[j]
        BY <1>5, <2>1, <3>2
      <4> QED BY <2>1, <4>1 DEF Records
    <3>3. v \in Records(d)
      BY <2>1 DEF Records
    <3> QED BY <2>1, <3>1, <3>2, <3>3, SMTT(30), Z3T(30) DEF Records
  <2> QED BY <2>3, <2>5, Zenon DEF d
<1>6. CASE c = <<>>
  <2>1. n = 0 /\ Records(c) = {} /\ FetchVersion(c, v.version) = None
    <3>1. n = 0
      BY <1>6
    <3>2. Records(c) = {}
      BY <3>1 DEF Records
    <3> QED BY <1>0, <3>1, <3>2, FetchNothing
  <2>2. <<v>> \in Chain /\ Records(<<v>>) = {v}
    <3>1. <<v>> \in Seq(Version) /\ Len(<<v>>) = 1 /\ <<v>>[1] = v
      OBVIOUS
    <3> QED BY <3>1 DEF Chain, Ascending, Records
  <2> QED BY <1>6, <2>1, <2>2 DEF Push
<1>7. CASE c # <<>> /\ v.version > c[n].version
  <2>1. n \in 1..n
    BY <1>0, <1>7, SeqEmpty
  <2>2. \A i \in 1..n : c[i].version < v.version
    BY <1>0, <1>1, <1>2, <1>7, <2>1
  <2>3. k = n
    <3>1. n <= k
      BY <1>0, <1>1, <1>3, <2>1, <2>2
    <3> QED BY <1>0, <1>3, <3>1
  <2>4. CASE v.value = c[n].value
    <3>1. FetchVersion(c, v.version) = v.value
      BY <2>1, <2>3, <2>4 DEF FetchVersion
    <3>2. Push(c, v) = c
      BY <1>0, <1>1, <1>7, <2>1, <2>4 DEF Push
    <3> QED BY <3>1, <3>2
  <2>5. CASE v.value # c[n].value
    <3>1. Push(c, v) = Append(c, v)
      BY <1>0, <1>1, <1>7, <2>1, <2>5 DEF Push
    <3>2. Append(c, v) = InsertAt(c, k + 1, v)
      <4>1. SubSeq(c, 1, (n + 1) - 1) = c /\ SubSeq(c, n + 1, n) = <<>>
        <5>1. (n + 1) - 1 = n /\ n < n + 1 /\ n \in Int /\ n + 1 \in Int
          BY <1>0
        <5> QED BY <1>0, <5>1, SeqWhole, SeqNoPart
      <4>2. InsertAt(c, n + 1, v) = (c \o <<v>>) \o <<>>
        BY <4>1, Zenon DEF InsertAt
      <4>3. c \o <<v>> = Append(c, v) /\ Append(c, v) \in Seq(Version)
        BY <1>0
      <4> QED BY <2>3, <4>2, <4>3, SeqJoinEmpty
    <3>3. \A i \in 1..n : c[i].version # v.version
      BY <1>0, <1>1, <2>2
    <3> QED BY <1>4, <3>1, <3>2, <3>3
  <2> QED BY <2>4, <2>5
<1>8. CASE c # <<>> /\ v.version = c[n].version
  <2>1. n \in 1..n
    BY <1>0, <1>8, SeqEmpty
  <2>2. Push(c, v) = [c EXCEPT ![n] = v]
    BY <1>0, <1>1, <1>8, <2>1 DEF Push
  <2> QED BY <1>5, <1>8, <2>1, <2>2, Zenon
<1>9. CASE c # <<>> /\ v.version < c[n].version
  <2>1. n \in 1..n
    BY <1>0, <1>9, SeqEmpty
  <2>2. Push(c, v) = InsertOrUpdate(c, v)
    BY <1>0, <1>1, <1>9, <2>1 DEF Push
  <2>3. CASE k = 0
    <3>1. \A i \in 1..n : c[i].version # v.version
      BY <1>0, <1>1, <1>3, <2>3
    <3>2. FetchVersion(c, v.version) = None
      BY <2>3 DEF FetchVersion
    <3>3. v.value = None => InsertOrUpdate(c, v) = c
      BY <2>3 DEF InsertOrUpdate
    <3>4. v.value # None => InsertOrUpdate(c, v) = InsertAt(c, k + 1, v)
      BY <2>3 DEF InsertOrUpdate
    <3> QED BY <1>4, <2>2, <3>1, <3>2, <3>3, <3>4
  <2>4. CASE k > 0 /\ c[k].version = v.version
    <3>1. k \in 1..n
      BY <1>0, <1>3, <2>4
    <3>2. InsertOrUpdate(c, v) = [c EXCEPT ![k] = v]
      BY <1>0, <1>3, <2>4 DEF InsertOrUpdate
    <3> QED BY <1>5, <2>2, <2>4, <3>1, <3>2, Zenon
  <2>5. CASE k > 0 /\ c[k].version # v.version
    <3>1. k \in 1..n
      BY <1>0, <1>3, <2>5
    <3>2. \A i \in 1..n : c[i].version # v.version
      BY <1>0, <1>1, <1>2, <1>3, <2>5, <3>1
    <3>3. c[k].value = v.value =>
             InsertOrUpdate(c, v) = c /\ FetchVersion(c, v.version) = v.value
      BY <1>0, <1>3, <2>5 DEF InsertOrUpdate, FetchVersion
    <3>4. c[k].value # v.value => InsertOrUpdate(c, v) = InsertAt(c, k + 1, v)
      BY <1>0, <1>3, <2>5 DEF InsertOrUpdate
    <3> QED BY <1>4, <2>2, <3>2, <3>3, <3>4
  <2> QED BY <1>0, <1>3, <2>3, <2>4, <2>5
<1> QED
  <2>1. c # <<>> => n \in 1..n
    BY <1>0, SeqEmpty
  <2> QED BY <1>0, <1>1, <1>6, <1>7, <1>8, <1>9, <2>1
\* gc_older_versions drops versions, never one that a read at or above the
\* watermark would have found.
LEMMA GcEffect ==
  ASSUME Counting, NEW c \in Chain, NEW w \in Nat
  PROVE  /\ GcOlderVersions(c, w) \in Chain
         /\ Records(GcOlderVersions(c, w)) \subseteq Records(c)
         /\ \A s \in Nat : w <= s =>
               FetchVersion(GcOlderVersions(c, w), s) = FetchVersion(c, s)
<1> DEFINE n == Len(c)
           k == FindIndexLte(c, w)
           d == GcOlderVersions(c, w)
<1>0. c \in Seq(Version) /\ n \in Nat
  BY ChainTypes
<1>1. \A i \in 1..n : c[i] \in Version /\ c[i].version \in Nat
  BY ChainTypes
<1>2. \A i, j \in 1..n : i < j => c[i].version < c[j].version
  BY DEF Chain, Ascending
<1>3. k \in 0..n /\ \A i \in 1..n : c[i].version <= w <=> i <= k
  BY IndexCut, ZenonT(30)
<1>4. CASE k = 0
  BY <1>4 DEF GcOlderVersions
<1>5. CASE k # 0
  <2> DEFINE m == IF c[k].value = None THEN k + 1 ELSE k
  <2>1. /\ k \in 1..n /\ m \in 1..(n + 1) /\ (m = k \/ m = k + 1)
        /\ (m = k + 1 => c[k].value = None)
    BY <1>0, <1>3, <1>5
  <2>2. d = SubSeq(c, m, n)
    BY <1>5, Zenon DEF GcOlderVersions
  <2> HIDE DEF d, m
  <2>3. /\ d \in Seq(Version) /\ Len(d) = n - m + 1
        /\ \A i \in 1..(n - m + 1) : d[i] = c[m + i - 1]
    <3>1. m \in Int /\ n \in Int /\ \A i \in m..n : c[i] \in Version
      BY <1>0, <1>1, <2>1
    <3>2. /\ SubSeq(c, m, n) \in Seq(Version)
          /\ Len(SubSeq(c, m, n)) = IF m <= n THEN n - m + 1 ELSE 0
          /\ \A i \in 1..(n - m + 1) : SubSeq(c, m, n)[i] = c[m + i - 1]
      BY <3>1, SeqPart
    <3> QED BY <1>0, <2>1, <2>2, <3>2, SMTT(30), Z3T(30)
  <2>4. Records(d) = {c[i] : i \in m..n}
    <3>1. ASSUME NEW i \in 1..Len(d) PROVE d[i] \in {c[j] : j \in m..n}
      <4>1. m + i - 1 \in m..n
        BY <1>0, <2>1, <2>3
      <4> QED BY <2>3, <4>1
    <3>2. ASSUME NEW j \in m..n PROVE c[j] \in Records(d)
      <4>1. j - m + 1 \in 1..Len(d) /\ m + (j - m + 1) - 1 = j
        BY <1>0, <2>1, <2>3
      <4>2. d[j - m + 1] = c[j]
        BY <2>3, <4>1
      <4> QED BY <4>1, <4>2 DEF Records
    <3> QED BY <3>1, <3>2 DEF Records
  <2>5. Records(d) \subseteq Records(c)
    BY <1>0, <2>1, <2>4, SMTT(30), Z3T(30) DEF Records
  <2>6. Ascending(d)
    <3> SUFFICES ASSUME NEW i \in 1..Len(d), NEW j \in 1..Len(d), i < j
                 PROVE  d[i].version < d[j].version
      BY DEF Ascending
    <3>1. m + i - 1 \in 1..n /\ m + j - 1 \in 1..n /\ m + i - 1 < m + j - 1
      BY <1>0, <2>1, <2>3
    <3>2. c[m + i - 1].version < c[m + j - 1].version
      BY <1>2, <3>1
    <3> QED BY <2>3, <3>2
  <2>7. d \in Chain
    BY <2>3, <2>6 DEF Chain
  <2>8. ASSUME NEW s \in Nat, w <= s
        PROVE  FetchVersion(d, s) = FetchVersion(c, s)
    <3> DEFINE h == FindIndexLte(c, s)
    <3>1. h \in 0..n /\ \A i \in 1..n : c[i].version <= s <=> i <= h
      BY IndexCut
    <3>2. h \in 1..n /\ k <= h
      <4>1. c[k].version <= s
        BY <1>0, <1>1, <1>3, <2>1, <2>8
      <4> QED BY <1>0, <2>1, <3>1, <4>1
    <3>3. FetchVersion(c, s) = c[h].value /\ NewestAt(Records(c), c[h], s)
      BY <1>0, <3>2, FetchCases
    <3>4. CASE m <= h
      <4>1. c[h] \in Records(d)
        BY <1>0, <2>1, <2>4, <3>2, <3>4
      <4>2. NewestAt(Records(d), c[h], s)
        BY <2>5, <3>3, <4>1 DEF NewestAt
      <4> QED BY <2>7, <3>3, <4>2, FetchNewest
    <3>5. CASE ~(m <= h)
      <4>1. m = k + 1 /\ h = k
        BY <1>0, <2>1, <3>2, <3>5
      <4>2. FetchVersion(c, s) = None
        BY <2>1, <3>3, <4>1
      <4>3. \A i \in m..n : ~(c[i].version <= s)
        BY <1>0, <2>1, <3>1, <4>1
      <4>4. \A r \in Records(d) : ~(r.version <= s)
        BY <2>4, <4>3
      <4> QED BY <2>7, <4>2, <4>4, FetchNothing
    <3> QED BY <3>4, <3>5
  <2> QED BY <2>5, <2>7, <2>8 DEF d
<1> QED BY <1>4, <1>5
=============================================================================
