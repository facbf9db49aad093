---------------------------- MODULE WorkersProofs ---------------------------
(***************************************************************************)
(* Proofs about the background threads of a Database, for any transaction  *)
(* handles, options, batch size and number of commits.                     *)
(***************************************************************************)
EXTENDS Workers, TLAPS

\* The workers that hold Inner.
Holder == {"snapshot", "cleanup", "gc"}

-----------------------------------------------------------------------------
(* Lists of steps *)

LEMMA SeqTail ==
  ASSUME NEW S, NEW s \in Seq(S), s # <<>>
  PROVE  /\ Len(s) \in Nat \ {0} /\ Head(s) = s[1] /\ Tail(s) \in Seq(S)
         /\ Len(Tail(s)) = Len(s) - 1
         /\ \A i \in 1..(Len(s) - 1) : Tail(s)[i] = s[i + 1]
OBVIOUS

LEMMA SeqSkip ==
  ASSUME NEW S, NEW s \in Seq(S)
  PROVE  /\ SubSeq(s, 4, Len(s)) \in Seq(S)
         /\ Len(SubSeq(s, 4, Len(s))) = IF Len(s) >= 3 THEN Len(s) - 3 ELSE 0
         /\ \A i \in 1..(Len(s) - 3) : SubSeq(s, 4, Len(s))[i] = s[i + 3]
<1>1. Len(s) \in Nat /\ \A i \in 4..Len(s) : s[i] \in S
  OBVIOUS
<1> QED BY <1>1

LEMMA SeqJoin ==
  ASSUME NEW S, NEW s \in Seq(S), NEW t \in Seq(S)
  PROVE  /\ s \o t \in Seq(S) /\ Len(s \o t) = Len(s) + Len(t)
         /\ \A i \in 1..(Len(s) + Len(t)) :
               (s \o t)[i] = IF i <= Len(s) THEN s[i] ELSE t[i - Len(s)]
OBVIOUS

\* Every step of s is one of A.
Within(s, A) == \A i \in 1..Len(s) : s[i] \in A

\* take, unpark and join come together.
Stops(s) ==
    \A i \in 1..Len(s) : s[i][1] = "take" =>
        /\ i + 2 <= Len(s)
        /\ s[i + 1] = <<"unpark", s[i][2]>> /\ s[i + 2] = <<"join", s[i][2]>>

\* The handle of worker w is taken before the step `mark' is reached.
Frees(s, w, mark) ==
    \E n \in 1..Len(s) : s[n] = <<"take", w>> /\ \A i \in 1..n : s[i][1] # mark

\* With the handles of h in their fields, worker w is stopped before `mark':
\* its handle is still to be taken, or the thread is about to join w.
Awaits(s, h, w, mark) ==
    \/ w \in h /\ Frees(s, w, mark)
    \/ Len(s) >= 1 /\ s[1] = <<"join", w>>
    \/ Len(s) >= 2 /\ s[1] = <<"unpark", w>> /\ s[2] = <<"join", w>>

\* load is next, or comes after the start of the oracle's thread only.
LoadFirst(s) ==
    \E n \in 1..Len(s) : s[n] = <<"load", "none">> /\ \A i \in 1..(n - 1) : s[i] = <<"spawn",
  "resync">>

LoadOnce(s) == \A i, j \in 1..Len(s) : s[i][1] = "load" /\ s[j][1] = "load" => i = j

Ahead(s, op) == \E n \in 1..Len(s) : s[n][1] = op

OracleSteps == {<<"clear", "oracle">>, <<"take", "resync">>,
                <<"unpark", "resync">>, <<"join", "resync">>}

ClientSteps == OracleSteps \cup {<<"wake", "append">>}

OpenSteps(persist) ==
    {<<"spawn", w>> : w \in IF persist THEN Worker ELSE {"resync", "cleanup", "gc"}}
    \cup IF persist THEN {<<"load", "none">>, <<"backfill", "none">>} ELSE {}

CloseSteps ==
    {<<"clear", f>> : f \in {"oracle", "inner", "persist"}}
    \cup ({"take", "unpark", "join"} \X Worker)
    \cup {<<"release", "none">>, <<"sync", "none">>}

LEMMA TailList ==
  ASSUME NEW s \in Seq(Call), s # <<>>
  PROVE  /\ Tail(s) \in Seq(Call)
         /\ \A A : Within(s, A) => s[1] \in A /\ Within(Tail(s), A)
         /\ Stops(s) => Stops(Tail(s))
         /\ \A op : Ahead(s, op) /\ s[1][1] # op => Ahead(Tail(s), op)
         /\ \A op : ~Ahead(s, op) => ~Ahead(Tail(s), op)
<1>1. /\ Len(s) \in Nat \ {0} /\ Tail(s) \in Seq(Call) /\ Len(Tail(s)) = Len(s) - 1
      /\ \A i \in 1..(Len(s) - 1) : Tail(s)[i] = s[i + 1]
  BY SeqTail
<1>2. \A A : Within(s, A) => s[1] \in A /\ Within(Tail(s), A)
  BY <1>1 DEF Within
<1>3. Stops(s) => Stops(Tail(s))
  BY <1>1 DEF Stops
<1>4. ASSUME NEW op, Ahead(s, op), s[1][1] # op PROVE Ahead(Tail(s), op)
  <2>1. PICK n \in 1..Len(s) : s[n][1] = op
    BY <1>4 DEF Ahead
  <2>2. n - 1 \in 1..(Len(s) - 1) /\ Tail(s)[n - 1] = s[n]
    BY <1>1, <1>4, <2>1
  <2> QED BY <1>1, <2>1, <2>2 DEF Ahead
<1>5. ASSUME NEW op, Ahead(Tail(s), op) PROVE Ahead(s, op)
  <2>1. PICK n \in 1..(Len(s) - 1) : s[n + 1][1] = op
    BY <1>1, <1>5 DEF Ahead
  <2>2. n + 1 \in 1..Len(s)
    BY <1>1
  <2> QED BY <2>1, <2>2 DEF Ahead
<1> QED BY <1>1, <1>2, <1>3, <1>4, <1>5

LEMMA SkipList ==
  ASSUME NEW s \in Seq(Call)
  PROVE  /\ SubSeq(s, 4, Len(s)) \in Seq(Call)
         /\ \A A : Within(s, A) => Within(SubSeq(s, 4, Len(s)), A)
         /\ Stops(s) => Stops(SubSeq(s, 4, Len(s)))
         /\ \A op \in {"sync"} : Ahead(s, op) /\ s[1][1] = "take" /\ Stops(s)
               => Ahead(SubSeq(s, 4, Len(s)), op)
<1> DEFINE d == SubSeq(s, 4, Len(s))
<1>1. /\ Len(s) \in Nat /\ d \in Seq(Call) /\ Len(d) = IF Len(s) >= 3 THEN Len(s) - 3 ELSE 0
      /\ \A i \in 1..(Len(s) - 3) : d[i] = s[i + 3]
  BY SeqSkip
<1> HIDE DEF d
<1>2. \A A : Within(s, A) => Within(d, A)
  BY <1>1 DEF Within
<1>3. ASSUME Stops(s) PROVE Stops(d)
  <2> SUFFICES ASSUME NEW i \in 1..Len(d), d[i][1] = "take"
               PROVE  /\ i + 2 <= Len(d)
                      /\ d[i + 1] = <<"unpark", d[i][2]>> /\ d[i + 2] = <<"join", d[i][2]>>
    BY DEF Stops
  <2> DEFINE j == i + 3
  <2>1. /\ j \in 1..Len(s) /\ d[i] = s[j] /\ Len(d) = Len(s) - 3
        /\ i + 1 + 3 = j + 1 /\ i + 2 + 3 = j + 2
    BY <1>1
  <2> HIDE DEF j
  <2>2. /\ j + 2 <= Len(s)
        /\ s[j + 1] = <<"unpark", d[i][2]>> /\ s[j + 2] = <<"join", d[i][2]>>
    BY <1>3, <2>1 DEF Stops
  <2>3. i + 1 \in 1..(Len(s) - 3) /\ i + 2 \in 1..(Len(s) - 3) /\ i + 2 <= Len(d)
    BY <1>1, <2>1, <2>2
  <2>4. d[i + 1] = s[j + 1] /\ d[i + 2] = s[j + 2]
    <3>1. d[i + 1] = s[i + 1 + 3] /\ d[i + 2] = s[i + 2 + 3]
      BY <1>1, <2>3, Zenon
    <3> QED BY ONLY <2>1, <3>1
  <2> QED BY <2>2, <2>3, <2>4
<1>4. ASSUME Ahead(s, "sync"), s[1][1] = "take", Stops(s) PROVE Ahead(d, "sync")
  <2>1. PICK n \in 1..Len(s) : s[n][1] = "sync"
    BY <1>4 DEF Ahead
  <2>2. /\ Len(s) >= 3
        /\ s[2] = <<"unpark", s[1][2]>> /\ s[3] = <<"join", s[1][2]>>
    BY <1>1, <1>4, <2>1 DEF Stops
  <2>3. n - 3 \in 1..(Len(s) - 3)
    BY <1>1, <1>4, <2>1, <2>2
  <2>4. d[n - 3] = s[n]
    BY <1>1, <2>3
  <2> QED BY <1>1, <2>1, <2>2, <2>3, <2>4 DEF Ahead
<1> QED BY <1>1, <1>2, <1>3, <1>4 DEF d

LEMMA TailFrees ==
  ASSUME NEW s \in Seq(Call), s # <<>>, NEW w, NEW mark, Frees(s, w, mark),
         s[1] # <<"take", w>>
  PROVE  Frees(Tail(s), w, mark)
<1>1. /\ Len(s) \in Nat \ {0} /\ Len(Tail(s)) = Len(s) - 1
      /\ \A i \in 1..(Len(s) - 1) : Tail(s)[i] = s[i + 1]
  BY SeqTail
<1>2. PICK n \in 1..Len(s) : s[n] = <<"take", w>> /\ \A i \in 1..n : s[i][1] # mark
  BY Zenon DEF Frees
<1>3. n - 1 \in 1..(Len(s) - 1) /\ Tail(s)[n - 1] = s[n]
  BY <1>1, <1>2
<1>4. \A i \in 1..(n - 1) : i + 1 \in 1..n /\ Tail(s)[i] = s[i + 1]
  BY <1>1
<1>5. \A i \in 1..(n - 1) : Tail(s)[i][1] # mark
  BY <1>2, <1>4
<1> QED BY <1>1, <1>2, <1>3, <1>5, Zenon DEF Frees

\* A step that is neither the taking of w's handle nor its join.
LEMMA TailAwaits ==
  ASSUME NEW s \in Seq(Call), s # <<>>, NEW h, NEW k, NEW w, NEW mark,
         Awaits(s, h, w, mark), w \in h => w \in k,
         s[1] # <<"take", w>>, s[1] # <<"join", w>>
  PROVE  Awaits(Tail(s), k, w, mark)
<1>1. /\ Len(s) \in Nat \ {0} /\ Len(Tail(s)) = Len(s) - 1
      /\ \A i \in 1..(Len(s) - 1) : Tail(s)[i] = s[i + 1]
  BY SeqTail
<1>2. CASE Len(s) >= 2 /\ s[1] = <<"unpark", w>> /\ s[2] = <<"join", w>>
  <2>1. Len(Tail(s)) >= 1 /\ Tail(s)[1] = <<"join", w>>
    BY <1>1, <1>2
  <2> QED BY <2>1, Zenon DEF Awaits
<1>3. CASE w \in h /\ Frees(s, w, mark)
  BY <1>3, TailFrees, Zenon DEF Awaits
<1> QED BY <1>2, <1>3, Zenon DEF Awaits

LEMMA TakeAwaits ==
  ASSUME NEW s \in Seq(Call), s # <<>>, NEW k, NEW w, NEW mark, Stops(s),
         s[1] = <<"take", w>>
  PROVE  Awaits(Tail(s), k, w, mark)
<1>1. /\ Len(s) \in Nat \ {0} /\ Len(Tail(s)) = Len(s) - 1
      /\ \A i \in 1..(Len(s) - 1) : Tail(s)[i] = s[i + 1]
  BY SeqTail
<1>2. Len(s) >= 3 /\ s[2] = <<"unpark", w>> /\ s[3] = <<"join", w>>
  BY <1>1 DEF Stops
<1> QED BY <1>1, <1>2 DEF Awaits

LEMMA SkipAwaits ==
  ASSUME NEW s \in Seq(Call), s # <<>>, NEW h, NEW w, NEW mark, Stops(s),
         s[1][1] = "take", s[1][2] \notin h, Awaits(s, h, w, mark)
  PROVE  Awaits(SubSeq(s, 4, Len(s)), h, w, mark)
<1> DEFINE d == SubSeq(s, 4, Len(s))
<1>1. /\ Len(s) \in Nat \ {0} /\ Len(d) = IF Len(s) >= 3 THEN Len(s) - 3 ELSE 0
      /\ \A i \in 1..(Len(s) - 3) : d[i] = s[i + 3]
  BY SeqSkip, SeqTail
<1> HIDE DEF d
<1>2. Len(s) >= 3 /\ s[2] = <<"unpark", s[1][2]>> /\ s[3] = <<"join", s[1][2]>>
  BY <1>1 DEF Stops
<1>3. PICK n \in 1..Len(s) : w \in h /\ s[n] = <<"take", w>> /\ \A i \in 1..n : s[i][1] # mark
  <2>1. s[1] # <<"join", w>> /\ s[1] # <<"unpark", w>>
    OBVIOUS
  <2> QED BY <2>1, Zenon DEF Awaits, Frees
<1>4. n # 1 /\ n # 2 /\ n # 3
  BY <1>2, <1>3
<1>5. n - 3 \in 1..(Len(s) - 3)
  BY <1>1, <1>4
<1>6. d[n - 3] = s[n]
  BY <1>1, <1>5
<1>7. \A i \in 1..(n - 3) : i + 3 \in 1..n /\ d[i] = s[i + 3]
  BY <1>1, <1>5
<1>8. \A i \in 1..(n - 3) : d[i][1] # mark
  BY <1>3, <1>7, SMTT(30), Z3T(30)
<1>9. n - 3 \in 1..Len(d)
  BY <1>1, <1>2, <1>5
<1> QED BY <1>3, <1>6, <1>8, <1>9, Zenon DEF Awaits, Frees, d

LEMMA JoinList ==
  ASSUME NEW a \in Seq(Call), NEW b \in Seq(Call)
  PROVE  /\ a \o b \in Seq(Call)
         /\ \A A : Within(a, A) /\ Within(b, A) => Within(a \o b, A)
         /\ Stops(a) /\ Stops(b) => Stops(a \o b)
         /\ \A op : Ahead(a \o b, op) <=> Ahead(a, op) \/ Ahead(b, op)
         /\ \A w, m : Frees(a, w, m) => Frees(a \o b, w, m)
         /\ \A w, m : ~Ahead(a, m) /\ Frees(b, w, m) => Frees(a \o b, w, m)
         /\ LoadFirst(a) => LoadFirst(a \o b)
         /\ Within(a, {<<"spawn", "resync">>}) /\ LoadFirst(b) => LoadFirst(a \o b)
<1> DEFINE d == a \o b
           k == Len(a)
           n == Len(b)
<1>0. /\ k \in Nat /\ n \in Nat /\ d \in Seq(Call) /\ Len(d) = k + n
      /\ \A i \in 1..(k + n) : d[i] = IF i <= k THEN a[i] ELSE b[i - k]
  BY SeqJoin
<1> HIDE DEF d
<1>1. \A i \in 1..k : i \in 1..Len(d) /\ d[i] = a[i]
  BY <1>0
<1>2. ASSUME NEW j \in 1..n PROVE j + k \in 1..Len(d) /\ d[j + k] = b[j]
  <2>1. j + k \in 1..(k + n) /\ ~(j + k <= k) /\ (j + k) - k = j
    BY <1>0
  <2> QED BY <1>0, <2>1, Zenon
<1>3. ASSUME NEW i \in 1..Len(d), i \notin 1..k PROVE \E j \in 1..n : i = j + k
  <2>1. i - k \in 1..n /\ i = (i - k) + k
    BY <1>0, <1>3
  <2> QED BY <2>1, SMTT(30), Z3T(30)
<1> HIDE DEF k, n
<1>4. ASSUME NEW A, Within(a, A), Within(b, A) PROVE Within(d, A)
  <2> SUFFICES ASSUME NEW i \in 1..Len(d) PROVE d[i] \in A
    BY DEF Within
  <2>1. CASE i \in 1..k
    BY <1>1, <1>4, <2>1, Zenon DEF Within, k
  <2>2. CASE i \notin 1..k
    BY <1>2, <1>3, <1>4, <2>2, Zenon DEF Within, n
  <2> QED BY <2>1, <2>2
<1>5. ASSUME Stops(a), Stops(b) PROVE Stops(d)
  <2> SUFFICES ASSUME NEW i \in 1..Len(d), d[i][1] = "take"
               PROVE  /\ i + 2 <= Len(d)
                      /\ d[i + 1] = <<"unpark", d[i][2]>> /\ d[i + 2] = <<"join", d[i][2]>>
    BY DEF Stops
  <2>1. CASE i \in 1..k
    <3>1. d[i] = a[i]
      BY <1>1, <2>1
    <3>2. /\ i + 2 <= k
          /\ a[i + 1] = <<"unpark", d[i][2]>> /\ a[i + 2] = <<"join", d[i][2]>>
      BY <1>5, <2>1, <3>1 DEF Stops, k
    <3>3. i + 1 \in 1..k /\ i + 2 \in 1..k /\ i + 2 <= Len(d)
      BY <1>0, <2>1, <3>2
    <3>4. d[i + 1] = a[i + 1] /\ d[i + 2] = a[i + 2]
      BY <1>1, <3>3, Zenon
    <3> QED BY <3>2, <3>3, <3>4, Zenon
  <2>2. CASE i \notin 1..k
    <3>0. PICK j \in 1..n : i = j + k
      BY <1>3, <2>2
    <3>1. d[i] = b[j]
      BY <1>2, <3>0, Zenon
    <3>2. /\ j + 2 <= n
          /\ b[j + 1] = <<"unpark", d[i][2]>> /\ b[j + 2] = <<"join", d[i][2]>>
      BY <1>5, <3>1, SMTT(30), Z3T(30) DEF Stops, n
    <3>3. /\ j + 1 \in 1..n /\ j + 2 \in 1..n /\ i + 2 <= Len(d)
          /\ (j + 1) + k = i + 1 /\ (j + 2) + k = i + 2
      <4>1. k \in Nat /\ n \in Nat /\ Len(d) = k + n
        BY <1>0
      <4> QED BY <3>0, <3>2, <4>1
    <3>4. d[i + 1] = b[j + 1] /\ d[i + 2] = b[j + 2]
      <4>1. d[(j + 1) + k] = b[j + 1] /\ d[(j + 2) + k] = b[j + 2]
        BY <1>2, <3>3, Zenon
      <4> QED BY ONLY <3>3, <4>1
    <3> QED BY <3>2, <3>3, <3>4, Zenon
  <2> QED BY <2>1, <2>2
<1>6. ASSUME NEW op, Ahead(a, op) \/ Ahead(b, op) PROVE Ahead(d, op)
  BY <1>1, <1>2, <1>6, ZenonT(30) DEF Ahead, k, n
<1>7. ASSUME NEW op, Ahead(d, op) PROVE Ahead(a, op) \/ Ahead(b, op)
  <2>1. PICK i \in 1..Len(d) : d[i][1] = op
    BY <1>7, Zenon DEF Ahead
  <2>2. CASE i \in 1..k
    BY <1>1, <2>1, <2>2, Zenon DEF Ahead, k
  <2>3. CASE i \notin 1..k
    BY <1>2, <1>3, <2>1, <2>3, ZenonT(30) DEF Ahead, n
  <2> QED BY <2>2, <2>3
<1>8. ASSUME NEW w, NEW m, Frees(a, w, m) PROVE Frees(d, w, m)
  <2>1. PICK x \in 1..k : a[x] = <<"take", w>> /\ \A i \in 1..x : a[i][1] # m
    BY <1>8, Zenon DEF Frees, k
  <2>2. \A i \in 1..x : i \in 1..k
    BY <1>0
  <2>3. \A i \in 1..x : d[i][1] # m
    BY <1>1, <2>1, <2>2, Zenon
  <2> QED BY <1>1, <2>1, <2>3, Zenon DEF Frees
<1>9. ASSUME NEW w, NEW m, ~Ahead(a, m), Frees(b, w, m) PROVE Frees(d, w, m)
  <2>1. PICK x \in 1..n : b[x] = <<"take", w>> /\ \A i \in 1..x : b[i][1] # m
    BY <1>9, Zenon DEF Frees, n
  <2>2. x + k \in 1..Len(d) /\ d[x + k] = <<"take", w>>
    BY <1>2, <2>1, Zenon
  <2>3. ASSUME NEW i \in 1..(x + k) PROVE d[i][1] # m
    <3>1. CASE i \in 1..k
      BY <1>1, <1>9, <3>1, Zenon DEF Ahead, k
    <3>2. CASE i \notin 1..k
      <4>1. i \in 1..Len(d)
        BY <1>0
      <4>2. PICK j \in 1..n : i = j + k
        BY <1>3, <3>2, <4>1, Zenon
      <4>3. j \in 1..x
        BY <1>0, <4>2, SMTT(30), Z3T(30)
      <4> QED BY <1>2, <2>1, <4>2, <4>3, Zenon
    <3> QED BY <3>1, <3>2
  <2> QED BY <2>2, <2>3, Zenon DEF Frees
<1>10. ASSUME LoadFirst(a) PROVE LoadFirst(d)
  <2>1. PICK x \in 1..k : a[x] = <<"load", "none">>
                         /\ \A i \in 1..(x - 1) : a[i] = <<"spawn", "resync">>
    BY <1>10, Zenon DEF LoadFirst, k
  <2>2. \A i \in 1..(x - 1) : i \in 1..k
    BY <1>0
  <2> QED BY <1>1, <2>1, <2>2, Zenon DEF LoadFirst
<1>11. ASSUME Within(a, {<<"spawn", "resync">>}), LoadFirst(b) PROVE LoadFirst(d)
  <2>1. PICK x \in 1..n : b[x] = <<"load", "none">>
                         /\ \A i \in 1..(x - 1) : b[i] = <<"spawn", "resync">>
    BY <1>11, Zenon DEF LoadFirst, n
  <2>2. x + k \in 1..Len(d) /\ d[x + k] = <<"load", "none">>
    BY <1>2, <2>1, Zenon
  <2>3. ASSUME NEW i \in 1..((x + k) - 1) PROVE d[i] = <<"spawn", "resync">>
    <3>1. CASE i \in 1..k
      BY <1>1, <1>11, <3>1, Zenon DEF Within, k
    <3>2. CASE i \notin 1..k
      <4>1. i \in 1..Len(d)
        BY <1>0
      <4>2. PICK j \in 1..n : i = j + k
        BY <1>3, <3>2, <4>1, Zenon
      <4>3. j \in 1..(x - 1)
        BY <1>0, <4>2, SMTT(30), Z3T(30)
      <4> QED BY <1>2, <2>1, <4>2, <4>3, Zenon
    <3> QED BY <3>1, <3>2
  <2> QED BY <2>2, <2>3, Zenon DEF LoadFirst
<1> QED BY <1>0, <1>4, <1>5, <1>6, <1>7, <1>8, <1>9, <1>10, <1>11, Zenon DEF d

LEMMA StopList ==
  ASSUME NEW w \in Worker
  PROVE  /\ Stop(w) \in Seq(Call) /\ Within(Stop(w), CloseSteps) /\ Stops(Stop(w))
         /\ \A A : <<"take", w>> \in A /\ <<"unpark", w>> \in A /\ <<"join", w>> \in A
                  => Within(Stop(w), A)
         /\ \A m : m \notin {"take", "unpark", "join"} => ~Ahead(Stop(w), m)
         /\ \A m : m # "take" => Frees(Stop(w), w, m)
<1> DEFINE o == Stop(w)
<1>1. <<"take", w>> \in Call /\ <<"unpark", w>> \in Call /\ <<"join", w>> \in Call
  BY DEF Call
<1>2. /\ o \in Seq(Call) /\ Len(o) = 3 /\ o[1] = <<"take", w>>
      /\ o[2] = <<"unpark", w>> /\ o[3] = <<"join", w>>
  BY <1>1 DEF Stop
<1> HIDE DEF o
<1>3. \A i \in 1..3 : i = 1 \/ i = 2 \/ i = 3
  OBVIOUS
<1>4. \A A : <<"take", w>> \in A /\ <<"unpark", w>> \in A /\ <<"join", w>> \in A => Within(o, A)
  BY <1>2, <1>3 DEF Within
<1>5. Stops(o)
  BY <1>2, <1>3 DEF Stops
<1>6. \A m : m \notin {"take", "unpark", "join"} => ~Ahead(o, m)
  BY <1>2, <1>3 DEF Ahead
<1>7. \A m : m # "take" => Frees(o, w, m)
  BY <1>2 DEF Frees
<1>8. Within(o, CloseSteps)
  <2>1. /\ <<"take", w>> \in CloseSteps /\ <<"unpark", w>> \in CloseSteps
        /\ <<"join", w>> \in CloseSteps
    BY DEF CloseSteps
  <2> QED BY <1>4, <2>1, Zenon
<1> QED BY <1>2, <1>4, <1>5, <1>6, <1>7, <1>8 DEF o

\* A list of one step.
LEMMA OneList ==
  ASSUME NEW x \in Call, x[1] # "take"
  PROVE  /\ <<x>> \in Seq(Call) /\ \A A : x \in A => Within(<<x>>, A)
         /\ Stops(<<x>>) /\ \A m : Ahead(<<x>>, m) <=> m = x[1]
<1> DEFINE o == <<x>>
<1>1. o \in Seq(Call) /\ Len(o) = 1 /\ o[1] = x
  OBVIOUS
<1> HIDE DEF o
<1>2. \A i \in 1..1 : i = 1
  OBVIOUS
<1>3. \A A : x \in A => Within(o, A)
  BY <1>1, <1>2 DEF Within
<1>4. Stops(o) /\ \A m : Ahead(o, m) <=> m = x[1]
  BY <1>1, <1>2 DEF Stops, Ahead
<1> QED BY <1>1, <1>3, <1>4 DEF o

LEMMA NoList ==
  /\ <<>> \in Seq(Call) /\ \A A : Within(<<>>, A)
  /\ Stops(<<>>) /\ \A m : ~Ahead(<<>>, m)
BY DEF Within, Stops, Ahead

LEMMA OracleDropList ==
  /\ OracleDrop \in Seq(Call) /\ Within(OracleDrop, OracleSteps)
  /\ Within(OracleDrop, CloseSteps) /\ Stops(OracleDrop) /\ ~Ahead(OracleDrop, "sync")
<1> DEFINE x == <<"clear", "oracle">>
           b == Stop("resync")
<1>1. x \in Call /\ x[1] = "clear" /\ x \in CloseSteps
  BY DEF Call, CloseSteps
<1>2. /\ <<x>> \in Seq(Call) /\ Within(<<x>>, CloseSteps) /\ Stops(<<x>>)
      /\ ~Ahead(<<x>>, "sync")
  BY <1>1, OneList
<1>3. b \in Seq(Call) /\ Within(b, CloseSteps) /\ Stops(b) /\ ~Ahead(b, "sync")
  BY StopList, Zenon DEF Worker
<1>4. Within(<<x>>, OracleSteps) /\ Within(b, OracleSteps)
  <2>1. /\ x \in OracleSteps /\ "resync" \in Worker
        /\ <<"take", "resync">> \in OracleSteps /\ <<"unpark", "resync">> \in OracleSteps
        /\ <<"join", "resync">> \in OracleSteps
    BY DEF OracleSteps, Worker
  <2> QED BY <1>1, <2>1, OneList, StopList, Zenon
<1>5. OracleDrop = <<x>> \o b
  BY Zenon DEF OracleDrop
<1> HIDE DEF x, b
<1> QED BY <1>2, <1>3, <1>4, <1>5, JoinList, Zenon

\* The steps of OracleDrop may come in between.
LEMMA ReleaseList ==
  ASSUME NEW s \in Seq(Call), s # <<>>, s[1] = <<"release", "none">>, Stops(s),
         Within(s, CloseSteps), NEW p, p = <<>> \/ p = OracleDrop
  PROVE  /\ p \o Tail(s) \in Seq(Call)
         /\ Within(p \o Tail(s), CloseSteps)
         /\ Stops(p \o Tail(s))
         /\ Ahead(s, "sync") => Ahead(p \o Tail(s), "sync")
         /\ \A h, w : Awaits(s, h, w, "sync") => Awaits(p \o Tail(s), h, w, "sync")
<1>1. /\ Tail(s) \in Seq(Call) /\ Within(Tail(s), CloseSteps) /\ Stops(Tail(s))
      /\ Ahead(s, "sync") => Ahead(Tail(s), "sync")
  <2>1. s[1][1] # "sync"
    OBVIOUS
  <2> QED BY <2>1, TailList, Zenon
<1>2. p \in Seq(Call) /\ Within(p, CloseSteps) /\ Stops(p) /\ ~Ahead(p, "sync")
  BY NoList, OracleDropList, Zenon
<1>3. ASSUME NEW h, NEW w, Awaits(s, h, w, "sync") PROVE Awaits(p \o Tail(s), h, w, "sync")
  <2>1. s[1] # <<"take", w>> /\ s[1] # <<"join", w>> /\ s[1] # <<"unpark", w>>
    OBVIOUS
  <2>2. w \in h /\ Frees(s, w, "sync")
    BY <1>3, <2>1, Zenon DEF Awaits
  <2>3. Frees(Tail(s), w, "sync")
    BY <2>1, <2>2, TailFrees, Zenon
  <2> QED BY <1>1, <1>2, <2>2, <2>3, JoinList, Zenon DEF Awaits
<1> QED BY <1>1, <1>2, <1>3, JoinList, Zenon

-----------------------------------------------------------------------------
(* The calls *)

LEMMA PersistenceDropList ==
  LET c == PersistenceDrop IN
  /\ c \in Seq(Call) /\ Within(c, CloseSteps) /\ Stops(c)
  /\ Ahead(c, "sync") /\ Frees(c, "append", "sync")
<1> DEFINE x == <<"clear", "persist">>
           y == <<"sync", "none">>
           a1 == <<x>> \o Stop("snapshot")
           a2 == a1 \o Stop("append")
           a3 == a2 \o Stop("fsync")
<1>1. /\ x \in Call /\ x[1] = "clear" /\ x \in CloseSteps
      /\ y \in Call /\ y[1] = "sync" /\ y \in CloseSteps
      /\ {"snapshot", "append", "fsync"} \subseteq Worker
  BY DEF Call, CloseSteps, Worker
<1>2. /\ <<x>> \in Seq(Call) /\ Within(<<x>>, CloseSteps) /\ Stops(<<x>>)
      /\ ~Ahead(<<x>>, "sync")
      /\ <<y>> \in Seq(Call) /\ Within(<<y>>, CloseSteps) /\ Stops(<<y>>)
      /\ Ahead(<<y>>, "sync")
  BY <1>1, OneList
<1>3. ASSUME NEW w \in {"snapshot", "append", "fsync"}
      PROVE  /\ Stop(w) \in Seq(Call) /\ Within(Stop(w), CloseSteps) /\ Stops(Stop(w))
             /\ ~Ahead(Stop(w), "sync") /\ Frees(Stop(w), w, "sync")
  BY <1>1, StopList, Zenon
<1> HIDE DEF x, y
<1>4. a1 \in Seq(Call) /\ Within(a1, CloseSteps) /\ Stops(a1) /\ ~Ahead(a1, "sync")
  BY <1>2, <1>3, JoinList, Zenon
<1> HIDE DEF a1
<1>5. /\ a2 \in Seq(Call) /\ Within(a2, CloseSteps) /\ Stops(a2)
      /\ Frees(a2, "append", "sync")
  BY <1>3, <1>4, JoinList, Zenon
<1> HIDE DEF a2
<1>6. /\ a3 \in Seq(Call) /\ Within(a3, CloseSteps) /\ Stops(a3)
      /\ Frees(a3, "append", "sync")
  BY <1>3, <1>5, JoinList, Zenon
<1> HIDE DEF a3
<1>7. PersistenceDrop = a3 \o <<y>>
  BY Zenon DEF PersistenceDrop, a1, a2, a3, x, y
<1> QED BY <1>2, <1>6, <1>7, JoinList, Zenon

\* Database::drop stops the collectors, and the snapshot worker if there is a
\* Persistence, before it lets go of Inner, and the append worker before the
\* last sync_all.
LEMMA ClosingList ==
  ASSUME NEW persist \in BOOLEAN
  PROVE  LET c == Closing(persist) IN
         /\ c \in Seq(Call) /\ Within(c, CloseSteps) /\ Stops(c)
         /\ Frees(c, "cleanup", "release") /\ Frees(c, "gc", "release")
         /\ persist => /\ Frees(c, "snapshot", "release")
                       /\ Frees(c, "append", "sync") /\ Ahead(c, "sync")
<1> DEFINE x == <<"clear", "persist">>
           y == <<"clear", "inner">>
           z == <<"release", "none">>
           a0 == IF persist THEN <<x>> \o Stop("snapshot") ELSE <<>>
           a1 == a0 \o <<y>>
           a2 == a1 \o Stop("cleanup")
           a3 == a2 \o Stop("gc")
           a4 == a3 \o <<z>>
           b == IF persist THEN PersistenceDrop ELSE <<>>
           Marks == {"release", "sync"}
<1>1. /\ x \in Call /\ x[1] = "clear" /\ x \in CloseSteps
      /\ y \in Call /\ y[1] = "clear" /\ y \in CloseSteps
      /\ z \in Call /\ z[1] = "release" /\ z \in CloseSteps
      /\ {"snapshot", "cleanup", "gc"} \subseteq Worker
  BY DEF Call, CloseSteps, Worker
<1>2. /\ <<x>> \in Seq(Call) /\ Within(<<x>>, CloseSteps) /\ Stops(<<x>>)
      /\ <<y>> \in Seq(Call) /\ Within(<<y>>, CloseSteps) /\ Stops(<<y>>)
      /\ <<z>> \in Seq(Call) /\ Within(<<z>>, CloseSteps) /\ Stops(<<z>>)
      /\ \A m \in Marks : ~Ahead(<<x>>, m) /\ ~Ahead(<<y>>, m)
      /\ ~Ahead(<<z>>, "sync")
  BY <1>1, OneList
<1>3. ASSUME NEW w \in {"snapshot", "cleanup", "gc"}
      PROVE  /\ Stop(w) \in Seq(Call) /\ Within(Stop(w), CloseSteps) /\ Stops(Stop(w))
             /\ \A m \in Marks : ~Ahead(Stop(w), m) /\ Frees(Stop(w), w, m)
  BY <1>1, StopList, Zenon
<1> HIDE DEF x, y, z
<1>4. /\ a0 \in Seq(Call) /\ Within(a0, CloseSteps) /\ Stops(a0)
      /\ \A m \in Marks : ~Ahead(a0, m)
      /\ persist => Frees(a0, "snapshot", "release")
  BY <1>2, <1>3, JoinList, NoList, Zenon
<1> HIDE DEF a0
<1>5. /\ a1 \in Seq(Call) /\ Within(a1, CloseSteps) /\ Stops(a1)
      /\ \A m \in Marks : ~Ahead(a1, m)
      /\ persist => Frees(a1, "snapshot", "release")
  BY <1>2, <1>4, JoinList, Zenon
<1> HIDE DEF a1
<1>6. /\ a2 \in Seq(Call) /\ Within(a2, CloseSteps) /\ Stops(a2)
      /\ \A m \in Marks : ~Ahead(a2, m)
      /\ persist => Frees(a2, "snapshot", "release")
      /\ Frees(a2, "cleanup", "release")
  BY <1>3, <1>5, JoinList, Zenon
<1> HIDE DEF a2
<1>7. /\ a3 \in Seq(Call) /\ Within(a3, CloseSteps) /\ Stops(a3)
      /\ \A m \in Marks : ~Ahead(a3, m)
      /\ persist => Frees(a3, "snapshot", "release")
      /\ Frees(a3, "cleanup", "release") /\ Frees(a3, "gc", "release")
  BY <1>3, <1>6, JoinList, Zenon
<1> HIDE DEF a3
<1>8. /\ a4 \in Seq(Call) /\ Within(a4, CloseSteps) /\ Stops(a4) /\ ~Ahead(a4, "sync")
      /\ persist => Frees(a4, "snapshot", "release")
      /\ Frees(a4, "cleanup", "release") /\ Frees(a4, "gc", "release")
  BY <1>2, <1>7, JoinList, Zenon
<1> HIDE DEF a4
<1>9. /\ b \in Seq(Call) /\ Within(b, CloseSteps) /\ Stops(b)
      /\ persist => Ahead(b, "sync") /\ Frees(b, "append", "sync")
  BY PersistenceDropList, NoList, Zenon
<1> HIDE DEF b
<1>10. Closing(persist) = a4 \o b
  BY Zenon DEF Closing, a0, a1, a2, a3, a4, b, x, y, z
<1>11. a4 \o b \in Seq(Call) /\ Within(a4 \o b, CloseSteps) /\ Stops(a4 \o b)
  BY <1>8, <1>9, JoinList, Zenon
<1>12. /\ Frees(a4 \o b, "cleanup", "release") /\ Frees(a4 \o b, "gc", "release")
       /\ persist => Frees(a4 \o b, "snapshot", "release")
  BY <1>8, <1>9, JoinList, Zenon
<1>13. persist => Frees(a4 \o b, "append", "sync") /\ Ahead(a4 \o b, "sync")
  BY <1>8, <1>9, JoinList, Zenon
<1> QED BY <1>10, <1>11, <1>12, <1>13, Zenon

\* The constructor restores the datastore before it starts a worker that uses it.
LEMMA JoinOnce ==
  ASSUME NEW a \in Seq(Call), NEW b \in Seq(Call),
         \/ LoadOnce(a) /\ ~Ahead(b, "load")
         \/ ~Ahead(a, "load") /\ LoadOnce(b)
  PROVE  LoadOnce(a \o b)
<1> DEFINE c == a \o b
<1>1. /\ Len(a) \in Nat /\ Len(b) \in Nat /\ Len(c) = Len(a) + Len(b)
      /\ \A i \in 1..(Len(a) + Len(b)) : c[i] = IF i <= Len(a) THEN a[i] ELSE b[i - Len(a)]
  BY SeqJoin
<1> HIDE DEF c
<1>2. ASSUME NEW i \in 1..Len(c), c[i][1] = "load"
      PROVE  \/ i \in 1..Len(a) /\ a[i][1] = "load" /\ LoadOnce(a) /\ ~Ahead(b, "load")
             \/ /\ i - Len(a) \in 1..Len(b) /\ b[i - Len(a)][1] = "load"
                /\ LoadOnce(b) /\ ~Ahead(a, "load")
  BY <1>1, <1>2 DEF Ahead
<1>3. ASSUME NEW i \in 1..Len(c), NEW j \in 1..Len(c), c[i][1] = "load", c[j][1] = "load"
      PROVE  i = j
  <2>1. CASE /\ i \in 1..Len(a) /\ a[i][1] = "load" /\ LoadOnce(a) /\ ~Ahead(b, "load")
    <3>1. j \in 1..Len(a) /\ a[j][1] = "load"
      BY <1>2, <1>3, <2>1 DEF Ahead
    <3> QED BY <2>1, <3>1, Zenon DEF LoadOnce
  <2>2. CASE /\ i - Len(a) \in 1..Len(b) /\ b[i - Len(a)][1] = "load"
             /\ LoadOnce(b) /\ ~Ahead(a, "load")
    <3>1. j - Len(a) \in 1..Len(b) /\ b[j - Len(a)][1] = "load"
      BY <1>2, <1>3, <2>2, SMTT(30), Z3T(30) DEF Ahead
    <3>2. i - Len(a) = j - Len(a)
      BY <2>2, <3>1, Zenon DEF LoadOnce
    <3> QED BY <1>1, <3>2
  <2> QED BY <1>2, <1>3, <2>1, <2>2, Zenon
<1> QED BY <1>3, Zenon DEF LoadOnce, c

LEMMA OpeningList ==
  ASSUME NEW persist \in BOOLEAN
  PROVE  LET o == Opening(persist) IN
         /\ o \in Seq(Call) /\ Within(o, OpenSteps(persist))
         /\ IF persist THEN LoadFirst(o) /\ LoadOnce(o) ELSE ~Ahead(o, "load")
<1> DEFINE r == << <<"spawn", "resync">> >>
           l == << <<"load", "none">>, <<"spawn", "snapshot">>, <<"spawn", "append">>,
                   <<"spawn", "fsync">>, <<"backfill", "none">> >>
           m == IF persist THEN l ELSE <<>>
           e == << <<"spawn", "cleanup">>, <<"spawn", "gc">> >>
           A == OpenSteps(persist)
<1>1. /\ <<"spawn", "resync">> \in Call /\ <<"load", "none">> \in Call
      /\ <<"spawn", "snapshot">> \in Call /\ <<"spawn", "append">> \in Call
      /\ <<"spawn", "fsync">> \in Call /\ <<"backfill", "none">> \in Call
      /\ <<"spawn", "cleanup">> \in Call /\ <<"spawn", "gc">> \in Call
  BY DEF Call, Worker
<1>2. r \in Seq(Call) /\ Len(r) = 1 /\ r[1] = <<"spawn", "resync">>
  BY <1>1
<1>3. /\ l \in Seq(Call) /\ Len(l) = 5
      /\ l[1] = <<"load", "none">> /\ l[2] = <<"spawn", "snapshot">>
      /\ l[3] = <<"spawn", "append">> /\ l[4] = <<"spawn", "fsync">>
      /\ l[5] = <<"backfill", "none">>
  BY <1>1
<1>4. e \in Seq(Call) /\ Len(e) = 2 /\ e[1] = <<"spawn", "cleanup">> /\ e[2] = <<"spawn", "gc">>
  BY <1>1
<1> HIDE DEF r, l, e
<1>5. /\ <<"spawn", "resync">> \in A /\ <<"spawn", "cleanup">> \in A /\ <<"spawn", "gc">> \in A
      /\ persist => /\ <<"spawn", "snapshot">> \in A /\ <<"spawn", "append">> \in A
                    /\ <<"spawn", "fsync">> \in A
                    /\ <<"load", "none">> \in A /\ <<"backfill", "none">> \in A
  BY DEF OpenSteps, Worker
<1> HIDE DEF A
<1>6. Within(r, A) /\ ~Ahead(r, "load")
  <2>1. \A i \in 1..1 : i = 1
    OBVIOUS
  <2> QED BY <1>2, <1>5, <2>1 DEF Within, Ahead
<1>7. Within(e, A) /\ ~Ahead(e, "load")
  <2>1. \A i \in 1..2 : i = 1 \/ i = 2
    OBVIOUS
  <2>2. e[1] \in A /\ e[2] \in A /\ e[1][1] = "spawn" /\ e[2][1] = "spawn"
    BY <1>4, <1>5
  <2>3. \A i \in 1..2 : e[i] \in A /\ e[i][1] = "spawn"
    BY <2>1, <2>2
  <2> QED BY <1>4, <2>3 DEF Within, Ahead
<1>8. persist => Within(l, A)
  <2>1. \A i \in 1..5 : i = 1 \/ i = 2 \/ i = 3 \/ i = 4 \/ i = 5
    OBVIOUS
  <2>2. persist => l[1] \in A /\ l[2] \in A /\ l[3] \in A /\ l[4] \in A /\ l[5] \in A
    BY <1>3, <1>5, Zenon
  <2>3. persist => \A i \in 1..5 : l[i] \in A
    BY <2>1, <2>2
  <2> QED BY <1>3, <2>3, Zenon DEF Within
<1>9. m \in Seq(Call) /\ Within(m, A) /\ (~persist => ~Ahead(m, "load"))
  BY <1>3, <1>8, NoList, Zenon
<1>10. r \o m \in Seq(Call) /\ Within(r \o m, A) /\ (~persist => ~Ahead(r \o m, "load"))
  BY <1>2, <1>6, <1>9, JoinList, Zenon
<1>11. /\ (r \o m) \o e \in Seq(Call) /\ Within((r \o m) \o e, A)
       /\ ~persist => ~Ahead((r \o m) \o e, "load")
  BY <1>4, <1>7, <1>10, JoinList, Zenon
<1>12. ASSUME persist PROVE LoadFirst((r \o m) \o e)
  <2>1. LoadFirst(l)
    <3>1. 1 \in 1..5 /\ \A i \in 1..(1 - 1) : FALSE
      OBVIOUS
    <3> QED BY <1>3, <3>1, Zenon DEF LoadFirst
  <2>2. Within(r, {<<"spawn", "resync">>})
    <3>1. \A i \in 1..1 : i = 1
      OBVIOUS
    <3> QED BY <1>2, <3>1, SMTT(30), Z3T(30) DEF Within
  <2>3. m = l
    BY <1>12
  <2>4. LoadFirst(r \o m)
    BY <1>2, <1>3, <2>1, <2>2, <2>3, JoinList, Zenon
  <2> QED BY <1>4, <1>10, <2>4, JoinList, Zenon
<1>14. ASSUME persist PROVE LoadOnce((r \o m) \o e)
  <2>1. LoadOnce(m)
    <3>1. \A i \in 1..5 : i = 1 \/ i = 2 \/ i = 3 \/ i = 4 \/ i = 5
      OBVIOUS
    <3>2. \A i \in 1..5 : l[i][1] = "load" => i = 1
      BY <1>3, <3>1
    <3>3. m = l
      BY <1>14
    <3> QED BY <1>3, <3>2, <3>3, Zenon DEF LoadOnce
  <2>2. LoadOnce(r \o m)
    BY <1>2, <1>6, <1>9, <2>1, JoinOnce, Zenon
  <2> QED BY <1>4, <1>7, <1>10, <2>2, JoinOnce, Zenon
<1>13. Opening(persist) = (r \o m) \o e
  BY Zenon DEF Opening, r, l, e
<1> HIDE DEF m
<1> QED BY <1>11, <1>12, <1>13, <1>14, Zenon DEF A

-----------------------------------------------------------------------------
(* The inductive invariant *)

\* What is left of the calls, by the phase of the Database.
Programs ==
    LET s == todo["main"] IN
    /\ \A t \in Tx : Within(todo[t], ClientSteps)
    /\ phase = "opening" =>
          /\ Within(s, OpenSteps(mode.persist)) /\ owns
          /\ IF loaded THEN ~Ahead(s, "load") ELSE LoadFirst(s) /\ LoadOnce(s)
    /\ phase \in {"open", "closed"} => s = <<>> /\ loaded
    /\ phase = "open" => owns
    /\ phase = "closing" => Within(s, CloseSteps) /\ Stops(s) /\ loaded
    /\ phase = "failed" => Within(s, OracleSteps) /\ ~loaded /\ ~owns

\* Who is running, by what is left to do.
Threads ==
    LET s == todo["main"] IN
    /\ \A w \in Holder :
          /\ ~loaded => pc[w] = "none"
          /\ ~owns => ~Running(w)
          /\ phase = "closing" /\ owns /\ Running(w) => Awaits(s, handle, w, "release")
    /\ \A w \in Holder \cup {"append"} :
          phase \in {"opening", "open"} /\ Running(w) => w \in handle
    /\ ~mode.persist => pc["snapshot"] = "none" /\ pc["append"] = "none" /\ ~unsynced
    /\ "snapshot" \notin mode.on =>
          /\ pc["snapshot"] = "none"
          /\ phase = "closing" /\ Running("append") => Awaits(s, handle, "append", "sync")
          /\ phase = "closing" /\ (unsynced \/ Running("append")) => Ahead(s, "sync")
          /\ phase = "closed" => ~Running("append") /\ ~unsynced

\* The append worker's batch, and the operations in the queue.
Batches ==
    /\ pc["append"] \in {"none", "check", "park", "exit"} => batch = 0
    /\ pc["append"] \in {"inner", "steal"} => batch < BatchSize
    /\ pc["append"] # "recheck"
    /\ queue + batch <= pushed
    /\ phase \in {"opening", "failed"} => live = {} /\ queue = 0 /\ batch = 0

WInv == TypeOK /\ Programs /\ Threads /\ Batches

LEMMA Distinct ==
  /\ "main" \in Thread /\ \A t \in Tx : t \in Thread /\ t # "main"
BY WorkersAssumption DEF Thread

LEMMA AwaitsMore ==
  ASSUME NEW s, NEW h, NEW k, NEW w, NEW mark, Awaits(s, h, w, mark), w \in h => w \in k
  PROVE  Awaits(s, k, w, mark)
BY Zenon DEF Awaits

\* A step that neither starts a worker nor ends one's handle, and leaves the
\* program of the main thread alone, keeps the programs and who runs by them.
Calm ==
    /\ UNCHANGED <<mode, phase, owns, loaded>>
    /\ phase # "failed" => todo'["main"] = todo["main"]
    /\ phase = "failed" => Within(todo'["main"], OracleSteps)
    /\ \A t \in Tx : Within(todo'[t], ClientSteps)
    /\ \A w \in Holder \cup {"append"} :
          /\ pc'[w] \notin {"none", "exit"} => Running(w)
          /\ pc[w] = "none" => pc'[w] = "none"
          /\ w \in handle => w \in handle'
    /\ unsynced' => unsynced \/ Running("append") \/ Running("snapshot")

LEMMA CalmKeeps ==
  ASSUME TypeOK, Programs, Threads, Calm
  PROVE  Programs' /\ Threads'
<1> DEFINE s == todo["main"]
<1>1. Programs'
  BY Zenon DEF Programs, Calm
<1>2. /\ UNCHANGED <<mode, phase, owns, loaded>>
      /\ phase # "failed" => todo'["main"] = s
      /\ \A w \in Holder \cup {"append"} :
            /\ Running(w)' => Running(w)
            /\ pc[w] = "none" => pc'[w] = "none"
            /\ w \in handle => w \in handle'
      /\ unsynced' => unsynced \/ Running("append") \/ Running("snapshot")
  BY Zenon DEF Calm, Running
<1>3. "snapshot" \in Holder /\ Holder \subseteq Holder \cup {"append"}
      /\ "append" \in Holder \cup {"append"}
  BY DEF Holder
<1>4. ASSUME NEW w \in Holder
      PROVE  /\ ~loaded' => pc'[w] = "none"
             /\ ~owns' => ~Running(w)'
             /\ phase' = "closing" /\ owns' /\ Running(w)'
                  => Awaits(todo'["main"], handle', w, "release")
  <2>1. /\ ~loaded => pc[w] = "none"
        /\ ~owns => ~Running(w)
        /\ phase = "closing" /\ owns /\ Running(w) => Awaits(s, handle, w, "release")
    BY Zenon DEF Threads
  <2>2. phase = "closing" => todo'["main"] = s
    BY <1>2
  <2> QED BY <1>2, <1>3, <2>1, <2>2, AwaitsMore, Zenon
<1>5. \A w \in Holder \cup {"append"} :
         phase' \in {"opening", "open"} /\ Running(w)' => w \in handle'
  BY <1>2, Zenon DEF Threads
<1>6. ~mode'.persist => pc'["snapshot"] = "none" /\ pc'["append"] = "none" /\ ~unsynced'
  BY <1>2, <1>3, Zenon DEF Threads, Running
<1>7. ASSUME "snapshot" \notin mode'.on
      PROVE  /\ pc'["snapshot"] = "none"
             /\ phase' = "closing" /\ Running("append")'
                  => Awaits(todo'["main"], handle', "append", "sync")
             /\ phase' = "closing" /\ (unsynced' \/ Running("append")')
                  => Ahead(todo'["main"], "sync")
             /\ phase' = "closed" => ~Running("append")' /\ ~unsynced'
  <2>1. /\ pc["snapshot"] = "none" /\ ~Running("snapshot")
        /\ phase = "closing" /\ Running("append") => Awaits(s, handle, "append", "sync")
        /\ phase = "closing" /\ (unsynced \/ Running("append")) => Ahead(s, "sync")
        /\ phase = "closed" => ~Running("append") /\ ~unsynced
    BY <1>2, <1>7, Zenon DEF Threads, Running
  <2>2. phase = "closing" => todo'["main"] = s
    BY <1>2
  <2> QED BY <1>2, <1>3, <2>1, <2>2, AwaitsMore, Zenon
<1>8. Threads'
  BY <1>4, <1>5, <1>6, <1>7, Zenon DEF Threads
<1> QED BY <1>1, <1>8

\* A thread inside OracleDrop, or about to wake the append worker.
LEMMA ClientStep ==
  ASSUME TypeOK, NEW p \in Thread, Within(todo[p], ClientSteps), Step(p)
  PROVE  /\ TypeOK'
         /\ UNCHANGED <<mode, phase, pc, owns, live, loaded, queue, batch, pushed, unsynced>>
         /\ \A w \in Worker \ {"resync"} : w \in handle => w \in handle'
         /\ \E q \in Seq(Call) : /\ todo' = [todo EXCEPT ![p] = q]
                                 /\ \A A : Within(todo[p], A) => Within(q, A)
<1>1. todo[p] \in Seq(Call) /\ todo \in [Thread -> Seq(Call)]
  BY DEF TypeOK
<1>2. todo[p] # <<>>
  BY Zenon DEF Step, Spawn, Load, Backfill, Clear, Take, Unpark, Join, FinalSync, Release, Does
<1>3. Head(todo[p]) \in ClientSteps
  BY <1>1, <1>2, SeqTail, TailList
<1>4. Clear(p) \/ Take(p) \/ Unpark(p) \/ Join(p)
  <2>1. Head(todo[p])[1] \in {"clear", "take", "unpark", "join", "wake"}
    BY <1>3 DEF ClientSteps, OracleSteps
  <2>2. /\ ~Does(p, "spawn") /\ ~Does(p, "load") /\ ~Does(p, "backfill")
        /\ ~Does(p, "sync") /\ ~Does(p, "release")
    BY <2>1 DEF Does
  <2> QED BY <2>2, Zenon DEF Step, Spawn, Load, Backfill, FinalSync, Release
<1>5. Does(p, "take") => Arg(p) = "resync"
  BY <1>3 DEF Does, Arg, ClientSteps, OracleSteps
<1>6. \E q \in Seq(Call) : /\ todo' = [todo EXCEPT ![p] = q]
                           /\ \A A : Within(todo[p], A) => Within(q, A)
  <2>1. CASE todo' = [todo EXCEPT ![p] = Tail(@)]
    BY <1>1, <1>2, <2>1, TailList, Zenon
  <2>2. CASE todo' = [todo EXCEPT ![p] = SubSeq(@, 4, Len(@))]
    BY <1>1, <2>2, SkipList, Zenon
  <2> QED BY <1>4, <2>1, <2>2, Zenon DEF Clear, Take, Unpark, Join, Done
<1>7. /\ UNCHANGED <<mode, phase, pc, owns, cycle, live, loaded, queue, batch, pushed, unsynced>>
      /\ synced' = synced
  BY <1>4, Zenon DEF Clear, Take, Unpark, Join, threadVars, dataVars
<1>8. handle' \subseteq handle /\ \A w \in Worker \ {"resync"} : w \in handle => w \in handle'
  <2>1. CASE handle' = handle
    BY <2>1
  <2>2. CASE handle' = handle \ {Arg(p)} /\ Does(p, "take")
    BY <1>5, <2>2
  <2> QED BY <1>4, <2>1, <2>2, Zenon DEF Clear, Take, Unpark, Join, threadVars
<1>9. flag' \in [{"oracle", "inner", "persist"} -> BOOLEAN]
      /\ token' \in [Worker -> {"none", "early", "late"}]
  <2>1. flag \in [{"oracle", "inner", "persist"} -> BOOLEAN]
        /\ token \in [Worker -> {"none", "early", "late"}]
    BY DEF TypeOK
  <2>2. flag' = flag \/ flag' = [flag EXCEPT ![Arg(p)] = FALSE]
    BY <1>4, Zenon DEF Clear, Take, Unpark, Join
  <2>3. token' = token \/ \E v \in {"early", "late"} : token' = [token EXCEPT ![Arg(p)] = v]
    BY <1>4, Zenon DEF Clear, Take, Unpark, Join, threadVars
  <2> QED BY <2>1, <2>2, <2>3, ZenonT(30)
<1>10. todo' \in [Thread -> Seq(Call)]
  BY <1>1, <1>6
<1> QED BY <1>6, <1>7, <1>8, <1>9, <1>10, Zenon DEF TypeOK

LEMMA StepTx ==
  ASSUME WInv, NEW t \in Tx, Step(t)
  PROVE  WInv'
<1>1. TypeOK /\ Programs /\ Threads /\ Batches /\ Within(todo[t], ClientSteps) /\ t \in Thread
  BY Distinct, Zenon DEF WInv, Programs
<1>2. /\ TypeOK'
      /\ UNCHANGED <<mode, phase, pc, owns, live, loaded, queue, batch, pushed, unsynced>>
      /\ \A w \in Worker \ {"resync"} : w \in handle => w \in handle'
  BY <1>1, ClientStep, Zenon
<1>3. PICK q \in Seq(Call) : todo' = [todo EXCEPT ![t] = q] /\ Within(q, ClientSteps)
  BY <1>1, ClientStep, Zenon
<1>4. /\ todo'["main"] = todo["main"] /\ todo'[t] = q
      /\ \A u \in Tx : u # t => todo'[u] = todo[u]
  BY <1>1, <1>3, Distinct DEF TypeOK
<1>5. Holder \cup {"append"} \subseteq Worker \ {"resync"}
  BY DEF Holder, Worker
<1>6. /\ \A u \in Tx : Within(todo'[u], ClientSteps)
      /\ phase = "failed" => Within(todo'["main"], OracleSteps)
  BY <1>1, <1>3, <1>4, Zenon DEF Programs
<1>7. Calm
  BY <1>2, <1>4, <1>5, <1>6, Zenon DEF Calm, Running
<1>8. Batches'
  BY <1>1, <1>2, Zenon DEF Batches
<1> QED BY <1>1, <1>2, <1>7, <1>8, CalmKeeps, Zenon DEF WInv

\* After a failed load the main thread is inside OracleDrop.
LEMMA StepFailed ==
  ASSUME WInv, phase = "failed", Step("main")
  PROVE  WInv'
<1>1. TypeOK /\ Programs /\ Threads /\ Batches /\ Within(todo["main"], OracleSteps)
      /\ "main" \in Thread /\ \A u \in Tx : Within(todo[u], ClientSteps)
  BY Distinct, Zenon DEF WInv, Programs
<1>0. Within(todo["main"], ClientSteps)
  BY <1>1 DEF Within, ClientSteps
<1>2. /\ TypeOK'
      /\ UNCHANGED <<mode, phase, pc, owns, live, loaded, queue, batch, pushed, unsynced>>
      /\ \A w \in Worker \ {"resync"} : w \in handle => w \in handle'
  BY <1>0, <1>1, ClientStep, Zenon
<1>3. PICK q \in Seq(Call) : todo' = [todo EXCEPT !["main"] = q] /\ Within(q, OracleSteps)
  BY <1>0, <1>1, ClientStep, Zenon
<1>4. todo'["main"] = q /\ \A u \in Tx : todo'[u] = todo[u]
  BY <1>1, <1>3, Distinct DEF TypeOK
<1>5. Holder \cup {"append"} \subseteq Worker \ {"resync"}
  BY DEF Holder, Worker
<1>7. Calm
  BY <1>1, <1>2, <1>3, <1>4, <1>5, Zenon DEF Calm, Running
<1>8. Batches'
  BY <1>1, <1>2, Zenon DEF Batches
<1> QED BY <1>1, <1>2, <1>7, <1>8, CalmKeeps, Zenon DEF WInv

\* The handles' calls.
LEMMA StepClient ==
  ASSUME WInv, NEW t \in Tx, Begin(t) \/ PushAppend(t) \/ DropTx(t) \/ WakeAppend(t)
  PROVE  WInv'
<1>0. /\ TypeOK /\ Programs /\ Threads /\ Batches /\ Within(todo[t], ClientSteps)
      /\ t \in Thread /\ \A u \in Tx : Within(todo[u], ClientSteps)
  BY Distinct, Zenon DEF WInv, Programs
<1>1. /\ UNCHANGED <<mode, phase, flag, pc, synced, handle, owns, cycle, loaded, batch, unsynced>>
      /\ token' \in [Worker -> {"none", "early", "late"}]
  <2>1. UNCHANGED <<mode, phase, flag, pc, synced, handle, owns, cycle, loaded, batch, unsynced>>
    BY Zenon DEF Begin, PushAppend, DropTx, WakeAppend, threadVars, dataVars
  <2>2. \/ token' = token
        \/ token' = [token EXCEPT !["append"] = IF "append" \in handle /\ @ = "none"
                                                THEN "early" ELSE @]
    BY Zenon DEF Begin, PushAppend, DropTx, WakeAppend, threadVars
  <2>3. token \in [Worker -> {"none", "early", "late"}]
    BY <1>0 DEF TypeOK
  <2> QED BY <2>1, <2>2, <2>3
<1>2. PICK q \in Seq(Call) : todo' = [todo EXCEPT ![t] = q] /\ Within(q, ClientSteps)
  <2>0. todo \in [Thread -> Seq(Call)] /\ todo[t] \in Seq(Call)
    BY <1>0 DEF TypeOK
  <2>1. CASE todo' = todo
    BY <1>0, <2>0, <2>1
  <2>2. CASE todo' = [todo EXCEPT ![t] = << <<"wake", "append">> >>]
    <3>1. /\ <<"wake", "append">> \in Call /\ <<"wake", "append">> \in ClientSteps
          /\ <<"wake", "append">>[1] # "take"
      BY DEF Call, ClientSteps, Worker
    <3> QED BY <2>2, <3>1, OneList, Zenon
  <2>3. CASE \/ todo' = [todo EXCEPT ![t] = <<>>] \/ todo' = [todo EXCEPT ![t] = OracleDrop]
    <3>1. Within(OracleDrop, ClientSteps) /\ OracleDrop \in Seq(Call)
      BY OracleDropList DEF Within, ClientSteps
    <3> QED BY <2>3, <3>1, NoList, Zenon
  <2>4. CASE Does(t, "wake") /\ Done(t)
    BY <1>0, <2>0, <2>4, TailList, Zenon DEF Done, Does
  <2>5. DropTx(t) => \/ todo' = [todo EXCEPT ![t] = <<>>] \/ todo' = [todo EXCEPT ![t] = OracleDrop]
    BY Zenon DEF DropTx
  <2> QED BY <2>1, <2>2, <2>3, <2>4, <2>5, Zenon DEF Begin, PushAppend, WakeAppend
<1>3. /\ todo' \in [Thread -> Seq(Call)] /\ todo'["main"] = todo["main"] /\ todo'[t] = q
      /\ \A u \in Tx : u # t => todo'[u] = todo[u]
  BY <1>0, <1>2, Distinct DEF TypeOK
<1>4. Calm
  BY <1>0, <1>1, <1>2, <1>3, Zenon DEF Calm, Running, Programs
<1>5. /\ live' \subseteq Tx /\ queue' \in Nat /\ pushed' \in 0..MaxQueue
      /\ queue' + batch <= pushed'
      /\ phase \in {"opening", "failed"} => live' = {} /\ queue' = 0
  <2>1. /\ live \subseteq Tx /\ queue \in 0..MaxQueue /\ batch \in 0..BatchSize
        /\ pushed \in 0..MaxQueue /\ queue + batch <= pushed
        /\ phase \in {"opening", "failed"} => live = {} /\ queue = 0
        /\ BatchSize \in Nat /\ MaxQueue \in Nat
    BY <1>0, WorkersAssumption DEF TypeOK, Batches
  <2>2. CASE Begin(t)
    BY <2>1, <2>2 DEF Begin, dataVars
  <2>3. CASE PushAppend(t)
    BY <2>1, <2>3, SMTT(30), Z3T(30) DEF PushAppend
  <2>4. CASE DropTx(t)
    BY <2>1, <2>4 DEF DropTx, dataVars
  <2>5. CASE WakeAppend(t)
    BY <2>1, <2>5 DEF WakeAppend, dataVars
  <2> QED BY <2>2, <2>3, <2>4, <2>5
<1>6. queue' \in 0..MaxQueue
  <2>1. batch \in Nat /\ MaxQueue \in Nat
    BY <1>0, WorkersAssumption DEF TypeOK
  <2>2. \A n, b, m \in Nat : \A p \in 0..m : n + b <= p => n \in 0..m
    OBVIOUS
  <2>3. queue' \in Nat /\ pushed' \in 0..MaxQueue /\ queue' + batch <= pushed'
    BY <1>5, Zenon
  <2> QED BY <2>1, <2>2, <2>3, Zenon
<1>7. TypeOK'
  BY <1>0, <1>1, <1>3, <1>5, <1>6, Zenon DEF TypeOK
<1>8. Batches'
  BY <1>0, <1>1, <1>5, Zenon DEF Batches
<1> QED BY <1>0, <1>4, <1>7, <1>8, CalmKeeps, Zenon DEF WInv

Labels == {"none", "check", "park", "recheck", "inner", "steal", "work", "exit"}

\* A worker's step moves that worker, from where it was running.
LEMMA WorkerMoves ==
  ASSUME TypeOK, NEW w \in Worker, Run(w) \/ WakeByTimeout(w)
  PROVE  /\ UNCHANGED <<mode, phase, todo, flag, handle, owns, cycle, live, loaded, pushed>>
         /\ Running(w) /\ \E l \in Labels \ {"none"} : pc' = [pc EXCEPT ![w] = l]
         /\ token' \in [Worker -> {"none", "early", "late"}] /\ synced' \subseteq Worker
         /\ unsynced' \in BOOLEAN
         /\ unsynced' => unsynced \/ w \in {"append", "snapshot"}
         /\ w # "append" => UNCHANGED <<queue, batch>>
<1>0. /\ pc \in [Worker -> Labels] /\ token \in [Worker -> {"none", "early", "late"}]
      /\ synced \subseteq Worker /\ unsynced \in BOOLEAN /\ "append" \in Worker
  BY DEF TypeOK, Labels, Worker
<1>1. ASSUME Check(w) \/ WakeByToken(w) \/ WakeByTimeout(w) \/ Recheck(w)
      PROVE  /\ UNCHANGED <<mode, phase, todo, flag, handle, owns, cycle, live, loaded, pushed>>
             /\ UNCHANGED <<unsynced, queue, batch>>
             /\ pc[w] \in {"check", "park", "recheck"}
  BY <1>1, Zenon DEF Check, WakeByToken, WakeByTimeout, Recheck, dataVars
<1>2. ASSUME Check(w) \/ WakeByToken(w) \/ WakeByTimeout(w) \/ Recheck(w)
      PROVE  \E l \in Labels \ {"none"} : pc' = [pc EXCEPT ![w] = l]
  <2>1. AfterPark(w) \in Labels \ {"none"}
    BY DEF AfterPark, Labels
  <2>2. \A x \in BOOLEAN : /\ (IF ~x THEN "exit" ELSE IF w = "append" THEN "inner" ELSE "park")
                                  \in Labels \ {"none"}
                           /\ (IF x THEN "work" ELSE "exit") \in Labels \ {"none"}
    BY DEF Labels
  <2>3. \A x \in Loads(w) : x \in BOOLEAN
    <3>1. flag \in [{"oracle", "inner", "persist"} -> BOOLEAN]
          /\ FlagOf(w) \in {"oracle", "inner", "persist"}
      BY DEF TypeOK, FlagOf
    <3> QED BY <3>1, Zenon DEF Loads
  <2> QED BY <1>2, <2>1, <2>2, <2>3, Zenon
          DEF Check, WakeByToken, WakeByTimeout, Recheck, Goto
<1>3. ASSUME Check(w) \/ WakeByToken(w) \/ WakeByTimeout(w) \/ Recheck(w)
      PROVE  token' \in [Worker -> {"none", "early", "late"}] /\ synced' \subseteq Worker
  <2>1. token' = token \/ token' = [token EXCEPT ![w] = "none"]
    BY <1>3, Zenon DEF Check, WakeByToken, WakeByTimeout, Recheck
  <2>2. synced' = synced \/ synced' = synced \cup {w}
    BY <1>3, Zenon DEF Check, WakeByToken, WakeByTimeout, Recheck
  <2> QED BY <1>0, <2>1, <2>2
<1>4. ASSUME Work(w)
      PROVE  /\ UNCHANGED <<mode, phase, todo, flag, handle, owns, cycle, live, loaded, pushed>>
             /\ UNCHANGED <<token, synced, queue>> /\ pc[w] = "work"
             /\ pc' = [pc EXCEPT ![w] = "check"]
             /\ batch' = IF w = "append" THEN 0 ELSE batch
  BY <1>4, Zenon DEF Work, Goto
<1>5. ASSUME Work(w)
      PROVE  unsynced' \in BOOLEAN /\ (unsynced' => unsynced \/ w \in {"append", "snapshot"})
  <2>1. unsynced' \in CASE w \in {"append", "snapshot"} -> {TRUE, FALSE}
                       [] w = "fsync" -> {FALSE}
                       [] OTHER -> {unsynced}
    BY <1>5, Zenon DEF Work
  <2>2. CASE w \in {"append", "snapshot"}
    BY <2>1, <2>2, Zenon
  <2>3. CASE w = "fsync"
    BY <2>1, <2>3
  <2>4. CASE w \notin {"append", "snapshot", "fsync"}
    BY <1>0, <2>1, <2>4, Zenon
  <2> QED BY <2>2, <2>3, <2>4
<1>6. ASSUME w = "append", AppendInner \/ AppendSteal
      PROVE  /\ UNCHANGED <<mode, phase, todo, flag, handle, owns, cycle, live, loaded, pushed>>
             /\ UNCHANGED <<token, unsynced>> /\ pc[w] \in {"inner", "steal"}
             /\ synced' \subseteq Worker
             /\ \E l \in Labels \ {"none"} : pc' = [pc EXCEPT ![w] = l]
  <2>1. /\ UNCHANGED <<mode, phase, todo, flag, handle, owns, cycle, live, loaded, pushed>>
        /\ UNCHANGED <<token, unsynced>> /\ pc[w] \in {"inner", "steal"}
    BY <1>6, Zenon DEF AppendInner, AppendSteal, dataVars
  <2>2. synced' = synced \/ synced' = synced \cup {"append"}
    BY <1>6, Zenon DEF AppendInner, AppendSteal
  <2>3. \E l \in {"steal", "work", "check", "inner", "park"} : pc' = [pc EXCEPT !["append"] = l]
    BY <1>6, Zenon DEF AppendInner, AppendSteal, Goto
  <2>4. {"steal", "work", "check", "inner", "park"} \subseteq Labels \ {"none"}
    BY DEF Labels
  <2> QED BY <1>0, <1>6, <2>1, <2>2, <2>3, <2>4, Zenon
<1>7. CASE Check(w) \/ WakeByToken(w) \/ WakeByTimeout(w) \/ Recheck(w)
  <2>1. Running(w)
    BY <1>1, <1>7 DEF Running
  <2>2. unsynced' \in BOOLEAN /\ (unsynced' => unsynced)
    <3>1. unsynced' = unsynced
      BY <1>1, <1>7, Zenon
    <3> QED BY <1>0, <3>1
  <2>3. token' \in [Worker -> {"none", "early", "late"}] /\ synced' \subseteq Worker
    BY <1>3, <1>7, Zenon
  <2> QED BY <1>1, <1>2, <1>7, <2>1, <2>2, <2>3, Zenon
<1>8. CASE Work(w)
  <2>1. "check" \in Labels \ {"none"}
    BY DEF Labels
  <2> QED BY <1>0, <1>4, <1>5, <1>8, <2>1, Zenon DEF Running
<1>9. CASE w = "append" /\ (AppendInner \/ AppendSteal)
  BY <1>0, <1>6, <1>9, Zenon DEF Running
<1> QED BY <1>7, <1>8, <1>9, Zenon DEF Run

\* The append worker takes at most BatchSize operations and returns to its
\* outer loop, or ends, with none left.
LEMMA AppendBatch ==
  ASSUME WInv, Run("append") \/ WakeByTimeout("append")
  PROVE  /\ queue' \in 0..MaxQueue /\ batch' \in 0..BatchSize
         /\ Batches'
<1>0. /\ BatchSize \in Nat \ {0} /\ MaxQueue \in Nat
      /\ queue \in 0..MaxQueue /\ batch \in 0..BatchSize /\ pushed \in 0..MaxQueue
      /\ pc \in [Worker -> Labels] /\ "append" \in Worker
      /\ pc["append"] \in {"none", "check", "park", "exit"} => batch = 0
      /\ pc["append"] \in {"inner", "steal"} => batch < BatchSize
      /\ pc["append"] # "recheck"
      /\ queue + batch <= pushed
      /\ phase \in {"opening", "failed"} => live = {} /\ queue = 0 /\ batch = 0
  BY WorkersAssumption DEF WInv, TypeOK, Batches, Labels, Worker
<1>1. UNCHANGED <<phase, live, pushed>>
  BY <1>0, WorkerMoves, Zenon DEF WInv
<1>2. ASSUME NEW l \in Labels, pc' = [pc EXCEPT !["append"] = l]
      PROVE  pc'["append"] = l
  BY <1>0, <1>2
<1>3. CASE Check("append")
  <2>1. /\ pc["append"] = "check" /\ UNCHANGED <<queue, batch>>
        /\ \E l \in {"exit", "inner"} : pc' = [pc EXCEPT !["append"] = l]
    BY <1>3, Zenon DEF Check, Goto, dataVars
  <2>2. pc'["append"] \in {"exit", "inner"}
    BY <1>0, <2>1
  <2> QED BY <1>0, <1>1, <2>1, <2>2 DEF Batches
<1>4. CASE WakeByToken("append") \/ WakeByTimeout("append")
  <2>1. /\ pc["append"] = "park" /\ UNCHANGED <<queue, batch>>
        /\ pc' = [pc EXCEPT !["append"] = AfterPark("append")]
    BY <1>4, Zenon DEF WakeByToken, WakeByTimeout, Goto, dataVars
  <2>2. pc'["append"] = "inner"
    BY <1>0, <2>1 DEF AfterPark
  <2> QED BY <1>0, <1>1, <2>1, <2>2 DEF Batches
<1>5. CASE Recheck("append")
  BY <1>0, <1>5, Zenon DEF Recheck
<1>6. CASE Work("append")
  <2>1. pc["append"] = "work" /\ queue' = queue /\ batch' = 0
        /\ pc' = [pc EXCEPT !["append"] = "check"]
    BY <1>6, Zenon DEF Work, Goto
  <2>2. pc'["append"] = "check"
    BY <1>0, <2>1
  <2> QED BY <1>0, <1>1, <2>1, <2>2 DEF Batches
<1>7. CASE AppendInner
  <2>1. /\ pc["append"] = "inner" /\ UNCHANGED <<queue, batch>>
        /\ \E l \in {"steal", IF batch > 0 THEN "work" ELSE "check"} :
              pc' = [pc EXCEPT !["append"] = l]
    BY <1>7, Zenon DEF AppendInner, Goto, dataVars
  <2>2. pc'["append"] \in {"steal", IF batch > 0 THEN "work" ELSE "check"}
    BY <1>0, <2>1
  <2> QED BY <1>0, <1>1, <2>1, <2>2 DEF Batches
<1>8. CASE AppendSteal
  <2>0. pc["append"] = "steal"
    BY <1>8, Zenon DEF AppendSteal
  <2>1. CASE /\ queue > 0 /\ queue' = queue - 1 /\ batch' = batch + 1
             /\ pc' = [pc EXCEPT !["append"] = IF batch + 1 >= BatchSize THEN "work" ELSE "inner"]
    <3>1. pc'["append"] = IF batch + 1 >= BatchSize THEN "work" ELSE "inner"
      BY <1>0, <2>1
    <3> QED BY <1>0, <1>1, <2>0, <2>1, <3>1 DEF Batches
  <2>2. CASE /\ UNCHANGED <<queue, batch>>
             /\ pc' = [pc EXCEPT !["append"] = IF batch > 0 THEN "work" ELSE "park"]
    <3>1. pc'["append"] = IF batch > 0 THEN "work" ELSE "park"
      BY <1>0, <2>2
    <3> QED BY <1>0, <1>1, <2>0, <2>2, <3>1 DEF Batches
  <2> QED BY <1>8, <2>1, <2>2, Zenon DEF AppendSteal, Goto
<1> QED BY <1>3, <1>4, <1>5, <1>6, <1>7, <1>8, Zenon DEF Run

LEMMA StepWorker ==
  ASSUME WInv, NEW w \in Worker, Run(w) \/ WakeByTimeout(w)
  PROVE  WInv'
<1>0. /\ TypeOK /\ Programs /\ Threads /\ Batches
      /\ \A t \in Tx : Within(todo[t], ClientSteps)
      /\ phase = "failed" => Within(todo["main"], OracleSteps)
      /\ pc \in [Worker -> Labels] /\ Holder \cup {"append"} \subseteq Worker
  BY DEF WInv, Programs, TypeOK, Labels, Holder, Worker
<1>1. /\ UNCHANGED <<mode, phase, todo, flag, handle, owns, cycle, live, loaded, pushed>>
      /\ Running(w)
      /\ token' \in [Worker -> {"none", "early", "late"}] /\ synced' \subseteq Worker
      /\ unsynced' \in BOOLEAN
      /\ unsynced' => unsynced \/ w \in {"append", "snapshot"}
      /\ w # "append" => UNCHANGED <<queue, batch>>
  BY <1>0, WorkerMoves, Zenon
<1>2. PICK l \in Labels \ {"none"} : pc' = [pc EXCEPT ![w] = l]
  BY <1>0, WorkerMoves, Zenon
<1>3. pc' \in [Worker -> Labels] /\ pc'[w] = l /\ \A v \in Worker : v # w => pc'[v] = pc[v]
  BY <1>0, <1>2
<1>4. Calm
  <2>1. \A v \in Holder \cup {"append"} : /\ pc'[v] \notin {"none", "exit"} => Running(v)
                                          /\ pc[v] = "none" => pc'[v] = "none"
    BY <1>0, <1>1, <1>3 DEF Running
  <2>2. unsynced' => unsynced \/ Running("append") \/ Running("snapshot")
    BY <1>1
  <2> QED BY <1>0, <1>1, <2>1, <2>2, Zenon DEF Calm
<1>5. CASE w = "append"
  <2>1. queue' \in 0..MaxQueue /\ batch' \in 0..BatchSize /\ Batches'
    BY <1>5, AppendBatch, Zenon
  <2>2. TypeOK'
    BY <1>0, <1>1, <1>3, <2>1, Zenon DEF TypeOK, Labels
  <2> QED BY <1>0, <1>4, <2>1, <2>2, CalmKeeps, Zenon DEF WInv
<1>6. CASE w # "append"
  <2>1. pc'["append"] = pc["append"] /\ UNCHANGED <<queue, batch>>
    BY <1>0, <1>1, <1>3, <1>6
  <2>2. Batches'
    BY <1>0, <1>1, <2>1, Zenon DEF Batches
  <2>3. TypeOK'
    BY <1>0, <1>1, <1>3, <2>1, Zenon DEF TypeOK, Labels
  <2> QED BY <1>0, <1>4, <2>2, <2>3, CalmKeeps, Zenon DEF WInv
<1> QED BY <1>5, <1>6

-----------------------------------------------------------------------------
(* The constructor *)

LEMMA TailLoad ==
  ASSUME NEW s \in Seq(Call), s # <<>>
  PROVE  /\ LoadFirst(s) /\ s[1][1] # "load"
              => s[1] = <<"spawn", "resync">> /\ LoadFirst(Tail(s))
         /\ LoadOnce(s) => LoadOnce(Tail(s))
         /\ LoadOnce(s) /\ s[1][1] = "load" => ~Ahead(Tail(s), "load")
<1>1. /\ Len(s) \in Nat \ {0} /\ Len(Tail(s)) = Len(s) - 1
      /\ \A i \in 1..(Len(s) - 1) : Tail(s)[i] = s[i + 1]
  BY SeqTail
<1>2. ASSUME LoadFirst(s), s[1][1] # "load"
      PROVE  s[1] = <<"spawn", "resync">> /\ LoadFirst(Tail(s))
  <2>1. PICK n \in 1..Len(s) :
           s[n] = <<"load", "none">> /\ \A i \in 1..(n - 1) : s[i] = <<"spawn", "resync">>
    BY <1>2, Zenon DEF LoadFirst
  <2>2. n # 1
    BY <1>2, <2>1
  <2>3. /\ n - 1 \in 1..(Len(s) - 1) /\ Tail(s)[n - 1] = s[n] /\ 1 \in 1..(n - 1)
        /\ \A i \in 1..((n - 1) - 1) : i + 1 \in 1..(n - 1) /\ Tail(s)[i] = s[i + 1]
    BY <1>1, <2>1, <2>2
  <2>4. \A i \in 1..((n - 1) - 1) : Tail(s)[i] = <<"spawn", "resync">>
    BY <2>1, <2>3, Zenon
  <2> QED BY <1>1, <2>1, <2>3, <2>4, Zenon DEF LoadFirst
<1>3. ASSUME LoadOnce(s) PROVE LoadOnce(Tail(s))
  <2>1. ASSUME NEW i \in 1..(Len(s) - 1), NEW j \in 1..(Len(s) - 1),
               Tail(s)[i][1] = "load", Tail(s)[j][1] = "load"
        PROVE  i = j
    <3>1. /\ i + 1 \in 1..Len(s) /\ j + 1 \in 1..Len(s)
          /\ s[i + 1][1] = "load" /\ s[j + 1][1] = "load"
      BY <1>1, <2>1
    <3>2. i + 1 = j + 1
      BY <1>3, <3>1, Zenon DEF LoadOnce
    <3> QED BY <3>2
  <2> QED BY <1>1, <2>1, Zenon DEF LoadOnce
<1>4. ASSUME LoadOnce(s), s[1][1] = "load", NEW i \in 1..(Len(s) - 1), Tail(s)[i][1] = "load"
      PROVE  FALSE
  <2>1. i + 1 \in 1..Len(s) /\ s[i + 1][1] = "load" /\ 1 \in 1..Len(s) /\ i + 1 # 1
    BY <1>1, <1>4
  <2> QED BY <1>4, <2>1, Zenon DEF LoadOnce
<1> QED BY <1>1, <1>2, <1>3, <1>4, Zenon DEF Ahead

LEMMA StepOpening ==
  ASSUME WInv, phase = "opening", Step("main")
  PROVE  WInv'
<1> DEFINE s == todo["main"]
<1>0. /\ TypeOK /\ Programs /\ Threads /\ Batches /\ s \in Seq(Call)
      /\ todo \in [Thread -> Seq(Call)] /\ "main" \in Thread
      /\ \A t \in Tx : t \in Thread /\ t # "main" /\ Within(todo[t], ClientSteps)
      /\ mode.persist \in BOOLEAN
  BY Distinct, WorkersAssumption DEF WInv, Programs, TypeOK
<1>1. /\ Within(s, OpenSteps(mode.persist)) /\ owns
      /\ IF loaded THEN ~Ahead(s, "load") ELSE LoadFirst(s) /\ LoadOnce(s)
  BY <1>0, Zenon DEF Programs
<1>2. s # <<>>
  BY Zenon DEF Step, Spawn, Load, Backfill, Clear, Take, Unpark, Join, FinalSync, Release, Does
<1>3. Head(s) = s[1] /\ s[1] \in OpenSteps(mode.persist) /\ Len(s) \in Nat \ {0}
  BY <1>0, <1>1, <1>2, SeqTail, TailList, Zenon
<1>4. /\ s[1][1] \in {"spawn", "load", "backfill"}
      /\ s[1][1] = "spawn" => /\ s[1][2] \in Worker
                              /\ ~mode.persist => s[1][2] \notin {"snapshot", "append"}
  BY <1>0, <1>3 DEF OpenSteps, Worker
<1>5. Spawn("main") \/ Load("main") \/ Backfill("main")
  <2>1. /\ ~Does("main", "clear") /\ ~Does("main", "take") /\ ~Does("main", "unpark")
        /\ ~Does("main", "join") /\ ~Does("main", "sync") /\ ~Does("main", "release")
    BY <1>3, <1>4 DEF Does
  <2> QED BY <2>1, Zenon DEF Step, Clear, Take, Unpark, Join, FinalSync, Release
<1>6. /\ Tail(s) \in Seq(Call) /\ Within(Tail(s), OpenSteps(mode.persist))
      /\ s[1][1] # "load" =>
            IF loaded THEN ~Ahead(Tail(s), "load") ELSE LoadFirst(Tail(s)) /\ LoadOnce(Tail(s))
      /\ s[1][1] = "load" => ~loaded /\ ~Ahead(Tail(s), "load")
      /\ ~loaded /\ s[1][1] = "spawn" => s[1][2] = "resync"
  <2>1. s[1][1] = "load" => Ahead(s, "load")
    BY <1>3 DEF Ahead
  <2>2. /\ Tail(s) \in Seq(Call) /\ Within(Tail(s), OpenSteps(mode.persist))
        /\ ~Ahead(s, "load") => ~Ahead(Tail(s), "load")
    BY <1>0, <1>1, <1>2, TailList, Zenon
  <2>3. /\ LoadFirst(s) /\ s[1][1] # "load"
              => s[1] = <<"spawn", "resync">> /\ LoadFirst(Tail(s))
        /\ LoadOnce(s) => LoadOnce(Tail(s))
        /\ LoadOnce(s) /\ s[1][1] = "load" => ~Ahead(Tail(s), "load")
    BY <1>0, <1>2, TailLoad, Zenon
  <2>4. s[1] = <<"spawn", "resync">> => s[1][2] = "resync"
    OBVIOUS
  <2>5. s[1][1] = "spawn" => s[1][1] # "load"
    OBVIOUS
  <2> QED BY <1>1, <2>1, <2>2, <2>3, <2>4, <2>5, Zenon
<1>7. ASSUME NEW q \in Seq(Call), todo' = [todo EXCEPT !["main"] = q]
      PROVE  /\ todo' \in [Thread -> Seq(Call)] /\ todo'["main"] = q
             /\ \A t \in Tx : Within(todo'[t], ClientSteps)
  BY <1>0, <1>7
<1>8. Batches' /\ queue' \in 0..MaxQueue /\ batch' = batch /\ pushed' = pushed
  <2>1. /\ UNCHANGED <<live, queue, batch, pushed>> /\ queue = 0 /\ batch = 0
        /\ BatchSize \in Nat \ {0} /\ queue \in 0..MaxQueue
    BY <1>0, <1>5, WorkersAssumption DEF Spawn, Load, Backfill, dataVars, Batches, TypeOK
  <2>2. pc' = pc \/ \E w \in Worker : pc' = [pc EXCEPT ![w] = "check"]
    <3>1. Does("main", "spawn") => Arg("main") \in Worker
      BY <1>3, <1>4 DEF Does, Arg
    <3> QED BY <1>5, <3>1, Zenon DEF Spawn, Load, Backfill, threadVars
  <2>3. pc'["append"] = "check" \/ pc'["append"] = pc["append"]
    <3>1. "append" \in Worker /\ pc \in [Worker -> Labels]
      BY <1>0 DEF TypeOK, Worker, Labels
    <3> QED BY <2>2, <3>1
  <2>4. live = {} /\ queue + batch <= pushed
    BY <1>0 DEF Batches
  <2>5. pc'["append"] # "recheck" /\ (pc'["append"] \in {"inner", "steal"} => batch < BatchSize)
    BY <1>0, <2>3 DEF Batches
  <2> QED BY <2>1, <2>4, <2>5, Zenon DEF Batches
<1>9. CASE Spawn("main")
  <2> DEFINE w == s[1][2]
  <2>1. s[1][1] = "spawn" /\ Arg("main") = w /\ w \in Worker
    BY <1>3, <1>4, <1>9 DEF Spawn, Does, Arg
  <2>2. /\ UNCHANGED <<mode, phase, flag, token, synced, owns, cycle, live, loaded, unsynced>>
        /\ todo' = [todo EXCEPT !["main"] = Tail(s)]
        /\ \/ /\ w \in mode.on \cup {"resync"}
              /\ pc' = [pc EXCEPT ![w] = "check"] /\ handle' = handle \cup {w}
           \/ UNCHANGED <<pc, handle>>
    BY <1>9, <2>1, Zenon DEF Spawn, Done, dataVars
  <2> HIDE DEF w
  <2>3. /\ todo' \in [Thread -> Seq(Call)] /\ todo'["main"] = Tail(s)
        /\ \A t \in Tx : Within(todo'[t], ClientSteps)
    BY <1>6, <1>7, <2>2, Zenon
  <2>4. pc' \in [Worker -> Labels] /\ handle' \subseteq Worker
    BY <1>0, <2>1, <2>2, SMTT(30), Z3T(30) DEF TypeOK, Labels
  <2>5. TypeOK'
    BY <1>0, <1>8, <2>2, <2>3, <2>4, Zenon DEF TypeOK, Labels
  <2>6. Programs'
    <3>1. phase' \notin {"open", "closed", "closing", "failed"} /\ s[1][1] # "load"
      BY <2>1, <2>2
    <3> QED BY <1>1, <1>6, <2>2, <2>3, <3>1, Zenon DEF Programs
  <2>7. /\ \A v \in Worker : pc'[v] = pc[v]
                             \/ (v = w /\ v \in mode.on \cup {"resync"} /\ v \in handle')
        /\ handle \subseteq handle'
    BY <1>0, <2>1, <2>2, SMTT(30), Z3T(30) DEF TypeOK
  <2>8. /\ Holder \cup {"append"} \subseteq Worker \ {"resync"} /\ "snapshot" \in Holder
        /\ phase' \notin {"closing", "closed"} /\ owns'
        /\ ~loaded => w = "resync"
        /\ ~mode.persist => w \notin {"snapshot", "append"}
    BY <1>1, <1>4, <1>6, <2>1, <2>2, SMTT(30), Z3T(30) DEF Holder, Worker, w
  <2>9. \A v \in Holder : ~loaded' => pc'[v] = "none"
    BY <1>0, <2>2, <2>7, <2>8, SMTT(30), Z3T(30) DEF Threads
  <2>10. \A v \in Holder \cup {"append"} : Running(v)' => v \in handle'
    BY <1>0, <2>7, <2>8, SMTT(30), Z3T(30) DEF Threads, Running
  <2>11. ~mode'.persist => pc'["snapshot"] = "none" /\ pc'["append"] = "none" /\ ~unsynced'
    BY <1>0, <2>2, <2>7, <2>8, SMTT(30), Z3T(30) DEF Threads
  <2>12. "snapshot" \notin mode'.on => pc'["snapshot"] = "none"
    BY <1>0, <2>2, <2>7, <2>8 DEF Threads
  <2>13. Threads'
    BY <2>8, <2>9, <2>10, <2>11, <2>12, Zenon DEF Threads
  <2> QED BY <1>8, <2>5, <2>6, <2>13, Zenon DEF WInv
<1>10. ASSUME UNCHANGED <<mode, pc, handle, unsynced, flag, token, synced, live>>,
              phase' = "opening", owns' = owns, cycle' \in BOOLEAN, loaded' \in BOOLEAN,
              loaded => loaded', todo' = [todo EXCEPT !["main"] = Tail(s)],
              IF loaded' THEN ~Ahead(Tail(s), "load")
              ELSE LoadFirst(Tail(s)) /\ LoadOnce(Tail(s))
       PROVE  WInv'
  <2>1. /\ todo' \in [Thread -> Seq(Call)] /\ todo'["main"] = Tail(s)
        /\ \A t \in Tx : Within(todo'[t], ClientSteps)
    BY <1>6, <1>7, <1>10, Zenon
  <2>2. TypeOK'
    <3>1. owns \in BOOLEAN /\ phase' \in {"opening", "open", "closing", "closed", "failed"}
      BY <1>0, <1>10 DEF TypeOK
    <3> QED BY <1>0, <1>8, <1>10, <2>1, <3>1, Zenon DEF TypeOK
  <2>3. phase' \notin {"open", "closed", "closing", "failed"}
    BY <1>10
  <2>4. Programs'
    BY <1>1, <1>6, <1>10, <2>1, <2>3, Zenon DEF Programs
  <2>5. \A w : Running(w)' = Running(w)
    BY <1>10, Zenon DEF Running
  <2>6. Threads'
    BY <1>0, <1>1, <1>10, <2>3, <2>5, Zenon DEF Threads
  <2> QED BY <1>8, <2>2, <2>4, <2>6, Zenon DEF WInv
<1>11. CASE Load("main")
  <2>1. s[1][1] = "load"
    BY <1>3, <1>11 DEF Load, Does
  <2>2. UNCHANGED <<mode, flag, pc, token, synced, handle, cycle, live, unsynced>>
    BY <1>11, Zenon DEF Load, threadVars
  <2>3. CASE loaded' = TRUE /\ Done("main") /\ UNCHANGED <<phase, owns>>
    <3>1. /\ loaded' \in BOOLEAN /\ loaded' /\ cycle \in BOOLEAN
      BY <1>0, <2>3, SMTT(30), Z3T(30) DEF TypeOK
    <3> QED BY <1>6, <1>10, <2>1, <2>2, <2>3, <3>1, Zenon DEF Done
  <2>4. CASE /\ phase' = "failed" /\ owns' = FALSE /\ UNCHANGED loaded
             /\ todo' = [todo EXCEPT !["main"] = OracleDrop]
    <3>1. /\ todo' \in [Thread -> Seq(Call)] /\ todo'["main"] = OracleDrop
          /\ \A t \in Tx : Within(todo'[t], ClientSteps)
          /\ Within(OracleDrop, OracleSteps)
      BY <1>7, <2>4, OracleDropList, Zenon
    <3>2. ~loaded
      BY <1>6, <2>1
    <3>3. /\ owns' \in BOOLEAN /\ phase' \in {"opening", "open", "closing", "closed", "failed"}
          /\ phase' \notin {"opening", "open", "closed", "closing"} /\ ~owns'
      BY <2>4, Zenon
    <3>4. TypeOK'
      BY <1>0, <1>8, <2>2, <2>4, <3>1, <3>3, Zenon DEF TypeOK
    <3>5. Programs'
      BY <2>4, <3>1, <3>2, <3>3, ZenonT(30) DEF Programs
    <3>6. \A w \in Holder : pc'[w] = "none" /\ ~Running(w)'
      BY <1>0, <2>2, <3>2 DEF Threads, Running
    <3>7. Threads'
      BY <1>0, <2>2, <3>3, <3>6, Zenon DEF Threads
    <3> QED BY <1>8, <3>4, <3>5, <3>7, Zenon DEF WInv
  <2> QED BY <1>11, <2>3, <2>4, Zenon DEF Load
<1>12. CASE Backfill("main")
  <2>1. s[1][1] # "load"
    BY <1>3, <1>12 DEF Backfill, Does
  <2>2. /\ UNCHANGED <<mode, phase, flag, pc, token, synced, handle, owns, live, loaded, unsynced>>
        /\ todo' = [todo EXCEPT !["main"] = Tail(s)]
    BY <1>12, Zenon DEF Backfill, Done, threadVars, dataVars
  <2>3. cycle' \in BOOLEAN /\ loaded \in BOOLEAN
    BY <1>0, <1>12 DEF Backfill, TypeOK
  <2> QED BY <1>6, <1>10, <2>1, <2>2, <2>3, Zenon
<1> QED BY <1>5, <1>9, <1>11, <1>12, Zenon

-----------------------------------------------------------------------------
(* Database::drop *)

\* What a step of drop must keep for the invariant to stay.
LEMMA ClosingKeeps ==
  ASSUME WInv, phase = "closing", TypeOK', NEW q, todo'["main"] = q,
         UNCHANGED <<mode, phase, pc, loaded, live, queue, batch, pushed>>,
         \A t \in Tx : todo'[t] = todo[t],
         Within(q, CloseSteps), Stops(q), unsynced' => unsynced,
         ~owns' => \A w \in Holder : ~Running(w), owns' => owns,
         \A w \in Holder : Running(w) /\ owns' /\ Awaits(todo["main"], handle, w, "release")
               => Awaits(q, handle', w, "release"),
         Running("append") /\ Awaits(todo["main"], handle, "append", "sync")
               /\ Ahead(todo["main"], "sync") => Awaits(q, handle', "append", "sync") /\ Ahead(q,
  "sync"),
         unsynced' /\ Ahead(todo["main"], "sync") => Ahead(q, "sync")
  PROVE  WInv'
<1>0. /\ TypeOK /\ Programs /\ Threads /\ Batches
      /\ phase \notin {"opening", "open", "closed", "failed"} /\ phase' = phase
  BY Zenon DEF WInv
<1>1. Programs'
  BY <1>0, Zenon DEF Programs
<1>2. Batches'
  BY <1>0, Zenon DEF Batches
<1>3. \A w : Running(w)' = Running(w)
  BY Zenon DEF Running
<1>4. \A w \in Holder :
         /\ ~loaded' => pc'[w] = "none"
         /\ ~owns' => ~Running(w)'
         /\ owns' /\ Running(w)' => Awaits(q, handle', w, "release")
  BY <1>0, <1>3, Zenon DEF Threads
<1>5. ~mode'.persist => pc'["snapshot"] = "none" /\ pc'["append"] = "none" /\ ~unsynced'
  BY <1>0, Zenon DEF Threads
<1>6. ASSUME "snapshot" \notin mode'.on
      PROVE  /\ pc'["snapshot"] = "none"
             /\ Running("append")' => Awaits(q, handle', "append", "sync")
             /\ unsynced' \/ Running("append")' => Ahead(q, "sync")
  <2>1. /\ pc["snapshot"] = "none"
        /\ Running("append") => Awaits(todo["main"], handle, "append", "sync")
        /\ unsynced \/ Running("append") => Ahead(todo["main"], "sync")
    BY <1>0, <1>6, Zenon DEF Threads
  <2> QED BY <1>3, <2>1, Zenon
<1>7. Threads'
  BY <1>0, <1>3, <1>4, <1>5, <1>6, Zenon DEF Threads
<1> QED BY <1>1, <1>2, <1>7, Zenon DEF WInv

\* Nobody is awaited by a thread that is past the mark.
LEMMA AwaitsMark ==
  ASSUME NEW s \in Seq(Call), s # <<>>, NEW h, NEW w, NEW mark,
         mark \notin {"take", "join", "unpark"}, s[1][1] = mark
  PROVE  ~Awaits(s, h, w, mark)
<1>1. Len(s) \in Nat \ {0} /\ \A n \in 1..Len(s) : 1 \in 1..n
  BY SeqTail
<1>2. ~Frees(s, w, mark)
  BY <1>1, Zenon DEF Frees
<1>3. s[1] # <<"join", w>> /\ s[1] # <<"unpark", w>>
  OBVIOUS
<1> QED BY <1>2, <1>3, Zenon DEF Awaits

LEMMA ListTypes ==
  ASSUME TypeOK, NEW q \in Seq(Call), todo' = [todo EXCEPT !["main"] = q]
  PROVE  /\ todo' \in [Thread -> Seq(Call)] /\ todo'["main"] = q
         /\ \A t \in Tx : todo'[t] = todo[t]
BY Distinct DEF TypeOK

LEMMA StepClosing ==
  ASSUME WInv, phase = "closing", Step("main")
  PROVE  WInv'
<1> DEFINE s == todo["main"]
<1>0. /\ TypeOK /\ Programs /\ Threads /\ s \in Seq(Call)
      /\ Within(s, CloseSteps) /\ Stops(s) /\ "main" \in Thread
  <2>1. TypeOK /\ Programs /\ Threads /\ Within(s, CloseSteps) /\ Stops(s)
    BY Zenon DEF WInv, Programs
  <2> QED BY <2>1, Distinct DEF TypeOK
<1>1. s # <<>>
  BY Zenon DEF Step, Spawn, Load, Backfill, Clear, Take, Unpark, Join, FinalSync, Release, Does
<1>2. Head(s) = s[1] /\ s[1] \in CloseSteps
  BY <1>0, <1>1, SeqTail, TailList, Zenon
<1>3. /\ s[1] = <<s[1][1], s[1][2]>>
      /\ s[1][1] \in {"clear", "take", "unpark", "join", "release", "sync"}
      /\ s[1][1] = "clear" => s[1][2] \in {"oracle", "inner", "persist"}
      /\ s[1][1] \in {"take", "unpark", "join"} => s[1][2] \in Worker
      /\ s[1][1] = "release" => s[1] = <<"release", "none">>
  BY <1>2 DEF CloseSteps
<1>4. /\ Tail(s) \in Seq(Call) /\ Within(Tail(s), CloseSteps) /\ Stops(Tail(s))
      /\ s[1][1] # "sync" /\ Ahead(s, "sync") => Ahead(Tail(s), "sync")
  BY <1>0, <1>1, TailList, ZenonT(30)
<1>5. "append" \notin Holder /\ Holder \cup {"append"} \subseteq Worker
      /\ \A w \in Holder : ~owns => ~Running(w)
  BY <1>0, SMTT(30), Z3T(30) DEF Holder, Worker, Threads
<1>6. /\ flag \in [{"oracle", "inner", "persist"} -> BOOLEAN]
      /\ token \in [Worker -> {"none", "early", "late"}] /\ handle \subseteq Worker
  BY <1>0 DEF TypeOK
\* A step on to the rest of the list.
<1>7. ASSUME todo' = [todo EXCEPT !["main"] = Tail(s)], s[1][1] # "sync",
             UNCHANGED <<mode, phase, pc, synced, owns, cycle, live, dataVars>>,
             flag' \in [{"oracle", "inner", "persist"} -> BOOLEAN],
             token' \in [Worker -> {"none", "early", "late"}], handle' \subseteq Worker,
             \A w \in Holder \cup {"append"}, m \in {"release", "sync"} :
                Running(w) /\ Awaits(s, handle, w, m) => Awaits(Tail(s), handle', w, m)
      PROVE  WInv'
  <2>1. /\ todo' \in [Thread -> Seq(Call)] /\ todo'["main"] = Tail(s)
        /\ \A t \in Tx : todo'[t] = todo[t]
    BY <1>0, <1>4, <1>7, ListTypes, ZenonT(30)
  <2>2. UNCHANGED <<loaded, queue, batch, pushed, unsynced>>
    BY <1>7 DEF dataVars
  <2>3. TypeOK'
    BY <1>0, <1>7, <2>1, <2>2, ZenonT(30) DEF TypeOK
  <2>4. /\ \A w \in Holder : Running(w) /\ owns' /\ Awaits(s, handle, w, "release")
               => Awaits(Tail(s), handle', w, "release")
        /\ Running("append") /\ Awaits(s, handle, "append", "sync") /\ Ahead(s, "sync")
               => Awaits(Tail(s), handle', "append", "sync") /\ Ahead(Tail(s), "sync")
    BY <1>4, <1>7, SMTT(30), Z3T(30)
  <2>5. /\ unsynced' => unsynced
        /\ ~owns' => \A w \in Holder : ~Running(w)
        /\ owns' => owns
        /\ unsynced' /\ Ahead(s, "sync") => Ahead(Tail(s), "sync")
    BY <1>4, <1>5, <1>7, <2>2, Zenon
  <2> QED BY <1>4, <1>7, <2>1, <2>2, <2>3, <2>4, <2>5, ClosingKeeps, ZenonT(30)
<1>8. ASSUME handle' = handle, s[1][1] # "take",
             \A w \in Holder \cup {"append"} : Running(w) => s[1] # <<"join", w>>
      PROVE  \A w \in Holder \cup {"append"}, m \in {"release", "sync"} :
                Running(w) /\ Awaits(s, handle, w, m) => Awaits(Tail(s), handle', w, m)
  <2>1. \A w : s[1] # <<"take", w>>
    BY <1>8
  <2> QED BY <1>0, <1>1, <1>8, <2>1, TailAwaits, ZenonT(30)
<1>9. CASE Clear("main")
  <2>1. s[1][1] = "clear" /\ Arg("main") \in {"oracle", "inner", "persist"}
    BY <1>2, <1>3, <1>9 DEF Clear, Does, Arg
  <2>2. /\ s[1][1] # "sync" /\ s[1][1] # "take"
        /\ \A w \in Holder \cup {"append"} : Running(w) => s[1] # <<"join", w>>
    BY <2>1
  <2>3. /\ UNCHANGED <<mode, phase, pc, token, synced, handle, owns, cycle, live, dataVars>>
        /\ todo' = [todo EXCEPT !["main"] = Tail(s)]
        /\ flag' = [flag EXCEPT ![Arg("main")] = FALSE]
    BY <1>9, Zenon DEF Clear, Done, threadVars
  <2>4. flag' \in [{"oracle", "inner", "persist"} -> BOOLEAN]
    BY <1>6, <2>1, <2>3
  <2> QED BY <1>6, <1>7, <1>8, <2>2, <2>3, <2>4, ZenonT(30)
<1>10. CASE Unpark("main")
  <2>1. s[1][1] = "unpark" /\ Arg("main") \in Worker
    BY <1>2, <1>3, <1>10 DEF Unpark, Does, Arg
  <2>2. /\ s[1][1] # "sync" /\ s[1][1] # "take"
        /\ \A w \in Holder \cup {"append"} : Running(w) => s[1] # <<"join", w>>
    BY <2>1
  <2>3. /\ UNCHANGED <<mode, phase, flag, pc, synced, handle, owns, cycle, live, dataVars>>
        /\ todo' = [todo EXCEPT !["main"] = Tail(s)]
        /\ \E v \in {"early", "late"} : token' = [token EXCEPT ![Arg("main")] = v]
    BY <1>10, ZenonT(30) DEF Unpark, Done
  <2>4. token' \in [Worker -> {"none", "early", "late"}]
    BY <1>6, <2>1, <2>3
  <2> QED BY <1>6, <1>7, <1>8, <2>2, <2>3, <2>4, ZenonT(30)
<1>11. CASE Join("main")
  <2>1. s[1][1] = "join" /\ pc[s[1][2]] = "exit"
    BY <1>2, <1>3, <1>11, SMTT(30), Z3T(30) DEF Join, Does, Arg
  <2>2. /\ s[1][1] # "sync" /\ s[1][1] # "take"
        /\ \A w \in Holder \cup {"append"} : Running(w) => s[1] # <<"join", w>>
    BY <2>1 DEF Running
  <2>3. /\ UNCHANGED <<mode, phase, flag, pc, token, synced, handle, owns, cycle, live, dataVars>>
        /\ todo' = [todo EXCEPT !["main"] = Tail(s)]
    BY <1>11, Zenon DEF Join, Done, threadVars
  <2> QED BY <1>6, <1>7, <1>8, <2>2, <2>3, ZenonT(30)
<1>12. CASE Take("main")
  <2> DEFINE v == s[1][2]
  <2>1. /\ s[1][1] = "take" /\ Arg("main") = v /\ v \in Worker /\ s[1] = <<"take", v>>
        /\ s[1][1] # "sync"
    BY <1>2, <1>3, <1>12 DEF Take, Does, Arg
  <2>2. UNCHANGED <<mode, phase, flag, pc, token, synced, owns, cycle, live, dataVars>>
    BY <1>12, Zenon DEF Take
  <2>3. CASE handle' = handle \ {v} /\ Done("main")
    <3>1. todo' = [todo EXCEPT !["main"] = Tail(s)] /\ handle' \subseteq Worker
      BY <1>6, <2>3, SMTT(30), Z3T(30) DEF Done
    <3>2. ASSUME NEW w \in Holder \cup {"append"}, NEW m \in {"release", "sync"},
                 Running(w), Awaits(s, handle, w, m)
          PROVE  Awaits(Tail(s), handle', w, m)
      <4>1. CASE w = v
        BY <1>0, <1>1, <2>1, <4>1, TakeAwaits, Zenon
      <4>2. CASE w # v
        <5>1. /\ s[1] # <<"take", w>> /\ s[1] # <<"join", w>>
              /\ w \in handle => w \in handle'
          BY <2>1, <2>3, <4>2
        <5> QED BY <1>0, <1>1, <3>2, <5>1, TailAwaits, Zenon
      <4> QED BY <4>1, <4>2
    <3> QED BY <1>6, <1>7, <2>1, <2>2, <3>1, <3>2, Zenon
  <2>4. CASE /\ v \notin handle /\ handle' = handle
             /\ todo' = [todo EXCEPT !["main"] = SubSeq(s, 4, Len(s))]
    <3> DEFINE q == SubSeq(s, 4, Len(s))
    <3>1. /\ q \in Seq(Call) /\ Within(q, CloseSteps) /\ Stops(q)
          /\ Ahead(s, "sync") => Ahead(q, "sync")
      BY <1>0, <2>1, SkipList
    <3>2. \A w, m : Awaits(s, handle, w, m) => Awaits(q, handle', w, m)
      BY <1>0, <1>1, <2>1, <2>4, SkipAwaits, Zenon
    <3> HIDE DEF q
    <3>3. /\ todo' \in [Thread -> Seq(Call)] /\ todo'["main"] = q
          /\ \A t \in Tx : todo'[t] = todo[t]
      BY <1>0, <2>4, <3>1, ListTypes, Zenon DEF q
    <3>4. UNCHANGED <<loaded, queue, batch, pushed, unsynced>>
      BY <2>2 DEF dataVars
    <3>5. TypeOK'
      BY <1>0, <2>2, <2>4, <3>3, <3>4, Zenon DEF TypeOK
    <3>6. ~owns' => \A w \in Holder : ~Running(w)
      BY <1>5, <2>2, Zenon
    <3>7. UNCHANGED <<mode, phase, pc, loaded, live, queue, batch, pushed>>
          /\ (unsynced' => unsynced) /\ (owns' => owns)
      BY <2>2, <3>4
    <3> QED BY <3>1, <3>2, <3>3, <3>5, <3>6, <3>7, ClosingKeeps, ZenonT(30)
  <2> QED BY <1>12, <2>1, <2>3, <2>4, ZenonT(30) DEF Take
<1>13. CASE FinalSync("main")
  <2>1. s[1][1] = "sync"
    BY <1>2, <1>13 DEF FinalSync, Does
  <2>2. /\ UNCHANGED <<mode, phase, flag, pc, token, synced, handle, owns, cycle, live, loaded,
                       queue, batch, pushed>>
        /\ unsynced' = FALSE /\ todo' = [todo EXCEPT !["main"] = Tail(s)]
    BY <1>13, Zenon DEF FinalSync, Done, threadVars
  <2>3. /\ todo' \in [Thread -> Seq(Call)] /\ todo'["main"] = Tail(s)
        /\ \A t \in Tx : todo'[t] = todo[t]
    BY <1>0, <1>4, <2>2, ListTypes, Zenon
  <2>4. TypeOK'
    <3>1. unsynced' \in BOOLEAN
      BY <2>2, Zenon
    <3> QED BY <1>0, <2>2, <2>3, <3>1, Zenon DEF TypeOK
  <2>5. ~Awaits(s, handle, "append", "sync")
    <3>1. "sync" \notin {"take", "join", "unpark"}
      OBVIOUS
    <3> QED BY <1>0, <1>1, <2>1, <3>1, AwaitsMark, Zenon
  <2>6. \A w \in Holder : Awaits(s, handle, w, "release") => Awaits(Tail(s), handle', w, "release")
    <3>1. \A w : s[1] # <<"take", w>> /\ s[1] # <<"join", w>>
      BY <2>1
    <3> QED BY <1>0, <1>1, <2>2, <3>1, TailAwaits, Zenon
  <2>7. /\ ~unsynced' /\ (owns' => owns)
        /\ ~owns' => \A w \in Holder : ~Running(w)
    BY <1>5, <2>2
  <2> QED BY <1>4, <2>2, <2>3, <2>4, <2>5, <2>6, <2>7, ClosingKeeps, ZenonT(30)
<1>14. CASE Release("main")
  <2>1. s[1] = <<"release", "none">> /\ s[1][1] = "release"
    BY <1>2, <1>3, <1>14 DEF Release, Does
  <2>2. PICK p : /\ p = <<>> \/ p = OracleDrop
                 /\ todo' = [todo EXCEPT !["main"] = p \o Tail(s)]
    BY <1>14, Zenon DEF Release
  <2> DEFINE q == p \o Tail(s)
  <2>3. /\ UNCHANGED <<mode, phase, flag, pc, token, synced, handle, cycle, live, loaded,
                       queue, batch, pushed, unsynced>>
        /\ owns' = FALSE
    BY <1>14, Zenon DEF Release, threadVars, dataVars
  <2>4. /\ q \in Seq(Call) /\ Within(q, CloseSteps) /\ Stops(q)
        /\ Ahead(s, "sync") => Ahead(q, "sync")
        /\ Awaits(s, handle, "append", "sync") => Awaits(q, handle', "append", "sync")
    BY <1>0, <1>1, <2>1, <2>2, <2>3, ReleaseList, Zenon
  <2>5. todo' = [todo EXCEPT !["main"] = q]
    BY <2>2
  <2> HIDE DEF q
  <2>6. /\ todo' \in [Thread -> Seq(Call)] /\ todo'["main"] = q
        /\ \A t \in Tx : todo'[t] = todo[t]
    BY <1>0, <2>4, <2>5, ListTypes, Zenon
  <2>7. TypeOK'
    <3>1. owns' \in BOOLEAN
      BY <2>3, Zenon
    <3> QED BY <1>0, <2>3, <2>6, <3>1, Zenon DEF TypeOK
  <2>8. \A w \in Holder : ~Running(w)
    <3>1. "release" \notin {"take", "join", "unpark"}
      OBVIOUS
    <3>2. \A w \in Holder : ~Awaits(s, handle, w, "release")
      BY <1>0, <1>1, <2>1, <3>1, AwaitsMark, Zenon
    <3> QED BY <1>0, <3>2, Zenon DEF Threads
  <2> QED BY <2>3, <2>4, <2>6, <2>7, <2>8, ClosingKeeps, ZenonT(30)
<1>15. ~Spawn("main") /\ ~Load("main") /\ ~Backfill("main")
  <2>1. ~Does("main", "spawn") /\ ~Does("main", "load") /\ ~Does("main", "backfill")
    BY <1>2, <1>3 DEF Does
  <2> QED BY <2>1, Zenon DEF Spawn, Load, Backfill
<1> QED BY <1>9, <1>10, <1>11, <1>12, <1>13, <1>14, <1>15, ZenonT(30) DEF Step

LEMMA StepReturn ==
  ASSUME WInv, Return
  PROVE  WInv'
<1> DEFINE s == todo["main"]
<1>0. /\ TypeOK /\ Programs /\ Threads /\ Batches /\ s = <<>>
      /\ phase \in {"opening", "closing"}
      /\ phase' = IF phase = "opening" THEN "open" ELSE "closed"
      /\ UNCHANGED <<mode, todo, flag, pc, token, synced, handle, owns, cycle, live,
                     loaded, queue, batch, pushed, unsynced>>
  BY Zenon DEF WInv, Return, threadVars, dataVars
<1>1. /\ phase' \in {"opening", "open", "closing", "closed", "failed"}
      /\ phase' \notin {"opening", "closing", "failed"}
      /\ phase' = "open" => phase = "opening"
      /\ phase' = "closed" => phase = "closing"
  BY <1>0
<1>2. ~LoadFirst(s) /\ ~Ahead(s, "sync") /\ \A h, w, m : ~Awaits(s, h, w, m)
  <2>1. Len(s) = 0 /\ 1..0 = {} /\ ~(0 >= 1) /\ ~(0 >= 2)
    BY <1>0
  <2> QED BY <2>1 DEF LoadFirst, Ahead, Awaits, Frees
<1>3. TypeOK'
  BY <1>0, <1>1, Zenon DEF TypeOK
<1>4. Programs'
  BY <1>0, <1>1, <1>2, Zenon DEF Programs
<1>5. \A w : Running(w)' = Running(w)
  BY <1>0, Zenon DEF Running
<1>6. Threads'
  <2>1. \A w \in Holder : /\ ~loaded' => pc'[w] = "none"
                          /\ ~owns' => ~Running(w)'
    BY <1>0, <1>5, Zenon DEF Threads
  <2>2. \A w \in Holder \cup {"append"} : phase' = "open" /\ Running(w)' => w \in handle'
    BY <1>0, <1>1, <1>5, Zenon DEF Threads
  <2>3. ~mode'.persist => pc'["snapshot"] = "none" /\ pc'["append"] = "none" /\ ~unsynced'
    BY <1>0, Zenon DEF Threads
  <2>4. "snapshot" \notin mode'.on =>
           /\ pc'["snapshot"] = "none"
           /\ phase' = "closed" => ~Running("append")' /\ ~unsynced'
    BY <1>0, <1>1, <1>2, <1>5, Zenon DEF Threads
  <2> QED BY <1>1, <2>1, <2>2, <2>3, <2>4, Zenon DEF Threads
<1>7. Batches'
  BY <1>0, <1>1, Zenon DEF Batches
<1> QED BY <1>3, <1>4, <1>6, <1>7, Zenon DEF WInv

LEMMA StepDrop ==
  ASSUME WInv, DropDatabase
  PROVE  WInv'
<1> DEFINE c == Closing(mode.persist)
<1>0. /\ TypeOK /\ Programs /\ Threads /\ Batches /\ phase = "open" /\ phase' = "closing"
      /\ todo' = [todo EXCEPT !["main"] = c]
      /\ UNCHANGED <<mode, flag, pc, token, synced, handle, owns, cycle, live,
                     loaded, queue, batch, pushed, unsynced>>
  BY Zenon DEF WInv, DropDatabase, threadVars, dataVars
<1>1. mode.persist \in BOOLEAN
  BY <1>0, WorkersAssumption DEF TypeOK
<1>2. /\ c \in Seq(Call) /\ Within(c, CloseSteps) /\ Stops(c)
      /\ Frees(c, "cleanup", "release") /\ Frees(c, "gc", "release")
      /\ mode.persist => /\ Frees(c, "snapshot", "release")
                         /\ Frees(c, "append", "sync") /\ Ahead(c, "sync")
  BY <1>1, ClosingList, Zenon
<1> HIDE DEF c
<1>3. /\ todo' \in [Thread -> Seq(Call)] /\ todo'["main"] = c
      /\ \A t \in Tx : todo'[t] = todo[t]
  BY <1>0, <1>2, ListTypes, Zenon
<1>4. /\ phase' \in {"opening", "open", "closing", "closed", "failed"}
      /\ phase' \notin {"opening", "open", "closed", "failed"}
  BY <1>0
<1>5. TypeOK'
  BY <1>0, <1>3, <1>4, Zenon DEF TypeOK
<1>6. Programs'
  BY <1>0, <1>2, <1>3, <1>4, Zenon DEF Programs
<1>7. \A w : Running(w)' = Running(w)
  BY <1>0, ZenonT(30) DEF Running
<1>8. /\ Running("snapshot") \/ Running("append") \/ unsynced => mode.persist
      /\ \A w \in Holder \cup {"append"} : Running(w) => w \in handle
  BY <1>0, SMTT(30), Z3T(30) DEF Threads, Running
<1>9. \A w \in Holder : Running(w) => Awaits(c, handle, w, "release")
  BY <1>2, <1>8 DEF Awaits, Holder
<1>10. /\ Running("append") => Awaits(c, handle, "append", "sync")
       /\ unsynced \/ Running("append") => Ahead(c, "sync")
  BY <1>2, <1>8, Zenon DEF Awaits
<1>11. Threads'
  <2>1. \A w \in Holder : /\ ~loaded' => pc'[w] = "none"
                          /\ ~owns' => ~Running(w)'
    BY <1>0, <1>7, Zenon DEF Threads
  <2>2. /\ ~mode'.persist => pc'["snapshot"] = "none" /\ pc'["append"] = "none" /\ ~unsynced'
        /\ "snapshot" \notin mode'.on => pc'["snapshot"] = "none"
    BY <1>0, Zenon DEF Threads
  <2>3. /\ \A w \in Holder : Running(w)' => Awaits(todo'["main"], handle', w, "release")
        /\ Running("append")' => Awaits(todo'["main"], handle', "append", "sync")
        /\ unsynced' \/ Running("append")' => Ahead(todo'["main"], "sync")
    BY <1>0, <1>3, <1>7, <1>9, <1>10, Zenon
  <2> QED BY <1>4, <2>1, <2>2, <2>3, Zenon DEF Threads
<1>12. Batches'
  BY <1>0, <1>4, Zenon DEF Batches
<1> QED BY <1>5, <1>6, <1>11, <1>12, Zenon DEF WInv

-----------------------------------------------------------------------------
(* The theorems *)

LEMMA InitWInv == Init => WInv
<1> SUFFICES ASSUME Init PROVE WInv
  OBVIOUS
<1> DEFINE o == Opening(mode.persist)
<1>1. mode \in Modes /\ mode.persist \in BOOLEAN
  BY WorkersAssumption DEF Init
<1>2. /\ o \in Seq(Call) /\ Within(o, OpenSteps(mode.persist))
      /\ IF mode.persist THEN LoadFirst(o) /\ LoadOnce(o) ELSE ~Ahead(o, "load")
  BY <1>1, OpeningList, Zenon
<1>3. todo = [p \in Thread |-> IF p = "main" THEN o ELSE <<>>]
  BY Zenon DEF Init
<1> HIDE DEF o
<1>4. /\ todo \in [Thread -> Seq(Call)] /\ todo["main"] = o
      /\ \A t \in Tx : todo[t] = <<>>
  BY <1>2, <1>3, Distinct
<1>5. TypeOK
  <2>1. /\ phase \in {"opening", "open", "closing", "closed", "failed"}
        /\ flag \in [{"oracle", "inner", "persist"} -> BOOLEAN]
        /\ synced \subseteq Worker /\ handle \subseteq Worker /\ live \subseteq Tx
    BY DEF Init
  <2>2. /\ pc \in [Worker -> Labels] /\ token \in [Worker -> {"none", "early", "late"}]
    BY DEF Init, Labels
  <2>3. /\ owns \in BOOLEAN /\ cycle \in BOOLEAN /\ loaded \in BOOLEAN /\ unsynced \in BOOLEAN
    BY <1>1, Zenon DEF Init
  <2>4. queue \in 0..MaxQueue /\ batch \in 0..BatchSize /\ pushed \in 0..MaxQueue
    BY WorkersAssumption, SMTT(30), Z3T(30) DEF Init
  <2> QED BY <1>1, <1>4, <2>1, <2>2, <2>3, <2>4, Zenon DEF TypeOK, Labels
<1>6. phase = "opening" /\ phase \notin {"open", "closing", "closed", "failed"} /\ owns
      /\ loaded = ~mode.persist
  BY DEF Init
<1>7. Programs
  <2>1. loaded <=> ~mode.persist
    BY <1>1, <1>6, Zenon
  <2> QED BY <1>2, <1>4, <1>6, <2>1, NoList, Zenon DEF Programs
<1>8. (\A w \in Worker : pc[w] = "none" /\ ~Running(w)) /\ ~unsynced
      /\ Holder \cup {"append", "snapshot"} \subseteq Worker
  BY DEF Init, Running, Holder, Worker
<1>9. Threads
  BY <1>6, <1>8, Zenon DEF Threads
<1>10. Batches
  <2>1. pc["append"] = "none" /\ queue = 0 /\ batch = 0 /\ pushed = 0 /\ live = {}
    BY <1>8 DEF Init
  <2> QED BY <2>1, SMTT(30), Z3T(30) DEF Batches
<1> QED BY <1>5, <1>7, <1>9, <1>10, Zenon DEF WInv

LEMMA NextWInv == WInv /\ [Next]_vars => WInv'
<1> SUFFICES ASSUME WInv, [Next]_vars PROVE WInv'
  OBVIOUS
<1>1. ASSUME NEW p \in Thread, Step(p) PROVE WInv'
  <2>1. CASE p \in Tx
    BY <1>1, <2>1, StepTx, Zenon
  <2>2. CASE p = "main"
    <3>1. phase \notin {"open", "closed"}
      <4>1. todo["main"] # <<>>
        BY <1>1, <2>2, Zenon DEF Step, Spawn, Load, Backfill, Clear, Take, Unpark, Join,
                                 FinalSync, Release, Does
      <4> QED BY <4>1, Zenon DEF WInv, Programs
    <3>2. phase \in {"opening", "closing", "failed"}
      BY <3>1 DEF WInv, TypeOK
    <3> QED BY <1>1, <2>2, <3>2, StepOpening, StepClosing, StepFailed, Zenon
  <2> QED BY <1>1, <2>1, <2>2 DEF Thread
<1>2. CASE UNCHANGED vars
  <2>1. TypeOK'
    BY <1>2, ZenonT(30) DEF vars, WInv, TypeOK
  <2>2. Programs'
    BY <1>2, ZenonT(30) DEF vars, WInv, Programs, Running
  <2>3. Threads' /\ Batches'
    BY <1>2, ZenonT(30) DEF vars, WInv, Threads, Batches, Running
  <2> QED BY <2>1, <2>2, <2>3 DEF WInv
<1>3. ASSUME NEW t \in Tx, Client(t) \/ WakeAppend(t) PROVE WInv'
  BY <1>3, StepClient, Zenon DEF Client
<1>4. ASSUME NEW w \in Worker, Run(w) \/ WakeByTimeout(w) PROVE WInv'
  BY <1>4, StepWorker, Zenon
<1> QED BY <1>1, <1>2, <1>3, <1>4, StepReturn, StepDrop, Zenon DEF Next

LEMMA WorkersInvariant == Spec => []WInv
BY InitWInv, NextWInv, PTL DEF Spec

\* StoppedBeforeRelease for any options and any number of handles: when the
\* Database gives up Inner, in drop or because load failed, the snapshot, the
\* cleanup and the collector thread have ended or were never started.
THEOREM WorkersStopFirst == Spec => []StoppedBeforeRelease
<1>1. WInv => StoppedBeforeRelease
  BY DEF WInv, Threads, Holder, StoppedBeforeRelease
<1> QED BY <1>1, WorkersInvariant, PTL

\* NoWorkBeforeLoad: no collector and no snapshot works on a datastore that
\* load is still filling.
THEOREM LoadBeforeWork == Spec => []NoWorkBeforeLoad
<1>1. WInv => NoWorkBeforeLoad
  BY DEF WInv, Threads, Holder, NoWorkBeforeLoad
<1> QED BY <1>1, WorkersInvariant, PTL

\* StolenAreWritten: whatever the batch size, the append worker leaves its
\* loops with an empty batch.
THEOREM NothingStolenLost == Spec => []StolenAreWritten
<1>1. WInv => StolenAreWritten
  BY SMTT(30), Z3T(30) DEF WInv, Batches, StolenAreWritten
<1> QED BY <1>1, WorkersInvariant, PTL

\* SyncedAfterDrop: without a snapshot worker the last sync_all of drop comes
\* after the last write of the append worker.
THEOREM DropSyncs == Spec => []SyncedAfterDrop
<1>1. WInv => SyncedAfterDrop
  BY DEF WInv, Threads, SyncedAfterDrop
<1> QED BY <1>1, WorkersInvariant, PTL
=============================================================================
