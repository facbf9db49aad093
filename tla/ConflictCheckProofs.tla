------------------------ MODULE ConflictCheckProofs -------------------------
(* VerdictExact and NoFalseNegative for every key set, every hash function *)
(* and every sequence of calls.                                            *)
EXTENDS ConflictCheck, TLAPS

\* What is known of an entry of the commit queue.
WellFormed(c) ==
    /\ c.writeset \subseteq Key
    /\ \A k \in c.writeset : Places(k) \subseteq c.writeset_bloom.bits
    /\ c.min_key \in Key /\ c.max_key \in Key
    /\ \A k \in c.writeset : c.min_key <= k /\ k <= c.max_key

\* Until the transaction ends, the read set is what was read, and the filter
\* covers it and is not empty unless it is.
ReadsKept ==
    pc # "done" =>
        /\ read = readset
        /\ \A k \in readset : Places(k) \subseteq filter.bits
        /\ readset # {} => filter.count # 0

\* How far each loop has come.
LoopInv ==
    /\ pc # "done" => verdict = "none"
    /\ pc = "bloom" =>
        /\ a \subseteq entry.writeset
        /\ (entry.writeset \ a) \cap mine.writeset = {}
    /\ pc = "merge" =>
        /\ a \subseteq entry.writeset /\ b \subseteq mine.writeset
        /\ (entry.writeset \ a) \cap mine.writeset = {}
        /\ (mine.writeset \ b) \cap entry.writeset = {}
    /\ pc \in {"readEmpty", "readBloom", "readset"} =>
        /\ mode = "SSI"
        /\ entry.writeset \cap mine.writeset = {}
    /\ pc = "readBloom" =>
        /\ a \subseteq entry.writeset
        /\ (entry.writeset \ a) \cap readset = {}
    /\ pc = "readset" => entry.writeset \cap readset \subseteq b

Types == /\ write \subseteq Key /\ readset \subseteq Key
         /\ filter.count \in Nat
         /\ mode \in {"SI", "SSI"}

\* The inductive invariant.
IInv ==
    /\ Types
    /\ WellFormed(entry) /\ WellFormed(mine)
    /\ ReadsKept
    /\ LoopInv
    /\ VerdictExact

\* The entry that commit builds: its filter contains each of its keys, its
\* bounds enclose them.
LEMMA CommitsWellFormed ==
  ASSUME NEW W \in SUBSET Key, NEW c \in CommitsOf(W)
  PROVE  WellFormed(c) /\ c.writeset = W
<1>1. PICK p \in {q \in W \X W : \A k \in W : q[1] <= k /\ k <= q[2]} :
         c = [writeset |-> W,
              writeset_bloom |-> [bits |-> UNION {Insert(NewFilter, k).bits : k \in W},
                                  count |-> Cardinality(W)],
              min_key |-> p[1], max_key |-> p[2]]
  BY DEF CommitsOf
<1>2. \A k \in W : Places(k) \subseteq Insert(NewFilter, k).bits
  BY DEF Insert, NewFilter
<1>3. \A k \in W : Places(k) \subseteq c.writeset_bloom.bits
  BY <1>1, <1>2
<1> QED BY <1>1, <1>3 DEF WellFormed

\* A new filter has no key, one that took a key contains it and what it had.
LEMMA InsertCovers ==
  ASSUME NEW f, NEW k, f.count \in Nat
  PROVE  /\ Places(k) \subseteq Insert(f, k).bits
         /\ f.bits \subseteq Insert(f, k).bits
         /\ Insert(f, k).count \in Nat /\ Insert(f, k).count # 0
BY DEF Insert

LEMMA InitInv == Init => IInv
<1> SUFFICES ASSUME Init PROVE IInv
  OBVIOUS
<1>1. PICK W \in SUBSET Key : entry \in CommitsOf(W)
  BY DEF Init
<1>2. WellFormed(entry) /\ WellFormed(mine)
  BY <1>1, CommitsWellFormed DEF Init
<1> QED BY <1>2 DEF Init, IInv, Types, ReadsKept, LoopInv, VerdictExact, NewFilter

\* Places depends on the hash only, which no step changes.
LEMMA SameHash ==
  ASSUME hash' = hash
  PROVE  /\ \A k : Places(k)' = Places(k)
         /\ entry' = entry /\ WellFormed(entry) => WellFormed(entry)'
         /\ mine' = mine /\ WellFormed(mine) => WellFormed(mine)'
<1>1. \A k : Places(k)' = Places(k)
  BY DEF Places, PlaceOf, NthHash
<1> QED BY <1>1 DEF WellFormed

\* The calls before commit, and the recycling after it.
LEMMA CallsInv ==
  ASSUME IInv,
         \/ \E m \in {"SI", "SSI"} : SetMode(m)
         \/ \E k \in Key : Write(k) \/ Read(k)
         \/ Cancel \/ Recycle \/ CommitEmpty
  PROVE  IInv'
<1> USE DEF IInv
<1>h. hash' = hash /\ entry' = entry
  BY DEF SetMode, Write, Read, Cancel, Recycle, CommitEmpty, constVars
<1>1. ASSUME NEW m \in {"SI", "SSI"}, SetMode(m) PROVE IInv'
  <2>1. ReadsKept'
    BY <1>1, <1>h, SameHash DEF SetMode, ReadsKept
  <2> QED BY <1>1, <1>h, <2>1, SameHash DEF SetMode, Types, LoopInv, VerdictExact
<1>2. ASSUME NEW k \in Key, Write(k) PROVE IInv'
  <2>1. ReadsKept'
    BY <1>2, <1>h, SameHash DEF Write, ReadsKept
  <2> QED BY <1>2, <1>h, <2>1, SameHash DEF Write, Types, LoopInv, VerdictExact
<1>3. ASSUME NEW k \in Key, Read(k) PROVE IInv'
  <2>1. ReadsKept' /\ Types'
    <3>1. Places(k) \subseteq filter'.bits /\ filter.bits \subseteq filter'.bits
      BY <1>3, InsertCovers DEF Read, ReadsKept, Types
    <3>2. filter'.count \in Nat /\ filter'.count # 0
      BY <1>3, InsertCovers DEF Read, ReadsKept, Types
    <3> QED BY <1>3, <1>h, <3>1, <3>2, SameHash DEF Read, ReadsKept, Types
  <2> QED BY <1>3, <1>h, <2>1, SameHash DEF Read, LoopInv, VerdictExact
<1>4. CASE Cancel
  BY <1>4, <1>h, SameHash DEF Cancel, Types, ReadsKept, LoopInv, VerdictExact, NewFilter
<1>5. CASE Recycle
  <2>1. WellFormed(entry)' /\ WellFormed(mine)'
    BY <1>5, <1>h, SameHash DEF Recycle, WellFormed
  <2> QED BY <1>5, <1>h, <2>1 DEF Recycle, Types, ReadsKept, LoopInv, VerdictExact, NewFilter
<1>6. CASE CommitEmpty
  BY <1>6, <1>h, SameHash DEF CommitEmpty, txVars, Types, ReadsKept, LoopInv, VerdictExact
<1> QED BY <1>1, <1>2, <1>3, <1>4, <1>5, <1>6

\* The entry is built, and compared by range.
LEMMA RangeInv ==
  ASSUME IInv, BeginCommit \/ Range
  PROVE  IInv'
<1> USE DEF IInv
<1>h. hash' = hash /\ entry' = entry
  BY DEF BeginCommit, Range, constVars
<1>1. CASE BeginCommit
  <2>1. mine' \in CommitsOf(write)
    BY <1>1 DEF BeginCommit
  <2>2. WellFormed(mine')
    BY <2>1, CommitsWellFormed, SMTT(30), Z3T(30) DEF Types
  <2>3. WellFormed(mine)'
    BY <1>h, <2>2 DEF WellFormed, Places, PlaceOf, NthHash
  <2>4. ReadsKept'
    BY <1>1, <1>h, SameHash DEF BeginCommit, ReadsKept
  <2> QED BY <1>1, <1>h, <2>3, <2>4, SameHash DEF BeginCommit, Types, LoopInv, VerdictExact
<1>2. CASE Range
  <2>1. ReadsKept' /\ Types' /\ WellFormed(entry)' /\ WellFormed(mine)'
    BY <1>2, <1>h, SameHash DEF Range, WritesDisjoint, txVars, ReadsKept, Types
  <2>2. CASE entry.max_key < mine.min_key \/ entry.min_key > mine.max_key
    <3>1. ASSUME NEW k \in entry.writeset, k \in mine.writeset PROVE FALSE
      <4>1. /\ k \in Int /\ entry.min_key \in Int /\ entry.max_key \in Int
            /\ mine.min_key \in Int /\ mine.max_key \in Int
        BY ConflictAssumption, ZenonT(30) DEF WellFormed
      <4>2. /\ entry.min_key <= k /\ k <= entry.max_key
            /\ mine.min_key <= k /\ k <= mine.max_key
        BY <3>1 DEF WellFormed
      <4> HIDE DEF IInv
      <4> QED BY <2>2, <4>1, <4>2
    <3> QED BY <1>2, <2>1, <2>2, <3>1
            DEF Range, WritesDisjoint, constVars, txVars, LoopInv, VerdictExact
  <2>3. CASE ~(entry.max_key < mine.min_key \/ entry.min_key > mine.max_key)
    BY <1>2, <2>1, <2>3 DEF Range, constVars, txVars, LoopInv, VerdictExact
  <2> QED BY <2>2, <2>3
<1> QED BY <1>1, <1>2

\* The keys that the filter rules out are not written by the transaction.
LEMMA BloomInv ==
  ASSUME IInv, Bloom
  PROVE  IInv'
<1> USE DEF IInv
<1>h. hash' = hash /\ entry' = entry
  BY DEF Bloom, constVars
<1>1. ReadsKept' /\ Types' /\ WellFormed(entry)' /\ WellFormed(mine)'
  BY <1>h, SameHash DEF Bloom, WritesDisjoint, txVars, ReadsKept, Types
<1>2. CASE a = {}
  BY <1>1, <1>2 DEF Bloom, WritesDisjoint, constVars, txVars, LoopInv, VerdictExact
<1>3. CASE a # {}
  <2>1. PICK k \in a :
           \/ /\ pc' = "merge" /\ a' = entry.writeset /\ b' = mine.writeset
           \/ ~MayContain(mine.writeset_bloom, k) /\ a' = a \ {k} /\ pc' = pc
    BY <1>3 DEF Bloom
  <2>2. verdict' = verdict /\ mine' = mine /\ mode' = mode /\ read' = read
    BY <1>3, SMTT(30), Z3T(30) DEF Bloom, txVars
  <2>3. CASE pc' = "merge"
    BY <1>1, <1>h, <2>1, <2>2, <2>3, SMTT(30), Z3T(30) DEF Bloom, LoopInv, VerdictExact
  <2>4. CASE ~MayContain(mine.writeset_bloom, k) /\ a' = a \ {k} /\ pc' = pc
    <3>1. k \notin mine.writeset
      BY <2>4 DEF MayContain, WellFormed
    <3> QED BY <1>1, <1>h, <2>2, <2>4, <3>1 DEF Bloom, LoopInv, VerdictExact
  <2> QED BY <2>1, <2>3, <2>4
<1> QED BY <1>2, <1>3

\* The smaller of two different least keys is in neither of the other's
\* remaining keys nor, by the invariant, in those passed over.
LEMMA MergeInv ==
  ASSUME IInv, Merge
  PROVE  IInv'
<1> USE DEF IInv
<1>h. hash' = hash /\ entry' = entry /\ mine' = mine /\ mode' = mode /\ read' = read
  BY DEF Merge, Conflict, constVars, txVars
<1>w. WellFormed(entry)' /\ WellFormed(mine)'
  BY <1>h, SameHash
<1>1. CASE a = {} \/ b = {}
  <2>1. ReadsKept' /\ Types'
    BY <1>1, <1>h, SameHash DEF Merge, WritesDisjoint, txVars, ReadsKept, Types
  <2>2. entry.writeset \cap mine.writeset = {}
    BY <1>1 DEF Merge, LoopInv
  <2> QED BY <1>1, <1>h, <1>w, <2>1, <2>2, SMTT(30), Z3T(30)
             DEF Merge, WritesDisjoint, txVars, LoopInv, VerdictExact
<1>2. CASE ~(a = {} \/ b = {})
  <2>1. PICK ka \in a, kb \in b :
           /\ IsMin(ka, a) /\ IsMin(kb, b)
           /\ \/ /\ ka = kb
                 /\ Conflict("KeyWriteConflict")
                 /\ UNCHANGED <<a, b>>
              \/ /\ ka # kb
                 /\ a' = IF ka < kb THEN a \ {ka} ELSE a
                 /\ b' = IF ka < kb THEN b ELSE b \ {kb}
                 /\ UNCHANGED <<pc, verdict, txVars, constVars, mine>>
    BY <1>2 DEF Merge
  <2>2. ka \in entry.writeset /\ kb \in mine.writeset /\ ka \in Int /\ kb \in Int
    BY ConflictAssumption, ZenonT(30) DEF Merge, LoopInv, WellFormed
  <2>3. CASE ka = kb /\ Conflict("KeyWriteConflict")
    <3>1. entry.writeset \cap mine.writeset # {}
      BY <2>2, <2>3
    <3> QED BY <1>h, <1>w, <2>3, <3>1
            DEF Conflict, ReadsKept, Types, LoopInv, VerdictExact, NewFilter
  <2>4. CASE ka # kb /\ UNCHANGED <<pc, verdict, txVars, constVars, mine>>
    <3>1. ReadsKept' /\ Types'
      BY <1>h, <2>4, SameHash DEF txVars, ReadsKept, Types
    <3>2. CASE ka < kb
      <4>1. ka \notin mine.writeset
        <5>1. ka \notin b
          BY <2>1, <2>2, <3>2, SMTT(30), Z3T(30) DEF IsMin
        <5> QED BY <2>2, <5>1 DEF Merge, LoopInv
      <4> QED BY <1>h, <1>w, <2>1, <2>4, <3>1, <3>2, <4>1 DEF Merge, LoopInv, VerdictExact
    <3>3. CASE ~(ka < kb)
      <4>1. kb \notin entry.writeset
        <5>1. kb \notin a
          BY <2>1, <2>2, <2>4, <3>3 DEF IsMin
        <5> QED BY <2>2, <5>1 DEF Merge, LoopInv
      <4> QED BY <1>h, <1>w, <2>1, <2>4, <3>1, <3>3, <4>1, SMTT(30), Z3T(30)
                 DEF Merge, LoopInv, VerdictExact
    <3> QED BY <3>2, <3>3
  <2> QED BY <2>1, <2>3, <2>4
<1> QED BY <1>1, <1>2

\* The reads: an empty filter has an empty read set, the filter rules out only
\* keys that were not read, and the iteration leaves no common key behind.
LEMMA ReadsInv ==
  ASSUME IInv, ReadEmpty \/ ReadBloom \/ ReadSet
  PROVE  IInv'
<1> USE DEF IInv
<1>h. hash' = hash /\ entry' = entry /\ mine' = mine /\ mode' = mode /\ read' = read
  BY DEF ReadEmpty, ReadBloom, ReadSet, Conflict, constVars, txVars
<1>w. WellFormed(entry)' /\ WellFormed(mine)'
  BY <1>h, SameHash
<1>r. ASSUME UNCHANGED txVars, pc # "done" PROVE ReadsKept' /\ Types'
  BY <1>h, <1>r, SameHash, SMTT(30), Z3T(30) DEF txVars, ReadsKept, Types
<1>1. CASE ReadEmpty
  <2>1. ReadsKept' /\ Types'
    BY <1>1, <1>r DEF ReadEmpty
  <2> QED BY <1>1, <1>h, <1>w, <2>1 DEF ReadEmpty, txVars, ReadsKept, LoopInv, VerdictExact
<1>2. CASE ReadBloom
  <2>1. ReadsKept' /\ Types' /\ readset' = readset
    BY <1>2, <1>r, SMTT(30), Z3T(30) DEF ReadBloom, txVars
  <2>2. CASE a = {}
    BY <1>2, <1>h, <1>w, <2>1, <2>2 DEF ReadBloom, ReadsKept, LoopInv, VerdictExact
  <2>3. CASE a # {}
    <3>1. PICK k \in a :
             \/ pc' = "readset" /\ b' \in {readset, entry.writeset}
             \/ ~MayContain(filter, k) /\ a' = a \ {k} /\ pc' = pc
      BY <1>2, <2>3 DEF ReadBloom
    <3>2. verdict' = verdict
      BY <1>2, <2>3, SMTT(30), Z3T(30) DEF ReadBloom
    <3>3. CASE pc' = "readset" /\ b' \in {readset, entry.writeset}
      BY <1>2, <1>h, <1>w, <2>1, <3>2, <3>3, SMTT(30), Z3T(30) DEF ReadBloom, LoopInv, VerdictExact
    <3>4. CASE ~MayContain(filter, k) /\ a' = a \ {k} /\ pc' = pc
      <4>1. k \notin readset
        BY <1>2, <3>4, SMTT(30), Z3T(30) DEF ReadBloom, MayContain, ReadsKept
      <4> QED BY <1>2, <1>h, <1>w, <2>1, <3>2, <3>4, <4>1, SMTT(30), Z3T(30)
                 DEF ReadBloom, LoopInv, VerdictExact
    <3> QED BY <3>1, <3>3, <3>4
  <2> QED BY <2>2, <2>3
<1>3. CASE ReadSet
  <2>1. CASE b = {}
    <3>1. ReadsKept' /\ Types'
      BY <1>3, <2>1, <1>r DEF ReadSet
    <3> QED BY <1>3, <1>h, <1>w, <2>1, <3>1, SMTT(30), Z3T(30)
               DEF ReadSet, txVars, ReadsKept, LoopInv, VerdictExact
  <2>2. CASE b # {}
    <3>1. PICK k \in b :
             \/ /\ k \in readset /\ k \in entry.writeset
                /\ Conflict("KeyReadConflict")
             \/ /\ ~(k \in readset /\ k \in entry.writeset)
                /\ b' = b \ {k}
                /\ UNCHANGED <<pc, verdict, txVars>>
      BY <1>3, <2>2, SMTT(30), Z3T(30) DEF ReadSet
    <3>2. CASE k \in readset /\ k \in entry.writeset /\ Conflict("KeyReadConflict")
      BY <1>3, <1>h, <1>w, <3>2, SMTT(30), Z3T(30)
         DEF ReadSet, Conflict, ReadsKept, Types, LoopInv, VerdictExact, NewFilter
    <3>3. CASE /\ ~(k \in readset /\ k \in entry.writeset)
               /\ b' = b \ {k}
               /\ UNCHANGED <<pc, verdict, txVars>>
      <4>1. ReadsKept' /\ Types'
        BY <1>3, <3>3, <1>r DEF ReadSet
      <4> QED BY <1>3, <1>h, <1>w, <3>3, <4>1 DEF ReadSet, txVars, LoopInv, VerdictExact
    <3> QED BY <3>1, <3>2, <3>3
  <2> QED BY <2>1, <2>2
<1> QED BY <1>1, <1>2, <1>3, SMTT(30), Z3T(30)

LEMMA NextInv == IInv /\ [Next]_vars => IInv'
<1> SUFFICES ASSUME IInv, [Next]_vars PROVE IInv'
  OBVIOUS
<1>1. CASE UNCHANGED vars
  BY <1>1 DEF vars, IInv, Types, WellFormed, ReadsKept, LoopInv, VerdictExact,
              Places, PlaceOf, NthHash
<1>2. CASE Next
  BY <1>2, <1>1, CallsInv, RangeInv, BloomInv, MergeInv, ReadsInv DEF Next, Compare
<1> QED BY <1>1, <1>2

\* The outcome of commit's comparison with an entry of the queue is exactly
\* whether the sets of keys meet, for all keys, hashes and sequences of calls.
THEOREM VerdictCorrect == Spec => []VerdictExact
<1>1. IInv => VerdictExact
  BY DEF IInv
<1> QED BY <1>1, InitInv, NextInv, PTL DEF Spec

\* No key that the transaction read is missing from the filter of its reads.
THEOREM FilterCorrect == Spec => []NoFalseNegative
<1>1. IInv => NoFalseNegative
  BY DEF IInv, ReadsKept, NoFalseNegative, MayContain
<1> QED BY <1>1, InitInv, NextInv, PTL DEF Spec
=============================================================================
