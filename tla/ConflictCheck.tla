---------------------------- MODULE ConflictCheck ----------------------------
(***************************************************************************)
(* How a committing transaction is compared with one entry of the commit   *)
(* queue: the key ranges, the Bloom filter of the write set, the merge of  *)
(* the two write sets and, under SSI, the filter and the set of the reads  *)
(* (src/queue/commit.rs, src/bloom/bloom.rs), with the calls that fill the *)
(* read set and its filter and the recycling that empties them             *)
(* (src/tx/transaction_inner.rs).  CommitPipeline takes the outcome as an  *)
(* intersection of sets; VerdictExact is what makes that right.            *)
(*                                                                         *)
(* The base hashes of the keys are arbitrary: nothing below depends on FNV *)
(* but that equal keys have equal hashes.                                  *)
(***************************************************************************)
EXTENDS Integers, FiniteSets

CONSTANTS Key,      \* keys, in the order of their bytes
          Modulus,  \* 2^64, at which the hashes wrap
          Bits,     \* BLOOM_BITS
          HashFns,  \* the functions from keys to base hashes (h1, h2)
          MaxLives  \* how many transactions the object serves

ASSUME ConflictAssumption ==
    /\ Key \subseteq Int
    /\ Modulus \in Nat \ {0} /\ Bits \in Nat \ {0} /\ MaxLives \in Nat
    /\ HashFns \subseteq [Key -> (0..(Modulus - 1)) \X (0..(Modulus - 1))]

VARIABLES
    hash,      \* BloomFilter::hash
    entry,     \* the Commit in the queue, `self' of the comparisons
    mine,      \* the Commit of the committing transaction, `other'
    write,     \* TransactionInner::writeset
    mode,      \* TransactionInner::mode
    readset,   \* TransactionInner::readset
    filter,    \* TransactionInner::readeset_bloom
    pc,        \* where the transaction is in its calls
    a,         \* the keys an iterator over entry.writeset has still to yield
    b,         \* the keys of an iterator over mine.writeset or the read set
    verdict,   \* the outcome of the comparison
    read,      \* history: the keys read from the datastore in SSI mode
    lives      \* history: how often the object was reset

vars == <<hash, entry, mine, write, mode, readset, filter, pc, a, b, verdict,
          read, lives>>
txVars == <<write, mode, readset, filter, read, lives>>
constVars == <<hash, entry>>

\* A byte of the filter's array, and a bit of it.
Place == (0..((Bits - 1) \div 8)) \X (0..7)
Filter == [bits : SUBSET Place, count : Nat]
Commit == [writeset : SUBSET Key, writeset_bloom : Filter, min_key : Key, max_key : Key]

TypeOK ==
    /\ hash \in HashFns
    /\ entry \in Commit /\ mine \in Commit
    /\ write \subseteq Key /\ readset \subseteq Key /\ read \subseteq Key
    /\ mode \in {"SI", "SSI"}
    /\ filter \in Filter
    /\ pc \in {"open", "range", "bloom", "merge", "readEmpty", "readBloom", "readset",
               "done"}
    /\ a \subseteq Key /\ b \subseteq Key
    /\ verdict \in {"none", "ok", "KeyWriteConflict", "KeyReadConflict"}
    /\ lives \in Nat

-----------------------------------------------------------------------------
(* BloomFilter *)

\* nth_hash: h1 + n * h2, with wrapping operations
NthHash(k, n) == (hash[k][1] + ((n * hash[k][2]) % Modulus)) % Modulus

\* The byte and the bit of the k-th key's n-th place.
PlaceOf(k, n) == LET h == NthHash(k, n) % Bits IN <<h \div 8, h % 8>>
Places(k) == {PlaceOf(k, n) : n \in 0..2}

NewFilter == [bits |-> {}, count |-> 0]

\* Mutation of Insert: the last of the places is left out.
InsertTwo(f, k) == [bits |-> f.bits \cup {PlaceOf(k, n) : n \in 0..1},
                    count |-> f.count + 1]

Insert(f, k) == [bits |-> f.bits \cup Places(k), count |-> f.count + 1]

\* Every place of the key is set; the code returns at the first that is not.
MayContain(f, k) == Places(k) \subseteq f.bits

-----------------------------------------------------------------------------
(* The transaction's calls *)

\* The filter of a write set is filled key by key; its count is never read.
CommitsOf(W) ==
    {[writeset |-> W,
      writeset_bloom |-> [bits |-> UNION {Insert(NewFilter, k).bits : k \in W},
                          count |-> Cardinality(W)],
      min_key |-> ends[1], max_key |-> ends[2]] :
        ends \in {p \in W \X W : \A k \in W : p[1] <= k /\ k <= p[2]}}

Init ==
    /\ hash \in HashFns
    /\ \E W \in SUBSET Key : entry \in CommitsOf(W)
    /\ mine = entry
    /\ write = {} /\ mode = "SI" /\ readset = {} /\ filter = NewFilter
    /\ pc = "open" /\ a = {} /\ b = {} /\ verdict = "none"
    /\ read = {} /\ lives = 0

SetMode(m) ==
    /\ pc = "open"
    /\ mode' = m
    /\ UNCHANGED <<constVars, mine, write, readset, filter, pc, a, b, verdict, read, lives>>

\* set, put or del
Write(k) ==
    /\ pc = "open"
    /\ write' = write \cup {k}
    /\ UNCHANGED <<constVars, mine, mode, readset, filter, pc, a, b, verdict, read, lives>>

\* get and exists, of a key that is not in the write set; other calls leave
\* all of this as it is.
Read(k) ==
    /\ pc = "open"
    /\ k \notin write
    /\ mode = "SSI"
    /\ read' = read \cup {k}
    /\ readset' = readset \cup {k}
    /\ filter' = IF k \in readset THEN filter ELSE Insert(filter, k)
    /\ UNCHANGED <<constVars, mine, write, mode, pc, a, b, verdict, lives>>

\* cancel empties the read set in SSI mode only.
Cancel ==
    /\ pc = "open"
    /\ pc' = "done" /\ verdict' = "none"
    /\ write' = {}
    /\ readset' = IF mode = "SSI" THEN {} ELSE readset
    /\ filter' = IF mode = "SSI" THEN NewFilter ELSE filter
    /\ UNCHANGED <<constVars, mine, mode, a, b, read, lives>>

\* reset, for the next transaction the object serves
Recycle ==
    /\ pc = "done" /\ lives < MaxLives
    /\ pc' = "open" /\ verdict' = "none"
    /\ write' = {} /\ mode' = "SI" /\ readset' = {} /\ filter' = NewFilter
    /\ read' = {} /\ lives' = lives + 1
    /\ mine' = entry /\ a' = {} /\ b' = {}
    /\ UNCHANGED constVars

\* commit with nothing to write returns at once.
CommitEmpty ==
    /\ pc = "open" /\ write = {}
    /\ pc' = "done"
    /\ UNCHANGED <<constVars, mine, txVars, a, b, verdict>>

\* commit takes the write set out, builds its entry and meets one in the queue.
BeginCommit ==
    /\ pc = "open" /\ write # {}
    /\ mine' \in CommitsOf(write)
    /\ write' = {}
    /\ pc' = "range"
    /\ UNCHANGED <<constVars, mode, readset, filter, read, lives, a, b, verdict>>

-----------------------------------------------------------------------------
(* is_disjoint_writeset_bloom *)

\* The write sets are disjoint: only an SSI transaction looks further.
WritesDisjoint ==
    \/ mode = "SI" /\ pc' = "done" /\ verdict' = "ok"
    \/ mode = "SSI" /\ pc' = "readEmpty" /\ UNCHANGED verdict

\* A conflict empties the read set in SSI mode.
Conflict(v) ==
    /\ pc' = "done" /\ verdict' = v
    /\ readset' = IF mode = "SSI" THEN {} ELSE readset
    /\ filter' = IF mode = "SSI" THEN NewFilter ELSE filter
    /\ write' = {}
    /\ UNCHANGED <<constVars, mine, mode, read, lives>>

\* Mutation of Range: the bounds are taken to be apart when they are equal.
RangeOffByOne ==
    /\ pc = "range"
    /\ \/ /\ entry.max_key <= mine.min_key \/ entry.min_key >= mine.max_key
          /\ WritesDisjoint
          /\ UNCHANGED a
       \/ /\ ~(entry.max_key <= mine.min_key \/ entry.min_key >= mine.max_key)
          /\ a' = entry.writeset
          /\ pc' = "bloom"
          /\ UNCHANGED verdict
    /\ UNCHANGED <<constVars, mine, txVars, b>>

Range ==
    /\ pc = "range"
    /\ \/ /\ entry.max_key < mine.min_key \/ entry.min_key > mine.max_key
          /\ WritesDisjoint
          /\ UNCHANGED a
       \/ /\ ~(entry.max_key < mine.min_key \/ entry.min_key > mine.max_key)
          /\ a' = entry.writeset
          /\ pc' = "bloom"
          /\ UNCHANGED verdict
    /\ UNCHANGED <<constVars, mine, txVars, b>>

IsMin(k, S) == k \in S /\ \A j \in S : k <= j

\* The keys of the entry are looked up in the other filter, up to the first
\* that it may contain.
Bloom ==
    /\ pc = "bloom"
    /\ \/ /\ a = {}
          /\ WritesDisjoint
          /\ UNCHANGED <<a, b>>
       \/ \E k \in a :
             /\ IsMin(k, a)
             /\ \/ /\ MayContain(mine.writeset_bloom, k)
                   /\ pc' = "merge"
                   /\ a' = entry.writeset /\ b' = mine.writeset
                \/ /\ ~MayContain(mine.writeset_bloom, k)
                   /\ a' = a \ {k}
                   /\ UNCHANGED <<pc, b>>
             /\ UNCHANGED verdict
    /\ UNCHANGED <<constVars, mine, txVars>>

\* is_disjoint_writeset: one step of the merge of two sorted key sequences.
Merge ==
    /\ pc = "merge"
    /\ \/ /\ a = {} \/ b = {}
          /\ WritesDisjoint
          /\ UNCHANGED <<a, b, txVars, constVars, mine>>
       \/ \E ka \in a, kb \in b :
             /\ IsMin(ka, a) /\ IsMin(kb, b)
             /\ \/ /\ ka = kb
                   /\ Conflict("KeyWriteConflict")
                   /\ UNCHANGED <<a, b>>
                \/ /\ ka # kb
                   /\ a' = IF ka < kb THEN a \ {ka} ELSE a
                   /\ b' = IF ka < kb THEN b ELSE b \ {kb}
                   /\ UNCHANGED <<pc, verdict, txVars, constVars, mine>>

-----------------------------------------------------------------------------
(* is_disjoint_readset_bloom *)

ReadEmpty ==
    /\ pc = "readEmpty"
    /\ \/ filter.count = 0 /\ pc' = "done" /\ verdict' = "ok" /\ UNCHANGED a
       \/ filter.count # 0 /\ pc' = "readBloom" /\ a' = entry.writeset /\ UNCHANGED verdict
    /\ UNCHANGED <<constVars, mine, txVars, b>>

\* is_disjoint_readset iterates over the smaller of the two sets.
ReadBloom ==
    /\ pc = "readBloom"
    /\ \/ /\ a = {}
          /\ pc' = "done" /\ verdict' = "ok"
          /\ UNCHANGED <<a, b>>
       \/ \E k \in a :
             /\ IsMin(k, a)
             /\ \/ /\ MayContain(filter, k)
                   /\ pc' = "readset"
                   /\ b' = IF Cardinality(readset) < Cardinality(entry.writeset)
                           THEN readset ELSE entry.writeset
                   /\ UNCHANGED a
                \/ /\ ~MayContain(filter, k)
                   /\ a' = a \ {k}
                   /\ UNCHANGED <<pc, b>>
             /\ UNCHANGED verdict
    /\ UNCHANGED <<constVars, mine, txVars>>

\* A key of the one set is looked up in the other; the read set has no order.
ReadSet ==
    /\ pc = "readset"
    /\ \/ /\ b = {}
          /\ pc' = "done" /\ verdict' = "ok"
          /\ UNCHANGED <<b, txVars, constVars, mine>>
       \/ \E k \in b :
             \/ /\ k \in readset /\ k \in entry.writeset
                /\ Conflict("KeyReadConflict")
                /\ UNCHANGED b
             \/ /\ ~(k \in readset /\ k \in entry.writeset)
                /\ b' = b \ {k}
                /\ UNCHANGED <<pc, verdict, txVars, constVars, mine>>
    /\ UNCHANGED a

Compare == Range \/ Bloom \/ Merge \/ ReadEmpty \/ ReadBloom \/ ReadSet

Next ==
    \/ \E m \in {"SI", "SSI"} : SetMode(m)
    \/ \E k \in Key : Write(k) \/ Read(k)
    \/ Cancel \/ Recycle \/ CommitEmpty \/ BeginCommit
    \/ Compare
    \/ pc = "done" /\ UNCHANGED vars

Spec == Init /\ [][Next]_vars

-----------------------------------------------------------------------------
(* Properties *)

\* commit refuses exactly when the entry wrote a key that the transaction
\* writes (KeyWriteConflict) or, in SSI mode, a key that it read while in SSI
\* mode (KeyReadConflict): no shortcut by range, filter or iteration order
\* hides a conflict, no false positive of a filter makes one.
VerdictExact ==
    /\ verdict = "KeyWriteConflict" => entry.writeset \cap mine.writeset # {}
    /\ verdict = "KeyReadConflict" => mode = "SSI" /\ entry.writeset \cap read # {}
    /\ verdict = "ok" => /\ entry.writeset \cap mine.writeset = {}
                         /\ mode = "SSI" => entry.writeset \cap read = {}

\* bloom.rs: FALSE means certainly absent.  Whatever calls were made, on
\* whichever life of the object, the filter contains every key read.
NoFalseNegative ==
    pc # "done" => \A k \in read : k \in readset /\ MayContain(filter, k)
=============================================================================
