------------------------------ MODULE Versions ------------------------------
(***************************************************************************)
(* The version chain of one key (src/versions/versions.rs) as operators on *)
(* sequences.  A chain is a sequence of records [version, value] in        *)
(* ascending version order; the value None is a tombstone.  Indices are    *)
(* one-based here: the code's idx, a count of versions, is unchanged, and  *)
(* inner[idx - 1] is chain[idx].                                           *)
(***************************************************************************)
EXTENDS Integers, Sequences, FiniteSets

CONSTANTS Value,  \* the live values a key may be given
          None    \* Option::None: deleted, or absent

ASSUME NoneAssumption == None \notin Value

Version == [version : Nat, value : Value \cup {None}]

\* Versions::from(version): the chain of a key just inserted.
From(v) == <<v>>

\* find_index_lte_version: how many versions are <= version.  The look at the
\* last one, rposition and partition_point, between which the code chooses,
\* all come to this on an ascending chain.
FindIndexLte(chain, version) ==
    Cardinality({i \in 1..Len(chain) : chain[i].version <= version})

\* fetch_version: the value of the newest version <= version.
FetchVersion(chain, version) ==
    LET idx == FindIndexLte(chain, version)
    IN  IF idx > 0 THEN chain[idx].value ELSE None

\* exists_version
ExistsVersion(chain, version) == FetchVersion(chain, version) # None

\* Vec::insert
InsertAt(chain, idx, v) == SubSeq(chain, 1, idx - 1) \o <<v>> \o SubSeq(chain, idx, Len(chain))

\* Mutation of InsertOrUpdate: a late version goes one place too early.
InsertOrUpdateEarly(chain, v) ==
    LET idx == FindIndexLte(chain, v.version)
    IN  IF idx = 0 THEN InsertAt(chain, 1, v) ELSE InsertAt(chain, idx, v)

\* fetch_index_or_update and its caller: where a version older than the last
\* one goes.  One that repeats its predecessor's value, or a tombstone with no
\* predecessor, is ignored.
InsertOrUpdate(chain, v) ==
    LET idx == FindIndexLte(chain, v.version)
    IN  CASE idx = 0 /\ v.value = None -> chain
          [] idx = 0 /\ v.value # None -> InsertAt(chain, 1, v)
          [] idx > 0 /\ chain[idx].version = v.version -> [chain EXCEPT ![idx] = v]
          [] idx > 0 /\ chain[idx].version # v.version ->
                IF chain[idx].value = v.value THEN chain
                ELSE InsertAt(chain, idx + 1, v)

\* push
Push(chain, v) ==
    IF chain = <<>>
    THEN IF v.value = None THEN chain ELSE <<v>>
    ELSE LET last == chain[Len(chain)]
         IN  CASE v.version > last.version ->
                    IF v.value = last.value THEN chain ELSE Append(chain, v)
               [] v.version = last.version -> [chain EXCEPT ![Len(chain)] = v]
               [] v.version < last.version -> InsertOrUpdate(chain, v)

\* Mutation of GcOlderVersions: the version visible at the watermark goes too.
GcOlderVersionsGreedy(chain, version) ==
    SubSeq(chain, FindIndexLte(chain, version) + 1, Len(chain))

\* gc_older_versions: keep the version visible at the watermark and all newer
\* ones; when the visible one is a tombstone it goes too.
GcOlderVersions(chain, version) ==
    LET lte == FindIndexLte(chain, version)
    IN  IF lte = 0 THEN chain
        ELSE SubSeq(chain, IF chain[lte].value = None THEN lte + 1 ELSE lte,
                    Len(chain))

\* The order push maintains.
Ascending(chain) ==
    \A i, j \in 1..Len(chain) : i < j => chain[i].version < chain[j].version
=============================================================================
