-------------------------- MODULE MCCommitPipeline --------------------------
(* Plans and bounds for CommitPipeline. *)
EXTENDS CommitPipeline, TLC

CONSTANT MaxNow    \* the wall clock's greatest value

MCKey == {1, 2}
MCNow == 1..MaxNow
\* Each version exceeds the clock or the timestamp by one at most.
MCTime == 0..(MaxNow + Cardinality(Tx))
\* One increment per transaction; the load looks one beyond.
MCSlot == 0..(Cardinality(Tx) + 1)

Overwrites == [t \in Tx |-> MCKey]
ReadsNothing == [t \in Tx |-> {}]

\* Everyone overwrites both keys.
AllWrite == [writes |-> Overwrites, reads |-> ReadsNothing, serializable |-> {}]

\* One transaction reads both keys, the others overwrite them.
OneReads(r) == [writes |-> [Overwrites EXCEPT ![r] = {}],
                reads |-> [ReadsNothing EXCEPT ![r] = MCKey], serializable |-> {}]

\* The others overwrite a key each, so that their commits do not conflict.
OneReadsApart(r) ==
    {[writes |-> w, reads |-> [ReadsNothing EXCEPT ![r] = MCKey], serializable |-> {}] :
        w \in {f \in [Tx -> {{}, {1}, {2}}] :
                  f[r] = {} /\ \A t, u \in Tx : f[t] = f[u] => t = u}}

WritePlans == {AllWrite}
SnapshotPlans ==
    {AllWrite} \cup {OneReads(r) : r \in Tx} \cup UNION {OneReadsApart(r) : r \in Tx}

\* Write skew: each reads the key that the other writes, in SSI mode.
SkewPlans ==
    {[writes |-> w, reads |-> [t \in Tx |-> MCKey \ w[t]], serializable |-> Tx] :
        w \in {f \in [Tx -> {{1}, {2}}] : \E t, u \in Tx : f[t] # f[u]}}

Symmetry == Permutations(Tx)
=============================================================================
