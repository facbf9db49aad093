------------------------- MODULE MCSnapshotRegistry -------------------------
(* Bounded instances of SnapshotRegistry for TLC. *)
EXTENDS SnapshotRegistry, TLC

CONSTANT MaxTime

MCTime == 0..MaxTime
MCTombstone == 99
Symmetry == Permutations(Tx) \cup Permutations(Counter)
             \cup Permutations(Collector)
=============================================================================
