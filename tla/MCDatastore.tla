---------------------------- MODULE MCDatastore -----------------------------
(* Instances of Datastore for TLC. *)
EXTENDS Datastore, TLC

CONSTANT MaxTime  \* the greatest version

MCTime == 0..MaxTime

Symmetry ==
    Permutations(Tx) \cup Permutations(Value) \cup Permutations(Node)
        \cup Permutations(Collector)
=============================================================================
