--------------------------- MODULE MCPersistence ----------------------------
(* Plans and bounds for Persistence. *)
EXTENDS Persistence, TLC

CONSTANTS Wide,    \* commits that write both keys
          Narrow,  \* commits that write key 1
          Eraser   \* commits that delete key 1

MCCommit == Wide \cup Narrow \cup Eraser
MCKey == {1, 2}
MCWrites == [t \in MCCommit |-> IF t \in Wide THEN {1, 2} ELSE {1}]

Symmetry == Permutations(Wide) \cup Permutations(Narrow) \cup Permutations(Eraser)
=============================================================================
