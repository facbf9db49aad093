-------------------------- MODULE MCConflictCheck ---------------------------
(* Three keys, and hashes with and without collisions. *)
EXTENDS ConflictCheck

MCKey == 1..3
MCModulus == 64
MCBits == 16

\* Places {0, 5, 10}, {5, 10, 15} and, wrapping, {15, 3, 7}.
MCHashes == {<<0, 5>>, <<5, 5>>, <<63, 20>>}
MCHashFns == [MCKey -> MCHashes]
=============================================================================
