---------------------------- MODULE MCFrontEnds -----------------------------
(* An instance of FrontEnds for TLC: which clients come in which way. *)
EXTENDS FrontEnds, TLC

Pairs == {{"rust"}, {"http"}, {"rust", "http"}, {"go", "http"}, {"py", "http"}}

MCWays == {w \in [Client -> Way] : {w[c] : c \in Client} \in Pairs}

Symmetry == Permutations(Client) \cup Permutations(Obj) \cup Permutations(Key)
                \cup Permutations(Value)
=============================================================================
