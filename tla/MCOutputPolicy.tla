--------------------------- MODULE MCOutputPolicy ---------------------------
(* An instance of OutputPolicy for TLC: two panes, three calls.             *)
EXTENDS OutputPolicy, TLC
Symmetry == Permutations(Panes) \cup Permutations(Calls)
=============================================================================
