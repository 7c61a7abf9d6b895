--------------------------- MODULE MCSessionConfig ---------------------------
(* Instances of SessionConfig for TLC: writers and values are interchangeable. *)
EXTENDS SessionConfig, TLC

Symmetry == Permutations(Writers) \union Permutations(Keys) \union Permutations(Values)
=============================================================================
