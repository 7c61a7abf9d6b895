--------------------------- MODULE MCSessionStore ---------------------------
(* Instances of SessionStore for TLC: names, sessions and handlers are        *)
(* interchangeable.                                                           *)
EXTENDS SessionStore, TLC

Symmetry == Permutations(Procs) \union Permutations(Sessions) \union Permutations(Ids)
=============================================================================
