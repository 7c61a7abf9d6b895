------------------------------ MODULE MCFidTable ------------------------------
(* Instances of FidTable for TLC: Init and Next treat all elements alike.     *)
EXTENDS FidTable, TLC

Symmetry == Permutations(Conns) \union Permutations(Fids) \union Permutations(Ids)
            \union Permutations(Sessions)
==============================================================================
