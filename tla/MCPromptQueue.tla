---------------------------- MODULE MCPromptQueue ----------------------------
(* Instances of PromptQueue for TLC. *)
EXTENDS PromptQueue, TLC

Symmetry == Permutations(Readers)
=============================================================================
