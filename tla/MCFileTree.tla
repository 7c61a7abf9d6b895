----------------------------- MODULE MCFileTree -----------------------------
(* Instances of FileTree for TLC.                                             *)
EXTENDS FileTree, TLC

MCNamesIn == [d \in {"m", "t", "tmp", "tr", "sk"} |->
                CASE d = "t" -> {"x", "idx"}
                  [] d \in {"m", "sk"} -> {"x", "y"}
                  [] OTHER -> {"x"}]
MCMaxUses == [d \in {"m", "t", "tmp", "tr", "sk"} |->
                IF d \in {"tmp", "tr"} THEN 4 ELSE 2]
Symmetry == Permutations(Fids) \union Permutations(Chunks)
=============================================================================
