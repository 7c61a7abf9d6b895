----------------------------- MODULE MCDirListing -----------------------------
(* Instances of DirListing for TLC. *)
EXTENDS DirListing

FixedFiles == <<"new", "idx">>
SomeNames == <<"a", "b", "c", "d">>
EntrySize == [n \in {"new", "idx", "a", "b", "c", "d"} |-> IF n \in {"idx", "b"} THEN 2 ELSE 1]
==============================================================================
