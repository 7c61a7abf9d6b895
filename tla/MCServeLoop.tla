-------------------------- MODULE MCServeLoop --------------------------
(* Instances of ServeLoop for TLC.  No symmetry: its runs check liveness. *)
EXTENDS ServeLoop
=============================================================================
