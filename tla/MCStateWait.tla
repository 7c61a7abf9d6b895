----------------------------- MODULE MCStateWait -----------------------------
(* The instance of StateWait for TLC: its constants are all in the .cfg.      *)
EXTENDS StateWait
==============================================================================
