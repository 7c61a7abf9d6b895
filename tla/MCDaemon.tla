------------------------------ MODULE MCDaemon ------------------------------
(* The instance of Daemon for TLC: its constants are all in the .cfg.         *)
EXTENDS Daemon
=============================================================================
