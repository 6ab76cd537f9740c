------------------------------ MODULE MCDaemon ------------------------------
(* Two clients.                                                            *)
EXTENDS Daemon, TLC

CONSTANTS c1, c2
=============================================================================
