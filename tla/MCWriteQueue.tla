---------------------------- MODULE MCWriteQueue ----------------------------
(***************************************************************************)
(* Instances of WriteQueue for TLC.                                        *)
(***************************************************************************)
EXTENDS WriteQueue, TLC

CONSTANTS p1, p2, x, y, reg, log
=============================================================================
