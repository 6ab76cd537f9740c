----------------------------- MODULE MCHandlers -----------------------------
(***************************************************************************)
(* Instances of Handlers for TLC.                                          *)
(***************************************************************************)
EXTENDS Handlers

CONSTANTS t1, t2, t3, ch, r1, r2, repo

SwapThreads == Permutations(Threads)
=============================================================================
