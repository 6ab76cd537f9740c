------------------------------- MODULE MCRoom -------------------------------
(***************************************************************************)
(* Instances of Room for TLC.                                              *)
(***************************************************************************)
EXTENDS Room, TLC

CONSTANTS a, b, c, r1, r2

\* `a' reads on one connection, or on two.
OneReaderOfA  == (r1 :> a)
TwoReadersOfA == (r1 :> a) @@ (r2 :> a)

SwapReaders == Permutations({r1, r2})
=============================================================================
