----------------------------- MODULE MCChannel -----------------------------
(***************************************************************************)
(* Instances of Channel for TLC.                                           *)
(***************************************************************************)
EXTENDS Channel, TLC

CONSTANTS a, b, c, r1, r2

\* One direction of a channel, two channels of `a'.
OneWay == {<<a, b>>}
FanIn  == {<<a, b>>, <<a, c>>}

\* `a' reads on one connection, or on two.
OneReaderOfA  == (r1 :> a)
TwoReadersOfA == (r1 :> a) @@ (r2 :> a)

\* The two readers of `a' may trade places.
SwapReaders == Permutations({r1, r2})
=============================================================================
