----------------------------- MODULE MCRegistry -----------------------------
(***************************************************************************)
(* Two processes that contend for a name, and one of them for two.         *)
(***************************************************************************)
EXTENDS Registry, TLC

CONSTANTS n1, n2, c1, c2, here, there

TwoSessions == (c1 :> here) @@ (c2 :> there)
NamesUsed   == (c1 :> {n1, n2}) @@ (c2 :> {n1})
=============================================================================
