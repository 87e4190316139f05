----------------------------- MODULE MCLattikGC -----------------------------
(***************************************************************************)
(* Small instances of LattikGC: a job that writes two families and one     *)
(* that overrides one of them.                                             *)
(***************************************************************************)
EXTENDS LattikGC, TLC

CONSTANTS j1, j2, a, b, g1

MCColumnsOf == j1 :> {a, b} @@ j2 :> {a}
MCPrimaryOf == j1 :> a @@ j2 :> a
=============================================================================
