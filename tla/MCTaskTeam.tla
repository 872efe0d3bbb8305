------------------------------ MODULE MCTaskTeam ------------------------------
(* A chain of three threads: m gathers a, which gathers b. *)
EXTENDS TaskTeam, TLC

CONSTANTS m, a, b
MCGathers == (m :> {a}) @@ (a :> {b}) @@ (b :> {})
=============================================================================
