---------------------------- MODULE MCIntegrate ----------------------------
(* Every base, local and upstream tree over three keys and two values. *)
EXTENDS Integrate, TLC

CONSTANTS a, b

MCIdentity == (a :> 1) @@ (b :> 2)
MCOrder == <<1, 2, 3>>
=============================================================================
