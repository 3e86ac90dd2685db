------------------------------ MODULE MC_Digest ------------------------------
(* A small instance: three articles on three of five days, scrolled in an     *)
(* order that is not the order of their days, the first one in two versions   *)
(* that differ in day and value; a window of two days.  Callers leave the end *)
(* of the window to the clock, replay an earlier day or name a later one.     *)
EXTENDS Digest, TLC

CONSTANTS a1, a2, b1, c3

MCDays == 1..5
MCItems == {a1, a2, b1, c3}
MCIdOf == (a1 :> 1) @@ (a2 :> 1) @@ (b1 :> 2) @@ (c3 :> 3)
MCDateOf == (a1 :> 2) @@ (a2 :> 1) @@ (b1 :> 1) @@ (c3 :> 3)
MCValueOf == (a1 :> 7) @@ (a2 :> 4) @@ (b1 :> 0) @@ (c3 :> 11)
MCTodays == {NoDay, 3, 5}
=============================================================================
