--------------------------- MODULE MC_AppContext ---------------------------
(* Two calls that may each be made again, and three store identities: a       *)
(* thread left behind by a cancelled call may still build one store while the *)
(* next call builds another, and a third is free for the call after that.     *)
EXTENDS AppContext, TLC
=============================================================================
