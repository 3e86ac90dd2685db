------------------------------ MODULE MC_News ------------------------------
(* A small instance: GDELT beside each of the other feeds; an article x, the  *)
(* same one reported again under the same key (x2), another one (y), one out  *)
(* of the range (z) and one that cannot be used (u).                          *)
EXTENDS News, TLC

CONSTANTS x, x2, y, z, u, keyX, keyY, keyZ, keyU

MCSettings == { <<"gdelt", s>> : s \in {"newsapi", "gnews", "mediastack", "currents"} }
MCKeyOf == (x :> keyX) @@ (x2 :> keyX) @@ (y :> keyY) @@ (z :> keyZ) @@ (u :> keyU)
MCBodies ==
  { [status |-> "ok", articles |-> <<x, z, u, y, x2>>],
    [status |-> "absent", articles |-> <<x2>>],
    [status |-> "error", articles |-> <<>>],
    Empty,
    Malformed }
=============================================================================
