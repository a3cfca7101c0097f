----------------------------- MODULE MCSpscRing -----------------------------
(* Single values, a pair, and a batch longer than the ring ever has room   *)
(* for: accepted whole, accepted in part and refused all occur.            *)
EXTENDS SpscRing

CONSTANTS a, b

MCSlices == {<<>>, <<a, b>>, <<b, b, a, b, a>>}
=============================================================================
