-------------------------- MODULE MCUnboundedArray -------------------------
(* Two arrays with elements of one and of two bytes in one arena. *)
EXTENDS UnboundedArray, TLC

CONSTANTS a1, a2, e1, e2

MCArrays == {a1, a2}
MCElems == {e1, e2}
MCElemSize == (a1 :> 1) @@ (a2 :> 2)
=============================================================================
