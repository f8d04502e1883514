--------------------------- MODULE MCTraceEngine ----------------------------
(* Two traces of different sizes and two buffers of two or three events.   *)
EXTENDS TraceEngine
CONSTANTS ta, tb, b1, b2

MCSize == (ta :> 2) @@ (tb :> 3)
=============================================================================
