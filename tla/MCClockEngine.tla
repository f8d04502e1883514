--------------------------- MODULE MCClockEngine ----------------------------
(* One clock domain with two events and a buffer of three slots.           *)
EXTENDS ClockEngine
CONSTANTS e1, e2

\* The history variables decide no step, and the invariants of the run of any
\* calls do not depend on their values: states that differ by them are one.
WithoutHistory == <<time, eng, handler>>

\* The events are alike.
Symmetry == Permutations(Events)
=============================================================================
