-------------------------- MODULE MCTimeScheduler ---------------------------
(* Two schedulers, one of which owns two events.                           *)
EXTENDS TimeScheduler, TLC
CONSTANTS c1, c2, e1, e2, e3
MCClients == {c1, c2}
MCEvents == {e1, e2, e3}
MCOwner == (e1 :> c1) @@ (e2 :> c1) @@ (e3 :> c2)
=============================================================================
