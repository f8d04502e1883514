------------------------- MODULE AbstractScheduler --------------------------
(***************************************************************************)
(* What the time engine and its schedulers promise together: one global    *)
(* agenda.  An event posted for a date runs exactly at that date, and the  *)
(* clock only moves to the earliest date of the agenda.                    *)
(***************************************************************************)
EXTENDS Integers

CONSTANTS Events, NotPosted
VARIABLES now,   \* the simulated time
          due    \* the date of each event of the agenda, or NotPosted

vars == <<now, due>>

Posted == {e \in Events : due[e] # NotPosted}

Init == now = 0 /\ due = [e \in Events |-> NotPosted]

Post(e, t) ==
  /\ due[e] = NotPosted /\ t >= now
  /\ due' = [due EXCEPT ![e] = t]
  /\ UNCHANGED now

Fire(e) ==
  /\ due[e] = now
  /\ due' = [due EXCEPT ![e] = NotPosted]
  /\ UNCHANGED now

Tick ==
  /\ \E e \in Posted : now' = due[e] /\ \A f \in Posted : due[e] <= due[f]
  /\ UNCHANGED due

Next ==
  \/ Tick
  \/ \E e \in Events : Fire(e) \/ Post(e, due'[e])

Spec == Init /\ [][Next]_vars
=============================================================================
