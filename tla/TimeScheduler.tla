--------------------------- MODULE TimeScheduler ----------------------------
(***************************************************************************)
(* vp::time_scheduler (engine/src/vp.cpp), the time engine client that     *)
(* runs events at absolute times, e.g. the stop event behind step().       *)
(* Every client of the engine is a scheduler here.  What a client did in   *)
(* TimeEngine at will is now what exec() really does.                      *)
(***************************************************************************)
EXTENDS TimeEngine

CONSTANTS Events,      \* the time_event objects
          Owner        \* the scheduler each event was created by (comp)

ASSUME OwnerAssumption == Owner \in [Events -> Clients]

VARIABLES
  first_event,   \* the list that starts at time_scheduler::first_event
  event_time,    \* time_event::time
  handler        \* the event whose method is running, or None

svars == <<vars, first_event, event_time, handler>>

SInit ==
  /\ Init
  /\ first_event = [c \in Clients |-> <<>>]
  /\ event_time = [e \in Events |-> 0]
  /\ handler = None

\* The events in the list of their scheduler.
Linked ==
  {e \in Events : \E i \in 1..Len(first_event[Owner[e]]) : first_event[Owner[e]][i] = e}

\* Mutant: the engine is only asked when the list was empty.
sched_enqueue_FirstOnly(e, delay) ==
  LET c == Owner[e]
      t == time + delay
  IN  /\ \E p \in 0..Len(first_event[c]) :
           /\ InsertPoint(first_event[c], event_time, p, t)
           /\ first_event' = [first_event EXCEPT ![c] = InsertAfter(first_event[c], p, e)]
      /\ event_time' = [event_time EXCEPT ![e] = t]
      /\ IF first_event[c] = <<>>
         THEN enqueue(c, delay)
         ELSE UNCHANGED <<clients, is_enqueued, next_event_time>>

\* vp::time_scheduler::enqueue: link the event by its date, then tell the engine.
sched_enqueue(e, delay) ==
  LET c == Owner[e]
      t == time + delay
  IN  /\ \E p \in 0..Len(first_event[c]) :
           /\ InsertPoint(first_event[c], event_time, p, t)
           /\ first_event' = [first_event EXCEPT ![c] = InsertAfter(first_event[c], p, e)]
      /\ event_time' = [event_time EXCEPT ![e] = t]
      /\ enqueue(c, delay)

\* An event is posted by the method that is running, or by another thread while
\* the engine is held stopped; an event is not posted twice (step() creates a
\* new one each time).
Post(e, delay) ==
  /\ handler # None \/ (current = None /\ ~run_req)
  /\ e \notin Linked
  /\ time + delay <= MaxTime
  /\ sched_enqueue(e, delay)
  /\ UNCHANGED <<time, running, current, run_req, handler>>

\* exec() has an event for the current time.
Due == first_event[current] # <<>> /\ event_time[Head(first_event[current])] = time

\* exec(): unlink the first event and call its method.
RunEvent ==
  /\ current # None /\ handler = None /\ Due
  /\ handler' = Head(first_event[current])
  /\ first_event' = [first_event EXCEPT ![current] = Tail(@)]
  /\ UNCHANGED <<vars, event_time>>

MethodReturns ==
  /\ handler # None
  /\ handler' = None
  /\ UNCHANGED <<vars, first_event, event_time>>

\* Mutant: exec() returns the date of its next event, not the delay to it.
ExecDelay_Date ==
  IF first_event[current] = <<>> THEN -1 ELSE event_time[Head(first_event[current])]

\* The value exec() returns.
ExecDelay ==
  IF first_event[current] = <<>> THEN -1
  ELSE event_time[Head(first_event[current])] - time

ExecDone ==
  /\ current # None /\ handler = None /\ ~Due
  /\ ExecReturn(ExecDelay)
  /\ UNCHANGED <<first_event, event_time, handler>>

SNext ==
  \/ StartLoop /\ UNCHANGED <<first_event, event_time, handler>>
  \/ RunEvent
  \/ MethodReturns
  \/ ExecDone
  \/ \E e \in Events, d \in 0..MaxDelay : Post(e, d)
  \/ SetRunReq /\ UNCHANGED <<first_event, event_time, handler>>

SSpec == SInit /\ [][SNext]_svars

-----------------------------------------------------------------------------
(* Properties.                                                             *)

\* exec() only runs events whose time is the current time and leaves the others:
\* an event that slipped into the past would never run.  None does, and a
\* scheduler that waits is planned at the time of its first event.
NothingMissed ==
  \A c \in Clients : \A i \in 1..Len(first_event[c]) :
    /\ event_time[first_event[c][i]] >= time
    /\ ~running[c] => is_enqueued[c] /\ next_event_time[c] <= event_time[first_event[c][i]]

\* The date of each event in the lists of the schedulers, or -1.
Dates == [e \in Events |-> IF e \in Linked THEN event_time[e] ELSE -1]

\* The engine and its schedulers implement one global agenda.
Agenda == INSTANCE AbstractScheduler WITH NotPosted <- -1, now <- time, due <- Dates

\* Every event runs exactly at the time it was posted for, in time order across
\* all the schedulers, and the clock stops at every posted time.
ImplementsAgenda == Agenda!Spec
=============================================================================
