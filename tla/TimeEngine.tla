----------------------------- MODULE TimeEngine -----------------------------
(***************************************************************************)
(* The global time engine (engine/vp/time_engine.cpp, and the queue code   *)
(* in engine/src/vp.cpp): a list of clients sorted by the time of their    *)
(* next event, and the loop that pops the first client, moves the global   *)
(* time to its event and calls its exec() method until it has nothing to   *)
(* do before the next client.                                              *)
(*                                                                         *)
(* What a client does inside exec() is left open here: it may enqueue and  *)
(* dequeue any client, itself included, and it returns any delay.  The     *)
(* modules TimeScheduler and ClockEngine fill this in for the two classes  *)
(* of clients of the code.  The threads that set run_req are modelled in   *)
(* EngineControl; here run_req may change at any moment.                   *)
(***************************************************************************)
EXTENDS Integers, Sequences

CONSTANTS Clients,     \* the time_engine_client objects
          None,        \* the NULL pointer
          MaxTime,     \* bound on the simulated time, in ps
          MaxDelay     \* bound on one delay given to the engine, in ps

ASSUME TimeEngineAssumption ==
  /\ None \notin Clients
  /\ MaxTime \in Nat
  /\ MaxDelay \in Nat

VARIABLES
  time,              \* time_engine::time
  clients,           \* the list that starts at first_client
  next_event_time,   \* time_engine_client::next_event_time
  is_enqueued,       \* time_engine_client::is_enqueued
  running,           \* time_engine_client::running
  current,           \* the client run_loop is executing, or None
  run_req            \* time_engine::run_req, as the loop reads it

vars == <<time, clients, next_event_time, is_enqueued, running, current, run_req>>

Init ==
  /\ time = 0
  /\ clients = <<>>
  /\ next_event_time = [c \in Clients |-> 0]
  /\ is_enqueued = [c \in Clients |-> FALSE]
  /\ running = [c \in Clients |-> FALSE]
  /\ current = None
  /\ run_req = FALSE

-----------------------------------------------------------------------------
(* The sorted linked list.                                                 *)

\* The list s with c linked after its first p elements.
InsertAfter(s, p, c) ==
  [i \in 1..(Len(s) + 1) |-> IF i <= p THEN s[i] ELSE IF i = p + 1 THEN c ELSE s[i - 1]]

\* The list s without its p-th element.
Unlink(s, p) ==
  [i \in 1..(Len(s) - 1) |-> IF i < p THEN s[i] ELSE s[i + 1]]

\* The walk of enqueue: p clients are strictly earlier than t, the next is not.
InsertPoint(s, net, p, t) ==
  /\ \A i \in 1..p : net[s[i]] < t
  /\ p < Len(s) => net[s[p + 1]] >= t

\* Mutant: the walk starts behind the first client, as the one of run_loop.
InsertSorted_BehindFirst(list, net, c, t, s) ==
  \E p \in 0..Len(list) :
    /\ list # <<>> => p >= 1
    /\ \A i \in 2..p : net[list[i]] < t
    /\ p < Len(list) => net[list[p + 1]] >= t
    /\ s = InsertAfter(list, p, c)

\* s is list after the walk of enqueue and the insertion of c at time t.
InsertSorted(list, net, c, t, s) ==
  \E p \in 0..Len(list) : InsertPoint(list, net, p, t) /\ s = InsertAfter(list, p, c)

\* s is list after the walk of dequeue.
Removed(list, c, s) ==
  \E p \in 1..Len(list) : list[p] = c /\ s = Unlink(list, p)

-----------------------------------------------------------------------------
(* vp::time_engine::dequeue and enqueue.                                   *)

dequeue(c) ==
  /\ is_enqueued[c]
  /\ is_enqueued' = [is_enqueued EXCEPT ![c] = FALSE]
  /\ Removed(clients, c, clients')
  /\ UNCHANGED next_event_time

\* The two early returns of enqueue: the client is being executed, or it is
\* already planned no later than the new time.
EnqueueIgnored(c, t) ==
  \/ running[c]
  \/ is_enqueued[c] /\ next_event_time[c] <= t

\* enqueue at the absolute time t.
EnqueueAt(c, t) ==
  IF EnqueueIgnored(c, t)
  THEN UNCHANGED <<clients, is_enqueued, next_event_time>>
  ELSE /\ next_event_time' = [next_event_time EXCEPT ![c] = t]
       /\ is_enqueued' = [is_enqueued EXCEPT ![c] = TRUE]
       /\ IF is_enqueued[c]
          THEN \E q \in 1..Len(clients) :
                 /\ clients[q] = c
                 /\ InsertSorted(Unlink(clients, q), next_event_time, c, t, clients')
          ELSE InsertSorted(clients, next_event_time, c, t, clients')

\* Mutant: a client that is planned too late is linked again, not moved.
enqueue_NoDequeue(c, delay) ==
  LET t == time + delay
  IN  IF EnqueueIgnored(c, t)
      THEN UNCHANGED <<clients, is_enqueued, next_event_time>>
      ELSE /\ next_event_time' = [next_event_time EXCEPT ![c] = t]
           /\ is_enqueued' = [is_enqueued EXCEPT ![c] = TRUE]
           /\ InsertSorted(clients, next_event_time, c, t, clients')

\* Mutant: the delay is taken as an absolute time.
enqueue_Absolute(c, delay) == EnqueueAt(c, delay)

enqueue(c, delay) == EnqueueAt(c, time + delay)

\* Models run inside exec() of the current client, or from another thread
\* while the engine is held stopped.
CallersMayRun == current # None \/ ~run_req

Enqueue(c, delay) ==
  /\ CallersMayRun
  /\ time + delay <= MaxTime
  /\ enqueue(c, delay)
  /\ UNCHANGED <<time, running, current, run_req>>

\* clock_engine::dequeue_from_engine, which leaves a running client alone.
Dequeue(c) ==
  /\ CallersMayRun
  /\ ~running[c]
  /\ dequeue(c)
  /\ UNCHANGED <<time, running, current, run_req>>

-----------------------------------------------------------------------------
(* run_loop.                                                               *)

\* Pop the first client and move the global time to its event.
PopFirst(list, net, enq, run) ==
  LET c == Head(list)
  IN  /\ current' = c
      /\ clients' = Tail(list)
      /\ is_enqueued' = [enq EXCEPT ![c] = FALSE]
      /\ running' = [run EXCEPT ![c] = TRUE]
      /\ time' = net[c]

\* Entry of the inner loop, once a run is requested.
StartLoop ==
  /\ current = None /\ run_req /\ clients # <<>>
  /\ PopFirst(clients, next_event_time, is_enqueued, running)
  /\ UNCHANGED <<next_event_time, run_req>>

\* Mutant: run_loop goes on with the same client whoever comes next.
Shortcut_Always(t) == TRUE

\* The delay d returned by exec() leads to an event no later than anybody's.
Shortcut(t) == clients # <<>> => next_event_time[Head(clients)] >= t

\* exec() returned d > 0 and the same client goes on: only the time moves.
ContinueSame(d) ==
  /\ current # None /\ d > 0 /\ time + d <= MaxTime
  /\ Shortcut(time + d)
  /\ run_req
  /\ time' = time + d
  /\ UNCHANGED <<clients, next_event_time, is_enqueued, running, current, run_req>>

\* The same, but a stop was requested: the client goes back to the head.
StopSame(d) ==
  /\ current # None /\ d > 0 /\ time + d <= MaxTime
  /\ Shortcut(time + d)
  /\ ~run_req
  /\ clients' = InsertAfter(clients, 0, current)
  /\ next_event_time' = [next_event_time EXCEPT ![current] = time + d]
  /\ is_enqueued' = [is_enqueued EXCEPT ![current] = TRUE]
  /\ running' = [running EXCEPT ![current] = FALSE]
  /\ current' = None
  /\ UNCHANGED <<time, run_req>>

\* exec() returned: the client leaves the loop, s, net and enq are the queue
\* after it.  The loop stops if asked or if nothing is left, else it pops.
LeaveCurrent(s, net, enq) ==
  LET run == [running EXCEPT ![current] = FALSE]
  IN  /\ next_event_time' = net
      /\ UNCHANGED run_req
      /\ IF run_req /\ s # <<>>
         THEN PopFirst(s, net, enq, run)
         ELSE /\ clients' = s /\ is_enqueued' = enq /\ running' = run
              /\ current' = None
              /\ UNCHANGED time

\* The client has an event, after the one of the first client: it is inserted
\* by a walk that starts behind the first client.
Requeue(d) ==
  /\ current # None /\ d > 0 /\ time + d <= MaxTime
  /\ ~Shortcut(time + d)
  /\ LET t == time + d
         net == [next_event_time EXCEPT ![current] = t]
         enq == [is_enqueued EXCEPT ![current] = TRUE]
     IN  \E p \in 1..Len(clients) :
            /\ \A i \in 2..p : next_event_time[clients[i]] < t
            /\ p < Len(clients) => next_event_time[clients[p + 1]] >= t
            /\ LeaveCurrent(InsertAfter(clients, p, current), net, enq)

\* exec() returned 0 or -1: the client has nothing to do, or is clock-gated.
Retire ==
  /\ current # None
  /\ LeaveCurrent(clients, next_event_time, is_enqueued)

ExecReturn(d) ==
  \/ ContinueSame(d)
  \/ StopSame(d)
  \/ Requeue(d)
  \/ d <= 0 /\ Retire

\* Another thread, or a model, starts or stops the engine.
SetRunReq ==
  /\ run_req' = ~run_req
  /\ UNCHANGED <<time, clients, next_event_time, is_enqueued, running, current>>

Next ==
  \/ StartLoop
  \/ \E d \in -1..MaxDelay : ExecReturn(d)
  \/ \E c \in Clients, d \in 0..MaxDelay : Enqueue(c, d)
  \/ \E c \in Clients : Dequeue(c)
  \/ SetRunReq

Spec == Init /\ [][Next]_vars

-----------------------------------------------------------------------------
(* Properties.                                                             *)

\* The types of the engine's fields; the times stay within the bound.
TypeOK ==
  /\ time \in 0..MaxTime
  /\ clients \in Seq(Clients)
  /\ next_event_time \in [Clients -> 0..MaxTime]
  /\ is_enqueued \in [Clients -> BOOLEAN]
  /\ running \in [Clients -> BOOLEAN]
  /\ current \in Clients \cup {None}
  /\ run_req \in BOOLEAN

\* The list never holds a client twice, and is_enqueued, which enqueue and
\* dequeue trust before they walk the list, says exactly who is in it.
QueueConsistent ==
  /\ \A i, j \in 1..Len(clients) : clients[i] = clients[j] => i = j
  /\ \A c \in Clients : is_enqueued[c] <=> \E i \in 1..Len(clients) : clients[i] = c

\* The client being executed, and nobody else, is flagged running, and it is
\* out of the list until its exec() returns.
CurrentAlone ==
  /\ \A c \in Clients : running[c] <=> c = current
  /\ current # None => ~is_enqueued[current]

\* The list stays sorted: the walks that stop at the first later client, and
\* the loop that only looks at the first one, never miss an earlier one.
Sorted ==
  \A i, j \in 1..Len(clients) :
    i <= j => next_event_time[clients[i]] <= next_event_time[clients[j]]

\* The assertion of run_loop, "event time is before vp time": no client is
\* planned in the past.
NoEventInPast ==
  \A i \in 1..Len(clients) : next_event_time[clients[i]] >= time

\* What the loop needs from the queue; it is inductive.
QueueInv == QueueConsistent /\ CurrentAlone /\ Sorted /\ NoEventInPast

\* The simulated time never goes backwards, and never jumps over the event of
\* a client that was waiting in the list.
TimeAdvances ==
  [][/\ time' >= time
     /\ \A i \in 1..Len(clients) : time' <= next_event_time[clients[i]]]_vars
=============================================================================
