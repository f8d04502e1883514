---------------------------- MODULE ClockEngine -----------------------------
(***************************************************************************)
(* One clock domain: vp::clock_engine (engine/src/vp.cpp and               *)
(* engine/include/vp/clock/clock_engine.hpp) as a client of the time       *)
(* engine.  Events a few cycles away are in a circular buffer that is      *)
(* walked one slot per cycle, the others in a delayed queue sorted by      *)
(* cycle that is flushed into the buffer when its window reaches them.     *)
(*                                                                         *)
(* The engine is one record, so that the functions of the code, which call *)
(* each other, are functions from record to record.  The rest of the       *)
(* platform is its environment: it lets time pass, never beyond the next   *)
(* event of this engine, and calls the engine from other clock domains.    *)
(***************************************************************************)
EXTENDS Integers, Sequences, SequencesExt

CONSTANTS Events,        \* the clock_event objects of the domain
          None,          \* the NULL pointer
          QueueSize,     \* CLOCK_EVENT_QUEUE_SIZE
          Periods,       \* the clock periods in ps; 0 is a gated clock
          FirstPeriod,   \* the period given by the configuration
          MaxTime,       \* bound on the simulated time, in ps
          MaxDelay,      \* bound on the delay of one enqueue, in cycles
          MaxCycle       \* bound on the cycle an event is planned for

ASSUME ClockEngineAssumption ==
  /\ IsFiniteSet(Events) /\ None \notin Events
  /\ QueueSize \in Nat \ {0}
  /\ Periods \subseteq Nat /\ FirstPeriod \in Periods
  /\ MaxTime \in Nat /\ MaxDelay \in Nat /\ MaxCycle \in Nat

VARIABLES
  time,      \* the global time
  eng,       \* the fields of the clock engine and of its events
  handler,   \* the event whose method is being executed, or None
  due,       \* history: the time each queued event was asked to run at
  local,     \* history: only the domain itself used the engine so far
  counted    \* history: the cycles since stop_time, see Recount

history == <<due, local, counted>>
vars == <<time, eng, handler, history>>

Slots == 0..(QueueSize - 1)

Init ==
  /\ time = 0
  /\ handler = None
  /\ due = [e \in Events |-> 0]
  /\ local = TRUE
  /\ counted = "once"
  /\ eng = [ event_queue |-> [i \in Slots |-> <<>>],   \* the circular buffer
             delayed_queue |-> <<>>,
             current_cycle |-> 0,                      \* slot of the current cycle
             period |-> FirstPeriod,
             cycles |-> 0,                             \* the cycle count
             nb_enqueued_to_cycle |-> 0,
             stop_time |-> 0,
             must_flush_delayed_queue |-> TRUE,
             next_event_time |-> 0,                    \* as a time engine client
             is_enqueued |-> FALSE,
             running |-> FALSE,
             enqueued |-> [e \in Events |-> FALSE],    \* clock_event::enqueued
             cycle |-> [e \in Events |-> 0] ]          \* clock_event::cycle

-----------------------------------------------------------------------------
(* The time engine, as seen by its client (see TimeEngine).                *)

EnqueueToEngine(s, delay) ==
  IF s.running \/ (s.is_enqueued /\ s.next_event_time <= time + delay) THEN s
  ELSE [s EXCEPT !.is_enqueued = TRUE, !.next_event_time = time + delay]

dequeue_from_engine(s) ==
  IF s.running THEN s ELSE [s EXCEPT !.is_enqueued = FALSE]

-----------------------------------------------------------------------------
(* The event queues.                                                       *)

has_events(s) == s.nb_enqueued_to_cycle > 0 \/ s.delayed_queue # <<>>

Slot(s, n) == (s.current_cycle + n) % QueueSize

\* Add to the cycle count the clock edges since the engine stopped.
update(s) ==
  LET diff == time - s.stop_time
      n == (diff + s.period - 1) \div s.period
  IN  IF s.period = 0 \/ diff <= 0 THEN s
      ELSE [s EXCEPT !.stop_time = @ + n * s.period, !.cycles = @ + n]

sync(s) == IF ~s.running /\ s.nb_enqueued_to_cycle = 0 THEN update(s) ELSE s

\* Push e at the head of the slot n cycles ahead.
enqueue_to_cycle(s, e, n) ==
  [s EXCEPT !.event_queue[Slot(s, n)] = <<e>> \o @,
            !.nb_enqueued_to_cycle = @ + 1,
            !.cycle[e] = n + s.cycles]

\* The delayed queue, sorted by cycle, with e linked before the first event that is not
\* earlier than cycle c.
InsertDelayed(s, e, c) ==
  LET l == s.delayed_queue
      p == CHOOSE p \in 1..(Len(l) + 1) :
             /\ \A i \in 1..(p - 1) : s.cycle[l[i]] < c
             /\ p <= Len(l) => s.cycle[l[p]] >= c
  IN  InsertAt(l, p, e)

\* Mutant: the time engine is only told when nothing was planned.
enqueue_other_FirstOnly(s, e, n) ==
  LET s1 == IF s.period # 0 /\ ~s.is_enqueued THEN EnqueueToEngine(s, n * s.period) ELSE s
  IN  [s1 EXCEPT !.must_flush_delayed_queue = TRUE,
                 !.delayed_queue = InsertDelayed(s, e, n + s.cycles),
                 !.cycle[e] = n + s.cycles]

\* The slow path: the time engine plans this client, the event is delayed.
enqueue_other(s, e, n) ==
  LET s1 == IF s.period # 0 THEN EnqueueToEngine(s, n * s.period) ELSE s
  IN  [s1 EXCEPT !.must_flush_delayed_queue = TRUE,
                 !.delayed_queue = InsertDelayed(s, e, n + s.cycles),
                 !.cycle[e] = n + s.cycles]

\* Mutant: one cycle too many is put in the buffer.
enqueue_Window(s, e, n) ==
  LET s1 == sync([s EXCEPT !.enqueued[e] = TRUE])
  IN  IF s1.running /\ n <= QueueSize THEN enqueue_to_cycle(s1, e, n)
      ELSE enqueue_other(s1, e, n)

enqueue(s, e, n) ==
  LET s1 == sync([s EXCEPT !.enqueued[e] = TRUE])
  IN  IF s1.running /\ n < QueueSize THEN enqueue_to_cycle(s1, e, n)
      ELSE enqueue_other(s1, e, n)

\* Mutant: the events of the buffer are not counted down.
cancel_NotCounted(s, e) ==
  IF ~s.enqueued[e] THEN s
  ELSE LET s1 == [s EXCEPT !.delayed_queue = RemoveFirst(@, e),
                           !.event_queue = [i \in Slots |-> RemoveFirst(@[i], e)],
                           !.enqueued[e] = FALSE]
       IN  IF has_events(s1) THEN s1 ELSE dequeue_from_engine(s1)

\* Mutant: an engine without any event left stays planned.
cancel_StaysPlanned(s, e) ==
  IF ~s.enqueued[e] THEN s
  ELSE IF Contains(s.delayed_queue, e)
       THEN [s EXCEPT !.delayed_queue = RemoveFirst(@, e), !.enqueued[e] = FALSE]
       ELSE [s EXCEPT !.event_queue = [i \in Slots |-> RemoveFirst(@[i], e)],
                      !.nb_enqueued_to_cycle = @ - 1, !.enqueued[e] = FALSE]

cancel(s, e) ==
  IF ~s.enqueued[e] THEN s
  ELSE LET s1 == IF Contains(s.delayed_queue, e)
                 THEN [s EXCEPT !.delayed_queue = RemoveFirst(@, e)]
                 ELSE [s EXCEPT !.event_queue = [i \in Slots |-> RemoveFirst(@[i], e)],
                                !.nb_enqueued_to_cycle = @ - 1]
           s2 == [s1 EXCEPT !.enqueued[e] = FALSE]
       IN  IF has_events(s2) THEN s2 ELSE dequeue_from_engine(s2)

\* The cycle of the event is computed before enqueue resynchronises the engine.
reenqueue(s, e, n) ==
  LET c == s.cycles + n
  IN  IF s.enqueued[e] /\ c >= s.cycle[e] THEN s
      ELSE [enqueue(cancel(s, e), e, n) EXCEPT !.cycle[e] = c]

\* The first event of the first slot in use, else of the delayed queue.
get_next_event(s) ==
  IF s.nb_enqueued_to_cycle > 0
  THEN LET n == CHOOSE n \in Slots :
                  /\ s.event_queue[Slot(s, n)] # <<>>
                  /\ \A k \in 0..(n - 1) : s.event_queue[Slot(s, k)] = <<>>
       IN  Head(s.event_queue[Slot(s, n)])
  ELSE Head(s.delayed_queue)

\* The integer division of C++, which truncates towards zero.
Quotient(a, b) == IF a >= 0 THEN a \div b ELSE -((-a) \div b)

\* The engine is planned at the same number of cycles from now, of the new
\* period.  A gated engine is taken out of the time engine, and planned again
\* when the clock comes back.
apply_frequency(s, period) ==
  LET out == dequeue_from_engine(s)
      taken == s.is_enqueued /\ ~s.running
      new == [out EXCEPT !.period = period]
      left == Quotient(s.next_event_time - time, s.period)
  IN  IF period = 0 THEN new
      ELSE IF taken /\ s.period > 0 THEN EnqueueToEngine(new, left * period)
      ELSE IF s.period = 0 /\ has_events(s)
           THEN EnqueueToEngine(new, (s.cycle[get_next_event(s)] - s.cycles) * period)
      ELSE new

-----------------------------------------------------------------------------
(* exec().                                                                 *)

\* How many delayed events fit the window; a cycle in the past is a huge
\* unsigned difference, which does not fit.
FlushCount(s) ==
  LET Fits(i) == s.cycle[s.delayed_queue[i]] - s.cycles \in Slots
  IN  CHOOSE k \in 0..Len(s.delayed_queue) :
        /\ \A i \in 1..k : Fits(i)
        /\ k < Len(s.delayed_queue) => ~Fits(k + 1)

\* An empty buffer jumps to the cycle of the first delayed event; then the
\* delayed events of the window move to their slots, each at the head.
flush_delayed_queue(s) ==
  LET s0 == IF s.nb_enqueued_to_cycle = 0 /\ s.delayed_queue # <<>>
            THEN [s EXCEPT !.cycles = s.cycle[Head(s.delayed_queue)]] ELSE s
      k == FlushCount(s0)
      queue[j \in 0..k] ==
        IF j = 0 THEN s.event_queue
        ELSE LET e == s.delayed_queue[j]
             IN  [queue[j - 1] EXCEPT ![Slot(s0, s0.cycle[e] - s0.cycles)] = <<e>> \o @]
  IN  [s0 EXCEPT !.must_flush_delayed_queue = FALSE,
                 !.delayed_queue = SubSeq(@, k + 1, Len(@)),
                 !.nb_enqueued_to_cycle = @ + k,
                 !.event_queue = queue[k]]

\* Mutant: the delayed queue is not looked at when the buffer wraps.
EndCycle_NoFlush(s) ==
  [s EXCEPT !.cycles = @ + 1, !.current_cycle = (@ + 1) % QueueSize]

\* Mutant: the cycle is not counted.
EndCycle_NotCounted(s) ==
  LET c == (s.current_cycle + 1) % QueueSize
  IN  [s EXCEPT !.current_cycle = c, !.must_flush_delayed_queue = @ \/ c = 0]

\* End of exec() with events left in the buffer: one cycle is over.
EndCycle(s) ==
  LET c == (s.current_cycle + 1) % QueueSize
  IN  [s EXCEPT !.cycles = @ + 1, !.current_cycle = c,
                !.must_flush_delayed_queue = @ \/ c = 0]

\* End of exec() with an empty buffer: the time is kept for update.
EndIdle(s) == [s EXCEPT !.must_flush_delayed_queue = TRUE, !.stop_time = time]

\* The engine gives d back to the time engine, which plans it if d > 0.
Leave(s, d) ==
  IF d > 0 THEN [s EXCEPT !.running = FALSE, !.is_enqueued = TRUE, !.next_event_time = time + d]
  ELSE [s EXCEPT !.running = FALSE]

\* Mutant: an empty buffer is taken for an engine without events.
ExecEnd_NoDelayed(s) ==
  IF s.nb_enqueued_to_cycle > 0 THEN Leave(EndCycle(s), s.period) ELSE Leave(EndIdle(s), -1)

\* What exec() does after the events of the cycle, and the delay it returns.
ExecEnd(s) ==
  IF s.nb_enqueued_to_cycle > 0 THEN Leave(EndCycle(s), s.period)
  ELSE IF s.delayed_queue # <<>>
       THEN Leave(EndIdle(s), (s.cycle[Head(s.delayed_queue)] - s.cycles) * s.period)
  ELSE Leave(EndIdle(s), -1)

-----------------------------------------------------------------------------
(* Actions of the engine thread.                                           *)

\* The time engine reaches the next event of this client and calls exec().  It
\* takes the time of the client as it is: only a build with assertions stops
\* when that time is in the past.
StartExec ==
  /\ eng.is_enqueued /\ eng.next_event_time <= time
  /\ time' = eng.next_event_time
  /\ LET s == [eng EXCEPT !.is_enqueued = FALSE, !.running = TRUE]
     IN  eng' = IF s.must_flush_delayed_queue THEN flush_delayed_queue(s) ELSE s
  /\ counted' = IF counted = "stale" THEN "once" ELSE counted
  /\ UNCHANGED <<handler, due, local>>

CurrentSlot == eng.event_queue[eng.current_cycle]

RunEvent ==
  /\ eng.running /\ handler = None /\ CurrentSlot # <<>>
  /\ handler' = Head(CurrentSlot)
  /\ eng' = [eng EXCEPT !.event_queue[eng.current_cycle] = Tail(@),
                        !.enqueued[Head(CurrentSlot)] = FALSE,
                        !.nb_enqueued_to_cycle = @ - 1]
  /\ due' = [due EXCEPT ![handler'] = 0]
  /\ UNCHANGED <<time, local, counted>>

MethodReturns ==
  /\ handler # None
  /\ handler' = None
  /\ UNCHANGED <<time, eng, history>>

FinishExec ==
  /\ eng.running /\ handler = None /\ CurrentSlot = <<>>
  /\ eng' = ExecEnd(eng)
  /\ eng'.is_enqueued => eng'.next_event_time <= MaxTime
  /\ counted' = IF has_events(eng') THEN counted ELSE "once"
  /\ UNCHANGED <<time, handler, due, local>>

\* Other clients of the time engine run, up to the next event of this one.
TimePasses ==
  /\ ~eng.running
  /\ \E t \in (time + 1)..MaxTime :
       /\ eng.is_enqueued => t <= eng.next_event_time
       /\ time' = t
  /\ UNCHANGED <<eng, handler, history>>

-----------------------------------------------------------------------------
(* Calls, from an event of this domain or from another clock domain.       *)

\* Nothing was executed yet: the components post their first events.
Starting == time = 0 /\ ~eng.running /\ eng.nb_enqueued_to_cycle = 0

\* A call that leaves the engine in state s; own is false for one that the domain may
\* not make if its events are to run exactly on time.
Called(s, own) ==
  /\ eng.running => handler # None
  /\ s.is_enqueued => s.next_event_time \in 0..MaxTime
  /\ \A e \in Events : s.cycle[e] <= MaxCycle
  /\ eng' = s
  /\ local' = (local /\ own)
  /\ UNCHANGED <<time, handler>>

Posted(e, n) == due' = [due EXCEPT ![e] = time + n * eng.period]

\* e is the last event of the buffer, in an engine that does not run.
EmptiesBuffer(e) ==
  /\ ~eng.running
  /\ eng.nb_enqueued_to_cycle = 1 /\ eng.enqueued[e] /\ ~Contains(eng.delayed_queue, e)

\* An engine that does not run and has an empty buffer counts the cycles since stop_time
\* at the next enqueue.  They are counted once, unless the buffer was emptied by cancel
\* (its cycles are "stale": in the count already) and an event is posted before exec()
\* runs again ("twice").  Without events it does not matter.
Recount(e, moved) ==
  counted' = IF counted = "stale" \/ (moved /\ EmptiesBuffer(e)) THEN "twice" ELSE counted

Enqueue(e, n) ==
  /\ ~eng.enqueued[e] /\ Called(enqueue(eng, e, n), eng.running \/ Starting)
  /\ Posted(e, n) /\ Recount(e, FALSE)

EnqueueExt(e, n) ==
  /\ ~eng.enqueued[e] /\ Called(enqueue(sync(eng), e, n), eng.running \/ Starting)
  /\ Posted(e, n) /\ Recount(e, FALSE)

Cancel(e) ==
  /\ eng.enqueued[e] /\ Called(cancel(eng, e), eng.running)
  /\ due' = [due EXCEPT ![e] = 0]
  /\ counted' = IF ~has_events(eng') THEN "once"
                ELSE IF counted = "once" /\ EmptiesBuffer(e) THEN "stale" ELSE counted

\* reenqueue called in state s, which leaves alone an event that is early enough.
ReenqueueFrom(s, e, n) ==
  LET stays == s.enqueued[e] /\ s.cycles + n >= s.cycle[e]
  IN  /\ Called(reenqueue(s, e, n), eng.running \/ Starting)
      /\ IF stays THEN UNCHANGED due ELSE Posted(e, n)
      /\ Recount(e, ~stays)

Reenqueue(e, n) == ReenqueueFrom(eng, e, n)

ReenqueueExt(e, n) == ReenqueueFrom(sync(eng), e, n)

\* clock_domain::set_frequency; due times only make sense for a constant clock.
SetPeriod(p) ==
  /\ Called(apply_frequency(eng, p), eng.running \/ Starting)
  /\ UNCHANGED <<due, counted>>

-----------------------------------------------------------------------------
(* Two uses of the engine.                                                 *)

ExecNext == StartExec \/ RunEvent \/ MethodReturns \/ FinishExec \/ TimePasses

\* A clock of constant frequency.  Other domains and threads call the engine too: they
\* cancel events, post them for the next cycle at the earliest, and use reenqueue_ext
\* where the domain itself uses reenqueue.
SharedNext ==
  \/ ExecNext
  \/ \E e \in Events, n \in 0..MaxDelay :
       /\ eng.running \/ Starting \/ n > 0
       /\ Enqueue(e, n) \/ EnqueueExt(e, n) \/ ReenqueueExt(e, n) \/ (eng.running /\ Reenqueue(e, n))
  \/ \E e \in Events : Cancel(e)

\* Any call in any state, frequency changes and clock gating included.
Next ==
  \/ ExecNext
  \/ \E e \in Events, n \in 0..MaxDelay :
       Enqueue(e, n) \/ EnqueueExt(e, n) \/ Reenqueue(e, n) \/ ReenqueueExt(e, n)
  \/ \E e \in Events : Cancel(e)
  \/ \E p \in Periods : SetPeriod(p)

SharedSpec == Init /\ [][SharedNext]_vars
Spec == Init /\ [][Next]_vars

-----------------------------------------------------------------------------
(* Properties.                                                             *)

\* The types of the fields: the slot index stays in the buffer, and the counts and
\* the cycles are never negative, which the code's unsigned differences assume.
Engines ==
  [event_queue : [Slots -> Seq(Events)], delayed_queue : Seq(Events), current_cycle : Slots,
   period : Periods, cycles : Nat, nb_enqueued_to_cycle : Nat, stop_time : Nat,
   must_flush_delayed_queue : BOOLEAN, next_event_time : 0..MaxTime, is_enqueued : BOOLEAN,
   running : BOOLEAN, enqueued : [Events -> BOOLEAN], cycle : [Events -> Nat]]

TypeOK ==
  /\ time \in 0..MaxTime
  /\ eng \in Engines
  /\ handler \in Events \cup {None}
  /\ due \in [Events -> Nat] /\ local \in BOOLEAN /\ counted \in {"once", "stale", "twice"}

\* The links of the buffer: a slot, and a position in its list.
Links == UNION {{i} \X (1..Len(eng.event_queue[i])) : i \in Slots}

\* An event is linked exactly once while it is flagged enqueued, never
\* otherwise, and the count of the buffer is right, whatever was called: the
\* assertions of enqueue, cancel and get_next_event do not fail.
QueuesConsistent ==
  /\ \A e \in Events :
       Cardinality({i \in DOMAIN eng.delayed_queue : eng.delayed_queue[i] = e})
         + Cardinality({l \in Links : eng.event_queue[l[1]][l[2]] = e})
       = IF eng.enqueued[e] THEN 1 ELSE 0
  /\ eng.nb_enqueued_to_cycle = Cardinality(Links)

\* The slot n cycles ahead only holds events of the cycle n cycles ahead: walking
\* the buffer runs every event of it at its cycle.
SlotHoldsItsCycle ==
  \A n \in Slots : \A e \in ToSet(eng.event_queue[Slot(eng, n)]) :
    eng.cycle[e] = eng.cycles + n

\* The assertion "Executing clock engine while it has no event" does not fail.
NeverExecutedEmpty == eng.is_enqueued => has_events(eng)

\* The count never runs past the cycle of an event that waits, in either queue, except
\* when cycles were counted twice: cancel or reenqueue_ext from another domain emptied
\* the buffer, and an event was posted from outside before the engine ran again.
NoCycleMissed ==
  counted # "twice" => \A e \in Events : eng.enqueued[e] => eng.cycle[e] >= eng.cycles

\* A domain with events and a clock is planned in the time engine, except when cycles
\* were counted twice (see NoCycleMissed): the end of exec() then takes an event that is
\* behind the count for none.
NeverForgotten ==
  counted # "twice" =>
    (~eng.running /\ has_events(eng) /\ eng.period # 0 => eng.is_enqueued)

\* As long as a domain is used by its own components only, an event posted for n
\* cycles runs exactly n periods later, through the buffer or through the delayed
\* queue.
RunsExactlyOnTime ==
  [][local => /\ RunEvent => time = due[handler']
              /\ \A e \in Events : eng.enqueued[e] => time' <= due[e]]_vars

\* When other domains post and cancel events too, an event is late by one period at
\* most, except when cycles were counted twice (see NoCycleMissed).
NeverLate ==
  counted # "twice" => \A e \in Events : eng.enqueued[e] => time <= due[e] + eng.period

=============================================================================
