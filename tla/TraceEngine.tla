---------------------------- MODULE TraceEngine -----------------------------
(***************************************************************************)
(* vp::trace_engine (engine/src/trace/trace.cpp): the engine thread writes *)
(* the events of the traces to buffers, a dumper thread unpacks the full   *)
(* buffers, merges the values a trace takes at one timestamp and gives     *)
(* them to the back-end.  The end of a pulse waits in a list sorted by     *)
(* time until the engine thread passes its timestamp.                      *)
(*                                                                         *)
(* A buffer is an array that keeps what a former use left in it: an event  *)
(* is stored at the position where it starts, the rest of it is Filler.    *)
(* The calls are numbered; the number stands for the value, its opposite   *)
(* for the value at the end of a pulse.                                    *)
(***************************************************************************)
EXTENDS Integers, Sequences, SequencesExt

CONSTANTS Traces,     \* the event traces
          Size,       \* the room an event of each trace takes in a buffer
          Buffers,    \* the TRACE_EVENT_NB_BUFFER buffers
          BufferSize, \* TRACE_EVENT_BUFFER_SIZE
          PtrSize,    \* the size of the NULL pointer that ends a buffer
          None, Null, Filler,
          EngineThread, Dumper,
          MaxTime,    \* bound on the simulated time
          MaxPulse,   \* bound on the duration of a pulse
          MaxCalls    \* bound on the number of events and switches of global_enable

Event(t, timestamp, v) == [trace |-> t, timestamp |-> timestamp, value |-> v]

\* The events there can be.  The marks of a buffer are none of them: a pointer to a trace
\* is not NULL.
Events == [trace : Traces, timestamp : 0..(MaxTime + MaxPulse), value : (-MaxCalls)..MaxCalls]

ASSUME TraceEngineAssumption ==
  /\ {BufferSize, PtrSize, MaxTime, MaxPulse, MaxCalls} \subseteq Nat
  /\ Null \notin Events
  /\ Size \in [Traces -> Nat \ {0}]
  /\ \A t \in Traces : Size[t] > PtrSize /\ Size[t] <= BufferSize
  /\ Buffers # {} /\ IsFiniteSet(Buffers)
  /\ None \notin Buffers /\ Null \notin Buffers /\ None # Null

VARIABLES
  time, calls,               \* the simulated time; the number of calls so far
  global_enable,
  pending,                   \* first_pending_event: traces sorted by pending_timestamp
  pending_timestamp,         \* -1 for a trace that is not in the list
  background,                \* trace::buffer, the value of the end of the pulse
  event_buffers,             \* the free buffers
  ready_event_buffers,       \* the buffers for the dumper
  current_buffer, current_buffer_size,
  memory,                    \* the contents of the buffers
  todo,                      \* events the engine thread still has to write
  call,                      \* what the engine thread does after that
  end,
  unpacked, position,        \* the buffer the dumper unpacks, and where
  last_timestamp,
  value,                     \* Event_trace::buffer
  to_dump,                   \* first_trace_to_dump
  sleeping,                  \* threads in pthread_cond_wait that were not woken
  log, output                \* history: the events written; what the back-end got

engineVars == <<time, calls, global_enable, pending, pending_timestamp, background>>
bufferVars == <<event_buffers, ready_event_buffers, current_buffer, current_buffer_size, memory>>
callVars == <<todo, call, end>>
dumperVars == <<unpacked, position, last_timestamp, value, to_dump, output>>
vars == <<engineVars, bufferVars, callVars, dumperVars, sleeping, log>>

Init ==
  /\ time = 0 /\ calls = 0 /\ global_enable = TRUE
  /\ pending = <<>>
  /\ pending_timestamp = [t \in Traces |-> -1]
  /\ background = [t \in Traces |-> 0]
  /\ current_buffer = Head(SetToSeq(Buffers)) /\ event_buffers = Tail(SetToSeq(Buffers))
  /\ ready_event_buffers = <<>> /\ current_buffer_size = 0
  /\ memory = [b \in Buffers |-> [p \in 0..(BufferSize - 1) |-> Filler]]
  /\ todo = <<>> /\ call = "none" /\ end = FALSE
  /\ unpacked = None /\ position = 0 /\ last_timestamp = -1
  /\ value = [t \in Traces |-> 0] /\ to_dump = <<>> /\ output = <<>>
  /\ sleeping = {} /\ log = <<>>

-----------------------------------------------------------------------------
(* The pending ends of pulses.                                             *)

\* How many pending traces check_pending_events(timestamp) dumps; -1 is for all.
PendingCount(timestamp) ==
  CHOOSE k \in 0..Len(pending) :
    /\ \A i \in 1..k : timestamp = -1 \/ pending_timestamp[pending[i]] <= timestamp
    /\ k < Len(pending) => timestamp # -1 /\ pending_timestamp[pending[k + 1]] > timestamp

\* The events of those traces, and the list without them.
PendingEvents(timestamp) ==
  [i \in 1..PendingCount(timestamp) |->
     Event(pending[i], pending_timestamp[pending[i]], background[pending[i]])]

PendingLeft(timestamp) == SubSeq(pending, PendingCount(timestamp) + 1, Len(pending))

\* pending_timestamp once only the traces of list are pending.
TimestampsOf(list) ==
  [t \in Traces |-> IF t \in ToSet(list) THEN pending_timestamp[t] ELSE -1]

\* The list without t.
dequeue(list, t) ==
  IF Contains(list, t) THEN RemoveAt(list, CHOOSE i \in 1..Len(list) : list[i] = t) ELSE list

\* Mutant: the pulse is put at the head of the list.
enqueue_pending_Head(list, t, timestamp) == <<t>> \o list

\* The list with t before the first trace that is not earlier.
enqueue_pending(list, t, timestamp) ==
  LET p == CHOOSE p \in 1..(Len(list) + 1) :
             /\ \A i \in 1..(p - 1) : pending_timestamp[list[i]] < timestamp
             /\ p <= Len(list) => pending_timestamp[list[p]] >= timestamp
  IN  InsertAt(list, p, t)

-----------------------------------------------------------------------------
(* Calls of the engine thread.  The events go to todo, and are written one *)
(* at a time since each may have to wait for a buffer.                     *)

Idle == todo = <<>> /\ call = "none"

\* dump_event_to_buffer of each event, which drops it when traces are disabled.
Dumps(events, next) ==
  /\ todo' = IF global_enable THEN events ELSE <<>>
  /\ log' = log \o todo'
  /\ call' = next
  /\ UNCHANGED <<bufferVars, end, dumperVars, sleeping, global_enable>>

\* dump_event, dump_event_string and dump_event_delayed.
dump_event(t) ==
  /\ Idle /\ calls < MaxCalls
  /\ calls' = calls + 1
  /\ pending' = PendingLeft(time)
  /\ pending_timestamp' = TimestampsOf(pending')
  /\ Dumps(PendingEvents(time) \o <<Event(t, time, calls')>>, "none")
  /\ UNCHANGED <<time, background>>

dump_event_pulse(t, duration) ==
  /\ Idle /\ calls < MaxCalls
  /\ calls' = calls + 1
  /\ LET others == dequeue(PendingLeft(time), t)
     IN  /\ pending' = enqueue_pending(others, t, time + duration)
         /\ pending_timestamp' = [TimestampsOf(others) EXCEPT ![t] = time + duration]
  /\ background' = [background EXCEPT ![t] = -calls']
  /\ Dumps(PendingEvents(time) \o <<Event(t, time, calls')>>, "none")
  /\ UNCHANGED time

\* flush() and stop() start with the pending events, up to now or all of them.
StartFlush(next, timestamp) ==
  /\ Idle
  /\ pending' = PendingLeft(timestamp)
  /\ pending_timestamp' = TimestampsOf(pending')
  /\ Dumps(PendingEvents(timestamp), next)
  /\ UNCHANGED <<time, calls, background>>

\* The NULL pointer that ends the events of a buffer; one that would be outside
\* of the buffer marks nothing.
EndMark(b, size) ==
  IF size < BufferSize THEN [memory EXCEPT ![b][size] = Null] ELSE memory

NeedsBuffer ==
  \/ current_buffer = None
  \/ Size[Head(todo).trace] > BufferSize - current_buffer_size

\* get_event_buffer, slow path: pass the current buffer to the dumper and wait
\* for a free one.
get_event_buffer ==
  /\ todo # <<>> /\ EngineThread \notin sleeping /\ NeedsBuffer
  /\ ready_event_buffers' = IF current_buffer = None THEN ready_event_buffers
                            ELSE Append(ready_event_buffers, current_buffer)
  /\ memory' = IF current_buffer # None /\ BufferSize - current_buffer_size > PtrSize
               THEN EndMark(current_buffer, current_buffer_size) ELSE memory
  /\ LET awake == IF current_buffer = None THEN sleeping ELSE {}
     IN  IF event_buffers = <<>>
         THEN /\ current_buffer' = None /\ sleeping' = awake \cup {EngineThread}
              /\ UNCHANGED <<event_buffers, current_buffer_size>>
         ELSE /\ current_buffer' = Head(event_buffers)
              /\ event_buffers' = Tail(event_buffers)
              /\ current_buffer_size' = 0 /\ sleeping' = awake
  /\ UNCHANGED <<engineVars, callVars, dumperVars, log>>

\* dump_event_to_buffer, in a buffer with enough room.
WriteEvent ==
  /\ todo # <<>> /\ EngineThread \notin sleeping /\ ~NeedsBuffer
  /\ LET n == Size[Head(todo).trace]
         last == current_buffer_size + n - 1
     IN  /\ memory' = [memory EXCEPT ![current_buffer] =
                         [p \in 0..(BufferSize - 1) |->
                            IF p = current_buffer_size THEN Head(todo)
                            ELSE IF p \in current_buffer_size..last THEN Filler
                            ELSE @[p]]]
         /\ current_buffer_size' = current_buffer_size + n
  /\ todo' = Tail(todo)
  /\ UNCHANGED <<engineVars, event_buffers, ready_event_buffers, current_buffer, call, end,
                 dumperVars, sleeping, log>>

\* Mutant: the buffer stays the current one.
FlushBuffer_Kept ==
  /\ todo = <<>> /\ call \in {"flush", "stop"}
  /\ IF current_buffer_size = 0 THEN UNCHANGED <<bufferVars, sleeping>>
     ELSE /\ sleeping' = {}
          /\ IF current_buffer = None THEN UNCHANGED bufferVars
             ELSE /\ memory' = EndMark(current_buffer, current_buffer_size)
                  /\ ready_event_buffers' = Append(ready_event_buffers, current_buffer)
                  /\ UNCHANGED <<event_buffers, current_buffer, current_buffer_size>>
  /\ call' = IF call = "flush" THEN "none" ELSE "end"
  /\ UNCHANGED <<engineVars, todo, end, dumperVars, log>>

\* flush(): pass the current buffer to the dumper, even if it is not full.
FlushBuffer ==
  /\ todo = <<>> /\ call \in {"flush", "stop"}
  /\ IF current_buffer_size = 0 THEN UNCHANGED <<bufferVars, sleeping>>
     ELSE /\ sleeping' = {}
          /\ IF current_buffer = None THEN UNCHANGED bufferVars
             ELSE /\ memory' = EndMark(current_buffer, current_buffer_size)
                  /\ ready_event_buffers' = Append(ready_event_buffers, current_buffer)
                  /\ current_buffer' = None
                  /\ UNCHANGED <<event_buffers, current_buffer_size>>
  /\ call' = IF call = "flush" THEN "none" ELSE "end"
  /\ UNCHANGED <<engineVars, todo, end, dumperVars, log>>

\* Mutant: the dumper is not woken at the end.
EndDumper_Silent ==
  /\ call = "end" /\ call' = "join"
  /\ end' = TRUE
  /\ UNCHANGED <<engineVars, bufferVars, todo, dumperVars, sleeping, log>>

\* stop(): tell the dumper that nothing more comes.
EndDumper ==
  /\ call = "end" /\ call' = "join"
  /\ end' = TRUE /\ sleeping' = {}
  /\ UNCHANGED <<engineVars, bufferVars, todo, dumperVars, log>>

\* stop() returns once the dumper thread has.
Join ==
  /\ call = "join" /\ unpacked = Null /\ call' = "stopped"
  /\ UNCHANGED <<engineVars, bufferVars, todo, end, dumperVars, sleeping, log>>

\* The simulation goes on, and switches the traces on and off.
Tick ==
  /\ Idle /\ time < MaxTime /\ time' = time + 1
  /\ UNCHANGED <<calls, global_enable, pending, pending_timestamp, background, bufferVars,
                 callVars, dumperVars, sleeping, log>>

set_global_enable ==
  /\ Idle /\ calls < MaxCalls
  /\ calls' = calls + 1 /\ global_enable' = ~global_enable
  /\ UNCHANGED <<time, pending, pending_timestamp, background, bufferVars, callVars,
                 dumperVars, sleeping, log>>

-----------------------------------------------------------------------------
(* The dumper thread, vcd_routine.                                         *)

\* flush_event_traces: the values of the traces that changed go to the back-end.
Flushed(timestamp) ==
  output \o [i \in 1..Len(to_dump) |-> Event(to_dump[i], timestamp, value[to_dump[i]])]

DumperWaits ==
  /\ unpacked = None /\ Dumper \notin sleeping
  /\ ready_event_buffers = <<>> /\ ~end
  /\ sleeping' = sleeping \cup {Dumper}
  /\ UNCHANGED <<engineVars, bufferVars, callVars, dumperVars, log>>

Leaving == ready_event_buffers = <<>> /\ end

\* The end: unpacked is Null from now on.
DumperEnds ==
  /\ unpacked = None /\ Dumper \notin sleeping /\ Leaving
  /\ output' = Flushed(last_timestamp)
  /\ to_dump' = <<>> /\ unpacked' = Null
  /\ UNCHANGED <<engineVars, bufferVars, callVars, position, last_timestamp, value, sleeping, log>>

PopBuffer ==
  /\ unpacked = None /\ Dumper \notin sleeping /\ ready_event_buffers # <<>>
  /\ unpacked' = Head(ready_event_buffers) /\ position' = 0
  /\ ready_event_buffers' = Tail(ready_event_buffers)
  /\ UNCHANGED <<engineVars, event_buffers, current_buffer, current_buffer_size, memory,
                 callVars, last_timestamp, value, to_dump, output, sleeping, log>>

AtEvent ==
  /\ unpacked \in Buffers /\ position < BufferSize - PtrSize
  /\ memory[unpacked][position] # Null

\* One event: a new timestamp flushes the values of the previous one.
UnpackEvent ==
  /\ AtEvent
  /\ LET e == memory[unpacked][position]
         new == last_timestamp # -1 /\ last_timestamp < e.timestamp
         changed == IF new THEN <<>> ELSE to_dump
     IN  /\ output' = IF new THEN Flushed(last_timestamp) ELSE output
         /\ last_timestamp' = IF new \/ last_timestamp = -1 THEN e.timestamp ELSE last_timestamp
         /\ value' = [value EXCEPT ![e.trace] = e.value]
         /\ to_dump' = IF Contains(changed, e.trace) THEN changed ELSE <<e.trace>> \o changed
         /\ position' = position + Size[e.trace]
  /\ UNCHANGED <<engineVars, bufferVars, callVars, unpacked, sleeping, log>>

\* Mutant: nobody is told that a buffer is free again.
ReleaseBuffer_Silent ==
  /\ unpacked \in Buffers /\ ~AtEvent
  /\ event_buffers' = Append(event_buffers, unpacked)
  /\ unpacked' = None /\ position' = 0
  /\ UNCHANGED <<engineVars, ready_event_buffers, current_buffer, current_buffer_size, memory,
                 callVars, last_timestamp, value, to_dump, output, sleeping, log>>

ReleaseBuffer ==
  /\ unpacked \in Buffers /\ ~AtEvent
  /\ event_buffers' = Append(event_buffers, unpacked)
  /\ unpacked' = None /\ position' = 0 /\ sleeping' = {}
  /\ UNCHANGED <<engineVars, ready_event_buffers, current_buffer, current_buffer_size, memory,
                 callVars, last_timestamp, value, to_dump, output, log>>

-----------------------------------------------------------------------------
EngineStep == get_event_buffer \/ WriteEvent \/ FlushBuffer \/ EndDumper \/ Join

DumperStep == DumperWaits \/ DumperEnds \/ PopBuffer \/ UnpackEvent \/ ReleaseBuffer

Next ==
  \/ EngineStep \/ DumperStep
  \/ \E t \in Traces : dump_event(t) \/ \E d \in 0..MaxPulse : dump_event_pulse(t, d)
  \/ StartFlush("flush", time) \/ StartFlush("stop", -1)
  \/ Tick \/ set_global_enable

\* Both threads go on as long as they can; nobody has to call the engine.
Spec == Init /\ [][Next]_vars /\ WF_vars(EngineStep) /\ WF_vars(DumperStep)

-----------------------------------------------------------------------------
(* Properties.                                                             *)

\* A buffer is in one place: free, waiting for the dumper, being filled or being
\* unpacked.  Two threads never use the same one.
BuffersAccounted ==
  LET places == event_buffers \o ready_event_buffers \o <<current_buffer, unpacked>>
  IN  \A b \in Buffers : Cardinality({i \in DOMAIN places : places[i] = b}) = 1

\* The last value of each trace at each timestamp, among the events written.
Changes ==
  {log[i] : i \in {i \in DOMAIN log :
     \A j \in (i + 1)..Len(log) :
        log[j].trace = log[i].trace => log[j].timestamp # log[i].timestamp}}

\* The waveform is right at all times: the back-end gets every change once, in
\* the order of the timestamps, with the last value, and misses none, through
\* partly filled, full and reused buffers and pulses that overlap; and nothing is
\* left behind when stop() returns (trace_engine::vcd_routine, flush, stop).
WaveformCorrect ==
  /\ \A i \in DOMAIN output :
       /\ output[i] \in Changes
       /\ \A j \in 1..(i - 1) : output[j].timestamp <= output[i].timestamp
                                  /\ output[j] # output[i]
  /\ \A c \in Changes, i \in DOMAIN output :
       c.timestamp < output[i].timestamp => c \in ToSet(output)
  /\ call = "stopped" => ToSet(output) = Changes

\* The engine thread never waits for ever for a buffer.
EventsAreWritten == todo # <<>> ~> todo = <<>>

\* stop() returns.
StopReturns == call = "stop" ~> call = "stopped"
=============================================================================
