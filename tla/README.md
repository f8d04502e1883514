# A verification project for GVSOC

GVSOC is an event-driven simulator of systems on chip: a C++ engine
(`engine/`) that advances a simulated time and calls the components of a
platform, models of these components (`models/`), and the Python code that
describes platforms (`generators/`, `engine/python/`). This directory holds TLA+
models of the core of the engine and of the component models with the most
control (interconnect, cache, cores, GDB server), the TLC runs that check them and
TLAPS proofs about them. Paths below are relative to `src/`.

## 1. Inventory

### The engine

| Part | State | Operations | Who calls it |
|---|---|---|---|
| Time engine, client list (`engine/vp/time_engine.cpp`, `engine/src/vp.cpp` 350-424) | global `time`, list `first_client` sorted by `next_event_time`, flags `is_enqueued` and `running` of each client | `enqueue`, `dequeue`, `run_loop` | clients (clock domains, schedulers), from `exec()` or from a thread that holds the engine stopped |
| Time engine, thread control (`time_engine.hpp`, `time_engine.cpp`) | `run_req`, `pause_req`, `stop_req`, `locked`, `locked_run_req`, `running`, `init`, `finished`, `retain_count`; one mutex, one condition variable | `run`, `step`, `pause`, `stop_exec`, `req_stop_exec`, `stop_engine`, `lock`, `unlock`, `retain`, `release`, `wait_running`, `join` | launcher, proxy, GDB server, router proxy, JTAG and DPI threads |
| Time scheduler (`vp.cpp` 1911-1969) | list of time events | `enqueue`, `exec` | time engine; `step` |
| Clock engine (`engine/include/vp/clock/`, `vp.cpp` 416-712) | circular buffer of `CLOCK_EVENT_QUEUE_SIZE` slots, delayed queue, `cycles`, `current_cycle`, `period`, `stop_time` | `enqueue`, `enqueue_ext`, `reenqueue`, `reenqueue_ext`, `cancel`, `exec`, `sync`, `apply_frequency` | every component, from its own or from another clock domain |
| Trace engine (`engine/src/trace/trace.cpp`) | event buffers, free and ready lists, pending pulse list, values of the traces | `dump_event*`, `flush`, `stop`, `vcd_routine` | engine thread and the dumper thread |
| Waveform back-ends (`engine/src/trace/{vcd,fst,lxt2,raw}.cpp`) | files | `open`, `dump`, `close` | dumper thread |
| Proxy (`engine/src/proxy.cpp`) | clients and their sockets | `run`, `step`, `stop`, `quit`, `component`, `trace`, `event` | one thread per proxy socket |
| Launcher (`engine/src/launcher.cpp`) | the platform handle | `open`, `start`, `run`, `step`, `stop`, `join` | the embedding program |
| Component tree (`engine/src/vp.cpp`, `block.cpp`) | children, ports, services, reset state | build, bind, start, reset, stop | once, in this order |
| Queue, signal, register (`engine/src/{queue,signal,register}.cpp`) | linked list; values | push, pop, cancel; reset | components |
| Power (`engine/src/power/`) | floating-point accumulators | account, report | components |
| Port interfaces (`engine/include/vp/itf/`) | bindings, cross-domain stubs | `req`, `grant`, `resp`, `sync` | components |

### The component models

| Part | State | Operations | Who calls it |
|---|---|---|---|
| Router (`models/interco/router_impl.cpp`) | list and tree of mappings | `req`, `grant`, `response` | masters; targets |
| Interleaver (`interleaver_impl.cpp`) | none | `req` | router, masters |
| Converter (`converter_impl.cpp`) | `pending_req`, `ongoing_req`, stalled queue, one event | `req`, event, `grant`, `response` | masters; slave; clock engine |
| Memory (`models/memory/memory_impl.cpp`) | array, `powered_up` | `req`, power control | interconnect |
| Cache (`models/cache/cache_impl.cpp`) | lines, pending refill, queue behind it, one event | `req`, `refill_response`, flushes, enable | masters; memory; clock engine |
| Core (`models/cpu/iss/`) | `halted`, `stalled`, `wfi`, `is_active`, step and debug modes, prefetcher, three events | instruction events, fetch and data answers, interrupts, halt, fetch enable, reset, debugger calls | clock engine; memory; interrupt controller; GDB server |
| GDB server (`models/gdbserver/`) | input and output buffers, decoder, `pending_access` | `proxy_loop`, `decode`, `io_access`, `handle`, `signal` | a thread of its own; the engine thread |

The others are bus watchpoint and memory plug, devices (`models/devices/`: UART,
I2C, flashes, camera, sound, BLE, JTAG, testbench), wrappers for RTL co-simulation
and utilities (`models/utils/`). They talk through ports; a memory request is
answered OK, INVALID, DENIED (a `grant` follows) or PENDING (a `resp` follows), and
the callbacks may come in the middle of another call.

### How the parts interact

The engine thread pops the first client of the list and calls its `exec()`. A
clock domain runs the events of one cycle and returns the delay to its next one;
in these events components enqueue further events, in their own or in other
domains, which changes the client list under the loop. Other threads stop
the engine with `lock()`, post events and `unlock()` it. Every change of a traced
value goes through the trace engine to the dumper thread.

### What is hard

* The client list is modified while it is executed, by the client being executed.
* A clock domain that is idle does not count its cycles; whoever calls it from
  outside must resynchronise it, and dates are cached in two places.
* `run_req` is read without the mutex; all waits share one condition variable.
* `lock`/`unlock` save and restore a request that others may change meanwhile.
* Event buffers are reused, partly filled, between two threads.
* Callbacks of the memory protocol re-enter the component that makes them.
* Requests are cut in parts by changing the request itself.
* A core sleeps and wakes for many reasons, and cancels an event it knows by a
  pointer that others change.
* The GDB server sees a stream cut anywhere, and two threads send its replies.

The hazards are listed one by one, with the line where they bite and the
properties aimed at them, in `PROJECT.json`.

### What makes each part correct

Client list: sorted, consistent with its flags, nothing in the past, no event
jumped over. Scheduler: every event runs exactly at its date. Clock
engine: an event runs at its cycle, whichever queue it went through, and is never
forgotten. Thread control: nothing is simulated between `lock` and `unlock`, every
wait ends, a stop is a stop. Trace engine: the waveform is the merge, by
timestamp, of the events, and is complete at the end. Interconnect: each
request is answered once, with the bytes of its address. Cache: a line is in one
way, holds the data of its tag and is as recent as the last flush. Core: it has
the event of its next instruction exactly when it is active, no wake-up is lost, and
a halt or a step is one. GDB server: what is decoded is what was sent, queries, writes
and interrupts are answered, but for the cases of section 4, and a core that GDB takes for stopped is halted.

## 2. Modules

| Module | Models | Notes |
|---|---|---|
| `TimeEngine` | the client list and the run loop | what a client does is left open: any enqueue or dequeue during `exec()`, any delay returned, `run_req` changing at any moment |
| `AbstractScheduler` | what engine and schedulers promise | a set of dates and a clock |
| `TimeScheduler` | `vp::time_scheduler`, on top of `TimeEngine` | its `ImplementsAgenda` is the refinement of `AbstractScheduler` |
| `TimeScheduler_proofs` | | theorems about `TimeEngine`, and on top of them about `TimeScheduler` |
| `ClockEngine` | one clock domain and its time engine | the fields of the object are one record; functions of the code are functions of records |
| `ClockEngine_proofs` | | theorems about its queues, under any calls (`Spec`), and about its dates, with a constant clock (`SharedSpec`) |
| `EngineControl` | the engine thread and the threads that call it | a section under the mutex is one step; a thread in `pthread_cond_wait` is in `sleeping` until a broadcast |
| `EngineControl_proofs` | | theorems about `EngineControl` |
| `TraceEngine` | event buffers, pulses, dumper thread | buffers are arrays that keep old contents |
| `TraceEngine_proofs` | | theorems about its buffers and about the waveform |
| `Cache` | lookup, refill and the queue behind a refill | a line is the name of the memory line it was read from and the version of the memory; reads only, no latencies |
| `Cache_proofs` | | theorems about `Cache` |
| `RoutingTable` | the mapping list and tree of a router | operators only |
| `Interconnect` | masters, router, memory, interleaver, converter and its slave, composed | extends `RoutingTable`; the data of a request are the cells its bytes are copied with |
| `Interconnect_proofs` | | theorems about `RoutingTable` and `Interconnect` |
| `Core` | the control of a core | instructions are kinds of effects on that control |
| `Core_proofs` | | theorems about `Core` |
| `GdbServer` | GDB, the thread of the server and the engine thread | characters are model strings, the checksum is modulo 4 |
| `GdbServer_proofs` | | theorems about `GdbServer` |

`MC*` modules give the constants their values. Operators with a suffix
(`enqueue_NoDequeue`, `FlushBuffer_Kept`) are mutants: plausible mistakes in the
operator they stand before. Each property of a passing run is violated when
one of them replaces the original, so no property holds for lack of content.

### Correspondence with the code

*TimeEngine.* `clients` is the list from `first_client`. `Enqueue` and `Dequeue`
are the public calls with their early returns. The loop of `run_loop` is cut where
`exec()` runs: `StartLoop` enters it, and `ExecReturn(d)` is all the code between
the return of one `exec()` with value `d` and the next call, with the four paths of
the code: the same client goes on (`ContinueSame`), the same but a stop was
requested (`StopSame`), back to the list (`Requeue`), nothing to do (`Retire`).

*TimeScheduler.* `RunEvent`, `MethodReturns` and `ExecDone` are the loop of
`exec()`, cut where an event's method runs so that it can post events.

*ClockEngine.* `StartExec`, `RunEvent`, `MethodReturns`, `FinishExec` are `exec()`
cut at the methods of the events. `TimePasses` stands for all other clients of
the time engine; it does not jump over the date of this domain, which
`TimeEngine` shows. The history variable `due` holds the time an event was
asked for, `local` whether only the domain itself has used the engine, `counted` how
the cycles since the last stop are in the count (`once`, `stale` or `twice`, see `Recount`).

*EngineControl.* `epc` is the program counter of the engine thread: `outer` is the
wait for a run request, `loop` the execution, `retained` the wait of an
engine without events that something retains. Each other thread executes calls,
each a sequence of sections (`Program`): `step` is lock, post, unlock, run. Memory
left uninitialised by the constructor (`running`, `locked_run_req`) starts with
any value. `held` is set when the mutex is never released any more: `join()`
returns with it when the simulation is finished, and a thread cancelled in a wait
dies with it.

*TraceEngine.* A call of the engine thread puts its events in `todo` and writes
them one by one, since each may wait for a buffer. `log` records the events
written, `output` what the back-end gets. The values are the numbers of the calls.

*Cache.* `req` and `req_forward` are the two branches of `Cache::req`; `handle_req`
and `refill` are one operator for each outcome. `refill_response` and
`fsm_handler` are cut where they call the master's response callback: while
`replying` holds the master may send its next request, and `ReplyReturns` is the
`check_state()` after it. `saved` is what `io_req::save()` pushes. `late` follows a refill that the memory denied,
which `refill()` does not tell from an invalid one, up to its answer (`LateResponse`). The pseudo-random
way of `stepLru()` is any way. `MemoryWrites` lets the memory fill the
line at any moment between the request and the response. `version` counts the
changes of the memory, and the history `flushed` the version at the last flush.

*Interconnect.* `RoutingTable` builds the table as `MapEntry::insert` and
`init_entries` do and looks an address up as `router::req` does; `Owner`, in the
same module, is the reference: the mapping whose range holds the address. A
request runs through the synchronous calls in one step (`Send`), as a record of
everything the calls change; what the slave of the converter answers is chosen when
it is called. `event_handler`, `SlaveGrants` and `SlaveResponds` are the later
callbacks; `held` and `refused` are the requests the slave owes an answer to and
those of them it has denied. Every mapped interface is taken to be bound.

*Core.* All fields of the wrapper are one record, and each handler is a function of
it that ends with `check_state`, as in the code. `current_event` and the set of
enqueued events are separate, since the code cancels the one and not the other.
Ghost fields: `twice` (an enqueued event was enqueued), `early` (an instruction ran
that was not fetched or whose fetch was pending), `lost` (a stall that nobody ends: the code forgets it). A
configuration says how the memory answers, which debugger is there, the build and
the kinds of instructions. The event unit is taken to drop the answer of an
interrupted `elw`; reset and fetch enable come when no answer is pending.

*GdbServer.* `buffer` is the circular buffer with its indices; the cases of
`decoder` are actions, its loops over characters recursive functions. GDB is external: it sends one packet at a time, again
when no acknowledgement comes, and Ctrl-C while it waits for a stop. A section under
`lock()` needs the engine thread outside of its callbacks, which is what
`LockExcludesEngine` of `EngineControl` shows for one locking thread. The other
actors do not move while the decoder works on what only its thread has, which
loses no behaviour: those steps commute. GDB sends `c` again before it interrupts, since
its acknowledgement does not come: in the run a Ctrl-C without a packet sent twice is one
after `s`, and `StoppedIsHaltedCorrect` covers the other case (`MaxResends = 0`).

## 3. Runs

| Run | Question | Bounds |
|---|---|---|
| `time_engine` | Does the client list survive every sequence of calls? | 3 interchangeable clients, times to 5, delays to 3: a list with ties, moves in both directions and requeueing behind, between and before others |
| `time_scheduler` | Do engine and schedulers keep one agenda? | 2 schedulers, 3 events, times to 6 |
| `clock_engine` | Do the queues stay consistent under any call in any state, cancel, frequency changes and gating included? | 2 events, 3 slots, periods 0, 1, 2, delays and times to 3 |
| `clock_engine_shared` | With a constant clock, does every event run, and on time? | 2 interchangeable events, 3 slots, delays to 4, times to 10: within the window, exactly at its end and beyond, over several turns of the buffer; any event is posted, moved or cancelled at any time, by the domain or by another |
| `engine_control` | Does the lock exclude the engine and does every wait end? | a main thread with run, join, pause, wait_running, stop_engine; a user thread with access, step, stop, quit; models that stop the engine; retained or not. No bound on the number of calls |
| `engine_control_two_lockers` | The same with two threads that lock (violated) | two threads |
| `trace_engine` | Is the waveform right and complete, and does nobody wait for ever? | 2 traces of sizes 2 and 3, 2 buffers of 5 (so that an event may end exactly at the end, one short of it, or not fit), 3 calls, pulses to 2 |
| `cache` | Do overlapping misses, flushes and callbacks keep lines and queue right? | 3 request objects, 4 requests, 2 control calls, a memory that changes once, 2 lines for one set of 2 ways: a miss, two requests behind it, one more from a callback, with a flush or a disable anywhere. The way of a refill is any way, so two lines evict each other |
| `interconnect` | Is each access answered once, in full, in turn? | 3 masters, 3 accesses out of 5, 4 tables: other orders of insertion, a default entry, an error entry, mappings beyond the memory; accesses over two mappings, over odd lines of the interleaver, in one and in three chunks, and to a hole |
| `core` | Does a core always have the event it needs, and no other? | 6 configurations (memory, debugger, build, instructions). No bound on the number of steps |
| `core_fast` | Is no event enqueued twice in the build without traces, under GDB? (violated) | one configuration |
| `gdbserver` | Is the stream decoded, are packets answered, is a stop a stop? | 2 packets out of 6, of 5 kinds, one Ctrl-C, one packet sent again, a buffer of 5 characters for packets of 5 to 7, so that its end falls everywhere |

A `CLOCK_EVENT_QUEUE_SIZE` of 3 has delays inside, at and beyond the window,
the wrap of the index and a slot between the current one and the last; the code uses
32. (With 2 slots `clock_engine_shared` misses the double count of section 4,
which the attempt at a proof found.) The theorems of section 5 hold for
any number of slots and of events. Two events suffice for every pair of positions in
the two queues. `MaxTime`, `MaxDelay`, `MaxCycle`, `MaxCalls`, `MaxPulse`,
`MaxRequests`, `MaxControls`, `MaxVersions`, `MaxAccesses`, `MaxPackets`,
`MaxInterrupts` and `MaxResends` only bound the exploration: they are guards of the actions that would pass them.

Deadlock checking is off where a system may stop: time reached its bound in the
clock models; the mutex was left held by `join()` in `engine_control`; `stop()`
was called in `trace_engine`; the masters made all their calls in `cache` and
`interconnect`; GDB sent all its packets, or the server left, in `gdbserver`.

The run `clock_engine` uses a `VIEW` without the three history variables, which no
step reads and none of its invariants mentions.

### Fairness

`EngineControl`: weak fairness of the engine thread, of each calling thread
inside a call, and of the timer of `join()`. The operating system runs every thread
that can run, and a model's `exec()` returns. Nothing makes a thread start a call,
and nothing makes a model stop the engine or a cancelled thread die. A thread that
waits for the mutex is assumed to get it when it is continuously available.
`TraceEngine`: weak fairness of the dumper and of the engine thread inside a call.
`Cache`: an enqueued event is
executed, a response callback returns and the memory answers the refill; no fairness
of the masters.
`Interconnect`: the event of the converter is executed and its slave grants and answers
what it said it would. `Core`: an enqueued event of the core is executed and the memory
answers pending accesses; nothing makes interrupts, debugger or reset come.
`GdbServer`: both threads run; strong fairness of the callback that takes the lock,
since the engine thread is outside of its callbacks again and again and `lock()`
stops it there (`LockReturns` of `EngineControl`). GDB is not fair. The other modules check safety only.

## 4. Findings

Two runs show a violation, each with a line of the code that says otherwise; the
text is in `PROJECT.json`.

* `engine_control_two_lockers`: the first `unlock()` restarts the engine while a
  second thread is still between `lock()` and `unlock()`.
* `core_fast`: in the build without traces, a stop cancels `check_all_event` while
  `instr_event` is the one enqueued; the halted core runs on, and the next continue
  enqueues an event that is enqueued.

Further observations made while modelling, without a run:

* `reenqueue()` (`clock_engine.hpp:181`) on an idle domain records a cycle from
  before the resynchronisation; `exec()` then returns a negative delay and the domain is
  dropped with the event enqueued. `SharedSpec` has other domains use `reenqueue_ext`.
* `cancel()` or `reenqueue_ext()`, from another domain or thread, of the last event of
  the buffer of a busy domain empties the buffer, so that the next `enqueue()` from
  outside takes the domain for idle and calls `sync()` (`clock_engine.hpp:62`).
  `update()` then counts the cycles since `stop_time`, which is only set when the domain
  goes idle (`vp.cpp:699`), so that cycles already in the count are counted again. The
  events of the delayed queue fall behind the count, run late, and where
  `reenqueue_ext()` recorded the cycle of before, `exec()` returns a negative delay and
  the domain is dropped with events. The comment of `cycles` has it "always usable,
  whatever the state of the engine" (`clock_engine.hpp:154`). The history variable
  `counted` of the model is "twice" from there until the domain has no event left;
  `NoCycleMissed`, `NeverForgotten` and `NeverLate` name it as their exception, and each
  is violated without it. A cancel alone is harmless: `exec()` runs again before anything
  is counted ("stale"), and what runs then is early rather than late.
* A stop request to an engine that is retained without events is never notified
  (`time_engine.cpp:602`; the exception of `StopIsNotifiedUnlessRetained`), so that
  `wait_stop()` of the Python client blocks for ever.
* `unlock()` puts back the run request it saved over a stop request made meanwhile
  (`time_engine.hpp:270`); `join()` then kills the engine after its delay.
* `cancel()` (`vp.cpp:561-618`) of the first delayed event does not move the date
  of the domain. `exec()` is called at the old date and `flush_delayed_queue`
  sets the cycle count to that of the next event, which runs early. `RunsExactlyOnTime`
  is therefore about a domain whose events are only cancelled while it runs.
* `apply_frequency` (`vp.cpp:431-464`) does not bring the cycle count of an idle
  domain up to date before it changes the period; ungating a domain whose next
  event is behind its count asks for a negative delay, and the cycle count can
  go back.
* Rounding up in `update()` lets an event posted by another domain run up to
  one period early. `NeverLate` bounds the other direction.
* `join()` returns with the mutex held, and with -1, when the simulation finished
  by itself (`time_engine.cpp:232-233`). Its comment speaks of 100 ms where the code
  waits one second (`time_engine.cpp:235-247`).
* `step()` of the launcher always returns 0, and `stop()` does not wait for the
  engine to be stopped (`launcher.cpp:81-85`).
* `trace_engine::flush()` writes its end mark without a test of the room left
  (`trace.cpp:235`). It is only reached from `stop()`, since the stop of an execution
  flushes the subtree of the time engine and not the trace domain above it.
* `trace_engine::stop()` also writes the ends of pulses that are in the future.
* The cache: a hit on the old tag of a line that a refill is writing to reads the
  wrong data (`cache_impl.cpp:344`, the exception of `LinesHoldTheirTag`); a resumed
  request whose refill fails is never answered (183, `Lost`, the exception of
  `QueueDrains`); `refill_response` takes
  `is_write` from the refill and not from the request (144); data are copied from the
  start of the line whatever the offset of the request (161, 508); a flush during a
  refill is undone for its line by the response (158, the exception of
  `LinesHoldTheirTag`); a refill that is DENIED is reported invalid (357), and its later
  answer writes to the line all the same and takes another request from the queue, or
  none, which follows a null pointer (`LateResponse`); a master that always sends from
  its response callback starves the queue (197).
* The router: a part that fails is hidden by a later one that does not (280-292, the
  exception of `AnsweredInFull`); the resp port is overwritten by the next part when an
  earlier one is asynchronous (183, excluded by `InterconnectAssumption`); a default
  entry takes the whole rest of an access; the size of a mapping is converted to `int`
  (262), so that a mapping of 4 GB gives parts of size 0 and the loop does not end
  (`WellFormed` bounds sizes by `MaxInt`); a mapping whose interface is not bound
  answers INVALID (286-290, not modelled).
* The router proxy: the grant of a request pops the argument that its response pops
  again (93); a reply from inside `access()` calls `lock()` in the engine thread (118).
* The converter: a failed chunk blocks it for good (118, the exception of
  `WaitingAnswered`); a master that sends from its callback is overwritten by the
  stalled request (110); an INVALID forwarded is reported PENDING (209), and so is a
  DENIED one, whose grant reaches a master that was not denied (209-214, the exception
  of `IoProtocol`); reset leaves
  the event enqueued without a request (249).
* The core: a halt and resume in a misaligned access leaves a runnable core asleep; a
  misaligned access during an asynchronous fetch enqueues the next instruction too
  early; an instruction on two lines with a memory that never answers at once is
  fetched for ever; an INVALID data access and the stall of `fence.i` never end;
  `gdbserver_cont` does not leave step mode; a `wfi` in debug mode sleeps; the first
  instruction of the debug handler is executed without a fetch (`irq.hpp:34`,
  `exec.hpp:147-149`, the exception of `FetchedBeforeExecuted`).
* The GDB server: the two characters of a checksum at both ends of the buffer hang the
  decoder (`rsp-packet-codec.cpp:264-288`, `ChecksumSplit`); it stops after a packet
  and leaves a Ctrl-C behind (288); the acknowledgements of `c` and `X` are sent only with
  the next reply, so that GDB sends them again; an INVALID write leaves `pending_access`
  set and later writes get no reply (`gdbserver.cpp:142`); a Ctrl-C on a halted core
  makes a second stop reply; a packet that the server does not know, such as `m`, and an
  `X` that it cannot parse get no reply at all (`rsp.cpp:611-616`, 268-283,
  `Unanswerable`); both threads use the output buffer without a lock
  (`rsp.cpp:126-139`). The properties name each of these as an exception. Not modelled: a
  memory that answers a write later, which ends the simulation (`gdbserver.cpp:146-149`).

## 5. Proofs

The theorems hold for every value of the constants that the named assumptions allow.
Each invariant was first checked by TLC, with its strengthening, on the run of its
module.

| Module | Proved | Assumptions |
|---|---|---|
| `TimeScheduler_proofs` | of `TimeEngine`: `TypeOK`, `QueueConsistent`, `CurrentAlone`, `Sorted`, `NoEventInPast`, `TimeAdvances` | `None` is not a client, the bounds are natural numbers |
| | `SSpec => Spec` of the engine, `NothingMissed`, the refinement `ImplementsAgenda` | each event belongs to one scheduler |
| `ClockEngine_proofs` | `TypeOK`, `QueuesConsistent`, `SlotHoldsItsCycle`, `NeverExecutedEmpty`, of `Spec` (any call at any time) | finitely many events, at least one slot |
| | `NeverForgotten`, `NoCycleMissed`, `NeverLate`, `RunsExactlyOnTime`, of `SharedSpec` | the same, and `FirstPeriod # 0`: the clock is not gated |
| `EngineControl_proofs` | `TypeOK`; `LockExcludesEngine` under `OnlyLocker(L)` | at most one thread `L` makes calls that lock. The threads of `engine_control` satisfy it; `engine_control_two_lockers` shows that it is needed |
| `TraceEngine_proofs` | `BuffersAccounted`, `WaveformCorrect` | finitely many buffers, at least one; sizes and bounds are natural numbers; an event is larger than a pointer, since it starts with one, and fits in a buffer; the NULL pointer is not an event |
| `Interconnect_proofs` | `LookupIsOwner`; `RoutingIsMap`, `AnsweredInFull`, `IoProtocol` | mappings do not overlap and their sizes fit an `int`; accesses are not empty; an access that starts outside the mappings stays there and one to the converter is not split, the two cases the router does not handle (section 4); widths are not 0 |
| `Cache_proofs` | `TagsUnique`, `LinesHoldTheirTag`, `HeadIsRequester` | at least one way, `None` is neither a line of the memory nor a refill |
| `Core_proofs` | `OneInstructionEvent`, `NotEnqueuedTwice`, `RunnableIsActive`, `StallsAccounted`, `FetchedBeforeExecuted`, `StepIsOne`, of configurations that are `Regular` | see below |
| `GdbServer_proofs` | `DecodedIsSent`, `StoppedIsHalted` | packets are not empty and begin with one of the five commands; the buffer holds at least two characters; the bounds are natural numbers |

*Client list.* The invariants are not inductive one by one: an insertion keeps the list
sorted only if it was, without duplicates, and if the flags tell the truth about who is
in it, since `enqueue` decides by the flag whether to unlink first; time does not pass an
event because the loop only compares with the first client. `Inv` is therefore `TypeOK`
with their conjunction. `ListOK(s, net, enq, lo)` says it of any list, times, flags and
current time, so that it can be used for the intermediate lists of one step (unlink, then
insert, then pop); `InsertOK`, `UnlinkOK` and `PopOK` show that each list operation keeps
it, `NextInv` has one case for each action. `StepAdvances` derives the action property: a
step moves time to the date of the first client, or to the date the shortcut compared
with it.

*Time scheduler.* `SInv` adds to the invariant of the engine that each list of events is
sorted, owned by its scheduler and not in the past, and that a scheduler is planned
exactly when it waits with events, at the date of the first (`Planned`). The engine
part comes for free from the theorems about `TimeEngine`, since every step of a scheduler is shown
to be a step of the engine (`SchedulerIsClient`): the scheduler asks for no date before
the current one. The refinement follows step by step: time only moves to the first
date of all clients, which by `Planned` is the first date of all events.

*Clock engine, queues.* The functions of the code compute new records, and each has a
lemma that says what it returns (`EnqueueShape`, `CancelShape`, ...) and one that it keeps
`Good`: an event that is flagged is in one place, once; the slots around the circle
hold the cycles from the current one on, whatever `current_cycle` is; the counter is the
cardinality of the set of buffered events; the engine is planned only with events. The loops of
the code are recursive functions of the model (`flush_delayed_queue`, the insertion in
the delayed queue); what they compute is proved by induction stated on sets of
numbers (`Least`, `SetInduction`), and that the recursion defines a function at all by
`Iteration`. `Circle` is the arithmetic of the wrapping index.

*Clock engine, dates.* `TimingInv` relates the cycle count to time. `RunsAt` is the date
of the cycle of an event, counted from the edge the count stands for: now while
the engine runs, the planned date while the buffer is not empty, `stop_time` while
it is. With it `Ahead` and `NotLate` are `NoCycleMissed` and `NeverLate` in an inductive
form. They need to know that the delayed queue is sorted, that no event of it comes due
before the buffer was walked once (`Delayed`), that a busy engine is
planned at most one period ahead (`Busy`) and an idle one no later than any event
(`Idle`). When a cancel from outside has emptied the buffer, the edge is the planned date
and not `stop_time` (`Stale`); the start of `exec()` leads from there back to `Timed`,
with the delayed queue not yet due or jumped to, and so does a cancel that leaves no event.
`Clocked` holds in every case, also after a double count. While no other domain has called, `RunsAt` is the date asked for, exactly
(`OnTime`), and the date planned is that of the first event (`HeadPlan`).

*Thread control.* `LockInv` says that nobody's request is set while the engine is locked
(`LockedIsStopped`), that the loop runs only with `running` set, which is what
`lock()` waits on, and that the locking thread owns `locked` from its first test
on (`LockerState`). With a second locker the last fails: the first `unlock()` clears the flag of both.

*Trace engine.* `Inv` says for each buffer in which of four places it is, and that no
list has one twice; `BuffersAccounted` counts the positions. For the waveform, `WaveInv` cuts the
log of all dumped events into what the dumper has consumed, the rest of the buffer it unpacks,
the ready buffers, the current buffer and what the call under way still has to write
(`Chain`). `Packed` says where in a buffer the events of its section start: each where the
previous one ends; in a buffer that was handed over, `Whole` adds that behind the last one
there is a NULL pointer or no room for a pointer, which is how the dumper finds the end although
buffers keep what they held before. The log is in the order of time (`Ordered`) because the
pending list is sorted and nothing in the log is later than the end of a pending pulse.
Therefore, when the dumper sees a new timestamp, no event of the previous one follows: `Shown`
says that the back-end has the last change of each trace at each earlier timestamp,
in order and once, `Changing` that `to_dump` and `value` have those of the present one.
`Finished` is the same after the last flush.

*Interconnect.* The tree of the router has levels: `LevelOK` and `Stands` say that a node of level
`n` stands for a run of consecutive mappings and that `n` steps down from it lead to the
one of the run nearest below the address. Both the levels and the walk are recursive
functions over numbers, and by `SetInduction` the top stands for all mappings; since these
are sorted by base (`insert`) and do not overlap, the one nearest below is the owner
(`LookupIsOwner`). The loops of router, interleaver and converter all cut a request into
parts, and `Split` is shown to return parts that tile it. What a loop copies is `Filled`, the bytes of
a segment of the request with their cells, and nothing else. `Inv` follows a request after the call that sent
it has returned: it is held by the slave, in the queue of stalled requests, or the ongoing one,
in at most one of these (`HeldInv`, `StallInv`, `OngoingInv`). The chunks of the ongoing request are
pushed so that the last bytes go first: those on the stack are its first `Left(q)` bytes,
`ongoing_size` says how many, and the rest is copied unless a chunk failed. A master that waits has its own port
on the stack of arguments, so that a grant and a response find it.
`IoProtocol` follows from the same case split over the actions (`NextKeeps`).

*Cache.* `TagsUnique` rests on the line of the pending refill being in no way
(`RefillOK`), which holds because a second miss waits behind it (`HeadIsRequester`,
`QueueOK`); `LinesHoldTheirTag` on what the memory wrote being newer than any flush
of the line. Both are claimed until the memory denies a refill or answers it late
(`Sound`), which `HeadIsRequester` and the queue do not depend on.

*Core.* The theorems are about any set of configurations and any set of instruction
kinds, in the states of a configuration that is `Regular`: the build that checks
everything (the other one is the subject of `core_fast`), and misaligned accesses only with a
memory that answers at once and without GDB or the debug unit. For
each kind of configuration that this leaves out, TLC finds a violation of some of the six
properties (for misaligned accesses, the observations in section 4). Five of the six configurations of the run
`core` are regular. `Ready` is what every handler has established when it calls
`check_state`: exactly one event and a fetched instruction when active, every stall with
its reason (`Accounted`), and what each debugger can have set (`Modes`). `Settled` adds what `check_state`
leaves: a core that can run is active (`Awake`), an active one neither sleeps nor must
halt (`Active`). `CheckState` proves that it turns the first into the second;
`EffectOK`, `FinishOK` and `IrqCheckOK` follow one instruction through its effect, the
fetch of the next one and the interrupts before it; then each handler has a lemma
that it leaves the core `Settled`. A step is one instruction because after it the core is
halted and inactive (`StepHeld`), and only a command of GDB or a reset undoes that.

*GDB server.* Escaping, unescaping and the scan for the end of a packet are recursive functions
over a string, and what they compute is proved as for the clock engine. `EscapeUndone` shows that
`deescape` undoes the escaping and that the scan finds no end inside an escaped body, wherever that is cut.
`CommitWrite` and `CommitRead` show that the characters not read yet (`Unread`) grow at the end and
shrink at the front across the wrap of the circular buffer. `Stream` says that all characters ever sent are
framed packets, Ctrl-C and acknowledgements in order; `Follows` that
the decoder has read a prefix of them and stands between two of them or inside one, with that
part of the escaped body which it has read (`Reads`); a packet sent again is one more of them. For `StoppedIsHalted`, `StopInv` says that, as long as nothing was
sent twice and no Ctrl-C found the core halted (`Quiet`), GDB waits for a stop whenever the
core runs, a command to resume is on its way (`Resumes`) or a stop reply is in the output
(`StopSent`); a command to resume finds the core halted, and there is at most one. The proof does not
need the exception for two threads that send at once; the property makes it because in the code what is sent
then is undefined, and the model only records that it happened (`overlap`).

Only model-checked: the liveness properties (`PacketAnswered` and `InterruptAnswered` of the GDB
server and those of the other modules) and `ENABLED`, which this prover does not handle.

## 6. Not modelled

Formatting, files and sockets; instruction semantics; floating-point power;
timing (latencies, bandwidth, counters); SystemC, gem5 and RTL bridges, whose other half is not in the repository; vendored
code (`engine/src/trace/fst`, `lxt2_write.c`, the BFD headers). `lock_step` and
`lock_step_cancel` have no callers. In the interconnect: the router proxy, whose user
is outside of the repository, `entry->port` of the router, `remove_offset` and failing
banks of the interleaver, the `check` option of the memory, reset of the converter.
In the core: misaligned parts answered other than OK, clock retain and release. In the
GDB server: registers, thread selection, and `breakpoints.cpp` and `target.cpp`, which
are not built. The I2C, UART and flash devices are sequential machines of one
event at a time. The components table of `PROJECT.json` gives
the reason for each part.

## 7. Plan

1. Done: `TimeEngine` with proofs, `AbstractScheduler` and `TimeScheduler`,
   `ClockEngine`, `EngineControl`, `TraceEngine`, `Cache`, `RoutingTable` and
   `Interconnect`, `Core`, `GdbServer`.
2. Done: the theorems of section 5.
3. A composition of several `ClockEngine` domains under `TimeEngine`, to replace the
   abstract environment of `ClockEngine`; the reset tree of the components.
