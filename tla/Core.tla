-------------------------------- MODULE Core --------------------------------
(***************************************************************************)
(* The control of a core of the instruction set simulator                  *)
(* (models/cpu/iss/vp/src/iss_wrapper.cpp): which event executes the next  *)
(* instruction, and when the core sleeps, stalls on a fetch or on a data   *)
(* access, takes an interrupt, is halted, stepped or reset.  Instructions  *)
(* are kinds of effects on that control.                                   *)
(*                                                                         *)
(* The memory answers fetches at once ("sync") or, for a line that it      *)
(* meets for the first time, later ("cache").  line is what the prefetcher *)
(* holds relative to the next instruction, whose opcode may straddle two   *)
(* lines.  Interrupts are one request that is raised or lowered.  Time is  *)
(* left out: an event that is enqueued may fire at any moment.             *)
(***************************************************************************)
EXTENDS Integers, FiniteSets

CONSTANT Configs   \* records, see CoreAssumption

ASSUME CoreAssumption ==
  \A f \in Configs : /\ f.memory \in {"sync", "cache"}
                     /\ f.fast \in BOOLEAN         \* the build without VP_TRACE_ACTIVE
                     /\ f.controlled \in BOOLEAN   \* fetch enable and reset change while it runs
                     /\ f.fetch_enable \in BOOLEAN \* from the start
                     /\ f.debugger \in {"none", "gdb", "dbg_unit", "riscv_dbg"}
                     /\ f.insns \subseteq {"plain", "load", "elw", "invalid", "misaligned", "fence_i", "wfi",
                                           "irq_on", "irq_off", "sbreak", "dcsr", "dret"}

VARIABLES
  config,
  core,      \* the fields of iss_wrapper, cpu.state and cpu.irq
  ran        \* instructions executed since the debugger resumed the core, at most 2

vars == <<config, core, ran>>

-----------------------------------------------------------------------------
(* The prefetcher.  A fill that is not answered at once stalls the core;   *)
(* resume is what fetch_response goes on with.                             *)

fill(c, line, resume) ==
  LET d == [c EXCEPT !.insn.line = line]
  IN  IF config.memory = "sync" \/ line \in c.insn.cached THEN d
      ELSE [d EXCEPT !.insn.cached = @ \cup {line}, !.stalled = @ + 1,
                     !.pending = @ \cup {"fetch"}, !.resume = resume]

Asleep(c, d) == d.stalled > c.stalled

\* The first line is there: the opcode may need a second one.
after_fill_0(c, resume) == IF c.insn.straddles THEN fill(c, "second", resume) ELSE c

prefetcher_fetch(c) ==
  LET d == [c EXCEPT !.insn.fetched = TRUE]
      resume(r) == IF c.insn.fetched THEN "nothing" ELSE r
      first == IF c.insn.line = "first" THEN d ELSE fill(d, "first", resume("resume_0"))
  IN  IF Asleep(d, first) THEN first ELSE after_fill_0(first, resume("resume_1"))

Elsewhere == [straddles |-> FALSE, fetched |-> FALSE, line |-> "none", cached |-> {}]

\* An instruction that the core gets to: in the line of the prefetcher or not, on one line or on
\* two, decoded before or not, and new to the cache or not.
NextInsns ==
  IF config.memory = "sync" THEN {Elsewhere}
  ELSE {Elsewhere, [Elsewhere EXCEPT !.line = "first"],
        [Elsewhere EXCEPT !.straddles = TRUE], [Elsewhere EXCEPT !.straddles = TRUE, !.fetched = TRUE],
        [Elsewhere EXCEPT !.straddles = TRUE, !.line = "first", !.cached = {"first"}],
        [Elsewhere EXCEPT !.straddles = TRUE, !.cached = {"first", "second"}]}

\* iss_pc_set: the core has to come back through check_state to fetch from there.
prefetcher_refetch(c, insn) ==
  [c EXCEPT !.insn = insn, !.do_fetch = TRUE, !.is_active = FALSE,
            !.enqueued = @ \ {c.current_event}]

-----------------------------------------------------------------------------
(* check_state, called at the end of every handler.                        *)

enqueue_next_instr(c) ==
  IF c.is_active
  THEN [c EXCEPT !.enqueued = @ \cup {c.current_event},
                 !.twice = @ \/ c.current_event \in c.enqueued]
  ELSE c

Runnable(c) ==
  ~c.halted /\ c.fetch_enable /\ c.stalled = 0 /\ (~c.wfi \/ c.irq_req \/ c.debug_mode)

\* Mutant: the instruction is executed before its fetch is answered.
Wake_Early(c) ==
  LET d == IF c.do_fetch THEN prefetcher_fetch(c) ELSE c
  IN  enqueue_next_instr([d EXCEPT !.wfi = FALSE, !.is_active = TRUE,
                                   !.do_step = @ \/ (c.step_mode /\ ~c.debug_mode)])

Wake(c) ==
  LET d == IF c.do_fetch THEN prefetcher_fetch(c) ELSE c
  IN  IF d.stalled # 0 THEN d
      ELSE enqueue_next_instr([d EXCEPT !.wfi = FALSE, !.is_active = TRUE,
                                        !.do_step = @ \/ (c.step_mode /\ ~c.debug_mode)])

MustHalt(c) == c.halted /\ ~c.do_step

\* Mutant: the event of the next instruction is left in the queue.
Sleep_NoCancel(c, event) == [c EXCEPT !.is_active = FALSE]

Sleep(c, event) == [c EXCEPT !.is_active = FALSE, !.enqueued = @ \ {event}]

check_state(b) ==
  LET c == [b EXCEPT !.current_event = "check_all"]
  IN  IF ~c.is_active THEN IF Runnable(c) THEN Wake(c) ELSE c
      ELSE IF MustHalt(c) \/ (c.wfi /\ ~c.irq_req) THEN Sleep(c, b.current_event)
      ELSE [c EXCEPT !.wfi = FALSE]

irq_check(c) == [c EXCEPT !.current_event = "check_all"]

debug_req(c) == check_state([irq_check(c) EXCEPT !.req_debug = TRUE, !.wfi = FALSE])

set_halt_mode(c, halted) ==
  IF config.debugger = "riscv_dbg"
  THEN IF c.debug_mode THEN c ELSE debug_req(c)
  ELSE [c EXCEPT !.halted = halted]

-----------------------------------------------------------------------------
(* One instruction of a kind.                                              *)

Stall(c) == [c EXCEPT !.stalled = @ + 1]
StallFor(c, answer) == [Stall(c) EXCEPT !.pending = @ \cup {answer}]

Effect(c, kind) ==
  CASE kind = "plain" -> c
    [] kind = "load" -> StallFor(c, "data")
    [] kind = "elw" -> [StallFor(c, "data") EXCEPT !.elw_insn = TRUE, !.elw_stalled = TRUE]
    [] kind = "invalid" -> [Stall(c) EXCEPT !.lost = TRUE]   \* INVALID is taken for PENDING
    [] kind = "misaligned" -> [Stall(c) EXCEPT !.misaligned_access = TRUE]
    [] kind = "fence_i" -> StallFor(c, "flush")
    [] kind = "wfi" -> check_state([c EXCEPT !.wfi = TRUE])
    [] kind = "irq_on" -> [irq_check(c) EXCEPT !.irq_enable = TRUE]
    [] kind = "irq_off" -> [irq_check(c) EXCEPT !.irq_enable = FALSE]
    [] kind = "sbreak" -> check_state(set_halt_mode(c, TRUE))
    [] kind = "dcsr" -> [c EXCEPT !.step_mode = ~@]
    [] kind = "dret" -> [irq_check(c) EXCEPT !.debug_mode = FALSE, !.irq_enable = c.debug_saved_irq_enable]

\* Writes to dcsr and dret are instructions of the debug handler.
Possible(c, kind) == kind \in config.insns /\ (kind \in {"dcsr", "dret"} => c.debug_mode)

\* iss_exec_step_nofetch: the instruction, then the fetch of the next one.
Step(c, kind, next) == prefetcher_fetch([Effect(c, kind) EXCEPT !.insn = next])

\* EXEC_INSTR_COMMON after the instruction.
Finish(c) ==
  IF c.stalled = 0 THEN enqueue_next_instr(c)
  ELSE IF c.misaligned_access THEN [c EXCEPT !.enqueued = @ \cup {"misaligned"}]
  ELSE [c EXCEPT !.is_active = FALSE]
-----------------------------------------------------------------------------
(* The two handlers that execute an instruction: exec_instr, and           *)
(* exec_instr_check_all which looks at interrupts and at the step mode.    *)

Count(n) == IF n < 2 THEN n + 1 ELSE n

\* The history records an instruction that was not fetched, but for the first one of the debug
\* handler, which iss_irq_check enters without a fetch.
Executes(c, entry, kind, next) ==
  Finish(Step([c EXCEPT !.early = @ \/ "fetch" \in c.pending \/ ~(c.insn.fetched \/ entry)], kind, next))

exec_instr ==
  /\ "instr" \in core.enqueued
  /\ \E kind \in config.insns, next \in NextInsns :
       /\ Possible(core, kind)
       /\ core' = Executes([core EXCEPT !.enqueued = @ \ {"instr"}], FALSE, kind, next)
  /\ ran' = Count(ran)
  /\ UNCHANGED config

TakesDebug(c) == c.req_debug /\ ~c.debug_mode
TakesIrq(c) == ~TakesDebug(c) /\ c.req_irq /\ c.irq_enable

iss_irq_check(c, vector) ==
  IF TakesDebug(c)
  THEN [c EXCEPT !.debug_mode = TRUE, !.debug_saved_irq_enable = c.irq_enable,
                 !.irq_enable = FALSE, !.req_debug = FALSE, !.insn = vector]
  ELSE IF TakesIrq(c)
  THEN prefetcher_fetch([c EXCEPT !.irq_enable = FALSE, !.req_irq = FALSE,
                                  !.elw_insn = FALSE, !.insn = vector])
  ELSE [c EXCEPT !.elw_insn = FALSE]

\* Mutant: the core goes on after a step.
StepDone_Goes(c) == [c EXCEPT !.do_step = FALSE]

StepDone(c) ==
  LET d == [c EXCEPT !.do_step = FALSE]
  IN  check_state(IF config.debugger = "gdb" THEN [d EXCEPT !.halted = TRUE]
                  ELSE set_halt_mode(d, TRUE))

AfterInstr(c, debug_mode) == IF c.step_mode /\ ~debug_mode THEN StepDone(c) ELSE c

exec_instr_check_all ==
  /\ "check_all" \in core.enqueued
  /\ LET c == [core EXCEPT !.enqueued = @ \ {"check_all"},
                           !.current_event = IF config.fast THEN "instr" ELSE @]
     IN  \E d \in {iss_irq_check(c, vector) : vector \in NextInsns} :
           \/ /\ TakesIrq(c) /\ d.stalled # 0
              /\ core' = AfterInstr(Finish(d), core.debug_mode)
              /\ ran' = ran
           \/ /\ ~(TakesIrq(c) /\ d.stalled # 0)
              /\ \E kind \in config.insns, next \in NextInsns :
                   /\ Possible(d, kind)
                   /\ \E e \in {Executes(d, TakesDebug(c), kind, next)} : core' = AfterInstr(e, core.debug_mode)
              /\ ran' = Count(ran)
  /\ UNCHANGED config

\* Mutant: the stall of the first half is not ended.
exec_misaligned_Stalled ==
  /\ "misaligned" \in core.enqueued
  /\ core' = enqueue_next_instr([core EXCEPT !.enqueued = @ \ {"misaligned"},
                                             !.misaligned_access = FALSE])
  /\ UNCHANGED <<config, ran>>

\* The second half of a misaligned access, answered at once.
exec_misaligned ==
  /\ "misaligned" \in core.enqueued
  /\ core' = enqueue_next_instr([core EXCEPT !.enqueued = @ \ {"misaligned"}, !.stalled = @ - 1,
                                             !.misaligned_access = FALSE])
  /\ UNCHANGED <<config, ran>>

-----------------------------------------------------------------------------
(* Answers from the memory.                                                *)

data_response ==
  /\ "data" \in core.pending
  /\ LET c == [core EXCEPT !.pending = @ \ {"data"}, !.stalled = @ - 1]
     IN  core' = check_state(IF c.misaligned_access THEN [c EXCEPT !.misaligned_access = FALSE]
                             ELSE [c EXCEPT !.elw_insn = FALSE])
  /\ UNCHANGED <<config, ran>>

\* Mutant: the core is not woken up by the answer.
fetch_response_NoCheck ==
  /\ "fetch" \in core.pending
  /\ LET c == [core EXCEPT !.pending = @ \ {"fetch"}, !.stalled = @ - 1, !.resume = "nothing"]
     IN  core' = IF core.resume = "resume_0" THEN after_fill_0(c, "resume_1") ELSE c
  /\ UNCHANGED <<config, ran>>

fetch_response ==
  /\ "fetch" \in core.pending
  /\ LET c == [core EXCEPT !.pending = @ \ {"fetch"}, !.stalled = @ - 1, !.resume = "nothing"]
     IN  core' = check_state(IF core.resume = "resume_0" THEN after_fill_0(c, "resume_1") ELSE c)
  /\ UNCHANGED <<config, ran>>

\* The stall of fence.i is not ended by the answer of the cache.
flush_cache_ack_sync ==
  /\ "flush" \in core.pending
  /\ core' = check_state([core EXCEPT !.pending = @ \ {"flush"}, !.lost = TRUE])
  /\ UNCHANGED <<config, ran>>

-----------------------------------------------------------------------------
(* Interrupts.                                                             *)

irq_req_sync(raised) ==
  /\ core' = [core EXCEPT !.irq_req_value = raised, !.enqueued = @ \cup {"irq_sync"}]
  /\ UNCHANGED <<config, ran>>

\* A stalled elw is given up: the event unit does not answer it any more.
iss_irq_req(c) ==
  LET d == [c EXCEPT !.req_irq = c.irq_req]
  IN  IF c.elw_insn /\ c.elw_stalled
      THEN [d EXCEPT !.elw_stalled = FALSE, !.stalled = @ - 1, !.pending = @ \ {"data"}] ELSE d

\* Mutant: the core is not told to look at its state.
irq_req_sync_handler_NoCheck ==
  /\ "irq_sync" \in core.enqueued
  /\ LET c == irq_check([core EXCEPT !.enqueued = @ \ {"irq_sync"}, !.irq_req = core.irq_req_value])
     IN  core' = iss_irq_req(c)
  /\ UNCHANGED <<config, ran>>

irq_req_sync_handler ==
  /\ "irq_sync" \in core.enqueued
  /\ LET c == irq_check([core EXCEPT !.enqueued = @ \ {"irq_sync"}, !.irq_req = core.irq_req_value])
     IN  core' = check_state([iss_irq_req(c) EXCEPT !.wfi = FALSE])
  /\ UNCHANGED <<config, ran>>
-----------------------------------------------------------------------------
(* The debuggers: the server of GDB, the debug unit and the halt signal.   *)

Debugs(debuggers) == config.debugger \in debuggers

halt_sync(halted) ==
  /\ Debugs({"dbg_unit", "riscv_dbg"})
  /\ core' = check_state(set_halt_mode(core, halted))
  /\ ran' = 0
  /\ UNCHANGED config

\* A write to DBG_CTRL.
dbg_ctrl(halt_mode, step_mode) ==
  /\ Debugs({"dbg_unit"})
  /\ core' = check_state([set_halt_mode(core, halt_mode) EXCEPT !.step_mode = step_mode])
  /\ ran' = 0
  /\ UNCHANGED config

\* A write to the NPC of a halted core, which also flushes its instruction cache.
dbg_npc(insn) ==
  /\ Debugs({"dbg_unit"}) /\ core.halted
  /\ core' = check_state([prefetcher_refetch(core, insn) EXCEPT !.wfi = FALSE])
  /\ UNCHANGED <<config, ran>>

gdbserver_stop ==
  /\ Debugs({"gdb"})
  /\ core' = check_state([core EXCEPT !.halted = TRUE])
  /\ UNCHANGED <<config, ran>>

gdbserver_cont ==
  /\ Debugs({"gdb"})
  /\ core' = check_state([core EXCEPT !.halted = FALSE])
  /\ ran' = 0
  /\ UNCHANGED config

gdbserver_stepi ==
  /\ Debugs({"gdb"})
  /\ core' = check_state([core EXCEPT !.halted = FALSE, !.step_mode = TRUE])
  /\ ran' = 0
  /\ UNCHANGED config

\* GDB sets the pc of a core that it has stopped.
gdbserver_reg_set(insn) ==
  /\ Debugs({"gdb"}) /\ core.halted
  /\ core' = prefetcher_refetch(core, insn)
  /\ UNCHANGED <<config, ran>>

-----------------------------------------------------------------------------
(* Fetch enable and reset.                                                 *)

\* The pc is set to the boot address when fetch enable rises.  It does not in the middle of a
\* misaligned access.
fetchen_sync(active) ==
  /\ config.controlled /\ "misaligned" \notin core.enqueued
  /\ LET c == [core EXCEPT !.fetch_enable = active]
     IN  core' = check_state(IF active /\ ~core.fetch_enable THEN prefetcher_refetch(c, Elsewhere) ELSE c)
  /\ UNCHANGED <<config, ran>>

\* The registers of the component after reset(true) and the pc set by reset(false).
ResetFields(c) ==
  [c EXCEPT !.is_active = FALSE, !.stalled = 0, !.wfi = FALSE, !.misaligned_access = FALSE,
            !.halted = Debugs({"gdb"}), !.step_mode = FALSE, !.do_step = FALSE,
            !.fetch_enable = config.fetch_enable, !.irq_req = FALSE, !.req_irq = FALSE,
            !.irq_enable = FALSE, !.req_debug = FALSE, !.elw_insn = FALSE, !.elw_stalled = FALSE,
            !.do_fetch = TRUE, !.insn = Elsewhere, !.lost = FALSE]

\* pre_reset and the two calls of reset.  Nothing is pending: an answer that came after the
\* reset would be counted against stalled.
reset ==
  /\ config.controlled /\ core.pending = {} /\ "misaligned" \notin core.enqueued
  /\ core' = check_state(ResetFields(
       [core EXCEPT !.enqueued = IF core.is_active THEN @ \ {core.current_event} ELSE @]))
  /\ ran' = 0
  /\ UNCHANGED config

Init ==
  /\ config \in Configs
  /\ ran = 0
  /\ core = check_state(
       [is_active |-> FALSE, stalled |-> 0, wfi |-> FALSE, misaligned_access |-> FALSE,
        halted |-> Debugs({"gdb"}), step_mode |-> FALSE, do_step |-> FALSE,
        fetch_enable |-> config.fetch_enable, current_event |-> "check_all", enqueued |-> {},
        irq_req |-> FALSE, irq_req_value |-> FALSE, req_irq |-> FALSE, irq_enable |-> FALSE,
        req_debug |-> FALSE, debug_mode |-> FALSE, debug_saved_irq_enable |-> FALSE,
        elw_insn |-> FALSE, elw_stalled |-> FALSE, do_fetch |-> TRUE, insn |-> Elsewhere,
        resume |-> "nothing", pending |-> {}, lost |-> FALSE, early |-> FALSE, twice |-> FALSE])

Debugger ==
  \/ \E b \in BOOLEAN : halt_sync(b) \/ \E s \in BOOLEAN : dbg_ctrl(b, s)
  \/ \E insn \in NextInsns : dbg_npc(insn) \/ gdbserver_reg_set(insn)
  \/ gdbserver_stop \/ gdbserver_cont \/ gdbserver_stepi

Next ==
  \/ exec_instr \/ exec_instr_check_all \/ exec_misaligned
  \/ data_response \/ fetch_response \/ flush_cache_ack_sync
  \/ irq_req_sync_handler \/ \E b \in BOOLEAN : irq_req_sync(b)
  \/ Debugger
  \/ \E b \in BOOLEAN : fetchen_sync(b)
  \/ reset

\* Events of the clock domain are executed, and the memory answers what it took.
Fairness ==
  /\ WF_vars(exec_instr) /\ WF_vars(exec_instr_check_all) /\ WF_vars(exec_misaligned)
  /\ WF_vars(irq_req_sync_handler)
  /\ WF_vars(data_response) /\ WF_vars(fetch_response)

Spec == Init /\ [][Next]_vars /\ Fairness

-----------------------------------------------------------------------------
(* What the control of the core has to guarantee.                          *)

InstrEvents == core.enqueued \cap {"instr", "check_all", "misaligned"}

\* In the build that checks everything at each instruction, an active core has exactly one event
\* for its next instruction and an inactive one has none: halting, sleeping and resuming in any
\* order never leave an event behind (iss_wrapper::check_state).
OneInstructionEvent ==
  ~config.fast => Cardinality(InstrEvents) = IF core.is_active THEN 1 ELSE 0

\* clock_engine::enqueue asserts that an event is not enqueued while it is
\* (iss_wrapper::enqueue_next_instr).
NotEnqueuedTwice == ~core.twice

\* No wake-up is lost: a core that is enabled, not halted, not stalled and not asleep without an
\* interrupt is active.  A wfi of the debug handler is the exception: check_state puts the core to
\* sleep in a state in which it would wake it up.
RunnableIsActive == Runnable(core) => core.is_active \/ (core.debug_mode /\ core.wfi)

\* stalled counts what the core waits for: answers of the data and fetch ports, the second half
\* of a misaligned access, and stalls that nobody ends (data_response, fetch_response,
\* exec_misaligned, iss_irq_req).
StallsAccounted ==
  core.stalled = Cardinality(core.pending) + (IF "misaligned" \in core.enqueued THEN 1 ELSE 0)
                   + (IF core.lost THEN 1 ELSE 0)

\* An instruction is executed only once it was fetched and the fetch was answered, over stalls,
\* interrupts, changes of the pc and resets (prefetcher_fetch).  The exception is the first
\* instruction of the debug handler after a debug request: iss_irq_check does not fetch it, and
\* the step that follows executes it.
FetchedBeforeExecuted == ~core.early

\* After a step command the core executes at most one instruction, also when it is interrupted,
\* stalls or sleeps in it (gdbserver_stepi, exec_instr_check_all).
StepIsOne == config.debugger = "gdb" /\ ~config.fast /\ core.step_mode => ran <= 1

\* An enabled core that waits for an answer or has an interrupt request gets back to executing
\* instructions, unless it is halted, disabled, in a stall that nobody ends or asleep in a wfi of
\* the debug handler (see RunnableIsActive).
Enabled == core.fetch_enable /\ ~core.halted /\ (~core.wfi \/ core.irq_req)
Resumes ==
  Enabled ~> (core.is_active \/ core.halted \/ ~core.fetch_enable \/ core.lost \/ "flush" \in core.pending
              \/ (core.debug_mode /\ core.wfi))
=============================================================================
