---------------------------- MODULE Core_proofs -----------------------------
(***************************************************************************)
(* Proofs about the control of a core, for any set of configurations: in   *)
(* the build that checks everything at each instruction, the core has the  *)
(* event of its next instruction exactly when it is active, stalled counts *)
(* what it waits for, no wake-up is lost, an instruction waits for its     *)
(* fetch, and a step of GDB is one instruction.                            *)
(***************************************************************************)
EXTENDS Core, FiniteSetTheorems, TLAPS

(* The build that checks everything, without misaligned accesses where a    *)
(* halt may come in the middle of one or a fetch may be pending in it.      *)
Regular(f) ==
  /\ ~f.fast
  /\ "misaligned" \in f.insns => f.memory = "sync" /\ f.debugger \in {"none", "riscv_dbg"}

-----------------------------------------------------------------------------
(* The type of the fields.                                                  *)

CoreEvents == {"instr", "check_all", "misaligned", "irq_sync"}
Answers == {"data", "fetch", "flush"}
FetchLines == {"none", "first", "second"}
Resumptions == {"nothing", "resume_0", "resume_1"}
Insns ==
  [straddles : BOOLEAN, fetched : BOOLEAN, line : FetchLines, cached : SUBSET FetchLines]

Cores ==
  [is_active : BOOLEAN, stalled : Int, wfi : BOOLEAN, misaligned_access : BOOLEAN,
   halted : BOOLEAN, step_mode : BOOLEAN, do_step : BOOLEAN, fetch_enable : BOOLEAN,
   current_event : CoreEvents, enqueued : SUBSET CoreEvents,
   irq_req : BOOLEAN, irq_req_value : BOOLEAN, req_irq : BOOLEAN, irq_enable : BOOLEAN,
   req_debug : BOOLEAN, debug_mode : BOOLEAN, debug_saved_irq_enable : BOOLEAN,
   elw_insn : BOOLEAN, elw_stalled : BOOLEAN, do_fetch : BOOLEAN, insn : Insns,
   resume : Resumptions, pending : SUBSET Answers, lost : BOOLEAN, early : BOOLEAN,
   twice : BOOLEAN]

(* The groups of fields that most functions leave alone.                    *)
SameMode(d, c) ==
  /\ d.halted = c.halted /\ d.step_mode = c.step_mode /\ d.debug_mode = c.debug_mode
  /\ d.fetch_enable = c.fetch_enable /\ d.req_debug = c.req_debug /\ d.irq_req = c.irq_req
SameElw(d, c) == d.elw_insn = c.elw_insn /\ d.elw_stalled = c.elw_stalled
SameStall(d, c) == d.stalled = c.stalled /\ d.pending = c.pending /\ d.lost = c.lost
SameEvents(d, c) ==
  /\ d.is_active = c.is_active /\ d.enqueued = c.enqueued /\ d.current_event = c.current_event
  /\ d.misaligned_access = c.misaligned_access
SameGhost(d, c) == d.early = c.early /\ d.twice = c.twice /\ d.do_fetch = c.do_fetch
SameFetch(d, c) == SameGhost(d, c) /\ (c.insn.fetched => d.insn.fetched)
SameSleep(d, c) == d.wfi = c.wfi /\ d.do_step = c.do_step

-----------------------------------------------------------------------------
(* The prefetcher only adds a stall for a fetch.                            *)

Fetching(d, c) ==
  /\ d \in Cores
  /\ SameMode(d, c) /\ SameElw(d, c) /\ SameEvents(d, c) /\ SameGhost(d, c) /\ SameSleep(d, c)
  /\ d.lost = c.lost
  /\ \/ SameStall(d, c)
     \/ /\ config.memory # "sync" /\ d.stalled = c.stalled + 1
        /\ d.pending = c.pending \cup {"fetch"}

LEMMA FillOK ==
  ASSUME NEW c \in Cores, NEW line \in FetchLines, NEW resume \in Resumptions
  PROVE  Fetching(fill(c, line, resume), c) /\ fill(c, line, resume).insn.fetched = c.insn.fetched
<1> DEFINE d == [c EXCEPT !.insn.line = line]
           g == [d EXCEPT !.insn.cached = @ \cup {line}, !.stalled = @ + 1,
                          !.pending = @ \cup {"fetch"}, !.resume = resume]
<1>1. c.insn \in Insns
  BY DEF Cores
<1>2. [c.insn EXCEPT !.line = line] \in Insns
  BY <1>1 DEF Insns
<1>3. d = [c EXCEPT !.insn = [c.insn EXCEPT !.line = line]]
  OBVIOUS
<1>4. d \in Cores
  BY <1>2, <1>3 DEF Cores
<1>5. Fetching(d, c) /\ SameStall(d, c)
  BY <1>2, <1>3, <1>4 DEF Fetching, Cores, SameMode, SameElw, SameEvents, SameGhost, SameSleep, SameStall
<1>8. d.insn.fetched = c.insn.fetched
  <2>1. d.insn = [c.insn EXCEPT !.line = line]
    BY <1>2, <1>3 DEF Cores
  <2> QED BY <1>1, <2>1 DEF Insns
<1>6. CASE config.memory = "sync" \/ line \in c.insn.cached
  BY <1>5, <1>6, <1>8 DEF fill
<1>7. CASE ~(config.memory = "sync" \/ line \in c.insn.cached)
  <2>1. fill(c, line, resume) = g
    BY <1>7 DEF fill
  <2>2. d.insn \in Insns
    BY <1>4 DEF Cores
  <2>3. [d.insn EXCEPT !.cached = @ \cup {line}] \in Insns
    BY <2>2 DEF Insns
  <2> HIDE DEF d
  <2> DEFINE i == [d.insn EXCEPT !.cached = @ \cup {line}]
             p == d.pending \cup {"fetch"}
             n == d.stalled + 1
  <2>4. g = [d EXCEPT !.insn = i, !.stalled = n, !.pending = p, !.resume = resume]
    OBVIOUS
  <2>5. i \in Insns /\ p \in SUBSET Answers /\ n \in Int
    BY <1>4, <2>3 DEF Cores, Answers
  <2>9. i.fetched = d.insn.fetched
    BY <2>2 DEF Insns
  <2> HIDE DEF i, p, n
  <2>6. g \in Cores
    BY <1>4, <2>4, <2>5, ZenonT(60) DEF Cores
  <2>8. g.insn = i
    BY <1>4, <2>4, <2>5 DEF Cores
  <2>7. /\ SameMode(g, d) /\ SameElw(g, d) /\ SameEvents(g, d) /\ SameGhost(g, d) /\ SameSleep(g, d)
        /\ g.lost = d.lost /\ g.stalled = d.stalled + 1 /\ g.pending = d.pending \cup {"fetch"}
    BY <1>4, <2>4, <2>5 DEF Cores, SameMode, SameElw, SameEvents, SameGhost, SameSleep, n, p
  <2> HIDE DEF g
  <2>10. Fetching(g, c)
    BY <1>5, <1>7, <2>6, <2>7
    DEF Fetching, SameMode, SameElw, SameEvents, SameGhost, SameSleep, SameStall
  <2> QED BY <1>8, <2>1, <2>8, <2>9, <2>10
<1> QED BY <1>6, <1>7

(* A fetch after nothing, and nothing after a fetch.                        *)
LEMMA FetchingChain ==
  ASSUME NEW c, NEW d, NEW e, Fetching(d, c), Fetching(e, d), SameStall(d, c)
  PROVE  Fetching(e, c)
BY DEF Fetching, SameMode, SameElw, SameEvents, SameGhost, SameSleep, SameStall

LEMMA AfterFillOK ==
  ASSUME NEW c \in Cores, NEW resume \in Resumptions
  PROVE  Fetching(after_fill_0(c, resume), c) /\ after_fill_0(c, resume).insn.fetched = c.insn.fetched
<1>1. CASE c.insn.straddles
  BY <1>1, FillOK DEF after_fill_0, FetchLines
<1>2. CASE ~c.insn.straddles
  BY <1>2 DEF after_fill_0, Fetching, SameMode, SameElw, SameEvents, SameGhost, SameSleep, SameStall
<1> QED BY <1>1, <1>2

LEMMA PrefetchOK ==
  ASSUME NEW c \in Cores
  PROVE  Fetching(prefetcher_fetch(c), c) /\ prefetcher_fetch(c).insn.fetched
<1> DEFINE d == [c EXCEPT !.insn.fetched = TRUE]
           resume(r) == IF c.insn.fetched THEN "nothing" ELSE r
           first == IF c.insn.line = "first" THEN d ELSE fill(d, "first", resume("resume_0"))
           r == prefetcher_fetch(c)
<1>1. r = IF Asleep(d, first) THEN first ELSE after_fill_0(first, resume("resume_1"))
  BY DEF prefetcher_fetch
<1>2. c.insn \in Insns
  BY DEF Cores
<1>3. [c.insn EXCEPT !.fetched = TRUE] \in Insns
  BY <1>2 DEF Insns
<1>4. d = [c EXCEPT !.insn = [c.insn EXCEPT !.fetched = TRUE]]
  OBVIOUS
<1>5. d \in Cores
  BY <1>3, <1>4 DEF Cores
<1>6. Fetching(d, c) /\ SameStall(d, c)
  BY <1>3, <1>4, <1>5
  DEF Fetching, Cores, SameMode, SameElw, SameEvents, SameGhost, SameSleep, SameStall
<1>11. d.insn.fetched
  <2>1. d.insn = [c.insn EXCEPT !.fetched = TRUE]
    BY <1>3, <1>4 DEF Cores
  <2> QED BY <1>2, <2>1 DEF Insns
<1>7. resume("resume_0") \in Resumptions /\ resume("resume_1") \in Resumptions /\ "first" \in FetchLines
  BY DEF Resumptions, FetchLines
<1> HIDE DEF d, r, resume
<1>8. Fetching(first, d) /\ first.insn.fetched
  <2>1. Fetching(d, d)
    BY <1>5 DEF Fetching, SameMode, SameElw, SameEvents, SameGhost, SameSleep, SameStall
  <2> QED BY <1>5, <1>7, <1>11, <2>1, FillOK
<1> HIDE DEF first
<1>9. CASE Asleep(d, first)
  BY <1>1, <1>6, <1>8, <1>9, FetchingChain DEF r
<1>10. CASE ~Asleep(d, first)
  <2>1. SameStall(first, d) /\ first \in Cores
    <3>1. d.stalled \in Int
      BY <1>5 DEF Cores
    <3> QED BY <1>8, <1>10, <3>1 DEF Fetching, Asleep, SameStall
  <2>2. Fetching(r, first) /\ r.insn.fetched
    BY <1>1, <1>7, <1>8, <1>10, <2>1, AfterFillOK
  <2>3. Fetching(r, d)
    BY <1>8, <2>1, <2>2, FetchingChain
  <2> QED BY <1>6, <2>2, <2>3, FetchingChain DEF r
<1> QED BY <1>9, <1>10 DEF r

-----------------------------------------------------------------------------
(* check_state, once current_event is check_all_event.                      *)

Stayed(r, c) ==
  /\ ~MustHalt(c) /\ ~(c.wfi /\ ~c.irq_req)
  /\ SameMode(r, c) /\ SameElw(r, c) /\ SameEvents(r, c) /\ SameFetch(r, c) /\ SameStall(r, c)
  /\ ~r.wfi /\ r.do_step = c.do_step

Slept(r, c) ==
  /\ MustHalt(c) \/ (c.wfi /\ ~c.irq_req)
  /\ SameMode(r, c) /\ SameElw(r, c) /\ SameGhost(r, c) /\ SameStall(r, c) /\ SameSleep(r, c)
  /\ ~r.is_active /\ r.enqueued = c.enqueued \ {"check_all"}
  /\ r.current_event = c.current_event /\ r.misaligned_access = c.misaligned_access

Woken(r, c) ==
  /\ SameMode(r, c) /\ SameElw(r, c) /\ SameStall(r, c)
  /\ r.is_active /\ r.enqueued = c.enqueued \cup {"check_all"} /\ ~r.wfi
  /\ r.current_event = c.current_event /\ r.misaligned_access = c.misaligned_access
  /\ r.early = c.early /\ r.twice = (c.twice \/ "check_all" \in c.enqueued)
  /\ r.do_fetch = c.do_fetch /\ r.insn.fetched
  /\ r.do_step = (c.do_step \/ (c.step_mode /\ ~c.debug_mode))

(* With its event already the current one, check_state starts from the core. *)
LEMMA CheckStateIs ==
  ASSUME NEW c \in Cores, c.current_event = "check_all"
  PROVE  check_state(c) = IF ~c.is_active THEN IF Runnable(c) THEN Wake(c) ELSE c
                          ELSE IF MustHalt(c) \/ (c.wfi /\ ~c.irq_req) THEN Sleep(c, "check_all")
                          ELSE [c EXCEPT !.wfi = FALSE]
<1>1. [c EXCEPT !.current_event = "check_all"] = c
  BY DEF Cores
<1> QED BY <1>1 DEF check_state

LEMMA CheckActive ==
  ASSUME NEW c \in Cores, c.is_active, c.current_event = "check_all", NEW r, r = check_state(c)
  PROVE  r \in Cores /\ (Stayed(r, c) \/ Slept(r, c))
<1>1. CASE MustHalt(c) \/ (c.wfi /\ ~c.irq_req)
  <2> DEFINE q == c.enqueued \ {"check_all"}
  <2>1. r = [c EXCEPT !.is_active = FALSE, !.enqueued = q]
    BY <1>1, CheckStateIs DEF Sleep
  <2>2. q \in SUBSET CoreEvents
    BY DEF Cores
  <2> HIDE DEF q
  <2>3. r \in Cores
    BY <2>1, <2>2, ZenonT(60) DEF Cores
  <2>4. /\ SameMode(r, c) /\ SameElw(r, c) /\ SameGhost(r, c) /\ SameStall(r, c) /\ SameSleep(r, c)
        /\ ~r.is_active /\ r.enqueued = q
        /\ r.current_event = c.current_event /\ r.misaligned_access = c.misaligned_access
    BY <2>1, <2>2 DEF Cores, SameMode, SameElw, SameGhost, SameStall, SameSleep
  <2> QED BY <1>1, <2>3, <2>4 DEF Slept, q
<1>2. CASE ~(MustHalt(c) \/ (c.wfi /\ ~c.irq_req))
  <2>1. r = [c EXCEPT !.wfi = FALSE]
    BY <1>2, CheckStateIs
  <2>2. r \in Cores
    BY <2>1, ZenonT(60) DEF Cores
  <2>3. /\ SameMode(r, c) /\ SameElw(r, c) /\ SameEvents(r, c) /\ SameGhost(r, c) /\ SameStall(r, c)
        /\ ~r.wfi /\ r.do_step = c.do_step /\ r.insn = c.insn
    BY <2>1, ZenonT(60) DEF Cores, SameMode, SameElw, SameEvents, SameGhost, SameStall
  <2> QED BY <1>2, <2>2, <2>3 DEF Stayed, SameFetch
<1> QED BY <1>1, <1>2

LEMMA CheckIdle ==
  ASSUME NEW c \in Cores, ~c.is_active, c.do_fetch, c.current_event = "check_all", NEW r, r = check_state(c)
  PROVE  \/ ~Runnable(c) /\ r = c
         \/ /\ Runnable(c) /\ r \in Cores
            /\ Woken(r, c) \/ (Fetching(r, c) /\ ~SameStall(r, c))
<1>1. CASE ~Runnable(c)
  BY <1>1, CheckStateIs
<1>2. CASE Runnable(c)
  <2> DEFINE d == IF c.do_fetch THEN prefetcher_fetch(c) ELSE c
             g == [d EXCEPT !.wfi = FALSE, !.is_active = TRUE,
                            !.do_step = @ \/ (c.step_mode /\ ~c.debug_mode)]
  <2>1. r = IF d.stalled # 0 THEN d ELSE enqueue_next_instr(g)
    BY <1>2, CheckStateIs DEF Wake
  <2>2. c.stalled = 0
    BY <1>2 DEF Runnable
  <2>3. Fetching(d, c) /\ d.insn.fetched
    BY PrefetchOK
  <2>4. d \in Cores
    BY <2>3 DEF Fetching
  <2> HIDE DEF d
  <2>5. CASE d.stalled # 0
    BY <1>2, <2>1, <2>2, <2>3, <2>4, <2>5 DEF SameStall
  <2>6. CASE d.stalled = 0
    <3>1. SameStall(d, c)
      BY <2>2, <2>3, <2>6 DEF Fetching, SameStall
    <3> DEFINE ds == d.do_step \/ (c.step_mode /\ ~c.debug_mode)
    <3>2. ds \in BOOLEAN
      OBVIOUS
    <3>3. g = [d EXCEPT !.wfi = FALSE, !.is_active = TRUE, !.do_step = ds]
      OBVIOUS
    <3> HIDE DEF ds, g
    <3>4. g \in Cores
      BY <2>4, <3>2, <3>3, ZenonT(60) DEF Cores
    <3>5. /\ SameMode(g, d) /\ SameElw(g, d) /\ SameGhost(g, d) /\ SameStall(g, d)
          /\ g.is_active /\ g.enqueued = d.enqueued /\ ~g.wfi /\ g.do_step = ds
          /\ g.current_event = d.current_event /\ g.misaligned_access = d.misaligned_access
          /\ g.insn = d.insn
      BY <2>4, <3>2, <3>3 DEF Cores, SameMode, SameElw, SameGhost, SameStall
    <3>6. g.current_event = "check_all"
      BY <2>3, <3>5 DEF Fetching, SameEvents
    <3> DEFINE q == g.enqueued \cup {"check_all"}
               tw == g.twice \/ "check_all" \in g.enqueued
    <3>7. r = [g EXCEPT !.enqueued = q, !.twice = tw]
      BY <2>1, <2>6, <3>5, <3>6 DEF enqueue_next_instr
    <3>8. q \in SUBSET CoreEvents /\ tw \in BOOLEAN
      BY <3>4 DEF Cores, CoreEvents
    <3> HIDE DEF q, tw
    <3>9. r \in Cores
      BY <3>4, <3>7, <3>8, ZenonT(60) DEF Cores
    <3>10. /\ SameMode(r, g) /\ SameElw(r, g) /\ SameStall(r, g) /\ r.early = g.early
           /\ r.is_active = g.is_active /\ r.enqueued = q /\ r.twice = tw /\ r.wfi = g.wfi
           /\ r.do_step = g.do_step /\ r.do_fetch = g.do_fetch /\ r.insn = g.insn
           /\ r.current_event = g.current_event /\ r.misaligned_access = g.misaligned_access
      BY <3>4, <3>7, <3>8 DEF Cores, SameMode, SameElw, SameStall
    <3>11. Woken(r, c)
      <4>1. /\ SameMode(d, c) /\ SameElw(d, c) /\ SameEvents(d, c) /\ SameGhost(d, c) /\ SameSleep(d, c)
        BY <2>3 DEF Fetching
      <4>2. SameMode(r, c) /\ SameElw(r, c) /\ SameStall(r, c)
        BY <3>1, <3>5, <3>10, <4>1 DEF SameMode, SameElw, SameStall
      <4>3. /\ r.is_active /\ r.enqueued = c.enqueued \cup {"check_all"} /\ ~r.wfi
            /\ r.current_event = c.current_event /\ r.misaligned_access = c.misaligned_access
        BY <3>5, <3>10, <4>1 DEF SameEvents, q
      <4>4. r.early = c.early /\ r.twice = (c.twice \/ "check_all" \in c.enqueued)
        BY <3>5, <3>10, <4>1 DEF SameEvents, SameGhost, tw
      <4>5. r.do_step = (c.do_step \/ (c.step_mode /\ ~c.debug_mode))
        BY <3>5, <3>10, <4>1 DEF SameSleep, ds
      <4>6. r.do_fetch = c.do_fetch /\ r.insn.fetched
        BY <2>3, <3>5, <3>10, <4>1 DEF SameGhost
      <4> QED BY <4>2, <4>3, <4>4, <4>5, <4>6 DEF Woken
    <3> QED BY <1>2, <3>9, <3>11
  <2> QED BY <2>4, <2>5, <2>6 DEF Cores
<1> QED BY <1>1, <1>2

-----------------------------------------------------------------------------
(* The invariant.                                                           *)

Bit(b) == IF b THEN 1 ELSE 0

(* In the build that checks everything, check_all_event is the only one, it *)
(* is never enqueued twice, and nothing is executed before its fetch, which *)
(* check_state does whenever it wakes the core.                             *)
Clean(c) ==
  /\ c.current_event = "check_all" /\ "instr" \notin c.enqueued
  /\ ~c.early /\ ~c.twice /\ c.do_fetch

(* StallsAccounted, one bit for each reason, m for a misaligned access.     *)
Accounted(c, m) ==
  /\ c.stalled = Bit("data" \in c.pending) + Bit("fetch" \in c.pending) + Bit("flush" \in c.pending)
                   + Bit(m) + Bit(c.lost)
  /\ "flush" \in c.pending => ~c.lost
  /\ c.elw_insn /\ c.elw_stalled => "data" \in c.pending

(* What each debugger can do to the core.                                   *)
Modes(c) ==
  /\ config.debugger = "riscv_dbg" => ~c.halted
  /\ config.debugger # "riscv_dbg" => ~c.req_debug /\ ~c.debug_mode
  /\ config.debugger = "none" => ~c.step_mode /\ ~c.do_step

(* A misaligned access has replaced the event of an active core by its own. *)
InMisaligned(c) ==
  /\ c.misaligned_access <=> "misaligned" \in c.enqueued
  /\ "misaligned" \in c.enqueued =>
       c.is_active /\ "misaligned" \in config.insns /\ "check_all" \notin c.enqueued

(* What every handler finds when it calls check_state.                      *)
Ready(c) ==
  /\ c \in Cores /\ Clean(c) /\ Accounted(c, "misaligned" \in c.enqueued) /\ Modes(c)
  /\ InMisaligned(c)
  /\ c.is_active <=> "check_all" \in c.enqueued \/ "misaligned" \in c.enqueued
  /\ c.is_active => c.pending = {} /\ ~c.lost /\ c.insn.fetched

Awake(c) == Runnable(c) => c.is_active \/ (c.debug_mode /\ c.wfi)

Active(c) == c.is_active => ~c.wfi /\ ~MustHalt(c)

(* What it leaves.                                                          *)
Settled(c) == Ready(c) /\ Awake(c) /\ Active(c)

(* After the one instruction of a step of GDB, the core is halted.          *)
StepHeld(c, n) ==
  config.debugger = "gdb" /\ c.step_mode /\ n # 0 =>
    n = 1 /\ c.halted /\ ~c.do_step /\ ~c.is_active

CoreInv ==
  /\ config \in Configs /\ ran \in 0..2
  /\ Regular(config) => Settled(core) /\ StepHeld(core, ran)

(* check_state settles a core, and never wakes one that must halt.          *)
LEMMA CheckState ==
  ASSUME NEW c, Ready(c), "misaligned" \in c.enqueued => ~MustHalt(c) /\ ~c.wfi,
         NEW r, r = check_state(c)
  PROVE  Settled(r) /\ SameMode(r, c) /\ (MustHalt(c) => ~r.is_active /\ ~r.do_step)
<1>1. c \in Cores /\ c.current_event = "check_all" /\ c.do_fetch
  BY DEF Ready, Clean
<1>2. CASE c.is_active
  <2>1. r \in Cores /\ (Stayed(r, c) \/ Slept(r, c))
    BY <1>1, <1>2, CheckActive
  <2>2. CASE Stayed(r, c)
    <3>1. Clean(r) /\ Accounted(r, "misaligned" \in r.enqueued) /\ Modes(r) /\ InMisaligned(r)
      BY <2>2 DEF Ready, Stayed, Clean, Accounted, Modes, InMisaligned,
           SameMode, SameElw, SameEvents, SameFetch, SameGhost, SameStall
    <3>2. Ready(r)
      BY <2>1, <2>2, <3>1 DEF Ready, Stayed, SameEvents, SameFetch, SameStall
    <3>3. Awake(r) /\ Active(r)
      BY <1>2, <2>2 DEF Awake, Active, Stayed, SameEvents, SameMode, MustHalt
    <3> QED BY <2>2, <3>2, <3>3 DEF Settled, Stayed
  <2>3. CASE Slept(r, c)
    <3>1. "misaligned" \notin c.enqueued
      BY <2>3 DEF Slept
    <3>2. Clean(r) /\ Accounted(r, "misaligned" \in r.enqueued) /\ Modes(r) /\ InMisaligned(r)
      BY <2>3, <3>1 DEF Ready, Slept, Clean, Accounted, Modes, InMisaligned,
           SameMode, SameElw, SameGhost, SameStall, SameSleep
    <3>3. Ready(r)
      BY <2>1, <2>3, <3>1, <3>2 DEF Ready, Slept
    <3>4. Awake(r) /\ Active(r)
      BY <2>3 DEF Awake, Active, Slept, SameMode, SameSleep, MustHalt, Runnable
    <3> QED BY <2>3, <3>3, <3>4 DEF Settled, Slept, SameSleep, MustHalt
  <2> QED BY <2>1, <2>2, <2>3
<1>3. CASE ~c.is_active
  <2>1. \/ ~Runnable(c) /\ r = c
        \/ /\ Runnable(c) /\ r \in Cores
           /\ Woken(r, c) \/ (Fetching(r, c) /\ ~SameStall(r, c))
    BY <1>1, <1>3, CheckIdle
  <2>2. CASE ~Runnable(c) /\ r = c
    BY <1>3, <2>2 DEF Settled, Awake, Active, SameMode, MustHalt
  <2>3. CASE Runnable(c) /\ r \in Cores /\ Woken(r, c)
    <3>1. ~MustHalt(c) /\ ~c.halted /\ c.stalled = 0
      BY <2>3 DEF Runnable, MustHalt
    <3>2. c.pending = {} /\ ~c.lost
      <4>1. "data" \notin c.pending /\ "fetch" \notin c.pending /\ "flush" \notin c.pending /\ ~c.lost
        BY <3>1 DEF Ready, Accounted, Bit
      <4> QED BY <1>1, <4>1 DEF Cores, Answers
    <3>3. "check_all" \notin c.enqueued /\ "misaligned" \notin c.enqueued
      BY <1>3 DEF Ready
    <3>4. Clean(r) /\ Accounted(r, "misaligned" \in r.enqueued) /\ Modes(r) /\ InMisaligned(r)
      <4>1. Clean(r)
        BY <2>3, <3>3 DEF Ready, Woken, Clean
      <4>2. "misaligned" \notin r.enqueued /\ ~r.misaligned_access
        BY <2>3, <3>3 DEF Ready, Woken, InMisaligned
      <4>3. Accounted(r, "misaligned" \in r.enqueued)
        BY <2>3, <3>3, <4>2 DEF Ready, Woken, Accounted, SameElw, SameStall
      <4>4. Modes(r)
        BY <2>3 DEF Ready, Woken, Modes, SameMode
      <4> QED BY <4>1, <4>2, <4>3, <4>4 DEF InMisaligned
    <3>5. Ready(r)
      BY <2>3, <3>2, <3>4 DEF Ready, Woken, SameStall
    <3>6. Awake(r) /\ Active(r)
      BY <2>3, <3>1 DEF Awake, Active, Woken, SameMode, MustHalt
    <3> QED BY <2>3, <3>1, <3>5, <3>6 DEF Settled, Woken
  <2>4. CASE Runnable(c) /\ r \in Cores /\ Fetching(r, c) /\ ~SameStall(r, c)
    <3>1. ~MustHalt(c) /\ c.stalled = 0
      BY <2>4 DEF Runnable, MustHalt
    <3>2. "fetch" \notin c.pending
      BY <3>1 DEF Ready, Accounted, Bit
    <3>3. r.stalled = 1 /\ r.pending = c.pending \cup {"fetch"}
      BY <2>4, <3>1 DEF Fetching
    <3>4. Accounted(r, "misaligned" \in r.enqueued)
      BY <2>4, <3>1, <3>2, <3>3 DEF Ready, Accounted, Fetching, SameEvents, SameElw, Bit
    <3>5. Clean(r) /\ Modes(r) /\ InMisaligned(r)
      BY <2>4 DEF Ready, Fetching, Clean, Modes, InMisaligned, SameMode, SameEvents, SameGhost, SameSleep
    <3>6. Ready(r)
      BY <1>3, <2>4, <3>4, <3>5 DEF Ready, Fetching, SameEvents
    <3>7. Awake(r) /\ Active(r)
      BY <1>3, <2>4, <3>3 DEF Awake, Active, Fetching, SameEvents, Runnable
    <3> QED BY <2>4, <3>1, <3>6, <3>7 DEF Settled, Fetching
  <2> QED BY <2>1, <2>2, <2>3, <2>4
<1> QED BY <1>2, <1>3

-----------------------------------------------------------------------------
(* One instruction.                                                         *)

(* The core in the handler of its event, before the instruction ...         *)
Executing(c) ==
  /\ c \in Cores /\ Clean(c) /\ Modes(c) /\ Active(c)
  /\ "check_all" \notin c.enqueued /\ "misaligned" \notin c.enqueued
  /\ c.is_active /\ ~c.misaligned_access
  /\ c.stalled = 0 /\ c.pending = {} /\ ~c.lost /\ ~(c.elw_insn /\ c.elw_stalled)

(* ... and after it, before the fetch of the next one.                      *)
Executed(d) ==
  /\ d \in Cores /\ Clean(d) /\ Modes(d) /\ Active(d) /\ Awake(d)
  /\ "check_all" \notin d.enqueued /\ "misaligned" \notin d.enqueued
  /\ Accounted(d, d.misaligned_access) /\ "fetch" \notin d.pending
  /\ d.misaligned_access =>
       d.is_active /\ d.pending = {} /\ ~d.lost /\ "misaligned" \in config.insns

SameStep(d, c) == config.debugger = "gdb" => d.step_mode = c.step_mode

(* A core that goes on or stalls.                                           *)
LEMMA StallsExecuted ==
  ASSUME NEW c, Executing(c), NEW d \in Cores,
         SameMode(d, c), SameGhost(d, c), SameSleep(d, c), d.is_active,
         d.enqueued = c.enqueued, d.current_event = c.current_event,
         Accounted(d, d.misaligned_access), "fetch" \notin d.pending,
         d.misaligned_access => d.pending = {} /\ ~d.lost /\ "misaligned" \in config.insns
  PROVE  Executed(d) /\ SameStep(d, c)
<1>1. Clean(d) /\ Modes(d)
  BY DEF Executing, Clean, Modes, SameMode, SameGhost, SameSleep
<1>2. Active(d) /\ Awake(d)
  BY DEF Executing, Active, Awake, SameMode, SameSleep, MustHalt
<1> QED BY <1>1, <1>2 DEF Executing, Executed, SameStep, SameMode

(* A core that looks at its state in the instruction.                       *)
LEMMA ChecksExecuted ==
  ASSUME NEW c \in Cores, Clean(c), Modes(c), c.is_active, ~c.misaligned_access,
         "check_all" \notin c.enqueued, "misaligned" \notin c.enqueued,
         c.stalled = 0, c.pending = {}, ~c.lost, ~(c.elw_insn /\ c.elw_stalled),
         NEW r, r = check_state(c)
  PROVE  /\ Executed(r) /\ SameMode(r, c) /\ SameStall(r, c) /\ SameElw(r, c)
         /\ ~r.misaligned_access
         /\ ~MustHalt(c) /\ ~c.wfi => r.is_active
<1>1. r \in Cores /\ (Stayed(r, c) \/ Slept(r, c))
  BY CheckActive DEF Clean
<1>2. CASE Stayed(r, c)
  <2>1. Clean(r) /\ Modes(r) /\ Accounted(r, r.misaligned_access)
    BY <1>2 DEF Stayed, Clean, Modes, Accounted, SameMode, SameElw, SameEvents, SameFetch, SameGhost, SameStall, Bit
  <2>2. Active(r) /\ Awake(r)
    BY <1>2 DEF Stayed, Active, Awake, SameMode, SameEvents, MustHalt
  <2> QED BY <1>1, <1>2, <2>1, <2>2 DEF Stayed, Executed, SameEvents, SameStall
<1>3. CASE Slept(r, c)
  <2>1. Clean(r) /\ Modes(r) /\ Accounted(r, r.misaligned_access)
    BY <1>3 DEF Slept, Clean, Modes, Accounted, SameMode, SameElw, SameGhost, SameStall, SameSleep, Bit
  <2>2. Active(r) /\ Awake(r)
    BY <1>3 DEF Slept, Active, Awake, SameMode, SameSleep, MustHalt, Runnable
  <2> QED BY <1>1, <1>3, <2>1, <2>2 DEF Slept, Executed, SameStall, MustHalt
<1> QED BY <1>1, <1>2, <1>3

(* A request of the RISC-V debugger changes what the core does next only.   *)
LEMMA DebugReqIs ==
  ASSUME NEW c \in Cores, c.current_event = "check_all"
  PROVE  \E g \in Cores :
           /\ debug_req(c) = check_state(g)
           /\ SameStall(g, c) /\ SameElw(g, c) /\ SameEvents(g, c) /\ SameFetch(g, c)
           /\ ~g.wfi /\ g.do_step = c.do_step /\ g.req_debug /\ g.halted = c.halted
           /\ g.step_mode = c.step_mode /\ g.debug_mode = c.debug_mode
<1> DEFINE g == [c EXCEPT !.req_debug = TRUE, !.wfi = FALSE]
<1>1. irq_check(c) = c
  BY DEF irq_check, Cores
<1>2. debug_req(c) = check_state(g)
  BY <1>1 DEF debug_req
<1>3. g \in Cores
  BY DEF Cores
<1>4. /\ SameStall(g, c) /\ SameElw(g, c) /\ SameEvents(g, c) /\ SameFetch(g, c)
      /\ ~g.wfi /\ g.do_step = c.do_step /\ g.req_debug /\ g.halted = c.halted
      /\ g.step_mode = c.step_mode /\ g.debug_mode = c.debug_mode
  BY DEF Cores, SameStall, SameElw, SameEvents, SameFetch, SameGhost
<1> QED BY <1>2, <1>3, <1>4

(* What a stall changes.                                                    *)
LEMMA StallIs ==
  ASSUME NEW c \in Cores, NEW d, d = Stall(c)
  PROVE  /\ d \in Cores
         /\ SameMode(d, c) /\ SameElw(d, c) /\ SameEvents(d, c) /\ SameGhost(d, c) /\ SameSleep(d, c)
         /\ d.stalled = c.stalled + 1 /\ d.pending = c.pending /\ d.lost = c.lost
<1> DEFINE n == c.stalled + 1
<1>1. n \in Int /\ d = [c EXCEPT !.stalled = n]
  BY DEF Stall, Cores
<1> HIDE DEF n
<1>2. d \in Cores
  BY <1>1 DEF Cores
<1>3. /\ SameMode(d, c) /\ SameElw(d, c) /\ SameEvents(d, c) /\ SameGhost(d, c) /\ SameSleep(d, c)
      /\ d.stalled = n /\ d.pending = c.pending /\ d.lost = c.lost
  BY <1>1 DEF Cores, SameMode, SameElw, SameEvents, SameGhost, SameSleep
<1> QED BY <1>2, <1>3 DEF n

LEMMA StallForIs ==
  ASSUME NEW c \in Cores, NEW a \in Answers, NEW d, d = StallFor(c, a)
  PROVE  /\ d \in Cores
         /\ SameMode(d, c) /\ SameElw(d, c) /\ SameEvents(d, c) /\ SameGhost(d, c) /\ SameSleep(d, c)
         /\ d.stalled = c.stalled + 1 /\ d.pending = c.pending \cup {a} /\ d.lost = c.lost
<1> DEFINE g == Stall(c)
           p == g.pending \cup {a}
<1>1. /\ g \in Cores
      /\ SameMode(g, c) /\ SameElw(g, c) /\ SameEvents(g, c) /\ SameGhost(g, c) /\ SameSleep(g, c)
      /\ g.stalled = c.stalled + 1 /\ g.pending = c.pending /\ g.lost = c.lost
  BY StallIs
<1>2. d = [g EXCEPT !.pending = p]
  BY DEF StallFor
<1> HIDE DEF g
<1>3. p \in SUBSET Answers
  BY <1>1 DEF Cores
<1> HIDE DEF p
<1>4. d \in Cores
  BY <1>1, <1>2, <1>3 DEF Cores
<1>5. /\ SameMode(d, g) /\ SameElw(d, g) /\ SameEvents(d, g) /\ SameGhost(d, g) /\ SameSleep(d, g)
      /\ d.stalled = g.stalled /\ d.pending = p /\ d.lost = g.lost
  BY <1>1, <1>2, <1>3 DEF Cores, SameMode, SameElw, SameEvents, SameGhost, SameSleep
<1> QED BY <1>1, <1>4, <1>5 DEF p, SameMode, SameElw, SameEvents, SameGhost, SameSleep

(* Every kind of instruction.                                               *)
LEMMA EffectOK ==
  ASSUME config \in Configs, NEW c, Executing(c), NEW kind, Possible(c, kind)
  PROVE  Executed(Effect(c, kind)) /\ SameStep(Effect(c, kind), c)
<1> DEFINE d == Effect(c, kind)
           Others(g) == /\ SameMode(g, c) /\ SameGhost(g, c) /\ SameSleep(g, c) /\ g.is_active
                        /\ g.enqueued = c.enqueued /\ g.current_event = c.current_event
<1>1. /\ c \in Cores /\ Clean(c) /\ Modes(c) /\ c.is_active /\ ~c.misaligned_access
      /\ "check_all" \notin c.enqueued /\ "misaligned" \notin c.enqueued
      /\ c.stalled = 0 /\ c.pending = {} /\ ~c.lost /\ ~(c.elw_insn /\ c.elw_stalled)
      /\ ~c.wfi /\ ~MustHalt(c) /\ c.current_event = "check_all"
  BY DEF Executing, Active, Clean
<1>2. CASE kind = "plain"
  <2>1. d = c
    BY <1>2 DEF Effect
  <2>2. Others(c) /\ Accounted(c, c.misaligned_access)
    BY <1>1 DEF SameMode, SameGhost, SameSleep, Accounted, Bit
  <2> QED BY <1>1, <2>1, <2>2, StallsExecuted
<1>3. CASE kind = "load" \/ kind = "fence_i"
  <2>1. PICK a \in {"data", "flush"} : d = StallFor(c, a)
    BY <1>3 DEF Effect
  <2> HIDE DEF d
  <2>2. /\ d \in Cores
        /\ SameMode(d, c) /\ SameElw(d, c) /\ SameEvents(d, c) /\ SameGhost(d, c) /\ SameSleep(d, c)
        /\ d.stalled = c.stalled + 1 /\ d.pending = c.pending \cup {a} /\ d.lost = c.lost
    BY <1>1, <2>1, StallForIs DEF Answers
  <2>3. d.stalled = 1 /\ d.pending = {a} /\ ~d.lost /\ ~d.misaligned_access
    BY <1>1, <2>2 DEF SameEvents
  <2>4. Accounted(d, d.misaligned_access)
    BY <1>1, <2>2, <2>3 DEF Accounted, Bit, SameElw
  <2>5. Others(d) /\ "fetch" \notin d.pending
    BY <1>1, <2>1, <2>2, <2>3 DEF SameEvents
  <2> QED BY <2>2, <2>3, <2>4, <2>5, StallsExecuted DEF d
<1>4. CASE kind = "elw"
  <2> DEFINE g == StallFor(c, "data")
  <2>1. d = [g EXCEPT !.elw_insn = TRUE, !.elw_stalled = TRUE]
    BY <1>4 DEF Effect
  <2>2. /\ g \in Cores
        /\ SameMode(g, c) /\ SameEvents(g, c) /\ SameGhost(g, c) /\ SameSleep(g, c)
        /\ g.stalled = c.stalled + 1 /\ g.pending = c.pending \cup {"data"} /\ g.lost = c.lost
    BY <1>1, StallForIs DEF Answers
  <2> HIDE DEF d, g
  <2>3. d \in Cores
    BY <2>1, <2>2 DEF Cores
  <2>4. SameMode(d, g) /\ SameEvents(d, g) /\ SameGhost(d, g) /\ SameSleep(d, g) /\ SameStall(d, g)
    BY <2>1, <2>2 DEF Cores, SameMode, SameEvents, SameGhost, SameSleep, SameStall
  <2>5. d.stalled = 1 /\ d.pending = {"data"} /\ ~d.lost /\ ~d.misaligned_access
    BY <1>1, <2>2, <2>4 DEF SameEvents, SameStall
  <2>6. Others(d)
    BY <1>1, <2>2, <2>4 DEF SameMode, SameEvents, SameGhost, SameSleep
  <2>7. Accounted(d, d.misaligned_access) /\ "fetch" \notin d.pending
    BY <2>5 DEF Accounted, Bit
  <2> QED BY <2>3, <2>5, <2>6, <2>7, StallsExecuted DEF d
<1>5. CASE kind = "invalid"
  <2> DEFINE g == Stall(c)
  <2>1. d = [g EXCEPT !.lost = TRUE]
    BY <1>5 DEF Effect
  <2>2. /\ g \in Cores
        /\ SameMode(g, c) /\ SameElw(g, c) /\ SameEvents(g, c) /\ SameGhost(g, c) /\ SameSleep(g, c)
        /\ g.stalled = c.stalled + 1 /\ g.pending = c.pending /\ g.lost = c.lost
    BY <1>1, StallIs
  <2> HIDE DEF d, g
  <2>3. d \in Cores
    BY <2>1, <2>2 DEF Cores
  <2>4. /\ SameMode(d, g) /\ SameElw(d, g) /\ SameEvents(d, g) /\ SameGhost(d, g) /\ SameSleep(d, g)
        /\ d.stalled = g.stalled /\ d.pending = g.pending /\ d.lost
    BY <2>1, <2>2 DEF Cores, SameMode, SameElw, SameEvents, SameGhost, SameSleep
  <2>5. d.stalled = 1 /\ d.pending = {} /\ d.lost /\ ~d.misaligned_access
    BY <1>1, <2>2, <2>4 DEF SameEvents
  <2>6. Others(d) /\ SameElw(d, c)
    BY <1>1, <2>2, <2>4 DEF SameMode, SameElw, SameEvents, SameGhost, SameSleep
  <2>7. Accounted(d, d.misaligned_access) /\ "fetch" \notin d.pending
    BY <1>1, <2>5, <2>6 DEF Accounted, Bit, SameElw
  <2> QED BY <2>3, <2>5, <2>6, <2>7, StallsExecuted DEF d
<1>6. CASE kind = "misaligned"
  <2> DEFINE g == Stall(c)
  <2>1. d = [g EXCEPT !.misaligned_access = TRUE]
    BY <1>6 DEF Effect
  <2>2. /\ g \in Cores
        /\ SameMode(g, c) /\ SameElw(g, c) /\ SameEvents(g, c) /\ SameGhost(g, c) /\ SameSleep(g, c)
        /\ g.stalled = c.stalled + 1 /\ g.pending = c.pending /\ g.lost = c.lost
    BY <1>1, StallIs
  <2> HIDE DEF d, g
  <2>3. d \in Cores
    BY <2>1, <2>2 DEF Cores
  <2>4. /\ SameMode(d, g) /\ SameElw(d, g) /\ SameGhost(d, g) /\ SameSleep(d, g) /\ SameStall(d, g)
        /\ d.is_active = g.is_active /\ d.enqueued = g.enqueued /\ d.current_event = g.current_event
        /\ d.misaligned_access
    BY <2>1, <2>2 DEF Cores, SameMode, SameElw, SameGhost, SameSleep, SameStall
  <2>5. d.stalled = 1 /\ d.pending = {} /\ ~d.lost /\ d.misaligned_access
    BY <1>1, <2>2, <2>4 DEF SameStall
  <2>6. Others(d) /\ SameElw(d, c)
    BY <1>1, <2>2, <2>4 DEF SameMode, SameElw, SameEvents, SameGhost, SameSleep
  <2>7. Accounted(d, d.misaligned_access) /\ "fetch" \notin d.pending /\ "misaligned" \in config.insns
    BY <1>1, <1>6, <2>5, <2>6 DEF Accounted, Bit, SameElw, Possible
  <2> QED BY <2>3, <2>5, <2>6, <2>7, StallsExecuted DEF d
<1>8. CASE kind = "wfi"
  <2> DEFINE g == [c EXCEPT !.wfi = TRUE]
  <2>1. d = check_state(g)
    BY <1>8 DEF Effect
  <2>2. g \in Cores
    BY <1>1 DEF Cores
  <2>3. /\ SameMode(g, c) /\ SameGhost(g, c) /\ SameStall(g, c) /\ SameElw(g, c) /\ SameEvents(g, c)
        /\ g.do_step = c.do_step
    BY <1>1 DEF Cores, SameMode, SameGhost, SameStall, SameElw, SameEvents
  <2> HIDE DEF g
  <2>4. Clean(g) /\ Modes(g)
    BY <1>1, <2>3 DEF Clean, Modes, SameMode, SameGhost, SameEvents
  <2>5. Executed(d) /\ SameMode(d, g)
    BY <1>1, <2>1, <2>2, <2>3, <2>4, ChecksExecuted DEF SameStall, SameElw, SameEvents
  <2> QED BY <2>3, <2>5 DEF SameStep, SameMode
<1>9. CASE kind \in {"irq_on", "irq_off"}
  <2>1. irq_check(c) = c
    BY <1>1 DEF irq_check, Cores
  <2>2. PICK b \in BOOLEAN : d = [c EXCEPT !.irq_enable = b]
    BY <1>9, <2>1 DEF Effect
  <2> HIDE DEF d
  <2>3. d \in Cores
    BY <1>1, <2>2 DEF Cores
  <2>4. Others(d) /\ SameElw(d, c) /\ SameStall(d, c) /\ ~d.misaligned_access
    BY <1>1, <2>2 DEF Cores, SameMode, SameGhost, SameSleep, SameElw, SameStall
  <2>5. Accounted(d, d.misaligned_access) /\ d.pending = {}
    BY <1>1, <2>4 DEF Accounted, Bit, SameElw, SameStall
  <2> QED BY <2>3, <2>4, <2>5, StallsExecuted DEF d
<1>10. CASE kind = "sbreak"
  <2> DEFINE g == set_halt_mode(c, TRUE)
  <2>1. d = check_state(g)
    BY <1>10 DEF Effect
  <2>2. CASE config.debugger # "riscv_dbg"
    <3>1. g = [c EXCEPT !.halted = TRUE]
      BY <2>2 DEF set_halt_mode
    <3> HIDE DEF g
    <3>2. g \in Cores
      BY <1>1, <3>1 DEF Cores
    <3>3. /\ SameGhost(g, c) /\ SameStall(g, c) /\ SameElw(g, c) /\ SameEvents(g, c)
          /\ g.do_step = c.do_step /\ g.step_mode = c.step_mode
          /\ g.debug_mode = c.debug_mode /\ g.req_debug = c.req_debug
      BY <1>1, <3>1 DEF Cores, SameGhost, SameStall, SameElw, SameEvents
    <3>4. Clean(g) /\ Modes(g)
      BY <1>1, <2>2, <3>3 DEF Clean, Modes, SameGhost, SameEvents
    <3>5. Executed(d) /\ SameMode(d, g)
      BY <1>1, <2>1, <3>2, <3>3, <3>4, ChecksExecuted DEF SameStall, SameElw, SameEvents
    <3> QED BY <3>3, <3>5 DEF SameStep, SameMode
  <2>3. CASE config.debugger = "riscv_dbg" /\ c.debug_mode
    <3>1. g = c
      BY <2>3 DEF set_halt_mode
    <3> HIDE DEF g
    <3> QED BY <1>1, <2>1, <2>3, <3>1, ChecksExecuted DEF SameStep
  <2>4. CASE config.debugger = "riscv_dbg" /\ ~c.debug_mode
    <3>1. g = debug_req(c)
      BY <2>4 DEF set_halt_mode
    <3> HIDE DEF g
    <3>2. PICK h \in Cores :
            /\ debug_req(c) = check_state(h)
            /\ SameStall(h, c) /\ SameElw(h, c) /\ SameEvents(h, c) /\ SameFetch(h, c)
            /\ ~h.wfi /\ h.do_step = c.do_step /\ h.req_debug /\ h.halted = c.halted
            /\ h.step_mode = c.step_mode /\ h.debug_mode = c.debug_mode
      BY <1>1, DebugReqIs
    <3>3. Clean(h) /\ Modes(h) /\ ~MustHalt(h)
      BY <1>1, <2>4, <3>2 DEF Clean, Modes, SameFetch, SameGhost, SameEvents, MustHalt
    <3>4. /\ Executed(g) /\ SameStall(g, h) /\ SameElw(g, h) /\ ~g.misaligned_access /\ g.is_active
      BY <1>1, <3>1, <3>2, <3>3, ChecksExecuted DEF SameStall, SameElw, SameEvents
    <3>5. Executed(d)
      BY <1>1, <2>1, <3>2, <3>4, ChecksExecuted DEF Executed, SameStall, SameElw
    <3> QED BY <2>4, <3>5 DEF SameStep
  <2> QED BY <2>2, <2>3, <2>4
<1>11. CASE kind = "dcsr"
  <2>1. d = [c EXCEPT !.step_mode = ~@] /\ c.debug_mode
    BY <1>11 DEF Effect, Possible
  <2> HIDE DEF d
  <2>2. config.debugger = "riscv_dbg"
    BY <1>1, <2>1 DEF Modes
  <2>3. d \in Cores
    BY <1>1, <2>1 DEF Cores
  <2>4. /\ SameGhost(d, c) /\ SameSleep(d, c) /\ SameElw(d, c) /\ SameStall(d, c) /\ SameEvents(d, c)
        /\ d.halted = c.halted
    BY <1>1, <2>1 DEF Cores, SameGhost, SameSleep, SameElw, SameStall, SameEvents
  <2>5. Clean(d) /\ Modes(d) /\ Accounted(d, d.misaligned_access)
    BY <1>1, <2>2, <2>4 DEF Clean, Modes, Accounted, Bit, SameGhost, SameElw, SameStall, SameEvents
  <2>6. Active(d) /\ Awake(d)
    BY <1>1, <2>4 DEF Active, Awake, SameEvents, SameSleep, MustHalt
  <2>7. Executed(d)
    BY <1>1, <2>3, <2>4, <2>5, <2>6 DEF Executed, SameEvents, SameStall
  <2> QED BY <2>2, <2>7 DEF SameStep, d
<1>12. CASE kind = "dret"
  <2>1. irq_check(c) = c
    BY <1>1 DEF irq_check, Cores
  <2>2. d = [c EXCEPT !.debug_mode = FALSE, !.irq_enable = c.debug_saved_irq_enable]
    BY <1>12, <2>1 DEF Effect
  <2> HIDE DEF d
  <2>3. d \in Cores
    BY <1>1, <2>2 DEF Cores
  <2>4. /\ SameGhost(d, c) /\ SameSleep(d, c) /\ SameElw(d, c) /\ SameStall(d, c) /\ SameEvents(d, c)
        /\ d.halted = c.halted /\ d.req_debug = c.req_debug /\ d.step_mode = c.step_mode /\ ~d.debug_mode
    BY <1>1, <2>2 DEF Cores, SameGhost, SameSleep, SameElw, SameStall, SameEvents
  <2>5. Clean(d) /\ Modes(d) /\ Accounted(d, d.misaligned_access)
    BY <1>1, <2>4 DEF Clean, Modes, Accounted, Bit, SameGhost, SameSleep, SameElw, SameStall, SameEvents
  <2>6. Active(d) /\ Awake(d)
    BY <1>1, <2>4 DEF Active, Awake, SameEvents, SameSleep, MustHalt
  <2>7. Executed(d)
    BY <1>1, <2>3, <2>4, <2>5, <2>6 DEF Executed, SameEvents, SameStall
  <2> QED BY <2>4, <2>7 DEF SameStep, d
<1>13. kind \in {"plain", "load", "elw", "invalid", "misaligned", "fence_i", "wfi",
                 "irq_on", "irq_off", "sbreak", "dcsr", "dret"}
  BY CoreAssumption DEF Possible
<1> QED BY <1>2, <1>3, <1>4, <1>5, <1>6, <1>8, <1>9, <1>10, <1>11, <1>12, <1>13

LEMMA NextInsnsOK == NextInsns \subseteq Insns /\ Elsewhere \in Insns
<1>1. Elsewhere \in Insns
  BY DEF Elsewhere, Insns, FetchLines
<1>2. /\ [Elsewhere EXCEPT !.line = "first"] \in Insns
      /\ [Elsewhere EXCEPT !.straddles = TRUE] \in Insns
      /\ [Elsewhere EXCEPT !.straddles = TRUE, !.fetched = TRUE] \in Insns
  BY <1>1 DEF Insns, FetchLines
<1>3. /\ [Elsewhere EXCEPT !.straddles = TRUE, !.line = "first", !.cached = {"first"}] \in Insns
      /\ [Elsewhere EXCEPT !.straddles = TRUE, !.cached = {"first", "second"}] \in Insns
  <2>1. {"first"} \in SUBSET FetchLines /\ {"first", "second"} \in SUBSET FetchLines /\ "first" \in FetchLines
    BY DEF FetchLines
  <2> QED BY <1>1, <2>1 DEF Insns
<1> QED BY <1>1, <1>2, <1>3 DEF NextInsns

(* The end of an instruction, with the fetch of the next one.               *)
LEMMA FinishOK ==
  ASSUME Regular(config), NEW d, Executed(d), NEW f, Fetching(f, d), f.insn.fetched, NEW r, r = Finish(f)
  PROVE  Settled(r) /\ r.step_mode = d.step_mode
<1>1. /\ f \in Cores /\ Clean(f) /\ Modes(f) /\ Active(f)
      /\ "check_all" \notin f.enqueued /\ "misaligned" \notin f.enqueued
      /\ f.step_mode = d.step_mode /\ f.is_active = d.is_active
      /\ f.current_event = "check_all" /\ f.misaligned_access = d.misaligned_access
  BY DEF Executed, Fetching, Clean, Modes, Active, SameMode, SameEvents, SameGhost, SameSleep, MustHalt
<1>2. /\ Accounted(f, f.misaligned_access)
      /\ f.misaligned_access => f.is_active /\ f.pending = {} /\ ~f.lost /\ "misaligned" \in config.insns
  <2>1. CASE SameStall(f, d)
    BY <2>1 DEF Executed, Fetching, Accounted, SameStall, SameElw, SameEvents
  <2>2. CASE ~SameStall(f, d)
    <3>1. f.stalled = d.stalled + 1 /\ f.pending = d.pending \cup {"fetch"} /\ config.memory # "sync"
      BY <2>2 DEF Fetching
    <3>2. ~d.misaligned_access
      BY <3>1 DEF Executed, Regular
    <3>3. Accounted(d, d.misaligned_access) /\ "fetch" \notin d.pending /\ d.stalled \in Int
      BY DEF Executed, Cores
    <3>4. f.lost = d.lost /\ SameElw(f, d)
      BY DEF Fetching
    <3> QED BY <1>1, <3>1, <3>2, <3>3, <3>4 DEF Accounted, SameElw, Bit
  <2> QED BY <2>1, <2>2
<1>3. Awake(f)
  <2>1. CASE SameStall(f, d)
    BY <2>1 DEF Executed, Fetching, Awake, Runnable, SameStall, SameMode, SameEvents, SameSleep
  <2>2. CASE ~SameStall(f, d)
    <3>1. f.stalled = d.stalled + 1 /\ d.stalled \in Int /\ d.stalled >= 0
      BY <2>2 DEF Fetching, Executed, Cores, Accounted, Bit
    <3> QED BY <3>1 DEF Awake, Runnable
  <2> QED BY <2>1, <2>2
<1>4. CASE f.stalled = 0 /\ f.is_active
  <2> DEFINE q == f.enqueued \cup {"check_all"}
             tw == f.twice \/ "check_all" \in f.enqueued
  <2>1. r = [f EXCEPT !.enqueued = q, !.twice = tw]
    BY <1>1, <1>4 DEF Finish, enqueue_next_instr
  <2>2. q \in SUBSET CoreEvents /\ tw \in BOOLEAN /\ ~tw
    BY <1>1 DEF Cores, CoreEvents, Clean
  <2> HIDE DEF q, tw
  <2>3. r \in Cores
    BY <1>1, <2>1, <2>2, ZenonT(60) DEF Cores
  <2>4. /\ SameMode(r, f) /\ SameElw(r, f) /\ SameStall(r, f) /\ SameSleep(r, f)
        /\ r.early = f.early /\ r.twice = tw /\ r.is_active = f.is_active /\ r.enqueued = q
        /\ r.do_fetch = f.do_fetch /\ r.insn = f.insn
        /\ r.current_event = f.current_event /\ r.misaligned_access = f.misaligned_access
    BY <1>1, <2>1, <2>2 DEF Cores, SameMode, SameElw, SameStall, SameSleep
  <2>5. ~f.misaligned_access /\ f.pending = {} /\ ~f.lost
    <3>1. /\ "data" \notin f.pending /\ "fetch" \notin f.pending /\ "flush" \notin f.pending
          /\ ~f.lost /\ ~f.misaligned_access
      BY <1>1, <1>2, <1>4 DEF Accounted, Bit
    <3> QED BY <1>1, <3>1 DEF Cores, Answers
  <2>6. "misaligned" \notin r.enqueued /\ "check_all" \in r.enqueued /\ "instr" \notin r.enqueued
    BY <1>1, <2>4 DEF q, Clean
  <2>7. Clean(r)
    BY <1>1, <2>2, <2>4, <2>6 DEF Clean
  <2>8. Modes(r) /\ Active(r) /\ Awake(r)
    BY <1>1, <1>3, <1>4, <2>4 DEF Modes, Active, Awake, SameMode, SameSleep, MustHalt
  <2>9. Accounted(r, "misaligned" \in r.enqueued)
    BY <1>2, <2>4, <2>5, <2>6 DEF Accounted, SameStall, SameElw, Bit
  <2>10. InMisaligned(r)
    BY <2>4, <2>5, <2>6 DEF InMisaligned
  <2>11. Ready(r)
    BY <1>4, <2>3, <2>4, <2>5, <2>6, <2>7, <2>8, <2>9, <2>10 DEF Ready, SameStall
  <2> QED BY <1>1, <2>4, <2>8, <2>11 DEF Settled, SameMode
<1>5. CASE f.stalled = 0 /\ ~f.is_active
  <2>1. r = f
    BY <1>5 DEF Finish, enqueue_next_instr
  <2>2. ~f.misaligned_access
    BY <1>2, <1>5
  <2>3. Accounted(f, "misaligned" \in f.enqueued)
    BY <1>1, <1>2, <2>2 DEF Accounted, Bit
  <2> QED BY <1>1, <1>3, <1>5, <2>1, <2>2, <2>3 DEF Settled, Ready, InMisaligned
<1>6. CASE f.stalled # 0 /\ f.misaligned_access
  <2> DEFINE q == f.enqueued \cup {"misaligned"}
  <2>1. r = [f EXCEPT !.enqueued = q]
    BY <1>6 DEF Finish
  <2>2. q \in SUBSET CoreEvents
    BY <1>1 DEF Cores, CoreEvents
  <2> HIDE DEF q
  <2>3. r \in Cores
    BY <1>1, <2>1, <2>2 DEF Cores
  <2>4. /\ SameMode(r, f) /\ SameElw(r, f) /\ SameStall(r, f) /\ SameSleep(r, f) /\ SameGhost(r, f)
        /\ r.is_active = f.is_active /\ r.enqueued = q /\ r.insn = f.insn
        /\ r.current_event = f.current_event /\ r.misaligned_access = f.misaligned_access
    BY <1>1, <2>1, <2>2 DEF Cores, SameMode, SameElw, SameStall, SameSleep, SameGhost
  <2>5. "misaligned" \in r.enqueued /\ "check_all" \notin r.enqueued /\ "instr" \notin r.enqueued
    BY <1>1, <2>4 DEF q, Clean
  <2>6. Clean(r)
    BY <1>1, <2>4, <2>5 DEF Clean, SameGhost
  <2>7. Modes(r) /\ Active(r) /\ Awake(r)
    BY <1>1, <1>2, <1>6, <2>4 DEF Modes, Active, Awake, SameMode, SameSleep, MustHalt
  <2>8. Accounted(r, "misaligned" \in r.enqueued)
    BY <1>2, <1>6, <2>4, <2>5 DEF Accounted, SameStall, SameElw
  <2>9. InMisaligned(r)
    BY <1>2, <1>6, <2>4, <2>5 DEF InMisaligned
  <2>10. Ready(r)
    BY <1>2, <1>6, <2>3, <2>4, <2>5, <2>6, <2>7, <2>8, <2>9 DEF Ready, SameStall
  <2> QED BY <1>1, <2>4, <2>7, <2>10 DEF Settled, SameMode
<1>7. CASE f.stalled # 0 /\ ~f.misaligned_access
  <2>1. r = [f EXCEPT !.is_active = FALSE]
    BY <1>7 DEF Finish
  <2>2. r \in Cores
    BY <1>1, <2>1, ZenonT(60) DEF Cores
  <2>3. /\ SameMode(r, f) /\ SameElw(r, f) /\ SameStall(r, f) /\ SameSleep(r, f) /\ SameGhost(r, f)
        /\ ~r.is_active /\ r.enqueued = f.enqueued
        /\ r.current_event = f.current_event /\ r.misaligned_access = f.misaligned_access
    BY <1>1, <2>1 DEF Cores, SameMode, SameElw, SameStall, SameSleep, SameGhost
  <2>4. Clean(r) /\ Modes(r) /\ InMisaligned(r)
    BY <1>1, <1>7, <2>3 DEF Clean, Modes, InMisaligned, SameMode, SameGhost, SameSleep
  <2>5. Accounted(r, "misaligned" \in r.enqueued)
    BY <1>1, <1>2, <1>7, <2>3 DEF Accounted, SameStall, SameElw, Bit
  <2>6. Active(r) /\ Awake(r)
    BY <1>7, <2>3 DEF Active, Awake, Runnable, SameStall
  <2>7. Ready(r)
    BY <1>1, <2>2, <2>3, <2>4, <2>5 DEF Ready
  <2> QED BY <1>1, <2>3, <2>6, <2>7 DEF Settled, SameMode
<1> QED BY <1>1, <1>4, <1>5, <1>6, <1>7 DEF Cores

LEMMA ExecutesOK ==
  ASSUME Regular(config), config \in Configs, NEW c, Executing(c), NEW kind, Possible(c, kind),
         NEW entry \in BOOLEAN, c.insn.fetched \/ entry,
         NEW next \in NextInsns, NEW r, r = Executes(c, entry, kind, next)
  PROVE  Settled(r) /\ SameStep(r, c)
<1> DEFINE d == Effect(c, kind)
           g == [d EXCEPT !.insn = next]
<1>1. [c EXCEPT !.early = @ \/ "fetch" \in c.pending \/ ~(c.insn.fetched \/ entry)] = c
  <2>1. c \in Cores /\ c.early = FALSE /\ c.pending = {}
    BY DEF Executing, Clean, Cores
  <2> DEFINE b == c.early \/ "fetch" \in c.pending \/ ~(c.insn.fetched \/ entry)
  <2>2. b = c.early
    BY <2>1
  <2>3. [c EXCEPT !.early = @ \/ "fetch" \in c.pending \/ ~(c.insn.fetched \/ entry)] = [c EXCEPT !.early = b]
    OBVIOUS
  <2> HIDE DEF b
  <2>4. [c EXCEPT !.early = b] = c
    BY <2>1, <2>2 DEF Cores
  <2> QED BY <2>3, <2>4
<1>2. r = Finish(prefetcher_fetch(g))
  BY <1>1 DEF Executes, Step
<1>3. Executed(d) /\ SameStep(d, c)
  BY EffectOK
<1> HIDE DEF d
<1>4. d \in Cores /\ next \in Insns
  BY <1>3, NextInsnsOK DEF Executed
<1>5. g \in Cores
  BY <1>4 DEF Cores
<1>6. /\ SameMode(g, d) /\ SameElw(g, d) /\ SameEvents(g, d) /\ SameGhost(g, d) /\ SameSleep(g, d)
      /\ SameStall(g, d)
  BY <1>4 DEF Cores, SameMode, SameElw, SameEvents, SameGhost, SameSleep, SameStall
<1> HIDE DEF g
<1>7. Fetching(g, d)
  BY <1>5, <1>6 DEF Fetching, SameStall
<1>8. Fetching(prefetcher_fetch(g), d) /\ prefetcher_fetch(g).insn.fetched
  BY <1>5, <1>6, <1>7, PrefetchOK, FetchingChain
<1> QED BY <1>2, <1>3, <1>8, FinishOK DEF SameStep

-----------------------------------------------------------------------------
(* What handlers do before they call check_state.                           *)

(* Fields are changed that the queue and the stalls do not depend on.       *)
LEMMA ReadySame ==
  ASSUME NEW c, Ready(c), NEW d \in Cores, SameStall(d, c), SameEvents(d, c), SameFetch(d, c),
         d.elw_insn /\ d.elw_stalled => c.elw_insn /\ c.elw_stalled, Modes(d)
  PROVE  Ready(d)
<1>1. Clean(d) /\ InMisaligned(d)
  BY DEF Ready, Clean, InMisaligned, SameEvents, SameFetch, SameGhost
<1>2. Accounted(d, "misaligned" \in d.enqueued)
  BY DEF Ready, Accounted, SameStall, SameEvents
<1> QED BY <1>1, <1>2 DEF Ready, SameEvents, SameFetch, SameStall

(* What an inactive core waits for is changed.                              *)
LEMMA ReadyIdle ==
  ASSUME NEW c, Ready(c), ~c.is_active, NEW d \in Cores, SameEvents(d, c), SameGhost(d, c),
         Modes(d), Accounted(d, FALSE)
  PROVE  Ready(d)
<1>1. Clean(d) /\ InMisaligned(d) /\ "misaligned" \notin d.enqueued
  BY DEF Ready, Clean, InMisaligned, SameEvents, SameGhost
<1>2. Accounted(d, "misaligned" \in d.enqueued)
  BY <1>1 DEF Accounted, Bit
<1> QED BY <1>1, <1>2 DEF Ready, SameEvents

(* A core in a misaligned access is awake, in a configuration without       *)
(* asynchronous halts.                                                      *)
LEMMA MisalignedAwake ==
  ASSUME Regular(config), NEW c, Settled(c), "misaligned" \in c.enqueued
  PROVE  ~MustHalt(c) /\ ~c.wfi /\ ~c.halted /\ config.debugger \in {"none", "riscv_dbg"}
BY DEF Settled, Ready, InMisaligned, Active, Regular, Modes, MustHalt

(* The debug unit and GDB halt and resume the core.                         *)
LEMMA HaltReady ==
  ASSUME NEW c, Ready(c), config.debugger # "riscv_dbg", NEW h \in BOOLEAN,
         NEW r, r = [c EXCEPT !.halted = h]
  PROVE  /\ Ready(r) /\ r.halted = h /\ SameSleep(r, c) /\ SameEvents(r, c)
         /\ r.step_mode = c.step_mode
<1>1. c \in Cores
  BY DEF Ready
<1>2. r \in Cores
  BY <1>1 DEF Cores
<1>3. /\ SameStall(r, c) /\ SameEvents(r, c) /\ SameFetch(r, c) /\ SameElw(r, c) /\ SameSleep(r, c)
      /\ r.step_mode = c.step_mode /\ r.debug_mode = c.debug_mode /\ r.req_debug = c.req_debug
      /\ r.halted = h
  BY <1>1 DEF Cores, SameStall, SameEvents, SameFetch, SameGhost, SameElw, SameSleep
<1>4. Modes(r)
  BY <1>3 DEF Ready, Modes, SameSleep
<1> QED BY <1>2, <1>3, <1>4, ReadySame DEF SameElw

LEMMA SetHaltReady ==
  ASSUME Regular(config), config.debugger # "none", NEW c, Ready(c),
         "misaligned" \in c.enqueued => ~c.wfi,
         NEW h \in BOOLEAN, NEW r, r = set_halt_mode(c, h)
  PROVE  /\ Ready(r) /\ r.step_mode = c.step_mode
         /\ "misaligned" \in r.enqueued => ~MustHalt(r) /\ ~r.wfi
<1>1. CASE config.debugger # "riscv_dbg"
  <2>1. r = [c EXCEPT !.halted = h]
    BY <1>1 DEF set_halt_mode
  <2>2. Ready(r) /\ SameEvents(r, c) /\ r.step_mode = c.step_mode
    BY <1>1, <2>1, HaltReady
  <2>3. "misaligned" \notin r.enqueued
    BY <1>1, <2>2 DEF Ready, InMisaligned, Regular
  <2> QED BY <2>2, <2>3
<1>2. CASE config.debugger = "riscv_dbg" /\ c.debug_mode
  <2>1. r = c
    BY <1>2 DEF set_halt_mode
  <2> QED BY <1>2, <2>1 DEF Ready, Modes, MustHalt
<1>3. CASE config.debugger = "riscv_dbg" /\ ~c.debug_mode
  <2>1. c \in Cores /\ c.current_event = "check_all"
    BY DEF Ready, Clean
  <2>2. PICK g \in Cores :
          /\ debug_req(c) = check_state(g)
          /\ SameStall(g, c) /\ SameElw(g, c) /\ SameEvents(g, c) /\ SameFetch(g, c)
          /\ ~g.wfi /\ g.do_step = c.do_step /\ g.req_debug /\ g.halted = c.halted
          /\ g.step_mode = c.step_mode /\ g.debug_mode = c.debug_mode
    BY <2>1, DebugReqIs
  <2>3. r = check_state(g)
    BY <1>3, <2>2 DEF set_halt_mode
  <2>4. Modes(g) /\ ~MustHalt(g)
    BY <1>3, <2>2 DEF Ready, Modes, MustHalt
  <2>5. Ready(g)
    BY <2>2, <2>4, ReadySame DEF SameElw
  <2>6. Settled(r) /\ SameMode(r, g)
    BY <2>2, <2>3, <2>4, <2>5, CheckState
  <2> QED BY <2>2, <2>6 DEF Settled, Ready, Active, InMisaligned, SameMode
<1> QED BY <1>1, <1>2, <1>3

(* The end of a step.                                                       *)
LEMMA AfterInstrOK ==
  ASSUME Regular(config), NEW e, Settled(e), NEW dm, config.debugger = "gdb" => ~dm,
         NEW r, r = AfterInstr(e, dm)
  PROVE  /\ Settled(r)
         /\ config.debugger = "gdb" /\ r.step_mode => r.halted /\ ~r.do_step /\ ~r.is_active
         /\ SameStep(r, e)
<1>1. CASE ~(e.step_mode /\ ~dm)
  BY <1>1 DEF AfterInstr, SameStep
<1>2. CASE e.step_mode /\ ~dm
  <2> DEFINE d == [e EXCEPT !.do_step = FALSE]
             g == IF config.debugger = "gdb" THEN [d EXCEPT !.halted = TRUE] ELSE set_halt_mode(d, TRUE)
  <2>1. r = check_state(g)
    BY <1>2 DEF AfterInstr, StepDone
  <2>2. e \in Cores /\ Ready(e)
    BY DEF Settled, Ready
  <2>3. config.debugger # "none"
    BY <1>2, <2>2 DEF Ready, Modes
  <2>4. d \in Cores
    BY <2>2 DEF Cores
  <2>5. /\ SameStall(d, e) /\ SameEvents(d, e) /\ SameFetch(d, e) /\ SameElw(d, e) /\ SameMode(d, e)
        /\ ~d.do_step /\ d.wfi = e.wfi
    BY <2>2 DEF Cores, SameStall, SameEvents, SameFetch, SameGhost, SameElw, SameMode
  <2> HIDE DEF d
  <2>6. Modes(d)
    BY <2>2, <2>5 DEF Ready, Modes, SameMode
  <2>7. Ready(d)
    BY <2>2, <2>4, <2>5, <2>6, ReadySame DEF SameElw
  <2>8. "misaligned" \in d.enqueued => ~d.wfi
    BY <2>5, MisalignedAwake DEF SameEvents
  <2>9. CASE config.debugger = "gdb"
    <3>1. g = [d EXCEPT !.halted = TRUE]
      BY <2>9
    <3> HIDE DEF g
    <3>2. Ready(g) /\ g.halted /\ SameSleep(g, d) /\ SameEvents(g, d) /\ g.step_mode = d.step_mode
      BY <2>7, <2>9, <3>1, HaltReady
    <3>3. MustHalt(g) /\ "misaligned" \notin g.enqueued
      BY <2>5, <2>9, <3>2 DEF MustHalt, SameSleep, SameEvents, Ready, InMisaligned, Regular
    <3>4. Settled(r) /\ SameMode(r, g) /\ ~r.is_active /\ ~r.do_step
      BY <2>1, <3>2, <3>3, CheckState
    <3> QED BY <2>5, <3>2, <3>4 DEF SameMode, SameStep
  <2>10. CASE config.debugger # "gdb"
    <3>1. g = set_halt_mode(d, TRUE)
      BY <2>10
    <3> HIDE DEF g
    <3>2. Ready(g) /\ ("misaligned" \in g.enqueued => ~MustHalt(g) /\ ~g.wfi)
      BY <2>3, <2>7, <2>8, <3>1, SetHaltReady
    <3> QED BY <2>1, <2>10, <3>2, CheckState DEF SameStep
  <2> QED BY <2>9, <2>10
<1> QED BY <1>1, <1>2

-----------------------------------------------------------------------------
(* The handlers, one by one.                                                *)

Kept(c, n) == Settled(c) /\ StepHeld(c, n)

(* Changes that the instruction does not see.                               *)
LEMMA ExecutingSame ==
  ASSUME NEW c, Executing(c), NEW d \in Cores, SameStall(d, c), SameEvents(d, c), SameGhost(d, c),
         SameSleep(d, c), d.halted = c.halted,
         d.elw_insn /\ d.elw_stalled => c.elw_insn /\ c.elw_stalled, Modes(d)
  PROVE  Executing(d)
<1>1. Clean(d) /\ Active(d)
  BY DEF Executing, Clean, Active, MustHalt, SameEvents, SameGhost, SameSleep
<1> QED BY <1>1 DEF Executing, SameStall, SameEvents

(* The handler has taken its event out of the queue.                        *)
LEMMA ExecutingCore ==
  ASSUME Regular(config), NEW k, Settled(k), "check_all" \in k.enqueued,
         NEW c, c = [k EXCEPT !.enqueued = @ \ {"check_all"},
                              !.current_event = IF config.fast THEN "instr" ELSE @]
  PROVE  Executing(c) /\ SameMode(c, k) /\ c.insn.fetched
<1> DEFINE q == k.enqueued \ {"check_all"}
<1>1. k \in Cores /\ k.current_event = "check_all"
  BY DEF Settled, Ready, Clean
<1>2. c = [k EXCEPT !.enqueued = q, !.current_event = k.current_event]
  BY DEF Regular
<1>3. q \in SUBSET CoreEvents
  BY <1>1 DEF Cores
<1>4. "check_all" \notin q /\ "misaligned" \notin q /\ "instr" \notin q
  BY DEF Settled, Ready, Clean, InMisaligned
<1> HIDE DEF q
<1>5. c \in Cores
  BY <1>1, <1>2, <1>3, ZenonT(60) DEF Cores
<1>6. /\ SameMode(c, k) /\ SameStall(c, k) /\ SameElw(c, k) /\ SameGhost(c, k) /\ SameSleep(c, k)
      /\ c.is_active = k.is_active /\ c.enqueued = q /\ c.current_event = k.current_event
      /\ c.misaligned_access = k.misaligned_access /\ c.insn = k.insn
  BY <1>1, <1>2, <1>3 DEF Cores, SameMode, SameStall, SameElw, SameGhost, SameSleep
<1>7. k.insn.fetched /\ k.is_active /\ k.pending = {} /\ ~k.lost /\ "misaligned" \notin k.enqueued /\ ~k.misaligned_access
  BY DEF Settled, Ready, InMisaligned
<1>8. k.stalled = 0 /\ ~(k.elw_insn /\ k.elw_stalled)
  BY <1>7 DEF Settled, Ready, Accounted, Bit
<1>9. Clean(c) /\ Modes(c) /\ Active(c)
  BY <1>4, <1>6, <1>7 DEF Settled, Ready, Clean, Modes, Active, MustHalt, SameMode, SameGhost, SameSleep
<1> QED BY <1>4, <1>5, <1>6, <1>7, <1>8, <1>9 DEF Executing, SameStall, SameElw

(* Interrupts and debug requests are taken before the instruction.          *)
LEMMA IrqCheckOK ==
  ASSUME NEW c, Executing(c), c.insn.fetched, NEW vector \in NextInsns,
         NEW d, d = iss_irq_check(c, vector)
  PROVE  /\ SameStep(d, c)
         /\ Executing(d) \/ (TakesIrq(c) /\ \E g : Executed(g) /\ SameStep(g, c) /\ Fetching(d, g))
         /\ ~Executing(d) => d.stalled # 0
         /\ d.insn.fetched \/ TakesDebug(c)
<1>1. c \in Cores /\ Modes(c) /\ vector \in Insns
  BY NextInsnsOK DEF Executing
<1>2. CASE TakesDebug(c)
  <2>1. PICK b \in BOOLEAN :
          d = [c EXCEPT !.debug_mode = TRUE, !.debug_saved_irq_enable = b,
                        !.irq_enable = FALSE, !.req_debug = FALSE, !.insn = vector]
    <3>1. c.irq_enable \in BOOLEAN
      BY <1>1 DEF Cores
    <3> QED BY <1>2, <3>1 DEF iss_irq_check
  <2>2. config.debugger = "riscv_dbg"
    BY <1>1, <1>2 DEF TakesDebug, Modes
  <2>3. d \in Cores
    <3>1. ASSUME NEW t \in BOOLEAN, NEW f \in BOOLEAN
          PROVE  [c EXCEPT !.debug_mode = t, !.debug_saved_irq_enable = b,
                           !.irq_enable = f, !.req_debug = f, !.insn = vector] \in Cores
      BY <1>1 DEF Cores
    <3> QED BY <2>1, <3>1
  <2>4. /\ SameStall(d, c) /\ SameEvents(d, c) /\ SameGhost(d, c) /\ SameSleep(d, c) /\ SameElw(d, c)
        /\ d.halted = c.halted
    BY <1>1, <2>1 DEF Cores, SameStall, SameEvents, SameGhost, SameSleep, SameElw
  <2>5. Modes(d)
    BY <1>1, <2>2, <2>4 DEF Modes
  <2> QED BY <1>2, <2>2, <2>3, <2>4, <2>5, ExecutingSame DEF SameElw, SameStep
<1>3. CASE TakesIrq(c)
  <2> DEFINE g == [c EXCEPT !.irq_enable = FALSE, !.req_irq = FALSE, !.elw_insn = FALSE, !.insn = vector]
  <2>1. d = prefetcher_fetch(g)
    BY <1>3 DEF iss_irq_check, TakesIrq
  <2>2. g \in Cores
    BY <1>1 DEF Cores
  <2>3. /\ SameStall(g, c) /\ SameEvents(g, c) /\ SameGhost(g, c) /\ SameSleep(g, c) /\ SameMode(g, c)
        /\ ~g.elw_insn
    BY <1>1 DEF Cores, SameStall, SameEvents, SameGhost, SameSleep, SameMode
  <2> HIDE DEF g
  <2>4. Modes(g)
    BY <1>1, <2>3 DEF Modes, SameMode, SameSleep
  <2>5. Executing(g)
    BY <2>2, <2>3, <2>4, ExecutingSame DEF SameMode
  <2>6. Executed(g)
    <3>1. /\ SameMode(g, g) /\ SameGhost(g, g) /\ SameSleep(g, g) /\ g.is_active
          /\ Accounted(g, g.misaligned_access) /\ "fetch" \notin g.pending /\ ~g.misaligned_access
      BY <2>5 DEF Executing, Accounted, Bit, SameMode, SameGhost, SameSleep
    <3> QED BY <2>2, <2>5, <3>1, StallsExecuted
  <2>7. Fetching(d, g) /\ d.insn.fetched
    BY <2>1, <2>2, PrefetchOK
  <2>8. SameStep(d, c) /\ SameStep(g, c)
    BY <2>3, <2>7 DEF SameStep, Fetching, SameMode
  <2>9. CASE SameStall(d, g)
    <3>1. Modes(d) /\ d \in Cores
      BY <2>4, <2>7 DEF Fetching, Modes, SameMode, SameSleep
    <3> QED BY <2>5, <2>7, <2>8, <2>9, <3>1, ExecutingSame DEF Fetching, SameElw, SameMode
  <2>10. CASE ~SameStall(d, g)
    <3>1. d.stalled = g.stalled + 1 /\ g.stalled = 0
      BY <2>5, <2>7, <2>10 DEF Fetching, Executing
    <3> QED BY <1>3, <2>6, <2>7, <2>8, <3>1
  <2> QED BY <2>9, <2>10
<1>4. CASE ~TakesDebug(c) /\ ~TakesIrq(c)
  <2>1. d = [c EXCEPT !.elw_insn = FALSE]
    BY <1>4 DEF iss_irq_check
  <2>2. d \in Cores
    BY <1>1, <2>1, ZenonT(60) DEF Cores
  <2>3. /\ SameStall(d, c) /\ SameEvents(d, c) /\ SameGhost(d, c) /\ SameSleep(d, c) /\ SameMode(d, c)
        /\ ~d.elw_insn /\ d.insn = c.insn
    BY <1>1, <2>1 DEF Cores, SameStall, SameEvents, SameGhost, SameSleep, SameMode
  <2>4. Modes(d)
    BY <1>1, <2>3 DEF Modes, SameMode, SameSleep
  <2> QED BY <2>2, <2>3, <2>4, ExecutingSame DEF SameMode, SameStep
<1> QED BY <1>2, <1>3, <1>4

(* The handler of the event that checks everything.                         *)
LEMMA CheckAllKeeps ==
  ASSUME Regular(config), config \in Configs, Settled(core), exec_instr_check_all
  PROVE  /\ Settled(core') /\ core.is_active /\ SameStep(core', core)
         /\ config.debugger = "gdb" /\ core'.step_mode =>
              core'.halted /\ ~core'.do_step /\ ~core'.is_active
<1> DEFINE c == [core EXCEPT !.enqueued = @ \ {"check_all"},
                             !.current_event = IF config.fast THEN "instr" ELSE @]
<1>1. Executing(c) /\ SameStep(c, core) /\ core.is_active /\ c.insn.fetched
  <2>1. Executing(c) /\ SameMode(c, core) /\ c.insn.fetched
    BY ExecutingCore DEF exec_instr_check_all
  <2> QED BY <2>1 DEF SameMode, SameStep, exec_instr_check_all, Settled, Ready
<1>2. config.debugger = "gdb" => ~core.debug_mode
  BY DEF Settled, Ready, Modes
<1>3. PICK vector \in NextInsns :
        LET d == iss_irq_check(c, vector) IN
        \/ TakesIrq(c) /\ d.stalled # 0 /\ core' = AfterInstr(Finish(d), core.debug_mode)
        \/ /\ ~(TakesIrq(c) /\ d.stalled # 0)
           /\ \E kind \in config.insns, next \in NextInsns :
                Possible(d, kind) /\ core' = AfterInstr(Executes(d, TakesDebug(c), kind, next), core.debug_mode)
  BY DEF exec_instr_check_all
<1> HIDE DEF c
<1> DEFINE d == iss_irq_check(c, vector)
<1>4. /\ SameStep(d, c)
      /\ Executing(d) \/ (TakesIrq(c) /\ \E g : Executed(g) /\ SameStep(g, c) /\ Fetching(d, g))
      /\ ~Executing(d) => d.stalled # 0
      /\ d.insn.fetched \/ TakesDebug(c)
  BY <1>1, IrqCheckOK
<1>5. CASE TakesIrq(c) /\ d.stalled # 0 /\ core' = AfterInstr(Finish(d), core.debug_mode)
  <2> HIDE DEF d
  <2>1. ~Executing(d)
    BY <1>5 DEF Executing
  <2>2. PICK g : Executed(g) /\ SameStep(g, c) /\ Fetching(d, g) /\ d.insn.fetched
    BY <1>4, <1>5, <2>1 DEF TakesIrq
  <2>3. Settled(Finish(d)) /\ SameStep(Finish(d), core)
    BY <1>1, <2>2, FinishOK DEF SameStep
  <2> QED BY <1>1, <1>2, <1>5, <2>3, AfterInstrOK DEF SameStep
<1>6. CASE /\ ~(TakesIrq(c) /\ d.stalled # 0)
           /\ \E kind \in config.insns, next \in NextInsns :
                Possible(d, kind) /\ core' = AfterInstr(Executes(d, TakesDebug(c), kind, next), core.debug_mode)
  <2> HIDE DEF d
  <2>1. Executing(d)
    BY <1>4, <1>6
  <2>2. PICK kind \in config.insns, next \in NextInsns :
          Possible(d, kind) /\ core' = AfterInstr(Executes(d, TakesDebug(c), kind, next), core.debug_mode)
    BY <1>6
  <2>3. Settled(Executes(d, TakesDebug(c), kind, next)) /\ SameStep(Executes(d, TakesDebug(c), kind, next), d)
    BY <1>4, <2>1, <2>2, ExecutesOK DEF TakesDebug
  <2> QED BY <1>1, <1>2, <1>4, <2>2, <2>3, AfterInstrOK DEF SameStep
<1> QED BY <1>3, <1>5, <1>6

(* The second half of a misaligned access.                                  *)
LEMMA MisalignedKeeps ==
  ASSUME Regular(config), Settled(core), exec_misaligned
  PROVE  Settled(core') /\ config.debugger # "gdb"
<1> DEFINE q == core.enqueued \ {"misaligned"}
           n == core.stalled - 1
           g == [core EXCEPT !.enqueued = q, !.stalled = n, !.misaligned_access = FALSE]
<1>1. "misaligned" \in core.enqueued /\ core' = enqueue_next_instr(g) /\ core \in Cores
  BY DEF exec_misaligned, Settled, Ready
<1>2. /\ core.is_active /\ core.pending = {} /\ ~core.lost /\ core.current_event = "check_all"
      /\ "check_all" \notin core.enqueued /\ "instr" \notin core.enqueued
      /\ config.debugger \in {"none", "riscv_dbg"}
  BY <1>1 DEF Settled, Ready, InMisaligned, Clean, Regular
<1>3. n = 0 /\ ~(core.elw_insn /\ core.elw_stalled)
  BY <1>1, <1>2 DEF Settled, Ready, Accounted, Bit
<1>4. q \in SUBSET CoreEvents /\ n \in Int
  BY <1>1, <1>3 DEF Cores
<1>5. "check_all" \notin q /\ "misaligned" \notin q /\ "instr" \notin q
  BY <1>2
<1> HIDE DEF q, n
<1>6. g \in Cores
  BY <1>1, <1>4 DEF Cores
<1>7. /\ SameMode(g, core) /\ SameElw(g, core) /\ SameGhost(g, core) /\ SameSleep(g, core)
      /\ g.is_active = core.is_active /\ g.enqueued = q /\ g.current_event = core.current_event
      /\ ~g.misaligned_access /\ g.stalled = n /\ g.pending = core.pending /\ g.lost = core.lost
      /\ g.insn = core.insn
  BY <1>1, <1>4 DEF Cores, SameMode, SameElw, SameGhost, SameSleep
<1> HIDE DEF g
<1>8. Clean(g) /\ Modes(g) /\ Active(g) /\ Awake(g)
  BY <1>2, <1>5, <1>7
  DEF Settled, Ready, Clean, Modes, Active, Awake, MustHalt, SameMode, SameGhost, SameSleep
<1>9. Executed(g)
  BY <1>2, <1>3, <1>5, <1>6, <1>7, <1>8 DEF Executed, Accounted, Bit, SameElw
<1>10. Finish(g) = enqueue_next_instr(g)
  BY <1>3, <1>7 DEF Finish
<1>11. Fetching(g, g)
  BY <1>6 DEF Fetching, SameMode, SameElw, SameEvents, SameGhost, SameSleep, SameStall
<1>12. g.insn.fetched
  BY <1>2, <1>7 DEF Settled, Ready
<1> QED BY <1>1, <1>2, <1>9, <1>10, <1>11, <1>12, FinishOK

(* check_state does not resume a core that GDB has stepped.                 *)
LEMMA CheckKeeps ==
  ASSUME NEW k, NEW n, Kept(k, n), NEW d, Ready(d), d.step_mode = k.step_mode,
         k.halted => d.halted, d.do_step = k.do_step,
         "misaligned" \in d.enqueued => ~MustHalt(d) /\ ~d.wfi,
         NEW r, r = check_state(d)
  PROVE  Kept(r, n)
<1>1. Settled(r) /\ SameMode(r, d) /\ (MustHalt(d) => ~r.is_active /\ ~r.do_step)
  BY CheckState
<1>2. ASSUME config.debugger = "gdb", r.step_mode, n # 0
      PROVE  n = 1 /\ r.halted /\ ~r.do_step /\ ~r.is_active
  <2>1. n = 1 /\ k.halted /\ ~k.do_step
    BY <1>1, <1>2 DEF Kept, StepHeld, SameMode
  <2>2. MustHalt(d)
    BY <2>1 DEF MustHalt
  <2> QED BY <1>1, <2>1, <2>2 DEF SameMode, MustHalt
<1> QED BY <1>1, <1>2 DEF Kept, StepHeld

(* An answer comes: the core is not active.                                 *)
LEMMA PendingIsIdle ==
  ASSUME NEW k, Settled(k), k.pending # {}
  PROVE  /\ Ready(k) /\ k \in Cores /\ Modes(k) /\ ~k.is_active /\ ~k.misaligned_access
         /\ "misaligned" \notin k.enqueued /\ Accounted(k, FALSE)
<1>1. Ready(k) /\ k \in Cores /\ Modes(k) /\ ~k.is_active /\ "misaligned" \notin k.enqueued
      /\ ~k.misaligned_access
  BY DEF Settled, Ready, InMisaligned
<1> QED BY <1>1 DEF Ready, Accounted, Bit

LEMMA DataKeeps ==
  ASSUME NEW n, Kept(core, n), data_response
  PROVE  Kept(core', n)
<1> DEFINE p == core.pending \ {"data"}
           m == core.stalled - 1
           c == [core EXCEPT !.pending = p, !.stalled = m]
           d == [c EXCEPT !.elw_insn = FALSE]
<1>1. /\ "data" \in core.pending
      /\ core' = check_state(IF c.misaligned_access THEN [c EXCEPT !.misaligned_access = FALSE] ELSE d)
  BY DEF data_response
<1>2. /\ Ready(core) /\ core \in Cores /\ Modes(core) /\ ~core.is_active /\ ~core.misaligned_access
      /\ "misaligned" \notin core.enqueued /\ Accounted(core, FALSE)
  BY <1>1, PendingIsIdle DEF Kept
<1>3. p \in SUBSET Answers /\ m \in Int
  BY <1>2 DEF Cores
<1>4. /\ "data" \notin p /\ ("fetch" \in p <=> "fetch" \in core.pending)
      /\ ("flush" \in p <=> "flush" \in core.pending)
  OBVIOUS
<1>5. m = Bit("data" \in p) + Bit("fetch" \in p) + Bit("flush" \in p) + Bit(FALSE) + Bit(core.lost)
  BY <1>1, <1>2, <1>4 DEF Accounted, Bit
<1> HIDE DEF p, m
<1>6. c \in Cores
  BY <1>2, <1>3 DEF Cores
<1>7. /\ SameMode(c, core) /\ SameEvents(c, core) /\ SameGhost(c, core) /\ SameSleep(c, core)
      /\ c.stalled = m /\ c.pending = p /\ c.lost = core.lost
  BY <1>2, <1>3 DEF Cores, SameMode, SameEvents, SameGhost, SameSleep
<1> HIDE DEF c
<1>8. d \in Cores
  BY <1>6 DEF Cores
<1>9. /\ SameMode(d, c) /\ SameEvents(d, c) /\ SameGhost(d, c) /\ SameSleep(d, c) /\ SameStall(d, c)
      /\ ~d.elw_insn
  BY <1>6 DEF Cores, SameMode, SameEvents, SameGhost, SameSleep, SameStall
<1>10. core' = check_state(d)
  BY <1>1, <1>2, <1>7 DEF SameEvents
<1> HIDE DEF d
<1>11. SameMode(d, core) /\ SameEvents(d, core) /\ SameGhost(d, core) /\ SameSleep(d, core)
  BY <1>7, <1>9 DEF SameMode, SameEvents, SameGhost, SameSleep
<1>12. Modes(d) /\ Accounted(d, FALSE)
  <2>1. Modes(d)
    BY <1>2, <1>11 DEF Modes, SameMode, SameSleep
  <2>2. d.stalled = m /\ d.pending = p /\ d.lost = core.lost
    BY <1>7, <1>9 DEF SameStall
  <2>3. "flush" \in p => ~core.lost
    BY <1>2, <1>4 DEF Accounted
  <2> QED BY <1>5, <1>9, <2>1, <2>2, <2>3 DEF Accounted
<1>13. Ready(d)
  BY <1>2, <1>8, <1>11, <1>12, ReadyIdle
<1> QED BY <1>2, <1>10, <1>11, <1>13, CheckKeeps DEF SameMode, SameSleep, SameEvents

LEMMA FetchKeeps ==
  ASSUME NEW n, Kept(core, n), fetch_response
  PROVE  Kept(core', n)
<1> DEFINE p == core.pending \ {"fetch"}
           m == core.stalled - 1
           c == [core EXCEPT !.pending = p, !.stalled = m, !.resume = "nothing"]
           d == IF core.resume = "resume_0" THEN after_fill_0(c, "resume_1") ELSE c
<1>1. "fetch" \in core.pending /\ core' = check_state(d)
  BY DEF fetch_response
<1>2. /\ Ready(core) /\ core \in Cores /\ Modes(core) /\ ~core.is_active /\ ~core.misaligned_access
      /\ "misaligned" \notin core.enqueued /\ Accounted(core, FALSE)
  BY <1>1, PendingIsIdle DEF Kept
<1>3. p \in SUBSET Answers /\ m \in Int /\ "nothing" \in Resumptions /\ "resume_1" \in Resumptions
  BY <1>2 DEF Cores, Resumptions
<1>4. /\ "fetch" \notin p /\ ("data" \in p <=> "data" \in core.pending)
      /\ ("flush" \in p <=> "flush" \in core.pending)
  OBVIOUS
<1>5. m = Bit("data" \in p) + Bit("fetch" \in p) + Bit("flush" \in p) + Bit(FALSE) + Bit(core.lost)
  BY <1>1, <1>2, <1>4 DEF Accounted, Bit
<1> HIDE DEF p, m
<1>6. c \in Cores
  BY <1>2, <1>3 DEF Cores
<1>7. /\ SameMode(c, core) /\ SameElw(c, core) /\ SameEvents(c, core) /\ SameGhost(c, core)
      /\ SameSleep(c, core) /\ c.stalled = m /\ c.pending = p /\ c.lost = core.lost
  BY <1>2, <1>3 DEF Cores, SameMode, SameElw, SameEvents, SameGhost, SameSleep
<1> HIDE DEF c
<1>8. Fetching(d, c)
  <2>1. Fetching(c, c)
    BY <1>6 DEF Fetching, SameMode, SameElw, SameEvents, SameGhost, SameSleep, SameStall
  <2> QED BY <1>3, <1>6, <2>1, AfterFillOK
<1> HIDE DEF d
<1>9. /\ d \in Cores /\ SameMode(d, core) /\ SameElw(d, core) /\ SameEvents(d, core)
      /\ SameGhost(d, core) /\ SameSleep(d, core) /\ d.lost = core.lost
  BY <1>7, <1>8 DEF Fetching, SameMode, SameElw, SameEvents, SameGhost, SameSleep
<1>10. Modes(d)
  BY <1>2, <1>9 DEF Modes, SameMode, SameSleep
<1>11. Accounted(d, FALSE)
  <2>1. "flush" \in p => ~core.lost
    BY <1>2, <1>4 DEF Accounted
  <2>2. core.elw_insn /\ core.elw_stalled => "data" \in p
    BY <1>2, <1>4 DEF Accounted
  <2>3. CASE d.stalled = m /\ d.pending = p
    BY <1>5, <1>9, <2>1, <2>2, <2>3 DEF Accounted, SameElw
  <2>4. CASE d.stalled = m + 1 /\ d.pending = p \cup {"fetch"}
    BY <1>3, <1>4, <1>5, <1>9, <2>1, <2>2, <2>4 DEF Accounted, SameElw, Bit
  <2> QED BY <1>7, <1>8, <2>3, <2>4 DEF Fetching, SameStall
<1>12. Ready(d)
  BY <1>2, <1>9, <1>10, <1>11, ReadyIdle
<1> QED BY <1>1, <1>2, <1>9, <1>12, CheckKeeps DEF SameMode, SameSleep, SameEvents

LEMMA FlushKeeps ==
  ASSUME NEW n, Kept(core, n), flush_cache_ack_sync
  PROVE  Kept(core', n)
<1> DEFINE p == core.pending \ {"flush"}
           d == [core EXCEPT !.pending = p, !.lost = TRUE]
<1>1. "flush" \in core.pending /\ core' = check_state(d)
  BY DEF flush_cache_ack_sync
<1>2. /\ Ready(core) /\ core \in Cores /\ Modes(core) /\ ~core.is_active /\ ~core.misaligned_access
      /\ "misaligned" \notin core.enqueued /\ Accounted(core, FALSE)
  BY <1>1, PendingIsIdle DEF Kept
<1>3. p \in SUBSET Answers
  BY <1>2 DEF Cores
<1>4. /\ "flush" \notin p /\ ("fetch" \in p <=> "fetch" \in core.pending)
      /\ ("data" \in p <=> "data" \in core.pending)
  OBVIOUS
<1> HIDE DEF p
<1>5. d \in Cores
  BY <1>2, <1>3 DEF Cores
<1>6. /\ SameMode(d, core) /\ SameElw(d, core) /\ SameEvents(d, core) /\ SameGhost(d, core)
      /\ SameSleep(d, core) /\ d.stalled = core.stalled /\ d.pending = p /\ d.lost
  BY <1>2, <1>3 DEF Cores, SameMode, SameElw, SameEvents, SameGhost, SameSleep
<1> HIDE DEF d
<1>7. Modes(d)
  BY <1>2, <1>6 DEF Modes, SameMode, SameSleep
<1>8. Accounted(d, FALSE)
  BY <1>1, <1>2, <1>4, <1>6 DEF Accounted, Bit, SameElw
<1>9. Ready(d)
  BY <1>2, <1>5, <1>6, <1>7, <1>8, ReadyIdle
<1> QED BY <1>1, <1>2, <1>6, <1>9, CheckKeeps DEF SameMode, SameSleep, SameEvents

-----------------------------------------------------------------------------
(* Interrupts.                                                              *)

(* The event of a pending interrupt request comes and goes.                 *)
LEMMA IrqSyncReady ==
  ASSUME NEW k, Ready(k), NEW d \in Cores, SameStall(d, k), SameFetch(d, k), SameElw(d, k),
         SameSleep(d, k), d.is_active = k.is_active, d.current_event = k.current_event,
         d.misaligned_access = k.misaligned_access, d.halted = k.halted,
         d.step_mode = k.step_mode, d.debug_mode = k.debug_mode, d.req_debug = k.req_debug,
         "instr" \in d.enqueued <=> "instr" \in k.enqueued,
         "check_all" \in d.enqueued <=> "check_all" \in k.enqueued,
         "misaligned" \in d.enqueued <=> "misaligned" \in k.enqueued
  PROVE  Ready(d)
<1>1. Clean(d) /\ InMisaligned(d) /\ Modes(d)
  BY DEF Ready, Clean, InMisaligned, Modes, SameFetch, SameGhost, SameSleep
<1>2. Accounted(d, "misaligned" \in d.enqueued)
  BY DEF Ready, Accounted, Bit, SameStall, SameElw
<1> QED BY <1>1, <1>2 DEF Ready, SameFetch, SameStall

LEMMA IrqReqKeeps ==
  ASSUME NEW n, Kept(core, n), NEW b \in BOOLEAN, irq_req_sync(b)
  PROVE  Kept(core', n)
<1> DEFINE q == core.enqueued \cup {"irq_sync"}
           r == [core EXCEPT !.irq_req_value = b, !.enqueued = q]
<1>1. core' = r /\ core \in Cores /\ Ready(core)
  BY DEF irq_req_sync, Kept, Settled, Ready
<1>2. q \in SUBSET CoreEvents
  BY <1>1 DEF Cores, CoreEvents
<1>3. /\ "instr" \in q <=> "instr" \in core.enqueued
      /\ "check_all" \in q <=> "check_all" \in core.enqueued
      /\ "misaligned" \in q <=> "misaligned" \in core.enqueued
  OBVIOUS
<1> HIDE DEF q
<1>4. r \in Cores
  BY <1>1, <1>2 DEF Cores
<1>5. /\ SameStall(r, core) /\ SameFetch(r, core) /\ SameElw(r, core) /\ SameSleep(r, core)
      /\ SameMode(r, core) /\ r.is_active = core.is_active /\ r.current_event = core.current_event
      /\ r.misaligned_access = core.misaligned_access /\ r.enqueued = q
  BY <1>1, <1>2 DEF Cores, SameStall, SameFetch, SameGhost, SameElw, SameSleep, SameMode
<1> HIDE DEF r
<1>6. Ready(r)
  BY <1>1, <1>3, <1>4, <1>5, IrqSyncReady DEF SameMode
<1>7. Awake(r) /\ Active(r) /\ StepHeld(r, n)
  BY <1>5 DEF Kept, Settled, Awake, Active, StepHeld, Runnable, MustHalt, SameStall, SameMode, SameSleep
<1> QED BY <1>1, <1>6, <1>7 DEF Kept, Settled

LEMMA IrqHandlerKeeps ==
  ASSUME Regular(config), NEW n, Kept(core, n), irq_req_sync_handler
  PROVE  Kept(core', n)
<1> DEFINE q == core.enqueued \ {"irq_sync"}
           c == [core EXCEPT !.enqueued = q, !.irq_req = core.irq_req_value]
           d == [c EXCEPT !.req_irq = c.irq_req]
           p == d.pending \ {"data"}
           m == d.stalled - 1
           e == [d EXCEPT !.elw_stalled = FALSE, !.stalled = m, !.pending = p]
           f == IF c.elw_insn /\ c.elw_stalled THEN e ELSE d
           g == [f EXCEPT !.wfi = FALSE]
<1>1. core \in Cores /\ Ready(core) /\ core.current_event = "check_all"
  BY DEF Kept, Settled, Ready, Clean
<1>2. q \in SUBSET CoreEvents
  BY <1>1 DEF Cores
<1>3. /\ "instr" \in q <=> "instr" \in core.enqueued
      /\ "check_all" \in q <=> "check_all" \in core.enqueued
      /\ "misaligned" \in q <=> "misaligned" \in core.enqueued
  OBVIOUS
<1>4. core' = check_state([iss_irq_req(irq_check(c)) EXCEPT !.wfi = FALSE])
  BY DEF irq_req_sync_handler
<1> HIDE DEF q
<1>5. c \in Cores /\ core.irq_req_value \in BOOLEAN
  BY <1>1, <1>2 DEF Cores
<1>6. /\ SameStall(c, core) /\ SameFetch(c, core) /\ SameElw(c, core) /\ SameSleep(c, core)
      /\ c.halted = core.halted /\ c.step_mode = core.step_mode /\ c.debug_mode = core.debug_mode
      /\ c.req_debug = core.req_debug
      /\ c.is_active = core.is_active /\ c.current_event = core.current_event
      /\ c.misaligned_access = core.misaligned_access /\ c.enqueued = q
  BY <1>1, <1>2, <1>5 DEF Cores, SameStall, SameFetch, SameGhost, SameElw, SameSleep
<1> HIDE DEF c
<1>7. irq_check(c) = c
  BY <1>1, <1>5, <1>6 DEF irq_check, Cores
<1>8. core' = check_state(g)
  BY <1>4, <1>7 DEF iss_irq_req
<1>9. d \in Cores /\ c.irq_req \in BOOLEAN
  BY <1>5 DEF Cores
<1>10. /\ SameStall(d, c) /\ SameFetch(d, c) /\ SameElw(d, c) /\ SameSleep(d, c) /\ SameEvents(d, c)
       /\ SameMode(d, c)
  BY <1>5, <1>9 DEF Cores, SameStall, SameFetch, SameGhost, SameElw, SameSleep, SameEvents, SameMode
<1> HIDE DEF d
<1>11. Ready(c)
  BY <1>1, <1>3, <1>5, <1>6, IrqSyncReady
<1>12. Ready(d)
  BY <1>9, <1>10, <1>11, IrqSyncReady DEF SameEvents, SameMode
<1>13. /\ Ready(f) /\ SameMode(f, d) /\ SameEvents(f, d) /\ SameSleep(f, d) /\ SameGhost(f, d)
  <2>1. CASE ~(c.elw_insn /\ c.elw_stalled)
    BY <1>12, <2>1 DEF SameMode, SameEvents, SameSleep, SameGhost
  <2>2. CASE c.elw_insn /\ c.elw_stalled
    <3>1. "data" \in d.pending /\ ~d.is_active /\ "misaligned" \notin d.enqueued
      BY <1>10, <1>12, <2>2 DEF Ready, Accounted, InMisaligned, SameElw
    <3>2. Accounted(d, FALSE) /\ Modes(d)
      BY <1>12, <3>1 DEF Ready, Accounted, Bit
    <3>3. /\ "data" \notin p /\ ("fetch" \in p <=> "fetch" \in d.pending)
          /\ ("flush" \in p <=> "flush" \in d.pending)
      OBVIOUS
    <3>4. p \in SUBSET Answers /\ m \in Int
      BY <1>9 DEF Cores
    <3>5. m = Bit("data" \in p) + Bit("fetch" \in p) + Bit("flush" \in p) + Bit(FALSE) + Bit(d.lost)
      BY <3>1, <3>2, <3>3 DEF Accounted, Bit
    <3>6. "flush" \in p => ~d.lost
      BY <3>2, <3>3 DEF Accounted
    <3> HIDE DEF p, m
    <3>7. e \in Cores
      BY <1>9, <3>4 DEF Cores
    <3>8. /\ SameMode(e, d) /\ SameEvents(e, d) /\ SameSleep(e, d) /\ SameGhost(e, d)
          /\ ~e.elw_stalled /\ e.stalled = m /\ e.pending = p /\ e.lost = d.lost
      BY <1>9, <3>4 DEF Cores, SameMode, SameEvents, SameSleep, SameGhost
    <3> HIDE DEF e
    <3>9. Accounted(e, FALSE)
      BY <3>5, <3>6, <3>8 DEF Accounted
    <3>10. Modes(e)
      BY <3>2, <3>8 DEF Modes, SameMode, SameSleep
    <3>11. Ready(e)
      BY <1>12, <3>1, <3>7, <3>8, <3>9, <3>10, ReadyIdle
    <3> QED BY <2>2, <3>8, <3>11
  <2> QED BY <2>1, <2>2
<1> HIDE DEF f
<1>14. g \in Cores /\ f \in Cores
  BY <1>13 DEF Ready, Cores
<1>15. /\ SameStall(g, f) /\ SameElw(g, f) /\ SameFetch(g, f) /\ SameEvents(g, f) /\ SameMode(g, f)
       /\ g.do_step = f.do_step /\ ~g.wfi
  BY <1>14 DEF Cores, SameStall, SameElw, SameFetch, SameGhost, SameEvents, SameMode
<1> HIDE DEF g
<1>16. Ready(g)
  <2>1. Modes(g)
    BY <1>13, <1>15 DEF Ready, Modes, SameMode
  <2> QED BY <1>13, <1>14, <1>15, <2>1, ReadySame DEF SameElw
<1>17. /\ g.halted = core.halted /\ g.step_mode = core.step_mode /\ g.do_step = core.do_step
       /\ "misaligned" \in g.enqueued <=> "misaligned" \in core.enqueued
  BY <1>3, <1>6, <1>10, <1>13, <1>15 DEF SameMode, SameSleep, SameEvents
<1>18. "misaligned" \in g.enqueued => ~MustHalt(g) /\ ~g.wfi
  BY <1>15, <1>17, MisalignedAwake DEF Kept, MustHalt
<1> QED BY <1>8, <1>16, <1>17, <1>18, CheckKeeps

-----------------------------------------------------------------------------
(* The debuggers, fetch enable and reset.                                   *)

LEMMA HaltSyncKeeps ==
  ASSUME Regular(config), NEW n, Kept(core, n), NEW b \in BOOLEAN, halt_sync(b)
  PROVE  Kept(core', 0)
<1> DEFINE c == set_halt_mode(core, b)
<1>1. config.debugger # "none" /\ core' = check_state(c) /\ Settled(core) /\ Ready(core)
  BY DEF halt_sync, Debugs, Kept, Settled
<1>2. "misaligned" \in core.enqueued => ~core.wfi
  BY <1>1, MisalignedAwake
<1>3. Ready(c) /\ ("misaligned" \in c.enqueued => ~MustHalt(c) /\ ~c.wfi)
  BY <1>1, <1>2, SetHaltReady
<1> HIDE DEF c
<1>4. Settled(core')
  BY <1>1, <1>3, CheckState
<1> QED BY <1>4 DEF Kept, StepHeld

LEMMA DbgCtrlKeeps ==
  ASSUME Regular(config), NEW n, Kept(core, n), NEW h \in BOOLEAN, NEW s \in BOOLEAN, dbg_ctrl(h, s)
  PROVE  Kept(core', 0)
<1> DEFINE c == set_halt_mode(core, h)
           d == [c EXCEPT !.step_mode = s]
<1>1. config.debugger = "dbg_unit" /\ core' = check_state(d) /\ Settled(core) /\ Ready(core)
  BY DEF dbg_ctrl, Debugs, Kept, Settled
<1>2. "misaligned" \in core.enqueued => ~core.wfi
  BY <1>1, MisalignedAwake
<1>3. Ready(c)
  BY <1>1, <1>2, SetHaltReady
<1> HIDE DEF c
<1>4. c \in Cores
  BY <1>3 DEF Ready
<1>5. d \in Cores
  BY <1>4 DEF Cores
<1>6. /\ SameStall(d, c) /\ SameEvents(d, c) /\ SameFetch(d, c) /\ SameElw(d, c) /\ SameSleep(d, c)
      /\ d.halted = c.halted /\ d.req_debug = c.req_debug /\ d.debug_mode = c.debug_mode
  BY <1>4 DEF Cores, SameStall, SameEvents, SameFetch, SameGhost, SameElw, SameSleep
<1> HIDE DEF d
<1>7. Modes(d)
  BY <1>1, <1>3, <1>6 DEF Ready, Modes
<1>8. Ready(d)
  BY <1>3, <1>5, <1>6, <1>7, ReadySame DEF SameElw
<1>9. "misaligned" \notin d.enqueued
  BY <1>1, <1>8 DEF Ready, InMisaligned, Regular
<1>10. Settled(core')
  BY <1>1, <1>8, <1>9, CheckState
<1> QED BY <1>10 DEF Kept, StepHeld

(* The pc is set: the core is stopped until check_state wakes it.           *)
LEMMA RefetchReady ==
  ASSUME NEW c, Ready(c), "misaligned" \notin c.enqueued, NEW insn \in Insns,
         NEW r, r = prefetcher_refetch(c, insn)
  PROVE  /\ Ready(r) /\ ~r.is_active /\ "misaligned" \notin r.enqueued
         /\ SameMode(r, c) /\ SameSleep(r, c)
<1> DEFINE q == c.enqueued \ {"check_all"}
<1>1. c \in Cores /\ c.current_event = "check_all"
  BY DEF Ready, Clean
<1>2. r = [c EXCEPT !.insn = insn, !.do_fetch = TRUE, !.is_active = FALSE, !.enqueued = q]
  BY <1>1 DEF prefetcher_refetch
<1>3. q \in SUBSET CoreEvents
  BY <1>1 DEF Cores
<1>4. "check_all" \notin q /\ "misaligned" \notin q /\ ("instr" \in q <=> "instr" \in c.enqueued)
  OBVIOUS
<1> HIDE DEF q
<1>5. r \in Cores
  <2>1. ASSUME NEW t \in BOOLEAN, NEW f \in BOOLEAN
        PROVE  [c EXCEPT !.insn = insn, !.do_fetch = t, !.is_active = f, !.enqueued = q] \in Cores
    BY <1>1, <1>3 DEF Cores
  <2> QED BY <1>2, <2>1
<1>6. /\ SameMode(r, c) /\ SameElw(r, c) /\ SameSleep(r, c) /\ SameStall(r, c)
      /\ r.early = c.early /\ r.twice = c.twice /\ r.do_fetch
      /\ ~r.is_active /\ r.enqueued = q /\ r.current_event = c.current_event
      /\ r.misaligned_access = c.misaligned_access
  BY <1>1, <1>2, <1>3 DEF Cores, SameMode, SameElw, SameSleep, SameStall
<1>7. Clean(r) /\ Modes(r) /\ InMisaligned(r)
  BY <1>4, <1>6 DEF Ready, Clean, Modes, InMisaligned, SameMode, SameSleep
<1>8. Accounted(r, "misaligned" \in r.enqueued)
  BY <1>4, <1>6 DEF Ready, Accounted, Bit, SameStall, SameElw
<1> QED BY <1>4, <1>5, <1>6, <1>7, <1>8 DEF Ready

(* Under a debugger that halts the core at any time, a regular core makes   *)
(* no misaligned access.                                                    *)
LEMMA NoMisaligned ==
  ASSUME Regular(config), config.debugger \in {"gdb", "dbg_unit"}, NEW c, Ready(c)
  PROVE  "misaligned" \notin c.enqueued
BY DEF Ready, InMisaligned, Regular

LEMMA DbgNpcKeeps ==
  ASSUME Regular(config), NEW n, Kept(core, n), NEW insn \in NextInsns, dbg_npc(insn)
  PROVE  Kept(core', n)
<1> DEFINE c == prefetcher_refetch(core, insn)
           d == [c EXCEPT !.wfi = FALSE]
<1>1. config.debugger = "dbg_unit" /\ core' = check_state(d) /\ Ready(core) /\ insn \in Insns
  BY NextInsnsOK DEF dbg_npc, Debugs, Kept, Settled
<1>2. /\ Ready(c) /\ ~c.is_active /\ "misaligned" \notin c.enqueued
      /\ SameMode(c, core) /\ SameSleep(c, core)
  BY <1>1, NoMisaligned, RefetchReady
<1> HIDE DEF c
<1>3. c \in Cores /\ d \in Cores
  BY <1>2 DEF Ready, Cores
<1>4. /\ SameStall(d, c) /\ SameEvents(d, c) /\ SameFetch(d, c) /\ SameElw(d, c) /\ SameMode(d, c)
      /\ d.do_step = c.do_step
  BY <1>3 DEF Cores, SameStall, SameEvents, SameFetch, SameGhost, SameElw, SameMode
<1> HIDE DEF d
<1>5. Modes(d)
  BY <1>2, <1>4 DEF Ready, Modes, SameMode
<1>6. Ready(d)
  BY <1>2, <1>3, <1>4, <1>5, ReadySame DEF SameElw
<1> QED BY <1>1, <1>2, <1>4, <1>6, CheckKeeps DEF SameMode, SameSleep, SameEvents

LEMMA GdbStopKeeps ==
  ASSUME Regular(config), NEW n, Kept(core, n), gdbserver_stop
  PROVE  Kept(core', n)
<1> DEFINE c == [core EXCEPT !.halted = TRUE]
<1>1. config.debugger = "gdb" /\ core' = check_state(c) /\ Ready(core)
  BY DEF gdbserver_stop, Debugs, Kept, Settled
<1>2. Ready(c) /\ c.halted /\ SameSleep(c, core) /\ SameEvents(c, core) /\ c.step_mode = core.step_mode
  BY <1>1, HaltReady
<1> HIDE DEF c
<1>3. "misaligned" \notin c.enqueued
  BY <1>1, <1>2, NoMisaligned
<1> QED BY <1>1, <1>2, <1>3, CheckKeeps DEF SameSleep

LEMMA GdbContKeeps ==
  ASSUME Regular(config), NEW n, Kept(core, n), gdbserver_cont
  PROVE  Kept(core', 0)
<1> DEFINE c == [core EXCEPT !.halted = FALSE]
<1>1. config.debugger = "gdb" /\ core' = check_state(c) /\ Ready(core)
  BY DEF gdbserver_cont, Debugs, Kept, Settled
<1>2. Ready(c)
  BY <1>1, HaltReady
<1> HIDE DEF c
<1>3. "misaligned" \notin c.enqueued
  BY <1>1, <1>2, NoMisaligned
<1> QED BY <1>1, <1>2, <1>3, CheckState DEF Kept, StepHeld

LEMMA GdbStepiKeeps ==
  ASSUME Regular(config), NEW n, Kept(core, n), gdbserver_stepi
  PROVE  Kept(core', 0)
<1> DEFINE c == [core EXCEPT !.halted = FALSE]
           d == [c EXCEPT !.step_mode = TRUE]
<1>1. config.debugger = "gdb" /\ Ready(core) /\ core \in Cores
  BY DEF gdbserver_stepi, Debugs, Kept, Settled, Ready
<1>2. core' = check_state(d)
  BY DEF gdbserver_stepi
<1>3. Ready(c)
  BY <1>1, HaltReady
<1> HIDE DEF c
<1>4. c \in Cores /\ d \in Cores
  BY <1>3 DEF Ready, Cores
<1>5. /\ SameStall(d, c) /\ SameEvents(d, c) /\ SameFetch(d, c) /\ SameElw(d, c) /\ SameSleep(d, c)
      /\ d.halted = c.halted /\ d.req_debug = c.req_debug /\ d.debug_mode = c.debug_mode
  BY <1>4 DEF Cores, SameStall, SameEvents, SameFetch, SameGhost, SameElw, SameSleep
<1> HIDE DEF d
<1>6. Modes(d)
  BY <1>1, <1>3, <1>5 DEF Ready, Modes
<1>7. Ready(d)
  BY <1>3, <1>4, <1>5, <1>6, ReadySame DEF SameElw
<1>8. "misaligned" \notin d.enqueued
  BY <1>1, <1>7, NoMisaligned
<1> QED BY <1>2, <1>7, <1>8, CheckState DEF Kept, StepHeld

LEMMA RegSetKeeps ==
  ASSUME Regular(config), NEW n, Kept(core, n), NEW insn \in NextInsns, gdbserver_reg_set(insn)
  PROVE  Kept(core', n)
<1>1. /\ config.debugger = "gdb" /\ core' = prefetcher_refetch(core, insn) /\ Ready(core)
      /\ core.halted /\ insn \in Insns
  BY NextInsnsOK DEF gdbserver_reg_set, Debugs, Kept, Settled
<1>2. Ready(core') /\ ~core'.is_active /\ SameMode(core', core) /\ SameSleep(core', core)
  BY <1>1, NoMisaligned, RefetchReady
<1>3. Awake(core') /\ Active(core')
  BY <1>1, <1>2 DEF Awake, Active, Runnable, SameMode
<1> QED BY <1>2, <1>3 DEF Kept, Settled, StepHeld, SameMode, SameSleep

LEMMA FetchenKeeps ==
  ASSUME Regular(config), NEW n, Kept(core, n), NEW b \in BOOLEAN, fetchen_sync(b)
  PROVE  Kept(core', n)
<1> DEFINE c == [core EXCEPT !.fetch_enable = b]
           d == IF b /\ ~core.fetch_enable THEN prefetcher_refetch(c, Elsewhere) ELSE c
<1>1. core \in Cores /\ Ready(core) /\ "misaligned" \notin core.enqueued /\ core' = check_state(d)
  BY DEF fetchen_sync, Kept, Settled, Ready
<1>2. c \in Cores
  BY <1>1 DEF Cores
<1>3. /\ SameStall(c, core) /\ SameEvents(c, core) /\ SameFetch(c, core) /\ SameElw(c, core)
      /\ SameSleep(c, core) /\ c.halted = core.halted /\ c.req_debug = core.req_debug
      /\ c.debug_mode = core.debug_mode /\ c.step_mode = core.step_mode
  BY <1>1 DEF Cores, SameStall, SameEvents, SameFetch, SameGhost, SameElw, SameSleep
<1> HIDE DEF c
<1>4. Ready(c)
  <2>1. Modes(c)
    BY <1>1, <1>3 DEF Ready, Modes, SameSleep
  <2> QED BY <1>1, <1>2, <1>3, <2>1, ReadySame DEF SameElw
<1>5. "misaligned" \notin c.enqueued
  BY <1>1, <1>3 DEF SameEvents
<1>6. Ready(d) /\ "misaligned" \notin d.enqueued /\ SameMode(d, c) /\ SameSleep(d, c)
  <2>1. CASE b /\ ~core.fetch_enable
    BY <1>4, <1>5, <2>1, RefetchReady, NextInsnsOK
  <2>2. CASE ~(b /\ ~core.fetch_enable)
    BY <1>4, <1>5, <2>2 DEF SameMode, SameSleep
  <2> QED BY <2>1, <2>2
<1> HIDE DEF d
<1> QED BY <1>1, <1>3, <1>6, CheckKeeps DEF SameMode, SameSleep

(* A core that waits for nothing and is not active, in no debug request.    *)
LEMMA StartReady ==
  ASSUME NEW c \in Cores, Clean(c), c.stalled = 0, c.pending = {}, ~c.lost, ~c.is_active,
         ~c.misaligned_access, "check_all" \notin c.enqueued, "misaligned" \notin c.enqueued,
         ~c.elw_stalled, ~c.req_debug, c.halted => config.debugger = "gdb",
         ~c.step_mode, ~c.do_step, config.debugger # "riscv_dbg" => ~c.debug_mode
  PROVE  Ready(c)
<1>1. Accounted(c, "misaligned" \in c.enqueued) /\ Modes(c) /\ InMisaligned(c)
  BY DEF Accounted, Bit, Modes, InMisaligned
<1> QED BY <1>1 DEF Ready

LEMMA ResetKeeps ==
  ASSUME config \in Configs, NEW n, Kept(core, n), reset
  PROVE  Kept(core', 0)
<1> DEFINE q == IF core.is_active THEN core.enqueued \ {core.current_event} ELSE core.enqueued
           c == [core EXCEPT !.enqueued = q]
           d == ResetFields(c)
<1>1. /\ core \in Cores /\ Ready(core) /\ Clean(core) /\ core.pending = {}
      /\ "misaligned" \notin core.enqueued
  BY DEF reset, Kept, Settled, Ready
<1>2. core' = check_state(d)
  BY DEF reset
<1>3. q \in SUBSET CoreEvents
  BY <1>1 DEF Cores
<1>4. "check_all" \notin q /\ "misaligned" \notin q /\ "instr" \notin q
  BY <1>1 DEF Ready, Clean
<1> HIDE DEF q
<1>5. c \in Cores
  BY <1>1, <1>3 DEF Cores
<1>6. /\ c.enqueued = q /\ SameGhost(c, core) /\ c.pending = core.pending
      /\ c.current_event = core.current_event /\ c.debug_mode = core.debug_mode
  BY <1>1, <1>3 DEF Cores, SameGhost
<1> HIDE DEF c
<1> DEFINE fe == config.fetch_enable
           h == Debugs({"gdb"})
<1>7. fe \in BOOLEAN /\ h \in BOOLEAN /\ (h => config.debugger = "gdb") /\ Elsewhere \in Insns
  BY CoreAssumption, NextInsnsOK DEF Debugs
<1>8. PICK f \in BOOLEAN, t \in BOOLEAN, i \in Insns, z \in Int :
        /\ f = FALSE /\ t = TRUE /\ z = 0
        /\ d = [c EXCEPT !.is_active = f, !.stalled = z, !.wfi = f, !.misaligned_access = f,
                  !.halted = h, !.step_mode = f, !.do_step = f,
                  !.fetch_enable = fe, !.irq_req = f, !.req_irq = f,
                  !.irq_enable = f, !.req_debug = f, !.elw_insn = f, !.elw_stalled = f,
                  !.do_fetch = t, !.insn = i, !.lost = f]
  <2>1. FALSE \in BOOLEAN /\ TRUE \in BOOLEAN /\ 0 \in Int
    OBVIOUS
  <2> QED BY <1>7, <2>1 DEF ResetFields
<1> HIDE DEF fe, h, d
<1>9. d \in Cores
  <2> DEFINE d1 == [c EXCEPT !.is_active = f, !.stalled = z, !.wfi = f, !.misaligned_access = f,
                             !.halted = h, !.step_mode = f]
             d2 == [d1 EXCEPT !.do_step = f, !.fetch_enable = fe, !.irq_req = f, !.req_irq = f,
                              !.irq_enable = f, !.req_debug = f]
  <2>1. d = [d2 EXCEPT !.elw_insn = f, !.elw_stalled = f, !.do_fetch = t, !.insn = i, !.lost = f]
    BY <1>8
  <2>2. d1 \in Cores
    BY <1>5, <1>7 DEF Cores
  <2> HIDE DEF d1
  <2>3. d2 \in Cores
    BY <1>7, <2>2 DEF Cores
  <2> HIDE DEF d2
  <2>4. [d2 EXCEPT !.elw_insn = f, !.elw_stalled = f, !.do_fetch = t, !.insn = i, !.lost = f] \in Cores
    <3>1. [d2 EXCEPT !.elw_insn = f, !.elw_stalled = f, !.do_fetch = t] \in Cores
      BY <2>3 DEF Cores
    <3>2. ASSUME NEW g \in Cores PROVE [g EXCEPT !.insn = i, !.lost = f] \in Cores
      BY DEF Cores
    <3> QED BY <3>1, <3>2
  <2> QED BY <2>1, <2>4
<1>10. /\ d.stalled = 0 /\ ~d.lost /\ ~d.is_active /\ ~d.misaligned_access /\ ~d.elw_stalled
       /\ ~d.req_debug /\ d.halted = h /\ ~d.step_mode /\ ~d.do_step
       /\ d.enqueued = c.enqueued /\ d.pending = c.pending
       /\ d.early = c.early /\ d.twice = c.twice /\ d.do_fetch
       /\ d.current_event = c.current_event /\ d.debug_mode = c.debug_mode
  BY <1>5, <1>7, <1>8 DEF Cores
<1>11. Clean(d)
  BY <1>1, <1>4, <1>6, <1>10 DEF Clean, SameGhost
<1>12. config.debugger # "riscv_dbg" => ~d.debug_mode
  BY <1>1, <1>6, <1>10 DEF Ready, Modes
<1>13. Ready(d)
  BY <1>1, <1>4, <1>6, <1>7, <1>9, <1>10, <1>11, <1>12, StartReady
<1> QED BY <1>2, <1>4, <1>6, <1>10, <1>13, CheckState DEF Kept, StepHeld

-----------------------------------------------------------------------------
(* CoreInv is inductive.                                                    *)

LEMMA InitInv == Init => CoreInv
<1> SUFFICES ASSUME Init PROVE CoreInv
  OBVIOUS
<1> DEFINE h == Debugs({"gdb"})
           fe == config.fetch_enable
<1>1. config \in Configs /\ ran = 0
  BY DEF Init
<1>2. fe \in BOOLEAN /\ h \in BOOLEAN /\ (h => config.debugger = "gdb") /\ Elsewhere \in Insns
  BY <1>1, CoreAssumption, NextInsnsOK DEF Debugs
<1>3. PICK c :
       /\ core = check_state(c)
       /\ c = [is_active |-> FALSE, stalled |-> 0, wfi |-> FALSE, misaligned_access |-> FALSE,
          halted |-> h, step_mode |-> FALSE, do_step |-> FALSE,
          fetch_enable |-> fe, current_event |-> "check_all", enqueued |-> {},
          irq_req |-> FALSE, irq_req_value |-> FALSE, req_irq |-> FALSE, irq_enable |-> FALSE,
          req_debug |-> FALSE, debug_mode |-> FALSE, debug_saved_irq_enable |-> FALSE,
          elw_insn |-> FALSE, elw_stalled |-> FALSE, do_fetch |-> TRUE, insn |-> Elsewhere,
          resume |-> "nothing", pending |-> {}, lost |-> FALSE, early |-> FALSE, twice |-> FALSE]
  BY DEF Init
<1>4. c \in Cores
  <2>1. "check_all" \in CoreEvents /\ "nothing" \in Resumptions
    BY DEF CoreEvents, Resumptions
  <2> HIDE DEF h, fe
  <2> QED BY <1>2, <1>3, <2>1 DEF Cores
<1>5. /\ c.stalled = 0 /\ ~c.lost /\ ~c.is_active /\ ~c.misaligned_access /\ ~c.elw_stalled
      /\ ~c.req_debug /\ c.halted = h /\ ~c.step_mode /\ ~c.do_step /\ c.enqueued = {}
      /\ c.pending = {} /\ ~c.debug_mode /\ c.current_event = "check_all" /\ ~c.early /\ ~c.twice
      /\ c.do_fetch
  BY <1>3
<1>6. Clean(c)
  BY <1>5 DEF Clean
<1>7. Ready(c)
  BY <1>2, <1>4, <1>5, <1>6, StartReady
<1>8. Settled(core)
  BY <1>3, <1>5, <1>7, CheckState
<1> QED BY <1>1, <1>8 DEF CoreInv, StepHeld

LEMMA CountOK ==
  ASSUME NEW n \in 0..2
  PROVE  Count(n) \in 0..2 /\ (n = 0 => Count(n) = 1)
BY DEF Count

(* The handler of the event that checks everything executes an instruction  *)
(* only if the core is active: in a step, it is the first one.              *)
LEMMA CheckAllStep ==
  ASSUME Regular(config), config \in Configs, ran \in 0..2, Kept(core, ran), exec_instr_check_all
  PROVE  Kept(core', ran')
<1>1. /\ Settled(core') /\ core.is_active /\ SameStep(core', core)
      /\ config.debugger = "gdb" /\ core'.step_mode =>
           core'.halted /\ ~core'.do_step /\ ~core'.is_active
  BY CheckAllKeeps DEF Kept
<1>2. ran' = ran \/ ran' = Count(ran)
  BY DEF exec_instr_check_all
<1>3. config.debugger = "gdb" /\ core'.step_mode => ran = 0
  BY <1>1 DEF Kept, StepHeld, SameStep
<1> QED BY <1>1, <1>2, <1>3, CountOK DEF Kept, StepHeld

LEMMA NextInv == CoreInv /\ [Next]_vars => CoreInv'
<1> SUFFICES ASSUME CoreInv, [Next]_vars PROVE CoreInv'
  OBVIOUS
<1>1. config \in Configs /\ ran \in 0..2
  BY DEF CoreInv
<1>2. config' = config
  BY DEF Next, Debugger, vars, exec_instr, exec_instr_check_all, exec_misaligned, data_response,
    fetch_response, flush_cache_ack_sync, irq_req_sync_handler, irq_req_sync, halt_sync, dbg_ctrl,
    dbg_npc, gdbserver_stop, gdbserver_cont, gdbserver_stepi, gdbserver_reg_set, fetchen_sync, reset
<1>3. ran' \in 0..2
  <2>1. ran' = ran \/ ran' = Count(ran) \/ ran' = 0
    BY DEF Next, Debugger, vars, exec_instr, exec_instr_check_all, exec_misaligned, data_response,
      fetch_response, flush_cache_ack_sync, irq_req_sync_handler, irq_req_sync, halt_sync, dbg_ctrl,
      dbg_npc, gdbserver_stop, gdbserver_cont, gdbserver_stepi, gdbserver_reg_set, fetchen_sync, reset
  <2> QED BY <1>1, <2>1, CountOK
<1>4. ASSUME Regular(config)
      PROVE  Kept(core', ran')
  <2>1. Kept(core, ran)
    BY <1>4 DEF CoreInv, Kept
  <2>2. CASE exec_instr
    BY <2>1, <2>2 DEF exec_instr, Kept, Settled, Ready, Clean
  <2>3. CASE exec_instr_check_all
    BY <1>1, <1>4, <2>1, <2>3, CheckAllStep
  <2>4. CASE exec_misaligned
    BY <1>4, <2>1, <2>4, MisalignedKeeps DEF Kept, StepHeld
  <2>5. CASE data_response
    <3>1. ran' = ran
      BY <2>5 DEF data_response
    <3> QED BY <2>1, <2>5, <3>1, DataKeeps
  <2>6. CASE fetch_response
    <3>1. ran' = ran
      BY <2>6 DEF fetch_response
    <3> QED BY <2>1, <2>6, <3>1, FetchKeeps
  <2>7. CASE flush_cache_ack_sync
    <3>1. ran' = ran
      BY <2>7 DEF flush_cache_ack_sync
    <3> QED BY <2>1, <2>7, <3>1, FlushKeeps
  <2>8. CASE irq_req_sync_handler
    <3>1. ran' = ran
      BY <2>8 DEF irq_req_sync_handler
    <3> QED BY <1>4, <2>1, <2>8, <3>1, IrqHandlerKeeps
  <2>9. ASSUME NEW b \in BOOLEAN, irq_req_sync(b)
        PROVE  Kept(core', ran')
    <3>1. ran' = ran
      BY <2>9 DEF irq_req_sync
    <3> QED BY <2>1, <2>9, <3>1, IrqReqKeeps
  <2>10. ASSUME NEW b \in BOOLEAN, halt_sync(b)
         PROVE  Kept(core', ran')
    <3>1. ran' = 0
      BY <2>10 DEF halt_sync
    <3> QED BY <1>4, <2>1, <2>10, <3>1, HaltSyncKeeps
  <2>11. ASSUME NEW b \in BOOLEAN, NEW s \in BOOLEAN, dbg_ctrl(b, s)
         PROVE  Kept(core', ran')
    <3>1. ran' = 0
      BY <2>11 DEF dbg_ctrl
    <3> QED BY <1>4, <2>1, <2>11, <3>1, DbgCtrlKeeps
  <2>12. ASSUME NEW insn \in NextInsns, dbg_npc(insn)
         PROVE  Kept(core', ran')
    <3>1. ran' = ran
      BY <2>12 DEF dbg_npc
    <3> QED BY <1>4, <2>1, <2>12, <3>1, DbgNpcKeeps
  <2>13. ASSUME NEW insn \in NextInsns, gdbserver_reg_set(insn)
         PROVE  Kept(core', ran')
    <3>1. ran' = ran
      BY <2>13 DEF gdbserver_reg_set
    <3> QED BY <1>4, <2>1, <2>13, <3>1, RegSetKeeps
  <2>14. CASE gdbserver_stop
    <3>1. ran' = ran
      BY <2>14 DEF gdbserver_stop
    <3> QED BY <1>4, <2>1, <2>14, <3>1, GdbStopKeeps
  <2>15. CASE gdbserver_cont
    <3>1. ran' = 0
      BY <2>15 DEF gdbserver_cont
    <3> QED BY <1>4, <2>1, <2>15, <3>1, GdbContKeeps
  <2>16. CASE gdbserver_stepi
    <3>1. ran' = 0
      BY <2>16 DEF gdbserver_stepi
    <3> QED BY <1>4, <2>1, <2>16, <3>1, GdbStepiKeeps
  <2>17. ASSUME NEW b \in BOOLEAN, fetchen_sync(b)
         PROVE  Kept(core', ran')
    <3>1. ran' = ran
      BY <2>17 DEF fetchen_sync
    <3> QED BY <1>4, <2>1, <2>17, <3>1, FetchenKeeps
  <2>18. CASE reset
    <3>1. ran' = 0
      BY <2>18 DEF reset
    <3> QED BY <1>1, <2>1, <2>18, <3>1, ResetKeeps
  <2>19. CASE UNCHANGED vars
    BY <2>1, <2>19 DEF vars
  <2> QED BY <2>2, <2>3, <2>4, <2>5, <2>6, <2>7, <2>8, <2>9, <2>10, <2>11, <2>12, <2>13, <2>14,
          <2>15, <2>16, <2>17, <2>18, <2>19 DEF Next, Debugger
<1>5. Regular(config) => Kept(core', ran')
  BY <1>4
<1> QED BY <1>1, <1>2, <1>3, <1>5 DEF CoreInv, Kept, Settled, StepHeld, Ready, Modes, InMisaligned

-----------------------------------------------------------------------------
(* The theorems.                                                            *)

(* The invariant, and with it the type of every field of a regular core.    *)
THEOREM CoreInvariant == Spec => []CoreInv
<1> QED BY InitInv, NextInv, PTL DEF Spec

(* The core has exactly one event for its next instruction when it is       *)
(* active and none otherwise, whatever the order of stalls, interrupts,     *)
(* halts, steps, fetch enable and reset (iss_wrapper::check_state).         *)
THEOREM OneInstructionEventCorrect == Spec => [](Regular(config) => OneInstructionEvent)
<1>1. CoreInv => (Regular(config) => OneInstructionEvent)
  <2> SUFFICES ASSUME CoreInv, Regular(config) PROVE OneInstructionEvent
    OBVIOUS
  <2>1. /\ core \in Cores /\ "instr" \notin core.enqueued /\ core.is_active \in BOOLEAN
        /\ core.is_active <=> "check_all" \in core.enqueued \/ "misaligned" \in core.enqueued
        /\ "misaligned" \in core.enqueued => "check_all" \notin core.enqueued
    BY DEF CoreInv, Settled, Ready, Clean, InMisaligned, Cores
  <2>2. CASE ~core.is_active
    <3>1. InstrEvents = {}
      BY <2>1, <2>2 DEF InstrEvents
    <3> QED BY <2>2, <3>1, FS_EmptySet DEF OneInstructionEvent
  <2>3. CASE core.is_active
    <3>1. InstrEvents = {"check_all"} \/ InstrEvents = {"misaligned"}
      BY <2>1, <2>3 DEF InstrEvents
    <3> QED BY <2>3, <3>1, FS_Singleton DEF OneInstructionEvent
  <2> QED BY <2>1, <2>2, <2>3
<1> QED BY <1>1, CoreInvariant, PTL

(* An event is never enqueued while it is, which clock_engine::enqueue      *)
(* asserts (iss_wrapper::enqueue_next_instr).                               *)
THEOREM NotEnqueuedTwiceCorrect == Spec => [](Regular(config) => NotEnqueuedTwice)
<1>1. CoreInv => (Regular(config) => NotEnqueuedTwice)
  BY DEF CoreInv, Settled, Ready, Clean, NotEnqueuedTwice
<1> QED BY <1>1, CoreInvariant, PTL

(* A core that can run is active: no answer, interrupt, resume or reset     *)
(* leaves it asleep (iss_wrapper::check_state).                             *)
THEOREM RunnableIsActiveCorrect == Spec => [](Regular(config) => RunnableIsActive)
<1>1. CoreInv => (Regular(config) => RunnableIsActive)
  BY DEF CoreInv, Settled, Awake, RunnableIsActive
<1> QED BY <1>1, CoreInvariant, PTL

(* The number of answers that a core waits for.                             *)
LEMMA PendingCount ==
  ASSUME NEW p \in SUBSET Answers
  PROVE  Cardinality(p) = Bit("data" \in p) + Bit("fetch" \in p) + Bit("flush" \in p)
<1> DEFINE p1 == p \cap {"data"}
           p2 == p \cap {"data", "fetch"}
<1>1. Cardinality(p1) = Bit("data" \in p) /\ IsFiniteSet(p1)
  <2>1. CASE "data" \in p
    <3>1. p1 = {"data"}
      BY <2>1
    <3> QED BY <2>1, <3>1, FS_Singleton DEF Bit
  <2>2. CASE "data" \notin p
    <3>1. p1 = {}
      BY <2>2
    <3> QED BY <2>2, <3>1, FS_EmptySet DEF Bit
  <2> QED BY <2>1, <2>2
<1>2. Cardinality(p2) = Cardinality(p1) + Bit("fetch" \in p) /\ IsFiniteSet(p2)
  <2>1. CASE "fetch" \in p
    <3>1. p2 = p1 \cup {"fetch"} /\ "fetch" \notin p1
      BY <2>1
    <3> QED BY <1>1, <2>1, <3>1, FS_AddElement DEF Bit
  <2>2. CASE "fetch" \notin p
    <3>1. p2 = p1
      BY <2>2
    <3>2. Cardinality(p1) \in Nat
      BY <1>1, FS_CardinalityType
    <3> QED BY <1>1, <2>2, <3>1, <3>2 DEF Bit
  <2> QED BY <2>1, <2>2
<1>3. Cardinality(p) = Cardinality(p2) + Bit("flush" \in p)
  <2>1. CASE "flush" \in p
    <3>1. p = p2 \cup {"flush"} /\ "flush" \notin p2
      BY <2>1 DEF Answers
    <3> QED BY <1>2, <2>1, <3>1, FS_AddElement DEF Bit
  <2>2. CASE "flush" \notin p
    <3>1. p = p2
      BY <2>2 DEF Answers
    <3>2. Cardinality(p2) \in Nat
      BY <1>2, FS_CardinalityType
    <3> HIDE DEF p2
    <3>3. Cardinality(p) = Cardinality(p2)
      BY <3>1
    <3> QED BY <2>2, <3>2, <3>3 DEF Bit
  <2> QED BY <2>1, <2>2
<1> QED BY <1>1, <1>2, <1>3

(* stalled is exactly the number of things that the core waits for: each    *)
(* answer ends one stall, and none is ended twice (data_response,           *)
(* fetch_response, exec_misaligned, iss_irq_req).                           *)
THEOREM StallsAccountedCorrect == Spec => [](Regular(config) => StallsAccounted)
<1>1. CoreInv => (Regular(config) => StallsAccounted)
  <2> SUFFICES ASSUME CoreInv, Regular(config) PROVE StallsAccounted
    OBVIOUS
  <2>1. core.pending \in SUBSET Answers /\ Accounted(core, "misaligned" \in core.enqueued)
    BY DEF CoreInv, Settled, Ready, Cores
  <2>2. Cardinality(core.pending) = Bit("data" \in core.pending) + Bit("fetch" \in core.pending)
                                      + Bit("flush" \in core.pending)
    BY <2>1, PendingCount
  <2> QED BY <2>1, <2>2 DEF StallsAccounted, Accounted, Bit
<1> QED BY <1>1, CoreInvariant, PTL

(* No instruction is executed that was not fetched or whose fetch is        *)
(* pending, but for the first one of the debug handler (prefetcher_fetch,   *)
(* exec_instr_check_all, iss_irq_check).                                    *)
THEOREM FetchedBeforeExecutedCorrect == Spec => [](Regular(config) => FetchedBeforeExecuted)
<1>1. CoreInv => (Regular(config) => FetchedBeforeExecuted)
  BY DEF CoreInv, Settled, Ready, Clean, FetchedBeforeExecuted
<1> QED BY <1>1, CoreInvariant, PTL

(* A step of GDB executes at most one instruction, whatever it does and     *)
(* whatever arrives during it (gdbserver_stepi, exec_instr_check_all).      *)
THEOREM StepIsOneCorrect == Spec => [](Regular(config) => StepIsOne)
<1>1. CoreInv => (Regular(config) => StepIsOne)
  <2> SUFFICES ASSUME CoreInv, Regular(config), config.debugger = "gdb", core.step_mode
               PROVE  ran <= 1
    BY DEF StepIsOne
  <2>1. ran = 0 \/ ran = 1
    BY DEF CoreInv, StepHeld
  <2> QED BY <2>1
<1> QED BY <1>1, CoreInvariant, PTL
=============================================================================
