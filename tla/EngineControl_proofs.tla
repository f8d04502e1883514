------------------------ MODULE EngineControl_proofs ------------------------
(***************************************************************************)
(* Proofs about the threads around the time engine, for any number of      *)
(* threads, calls in any order, any interleaving and any requests of the   *)
(* models: the flags and program counters keep their types, and lock()     *)
(* excludes the engine as long as a single thread uses it.                 *)
(***************************************************************************)
EXTENDS EngineControl, Integers, TLAPS

-----------------------------------------------------------------------------
(* The sections s that a thread still has to execute.                       *)

Has(s, w) == \E i \in 1..Len(s) : s[i] = w

(* The thread is between the return of lock() and unlock().                 *)
Holding(s) == Has(s, "unlock") /\ ~Has(s, "lock")

(* It does not use the lock, or not any more.                               *)
Plain(s) == ~Has(s, "unlock") /\ ~Has(s, "lock")

(* The lock is used once in a call.                                         *)
Todos ==
  {s \in Seq(Sections) :
     \A i, j \in 1..Len(s) : s[i] = "unlock" /\ s[j] \in {"lock", "unlock"} => j <= i}

(* The calls of a thread that does not lock the engine.                     *)
PlainCalls == {"run", "stop_exec", "pause", "stop_engine", "wait_running", "join"}

(* L is the only thread that locks the engine.                              *)
OnlyLocker(L) == L \in Threads /\ \A t \in Threads \ {L} : Calls[t] \subseteq PlainCalls

Types ==
  /\ run_req \in BOOLEAN /\ pause_req \in BOOLEAN /\ stop_req \in BOOLEAN
  /\ locked \in BOOLEAN /\ locked_run_req \in BOOLEAN
  /\ running \in BOOLEAN /\ init \in BOOLEAN /\ finished \in BOOLEAN
  /\ client \in BOOLEAN /\ retain \in BOOLEAN
  /\ held \in BOOLEAN /\ killed \in BOOLEAN /\ view \in BOOLEAN
  /\ epc \in {"boot", "outer", "loop", "end", "retained", "dead"}
  /\ todo \in [Threads -> Todos]
  /\ waiting \subseteq {t \in Threads : todo[t] # <<>>}
  /\ sleeping \subseteq Threads \cup {Engine}

(* The engine is in the inner loop only while running says so, unless       *)
(* join() gave up on it.                                                    *)
LoopIsRunning == epc = "loop" => running \/ killed

(* Nobody asks the engine to run while it is locked.                        *)
LockedIsStopped == locked => ~run_req

(* L has the lock from the first test of lock() to unlock(), and once       *)
(* lock() returned the engine is out of its loop.                           *)
LockerState(L) ==
  /\ \A t \in Threads \ {L} : Plain(todo[t])
  /\ Holding(todo[L]) => locked /\ (epc # "loop" \/ killed)
  /\ L \in waiting /\ Head(todo[L]) = "lock" => locked

LockInv(L) == Types /\ LoopIsRunning /\ LockedIsStopped /\ LockerState(L)

-----------------------------------------------------------------------------
(* Programs.                                                                *)

(* The rest of a call after one section is again the rest of a call; the    *)
(* part between lock() and unlock() is entered through lock() and left      *)
(* through unlock().                                                        *)
LEMMA TailOfTodo ==
  ASSUME NEW s \in Todos, s # <<>>
  PROVE  /\ Head(s) \in Sections /\ Tail(s) \in Todos
         /\ Holding(Tail(s)) => Head(s) = "lock" \/ (Holding(s) /\ Head(s) # "unlock")
         /\ Plain(s) => Plain(Tail(s)) /\ Head(s) \notin {"lock", "unlock"}
         /\ Holding(s) => Head(s) # "lock"
<1>1. s \in Seq(Sections) /\ Len(s) \in Nat /\ Len(s) >= 1 /\ Head(s) = s[1] /\ s[1] \in Sections
  BY DEF Todos
<1>2. /\ Tail(s) \in Seq(Sections) /\ Len(Tail(s)) = Len(s) - 1
      /\ \A i \in 1..Len(Tail(s)) : i + 1 \in 1..Len(s) /\ Tail(s)[i] = s[i + 1]
  BY <1>1
<1>3. \A w : Has(Tail(s), w) => \E i \in 1..Len(s) : i > 1 /\ s[i] = w
  BY <1>1, <1>2 DEF Has
<1>4. \A w : Has(s, w) => Head(s) = w \/ Has(Tail(s), w)
  <2> SUFFICES ASSUME NEW w, NEW i \in 1..Len(s), s[i] = w, i # 1 PROVE Has(Tail(s), w)
    BY <1>1 DEF Has
  <2>1. i - 1 \in 1..Len(Tail(s)) /\ Tail(s)[i - 1] = w
    BY <1>1, <1>2
  <2> QED BY <2>1 DEF Has
<1>5. \A i, j \in 1..Len(s) : s[i] = "unlock" /\ s[j] \in {"lock", "unlock"} => j <= i
  BY DEF Todos
<1>6. Tail(s) \in Todos
  <2> SUFFICES ASSUME NEW i \in 1..Len(Tail(s)), NEW j \in 1..Len(Tail(s)),
                      Tail(s)[i] = "unlock", Tail(s)[j] \in {"lock", "unlock"}
               PROVE  j <= i
    BY <1>2 DEF Todos
  <2>1. i + 1 \in 1..Len(s) /\ j + 1 \in 1..Len(s) /\ i \in Int /\ j \in Int
    BY <1>2
  <2>2. j + 1 <= i + 1
    BY <1>2, <1>5, <2>1
  <2> QED BY <2>1, <2>2
<1>7. Has(s, Head(s)) /\ \A w : Has(Tail(s), w) => Has(s, w)
  BY <1>1, <1>3 DEF Has
<1>8. Head(s) = "unlock" => ~Has(Tail(s), "unlock")
  BY <1>1, <1>3, <1>5
<1> QED BY <1>1, <1>4, <1>6, <1>7, <1>8 DEF Holding, Plain

(* A call starts outside of the lock, and one that does not use the lock    *)
(* has nothing of it.                                                       *)
LEMMA ProgramTodo ==
  ASSUME NEW c \in CallNames
  PROVE  /\ Program(c) \in Todos /\ Program(c) # <<>> /\ ~Holding(Program(c))
         /\ c \in PlainCalls => Plain(Program(c))
<1>1. CASE c = "run"
  BY <1>1 DEF Program, Todos, Holding, Plain, Has, Sections
<1>2. CASE c = "step"
  BY <1>2 DEF Program, Todos, Holding, Plain, Has, Sections, PlainCalls
<1>3. CASE c = "access"
  BY <1>3 DEF Program, Todos, Holding, Plain, Has, Sections, PlainCalls
<1>4. CASE c = "stop_exec"
  BY <1>4 DEF Program, Todos, Holding, Plain, Has, Sections
<1>5. CASE c = "pause"
  BY <1>5 DEF Program, Todos, Holding, Plain, Has, Sections
<1>6. CASE c = "req_stop_exec"
  BY <1>6 DEF Program, Todos, Holding, Plain, Has, Sections, PlainCalls
<1>7. CASE c = "stop_engine"
  BY <1>7 DEF Program, Todos, Holding, Plain, Has, Sections
<1>8. CASE c = "quit"
  BY <1>8 DEF Program, Todos, Holding, Plain, Has, Sections, PlainCalls
<1>9. CASE c = "wait_running"
  BY <1>9 DEF Program, Todos, Holding, Plain, Has, Sections
<1>10. CASE c = "join"
  BY <1>10 DEF Program, Todos, Holding, Plain, Has, Sections
<1> QED BY <1>1, <1>2, <1>3, <1>4, <1>5, <1>6, <1>7, <1>8, <1>9, <1>10 DEF CallNames

-----------------------------------------------------------------------------
(* Types.                                                                   *)

ThreadTypes ==
  /\ todo \in [Threads -> Todos]
  /\ waiting \subseteq {t \in Threads : todo[t] # <<>>}
  /\ sleeping \subseteq Threads \cup {Engine}

EngineTypes ==
  /\ running \in BOOLEAN /\ init \in BOOLEAN /\ finished \in BOOLEAN
  /\ client \in BOOLEAN /\ retain \in BOOLEAN /\ view \in BOOLEAN
  /\ epc \in {"boot", "outer", "loop", "end", "retained", "dead"}

FlagTypes ==
  /\ run_req \in BOOLEAN /\ pause_req \in BOOLEAN /\ stop_req \in BOOLEAN
  /\ locked \in BOOLEAN /\ locked_run_req \in BOOLEAN
  /\ held \in BOOLEAN /\ killed \in BOOLEAN

(* A thread goes on with its next section, or waits in the one it is at.    *)
LEMMA DoneOrWait ==
  ASSUME ThreadTypes, NEW t \in Threads, todo[t] # <<>>, Done(t) \/ Wait(t)
  PROVE  /\ todo' \in [Threads -> Todos]
         /\ waiting' \subseteq {u \in Threads : todo'[u] # <<>>}
<1>1. CASE Done(t)
  <2>1. Tail(todo[t]) \in Todos
    BY TailOfTodo DEF ThreadTypes
  <2>2. todo' \in [Threads -> Todos] /\ \A u \in Threads : u # t => todo'[u] = todo[u]
    BY <1>1, <2>1 DEF Done, ThreadTypes
  <2> QED BY <1>1, <2>2 DEF Done, ThreadTypes
<1>2. CASE Wait(t)
  BY <1>2 DEF Wait, ThreadTypes
<1> QED BY <1>1, <1>2

(* What a step of a thread does to it, in all its calls.                    *)
LEMMA ThreadStepTypes ==
  ASSUME ThreadTypes, NEW t \in Threads, ThreadStep(t) \/ joinTimeout(t)
  PROVE  /\ ThreadTypes' /\ todo[t] # <<>>
         /\ Done(t) \/ Wait(t) \/ UNCHANGED <<todo, waiting>>
<1>1. todo[t] # <<>>
  <2>1. CASE ThreadStep(t)
    BY <2>1 DEF ThreadStep, run, lock, unlock, post, stop_exec, stop_engine, pause, wait_running,
                join, At
  <2>2. CASE joinTimeout(t)
    <3>1. t \in waiting
      BY <2>2 DEF joinTimeout
    <3> QED BY <3>1 DEF ThreadTypes
  <2> QED BY <2>1, <2>2
<1>2. Done(t) \/ Wait(t) \/ UNCHANGED <<todo, waiting>>
  BY DEF ThreadStep, run, lock, unlock, post, stop_exec, stop_engine, pause, wait_running, join,
         joinTimeout, WaitWhile
<1>3. sleeping' \subseteq sleeping \cup {t}
  BY DEF ThreadStep, run, lock, unlock, post, stop_exec, stop_engine, pause, wait_running, join,
         joinTimeout, WaitWhile
<1> QED BY <1>1, <1>2, <1>3, DoneOrWait DEF ThreadTypes

(* The flags and the program counters keep their types, for any threads.    *)
LEMMA TypesInv == Types /\ [Next]_vars => Types'
<1> SUFFICES ASSUME Types, [Next]_vars PROVE Types'
  OBVIOUS
<1> USE EngineControlAssumption DEF flags, engine
<1>1. ThreadTypes /\ EngineTypes /\ FlagTypes
  BY DEF Types, ThreadTypes, EngineTypes, FlagTypes
<1>2. ASSUME ThreadTypes', EngineTypes', FlagTypes' PROVE Types'
  BY <1>2 DEF Types, ThreadTypes, EngineTypes, FlagTypes
<1>3. CASE EngineStep
  <2>1. ThreadTypes'
    BY <1>1, <1>3 DEF EngineStep, Boot, OuterWait, EnterLoop, ExecClient, HoldWait, EndLoop,
                      ThreadTypes
  <2>2. FlagTypes'
    BY <1>1, <1>3 DEF EngineStep, Boot, OuterWait, EnterLoop, ExecClient, HoldWait, EndLoop,
                      FlagTypes
  <2>3. EngineTypes'
    <3>1. CASE Boot
      BY <1>1, <3>1 DEF Boot, EngineTypes
    <3>2. CASE OuterWait
      BY <1>1, <3>2 DEF OuterWait, EngineTypes
    <3>3. CASE EnterLoop
      BY <1>1, <3>3 DEF EnterLoop, EngineTypes
    <3>4. CASE ExecClient
      BY <1>1, <3>4 DEF ExecClient, EngineTypes
    <3>5. CASE HoldWait
      BY <1>1, <3>5 DEF HoldWait, EngineTypes
    <3>6. CASE EndLoop
      BY <1>1, <3>6 DEF EndLoop, EngineTypes
    <3> QED BY <1>3, <3>1, <3>2, <3>3, <3>4, <3>5, <3>6 DEF EngineStep
  <2> QED BY <1>2, <2>1, <2>2, <2>3
<1>4. CASE StopFromModel
  BY <1>1, <1>2, <1>4, ZenonT(60) DEF StopFromModel, ThreadTypes, EngineTypes, FlagTypes
<1>5. CASE EngineDies
  BY <1>1, <1>2, <1>5, ZenonT(60) DEF EngineDies, ThreadTypes, EngineTypes, FlagTypes
<1>6. ASSUME NEW t \in Threads, ThreadStep(t) \/ joinTimeout(t) PROVE Types'
  <2>1. ThreadTypes'
    BY <1>1, <1>6, ThreadStepTypes
  <2>2. EngineTypes'
    BY <1>1, <1>6, ZenonT(60) DEF ThreadStep, run, lock, unlock, post, stop_exec, stop_engine, pause,
         wait_running, join, joinTimeout, EngineTypes
  <2>3. FlagTypes'
    BY <1>1, <1>6 DEF ThreadStep, run, lock, unlock, post, stop_exec, stop_engine, pause,
         wait_running, join, joinTimeout, EngineTypes, FlagTypes
  <2> QED BY <1>2, <2>1, <2>2, <2>3
<1>7. ASSUME NEW t \in Threads, NEW c \in Calls[t], StartCall(t, c) PROVE Types'
  <2>1. Program(c) \in Todos /\ Program(c) # <<>>
    BY <1>7, ProgramTodo
  <2>2. ThreadTypes'
    BY <1>1, <1>7, <2>1 DEF StartCall, ThreadTypes
  <2>3. EngineTypes' /\ FlagTypes'
    BY <1>1, <1>7 DEF StartCall, EngineTypes, FlagTypes
  <2> QED BY <1>2, <2>2, <2>3
<1>8. CASE UNCHANGED vars
  BY <1>1, <1>2, <1>8 DEF vars, ThreadTypes, EngineTypes, FlagTypes
<1> QED BY <1>3, <1>4, <1>5, <1>6, <1>7, <1>8 DEF Next

(* They have them initially.                                                *)
LEMMA TypesInit == Init => Types
<1> SUFFICES ASSUME Init PROVE Types
  OBVIOUS
<1>1. <<>> \in Todos
  BY DEF Todos
<1> QED BY <1>1, EngineControlAssumption DEF Init, Types

(* The type invariant of the threads and the engine.                        *)
THEOREM TypeCorrect == Spec => []TypeOK
<1>1. Types => TypeOK
  BY DEF Types, TypeOK, Todos
<1> QED BY <1>1, TypesInit, TypesInv, PTL DEF Spec

-----------------------------------------------------------------------------
(* The lock.                                                                *)

(* A step that is not lock() or unlock() of L leaves the locker where it    *)
(* was, or takes it one section further, never into the lock.               *)
LEMMA LockerMoves ==
  ASSUME NEW L \in Threads, LockInv(L), NEW t \in Threads, todo[t] # <<>>,
         Done(t) \/ Wait(t) \/ UNCHANGED <<todo, waiting>>,
         t = L => Head(todo[L]) \notin {"lock", "unlock"}
  PROVE  /\ \A u \in Threads \ {L} : Plain(todo'[u])
         /\ Holding(todo'[L]) => Holding(todo[L])
         /\ L \in waiting' /\ Head(todo'[L]) = "lock" => L \in waiting /\ Head(todo[L]) = "lock"
<1>1. todo \in [Threads -> Todos]
  BY DEF LockInv, Types
<1>2. CASE Done(t)
  <2>1. todo'[t] = Tail(todo[t]) /\ \A u \in Threads : u # t => todo'[u] = todo[u]
    BY <1>1, <1>2 DEF Done
  <2>2. waiting' = waiting \ {t}
    BY <1>2 DEF Done
  <2>3. Plain(todo[t]) => Plain(Tail(todo[t]))
    BY <1>1, TailOfTodo
  <2>4. Holding(Tail(todo[t])) => Head(todo[t]) = "lock" \/ Holding(todo[t])
    BY <1>1, TailOfTodo
  <2> QED BY <2>1, <2>2, <2>3, <2>4 DEF LockInv, LockerState
<1>3. CASE ~Done(t)
  BY <1>3 DEF Wait, LockInv, LockerState
<1> QED BY <1>2, <1>3

(* The first test of lock() stops the engine, and lock() returns once it is *)
(* out of its loop.                                                         *)
LEMMA LockKeeps ==
  ASSUME NEW L \in Threads, LockInv(L), lock(L), Types'
  PROVE  LockInv(L)'
<1>1. todo \in [Threads -> Todos] /\ todo[L] # <<>>
  BY DEF LockInv, Types, lock, At
<1>2. locked' /\ ~run_req' /\ epc' = epc /\ running' = running /\ killed' = killed
  BY DEF lock, LockInv, Types, LockedIsStopped, LockerState, At, engine
<1>3. \A u \in Threads \ {L} : todo'[u] = todo[u]
  BY <1>1 DEF lock, WaitWhile, Wait, Done
<1>4. Holding(todo'[L]) => ~running
  <2>1. CASE running
    <3>1. todo' = todo
      BY <2>1 DEF lock, WaitWhile, Wait
    <3>2. ~Holding(todo[L])
      BY <1>1, TailOfTodo DEF lock, At
    <3> QED BY <3>1, <3>2
  <2> QED BY <2>1
<1> QED BY <1>2, <1>3, <1>4 DEF LockInv, LoopIsRunning, LockedIsStopped, LockerState

(* unlock() gives the engine back: its caller does not hold it any more.    *)
LEMMA UnlockKeeps ==
  ASSUME NEW L \in Threads, LockInv(L), unlock(L), Types'
  PROVE  LockInv(L)'
<1>1. todo \in [Threads -> Todos] /\ todo[L] # <<>> /\ Head(todo[L]) = "unlock"
  BY DEF LockInv, Types, unlock, At
<1>2. ~locked' /\ epc' = epc /\ running' = running /\ killed' = killed
  BY DEF unlock, engine
<1>3. /\ \A u \in Threads \ {L} : todo'[u] = todo[u]
      /\ todo'[L] = Tail(todo[L]) /\ L \notin waiting'
  BY <1>1 DEF unlock, Done
<1>4. ~Holding(Tail(todo[L]))
  <2>1. Holding(Tail(todo[L])) => Head(todo[L]) = "lock" \/ Head(todo[L]) # "unlock"
    BY <1>1, TailOfTodo
  <2> QED BY <1>1, <2>1
<1> QED BY <1>2, <1>3, <1>4 DEF LockInv, LoopIsRunning, LockedIsStopped, LockerState

(* The other sections do not give the engine back while it is locked.       *)
LEMMA OtherSectionsKeep ==
  ASSUME NEW L \in Threads, LockInv(L), NEW t \in Threads, Types',
         (ThreadStep(t) /\ ~lock(t) /\ ~unlock(t)) \/ joinTimeout(t)
  PROVE  LockInv(L)'
<1>1. todo \in [Threads -> Todos] /\ ThreadTypes
  BY DEF LockInv, Types, ThreadTypes
<1>2. todo[t] # <<>> /\ (Done(t) \/ Wait(t) \/ UNCHANGED <<todo, waiting>>)
  BY <1>1, ThreadStepTypes
<1>3. Head(todo[t]) \notin {"lock", "unlock"}
  <2>1. CASE ThreadStep(t) /\ ~lock(t) /\ ~unlock(t)
    BY <2>1 DEF ThreadStep, run, post, stop_exec, stop_engine, pause, wait_running, join, At
  <2>2. CASE joinTimeout(t)
    <3>1. todo[t] = <<"join">>
      BY <2>2 DEF joinTimeout
    <3>2. Head(<<"join">>) = "join"
      OBVIOUS
    <3> QED BY <3>1, <3>2
  <2> QED BY <2>1, <2>2
<1>4. /\ locked' = locked /\ epc' = epc
      /\ running \/ killed => running' \/ killed'
      /\ killed => killed'
      /\ locked /\ ~run_req => ~run_req'
  <2>1. CASE ThreadStep(t) /\ ~lock(t) /\ ~unlock(t)
    <3>1. UNCHANGED <<locked, epc, running, killed>>
      BY <2>1 DEF ThreadStep, run, post, stop_exec, stop_engine, pause, wait_running, join,
                  flags, engine
    <3>2. locked /\ ~run_req => ~run_req'
      BY <2>1 DEF ThreadStep, run, post, stop_exec, stop_engine, pause, wait_running, join, flags
    <3> QED BY <3>1, <3>2
  <2>2. CASE joinTimeout(t)
    BY <2>2 DEF joinTimeout, flags
  <2> QED BY <2>1, <2>2
<1>5. /\ \A u \in Threads \ {L} : Plain(todo'[u])
      /\ Holding(todo'[L]) => Holding(todo[L])
      /\ L \in waiting' /\ Head(todo'[L]) = "lock" => L \in waiting /\ Head(todo[L]) = "lock"
  BY <1>2, <1>3, LockerMoves
<1> QED BY <1>4, <1>5 DEF LockInv, LoopIsRunning, LockedIsStopped, LockerState

(* A step of the engine: it enters its loop only if it is asked to run.     *)
LEMMA EngineKeeps ==
  ASSUME NEW L \in Threads, LockInv(L), EngineStep \/ StopFromModel \/ EngineDies, Types'
  PROVE  LockInv(L)'
<1> USE DEF flags, engine
<1>1. /\ UNCHANGED <<todo, waiting, locked, killed>> /\ (run_req' => run_req)
  BY DEF EngineStep, StopFromModel, EngineDies, Boot, OuterWait, EnterLoop, ExecClient, HoldWait,
         EndLoop
<1>2. epc' = "loop" => \/ epc = "loop" /\ (running' = running)
                       \/ run_req /\ running'
  BY DEF EngineStep, StopFromModel, EngineDies, Boot, OuterWait, EnterLoop, ExecClient, HoldWait,
         EndLoop, Stopped
<1> QED BY <1>1, <1>2 DEF LockInv, LoopIsRunning, LockedIsStopped, LockerState

(* Every step keeps the invariant of the single locker.                     *)
LEMMA LockNext ==
  ASSUME NEW L, OnlyLocker(L)
  PROVE  LockInv(L) /\ [Next]_vars => LockInv(L)'
<1> SUFFICES ASSUME LockInv(L), [Next]_vars PROVE LockInv(L)'
  OBVIOUS
<1>1. L \in Threads
  BY DEF OnlyLocker
<1>2. Types'
  BY TypesInv DEF LockInv
<1>3. CASE EngineStep \/ StopFromModel \/ EngineDies
  BY <1>1, <1>2, <1>3, EngineKeeps
<1>4. ASSUME NEW t \in Threads, ThreadStep(t) \/ joinTimeout(t) PROVE LockInv(L)'
  <2>1. CASE lock(t) \/ unlock(t)
    <3>1. todo[t] \in Todos /\ todo[t] # <<>> /\ Head(todo[t]) \in {"lock", "unlock"}
      BY <2>1 DEF LockInv, Types, lock, unlock, At
    <3>2. t = L
      BY <3>1, TailOfTodo DEF LockInv, LockerState
    <3> QED BY <1>1, <1>2, <2>1, <3>2, LockKeeps, UnlockKeeps
  <2>2. CASE ~lock(t) /\ ~unlock(t)
    BY <1>1, <1>2, <1>4, <2>2, OtherSectionsKeep
  <2> QED BY <2>1, <2>2
<1>5. ASSUME NEW t \in Threads, NEW c \in Calls[t], StartCall(t, c) PROVE LockInv(L)'
  <2>1. c \in CallNames
    BY EngineControlAssumption
  <2>2. ~Holding(Program(c)) /\ (t # L => Plain(Program(c)))
    BY <2>1, ProgramTodo DEF OnlyLocker
  <2>3. /\ todo \in [Threads -> Todos] /\ todo[t] = <<>> /\ waiting' = waiting
        /\ todo' = [todo EXCEPT ![t] = Program(c)] /\ t \notin waiting
    BY <1>5 DEF LockInv, Types, StartCall
  <2>4. todo'[t] = Program(c) /\ \A u \in Threads : u # t => todo'[u] = todo[u]
    BY <2>3
  <2>5. UNCHANGED <<locked, run_req, epc, running, killed>>
    BY <1>5 DEF StartCall, flags, engine
  <2> QED BY <1>1, <1>2, <2>2, <2>3, <2>4, <2>5
          DEF LockInv, LoopIsRunning, LockedIsStopped, LockerState
<1>6. CASE UNCHANGED vars
  BY <1>2, <1>6 DEF vars, flags, engine, LockInv, LoopIsRunning, LockedIsStopped, LockerState
<1> QED BY <1>3, <1>4, <1>5, <1>6 DEF Next

(* Nobody holds the lock at the start.                                      *)
LEMMA LockInit ==
  ASSUME NEW L, OnlyLocker(L)
  PROVE  Init => LockInv(L)
<1> SUFFICES ASSUME Init PROVE LockInv(L)
  OBVIOUS
<1>1. Plain(<<>>) /\ ~Holding(<<>>)
  BY DEF Plain, Holding, Has
<1>2. L \in Threads /\ \A t \in Threads : todo[t] = <<>>
  BY DEF OnlyLocker, Init
<1> QED BY <1>1, <1>2, TypesInit
        DEF Init, LockInv, LoopIsRunning, LockedIsStopped, LockerState

(* Between the return of lock() and unlock(), nothing is simulated, as long *)
(* as one thread only uses the lock.  With two, the code does not give it:  *)
(* the second lock() does not save run_req, and the first unlock() restores *)
(* it while the other thread is still in the platform.                      *)
THEOREM LockExcludesEngineCorrect ==
  ASSUME NEW L, OnlyLocker(L)
  PROVE  Spec => []LockExcludesEngine
<1>1. Init => LockInv(L)
  BY LockInit
<1>2. LockInv(L) /\ [Next]_vars => LockInv(L)'
  BY LockNext
<1>3. LockInv(L) => LockExcludesEngine
  <2> SUFFICES ASSUME LockInv(L), NEW t \in Holders PROVE epc # "loop" \/ killed
    BY DEF LockExcludesEngine
  <2>1. t \in Threads /\ Holding(todo[t])
    BY DEF Holders, Holding, Has
  <2>2. t = L
    BY <2>1 DEF LockInv, LockerState, Holding, Plain
  <2> QED BY <2>1, <2>2 DEF LockInv, LockerState
<1> QED BY <1>1, <1>2, <1>3, PTL DEF Spec
=============================================================================
