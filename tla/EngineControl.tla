--------------------------- MODULE EngineControl ----------------------------
(***************************************************************************)
(* The threads around the time engine (time_engine.hpp, time_engine.cpp):  *)
(* the engine thread in run_loop, and the threads that run it, stop it,    *)
(* wait for its end, or hold it stopped with lock() and unlock() while     *)
(* they touch the platform (the proxy, the GDB server, the injector).      *)
(*                                                                         *)
(* A section of code between two waits holds the mutex throughout and is   *)
(* one step.  pthread_cond_wait puts the thread in sleeping, a broadcast   *)
(* empties sleeping, and a thread that was woken tests its condition again *)
(* in a step of its own: a wakeup that is not sent is really lost.         *)
(***************************************************************************)
EXTENDS Naturals, Sequences

CONSTANTS Threads,   \* the threads that call the engine
          Engine,    \* the thread of run_loop
          Calls,     \* the functions each thread calls
          Retains,   \* the values of retain_count # 0 that may occur
          ModelStops \* the requests that come from the models themselves

CallNames == {"run", "step", "access", "stop_exec", "pause", "req_stop_exec", "stop_engine",
              "quit", "wait_running", "join"}

ASSUME EngineControlAssumption ==
  /\ Engine \notin Threads
  /\ \A t \in Threads : Calls[t] \subseteq CallNames
  /\ Retains \subseteq BOOLEAN /\ Retains # {}
  /\ ModelStops \subseteq {"stop_exec", "stop_engine"}

\* What each function of the engine does, one word for each section; quit is the
\* command of the proxy.
Program(call) ==
  CASE call = "run" -> <<"run">>
    [] call = "step" -> <<"lock", "post", "unlock", "run">>
    [] call = "access" -> <<"lock", "post", "unlock">>
    [] call = "stop_exec" -> <<"stop_exec">>
    [] call = "pause" -> <<"pause">>
    [] call = "req_stop_exec" -> <<"pause", "lock", "unlock">>
    [] call = "stop_engine" -> <<"stop_engine">>
    [] call = "quit" -> <<"pause", "lock", "stop_engine", "unlock">>
    [] call = "wait_running" -> <<"wait_running">>
    [] call = "join" -> <<"join">>

VARIABLES
  run_req, pause_req, stop_req,   \* requests to the engine thread
  locked, locked_run_req,         \* lock() and the run_req it saved
  running,       \* the engine thread is in the inner loop
  init,          \* the inner loop was entered once
  finished,      \* there is nothing left to simulate
  client,        \* first_client # NULL: some event is waiting
  retain,        \* retain_count # 0: do not finish when there is no event
  epc,           \* where the engine thread is
  todo,          \* the sections each thread still has to execute
  waiting,       \* threads in the wait loop of their first section
  sleeping,      \* threads in pthread_cond_wait that were not woken
  held,          \* the mutex is held by somebody who does not release it
  killed,        \* pthread_cancel was called on the engine thread
  view           \* the last message to the proxy client: is it running

flags == <<run_req, pause_req, stop_req, locked, locked_run_req>>
engine == <<running, init, finished, client, retain, epc, view>>
vars == <<flags, engine, todo, waiting, sleeping, held, killed>>

\* running and locked_run_req have no initial value in the code, and the mutex
\* is held from the constructor to the start of run_loop.
Init ==
  /\ run_req = FALSE /\ pause_req = FALSE /\ stop_req = FALSE
  /\ locked = FALSE /\ locked_run_req \in BOOLEAN
  /\ running \in BOOLEAN /\ init = FALSE /\ finished = FALSE
  /\ client \in BOOLEAN /\ retain \in Retains
  /\ epc = "boot" /\ view = FALSE
  /\ todo = [t \in Threads |-> <<>>]
  /\ waiting = {} /\ sleeping = {} /\ held = TRUE /\ killed = FALSE

-----------------------------------------------------------------------------
(* The engine thread, run_loop.                                            *)

EngineCanLock == ~held /\ Engine \notin sleeping

Boot ==
  /\ epc = "boot" /\ epc' = "outer" /\ held' = FALSE
  /\ UNCHANGED <<flags, running, init, finished, client, retain, view,
                 todo, waiting, sleeping, killed>>

\* Mutant: pause_req is not looked at.
Stopped_RunOnly == ~run_req

Stopped == ~run_req \/ pause_req

\* The outer loop has to wait: tell the proxy client, and everybody.
OuterWait ==
  /\ epc = "outer" /\ EngineCanLock /\ Stopped
  /\ view' = (view /\ ~pause_req)
  /\ running' = FALSE
  /\ sleeping' = {Engine}
  /\ UNCHANGED <<flags, init, finished, client, retain, epc, todo, waiting, held, killed>>

EnterLoop ==
  /\ epc = "outer" /\ EngineCanLock /\ ~Stopped
  /\ running' = TRUE /\ view' = TRUE /\ init' = TRUE
  /\ sleeping' = IF init THEN sleeping ELSE {}
  /\ epc' = IF client THEN "loop" ELSE "end"
  /\ UNCHANGED <<flags, finished, client, retain, todo, waiting, held, killed>>

\* One exec() and the test of run_req, which is read without the mutex.
ExecClient ==
  /\ epc = "loop"
  /\ client' \in BOOLEAN /\ retain' \in Retains
  /\ epc' = IF client' /\ run_req THEN "loop" ELSE "end"
  /\ UNCHANGED <<flags, running, init, finished, view, todo, waiting, sleeping, held, killed>>

\* Mutant: the lock is not looked at.
MustHold_Unlocked == ~client /\ retain

\* Nothing to do for now, but the simulation is retained.
MustHold == ~client /\ retain /\ ~locked

\* After the inner loop, or woken up in the wait of the retained engine.
HoldWait ==
  /\ epc \in {"end", "retained"} /\ EngineCanLock /\ MustHold
  /\ running' = FALSE
  /\ sleeping' = sleeping \cup {Engine}
  /\ epc' = "retained"
  /\ UNCHANGED <<flags, init, finished, client, retain, view, todo, waiting, held, killed>>

EndLoop ==
  /\ epc \in {"end", "retained"} /\ EngineCanLock /\ ~MustHold
  /\ running' = FALSE
  /\ finished' = (finished \/ (~client /\ ~locked /\ ~retain))
  /\ sleeping' = {}
  /\ epc' = "outer"
  /\ UNCHANGED <<flags, init, client, retain, view, todo, waiting, held, killed>>

\* A model stops the engine from its exec(): the stop event of step(), or the
\* end of the simulated program.
StopFromModel ==
  /\ epc = "loop" /\ ~held
  /\ \/ "stop_exec" \in ModelStops /\ pause_req' = TRUE /\ UNCHANGED stop_req
     \/ "stop_engine" \in ModelStops /\ stop_req' = TRUE /\ UNCHANGED pause_req
  /\ run_req' = FALSE
  /\ sleeping' = {}
  /\ UNCHANGED <<locked, locked_run_req, engine, todo, waiting, held, killed>>

\* The thread was cancelled: it dies in exec(), or in a wait, with the mutex.
EngineDies ==
  /\ killed
  /\ \/ epc = "loop" /\ UNCHANGED held
     \/ Engine \in sleeping /\ ~held /\ held' = TRUE
  /\ epc' = "dead"
  /\ sleeping' = sleeping \ {Engine}
  /\ UNCHANGED <<flags, running, init, finished, client, retain, view, todo, waiting, killed>>

EngineStep == Boot \/ OuterWait \/ EnterLoop \/ ExecClient \/ HoldWait \/ EndLoop

-----------------------------------------------------------------------------
(* The calling threads.                                                    *)

StartCall(t, call) ==
  /\ todo[t] = <<>>
  /\ todo' = [todo EXCEPT ![t] = Program(call)]
  /\ UNCHANGED <<flags, engine, waiting, sleeping, held, killed>>

\* t takes the mutex to execute section s.
At(t, s) == todo[t] # <<>> /\ Head(todo[t]) = s /\ ~held /\ t \notin sleeping

\* t goes on with its next section.
Done(t) == todo' = [todo EXCEPT ![t] = Tail(@)] /\ waiting' = waiting \ {t}

Wait(t) == UNCHANGED todo /\ waiting' = waiting \cup {t}

\* t waits while cond holds, after a broadcast if it is its first test.
WaitWhile(t, cond) ==
  IF cond
  THEN /\ Wait(t)
       /\ sleeping' = IF t \in waiting THEN sleeping \cup {t} ELSE {t}
  ELSE /\ Done(t)
       /\ sleeping' = IF t \in waiting THEN sleeping ELSE {}

\* Mutant: run() does not wait for the lock to be released.
run_Always(t) ==
  /\ At(t, "run")
  /\ run_req' = TRUE /\ pause_req' = FALSE /\ sleeping' = {} /\ Done(t)
  /\ UNCHANGED <<stop_req, locked, locked_run_req, engine, held, killed>>

run(t) ==
  /\ At(t, "run")
  /\ IF locked
     THEN Wait(t) /\ sleeping' = sleeping \cup {t} /\ UNCHANGED <<run_req, pause_req>>
     ELSE Done(t) /\ sleeping' = {} /\ run_req' = TRUE /\ pause_req' = FALSE
  /\ UNCHANGED <<stop_req, locked, locked_run_req, engine, held, killed>>

lock(t) ==
  /\ At(t, "lock")
  /\ IF t \notin waiting /\ ~locked
     THEN locked' = TRUE /\ locked_run_req' = run_req /\ run_req' = FALSE
     ELSE UNCHANGED <<locked, locked_run_req, run_req>>
  /\ WaitWhile(t, running)
  /\ UNCHANGED <<pause_req, stop_req, engine, held, killed>>

\* Mutant: nobody is woken.
unlock_Silent(t) ==
  /\ At(t, "unlock")
  /\ run_req' = locked_run_req /\ locked' = FALSE /\ Done(t)
  /\ UNCHANGED <<pause_req, stop_req, locked_run_req, engine, sleeping, held, killed>>

unlock(t) ==
  /\ At(t, "unlock")
  /\ run_req' = locked_run_req /\ locked' = FALSE /\ sleeping' = {} /\ Done(t)
  /\ UNCHANGED <<pause_req, stop_req, locked_run_req, engine, held, killed>>

\* The thread uses the platform and may post an event.
post(t) ==
  /\ At(t, "post")
  /\ client' \in {client, TRUE} /\ Done(t)
  /\ UNCHANGED <<flags, running, init, finished, retain, epc, view, sleeping, held, killed>>

stop_exec(t) ==
  /\ At(t, "stop_exec")
  /\ pause_req' = TRUE /\ run_req' = FALSE /\ sleeping' = {} /\ Done(t)
  /\ UNCHANGED <<stop_req, locked, locked_run_req, engine, held, killed>>

\* A call that has to stop the engine; one that only adds to the exit status,
\* because other cores still run, changes nothing here.
stop_engine(t) ==
  /\ At(t, "stop_engine")
  /\ stop_req' = TRUE /\ run_req' = FALSE /\ sleeping' = {} /\ Done(t)
  /\ UNCHANGED <<pause_req, locked, locked_run_req, engine, held, killed>>

pause(t) ==
  /\ At(t, "pause")
  /\ run_req' = (run_req /\ t \in waiting)
  /\ WaitWhile(t, running)
  /\ UNCHANGED <<pause_req, stop_req, locked, locked_run_req, engine, held, killed>>

wait_running(t) ==
  /\ At(t, "wait_running")
  /\ IF init THEN Done(t) /\ UNCHANGED sleeping ELSE Wait(t) /\ sleeping' = sleeping \cup {t}
  /\ UNCHANGED <<flags, engine, held, killed>>

\* Mutant: join() waits for a stop request only.
join_StopOnly(t) ==
  /\ At(t, "join")
  /\ IF ~stop_req
     THEN UNCHANGED <<todo, waiting, held>> /\ sleeping' = sleeping \cup {t}
     ELSE /\ IF running THEN WaitWhile(t, TRUE) ELSE Done(t) /\ UNCHANGED sleeping
          /\ UNCHANGED held
  /\ UNCHANGED <<flags, engine, killed>>

\* join() until it has a reason to go on; it then returns at once, with the
\* mutex if the simulation is finished, or waits a second for the engine.
join(t) ==
  /\ At(t, "join")
  /\ IF ~stop_req /\ ~finished
     THEN UNCHANGED <<todo, waiting, held>> /\ sleeping' = sleeping \cup {t}
     ELSE IF finished /\ t \notin waiting
          THEN Done(t) /\ held' = TRUE /\ UNCHANGED sleeping
          ELSE /\ IF running THEN WaitWhile(t, TRUE) ELSE Done(t) /\ UNCHANGED sleeping
               /\ UNCHANGED held
  /\ UNCHANGED <<flags, engine, killed>>

\* The second is over.
joinTimeout(t) ==
  /\ todo[t] = <<"join">> /\ t \in waiting /\ ~held
  /\ killed' = (killed \/ running)
  /\ running' = FALSE
  /\ sleeping' = sleeping \ {t} /\ Done(t)
  /\ UNCHANGED <<flags, init, finished, client, retain, epc, view, held>>

ThreadStep(t) ==
  \/ run(t) \/ lock(t) \/ unlock(t) \/ post(t) \/ stop_exec(t) \/ stop_engine(t)
  \/ pause(t) \/ wait_running(t) \/ join(t)

-----------------------------------------------------------------------------
Next ==
  \/ EngineStep
  \/ StopFromModel
  \/ EngineDies
  \/ \E t \in Threads : ThreadStep(t) \/ joinTimeout(t) \/ \E c \in Calls[t] : StartCall(t, c)

\* The operating system runs every thread that can run, exec() returns, and the
\* timer of join expires; nobody has to call anything.
Fairness ==
  /\ WF_vars(EngineStep)
  /\ \A t \in Threads : WF_vars(ThreadStep(t)) /\ WF_vars(joinTimeout(t))

Spec == Init /\ [][Next]_vars /\ Fairness

-----------------------------------------------------------------------------
(* Properties.                                                             *)

Sections == {"run", "lock", "unlock", "post", "stop_exec", "stop_engine", "pause",
             "wait_running", "join"}

\* The types of the flags and of the program counters; a thread in a wait loop is
\* executing a call.
TypeOK ==
  /\ {run_req, pause_req, stop_req, locked, locked_run_req, running, init, finished,
      client, retain, held, killed, view} \subseteq BOOLEAN
  /\ epc \in {"boot", "outer", "loop", "end", "retained", "dead"}
  /\ todo \in [Threads -> Seq(Sections)]
  /\ waiting \subseteq {t \in Threads : todo[t] # <<>>}
  /\ sleeping \subseteq Threads \cup {Engine}

\* The next section of t is s.
AtSection(t, s) == todo[t] # <<>> /\ Head(todo[t]) = s

\* The threads between the return of lock() and unlock().
Holders ==
  {t \in Threads : /\ \E i \in 1..Len(todo[t]) : todo[t][i] = "unlock"
                   /\ \A i \in 1..Len(todo[t]) : todo[t][i] # "lock"}

\* Nothing is simulated while a thread is between lock() and unlock(), whatever
\* the others ask; only an engine that join() gave up on may still be running.
LockExcludesEngine == Holders # {} => epc # "loop" \/ killed

\* lock() returns, even from a busy or a retained engine.
LockReturns ==
  \A t \in Threads : AtSection(t, "lock") ~> (~AtSection(t, "lock") \/ held \/ killed)

\* An event that is waiting when the engine is asked to run is executed, even
\* if another thread posted it while the engine slept for want of events.
PostedRuns == (client /\ ~Stopped) ~> (epc = "loop" \/ Stopped \/ held \/ epc = "dead")

\* join() returns once a stop was requested or the simulation is finished, even
\* if a model never gives control back.
JoinReturns ==
  \A t \in Threads : (AtSection(t, "join") /\ (stop_req \/ finished)) ~> (todo[t] = <<>> \/ held)

\* The proxy client that waits for the end of a stop gets its message, unless the
\* simulation is retained for want of events: the engine then sleeps in the wait
\* that does not look at the run request (time_engine::run_loop, notify_stop).
StopIsNotifiedUnlessRetained == pause_req ~> (~view \/ ~pause_req \/ held \/ killed \/ retain)
=============================================================================
