-------------------------- MODULE MCEngineControl ---------------------------
(* A main thread and a second thread that interact with one engine.        *)
EXTENDS EngineControl, TLC
CONSTANTS main, user, engine_thread

\* The main thread starts the simulation and waits for its end; the other one,
\* such as the proxy, is the only one that locks the engine.
OneLocker ==
  (main :> {"run", "join", "pause", "wait_running", "stop_engine"}) @@
  (user :> {"access", "step", "stop_exec", "quit", "req_stop_exec"})

\* Two threads that lock the engine, such as the proxy and the GDB server.
TwoLockers == (main :> {"run", "access"}) @@ (user :> {"access"})
=============================================================================
