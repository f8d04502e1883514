SPECIFICATION Spec
CONSTANTS
  main = main
  user = user
  engine_thread = engine_thread
  Threads = {main, user}
  Engine = engine_thread
  Calls <- OneLocker
  Retains = {TRUE, FALSE}
  ModelStops = {"stop_exec", "stop_engine"}
INVARIANTS LockExcludesEngine
PROPERTIES LockReturns PostedRuns JoinReturns StopIsNotifiedUnlessRetained
CHECK_DEADLOCK FALSE
