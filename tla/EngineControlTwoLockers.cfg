SPECIFICATION Spec
CONSTANTS
  main = main
  user = user
  engine_thread = engine_thread
  Threads = {main, user}
  Engine = engine_thread
  Calls <- TwoLockers
  Retains = {FALSE}
  ModelStops = {}
INVARIANT LockExcludesEngine
