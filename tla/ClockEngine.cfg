SPECIFICATION Spec
CONSTANTS
  e1 = e1
  e2 = e2
  None = None
  Events = {e1, e2}
  QueueSize = 3
  Periods = {0, 1, 2}
  FirstPeriod = 2
  MaxTime = 3
  MaxDelay = 3
  MaxCycle = 5
VIEW WithoutHistory
INVARIANTS QueuesConsistent SlotHoldsItsCycle NeverExecutedEmpty
CHECK_DEADLOCK FALSE
