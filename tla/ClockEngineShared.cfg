SPECIFICATION SharedSpec
CONSTANTS
  e1 = e1
  e2 = e2
  None = None
  Events = {e1, e2}
  QueueSize = 3
  Periods = {2}
  FirstPeriod = 2
  MaxTime = 10
  MaxDelay = 4
  MaxCycle = 8
SYMMETRY Symmetry
INVARIANTS NeverForgotten NoCycleMissed NeverLate
PROPERTIES RunsExactlyOnTime
CHECK_DEADLOCK FALSE
