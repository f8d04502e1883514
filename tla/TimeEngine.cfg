SPECIFICATION Spec
CONSTANTS
  c1 = c1
  c2 = c2
  c3 = c3
  Clients = {c1, c2, c3}
  None = None
  MaxTime = 5
  MaxDelay = 3
SYMMETRY ClientSymmetry
INVARIANTS QueueConsistent Sorted NoEventInPast
PROPERTY TimeAdvances
