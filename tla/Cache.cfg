SPECIFICATION Spec
CONSTANTS
  r1 = r1
  r2 = r2
  r3 = r3
  t1 = t1
  t2 = t2
  None = None
  Requests = {r1, r2, r3}
  Tags = {t1, t2}
  Index <- MCIndex
  nb_ways = 2
  MaxRequests = 4
  MaxControls = 2
  MaxVersions = 1
INVARIANTS TagsUnique LinesHoldTheirTag HeadIsRequester
PROPERTY QueueDrains
CHECK_DEADLOCK FALSE
