SPECIFICATION Spec
CONSTANTS
  ta = ta
  tb = tb
  b1 = b1
  b2 = b2
  None = None
  Null = Null
  Filler = Filler
  EngineThread = EngineThread
  Dumper = Dumper
  Traces = {ta, tb}
  Size <- MCSize
  Buffers = {b1, b2}
  BufferSize = 5
  PtrSize = 1
  MaxTime = 1
  MaxPulse = 2
  MaxCalls = 3
INVARIANTS BuffersAccounted WaveformCorrect
PROPERTIES EventsAreWritten StopReturns
CHECK_DEADLOCK FALSE
