SPECIFICATION Spec
CONSTANTS
  Packets <- MCPackets
  max_size = 5
  MaxPackets = 2
  MaxInterrupts = 1
  MaxResends = 1
INVARIANTS DecodedIsSent StoppedIsHalted
PROPERTIES PacketAnswered InterruptAnswered
CHECK_DEADLOCK FALSE
