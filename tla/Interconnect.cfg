SPECIFICATION Spec
CONSTANTS
  m1 = m1
  m2 = m2
  m3 = m3
  None = None
  Masters = {m1, m2, m3}
  Tables <- MCTables
  Accesses <- MCAccesses
  MemSize = 4
  interleaving_bits = 1
  stage_bits = 1
  output_width = 2
  MaxAccesses = 3
INVARIANTS RoutingIsMap AnsweredInFull
PROPERTIES IoProtocol WaitingAnswered
CHECK_DEADLOCK FALSE
