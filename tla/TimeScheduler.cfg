SPECIFICATION SSpec
CONSTANTS
  c1 = c1
  c2 = c2
  e1 = e1
  e2 = e2
  e3 = e3
  Clients <- MCClients
  Events <- MCEvents
  Owner <- MCOwner
  None = None
  MaxTime = 6
  MaxDelay = 3
INVARIANTS NothingMissed
PROPERTY ImplementsAgenda
