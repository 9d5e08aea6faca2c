SPECIFICATION FairSpec
CONSTANTS
  c1 = c1
  c2 = c2
  c3 = c3
  d = d
  p1 = p1
  p2 = p2
  NoCaller = NoCaller
  MaxUpsets = 2
  Callers = {c1, c2, c3, d}
  Processes = {p1, p2}
  Home <- MCHome
CHECK_DEADLOCK FALSE
INVARIANTS
  TypeOK
  SingleFlight
  LockIsHeld
  WaitsForSomebody
PROPERTIES
  CallsEnd
