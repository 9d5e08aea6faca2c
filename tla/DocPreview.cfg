SPECIFICATION FairSpec
CONSTANTS
  a1 = a1
  a2 = a2
  b = b
  c = c
  A = A
  B = B
  home = home
  other = other
  None = None
  Terms = {a1, a2, b, c}
  Entity <- MCEntity
  Page <- MCPage
INVARIANTS
  TypeOK
  OneTimer
  OnPage
  Attended
PROPERTIES
  HoverCloses
  EscapeCloses
