SPECIFICATION FairSpec
CONSTANTS
  Tasks = {t1, t2, t3}
  MaxCalls = 3
  MaxFaults = 1
CHECK_DEADLOCK FALSE
INVARIANTS
  TypeOK
  WriterSerialized
  OutcomeIsTrue

PROPERTIES
  WaitEnds
