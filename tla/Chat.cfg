SPECIFICATION FairSpec
CONSTANTS
  MaxSends = 2
  MaxLength = 3
CHECK_DEADLOCK FALSE
INVARIANTS
  TypeOK
  StopReaches
  SpinnerTrue
  AnswersItsQuestion
  WholeAnswer
PROPERTIES
  Typed
