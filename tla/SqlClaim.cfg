SPECIFICATION Spec
CONSTANTS
  parent = parent
  child = child
  p1 = p1
  p2 = p2
  w1 = w1
  w2 = w2
  NoJob = NoJob
  NoProcess = NoProcess
  Jobs <- MCJobs
  Parent <- MCParent
  Rank <- MCRank
  MaxRetries <- MCMaxRetries
  Processes = {p1, p2}
  Workers = {w1, w2}
  Home <- MCHome
  ScanLimit = 2
  LongBackoff = TRUE
  MaxLapses = 0
  MaxCrashes = 0
  MaxRequeues = 1
SYMMETRY MCSwap
INVARIANTS
  TypeOK
  Exclusive
PROPERTIES
  ResultKept
