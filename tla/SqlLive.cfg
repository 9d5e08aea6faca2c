SPECIFICATION FairSpec
CONSTANTS
  parent = parent
  child = child
  p1 = p1
  p2 = p2
  w1 = w1
  w2 = w2
  NoJob = NoJob
  NoProcess = NoProcess
  Jobs <- MCJobs
  Parent <- MCParent
  Rank <- MCRank
  MaxRetries <- MCMaxRetries
  Processes = {p1}
  Workers = {w1}
  Home <- MCOneHome
  ScanLimit = 2
  LongBackoff = TRUE
  MaxLapses = 0
  MaxCrashes = 1
  MaxRequeues = 1
INVARIANTS
  StepsInOrder
PROPERTIES
  EveryJobSettles
  ImplementsJobBoard
