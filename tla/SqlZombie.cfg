SPECIFICATION Spec
CONSTANTS
  parent = parent
  child = child
  p1 = p1
  p2 = p2
  w1 = w1
  w2 = w2
  NoJob = NoJob
  NoProcess = NoProcess
  Jobs <- MCSolo
  Parent <- MCSoloParent
  Rank <- MCSoloRank
  MaxRetries <- MCSoloRetries
  Processes = {p1, p2}
  Workers = {w1, w2}
  Home <- MCHome
  ScanLimit = 2
  LongBackoff = TRUE
  MaxLapses = 1
  MaxCrashes = 0
  MaxRequeues = 0
PROPERTIES
  ZombieDiscarded
