SPECIFICATION Spec
CONSTANTS
  root = root
  step = step
  twin = twin
  key = key
  NoJob = NoJob
  NoKey = NoKey
  Workers = {w1, w2}
  Jobs <- MCJobs
  Keys <- MCKeys
  Priority <- MCPriority
  DependsOn <- MCDependsOn
  DedupKey <- MCDedupKey
  Delayed <- MCDelayed
  MaxRetries <- MCMaxRetries
  MaxRequeues = 1
SYMMETRY MCWorkers
PROPERTIES
  RunningIsNoOrphan
