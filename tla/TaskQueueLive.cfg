SPECIFICATION FairSpec
CONSTANTS
  root = root
  step = step
  twin = twin
  key = key
  NoJob = NoJob
  NoKey = NoKey
  Workers = {w1}
  Jobs <- MCJobs
  Keys <- MCKeys
  Priority <- MCPriority
  DependsOn <- MCChain
  DedupKey <- MCNoKey
  Delayed <- MCDelayed
  MaxRetries <- MCMaxRetries
  MaxRequeues = 1
PROPERTIES
  EveryJobSettles
