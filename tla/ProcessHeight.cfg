SPECIFICATION FairSpec
CONSTANTS
  Workers = {w1, w2}
  Jobs <- MCJobs
  Kind <- MCKind
  Ids = {i1, i2}
  NoJob = NoJob
  MaxFaults = 1
  TxsOf <- MCTxsOf
  Ranges <- MCRanges
  MaxBlockRetries = 1
INVARIANTS
  TypeOK
  IdleIsFree
  NoWorkerLost
  BlockOfOwnAnswers
  DecodedAlike
PROPERTIES
  PoolDrains
  HeightsSettle
CHECK_DEADLOCK FALSE
