SPECIFICATION FairSpec
CONSTANTS
  Workers = {w1, w2}
  Jobs <- MCJobs
  Kind <- MCKind
  Ids = {i1, i2}
  NoJob = NoJob
  MaxFaults = 1
  TxsOf <- MCTxsOf
  Ranges <- MCRanges
  MaxBlockRetries = 1
PROPERTY
  ErrorsReject
CHECK_DEADLOCK FALSE
