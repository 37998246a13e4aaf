SPECIFICATION Spec
CONSTANTS
  Blocks <- MCBlocks
  TableCount = 2
  TablesOf <- MCTablesOf
  BatchSize <- MCBatchSize
  Modes = {"batch-insert"}
  Settings <- MCFollowing
  Unset = Unset
  Blank = Blank
  Flag = Flag
  Latest = Latest
  Rejected = Rejected
  InitialTip = 3
  MaxTip = 5
  MaxRestarts = 2
  MaxGivenUp = 1
INVARIANT
  NoDataLoss
CHECK_DEADLOCK FALSE
