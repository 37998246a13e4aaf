SPECIFICATION FairSpec
CONSTANTS
  Blocks <- MCBlocks
  TableCount = 2
  TablesOf <- MCTablesOf
  BatchSize <- MCBatchSize
  Modes = {"batch-insert"}
  Settings <- MCFollowing
  Unset = Unset
  Blank = Blank
  Flag = Flag
  Latest = Latest
  Rejected = Rejected
  InitialTip = 3
  MaxTip = 5
  MaxRestarts = 1
  MaxGivenUp = 1
PROPERTY
  FollowsAfterBackfill
CHECK_DEADLOCK FALSE
