SPECIFICATION FairSpec
CONSTANTS
  Blocks <- MCBlocks
  TableCount = 2
  TablesOf <- MCTablesOf
  BatchSize <- MCBatchSize
  Modes = {"batch-insert"}
  Settings <- MCSettings
  Unset = Unset
  Blank = Blank
  Flag = Flag
  Latest = Latest
  Rejected = Rejected
  InitialTip = 3
  MaxTip = 5
  MaxRestarts = 2
  MaxGivenUp = 1
INVARIANTS
  TypeOK
  NoGap
PROPERTIES
  NothingStoredTwice
  ProgressMonotone
  FlushedIsDurable
  RoundsAdjoin
  EveryBlockIndexed
CHECK_DEADLOCK FALSE
