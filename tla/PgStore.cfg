SPECIFICATION Spec
CONSTANTS
  Blocks <- MCBlocks
  TableCount = 3
  TablesOf <- MCTablesOf
  BatchSize <- MCBatchSize
  Modes = {"batch-insert", "block-atomic"}
  MaxRestarts = 2
INVARIANTS
  TypeOK
  WholeBlocks
  NothingDropped
PROPERTIES
  ImplementsStore
CHECK_DEADLOCK FALSE
