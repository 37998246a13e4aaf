SPECIFICATION Spec
CONSTANTS
  p1 = p1
  p2 = p2
  p3 = p3
  Processes = {p1, p2, p3}
  Shown <- MCShown
  RangeOrder <- MCRangeOrder
  MaxHeight = 2
  TablesOf <- MCTablesOf
  HashModulus <- MCHashModulus
  MaxDead = 1
  BootModulus = 1
  NoOwner = NoOwner
  LimitScale = 1
  STEP = 2
INVARIANTS
  TypeOK
  NoDeadlock
  NoneCreatesTwice
  ProgressCovered
PROPERTY
  FlushesEnd
CHECK_DEADLOCK FALSE
