SPECIFICATION FairSpec
CONSTANTS
  Ranges <- MCRanges
  Concurrency = 3
  MaxBlockRetries = 1
INVARIANTS
  TypeOK
  SingleWriter
  PassedOrGivenUp
  EachHeightInOnePlace
  SlotsAccounted
  CompleteOnReturn
  NeverStalls
PROPERTIES
  RangeFinishes
  ImplementsFairFeed
CHECK_DEADLOCK FALSE
