SPECIFICATION Spec
CONSTANTS
  Null = Null
  Decoded <- MCDecoded
  CoinOf <- MCCoinOf
  LimitScale = 500
  STEP = 2
  Modes = {"batch-insert", "block-atomic"}
  Answers <- MCAnswers
  MaxRuns = 2
INVARIANT
  OnlyDuplicatesIgnored
CHECK_DEADLOCK FALSE
