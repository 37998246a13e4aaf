SPECIFICATION Spec
CONSTANTS
  Calls = {c1, c2, c3, c4}
  Rps = 1
  Second = 2
  Retries = 1
  Timeout = 2
  Backoff = 1
  Jitter = 100
INVARIANTS
  RateKept
