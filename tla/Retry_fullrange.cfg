\* Every raw word of the result type, as spec.md 8 asks for the round trip.
CONSTANTS
  WordBits = 6
  IntBits = 4
  RawResults <- AllRaw
  MaxAttempts = 1
  Threads = {t1}
  TNanosPerSec = 2
  TimeInputs <- MCTimeInputs
  MaxNow = 0
  MaxTicks = 1
  MaxSets = 1
SPECIFICATION RetrySpec
INVARIANT ErrnoPositive
CHECK_DEADLOCK FALSE
