\* Raw results a system call can return, both build policies; two threads
\* sharing a Timer, with valid and invalid Times and two settime calls.
CONSTANTS
  WordBits = 6
  IntBits = 4
  RawResults <- KernelRaw
  MaxAttempts = 4
  Threads = {t1, t2}
  TNanosPerSec = 2
  TimeInputs <- MCTimeInputs
  MaxNow = 3
  MaxTicks = 2
  MaxSets = 2
SPECIFICATION RTFairSpec
INVARIANTS RetryMatchesSpec TTypeOK
PROPERTIES TimerRefinement TicksReturns
CHECK_DEADLOCK FALSE
