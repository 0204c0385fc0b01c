\* lock and try_lock only, four threads (a releaser, two sleepers and a
\* newcomer): every sleeper is covered and some contender gets the lock.
CONSTANTS
  Threads = {t1, t2, t3, t4}
  Ops = {"try_lock", "lock"}
  Interrupts = TRUE
  NoOwner = NoOwner
SPECIFICATION Spec
INVARIANTS SleepersCovered
PROPERTIES LockProgress
