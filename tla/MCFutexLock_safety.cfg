\* All three acquire methods, signals, timeouts and clock failures.
CONSTANTS
  Threads = {t1, t2, t3}
  Ops = {"try_lock", "lock", "try_lock_for"}
  Interrupts = TRUE
  NoOwner = NoOwner
SPECIFICATION Spec
INVARIANTS TypeOK LockWordReflectsOwner
PROPERTIES LockRefinement
