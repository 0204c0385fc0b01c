\* A try_lock_for caller that is woken and then finds its deadline passed
\* returns without passing the wake-up on: a lock() caller sleeps forever.
CONSTANTS
  Threads = {t1, t2, t3}
  Ops = {"lock", "try_lock_for"}
  Interrupts = FALSE
  NoOwner = NoOwner
SPECIFICATION Spec
INVARIANT NoStrandedSleeper
