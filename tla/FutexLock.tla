------------------------------ MODULE FutexLock -----------------------------
(***************************************************************************)
(* The futex lock of src/lock/lock.rs, shared by the threads in Threads.   *)
(*                                                                         *)
(* val is the lock word (AtomicInt).  Each atomic operation of the code    *)
(* (compare_exchange, sub, store) and each futex system call is one step;  *)
(* the steps in between touch only thread-local state.  queue is the       *)
(* kernel's futex wait queue of the word: futex_wait enqueues the caller   *)
(* only if the word still equals WAITING, futex_wake(1) dequeues the head  *)
(* (waiters of equal priority are woken in FIFO order), and a sleeping     *)
(* thread that is no longer queued has been woken and returns 0.           *)
(*                                                                         *)
(* pc[t] is where thread t is:                                             *)
(*   "idle"      no Lock call in progress                                  *)
(*   "loop"      head of the slow-path loop of lock / try_lock_for         *)
(*   "wait"      about to call futex_wait(&val, WAITING, ..)               *)
(*   "sleep"     blocked in futex_wait                                     *)
(*   "acq"       about to compare_exchange(UNLOCKED, WAITING)              *)
(*   "cs"        holds a LockGuard                                         *)
(*   "rel_store" in LockGuard::drop, after sub returned WAITING           *)
(*   "rel_wake"  in LockGuard::drop, after store(UNLOCKED)                 *)
(* op[t] is the Lock method in progress, status[t] the local `status`,    *)
(* ret[t] the result of t's last completed call.                           *)
(***************************************************************************)
EXTENDS Integers, Sequences, FiniteSets, SequencesExt

CONSTANTS
  Threads,     \* the threads (or processes) sharing one Lock
  Ops,         \* the Lock methods the threads call, a subset of AllOps
  Interrupts   \* TRUE when a signal may interrupt futex_wait (EINTR)

AllOps == {"try_lock", "lock", "try_lock_for"}

ASSUME Ops \subseteq AllOps /\ Interrupts \in BOOLEAN

UNLOCKED == 0
LOCKED   == 1
WAITING  == 2

VARIABLES val, pc, op, status, queue, ret

vars == <<val, pc, op, status, queue, ret>>

Pcs == {"idle", "loop", "wait", "sleep", "acq", "cs", "rel_store", "rel_wake"}
Results == {"none", "ok", "busy", "timedout", "clockerr"}

\* compare_exchange(expected, new) on the lock word; its result is val.
CAS(expected, new) == val' = IF val = expected THEN new ELSE val

Goto(t, p) == pc' = [pc EXCEPT ![t] = p]
Return(t, r) == /\ pc' = [pc EXCEPT ![t] = "idle"]
                /\ ret' = [ret EXCEPT ![t] = r]
Acquired(t) == /\ pc' = [pc EXCEPT ![t] = "cs"]
               /\ ret' = [ret EXCEPT ![t] = "ok"]

Init == /\ val = UNLOCKED
        /\ pc = [t \in Threads |-> "idle"]
        /\ op = [t \in Threads |-> "none"]
        /\ status = [t \in Threads |-> UNLOCKED]
        /\ queue = <<>>
        /\ ret = [t \in Threads |-> "none"]

(***************************************************************************)
(* try_lock: one compare_exchange(UNLOCKED, LOCKED).                       *)
(***************************************************************************)
try_lock(t) ==
  /\ pc[t] = "idle" /\ "try_lock" \in Ops
  /\ CAS(UNLOCKED, LOCKED)
  /\ IF val = UNLOCKED THEN Acquired(t) ELSE Return(t, "busy")
  /\ op' = [op EXCEPT ![t] = "try_lock"]
  /\ UNCHANGED <<status, queue>>

(***************************************************************************)
(* The fast path of lock and of try_lock_for.  On failure lock enters the  *)
(* loop; try_lock_for first reads the monotonic clock, whose failure is    *)
(* returned by `?` (the read touches no shared state, so it is part of     *)
(* this step).                                                             *)
(***************************************************************************)
lock(t) ==
  /\ pc[t] = "idle" /\ "lock" \in Ops
  /\ CAS(UNLOCKED, LOCKED)
  /\ IF val = UNLOCKED
       THEN Acquired(t) /\ UNCHANGED status
       ELSE Goto(t, "loop") /\ status' = [status EXCEPT ![t] = val]
                           /\ UNCHANGED ret
  /\ op' = [op EXCEPT ![t] = "lock"]
  /\ UNCHANGED queue

try_lock_for(t) ==
  /\ pc[t] = "idle" /\ "try_lock_for" \in Ops
  /\ CAS(UNLOCKED, LOCKED)
  /\ IF val = UNLOCKED
       THEN Acquired(t) /\ UNCHANGED status
       ELSE \/ Return(t, "clockerr") /\ UNCHANGED status
            \/ Goto(t, "loop") /\ status' = [status EXCEPT ![t] = val]
                               /\ UNCHANGED ret
  /\ op' = [op EXCEPT ![t] = "try_lock_for"]
  /\ UNCHANGED queue

(***************************************************************************)
(* Loop head: `status == WAITING || compare_exchange(LOCKED, WAITING)      *)
(* != UNLOCKED`.  The exchange runs only when status is not WAITING        *)
(* (short-circuit); if either holds the thread calls futex_wait.           *)
(***************************************************************************)
\* Mutant: marks contention by incrementing the word instead of CAS(LOCKED, WAITING).
MarkWaiting_increment(t) ==
  /\ pc[t] = "loop"
  /\ IF status[t] = WAITING
       THEN Goto(t, "wait") /\ UNCHANGED val
       ELSE /\ val' = IF val # UNLOCKED THEN val + 1 ELSE val
            /\ Goto(t, IF val # UNLOCKED THEN "wait" ELSE "acq")
  /\ UNCHANGED <<op, status, queue, ret>>

MarkWaiting(t) ==
  /\ pc[t] = "loop"
  /\ IF status[t] = WAITING
       THEN Goto(t, "wait") /\ UNCHANGED val
       ELSE /\ CAS(LOCKED, WAITING)
            /\ Goto(t, IF val # UNLOCKED THEN "wait" ELSE "acq")
  /\ UNCHANGED <<op, status, queue, ret>>

(***************************************************************************)
(* futex_wait(&val, WAITING, ..): the kernel compares the word with        *)
(* WAITING and enqueues the caller atomically; otherwise it returns        *)
(* EAGAIN at once, which both callers ignore.                              *)
(***************************************************************************)
FutexWait(t) ==
  /\ pc[t] = "wait"
  /\ IF val = WAITING
       THEN Goto(t, "sleep") /\ queue' = Append(queue, t)
       ELSE Goto(t, "acq") /\ UNCHANGED queue
  /\ UNCHANGED <<val, op, status, ret>>

\* futex_wait returns 0 after a futex_wake dequeued the thread.
Woken(t) ==
  /\ pc[t] = "sleep" /\ ~Contains(queue, t)
  /\ Goto(t, "acq")
  /\ UNCHANGED <<val, op, status, queue, ret>>

\* futex_wait returns EINTR; lock ignores it, try_lock_for goes on (`_ => {}`).
Interrupted(t) ==
  /\ Interrupts
  /\ pc[t] = "sleep" /\ Contains(queue, t)
  /\ Goto(t, "acq") /\ queue' = Remove(queue, t)
  /\ UNCHANGED <<val, op, status, ret>>

\* The relative timeout of try_lock_for's futex_wait expires: ETIMEDOUT, break.
FutexTimedOut(t) ==
  /\ pc[t] = "sleep" /\ op[t] = "try_lock_for" /\ Contains(queue, t)
  /\ Return(t, "timedout") /\ queue' = Remove(queue, t)
  /\ UNCHANGED <<val, op, status>>

(***************************************************************************)
(* After the wait: compare_exchange(UNLOCKED, WAITING) keeps the contended *)
(* mark on acquisition.  On failure lock loops; try_lock_for reads the     *)
(* clock again and either fails (`?`), finds the deadline passed (break,   *)
(* TimedOut) or loops with the remaining time.                             *)
(***************************************************************************)
\* Mutant: takes the lock whenever the word was not WAITING.
AcquireContended_notWaiting(t) ==
  /\ pc[t] = "acq"
  /\ CAS(UNLOCKED, WAITING)
  /\ status' = [status EXCEPT ![t] = val]
  /\ IF val # WAITING
       THEN Acquired(t)
       ELSE IF op[t] = "lock"
              THEN Goto(t, "loop") /\ UNCHANGED ret
              ELSE \/ Return(t, "clockerr")
                   \/ Return(t, "timedout")
                   \/ Goto(t, "loop") /\ UNCHANGED ret
  /\ UNCHANGED <<op, queue>>

\* Mutant: a woken waiter acquires with LOCKED, dropping the contended mark.
AcquireContended_locked(t) ==
  /\ pc[t] = "acq"
  /\ CAS(UNLOCKED, LOCKED)
  /\ status' = [status EXCEPT ![t] = val]
  /\ IF val = UNLOCKED
       THEN Acquired(t)
       ELSE IF op[t] = "lock"
              THEN Goto(t, "loop") /\ UNCHANGED ret
              ELSE \/ Return(t, "clockerr")
                   \/ Return(t, "timedout")
                   \/ Goto(t, "loop") /\ UNCHANGED ret
  /\ UNCHANGED <<op, queue>>

AcquireContended(t) ==
  /\ pc[t] = "acq"
  /\ CAS(UNLOCKED, WAITING)
  /\ status' = [status EXCEPT ![t] = val]
  /\ IF val = UNLOCKED
       THEN Acquired(t)
       ELSE IF op[t] = "lock"
              THEN Goto(t, "loop") /\ UNCHANGED ret
              ELSE \/ Return(t, "clockerr")
                   \/ Return(t, "timedout")
                   \/ Goto(t, "loop") /\ UNCHANGED ret
  /\ UNCHANGED <<op, queue>>

(***************************************************************************)
(* LockGuard::drop: `if val.sub(1) != LOCKED { store(UNLOCKED);            *)
(* futex_wake(&val, 1) }`, three atomic steps.  The guard is dropped at  *)
(* the end of its scope or by LockGuard::unlock, which consumes it.       *)
(***************************************************************************)
\* Mutant: tests the new value of the word instead of the one sub returned.
ReleaseSub_newValue(t) ==
  /\ pc[t] = "cs"
  /\ val' = val - 1
  /\ Goto(t, IF val - 1 # LOCKED THEN "rel_store" ELSE "idle")
  /\ UNCHANGED <<op, status, queue, ret>>

ReleaseSub(t) ==
  /\ pc[t] = "cs"
  /\ val' = val - 1
  /\ Goto(t, IF val # LOCKED THEN "rel_store" ELSE "idle")
  /\ UNCHANGED <<op, status, queue, ret>>

ReleaseStore(t) ==
  /\ pc[t] = "rel_store"
  /\ val' = UNLOCKED
  /\ Goto(t, "rel_wake")
  /\ UNCHANGED <<op, status, queue, ret>>

\* Mutant: futex_wake(&val, 0) wakes nobody.
ReleaseWake_none(t) ==
  /\ pc[t] = "rel_wake"
  /\ Goto(t, "idle")
  /\ UNCHANGED <<val, op, status, queue, ret>>

\* futex_wake(&val, 1): dequeue the first waiter, if any.
ReleaseWake(t) ==
  /\ pc[t] = "rel_wake"
  /\ queue' = IF queue = <<>> THEN queue ELSE Tail(queue)
  /\ Goto(t, "idle")
  /\ UNCHANGED <<val, op, status, ret>>

(***************************************************************************)
(* A thread starts a Lock call only when its program chooses to; every     *)
(* other step is taken eventually: the code between atomic operations is   *)
(* straight-line, a guard's scope ends, a woken futex_wait returns and a   *)
(* relative timeout expires.  Signals are not assumed to arrive.           *)
(***************************************************************************)
Step(t) ==
  \/ MarkWaiting(t) \/ FutexWait(t) \/ Woken(t) \/ FutexTimedOut(t)
  \/ AcquireContended(t) \/ ReleaseSub(t) \/ ReleaseStore(t) \/ ReleaseWake(t)

Next == \E t \in Threads :
          \/ try_lock(t) \/ lock(t) \/ try_lock_for(t)
          \/ Interrupted(t)
          \/ Step(t)

Fairness == \A t \in Threads : WF_vars(Step(t))

Spec == Init /\ [][Next]_vars /\ Fairness

-----------------------------------------------------------------------------
Holders == {t \in Threads : pc[t] \in {"cs", "rel_store"}}

\* LockStatus and Lock::status(): the variant the lock word maps to.
LockStatuses == {"Unlocked", "Locked", "Waiting"}
StatusOf(v) == CASE v = UNLOCKED -> "Unlocked"
                 [] v = LOCKED   -> "Locked"
                 [] OTHER        -> "Waiting"

TypeOK ==
  /\ val \in {UNLOCKED, LOCKED, WAITING} /\ StatusOf(val) \in LockStatuses
  /\ pc \in [Threads -> Pcs]
  /\ op \in [Threads -> {"none"} \cup AllOps]
  /\ status \in [Threads -> {UNLOCKED, LOCKED, WAITING}]
  /\ queue \in Seq(Threads) /\ Len(queue) <= Cardinality(ToSet(queue))
  /\ ret \in [Threads -> Results]

(***************************************************************************)
(* status() reports Unlocked exactly when no thread holds the lock.  A    *)
(* guard is held from the successful compare_exchange until drop's sub    *)
(* (uncontended) or drop's store(UNLOCKED) (contended); in between the     *)
(* word may be set to WAITING by newcomers and decremented by drop.  If    *)
(* this fails, try_lock reports busy on a free lock or two guards coexist. *)
(***************************************************************************)
LockWordReflectsOwner == (StatusOf(val) = "Unlocked") <=> (Holders = {})

(***************************************************************************)
(* No lost wake-up: when every thread is idle or blocked in futex_wait,    *)
(* no lock() caller is blocked.  In such a state nobody will call          *)
(* futex_wake, so a blocked lock() caller would sleep until some later     *)
(* caller happens to contend.  It holds only if every sleeper is covered   *)
(* by the WAITING mark or by a thread that will restore it (a woken        *)
(* waiter, a releaser between sub and futex_wake).                         *)
(***************************************************************************)
Quiescent == \A u \in Threads : pc[u] = "idle" \/ Contains(queue, u)

NoStrandedSleeper ==
  Quiescent => \A t \in ToSet(queue) : op[t] # "lock"

(***************************************************************************)
(* Lock::status() answers Locked ("nobody is waiting") or Unlocked while  *)
(* a thread sleeps in futex_wait only for a while: whenever a thread is   *)
(* queued and the word is not WAITING, some thread is committed to waking *)
(* it or to marking the word WAITING again -- a releaser between sub and  *)
(* futex_wake, a waiter already woken, or a lock() caller in its slow     *)
(* path (which marks the word WAITING before it sleeps).  With the word   *)
(* WAITING the holder's drop will wake.  A step that breaks this leaves a  *)
(* sleeper that no release will wake.                                      *)
(***************************************************************************)
Covering(u) ==
  \/ pc[u] \in {"rel_store", "rel_wake"}
  \/ pc[u] = "sleep" /\ ~Contains(queue, u)
  \/ op[u] = "lock" /\ pc[u] \in {"loop", "wait", "acq"}

SleepersCovered ==
  (queue # <<>> /\ StatusOf(val) # "Waiting") => \E u \in Threads : Covering(u)

(***************************************************************************)
(* Progress of lock(): while a lock() call is in its slow path, some       *)
(* thread eventually holds the lock.  The lock is not fair (a newcomer may *)
(* take it ahead of a woken waiter), so this is stated for the lock as a   *)
(* whole, not for each caller.                                             *)
(***************************************************************************)
Contending == {t \in Threads : op[t] = "lock" /\ pc[t] \in {"loop", "wait", "sleep", "acq"}}

LockProgress == (Contending # {}) ~> (Holders # {})

=============================================================================
