------------------------------- MODULE TimerFd -------------------------------
(***************************************************************************)
(* Timer of src/time/timer.rs over a timerfd, shared by Threads (its      *)
(* methods take &self).  Every setter builds an itimerspec from Times     *)
(* with time_to_timespec (src/time.rs) and calls timerfd_settime; status  *)
(* calls timerfd_gettime and converts back with time_from_timespec; ticks *)
(* reads the 8-byte expiration count through retry (src/util/retry.rs),   *)
(* so the build's retry policy (retryInterrupted of Retry) decides        *)
(* whether a signal re-issues the read.                                   *)
(*                                                                         *)
(* The kernel side is the environment: settime validates both timespecs   *)
(* (EINVAL), disarms on a zero it_value, takes it_value as a clock time  *)
(* under TFD_TIMER_ABSTIME and as a delay otherwise, and discards unread  *)
(* expirations; once the clock reaches the deadline the timer expires and *)
(* re-arms one interval later.                                            *)
(***************************************************************************)
EXTENDS Integers, Retry

CONSTANTS
  Threads,      \* threads sharing the Timer
  TNanosPerSec, \* nanoseconds per second, scaled; one tick is a nanosecond
  TimeInputs,   \* Time arguments (normalized and not)
  MaxNow,       \* the clock stops at MaxNow ticks
  MaxTicks,     \* bound on the kernel's expiration count
  MaxSets       \* bound on the number of settime calls

TFD_TIMER_ABSTIME == 1
OkPair(p) == [tag |-> "ok", pair |-> p]     \* Ok((a, b))
EAGAIN == 11
EINVAL == 22
ZeroTs == [tv_sec |-> 0, tv_nsec |-> 0]           \* lmem::zeroed() timespec

\* time_to_timespec / time_from_timespec: field-wise casts.
TimeToTimespec(d)   == [tv_sec |-> d.seconds, tv_nsec |-> d.nanoseconds]
TimeFromTimespec(t) == [seconds |-> t.tv_sec, nanoseconds |-> t.tv_nsec]

\* The kernel's view of a timespec.
TsValid(ts)  == ts.tv_sec >= 0 /\ ts.tv_nsec \in 0 .. TNanosPerSec - 1
TsTicks(ts)  == ts.tv_sec * TNanosPerSec + ts.tv_nsec
TsOfTicks(n) == [tv_sec |-> n \div TNanosPerSec, tv_nsec |-> n % TNanosPerSec]

VARIABLES
  nonblock,  \* TFD_NONBLOCK of the descriptor
  armed,     \* the timerfd is armed
  now,       \* the clock (CLOCK_MONOTONIC of the timerfd)
  deadline,  \* clock time of the next expiry
  tintv,     \* the stored it_interval
  kticks,    \* expirations not yet read
  tcall,     \* per thread: the method last called ("ticks" while inside ticks(),
             \* "ticked" once it returned)
  tres,      \* per thread: the value that call returned
  sets       \* settime calls so far

tvars == <<nonblock, now, armed, deadline, tintv, kticks, tcall, tres, sets>>

TInit == /\ nonblock \in BOOLEAN
         /\ now = 0 /\ armed = FALSE /\ deadline = 0 /\ tintv = ZeroTs /\ kticks = 0
         /\ tcall = [t \in Threads |-> "none"]
         /\ tres = [t \in Threads |-> Ok(0)] /\ sets = 0

\* timerfd_settime(fd, flags, new, None) as seen through rv!.
TimerfdSettime(t, m, flags, new) ==
  /\ sets < MaxSets /\ sets' = sets + 1
  /\ IF TsValid(new.it_interval) /\ TsValid(new.it_value)
     THEN LET v == TsTicks(new.it_value)
          IN  /\ armed' = (v # 0)
              /\ deadline' = CASE v = 0 -> 0
                               [] flags = TFD_TIMER_ABSTIME -> v
                               [] OTHER -> now + v
              /\ tintv' = new.it_interval /\ kticks' = 0
              /\ tres' = [tres EXCEPT ![t] = Ok(0)]
     ELSE /\ tres' = [tres EXCEPT ![t] = Err(EINVAL)]
          /\ UNCHANGED <<armed, deadline, tintv, kticks>>
  /\ tcall' = [tcall EXCEPT ![t] = m] /\ UNCHANGED <<nonblock, now>>

Setters == {"disable", "interval", "interval_from", "interval_in", "once_at", "once_in"}
Itimerspec(iv, v) == [it_interval |-> iv, it_value |-> v]
Idle(t) == tcall[t] # "ticks"

Disable(t) == Idle(t) /\ TimerfdSettime(t, "disable", 0, Itimerspec(ZeroTs, ZeroTs))

Interval(t) == Idle(t) /\ \E iv \in TimeInputs :
  TimerfdSettime(t, "interval", 0,
                 Itimerspec(TimeToTimespec(iv), TimeToTimespec(iv)))

\* Mutant: the start is passed as a relative time.
IntervalFrom_relative(t) == Idle(t) /\ \E iv, start \in TimeInputs :
  TimerfdSettime(t, "interval_from", 0,
                 Itimerspec(TimeToTimespec(iv), TimeToTimespec(start)))

IntervalFrom(t) == Idle(t) /\ \E iv, start \in TimeInputs :
  TimerfdSettime(t, "interval_from", TFD_TIMER_ABSTIME,
                 Itimerspec(TimeToTimespec(iv), TimeToTimespec(start)))

IntervalIn(t) == Idle(t) /\ \E iv, when \in TimeInputs :
  TimerfdSettime(t, "interval_in", 0,
                 Itimerspec(TimeToTimespec(iv), TimeToTimespec(when)))

OnceAt(t) == Idle(t) /\ \E when \in TimeInputs :
  TimerfdSettime(t, "once_at", TFD_TIMER_ABSTIME,
                 Itimerspec(ZeroTs, TimeToTimespec(when)))

OnceIn(t) == Idle(t) /\ \E when \in TimeInputs :
  TimerfdSettime(t, "once_in", 0, Itimerspec(ZeroTs, TimeToTimespec(when)))

\* status: timerfd_gettime fills the interval and the time left (zero when
\* disarmed); the pair is converted back to Times.
Status(t) ==
  /\ Idle(t)
  /\ LET cur == Itimerspec(tintv, IF armed /\ deadline > now THEN TsOfTicks(deadline - now) ELSE ZeroTs)
     IN  tres' = [tres EXCEPT ![t] = OkPair(<<TimeFromTimespec(cur.it_interval),
                                          TimeFromTimespec(cur.it_value)>>)]
  /\ tcall' = [tcall EXCEPT ![t] = "status"]
  /\ UNCHANGED <<nonblock, now, armed, deadline, tintv, kticks, sets>>

CallTicks(t) == Idle(t) /\ tcall' = [tcall EXCEPT ![t] = "ticks"]
                /\ UNCHANGED <<nonblock, now, armed, deadline, tintv, kticks, tres, sets>>

\* Mutant: the error of retry is dropped and the zero buffer returned.
ReadTicks_noPropagate(t) ==
  /\ tcall[t] = "ticks"
  /\ \/ kticks > 0 /\ tres' = [tres EXCEPT ![t] = Ok(kticks)] /\ kticks' = 0
     \/ kticks = 0 /\ (nonblock \/ ~retryInterrupted)
        /\ tres' = [tres EXCEPT ![t] = Ok(0)] /\ UNCHANGED kticks
  /\ tcall' = [tcall EXCEPT ![t] = "ticked"]
  /\ UNCHANGED <<nonblock, now, armed, deadline, tintv, sets>>

\* Mutant: EAGAIN is retried like EINTR, so the read is re-issued.
ReadTicks_retryEagain(t) ==
  /\ tcall[t] = "ticks"
  /\ \/ kticks > 0 /\ tres' = [tres EXCEPT ![t] = Ok(kticks)] /\ kticks' = 0
     \/ kticks = 0 /\ ~nonblock /\ ~retryInterrupted
        /\ tres' = [tres EXCEPT ![t] = Err(EINTR)] /\ UNCHANGED kticks
  /\ tcall' = [tcall EXCEPT ![t] = "ticked"]
  /\ UNCHANGED <<nonblock, now, armed, deadline, tintv, sets>>

(***************************************************************************)
(* ticks: the read returns the count and clears it; with none, a          *)
(* non-blocking descriptor fails with EAGAIN, and a blocking one waits:   *)
(* a signal fails it with EINTR unless the retry policy re-issues the     *)
(* read (a step that changes nothing).  `?` propagates the error.         *)
(***************************************************************************)
ReadTicks(t) ==
  /\ tcall[t] = "ticks"
  /\ \/ kticks > 0 /\ tres' = [tres EXCEPT ![t] = Ok(kticks)] /\ kticks' = 0
     \/ kticks = 0 /\ nonblock
        /\ tres' = [tres EXCEPT ![t] = Err(EAGAIN)] /\ UNCHANGED kticks
     \/ kticks = 0 /\ ~nonblock /\ ~retryInterrupted
        /\ tres' = [tres EXCEPT ![t] = Err(EINTR)] /\ UNCHANGED kticks
  /\ tcall' = [tcall EXCEPT ![t] = "ticked"]
  /\ UNCHANGED <<nonblock, now, armed, deadline, tintv, sets>>

\* The clock advances; at the deadline the timer expires and re-arms one
\* interval later (a late expiry catches up one interval per step).
Elapse == now < MaxNow /\ now' = now + 1
          /\ UNCHANGED <<nonblock, armed, deadline, tintv, kticks, tcall, tres, sets>>
Expire == /\ armed /\ deadline <= now /\ kticks < MaxTicks
          /\ kticks' = kticks + 1
          /\ armed' = (TsTicks(tintv) > 0)
          /\ deadline' = IF TsTicks(tintv) > 0 THEN deadline + TsTicks(tintv) ELSE 0
          /\ UNCHANGED <<nonblock, now, tintv, tcall, tres, sets>>

TNext ==
  \/ \E t \in Threads :
       \/ Disable(t) \/ Interval(t) \/ IntervalFrom(t) \/ IntervalIn(t)
       \/ OnceAt(t) \/ OnceIn(t) \/ Status(t) \/ CallTicks(t) \/ ReadTicks(t)
  \/ Elapse \/ Expire

TSpec == TInit /\ [][TNext]_tvars

\* The clock advances and an armed timer expires (both the kernel's), and a
\* thread whose read can complete is scheduled.  Calls are the program's.
TFairness == WF_tvars(Elapse) /\ WF_tvars(Expire) /\ \A t \in Threads : WF_tvars(ReadTicks(t))

-----------------------------------------------------------------------------
TimeTicks(d) == d.seconds * TNanosPerSec + d.nanoseconds

\* What a finished ticks() may have returned: a positive count or an error.
TicksResults == {Ok(n) : n \in 1 .. MaxTicks} \cup {Err(EAGAIN), Err(EINTR)}

(***************************************************************************)
(* Type invariant; in particular ticks() never returns Ok(0) (it returns  *)
(* the count of a read that only completes once the timer expired) and a  *)
(* stored interval is always a valid timespec.                            *)
(***************************************************************************)
TTypeOK ==
  /\ nonblock \in BOOLEAN /\ armed \in BOOLEAN /\ kticks \in 0 .. MaxTicks
  /\ TsValid(tintv) /\ now \in 0 .. MaxNow /\ deadline \in Nat /\ sets \in 0 .. MaxSets
  /\ ~armed => deadline = 0
  /\ \A t \in Threads :
       /\ tcall[t] \in {"none", "status", "ticks", "ticked"} \cup Setters
       /\ tcall[t] = "ticked" => tres[t] \in TicksResults
       /\ tcall[t] \in Setters => tres[t] \in {Ok(0), Err(EINVAL)}

\* The abstract answer of a thread: a status pair in clock ticks.
AnswerOf(t) ==
  IF "pair" \in DOMAIN tres[t]
  THEN OkPair(<<TimeTicks(tres[t].pair[1]), TimeTicks(tres[t].pair[2])>>)
  ELSE tres[t]

Abs == INSTANCE TimerSpec WITH
         NanosPerSec <- TNanosPerSec,
         clock <- now,
         due <- IF armed THEN deadline ELSE -1,
         period <- TsTicks(tintv),
         pending <- kticks,
         method <- tcall,
         answer <- [t \in Threads |-> AnswerOf(t)]

(***************************************************************************)
(* Every Timer method does what its doc comment says: the itimerspec each  *)
(* setter builds (which field gets which Time, and the ABSTIME flag)       *)
(* arms the timer as TimerSpec promises, status reports (interval, time    *)
(* left), and ticks returns the expirations; the timer refines TimerSpec. *)
(***************************************************************************)
TimerRefinement == Abs!ASpec

(***************************************************************************)
(* ticks() returns, unless it is a blocking read of a timer that will not *)
(* expire: disarmed (disable, a spent one-shot, a zero Time), or due only *)
(* after the modelled clock stops.  On a non-blocking descriptor it always *)
(* returns (EAGAIN is not retried), and an expiry ends a blocking wait.   *)
(***************************************************************************)
Stuck == ~nonblock /\ (~armed \/ deadline > MaxNow)
TicksReturns == \A t \in Threads : tcall[t] = "ticks" ~> (tcall[t] # "ticks" \/ Stuck)
=============================================================================
