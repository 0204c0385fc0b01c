------------------------------ MODULE TimerSpec ------------------------------
(***************************************************************************)
(* What a Timer of src/time/timer.rs promises, from its doc comments and  *)
(* the timerfd contract they rely on: disable stops it; interval(iv)       *)
(* expires every iv, first in iv; interval_from(iv, start) every iv from  *)
(* the absolute start; interval_in(iv, when) every iv from `when` units   *)
(* on; once_at / once_in expire once, at the absolute `when` or in `when` *)
(* units; status returns (interval, time to the next expiry); ticks       *)
(* returns how often the timer expired, waiting while that is zero.        *)
(*                                                                         *)
(* Times are counted in ticks of the clock, which runs up to MaxNow.  A Time that is not a valid   *)
(* timespec (negative, or nanoseconds outside [0, NanosPerSec)) is        *)
(* refused with EINVAL and changes nothing; a zero first expiry disarms;  *)
(* re-arming discards expirations not yet read.                           *)
(***************************************************************************)
EXTENDS Integers

CONSTANTS Threads, NanosPerSec, TimeInputs, MaxNow, MaxTicks

Off == -1                                  \* due when the timer is disarmed
EINTR == 4
EAGAIN == 11
EINVAL == 22
Valid(ts)   == ts.seconds >= 0 /\ ts.nanoseconds \in 0 .. NanosPerSec - 1
Ticks(ts)   == ts.seconds * NanosPerSec + ts.nanoseconds
Ok(v)  == [tag |-> "ok", val |-> v]
Err(e) == [tag |-> "err", val |-> e]
OkPair(p) == [tag |-> "ok", pair |-> p]     \* Ok((a, b))

VARIABLES clock, due, period, pending, method, answer

avars == <<clock, due, period, pending, method, answer>>

\* Arm with first expiry `first` (Off to disarm) and the given period, if
\* every Time argument is valid.
Rearm(t, m, args, first, per) ==
  /\ method' = [method EXCEPT ![t] = m]
  /\ IF \A a \in args : Valid(a)
     THEN /\ due' = first /\ period' = per /\ pending' = 0
          /\ answer' = [answer EXCEPT ![t] = Ok(0)]
     ELSE /\ answer' = [answer EXCEPT ![t] = Err(EINVAL)]
          /\ UNCHANGED <<due, period, pending>>

\* The clock time of the first expiry: `when` itself, or `when` from now.
First(when, abs) ==
  IF Ticks(when) = 0 THEN Off ELSE IF abs THEN Ticks(when) ELSE clock + Ticks(when)

Idle(t) == method[t] # "ticks"

\* The setters, each named by the method the doc comment describes.
ASet(t) ==
  /\ Idle(t)
  /\ \/ Rearm(t, "disable", {}, Off, 0)
     \/ \E iv \in TimeInputs :
          Rearm(t, "interval", {iv}, First(iv, FALSE), Ticks(iv))
     \/ \E iv, w \in TimeInputs :
          \/ Rearm(t, "interval_from", {iv, w}, First(w, TRUE), Ticks(iv))
          \/ Rearm(t, "interval_in", {iv, w}, First(w, FALSE), Ticks(iv))
     \/ \E w \in TimeInputs :
          \/ Rearm(t, "once_at", {w}, First(w, TRUE), 0)
          \/ Rearm(t, "once_in", {w}, First(w, FALSE), 0)
  /\ UNCHANGED clock

\* The time left to the next expiry; zero when disarmed or overdue.
Left == IF due = Off \/ due <= clock THEN 0 ELSE due - clock

AStatus(t) ==
  /\ Idle(t) /\ method' = [method EXCEPT ![t] = "status"]
  /\ answer' = [answer EXCEPT ![t] = OkPair(<<period, Left>>)]
  /\ UNCHANGED <<clock, due, period, pending>>

ACallTicks(t) == Idle(t) /\ method' = [method EXCEPT ![t] = "ticks"]
                 /\ UNCHANGED <<clock, due, period, pending, answer>>

\* ticks returns the expirations so far, or fails only while there are none.
AReturnTicks(t) ==
  /\ ~Idle(t)
  /\ \/ pending > 0 /\ pending' = 0 /\ answer' = [answer EXCEPT ![t] = Ok(pending)]
     \/ pending = 0 /\ \E e \in {EAGAIN, EINTR} :
          answer' = [answer EXCEPT ![t] = Err(e)] /\ UNCHANGED pending
  /\ method' = [method EXCEPT ![t] = "ticked"] /\ UNCHANGED <<clock, due, period>>

\* Time passes; at the deadline the timer expires and re-arms or stops.
AElapse == clock < MaxNow /\ clock' = clock + 1
           /\ UNCHANGED <<due, period, pending, method, answer>>
AExpire ==
  /\ due # Off /\ due <= clock /\ pending < MaxTicks
  /\ pending' = pending + 1 /\ due' = IF period > 0 THEN due + period ELSE Off
  /\ UNCHANGED <<clock, period, method, answer>>

ANext == \/ \E t \in Threads : ASet(t) \/ AStatus(t) \/ ACallTicks(t) \/ AReturnTicks(t)
         \/ AElapse \/ AExpire

ASpec == clock = 0 /\ due = Off /\ period = 0 /\ pending = 0 /\ method = [t \in Threads |-> "none"]
         /\ answer = [t \in Threads |-> Ok(0)] /\ [][ANext]_avars
=============================================================================
