------------------------------ MODULE TimeArith ------------------------------
(***************************************************************************)
(* The Time value of src/time.rs: {seconds, nanoseconds}, both i64;        *)
(* normalize, the constructors, Add, Sub and Ord, and the derived Eq.      *)
(*                                                                         *)
(* Widths and unit ratios are scaled down so that TLC can enumerate every  *)
(* seconds value: an i64 is Bits wide, a second has NanosPerSec            *)
(* nanoseconds.  saturating_add / saturating_sub clamp to the Bits-wide    *)
(* range and wrapping_mul wraps, as in the code.                           *)
(*                                                                         *)
(* Each step applies one operation to the inputs x, y (or the integer v)   *)
(* and records the result, so every property is checked for every input.   *)
(***************************************************************************)
EXTENDS Integers

CONSTANTS
  Bits,                         \* width of i64
  NanosPerMicro, MicrosPerSec,  \* NANOS_PER_MICRO, MICROS_PER_SEC
  NanosPerMilli, MillisPerSec,  \* NANOS_PER_MILLI, MILLIS_PER_SEC
  SecsPerMin, MinsPerHour, HoursPerDay,
  NanoInputs                    \* nanoseconds fields of the inputs

NanosPerSec == NanosPerMicro * MicrosPerSec      \* NANOS_PER_SEC
SecsPerHour == MinsPerHour * SecsPerMin          \* SECS_PER_HOUR
SecsPerDay  == HoursPerDay * SecsPerHour         \* SECS_PER_DAY

ASSUME NanosPerMilli * MillisPerSec = NanosPerSec

MinI == -(2^(Bits - 1))
MaxI == 2^(Bits - 1) - 1
I64  == MinI .. MaxI

Clamp(n)            == IF n > MaxI THEN MaxI ELSE IF n < MinI THEN MinI ELSE n
SaturatingAdd(a, b) == Clamp(a + b)
SaturatingSub(a, b) == Clamp(a - b)
WrappingMul(a, b)   == ((a * b - MinI) % 2^Bits) + MinI

\* Int::div_rem: Rust's `/` and `%`, which truncate towards zero.
Quot(a, b)   == IF a >= 0 THEN a \div b ELSE -((-a) \div b)
DivRem(a, b) == <<Quot(a, b), a - Quot(a, b) * b>>

T(s, n) == [seconds |-> s, nanoseconds |-> n]

\* Mutant: a negative remainder is kept instead of borrowing a second.
Normalize_noBorrow(t) ==
  LET q == DivRem(t.nanoseconds, NanosPerSec)
  IN  T(SaturatingAdd(t.seconds, q[1]), q[2])

(***************************************************************************)
(* normalize: split the nanoseconds into whole seconds and a remainder,   *)
(* borrow a second if the remainder is negative, saturating-add the       *)
(* seconds.                                                                *)
(***************************************************************************)
Normalize(t) ==
  LET q == DivRem(t.nanoseconds, NanosPerSec)
      sec  == IF q[2] < 0 THEN q[1] - 1 ELSE q[1]
      nano == IF q[2] < 0 THEN q[2] + NanosPerSec ELSE q[2]
  IN  T(SaturatingAdd(t.seconds, sec), nano)

Nanoseconds(n)  == LET q == DivRem(n, NanosPerSec) IN T(q[1], q[2])
\* Mutant: the copy of milliseconds keeps NANOS_PER_MILLI.
Microseconds_milliUnit(m) ==
  LET q == DivRem(m, MicrosPerSec) IN T(q[1], q[2] * NanosPerMilli)
Microseconds(m) == LET q == DivRem(m, MicrosPerSec) IN T(q[1], q[2] * NanosPerMicro)
Milliseconds(m) == LET q == DivRem(m, MillisPerSec) IN T(q[1], q[2] * NanosPerMilli)
Seconds(s)      == T(s, 0)
\* Mutant: minutes multiplies without wrapping (an overflow in the code).
Minutes_unchecked(m) == Seconds(m * SecsPerMin)

Minutes(m)      == Seconds(WrappingMul(m, SecsPerMin))
Hours(h)        == Seconds(WrappingMul(h, SecsPerHour))
Days(d)         == Seconds(WrappingMul(d, SecsPerDay))

\* Mutant: the nanosecond sum is not normalized again.
AddTime_noCarry(a, b) ==
  LET one == Normalize(a)
      two == Normalize(b)
  IN  T(SaturatingAdd(one.seconds, two.seconds),
        one.nanoseconds + two.nanoseconds)

AddTime(a, b) ==
  LET one == Normalize(a)
      two == Normalize(b)
  IN  Normalize(T(SaturatingAdd(one.seconds, two.seconds),
                  one.nanoseconds + two.nanoseconds))

SubTime(a, b) ==
  LET one == Normalize(a)
      two == Normalize(b)
  IN  Normalize(T(SaturatingSub(one.seconds, two.seconds),
                  one.nanoseconds - two.nanoseconds))

\* The lexicographic order of (seconds, nanoseconds) pairs: -1, 0 or 1.
LexCmp(p, q) ==
  IF p.seconds # q.seconds THEN (IF p.seconds < q.seconds THEN -1 ELSE 1)
  ELSE IF p.nanoseconds = q.nanoseconds THEN 0
  ELSE IF p.nanoseconds < q.nanoseconds THEN -1 ELSE 1

\* Mutant: compares the fields without normalizing.
Cmp_raw(a, b) == LexCmp(a, b)

\* Ord::cmp (and partial_cmp): compare the normalized pairs.
Cmp(a, b) == LexCmp(Normalize(a), Normalize(b))

\* derive(PartialEq, Eq): field-wise equality.
Eq(a, b) == a = b

-----------------------------------------------------------------------------
Times     == {T(s, n) : s \in I64, n \in NanoInputs}
Ctors     == {"nanoseconds", "microseconds", "milliseconds", "seconds",
              "minutes", "hours", "days"}

\* The constructor named c applied to v.
Construct(c, v) ==
  CASE c = "nanoseconds"  -> Nanoseconds(v)
    [] c = "microseconds" -> Microseconds(v)
    [] c = "milliseconds" -> Milliseconds(v)
    [] c = "seconds"      -> Seconds(v)
    [] c = "minutes"      -> Minutes(v)
    [] c = "hours"        -> Hours(v)
    [] c = "days"         -> Days(v)

VARIABLES op, x, y, v, res, ord

vars == <<op, x, y, v, res, ord>>

Init == /\ op = "none" /\ x = T(0, 0) /\ y = T(0, 0) /\ v = 0
        /\ res = T(0, 0) /\ ord = 0

Normalizing ==
  /\ op = "none"
  /\ \E a \in Times : x' = a /\ res' = Normalize(a)
  /\ op' = "normalize" /\ UNCHANGED <<y, v, ord>>

Adding ==
  /\ op = "none"
  /\ \E a, b \in Times : x' = a /\ y' = b /\ res' = AddTime(a, b)
  /\ op' = "add" /\ UNCHANGED <<v, ord>>

Subtracting ==
  /\ op = "none"
  /\ \E a, b \in Times : x' = a /\ y' = b /\ res' = SubTime(a, b)
  /\ op' = "sub" /\ UNCHANGED <<v, ord>>

Comparing ==
  /\ op = "none"
  /\ \E a, b \in Times : x' = a /\ y' = b /\ ord' = Cmp(a, b)
  /\ op' = "cmp" /\ UNCHANGED <<v, res>>

Constructing ==
  /\ op = "none"
  /\ \E c \in Ctors, n \in I64 : op' = c /\ v' = n /\ res' = Construct(c, n)
  /\ UNCHANGED <<x, y, ord>>

\* The result has been used; the next operation starts afresh.
Done == /\ op # "none"
        /\ op' = "none" /\ x' = T(0, 0) /\ y' = T(0, 0) /\ v' = 0
        /\ res' = T(0, 0) /\ ord' = 0

Next == Normalizing \/ Adding \/ Subtracting \/ Comparing \/ Constructing \/ Done

Spec == Init /\ [][Next]_vars

-----------------------------------------------------------------------------
TypeOK ==
  /\ op \in {"none", "normalize", "add", "sub", "cmp"} \cup Ctors
  /\ x \in Times /\ y \in Times /\ v \in I64
  /\ res \in [seconds : I64, nanoseconds : I64]
  /\ ord \in {-1, 0, 1}

\* The reference: the value of a Time in nanoseconds, as a mathematical
\* integer, and the values a Time with seconds in I64 can hold.
Value(t)    == t.seconds * NanosPerSec + t.nanoseconds
InRange(n)  == MinI * NanosPerSec <= n /\ n <= MaxI * NanosPerSec + NanosPerSec - 1
Sign(n)     == IF n > 0 THEN 1 ELSE IF n < 0 THEN -1 ELSE 0

\* t is the normalized form of the value n; when n is beyond the range, t
\* is saturated towards the bound n exceeds.
Represents(t, n) ==
  /\ t.nanoseconds \in 0 .. NanosPerSec - 1
  /\ IF InRange(n) THEN Value(t) = n
     ELSE t.seconds = IF n > 0 THEN MaxI ELSE MinI

(***************************************************************************)
(* normalize (time.rs, doc comment): the result is an equivalent          *)
(* representation with nanoseconds in [0, NANOS_PER_SEC), saturated when *)
(* the value is beyond the range of the seconds field.                    *)
(***************************************************************************)
NormalizeCorrect == op = "normalize" => Represents(res, Value(x))

\* The exact result of the add or sub step on representable inputs.
Exact == IF op = "add" THEN Value(x) + Value(y) ELSE Value(x) - Value(y)
ArithmeticStep ==
  op \in {"add", "sub"} /\ InRange(Value(x)) /\ InRange(Value(y))

(***************************************************************************)
(* When the exact sum or difference of two representable times is beyond  *)
(* the range, Add and Sub saturate towards the bound it exceeds, to within *)
(* one second (a carry or borrow after the seconds saturated), and never   *)
(* wrap round to the other end of the range.                               *)
(***************************************************************************)
ArithmeticSaturates ==
  (ArithmeticStep /\ ~InRange(Exact)) =>
    /\ res.nanoseconds \in 0 .. NanosPerSec - 1
    /\ IF Exact > 0 THEN res.seconds >= MaxI - 1 ELSE res.seconds <= MinI + 1

(***************************************************************************)
(* When the exact sum or difference is representable, Add and Sub return  *)
(* it.  The code saturates the seconds before the final normalize carries *)
(* or borrows, so near the ends of the range the result is one second off. *)
(***************************************************************************)
ArithmeticExact ==
  (ArithmeticStep /\ InRange(Exact)) => Represents(res, Exact)

(***************************************************************************)
(* Ord orders representable times by their value.                         *)
(***************************************************************************)
CmpMatchesValue ==
  (op = "cmp" /\ InRange(Value(x)) /\ InRange(Value(y))) =>
    ord = Sign(Value(x) - Value(y))

\* The nanoseconds in one unit of the constructor c.
Unit(c) ==
  CASE c = "nanoseconds"  -> 1
    [] c = "microseconds" -> NanosPerMicro
    [] c = "milliseconds" -> NanosPerMilli
    [] c = "seconds"      -> NanosPerSec
    [] c = "minutes"      -> SecsPerMin * NanosPerSec
    [] c = "hours"        -> SecsPerHour * NanosPerSec
    [] c = "days"         -> SecsPerDay * NanosPerSec


(***************************************************************************)
(* Every constructor gives a Time whose value is v units whenever that    *)
(* value is representable (minutes, hours and days use wrapping_mul).      *)
(***************************************************************************)
ConstructorsExact ==
  (op \in Ctors /\ InRange(v * Unit(op))) => Value(res) = v * Unit(op)

(***************************************************************************)
(* Rust's Ord contract: cmp returns Equal exactly when == holds.  Eq is   *)
(* derived (field-wise) while cmp normalizes first.                       *)
(***************************************************************************)
OrdConsistentWithEq == op = "cmp" => (ord = 0 <=> Eq(x, y))
=============================================================================
