------------------------------- MODULE Retry --------------------------------
(***************************************************************************)
(* retry(f) of src/util/retry.rs and the rv! macro of src/macros.rs: the   *)
(* result convention that turns a raw signed word into Ok(value) or        *)
(* Err(Errno(code)), and the build-time policy that re-issues f while it   *)
(* reports EINTR.                                                          *)
(*                                                                         *)
(* One call of retry is modelled: calls is the sequence of raw words f     *)
(* returned so far, result the value retry returned (Pending while it      *)
(* runs).  Which policy the crate was built with (feature                  *)
(* "retry-interrupted") is chosen once in Init.                            *)
(*                                                                         *)
(* Widths are scaled down: the raw word is WordBits wide (i64 in the      *)
(* code) and Errno holds an IntBits-wide c_int (32 bits in the code); the  *)
(* ratio of the two is kept so that `-ret as c_int` truncates as it does.  *)
(***************************************************************************)
EXTENDS Integers, Sequences

CONSTANTS
  WordBits,     \* width of the raw result (i64)
  IntBits,      \* width of c_int, the type inside Errno
  RawResults,   \* the raw words f may return
  MaxAttempts   \* bound on the number of times f is called

ASSUME WordBits > IntBits /\ IntBits >= 4 /\ MaxAttempts >= 1

EINTR == 4   \* error::Interrupted

WordRange == -(2^(WordBits - 1)) .. (2^(WordBits - 1) - 1)
IntRange  == -(2^(IntBits - 1)) .. (2^(IntBits - 1) - 1)

ASSUME RawResults \subseteq WordRange

\* Two's-complement truncation of x to a bits-wide signed integer.
Wrap(x, bits) == ((x + 2^(bits - 1)) % 2^bits) - 2^(bits - 1)

Ok(v)   == [tag |-> "ok", val |-> v]
Err(e)  == [tag |-> "err", val |-> e]
Pending == [tag |-> "pending", val |-> 0]

\* `Errno(-ret.cast_i64() as c_int)`: negation in i64 (wrapping in release
\* builds), then truncation to c_int.
ErrnoOf(ret) == Wrap(Wrap(-ret, WordBits), IntBits)

\* rv!(x, -> T): a negative word is an error, any other the value.
rv(ret) == IF ret < 0 THEN Err(ErrnoOf(ret)) ELSE Ok(ret)

VARIABLES retryInterrupted, calls, result

vars == <<retryInterrupted, calls, result>>

Init == /\ retryInterrupted \in BOOLEAN
        /\ calls = <<>>
        /\ result = Pending

\* Mutant: retries on every error, not only on EINTR.
CallF_retryAll == \E ret \in RawResults :
  /\ result = Pending /\ Len(calls) < MaxAttempts
  /\ calls' = Append(calls, ret)
  /\ result' = IF retryInterrupted /\ ret < 0 THEN Pending ELSE rv(ret)
  /\ UNCHANGED retryInterrupted

(***************************************************************************)
(* One iteration: call f, decode; under the retry policy an EINTR error    *)
(* loops, anything else returns.  Without the policy the first result is   *)
(* returned.                                                               *)
(***************************************************************************)
CallF == \E ret \in RawResults :
  /\ result = Pending /\ Len(calls) < MaxAttempts
  /\ calls' = Append(calls, ret)
  /\ result' = IF retryInterrupted /\ ret < 0 /\ ErrnoOf(ret) = EINTR
                 THEN Pending
                 ELSE rv(ret)
  /\ UNCHANGED retryInterrupted

Next == CallF

Spec == Init /\ [][Next]_vars

-----------------------------------------------------------------------------
(***************************************************************************)
(* The contract of spec.md 4.2 as a reference: with the policy enabled the *)
(* calls before the last one all reported "interrupted", without it there *)
(* is exactly one call; the result is to_result of the last call, where    *)
(* to_result(-e) = Err(e) and to_result(v) = Ok(v).                       *)
(***************************************************************************)
ToResult(raw) == IF raw < 0 THEN Err(-raw) ELSE Ok(raw)

RetryMatchesSpec ==
  result # Pending =>
    /\ \A i \in 1 .. Len(calls) - 1 : retryInterrupted /\ calls[i] = -EINTR
    /\ result = ToResult(calls[Len(calls)])

(***************************************************************************)
(* spec.md 3: an error code is always > 0 and never confused with a       *)
(* successful result.  The code truncates -ret to c_int, so a raw word     *)
(* below -(2^31 - 1) gives a zero, negative or unrelated code.             *)
(***************************************************************************)
ErrnoPositive == result.tag = "err" => result.val > 0
=============================================================================
