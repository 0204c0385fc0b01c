------------------------------- MODULE MCRetry ------------------------------
(***************************************************************************)
(* Model-checking instances of Retry, alone and with the Timer whose      *)
(* ticks() goes through retry.  The scaled errno space is 1..7 (the       *)
(* kernel's 1..4095 is far inside c_int); successes are a few words up to *)
(* the largest positive one.                                              *)
(***************************************************************************)
EXTENDS TimerFd

\* Raw words a system call can return: -errno or a non-negative value.
KernelRaw == (-7 .. -1) \cup (0 .. 15) \cup {2^(WordBits - 1) - 1}

\* Every word of the result type.
AllRaw == WordRange

\* Times with a second of two nanoseconds: zero, one and two nanoseconds,
\* and a negative nanoseconds field (Time::nanoseconds(-1) leaves one).
MCTimeInputs == {[seconds |-> 0, nanoseconds |-> 0], [seconds |-> 0, nanoseconds |-> 1],
                 [seconds |-> 1, nanoseconds |-> 0], [seconds |-> 0, nanoseconds |-> -1]}

(***************************************************************************)
(* One call of retry, or the Timer: both share the build's retry policy,  *)
(* and each runs only while the other has not started.                    *)
(***************************************************************************)
RTInit == Init /\ TInit
RTNext == \/ TInit /\ Next /\ UNCHANGED tvars
          \/ calls = <<>> /\ TNext /\ UNCHANGED vars
RTSpec == RTInit /\ [][RTNext]_<<vars, tvars>>

\* The Timer's fairness, for its steps in the composition.
RTFairSpec ==
  /\ RTSpec
  /\ WF_<<vars, tvars>>(calls = <<>> /\ Elapse /\ UNCHANGED vars)
  /\ WF_<<vars, tvars>>(calls = <<>> /\ Expire /\ UNCHANGED vars)
  /\ \A t \in Threads : WF_<<vars, tvars>>(calls = <<>> /\ ReadTicks(t) /\ UNCHANGED vars)

\* retry alone, the Timer left in its initial state.
RetrySpec == RTInit /\ [][Next /\ UNCHANGED tvars]_<<vars, tvars>>
=============================================================================
