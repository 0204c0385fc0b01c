----------------------------- MODULE MCTimeArith -----------------------------
(* TimeArith with i64 scaled to 6 bits and a second of 8 nanoseconds.     *)
EXTENDS TimeArith

\* Nanoseconds fields around the borrow and carry boundaries and at the
\* ends of the range.
MCNanoInputs == {MinI, -NanosPerSec - 1, -1, 0, 1, NanosPerSec - 1,
                 NanosPerSec, NanosPerSec + 1, MaxI}
=============================================================================
