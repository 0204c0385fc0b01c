------------------------------ MODULE LockSpec ------------------------------
(***************************************************************************)
(* What a Lock promises its callers (spec.md 4.4 and 8), independent of    *)
(* the three-valued futex word: at most one thread owns the lock, it is    *)
(* acquired only while free and released only by its owner, try_lock       *)
(* reports "resource busy" only while another thread owns it, and a        *)
(* bounded acquisition may give up (timed out or clock error) at any time. *)
(***************************************************************************)
CONSTANTS Threads, NoOwner

ASSUME NoOwner \notin Threads

VARIABLES owner, ret

Results == {"none", "ok", "busy", "timedout", "clockerr"}

Init == /\ owner = NoOwner
        /\ ret = [t \in Threads |-> "none"]

Acquire(t) == /\ owner = NoOwner
              /\ owner' = t
              /\ ret' = [ret EXCEPT ![t] = "ok"]

Release(t) == /\ owner = t
              /\ owner' = NoOwner
              /\ UNCHANGED ret

Busy(t) == /\ owner \notin {NoOwner, t}
           /\ ret' = [ret EXCEPT ![t] = "busy"]
           /\ UNCHANGED owner

GiveUp(t) == /\ owner # t
             /\ \E r \in {"timedout", "clockerr"} : ret' = [ret EXCEPT ![t] = r]
             /\ UNCHANGED owner

Next == \E t \in Threads : Acquire(t) \/ Release(t) \/ Busy(t) \/ GiveUp(t)

Spec == Init /\ [][Next]_<<owner, ret>>
=============================================================================
