----------------------------- MODULE MCFutexLock ----------------------------
(***************************************************************************)
(* Model-checking instance of FutexLock, and the refinement mapping to the *)
(* abstract LockSpec: the owner is the thread holding a guard.             *)
(***************************************************************************)
EXTENDS FutexLock

CONSTANT NoOwner

Owner == IF Holders = {} THEN NoOwner ELSE CHOOSE t \in Holders : TRUE

Abstract == INSTANCE LockSpec WITH owner <- Owner, ret <- ret

(***************************************************************************)
(* The futex lock implements the abstract lock: every step of the code is *)
(* an acquisition of a free lock, a release by the owner, a "busy" answer  *)
(* while another thread owns it, a give-up, or invisible.                  *)
(***************************************************************************)
LockRefinement == Abstract!Spec
=============================================================================
