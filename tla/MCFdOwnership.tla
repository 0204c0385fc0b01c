---------------------------- MODULE MCFdOwnership ---------------------------
(* FdOwnership for TLC: the program variables are interchangeable.        *)
EXTENDS FdOwnership, TLC

SlotSymmetry == Permutations(Slots)
=============================================================================
