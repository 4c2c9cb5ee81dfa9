------------------------------ MODULE MCTimers -------------------------------
(***************************************************************************)
(* Instances of the timers for TLC.                                        *)
(***************************************************************************)
EXTENDS Timers, TLC

Symmetry == Permutations(Timer)
=============================================================================
