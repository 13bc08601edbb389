-------------------------- MODULE MCTestStateMachine --------------------------
(***************************************************************************)
(* Model checking of TestStateMachine on a few instances.                  *)
(***************************************************************************)
EXTENDS TestStateMachine, TLC

\* Instances are only compared for equality.
RunSymmetry == Permutations(Runs)

=============================================================================
