-------------------------- MODULE MCTrackedScenarios --------------------------
(***************************************************************************)
(* Model checking of TrackedScenarios with two requests at a time.         *)
(***************************************************************************)
EXTENDS TrackedScenarios, TLC

CONSTANTS r1, r2, t1, t2, c1

\* Two tests: of the four combinations that are asked for, PRE_CHARGE_006 leaves out those
\* with AC.
MCUploads ==
    {[scenario |-> "PRE_CHARGE_006", protocols |-> {"DIN", "ISO"}, modes |-> {"AC", "DC"},
      idents |-> {"EIM"}]}

\* Instances are only compared for equality, and so are threads.
Symmetry == Permutations(Runs) \union Permutations(Threads)

===============================================================================
