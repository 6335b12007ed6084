------------------------------ MODULE MCUpkeep ------------------------------
(***************************************************************************)
(* Instances of Upkeep for TLC.                                            *)
(***************************************************************************)
EXTENDS Upkeep, TLC

CONSTANTS j1, j2
TwoJobs == {j1, j2}
AnyJob  == Permutations(TwoJobs)
=============================================================================
