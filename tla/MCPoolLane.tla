----------------------------- MODULE MCPoolLane -----------------------------
(* Instances of PoolLane for TLC.  The jobs are only compared with one      *)
(* another, so permuting them is a symmetry of every safety run in which    *)
(* Incomplete is empty.                                                     *)
EXTENDS PoolLane, TLC

JobSymmetry == Permutations(Jobs)
=============================================================================
