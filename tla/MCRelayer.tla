------------------------------- MODULE MCRelayer ------------------------------
(* Instances of Relayer for TLC.                                               *)
EXTENDS Relayer, TLC

FeederSymmetry == Permutations(Feeders)

MCZeroTime == -1
===============================================================================
