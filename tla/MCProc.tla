------------------------------- MODULE MCProc -------------------------------
(* Instance of Proc for TLC. *)
EXTENDS Proc, TLC

CPUSymmetry == Permutations(CPUs)
=============================================================================
