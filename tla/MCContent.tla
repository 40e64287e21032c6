----------------------------- MODULE MCContent -----------------------------
(* A small instance of Content. *)
EXTENDS Content, TLC

HostCells == <<7>>
ContentSymmetry == Permutations(Proc) \cup Permutations(File)
=============================================================================
