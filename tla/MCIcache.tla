------------------------------ MODULE MCIcache ------------------------------
(* Small instances of Icache. *)
EXTENDS Icache, TLC

(* Processes are interchangeable, and so are names other than ".". *)
IcacheSymmetry == Permutations(Procs) \cup Permutations(Names)
=============================================================================
