------------------------------- MODULE MCLog --------------------------------
(* Small instances of Log. *)
EXTENDS Log, TLC

(* Calls are interchangeable, and so are blocks. *)
LogSymmetry == Permutations(Ops) \cup Permutations(Blocks)
  \cup Permutations(Vals)
=============================================================================
