---------------------------- MODULE MCFileTable ----------------------------
(* A small instance of FileTable. *)
EXTENDS FileTable, TLC

Pages == Permutations(Page)

(* f->pipe is read only when the type is FD_PIPE. *)
WithoutStale == [vars |-> <<state, ofile, ref, type, pipe, iref, todo, panic>>,
                 obj |-> [f \in Files |-> IF type[f] = "pipe" THEN obj[f] ELSE NULL]]
=============================================================================
