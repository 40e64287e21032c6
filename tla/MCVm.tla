-------------------------------- MODULE MCVm --------------------------------
(* A small instance of Vm.                                                 *)
EXTENDS Vm

(* States that differ only in which page is which are explored once: the   *)
(* view keeps who holds a page, who shares one, and who holds a free one.  *)
UpToRenaming ==
  LET used == {h \in Holder : at[h] # 0}
  IN  <<used, {h \in used : at[h] \in free}, Cardinality(free),
        {<<g, h>> \in used \X used : g # h /\ at[g] = at[h]},
        nouser, state, sz, job>>
=============================================================================
