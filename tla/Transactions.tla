---------------------------- MODULE Transactions ----------------------------
(***************************************************************************)
(* What log.c promises to the file system: the blocks change in memory     *)
(* while system calls are in progress; what is on disk changes only when   *)
(* no call is in progress, to everything the calls so far have done; a     *)
(* crash takes the file system back to the last such change.               *)
(***************************************************************************)
CONSTANTS Ops, Blocks, Vals

VARIABLES mem,      \* the blocks as system calls see them
          stable,   \* the blocks as they are after a crash and recovery
          active    \* calls between begin_op() and end_op()

txvars == <<mem, stable, active>>

Init ==
  /\ stable \in {[b \in Blocks |-> v] : v \in Vals}
  /\ mem = stable
  /\ active = {}

(* begin_op() *)
Begin(p) ==
  /\ p \notin active
  /\ active' = active \cup {p}
  /\ UNCHANGED <<mem, stable>>

(* a change that is passed to log_write() *)
Write(p, b, v) ==
  /\ p \in active
  /\ mem' = [mem EXCEPT ![b] = v]
  /\ UNCHANGED <<stable, active>>

(* end_op() *)
End(p) ==
  /\ p \in active
  /\ active' = active \ {p}
  /\ UNCHANGED <<mem, stable>>

(* The changes of all the calls reach the disk together. *)
Commit ==
  /\ active = {}
  /\ stable' = mem
  /\ UNCHANGED <<mem, active>>

Crash ==
  /\ mem' = stable
  /\ active' = {}
  /\ UNCHANGED stable

Next ==
  \/ \E p \in Ops :
       Begin(p) \/ End(p) \/ \E b \in Blocks, v \in Vals : Write(p, b, v)
  \/ Commit
  \/ Crash

Spec == Init /\ [][Next]_txvars
=============================================================================
