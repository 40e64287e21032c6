------------------------------ MODULE MCTraps ------------------------------
(* A small instance of Traps. *)
EXTENDS Traps

(* One process and a keyboard, or two processes and the clock. *)
MCKeys == <<{"x", "^D", "^U", "^H", "^P"}, {}>>
MCNaps == <<{}, {1}>>

ProcSymmetry == Permutations(Proc)

(* Only differences of ticks matter, the cells of buf in use, intena while *)
(* a lock is held, and what sched() saved until it returns.                *)
Since(it) == IF it.op = "nap" /\ it.t0 # NULL THEN [it EXCEPT !.t0 = U(ticks - @)] ELSE it
UpToClock ==
  <<cur, [t \in DOMAIN todo |-> [k \in DOMAIN todo[t] |-> Since(todo[t][k])]], state, killed, lock,
    FL_IF, ncli, [c \in CPU |-> ncli[c] > 0 /\ intena[c]],
    [p \in Proc |-> todo[p] # <<>> /\ Head(todo[p]).op = "resume" /\ saved[p]],
    [k \in 1..U(e - r) |-> buf[At(r + k - 1)]], r, w, e, sent, edit, panic>>
=============================================================================
