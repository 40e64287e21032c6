----------------------------- MODULE FileTable -----------------------------
(***************************************************************************)
(* Open files: the descriptors of processes (sysfile.c, and fork() and     *)
(* exit() in proc.c), the table of file structures and their reference     *)
(* counts (file.c), and the pipes and inodes that they hold on to.         *)
(*                                                                         *)
(* A call does its part up to the first release of ftable.lock, and leaves *)
(* the rest in todo, one item per section of ftable.lock or of what comes  *)
(* after it; the items of different processes interleave.                  *)
(***************************************************************************)
EXTENDS Integers, Sequences, FiniteSets, FiniteSetsExt, SequencesExt

CONSTANTS Proc, NOFILE, NFILE,
          initproc,  \* the process that is there first
          Page,      \* pages that kalloc() may give a pipe
          NULL

ASSUME FileTableAssumption == initproc \in Proc /\ NOFILE \in Nat /\ NFILE \in Nat

VARIABLES state,  \* process -> p->state, as far as it matters here
          ofile,  \* process -> descriptor -> file or NULL
          ref,    \* file -> f->ref
          type,   \* file -> f->type
          obj,    \* file -> f->pipe and which end it is
          pipe,   \* page -> open ends, NULL for a page that is no pipe
          iref,   \* references to inodes that open files and p->cwd hold
          todo,   \* process -> what is left of its call
          panic

vars == <<state, ofile, ref, type, obj, pipe, iref, todo, panic>>

Fd == 0..(NOFILE - 1)
Files == 0..(NFILE - 1)
Ends == {"read", "write"}

Init ==
  /\ state = [p \in Proc |-> IF p = initproc THEN "running" ELSE "unused"]
  /\ ofile = [p \in Proc |-> [d \in Fd |-> NULL]]
  /\ ref = [f \in Files |-> 0]
  /\ type = [f \in Files |-> "none"]
  /\ obj = [f \in Files |-> NULL]
  /\ pipe = [k \in Page |-> NULL]
  /\ iref = 1
  /\ todo = [p \in Proc |-> <<>>]
  /\ panic = FALSE

Ready(p) == ~panic /\ state[p] = "running" /\ todo[p] = <<>>
Doing(p, op) == ~panic /\ todo[p] # <<>> /\ Head(todo[p]).op = op
Item(p) == Head(todo[p])
Leave(p, items) == todo' = [todo EXCEPT ![p] = items]
Continue(p, items) == Leave(p, items \o Tail(todo[p]))

CloseItem(f) == [op |-> "close", f |-> f]

(* filealloc(): the first structure that nobody refers to. *)
Unused == {f \in Files : ref[f] = 0}
filealloc == Min(Unused)

(* fdalloc(): the first descriptor of o that is free. *)
FreeFd(o) == {d \in Fd : o[d] = NULL}
fdalloc(o, f) == [o EXCEPT ![Min(FreeFd(o))] = f]

-----------------------------------------------------------------------------
(* Calls *)

(* sys_open() with the inode in hand: filealloc() and fdalloc(); without a *)
(* descriptor it gives the structure back.  f is filled in later.          *)
Open(p) ==
  LET f == filealloc
  IN  /\ Ready(p) /\ Unused # {}
      /\ ref' = [ref EXCEPT ![f] = 1]
      /\ iref' = iref + 1
      /\ IF FreeFd(ofile[p]) # {}
         THEN /\ ofile' = [ofile EXCEPT ![p] = fdalloc(@, f)]
              /\ Leave(p, <<[op |-> "fill", f |-> f]>>)
         ELSE /\ Leave(p, <<CloseItem(f), [op |-> "iput"]>>)
              /\ UNCHANGED ofile
      /\ UNCHANGED <<state, type, obj, pipe, panic>>

OpenFill(p) ==
  /\ Doing(p, "fill")
  /\ type' = [type EXCEPT ![Item(p).f] = "inode"]
  /\ Continue(p, <<>>)
  /\ UNCHANGED <<state, ofile, ref, obj, pipe, iref, panic>>

(* sys_dup(): the descriptor first, then filedup(). *)
Dup(p, d) ==
  /\ Ready(p) /\ ofile[p][d] # NULL
  /\ FreeFd(ofile[p]) # {}
  /\ ofile' = [ofile EXCEPT ![p] = fdalloc(@, @[d])]
  /\ Leave(p, <<[op |-> "dup", f |-> ofile[p][d]]>>)
  /\ UNCHANGED <<state, ref, type, obj, pipe, iref, panic>>

filedup(f) == [ref EXCEPT ![f] = @ + 1]

DupDone(p) ==
  LET f == Item(p).f
  IN  /\ Doing(p, "dup")
      /\ panic' = (ref[f] < 1)
      /\ ref' = filedup(f)
      /\ Continue(p, <<>>)
      /\ UNCHANGED <<state, ofile, type, obj, pipe, iref>>

(* sys_close() clears the descriptor first. *)
Close(p, d) ==
  /\ Ready(p) /\ ofile[p][d] # NULL
  /\ ofile' = [ofile EXCEPT ![p][d] = NULL]
  /\ Leave(p, <<CloseItem(ofile[p][d])>>)
  /\ UNCHANGED <<state, ref, type, obj, pipe, iref, panic>>

(* Mutant: a structure that is given back keeps its type. *)
ClosedKept(f) == type

(* fileclose() resets the type of a structure that is given back. *)
Closed(f) == [type EXCEPT ![f] = "none"]

(* What is left of fileclose() for the copy ff. *)
Rest(f) == IF type[f] = "pipe" THEN <<[op |-> "pipeclose", end |-> obj[f]]>>
           ELSE IF type[f] = "inode" THEN <<[op |-> "iput"]>> ELSE <<>>

fileclose(p, f, after) ==
  /\ panic' = (ref[f] < 1)
  /\ ref' = [ref EXCEPT ![f] = @ - 1]
  /\ IF ref[f] > 1 THEN Continue(p, after) /\ UNCHANGED type
                   ELSE Continue(p, Rest(f) \o after) /\ type' = Closed(f)
  /\ UNCHANGED <<state, ofile, obj, pipe, iref>>

CloseFile(p) == Doing(p, "close") /\ fileclose(p, Item(p).f, <<>>)

(* pipeclose(), and kfree() when both ends are closed. *)
PipeClose(p) ==
  LET e == Item(p).end
      left == pipe[e.page] \ {e.end}
  IN  /\ Doing(p, "pipeclose")
      /\ pipe' = [pipe EXCEPT ![e.page] = IF left = {} THEN NULL ELSE left]
      /\ Continue(p, <<>>)
      /\ UNCHANGED <<state, ofile, ref, type, obj, iref, panic>>

Iput(p) ==
  /\ Doing(p, "iput")
  /\ iref' = iref - 1
  /\ Continue(p, <<>>)
  /\ UNCHANGED <<state, ofile, ref, type, obj, pipe, panic>>

-----------------------------------------------------------------------------
(* sys_pipe() *)

Pipe(p) ==
  /\ Ready(p) /\ Unused # {}
  /\ ref' = [ref EXCEPT ![filealloc] = 1]
  /\ Leave(p, <<[op |-> "pipe", f |-> filealloc]>>)
  /\ UNCHANGED <<state, ofile, type, obj, pipe, iref, panic>>

(* pipealloc() has one structure.  There may be no other, or no page. *)
PipeNoFile(p) ==
  /\ Doing(p, "pipe") /\ Unused = {}
  /\ Continue(p, <<CloseItem(Item(p).f)>>)
  /\ UNCHANGED <<state, ofile, ref, type, obj, pipe, iref, panic>>

PipeNoPage(p) ==
  /\ Doing(p, "pipe") /\ Unused # {}
  /\ ref' = [ref EXCEPT ![filealloc] = 1]
  /\ Continue(p, <<CloseItem(Item(p).f), CloseItem(filealloc)>>)
  /\ UNCHANGED <<state, ofile, type, obj, pipe, iref, panic>>

(* Mutant: the first descriptor stays when there is no second one. *)
PipeFdsKept(o, rf, wf) ==
  IF Cardinality(FreeFd(o)) >= 2 THEN fdalloc(fdalloc(o, rf), wf)
  ELSE IF FreeFd(o) # {} THEN fdalloc(o, rf) ELSE o

(* The descriptors after the two calls of fdalloc(): both or none. *)
PipeFds(o, rf, wf) ==
  IF Cardinality(FreeFd(o)) >= 2 THEN fdalloc(fdalloc(o, rf), wf) ELSE o

PipeMade(p, k) ==
  LET rf == Item(p).f
      wf == filealloc
  IN  /\ Doing(p, "pipe") /\ Unused # {} /\ pipe[k] = NULL
      /\ ref' = [ref EXCEPT ![wf] = 1]
      /\ pipe' = [pipe EXCEPT ![k] = Ends]
      /\ type' = [type EXCEPT ![rf] = "pipe", ![wf] = "pipe"]
      /\ obj' = [obj EXCEPT ![rf] = [page |-> k, end |-> "read"], ![wf] = [page |-> k, end |-> "write"]]
      /\ ofile' = [ofile EXCEPT ![p] = PipeFds(@, rf, wf)]
      /\ Continue(p, IF Cardinality(FreeFd(ofile[p])) >= 2 THEN <<>>
                     ELSE <<CloseItem(rf), CloseItem(wf)>>)
      /\ UNCHANGED <<state, iref, panic>>

-----------------------------------------------------------------------------
(* fork(), exit(), wait() *)

OpenFds(p) == SelectSeq([k \in 1..NOFILE |-> k - 1], LAMBDA d : ofile[p][d] # NULL)
ForEach(ds, op, c) == [k \in DOMAIN ds |-> [op |-> op, d |-> ds[k], c |-> c]]

Fork(p, c) ==
  /\ Ready(p) /\ state[c] = "unused"
  /\ state' = [state EXCEPT ![c] = "embryo"]
  /\ Leave(p, ForEach(OpenFds(p), "forkdup", c) \o <<[op |-> "forked", c |-> c]>>)
  /\ UNCHANGED <<ofile, ref, type, obj, pipe, iref, panic>>

ForkDup(p) ==
  LET f == ofile[p][Item(p).d]
  IN  /\ Doing(p, "forkdup")
      /\ panic' = (ref[f] < 1)
      /\ ref' = filedup(f)
      /\ ofile' = [ofile EXCEPT ![Item(p).c][Item(p).d] = f]
      /\ Continue(p, <<>>)
      /\ UNCHANGED <<state, type, obj, pipe, iref>>

Forked(p) ==
  /\ Doing(p, "forked")
  /\ iref' = iref + 1
  /\ state' = [state EXCEPT ![Item(p).c] = "running"]
  /\ Continue(p, <<>>)
  /\ UNCHANGED <<ofile, ref, type, obj, pipe, panic>>

Exit(p) ==
  /\ Ready(p) /\ p # initproc
  /\ Leave(p, ForEach(OpenFds(p), "exitclose", p) \o <<[op |-> "iput"], [op |-> "zombie"]>>)
  /\ UNCHANGED <<state, ofile, ref, type, obj, pipe, iref, panic>>

(* exit() clears a descriptor when fileclose() has returned. *)
ExitClose(p) ==
  Doing(p, "exitclose")
    /\ fileclose(p, ofile[p][Item(p).d], <<[op |-> "clear", d |-> Item(p).d]>>)

ExitClear(p) ==
  /\ Doing(p, "clear")
  /\ ofile' = [ofile EXCEPT ![p][Item(p).d] = NULL]
  /\ Continue(p, <<>>)
  /\ UNCHANGED <<state, ref, type, obj, pipe, iref, panic>>

Zombie(p) ==
  /\ Doing(p, "zombie")
  /\ state' = [state EXCEPT ![p] = "zombie"]
  /\ Continue(p, <<>>)
  /\ UNCHANGED <<ofile, ref, type, obj, pipe, iref, panic>>

Wait(p, c) ==
  /\ Ready(p) /\ state[c] = "zombie"
  /\ state' = [state EXCEPT ![c] = "unused"]
  /\ UNCHANGED <<ofile, ref, type, obj, pipe, iref, todo, panic>>

Next ==
  \E p \in Proc :
    \/ Open(p) \/ OpenFill(p) \/ DupDone(p) \/ CloseFile(p) \/ PipeClose(p) \/ Iput(p)
    \/ \E d \in Fd : Dup(p, d) \/ Close(p, d)
    \/ Pipe(p) \/ PipeNoFile(p) \/ PipeNoPage(p) \/ \E k \in Page : PipeMade(p, k)
    \/ \E c \in Proc : Fork(p, c) \/ Wait(p, c)
    \/ ForkDup(p) \/ Forked(p) \/ Exit(p) \/ ExitClose(p) \/ ExitClear(p) \/ Zombie(p)

Spec == Init /\ [][Next]_vars

-----------------------------------------------------------------------------
(* Properties *)

Pending(p, op) == {k \in DOMAIN todo[p] : todo[p][k].op = op}
Count(S(_, _)) == Cardinality({<<p, k>> \in Proc \X (1..(2 * NOFILE + 3)) : k \in DOMAIN todo[p] /\ S(p, k)})

(* References to f: descriptors, except those that sys_dup() has not       *)
(* counted yet and exit() has counted out already, and what fileclose() is *)
(* still to be called for.                                                 *)
Holds(p, d, f) ==
  ofile[p][d] = f /\ ~\E k \in Pending(p, "clear") : todo[p][k].d = d
Refs(f) ==
  Cardinality({<<p, d>> \in Proc \X Fd : Holds(p, d, f)})
    + Count(LAMBDA p, k : todo[p][k].op \in {"close", "pipe"} /\ todo[p][k].f = f)
    - Count(LAMBDA p, k : todo[p][k].op = "dup" /\ todo[p][k].f = f)

(* f->ref counts the references, at every step of every interleaving, so   *)
(* neither filedup() nor fileclose() panics and no structure is given out  *)
(* while a descriptor refers to it.                                        *)
RefsCounted == ~panic /\ \A f \in Files : ref[f] = Refs(f)

(* Files that stand for an end of a pipe, and calls of pipeclose() for it  *)
(* that are on their way.                                                  *)
Users(end) ==
  Cardinality({f \in Files : type[f] = "pipe" /\ ref[f] > 0 /\ obj[f] = end})
    + Count(LAMBDA p, k : todo[p][k].op = "pipeclose" /\ todo[p][k].end = end)

(* Open files and what they hold on to agree.  An end of a pipe is open    *)
(* while, and only while, one file stands for it or pipeclose() is on its  *)
(* way, so the page is not freed under a file that uses it.  Every         *)
(* reference to an inode belongs to a file, a current directory or a call  *)
(* that will drop it or hand it to a file.  A structure that a process may *)
(* use has been filled in and one that is free has no type, so the failure *)
(* paths of open() and pipe() release nothing that they do not hold.       *)
ObjectsOwned ==
  /\ \A k \in Page : \A e \in Ends :
       Users([page |-> k, end |-> e]) = IF pipe[k] # NULL /\ e \in pipe[k] THEN 1 ELSE 0
  /\ iref = Cardinality({f \in Files : type[f] = "inode" /\ ref[f] > 0})
              + Cardinality({p \in Proc : state[p] = "running" /\ Pending(p, "zombie") = {}})
              + Count(LAMBDA p, k : todo[p][k].op \in {"iput", "fill"})
  /\ \A f \in Files :
       /\ ref[f] = 0 => type[f] = "none"
       /\ \A p \in Proc, d \in Fd : Ready(p) /\ ofile[p][d] = f => type[f] # "none"
=============================================================================
