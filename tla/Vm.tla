--------------------------------- MODULE Vm ---------------------------------
(***************************************************************************)
(* Physical pages and address spaces: kalloc()/kfree() (vm/kalloc.c), the  *)
(* user half of page tables (vm/vm.c), and the calls that build, grow,     *)
(* copy and free them (fork, exec, sbrk, exit and wait).                   *)
(*                                                                         *)
(* A holder is a place that can hold a physical page: a kernel stack, the  *)
(* local variable mem of allocuvm() and copyuvm(), or an entry of an       *)
(* address space.  Every process has two address spaces: "mem" is          *)
(* proc->pgdir, "new" the page directory that exec() or fork() still       *)
(* builds.  Processes run at once, one kalloc() per step, so memory may    *)
(* run out before any page.  Freeing an address space is one step: the     *)
(* thread that does it is the only one that reads it.                      *)
(***************************************************************************)
EXTENDS Integers, FiniteSets

CONSTANTS Proc,        \* entries of ptable.proc
          initproc,    \* the process userinit() makes
          NPAGES,      \* physical pages freerange() gives to kalloc()
          PGSIZE,      \* bytes of a page
          KERNPAGES,   \* KERNBASE, in pages
          NPTENTRIES,  \* pages that one page table maps
          UINT,        \* 2^32
          NOTABLE      \* pages of the kernel's half for which setupkvm() makes
                       \* no page table: from P2V(PHYSTOP) to DEVSPACE

(* Half of the addresses are the user's: KERNBASE is 2^31, and no positive *)
(* int reaches it.                                                         *)
ASSUME VmAssumption ==
  /\ initproc \in Proc
  /\ NPAGES \in Nat /\ NPAGES >= 5
  /\ PGSIZE \in Nat \ {0} /\ KERNPAGES \in Nat \ {0} /\ NPTENTRIES \in Nat \ {0}
  /\ UINT \in Nat /\ UINT >= 2 * KERNPAGES * PGSIZE /\ UINT >= KERNPAGES * PGSIZE + 4
  /\ \A v \in NOTABLE : v \in Nat /\ v >= KERNPAGES

VARIABLES free,    \* pages on kmem.freelist
          at,      \* the page each holder holds, 0 if none
          nouser,  \* page table entries whose PTE_U exec() has cleared
          state,   \* proc->state; "doomed" is a process without memory
          sz,      \* proc->sz
          job      \* the call a process is in

vars == <<free, at, nouser, state, sz, job>>

Pages == 1..NPAGES
KERNBASE == KERNPAGES * PGSIZE
VPN == 0..(KERNPAGES - 1)
Tables == {v \div NPTENTRIES : v \in VPN}
Parts == {<<"dir", 0>>, <<"ktab", 0>>} \cup ({"tab"} \X Tables) \cup ({"pte"} \X VPN)
Kstack(p) == <<p, "own", "kstack", 0>>
Held(p) == <<p, "own", "mem", 0>>
Space(p, w) == {<<p, w, x[1], x[2]>> : x \in Parts}
Holder == UNION {Space(p, "mem") \cup Space(p, "new") \cup {Kstack(p), Held(p)} : p \in Proc}

(* Pages that a process of s bytes has. *)
PGROUNDUP(s) == (s + PGSIZE - 1) \div PGSIZE

Idle == [op |-> "none", step |-> "none", kid |-> initproc, a |-> 0, old |-> 0,
         goal |-> 0, sp |-> 0]
Ops == {"none", "fork", "exec", "stack", "sbrk"}
Steps == {"none", "kstack", "dir", "ktab", "segment", "alloc", "map", "load", "args",
          "wild"}

TypeOK ==
  /\ free \subseteq Pages
  /\ at \in [Holder -> Pages \cup {0}]
  /\ nouser \subseteq Holder
  /\ state \in [Proc -> {"unused", "embryo", "run", "doomed", "zombie"}]
  /\ sz \in [Proc -> Nat]
  /\ job \in [Proc -> [op : Ops, step : Steps, kid : Proc, a : Nat, old : Nat,
                       goal : Nat, sp : Nat]]

(* The pages of the process that userinit() makes: a kernel stack,         *)
(* setupkvm(), and one page that inituvm() maps.                           *)
inituvm ==
  [h \in Holder |->
     CASE h = Kstack(initproc) -> 1
       [] h = <<initproc, "mem", "dir", 0>> -> 2
       [] h = <<initproc, "mem", "ktab", 0>> -> 3
       [] h = <<initproc, "mem", "tab", 0>> -> 4
       [] h = <<initproc, "mem", "pte", 0>> -> 5
       [] OTHER -> 0]

(* kinit1() and kinit2() have put every other page on the list. *)
Init ==
  /\ at = inituvm
  /\ free = 6..NPAGES
  /\ nouser = {}
  /\ state = [p \in Proc |-> IF p = initproc THEN "run" ELSE "unused"]
  /\ sz = [p \in Proc |-> IF p = initproc THEN PGSIZE ELSE 0]
  /\ job = [p \in Proc |-> Idle]

-----------------------------------------------------------------------------
(* kalloc() and kfree() *)

(* The page that kalloc() returns.  The list's order decides which one it  *)
(* is, and nothing depends on it.                                          *)
kalloc == CHOOSE pg \in Pages : pg \in free

Take(h) == at' = [at EXCEPT ![h] = kalloc] /\ free' = free \ {kalloc}

(* kfree() of what the holders D hold, and their entries cleared. *)
Release(D) ==
  /\ at' = [h \in Holder |-> IF h \in D THEN 0 ELSE at[h]]
  /\ free' = free \cup ({at[h] : h \in D} \ {0})
  /\ nouser' = nouser \ D

-----------------------------------------------------------------------------
(* Page tables *)

(* The address space that the call of p works on. *)
Work(p) == IF job[p].op = "sbrk" THEN "mem" ELSE "new"
Pte(p, w, v) == <<p, w, "pte", v>>
Table(p, w, v) == <<p, w, "tab", v \div NPTENTRIES>>

(* Mutant: the page that holds the last byte is freed too. *)
deallocuvmDown(p, old, goal) ==
  {Pte(p, "mem", v) : v \in {x \in VPN : goal \div PGSIZE <= x /\ x * PGSIZE < old}}

(* The entries deallocuvm() clears when it takes p from old to goal bytes. *)
deallocuvm(p, old, goal) ==
  {Pte(p, "mem", v) : v \in {x \in VPN : PGROUNDUP(goal) <= x /\ x * PGSIZE < old}}

(* Mutant: fork() and exec() free the address space, not mem. *)
UndoneNotMem(p) ==
  IF job[p].op = "sbrk" THEN {Held(p)} \cup deallocuvm(p, job[p].goal, sz[p])
  ELSE Space(p, "new") \cup (IF job[p].op = "fork" THEN {Kstack(job[p].kid)} ELSE {})

(* What a call that fails frees: growproc() the pages it had added,        *)
(* exec() the new address space, fork() also the child's kernel stack.     *)
Undone(p) ==
  {Held(p)} \cup
  CASE job[p].op = "sbrk" -> deallocuvm(p, job[p].goal, sz[p])
    [] job[p].op = "fork" -> Space(p, "new") \cup {Kstack(job[p].kid)}
    [] OTHER -> Space(p, "new")

Bad(p) ==
  /\ Release(Undone(p))
  /\ state' = IF job[p].op = "fork" THEN [state EXCEPT ![job[p].kid] = "unused"]
                                    ELSE state
  /\ job' = [job EXCEPT ![p] = Idle]
  /\ UNCHANGED sz

Goto(p, step) == job' = [job EXCEPT ![p].step = step]

(* setupkvm(): the directory, then a table for the kernel's half. *)
Setupkvm(p) ==
  /\ job[p].step = "dir"
  /\ IF free = {} THEN Bad(p)
     ELSE Take(<<p, "new", "dir", 0>>) /\ Goto(p, "ktab") /\ UNCHANGED <<nouser, state, sz>>

SetupkvmMap(p) ==
  /\ job[p].step = "ktab"
  /\ IF free = {} THEN Bad(p)
     ELSE /\ Take(<<p, "new", "ktab", 0>>)
          /\ Goto(p, IF job[p].op = "fork" THEN "alloc" ELSE "segment")
          /\ UNCHANGED <<nouser, state, sz>>

(* The loops of allocuvm() and copyuvm(): a page, then mappages(), which   *)
(* may need a table.                                                       *)
AllocPage(p) ==
  /\ job[p].step = "alloc"
  /\ job[p].a * PGSIZE < job[p].goal
  /\ IF free = {} THEN Bad(p)
     ELSE Take(Held(p)) /\ Goto(p, "map") /\ UNCHANGED <<nouser, state, sz>>

Mappages(p) ==
  LET w == Work(p)
      a == job[p].a
      t == Table(p, w, a)
      full == [at EXCEPT ![Pte(p, w, a)] = at[Held(p)], ![Held(p)] = 0]
  IN  /\ job[p].step = "map"
      /\ IF at[t] = 0 /\ free = {} THEN Bad(p)
         ELSE /\ IF at[t] = 0 THEN at' = [full EXCEPT ![t] = kalloc] /\ free' = free \ {kalloc}
                              ELSE at' = full /\ UNCHANGED free
              /\ nouser' = IF job[p].op = "fork" /\ Pte(p, "mem", a) \in nouser
                           THEN nouser \cup {Pte(p, w, a)} ELSE nouser
              /\ job' = [job EXCEPT ![p].a = @ + 1, ![p].step = "alloc"]
              /\ UNCHANGED <<state, sz>>

Complete(p, op) ==
  job[p].op = op /\ job[p].step = "alloc" /\ job[p].a * PGSIZE >= job[p].goal

(* The new address space of p becomes the pgdir of q. *)
Install(p, q) ==
  LET from(h) == <<p, "new", h[3], h[4]>>
  IN  /\ at' = [h \in Holder |-> CASE h \in Space(q, "mem") -> at[from(h)]
                                   [] h \in Space(p, "new") -> 0
                                   [] OTHER -> at[h]]
      /\ nouser' = {h \in Holder : CASE h \in Space(q, "mem") -> from(h) \in nouser
                                     [] h \in Space(p, "new") -> FALSE
                                     [] OTHER -> h \in nouser}

-----------------------------------------------------------------------------
(* fork() *)

Running(p) == state[p] = "run" /\ job[p] = Idle

(* allocproc() takes an unused entry, then a kernel stack. *)
Fork(p) ==
  /\ Running(p)
  /\ \E c \in Proc : /\ state[c] = "unused"
                     /\ state' = [state EXCEPT ![c] = "embryo"]
                     /\ job' = [job EXCEPT ![p] = [Idle EXCEPT !.op = "fork", !.step = "kstack",
                                                              !.kid = c, !.goal = sz[p]]]
  /\ UNCHANGED <<free, at, nouser, sz>>

ForkStack(p) ==
  /\ job[p].step = "kstack"
  /\ IF free = {} THEN Bad(p)
     ELSE /\ Take(Kstack(job[p].kid)) /\ Goto(p, "dir")
          /\ UNCHANGED <<nouser, state, sz>>

ForkDone(p) ==
  LET c == job[p].kid
  IN  /\ Complete(p, "fork")
      /\ Install(p, c)
      /\ state' = [state EXCEPT ![c] = "run"]
      /\ sz' = [sz EXCEPT ![c] = sz[p]]
      /\ job' = [job EXCEPT ![p] = Idle]
      /\ UNCHANGED free

-----------------------------------------------------------------------------
(* exec() *)

(* The file has a valid header. *)
Exec(p) ==
  /\ Running(p)
  /\ job' = [job EXCEPT ![p] = [Idle EXCEPT !.op = "exec", !.step = "dir"]]
  /\ UNCHANGED <<free, at, nouser, state, sz>>

(* A program header: one that is refused, or a segment that ends at e.     *)
(* allocuvm() allocates every page below e that is still missing, and its  *)
(* result is taken for an error if it is 0.                                *)
Segment(p) ==
  LET j == job[p]
  IN  /\ j.step = "segment"
      /\ \/ Bad(p)
         \/ \E e \in 1..(KERNBASE - 1) :
              /\ job' = [job EXCEPT
                   ![p] = IF e < j.old THEN [j EXCEPT !.step = "load"]
                          ELSE [j EXCEPT !.step = "alloc", !.a = PGROUNDUP(j.old),
                                         !.goal = e, !.old = e]]
              /\ UNCHANGED <<free, at, nouser, state, sz>>

Loading(p) == Complete(p, "exec") \/ job[p].step = "load"

(* loaduvm(); it fails on an unaligned address or a short file. *)
LoadSegment(p) ==
  /\ Loading(p)
  /\ \/ Bad(p)
     \/ Goto(p, "segment") /\ UNCHANGED <<free, at, nouser, state, sz>>

(* After the last header: two pages at the next page boundary. *)
ExecStack(p) ==
  LET j == job[p]
      top == (PGROUNDUP(j.old) + 2) * PGSIZE
  IN  /\ j.step = "segment"
      /\ IF top >= KERNBASE THEN Bad(p)
         ELSE /\ job' = [job EXCEPT ![p] = [j EXCEPT !.op = "stack", !.step = "alloc",
                                              !.a = PGROUNDUP(j.old), !.goal = top, !.sp = top]]
              /\ UNCHANGED <<free, at, nouser, state, sz>>

(* clearpteu() of the lower of the two pages. *)
Clearpteu(p) ==
  /\ Complete(p, "stack")
  /\ nouser' = nouser \cup {Pte(p, "new", (job[p].goal \div PGSIZE) - 2)}
  /\ Goto(p, "args")
  /\ UNCHANGED <<free, at, state, sz>>

(* Mutant: uva2ka() does not test PTE_U. *)
AccessibleKernel(p, v) ==
  IF v \in VPN THEN at[Pte(p, "new", v)] # 0 ELSE v \notin NOTABLE

(* uva2ka() finds page v in the new address space: present and PTE_U,      *)
(* which no page of the kernel's half is.                                  *)
Accessible(p, v) ==
  v \in VPN /\ at[Pte(p, "new", v)] # 0 /\ Pte(p, "new", v) \notin nouser

(* There is no page table for page v, and walkpgdir() returns 0. *)
Untabled(p, v) ==
  IF v \in VPN THEN at[Table(p, "new", v)] = 0 ELSE v \in NOTABLE

(* copyout() of n bytes to va: the pages that uva2ka() does not find. *)
Refused(p, va, n) ==
  {v \in {x \div PGSIZE : x \in va..(va + n - 1)} : ~Accessible(p, v)}
Copyout(p, va, n) == Refused(p, va, n) = {}

(* An argument, or ustack at the end, of n bytes with its padding.  sp is  *)
(* a uint and is not compared with n, so it may wrap into the kernel's     *)
(* half.  copyout() goes up from sp and fails at the first page that it is *)
(* refused.  If that one has no page table, uva2ka() reads *pte through    *)
(* the null pointer: it is refused all the same, or what happens is        *)
(* undefined and the model ends.                                           *)
PushArg(p, n) ==
  LET va == (job[p].sp - n) % UINT
  IN  /\ job[p].step = "args"
      /\ \/ /\ Copyout(p, va, n)
            /\ job' = [job EXCEPT ![p].sp = va]
            /\ UNCHANGED <<free, at, nouser, state, sz>>
         \/ ~Copyout(p, va, n) /\ Bad(p)
         \/ /\ \E v \in Refused(p, va, n) :
                 Untabled(p, v) /\ \A u \in Refused(p, va, n) : v <= u
            /\ Goto(p, "wild")
            /\ UNCHANGED <<free, at, nouser, state, sz>>

(* Commit to the user image. *)
ExecDone(p) ==
  /\ job[p].step = "args"
  /\ job[p].sp < job[p].goal
  /\ Install(p, p)
  /\ free' = free \cup ({at[h] : h \in Space(p, "mem")} \ {0})
  /\ sz' = [sz EXCEPT ![p] = job[p].goal]
  /\ job' = [job EXCEPT ![p] = Idle]
  /\ UNCHANGED state

-----------------------------------------------------------------------------
(* growproc(), exit() and wait() *)

(* sbrk(n), n > 0. *)
Grow(p, n) ==
  LET newsz == (sz[p] + n) % UINT
  IN  /\ Running(p)
      /\ newsz < KERNBASE
      /\ job' = [job EXCEPT ![p] = [Idle EXCEPT !.op = "sbrk", !.step = "alloc",
                                                !.a = PGROUNDUP(sz[p]), !.goal = newsz]]
      /\ UNCHANGED <<free, at, nouser, state, sz>>

GrowDone(p) ==
  /\ Complete(p, "sbrk")
  /\ sz' = [sz EXCEPT ![p] = job[p].goal]
  /\ job' = [job EXCEPT ![p] = Idle]
  /\ UNCHANGED <<free, at, nouser, state>>

(* sbrk(-n).  A difference that wraps is not below sz, and nothing         *)
(* happens.  A size of 0 is taken for an error: the pages are gone and     *)
(* proc->sz is not set, so the process faults at its next instruction.     *)
Shrink(p, n) ==
  LET newsz == (sz[p] - n) % UINT
  IN  /\ Running(p)
      /\ newsz < sz[p]
      /\ Release(deallocuvm(p, sz[p], newsz))
      /\ sz' = IF newsz = 0 THEN sz ELSE [sz EXCEPT ![p] = newsz]
      /\ state' = IF newsz = 0 THEN [state EXCEPT ![p] = "doomed"] ELSE state
      /\ UNCHANGED job

Exit(p) ==
  /\ p # initproc
  /\ state[p] \in {"run", "doomed"} /\ job[p] = Idle
  /\ state' = [state EXCEPT ![p] = "zombie"]
  /\ UNCHANGED <<free, at, nouser, sz, job>>

(* wait() frees the kernel stack and the address space of a zombie. *)
Wait(p, c) ==
  /\ Running(p)
  /\ state[c] = "zombie"
  /\ Release(Space(c, "mem") \cup {Kstack(c)})
  /\ state' = [state EXCEPT ![c] = "unused"]
  /\ UNCHANGED <<sz, job>>

(* No process has done what C does not define. *)
Defined == \A p \in Proc : job[p].step # "wild"

Next ==
  Defined /\ \E p \in Proc :
    \/ Fork(p) \/ ForkStack(p) \/ ForkDone(p)
    \/ Setupkvm(p) \/ SetupkvmMap(p) \/ AllocPage(p) \/ Mappages(p)
    \/ Exec(p) \/ Segment(p) \/ LoadSegment(p) \/ ExecStack(p) \/ Clearpteu(p)
    \/ \E n \in 1..KERNBASE : PushArg(p, n)
    \/ ExecDone(p)
    \/ \E n \in 1..(KERNBASE - 1) : Grow(p, n)
    \/ GrowDone(p)
    \/ \E n \in 1..KERNBASE : Shrink(p, n)
    \/ Exit(p)
    \/ \E c \in Proc : Wait(p, c)

Spec == Init /\ [][Next]_vars

-----------------------------------------------------------------------------
(* Arguments of system calls (syscall.c), against proc->sz                 *)

Address == 0..(UINT - 1)

fetchint(p, a) == a < sz[p] /\ (a + 4) % UINT <= sz[p]
fetchstr(p, a) == a < sz[p]

argptr(p, i, size) == i < sz[p] /\ (i + size) % UINT <= sz[p]

(* What the kernel may access for an argument that was accepted: a word,   *)
(* a string and what follows it, or a block of an int's size.              *)
Accepted(p) ==
  UNION ({a..(a + 3) : a \in {x \in Address : fetchint(p, x)}}
         \cup {a..(sz[p] - 1) : a \in {x \in Address : fetchstr(p, x)}}
         \cup {x[1]..(x[1] + x[2] - 1) :
                 x \in {y \in Address \X (0..(UINT \div 2 - 1)) : argptr(p, y[1], y[2])}})

-----------------------------------------------------------------------------
(* Properties *)

(* Every physical page is on the free list or has exactly one holder,      *)
(* whichever kalloc() of fork(), exec() or sbrk() fails: no page is        *)
(* leaked, freed twice or shared by two address spaces.                    *)
PagesOwned ==
  /\ \A g \in Holder : at[g] # 0 => \A h \in Holder : at[h] = at[g] => h = g
  /\ \A pg \in Pages : pg \in free <=> \A h \in Holder : at[h] # pg

Mapped(p, w) == {v \in VPN : at[Pte(p, w, v)] # 0}

(* A running process has mapped exactly the pages below its size, so       *)
(* copyuvm() never panics, mappages() never finds a page mapped before,    *)
(* a call that failed has left the address space as it was, and what       *)
(* fetchint(), fetchstr() and argptr() accept is memory that is mapped.    *)
SizeMatchesMap ==
  \A p \in Proc :
    /\ Running(p) => \A b \in Accepted(p) : b \div PGSIZE \in Mapped(p, "mem")
    /\ state[p] = "run" /\ job[p].op # "sbrk" => Mapped(p, "mem") = 0..(PGROUNDUP(sz[p]) - 1)
    /\ job[p].step = "map" => job[p].a \notin Mapped(p, Work(p))

(* What exec() has pushed lies in the one page above the guard page, which *)
(* the program can access, and the guard page is the one directly below:   *)
(* no argument however long is accepted that reaches the guard page, goes  *)
(* past it, or makes sp wrap, although exec() never compares sp with       *)
(* anything.                                                               *)
StackGuarded ==
  \A p \in Proc :
    job[p].step = "args" =>
      /\ \A x \in job[p].sp..(job[p].goal - 1) : Accessible(p, x \div PGSIZE)
      /\ job[p].sp <= job[p].goal /\ job[p].goal - job[p].sp <= PGSIZE
      /\ Pte(p, "new", (job[p].goal \div PGSIZE) - 2) \in nouser
=============================================================================
