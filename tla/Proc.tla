-------------------------------- MODULE Proc --------------------------------
(***************************************************************************)
(* The process table, the per-CPU schedulers and the sleep lock of the     *)
(* kernel (proc.c, sleeplock.c and the parts of trap.c that call them).    *)
(*                                                                         *)
(* A kernel thread executes a piece of code under ptable.lock without      *)
(* being observed, except where the lock is carried across swtch: there    *)
(* the model keeps the holder of the lock (a CPU, as lk->cpu does) and     *)
(* takes one step to change the state of the process and another to leave  *)
(* its stack.  Code that runs outside ptable.lock is split at every access *)
(* to shared state.                                                        *)
(***************************************************************************)
EXTENDS Naturals, FiniteSets

CONSTANTS NPROC,      \* number of slots of ptable
          CPUs,       \* the processors
          NoCPU,      \* "no holder" of a spin lock
          MaxPid,     \* bound of the model: pids handed out
          KillPids    \* pids that callers pass to kill()

ASSUME ProcAssumption ==
  /\ NPROC \in Nat \ {0}
  /\ MaxPid \in Nat \ {0}
  /\ KillPids \subseteq Nat
  /\ NoCPU \notin CPUs

VARIABLES state,      \* p->state
          pid,        \* p->pid
          parent,     \* p->parent, 0 for a null pointer
          killed,     \* slots with p->killed set
          chan,       \* p->chan, NoChan for a null pointer
          kstack,     \* slots whose p->kstack is allocated
          nextpid,    \* nextpid
          ptlock,     \* CPU that holds ptable.lock
          curr,       \* c->proc, 0 while the CPU runs its scheduler
          scan,       \* loop index of scheduler() on every CPU
          pc,         \* where the kernel thread of a process is
          ctx,        \* what it does when it is switched in again
          np,         \* local variable np of fork()
          sl,         \* the sleep lock: lk, locked, pid
          panicked    \* panic() was called

table == <<state, pid, parent, killed, chan, kstack, nextpid>>
vars == <<state, pid, parent, killed, chan, kstack, nextpid,
          ptlock, curr, scan, pc, ctx, np, sl, panicked>>

Procs == 1..NPROC
initproc == 1
NoChan == 0
SlChan == NPROC + 1
States == {"UNUSED", "EMBRYO", "SLEEPING", "RUNNABLE", "RUNNING", "ZOMBIE"}
(* user: in user space.  fork: in fork() after allocproc() found a slot.    *)
(* publish: in fork() about to make the child RUNNABLE.  wait: in the loop  *)
(* of wait(), holding ptable.lock.  acquire: about to take sl.lk.  test: in *)
(* the while loop of acquiresleep() with sl.lk.  doze: in sleep() after     *)
(* release(lk).  hold: owns the sleep lock.  wake: in releasesleep() about  *)
(* to call wakeup().                                                        *)
Places == {"user", "fork", "publish", "wait", "acquire", "test", "doze",
           "hold", "wake"}
Contexts == {"none", "forkret", "yield", "sleep", "exit"}

TypeOK ==
  /\ state \in [Procs -> States]
  /\ pid \in [Procs -> Nat]
  /\ parent \in [Procs -> Procs \cup {0}]
  /\ killed \subseteq Procs
  /\ chan \in [Procs -> Procs \cup {NoChan, SlChan}]
  /\ kstack \subseteq Procs
  /\ nextpid \in Nat
  /\ ptlock \in CPUs \cup {NoCPU}
  /\ curr \in [CPUs -> Procs \cup {0}]
  /\ scan \in [CPUs -> Nat]
  /\ pc \in [Procs -> Places]
  /\ ctx \in [Procs -> Contexts]
  /\ np \in [Procs -> Procs \cup {0}]
  /\ sl \in [lk : CPUs \cup {NoCPU}, locked : {0, 1}, pid : Nat]
  /\ panicked \in BOOLEAN

(* After userinit(): slot 1 holds the first process; every CPU is about to  *)
(* enter scheduler().                                                       *)
Init ==
  /\ state = [p \in Procs |-> IF p = initproc THEN "RUNNABLE" ELSE "UNUSED"]
  /\ pid = [p \in Procs |-> IF p = initproc THEN 1 ELSE 0]
  /\ parent = [p \in Procs |-> 0]
  /\ killed = {}
  /\ chan = [p \in Procs |-> NoChan]
  /\ kstack = {initproc}
  /\ nextpid = 2
  /\ ptlock = NoCPU
  /\ curr = [c \in CPUs |-> 0]
  /\ scan = [c \in CPUs |-> 1]
  /\ pc = [p \in Procs |-> "user"]
  /\ ctx = [p \in Procs |-> IF p = initproc THEN "forkret" ELSE "none"]
  /\ np = [p \in Procs |-> 0]
  /\ sl = [lk |-> NoCPU, locked |-> 0, pid |-> 0]
  /\ panicked = FALSE

(* The loops over the table stop at the first slot they look for. *)
NoUnusedBefore(q) == \A r \in Procs : r < q => state[r] # "UNUSED"
NoZombieBefore(p, q) ==
  \A r \in Procs : r < q => ~(parent[r] = p /\ state[r] = "ZOMBIE")
NoPidBefore(n, q) == \A r \in Procs : r < q => pid[r] # n
NoRunnableBefore(c, q) ==
  \A r \in Procs : scan[c] <= r /\ r < q => state[r] # "RUNNABLE"

-----------------------------------------------------------------------------
(* scheduler() *)

(* Mutated: the scan goes on where the last one stopped. *)
SchedAcquireNoReset(c) ==
  /\ curr[c] = 0
  /\ ptlock = NoCPU
  /\ ptlock' = c
  /\ UNCHANGED <<table, curr, scan, pc, ctx, np, sl, panicked>>

(* acquire(&ptable.lock) at the top of the scheduler's endless loop. *)
SchedAcquire(c) ==
  /\ curr[c] = 0
  /\ ptlock = NoCPU
  /\ ptlock' = c
  /\ scan' = [scan EXCEPT ![c] = 1]
  /\ UNCHANGED <<table, curr, pc, ctx, np, sl, panicked>>

(* The scan meets a RUNNABLE process and switches to it, lock held. *)
SchedSwitch(c, p) ==
  /\ curr[c] = 0
  /\ ptlock = c
  /\ p >= scan[c]
  /\ state[p] = "RUNNABLE"
  /\ NoRunnableBefore(c, p)
  /\ curr' = [curr EXCEPT ![c] = p]
  /\ state' = [state EXCEPT ![p] = "RUNNING"]
  /\ scan' = [scan EXCEPT ![c] = p + 1]
  /\ UNCHANGED <<pid, parent, killed, chan, kstack, nextpid, ptlock, pc, ctx,
                 np, sl, panicked>>

(* The scan reaches the end of the table and releases the lock. *)
SchedRelease(c) ==
  /\ curr[c] = 0
  /\ ptlock = c
  /\ \A q \in Procs : scan[c] <= q => state[q] # "RUNNABLE"
  /\ ptlock' = NoCPU
  /\ UNCHANGED <<table, curr, scan, pc, ctx, np, sl, panicked>>

(* Process p executes on CPU c, outside sched(). *)
Running(c, p) ==
  /\ curr[c] = p
  /\ state[p] = "RUNNING"
  /\ ctx[p] = "none"

(* sched(): its checks, then swtch to the scheduler of this CPU. *)
Sched(c, p) ==
  /\ curr[c] = p
  /\ state[p] # "RUNNING"
  /\ IF ptlock = c /\ sl.lk # c
     THEN /\ curr' = [curr EXCEPT ![c] = 0]
          /\ UNCHANGED panicked
     ELSE /\ panicked' = TRUE
          /\ UNCHANGED curr
  /\ UNCHANGED <<table, ptlock, scan, pc, ctx, np, sl>>

(* What a process does first when the scheduler switches to it: forkret()   *)
(* and the tail of yield() release ptable.lock; sleep() clears p->chan and, *)
(* unless it was called by wait(), also exchanges ptable.lock for sl.lk.    *)
Resume(c, p) ==
  /\ curr[c] = p
  /\ state[p] = "RUNNING"
  /\ ctx[p] \in {"forkret", "yield", "sleep"}
  /\ ptlock' = IF pc[p] = "wait" THEN c ELSE NoCPU
  /\ chan' = IF ctx[p] = "sleep" THEN [chan EXCEPT ![p] = NoChan] ELSE chan
  /\ pc' = IF pc[p] = "doze" THEN [pc EXCEPT ![p] = "acquire"] ELSE pc
  /\ ctx' = [ctx EXCEPT ![p] = "none"]
  /\ UNCHANGED <<state, pid, parent, killed, kstack, nextpid, curr, scan, np,
                 sl, panicked>>

-----------------------------------------------------------------------------
(* Operations of a process.  trap() lets a killed process do nothing but    *)
(* exit when it enters or leaves the kernel.                                *)

InUser(c, p) == Running(c, p) /\ pc[p] = "user" /\ p \notin killed

(* Mutated: yield() does not take ptable.lock. *)
YieldUnlocked(c, p) ==
  /\ Running(c, p)
  /\ ~(pc[p] = "user" /\ p \in killed)
  /\ pc[p] \in {"user", "fork", "publish", "acquire", "hold"}
  /\ state' = [state EXCEPT ![p] = "RUNNABLE"]
  /\ ctx' = [ctx EXCEPT ![p] = "yield"]
  /\ UNCHANGED <<pid, parent, killed, chan, kstack, nextpid, ptlock, curr,
                 scan, pc, np, sl, panicked>>

(* yield(), from the timer interrupt: anywhere interrupts are enabled.  In  *)
(* user space trap() makes a killed process exit before it could yield.     *)
Yield(c, p) ==
  /\ Running(c, p)
  /\ ~(pc[p] = "user" /\ p \in killed)
  /\ pc[p] \in {"user", "fork", "publish", "acquire", "hold"}
  /\ ptlock = NoCPU
  /\ ptlock' = c
  /\ state' = [state EXCEPT ![p] = "RUNNABLE"]
  /\ ctx' = [ctx EXCEPT ![p] = "yield"]
  /\ UNCHANGED <<pid, parent, killed, chan, kstack, nextpid, curr, scan, pc,
                 np, sl, panicked>>

(* fork(), first part of allocproc(): the first UNUSED slot becomes EMBRYO. *)
AllocProc(c, p, q) ==
  /\ InUser(c, p)
  /\ ptlock = NoCPU
  /\ nextpid <= MaxPid
  /\ state[q] = "UNUSED"
  /\ NoUnusedBefore(q)
  /\ state' = [state EXCEPT ![q] = "EMBRYO"]
  /\ pid' = [pid EXCEPT ![q] = nextpid]
  /\ nextpid' = nextpid + 1
  /\ np' = [np EXCEPT ![p] = q]
  /\ pc' = [pc EXCEPT ![p] = "fork"]
  /\ UNCHANGED <<parent, killed, chan, kstack, ptlock, curr, scan, ctx, sl,
                 panicked>>

(* fork(): kalloc() of the kernel stack or copyuvm() fails.  The slot is    *)
(* given back without ptable.lock and keeps its pid.                        *)
ForkFail(c, p) ==
  /\ Running(c, p)
  /\ pc[p] = "fork"
  /\ state' = [state EXCEPT ![np[p]] = "UNUSED"]
  /\ kstack' = kstack \ {np[p]}
  /\ np' = [np EXCEPT ![p] = 0]
  /\ pc' = [pc EXCEPT ![p] = "user"]
  /\ UNCHANGED <<pid, parent, killed, chan, nextpid, ptlock, curr, scan, ctx,
                 sl, panicked>>

(* fork(): stack, context, address space, parent, files of the child. *)
ForkCopy(c, p) ==
  /\ Running(c, p)
  /\ pc[p] = "fork"
  /\ kstack' = kstack \cup {np[p]}
  /\ ctx' = [ctx EXCEPT ![np[p]] = "forkret"]
  /\ parent' = [parent EXCEPT ![np[p]] = p]
  /\ pc' = [pc EXCEPT ![p] = "publish", ![np[p]] = "user"]
  /\ UNCHANGED <<state, pid, killed, chan, nextpid, ptlock, curr, scan, np, sl,
                 panicked>>

(* fork(): the child becomes RUNNABLE under ptable.lock. *)
ForkPublish(c, p) ==
  /\ Running(c, p)
  /\ pc[p] = "publish"
  /\ ptlock = NoCPU
  /\ state' = [state EXCEPT ![np[p]] = "RUNNABLE"]
  /\ np' = [np EXCEPT ![p] = 0]
  /\ pc' = [pc EXCEPT ![p] = "user"]
  /\ UNCHANGED <<pid, parent, killed, chan, kstack, nextpid, ptlock, curr,
                 scan, ctx, sl, panicked>>

(* wakeup1(ch) applied to the states st. *)
Wakeup1(st, ch) ==
  [q \in Procs |-> IF st[q] = "SLEEPING" /\ chan[q] = ch
                   THEN "RUNNABLE" ELSE st[q]]

HasZombieChild(p) == \E q \in Procs : parent[q] = p /\ state[q] = "ZOMBIE"

(* Mutated: the children keep their parent. *)
ExitNoReparent(c, p) ==
  /\ Running(c, p)
  /\ pc[p] = "user"
  /\ p # initproc
  /\ ptlock = NoCPU
  /\ ptlock' = c
  /\ state' = [Wakeup1(state, parent[p]) EXCEPT ![p] = "ZOMBIE"]
  /\ ctx' = [ctx EXCEPT ![p] = "exit"]
  /\ UNCHANGED <<pid, parent, killed, chan, kstack, nextpid, curr, scan, pc, np,
                 sl, panicked>>

(* exit() of a process other than init, up to sched(). *)
Exit(c, p) ==
  /\ Running(c, p)
  /\ pc[p] = "user"
  /\ p # initproc
  /\ ptlock = NoCPU
  /\ ptlock' = c
  /\ LET woken == Wakeup1(state, parent[p])
         st == IF HasZombieChild(p) THEN Wakeup1(woken, initproc) ELSE woken
     IN state' = [st EXCEPT ![p] = "ZOMBIE"]
  /\ parent' = [q \in Procs |-> IF parent[q] = p THEN initproc ELSE parent[q]]
  /\ ctx' = [ctx EXCEPT ![p] = "exit"]
  /\ UNCHANGED <<pid, killed, chan, kstack, nextpid, curr, scan, pc, np, sl,
                 panicked>>

(* exit() of init. *)
InitExit(c) ==
  /\ Running(c, initproc)
  /\ pc[initproc] = "user"
  /\ initproc \in killed
  /\ panicked' = TRUE
  /\ UNCHANGED <<table, ptlock, curr, scan, pc, ctx, np, sl>>

(* wait() is called. *)
WaitEnter(c, p) ==
  /\ InUser(c, p)
  /\ ptlock = NoCPU
  /\ ptlock' = c
  /\ pc' = [pc EXCEPT ![p] = "wait"]
  /\ UNCHANGED <<table, curr, scan, ctx, np, sl, panicked>>

InWait(c, p) == Running(c, p) /\ pc[p] = "wait" /\ ptlock = c

(* wait(): the scan finds the first ZOMBIE child q and frees its slot. *)
WaitReap(c, p, q) ==
  /\ InWait(c, p)
  /\ parent[q] = p
  /\ state[q] = "ZOMBIE"
  /\ NoZombieBefore(p, q)
  /\ kstack' = kstack \ {q}
  /\ pid' = [pid EXCEPT ![q] = 0]
  /\ parent' = [parent EXCEPT ![q] = 0]
  /\ killed' = killed \ {q}
  /\ state' = [state EXCEPT ![q] = "UNUSED"]
  /\ ctx' = [ctx EXCEPT ![q] = "none"]
  /\ ptlock' = NoCPU
  /\ pc' = [pc EXCEPT ![p] = "user"]
  /\ UNCHANGED <<chan, nextpid, curr, scan, np, sl, panicked>>

(* wait(): no children, or killed. *)
WaitFail(c, p) ==
  /\ InWait(c, p)
  /\ ~HasZombieChild(p)
  /\ p \in killed \/ \A q \in Procs : parent[q] # p
  /\ ptlock' = NoCPU
  /\ pc' = [pc EXCEPT ![p] = "user"]
  /\ UNCHANGED <<table, curr, scan, ctx, np, sl, panicked>>

(* wait(): sleep(curproc, &ptable.lock), up to sched(). *)
WaitSleep(c, p) ==
  /\ InWait(c, p)
  /\ ~HasZombieChild(p)
  /\ p \notin killed
  /\ \E q \in Procs : parent[q] = p
  /\ chan' = [chan EXCEPT ![p] = p]
  /\ state' = [state EXCEPT ![p] = "SLEEPING"]
  /\ ctx' = [ctx EXCEPT ![p] = "sleep"]
  /\ UNCHANGED <<pid, parent, killed, kstack, nextpid, ptlock, curr, scan, pc,
                 np, sl, panicked>>

(* Mutated forms of kill(): the victim is made RUNNABLE whatever it does;   *)
(* a sleeper is left asleep.                                                *)
KillRevives(c, p, n, q) ==
  /\ InUser(c, p)
  /\ ptlock = NoCPU
  /\ pid[q] = n
  /\ NoPidBefore(n, q)
  /\ killed' = killed \cup {q}
  /\ state' = [state EXCEPT ![q] = "RUNNABLE"]
  /\ UNCHANGED <<pid, parent, chan, kstack, nextpid, ptlock, curr, scan, pc,
                 ctx, np, sl, panicked>>
KillNoWake(c, p, n, q) ==
  /\ InUser(c, p)
  /\ ptlock = NoCPU
  /\ pid[q] = n
  /\ NoPidBefore(n, q)
  /\ killed' = killed \cup {q}
  /\ UNCHANGED <<state, pid, parent, chan, kstack, nextpid, ptlock, curr, scan,
                 pc, ctx, np, sl, panicked>>

(* kill(n): the first slot whose pid is n, whatever its state. *)
Kill(c, p, n, q) ==
  /\ InUser(c, p)
  /\ ptlock = NoCPU
  /\ pid[q] = n
  /\ NoPidBefore(n, q)
  /\ killed' = killed \cup {q}
  /\ state' = IF state[q] = "SLEEPING"
              THEN [state EXCEPT ![q] = "RUNNABLE"] ELSE state
  /\ UNCHANGED <<pid, parent, chan, kstack, nextpid, ptlock, curr, scan, pc,
                 ctx, np, sl, panicked>>

-----------------------------------------------------------------------------
(* acquiresleep() and releasesleep() on one sleep lock. *)

(* A system call of p, or its exit() closing files, is about to call        *)
(* acquiresleep().                                                          *)
AcquireSleepEnter(c, p) ==
  /\ Running(c, p)
  /\ pc[p] = "user"
  /\ pc' = [pc EXCEPT ![p] = "acquire"]
  /\ UNCHANGED <<table, ptlock, curr, scan, ctx, np, sl, panicked>>

(* acquire(&lk->lk), on entry and again at the end of sleep(). *)
AcquireSleepLock(c, p) ==
  /\ Running(c, p)
  /\ pc[p] = "acquire"
  /\ sl.lk = NoCPU
  /\ sl' = [sl EXCEPT !.lk = c]
  /\ pc' = [pc EXCEPT ![p] = "test"]
  /\ UNCHANGED <<table, ptlock, curr, scan, ctx, np, panicked>>

(* Mutated: a process that was woken does not test lk->locked again. *)
AcquireSleepBarge(c, p) ==
  /\ Running(c, p)
  /\ pc[p] = "test"
  /\ sl' = [sl EXCEPT !.lk = NoCPU, !.locked = 1, !.pid = pid[p]]
  /\ pc' = [pc EXCEPT ![p] = "hold"]
  /\ UNCHANGED <<table, ptlock, curr, scan, ctx, np, panicked>>

(* The lock is free: take it and release lk->lk. *)
AcquireSleepTake(c, p) ==
  /\ Running(c, p)
  /\ pc[p] = "test"
  /\ sl.locked = 0
  /\ sl' = [sl EXCEPT !.lk = NoCPU, !.locked = 1, !.pid = pid[p]]
  /\ pc' = [pc EXCEPT ![p] = "hold"]
  /\ UNCHANGED <<table, ptlock, curr, scan, ctx, np, panicked>>

(* Mutated forms of sleep(): lk->lk is given back before ptable.lock is     *)
(* taken; lk->lk is not given back.                                         *)
SleepReleaseFirst(c, p) ==
  /\ Running(c, p)
  /\ pc[p] = "test"
  /\ sl.locked = 1
  /\ sl' = [sl EXCEPT !.lk = NoCPU]
  /\ pc' = [pc EXCEPT ![p] = "doze"]
  /\ UNCHANGED <<table, ptlock, curr, scan, ctx, np, panicked>>
SleepKeepLock(c, p) ==
  /\ Running(c, p)
  /\ pc[p] = "test"
  /\ sl.locked = 1
  /\ ptlock = NoCPU
  /\ ptlock' = c
  /\ pc' = [pc EXCEPT ![p] = "doze"]
  /\ UNCHANGED <<table, curr, scan, ctx, np, sl, panicked>>

(* The lock is held: sleep() takes ptable.lock, then gives lk->lk back. *)
SleepRelease(c, p) ==
  /\ Running(c, p)
  /\ pc[p] = "test"
  /\ sl.locked = 1
  /\ ptlock = NoCPU
  /\ ptlock' = c
  /\ sl' = [sl EXCEPT !.lk = NoCPU]
  /\ pc' = [pc EXCEPT ![p] = "doze"]
  /\ UNCHANGED <<table, curr, scan, ctx, np, panicked>>

(* sleep(): p->chan = chan; p->state = SLEEPING. *)
SleepCommit(c, p) ==
  /\ Running(c, p)
  /\ pc[p] = "doze"
  /\ chan' = [chan EXCEPT ![p] = SlChan]
  /\ state' = [state EXCEPT ![p] = "SLEEPING"]
  /\ ctx' = [ctx EXCEPT ![p] = "sleep"]
  /\ UNCHANGED <<pid, parent, killed, kstack, nextpid, ptlock, curr, scan, pc,
                 np, sl, panicked>>

(* releasesleep(): locked = 0 and pid = 0 under lk->lk. *)
ReleaseSleep(c, p) ==
  /\ Running(c, p)
  /\ pc[p] = "hold"
  /\ sl.lk = NoCPU
  /\ sl' = [sl EXCEPT !.lk = c, !.locked = 0, !.pid = 0]
  /\ pc' = [pc EXCEPT ![p] = "wake"]
  /\ UNCHANGED <<table, ptlock, curr, scan, ctx, np, panicked>>

(* Mutated: no wakeup. *)
ReleaseSleepSilent(c, p) ==
  /\ Running(c, p)
  /\ pc[p] = "wake"
  /\ ptlock = NoCPU
  /\ sl' = [sl EXCEPT !.lk = NoCPU]
  /\ pc' = [pc EXCEPT ![p] = "user"]
  /\ UNCHANGED <<table, ptlock, curr, scan, ctx, np, panicked>>

(* releasesleep(): wakeup(lk), then release(&lk->lk). *)
ReleaseSleepWakeup(c, p) ==
  /\ Running(c, p)
  /\ pc[p] = "wake"
  /\ ptlock = NoCPU
  /\ state' = Wakeup1(state, SlChan)
  /\ sl' = [sl EXCEPT !.lk = NoCPU]
  /\ pc' = [pc EXCEPT ![p] = "user"]
  /\ UNCHANGED <<pid, parent, killed, chan, kstack, nextpid, ptlock, curr,
                 scan, ctx, np, panicked>>

-----------------------------------------------------------------------------

Scheduler(c) ==
  SchedAcquire(c) \/ SchedRelease(c) \/ \E p \in Procs : SchedSwitch(c, p)

SleepLock(c, p) ==
  \/ AcquireSleepEnter(c, p) \/ AcquireSleepLock(c, p)
  \/ AcquireSleepTake(c, p) \/ SleepRelease(c, p) \/ SleepCommit(c, p)
  \/ ReleaseSleep(c, p) \/ ReleaseSleepWakeup(c, p)

Process(c, p) ==
  \/ Sched(c, p) \/ Resume(c, p) \/ Yield(c, p)
  \/ \E q \in Procs : AllocProc(c, p, q)
  \/ ForkFail(c, p) \/ ForkCopy(c, p) \/ ForkPublish(c, p)
  \/ Exit(c, p)
  \/ WaitEnter(c, p) \/ WaitFail(c, p) \/ WaitSleep(c, p)
  \/ \E q \in Procs : WaitReap(c, p, q)
  \/ \E n \in KillPids, q \in Procs : Kill(c, p, n, q)
  \/ SleepLock(c, p)

Next ==
  /\ ~panicked
  /\ \E c \in CPUs :
       \/ Scheduler(c)
       \/ InitExit(c)
       \/ \E p \in Procs : Process(c, p)

Spec == Init /\ [][Next]_vars

(* The steps of a kernel thread that is inside the kernel. *)
InKernel(c, p) ==
  \/ ForkFail(c, p) \/ ForkCopy(c, p) \/ ForkPublish(c, p)
  \/ WaitFail(c, p) \/ WaitSleep(c, p) \/ \E q \in Procs : WaitReap(c, p, q)
  \/ AcquireSleepLock(c, p) \/ AcquireSleepTake(c, p)
  \/ SleepRelease(c, p) \/ SleepCommit(c, p)
  \/ ReleaseSleep(c, p) \/ ReleaseSleepWakeup(c, p)

(* The steps by which a CPU changes from one thread to another. *)
Switching(c) == Scheduler(c) \/ \E p \in Procs : Sched(c, p) \/ Resume(c, p)

(* CPUs keep executing, a CPU that spins on a lock gets it in the end, and  *)
(* a thread does not stop inside the kernel, however often it is            *)
(* interrupted.  The timer keeps interrupting; trap() then calls yield(),   *)
(* or exit() for a process killed in user space.                            *)
Fairness ==
  /\ \A c \in CPUs : SF_vars(Switching(c))
  /\ \A p \in Procs :
       /\ SF_vars(\E c \in CPUs : InKernel(c, p))
       /\ SF_vars(\E c \in CPUs : Yield(c, p) \/ (p \in killed /\ Exit(c, p)))

FairSpec == Spec /\ Fairness

-----------------------------------------------------------------------------
(* Properties *)

Alive(p) == state[p] \in {"SLEEPING", "RUNNABLE", "RUNNING"}

(* A kernel stack is never in use by two CPUs and never freed under a CPU   *)
(* that executes on it: wait() cannot free the stack of a zombie before     *)
(* that zombie's swtch away from it, because exit() carries ptable.lock     *)
(* into the scheduler.                                                      *)
StackSafe ==
  \A c \in CPUs : curr[c] # 0 =>
    /\ curr[c] \in kstack
    /\ \A d \in CPUs : curr[d] = curr[c] => d = c

(* A RUNNING process is on a CPU, and a process that is on a CPU without    *)
(* being RUNNING (between its change of state and swtch) is hidden from     *)
(* every other scheduler by ptable.lock.                                    *)
RunningOnCPU ==
  \A p \in Procs :
    /\ state[p] = "RUNNING" => \E c \in CPUs : curr[c] = p
    /\ \A c \in CPUs : curr[c] = p /\ state[p] # "RUNNING" => ptlock = c

(* A stack is used by one CPU at a time, by the process that is RUNNING     *)
(* there or, under ptable.lock, on its way from or to the scheduler.        *)
OneCPUPerStack == StackSafe /\ RunningOnCPU

(* Every process but the first has a parent that can still wait() for it:   *)
(* exit() hands its children to init before it becomes a ZOMBIE.            *)
LiveParent ==
  \A p \in Procs : (Alive(p) \/ state[p] = "ZOMBIE") /\ p # initproc =>
    parent[p] \in Procs /\ Alive(parent[p])

(* No wakeup of wait() is missed: a process asleep in wait() has a child,   *)
(* none of its children is a ZOMBIE and it has not been killed.             *)
WaitNotMissed ==
  \A p \in Procs : state[p] = "SLEEPING" /\ chan[p] = p =>
    /\ \E q \in Procs : parent[q] = p
    /\ ~HasZombieChild(p)
    /\ p \notin killed

(* No wakeup of a sleep lock is lost: a process sleeps in acquiresleep()    *)
(* only while the lock is held or its releaser is about to call wakeup().   *)
NoLostWakeup ==
  \A p \in Procs : state[p] = "SLEEPING" /\ chan[p] = SlChan =>
    sl.locked = 1 \/ \E q \in Procs : pc[q] = "wake"

(* Neither exit() and kill() against wait() nor releasesleep() against      *)
(* acquiresleep() leave a process asleep that has nothing to wait for.      *)
NoMissedWakeup == NoLostWakeup /\ WaitNotMissed

(* acquiresleep() gives the lock to one process at a time, and the holder   *)
(* is the one holdingsleep() recognises by pid, also when kill() makes      *)
(* sleepers return early from sleep().                                      *)
SleepLockMutex ==
  /\ \A p \in Procs : pc[p] = "hold" => sl.locked = 1 /\ sl.pid = pid[p]
  /\ \A p, q \in Procs : pc[p] = "hold" /\ pc[q] = "hold" => p = q

(* The checks of sched() never fail: the only panic is that of a killed     *)
(* init.                                                                    *)
SchedNeverPanics == panicked => initproc \in killed

(* A slot moves along the life cycle of a process and no other way; kill()  *)
(* and wakeup1() in particular revive nothing but a sleeper.                *)
Moves ==
  {<<"UNUSED", "EMBRYO">>, <<"EMBRYO", "UNUSED">>, <<"EMBRYO", "RUNNABLE">>,
   <<"RUNNABLE", "RUNNING">>, <<"RUNNING", "RUNNABLE">>,
   <<"RUNNING", "SLEEPING">>, <<"RUNNING", "ZOMBIE">>,
   <<"SLEEPING", "RUNNABLE">>, <<"ZOMBIE", "UNUSED">>}

LegalMoves ==
  \A p \in Procs : state'[p] # state[p] => <<state[p], state'[p]>> \in Moves

LifeCycle == [][LegalMoves]_vars

(* Every RUNNABLE process gets a CPU: the scan of the table never passes    *)
(* the same process over again and again.                                   *)
RunnableRuns ==
  \A p \in Procs : state[p] = "RUNNABLE" ~> state[p] = "RUNNING"

(* A killed process exits, whether kill() met it in user space, in fork(),  *)
(* in wait(), on its way to sleep there or asleep.  Its exit() may queue    *)
(* for a sleep lock, which serves nobody in order.                          *)
KilledExits ==
  \A p \in Procs \ {initproc} :
    Alive(p) /\ p \in killed /\ pc[p] \in {"user", "fork", "publish", "wait"}
      ~> state[p] = "ZOMBIE" \/ pc[p] = "acquire"

(* A free sleep lock that a process asks for is taken by someone: the       *)
(* wakeup of releasesleep() gets to the sleepers, also past processes that  *)
(* kill() woke.                                                             *)
FreeLockTaken ==
  sl.locked = 0 /\ (\E p \in Procs : pc[p] \in {"acquire", "test", "doze"})
    ~> sl.locked = 1
=============================================================================
