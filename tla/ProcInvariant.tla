--------------------------- MODULE ProcInvariant ---------------------------
(***************************************************************************)
(* Safety of the process table for every number of slots, CPUs and pids:   *)
(* the inductive invariant IInv, and that the initial state satisfies it   *)
(* and the scheduler, fork() and exit() preserve it.                       *)
(***************************************************************************)
EXTENDS Proc, TLAPS

(* Who is on which CPU, and what ptable.lock protects across swtch. *)
CPUInv ==
  /\ \A c, d \in CPUs : curr[c] # 0 /\ curr[c] = curr[d] => c = d
  /\ \A p \in Procs : state[p] = "RUNNING" => \E c \in CPUs : curr[c] = p
  /\ \A c \in CPUs : \A p \in Procs : curr[c] = p =>
       \/ state[p] = "RUNNING"
       \/ state[p] \in {"RUNNABLE", "SLEEPING", "ZOMBIE"} /\ ptlock = c
  /\ \A c \in CPUs : \A p \in Procs :
       curr[c] = p /\ (ctx[p] # "none" \/ pc[p] \in {"wait", "doze"})
         => ptlock = c

(* What the saved context and the location of a thread say of its state. *)
ContextInv ==
  \A p \in Procs :
    /\ state[p] \in {"UNUSED", "EMBRYO", "ZOMBIE"} => pc[p] = "user"
    /\ state[p] = "UNUSED" => ctx[p] = "none"
    /\ state[p] = "RUNNABLE" => ctx[p] \in {"forkret", "yield", "sleep"}
    /\ state[p] = "SLEEPING" => ctx[p] = "sleep"
    /\ state[p] = "RUNNING" => ctx[p] # "exit"
    /\ ctx[p] \in {"forkret", "exit"} => pc[p] = "user"
    /\ ctx[p] = "yield" => pc[p] \in {"user", "fork", "publish", "acquire", "hold"}
    /\ ctx[p] = "sleep" => pc[p] \in {"wait", "doze"}

(* The child a thread is creating is an EMBRYO that no one else touches. *)
Forking(p) == pc[p] \in {"fork", "publish"}

ForkInv ==
  /\ \A p \in Procs : Forking(p) =>
       np[p] \in Procs /\ state[np[p]] = "EMBRYO"
  /\ \A p \in Procs : pc[p] = "fork" =>
       parent[np[p]] = 0 /\ ctx[np[p]] = "none"
  /\ \A p \in Procs : pc[p] = "publish" =>
       parent[np[p]] = p /\ np[p] \in kstack /\ ctx[np[p]] = "forkret"
  /\ \A p, q \in Procs : Forking(p) /\ Forking(q) /\ np[p] = np[q] => p = q
  /\ \A p \in Procs : parent[p] # p /\ (state[p] = "UNUSED" => parent[p] = 0)

(* A process that has run has its kernel stack. *)
StackInv ==
  \A p \in Procs : Alive(p) \/ state[p] = "ZOMBIE" => p \in kstack

(* init is there for good. *)
InitInv == Alive(initproc) /\ parent[initproc] = 0

(* The spin lock inside the sleep lock. *)
SpinInv ==
  /\ \A p \in Procs : pc[p] \in {"test", "wake"} =>
       ctx[p] = "none" /\ \A c \in CPUs : curr[c] = p => sl.lk = c
  /\ \A c \in CPUs : sl.lk = c =>
       curr[c] \in Procs /\ pc[curr[c]] \in {"test", "wake"}

(* A thread between release(lk) and SLEEPING still has its wakeup to come. *)
DozeInv ==
  \A p \in Procs : pc[p] = "doze" /\ ctx[p] = "none" =>
    sl.locked = 1 \/ \E q \in Procs : pc[q] = "wake"

TableInv ==
  /\ CPUInv /\ ContextInv /\ ForkInv /\ StackInv /\ InitInv /\ LiveParent

SleepInv ==
  /\ SpinInv /\ DozeInv /\ NoLostWakeup /\ SleepLockMutex /\ WaitNotMissed
  /\ SchedNeverPanics

(* The inductive invariant. *)
IInv == TypeOK /\ TableInv /\ SleepInv

-----------------------------------------------------------------------------

(* Every step is a step of one of the actions, taken on some CPU c. *)
Step(c) ==
  \/ SchedAcquire(c) \/ SchedRelease(c) \/ InitExit(c)
  \/ \E p \in Procs :
       \/ SchedSwitch(c, p) \/ Sched(c, p) \/ Resume(c, p) \/ Yield(c, p)
       \/ ForkFail(c, p) \/ ForkCopy(c, p) \/ ForkPublish(c, p)
       \/ Exit(c, p)
       \/ WaitEnter(c, p) \/ WaitFail(c, p) \/ WaitSleep(c, p)
       \/ AcquireSleepEnter(c, p) \/ AcquireSleepLock(c, p)
       \/ AcquireSleepTake(c, p) \/ SleepRelease(c, p) \/ SleepCommit(c, p)
       \/ ReleaseSleep(c, p) \/ ReleaseSleepWakeup(c, p)
       \/ \E q \in Procs : AllocProc(c, p, q) \/ WaitReap(c, p, q)
       \/ \E n \in KillPids, q \in Procs : Kill(c, p, n, q)

(* Every step of the system is a step of one CPU.                          *)
LEMMA NextIsStep == Next => \E c \in CPUs : Step(c)
BY DEF Next, Scheduler, Process, SleepLock, Step

(* Slots are numbered from 1, so that 0 stands for a null pointer, and the  *)
(* channel of the sleep lock is not that of any wait().                     *)
LEMMA ProcsFact ==
  /\ Procs \subseteq Nat \ {0} /\ initproc \in Procs
  /\ SlChan \notin Procs \cup {0} /\ NoCPU \notin CPUs
BY ProcAssumption DEF Procs, initproc, SlChan

USE ProcsFact DEF IInv, TableInv, SleepInv, TypeOK, States, Places, Contexts,
    table, Running, InUser, InWait, Wakeup1

(* The initial state satisfies the invariant. *)
LEMMA InitIInv == Init => IInv
<1> SUFFICES ASSUME Init PROVE IInv
  OBVIOUS
<1> USE DEF Init
<1>1. TypeOK
  OBVIOUS
<1>2. TableInv
  BY DEF CPUInv, ContextInv, ForkInv, Forking, StackInv, InitInv, LiveParent, Alive
<1>3. SleepInv
  BY DEF SpinInv, DozeInv, NoLostWakeup, SleepLockMutex, WaitNotMissed,
         SchedNeverPanics
<1> QED
  BY <1>1, <1>2, <1>3

(* One lemma per action: it preserves the invariant. *)
LEMMA SchedAcquireIInv ==
  ASSUME IInv, NEW c \in CPUs,
         SchedAcquire(c)
  PROVE  IInv'
<1> USE DEF SchedAcquire
<1>1. TypeOK'
  OBVIOUS
<1>2. TableInv'
  <2>1. CPUInv'
    BY <1>1 DEF CPUInv
  <2>2. ContextInv'
    BY <1>1 DEF ContextInv
  <2>3. ForkInv'
    BY <1>1 DEF ForkInv, Forking
  <2>4. StackInv'
    BY <1>1 DEF StackInv, Alive
  <2>5. InitInv'
    BY <1>1 DEF InitInv, Alive
  <2>6. LiveParent'
    BY <1>1 DEF LiveParent, Alive
  <2> QED
    BY <2>1, <2>2, <2>3, <2>4, <2>5, <2>6
<1>3. SleepInv'
  <2>1. SpinInv'
    BY <1>1 DEF SpinInv
  <2>2. DozeInv'
    BY <1>1 DEF DozeInv
  <2>3. NoLostWakeup'
    BY <1>1 DEF NoLostWakeup
  <2>4. SleepLockMutex'
    BY <1>1 DEF SleepLockMutex
  <2>5. WaitNotMissed'
    BY <1>1 DEF WaitNotMissed, HasZombieChild
  <2>6. SchedNeverPanics'
    BY <1>1 DEF SchedNeverPanics
  <2> QED
    BY <2>1, <2>2, <2>3, <2>4, <2>5, <2>6
<1> QED
  BY <1>1, <1>2, <1>3

(* scheduler() releases ptable.lock after a round.                         *)
LEMMA SchedReleaseIInv ==
  ASSUME IInv, NEW c \in CPUs,
         SchedRelease(c)
  PROVE  IInv'
<1> USE DEF SchedRelease
<1>1. TypeOK'
  OBVIOUS
<1>2. TableInv'
  <2>1. CPUInv'
    BY <1>1 DEF CPUInv
  <2>2. ContextInv'
    BY <1>1 DEF ContextInv
  <2>3. ForkInv'
    BY <1>1 DEF ForkInv, Forking
  <2>4. StackInv'
    BY <1>1 DEF StackInv, Alive
  <2>5. InitInv'
    BY <1>1 DEF InitInv, Alive
  <2>6. LiveParent'
    BY <1>1 DEF LiveParent, Alive
  <2> QED
    BY <2>1, <2>2, <2>3, <2>4, <2>5, <2>6
<1>3. SleepInv'
  <2>1. SpinInv'
    BY <1>1 DEF SpinInv
  <2>2. DozeInv'
    BY <1>1 DEF DozeInv
  <2>3. NoLostWakeup'
    BY <1>1 DEF NoLostWakeup
  <2>4. SleepLockMutex'
    BY <1>1 DEF SleepLockMutex
  <2>5. WaitNotMissed'
    BY <1>1 DEF WaitNotMissed, HasZombieChild
  <2>6. SchedNeverPanics'
    BY <1>1 DEF SchedNeverPanics
  <2> QED
    BY <2>1, <2>2, <2>3, <2>4, <2>5, <2>6
<1> QED
  BY <1>1, <1>2, <1>3

(* init exits, and the kernel panics.                                      *)
LEMMA InitExitIInv ==
  ASSUME IInv, NEW c \in CPUs,
         InitExit(c)
  PROVE  IInv'
<1> USE DEF InitExit
<1>1. TypeOK'
  OBVIOUS
<1>2. TableInv'
  <2>1. CPUInv'
    BY <1>1 DEF CPUInv
  <2>2. ContextInv'
    BY <1>1 DEF ContextInv
  <2>3. ForkInv'
    BY <1>1 DEF ForkInv, Forking
  <2>4. StackInv'
    BY <1>1 DEF StackInv, Alive
  <2>5. InitInv'
    BY <1>1 DEF InitInv, Alive
  <2>6. LiveParent'
    BY <1>1 DEF LiveParent, Alive
  <2> QED
    BY <2>1, <2>2, <2>3, <2>4, <2>5, <2>6
<1>3. SleepInv'
  <2>1. SpinInv'
    BY <1>1 DEF SpinInv
  <2>2. DozeInv'
    BY <1>1 DEF DozeInv
  <2>3. NoLostWakeup'
    BY <1>1 DEF NoLostWakeup
  <2>4. SleepLockMutex'
    BY <1>1 DEF SleepLockMutex
  <2>5. WaitNotMissed'
    BY <1>1 DEF WaitNotMissed, HasZombieChild
  <2>6. SchedNeverPanics'
    BY <1>1 DEF SchedNeverPanics
  <2> QED
    BY <2>1, <2>2, <2>3, <2>4, <2>5, <2>6
<1> QED
  BY <1>1, <1>2, <1>3

(* scheduler() switches to a process.                                      *)
LEMMA SchedSwitchIInv ==
  ASSUME IInv, NEW c \in CPUs, NEW p \in Procs,
         SchedSwitch(c, p)
  PROVE  IInv'
<1> USE DEF SchedSwitch
<1>1. TypeOK'
  OBVIOUS
<1>2. TableInv'
  <2>1. CPUInv'
    BY <1>1 DEF CPUInv
  <2>2. ContextInv'
    BY <1>1 DEF ContextInv
  <2>3. ForkInv'
    BY <1>1 DEF ForkInv, Forking
  <2>4. StackInv'
    BY <1>1 DEF StackInv, Alive
  <2>5. InitInv'
    BY <1>1 DEF InitInv, Alive
  <2>6. LiveParent'
    BY <1>1 DEF LiveParent, Alive
  <2> QED
    BY <2>1, <2>2, <2>3, <2>4, <2>5, <2>6
<1>3. SleepInv'
  <2>1. SpinInv'
    BY <1>1 DEF SpinInv, ContextInv
  <2>2. DozeInv'
    BY <1>1 DEF DozeInv
  <2>3. NoLostWakeup'
    BY <1>1 DEF NoLostWakeup
  <2>4. SleepLockMutex'
    BY <1>1 DEF SleepLockMutex
  <2>5. WaitNotMissed'
    BY <1>1 DEF WaitNotMissed, HasZombieChild
  <2>6. SchedNeverPanics'
    BY <1>1 DEF SchedNeverPanics
  <2> QED
    BY <2>1, <2>2, <2>3, <2>4, <2>5, <2>6
<1> QED
  BY <1>1, <1>2, <1>3

(* sched() switches to the scheduler.                                      *)
LEMMA SchedIInv ==
  ASSUME IInv, NEW c \in CPUs, NEW p \in Procs,
         Sched(c, p)
  PROVE  IInv'
<1> USE DEF Sched
<1>1. TypeOK'
  <2>1. CASE ptlock = c /\ sl.lk # c
    BY <2>1
  <2>2. CASE ~(ptlock = c /\ sl.lk # c)
    BY <2>2
  <2> QED
    BY <2>1, <2>2
<1>2. TableInv'
  <2>1. CPUInv'
    BY <1>1 DEF CPUInv
  <2>2. ContextInv'
    BY <1>1 DEF ContextInv
  <2>3. ForkInv'
    BY <1>1 DEF ForkInv, Forking
  <2>4. StackInv'
    BY <1>1 DEF StackInv, Alive
  <2>5. InitInv'
    BY <1>1 DEF InitInv, Alive
  <2>6. LiveParent'
    BY <1>1 DEF LiveParent, Alive
  <2> QED
    BY <2>1, <2>2, <2>3, <2>4, <2>5, <2>6
<1>3. SleepInv'
  <2>1. SpinInv'
    BY <1>1 DEF SpinInv, CPUInv, ContextInv
  <2>2. DozeInv'
    BY <1>1 DEF DozeInv, CPUInv, ContextInv
  <2>3. NoLostWakeup'
    BY <1>1 DEF NoLostWakeup, DozeInv, CPUInv, ContextInv
  <2>4. SleepLockMutex'
    BY <1>1 DEF SleepLockMutex, ContextInv
  <2>5. WaitNotMissed'
    BY <1>1 DEF WaitNotMissed, HasZombieChild, NoChan
  <2>6. SchedNeverPanics'
    <3>1. ptlock = c
      BY DEF CPUInv
    <3>2. sl.lk # c
      BY DEF SpinInv, ContextInv, CPUInv
    <3> QED
      BY <3>1, <3>2 DEF SchedNeverPanics
  <2> QED
    BY <2>1, <2>2, <2>3, <2>4, <2>5, <2>6
<1> QED
  BY <1>1, <1>2, <1>3

(* A process goes on after sched(), or returns from fork().                *)
LEMMA ResumeIInv ==
  ASSUME IInv, NEW c \in CPUs, NEW p \in Procs,
         Resume(c, p)
  PROVE  IInv'
<1> USE DEF Resume
<1>1. TypeOK'
  OBVIOUS
<1>2. TableInv'
  <2>1. CPUInv'
    BY <1>1 DEF CPUInv
  <2>2. ContextInv'
    BY <1>1 DEF ContextInv
  <2>3. ForkInv'
    BY <1>1 DEF ForkInv, Forking
  <2>4. StackInv'
    BY <1>1 DEF StackInv, Alive
  <2>5. InitInv'
    BY <1>1 DEF InitInv, Alive
  <2>6. LiveParent'
    BY <1>1 DEF LiveParent, Alive
  <2> QED
    BY <2>1, <2>2, <2>3, <2>4, <2>5, <2>6
<1>3. SleepInv'
  <2>1. SpinInv'
    BY <1>1 DEF SpinInv
  <2>2. DozeInv'
    BY <1>1 DEF DozeInv
  <2>3. NoLostWakeup'
    BY <1>1 DEF NoLostWakeup
  <2>4. SleepLockMutex'
    BY <1>1 DEF SleepLockMutex
  <2>5. WaitNotMissed'
    BY <1>1 DEF WaitNotMissed, HasZombieChild
  <2>6. SchedNeverPanics'
    BY <1>1 DEF SchedNeverPanics
  <2> QED
    BY <2>1, <2>2, <2>3, <2>4, <2>5, <2>6
<1> QED
  BY <1>1, <1>2, <1>3

(* yield() gives up the CPU.                                               *)
LEMMA YieldIInv ==
  ASSUME IInv, NEW c \in CPUs, NEW p \in Procs,
         Yield(c, p)
  PROVE  IInv'
<1> USE DEF Yield
<1>1. TypeOK'
  OBVIOUS
<1>2. TableInv'
  <2>1. CPUInv'
    BY <1>1 DEF CPUInv
  <2>2. ContextInv'
    BY <1>1 DEF ContextInv
  <2>3. ForkInv'
    BY <1>1 DEF ForkInv, Forking
  <2>4. StackInv'
    BY <1>1 DEF StackInv, Alive
  <2>5. InitInv'
    BY <1>1 DEF InitInv, Alive
  <2>6. LiveParent'
    BY <1>1 DEF LiveParent, Alive
  <2> QED
    BY <2>1, <2>2, <2>3, <2>4, <2>5, <2>6
<1>3. SleepInv'
  <2>1. SpinInv'
    BY <1>1 DEF SpinInv
  <2>2. DozeInv'
    BY <1>1 DEF DozeInv
  <2>3. NoLostWakeup'
    BY <1>1 DEF NoLostWakeup
  <2>4. SleepLockMutex'
    BY <1>1 DEF SleepLockMutex
  <2>5. WaitNotMissed'
    BY <1>1 DEF WaitNotMissed, HasZombieChild
  <2>6. SchedNeverPanics'
    BY <1>1 DEF SchedNeverPanics
  <2> QED
    BY <2>1, <2>2, <2>3, <2>4, <2>5, <2>6
<1> QED
  BY <1>1, <1>2, <1>3

(* fork() gives the slot back when memory runs out.                        *)
LEMMA ForkFailIInv ==
  ASSUME IInv, NEW c \in CPUs, NEW p \in Procs,
         ForkFail(c, p)
  PROVE  IInv'
<1> USE DEF ForkFail
<1>1. TypeOK'
  BY DEF ForkInv, Forking
<1>2. TableInv'
  <2>1. CPUInv'
    BY <1>1 DEF CPUInv, ForkInv, Forking
  <2>2. ContextInv'
    BY <1>1 DEF ContextInv, ForkInv, Forking
  <2>3. ForkInv'
    BY <1>1 DEF ForkInv, Forking
  <2>4. StackInv'
    BY <1>1 DEF StackInv, Alive
  <2>5. InitInv'
    BY <1>1 DEF InitInv, Alive, ForkInv, Forking
  <2>6. LiveParent'
    BY <1>1 DEF LiveParent, Alive, ForkInv, Forking
  <2> QED
    BY <2>1, <2>2, <2>3, <2>4, <2>5, <2>6
<1>3. SleepInv'
  <2>1. SpinInv'
    BY <1>1 DEF SpinInv
  <2>2. DozeInv'
    BY <1>1 DEF DozeInv
  <2>3. NoLostWakeup'
    BY <1>1 DEF NoLostWakeup
  <2>4. SleepLockMutex'
    BY <1>1 DEF SleepLockMutex
  <2>5. WaitNotMissed'
    BY <1>1 DEF WaitNotMissed, HasZombieChild
  <2>6. SchedNeverPanics'
    BY <1>1 DEF SchedNeverPanics
  <2> QED
    BY <2>1, <2>2, <2>3, <2>4, <2>5, <2>6
<1> QED
  BY <1>1, <1>2, <1>3

(* fork() takes a slot for the child.                                      *)
LEMMA ForkCopyIInv ==
  ASSUME IInv, NEW c \in CPUs, NEW p \in Procs,
         ForkCopy(c, p)
  PROVE  IInv'
<1>0. PICK n \in Procs : n = np[p]
  BY DEF ForkInv, Forking, ForkCopy
<1>1. /\ n # p /\ state[n] = "EMBRYO" /\ pc[n] = "user" /\ pc[p] = "fork"
      /\ curr[c] = p /\ state[p] = "RUNNING" /\ ctx[p] = "none"
  BY <1>0 DEF ForkCopy, ForkInv, Forking, ContextInv
<1>2. TypeOK'
  BY <1>0 DEF ForkCopy
<1>3. /\ kstack' = kstack \cup {n}
      /\ UNCHANGED <<state, pid, killed, chan, nextpid, ptlock, curr, scan, np, sl, panicked>>
  BY <1>0 DEF ForkCopy
<1>4. pc'[p] = "publish" /\ \A r \in Procs : r # p => pc'[r] = pc[r]
  BY <1>0, <1>1 DEF ForkCopy
<1>5. ctx'[n] = "forkret" /\ \A r \in Procs : r # n => ctx'[r] = ctx[r]
  BY <1>0, <1>1 DEF ForkCopy
<1>6. parent'[n] = p /\ \A r \in Procs : r # n => parent'[r] = parent[r]
  BY <1>0, <1>1 DEF ForkCopy
<1>7. TableInv'
  <2>1. CPUInv'
    BY <1>1, <1>3, <1>4, <1>5 DEF CPUInv
  <2>2. ContextInv'
    BY <1>1, <1>3, <1>4, <1>5 DEF ContextInv
  <2>3. ForkInv'
    <3>1. \A r \in Procs : Forking(r)' <=> Forking(r)
      BY <1>1, <1>4 DEF Forking
    <3>2. \A r \in Procs : Forking(r) =>
            np[r] \in Procs /\ state[np[r]] = "EMBRYO" /\ (r # p => np[r] # n)
      BY <1>0, <1>1 DEF ForkInv, Forking
    <3>3. \A r \in Procs : pc'[r] = "fork" => parent'[np[r]] = 0 /\ ctx'[np[r]] = "none"
      <4> SUFFICES ASSUME NEW r \in Procs, pc'[r] = "fork"
                   PROVE  parent'[np[r]] = 0 /\ ctx'[np[r]] = "none"
        OBVIOUS
      <4>1. r # p /\ pc[r] = "fork"
        BY <1>4
      <4>2. PICK m \in Procs : m = np[r] /\ m # n
        BY <3>2, <4>1 DEF Forking
      <4>3. parent[m] = 0 /\ ctx[m] = "none"
        BY <4>1, <4>2 DEF ForkInv
      <4> QED
        BY <1>5, <1>6, <4>2, <4>3
    <3>4. \A r \in Procs : pc'[r] = "publish" =>
            parent'[np[r]] = r /\ np[r] \in kstack' /\ ctx'[np[r]] = "forkret"
      <4> SUFFICES ASSUME NEW r \in Procs, pc'[r] = "publish"
                   PROVE  parent'[np[r]] = r /\ np[r] \in kstack' /\ ctx'[np[r]] = "forkret"
        OBVIOUS
      <4>1. CASE r = p
        BY <1>0, <1>3, <1>5, <1>6, <4>1
      <4>2. CASE r # p
        <5>1. pc[r] = "publish"
          BY <1>4, <4>2
        <5>2. PICK m \in Procs : m = np[r] /\ m # n
          BY <3>2, <4>2, <5>1 DEF Forking
        <5>3. parent[m] = r /\ m \in kstack /\ ctx[m] = "forkret"
          BY <5>1, <5>2 DEF ForkInv
        <5> QED
          BY <1>3, <1>5, <1>6, <5>2, <5>3
      <4> QED
        BY <4>1, <4>2
    <3>5. \A r \in Procs : parent'[r] # r /\ (state[r] = "UNUSED" => parent'[r] = 0)
      BY <1>1, <1>6 DEF ForkInv
    <3>6. \A r, q \in Procs : Forking(r) /\ Forking(q) /\ np[r] = np[q] => r = q
      BY DEF ForkInv
    <3> QED
      BY <1>3, <3>1, <3>2, <3>3, <3>4, <3>5, <3>6 DEF ForkInv
  <2>4. StackInv'
    BY <1>3 DEF StackInv, Alive
  <2>5. InitInv'
    BY <1>1, <1>3, <1>6 DEF InitInv, Alive
  <2>6. LiveParent'
    BY <1>1, <1>3, <1>6 DEF LiveParent, Alive
  <2> QED
    BY <2>1, <2>2, <2>3, <2>4, <2>5, <2>6
<1>8. SleepInv'
  <2>1. SpinInv'
    <3>1. \A r \in Procs : pc[r] \in {"test", "wake"} <=> pc'[r] \in {"test", "wake"}
      BY <1>1, <1>4
    <3>2. \A r \in Procs : pc[r] \in {"test", "wake"} => ctx'[r] = ctx[r]
      BY <1>1, <1>5
    <3> QED
      BY <1>3, <3>1, <3>2 DEF SpinInv
  <2>2. DozeInv'
    BY <1>1, <1>3, <1>4, <1>5 DEF DozeInv
  <2>3. NoLostWakeup'
    BY <1>1, <1>3, <1>4 DEF NoLostWakeup
  <2>4. SleepLockMutex'
    BY <1>1, <1>3, <1>4 DEF SleepLockMutex
  <2>5. WaitNotMissed'
    <3>1. \A q, r \in Procs : parent[q] = r => q # n \/ r = p
      BY <1>0, <1>1, ProcsFact DEF ForkInv
    <3> QED
      BY <1>1, <1>3, <1>6, <3>1 DEF WaitNotMissed, HasZombieChild
  <2>6. SchedNeverPanics'
    BY <1>3 DEF SchedNeverPanics
  <2> QED
    BY <2>1, <2>2, <2>3, <2>4, <2>5, <2>6
<1> QED
  BY <1>2, <1>7, <1>8

(* fork() makes the child runnable.                                        *)
LEMMA ForkPublishIInv ==
  ASSUME IInv, NEW c \in CPUs, NEW p \in Procs,
         ForkPublish(c, p)
  PROVE  IInv'
<1> USE DEF ForkPublish
<1>1. TypeOK'
  BY DEF ForkInv, Forking
<1>2. TableInv'
  <2>0. PICK n \in Procs : /\ n # p /\ state[n] = "EMBRYO" /\ pc[n] = "user" /\ ctx[n] = "forkret"
                           /\ state'[n] = "RUNNABLE" /\ pc'[p] = "user"
                           /\ state[p] = "RUNNING" /\ ctx[p] = "none"
                           /\ \A r \in Procs : r # n => state'[r] = state[r]
                           /\ \A r \in Procs : r # p => pc'[r] = pc[r]
                           /\ UNCHANGED <<ctx, curr, ptlock>>
    <3>1. np[p] \in Procs /\ state[np[p]] = "EMBRYO" /\ ctx[np[p]] = "forkret"
      BY DEF ForkInv, Forking
    <3>2. np[p] # p /\ pc[np[p]] = "user"
      BY <3>1 DEF ContextInv
    <3> QED
      BY <3>1, <3>2
  <2>1. CPUInv'
    <3> HIDE DEF ForkPublish
    <3> QED
      BY <2>0 DEF CPUInv
  <2>2. ContextInv'
    <3> HIDE DEF ForkPublish
    <3> QED
      BY <2>0 DEF ContextInv
  <2>3. ForkInv'
    BY <1>1 DEF ForkInv, Forking
  <2>4. StackInv'
    BY <1>1 DEF StackInv, Alive, ForkInv, Forking
  <2>5. InitInv'
    BY <1>1 DEF InitInv, Alive
  <2>6. LiveParent'
    BY <1>1 DEF LiveParent, Alive, ForkInv, Forking
  <2> QED
    BY <2>1, <2>2, <2>3, <2>4, <2>5, <2>6
<1>3. SleepInv'
  <2>1. SpinInv'
    BY <1>1 DEF SpinInv
  <2>2. DozeInv'
    BY <1>1 DEF DozeInv
  <2>3. NoLostWakeup'
    BY <1>1 DEF NoLostWakeup
  <2>4. SleepLockMutex'
    BY <1>1 DEF SleepLockMutex
  <2>5. WaitNotMissed'
    BY <1>1 DEF WaitNotMissed, HasZombieChild
  <2>6. SchedNeverPanics'
    BY <1>1 DEF SchedNeverPanics
  <2> QED
    BY <2>1, <2>2, <2>3, <2>4, <2>5, <2>6
<1> QED
  BY <1>1, <1>2, <1>3

(* exit() hands its children to init and becomes a zombie.                 *)
LEMMA ExitIInv ==
  ASSUME IInv, NEW c \in CPUs, NEW p \in Procs,
         Exit(c, p)
  PROVE  IInv'
<1> USE DEF Exit
<1>1. TypeOK'
  OBVIOUS
<1>0. /\ p # initproc /\ curr[c] = p /\ state[p] = "RUNNING" /\ ctx[p] = "none" /\ pc[p] = "user"
      /\ ptlock = NoCPU /\ ptlock' = c /\ state'[p] = "ZOMBIE" /\ ctx'[p] = "exit"
      /\ UNCHANGED <<curr, pc, np, kstack>>
  OBVIOUS
<1>s. \A r \in Procs : r # p =>
        \/ state'[r] = state[r]
        \/ state[r] = "SLEEPING" /\ state'[r] = "RUNNABLE"
  OBVIOUS
<1>c. \A r \in Procs : r # p => ctx'[r] = ctx[r]
  OBVIOUS
<1>p. \A r \in Procs : parent'[r] = IF parent[r] = p THEN initproc ELSE parent[r]
  OBVIOUS
<1>2. TableInv'
  <2>1. CPUInv'
    <3> HIDE DEF Exit
    <3>1. \A q \in Procs : state'[q] = "RUNNING" => state[q] = "RUNNING"
      BY <1>0, <1>s
    <3>2. \A d \in CPUs : \A q \in Procs : curr[d] = q /\ q # p => state[q] = "RUNNING"
      BY <1>0 DEF CPUInv
    <3>3. \A d \in CPUs : \A q \in Procs : curr[d] = q /\ q # p =>
            ctx[q] = "none" /\ pc[q] \notin {"wait", "doze"}
      BY <1>0 DEF CPUInv
    <3>4. \A d \in CPUs : curr[d] = p => d = c
      BY <1>0 DEF CPUInv
    <3>5. \A d, e \in CPUs : curr'[d] # 0 /\ curr'[d] = curr'[e] => d = e
      BY <1>0 DEF CPUInv
    <3>6. \A q \in Procs : state'[q] = "RUNNING" => \E d \in CPUs : curr'[d] = q
      BY <1>0, <3>1 DEF CPUInv
    <3>7. \A d \in CPUs : \A q \in Procs : curr'[d] = q =>
            \/ state'[q] = "RUNNING"
            \/ state'[q] \in {"RUNNABLE", "SLEEPING", "ZOMBIE"} /\ ptlock' = d
      BY <1>0, <1>s, <3>2, <3>4
    <3>8. \A d \in CPUs : \A q \in Procs :
            curr'[d] = q /\ (ctx'[q] # "none" \/ pc'[q] \in {"wait", "doze"}) => ptlock' = d
      BY <1>0, <1>c, <3>3, <3>4
    <3> QED
      BY <3>5, <3>6, <3>7, <3>8 DEF CPUInv
  <2>2. ContextInv'
    <3> HIDE DEF Exit
    <3> QED
      BY <1>0, <1>s, <1>c DEF ContextInv
  <2>3. ForkInv'
    <3> HIDE DEF Exit
    <3>1. \A r \in Procs : Forking(r) =>
            np[r] \in Procs /\ np[r] # p /\ state[np[r]] = "EMBRYO" /\ state'[np[r]] = "EMBRYO"
            /\ ctx'[np[r]] = ctx[np[r]]
      <4> SUFFICES ASSUME NEW r \in Procs, Forking(r)
                   PROVE  /\ np[r] \in Procs /\ np[r] # p /\ state[np[r]] = "EMBRYO"
                          /\ state'[np[r]] = "EMBRYO" /\ ctx'[np[r]] = ctx[np[r]]
        OBVIOUS
      <4>1. PICK m \in Procs : m = np[r] /\ state[m] = "EMBRYO"
        BY DEF ForkInv
      <4>2. m # p
        BY <1>0, <4>1
      <4> QED
        BY <1>s, <1>c, <4>1, <4>2
    <3>2. \A r \in Procs : pc[r] = "fork" => parent'[np[r]] = 0 /\ ctx'[np[r]] = "none"
      <4> SUFFICES ASSUME NEW r \in Procs, pc[r] = "fork"
                   PROVE  parent'[np[r]] = 0 /\ ctx'[np[r]] = "none"
        OBVIOUS
      <4>1. PICK m \in Procs : m = np[r] /\ ctx'[m] = ctx[m]
        BY <3>1 DEF Forking
      <4>2. parent[m] = 0 /\ ctx[m] = "none"
        BY <4>1 DEF ForkInv
      <4> QED
        BY <1>p, <4>1, <4>2, ProcsFact
    <3>3. \A r \in Procs : pc[r] = "publish" =>
            parent'[np[r]] = r /\ np[r] \in kstack /\ ctx'[np[r]] = "forkret"
      <4> SUFFICES ASSUME NEW r \in Procs, pc[r] = "publish"
                   PROVE  parent'[np[r]] = r /\ np[r] \in kstack /\ ctx'[np[r]] = "forkret"
        OBVIOUS
      <4>1. PICK m \in Procs : m = np[r] /\ ctx'[m] = ctx[m]
        BY <3>1 DEF Forking
      <4>2. parent[m] = r /\ m \in kstack /\ ctx[m] = "forkret"
        BY <4>1 DEF ForkInv
      <4>3. r # p
        BY <1>0
      <4> QED
        BY <1>p, <4>1, <4>2, <4>3
    <3>4. \A r \in Procs : parent'[r] # r
      BY <1>0, <1>p DEF ForkInv, InitInv
    <3>5. \A r \in Procs : state'[r] = "UNUSED" => parent'[r] = 0
      BY <1>0, <1>s, <1>p, ProcsFact DEF ForkInv
    <3>6. \A r, s \in Procs : Forking(r) /\ Forking(s) /\ np[r] = np[s] => r = s
      BY DEF ForkInv
    <3>7. \A r \in Procs : Forking(r)' <=> Forking(r)
      BY <1>0 DEF Forking
    <3> QED
      BY <1>0, <3>1, <3>2, <3>3, <3>4, <3>5, <3>6, <3>7 DEF ForkInv
  <2>4. StackInv'
    <3> HIDE DEF Exit
    <3> QED
      BY <1>0, <1>s DEF StackInv, Alive
  <2>5. InitInv'
    <3> HIDE DEF Exit
    <3> QED
      BY <1>0, <1>s, <1>p, ProcsFact DEF InitInv, Alive
  <2>6. LiveParent'
    <3>1. \A r \in Procs \ {p} : Alive(r) => Alive(r)'
      BY DEF Alive
    <3>2. \A r \in Procs \ {p} : (Alive(r) \/ state[r] = "ZOMBIE")'
                                => Alive(r) \/ state[r] = "ZOMBIE"
      BY DEF Alive
    <3>3. Alive(p) /\ Alive(initproc)'
      BY <3>1 DEF InitInv, Alive
    <3>4. \A r \in Procs : parent'[r] # p
      OBVIOUS
    <3>5. \A r \in Procs : parent'[r] = parent[r] \/ parent'[r] = initproc
      OBVIOUS
    <3> HIDE DEF Exit
    <3> SUFFICES ASSUME NEW r \in Procs, r # initproc,
                        (Alive(r) \/ state[r] = "ZOMBIE")'
                 PROVE  (parent[r] \in Procs /\ Alive(parent[r]))'
      BY DEF LiveParent
    <3>6. parent[r] \in Procs /\ Alive(parent[r])
      BY <3>2, <3>3 DEF LiveParent
    <3>7. CASE parent'[r] = initproc
      BY <3>3, <3>7 DEF Alive
    <3>8. CASE parent'[r] = parent[r]
      BY <3>1, <3>4, <3>6, <3>8 DEF Alive
    <3> QED
      BY <3>5, <3>7, <3>8
  <2> QED
    BY <2>1, <2>2, <2>3, <2>4, <2>5, <2>6
<1>3. SleepInv'
  <2>0. /\ pid' = pid /\ chan' = chan /\ curr' = curr /\ pc' = pc /\ sl' = sl
        /\ \A r \in Procs : ctx'[r] = "none" => ctx[r] = "none"
        /\ \A r \in Procs : ctx'[r] = ctx[r] \/ pc[r] = "user"
        /\ \A r \in Procs : state'[r] = "SLEEPING" => state[r] = "SLEEPING"
    OBVIOUS
  <2>1. SpinInv'
    <3> HIDE DEF Exit
    <3> QED
      BY <2>0 DEF SpinInv
  <2>2. DozeInv'
    <3> HIDE DEF Exit
    <3> QED
      BY <2>0 DEF DozeInv
  <2>3. NoLostWakeup'
    <3> HIDE DEF Exit
    <3> QED
      BY <2>0 DEF NoLostWakeup
  <2>4. SleepLockMutex'
    <3> HIDE DEF Exit
    <3> QED
      BY <2>0 DEF SleepLockMutex
  <2>5. WaitNotMissed'
    <3> SUFFICES ASSUME NEW r \in Procs, state'[r] = "SLEEPING", chan[r] = r
                 PROVE  /\ \E q \in Procs : parent'[q] = r
                        /\ ~HasZombieChild(r)'
                        /\ r \notin killed
      BY DEF WaitNotMissed
    <3>1. state[r] = "SLEEPING" /\ r # p /\ r # parent[p]
      OBVIOUS
    <3>2. \E q \in Procs : parent[q] = r /\ parent'[q] = r
      BY <3>1 DEF WaitNotMissed
    <3>3. ASSUME NEW q \in Procs, parent'[q] = r, state'[q] = "ZOMBIE"
          PROVE  FALSE
      <4>0. q # p /\ state[q] = "ZOMBIE" /\ (parent[q] = r \/ parent[q] = p)
        <5>1. q # p
          BY <3>1, <3>3, <1>p DEF ForkInv
        <5> HIDE DEF Exit
        <5> QED
          BY <1>p, <1>s, <3>3, <5>1
      <4>1. CASE parent[q] = r
        <5> HIDE DEF Exit
        <5> QED
          BY <3>1, <4>0, <4>1 DEF WaitNotMissed, HasZombieChild
      <4>2. CASE parent[q] = p
        <5>1. r = initproc
          BY <1>p, <3>1, <3>3, <4>2
        <5>2. HasZombieChild(p)
          BY <4>0, <4>2 DEF HasZombieChild
        <5> QED
          BY <3>1, <5>1, <5>2
      <4> QED
        BY <4>0, <4>1, <4>2
    <3> QED
      BY <3>1, <3>2, <3>3 DEF WaitNotMissed, HasZombieChild
  <2>6. SchedNeverPanics'
    BY <1>1 DEF SchedNeverPanics, CPUInv, SpinInv, ContextInv, InitInv, Alive
  <2> QED
    BY <2>1, <2>2, <2>3, <2>4, <2>5, <2>6
<1> QED
  BY <1>1, <1>2, <1>3
=============================================================================
