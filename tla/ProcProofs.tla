----------------------------- MODULE ProcProofs -----------------------------
(***************************************************************************)
(* The remaining actions of Proc preserve IInv (ProcInvariant), and the    *)
(* theorems that follow from it.                                           *)
(***************************************************************************)
EXTENDS ProcInvariant

USE ProcsFact DEF IInv, TableInv, SleepInv, TypeOK, States, Places, Contexts,
    table, Running, InUser, InWait, Wakeup1

(* wait(), sleep locks, allocproc() and kill() preserve the invariant. *)
LEMMA WaitEnterIInv ==
  ASSUME IInv, NEW c \in CPUs, NEW p \in Procs,
         WaitEnter(c, p)
  PROVE  IInv'
<1> USE DEF WaitEnter
<1>1. TypeOK'
  OBVIOUS
<1>2. TableInv'
  <2>1. CPUInv'
    BY <1>1 DEF CPUInv
  <2>2. ContextInv'
    BY <1>1 DEF ContextInv
  <2>3. ForkInv'
    BY <1>1 DEF ForkInv, Forking
  <2>4. StackInv'
    BY <1>1 DEF StackInv, Alive
  <2>5. InitInv'
    BY <1>1 DEF InitInv, Alive
  <2>6. LiveParent'
    BY <1>1 DEF LiveParent, Alive
  <2> QED
    BY <2>1, <2>2, <2>3, <2>4, <2>5, <2>6
<1>3. SleepInv'
  <2>1. SpinInv'
    BY <1>1 DEF SpinInv
  <2>2. DozeInv'
    BY <1>1 DEF DozeInv
  <2>3. NoLostWakeup'
    BY <1>1 DEF NoLostWakeup
  <2>4. SleepLockMutex'
    BY <1>1 DEF SleepLockMutex
  <2>5. WaitNotMissed'
    BY <1>1 DEF WaitNotMissed, HasZombieChild
  <2>6. SchedNeverPanics'
    BY <1>1 DEF SchedNeverPanics
  <2> QED
    BY <2>1, <2>2, <2>3, <2>4, <2>5, <2>6
<1> QED
  BY <1>1, <1>2, <1>3

(* wait() returns: there is no child, or the caller was killed.            *)
LEMMA WaitFailIInv ==
  ASSUME IInv, NEW c \in CPUs, NEW p \in Procs,
         WaitFail(c, p)
  PROVE  IInv'
<1> USE DEF WaitFail
<1>1. TypeOK'
  OBVIOUS
<1>2. TableInv'
  <2>1. CPUInv'
    BY <1>1 DEF CPUInv
  <2>2. ContextInv'
    BY <1>1 DEF ContextInv
  <2>3. ForkInv'
    BY <1>1 DEF ForkInv, Forking
  <2>4. StackInv'
    BY <1>1 DEF StackInv, Alive
  <2>5. InitInv'
    BY <1>1 DEF InitInv, Alive
  <2>6. LiveParent'
    BY <1>1 DEF LiveParent, Alive
  <2> QED
    BY <2>1, <2>2, <2>3, <2>4, <2>5, <2>6
<1>3. SleepInv'
  <2>1. SpinInv'
    BY <1>1 DEF SpinInv
  <2>2. DozeInv'
    BY <1>1 DEF DozeInv
  <2>3. NoLostWakeup'
    BY <1>1 DEF NoLostWakeup
  <2>4. SleepLockMutex'
    BY <1>1 DEF SleepLockMutex
  <2>5. WaitNotMissed'
    BY <1>1 DEF WaitNotMissed, HasZombieChild
  <2>6. SchedNeverPanics'
    BY <1>1 DEF SchedNeverPanics
  <2> QED
    BY <2>1, <2>2, <2>3, <2>4, <2>5, <2>6
<1> QED
  BY <1>1, <1>2, <1>3

(* wait() goes to sleep.                                                   *)
LEMMA WaitSleepIInv ==
  ASSUME IInv, NEW c \in CPUs, NEW p \in Procs,
         WaitSleep(c, p)
  PROVE  IInv'
<1> USE DEF WaitSleep
<1>1. TypeOK'
  OBVIOUS
<1>2. TableInv'
  <2>1. CPUInv'
    BY <1>1 DEF CPUInv
  <2>2. ContextInv'
    BY <1>1 DEF ContextInv
  <2>3. ForkInv'
    BY <1>1 DEF ForkInv, Forking
  <2>4. StackInv'
    BY <1>1 DEF StackInv, Alive
  <2>5. InitInv'
    BY <1>1 DEF InitInv, Alive
  <2>6. LiveParent'
    BY <1>1 DEF LiveParent, Alive
  <2> QED
    BY <2>1, <2>2, <2>3, <2>4, <2>5, <2>6
<1>3. SleepInv'
  <2>1. SpinInv'
    BY <1>1 DEF SpinInv
  <2>2. DozeInv'
    BY <1>1 DEF DozeInv
  <2>3. NoLostWakeup'
    BY <1>1 DEF NoLostWakeup
  <2>4. SleepLockMutex'
    BY <1>1 DEF SleepLockMutex
  <2>5. WaitNotMissed'
    BY <1>1 DEF WaitNotMissed, HasZombieChild
  <2>6. SchedNeverPanics'
    BY <1>1 DEF SchedNeverPanics
  <2> QED
    BY <2>1, <2>2, <2>3, <2>4, <2>5, <2>6
<1> QED
  BY <1>1, <1>2, <1>3

(* A process is about to call acquiresleep().                              *)
LEMMA AcquireSleepEnterIInv ==
  ASSUME IInv, NEW c \in CPUs, NEW p \in Procs,
         AcquireSleepEnter(c, p)
  PROVE  IInv'
<1> USE DEF AcquireSleepEnter
<1>1. TypeOK'
  OBVIOUS
<1>2. TableInv'
  <2>1. CPUInv'
    BY <1>1 DEF CPUInv
  <2>2. ContextInv'
    BY <1>1 DEF ContextInv
  <2>3. ForkInv'
    BY <1>1 DEF ForkInv, Forking
  <2>4. StackInv'
    BY <1>1 DEF StackInv, Alive
  <2>5. InitInv'
    BY <1>1 DEF InitInv, Alive
  <2>6. LiveParent'
    BY <1>1 DEF LiveParent, Alive
  <2> QED
    BY <2>1, <2>2, <2>3, <2>4, <2>5, <2>6
<1>3. SleepInv'
  <2>1. SpinInv'
    BY <1>1 DEF SpinInv
  <2>2. DozeInv'
    BY <1>1 DEF DozeInv
  <2>3. NoLostWakeup'
    BY <1>1 DEF NoLostWakeup
  <2>4. SleepLockMutex'
    BY <1>1 DEF SleepLockMutex
  <2>5. WaitNotMissed'
    BY <1>1 DEF WaitNotMissed, HasZombieChild
  <2>6. SchedNeverPanics'
    BY <1>1 DEF SchedNeverPanics
  <2> QED
    BY <2>1, <2>2, <2>3, <2>4, <2>5, <2>6
<1> QED
  BY <1>1, <1>2, <1>3

(* acquiresleep() takes the spin lock of the sleep lock, also after        *)
(* sleep().                                                                *)
LEMMA AcquireSleepLockIInv ==
  ASSUME IInv, NEW c \in CPUs, NEW p \in Procs,
         AcquireSleepLock(c, p)
  PROVE  IInv'
<1> USE DEF AcquireSleepLock
<1>1. TypeOK'
  OBVIOUS
<1>2. TableInv'
  <2>1. CPUInv'
    BY <1>1 DEF CPUInv
  <2>2. ContextInv'
    BY <1>1 DEF ContextInv
  <2>3. ForkInv'
    BY <1>1 DEF ForkInv, Forking
  <2>4. StackInv'
    BY <1>1 DEF StackInv, Alive
  <2>5. InitInv'
    BY <1>1 DEF InitInv, Alive
  <2>6. LiveParent'
    BY <1>1 DEF LiveParent, Alive
  <2> QED
    BY <2>1, <2>2, <2>3, <2>4, <2>5, <2>6
<1>3. SleepInv'
  <2>1. SpinInv'
    BY <1>1 DEF SpinInv, CPUInv
  <2>2. DozeInv'
    BY <1>1 DEF DozeInv
  <2>3. NoLostWakeup'
    BY <1>1 DEF NoLostWakeup
  <2>4. SleepLockMutex'
    BY <1>1 DEF SleepLockMutex
  <2>5. WaitNotMissed'
    BY <1>1 DEF WaitNotMissed, HasZombieChild
  <2>6. SchedNeverPanics'
    BY <1>1 DEF SchedNeverPanics
  <2> QED
    BY <2>1, <2>2, <2>3, <2>4, <2>5, <2>6
<1> QED
  BY <1>1, <1>2, <1>3

(* acquiresleep() takes the lock.                                          *)
LEMMA AcquireSleepTakeIInv ==
  ASSUME IInv, NEW c \in CPUs, NEW p \in Procs,
         AcquireSleepTake(c, p)
  PROVE  IInv'
<1> USE DEF AcquireSleepTake
<1>1. TypeOK'
  <2>1. sl' \in [lk : CPUs \cup {NoCPU}, locked : {0, 1}, pid : Nat]
    OBVIOUS
  <2> QED
    BY <2>1
<1>2. TableInv'
  <2>1. CPUInv'
    BY <1>1 DEF CPUInv
  <2>2. ContextInv'
    BY <1>1 DEF ContextInv
  <2>3. ForkInv'
    BY <1>1 DEF ForkInv, Forking
  <2>4. StackInv'
    BY <1>1 DEF StackInv, Alive
  <2>5. InitInv'
    BY <1>1 DEF InitInv, Alive
  <2>6. LiveParent'
    BY <1>1 DEF LiveParent, Alive
  <2> QED
    BY <2>1, <2>2, <2>3, <2>4, <2>5, <2>6
<1>3. SleepInv'
  <2>1. SpinInv'
    BY <1>1 DEF SpinInv
  <2>2. DozeInv'
    BY <1>1 DEF DozeInv
  <2>3. NoLostWakeup'
    BY <1>1 DEF NoLostWakeup
  <2>4. SleepLockMutex'
    BY <1>1 DEF SleepLockMutex
  <2>5. WaitNotMissed'
    BY <1>1 DEF WaitNotMissed, HasZombieChild
  <2>6. SchedNeverPanics'
    BY <1>1 DEF SchedNeverPanics
  <2> QED
    BY <2>1, <2>2, <2>3, <2>4, <2>5, <2>6
<1> QED
  BY <1>1, <1>2, <1>3

(* sleep() takes ptable.lock and releases the spin lock.                   *)
LEMMA SleepReleaseIInv ==
  ASSUME IInv, NEW c \in CPUs, NEW p \in Procs,
         SleepRelease(c, p)
  PROVE  IInv'
<1> USE DEF SleepRelease
<1>1. TypeOK'
  OBVIOUS
<1>2. TableInv'
  <2>1. CPUInv'
    BY <1>1 DEF CPUInv
  <2>2. ContextInv'
    BY <1>1 DEF ContextInv
  <2>3. ForkInv'
    BY <1>1 DEF ForkInv, Forking
  <2>4. StackInv'
    BY <1>1 DEF StackInv, Alive
  <2>5. InitInv'
    BY <1>1 DEF InitInv, Alive
  <2>6. LiveParent'
    BY <1>1 DEF LiveParent, Alive
  <2> QED
    BY <2>1, <2>2, <2>3, <2>4, <2>5, <2>6
<1>3. SleepInv'
  <2>1. SpinInv'
    BY <1>1 DEF SpinInv
  <2>2. DozeInv'
    BY <1>1 DEF DozeInv
  <2>3. NoLostWakeup'
    BY <1>1 DEF NoLostWakeup
  <2>4. SleepLockMutex'
    BY <1>1 DEF SleepLockMutex
  <2>5. WaitNotMissed'
    BY <1>1 DEF WaitNotMissed, HasZombieChild
  <2>6. SchedNeverPanics'
    BY <1>1 DEF SchedNeverPanics
  <2> QED
    BY <2>1, <2>2, <2>3, <2>4, <2>5, <2>6
<1> QED
  BY <1>1, <1>2, <1>3

(* sleep() marks the process as SLEEPING.                                  *)
LEMMA SleepCommitIInv ==
  ASSUME IInv, NEW c \in CPUs, NEW p \in Procs,
         SleepCommit(c, p)
  PROVE  IInv'
<1> USE DEF SleepCommit
<1>1. TypeOK'
  OBVIOUS
<1>2. TableInv'
  <2>1. CPUInv'
    BY <1>1 DEF CPUInv
  <2>2. ContextInv'
    BY <1>1 DEF ContextInv
  <2>3. ForkInv'
    BY <1>1 DEF ForkInv, Forking
  <2>4. StackInv'
    BY <1>1 DEF StackInv, Alive
  <2>5. InitInv'
    BY <1>1 DEF InitInv, Alive
  <2>6. LiveParent'
    BY <1>1 DEF LiveParent, Alive
  <2> QED
    BY <2>1, <2>2, <2>3, <2>4, <2>5, <2>6
<1>3. SleepInv'
  <2>1. SpinInv'
    BY <1>1 DEF SpinInv
  <2>2. DozeInv'
    BY <1>1 DEF DozeInv
  <2>3. NoLostWakeup'
    BY <1>1 DEF NoLostWakeup, DozeInv
  <2>4. SleepLockMutex'
    BY <1>1 DEF SleepLockMutex
  <2>5. WaitNotMissed'
    BY <1>1 DEF WaitNotMissed, HasZombieChild
  <2>6. SchedNeverPanics'
    BY <1>1 DEF SchedNeverPanics
  <2> QED
    BY <2>1, <2>2, <2>3, <2>4, <2>5, <2>6
<1> QED
  BY <1>1, <1>2, <1>3

(* releasesleep() frees the lock.                                          *)
LEMMA ReleaseSleepIInv ==
  ASSUME IInv, NEW c \in CPUs, NEW p \in Procs,
         ReleaseSleep(c, p)
  PROVE  IInv'
<1> USE DEF ReleaseSleep
<1>1. TypeOK'
  OBVIOUS
<1>2. TableInv'
  <2>1. CPUInv'
    BY <1>1 DEF CPUInv
  <2>2. ContextInv'
    BY <1>1 DEF ContextInv
  <2>3. ForkInv'
    BY <1>1 DEF ForkInv, Forking
  <2>4. StackInv'
    BY <1>1 DEF StackInv, Alive
  <2>5. InitInv'
    BY <1>1 DEF InitInv, Alive
  <2>6. LiveParent'
    BY <1>1 DEF LiveParent, Alive
  <2> QED
    BY <2>1, <2>2, <2>3, <2>4, <2>5, <2>6
<1>3. SleepInv'
  <2>1. SpinInv'
    BY <1>1 DEF SpinInv, CPUInv
  <2>2. DozeInv'
    BY <1>1 DEF DozeInv
  <2>3. NoLostWakeup'
    BY <1>1 DEF NoLostWakeup
  <2>4. SleepLockMutex'
    BY <1>1 DEF SleepLockMutex
  <2>5. WaitNotMissed'
    BY <1>1 DEF WaitNotMissed, HasZombieChild
  <2>6. SchedNeverPanics'
    BY <1>1 DEF SchedNeverPanics
  <2> QED
    BY <2>1, <2>2, <2>3, <2>4, <2>5, <2>6
<1> QED
  BY <1>1, <1>2, <1>3

(* wakeup() makes the sleepers runnable.                                   *)
LEMMA ReleaseSleepWakeupIInv ==
  ASSUME IInv, NEW c \in CPUs, NEW p \in Procs,
         ReleaseSleepWakeup(c, p)
  PROVE  IInv'
<1> USE DEF ReleaseSleepWakeup
<1>1. TypeOK'
  OBVIOUS
<1>2. TableInv'
  <2>1. CPUInv'
    BY <1>1 DEF CPUInv
  <2>2. ContextInv'
    BY <1>1 DEF ContextInv
  <2>3. ForkInv'
    BY <1>1 DEF ForkInv, Forking
  <2>4. StackInv'
    BY <1>1 DEF StackInv, Alive
  <2>5. InitInv'
    BY <1>1 DEF InitInv, Alive
  <2>6. LiveParent'
    BY <1>1 DEF LiveParent, Alive
  <2> QED
    BY <2>1, <2>2, <2>3, <2>4, <2>5, <2>6
<1>3. SleepInv'
  <2>1. SpinInv'
    BY <1>1 DEF SpinInv
  <2>2. DozeInv'
    BY <1>1 DEF DozeInv, CPUInv, ContextInv
  <2>3. NoLostWakeup'
    BY <1>1 DEF NoLostWakeup
  <2>4. SleepLockMutex'
    BY <1>1 DEF SleepLockMutex
  <2>5. WaitNotMissed'
    BY <1>1 DEF WaitNotMissed, HasZombieChild
  <2>6. SchedNeverPanics'
    BY <1>1 DEF SchedNeverPanics
  <2> QED
    BY <2>1, <2>2, <2>3, <2>4, <2>5, <2>6
<1> QED
  BY <1>1, <1>2, <1>3

(* allocproc() takes a free slot.                                          *)
LEMMA AllocProcIInv ==
  ASSUME IInv, NEW c \in CPUs, NEW p \in Procs, NEW q \in Procs,
         AllocProc(c, p, q)
  PROVE  IInv'
<1> USE DEF AllocProc
<1>1. TypeOK'
  OBVIOUS
<1>2. TableInv'
  <2>1. CPUInv'
    BY <1>1 DEF CPUInv
  <2>2. ContextInv'
    BY <1>1 DEF ContextInv
  <2>3. ForkInv'
    BY <1>1 DEF ForkInv, Forking, ContextInv
  <2>4. StackInv'
    BY <1>1 DEF StackInv, Alive
  <2>5. InitInv'
    BY <1>1 DEF InitInv, Alive
  <2>6. LiveParent'
    BY <1>1 DEF LiveParent, Alive
  <2> QED
    BY <2>1, <2>2, <2>3, <2>4, <2>5, <2>6
<1>3. SleepInv'
  <2>1. SpinInv'
    BY <1>1 DEF SpinInv
  <2>2. DozeInv'
    BY <1>1 DEF DozeInv
  <2>3. NoLostWakeup'
    BY <1>1 DEF NoLostWakeup
  <2>4. SleepLockMutex'
    BY <1>1 DEF SleepLockMutex, ContextInv
  <2>5. WaitNotMissed'
    BY <1>1 DEF WaitNotMissed, HasZombieChild
  <2>6. SchedNeverPanics'
    BY <1>1 DEF SchedNeverPanics
  <2> QED
    BY <2>1, <2>2, <2>3, <2>4, <2>5, <2>6
<1> QED
  BY <1>1, <1>2, <1>3

(* wait() frees a zombie.                                                  *)
LEMMA WaitReapIInv ==
  ASSUME IInv, NEW c \in CPUs, NEW p \in Procs, NEW q \in Procs,
         WaitReap(c, p, q)
  PROVE  IInv'
<1> USE DEF WaitReap
<1>1. TypeOK'
  OBVIOUS
<1>2. TableInv'
  <2>1. CPUInv'
    BY <1>1 DEF CPUInv
  <2>2. ContextInv'
    BY <1>1 DEF ContextInv
  <2>3. ForkInv'
    BY <1>1 DEF ForkInv, Forking
  <2>4. StackInv'
    BY <1>1 DEF StackInv, Alive
  <2>5. InitInv'
    BY <1>1 DEF InitInv, Alive
  <2>6. LiveParent'
    BY <1>1 DEF LiveParent, Alive
  <2> QED
    BY <2>1, <2>2, <2>3, <2>4, <2>5, <2>6
<1>3. SleepInv'
  <2>1. SpinInv'
    BY <1>1 DEF SpinInv
  <2>2. DozeInv'
    BY <1>1 DEF DozeInv, ContextInv
  <2>3. NoLostWakeup'
    BY <1>1 DEF NoLostWakeup
  <2>4. SleepLockMutex'
    BY <1>1 DEF SleepLockMutex, ContextInv
  <2>5. WaitNotMissed'
    BY <1>1 DEF WaitNotMissed, HasZombieChild
  <2>6. SchedNeverPanics'
    BY <1>1 DEF SchedNeverPanics, InitInv, Alive
  <2> QED
    BY <2>1, <2>2, <2>3, <2>4, <2>5, <2>6
<1> QED
  BY <1>1, <1>2, <1>3

(* kill() marks a process, and wakes it.                                   *)
LEMMA KillIInv ==
  ASSUME IInv, NEW c \in CPUs, NEW p \in Procs, NEW n \in KillPids, NEW q \in Procs,
         Kill(c, p, n, q)
  PROVE  IInv'
<1> USE DEF Kill
<1>1. TypeOK'
  OBVIOUS
<1>2. TableInv'
  <2>1. CPUInv'
    BY <1>1 DEF CPUInv
  <2>2. ContextInv'
    BY <1>1 DEF ContextInv
  <2>3. ForkInv'
    BY <1>1 DEF ForkInv, Forking
  <2>4. StackInv'
    BY <1>1 DEF StackInv, Alive
  <2>5. InitInv'
    BY <1>1 DEF InitInv, Alive
  <2>6. LiveParent'
    BY <1>1 DEF LiveParent, Alive
  <2> QED
    BY <2>1, <2>2, <2>3, <2>4, <2>5, <2>6
<1>3. SleepInv'
  <2>1. SpinInv'
    BY <1>1 DEF SpinInv
  <2>2. DozeInv'
    BY <1>1 DEF DozeInv
  <2>3. NoLostWakeup'
    BY <1>1 DEF NoLostWakeup
  <2>4. SleepLockMutex'
    BY <1>1 DEF SleepLockMutex
  <2>5. WaitNotMissed'
    BY <1>1 DEF WaitNotMissed, HasZombieChild
  <2>6. SchedNeverPanics'
    BY <1>1 DEF SchedNeverPanics
  <2> QED
    BY <2>1, <2>2, <2>3, <2>4, <2>5, <2>6
<1> QED
  BY <1>1, <1>2, <1>3

(* Every step of the system preserves the invariant. *)
LEMMA NextIInv == IInv /\ [Next]_vars => IInv'
<1> SUFFICES ASSUME IInv, [Next]_vars PROVE IInv'
  OBVIOUS
<1>1. CASE UNCHANGED vars
  <2> USE <1>1 DEF vars
  <2>1. TypeOK'
    OBVIOUS
  <2>2. TableInv'
    <3>1. CPUInv'
      BY DEF CPUInv
    <3>2. ContextInv'
      BY DEF ContextInv
    <3>3. ForkInv'
      BY DEF ForkInv, Forking
    <3>4. StackInv'
      BY DEF StackInv, Alive
    <3>5. InitInv'
      BY DEF InitInv, Alive
    <3>6. LiveParent'
      BY DEF LiveParent, Alive
    <3> QED
      BY <3>1, <3>2, <3>3, <3>4, <3>5, <3>6
  <2>3. SleepInv'
    <3>1. SpinInv'
      BY DEF SpinInv
    <3>2. DozeInv'
      BY DEF DozeInv
    <3>3. NoLostWakeup'
      BY DEF NoLostWakeup
    <3>4. SleepLockMutex'
      BY DEF SleepLockMutex
    <3>5. WaitNotMissed'
      BY DEF WaitNotMissed, HasZombieChild
    <3>6. SchedNeverPanics'
      BY DEF SchedNeverPanics
    <3> QED
      BY <3>1, <3>2, <3>3, <3>4, <3>5, <3>6
  <2> QED
    BY <2>1, <2>2, <2>3
<1>2. CASE Next
  <2> HIDE DEF IInv
  <2> PICK c \in CPUs : Step(c)
    BY <1>2, NextIsStep
  <2> QED
    BY SchedAcquireIInv, SchedReleaseIInv, InitExitIInv, SchedSwitchIInv,
       SchedIInv, ResumeIInv, YieldIInv, ForkFailIInv, ForkCopyIInv,
       ForkPublishIInv, ExitIInv, WaitEnterIInv, WaitFailIInv,
       WaitSleepIInv, AcquireSleepEnterIInv, AcquireSleepLockIInv,
       AcquireSleepTakeIInv, SleepReleaseIInv, SleepCommitIInv,
       ReleaseSleepIInv, ReleaseSleepWakeupIInv, AllocProcIInv,
       WaitReapIInv, KillIInv
       DEF Step
<1> QED
  BY <1>1, <1>2

(* The invariant holds throughout. *)
THEOREM Invariance == Spec => []IInv
BY InitIInv, NextIInv, PTL DEF Spec

(* The table, the locks and the threads keep their types: fork() never      *)
(* indexes the table with a null np.                                        *)
THEOREM TypeCorrect == Spec => []TypeOK
<1>1. IInv => TypeOK
  OBVIOUS
<1> QED
  BY <1>1, Invariance, PTL

(* No kernel stack is used by two CPUs or freed under the CPU that executes *)
(* on it (wait() against exit() and scheduler()), and a process is on a CPU *)
(* exactly when it is RUNNING, up to the window ptable.lock covers.         *)
THEOREM StackSafety == Spec => []OneCPUPerStack
<1>1. IInv => StackSafe
  <2> SUFFICES ASSUME IInv, NEW c \in CPUs, curr[c] # 0
               PROVE  curr[c] \in kstack
    BY DEF StackSafe, CPUInv
  <2>1. curr[c] \in Procs
    OBVIOUS
  <2>2. state[curr[c]] \in {"RUNNING", "RUNNABLE", "SLEEPING", "ZOMBIE"}
    BY <2>1 DEF CPUInv
  <2> QED
    BY <2>1, <2>2 DEF StackInv, Alive
<1>2. IInv => RunningOnCPU
  BY DEF CPUInv, RunningOnCPU
<1>3. IInv => OneCPUPerStack
  BY <1>1, <1>2 DEF OneCPUPerStack
<1> QED
  BY <1>3, Invariance, PTL

(* exit() leaves no process behind whose parent cannot wait() for it. *)
THEOREM NoOrphans == Spec => []LiveParent
<1>1. IInv => LiveParent
  OBVIOUS
<1> QED
  BY <1>1, Invariance, PTL

(* The sleep/wakeup protocol loses no wakeup, neither of wait() (exit() and *)
(* kill() against sleep()) nor of a sleep lock (releasesleep() against      *)
(* acquiresleep()).                                                         *)
THEOREM WakeupsReachSleepers == Spec => []NoMissedWakeup
<1>1. IInv => NoMissedWakeup
  BY DEF NoMissedWakeup
<1> QED
  BY <1>1, Invariance, PTL

(* acquiresleep() and releasesleep() implement mutual exclusion. *)
THEOREM SleepLockSafety == Spec => []SleepLockMutex
<1>1. IInv => SleepLockMutex
  OBVIOUS
<1> QED
  BY <1>1, Invariance, PTL

(* None of the checks at the head of sched() can fail. *)
THEOREM SchedChecksHold == Spec => []SchedNeverPanics
<1>1. IInv => SchedNeverPanics
  OBVIOUS
<1> QED
  BY <1>1, Invariance, PTL

(* A slot follows the life cycle of a process in every step. *)
THEOREM LifeCycleHolds == Spec => LifeCycle
<1>1. IInv /\ [Next]_vars => [LegalMoves]_vars
  <2> DEFINE Legal(r) ==
        state'[r] # state[r] => <<state[r], state'[r]>> \in Moves
  <2> SUFFICES ASSUME IInv, Next, NEW r \in Procs PROVE Legal(r)
    BY DEF vars, LegalMoves
  <2> PICK c \in CPUs : Step(c)
    BY NextIsStep
  <2> USE DEF Moves
  <2>1. CASE SchedAcquire(c) \/ SchedRelease(c) \/ InitExit(c)
    BY <2>1 DEF SchedAcquire, SchedRelease, InitExit
  <2>2. ASSUME NEW p \in Procs,
               SchedSwitch(c, p) \/ Yield(c, p) \/ WaitSleep(c, p) \/ SleepCommit(c, p)
        PROVE  Legal(r)
    BY <2>2 DEF SchedSwitch, Yield, WaitSleep, SleepCommit
  <2>3. ASSUME NEW p \in Procs, ForkFail(c, p) \/ ForkPublish(c, p)
        PROVE  Legal(r)
    BY <2>3 DEF ForkFail, ForkPublish, ForkInv, Forking
  <2>4. ASSUME NEW p \in Procs, Exit(c, p) \/ ReleaseSleepWakeup(c, p)
        PROVE  Legal(r)
    <3>1. CASE Exit(c, p)
      <4>1. r # p /\ state[r] # "SLEEPING" => state'[r] = state[r]
        BY <3>1 DEF Exit
      <4>2. r # p /\ state[r] = "SLEEPING" => state'[r] \in {"SLEEPING", "RUNNABLE"}
        BY <3>1 DEF Exit
      <4>3. r = p => state[r] = "RUNNING" /\ state'[r] = "ZOMBIE"
        BY <3>1 DEF Exit
      <4> QED
        BY <4>1, <4>2, <4>3
    <3>2. CASE ReleaseSleepWakeup(c, p)
      BY <3>2 DEF ReleaseSleepWakeup
    <3> QED
      BY <2>4, <3>1, <3>2
  <2>5. ASSUME NEW p \in Procs, NEW q \in Procs,
               AllocProc(c, p, q) \/ WaitReap(c, p, q)
        PROVE  Legal(r)
    BY <2>5 DEF AllocProc, WaitReap
  <2>6. ASSUME NEW p \in Procs, NEW n \in KillPids, NEW q \in Procs,
               Kill(c, p, n, q)
        PROVE  Legal(r)
    BY <2>6 DEF Kill
  <2>7. ASSUME NEW p \in Procs,
               \/ Sched(c, p) \/ Resume(c, p) \/ ForkCopy(c, p)
               \/ WaitEnter(c, p) \/ WaitFail(c, p) \/ AcquireSleepEnter(c, p)
               \/ AcquireSleepLock(c, p) \/ AcquireSleepTake(c, p)
               \/ SleepRelease(c, p) \/ ReleaseSleep(c, p)
        PROVE  Legal(r)
    BY <2>7 DEF Sched, Resume, ForkCopy, WaitEnter, WaitFail,
         AcquireSleepEnter, AcquireSleepLock, AcquireSleepTake, SleepRelease,
         ReleaseSleep
  <2> HIDE DEF Legal
  <2> QED
    BY <2>1, <2>2, <2>3, <2>4, <2>5, <2>6, <2>7 DEF Step
<1> QED
  BY <1>1, Invariance, PTL DEF Spec, LifeCycle

=============================================================================
