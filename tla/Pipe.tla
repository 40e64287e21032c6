-------------------------------- MODULE Pipe --------------------------------
(***************************************************************************)
(* A pipe (pipe.c) shared by processes that fork, close its ends and are   *)
(* killed.  The file table is abstracted to who has an end open: fileclose *)
(* calls pipeclose() when the last descriptor of an end is closed.         *)
(*                                                                         *)
(* The pipe's lock is held from acquire() to the sleep() or release(); the *)
(* test of p->killed before sleep() and the sleep are separate steps,      *)
(* because kill() takes another lock (ptable.lock) than the pipe's.        *)
(***************************************************************************)
EXTENDS Integers, Sequences

CONSTANTS Procs,      \* processes
          Creator,    \* the one that called pipe()
          Killable,   \* processes that somebody may kill
          NoProc,     \* nobody holds the lock
          PIPESIZE,   \* bytes of the buffer
          UINT,       \* range of an unsigned counter (2^32)
          Bytes,      \* values of a byte
          MaxN        \* bound of the model: bytes per read() or write()

ASSUME PipeAssumption ==
  /\ Creator \in Procs /\ Killable \subseteq Procs /\ NoProc \notin Procs
  /\ PIPESIZE \in Nat \ {0} /\ UINT \in Nat /\ MaxN \in Nat
  /\ UINT % PIPESIZE = 0 /\ PIPESIZE < UINT

VARIABLES lock,       \* holder of p->lock
          nread,      \* p->nread
          nwrite,     \* p->nwrite
          data,       \* p->data
          readopen,   \* p->readopen
          writeopen,  \* p->writeopen
          freed,      \* kfree(p) was called
          ends,       \* ends of the pipe a process has open
          killed,     \* processes with p->killed set
          pc,         \* where a process is
          left        \* n - i: bytes its read() or write() has still to move

pipe == <<nread, nwrite, data, readopen, writeopen, freed>>
vars == <<lock, nread, nwrite, data, readopen, writeopen, freed, ends, killed,
          pc, left>>

(* Values of pc besides unborn and user.  read, write: about to take the    *)
(* lock.  test, loop: in the while loop of piperead() or the for loop of    *)
(* pipewrite().  copy: in the for loop of piperead().  rdoze, wdoze: about  *)
(* to sleep, lock held.  rsleep, wsleep: asleep on &p->nread, &p->nwrite.   *)

(* pipealloc() has just returned to Creator. *)
Init ==
  /\ lock = NoProc
  /\ nread = 0 /\ nwrite = 0
  /\ data \in {[k \in 0..(PIPESIZE - 1) |-> b] : b \in Bytes}
  /\ readopen = 1 /\ writeopen = 1 /\ freed = 0
  /\ ends = [p \in Procs |-> IF p = Creator THEN {"r", "w"} ELSE {}]
  /\ killed = {}
  /\ pc = [p \in Procs |-> IF p = Creator THEN "user" ELSE "unborn"]
  /\ left = [p \in Procs |-> 0]

Empty == nread = nwrite

(* Mutant: the test for a full pipe is off by one. *)
FullOffByOne == nwrite = (nread + PIPESIZE + 1) % UINT

Full == nwrite = (nread + PIPESIZE) % UINT

(* wakeup(&p->nread) and wakeup(&p->nwrite), when q goes to loc. *)
WakeReaders(q, loc) ==
  [p \in Procs |-> IF p = q THEN loc
                   ELSE IF pc[p] = "rsleep" THEN "read" ELSE pc[p]]
WakeWriters(q, loc) ==
  [p \in Procs |-> IF p = q THEN loc
                   ELSE IF pc[p] = "wsleep" THEN "write" ELSE pc[p]]

-----------------------------------------------------------------------------
(* Processes *)

InUser(p) == pc[p] = "user" /\ p \notin killed

(* fork() duplicates the descriptors. *)
Fork(p, q) ==
  /\ InUser(p)
  /\ pc[q] = "unborn"
  /\ pc' = [pc EXCEPT ![q] = "user"]
  /\ ends' = [ends EXCEPT ![q] = ends[p]]
  /\ UNCHANGED <<pipe, lock, killed, left>>

(* kill() sets p->killed and makes a sleeper runnable. *)
Kill(p) ==
  /\ p \in Killable
  /\ pc[p] # "unborn"
  /\ killed' = killed \cup {p}
  /\ pc' = [pc EXCEPT ![p] = IF pc[p] = "rsleep" THEN "read"
                             ELSE IF pc[p] = "wsleep" THEN "write" ELSE pc[p]]
  /\ UNCHANGED <<pipe, lock, ends, left>>

(* Mutant: pipeclose() does not wake the other side. *)
CloseSilent(p, e) ==
  /\ pc[p] = "user"
  /\ e \in ends[p]
  /\ ends' = [ends EXCEPT ![p] = ends[p] \ {e}]
  /\ IF \E q \in Procs \ {p} : e \in ends[q]
     THEN UNCHANGED <<pipe, pc>>
     ELSE /\ lock = NoProc
          /\ IF e = "w" THEN writeopen' = 0 /\ UNCHANGED readopen
                        ELSE readopen' = 0 /\ UNCHANGED writeopen
          /\ freed' = IF readopen' = 0 /\ writeopen' = 0 THEN 1 ELSE freed
          /\ UNCHANGED <<nread, nwrite, data, pc>>
  /\ UNCHANGED <<lock, killed, left>>

(* Mutant: pipeclose() frees the pipe when either end is closed. *)
CloseEager(p, e) ==
  /\ pc[p] = "user"
  /\ e \in ends[p]
  /\ ends' = [ends EXCEPT ![p] = ends[p] \ {e}]
  /\ IF \E q \in Procs \ {p} : e \in ends[q]
     THEN UNCHANGED <<pipe, pc>>
     ELSE /\ lock = NoProc
          /\ IF e = "w"
             THEN /\ writeopen' = 0 /\ UNCHANGED readopen
                  /\ pc' = WakeReaders(p, "user")
             ELSE /\ readopen' = 0 /\ UNCHANGED writeopen
                  /\ pc' = WakeWriters(p, "user")
          /\ freed' = 1
          /\ UNCHANGED <<nread, nwrite, data>>
  /\ UNCHANGED <<lock, killed, left>>

(* close(), or exit() of a killed process: the last close of an end is      *)
(* pipeclose().                                                             *)
Close(p, e) ==
  /\ pc[p] = "user"
  /\ e \in ends[p]
  /\ ends' = [ends EXCEPT ![p] = ends[p] \ {e}]
  /\ IF \E q \in Procs \ {p} : e \in ends[q]
     THEN UNCHANGED <<pipe, pc>>
     ELSE /\ lock = NoProc
          /\ IF e = "w"
             THEN /\ writeopen' = 0 /\ UNCHANGED readopen
                  /\ pc' = WakeReaders(p, "user")
             ELSE /\ readopen' = 0 /\ UNCHANGED writeopen
                  /\ pc' = WakeWriters(p, "user")
          /\ freed' = IF readopen' = 0 /\ writeopen' = 0 THEN 1 ELSE freed
          /\ UNCHANGED <<nread, nwrite, data>>
  /\ UNCHANGED <<lock, killed, left>>

-----------------------------------------------------------------------------
(* pipewrite() *)

WriteCall(p, m) ==
  /\ InUser(p)
  /\ "w" \in ends[p]
  /\ pc' = [pc EXCEPT ![p] = "write"]
  /\ left' = [left EXCEPT ![p] = m]
  /\ UNCHANGED <<pipe, lock, ends, killed>>

(* acquire(&p->lock), on entry and at the end of sleep(). *)
WriteAcquire(p) ==
  /\ pc[p] = "write"
  /\ lock = NoProc
  /\ lock' = p
  /\ pc' = [pc EXCEPT ![p] = "loop"]
  /\ UNCHANGED <<pipe, ends, killed, left>>

(* The pipe is full and nobody reads any more, or p was killed. *)
WriteFail(p) ==
  /\ pc[p] = "loop"
  /\ left[p] > 0 /\ Full
  /\ readopen = 0 \/ p \in killed
  /\ lock' = NoProc
  /\ pc' = [pc EXCEPT ![p] = "user"]
  /\ left' = [left EXCEPT ![p] = 0]
  /\ UNCHANGED <<pipe, ends, killed>>

(* Mutant: a writer sleeps without waking the readers. *)
WriteFullSilent(p) ==
  /\ pc[p] = "loop"
  /\ left[p] > 0 /\ Full
  /\ readopen = 1 /\ p \notin killed
  /\ pc' = [pc EXCEPT ![p] = "wdoze"]
  /\ UNCHANGED <<pipe, lock, ends, killed, left>>

(* The pipe is full: wakeup(&p->nread), then sleep(). *)
WriteFull(p) ==
  /\ pc[p] = "loop"
  /\ left[p] > 0 /\ Full
  /\ readopen = 1 /\ p \notin killed
  /\ pc' = WakeReaders(p, "wdoze")
  /\ UNCHANGED <<pipe, lock, ends, killed, left>>

WriteSleep(p) ==
  /\ pc[p] = "wdoze"
  /\ lock' = NoProc
  /\ pc' = [pc EXCEPT ![p] = "wsleep"]
  /\ UNCHANGED <<pipe, ends, killed, left>>

WriteByte(p, b) ==
  /\ pc[p] = "loop"
  /\ left[p] > 0 /\ ~Full
  /\ data' = [data EXCEPT ![nwrite % PIPESIZE] = b]
  /\ nwrite' = (nwrite + 1) % UINT
  /\ left' = [left EXCEPT ![p] = left[p] - 1]
  /\ UNCHANGED <<lock, nread, readopen, writeopen, freed, ends, killed, pc>>

WriteDone(p) ==
  /\ pc[p] = "loop"
  /\ left[p] = 0
  /\ pc' = WakeReaders(p, "user")
  /\ lock' = NoProc
  /\ UNCHANGED <<pipe, ends, killed, left>>

-----------------------------------------------------------------------------
(* piperead() *)

ReadCall(p, m) ==
  /\ InUser(p)
  /\ "r" \in ends[p]
  /\ pc' = [pc EXCEPT ![p] = "read"]
  /\ left' = [left EXCEPT ![p] = m]
  /\ UNCHANGED <<pipe, lock, ends, killed>>

ReadAcquire(p) ==
  /\ pc[p] = "read"
  /\ lock = NoProc
  /\ lock' = p
  /\ pc' = [pc EXCEPT ![p] = "test"]
  /\ UNCHANGED <<pipe, ends, killed, left>>

ReadFail(p) ==
  /\ pc[p] = "test"
  /\ Empty /\ writeopen = 1
  /\ p \in killed
  /\ lock' = NoProc
  /\ pc' = [pc EXCEPT ![p] = "user"]
  /\ left' = [left EXCEPT ![p] = 0]
  /\ UNCHANGED <<pipe, ends, killed>>

ReadEmpty(p) ==
  /\ pc[p] = "test"
  /\ Empty /\ writeopen = 1
  /\ p \notin killed
  /\ pc' = [pc EXCEPT ![p] = "rdoze"]
  /\ UNCHANGED <<pipe, lock, ends, killed, left>>

ReadSleep(p) ==
  /\ pc[p] = "rdoze"
  /\ lock' = NoProc
  /\ pc' = [pc EXCEPT ![p] = "rsleep"]
  /\ UNCHANGED <<pipe, ends, killed, left>>

(* There are bytes, or there will be none. *)
ReadStart(p) ==
  /\ pc[p] = "test"
  /\ ~(Empty /\ writeopen = 1)
  /\ pc' = [pc EXCEPT ![p] = "copy"]
  /\ UNCHANGED <<pipe, lock, ends, killed, left>>

ReadByte(p) ==
  /\ pc[p] = "copy"
  /\ left[p] > 0 /\ ~Empty
  /\ nread' = (nread + 1) % UINT
  /\ left' = [left EXCEPT ![p] = left[p] - 1]
  /\ UNCHANGED <<lock, nwrite, data, readopen, writeopen, freed, ends, killed,
                 pc>>

ReadDone(p) ==
  /\ pc[p] = "copy"
  /\ left[p] = 0 \/ Empty
  /\ pc' = WakeWriters(p, "user")
  /\ lock' = NoProc
  /\ left' = [left EXCEPT ![p] = 0]
  /\ UNCHANGED <<pipe, ends, killed>>

-----------------------------------------------------------------------------

Writer(p) ==
  \/ WriteAcquire(p) \/ WriteFail(p) \/ WriteFull(p) \/ WriteSleep(p)
  \/ WriteDone(p) \/ \E b \in Bytes : WriteByte(p, b)

Reader(p) ==
  \/ ReadAcquire(p) \/ ReadFail(p) \/ ReadEmpty(p) \/ ReadSleep(p)
  \/ ReadStart(p) \/ ReadByte(p) \/ ReadDone(p)

User(p) ==
  \/ \E q \in Procs : Fork(p, q)
  \/ \E e \in {"r", "w"} : Close(p, e)
  \/ \E m \in 0..MaxN : WriteCall(p, m) \/ ReadCall(p, m)

Next == \E p \in Procs : Writer(p) \/ Reader(p) \/ User(p) \/ Kill(p)

Spec == Init /\ [][Next]_vars

(* A thread in the kernel goes on, and gets a lock that is free again and   *)
(* again; a killed process closes its ends when it is back in user space.   *)
Fairness ==
  \A p \in Procs :
    /\ SF_vars(Writer(p) \/ Reader(p))
    /\ SF_vars(p \in killed /\ \E e \in {"r", "w"} : Close(p, e))

FairSpec == Spec /\ Fairness

-----------------------------------------------------------------------------
(* Properties *)

(* The bytes between nread and nwrite, with counters that wrap around. *)
Contents ==
  [k \in 1..((nwrite + UINT - nread) % UINT) |->
     data[(nread + k - 1) % PIPESIZE]]

(* The buffer is a queue of PIPESIZE bytes, also when readers and writers   *)
(* sleep and come back in any order and when the counters overflow.         *)
Queue == INSTANCE Fifo WITH Capacity <- PIPESIZE, queue <- Contents
ImplementsFifo == Queue!Spec

(* pipeclose() frees the page of the pipe when no process can be in         *)
(* piperead() or pipewrite(), asleep or not, and nobody can get there.      *)
NoUseAfterFree ==
  freed = 1 => \A p \in Procs : pc[p] \in {"unborn", "user"} /\ ends[p] = {}

(* As long as nobody has been killed, a reader sleeps only while the pipe   *)
(* is empty and has a writer, a writer only while it is full and has a      *)
(* reader, whenever the lock is free: no wakeup is missing from             *)
(* pipewrite(), piperead() and pipeclose().  (A writer that is killed after *)
(* it has filled the pipe returns without waking the readers.)              *)
UnkilledMustWait ==
  killed = {} /\ lock = NoProc => \A p \in Procs :
    /\ pc[p] = "rsleep" => Empty /\ writeopen = 1
    /\ pc[p] = "wsleep" => Full /\ readopen = 1

(* Once nobody has the other end open, a reader gets end of file and a      *)
(* writer an error; neither is left asleep.                                 *)
CloseUnblocks ==
  \A p \in Procs :
    /\ writeopen = 0 /\ pc[p] \in {"read", "test", "rsleep", "rdoze", "copy"}
         ~> pc[p] = "user"
    /\ readopen = 0 /\ pc[p] \in {"write", "loop", "wsleep", "wdoze"}
         ~> pc[p] = "user"
=============================================================================
