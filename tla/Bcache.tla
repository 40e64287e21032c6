------------------------------- MODULE Bcache -------------------------------
(***************************************************************************)
(* The buffer cache (bio.c) on top of the IDE driver (ide.c), used by      *)
(* several processes.  bcache.lock and idelock make the steps atomic; a    *)
(* buffer's sleep-lock is held between steps (how sleep-locks work is in   *)
(* Proc).  The disk executes the command that idestart() gave it and then  *)
(* raises an interrupt.                                                    *)
(*                                                                         *)
(* A process that holds a buffer may change it, and does so as the kernel  *)
(* does: with log_write(), which leaves it dirty in the cache, or with     *)
(* bwrite().                                                               *)
(***************************************************************************)
EXTENDS Naturals, Sequences, FiniteSets

CONSTANTS Procs,    \* processes
          NoProc,   \* nobody holds a lock
          NoBlock,  \* block number of a buffer that was never used
          Blocks,   \* block numbers
          Written,  \* bound of the model: the blocks that are written
          Vals,     \* contents of a block
          NBUF      \* buffers

ASSUME BcacheAssumption ==
  /\ NoProc \notin Procs /\ NoBlock \notin Blocks /\ IsFiniteSet(Procs)
  /\ NBUF \in Nat \ {0} /\ Vals # {} /\ Written \subseteq Blocks

Bufs == 1..NBUF

VARIABLES lru,      \* the list bcache.head, most recently used first
          blockno,  \* buffer -> b->blockno
          refcnt,   \* buffer -> b->refcnt
          valid,    \* buffers with B_VALID
          dirty,    \* buffers with B_DIRTY
          data,     \* buffer -> b->data
          lock,     \* buffer -> process that holds b->lock
          queue,    \* idequeue
          cmd,      \* the buffer idestart() gave the disk a command for, or 0
          irq,      \* 1 if the disk has executed the command
          disk,     \* block -> contents on disk
          latest,   \* block -> contents last given to it (for properties)
          failed,   \* 1 once a transfer has failed (for properties)
          pc,       \* where a process is
          buf,      \* the buffer it works on, or 0
          panic     \* 1 after "bget: no buffers"

bufs == <<blockno, refcnt, valid, dirty, data>>
vars == <<lru, blockno, refcnt, valid, dirty, data, lock, queue, cmd, irq, disk,
          latest, failed, pc, buf, panic>>

(* Values of pc besides idle.  lock: in acquiresleep().  iderw: about to    *)
(* call it.  io: asleep in it.  held: holds the buffer.  release: in        *)
(* brelse(), the lock already free.                                         *)

(* binit() links every buffer in at the head. *)
Init ==
  /\ lru = [k \in 1..NBUF |-> NBUF + 1 - k]
  /\ blockno = [b \in Bufs |-> NoBlock] /\ refcnt = [b \in Bufs |-> 0]
  /\ valid = {} /\ dirty = {}
  /\ \E v \in Vals : /\ data = [b \in Bufs |-> v]
                     /\ disk = [k \in Blocks |-> v]
  /\ lock = [b \in Bufs |-> NoProc]
  /\ queue = <<>> /\ cmd = 0 /\ irq = 0
  /\ latest = disk /\ failed = 0
  /\ pc = [p \in Procs |-> "idle"] /\ buf = [p \in Procs |-> 0]
  /\ panic = 0

Goto(p, loc) == pc' = [pc EXCEPT ![p] = loc]

-----------------------------------------------------------------------------
(* bget() *)

Cached(k) == {b \in Bufs : blockno[b] = k}

(* Mutant: buffers that log.c has modified are recycled too. *)
RecyclableDirty == {b \in Bufs : refcnt[b] = 0}

(* Mutant: buffers in use are recycled too. *)
RecyclableInUse == Bufs \ dirty

(* Unused buffers that log.c has not modified. *)
Recyclable == {b \in Bufs : refcnt[b] = 0 /\ b \notin dirty}

(* The search goes through the list from its end. *)
Older(b, c) == \E i, j \in DOMAIN lru : lru[i] = b /\ lru[j] = c /\ i > j

BgetHit(p, k) ==
  /\ pc[p] = "idle" /\ panic = 0
  /\ \E b \in Cached(k) :
       /\ refcnt' = [refcnt EXCEPT ![b] = @ + 1]
       /\ buf' = [buf EXCEPT ![p] = b]
  /\ Goto(p, "lock")
  /\ UNCHANGED <<lru, blockno, valid, dirty, data, lock, queue, cmd, irq, disk,
                 latest, failed, panic>>

BgetMiss(p, k) ==
  /\ pc[p] = "idle" /\ panic = 0
  /\ Cached(k) = {}
  /\ \E b \in Recyclable :
       /\ \A c \in Recyclable \ {b} : Older(b, c)
       /\ blockno' = [blockno EXCEPT ![b] = k]
       /\ valid' = valid \ {b}
       /\ refcnt' = [refcnt EXCEPT ![b] = 1]
       /\ buf' = [buf EXCEPT ![p] = b]
  /\ Goto(p, "lock")
  /\ UNCHANGED <<lru, dirty, data, lock, queue, cmd, irq, disk, latest, failed, panic>>

BgetPanic(p, k) ==
  /\ pc[p] = "idle" /\ panic = 0
  /\ Cached(k) = {} /\ Recyclable = {}
  /\ panic' = 1
  /\ UNCHANGED <<lru, bufs, lock, queue, cmd, irq, disk, latest, failed, pc, buf>>

(* The end of bget(), and bread() from there. *)
Lock(p) ==
  /\ pc[p] = "lock"
  /\ lock[buf[p]] = NoProc
  /\ lock' = [lock EXCEPT ![buf[p]] = p]
  /\ Goto(p, IF buf[p] \in valid THEN "held" ELSE "iderw")
  /\ UNCHANGED <<lru, bufs, queue, cmd, irq, disk, latest, failed, buf, panic>>

-----------------------------------------------------------------------------
(* What a process does with the buffer it holds *)

(* It changes the contents; log_write() marks the buffer dirty. *)
LogWrite(p, v) ==
  /\ pc[p] = "held" /\ blockno[buf[p]] \in Written
  /\ data' = [data EXCEPT ![buf[p]] = v]
  /\ latest' = [latest EXCEPT ![blockno[buf[p]]] = v]
  /\ dirty' = dirty \cup {buf[p]}
  /\ UNCHANGED <<lru, blockno, refcnt, valid, lock, queue, cmd, irq, disk, failed,
                 pc, buf, panic>>

(* It changes the contents, or not, and calls bwrite(). *)
Bwrite(p, v) ==
  /\ pc[p] = "held" /\ blockno[buf[p]] \in Written
  /\ data' = [data EXCEPT ![buf[p]] = v]
  /\ latest' = [latest EXCEPT ![blockno[buf[p]]] = v]
  /\ dirty' = dirty \cup {buf[p]}
  /\ Goto(p, "iderw")
  /\ UNCHANGED <<lru, blockno, refcnt, valid, lock, queue, cmd, irq, disk, failed,
                 buf, panic>>

(* brelse(): the sleep-lock first, then the count and the list. *)
Release(p) ==
  /\ pc[p] = "held"
  /\ lock' = [lock EXCEPT ![buf[p]] = NoProc]
  /\ Goto(p, "release")
  /\ UNCHANGED <<lru, bufs, queue, cmd, irq, disk, latest, failed, buf, panic>>

(* The buffer becomes the most recently used. *)
ToFront(b) == <<b>> \o SelectSeq(lru, LAMBDA c : c # b)

Unref(p) ==
  LET b == buf[p]
  IN  /\ pc[p] = "release"
      /\ refcnt' = [refcnt EXCEPT ![b] = @ - 1]
      /\ lru' = IF refcnt[b] = 1 THEN ToFront(b) ELSE lru
      /\ buf' = [buf EXCEPT ![p] = 0]
      /\ Goto(p, "idle")
      /\ UNCHANGED <<blockno, valid, dirty, data, lock, queue, cmd, irq, disk,
                     latest, failed, panic>>

-----------------------------------------------------------------------------
(* The driver and the disk *)

(* The command that the disk gets for the request at the head of q. *)
idestart(q) == IF q = <<>> THEN 0 ELSE Head(q)

(* iderw(): append to the queue, idestart() if it was empty, sleep. *)
Iderw(p) ==
  /\ pc[p] = "iderw"
  /\ queue' = Append(queue, buf[p])
  /\ cmd' = IF queue = <<>> THEN idestart(queue') ELSE cmd
  /\ Goto(p, "io")
  /\ UNCHANGED <<lru, bufs, lock, irq, disk, latest, failed, buf, panic>>

(* The disk executes its command.  A write may fail: the interrupt comes   *)
(* all the same, and ideintr() looks at the error bits of a read only.     *)
Disk ==
  /\ cmd # 0
  /\ irq' = 1 /\ cmd' = 0
  /\ \/ /\ cmd \in dirty
        /\ disk' = [disk EXCEPT ![blockno[cmd]] = data[cmd]]
        /\ UNCHANGED failed
     \/ cmd \in dirty /\ UNCHANGED disk /\ failed' = 1
     \/ cmd \notin dirty /\ UNCHANGED <<disk, failed>>
  /\ UNCHANGED <<lru, bufs, lock, queue, latest, pc, buf, panic>>

(* Mutant: the interrupt handler wakes nobody. *)
IdeIntrSilent ==
  LET b == Head(queue)
  IN  /\ irq = 1
      /\ irq' = 0
      /\ queue' = Tail(queue) /\ cmd' = idestart(Tail(queue))
      /\ \/ b \notin dirty /\ data' = [data EXCEPT ![b] = disk[blockno[b]]]
         \/ b \in dirty /\ UNCHANGED data
      /\ valid' = valid \cup {b}
      /\ dirty' = dirty \ {b}
      /\ UNCHANGED <<lru, blockno, refcnt, lock, disk, latest, failed,
                     pc, buf, panic>>

(* ideintr(): insl() of the data of a read unless the disk reports an      *)
(* error, then the flags, wakeup() and the next request of the queue.      *)
IdeIntr ==
  LET b == Head(queue)
  IN  /\ irq = 1
      /\ irq' = 0
      /\ queue' = Tail(queue) /\ cmd' = idestart(Tail(queue))
      /\ \/ /\ b \notin dirty
            /\ data' = [data EXCEPT ![b] = disk[blockno[b]]]
            /\ UNCHANGED failed
         \/ b \notin dirty /\ UNCHANGED data /\ failed' = 1
         \/ b \in dirty /\ UNCHANGED <<data, failed>>
      /\ valid' = valid \cup {b}
      /\ dirty' = dirty \ {b}
      /\ pc' = [p \in Procs |-> IF pc[p] = "io" /\ buf[p] = b THEN "held"
                                ELSE pc[p]]
      /\ UNCHANGED <<lru, blockno, refcnt, lock, disk, latest, buf, panic>>

-----------------------------------------------------------------------------

Call(p) ==
  \/ \E k \in Blocks : BgetHit(p, k) \/ BgetMiss(p, k) \/ BgetPanic(p, k)
  \/ \E v \in Vals : LogWrite(p, v) \/ Bwrite(p, v)

Kernel(p) == Lock(p) \/ Iderw(p) \/ Release(p) \/ Unref(p)

Next == Disk \/ IdeIntr \/ \E p \in Procs : Call(p) \/ Kernel(p)

Spec == Init /\ [][Next]_vars

(* The disk answers, its interrupt is taken, and a process that is about   *)
(* to call iderw() does.  Nothing is assumed of sleep-locks: a process may *)
(* hold one for ever, and another may lose it again and again.             *)
Fairness ==
  /\ WF_vars(Disk \/ IdeIntr)
  /\ \A p \in Procs : WF_vars(Iderw(p))

FairSpec == Spec /\ Fairness

-----------------------------------------------------------------------------
(* Properties *)

(* A block has one buffer, whoever looks for it at the same time, and who  *)
(* holds it sees what was last written to the block, also when the buffer  *)
(* was recycled and read again in between: nothing that log.c has modified *)
(* and not yet written is thrown away.  (The contents are claimed up to    *)
(* the first failed transfer: ideintr() marks a buffer valid also when its *)
(* read has failed, and clean when its write has.)                         *)
ReadsLatest ==
  /\ \A b, c \in Bufs : blockno[b] = blockno[c] /\ blockno[b] # NoBlock => b = c
  /\ failed = 0 => \A p \in Procs :
       pc[p] = "held" => data[buf[p]] = latest[blockno[buf[p]]]

(* A buffer in the disk queue is locked by a process that sleeps in        *)
(* iderw() for it, and is in the queue once: the interrupt handler never   *)
(* touches a buffer that somebody else has or that was recycled.           *)
QueueOwned ==
  /\ \A i \in DOMAIN queue : LET b == queue[i] IN
       /\ lock[b] \in Procs /\ pc[lock[b]] = "io" /\ buf[lock[b]] = b
       /\ refcnt[b] > 0
  /\ \A i, j \in DOMAIN queue : queue[i] = queue[j] => i = j

(* A process that has handed a buffer to iderw() gets it back, whatever    *)
(* others append to the queue meanwhile and whether or not the transfer    *)
(* succeeds: idestart() is called for each request once, and the interrupt *)
(* wakes the process that sleeps on the buffer at the head.                *)
IoReturns ==
  \A p \in Procs : pc[p] \in {"iderw", "io"} ~> pc[p] = "held"
=============================================================================
