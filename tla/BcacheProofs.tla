---------------------------- MODULE BcacheProofs ----------------------------
(***************************************************************************)
(* The safety properties of the buffer cache, for any number of buffers,   *)
(* blocks and processes: who holds a buffer sees what was last written to  *)
(* its block, and the driver touches only buffers whose holder waits in    *)
(* iderw().                                                                *)
(***************************************************************************)
EXTENDS Bcache, FiniteSetTheorems, TLAPS

Places == {"idle", "lock", "iderw", "io", "held", "release"}

BufferTypes ==
  /\ blockno \in [Bufs -> Blocks \cup {NoBlock}]
  /\ refcnt \in [Bufs -> Nat]
  /\ valid \subseteq Bufs /\ dirty \subseteq Bufs
  /\ data \in [Bufs -> Vals]
  /\ lock \in [Bufs -> Procs \cup {NoProc}]

DriverTypes ==
  /\ queue \in Seq(Bufs) /\ cmd \in Bufs \cup {0} /\ irq \in {0, 1}
  /\ disk \in [Blocks -> Vals] /\ latest \in [Blocks -> Vals]
  /\ failed \in {0, 1}

ProcTypes ==
  /\ pc \in [Procs -> Places] /\ buf \in [Procs -> Bufs \cup {0}]

(* Every variable has its type. *)
TypeOK == BufferTypes /\ DriverTypes /\ ProcTypes

(* b->refcnt counts the processes between bget() and the end of brelse(). *)
Users(b) == {p \in Procs : buf[p] = b}

RefInv ==
  /\ \A p \in Procs : buf[p] = 0 <=> pc[p] = "idle"
  /\ \A b \in Bufs : refcnt[b] = Cardinality(Users(b))

(* The lock of a buffer is held by a process that works on it. *)
LockInv ==
  /\ \A p \in Procs : pc[p] \in {"iderw", "io", "held"} => lock[buf[p]] = p
  /\ \A b \in Bufs : lock[b] \in Procs =>
       buf[lock[b]] = b /\ pc[lock[b]] \in {"iderw", "io", "held"}

(* A queued buffer is locked by a process asleep in iderw(); the disk works *)
(* on the head of the queue, or has raised the interrupt for it.            *)
QueueInv ==
  /\ \A i \in DOMAIN queue :
       lock[queue[i]] \in Procs /\ pc[lock[queue[i]]] = "io"
  /\ \A i, j \in DOMAIN queue : queue[i] = queue[j] => i = j
  /\ cmd # 0 => queue # <<>> /\ cmd = queue[1] /\ irq = 0
  /\ irq = 1 => queue # <<>>

(* A block has one buffer; a buffer in use has a block. *)
BlockInv ==
  /\ \A b, c \in Bufs : blockno[b] = blockno[c] /\ blockno[b] # NoBlock => b = c
  /\ \A p \in Procs : buf[p] # 0 => blockno[buf[p]] # NoBlock
  /\ \A b \in valid : blockno[b] # NoBlock

(* B_VALID and B_DIRTY. *)
FlagInv ==
  /\ dirty \subseteq valid
  /\ \A p \in Procs : pc[p] = "held" => buf[p] \in valid

(* Until a transfer fails, a valid buffer has the latest contents of its   *)
(* block, the disk has them unless a dirty buffer does, and a write that   *)
(* the disk has executed is on the disk.                                   *)
DataInv ==
  failed = 0 =>
    /\ \A b \in valid : data[b] = latest[blockno[b]]
    /\ \A k \in Blocks : disk[k] = latest[k] \/ \E b \in dirty : blockno[b] = k
    /\ irq = 1 /\ queue[1] \in dirty => disk[blockno[queue[1]]] = data[queue[1]]

(* The inductive invariant. *)
IInv == TypeOK /\ RefInv /\ LockInv /\ QueueInv /\ BlockInv /\ FlagInv /\ DataInv

-----------------------------------------------------------------------------

(* Buffers are positive numbers; 0 stands for none. *)
LEMMA BufsFact == Bufs \subseteq Nat /\ 0 \notin Bufs
  BY DEF Bufs

(* binit() establishes the invariant. *)
LEMMA InitIInv == ASSUME Init PROVE IInv
<1> USE BcacheAssumption, BufsFact DEF Init
<1>1. TypeOK
  BY DEF TypeOK, BufferTypes, DriverTypes, ProcTypes, Places
<1>2. RefInv
  <2>1. \A b \in Bufs : Users(b) = {}
    BY DEF Users
  <2> QED
    BY <2>1, FS_EmptySet DEF RefInv
<1>3. LockInv /\ QueueInv
  BY DEF LockInv, QueueInv
<1>4. BlockInv /\ FlagInv /\ DataInv
  BY DEF BlockInv, FlagInv, DataInv
<1> QED
  BY <1>1, <1>2, <1>3, <1>4 DEF IInv

(* bget() finds the block: one more user of the buffer. *)
LEMMA BgetHitIInv ==
  ASSUME IInv, NEW p \in Procs, NEW k \in Blocks, BgetHit(p, k)
  PROVE  IInv'
<1> USE BcacheAssumption, BufsFact
<1>0. PICK b \in Bufs :
        /\ blockno[b] = k
        /\ refcnt' = [refcnt EXCEPT ![b] = @ + 1]
        /\ buf' = [buf EXCEPT ![p] = b]
        /\ pc' = [pc EXCEPT ![p] = "lock"]
        /\ pc[p] = "idle"
        /\ UNCHANGED <<blockno, valid, dirty, data, lock, queue, cmd, irq, disk,
                       latest, failed>>
  BY DEF BgetHit, Cached, Goto
<1> USE DEF IInv
<1>1. TypeOK'
  BY <1>0 DEF TypeOK, BufferTypes, DriverTypes, ProcTypes, Places
<1>2. RefInv'
  <2>1. buf[p] = 0 /\ p \notin Users(b) /\ IsFiniteSet(Users(b))
    BY <1>0, FS_Subset DEF RefInv, Users, TypeOK, ProcTypes
  <2>2. Users(b)' = Users(b) \cup {p}
    BY <1>0 DEF Users, TypeOK, ProcTypes
  <2>3. \A c \in Bufs \ {b} : Users(c)' = Users(c)
    BY <1>0, <2>1 DEF Users, TypeOK, ProcTypes
  <2>4. Cardinality(Users(b)') = Cardinality(Users(b)) + 1
    <3> HIDE DEF IInv
    <3>1. Cardinality(Users(b) \cup {p}) = Cardinality(Users(b)) + 1
      BY <2>1, FS_AddElement
    <3> QED
      BY <2>2, <3>1
  <2>5. \A c \in Bufs : refcnt'[c] = Cardinality(Users(c)')
    BY <1>0, <2>3, <2>4 DEF RefInv, TypeOK, BufferTypes
  <2>6. \A q \in Procs : buf'[q] = 0 <=> pc'[q] = "idle"
    BY <1>0 DEF RefInv, TypeOK, ProcTypes
  <2> QED
    BY <2>5, <2>6 DEF RefInv
<1>3. LockInv'
  BY <1>0 DEF LockInv, TypeOK, ProcTypes, BufferTypes
<1>4. QueueInv'
  BY <1>0 DEF QueueInv, TypeOK, ProcTypes
<1>5. BlockInv' /\ FlagInv'
  BY <1>0 DEF BlockInv, FlagInv, TypeOK, ProcTypes
<1>6. DataInv'
  BY <1>0 DEF DataInv
<1> QED
  BY <1>1, <1>2, <1>3, <1>4, <1>5, <1>6

(* bget() recycles a buffer that nobody uses and that is not dirty. *)
LEMMA BgetMissIInv ==
  ASSUME IInv, NEW p \in Procs, NEW k \in Blocks, BgetMiss(p, k)
  PROVE  IInv'
<1> USE BcacheAssumption, BufsFact
<1>0. PICK b \in Bufs :
        /\ refcnt[b] = 0 /\ b \notin dirty
        /\ \A c \in Bufs : blockno[c] # k
        /\ blockno' = [blockno EXCEPT ![b] = k]
        /\ valid' = valid \ {b}
        /\ refcnt' = [refcnt EXCEPT ![b] = 1]
        /\ buf' = [buf EXCEPT ![p] = b]
        /\ pc' = [pc EXCEPT ![p] = "lock"]
        /\ pc[p] = "idle"
        /\ UNCHANGED <<dirty, data, lock, queue, cmd, irq, disk, latest, failed>>
  BY DEF BgetMiss, Cached, Recyclable, Goto
<1> USE DEF IInv
<1>1. TypeOK'
  BY <1>0 DEF TypeOK, BufferTypes, DriverTypes, ProcTypes, Places
<1>2. buf[p] = 0 /\ \A q \in Procs : buf[q] # b
  <2>1. IsFiniteSet(Users(b)) /\ Cardinality(Users(b)) = 0
    BY <1>0, FS_Subset DEF RefInv, Users
  <2>2. Users(b) = {}
    BY <2>1, FS_EmptySet
  <2> QED
    BY <1>0, <2>2 DEF RefInv, Users
<1>3. RefInv'
  <2>1. Users(b)' = {p}
    BY <1>0, <1>2 DEF Users, TypeOK, ProcTypes
  <2>2. \A c \in Bufs \ {b} : Users(c)' = Users(c)
    BY <1>0, <1>2 DEF Users, TypeOK, ProcTypes
  <2>3. \A c \in Bufs : refcnt'[c] = Cardinality(Users(c)')
    BY <1>0, <2>1, <2>2, FS_Singleton DEF RefInv, TypeOK, BufferTypes
  <2>4. \A q \in Procs : buf'[q] = 0 <=> pc'[q] = "idle"
    BY <1>0 DEF RefInv, TypeOK, ProcTypes
  <2> QED
    BY <2>3, <2>4 DEF RefInv
<1>4. LockInv'
  BY <1>0, <1>2 DEF LockInv, TypeOK, ProcTypes, BufferTypes
<1>5. QueueInv'
  BY <1>0 DEF QueueInv, TypeOK, ProcTypes
<1>6. BlockInv'
  <2>1. \A q \in Procs : buf'[q] # 0 => blockno'[buf'[q]] # NoBlock
    BY <1>0, <1>2 DEF BlockInv, TypeOK, ProcTypes, BufferTypes
  <2>2. \A c \in valid' : blockno'[c] # NoBlock
    BY <1>0 DEF BlockInv, TypeOK, BufferTypes
  <2>3. \A c, d \in Bufs :
          blockno'[c] = blockno'[d] /\ blockno'[c] # NoBlock => c = d
    BY <1>0 DEF BlockInv, TypeOK, BufferTypes
  <2> QED
    BY <2>1, <2>2, <2>3 DEF BlockInv
<1>7. FlagInv'
  BY <1>0, <1>2 DEF FlagInv, TypeOK, ProcTypes
<1>8. DataInv'
  <2> SUFFICES ASSUME failed = 0
               PROVE  /\ \A c \in valid' : data[c] = latest[blockno'[c]]
                      /\ \A j \in Blocks :
                           disk[j] = latest[j] \/ \E c \in dirty : blockno'[c] = j
                      /\ irq = 1 /\ queue[1] \in dirty =>
                           disk[blockno'[queue[1]]] = data[queue[1]]
    BY <1>0 DEF DataInv
  <2>1. \A c \in dirty \cup valid' : blockno'[c] = blockno[c]
    BY <1>0 DEF TypeOK, BufferTypes
  <2> QED
    BY <1>0, <2>1 DEF DataInv
<1> QED
  BY <1>1, <1>3, <1>4, <1>5, <1>6, <1>7, <1>8

(* acquiresleep() at the end of bget(). *)
LEMMA LockIInv ==
  ASSUME IInv, NEW p \in Procs, Lock(p)
  PROVE  IInv'
<1> USE BcacheAssumption, BufsFact DEF Lock, Goto, bufs
<1>0. buf[p] \in Bufs
  BY DEF IInv, RefInv, TypeOK, ProcTypes
<1> USE DEF IInv
<1>1. TypeOK'
  BY <1>0 DEF TypeOK, BufferTypes, DriverTypes, ProcTypes, Places
<1>2. RefInv'
  <2>1. \A b \in Bufs : Users(b)' = Users(b)
    BY DEF Users
  <2> QED
    BY <2>1 DEF RefInv, TypeOK, ProcTypes
<1>3. LockInv'
  BY <1>0 DEF LockInv, TypeOK, ProcTypes, BufferTypes
<1>4. QueueInv'
  <2>1. \A i \in DOMAIN queue : queue[i] \in Bufs /\ queue[i] # buf[p] /\ lock[queue[i]] # p
    BY <1>0 DEF QueueInv, TypeOK, DriverTypes
  <2> QED
    BY <1>0, <2>1 DEF QueueInv, TypeOK, ProcTypes, BufferTypes
<1>5. BlockInv' /\ FlagInv'
  BY DEF BlockInv, FlagInv, TypeOK, ProcTypes
<1>6. DataInv'
  BY DEF DataInv
<1> QED
  BY <1>1, <1>2, <1>3, <1>4, <1>5, <1>6

(* The holder of a buffer changes it and marks it dirty, with log_write()  *)
(* or on its way into bwrite().                                            *)
LEMMA WriteIInv ==
  ASSUME IInv, NEW p \in Procs, NEW v \in Vals, LogWrite(p, v) \/ Bwrite(p, v)
  PROVE  IInv'
<1> USE BcacheAssumption, BufsFact
<1>0. /\ pc[p] = "held" /\ blockno[buf[p]] \in Blocks
      /\ data' = [data EXCEPT ![buf[p]] = v]
      /\ latest' = [latest EXCEPT ![blockno[buf[p]]] = v]
      /\ dirty' = dirty \cup {buf[p]}
      /\ pc' = pc \/ pc' = [pc EXCEPT ![p] = "iderw"]
      /\ UNCHANGED <<blockno, refcnt, valid, lock, queue, cmd, irq, disk, failed, buf>>
  BY DEF LogWrite, Bwrite, Goto
<1> USE DEF IInv
<1>1. buf[p] \in Bufs /\ lock[buf[p]] = p /\ buf[p] \in valid
  BY <1>0 DEF RefInv, LockInv, FlagInv, TypeOK, ProcTypes
<1>2. \A i \in DOMAIN queue : queue[i] \in Bufs /\ queue[i] # buf[p] /\ lock[queue[i]] # p
  BY <1>0, <1>1 DEF QueueInv, TypeOK, DriverTypes
<1>3. TypeOK'
  BY <1>0, <1>1 DEF TypeOK, BufferTypes, DriverTypes, ProcTypes, Places
<1>4. RefInv'
  <2>1. \A b \in Bufs : Users(b)' = Users(b)
    BY <1>0 DEF Users
  <2> QED
    BY <1>0, <2>1 DEF RefInv, TypeOK, ProcTypes
<1>5. LockInv'
  BY <1>0, <1>1 DEF LockInv, TypeOK, ProcTypes, BufferTypes
<1>6. QueueInv'
  BY <1>0, <1>2 DEF QueueInv, TypeOK, ProcTypes, BufferTypes
<1>7. BlockInv' /\ FlagInv'
  BY <1>0, <1>1 DEF BlockInv, FlagInv, TypeOK, ProcTypes
<1>8. DataInv'
  <2> SUFFICES ASSUME failed = 0
               PROVE  /\ \A b \in valid : data'[b] = latest'[blockno[b]]
                      /\ \A k \in Blocks :
                           disk[k] = latest'[k] \/ \E b \in dirty' : blockno[b] = k
                      /\ irq = 1 /\ queue[1] \in dirty' =>
                           disk[blockno[queue[1]]] = data'[queue[1]]
    BY <1>0 DEF DataInv
  <2>1. \A b \in valid : data'[b] = latest'[blockno[b]]
    <3> SUFFICES ASSUME NEW b \in valid PROVE data'[b] = latest'[blockno[b]]
      OBVIOUS
    <3>1. b \in Bufs /\ blockno[b] \in Blocks /\ data[b] = latest[blockno[b]]
      BY DEF BlockInv, DataInv, TypeOK, BufferTypes
    <3>2. CASE b = buf[p]
      BY <1>0, <1>1, <3>2 DEF TypeOK, BufferTypes, DriverTypes
    <3>3. CASE b # buf[p]
      <4>1. blockno[b] # blockno[buf[p]]
        BY <1>0, <1>1, <3>1, <3>3 DEF BlockInv
      <4> QED
        BY <1>0, <1>1, <3>1, <3>3, <4>1 DEF TypeOK, BufferTypes, DriverTypes
    <3> QED
      BY <3>2, <3>3
  <2>2. \A k \in Blocks : disk[k] = latest'[k] \/ \E b \in dirty' : blockno[b] = k
    BY <1>0, <1>1 DEF DataInv, TypeOK, DriverTypes
  <2>3. irq = 1 => 1 \in DOMAIN queue
    BY DEF QueueInv, TypeOK, DriverTypes
  <2>4. irq = 1 /\ queue[1] \in dirty' => disk[blockno[queue[1]]] = data'[queue[1]]
    BY <1>0, <1>1, <1>2, <2>3 DEF DataInv, TypeOK, BufferTypes
  <2> QED
    BY <2>1, <2>2, <2>4
<1> QED
  BY <1>3, <1>4, <1>5, <1>6, <1>7, <1>8

(* brelse() gives the sleep-lock back ... *)
LEMMA ReleaseIInv ==
  ASSUME IInv, NEW p \in Procs, Release(p)
  PROVE  IInv'
<1> USE BcacheAssumption, BufsFact DEF Release, Goto, bufs
<1>0. buf[p] \in Bufs /\ lock[buf[p]] = p
  BY DEF IInv, RefInv, LockInv, TypeOK, ProcTypes
<1> USE DEF IInv
<1>1. TypeOK'
  BY <1>0 DEF TypeOK, BufferTypes, DriverTypes, ProcTypes, Places
<1>2. RefInv'
  <2>1. \A b \in Bufs : Users(b)' = Users(b)
    BY DEF Users
  <2> QED
    BY <2>1 DEF RefInv, TypeOK, ProcTypes
<1>3. LockInv'
  BY <1>0 DEF LockInv, TypeOK, ProcTypes, BufferTypes
<1>4. QueueInv'
  <2>1. \A i \in DOMAIN queue : queue[i] \in Bufs /\ queue[i] # buf[p] /\ lock[queue[i]] # p
    BY <1>0 DEF QueueInv, TypeOK, DriverTypes
  <2> QED
    BY <1>0, <2>1 DEF QueueInv, TypeOK, ProcTypes, BufferTypes
<1>5. BlockInv' /\ FlagInv'
  BY DEF BlockInv, FlagInv, TypeOK, ProcTypes
<1>6. DataInv'
  BY DEF DataInv
<1> QED
  BY <1>1, <1>2, <1>3, <1>4, <1>5, <1>6

(* ... and then its reference. *)
LEMMA UnrefIInv ==
  ASSUME IInv, NEW p \in Procs, Unref(p)
  PROVE  IInv'
<1> USE BcacheAssumption, BufsFact
<1>0. /\ pc[p] = "release"
      /\ refcnt' = [refcnt EXCEPT ![buf[p]] = @ - 1]
      /\ buf' = [buf EXCEPT ![p] = 0]
      /\ pc' = [pc EXCEPT ![p] = "idle"]
      /\ UNCHANGED <<blockno, valid, dirty, data, lock, queue, cmd, irq, disk,
                     latest, failed>>
  BY DEF Unref, Goto
<1> USE DEF IInv
<1>1. PICK b \in Bufs : b = buf[p]
  BY <1>0 DEF RefInv, TypeOK, ProcTypes
<1>2. RefInv'
  <2>1. p \in Users(b) /\ IsFiniteSet(Users(b))
    BY <1>1, FS_Subset DEF Users
  <2>2. Users(b)' = Users(b) \ {p}
    BY <1>0, <1>1 DEF Users, TypeOK, ProcTypes
  <2>3. \A c \in Bufs \ {b} : Users(c)' = Users(c)
    BY <1>0, <1>1 DEF Users, TypeOK, ProcTypes
  <2>4. Cardinality(Users(b)') = Cardinality(Users(b)) - 1
    <3> HIDE DEF IInv
    <3>1. Cardinality(Users(b) \ {p}) = Cardinality(Users(b)) - 1
      BY <2>1, FS_RemoveElement
    <3> QED
      BY <2>2, <3>1
  <2>5. \A c \in Bufs : refcnt'[c] = Cardinality(Users(c)')
    BY <1>0, <1>1, <2>3, <2>4 DEF RefInv, TypeOK, BufferTypes
  <2>6. \A q \in Procs : buf'[q] = 0 <=> pc'[q] = "idle"
    BY <1>0 DEF RefInv, TypeOK, ProcTypes
  <2> QED
    BY <2>5, <2>6 DEF RefInv
<1>3. TypeOK'
  <2>1. IsFiniteSet(Users(b)') /\ Cardinality(Users(b)') \in Nat
    BY FS_Subset, FS_CardinalityType DEF Users
  <2>2. refcnt' \in [Bufs -> Nat]
    BY <1>0, <1>1, <1>2, <2>1 DEF RefInv, TypeOK, BufferTypes
  <2> QED
    BY <1>0, <2>2 DEF TypeOK, BufferTypes, DriverTypes, ProcTypes, Places
<1>4. LockInv'
  BY <1>0, <1>1 DEF LockInv, TypeOK, ProcTypes, BufferTypes
<1>5. QueueInv'
  BY <1>0 DEF QueueInv, TypeOK, ProcTypes
<1>6. BlockInv' /\ FlagInv'
  BY <1>0 DEF BlockInv, FlagInv, TypeOK, ProcTypes
<1>7. DataInv'
  BY <1>0 DEF DataInv
<1> QED
  BY <1>2, <1>3, <1>4, <1>5, <1>6, <1>7

(* iderw() queues the buffer; an idle disk gets it as its command. *)
LEMMA IderwIInv ==
  ASSUME IInv, NEW p \in Procs, Iderw(p)
  PROVE  IInv'
<1> USE BcacheAssumption, BufsFact
<1>0. /\ pc[p] = "iderw"
      /\ queue' = Append(queue, buf[p])
      /\ cmd' = IF queue = <<>> THEN idestart(queue') ELSE cmd
      /\ pc' = [pc EXCEPT ![p] = "io"]
      /\ UNCHANGED <<blockno, refcnt, valid, dirty, data, lock, irq, disk, latest,
                     failed, buf>>
  BY DEF Iderw, Goto, bufs
<1> USE DEF IInv
<1>1. buf[p] \in Bufs /\ lock[buf[p]] = p
  BY <1>0 DEF RefInv, LockInv, TypeOK, ProcTypes
<1>2. \A i \in DOMAIN queue : queue[i] \in Bufs /\ queue[i] # buf[p] /\ lock[queue[i]] # p
  BY <1>0, <1>1 DEF QueueInv, TypeOK, DriverTypes
<1>3. /\ queue \in Seq(Bufs) /\ queue' \in Seq(Bufs)
      /\ Len(queue') = Len(queue) + 1
      /\ \A i \in DOMAIN queue : queue'[i] = queue[i]
      /\ queue'[Len(queue) + 1] = buf[p]
  BY <1>0, <1>1 DEF TypeOK, DriverTypes
<1>4. cmd' = IF queue = <<>> THEN buf[p] ELSE cmd
  BY <1>0, <1>1, <1>3 DEF idestart
<1>5. TypeOK'
  BY <1>0, <1>1, <1>3, <1>4 DEF TypeOK, BufferTypes, DriverTypes, ProcTypes, Places
<1>6. RefInv'
  <2>1. \A b \in Bufs : Users(b)' = Users(b)
    BY <1>0 DEF Users
  <2> QED
    BY <1>0, <2>1 DEF RefInv, TypeOK, ProcTypes
<1>7. LockInv'
  BY <1>0, <1>1 DEF LockInv, TypeOK, ProcTypes, BufferTypes
<1>8. QueueInv'
  <2>1. \A i \in DOMAIN queue' : i \in DOMAIN queue \/ i = Len(queue) + 1
    BY <1>3
  <2>2. \A i \in DOMAIN queue' : lock'[queue'[i]] \in Procs /\ pc'[lock'[queue'[i]]] = "io"
    BY <1>0, <1>1, <1>2, <1>3, <2>1 DEF QueueInv, TypeOK, ProcTypes
  <2>3. \A i, j \in DOMAIN queue' : queue'[i] = queue'[j] => i = j
    BY <1>2, <1>3, <2>1 DEF QueueInv
  <2>4. queue' # <<>>
    BY <1>3
  <2>5. queue # <<>> => 1 \in DOMAIN queue
    BY <1>3
  <2>6. cmd' # 0 => cmd' = queue'[1] /\ irq' = 0
    <3>1. CASE queue = <<>>
      BY <1>0, <1>3, <1>4, <3>1 DEF QueueInv, TypeOK, DriverTypes
    <3>2. CASE queue # <<>>
      BY <1>0, <1>3, <1>4, <2>5, <3>2 DEF QueueInv
    <3> QED
      BY <3>1, <3>2
  <2> QED
    BY <2>2, <2>3, <2>4, <2>6 DEF QueueInv
<1>9. BlockInv' /\ FlagInv'
  BY <1>0 DEF BlockInv, FlagInv, TypeOK, ProcTypes
<1>10. DataInv'
  <2>1. irq = 1 => 1 \in DOMAIN queue
    BY DEF QueueInv, TypeOK, DriverTypes
  <2> QED
    BY <1>0, <1>3, <2>1 DEF DataInv
<1> QED
  BY <1>5, <1>6, <1>7, <1>8, <1>9, <1>10

(* The disk executes its command. *)
LEMMA DiskIInv ==
  ASSUME IInv, Disk
  PROVE  IInv'
<1> USE BcacheAssumption, BufsFact
<1>0. /\ cmd # 0 /\ irq' = 1 /\ cmd' = 0
      /\ \/ /\ cmd \in dirty /\ failed' = failed
            /\ disk' = [disk EXCEPT ![blockno[cmd]] = data[cmd]]
         \/ disk' = disk /\ failed' = 1
         \/ cmd \notin dirty /\ disk' = disk /\ failed' = failed
      /\ UNCHANGED <<blockno, refcnt, valid, dirty, data, lock, queue, latest,
                     pc, buf>>
  BY DEF Disk, bufs
<1> USE DEF IInv
<1>1. cmd \in Bufs /\ cmd = queue[1] /\ queue # <<>>
  BY <1>0 DEF QueueInv, TypeOK, DriverTypes
<1>2. cmd \in dirty => blockno[cmd] \in Blocks /\ cmd \in valid
  BY <1>1 DEF BlockInv, FlagInv, TypeOK, BufferTypes
<1>3. TypeOK'
  BY <1>0, <1>1, <1>2 DEF TypeOK, BufferTypes, DriverTypes, ProcTypes
<1>4. RefInv'
  <2>1. \A b \in Bufs : Users(b)' = Users(b)
    BY <1>0 DEF Users
  <2> QED
    BY <1>0, <2>1 DEF RefInv
<1>5. LockInv' /\ QueueInv'
  BY <1>0, <1>1 DEF LockInv, QueueInv
<1>6. BlockInv' /\ FlagInv'
  BY <1>0 DEF BlockInv, FlagInv
<1>7. ASSUME failed' = 0
      PROVE  /\ failed = 0
             /\ disk' = IF cmd \in dirty
                        THEN [disk EXCEPT ![blockno[cmd]] = data[cmd]] ELSE disk
  BY <1>0, <1>7
<1>8. DataInv'
  BY <1>0, <1>1, <1>2, <1>7 DEF DataInv, TypeOK, DriverTypes
<1> QED
  BY <1>3, <1>4, <1>5, <1>6, <1>8

(* The interrupt handler finishes the request at the head of the queue. *)
LEMMA IdeIntrIInv ==
  ASSUME IInv, IdeIntr
  PROVE  IInv'
<1> USE BcacheAssumption, BufsFact
<1> DEFINE b == Head(queue)
<1>0. /\ irq = 1 /\ irq' = 0
      /\ queue' = Tail(queue) /\ cmd' = idestart(Tail(queue))
      /\ \/ /\ b \notin dirty /\ failed' = failed
            /\ data' = [data EXCEPT ![b] = disk[blockno[b]]]
         \/ data' = data /\ failed' = 1
         \/ b \in dirty /\ data' = data /\ failed' = failed
      /\ valid' = valid \cup {b} /\ dirty' = dirty \ {b}
      /\ pc' = [p \in Procs |-> IF pc[p] = "io" /\ buf[p] = b THEN "held" ELSE pc[p]]
      /\ UNCHANGED <<blockno, refcnt, lock, disk, latest, buf>>
  BY DEF IdeIntr
<1> USE DEF IInv
<1>1. /\ queue \in Seq(Bufs) /\ queue # <<>> /\ b = queue[1] /\ b \in Bufs
      /\ 1 \in DOMAIN queue
  BY <1>0 DEF QueueInv, TypeOK, DriverTypes
<1>2. /\ queue' \in Seq(Bufs) /\ Len(queue') = Len(queue) - 1
      /\ \A i \in DOMAIN queue' : i + 1 \in DOMAIN queue /\ queue'[i] = queue[i + 1]
  BY <1>0, <1>1
<1>3. cmd' = IF queue' = <<>> THEN 0 ELSE queue'[1]
  BY <1>0, <1>2 DEF idestart
<1> HIDE DEF b
<1>4. blockno[b] \in Blocks
  <2>1. lock[b] \in Procs
    BY <1>1 DEF QueueInv
  <2>2. buf[lock[b]] = b
    BY <1>1, <2>1 DEF LockInv
  <2> QED
    BY <1>1, <2>1, <2>2 DEF BlockInv, TypeOK, BufferTypes
<1>5. TypeOK'
  <2>1. BufferTypes'
    <3>1. BufferTypes /\ disk \in [Blocks -> Vals]
      BY DEF TypeOK, DriverTypes
    <3> HIDE DEF IInv
    <3>2. data' \in [Bufs -> Vals]
      <4>1. disk[blockno[b]] \in Vals /\ data \in [Bufs -> Vals]
        BY <1>4, <3>1 DEF BufferTypes
      <4> QED
        BY <1>0, <1>1, <4>1
    <3> QED
      BY <1>0, <1>1, <3>1, <3>2 DEF BufferTypes
  <2>2. DriverTypes'
    BY <1>0, <1>2, <1>3 DEF TypeOK, DriverTypes
  <2>3. ProcTypes'
    BY <1>0 DEF TypeOK, ProcTypes, Places
  <2> QED
    BY <2>1, <2>2, <2>3 DEF TypeOK
<1>6. RefInv'
  <2>1. \A c \in Bufs : Users(c)' = Users(c)
    BY <1>0 DEF Users
  <2> QED
    BY <1>0, <2>1 DEF RefInv
<1>7. LockInv'
  BY <1>0 DEF LockInv, TypeOK, BufferTypes
<1>8. QueueInv'
  <2>1. \A i \in DOMAIN queue' : queue'[i] # b
    <3> SUFFICES ASSUME NEW i \in DOMAIN queue', queue'[i] = b PROVE FALSE
      OBVIOUS
    <3>1. i \in Nat /\ i >= 1
      BY <1>2
    <3>2. i + 1 = 1
      BY <1>1, <1>2 DEF QueueInv
    <3> QED
      BY <3>1, <3>2
  <2>2. \A i \in DOMAIN queue' : lock[queue'[i]] \in Procs /\ pc[lock[queue'[i]]] = "io"
    BY <1>2 DEF QueueInv
  <2>3. \A i \in DOMAIN queue' : buf[lock[queue'[i]]] = queue'[i]
    <3>1. \A i \in DOMAIN queue' : queue'[i] \in Bufs
      BY <1>2
    <3> QED
      BY <2>2, <3>1 DEF LockInv
  <2>4. \A i \in DOMAIN queue' : pc'[lock[queue'[i]]] = "io"
    BY <1>0, <2>1, <2>2, <2>3
  <2>5. \A i, j \in DOMAIN queue' : queue'[i] = queue'[j] => i = j
    <3> SUFFICES ASSUME NEW i \in DOMAIN queue', NEW j \in DOMAIN queue',
                        queue'[i] = queue'[j]
                 PROVE  i = j
      OBVIOUS
    <3>1. i \in Nat /\ j \in Nat
      BY <1>2
    <3>2. i + 1 = j + 1
      BY <1>2 DEF QueueInv
    <3> QED
      BY <3>1, <3>2
  <2> QED
    <3> HIDE DEF IInv
    <3>1. lock' = lock /\ irq' = 0
      BY <1>0
    <3>2. cmd' # 0 => queue' # <<>> /\ cmd' = queue'[1]
      BY <1>3
    <3> QED
      BY <2>2, <2>4, <2>5, <3>1, <3>2 DEF QueueInv
<1>9. BlockInv'
  BY <1>0, <1>4 DEF BlockInv
<1>10. FlagInv'
  <2>1. dirty' \subseteq valid'
    BY <1>0 DEF FlagInv
  <2>2. \A p \in Procs : pc'[p] = "held" => buf[p] \in valid'
    BY <1>0 DEF FlagInv
  <2> QED
    BY <1>0, <2>1, <2>2 DEF FlagInv
<1>11. DataInv'
  <2> SUFFICES ASSUME failed' = 0
               PROVE  /\ \A c \in valid' : data'[c] = latest[blockno[c]]
                      /\ \A k \in Blocks :
                           disk[k] = latest[k] \/ \E c \in dirty' : blockno[c] = k
    BY <1>0 DEF DataInv
  <2>1. failed = 0
    <3> HIDE DEF IInv
    <3> QED
      BY <1>0
  <2>2. CASE b \notin dirty /\ data' = [data EXCEPT ![b] = disk[blockno[b]]]
    <3>1. \A c \in dirty : blockno[c] # blockno[b]
      <4> SUFFICES ASSUME NEW c \in dirty, blockno[c] = blockno[b] PROVE FALSE
        OBVIOUS
      <4>1. c \in Bufs /\ blockno[b] # NoBlock
        BY <1>4 DEF TypeOK, BufferTypes
      <4>2. c = b
        BY <1>1, <4>1 DEF BlockInv
      <4> QED
        BY <2>2, <4>2
    <3>2. disk[blockno[b]] = latest[blockno[b]]
      BY <1>4, <2>1, <3>1 DEF DataInv
    <3>3. /\ \A c \in valid : data[c] = latest[blockno[c]]
          /\ \A k \in Blocks : disk[k] = latest[k] \/ \E c \in dirty : blockno[c] = k
          /\ data \in [Bufs -> Vals] /\ valid \subseteq Bufs
      BY <2>1 DEF DataInv, TypeOK, BufferTypes
    <3> HIDE DEF IInv
    <3>4. dirty' = dirty /\ valid' = valid \cup {b}
      BY <1>0, <2>2
    <3>5. ASSUME NEW c \in valid' PROVE data'[c] = latest[blockno[c]]
      <4>1. CASE c = b
        BY <1>1, <2>2, <3>2, <3>3, <4>1
      <4>2. CASE c # b
        BY <2>2, <3>3, <3>4, <4>2
      <4> QED
        BY <4>1, <4>2
    <3> QED
      BY <3>3, <3>4, <3>5
  <2>3. CASE b \in dirty /\ data' = data
    <3>1. disk[blockno[b]] = latest[blockno[b]]
      BY <1>0, <1>1, <2>1, <2>3 DEF DataInv, FlagInv
    <3> QED
      BY <1>0, <2>1, <2>3, <3>1 DEF DataInv, FlagInv
  <2> QED
    BY <1>0, <2>2, <2>3
<1> QED
  BY <1>5, <1>6, <1>7, <1>8, <1>9, <1>10, <1>11

(* The list and the panic do not matter to the invariant. *)
LEMMA UnchangedIInv ==
  ASSUME IInv, UNCHANGED <<blockno, refcnt, valid, dirty, data, lock, queue, cmd, irq,
                           disk, latest, failed, pc, buf>>
  PROVE  IInv'
<1>1. TypeOK'
  BY DEF IInv, TypeOK, BufferTypes, DriverTypes, ProcTypes
<1>2. RefInv'
  BY DEF IInv, RefInv, Users
<1>3. LockInv' /\ QueueInv'
  BY DEF IInv, LockInv, QueueInv
<1>4. BlockInv' /\ FlagInv' /\ DataInv'
  BY DEF IInv, BlockInv, FlagInv, DataInv
<1> QED
  BY <1>1, <1>2, <1>3, <1>4 DEF IInv

(* Every step preserves it. *)
LEMMA StepIInv == ASSUME IInv, [Next]_vars PROVE IInv'
<1>1. ASSUME NEW p \in Procs, Call(p) \/ Kernel(p) PROVE IInv'
  <2>1. ASSUME NEW k \in Blocks, BgetPanic(p, k) PROVE IInv'
    BY <2>1, UnchangedIInv DEF BgetPanic, bufs
  <2> QED
    BY <1>1, <2>1, BgetHitIInv, BgetMissIInv, WriteIInv, LockIInv, IderwIInv,
       ReleaseIInv, UnrefIInv DEF Call, Kernel
<1>2. ASSUME UNCHANGED vars PROVE IInv'
  BY <1>2, UnchangedIInv DEF vars
<1> QED
  BY <1>1, <1>2, DiskIInv, IdeIntrIInv DEF Next

(* The counts, locks, flags and contents of the buffers agree in every      *)
(* reachable state of bio.c and ide.c.                                      *)
THEOREM Invariance == Spec => []IInv
  BY InitIInv, StepIInv, PTL DEF Spec

(* bread() returns what was last written to the block, and a block never    *)
(* has two buffers.                                                         *)
THEOREM ReadsSeeWrites == Spec => []ReadsLatest
<1>1. ASSUME IInv PROVE ReadsLatest
  <2>1. \A p \in Procs : failed = 0 /\ pc[p] = "held" =>
          data[buf[p]] = latest[blockno[buf[p]]]
    BY <1>1 DEF IInv, FlagInv, DataInv
  <2> QED
    BY <1>1, <2>1 DEF ReadsLatest, IInv, BlockInv
<1> QED
  BY <1>1, Invariance, PTL

(* The driver's queue holds each buffer once, and only buffers whose holder *)
(* sleeps in iderw().                                                       *)
THEOREM DriverOwnsQueue == Spec => []QueueOwned
<1>1. ASSUME IInv PROVE QueueOwned
  <2>1. ASSUME NEW i \in DOMAIN queue
        PROVE  /\ lock[queue[i]] \in Procs /\ pc[lock[queue[i]]] = "io"
               /\ buf[lock[queue[i]]] = queue[i] /\ refcnt[queue[i]] > 0
    <3>1. queue[i] \in Bufs
      BY <1>1 DEF IInv, TypeOK, DriverTypes
    <3>2. lock[queue[i]] \in Procs /\ pc[lock[queue[i]]] = "io"
      BY <1>1 DEF IInv, QueueInv
    <3>3. buf[lock[queue[i]]] = queue[i]
      BY <1>1, <3>1, <3>2 DEF IInv, LockInv
    <3>4. IsFiniteSet(Users(queue[i])) /\ Users(queue[i]) # {}
      BY <3>2, <3>3, FS_Subset, BcacheAssumption DEF Users
    <3>5. Cardinality(Users(queue[i])) \in Nat \ {0}
      BY <3>4, FS_EmptySet, FS_CardinalityType
    <3> QED
      BY <1>1, <3>1, <3>2, <3>3, <3>5 DEF IInv, RefInv
  <2> QED
    BY <1>1, <2>1 DEF QueueOwned, IInv, QueueInv
<1> QED
  BY <1>1, Invariance, PTL
=============================================================================
