----------------------------- MODULE PipeProofs -----------------------------
(***************************************************************************)
(* A pipe is a queue of PIPESIZE bytes, loses no wakeup and is not freed   *)
(* under a process that uses it, for any number of processes and any size  *)
(* of the buffer that divides the range of the counters.                   *)
(***************************************************************************)
EXTENDS Pipe, SequenceTheorems, TLAPS

(* % *)

(* Division with remainder. *)
LEMMA DivMod ==
  ASSUME NEW a \in Nat, NEW m \in Nat, m > 0
  PROVE  \E q \in Nat, s \in 0..(m - 1) : a = m * q + s /\ a % m = s
<1>1. a \div m \in Int /\ a % m \in 0..(m - 1)
  OBVIOUS
<1>2. a = m * (a \div m) + (a % m)
  OBVIOUS
<1>3. a \div m >= 0
  BY <1>1, <1>2
<1> QED
  BY <1>1, <1>2, <1>3

(* The remainder is the only one of its residue class below the modulus. *)
LEMMA ModUnique ==
  ASSUME NEW m \in Nat, m > 0, NEW q \in Nat, NEW s \in 0..(m - 1)
  PROVE  (m * q + s) % m = s
  OBVIOUS

(* A number below the modulus is its own remainder.                        *)
LEMMA ModSmall ==
  ASSUME NEW a \in Nat, NEW m \in Nat, a < m
  PROVE  a % m = a
  OBVIOUS

(* The remainder of a number between the modulus and twice the modulus.    *)
LEMMA ModOnce ==
  ASSUME NEW a \in Nat, NEW m \in Nat, m <= a, a < 2 * m
  PROVE  a % m = a - m
  OBVIOUS

(* Reducing a summand first changes no sum modulo m. *)
LEMMA ModAdd ==
  ASSUME NEW a \in Nat, NEW m \in Nat, m > 0, NEW u \in Nat, u % m = 0
  PROVE  (a + u) % m = a % m
<1>1. PICK q \in Nat, s \in 0..(m - 1) : a = m * q + s /\ a % m = s
  BY DivMod
<1>2. PICK t \in Nat : u = m * t
  BY DivMod
<1>3. a + u = m * (q + t) + s
  BY <1>1, <1>2
<1>4. (m * (q + t) + s) % m = s
  <2>1. q + t \in Nat
    OBVIOUS
  <2> QED
    BY <2>1, ModUnique
<1> QED
  BY <1>1, <1>3, <1>4

(* Numbers less than m apart have different remainders modulo m. *)
LEMMA ModDistinct ==
  ASSUME NEW a \in Nat, NEW b \in Nat, NEW m \in Nat, m > 0, a < b, b < a + m
  PROVE  a % m # b % m
<1> SUFFICES ASSUME a % m = b % m PROVE FALSE
  OBVIOUS
<1>1. PICK q \in Nat, s \in 0..(m - 1) : a = m * q + s /\ a % m = s
  BY DivMod
<1>2. PICK t \in Nat, r \in 0..(m - 1) : b = m * t + r /\ b % m = r
  BY DivMod
<1>3. b - a = m * (t - q)
  BY <1>1, <1>2
<1>4. CASE t <= q
  BY <1>1, <1>2, <1>4
<1>5. CASE t >= q + 1
  <2>1. m * (t - q) >= m
    BY <1>5
  <2> QED
    BY <1>3, <2>1
<1> QED
  BY <1>4, <1>5

-----------------------------------------------------------------------------
(* The counters *)

(* Bytes between the counters r and w. *)
SizeOf(r, w) == (w + UINT - r) % UINT
ContentsOf(r, w, d) == [k \in 1..SizeOf(r, w) |-> d[(r + k - 1) % PIPESIZE]]

CountersOK(r, w, d) ==
  /\ r \in Nat /\ r < UINT
  /\ w \in Nat /\ w < UINT
  /\ SizeOf(r, w) <= PIPESIZE
  /\ d \in [0..(PIPESIZE - 1) -> Bytes]

(* What the assumption on the constants gives. *)
LEMMA Constants ==
  /\ PIPESIZE \in Nat /\ PIPESIZE > 0 /\ UINT \in Nat /\ PIPESIZE < UINT
  /\ UINT % PIPESIZE = 0
  BY PipeAssumption

(* The counters wrap at most once. *)
LEMMA SizeIs ==
  ASSUME NEW r \in Nat, r < UINT, NEW w \in Nat, w < UINT
  PROVE  /\ SizeOf(r, w) \in Nat /\ SizeOf(r, w) < UINT
         /\ w = r + SizeOf(r, w) \/ w + UINT = r + SizeOf(r, w)
         /\ SizeOf(r, w) = 0 <=> r = w
         /\ SizeOf(r, w) = PIPESIZE <=> w = (r + PIPESIZE) % UINT
<1> USE Constants
<1>1. /\ r <= w => SizeOf(r, w) = w - r
      /\ w < r => SizeOf(r, w) = w + UINT - r
  <2>1. r <= w => SizeOf(r, w) = w - r
    BY ModOnce DEF SizeOf
  <2>2. w < r => SizeOf(r, w) = w + UINT - r
    BY ModSmall DEF SizeOf
  <2> QED
    BY <2>1, <2>2
<1>2. /\ r + PIPESIZE < UINT => (r + PIPESIZE) % UINT = r + PIPESIZE
      /\ UINT <= r + PIPESIZE => (r + PIPESIZE) % UINT = r + PIPESIZE - UINT
  <2> DEFINE a == r + PIPESIZE
  <2>1. a \in Nat /\ a < 2 * UINT
    OBVIOUS
  <2> HIDE DEF a
  <2>2. (a < UINT => a % UINT = a) /\ (UINT <= a => a % UINT = a - UINT)
    BY <2>1, ModSmall, ModOnce
  <2> QED
    BY <2>2 DEF a
<1> QED
  BY <1>1, <1>2

(* A counter after the next byte. *)
LEMMA Advance ==
  ASSUME NEW n \in Nat, n < UINT
  PROVE  /\ (n + 1) % UINT \in Nat /\ (n + 1) % UINT < UINT
         /\ \/ (n + 1) % UINT = n + 1
            \/ n + 1 = UINT /\ (n + 1) % UINT = 0
<1>1. n + 1 < UINT => (n + 1) % UINT = n + 1
  <2>1. n + 1 \in Nat
    OBVIOUS
  <2> QED
    BY <2>1, Constants, ModSmall
<1>2. UINT % UINT = 0
  BY Constants, ModOnce
<1> QED
  BY <1>1, <1>2, Constants

(* The contents of the pipe are a sequence of bytes. *)
LEMMA ContentsType ==
  ASSUME NEW r, NEW w, NEW d, CountersOK(r, w, d)
  PROVE  /\ ContentsOf(r, w, d) \in Seq(Bytes)
         /\ Len(ContentsOf(r, w, d)) = SizeOf(r, w)
         /\ \A k \in 1..SizeOf(r, w) : ContentsOf(r, w, d)[k] = d[(r + k - 1) % PIPESIZE]
<1> DEFINE s == SizeOf(r, w)
           c == ContentsOf(r, w, d)
<1>1. s \in Nat
  BY SizeIs DEF CountersOK
<1>2. \A k \in 1..s : (r + k - 1) % PIPESIZE \in 0..(PIPESIZE - 1)
  <2> SUFFICES ASSUME NEW k \in 1..s
               PROVE  (r + k - 1) % PIPESIZE \in 0..(PIPESIZE - 1)
    OBVIOUS
  <2>1. r + k - 1 \in Nat
    BY <1>1 DEF CountersOK
  <2> QED
    BY <2>1, Constants
<1>3. c = [k \in 1..s |-> d[(r + k - 1) % PIPESIZE]]
  BY DEF ContentsOf
<1> HIDE DEF c, s
<1>4. c \in [1..s -> Bytes]
  BY <1>2, <1>3 DEF CountersOK
<1>5. c \in Seq(Bytes)
  BY <1>1, <1>4, SeqDef
<1>6. Len(c) \in Nat /\ 1..Len(c) = 1..s
  BY <1>4, <1>5, LenProperties
<1>7. Len(c) = s
  BY <1>1, <1>6
<1> QED
  BY <1>3, <1>5, <1>7 DEF c, s

(* piperead() takes the oldest byte. *)
LEMMA ReadStep ==
  ASSUME NEW r, NEW w, NEW d, CountersOK(r, w, d), r # w,
         NEW r1, r1 = (r + 1) % UINT
  PROVE  /\ CountersOK(r1, w, d)
         /\ ContentsOf(r, w, d) # <<>>
         /\ ContentsOf(r1, w, d) = Tail(ContentsOf(r, w, d))
<1> USE Constants
<1> DEFINE s == SizeOf(r, w)
           c == ContentsOf(r, w, d)
           s1 == SizeOf(r1, w)
           c1 == ContentsOf(r1, w, d)
<1>0. r \in Nat /\ r < UINT /\ w \in Nat /\ w < UINT
  BY DEF CountersOK
<1>1. /\ s \in Nat /\ s < UINT /\ s > 0 /\ s <= PIPESIZE
      /\ w = r + s \/ w + UINT = r + s
  <2>1. s \in Nat /\ s < UINT /\ s # 0 /\ (w = r + s \/ w + UINT = r + s)
    BY <1>0, SizeIs
  <2>2. s <= PIPESIZE
    BY DEF CountersOK
  <2> QED
    BY <2>1, <2>2
<1>2. r1 = r + 1 \/ (r + 1 = UINT /\ r1 = 0)
  BY <1>0, Advance
<1>3. r1 \in Nat /\ r1 < UINT
  BY <1>0, Advance
<1>4. s1 \in Nat /\ s1 < UINT /\ (w = r1 + s1 \/ w + UINT = r1 + s1)
  BY <1>0, <1>3, SizeIs
<1> HIDE DEF s, s1
<1>5. s1 = s - 1
  BY <1>0, <1>1, <1>2, <1>3, <1>4
<1>6. CountersOK(r1, w, d)
  BY <1>1, <1>3, <1>5 DEF CountersOK, s, s1
<1>7. /\ c \in Seq(Bytes) /\ Len(c) = s
      /\ \A k \in 1..s : c[k] = d[(r + k - 1) % PIPESIZE]
  BY ContentsType DEF s
<1>8. /\ c1 \in Seq(Bytes) /\ Len(c1) = s - 1
      /\ \A k \in 1..(s - 1) : c1[k] = d[(r1 + k - 1) % PIPESIZE]
  BY <1>5, <1>6, ContentsType DEF s1
<1> HIDE DEF c, c1
<1>9. c # <<>>
  BY <1>1, <1>7, EmptySeq
<1>10. ASSUME NEW k \in 1..(s - 1) PROVE c1[k] = c[k + 1]
  <2>1. (r1 + k - 1) % PIPESIZE = (r + k) % PIPESIZE
    <3>1. CASE r1 = r + 1
      <4>1. r1 + k - 1 = r + k
        BY <3>1, <1>0, <1>1
      <4> QED
        BY <4>1
    <3>2. CASE r + 1 = UINT /\ r1 = 0
      <4>1. k - 1 \in Nat
        BY <1>1
      <4>2. ((k - 1) + UINT) % PIPESIZE = (k - 1) % PIPESIZE
        BY <4>1, ModAdd
      <4>3. (k - 1) + UINT = r + k /\ r1 + k - 1 = k - 1
        BY <1>0, <3>2, <4>1
      <4> QED
        BY <4>2, <4>3
    <3> QED
      BY <1>2, <3>1, <3>2
  <2>2. k + 1 \in 1..s /\ r + (k + 1) - 1 = r + k
    BY <1>0, <1>1
  <2>3. c[k + 1] = d[(r + k) % PIPESIZE]
    BY <1>7, <2>2
  <2> QED
    BY <1>8, <2>1, <2>3
<1>11. /\ Tail(c) \in Seq(Bytes) /\ Len(Tail(c)) = s - 1
       /\ \A k \in 1..(s - 1) : Tail(c)[k] = c[k + 1]
  BY <1>7, <1>9, HeadTailProperties
<1>12. c1 = Tail(c)
  BY <1>8, <1>10, <1>11, SeqEqual
<1> QED
  BY <1>6, <1>9, <1>12 DEF c, c1

(* pipewrite() appends a byte, and overwrites none that was not read. *)
LEMMA WriteStep ==
  ASSUME NEW r, NEW w, NEW d, CountersOK(r, w, d), w # (r + PIPESIZE) % UINT,
         NEW b \in Bytes, NEW w1, w1 = (w + 1) % UINT,
         NEW d1 \in [0..(PIPESIZE - 1) -> Bytes], d1[w % PIPESIZE] = b,
         \A i \in 0..(PIPESIZE - 1) : i # w % PIPESIZE => d1[i] = d[i]
  PROVE  /\ CountersOK(r, w1, d1)
         /\ Len(ContentsOf(r, w, d)) < PIPESIZE
         /\ ContentsOf(r, w1, d1) = Append(ContentsOf(r, w, d), b)
<1> USE Constants
<1> DEFINE s == SizeOf(r, w)
           c == ContentsOf(r, w, d)
           s1 == SizeOf(r, w1)
           c1 == ContentsOf(r, w1, d1)
<1>0. r \in Nat /\ r < UINT /\ w \in Nat /\ w < UINT
  BY DEF CountersOK
<1>1. /\ s \in Nat /\ s < PIPESIZE
      /\ w = r + s \/ w + UINT = r + s
  <2>1. s \in Nat /\ s # PIPESIZE /\ (w = r + s \/ w + UINT = r + s)
    BY <1>0, SizeIs
  <2>2. s <= PIPESIZE
    BY DEF CountersOK
  <2> QED
    BY <2>1, <2>2
<1>2. w1 = w + 1 \/ (w + 1 = UINT /\ w1 = 0)
  BY <1>0, Advance
<1>3. w1 \in Nat /\ w1 < UINT
  BY <1>0, Advance
<1>4. s1 \in Nat /\ s1 < UINT /\ (w1 = r + s1 \/ w1 + UINT = r + s1)
  BY <1>0, <1>3, SizeIs
<1> HIDE DEF s, s1
<1>5. s1 = s + 1
  BY <1>0, <1>1, <1>2, <1>3, <1>4
<1>6. w % PIPESIZE \in 0..(PIPESIZE - 1) /\ w % PIPESIZE = (r + s) % PIPESIZE
  <2>1. CASE w = r + s
    BY <1>0, <2>1
  <2>2. CASE w + UINT = r + s
    <3>1. (w + UINT) % PIPESIZE = w % PIPESIZE
      BY <1>0, ModAdd
    <3> QED
      BY <1>0, <2>2, <3>1
  <2> QED
    BY <1>1, <2>1, <2>2
<1>8. CountersOK(r, w1, d1)
  BY <1>0, <1>1, <1>3, <1>5 DEF CountersOK, s, s1
<1>9. /\ c \in Seq(Bytes) /\ Len(c) = s
      /\ \A k \in 1..s : c[k] = d[(r + k - 1) % PIPESIZE]
  BY ContentsType DEF s
<1>10. /\ c1 \in Seq(Bytes) /\ Len(c1) = s + 1
       /\ \A k \in 1..(s + 1) : c1[k] = d1[(r + k - 1) % PIPESIZE]
  <2>1. c1 \in Seq(Bytes)
    BY <1>8, ContentsType
  <2>2. Len(c1) = s1
    BY <1>8, ContentsType DEF s1
  <2>3. \A k \in 1..s1 : c1[k] = d1[(r + k - 1) % PIPESIZE]
    BY <1>8, ContentsType DEF s1
  <2> HIDE DEF c1
  <2> QED
    BY <1>5, <2>1, <2>2, <2>3
<1> HIDE DEF c, c1
<1>11. ASSUME NEW k \in 1..s PROVE c1[k] = c[k]
  <2> DEFINE a == r + k - 1
  <2>1. a \in Nat /\ a < r + s /\ r + s < a + PIPESIZE /\ r + s \in Nat
    BY <1>0, <1>1
  <2>2. c1[k] = d1[a % PIPESIZE] /\ c[k] = d[a % PIPESIZE]
    <3>1. k \in 1..(s + 1)
      BY <1>1
    <3> QED
      BY <1>9, <1>10, <3>1
  <2> HIDE DEF a
  <2>3. a % PIPESIZE # (r + s) % PIPESIZE
    BY <2>1, ModDistinct
  <2>4. a % PIPESIZE \in 0..(PIPESIZE - 1)
    BY <2>1
  <2>5. d1[a % PIPESIZE] = d[a % PIPESIZE]
    BY <1>6, <2>3, <2>4
  <2> QED
    BY <2>2, <2>5
<1>12. c1[s + 1] = b
  <2>1. s + 1 \in 1..(s + 1) /\ r + (s + 1) - 1 = r + s
    BY <1>0, <1>1
  <2>2. c1[s + 1] = d1[(r + s) % PIPESIZE]
    BY <1>10, <2>1
  <2> QED
    BY <1>6, <2>2
<1>13. /\ Append(c, b) \in Seq(Bytes) /\ Len(Append(c, b)) = s + 1
       /\ \A k \in 1..s : Append(c, b)[k] = c[k]
       /\ Append(c, b)[s + 1] = b
  <2>1. /\ Append(c, b) \in Seq(Bytes) /\ Len(Append(c, b)) = Len(c) + 1
        /\ \A k \in 1..Len(c) : Append(c, b)[k] = c[k]
        /\ Append(c, b)[Len(c) + 1] = b
    BY <1>9, AppendProperties
  <2> QED
    BY <1>9, <2>1
<1>14. \A k \in 1..(s + 1) : c1[k] = Append(c, b)[k]
  <2>1. \A k \in 1..(s + 1) : k \in 1..s \/ k = s + 1
    BY <1>1
  <2> QED
    BY <1>11, <1>12, <1>13, <2>1
<1>15. c1 = Append(c, b)
  BY <1>10, <1>13, <1>14, SeqEqual
<1> QED
  BY <1>1, <1>8, <1>9, <1>15 DEF c, c1

-----------------------------------------------------------------------------
(* The inductive invariant *)

Reading == {"read", "test", "rdoze", "rsleep", "copy"}
Writing == {"write", "loop", "wdoze", "wsleep"}
Locked == {"test", "rdoze", "copy", "loop", "wdoze"}

(* Every variable has its type. *)
TypeOK ==
  /\ lock \in Procs \cup {NoProc}
  /\ CountersOK(nread, nwrite, data)
  /\ readopen \in {0, 1} /\ writeopen \in {0, 1} /\ freed \in {0, 1}
  /\ ends \in [Procs -> SUBSET {"r", "w"}]
  /\ killed \subseteq Procs
  /\ pc \in [Procs -> {"unborn", "user"} \cup Reading \cup Writing]
  /\ left \in [Procs -> Nat]

LockInv == \A p \in Procs : lock = p <=> pc[p] \in Locked

(* A process in piperead() or pipewrite() has that end open. *)
EndsInv ==
  \A p \in Procs :
    /\ pc[p] \in Reading => "r" \in ends[p]
    /\ pc[p] \in Writing => "w" \in ends[p]
    /\ pc[p] = "unborn" => ends[p] = {}

(* readopen and writeopen say whether somebody has the end open. *)
OpenInv ==
  /\ readopen = 0 <=> \A p \in Procs : "r" \notin ends[p]
  /\ writeopen = 0 <=> \A p \in Procs : "w" \notin ends[p]
  /\ freed = 1 => readopen = 0 /\ writeopen = 0

(* A sleeper has to wait, or the process in the loop that feeds it has its  *)
(* wakeup still to come.                                                    *)
WaitInv ==
  killed = {} => \A p \in Procs :
    /\ pc[p] = "rdoze" => Empty /\ writeopen = 1
    /\ pc[p] = "wdoze" => Full /\ readopen = 1
    /\ pc[p] = "rsleep" => writeopen = 1 /\ (Empty \/ \E q \in Procs : pc[q] = "loop")
    /\ pc[p] = "wsleep" => readopen = 1 /\ (Full \/ \E q \in Procs : pc[q] = "copy")

IInv == TypeOK /\ LockInv /\ EndsInv /\ OpenInv /\ WaitInv

(* One lemma for each action: it preserves the invariant. *)
LEMMA UnchangedIInv == ASSUME IInv, UNCHANGED vars PROVE IInv'
  BY DEF vars, IInv, TypeOK, LockInv, EndsInv, OpenInv, WaitInv, Empty, Full

(* pipewrite() takes the lock.                                             *)
LEMMA WriteAcquireIInv == ASSUME IInv, NEW p \in Procs, WriteAcquire(p) PROVE IInv'
<1> USE PipeAssumption DEF IInv, WriteAcquire, pipe
<1>1. TypeOK'
  BY DEF TypeOK, Reading, Writing
<1>2. LockInv'
  BY DEF TypeOK, LockInv, Locked
<1>3. EndsInv'
  BY DEF TypeOK, EndsInv, Reading, Writing
<1>4. OpenInv'
  BY DEF TypeOK, OpenInv, EndsInv
<1>5. WaitInv'
  BY DEF TypeOK, WaitInv, LockInv, Locked, OpenInv, EndsInv, Reading, Writing, Empty, Full
<1> QED
  BY <1>1, <1>2, <1>3, <1>4, <1>5

(* pipewrite() returns -1.                                                 *)
LEMMA WriteFailIInv == ASSUME IInv, NEW p \in Procs, WriteFail(p) PROVE IInv'
<1> USE PipeAssumption DEF IInv, WriteFail, pipe
<1>1. TypeOK'
  BY DEF TypeOK, Reading, Writing
<1>2. LockInv'
  BY DEF TypeOK, LockInv, Locked
<1>3. EndsInv'
  BY DEF TypeOK, EndsInv, Reading, Writing
<1>4. OpenInv'
  BY DEF TypeOK, OpenInv, EndsInv
<1>5. WaitInv'
  BY DEF TypeOK, WaitInv, LockInv, Locked, OpenInv, EndsInv, Reading, Writing, Empty, Full
<1> QED
  BY <1>1, <1>2, <1>3, <1>4, <1>5

(* pipewrite() finds the buffer full and wakes the readers.                *)
LEMMA WriteFullIInv == ASSUME IInv, NEW p \in Procs, WriteFull(p) PROVE IInv'
<1> USE PipeAssumption DEF IInv, WriteFull, pipe, WakeReaders
<1>1. TypeOK'
  BY DEF TypeOK, Reading, Writing
<1>2. LockInv'
  BY DEF TypeOK, LockInv, Locked
<1>3. EndsInv'
  BY DEF TypeOK, EndsInv, Reading, Writing
<1>4. OpenInv'
  BY DEF TypeOK, OpenInv, EndsInv
<1>5. WaitInv'
  BY DEF TypeOK, WaitInv, LockInv, Locked, OpenInv, EndsInv, Reading, Writing, Empty, Full
<1> QED
  BY <1>1, <1>2, <1>3, <1>4, <1>5

(* pipewrite() goes to sleep.                                              *)
LEMMA WriteSleepIInv == ASSUME IInv, NEW p \in Procs, WriteSleep(p) PROVE IInv'
<1> USE PipeAssumption DEF IInv, WriteSleep, pipe
<1>1. TypeOK'
  BY DEF TypeOK, Reading, Writing
<1>2. LockInv'
  BY DEF TypeOK, LockInv, Locked
<1>3. EndsInv'
  BY DEF TypeOK, EndsInv, Reading, Writing
<1>4. OpenInv'
  BY DEF TypeOK, OpenInv, EndsInv
<1>5. WaitInv'
  BY DEF TypeOK, WaitInv, LockInv, Locked, OpenInv, EndsInv, Reading, Writing, Empty, Full
<1> QED
  BY <1>1, <1>2, <1>3, <1>4, <1>5

(* pipewrite() wakes the readers and returns.                              *)
LEMMA WriteDoneIInv == ASSUME IInv, NEW p \in Procs, WriteDone(p) PROVE IInv'
<1> USE PipeAssumption DEF IInv, WriteDone, pipe, WakeReaders
<1>1. TypeOK'
  BY DEF TypeOK, Reading, Writing
<1>2. LockInv'
  BY DEF TypeOK, LockInv, Locked
<1>3. EndsInv'
  BY DEF TypeOK, EndsInv, Reading, Writing
<1>4. OpenInv'
  BY DEF TypeOK, OpenInv, EndsInv
<1>5. WaitInv'
  BY DEF TypeOK, WaitInv, LockInv, Locked, OpenInv, EndsInv, Reading, Writing, Empty, Full
<1> QED
  BY <1>1, <1>2, <1>3, <1>4, <1>5

(* piperead() takes the lock.                                              *)
LEMMA ReadAcquireIInv == ASSUME IInv, NEW p \in Procs, ReadAcquire(p) PROVE IInv'
<1> USE PipeAssumption DEF IInv, ReadAcquire, pipe
<1>1. TypeOK'
  BY DEF TypeOK, Reading, Writing
<1>2. LockInv'
  BY DEF TypeOK, LockInv, Locked
<1>3. EndsInv'
  BY DEF TypeOK, EndsInv, Reading, Writing
<1>4. OpenInv'
  BY DEF TypeOK, OpenInv, EndsInv
<1>5. WaitInv'
  BY DEF TypeOK, WaitInv, LockInv, Locked, OpenInv, EndsInv, Reading, Writing, Empty, Full
<1> QED
  BY <1>1, <1>2, <1>3, <1>4, <1>5

(* piperead() returns -1.                                                  *)
LEMMA ReadFailIInv == ASSUME IInv, NEW p \in Procs, ReadFail(p) PROVE IInv'
<1> USE PipeAssumption DEF IInv, ReadFail, pipe
<1>1. TypeOK'
  BY DEF TypeOK, Reading, Writing
<1>2. LockInv'
  BY DEF TypeOK, LockInv, Locked
<1>3. EndsInv'
  BY DEF TypeOK, EndsInv, Reading, Writing
<1>4. OpenInv'
  BY DEF TypeOK, OpenInv, EndsInv
<1>5. WaitInv'
  BY DEF TypeOK, WaitInv, LockInv, Locked, OpenInv, EndsInv, Reading, Writing, Empty, Full
<1> QED
  BY <1>1, <1>2, <1>3, <1>4, <1>5

(* piperead() finds the buffer empty.                                      *)
LEMMA ReadEmptyIInv == ASSUME IInv, NEW p \in Procs, ReadEmpty(p) PROVE IInv'
<1> USE PipeAssumption DEF IInv, ReadEmpty, pipe
<1>1. TypeOK'
  BY DEF TypeOK, Reading, Writing
<1>2. LockInv'
  BY DEF TypeOK, LockInv, Locked
<1>3. EndsInv'
  BY DEF TypeOK, EndsInv, Reading, Writing
<1>4. OpenInv'
  BY DEF TypeOK, OpenInv, EndsInv
<1>5. WaitInv'
  BY DEF TypeOK, WaitInv, LockInv, Locked, OpenInv, EndsInv, Reading, Writing, Empty, Full
<1> QED
  BY <1>1, <1>2, <1>3, <1>4, <1>5

(* piperead() goes to sleep.                                               *)
LEMMA ReadSleepIInv == ASSUME IInv, NEW p \in Procs, ReadSleep(p) PROVE IInv'
<1> USE PipeAssumption DEF IInv, ReadSleep, pipe
<1>1. TypeOK'
  BY DEF TypeOK, Reading, Writing
<1>2. LockInv'
  BY DEF TypeOK, LockInv, Locked
<1>3. EndsInv'
  BY DEF TypeOK, EndsInv, Reading, Writing
<1>4. OpenInv'
  BY DEF TypeOK, OpenInv, EndsInv
<1>5. WaitInv'
  BY DEF TypeOK, WaitInv, LockInv, Locked, OpenInv, EndsInv, Reading, Writing, Empty, Full
<1> QED
  BY <1>1, <1>2, <1>3, <1>4, <1>5

(* piperead() starts to copy.                                              *)
LEMMA ReadStartIInv == ASSUME IInv, NEW p \in Procs, ReadStart(p) PROVE IInv'
<1> USE PipeAssumption DEF IInv, ReadStart, pipe
<1>1. TypeOK'
  BY DEF TypeOK, Reading, Writing
<1>2. LockInv'
  BY DEF TypeOK, LockInv, Locked
<1>3. EndsInv'
  BY DEF TypeOK, EndsInv, Reading, Writing
<1>4. OpenInv'
  BY DEF TypeOK, OpenInv, EndsInv
<1>5. WaitInv'
  BY DEF TypeOK, WaitInv, LockInv, Locked, OpenInv, EndsInv, Reading, Writing, Empty, Full
<1> QED
  BY <1>1, <1>2, <1>3, <1>4, <1>5

(* piperead() wakes the writers and returns.                               *)
LEMMA ReadDoneIInv == ASSUME IInv, NEW p \in Procs, ReadDone(p) PROVE IInv'
<1> USE PipeAssumption DEF IInv, ReadDone, pipe, WakeWriters
<1>1. TypeOK'
  BY DEF TypeOK, Reading, Writing
<1>2. LockInv'
  BY DEF TypeOK, LockInv, Locked
<1>3. EndsInv'
  BY DEF TypeOK, EndsInv, Reading, Writing
<1>4. OpenInv'
  BY DEF TypeOK, OpenInv, EndsInv
<1>5. WaitInv'
  BY DEF TypeOK, WaitInv, LockInv, Locked, OpenInv, EndsInv, Reading, Writing, Empty, Full
<1> QED
  BY <1>1, <1>2, <1>3, <1>4, <1>5

(* kill() marks a process, and wakes it.                                   *)
LEMMA KillIInv == ASSUME IInv, NEW p \in Procs, Kill(p) PROVE IInv'
<1> USE PipeAssumption DEF IInv, Kill, pipe
<1>1. TypeOK'
  BY DEF TypeOK, Reading, Writing
<1>2. LockInv'
  BY DEF TypeOK, LockInv, Locked
<1>3. EndsInv'
  BY DEF TypeOK, EndsInv, Reading, Writing
<1>4. OpenInv'
  BY DEF TypeOK, OpenInv, EndsInv
<1>5. WaitInv'
  BY DEF TypeOK, WaitInv, LockInv, Locked, OpenInv, EndsInv, Reading, Writing, Empty, Full
<1> QED
  BY <1>1, <1>2, <1>3, <1>4, <1>5

(* A process calls pipewrite().                                            *)
LEMMA WriteCallIInv == ASSUME IInv, NEW p \in Procs, NEW m \in 0..MaxN, WriteCall(p, m) PROVE IInv'
<1> USE PipeAssumption DEF IInv, WriteCall, pipe, InUser
<1>1. TypeOK'
  BY DEF TypeOK, Reading, Writing
<1>2. LockInv'
  BY DEF TypeOK, LockInv, Locked
<1>3. EndsInv'
  BY DEF TypeOK, EndsInv, Reading, Writing
<1>4. OpenInv'
  BY DEF TypeOK, OpenInv, EndsInv
<1>5. WaitInv'
  BY DEF TypeOK, WaitInv, LockInv, Locked, OpenInv, EndsInv, Reading, Writing, Empty, Full
<1> QED
  BY <1>1, <1>2, <1>3, <1>4, <1>5

(* A process calls piperead().                                             *)
LEMMA ReadCallIInv == ASSUME IInv, NEW p \in Procs, NEW m \in 0..MaxN, ReadCall(p, m) PROVE IInv'
<1> USE PipeAssumption DEF IInv, ReadCall, pipe, InUser
<1>1. TypeOK'
  BY DEF TypeOK, Reading, Writing
<1>2. LockInv'
  BY DEF TypeOK, LockInv, Locked
<1>3. EndsInv'
  BY DEF TypeOK, EndsInv, Reading, Writing
<1>4. OpenInv'
  BY DEF TypeOK, OpenInv, EndsInv
<1>5. WaitInv'
  BY DEF TypeOK, WaitInv, LockInv, Locked, OpenInv, EndsInv, Reading, Writing, Empty, Full
<1> QED
  BY <1>1, <1>2, <1>3, <1>4, <1>5

(* fork() duplicates the descriptors.                                      *)
LEMMA ForkIInv == ASSUME IInv, NEW p \in Procs, NEW q \in Procs, Fork(p, q) PROVE IInv'
<1> USE PipeAssumption DEF IInv, Fork, pipe, InUser
<1>1. TypeOK'
  BY DEF TypeOK, Reading, Writing
<1>2. LockInv'
  BY DEF TypeOK, LockInv, Locked
<1>3. EndsInv'
  BY DEF TypeOK, EndsInv, Reading, Writing
<1>4. OpenInv'
  BY DEF TypeOK, OpenInv, EndsInv
<1>5. WaitInv'
  BY DEF TypeOK, WaitInv, LockInv, Locked, OpenInv, EndsInv, Reading, Writing, Empty, Full
<1> QED
  BY <1>1, <1>2, <1>3, <1>4, <1>5

(* pipeclose() wakes the other side, or frees the pipe.                    *)
LEMMA CloseIInv == ASSUME IInv, NEW p \in Procs, NEW e \in {"r", "w"}, Close(p, e) PROVE IInv'
<1> USE PipeAssumption DEF IInv
<1>1. /\ pc[p] = "user" /\ e \in ends[p]
      /\ ends' = [ends EXCEPT ![p] = ends[p] \ {e}]
      /\ UNCHANGED <<lock, nread, nwrite, data, killed, left>>
  BY DEF Close, pipe
<1>2. CASE \E q \in Procs \ {p} : e \in ends[q]
  <2>1. UNCHANGED <<readopen, writeopen, freed, pc>>
    BY <1>2 DEF Close, pipe
  <2>2. TypeOK' /\ LockInv'
    BY <1>1, <2>1 DEF TypeOK, LockInv
  <2>3. EndsInv'
    BY <1>1, <2>1 DEF TypeOK, EndsInv, Reading, Writing
  <2>4. OpenInv'
    BY <1>1, <1>2, <2>1 DEF TypeOK, OpenInv
  <2>5. WaitInv'
    BY <1>1, <2>1 DEF WaitInv, Empty, Full
  <2> QED
    BY <2>2, <2>3, <2>4, <2>5
<1>3. CASE e = "r" /\ ~\E q \in Procs \ {p} : e \in ends[q]
  <2>1. /\ lock = NoProc /\ readopen' = 0 /\ writeopen' = writeopen
        /\ freed' = IF writeopen = 0 THEN 1 ELSE freed
        /\ pc' = WakeWriters(p, "user")
    BY <1>3 DEF Close
  <2> USE DEF WakeWriters
  <2>2. TypeOK'
    BY <1>1, <2>1 DEF TypeOK, Reading, Writing
  <2>3. LockInv'
    BY <1>1, <2>1 DEF TypeOK, LockInv, Locked
  <2>4. EndsInv'
    BY <1>1, <2>1 DEF TypeOK, EndsInv, Reading, Writing
  <2>5. OpenInv'
    BY <1>1, <1>3, <2>1 DEF TypeOK, OpenInv
  <2>6. WaitInv'
    BY <1>1, <2>1 DEF TypeOK, WaitInv, LockInv, Locked, Empty, Full
  <2> QED
    BY <2>2, <2>3, <2>4, <2>5, <2>6
<1>4. CASE e = "w" /\ ~\E q \in Procs \ {p} : e \in ends[q]
  <2>1. /\ lock = NoProc /\ writeopen' = 0 /\ readopen' = readopen
        /\ freed' = IF readopen = 0 THEN 1 ELSE freed
        /\ pc' = WakeReaders(p, "user")
    BY <1>4 DEF Close
  <2> USE DEF WakeReaders
  <2>2. TypeOK'
    BY <1>1, <2>1 DEF TypeOK, Reading, Writing
  <2>3. LockInv'
    BY <1>1, <2>1 DEF TypeOK, LockInv, Locked
  <2>4. EndsInv'
    BY <1>1, <2>1 DEF TypeOK, EndsInv, Reading, Writing
  <2>5. OpenInv'
    BY <1>1, <1>4, <2>1 DEF TypeOK, OpenInv
  <2>6. WaitInv'
    BY <1>1, <2>1 DEF TypeOK, WaitInv, LockInv, Locked, Empty, Full
  <2> QED
    BY <2>2, <2>3, <2>4, <2>5, <2>6
<1> QED
  BY <1>2, <1>3, <1>4

(* pipewrite() appends a byte.                                             *)
LEMMA WriteByteIInv ==
  ASSUME IInv, NEW p \in Procs, NEW b \in Bytes, WriteByte(p, b)
  PROVE  IInv' /\ Len(Contents) < PIPESIZE /\ Contents' = Append(Contents, b)
<1> USE PipeAssumption DEF IInv
<1>1. /\ pc[p] = "loop" /\ left[p] > 0 /\ ~Full
      /\ data' = [data EXCEPT ![nwrite % PIPESIZE] = b]
      /\ nwrite' = (nwrite + 1) % UINT
      /\ left' = [left EXCEPT ![p] = left[p] - 1]
      /\ UNCHANGED <<lock, nread, readopen, writeopen, freed, ends, killed, pc>>
  BY DEF WriteByte
<1>2. /\ CountersOK(nread, nwrite', data')
      /\ Len(ContentsOf(nread, nwrite, data)) < PIPESIZE
      /\ ContentsOf(nread, nwrite', data') = Append(ContentsOf(nread, nwrite, data), b)
  <2>1. CountersOK(nread, nwrite, data) /\ nwrite # (nread + PIPESIZE) % UINT
    BY <1>1 DEF TypeOK, Full
  <2>2. /\ data' \in [0..(PIPESIZE - 1) -> Bytes] /\ data'[nwrite % PIPESIZE] = b
        /\ \A i \in 0..(PIPESIZE - 1) : i # nwrite % PIPESIZE => data'[i] = data[i]
    <3>1. nwrite % PIPESIZE \in 0..(PIPESIZE - 1)
      BY Constants DEF TypeOK, CountersOK
    <3> QED
      BY <1>1, <3>1 DEF TypeOK, CountersOK
  <2>3. nwrite' = (nwrite + 1) % UINT
    BY <1>1
  <2>4. CountersOK(nread, nwrite', data')
    BY <2>1, <2>2, <2>3, WriteStep
  <2>5. Len(ContentsOf(nread, nwrite, data)) < PIPESIZE
    BY <2>1, <2>2, <2>3, WriteStep
  <2>6. ContentsOf(nread, nwrite', data') = Append(ContentsOf(nread, nwrite, data), b)
    BY <2>1, <2>2, <2>3, WriteStep
  <2> QED
    BY <2>4, <2>5, <2>6
<1>3. Len(Contents) < PIPESIZE /\ Contents' = Append(Contents, b)
  <2>1. Contents = ContentsOf(nread, nwrite, data)
    BY DEF Contents, ContentsOf, SizeOf
  <2>2. Contents' = ContentsOf(nread', nwrite', data')
    BY DEF Contents, ContentsOf, SizeOf
  <2> QED
    BY <1>1, <1>2, <2>1, <2>2
<1>4. TypeOK'
  <2>1. left' \in [Procs -> Nat]
    BY <1>1 DEF TypeOK
  <2> QED
    BY <1>1, <1>2, <2>1 DEF TypeOK
<1>5. LockInv' /\ EndsInv' /\ OpenInv'
  BY <1>1 DEF LockInv, EndsInv, OpenInv
<1>6. WaitInv'
  <2>1. \A q \in Procs : pc[q] \in Locked => q = p
    BY <1>1 DEF LockInv, Locked
  <2>2. killed = {} => \A q \in Procs : pc[q] # "wsleep"
    BY <1>1, <2>1 DEF WaitInv, Locked
  <2> QED
    BY <1>1, <2>1, <2>2 DEF WaitInv, Locked
<1> QED
  BY <1>3, <1>4, <1>5, <1>6

(* piperead() removes a byte.                                              *)
LEMMA ReadByteIInv ==
  ASSUME IInv, NEW p \in Procs, ReadByte(p)
  PROVE  IInv' /\ Contents # <<>> /\ Contents' = Tail(Contents)
<1> USE PipeAssumption DEF IInv
<1>1. /\ pc[p] = "copy" /\ left[p] > 0 /\ ~Empty
      /\ nread' = (nread + 1) % UINT
      /\ left' = [left EXCEPT ![p] = left[p] - 1]
      /\ UNCHANGED <<lock, nwrite, data, readopen, writeopen, freed, ends, killed, pc>>
  BY DEF ReadByte
<1>2. /\ CountersOK(nread', nwrite, data)
      /\ ContentsOf(nread, nwrite, data) # <<>>
      /\ ContentsOf(nread', nwrite, data) = Tail(ContentsOf(nread, nwrite, data))
  BY <1>1, ReadStep DEF TypeOK, Empty
<1>3. Contents # <<>> /\ Contents' = Tail(Contents)
  <2>1. Contents = ContentsOf(nread, nwrite, data)
    BY DEF Contents, ContentsOf, SizeOf
  <2>2. Contents' = ContentsOf(nread', nwrite', data')
    BY DEF Contents, ContentsOf, SizeOf
  <2> QED
    BY <1>1, <1>2, <2>1, <2>2
<1>4. TypeOK'
  <2>1. left' \in [Procs -> Nat]
    BY <1>1 DEF TypeOK
  <2> QED
    BY <1>1, <1>2, <2>1 DEF TypeOK
<1>5. LockInv' /\ EndsInv' /\ OpenInv'
  BY <1>1 DEF LockInv, EndsInv, OpenInv
<1>6. WaitInv'
  <2>1. \A q \in Procs : pc[q] \in Locked => q = p
    BY <1>1 DEF LockInv, Locked
  <2>2. killed = {} => \A q \in Procs : pc[q] # "rsleep"
    BY <1>1, <2>1 DEF WaitInv, Locked
  <2> QED
    BY <1>1, <2>1, <2>2 DEF WaitInv, Locked
<1> QED
  BY <1>3, <1>4, <1>5, <1>6

-----------------------------------------------------------------------------
(* The theorems *)

(* pipealloc() establishes the invariant, with an empty queue. *)
LEMMA InitIInv == ASSUME Init PROVE IInv /\ Contents = <<>>
<1> USE PipeAssumption, Constants DEF Init
<1>1. SizeOf(0, 0) = 0
  BY SizeIs
<1>2. CountersOK(nread, nwrite, data)
  BY <1>1 DEF CountersOK
<1>3. TypeOK
  BY <1>2 DEF TypeOK
<1>4. LockInv /\ EndsInv
  BY DEF LockInv, EndsInv, Locked, Reading, Writing
<1>5. OpenInv /\ WaitInv
  BY DEF OpenInv, WaitInv
<1>6. Contents = <<>>
  <2>1. Contents = ContentsOf(nread, nwrite, data)
    BY DEF Contents, ContentsOf, SizeOf
  <2>2. Contents \in Seq(Bytes) /\ Len(Contents) = 0
    BY <1>1, <1>2, <2>1, ContentsType
  <2> QED
    BY <2>2, EmptySeq
<1> QED
  BY <1>3, <1>4, <1>5, <1>6 DEF IInv

(* Steps that move no byte. *)
Quiet(p) ==
  \/ WriteAcquire(p) \/ WriteFail(p) \/ WriteFull(p) \/ WriteSleep(p)
  \/ WriteDone(p) \/ ReadAcquire(p) \/ ReadFail(p) \/ ReadEmpty(p)
  \/ ReadSleep(p) \/ ReadStart(p) \/ ReadDone(p) \/ User(p) \/ Kill(p)

(* The steps that move no byte keep the invariant.                         *)
LEMMA QuietIInv == ASSUME IInv, NEW p \in Procs, Quiet(p) PROVE IInv'
<1>1. CASE User(p)
  BY <1>1, ForkIInv, CloseIInv, WriteCallIInv, ReadCallIInv DEF User
<1> QED
  BY <1>1, WriteAcquireIInv, WriteFailIInv, WriteFullIInv, WriteSleepIInv,
     WriteDoneIInv, ReadAcquireIInv, ReadFailIInv, ReadEmptyIInv, ReadSleepIInv,
     ReadStartIInv, ReadDoneIInv, KillIInv DEF Quiet

(* Actions other than the two that move a byte leave the queue alone. *)
LEMMA QuietFrame ==
  ASSUME NEW p \in Procs, Quiet(p) PROVE UNCHANGED <<nread, nwrite, data>>
<1>1. ASSUME NEW e \in {"r", "w"}, Close(p, e) PROVE UNCHANGED <<nread, nwrite, data>>
  BY <1>1 DEF Close, pipe
<1>2. CASE User(p)
  BY <1>1, <1>2 DEF User, Fork, WriteCall, ReadCall, pipe
<1> QED
  BY <1>2 DEF Quiet, WriteAcquire, WriteFail, WriteFull, WriteSleep, WriteDone,
     ReadAcquire, ReadFail, ReadEmpty, ReadSleep, ReadStart, ReadDone, Kill, pipe

(* A step moves no byte, or one in, or one out.                            *)
LEMMA NextIs ==
  ASSUME Next
  PROVE  \E p \in Procs : Quiet(p) \/ ReadByte(p) \/ \E b \in Bytes : WriteByte(p, b)
  BY DEF Next, Writer, Reader, Quiet

(* Every step keeps the invariant.                                         *)
LEMMA StepIInv == ASSUME IInv, [Next]_vars PROVE IInv'
  BY NextIs, QuietIInv, WriteByteIInv, ReadByteIInv, UnchangedIInv

(* Every step is a step of the abstract queue or leaves it alone. *)
LEMMA StepRefines == ASSUME IInv, [Next]_vars PROVE [Queue!Next]_Contents
<1>1. ASSUME UNCHANGED <<nread, nwrite, data>> PROVE Contents' = Contents
  BY <1>1 DEF Contents
<1>2. ASSUME NEW p \in Procs, NEW b \in Bytes, WriteByte(p, b) PROVE Queue!Next
  BY <1>2, WriteByteIInv DEF Queue!Next, Queue!Put
<1>3. ASSUME NEW p \in Procs, ReadByte(p) PROVE Queue!Next
  BY <1>3, ReadByteIInv DEF Queue!Next, Queue!Get
<1>4. CASE UNCHANGED vars
  BY <1>1, <1>4 DEF vars
<1>5. CASE Next
  BY <1>1, <1>2, <1>3, <1>5, NextIs, QuietFrame
<1> QED
  BY <1>4, <1>5

(* Pipes of any size, with any number of processes, keep the inductive invariant of pipe.c. *)
THEOREM Invariance == Spec => []IInv
  BY InitIInv, StepIInv, PTL DEF Spec

(* The circular buffer of pipe.c is a queue of PIPESIZE bytes, wherever its *)
(* counters overflow and however readers and writers interleave.            *)
THEOREM Refinement == Spec => ImplementsFifo
<1>1. Init => Queue!Init
  BY InitIInv DEF Queue!Init
<1> QED
  BY <1>1, Invariance, StepRefines, PTL DEF Spec, ImplementsFifo, Queue!Spec

(* pipeclose() frees the page of the pipe only when nobody uses it or can.  *)
THEOREM FreedUnused == Spec => []NoUseAfterFree
<1>1. ASSUME IInv PROVE NoUseAfterFree
  <2> SUFFICES ASSUME freed = 1, NEW p \in Procs
               PROVE  pc[p] \in {"unborn", "user"} /\ ends[p] = {}
    BY DEF NoUseAfterFree
  <2>1. "r" \notin ends[p] /\ "w" \notin ends[p] /\ ends[p] \subseteq {"r", "w"}
    BY <1>1 DEF IInv, OpenInv, TypeOK
  <2> QED
    BY <1>1, <2>1 DEF IInv, TypeOK, EndsInv
<1> QED
  BY <1>1, Invariance, PTL

(* pipewrite(), piperead() and pipeclose() miss no wakeup.                  *)
THEOREM WakeupsComplete == Spec => []UnkilledMustWait
<1>1. ASSUME IInv PROVE UnkilledMustWait
  <2>1. lock = NoProc => \A q \in Procs : pc[q] \notin Locked
    BY <1>1, PipeAssumption DEF IInv, LockInv
  <2> QED
    BY <1>1, <2>1 DEF IInv, WaitInv, UnkilledMustWait, Locked
<1> QED
  BY <1>1, Invariance, PTL
=============================================================================
