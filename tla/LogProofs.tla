----------------------------- MODULE LogProofs ------------------------------
(***************************************************************************)
(* Crash safety of the log for every number of calls, blocks and contents: *)
(* the inductive invariant IInv, and the proof that the log implements     *)
(* Transactions.                                                           *)
(***************************************************************************)
EXTENDS Log, FiniteSetTheorems, TLAPS

(* A call in log_write() has one buffer locked, and nobody else has it. *)
CallInv ==
  /\ \A p \in Ops : pc[p] = "append" => \E b \in Blocks : buf[p] = {b}
  /\ \A p \in Ops : pc[p] # "append" => buf[p] = {}
  /\ \A p, q \in Ops : \A b \in Blocks : b \in buf[p] /\ b \in buf[q] => p = q

Active == {p \in Ops : InOp(p)}

(* outstanding counts the calls in progress, and a transaction that is not  *)
(* being committed belongs to them.                                         *)
CountInv ==
  /\ outstanding = Cardinality(Active)
  /\ phase = "run" /\ outstanding = 0 => n = 0

PhaseInv ==
  /\ committing = 1 <=> phase \in {"commit", "write_log", "install", "finish"}
  /\ Booting => \A p \in Ops : pc[p] = "idle"

(* Headers name every block once. *)
HeadInv ==
  /\ n <= LOGSIZE /\ dn <= LOGSIZE
  /\ \A i \in Slots : i < n => block[i] \in Blocks
  /\ \A i \in Slots : i < dn => dblock[i] \in Blocks
  /\ \A i, j \in Slots : i < n /\ j < n /\ block[i] = block[j] => i = j
  /\ \A i, j \in Slots : i < dn /\ j < dn /\ dblock[i] = dblock[j] => i = j

(* The header on disk is that of the transaction being installed. *)
SameHead == dn = n /\ \A i \in Slots : i < n => dblock[i] = block[i]
InstalledTo == tail <= n /\ \A i \in Slots : i < tail => disk[block[i]] = dlog[i]

DiskInv ==
  /\ phase \in {"run", "commit", "write_log", "finish"} => dn = 0
  /\ phase \in {"recover", "install"} => SameHead /\ InstalledTo
  /\ phase = "write_log" =>
       tail <= n /\ \A i \in Slots : i < tail => dlog[i] = cache[block[i]]
  /\ phase = "install" => \A i \in Slots : i < n => dlog[i] = cache[block[i]]
  /\ phase = "finish" => n = 0
  /\ Booting => cache = disk /\ dirty = {}

(* A dirty buffer is that of a logged block that is not installed yet. *)
DirtyInv ==
  \A b \in dirty :
    \E i \in Slots : i < n /\ block[i] = b /\ (phase = "install" => tail <= i)

IInv ==
  /\ TypeOK /\ CallInv /\ CountInv /\ PhaseInv /\ CommitExclusive /\ HeadInv
  /\ DiskInv /\ DirtyInv /\ Pinned /\ SleepersHaveWaker

-----------------------------------------------------------------------------

(* The slots of the log are the numbers below LOGSIZE. *)
LEMMA SlotsFact ==
  /\ LOGSIZE \in Nat /\ nlog \in Nat /\ MAXOPBLOCKS \in Nat
  /\ \A i \in Slots : i \in Nat /\ i < LOGSIZE
  /\ \A i \in Nat : i < LOGSIZE => i \in Slots
  /\ 0 \notin Blocks
BY LogAssumption DEF Slots

(* A set of calls grows and shrinks by one. *)
LEMMA CountFact ==
  /\ IsFiniteSet(Active) /\ Cardinality(Active) \in Nat
  /\ \A p \in Ops \ Active : Cardinality(Active \cup {p}) = Cardinality(Active) + 1
  /\ \A p \in Active : Cardinality(Active \ {p}) = Cardinality(Active) - 1
  /\ Cardinality(Active) = 0 <=> Active = {}
  /\ \A p \in Active : Cardinality(Active) = 1 => Active = {p}
<1>1. IsFiniteSet(Active)
  <2>1. Active \subseteq Ops
    BY ZenonT(30) DEF Active
  <2> QED
    BY ZenonT(30), <2>1, LogAssumption, FS_Subset
<1>2. Cardinality(Active) \in Nat
  BY ZenonT(30), <1>1, FS_CardinalityType
<1>3. \A p \in Ops \ Active : Cardinality(Active \cup {p}) = Cardinality(Active) + 1
  BY ZenonT(30), <1>1, FS_AddElement
<1>4. \A p \in Active : Cardinality(Active \ {p}) = Cardinality(Active) - 1
  BY ZenonT(30), <1>1, FS_RemoveElement
<1>5. Cardinality(Active) = 0 <=> Active = {}
  BY ZenonT(30), <1>1, FS_EmptySet
<1>6. ASSUME NEW p \in Active, Cardinality(Active) = 1 PROVE Active = {p}
  <2>1. IsFiniteSet(Active \ {p}) /\ Cardinality(Active \ {p}) = 0
    BY <1>1, <1>4, <1>6, FS_RemoveElement
  <2>2. Active \ {p} = {}
    BY ZenonT(30), <2>1, FS_EmptySet
  <2> QED
    BY ZenonT(30), <2>2
<1> QED
  BY ZenonT(30), <1>1, <1>2, <1>3, <1>4, <1>5, <1>6

USE SlotsFact DEF IInv, TypeOK, Booting, ondisk, calls

(* The initial state satisfies the invariant. *)
LEMMA InitIInv == Init => IInv
<1> SUFFICES ASSUME Init PROVE IInv
  BY ZenonT(30)
<1> USE DEF Init
<1>1. TypeOK
  BY ZenonT(30)
<1>2. CountInv
  <2>1. Active = {}
    BY ZenonT(30) DEF Active, InOp
  <2> QED
    BY ZenonT(30), <2>1, FS_EmptySet DEF CountInv
<1>3. CallInv /\ PhaseInv /\ CommitExclusive /\ HeadInv
  BY DEF CallInv, PhaseInv, CommitExclusive, HeadInv
<1>4. DiskInv /\ DirtyInv /\ Pinned /\ SleepersHaveWaker
  BY ZenonT(30) DEF DiskInv, DirtyInv, Pinned, SleepersHaveWaker
<1> QED
  BY ZenonT(30), <1>1, <1>2, <1>3, <1>4

(* One lemma per action: it preserves the invariant. *)
LEMMA ReadHeadIInv ==
  ASSUME IInv, ReadHead
  PROVE  IInv'
<1> USE DEF ReadHead
<1>1. TypeOK'
  BY ZenonT(30)
<1>2. CallInv' /\ PhaseInv' /\ CommitExclusive' /\ SleepersHaveWaker'
  BY ZenonT(30), <1>1 DEF CallInv, PhaseInv, CommitExclusive, SleepersHaveWaker, InOp, DiskInv
<1>3. CountInv'
  <2>1. Active' = Active
    BY ZenonT(30) DEF Active, InOp
  <2> QED
    BY ZenonT(30), <2>1 DEF CountInv, PhaseInv, DiskInv
<1>4. HeadInv'
  BY ZenonT(30), <1>1 DEF HeadInv
<1>5. DiskInv'
  BY <1>1 DEF DiskInv, SameHead, InstalledTo, HeadInv, PhaseInv, CallInv
<1>6. DirtyInv' /\ Pinned'
  BY ZenonT(30), <1>1 DEF DirtyInv, Pinned, DiskInv, HeadInv, CallInv, Locked, PhaseInv
<1> QED
  BY ZenonT(30), <1>1, <1>2, <1>3, <1>4, <1>5, <1>6

(* install_trans() copies a block to its home, during recovery.            *)
LEMMA RecoverInstallIInv ==
  ASSUME IInv, RecoverInstall
  PROVE  IInv'
<1> USE DEF RecoverInstall, InstallBlock
<1>1. TypeOK'
  <2>1. tail \in Slots /\ block[tail] \in Blocks
    BY DEF HeadInv
  <2> QED
    BY <2>1
<1>2. CallInv' /\ PhaseInv' /\ CommitExclusive' /\ SleepersHaveWaker'
  BY ZenonT(30), <1>1 DEF CallInv, PhaseInv, CommitExclusive, SleepersHaveWaker, InOp, DiskInv
<1>3. CountInv'
  <2>1. Active' = Active
    BY ZenonT(30) DEF Active, InOp
  <2> QED
    BY ZenonT(30), <2>1 DEF CountInv, PhaseInv, DiskInv
<1>4. HeadInv'
  BY ZenonT(30), <1>1 DEF HeadInv
<1>5. DiskInv'
  BY <1>1 DEF DiskInv, SameHead, InstalledTo, HeadInv, PhaseInv, CallInv
<1>6. DirtyInv' /\ Pinned'
  BY ZenonT(30), <1>1 DEF DirtyInv, Pinned, DiskInv, HeadInv, CallInv, Locked, PhaseInv
<1> QED
  BY ZenonT(30), <1>1, <1>2, <1>3, <1>4, <1>5, <1>6

(* recover_from_log() clears the header.                                   *)
LEMMA RecoverClearIInv ==
  ASSUME IInv, RecoverClear
  PROVE  IInv'
<1> USE DEF RecoverClear, ClearHead
<1>1. TypeOK'
  BY ZenonT(30)
<1>2. CallInv' /\ PhaseInv' /\ CommitExclusive' /\ SleepersHaveWaker'
  BY ZenonT(30), <1>1 DEF CallInv, PhaseInv, CommitExclusive, SleepersHaveWaker, InOp, DiskInv
<1>3. CountInv'
  <2>1. Active' = Active
    BY ZenonT(30) DEF Active, InOp
  <2> QED
    BY ZenonT(30), <2>1 DEF CountInv, PhaseInv, DiskInv
<1>4. HeadInv'
  BY <1>1 DEF HeadInv
<1>5. DiskInv'
  BY ZenonT(30), <1>1 DEF DiskInv, SameHead, InstalledTo, HeadInv, PhaseInv, CallInv
<1>6. DirtyInv' /\ Pinned'
  BY ZenonT(30), <1>1 DEF DirtyInv, Pinned, DiskInv, HeadInv, CallInv, Locked, PhaseInv
<1> QED
  BY ZenonT(30), <1>1, <1>2, <1>3, <1>4, <1>5, <1>6

(* begin_op() admits a call, or puts it to sleep.                          *)
LEMMA BeginOpIInv ==
  ASSUME IInv, NEW p \in Ops, BeginOp(p)
  PROVE  IInv'
<1> USE DEF BeginOp
<1>1. TypeOK'
  OBVIOUS
<1> DEFINE wait == committing = 1 \/ n + (outstanding + 1) * MAXOPBLOCKS > LOGSIZE
<1>2. CallInv' /\ PhaseInv' /\ CommitExclusive'
  BY <1>1 DEF CallInv, PhaseInv, CommitExclusive, InOp
<1>7. SleepersHaveWaker'
  <2>1. wait => outstanding > 0 \/ committing = 1
    <3>1. outstanding = 0 /\ committing = 0 => n = 0
      BY DEF CountInv, PhaseInv
    <3>2. (0 + 1) * MAXOPBLOCKS <= LOGSIZE
      BY LogAssumption
    <3> QED
      BY <3>1, <3>2
  <2> QED
    BY <1>1, <2>1 DEF SleepersHaveWaker
<1>3. CountInv'
  <2>1. p \notin Active /\ Active' = IF wait THEN Active ELSE Active \cup {p}
    BY DEF Active, InOp
  <2>2. outstanding' = IF wait THEN outstanding ELSE outstanding + 1
    BY ZenonT(30)
  <2>3. outstanding' = Cardinality(Active')
    BY ZenonT(30), <2>1, <2>2, CountFact DEF CountInv
  <2>4. phase' = phase /\ n' = n /\ (outstanding' = 0 => outstanding = 0)
    OBVIOUS
  <2> QED
    BY ZenonT(30), <2>3, <2>4 DEF CountInv
<1>4. HeadInv'
  BY ZenonT(30), <1>1 DEF HeadInv
<1>5. DiskInv'
  BY ZenonT(30), <1>1 DEF DiskInv, SameHead, InstalledTo, HeadInv, PhaseInv, CallInv
<1>6. DirtyInv' /\ Pinned'
  BY ZenonT(30), <1>1 DEF DirtyInv, Pinned, DiskInv, HeadInv, CallInv, Locked, PhaseInv
<1> QED
  BY ZenonT(30), <1>1, <1>2, <1>3, <1>4, <1>5, <1>6, <1>7

(* A call changes a buffer and tests, without the lock, whether            *)
(* log_write() may go on.                                                  *)
LEMMA LogWriteIInv ==
  ASSUME IInv, NEW p \in Ops, NEW b \in Blocks, NEW v \in Vals, LogWrite(p, b, v)
  PROVE  IInv'
<1> USE DEF LogWrite
<1>0. phase = "run" /\ committing = 0 /\ dn = 0 /\ p \in Active
  BY ZenonT(30) DEF PhaseInv, CommitExclusive, InOp, DiskInv, Active
<1>1. TypeOK'
  BY ZenonT(30)
<1>2. CallInv'
  BY <1>1 DEF CallInv, Locked
<1>7. PhaseInv' /\ CommitExclusive' /\ SleepersHaveWaker'
  BY ZenonT(30), <1>0, <1>1 DEF PhaseInv, CommitExclusive, SleepersHaveWaker, InOp
<1>3. CountInv'
  <2>1. Active' = Active
    BY ZenonT(30) DEF Active, InOp
  <2> QED
    BY ZenonT(30), <2>1 DEF CountInv, PhaseInv, DiskInv
<1>4. HeadInv'
  BY ZenonT(30), <1>1 DEF HeadInv
<1>5. DiskInv'
  BY ZenonT(30), <1>0 DEF DiskInv
<1>6. DirtyInv' /\ Pinned'
  BY <1>1 DEF DirtyInv, Pinned, DiskInv, HeadInv, CallInv, Locked, PhaseInv
<1> QED
  BY ZenonT(30), <1>1, <1>2, <1>3, <1>4, <1>5, <1>6, <1>7

(* log_write() appends the block to the header, or absorbs it.             *)
LEMMA LogAppendIInv ==
  ASSUME IInv, NEW p \in Ops, NEW b \in Blocks, LogAppend(p, b)
  PROVE  IInv'
<1> USE DEF LogAppend
<1>0. phase = "run" /\ committing = 0 /\ dn = 0 /\ p \in Active
  BY ZenonT(30) DEF PhaseInv, CommitExclusive, InOp, DiskInv, Active
<1>1. TypeOK'
  OBVIOUS
<1>2. CallInv' /\ PhaseInv' /\ CommitExclusive' /\ SleepersHaveWaker'
  <2>1. CallInv'
    <3>1. \/ buf' = buf /\ pc' = pc
          \/ buf' = [buf EXCEPT ![p] = {}] /\ pc' = [pc EXCEPT ![p] = "op"]
      BY ZenonT(30)
    <3>2. buf \in [Ops -> SUBSET Blocks] /\ DOMAIN pc = Ops /\ CallInv
      BY ZenonT(30)
    <3>3. CASE buf' = buf /\ pc' = pc
      BY ZenonT(30), <3>2, <3>3 DEF CallInv
    <3>4. CASE buf' = [buf EXCEPT ![p] = {}] /\ pc' = [pc EXCEPT ![p] = "op"]
      <4>1. buf'[p] = {} /\ pc'[p] = "op"
        BY ZenonT(30), <3>2, <3>4
      <4>2. \A q \in Ops \ {p} : buf'[q] = buf[q] /\ pc'[q] = pc[q]
        BY ZenonT(30), <3>2, <3>4
      <4> HIDE SlotsFact DEF IInv, LogAppend
      <4>3. \A q \in Ops : pc'[q] = "append" => \E c \in Blocks : buf'[q] = {c}
        BY ZenonT(30), <3>2, <4>1, <4>2 DEF CallInv
      <4>4. \A q \in Ops : pc'[q] # "append" => buf'[q] = {}
        BY ZenonT(30), <3>2, <4>1, <4>2 DEF CallInv
      <4>5. \A q, r \in Ops : \A c \in Blocks : c \in buf'[q] /\ c \in buf'[r] => q = r
        BY ZenonT(30), <3>2, <4>1, <4>2 DEF CallInv
      <4> QED
        BY ZenonT(30), <4>3, <4>4, <4>5 DEF CallInv
    <3> QED
      BY ZenonT(30), <3>1, <3>3, <3>4
  <2>2. PhaseInv'
    BY <1>0 DEF PhaseInv
  <2>3. CommitExclusive'
    BY <1>0 DEF CommitExclusive
  <2>4. SleepersHaveWaker'
    BY DEF SleepersHaveWaker, InOp
  <2> QED
    BY ZenonT(30), <2>1, <2>2, <2>3, <2>4
<1>3. CountInv'
  <2>1. Active' = Active
    BY ZenonT(30) DEF Active, InOp
  <2>2. outstanding # 0
    BY ZenonT(30), <1>0, CountFact DEF CountInv
  <2> QED
    BY ZenonT(30), <2>1, <2>2 DEF CountInv
<1>4. HeadInv'
  <2>1. CASE n' = n /\ block' = block
    BY ZenonT(30), <2>1 DEF HeadInv
  <2>2. CASE ~Logged(b) /\ n < LOGSIZE /\ n' = n + 1 /\ block' = [block EXCEPT ![n] = b]
    <3>1. n \in Slots
      BY ZenonT(30), <2>2
    <3>0. dn' = dn /\ dblock' = dblock /\ block'[n] = b
      BY ZenonT(30), <2>2, <3>1
    <3>2. \A i \in Slots : i < n' /\ i # n => i < n /\ block'[i] = block[i]
      BY <2>2
    <3>3. \A i \in Slots : i < n => block[i] # b
      BY ZenonT(30), <2>2 DEF Logged
    <3> HIDE DEF LogAppend
    <3>4. \A i, j \in Slots : i < n' /\ j < n' /\ block'[i] = block'[j] => i = j
      BY ZenonT(30), <3>0, <3>2, <3>3 DEF HeadInv
    <3>5. \A i \in Slots : i < n' => block'[i] \in Blocks
      BY ZenonT(30), <3>0, <3>2 DEF HeadInv
    <3>6. n' <= LOGSIZE
      BY <2>2
    <3> QED
      BY ZenonT(30), <3>0, <3>4, <3>5, <3>6 DEF HeadInv
  <2> QED
    BY <2>1, <2>2
<1>5. DiskInv'
  BY ZenonT(30), <1>0 DEF DiskInv
<1>6. DirtyInv'
  <2>1. \A i \in Slots : i < n => i < n' /\ block'[i] = block[i]
    OBVIOUS
  <2>2. dirty' # dirty => \E i \in Slots : i < n' /\ block'[i] = b
    BY DEF Logged
  <2>3. dirty' \subseteq dirty \cup {b} /\ phase' = "run"
    BY ZenonT(30), <1>0
  <2> HIDE DEF LogAppend
  <2> QED
    BY ZenonT(30), <1>0, <2>1, <2>2, <2>3 DEF DirtyInv
<1>7. Pinned'
  BY <1>1 DEF Pinned, Locked, CallInv
<1> QED
  BY ZenonT(30), <1>1, <1>2, <1>3, <1>4, <1>5, <1>6, <1>7

(* bget() takes a clean buffer away.                                       *)
LEMMA RecycleIInv ==
  ASSUME IInv, NEW b \in Blocks, Recycle(b)
  PROVE  IInv'
<1> USE DEF Recycle
<1>0. cache' = cache
  BY ZenonT(30) DEF Pinned
<1>1. TypeOK'
  BY ZenonT(30)
<1>2. CallInv' /\ PhaseInv' /\ CommitExclusive' /\ SleepersHaveWaker'
  BY ZenonT(30), <1>1 DEF CallInv, PhaseInv, CommitExclusive, SleepersHaveWaker, InOp, DiskInv
<1>3. CountInv'
  <2>1. Active' = Active
    BY ZenonT(30) DEF Active, InOp
  <2> QED
    BY ZenonT(30), <2>1 DEF CountInv, PhaseInv, DiskInv
<1>4. HeadInv'
  BY ZenonT(30), <1>1 DEF HeadInv
<1>5. DiskInv'
  BY ZenonT(30), <1>0 DEF DiskInv, SameHead, InstalledTo
<1>6. DirtyInv' /\ Pinned'
  BY ZenonT(30), <1>0 DEF DirtyInv, Pinned, Locked
<1> QED
  BY ZenonT(30), <1>1, <1>2, <1>3, <1>4, <1>5, <1>6

(* end_op(): the last call out commits.                                    *)
LEMMA EndOpIInv ==
  ASSUME IInv, NEW p \in Ops, EndOp(p)
  PROVE  IInv'
<1> USE DEF EndOp, Wakeup
<1>0. phase = "run" /\ committing = 0 /\ dn = 0 /\ p \in Active
  BY ZenonT(30) DEF PhaseInv, CommitExclusive, InOp, DiskInv, Active
<1>8. outstanding > 0
  BY <1>0, CountFact DEF CountInv
<1>1. TypeOK'
  BY <1>0, <1>8
<1>2. CallInv' /\ PhaseInv'
  BY <1>0, <1>1 DEF CallInv, PhaseInv
<1>3. Active' = Active \ {p}
  BY <1>0 DEF Active, InOp
<1>7. CountInv'
  BY <1>0, <1>3, <1>8, CountFact DEF CountInv
<1>9. CommitExclusive' /\ SleepersHaveWaker'
  <2>1. outstanding - 1 = 0 => Active' = {}
    BY <1>0, <1>3, CountFact DEF CountInv
  <2>2. committing' = 1 => outstanding' = 0 /\ Active' = {}
    BY <1>0, <2>1
  <2>3. CommitExclusive'
    BY ZenonT(30), <2>2 DEF CommitExclusive, Active
  <2>4. SleepersHaveWaker'
    BY <1>0, <1>8 DEF SleepersHaveWaker
  <2> QED
    BY ZenonT(30), <2>3, <2>4
<1>4. HeadInv'
  BY ZenonT(30), <1>1 DEF HeadInv
<1>5. DiskInv'
  BY ZenonT(30), <1>1 DEF DiskInv, SameHead, InstalledTo, HeadInv, PhaseInv, CallInv
<1>6. DirtyInv' /\ Pinned'
  BY ZenonT(30), <1>1 DEF DirtyInv, Pinned, DiskInv, HeadInv, CallInv, Locked, PhaseInv
<1> QED
  BY ZenonT(30), <1>1, <1>2, <1>4, <1>5, <1>6, <1>7, <1>9

(* commit(): an empty transaction is not written.                          *)
LEMMA CommitIInv ==
  ASSUME IInv, Commit
  PROVE  IInv'
<1> USE DEF Commit
<1>1. TypeOK'
  BY ZenonT(30)
<1>2. CallInv' /\ PhaseInv' /\ CommitExclusive' /\ SleepersHaveWaker'
  BY ZenonT(30), <1>1 DEF CallInv, PhaseInv, CommitExclusive, SleepersHaveWaker, InOp, DiskInv
<1>3. CountInv'
  <2>1. Active' = Active
    BY ZenonT(30) DEF Active, InOp
  <2> QED
    BY ZenonT(30), <2>1 DEF CountInv, PhaseInv, DiskInv
<1>4. HeadInv'
  BY ZenonT(30), <1>1 DEF HeadInv
<1>5. DiskInv'
  BY <1>1 DEF DiskInv, SameHead, InstalledTo, HeadInv, PhaseInv, CallInv
<1>6. DirtyInv' /\ Pinned'
  BY ZenonT(30), <1>1 DEF DirtyInv, Pinned, DiskInv, HeadInv, CallInv, Locked, PhaseInv
<1> QED
  BY ZenonT(30), <1>1, <1>2, <1>3, <1>4, <1>5, <1>6

(* write_log() copies a buffer to the log.                                 *)
LEMMA WriteLogIInv ==
  ASSUME IInv, WriteLog
  PROVE  IInv'
<1> USE DEF WriteLog
<1>1. TypeOK'
  <2>1. tail \in Slots /\ block[tail] \in Blocks
    BY DEF HeadInv
  <2> QED
    BY <2>1
<1>2. CallInv' /\ PhaseInv' /\ CommitExclusive' /\ SleepersHaveWaker'
  BY ZenonT(30), <1>1 DEF CallInv, PhaseInv, CommitExclusive, SleepersHaveWaker, InOp, DiskInv
<1>3. CountInv'
  <2>1. Active' = Active
    BY ZenonT(30) DEF Active, InOp
  <2> QED
    BY ZenonT(30), <2>1 DEF CountInv, PhaseInv, DiskInv
<1>4. HeadInv'
  BY ZenonT(30), <1>1 DEF HeadInv
<1>5. DiskInv'
  BY <1>1 DEF DiskInv, SameHead, InstalledTo, HeadInv, PhaseInv, CallInv
<1>6. DirtyInv' /\ Pinned'
  BY ZenonT(30), <1>1 DEF DirtyInv, Pinned, DiskInv, HeadInv, CallInv, Locked, PhaseInv
<1> QED
  BY ZenonT(30), <1>1, <1>2, <1>3, <1>4, <1>5, <1>6

(* write_head(): the transaction is on the disk.                           *)
LEMMA WriteHeadIInv ==
  ASSUME IInv, WriteHead
  PROVE  IInv'
<1> USE DEF WriteHead
<1>1. TypeOK'
  BY ZenonT(30)
<1>2. CallInv' /\ PhaseInv' /\ CommitExclusive' /\ SleepersHaveWaker'
  BY ZenonT(30), <1>1 DEF CallInv, PhaseInv, CommitExclusive, SleepersHaveWaker, InOp, DiskInv
<1>3. CountInv'
  <2>1. Active' = Active
    BY ZenonT(30) DEF Active, InOp
  <2> QED
    BY ZenonT(30), <2>1 DEF CountInv, PhaseInv, DiskInv
<1>4. HeadInv'
  BY ZenonT(30), <1>1 DEF HeadInv
<1>5. DiskInv'
  BY <1>1 DEF DiskInv, SameHead, InstalledTo, HeadInv, PhaseInv, CallInv
<1>6. DirtyInv' /\ Pinned'
  BY <1>1 DEF DirtyInv, Pinned, DiskInv, HeadInv, CallInv, Locked, PhaseInv
<1> QED
  BY ZenonT(30), <1>1, <1>2, <1>3, <1>4, <1>5, <1>6

(* install_trans() copies a block to its home.                             *)
LEMMA CommitInstallIInv ==
  ASSUME IInv, CommitInstall
  PROVE  IInv'
<1> USE DEF CommitInstall, InstallBlock
<1>1. TypeOK'
  <2>1. tail \in Slots /\ block[tail] \in Blocks
    BY DEF HeadInv
  <2> QED
    BY <2>1
<1>2. CallInv' /\ PhaseInv' /\ CommitExclusive' /\ SleepersHaveWaker'
  BY ZenonT(30), <1>1 DEF CallInv, PhaseInv, CommitExclusive, SleepersHaveWaker, InOp, DiskInv
<1>3. CountInv'
  <2>1. Active' = Active
    BY ZenonT(30) DEF Active, InOp
  <2> QED
    BY ZenonT(30), <2>1 DEF CountInv, PhaseInv, DiskInv
<1>4. HeadInv'
  BY ZenonT(30), <1>1 DEF HeadInv
<1>5. DiskInv'
  BY <1>1 DEF DiskInv, SameHead, InstalledTo, HeadInv, PhaseInv, CallInv
<1>6. DirtyInv' /\ Pinned'
  BY <1>1 DEF DirtyInv, Pinned, DiskInv, HeadInv, CallInv, Locked, PhaseInv
<1> QED
  BY ZenonT(30), <1>1, <1>2, <1>3, <1>4, <1>5, <1>6

(* commit() clears the header.                                             *)
LEMMA CommitClearIInv ==
  ASSUME IInv, CommitClear
  PROVE  IInv'
<1> USE DEF CommitClear, ClearHead
<1>1. TypeOK'
  BY ZenonT(30)
<1>2. CallInv' /\ PhaseInv' /\ CommitExclusive' /\ SleepersHaveWaker'
  BY ZenonT(30), <1>1 DEF CallInv, PhaseInv, CommitExclusive, SleepersHaveWaker, InOp, DiskInv
<1>3. CountInv'
  <2>1. Active' = Active
    BY ZenonT(30) DEF Active, InOp
  <2> QED
    BY ZenonT(30), <2>1 DEF CountInv, PhaseInv, DiskInv
<1>4. HeadInv'
  BY <1>1 DEF HeadInv
<1>5. DiskInv'
  BY ZenonT(30), <1>1 DEF DiskInv, SameHead, InstalledTo, HeadInv, PhaseInv, CallInv
<1>6. DirtyInv' /\ Pinned'
  <2>1. dirty = {} /\ dirty' = {}
    BY DEF DirtyInv
  <2>2. DirtyInv'
    BY ZenonT(30), <2>1 DEF DirtyInv
  <2>3. Pinned'
    BY ZenonT(30) DEF Pinned, Locked
  <2> QED
    BY ZenonT(30), <2>2, <2>3
<1> QED
  BY ZenonT(30), <1>1, <1>2, <1>3, <1>4, <1>5, <1>6

(* end_op() lets the next transaction begin.                               *)
LEMMA EndCommitIInv ==
  ASSUME IInv, NEW p \in Ops, EndCommit(p)
  PROVE  IInv'
<1> USE DEF EndCommit, Wakeup
<1>1. TypeOK'
  BY ZenonT(30)
<1>2. CallInv' /\ PhaseInv' /\ CommitExclusive' /\ SleepersHaveWaker'
  <2>1. CallInv'
    BY ZenonT(30) DEF CallInv
  <2>2. PhaseInv' /\ CommitExclusive'
    BY DEF PhaseInv, CommitExclusive
  <2>3. SleepersHaveWaker'
    BY ZenonT(30) DEF SleepersHaveWaker
  <2> QED
    BY ZenonT(30), <2>1, <2>2, <2>3
<1>3. CountInv'
  <2>1. Active' = Active
    BY ZenonT(30) DEF Active, InOp
  <2> QED
    BY ZenonT(30), <2>1 DEF CountInv, PhaseInv, DiskInv
<1>4. HeadInv'
  BY ZenonT(30), <1>1 DEF HeadInv
<1>5. DiskInv'
  BY ZenonT(30), <1>1 DEF DiskInv, SameHead, InstalledTo, HeadInv, PhaseInv, CallInv
<1>6. DirtyInv' /\ Pinned'
  BY ZenonT(30), <1>1 DEF DirtyInv, Pinned, DiskInv, HeadInv, CallInv, Locked, PhaseInv
<1> QED
  BY ZenonT(30), <1>1, <1>2, <1>3, <1>4, <1>5, <1>6

(* A crash loses all but the disk.                                         *)
LEMMA CrashIInv ==
  ASSUME IInv, Crash
  PROVE  IInv'
<1> USE DEF Crash
<1>1. TypeOK'
  BY ZenonT(30)
<1>2. CallInv' /\ PhaseInv' /\ CommitExclusive' /\ SleepersHaveWaker'
  BY <1>1 DEF CallInv, PhaseInv, CommitExclusive, SleepersHaveWaker, InOp, DiskInv
<1>3. CountInv'
  <2>1. Active' = {}
    BY ZenonT(30) DEF Active, InOp
  <2> QED
    BY ZenonT(30), <2>1, FS_EmptySet DEF CountInv
<1>4. HeadInv'
  BY <1>1 DEF HeadInv
<1>5. DiskInv'
  BY ZenonT(30), <1>1 DEF DiskInv, SameHead, InstalledTo, HeadInv, PhaseInv, CallInv
<1>6. DirtyInv' /\ Pinned'
  BY ZenonT(30), <1>1 DEF DirtyInv, Pinned, DiskInv, HeadInv, CallInv, Locked, PhaseInv
<1> QED
  BY ZenonT(30), <1>1, <1>2, <1>3, <1>4, <1>5, <1>6

(* Every step preserves the invariant. *)
LEMMA NextIInv == IInv /\ [Next]_vars => IInv'
<1> SUFFICES ASSUME IInv, [Next]_vars PROVE IInv'
  BY ZenonT(30)
<1>1. CASE UNCHANGED vars
  <2>1. TypeOK' /\ CallInv' /\ PhaseInv' /\ CommitExclusive' /\ SleepersHaveWaker'
    BY ZenonT(30), <1>1 DEF vars, CallInv, PhaseInv, CommitExclusive, InOp, SleepersHaveWaker
  <2>2. CountInv'
    BY ZenonT(30), <1>1 DEF vars, CountInv, Active, InOp
  <2>3. HeadInv'
    BY ZenonT(30), <1>1 DEF vars, HeadInv
  <2>4. DiskInv'
    BY ZenonT(30), <1>1 DEF vars, DiskInv, SameHead, InstalledTo
  <2>5. DirtyInv' /\ Pinned'
    BY ZenonT(30), <1>1 DEF vars, DirtyInv, Pinned, Locked
  <2> QED
    BY ZenonT(30), <2>1, <2>2, <2>3, <2>4, <2>5
<1>2. CASE Next
  <2> HIDE DEF IInv
  <2> QED
    BY ZenonT(30), <1>2, ReadHeadIInv, RecoverInstallIInv, RecoverClearIInv, BeginOpIInv,
       LogWriteIInv, LogAppendIInv, RecycleIInv, EndOpIInv, CommitIInv,
       WriteLogIInv, WriteHeadIInv, CommitInstallIInv, CommitClearIInv,
       EndCommitIInv, CrashIInv
       DEF Next, Step, Recovery, Committer, Call
<1> QED
  BY ZenonT(30), <1>1, <1>2

(* The invariant holds throughout. *)
THEOREM Invariance == Spec => []IInv
BY InitIInv, NextIInv, PTL DEF Spec

(* The log, the calls and the phases of commit() keep their types.          *)
THEOREM TypeCorrect == Spec => []TypeOK
<1>1. IInv => TypeOK
  BY ZenonT(30)
<1> QED
  BY <1>1, Invariance, PTL

(* commit() runs while no call is in progress.                              *)
THEOREM CommitsAlone == Spec => []CommitExclusive
<1>1. IInv => CommitExclusive
  BY ZenonT(30)
<1> QED
  BY <1>1, Invariance, PTL

(* No change that is not on disk is in a buffer that bget() may recycle.    *)
THEOREM ChangesPinned == Spec => []Pinned
<1>1. IInv => Pinned
  BY ZenonT(30)
<1> QED
  BY <1>1, Invariance, PTL

(* Nobody sleeps in begin_op() without a call or a commit() to wake it.     *)
THEOREM SleepersHaveWakers == Spec => []SleepersHaveWaker
<1>1. IInv => SleepersHaveWaker
  BY ZenonT(30)
<1> QED
  BY <1>1, Invariance, PTL

-----------------------------------------------------------------------------

(* What recover_from_log() makes of the disk. *)
RecoveredIs ==
  /\ Recovered \in [Blocks -> Vals]
  /\ \A i \in Slots : i < dn => Recovered[dblock[i]] = dlog[i]
  /\ \A b \in Blocks :
       (\A i \in Slots : i < dn => dblock[i] # b) => Recovered[b] = disk[b]

(* Each block has at most one slot of the log on disk, so that recovery    *)
(* has one result.                                                         *)
LEMMA RecoveredFact == IInv => RecoveredIs
<1> SUFFICES ASSUME IInv PROVE RecoveredIs
  BY ZenonT(30)
<1>1. ASSUME NEW b \in Blocks, NEW i \in Slots, i < dn, dblock[i] = b
      PROVE  Entry(b) = i
  BY ZenonT(30), <1>1 DEF Entry, HeadInv
<1>2. Recovered \in [Blocks -> Vals]
  BY ZenonT(30), <1>1 DEF Recovered
<1>3. ASSUME NEW i \in Slots, i < dn PROVE Recovered[dblock[i]] = dlog[i]
  BY ZenonT(30), <1>1, <1>3 DEF Recovered, HeadInv
<1>4. ASSUME NEW b \in Blocks, \A i \in Slots : i < dn => dblock[i] # b
      PROVE  Recovered[b] = disk[b]
  BY ZenonT(30), <1>4 DEF Recovered
<1> QED
  BY ZenonT(30), <1>2, <1>3, <1>4 DEF RecoveredIs

(* An empty log leaves the disk as it is. *)
LEMMA NothingToRecover == ASSUME IInv, RecoveredIs, dn = 0 PROVE Recovered = disk
BY DEF RecoveredIs

(* A log that is installed leaves the disk as it is. *)
LEMMA InstalledIsRecovered ==
  ASSUME IInv, RecoveredIs, SameHead, InstalledTo, tail = n
  PROVE  Recovered = disk
<1>1. ASSUME NEW b \in Blocks PROVE Recovered[b] = disk[b]
  BY DEF RecoveredIs, SameHead, InstalledTo
<1> QED
  BY <1>1 DEF RecoveredIs

(* From write_head() on, what would be recovered is what the calls see. *)
LEMMA CommittedIsRecovered ==
  ASSUME IInv, RecoveredIs, phase \in {"install", "finish"}
  PROVE  Recovered = cache
<1>0. \A b \in Blocks : ~Locked(b)
  BY ZenonT(30) DEF Locked, CallInv, CommitExclusive, PhaseInv, InOp
<1>1. CASE phase = "finish"
  <2>1. cache = disk
    BY <1>0, <1>1 DEF Pinned, DirtyInv, DiskInv
  <2> QED
    BY ZenonT(30), <1>1, <2>1, NothingToRecover DEF DiskInv
<1>2. CASE phase = "install"
  <2>1. ASSUME NEW b \in Blocks PROVE Recovered[b] = cache[b]
    <3>1. CASE \E i \in Slots : i < n /\ block[i] = b
      BY <1>2, <3>1 DEF RecoveredIs, DiskInv, SameHead
    <3>2. CASE ~ \E i \in Slots : i < n /\ block[i] = b
      <4>1. cache[b] = disk[b]
        BY ZenonT(30), <1>0, <3>2 DEF Pinned, DirtyInv
      <4> QED
        BY <1>2, <3>2, <4>1 DEF RecoveredIs, DiskInv, SameHead
    <3> QED
      BY ZenonT(30), <3>1, <3>2
  <2> QED
    BY <2>1 DEF RecoveredIs
<1> QED
  BY ZenonT(30), <1>1, <1>2

(* What write_head() has committed survives a crash. *)
THEOREM CommitIsDurable == Spec => []CommitDurable
<1>1. IInv => CommitDurable
  BY ZenonT(30), RecoveredFact, CommittedIsRecovered DEF CommitDurable
<1> QED
  BY <1>1, Invariance, PTL

(* Installing a block changes neither what the calls see nor what would be  *)
(* recovered.                                                               *)
LEMMA InstallIsInvisible ==
  ASSUME IInv, RecoveredIs, RecoveredIs', InstallBlock,
         phase \in {"recover", "install"}
  PROVE  Recovered' = Recovered /\ (phase = "install" => cache' = cache)
<1>0. tail \in Slots /\ block[tail] \in Blocks /\ tail < n /\ SameHead
  BY DEF InstallBlock, HeadInv, DiskInv
<1>1. ASSUME NEW b \in Blocks PROVE Recovered'[b] = Recovered[b]
  <2>1. CASE \E i \in Slots : i < dn /\ dblock[i] = b
    BY <2>1 DEF RecoveredIs, InstallBlock
  <2>2. CASE ~ \E i \in Slots : i < dn /\ dblock[i] = b
    <3>1. b # block[tail]
      BY ZenonT(30), <1>0, <2>2 DEF SameHead
    <3>2. disk'[b] = disk[b]
      BY ZenonT(30), <1>0, <3>1 DEF InstallBlock
    <3> QED
      BY ZenonT(30), <2>2, <3>2 DEF RecoveredIs, InstallBlock
  <2> QED
    BY ZenonT(30), <2>1, <2>2
<1>2. phase = "install" => cache' = cache
  BY ZenonT(30), <1>0 DEF DiskInv, InstallBlock
<1> HIDE DEF IInv
<1> QED
  BY <1>1, <1>2 DEF RecoveredIs

-----------------------------------------------------------------------------
(* The log implements Transactions. *)

(* The state of Transactions that the log represents. *)
Mem == IF Booting THEN Recovered ELSE cache
Same == Mem' = Mem /\ Recovered' = Recovered /\ Active' = Active

(* Steps of recovery are invisible: the blocks stay what they were before   *)
(* the crash.                                                               *)
LEMMA RecoveryIsInvisible ==
  ASSUME IInv, IInv', RecoveredIs, RecoveredIs', Recovery
  PROVE  Same
<1>1. CASE ReadHead
  <2>1. Recovered' = Recovered
    BY ZenonT(30), <1>1 DEF ReadHead, Recovered, Entry
  <2> QED
    BY ZenonT(30), <1>1, <2>1 DEF Same, Mem, ReadHead, Active, InOp
<1>2. CASE RecoverInstall
  <2>1. Recovered' = Recovered
    BY ZenonT(30), <1>2, InstallIsInvisible DEF RecoverInstall
  <2> QED
    BY ZenonT(30), <1>2, <2>1 DEF Same, Mem, RecoverInstall, InstallBlock, Active, InOp
<1>3. CASE RecoverClear
  <2>1. Recovered = disk /\ cache = disk
    BY ZenonT(30), <1>3, InstalledIsRecovered DEF RecoverClear, ClearHead, DiskInv
  <2>2. Recovered' = disk'
    BY <1>3 DEF RecoveredIs, RecoverClear, ClearHead
  <2> QED
    BY ZenonT(30), <1>3, <2>1, <2>2 DEF Same, Mem, RecoverClear, ClearHead, Active, InOp
<1> QED
  BY ZenonT(30), <1>1, <1>2, <1>3 DEF Recovery

(* commit() is invisible but for write_head(), which is the commit.         *)
LEMMA CommitterRefines ==
  ASSUME IInv, IInv', RecoveredIs, RecoveredIs', Committer
  PROVE  \/ Same
         \/ Mem' = Mem /\ Active' = Active /\ Active = {} /\ Recovered' = Mem
<1>1. CASE Commit
  <2>1. Recovered' = Recovered
    BY ZenonT(30), <1>1 DEF Commit, Recovered, Entry
  <2> QED
    BY ZenonT(30), <1>1, <2>1 DEF Same, Mem, Commit, Active, InOp
<1>2. CASE WriteLog
  <2>0. dn = 0 /\ dn' = 0
    BY ZenonT(30), <1>2 DEF WriteLog, DiskInv
  <2>1. Recovered = disk /\ Recovered' = disk'
    <3>1. disk \in [Blocks -> Vals] /\ disk' \in [Blocks -> Vals]
      BY ZenonT(30)
    <3> HIDE DEF IInv
    <3>2. (\A i \in Slots : ~(i < dn)) /\ (\A i \in Slots : ~(i < dn'))
      BY <2>0
    <3>3. Recovered = disk
      <4>1. Recovered \in [Blocks -> Vals]
        BY ZenonT(30) DEF RecoveredIs
      <4>2. \A b \in Blocks : Recovered[b] = disk[b]
        BY ZenonT(30), <3>2 DEF RecoveredIs
      <4> QED
        BY <3>1, <4>1, <4>2
    <3>4. Recovered' = disk'
      <4>1. Recovered' \in [Blocks -> Vals]
        BY ZenonT(30) DEF RecoveredIs
      <4>2. \A b \in Blocks : Recovered'[b] = disk'[b]
        BY ZenonT(30), <3>2 DEF RecoveredIs
      <4> QED
        BY <3>1, <4>1, <4>2
    <3> QED
      BY ZenonT(30), <3>3, <3>4
  <2> QED
    BY ZenonT(30), <1>2, <2>1 DEF Same, Mem, WriteLog, Active, InOp
<1>3. CASE WriteHead
  <2>1. phase' = "install" /\ cache' = cache /\ Active' = Active /\ phase = "write_log"
    BY ZenonT(30), <1>3 DEF WriteHead, Active, InOp
  <2>2. Active = {}
    BY ZenonT(30), <2>1 DEF Active, CommitExclusive, PhaseInv
  <2>3. (Recovered = cache)'
    <3>1. \A b \in Blocks : ~Locked(b)'
      BY ZenonT(30), <1>3 DEF WriteHead, Locked, CallInv, CommitExclusive, PhaseInv, InOp
    <3>2. ASSUME NEW b \in Blocks PROVE (Recovered[b] = cache[b])'
      <4>1. CASE \E i \in Slots : i < n /\ block[i] = b
        <5> PICK i \in Slots : i < n /\ block[i] = b
          BY ZenonT(30), <4>1
        <5>1. dn' = n /\ dblock'[i] = b /\ dlog' = dlog
          BY ZenonT(30), <1>3 DEF WriteHead
        <5>2. Recovered'[b] = dlog'[i]
          BY ZenonT(30), <5>1 DEF RecoveredIs
        <5>3. dlog[i] = cache[b]
          BY ZenonT(30), <1>3 DEF DiskInv, WriteHead
        <5> QED
          BY ZenonT(30), <2>1, <5>1, <5>2, <5>3
      <4>2. CASE ~ \E i \in Slots : i < n /\ block[i] = b
        <5>1. (cache[b] = disk[b])'
          BY ZenonT(30), <1>3, <3>1, <4>2 DEF Pinned, DirtyInv, WriteHead
        <5> QED
          BY ZenonT(30), <1>3, <4>2, <5>1 DEF RecoveredIs, WriteHead
      <4> QED
        BY ZenonT(30), <4>1, <4>2
    <3>3. cache' \in [Blocks -> Vals]
      BY ZenonT(30)
    <3> HIDE DEF IInv
    <3> QED
      BY <3>2, <3>3 DEF RecoveredIs
  <2> QED
    BY ZenonT(30), <2>1, <2>2, <2>3 DEF Mem
<1>4. CASE CommitInstall
  <2>1. Recovered' = Recovered /\ cache' = cache
    BY ZenonT(30), <1>4, InstallIsInvisible DEF CommitInstall
  <2> QED
    BY ZenonT(30), <1>4, <2>1 DEF Same, Mem, CommitInstall, InstallBlock, Active, InOp
<1>5. CASE CommitClear
  <2>1. Recovered = disk
    BY ZenonT(30), <1>5, InstalledIsRecovered DEF CommitClear, ClearHead, DiskInv
  <2>3. dn' = 0 /\ disk' \in [Blocks -> Vals]
    BY ZenonT(30), <1>5 DEF CommitClear, ClearHead
  <2>2. Recovered' = disk'
    <3> HIDE DEF IInv
    <3> QED
      BY <2>3 DEF RecoveredIs
  <2> QED
    BY ZenonT(30), <1>5, <2>1, <2>2 DEF Same, Mem, CommitClear, ClearHead, Active, InOp
<1> QED
  BY ZenonT(30), <1>1, <1>2, <1>3, <1>4, <1>5 DEF Committer

(* A call begins, changes a block, ends, or does what nobody sees. *)
LEMMA CallRefines ==
  ASSUME IInv, NEW p \in Ops, Call(p)
  PROVE  \/ Same
         \/ p \notin Active /\ Active' = Active \cup {p} /\ Mem' = Mem
            /\ Recovered' = Recovered
         \/ p \in Active /\ Active' = Active \ {p} /\ Mem' = Mem
            /\ Recovered' = Recovered
         \/ /\ p \in Active /\ Active' = Active /\ Recovered' = Recovered
            /\ \E b \in Blocks, v \in Vals : Mem' = [Mem EXCEPT ![b] = v]
<1>0. ASSUME UNCHANGED ondisk PROVE Recovered' = Recovered
  BY ZenonT(30), <1>0 DEF Recovered, Entry
<1>1. CASE BeginOp(p)
  BY <1>0, <1>1 DEF BeginOp, Same, Mem, Active, InOp
<1>2. ASSUME NEW b \in Blocks, LogAppend(p, b) PROVE Same
  BY ZenonT(30), <1>0, <1>2 DEF LogAppend, Same, Mem, Active, InOp
<1>3. CASE EndOp(p)
  BY <1>0, <1>3 DEF EndOp, Wakeup, Same, Mem, Active, InOp, PhaseInv
<1>4. CASE EndCommit(p)
  BY ZenonT(30), <1>0, <1>4 DEF EndCommit, Wakeup, Same, Mem, Active, InOp
<1>5. ASSUME NEW b \in Blocks, NEW v \in Vals, LogWrite(p, b, v)
      PROVE  /\ p \in Active /\ Active' = Active /\ Recovered' = Recovered
             /\ Mem' = [Mem EXCEPT ![b] = v]
  BY ZenonT(30), <1>0, <1>5 DEF LogWrite, Mem, Active, InOp, PhaseInv
<1> QED
  BY ZenonT(30), <1>1, <1>2, <1>3, <1>4, <1>5 DEF Call

(* Every step of the log is a step of Transactions, or changes nothing     *)
(* there.                                                                  *)
LEMMA StepRefines ==
  IInv /\ IInv' /\ RecoveredIs /\ RecoveredIs' /\ [Next]_vars
    => [Tx!Next]_(Tx!txvars)
<1> SUFFICES ASSUME IInv, IInv', RecoveredIs, RecoveredIs', [Next]_vars
             PROVE  Tx!Next \/ Same
  BY ZenonT(30) DEF Same, Mem, Active, Tx!txvars
<1>1. CASE UNCHANGED vars
  <2> HIDE DEF IInv
  <2> QED
    BY ZenonT(30), <1>1 DEF vars, Same, Mem, Recovered, Entry, Active, InOp
<1>2. CASE Recovery
  BY ZenonT(30), <1>2, RecoveryIsInvisible
<1>3. CASE Committer
  <2>1. CASE Mem' = Mem /\ Active' = Active /\ Active = {} /\ Recovered' = Mem
    BY ZenonT(30), <2>1 DEF Tx!Next, Tx!Commit, Mem, Active
  <2> QED
    BY ZenonT(30), <1>3, <2>1, CommitterRefines
<1>4. ASSUME NEW p \in Ops, Call(p) PROVE Tx!Next \/ Same
  <2>1. CASE p \notin Active /\ Active' = Active \cup {p} /\ Mem' = Mem
             /\ Recovered' = Recovered
    BY ZenonT(30), <2>1 DEF Tx!Next, Tx!Begin, Mem, Active
  <2>2. CASE p \in Active /\ Active' = Active \ {p} /\ Mem' = Mem
             /\ Recovered' = Recovered
    BY ZenonT(30), <2>2 DEF Tx!Next, Tx!End, Mem, Active
  <2>3. CASE /\ p \in Active /\ Active' = Active /\ Recovered' = Recovered
             /\ \E b \in Blocks, v \in Vals : Mem' = [Mem EXCEPT ![b] = v]
    BY ZenonT(30), <2>3 DEF Tx!Next, Tx!Write, Mem, Active
  <2> QED
    BY ZenonT(30), <1>4, <2>1, <2>2, <2>3, CallRefines
<1>5. ASSUME NEW b \in Blocks, Recycle(b) PROVE Same
  <2>1. cache' = cache
    <3>1. Pinned /\ cache \in [Blocks -> Vals]
      BY ZenonT(30)
    <3> HIDE DEF IInv
    <3> QED
      BY ZenonT(30), <1>5, <3>1 DEF Recycle, Pinned
  <2> HIDE DEF IInv
  <2>2. Recovered' = Recovered
    BY ZenonT(30), <1>5 DEF Recycle, Recovered, Entry
  <2> QED
    BY ZenonT(30), <1>5, <2>1, <2>2 DEF Recycle, Same, Mem, Active, InOp
<1>6. CASE Crash
  <2> HIDE DEF IInv
  <2>1. Recovered' = Recovered /\ Mem' = Recovered
    BY ZenonT(30), <1>6 DEF Crash, Mem, Recovered, Entry
  <2>2. Active' = {}
    BY ZenonT(30), <1>6 DEF Crash, Active, InOp
  <2> QED
    BY ZenonT(30), <2>1, <2>2 DEF Tx!Next, Tx!Crash, Mem, Active
<1> QED
  BY ZenonT(30), <1>1, <1>2, <1>3, <1>4, <1>5, <1>6 DEF Next, Step

(* The log implements transactions: whatever crashes happen, also during    *)
(* recovery, the disk holds the state of the last commit, which contains    *)
(* whole system calls only.                                                 *)
THEOREM Refinement == Spec => ImplementsTransactions
<1>1. Init => Tx!Init
  BY DEF Init, Tx!Init, Recovered, InOp
<1> QED
  BY <1>1, Invariance, RecoveredFact, StepRefines, PTL
     DEF Spec, ImplementsTransactions, Tx!Spec
-----------------------------------------------------------------------------
HIDE SlotsFact DEF IInv, TypeOK, Booting, ondisk, calls

(* The reservation of begin_op() *)

(* The instances the reservation is made for. *)
Fits == OpBlocks < MAXOPBLOCKS /\ OpBlocks + 2 <= LOGSIZE /\ LOGSIZE <= nlog

(* What the calls in progress may still log: one pair for each block. *)
Left == {x \in Active \X (1..OpBlocks) : x[2] > Cardinality(wrote[x[1]])}

WroteInv ==
  /\ \A p \in Ops : IsFiniteSet(wrote[p]) /\ Cardinality(wrote[p]) <= OpBlocks
  /\ \A p \in Ops : \A b \in buf[p] : Cardinality(wrote[p] \cup {b}) <= OpBlocks
  /\ \A p \in Ops : ~InOp(p) => wrote[p] = {}
  /\ \A p \in Ops : \A b \in wrote[p] : Logged(b)

(* A transaction that is open has room for all that, and for two more: a    *)
(* call that begins alone finds the log empty, and of two calls or more     *)
(* each reserves a block that it does not use.                              *)
Room == phase = "run" => n + Cardinality(Left) <= LOGSIZE - 2
ReserveInv == fault = "none" /\ WroteInv /\ Room

(* They are finitely many, at most OpBlocks for each call. *)
LEMMA LeftFact ==
  /\ IsFiniteSet(Left) /\ Cardinality(Left) \in Nat
  /\ Cardinality(Left) <= Cardinality(Active) * OpBlocks
<1>1. OpBlocks \in Nat
  BY ZenonT(30), LogAssumption
<1>2. IsFiniteSet(1..OpBlocks) /\ Cardinality(1..OpBlocks) = OpBlocks
  BY <1>1, FS_Interval
<1>3. IsFiniteSet(Active)
  BY ZenonT(30), CountFact
<1>4. /\ IsFiniteSet(Active \X (1..OpBlocks))
      /\ Cardinality(Active \X (1..OpBlocks)) = Cardinality(Active) * OpBlocks
  BY ZenonT(30), <1>2, <1>3, FS_Product
<1>5. Left \subseteq Active \X (1..OpBlocks)
  BY ZenonT(30) DEF Left
<1> QED
  BY ZenonT(30), <1>4, <1>5, FS_Subset, FS_CardinalityType

(* When a call logs a block for the first time, one of them is used. *)
LEMMA LeftUsed ==
  ASSUME NEW p \in Active, Active' = Active, Cardinality(wrote[p]) \in Nat,
         Cardinality(wrote[p]) < OpBlocks,
         Cardinality(wrote'[p]) = Cardinality(wrote[p]) + 1,
         \A q \in Ops \ {p} : wrote'[q] = wrote[q]
  PROVE  Cardinality(Left') = Cardinality(Left) - 1
<1>1. PICK k \in Nat : k = Cardinality(wrote[p])
  BY ZenonT(30)
<1>2. OpBlocks \in Nat
  BY ZenonT(30), LogAssumption
<1>3. <<p, k + 1>> \in Left
  BY <1>1, <1>2 DEF Left
<1>4. Left' = Left \ {<<p, k + 1>>}
  <2>1. ASSUME NEW q \in Active, NEW j \in 1..OpBlocks
        PROVE  <<q, j>> \in Left' <=> <<q, j>> \in Left /\ <<q, j>> # <<p, k + 1>>
    <3>1. CASE q = p
      BY <1>1, <1>2, <3>1 DEF Left
    <3>2. CASE q # p
      BY ZenonT(30), <3>2 DEF Left, Active
    <3> QED
      BY ZenonT(30), <3>1, <3>2
  <2>2. \A x \in Left' : \E q \in Active, j \in 1..OpBlocks : x = <<q, j>>
    BY DEF Left
  <2>3. \A x \in Left : \E q \in Active, j \in 1..OpBlocks : x = <<q, j>>
    BY DEF Left
  <2>4. \A x \in Left' : x \in Left /\ x # <<p, k + 1>>
    BY <2>1, <2>2
  <2>5. \A x \in Left : x # <<p, k + 1>> => x \in Left'
    BY <2>1, <2>3
  <2> QED
    BY ZenonT(30), <2>4, <2>5
<1> QED
  BY ZenonT(30), <1>3, <1>4, LeftFact, FS_RemoveElement

(* Calls that end take theirs with them. *)
LEMMA LeftShrinks ==
  ASSUME Active' \subseteq Active, \A q \in Active' : wrote'[q] = wrote[q]
  PROVE  Cardinality(Left') <= Cardinality(Left) /\ Cardinality(Left') \in Nat
<1>1. Left' \subseteq Left
  BY ZenonT(30) DEF Left
<1>2. IsFiniteSet(Left')
  BY ZenonT(30), <1>1, LeftFact, FS_Subset
<1> QED
  BY ZenonT(30), <1>1, <1>2, LeftFact, FS_Subset, FS_CardinalityType

(* A step that touches neither the calls nor the head of the log, and opens *)
(* no transaction.                                                          *)
LEMMA QuietReserve ==
  ASSUME ReserveInv, UNCHANGED <<wrote, buf, n, block, fault>>, Active' = Active,
         phase' = "run" => phase = "run", \A p \in Ops : InOp(p)' <=> InOp(p)
  PROVE  ReserveInv'
<1>1. Left' = Left
  BY ZenonT(30) DEF Left
<1>2. WroteInv'
  BY ZenonT(30) DEF ReserveInv, WroteInv, Logged
<1>3. Room'
  BY ZenonT(30), <1>1 DEF ReserveInv, Room
<1> QED
  BY ZenonT(30), <1>2, <1>3 DEF ReserveInv

(* A step outside calls: a transaction that it opens is empty. *)
LEMMA EmptyReserve ==
  ASSUME Fits, ReserveInv, IInv', fault' = fault, Active' = {},
         \A p \in Ops : wrote'[p] = {} /\ buf'[p] = {}
  PROVE  ReserveInv'
<1>1. IsFiniteSet({}) /\ Cardinality({}) = 0 /\ OpBlocks \in Nat /\ LOGSIZE \in Nat
  BY ZenonT(30), FS_EmptySet, LogAssumption
<1>2. WroteInv'
  <2>1. Cardinality({}) <= OpBlocks
    BY <1>1
  <2> QED
    BY ZenonT(30), <1>1, <2>1 DEF WroteInv
<1>3. Room'
  <2>1. Cardinality(Left') = 0
    BY ZenonT(30), <1>1 DEF Left
  <2>2. phase' = "run" => n' = 0
    BY ZenonT(30), <1>1 DEF IInv, CountInv
  <2> QED
    BY <1>1, <2>1, <2>2 DEF Room, Fits
<1> QED
  BY ZenonT(30), <1>2, <1>3 DEF ReserveInv

(* A call begins: the test of begin_op() leaves room for its reservation. *)
LEMMA BeginOpReserve ==
  ASSUME Fits, IInv, IInv', ReserveInv, NEW p \in Ops, BeginOp(p)
  PROVE  ReserveInv'
<1>1. CASE outstanding' = outstanding
  <2>1. \A q \in Ops : InOp(q)' <=> InOp(q)
    BY <1>1 DEF BeginOp, InOp, IInv, TypeOK
  <2>2. Active' = Active
    BY ZenonT(30), <2>1 DEF Active
  <2> QED
    BY ZenonT(30), <2>1, <2>2, QuietReserve DEF BeginOp
<1>2. CASE outstanding' = outstanding + 1 /\ n + (outstanding + 1) * MAXOPBLOCKS <= LOGSIZE
  <2>1. n' + outstanding' * MAXOPBLOCKS <= LOGSIZE /\ n' = n /\ n \in Nat
    BY ZenonT(30), <1>2 DEF BeginOp, IInv, TypeOK
  <2>2. outstanding' = Cardinality(Active')
    BY ZenonT(30) DEF IInv, CountInv
  <2>3. Cardinality(Left') <= Cardinality(Active') * OpBlocks /\ Cardinality(Left') \in Nat
    <3>1. OpBlocks \in Nat
      BY ZenonT(30), LogAssumption
    <3>2. IsFiniteSet(1..OpBlocks) /\ Cardinality(1..OpBlocks) = OpBlocks
      BY <3>1, FS_Interval
    <3>3. IsFiniteSet(Active')
      <4>1. Active' \subseteq Ops
        BY ZenonT(30) DEF Active
      <4> QED
        BY ZenonT(30), <4>1, LogAssumption, FS_Subset
    <3>4. /\ IsFiniteSet(Active' \X (1..OpBlocks))
          /\ Cardinality(Active' \X (1..OpBlocks)) = Cardinality(Active') * OpBlocks
      BY ZenonT(30), <3>2, <3>3, FS_Product
    <3>5. Left' \subseteq Active' \X (1..OpBlocks)
      BY ZenonT(30) DEF Left
    <3> QED
      BY ZenonT(30), <3>4, <3>5, FS_Subset, FS_CardinalityType
  <2>4. Room'
    <3>0. /\ outstanding' \in Nat /\ MAXOPBLOCKS \in Nat /\ OpBlocks \in Nat /\ LOGSIZE \in Nat
          /\ OpBlocks < MAXOPBLOCKS /\ OpBlocks + 2 <= LOGSIZE
      BY ZenonT(30), LogAssumption DEF IInv, TypeOK, Fits
    <3>1. CASE outstanding = 0
      <4>1. phase' = "run" => n' = 0
        BY ZenonT(30), <2>1, <3>1 DEF BeginOp, IInv, CountInv
      <4>2. Cardinality(Left') <= OpBlocks
        <5>1. outstanding' = 1
          BY <1>2, <3>1
        <5>2. Cardinality(Left') <= 1 * OpBlocks
          BY ZenonT(30), <2>2, <2>3, <5>1
        <5> QED
          BY <3>0, <5>2
      <4>3. Cardinality(Left') \in Nat
        BY ZenonT(30), <2>3
      <4>4. 0 + Cardinality(Left') <= LOGSIZE - 2
        BY <3>0, <4>2, <4>3
      <4> QED
        BY ZenonT(30), <4>1, <4>4 DEF Room
    <3>2. CASE outstanding # 0
      <4>1. outstanding \in Nat /\ outstanding' >= 2
        <5>1. outstanding \in Nat
          BY ZenonT(30) DEF IInv, TypeOK
        <5> QED
          BY <1>2, <3>2, <5>1
      <4>2. \A x, y, z \in Nat : z < y => x * z + x <= x * y /\ x * z \in Nat /\ x * y \in Nat
        OBVIOUS
      <4>3. PICK k \in Nat, m \in Nat :
              k = outstanding' * OpBlocks /\ m = outstanding' * MAXOPBLOCKS
        BY ZenonT(30), <3>0, <4>2
      <4>4. k + outstanding' <= m
        BY ZenonT(30), <3>0, <4>2, <4>3
      <4>5. n' + m <= LOGSIZE /\ Cardinality(Left') <= k
        BY ZenonT(30), <2>1, <2>2, <2>3, <4>3
      <4>6. /\ n' \in Nat /\ Cardinality(Left') \in Nat /\ LOGSIZE \in Nat
            /\ outstanding' \in Nat /\ k \in Nat /\ m \in Nat
        BY ZenonT(30), <2>1, <2>3, <3>0, <4>3
      <4>7. n' + Cardinality(Left') <= LOGSIZE - 2
        <5>1. \A a, c, j, l, o, g \in Nat :
                o >= 2 /\ j + o <= l /\ a + l <= g /\ c <= j => a + c <= g - 2
          OBVIOUS
        <5> QED
          BY ZenonT(30), <4>1, <4>4, <4>5, <4>6, <5>1
      <4> QED
        BY ZenonT(30), <4>7 DEF Room
    <3> QED
      BY ZenonT(30), <3>1, <3>2
  <2>5. WroteInv'
    <3>1. UNCHANGED <<wrote, buf, n, block>> /\ \A q \in Ops : ~InOp(q)' => ~InOp(q)
      BY ZenonT(30), <1>2 DEF BeginOp, InOp, IInv, TypeOK
    <3> QED
      BY ZenonT(30), <3>1 DEF ReserveInv, WroteInv, Logged
  <2> QED
    BY ZenonT(30), <2>4, <2>5 DEF ReserveInv, BeginOp
<1> QED
  BY <1>1, <1>2, LogAssumption DEF BeginOp, IInv, TypeOK

(* A call ends and returns what is left of its reservation. *)
LEMMA EndOpReserve ==
  ASSUME IInv, IInv', ReserveInv, NEW p \in Ops, EndOp(p)
  PROVE  ReserveInv'
<1>1. pc[p] = "op" /\ committing = 0
  BY ZenonT(30) DEF EndOp, IInv, CommitExclusive, InOp, TypeOK
<1>2. /\ \A q \in Ops : InOp(q)' <=> InOp(q) /\ q # p
      /\ \A q \in Ops \ {p} : wrote'[q] = wrote[q]
      /\ wrote'[p] = {} /\ UNCHANGED <<n, block, buf, fault>>
  BY <1>1 DEF EndOp, Wakeup, InOp, IInv, TypeOK
<1>3. Room'
  <2>1. Active' \subseteq Active /\ \A q \in Active' : wrote'[q] = wrote[q]
    BY ZenonT(30), <1>2 DEF Active
  <2>2. Cardinality(Left') <= Cardinality(Left) /\ Cardinality(Left') \in Nat
    BY ZenonT(30), <2>1, LeftShrinks
  <2>3. n' = n /\ n \in Nat /\ LOGSIZE \in Nat /\ Cardinality(Left) \in Nat
    BY ZenonT(30), <1>2, LeftFact, LogAssumption DEF IInv, TypeOK
  <2>4. phase = "run"
    BY ZenonT(30), <1>1 DEF IInv, PhaseInv, CommitExclusive, Booting, InOp, TypeOK
  <2>5. n + Cardinality(Left) <= LOGSIZE - 2
    BY ZenonT(30), <2>4 DEF ReserveInv, Room
  <2>6. n' + Cardinality(Left') <= LOGSIZE - 2
    BY <2>2, <2>3, <2>5
  <2> QED
    BY ZenonT(30), <2>6 DEF Room
<1>4. buf[p] = {}
  BY ZenonT(30), <1>1 DEF IInv, CallInv
<1>5. IsFiniteSet({}) /\ Cardinality({}) <= OpBlocks
  <2>1. IsFiniteSet({}) /\ Cardinality({}) = 0
    BY ZenonT(30), FS_EmptySet
  <2> QED
    BY <2>1, LogAssumption
<1>6. WroteInv'
  <2>1. WroteInv
    BY ZenonT(30) DEF ReserveInv
  <2>2. ASSUME NEW q \in Ops
        PROVE  IsFiniteSet(wrote'[q]) /\ Cardinality(wrote'[q]) <= OpBlocks
    <3>1. CASE q = p
      BY ZenonT(30), <1>2, <1>5, <3>1
    <3>2. CASE q # p
      BY ZenonT(30), <1>2, <2>1, <3>2 DEF WroteInv
    <3> QED
      BY ZenonT(30), <3>1, <3>2
  <2>3. \A q \in Ops : \A b \in buf'[q] : Cardinality(wrote'[q] \cup {b}) <= OpBlocks
    BY ZenonT(30), <1>2, <1>4, <2>1 DEF WroteInv
  <2>4. \A q \in Ops : ~InOp(q)' => wrote'[q] = {}
    BY ZenonT(30), <1>2, <2>1 DEF WroteInv
  <2>5. \A q \in Ops : \A b \in wrote'[q] : Logged(b)'
    BY ZenonT(30), <1>2, <2>1 DEF WroteInv, Logged
  <2> QED
    BY ZenonT(30), <2>2, <2>3, <2>4, <2>5 DEF WroteInv
<1> QED
  BY ZenonT(30), <1>2, <1>3, <1>6 DEF ReserveInv

(* The checks of log_write() pass. *)
LEMMA LogWriteReserve ==
  ASSUME Fits, IInv, IInv', ReserveInv,
         NEW p \in Ops, NEW b \in Blocks, NEW v \in Vals, LogWrite(p, b, v)
  PROVE  ReserveInv'
<1>1. /\ \A q \in Ops : InOp(q)' <=> InOp(q)
      /\ UNCHANGED <<n, block, wrote>> /\ p \in Active
      /\ buf' = [buf EXCEPT ![p] = {b}]
      /\ Cardinality(wrote[p] \cup {b}) <= OpBlocks
  BY ZenonT(30) DEF LogWrite, InOp, Active, IInv, TypeOK
<1>2. Active' = Active /\ Left' = Left
  BY ZenonT(30), <1>1 DEF Active, Left
<1>3. outstanding >= 1
  <2>1. outstanding = Cardinality(Active) /\ Cardinality(Active) \in Nat
    BY ZenonT(30), CountFact DEF IInv, CountInv
  <2>2. Cardinality(Active) # 0
    BY ZenonT(30), <1>1, CountFact
  <2> QED
    BY <2>1, <2>2
<1>4. /\ IsFiniteSet(wrote[p]) /\ Cardinality(wrote[p]) \in Nat
      /\ OpBlocks \in Nat /\ LOGSIZE \in Nat /\ nlog \in Nat /\ LOGSIZE <= nlog
      /\ n \in Nat /\ Cardinality(Left) \in Nat
  BY ZenonT(30), FS_CardinalityType, LogAssumption, LeftFact
     DEF Fits, ReserveInv, WroteInv, IInv, TypeOK
<1>5. phase = "run"
  BY ZenonT(30), <1>1 DEF IInv, PhaseInv, CommitExclusive, Booting, InOp, Active, TypeOK
<1>6. n + Cardinality(Left) <= LOGSIZE - 2
  BY ZenonT(30), <1>5 DEF ReserveInv, Room
<1>7. n < LOGSIZE /\ n < nlog - 1
  BY <1>4, <1>6
<1>8. fault' = "none"
  BY <1>3, <1>4, <1>7 DEF LogWrite, ReserveInv, IInv, TypeOK
<1>9. WroteInv'
  BY ZenonT(30), <1>1 DEF ReserveInv, WroteInv, Logged, IInv, TypeOK
<1>10. Room'
  BY ZenonT(30), <1>1, <1>2, <1>6 DEF Room
<1> QED
  BY ZenonT(30), <1>8, <1>9, <1>10 DEF ReserveInv

(* log_write() appends: the entry fits, and takes the place of one that was *)
(* reserved.                                                                *)
LEMMA LogAppendReserve ==
  ASSUME Fits, IInv, IInv', ReserveInv, NEW p \in Ops, NEW b \in Blocks, LogAppend(p, b)
  PROVE  ReserveInv'
<1>1. /\ \A q \in Ops : InOp(q)' <=> InOp(q)
      /\ p \in Active /\ b \in buf[p] /\ wrote[p] \subseteq Blocks
  BY ZenonT(30) DEF LogAppend, calls, InOp, Active, IInv, TypeOK
<1>2. Active' = Active
  BY ZenonT(30), <1>1 DEF Active
<1>4. /\ IsFiniteSet(wrote[p]) /\ Cardinality(wrote[p]) \in Nat
      /\ OpBlocks \in Nat /\ LOGSIZE \in Nat /\ nlog \in Nat /\ LOGSIZE <= nlog
      /\ n \in Nat /\ Cardinality(Left) \in Nat
  BY ZenonT(30), FS_CardinalityType, LogAssumption, LeftFact
     DEF Fits, ReserveInv, WroteInv, IInv, TypeOK
<1>5. phase = "run"
  BY ZenonT(30), <1>1 DEF IInv, PhaseInv, CommitExclusive, Booting, InOp, Active, TypeOK
<1>6. n + Cardinality(Left) <= LOGSIZE - 2
  BY ZenonT(30), <1>5 DEF ReserveInv, Room
<1>7. n < LOGSIZE /\ n < nlog - 1
  BY <1>4, <1>6
<1>8. /\ fault' = "none"
      /\ n' = IF Logged(b) THEN n ELSE n + 1
      /\ block' = IF Logged(b) THEN block ELSE [block EXCEPT ![n] = b]
      /\ wrote' = [wrote EXCEPT ![p] = wrote[p] \cup {b}]
      /\ buf' = [buf EXCEPT ![p] = {}]
  BY <1>4, <1>7 DEF LogAppend, ReserveInv
<1>9. /\ IsFiniteSet(wrote'[p]) /\ Cardinality(wrote'[p]) <= OpBlocks
      /\ wrote'[p] = wrote[p] \cup {b}
      /\ \A q \in Ops \ {p} : wrote'[q] = wrote[q]
  <2>1. wrote'[p] = wrote[p] \cup {b} /\ \A q \in Ops \ {p} : wrote'[q] = wrote[q]
    BY ZenonT(30), <1>8 DEF IInv, TypeOK
  <2>2. IsFiniteSet(wrote[p] \cup {b})
    BY ZenonT(30), <1>4, FS_AddElement
  <2> QED
    BY ZenonT(30), <1>1, <2>1, <2>2 DEF ReserveInv, WroteInv
<1>10. \A c \in Blocks : Logged(c) => Logged(c)'
  BY <1>4, <1>8 DEF Logged, IInv, TypeOK, Slots
<1>11. Logged(b)'
  <2>1. n \in Slots
    BY <1>4, <1>7 DEF Slots
  <2> QED
    BY <1>4, <1>8, <2>1 DEF Logged, IInv, TypeOK
<1>12. WroteInv'
  <2>1. \A q \in Ops : IsFiniteSet(wrote'[q]) /\ Cardinality(wrote'[q]) <= OpBlocks
    BY ZenonT(30), <1>9 DEF ReserveInv, WroteInv
  <2>2. \A q \in Ops : \A c \in buf'[q] : Cardinality(wrote'[q] \cup {c}) <= OpBlocks
    BY ZenonT(30), <1>8, <1>9 DEF ReserveInv, WroteInv, IInv, TypeOK
  <2>3. \A q \in Ops : ~InOp(q)' => wrote'[q] = {}
    BY ZenonT(30), <1>1, <1>9 DEF ReserveInv, WroteInv, Active
  <2>4. \A q \in Ops : wrote[q] \subseteq Blocks
    BY ZenonT(30) DEF IInv, TypeOK
  <2>5. \A q \in Ops : \A c \in wrote'[q] : Logged(c)'
    BY ZenonT(30), <1>9, <1>10, <1>11, <2>4 DEF ReserveInv, WroteInv
  <2> QED
    BY ZenonT(30), <2>1, <2>2, <2>3, <2>5 DEF WroteInv
<1>13. n' + Cardinality(Left') <= LOGSIZE - 2
  <2>1. CASE b \in wrote[p]
    <3>1. Logged(b) /\ \A q \in Ops : wrote'[q] = wrote[q]
      BY ZenonT(30), <1>9, <2>1 DEF ReserveInv, WroteInv
    <3>2. Left' = Left
      BY ZenonT(30), <1>2, <3>1 DEF Left, Active
    <3> QED
      BY ZenonT(30), <1>6, <1>8, <3>1, <3>2
  <2>2. CASE b \notin wrote[p]
    <3>1. Cardinality(wrote'[p]) = Cardinality(wrote[p]) + 1
      BY <1>4, <1>9, <2>2, FS_AddElement
    <3>4. Cardinality(wrote[p]) < OpBlocks
      BY <1>4, <1>9, <3>1
    <3>5. Cardinality(wrote[p]) \in Nat /\ \A q \in Ops \ {p} : wrote'[q] = wrote[q]
      BY ZenonT(30), <1>4, <1>9
    <3>2. Cardinality(Left') = Cardinality(Left) - 1
      BY ZenonT(30), <1>1, <1>2, <3>1, <3>4, <3>5, LeftUsed
    <3>3. n' <= n + 1 /\ n' \in Nat
      BY <1>4, <1>8
    <3> QED
      BY <1>4, <1>6, <3>2, <3>3
  <2> QED
    BY ZenonT(30), <2>1, <2>2
<1>14. Room'
  BY ZenonT(30), <1>13 DEF Room
<1> QED
  BY ZenonT(30), <1>8, <1>12, <1>14 DEF ReserveInv

(* Every step preserves the reservation. *)
LEMMA NextReserve ==
  ASSUME Fits, IInv, IInv', ReserveInv, [Next]_vars
  PROVE  ReserveInv'
<1> DEFINE Quiet == /\ UNCHANGED <<wrote, buf, n, block, fault>>
                    /\ phase' = "run" => phase = "run"
                    /\ \A p \in Ops : InOp(p)' <=> InOp(p)
<1>1. Quiet => ReserveInv'
  BY ZenonT(30), QuietReserve DEF Active
<1>2. CASE UNCHANGED vars
  BY ZenonT(30), <1>1, <1>2 DEF vars, InOp
<1>3. CASE RecoverInstall \/ CommitInstall
  BY ZenonT(30), <1>1, <1>3 DEF RecoverInstall, CommitInstall, InstallBlock, calls, InOp
<1>4. CASE Commit \/ WriteLog \/ WriteHead
  BY ZenonT(30), <1>1, <1>4 DEF Commit, WriteLog, WriteHead, calls, InOp
<1>5. ASSUME NEW b \in Blocks, Recycle(b) PROVE ReserveInv'
  BY ZenonT(30), <1>1, <1>5 DEF Recycle, calls, InOp
<1>6. ASSUME NEW p \in Ops, EndCommit(p) PROVE ReserveInv'
  <2>1. Active = {} /\ \A q \in Ops : InOp(q)' <=> InOp(q)
    BY ZenonT(30), <1>6 DEF EndCommit, Wakeup, IInv, TypeOK, PhaseInv, CommitExclusive, Active, InOp
  <2>2. UNCHANGED <<wrote, buf, fault>>
    BY ZenonT(30), <1>6 DEF EndCommit
  <2>3. \A q \in Ops : ~InOp(q) /\ wrote[q] = {} /\ buf[q] = {}
    BY ZenonT(30), <2>1 DEF Active, ReserveInv, WroteInv, IInv, CallInv, InOp
  <2>4. Active' = {}
    BY ZenonT(30), <2>1, <2>3 DEF Active
  <2> QED
    BY ZenonT(30), <2>2, <2>3, <2>4, EmptyReserve
<1>7. ASSUME UNCHANGED <<pc, wrote, buf, fault>>, Active = {} PROVE ReserveInv'
  <2>1. \A p \in Ops : ~InOp(p) /\ wrote[p] = {} /\ buf[p] = {}
    BY ZenonT(30), <1>7 DEF Active, ReserveInv, WroteInv, IInv, CallInv, InOp
  <2>2. Active' = {}
    BY ZenonT(30), <1>7, <2>1 DEF Active, InOp
  <2> QED
    BY ZenonT(30), <1>7, <2>1, <2>2, EmptyReserve
<1>8. CASE ReadHead \/ RecoverClear
  <2>1. Active = {}
    BY ZenonT(30), <1>8 DEF ReadHead, RecoverClear, IInv, PhaseInv, Booting, Active, InOp
  <2> QED
    BY ZenonT(30), <1>7, <1>8, <2>1 DEF ReadHead, RecoverClear, ClearHead, calls
<1>9. CASE CommitClear
  <2>1. Active = {}
    BY ZenonT(30), <1>9 DEF CommitClear, IInv, PhaseInv, CommitExclusive, Active
  <2> QED
    BY ZenonT(30), <1>7, <1>9, <2>1 DEF CommitClear, ClearHead, calls
<1>10. CASE Crash
  <2>1. Active' = {}
    BY ZenonT(30), <1>10 DEF Crash, Active, InOp
  <2> QED
    BY ZenonT(30), <1>10, <2>1, EmptyReserve DEF Crash, ReserveInv
<1>11. CASE Next
  BY ZenonT(30), <1>3, <1>4, <1>5, <1>6, <1>8, <1>9, <1>10, <1>11, BeginOpReserve, EndOpReserve,
     LogWriteReserve, LogAppendReserve DEF Next, Step, Call, Recovery, Committer
<1> QED
  BY ZenonT(30), <1>2, <1>11

(* The space that begin_op() reserves suffices: when every call logs fewer  *)
(* than MAXOPBLOCKS blocks, log_write() never panics and no entry goes past *)
(* the end of the log.                                                      *)
THEOREM Reservation ==
  ASSUME Fits
  PROVE  Spec => []ReservationSuffices
<1>1. Init => ReserveInv
  <2> SUFFICES ASSUME Init PROVE ReserveInv
    BY ZenonT(30)
  <2>1. Active = {} /\ Left = {}
    BY ZenonT(30) DEF Init, Active, Left, InOp
  <2>2. IsFiniteSet({}) /\ Cardinality({}) = 0 /\ OpBlocks \in Nat /\ LOGSIZE \in Nat
    BY ZenonT(30), FS_EmptySet, LogAssumption
  <2>3. WroteInv
    BY <2>2 DEF WroteInv, Init
  <2>4. Room /\ fault = "none"
    BY ZenonT(30) DEF Room, Init
  <2> QED
    BY ZenonT(30), <2>3, <2>4 DEF ReserveInv
<1>2. IInv /\ IInv' /\ ReserveInv /\ [Next]_vars => ReserveInv'
  BY ZenonT(30), NextReserve
<1>3. ReserveInv => ReservationSuffices
  BY ZenonT(30) DEF ReserveInv, ReservationSuffices
<1> QED
  BY <1>1, <1>2, <1>3, Invariance, PTL DEF Spec
=============================================================================
