-------------------------------- MODULE Log ---------------------------------
(***************************************************************************)
(* The redo log of the file system (log.c), with the buffer cache (bio.c)  *)
(* as log.c sees it and a disk that survives crashes.                      *)
(*                                                                         *)
(* Everything under log.lock is one step; so is every block written to the *)
(* disk, because iderw() returns when the disk has the sector.  The checks *)
(* at the head of log_write() are made without the lock and are a step of  *)
(* their own.  The cache maps a block to what bread() would return: the    *)
(* data of its buffer, or those of the disk when the buffer was recycled.  *)
(***************************************************************************)
EXTENDS Naturals, FiniteSets

CONSTANTS Ops,           \* processes that execute FS system calls
          Blocks,        \* home blocks of the file system (not 0)
          Vals,          \* contents of a block
          MAXOPBLOCKS,   \* blocks that begin_op() reserves for a call
          OpBlocks,      \* blocks that a call really logs, at most
          LOGSIZE,       \* entries of logheader.block
          nlog           \* log.size: blocks of the log on disk, with header

ASSUME LogAssumption ==
  /\ MAXOPBLOCKS \in Nat \ {0} /\ LOGSIZE \in Nat \ {0} /\ nlog \in Nat \ {0}
  /\ OpBlocks \in Nat /\ MAXOPBLOCKS <= LOGSIZE
  /\ IsFiniteSet(Ops) /\ 0 \notin Blocks

VARIABLES disk,          \* home blocks on disk
          dlog,          \* log blocks on disk
          dn, dblock,    \* header block on disk: n and block[]
          cache,         \* what bread() returns
          dirty,         \* buffers with B_DIRTY, which bget() must not recycle
          n, block,      \* log.lh
          outstanding,   \* log.outstanding
          committing,    \* log.committing
          phase,         \* where initlog() or commit() is
          tail,          \* its loop index
          pc,            \* where a call is
          buf,           \* the buffer a call has locked for log_write()
          wrote,         \* blocks a call has logged
          fault          \* "panic", or "overrun" of the log

ondisk == <<disk, dlog, dn, dblock>>
calls == <<pc, buf, wrote>>
vars == <<disk, dlog, dn, dblock, cache, dirty, n, block, outstanding,
          committing, phase, tail, pc, buf, wrote, fault>>

Slots == 0..(LOGSIZE - 1)

TypeOK ==
  /\ disk \in [Blocks -> Vals] /\ cache \in [Blocks -> Vals]
  /\ dlog \in [Slots -> Vals]
  /\ dn \in Nat /\ n \in Nat /\ tail \in Nat /\ outstanding \in Nat
  /\ dblock \in [Slots -> Blocks \cup {0}]
  /\ block \in [Slots -> Blocks \cup {0}]
  /\ dirty \subseteq Blocks
  /\ committing \in {0, 1}
  /\ phase \in {"boot", "recover", "run", "commit", "write_log", "install",
                "finish"}
  /\ pc \in [Ops -> {"idle", "begin", "asleep", "op", "append", "commit"}]
  /\ buf \in [Ops -> SUBSET Blocks]
  /\ wrote \in [Ops -> SUBSET Blocks]
  /\ fault \in {"none", "panic", "overrun"}

(* A disk as mkfs left it, and the first process about to call initlog(). *)
Init ==
  /\ disk \in {[b \in Blocks |-> v] : v \in Vals}
  /\ dlog \in {[i \in Slots |-> v] : v \in Vals}
  /\ dblock = [i \in Slots |-> 0] /\ block = [i \in Slots |-> 0]
  /\ dn = 0 /\ n = 0 /\ tail = 0 /\ outstanding = 0 /\ committing = 0
  /\ cache = disk /\ dirty = {}
  /\ phase = "boot"
  /\ pc = [p \in Ops |-> "idle"]
  /\ buf = [p \in Ops |-> {}]
  /\ wrote = [p \in Ops |-> {}]
  /\ fault = "none"

-----------------------------------------------------------------------------
(* initlog(): recover_from_log() *)

(* read_head() *)
ReadHead ==
  /\ phase = "boot"
  /\ n' = dn
  /\ block' = [i \in Slots |-> IF i < dn THEN dblock[i] ELSE block[i]]
  /\ tail' = 0
  /\ phase' = "recover"
  /\ UNCHANGED <<ondisk, cache, dirty, outstanding, committing, calls, fault>>

(* One round of the loop of install_trans(). *)
InstallBlock ==
  /\ tail < n
  /\ disk' = [disk EXCEPT ![block[tail]] = dlog[tail]]
  /\ cache' = [cache EXCEPT ![block[tail]] = dlog[tail]]
  /\ dirty' = dirty \ {block[tail]}
  /\ tail' = tail + 1
  /\ UNCHANGED <<dlog, dn, dblock, n, block, outstanding, committing, phase,
                 calls, fault>>

(* Mutated: the log is cleared before every block is installed. *)
ClearHeadEarly ==
  /\ n' = 0
  /\ dn' = 0
  /\ UNCHANGED <<disk, dlog, dblock, cache, dirty, block, outstanding,
                 committing, tail, calls, fault>>

(* log.lh.n = 0; write_head() *)
ClearHead ==
  /\ tail = n
  /\ n' = 0
  /\ dn' = 0
  /\ UNCHANGED <<disk, dlog, dblock, cache, dirty, block, outstanding,
                 committing, tail, calls, fault>>

RecoverInstall == phase = "recover" /\ InstallBlock

RecoverClear == phase = "recover" /\ ClearHead /\ phase' = "run"

-----------------------------------------------------------------------------
(* begin_op() and log_write() *)

(* Mutated: the call that begins is not counted. *)
BeginOpOffByOne(p) ==
  /\ phase \notin {"boot", "recover"}
  /\ pc[p] \in {"idle", "begin"}
  /\ IF committing = 1 \/ n + outstanding * MAXOPBLOCKS > LOGSIZE
     THEN pc' = [pc EXCEPT ![p] = "asleep"] /\ UNCHANGED outstanding
     ELSE pc' = [pc EXCEPT ![p] = "op"] /\ outstanding' = outstanding + 1
  /\ UNCHANGED <<ondisk, cache, dirty, n, block, committing, phase, tail, buf,
                 wrote, fault>>

(* begin_op(), also when it goes round its loop after a wakeup. *)
BeginOp(p) ==
  /\ phase \notin {"boot", "recover"}
  /\ pc[p] \in {"idle", "begin"}
  /\ IF committing = 1 \/ n + (outstanding + 1) * MAXOPBLOCKS > LOGSIZE
     THEN pc' = [pc EXCEPT ![p] = "asleep"] /\ UNCHANGED outstanding
     ELSE pc' = [pc EXCEPT ![p] = "op"] /\ outstanding' = outstanding + 1
  /\ UNCHANGED <<ondisk, cache, dirty, n, block, committing, phase, tail, buf,
                 wrote, fault>>

(* Somebody has the buffer of b locked. *)
Locked(b) == \E q \in Ops : b \in buf[q]

(* The call locks a buffer with bread(), changes its data and calls         *)
(* log_write(), which makes its checks.                                     *)
LogWrite(p, b, v) ==
  /\ pc[p] = "op"
  /\ ~Locked(b)
  /\ Cardinality(wrote[p] \cup {b}) <= OpBlocks
  /\ cache' = [cache EXCEPT ![b] = v]
  /\ fault' = IF n >= LOGSIZE \/ n >= nlog - 1 \/ outstanding < 1
              THEN "panic" ELSE fault
  /\ pc' = [pc EXCEPT ![p] = "append"]
  /\ buf' = [buf EXCEPT ![p] = {b}]
  /\ UNCHANGED <<ondisk, dirty, n, block, outstanding, committing, phase, tail,
                 wrote>>

Logged(b) == \E i \in Slots : i < n /\ block[i] = b

(* Mutated: log_write() does not set B_DIRTY. *)
LogAppendUnpinned(p, b) ==
  /\ pc[p] = "append"
  /\ b \in buf[p]
  /\ IF Logged(b)
     THEN UNCHANGED <<n, block>>
     ELSE n' = n + 1 /\ block' = [block EXCEPT ![n] = b]
  /\ wrote' = [wrote EXCEPT ![p] = wrote[p] \cup {b}]
  /\ buf' = [buf EXCEPT ![p] = {}]
  /\ pc' = [pc EXCEPT ![p] = "op"]
  /\ UNCHANGED <<ondisk, cache, dirty, outstanding, committing, phase, tail,
                 fault>>

(* log_write() under log.lock, and brelse().  To put an entry past the end  *)
(* of the log, in memory or on disk, ends what is modelled.                 *)
LogAppend(p, b) ==
  /\ pc[p] = "append"
  /\ b \in buf[p]
  /\ IF ~Logged(b) /\ (n >= LOGSIZE \/ n >= nlog - 1)
     THEN /\ fault' = "overrun"
          /\ UNCHANGED <<n, block, dirty, calls>>
     ELSE /\ n' = IF Logged(b) THEN n ELSE n + 1
          /\ block' = IF Logged(b) THEN block ELSE [block EXCEPT ![n] = b]
          /\ dirty' = dirty \cup {b}
          /\ wrote' = [wrote EXCEPT ![p] = wrote[p] \cup {b}]
          /\ buf' = [buf EXCEPT ![p] = {}]
          /\ pc' = [pc EXCEPT ![p] = "op"]
          /\ UNCHANGED fault
  /\ UNCHANGED <<ondisk, cache, outstanding, committing, phase, tail>>

(* bget() recycles the buffer of b: unlocked and not dirty. *)
Recycle(b) ==
  /\ ~Locked(b)
  /\ b \notin dirty
  /\ cache' = [cache EXCEPT ![b] = disk[b]]
  /\ UNCHANGED <<ondisk, dirty, n, block, outstanding, committing, phase, tail,
                 calls, fault>>

-----------------------------------------------------------------------------
(* end_op() and commit() *)

(* wakeup(&log) *)
Wakeup(loc) == [p \in Ops |-> IF loc[p] = "asleep" THEN "begin" ELSE loc[p]]

(* end_op(), its first critical section. *)
EndOp(p) ==
  /\ pc[p] = "op"
  /\ outstanding' = outstanding - 1
  /\ wrote' = [wrote EXCEPT ![p] = {}]
  /\ IF committing = 1
     THEN fault' = "panic" /\ UNCHANGED <<committing, phase, pc>>
     ELSE /\ IF outstanding - 1 = 0
             THEN /\ committing' = 1
                  /\ phase' = "commit"
                  /\ pc' = [pc EXCEPT ![p] = "commit"]
             ELSE /\ pc' = Wakeup([pc EXCEPT ![p] = "idle"])
                  /\ UNCHANGED <<committing, phase>>
          /\ UNCHANGED fault
  /\ UNCHANGED <<ondisk, cache, dirty, n, block, tail, buf>>

(* commit(): an empty transaction is not written. *)
Commit ==
  /\ phase = "commit"
  /\ phase' = IF n > 0 THEN "write_log" ELSE "finish"
  /\ tail' = 0
  /\ UNCHANGED <<ondisk, cache, dirty, n, block, outstanding, committing,
                 calls, fault>>

(* One round of the loop of write_log(). *)
WriteLog ==
  /\ phase = "write_log"
  /\ tail < n
  /\ dlog' = [dlog EXCEPT ![tail] = cache[block[tail]]]
  /\ tail' = tail + 1
  /\ UNCHANGED <<disk, dn, dblock, cache, dirty, n, block, outstanding,
                 committing, phase, calls, fault>>

(* Mutated: write_head() stores n only. *)
WriteHeadCount ==
  /\ phase = "write_log"
  /\ tail = n
  /\ dn' = n
  /\ phase' = "install"
  /\ tail' = 0
  /\ UNCHANGED <<disk, dlog, dblock, cache, dirty, n, block, outstanding,
                 committing, calls, fault>>

(* write_head(): the transaction is committed. *)
WriteHead ==
  /\ phase = "write_log"
  /\ tail = n
  /\ dn' = n
  /\ dblock' = [i \in Slots |-> IF i < n THEN block[i] ELSE dblock[i]]
  /\ phase' = "install"
  /\ tail' = 0
  /\ UNCHANGED <<disk, dlog, cache, dirty, n, block, outstanding, committing,
                 calls, fault>>

(* install_trans() *)
CommitInstall == phase = "install" /\ InstallBlock

(* The transaction is erased from the log. *)
CommitClear == phase = "install" /\ ClearHead /\ phase' = "finish"

(* Mutated: no wakeup after the commit. *)
EndCommitSilent(p) ==
  /\ pc[p] = "commit"
  /\ phase = "finish"
  /\ committing' = 0
  /\ phase' = "run"
  /\ pc' = [pc EXCEPT ![p] = "idle"]
  /\ UNCHANGED <<ondisk, cache, dirty, n, block, outstanding, tail, buf, wrote,
                 fault>>

(* end_op(), its second critical section. *)
EndCommit(p) ==
  /\ pc[p] = "commit"
  /\ phase = "finish"
  /\ committing' = 0
  /\ phase' = "run"
  /\ pc' = Wakeup([pc EXCEPT ![p] = "idle"])
  /\ UNCHANGED <<ondisk, cache, dirty, n, block, outstanding, tail, buf, wrote,
                 fault>>

-----------------------------------------------------------------------------

(* Power fails, or a panicked machine is reset: memory is lost. *)
Crash ==
  /\ cache' = disk
  /\ dirty' = {}
  /\ n' = 0 /\ outstanding' = 0 /\ committing' = 0 /\ tail' = 0
  /\ block' = [i \in Slots |-> 0]
  /\ phase' = "boot"
  /\ pc' = [p \in Ops |-> "idle"]
  /\ buf' = [p \in Ops |-> {}]
  /\ wrote' = [p \in Ops |-> {}]
  /\ fault' = "none"
  /\ UNCHANGED ondisk

Call(p) ==
  \/ BeginOp(p) \/ EndOp(p) \/ EndCommit(p)
  \/ \E b \in Blocks :
       LogAppend(p, b) \/ \E v \in Vals : LogWrite(p, b, v)

Recovery == ReadHead \/ RecoverInstall \/ RecoverClear

Committer ==
  Commit \/ WriteLog \/ WriteHead \/ CommitInstall \/ CommitClear

Step ==
  \/ Recovery \/ Committer
  \/ \E p \in Ops : Call(p)
  \/ \E b \in Blocks : Recycle(b)

Next ==
  \/ fault = "none" /\ Step
  \/ fault # "overrun" /\ Crash

Spec == Init /\ [][Next]_vars

(* A system call makes a bounded number of changes and comes to its         *)
(* end_op(); a commit goes on to its end unless the machine crashes.        *)
Fairness ==
  /\ WF_vars(fault = "none" /\ (Recovery \/ Committer))
  /\ \A p \in Ops :
       /\ SF_vars(fault = "none" /\ EndOp(p))
       /\ WF_vars(fault = "none" /\ EndCommit(p))
       /\ WF_vars(fault = "none" /\ \E b \in Blocks : LogAppend(p, b))

FairSpec == Spec /\ Fairness

-----------------------------------------------------------------------------
(* Properties *)

(* The home blocks as recover_from_log() would leave them. *)
Entry(b) == CHOOSE i \in Slots : i < dn /\ dblock[i] = b
Recovered ==
  [b \in Blocks |-> IF \E i \in Slots : i < dn /\ dblock[i] = b
                    THEN dlog[Entry(b)] ELSE disk[b]]

Booting == phase \in {"boot", "recover"}
InOp(p) == pc[p] \in {"op", "append"}

(* The log implements transactions: the contents of the disk after a crash  *)
(* at any moment, recovery interrupted by crashes included, are those of    *)
(* the last commit, and a commit contains no part of a call in progress.    *)
Tx == INSTANCE Transactions WITH
        mem <- IF Booting THEN Recovered ELSE cache,
        stable <- Recovered,
        active <- {p \in Ops : InOp(p)}
ImplementsTransactions == Tx!Spec

(* commit() runs when no call is between begin_op() and end_op(), so that   *)
(* the blocks do not change while write_log() copies them.                  *)
CommitExclusive ==
  committing = 1 => outstanding = 0 /\ \A p \in Ops : ~InOp(p)

(* Once write_head() has returned, all that end_op() has covered survives a *)
(* crash, while the blocks are installed and after.                         *)
CommitDurable == phase \in {"install", "finish"} => Recovered = cache

(* bget() cannot recycle a buffer with a change that is not on disk yet:    *)
(* log_write() set B_DIRTY, or the call still has the buffer locked.        *)
Pinned == \A b \in Blocks : cache[b] # disk[b] => b \in dirty \/ Locked(b)

(* The space begin_op() reserves is enough: log_write() does not panic, and *)
(* no entry is put past the end of the log, whatever calls do between the   *)
(* unlocked checks of log_write() and its append.                           *)
ReservationSuffices == fault = "none"

(* A call asleep in begin_op() is waiting for a call or a commit in         *)
(* progress that will wake it.                                              *)
SleepersHaveWaker ==
  \A p \in Ops : pc[p] = "asleep" => outstanding > 0 \/ committing = 1

(* No call sleeps in begin_op() for ever. *)
SleepersWoken == \A p \in Ops : pc[p] = "asleep" ~> pc[p] # "asleep"
=============================================================================
