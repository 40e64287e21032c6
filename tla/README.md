# Verification of the xv6 kernel

This directory holds TLA+ models of the kernel in `src/`, the TLC configurations
that check them on small instances, and TLAPS proofs of the main safety
properties for instances of any size. `PROJECT.json` lists the components, the
runs with their properties, a mutant for every property (a plausible bug in the
code that the property catches), the lines of source behind every definition,
the hazards of the code, and the theorems.

    tlc -config MCProc.cfg MCProc        # a run
    tlapm ProcProofs.tla                 # a module of proofs

## The system and its models

xv6 is a small Unix kernel for x86 multiprocessors. Processes share a table that
one spin lock protects; longer waits use sleep locks, built from `sleep()` and
`wakeup()`. System calls on files run as transactions of a write-ahead log, which
uses a cache of disk buffers over an interrupt-driven disk. This fork adds a
kernel heap (`vm/kheap.c`, `vm/liballoc.c`).

| Code | Module | What it models |
| --- | --- | --- |
| `proc.c`, `sleeplock.c` | `Proc` | process table, per-CPU schedulers, `swtch`, fork, exit, wait, kill, sleep, wakeup, one sleep lock |
| `spinlock.c`, `trap.c`, `console.c`, `sysproc.c` | `Traps` | `pushcli`/`popcli`, interrupts on top of threads, console input, `sleep()` of user programs |
| `vm/kalloc.c`, `vm/vm.c`, `exec.c`, `growproc()`, `syscall.c` | `Vm` | physical pages, address spaces, the calls that build them, the checks of pointers |
| `vm/kheap.c` | `Kheap` | pages of the kernel heap |
| `vm/liballoc.c` | `Liballoc` | objects of the kernel heap, over `Kheap` |
| `bio.c`, `ide.c` | `Bcache` | buffer cache, disk queue, disk and its interrupt |
| `log.c` | `Log` | transactions, commit, crash, recovery |
| (what `log.c` promises) | `Transactions` | atomic durable transactions |
| `fs.c`, `sysfile.c` | `Icache` | inode cache and the calls on names in a directory |
| `fs.c`, `file.c`, `mkfs.c` | `Content` | blocks, bitmap, inodes on disk, contents of files, `filewrite()` |
| `file.c`, `sysfile.c`, `proc.c` | `FileTable` | descriptors, open files, the pipes and inodes they hold |
| `pipe.c` | `Pipe` | a pipe, its readers and writers |
| (what `pipe.c` promises) | `Fifo` | a bounded queue |

A module has the state of its component as variables and one action for each
stretch of code that runs under one spin lock, since nothing else can see into
such a stretch. Where a thread can be interrupted, can sleep or lets go of a lock,
one action ends and another begins; a variable `pc`, `job` or `todo` says where
the thread is. Names follow the source. `MC*` modules and the `.cfg` files give
the constants their values; where a `.cfg` has a `VIEW`, the module says what it
leaves out of a state (names of pages, stale fields, the clock) and why nothing
reads it.

The components meet where one relies on what another one promises:

- `Log` relies on `Bcache`: a dirty buffer is not recycled (`ReadsLatest`).
- `Content` and `Icache` rely on `Log`: a transaction is atomic and durable
  (`ImplementsTransactions`), so they do not model crashes; in return `Content`
  shows that `filewrite()` stays within the transaction it asked for
  (`TransactionFits`), which is what `Log` needs (`ReservationSuffices`).
- `FileTable` counts the ends of pipes that `Pipe` takes for granted, and the
  references to inodes that `Icache` counts.
- `Liballoc` is composed with `Kheap`: its pages come from it.
- All of them rely on `Proc` for sleep locks and wakeups, and `Proc` on `Traps`
  for spin locks that mask interrupts.

## Runs

All runs pass. Deadlock is not checked where the system may really stop: a
panic ends the run, a process may wait for input that never comes.

| Run | Instance | Properties |
| --- | --- | --- |
| `proc` | 3 slots, 2 CPUs, 4 pids | `OneCPUPerStack` no stack is used by two CPUs or freed in use; `LiveParent` every process has a parent that can wait for it; `NoMissedWakeup` nobody sleeps in `wait()` or `acquiresleep()` without need; `SleepLockMutex`; `SchedNeverPanics`; `LifeCycle` states change along the life cycle only |
| `proclive` | 3 slots, 1 CPU, 3 pids, fair | `RunnableRuns`; `FreeLockTaken` a free sleep lock that somebody wants is taken; `KilledExits` |
| `log` | 2 calls, 2 blocks, 2 values, 4 log slots | `ImplementsTransactions`; `CommitDurable` once the header is written a crash loses nothing; `Pinned` a change that is not on disk is not recycled |
| `logspace` | 3 calls, 3 blocks, fair | `ReservationSuffices` the log never overflows; `SleepersWoken` who waits in `begin_op()` goes on |
| `pipe` | 2 processes, 2-byte pipe, counters modulo 4, fair | `ImplementsFifo`; `NoUseAfterFree`; `UnkilledMustWait` nobody sleeps without need; `CloseUnblocks` |
| `icache` | 2 processes, 2 names, 3 inodes, 2 cache entries | `RefsCounted`; `CacheCoherent`; `NotFreedInUse`; `LinksCounted` |
| `bcache` | 2 processes, 3 blocks, 2 buffers, fair | `ReadsLatest` a block has one buffer and who holds it sees the last write; `QueueOwned`; `IoReturns` a transfer handed to `iderw()` ends, also when it fails |
| `heap` | 4 heap pages, 5 physical pages, 3 entries per page table, 3 objects of 3 sizes | `PagesAccounted`; `MemoryDisjoint`; `MajorsCounted` |
| `vm` | 2 processes, 13 pages, 4 user pages | `PagesOwned` every page has one owner, whichever `kalloc()` fails; `SizeMatchesMap`; `StackGuarded` |
| `content` | 2 processes, 2 files, 15 blocks of 2 cells, 1 direct block | `BlocksPartitioned`; `DinodeCurrent`; `ReadsBack`; `TransactionFits` |
| `filetable` | 2 processes, 2 descriptors each, 3 files, 2 pages | `RefsCounted`; `ObjectsOwned` |
| `traps` | 2 CPUs; 1 process and a keyboard, or 2 processes; a ring of 2 keys, counters modulo 4 | `MaskNesting` interrupts are off while a lock is held or an interrupt is served, and on otherwise; `InputFaithful`; `WaitersWoken` |

### Why the bounds are enough

- `proc`: three slots let a parent, a child and a third party (init, or another
  waiter for the lock) interact, and two CPUs are all that `ptable.lock` can tell
  apart. The proofs remove these bounds, and those of `log`, `pipe`, `icache`,
  `bcache` and `vm`.
- `log`: two calls share a transaction and a third one waits; two blocks are
  installed one after the other, with a crash in between, and absorbed.
- `pipe`: the counters wrap several times around a buffer that fills up and
  drains, with writes longer than the buffer (`MaxN` = 3).
- `icache`: the cache has fewer entries than there are inodes, so entries are
  recycled; there are two processes because the races of `iput()` take two.
- `bcache`: fewer buffers than blocks, so every buffer is recycled.
- `heap`: requests that fit in a gap, fill a block, and need a new one. Virtual
  pages run out, and so do physical ones, at any page of a block: the run reaches
  the panic, a block whose last page has no page table, a trap on such a page and
  a slot that is used twice. Regions fill one metadata page and need a second.
- `vm`: fork and exec run out of pages at every step; `PGSIZE` = 2 gives partial
  pages, and three entries per page table give two tables. `UINT` = 16 is twice
  `KERNBASE`, as on the machine. Arguments of `exec()` are long enough for `sp` to
  pass the guard page, to reach a page without a page table, and to wrap.
- `content`: the two writes (`MaxCalls`) of five cells span the direct block and
  both indirect ones, in three chunks that interleave with the other process; a
  file reaches its largest size, and the disk fills up. A block holds two cells
  (a byte of a file, a directory entry or a block number).
- `filetable`: both the descriptors and the table run out.
- `traps`: interrupts nest over threads on both CPUs, the ring is filled and
  edited, indices overflow. Ticks matter only by differences. `Init` has one
  process or two. With one, keys are typed that fill, edit and end lines (`Keys`).
  With two, no key is typed, processes call `sleep()` too (`Naps`), and a CPU that
  leaves one process for the other carries its `intena` along, or starts the other
  one in `forkret()`.

### Fairness

- `proclive`: CPUs go on, and a CPU that wants `ptable.lock` again and again while
  it is free gets it (strong fairness: the arbitration of the hardware for `xchg`);
  the clock makes a process in user mode yield; a killed process in user mode exits
  (`trap()` calls `exit()`). Nothing is assumed of who wins a sleep lock, and a
  process can indeed starve on one: `FreeLockTaken` says that somebody gets it.
- `logspace`: a call in progress ends, and `commit()` and recovery go on.
- `pipe`: a process in the kernel goes on and gets a lock that is free again and
  again; a killed process closes its files.
- `bcache`: the disk answers every command, with success or failure, and raises its
  interrupt, and a process that has a buffer locked gets from `bread()` or
  `bwrite()` into `iderw()`. Nothing is assumed of who wins the sleep lock of a
  buffer, nor that a process releases one, so there is no property that `bread()`
  returns: `IoReturns` is about a process that has reached `iderw()`.

## Proofs

TLC explores one instance; the theorems hold for every value of the constants
that satisfies the named assumptions (`ProcAssumption`, `LogAssumption`,
`PipeAssumption`, `BcacheAssumption`, `IcacheAssumption`, `VmAssumption`: sets
are disjoint where they must be, sizes are positive, `PIPESIZE` divides the range
of the counters, there are finitely many processes and names, addresses below
`KERNBASE` are at most half of the range of a `uint`). Each follows from an
inductive invariant `IInv`, with one lemma per action; TLC has checked each
`IInv` on the instance of its run.

- `ProcInvariant` and `ProcProofs`: `OneCPUPerStack`, `LiveParent`,
  `NoMissedWakeup`, `SleepLockMutex`, `SchedNeverPanics` and `LifeCycle`, for any
  number of slots and CPUs. The invariant says who holds `ptable.lock` at every
  stage of a switch (`CPUInv`), which saved context goes with which state
  (`ContextInv`), that the child of a fork in progress belongs to one parent
  (`ForkInv`), and that a thread on its way to sleep still has its wakeup to come
  (`DozeInv`): without these a state could satisfy the properties and the next
  step break them.
- `LogProofs`: `CommitDurable`, `Pinned` and `Refinement`, the implementation of
  `Transactions`, for any number of calls, blocks and log slots. The abstract
  disk is what recovery would make of the real one (`Recovered`), so the step that
  commits is the write of the header and all others are invisible. The invariant
  ties the log on disk to the buffers at each stage of `commit()`. Two more
  theorems say that nobody is inside a transaction that is being written and that
  a sleeper in `begin_op()` has somebody to wake it. `Reservation` proves
  `ReservationSuffices` when a call logs at most `OpBlocks` < `MAXOPBLOCKS` blocks,
  `OpBlocks` + 2 <= `LOGSIZE` and `LOGSIZE` <= `nlog` (with the values of `param.h`
  and `mkfs.c`: up to 9 blocks per call). Its invariant counts the blocks that
  calls may still log as a set of pairs (`Left`) and says that an open transaction
  has room for all of them and two more (`Room`): a call that begins alone finds
  the log empty, and each of two or more calls reserves a block it does not use.
- `PipeProofs`: `ImplementsFifo`, `NoUseAfterFree` and `UnkilledMustWait`, for any
  number of processes, any buffer and any range of the counters that the size of
  the buffer divides. Lemmas about `%` show that a write appends to the queue and
  overwrites no byte that was not read (`WriteStep`), and that a read removes the
  oldest (`ReadStep`). The invariant adds that the lock is held exactly inside the
  loops, that a process in `piperead()` or `pipewrite()` has that end open, and
  that a sleeper who need not wait has a process in the opposite loop.
- `BcacheProofs`: `ReadsLatest` and `QueueOwned`, for any number of buffers,
  blocks and processes. The invariant counts users of a buffer (`RefInv`, which
  needs finitely many processes), ties locks and the queue to where processes are
  (`LockInv`, `QueueInv`), and says that the latest contents of a block are on the
  disk or in a dirty buffer (`DataInv`).
- `IcacheInvariant` and `IcacheProofs`: `RefsCounted`, `CacheCoherent`,
  `NotFreedInUse` and `LinksCounted`, for any number of processes, names, inodes
  and cache entries. The invariant of a kernel that has not panicked (`Running`)
  says which references a process holds at each place of a call (`ShapeInv`) and
  which inodes it has locked (`LockInv`); that what it found in the directory
  stays true while it has it locked, in particular that nobody else knows the
  inode `create()` has just allocated (`LookedInv`, `Fresh`); that the inode behind
  a reference is free only if the reference is past the test of `iput()`
  (`HeldLive`); that a valid copy agrees with the disk, also while locked
  (`ValidInv`); and that a link count is the number of entries plus the number of
  links counted but not yet made, or cleared but still counted (`LinkInv`). The
  last one is what makes `iput()` safe in the middle of a `link()` or `unlink()`.
  Lemmas about reference counts (`RefsTake`, `RefsDrop`, `RefsMove`) and about what
  a step of one process leaves to the others are shared by the actions; the first
  module has the steps that look nothing up and change no link.
- `VmProofs`: `PagesOwned`, `SizeMatchesMap` and `StackGuarded`, for any number of
  processes and pages, any page size and any size of a page table. The invariant
  says what is mapped at every step of `fork()`, `exec()` and `sbrk()` (`MapOK`), what
  exists of the new address space (`NewOK`), how sizes, the stack pointer and the
  guard page are related (`SizeOK`, `GuardOK`), and that the slot a `fork()` fills is
  its own (`KidOK`). Lemmas about rounding (`RoundUp`, `PageOfByte`) connect bytes
  with pages; `AcceptedBelow` shows that no sum in the checks of pointers wraps.
  `SpStays` shows that an argument which `copyout()` accepts leaves `sp` in the page
  of the stack: were `sp` to leave that page, even by wrapping, then the first page
  the copy meets, or the guard page on its way up, is one that `uva2ka()` refuses.
  `ReleaseOwned` and `InstallOwned` are the two ways in which pages change hands.

Model-checked only: liveness (the prover has no support for fairness and
`ENABLED`), and the modules without a module of proofs. `Liballoc` and `Content`
rest on recursive or folded computations over sequences, whose proofs would
need induction over data, which the prover cannot do. `Kheap` merges regions in
a sequence and is used through `Liballoc`. `FileTable` and `Traps` are not proved:
their instances show the interleavings of two processes and two CPUs.

## What the models leave out

`Proc`: `exit()` closes files before it takes `ptable.lock`, which appears here as
steps on the sleep lock before `Exit`. A killed init panics, which ends the run.
A failed search for a slot or a pid changes nothing and is not a step. Address
spaces are in `Vm`.

`Traps`: a CPU that spins is one that has not called `acquire()` yet. The
scheduler may pick any runnable process (`Proc` has the order). One key arrives
per interrupt; of the keys, `"\n"`, which the run leaves out, differs from `^D` only in
being handed to the reader. The inode lock around `consoleread()` is left out. A process starts
in `forkret()`, which restores no `intena` and ends in `iret`; the initialisation of
the file system by the first one is left out. A killed process exits from a
system call or, with interrupts off, from an interrupt in user mode; what `exit()`
closes before it takes `ptable.lock` is in `FileTable`, and whom it wakes in
`Proc`. `kill()` comes from a process outside the model.

`Vm`: freeing an address space is one step, as nobody else uses it; `deallocuvm()`
frees a page before it clears the entry, which only that process could notice.
The TLB is not modelled. The kernel half of a page table is one table (`ktab`).
The pages of `kpgdir` itself are not counted. Who may wait for whom is in `Proc`.
The program headers, the file and its contents are nondeterministic. The pages of
the kernel's half that have no page table are a constant (`NOTABLE`). When
`uva2ka()` reads `*pte` through the null pointer of `walkpgdir()`, the page is
refused or the model ends there (step `"wild"`, `Defined`): what the machine does
then depends on what the running process has at address 0.

`Liballoc`: the only caller in this kernel is `main()`, at boot, so there is one
thread. Only pointers that were handed out are freed. Statistics and magic
numbers are left out. A write through the null pointer that `calloc()` and
`realloc()` make when memory is exhausted, or to a page that could not be mapped,
is a fault that ends the run.

`Kheap`: the list of regions is a sequence. When the code would overwrite a
region that is in use (see below), the behaviour ends; no property says anything
of what comes after. `lost` counts the physical pages that nothing refers to.

`Bcache`: `latest` and `failed` are history variables. The disk raises one
interrupt per command. A read or a write may fail; `ideintr()` looks at the status
of reads only, and marks the buffer valid and clean in every case
(`ide.c:118`-`ide.c:123`), so `ReadsLatest` is stated for the time before the first
failure.

`Log`: writing a sector is atomic. The cache is a function of blocks from which
entries disappear (`Recycle`) unless they are dirty. In `logspace`, and in the
theorem `Reservation`, a call logs fewer than `MAXOPBLOCKS` blocks.

`Icache`: one directory, paths of one component; a process has one open file. A
panic ends the run. `nameiparent()` locks and unlocks only the root here, and that
pair of steps is left out. Two actions span more than one critical section.
`PutTest` reads `ip->ref` and frees the inode in one step: `iput()` drops
`icache.lock` in between, but an inode without links and with one reference, that
of the process in `iput()`, has no name by which another one could find it.
`CreateNew` scans, marks the inode on disk and takes its reference in one step:
the scan is under the lock of the directory, and until `iget()` returns nobody
else knows the number.

`Content`: one directory, the root, whose entries are inode numbers. Creating and
removing a file are single steps, under the lock of the root. The root has not
just filled a block when the system starts (18 entries of 32 in this image).
Transactions are durable at once, which `Log` shows. `TransactionFits` is about
`filewrite()`: what `create()`, `unlink()` and `itrunc()` log is not counted.

`FileTable`: `kalloc()` may fail at any time. Reading and writing change offsets
only, and are in `Content` and `Pipe`.

`Pipe`: who has an end open is a set per process; `FileTable` has the counts. A
process may block for ever on an empty pipe whose only writer it is itself.

## Behaviour of the code that the models show

The properties are stated so that they hold of the code as it is. These limits
were met on the way; the hazards in `PROJECT.json` give the lines.

- `kill(0)` matches a free slot, whose pid is 0 (`proc.c:486`), and marks it.
- A process can be killed between the test of `killed` and `sleep()` in
  `piperead()` (`pipe.c:108`), and then sleeps until the pipe changes. A writer that
  is killed after it has filled the pipe returns without waking the readers
  (`pipe.c:87`): hence "unkilled" in `UnkilledMustWait`. A killed reader of the
  console likewise sleeps until the next line (`console.c:245`) if `kill()` came
  before it slept.
- `begin_op()` reserves `MAXOPBLOCKS` blocks per call up to `LOGSIZE`, but
  `log_write()` panics at `log.size - 1` blocks (`log.c:132`, `log.c:218`): calls
  that use the whole reservation can reach the panic. `filewrite()` never does.
  The same test reads `log.lh.n` without the lock.
- Two concurrent `iput()`s of the last two references to an unlinked inode can
  both find the count above 1 (`fs.c:337`), and the inode is not freed.
- `link()` onto `"."` and a create that races an unlink of the same name can make
  processes wait for each other's inode locks (`fs.c:560`, `sysfile.c:280`).
- `bget()` and `iget()` panic when all entries are in use; nothing bounds the
  demand (`bio.c:92`, `fs.c:262`).
- `kheap_free()` takes the slot `regions[num_regions]`, which after a merge may be
  in use (`vm/kheap.c:18`). The result of `map_kernel_page()` is ignored
  (`vm/kheap.c:138`): a block is handed out with its last page unmapped, and the
  physical page is lost. Heap pages are mapped in `kpgdir` only.
- `ideintr()` ignores errors: a failed write leaves a buffer that counts as clean,
  a failed read one that counts as valid (`ide.c:118`).
- `exec()` does not compare `sp` with the stack (`exec.c:76`), and `uva2ka()` does not
  test the pointer that `walkpgdir()` returns (`vm/vm.c:428`). `StackGuarded` holds
  because no page outside the stack that the copy would meet is accessible.
- `forkret()` runs with the interrupt flag that its CPU's last thread left behind
  (`proc.c:397`): `release()` restores an `intena` that belongs to somebody else. It
  is harmless, as `iret` follows.
- A failing `sbrk()` keeps the page tables that it allocated, and `sbrk(-sz)` frees
  all pages and then reports an error, so that the process faults.

## Not modelled

Paths of several components, `mkdir()` and `chdir()`: a tree of directories
multiplies the states of `Icache`, which is at its limit with one. The current
directory appears only as a reference in `FileTable`.

The start of the machine (boot loader, `main.c`, `mp.c`, the interrupt
controllers) is assembly and device programming that runs once; the `Init`
predicates state what it leaves. The keyboard and serial drivers are tables and
port input. Segment registers and `cr3` are hardware set-up. User programs, with
`umalloc.c`, are clients: what they may call is the nondeterminism of the models.
`string.c` and `memide.c` keep no state.
