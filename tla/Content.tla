------------------------------ MODULE Content ------------------------------
(***************************************************************************)
(* What is in files: the blocks of inodes (fs.c), chunked writes through   *)
(* open files (file.c), and the image mkfs.c makes, which the kernel then  *)
(* mounts.                                                                 *)
(*                                                                         *)
(* The unit of data is a cell.  A directory entry, and a block number of   *)
(* an indirect block, is one cell (mkfs.c asserts that entries fill blocks *)
(* exactly); an entry holds the inode number, and stands for its name.     *)
(* There is one directory, the root.  An inode is locked while pc is       *)
(* "copy"; calls that hold the root's lock throughout are one step.  What  *)
(* a transaction writes becomes durable at once (Log, Transactions).       *)
(***************************************************************************)
EXTENDS Integers, Sequences, FiniteSets, FiniteSetsExt, SequencesExt

CONSTANTS Proc, File,   \* processes, and open file structures
          FSSIZE, BSIZE, BPB, IPB, NDIRECT, NINODES, MAXOPBLOCKS, nlog,
          UINT,         \* 2^32
          HostText,     \* cells of the file given to mkfs
          Sizes,        \* bound of the model: sizes of reads and writes
          MaxCalls      \* bound of the model: calls of write

NINDIRECT == BSIZE
MAXFILE == NDIRECT + NINDIRECT
ROOTINO == 1
Inums == 1..(NINODES - 1)
Disk == 0..(FSSIZE - 1)

nbitmap == FSSIZE \div BPB + 1
ninodeblocks == NINODES \div IPB + 1
nmeta == 2 + nlog + ninodeblocks + nbitmap

(* The superblock that mkfs writes and readsb() reads. *)
sb == [size |-> FSSIZE, inodestart |-> 2 + nlog, bmapstart |-> 2 + nlog + ninodeblocks]
IBLOCK(i) == i \div IPB + sb.inodestart
BBLOCK(b) == b \div BPB + sb.bmapstart

Zeroes == [k \in 0..(BSIZE - 1) |-> 0]
Dinode(t) == [type |-> t, nlink |-> IF t = "free" THEN 0 ELSE 1, size |-> 0,
              addrs |-> [k \in 0..NDIRECT |-> 0]]

(* The block of a file that holds its bn-th block of data; 0 if none. *)
Addr(ip, d, bn) == IF bn < NDIRECT THEN ip.addrs[bn]
                   ELSE IF ip.addrs[NDIRECT] = 0 THEN 0
                   ELSE d[ip.addrs[NDIRECT]][bn - NDIRECT]

(* st with block b as the bn-th block of its inode. *)
SetAddr(st, bn, b) == [st EXCEPT !.ip.addrs[bn] = b]
SetIndirect(st, bn, b) == [st EXCEPT !.data[st.ip.addrs[NDIRECT]][bn - NDIRECT] = b]

-----------------------------------------------------------------------------
(* mkfs.c: st is [ip, data, freeblock] *)

Taken(st) == [st EXCEPT !.freeblock = @ + 1]

(* iappend() finds or takes the block for the cell it appends. *)
AppendBlock(st, fbn) ==
  IF Addr(st.ip, st.data, fbn) # 0 THEN st
  ELSE IF fbn < NDIRECT THEN Taken(SetAddr(st, fbn, st.freeblock))
  ELSE LET s == IF st.ip.addrs[NDIRECT] # 0 THEN st
                ELSE Taken(SetAddr(st, NDIRECT, st.freeblock))
       IN  Taken(SetIndirect(s, fbn, s.freeblock))

iappend(st, cell) ==
  LET off == st.ip.size
      s == AppendBlock(st, off \div BSIZE)
  IN  [s EXCEPT !.data[Addr(s.ip, s.data, off \div BSIZE)][off % BSIZE] = cell,
                !.ip.size = off + 1]

(* main(): the root with its entries, then the file; the size of the root  *)
(* is rounded up, and balloc() marks every block before freeblock.         *)
RootMade == FoldLeft(iappend, [ip |-> Dinode("dir"), data |-> [b \in Disk |-> Zeroes],
                               freeblock |-> nmeta], <<ROOTINO, ROOTINO, ROOTINO + 1>>)
FileMade == FoldLeft(iappend, [RootMade EXCEPT !.ip = Dinode("file")], HostText)
RootFixed == [RootMade.ip EXCEPT !.size = (@ \div BSIZE + 1) * BSIZE]
Image == [used |-> 0..(FileMade.freeblock - 1),
          data |-> FileMade.data,
          dinode |-> [i \in Inums |-> IF i = ROOTINO THEN RootFixed
                                      ELSE IF i = ROOTINO + 1 THEN FileMade.ip
                                      ELSE Dinode("free")]]

(* mkfs.c's own asserts, and what the size of the root needs: it ends in   *)
(* the last block that has entries, as the files of the Makefile give.     *)
ASSUME MkfsAssumption ==
  /\ FileMade.freeblock < BPB
  /\ Len(HostText) <= MAXFILE * BSIZE
  /\ RootMade.ip.size % BSIZE # 0

-----------------------------------------------------------------------------
VARIABLES used,    \* blocks marked in the bitmap
          data,    \* block -> cells
          mem,     \* inode -> the in-memory inode
          dinode,  \* inode -> the inode on disk
          file,    \* file -> [ip, off], ip = 0 when it is closed
          job,     \* process -> its call of filewrite()
          text,    \* history: what inode i ought to hold
          calls,   \* calls of write so far
          panicked

fs == <<used, data, mem, dinode>>
vars == <<fs, file, job, text, calls, panicked>>

Idle == [pc |-> "idle", f |-> 0, n |-> 0, i |-> 0, n1 |-> 0, tot |-> 0,
         off |-> 0, log |-> {}]

Init ==
  /\ used = Image.used /\ data = Image.data
  /\ dinode = Image.dinode /\ mem = Image.dinode
  /\ file = [f \in File |-> [ip |-> 0, off |-> 0]]
  /\ job = [p \in Proc |-> Idle]
  /\ text = [i \in Inums |->
               IF i = ROOTINO THEN [k \in 1..RootFixed.size |->
                                      IF k <= 2 THEN ROOTINO ELSE IF k = 3 THEN ROOTINO + 1 ELSE 0]
               ELSE IF i = ROOTINO + 1 THEN HostText ELSE <<>>]
  /\ calls = 0 /\ panicked = FALSE

(* The inode of a call.  A process writes its own name into every cell. *)
Inode(p) == file[job[p].f].ip
Locked(i) == \E p \in Proc : job[p].pc = "copy" /\ Inode(p) = i

-----------------------------------------------------------------------------
(* fs.c: st is [ip, data, used, log, panic], log the blocks given to       *)
(* log_write()                                                             *)

State(i, log) == [ip |-> mem[i], data |-> data, used |-> used, log |-> log, panic |-> FALSE]
Install(i, st) == /\ used' = st.used /\ data' = st.data
                  /\ mem' = [mem EXCEPT ![i] = st.ip]

Free(st) == Disk \ st.used
New(st) == Min(Free(st))

(* balloc() with bzero(). *)
balloc(st) ==
  IF Free(st) = {} THEN [st EXCEPT !.panic = TRUE]
  ELSE LET b == New(st)
       IN  [st EXCEPT !.used = @ \cup {b}, !.data[b] = Zeroes, !.log = @ \cup {BBLOCK(b), b}]

(* bmap(): st with the bn-th block allocated. *)
bmap(st, bn) ==
  IF Addr(st.ip, st.data, bn) # 0 THEN st
  ELSE IF bn < NDIRECT
       THEN LET s == balloc(st) IN IF s.panic THEN s ELSE SetAddr(s, bn, New(st))
       ELSE LET t == IF st.ip.addrs[NDIRECT] # 0 THEN st
                     ELSE LET s == balloc(st)
                          IN  IF s.panic THEN s ELSE SetAddr(s, NDIRECT, New(st))
                s == balloc(t)
            IN  IF t.panic \/ s.panic THEN [t EXCEPT !.panic = TRUE]
                ELSE [SetIndirect(s, bn, New(t)) EXCEPT !.log = @ \cup {t.ip.addrs[NDIRECT]}]

(* readi(): the cells it copies, and what it returns. *)
ReadFails(ip, off, n) == off > ip.size \/ (off + n) % UINT < off
ReadLen(ip, off, n) == IF off + n > ip.size THEN ip.size - off ELSE n
Cells(ip, off, n) ==
  [k \in 1..ReadLen(ip, off, n) |->
     data[Addr(ip, data, (off + k - 1) \div BSIZE)][(off + k - 1) % BSIZE]]

(* writei() *)
WriteFails(ip, off, n) ==
  off > ip.size \/ (off + n) % UINT < off \/ off + n > MAXFILE * BSIZE

Min2(a, b) == IF a < b THEN a ELSE b

(* Mutant: a turn goes past the end of its block. *)
TurnWhole(off, n) == Min2(n, BSIZE)

Turn(off, n) == Min2(n, BSIZE - (off % BSIZE))

(* One turn of the loop: m cells of src at off. *)
WriteBlock(st, src, off, n) ==
  LET s == bmap(st, off \div BSIZE)
      b == Addr(s.ip, s.data, off \div BSIZE)
      m == Turn(off, n)
  IN  IF s.panic THEN s
      ELSE [s EXCEPT !.data[b] = [k \in DOMAIN @ |->
                                    IF k >= off % BSIZE /\ k < (off % BSIZE) + m THEN src ELSE @[k]],
                     !.log = @ \cup {b}]

(* The end: the size, and iupdate() if the file has grown. *)
Grown(ip, off) == IF off > ip.size THEN [ip EXCEPT !.size = off] ELSE ip

(* Mutant: the indirect block itself is forgotten. *)
ListedData(ip, d) ==
  LET ind == ip.addrs[NDIRECT]
  IN  ({ip.addrs[k] : k \in 0..(NDIRECT - 1)} \cup (IF ind = 0 THEN {} ELSE Range(d[ind]))) \ {0}

(* The blocks of a file. *)
Listed(ip, d) ==
  LET ind == ip.addrs[NDIRECT]
  IN  ({ip.addrs[k] : k \in 0..NDIRECT} \cup (IF ind = 0 THEN {} ELSE Range(d[ind]))) \ {0}

(* itrunc(), in iput() of an inode without links: bfree() of every block,  *)
(* and the inode is free.                                                  *)
Freed(st) ==
  LET own == Listed(st.ip, st.data)
  IN  [st EXCEPT !.used = @ \ own, !.log = @ \cup {BBLOCK(b) : b \in own},
                 !.panic = ~(own \subseteq st.used), !.ip = Dinode("free")]

-----------------------------------------------------------------------------
(* System calls *)

Panic == panicked' = TRUE /\ UNCHANGED <<fs, file, job, text, calls>>

Open(f, i) ==
  /\ ~panicked /\ file[f].ip = 0 /\ mem[i].nlink > 0
  /\ file' = [file EXCEPT ![f] = [ip |-> i, off |-> 0]]
  /\ UNCHANGED <<fs, job, text, calls, panicked>>

(* The files that hold on to inode i, f aside. *)
Holders(i, f) == {g \in File \ {f} : file[g].ip = i}

(* fileclose(): iput() frees an inode that has no links. *)
Close(f) ==
  LET i == file[f].ip
      st == Freed(State(i, {}))
      last == mem[i].nlink = 0 /\ Holders(i, f) = {}
  IN  /\ ~panicked /\ i # 0 /\ \A p \in Proc : job[p].pc # "idle" => job[p].f # f
      /\ IF last /\ st.panic THEN Panic
         ELSE /\ file' = [file EXCEPT ![f] = [ip |-> 0, off |-> 0]]
              /\ IF last THEN /\ Install(i, st)
                              /\ dinode' = [dinode EXCEPT ![i] = st.ip]
                              /\ text' = [text EXCEPT ![i] = <<>>]
                         ELSE UNCHANGED <<fs, text>>
              /\ UNCHANGED <<job, calls, panicked>>

(* fileread() *)
Read(f, n) ==
  LET i == file[f].ip
  IN  /\ ~panicked /\ i # 0 /\ ~Locked(i)
      /\ ~ReadFails(mem[i], file[f].off, n)
      /\ file' = [file EXCEPT ![f].off = @ + Len(Cells(mem[i], @, n))]
      /\ UNCHANGED <<fs, job, text, calls, panicked>>

(* Mutant: one block more per transaction. *)
maxMore == ((MAXOPBLOCKS - 1 - 1 - 2) \div 2 + 1) * BSIZE

max == ((MAXOPBLOCKS - 1 - 1 - 2) \div 2) * BSIZE

(* filewrite() through a file that is open for writing, so not a directory. *)
Write(p, f, n) ==
  /\ ~panicked /\ job[p].pc = "idle" /\ calls < MaxCalls
  /\ file[f].ip \notin {0, ROOTINO}
  /\ job' = [job EXCEPT ![p] = [Idle EXCEPT !.pc = "chunk", !.f = f, !.n = n]]
  /\ calls' = calls + 1
  /\ UNCHANGED <<fs, file, text, panicked>>

Spliced(s, off, n, c) == [k \in 1..Max({Len(s), off + n}) |-> IF k > off /\ k <= off + n THEN c ELSE s[k]]

(* begin_op(), ilock(), and the tests of writei(); if they fail the call   *)
(* is over.                                                                *)
Chunk(p) ==
  LET j == job[p]
      i == Inode(p)
      off == file[j.f].off
      n1 == Min2(j.n - j.i, max)
  IN  /\ ~panicked /\ j.pc = "chunk" /\ ~Locked(i)
      /\ IF WriteFails(mem[i], off, n1)
         THEN job' = [job EXCEPT ![p] = Idle] /\ UNCHANGED text
         ELSE /\ job' = [job EXCEPT ![p] = [j EXCEPT !.pc = "copy", !.n1 = n1, !.off = off]]
              /\ text' = [text EXCEPT ![i] = Spliced(@, off, n1, p)]
      /\ UNCHANGED <<fs, file, calls, panicked>>

Copy(p) ==
  LET j == job[p]
      i == Inode(p)
      st == WriteBlock(State(i, j.log), p, j.off, j.n1 - j.tot)
      m == Turn(j.off, j.n1 - j.tot)
  IN  /\ ~panicked /\ j.pc = "copy" /\ j.tot < j.n1
      /\ IF st.panic THEN Panic
         ELSE /\ Install(i, st)
              /\ job' = [job EXCEPT ![p] = [j EXCEPT !.off = @ + m, !.tot = @ + m, !.log = st.log]]
              /\ UNCHANGED <<dinode, file, text, calls, panicked>>

(* Mutant: the inode is not written when the file has grown. *)
UpdatedNever(ip, old, i) == dinode

(* iupdate(), when the size has changed. *)
Updated(ip, old, i) == IF ip.size # old.size THEN [dinode EXCEPT ![i] = ip] ELSE dinode

(* The end of writei(), iunlock(), end_op(); then the next chunk. *)
ChunkDone(p) ==
  LET j == job[p]
      i == Inode(p)
      ip == Grown(mem[i], j.off)
  IN  /\ ~panicked /\ j.pc = "copy" /\ j.tot = j.n1
      /\ mem' = [mem EXCEPT ![i] = ip]
      /\ dinode' = Updated(ip, mem[i], i)
      /\ file' = [file EXCEPT ![j.f].off = @ + j.n1]
      /\ job' = [job EXCEPT ![p] = IF j.i + j.n1 = j.n THEN Idle
                                   ELSE [Idle EXCEPT !.pc = "chunk", !.f = j.f, !.n = j.n,
                                                     !.i = j.i + j.n1]]
      /\ UNCHANGED <<used, data, text, calls, panicked>>

(* The entries of the root, and the offset dirlink() writes at: of the     *)
(* first empty entry, or the end.                                          *)
Entries == Cells(mem[ROOTINO], 0, mem[ROOTINO].size)
Slot(c) == IF \E k \in DOMAIN Entries : Entries[k] = c
           THEN Min({k \in DOMAIN Entries : Entries[k] = c}) - 1
           ELSE Len(Entries)

(* writei() of an entry that makes the root ip. *)
EntryWritten(c, off) == LET st == WriteBlock(State(ROOTINO, {}), c, off, 1)
                        IN  [st EXCEPT !.ip = Grown(st.ip, off + 1)]

(* create(): ialloc() takes the first free inode, dirlink() names it. *)
Create ==
  LET idle == {i \in Inums : dinode[i].type = "free"}
      i == Min(idle)
      off == Slot(0)
      st == EntryWritten(i, off)
  IN  /\ ~panicked
      /\ IF idle = {} \/ st.panic \/ WriteFails(mem[ROOTINO], off, 1) THEN Panic
         ELSE /\ used' = st.used /\ data' = st.data
              /\ mem' = [mem EXCEPT ![ROOTINO] = st.ip, ![i] = Dinode("file")]
              /\ dinode' = [Updated(st.ip, mem[ROOTINO], ROOTINO) EXCEPT ![i] = Dinode("file")]
              /\ text' = [text EXCEPT ![ROOTINO] = Spliced(@, off, 1, i)]
              /\ UNCHANGED <<file, job, calls, panicked>>

(* sys_unlink(): the entry is cleared; iput() frees the inode unless a     *)
(* file holds on to it.                                                    *)
Unlink(i) ==
  LET off == Slot(i)
      st == EntryWritten(0, off)
      ip == [mem[i] EXCEPT !.nlink = @ - 1]
      old == [State(i, {}) EXCEPT !.data = st.data, !.ip = ip]
      new == IF ip.nlink = 0 /\ Holders(i, 0) = {} THEN Freed(old) ELSE old
  IN  /\ ~panicked /\ i # ROOTINO /\ off < Len(Entries) /\ ~Locked(i)
      /\ IF new.panic THEN Panic
         ELSE /\ Install(i, new)
              /\ dinode' = [dinode EXCEPT ![i] = new.ip]
              /\ text' = [text EXCEPT ![ROOTINO] = Spliced(@, off, 1, 0),
                                      ![i] = IF new.ip.type = "free" THEN <<>> ELSE @]
              /\ UNCHANGED <<file, job, calls, panicked>>

Next ==
  \/ \E f \in File, i \in Inums : Open(f, i)
  \/ \E f \in File : Close(f) \/ \E n \in Sizes : Read(f, n)
  \/ \E p \in Proc, f \in File, n \in Sizes : Write(p, f, n)
  \/ \E p \in Proc : Chunk(p) \/ Copy(p) \/ ChunkDone(p)
  \/ Create
  \/ \E i \in Inums : Unlink(i)

Spec == Init /\ [][Next]_vars

-----------------------------------------------------------------------------
(* Properties *)

Own(i) == ({Addr(mem[i], data, bn) : bn \in 0..(MAXFILE - 1)} \cup {mem[i].addrs[NDIRECT]}) \ {0}

(* Every block that is marked is metadata or belongs to one file, in one   *)
(* place, and no file has a block that is not marked: balloc(), bfree(),   *)
(* bmap(), itrunc() and mkfs agree.                                        *)
BlocksPartitioned ==
  /\ used = 0..(nmeta - 1) \cup UNION {Own(i) : i \in Inums}
  /\ \A i \in Inums : Own(i) \cap 0..(nmeta - 1) = {}
  /\ \A i, j \in Inums : i # j => Own(i) \cap Own(j) = {}
  /\ \A i \in Inums : \A a, b \in 0..(MAXFILE - 1) :
       a # b /\ Addr(mem[i], data, a) # 0 => Addr(mem[i], data, a) # Addr(mem[i], data, b)

(* When no call is writing a file its inode on disk is the one in memory,  *)
(* so what a crash leaves is a file system in which BlocksPartitioned      *)
(* holds: iupdate() was called after every change.                         *)
DinodeCurrent == \A i \in Inums : ~Locked(i) => dinode[i] = mem[i]

(* A file holds what was written to it, by mkfs and then by writei() in    *)
(* chunks that other writers may come between: readi() finds every cell,   *)
(* and a block for each, so that a read never allocates one.               *)
ReadsBack ==
  \A i \in Inums : ~Locked(i) =>
    /\ \A k \in 0..(mem[i].size - 1) : Addr(mem[i], data, k \div BSIZE) # 0
    /\ Cells(mem[i], 0, mem[i].size) = text[i]

(* A transaction of filewrite() writes no more than MAXOPBLOCKS blocks: of *)
(* data, of the bitmap, the indirect block and the inode.                  *)
TransactionFits ==
  \A p \in Proc : job[p].pc = "copy" =>
    Cardinality(job[p].log \cup {IBLOCK(Inode(p))}) <= MAXOPBLOCKS
=============================================================================
