------------------------------- MODULE Icache -------------------------------
(***************************************************************************)
(* Inodes in one directory: the inode cache of fs.c and the system calls   *)
(* that create, open, link and unlink files there and close them again.    *)
(*                                                                         *)
(* Several processes run these calls at once.  A step of the model is what *)
(* a process does between two points where another one can interfere: the  *)
(* sleep-lock of an inode, or the spin lock icache.lock.  The directory is *)
(* the root, which every process holds as its current directory; paths     *)
(* have one component.  nameiparent()'s own ilock() and iunlock() of the   *)
(* root, between which it only looks at the type, are left out.            *)
(***************************************************************************)
EXTENDS Naturals, Sequences, FiniteSets

CONSTANTS Procs,     \* processes
          NoProc,    \* nobody holds a lock
          Names,     \* names of files
          Dot,       \* the name "."
          NINODES,   \* inodes on disk, 1 is the root (sb.ninodes)
          NINODE     \* entries of the inode cache

ASSUME IcacheAssumption ==
  /\ IsFiniteSet(Procs) /\ NoProc \notin Procs
  /\ IsFiniteSet(Names) /\ Dot \notin Names
  /\ NINODES \in Nat \ {0} /\ NINODE \in Nat \ {0}

ROOT == 1                      \* inode number, and cache entry, of the root
Inums == 1..NINODES
Slots == 1..NINODE
Paths == Names \cup {Dot}

(* The variables of the code in which a process keeps references to cache  *)
(* entries: the directory and the inode of a call, what dirlink() finds    *)
(* under the new name, and the inode of an open file.                      *)
Holders == {"dp", "ip", "hit", "file"}

VARIABLES disk,    \* inode number -> [type, nlink], as iupdate() left it
          dir,     \* name -> inode number, 0 if there is no such entry
          inum,    \* cache entry -> ip->inum
          ref,     \* cache entry -> ip->ref
          valid,   \* cache entries whose ip->valid is set
          inode,   \* cache entry -> [type, nlink], the copy in memory
          lock,    \* cache entry -> process that holds ip->lock
          pc,      \* where a process is
          call,    \* its system call
          name,    \* path argument of the call (old path of link)
          new,     \* new path of link
          at,      \* process -> holder -> cache entry, or 0
          puts,    \* holders whose iput() is to come
          then,    \* where the process goes after that
          panic    \* message of the panic that stopped the kernel

icache == <<inum, ref, valid, inode>>
args == <<call, name, new>>
vars == <<disk, dir, inum, ref, valid, inode, lock, pc, call, name, new, at,
          puts, then, panic>>

(* A file system with an empty root directory, in use by every process. *)
Init ==
  LET free == [type |-> "free", nlink |-> 0]
      root == [type |-> "dir", nlink |-> 1]
  IN  /\ disk = [i \in Inums |-> IF i = ROOT THEN root ELSE free]
      /\ dir = [x \in Paths |-> IF x = Dot THEN ROOT ELSE 0]
      /\ inum = [s \in Slots |-> ROOT]
      /\ ref = [s \in Slots |-> IF s = ROOT THEN Cardinality(Procs) ELSE 0]
      /\ valid = {ROOT}
      /\ inode = [s \in Slots |-> IF s = ROOT THEN root ELSE free]
      /\ lock = [s \in Slots |-> NoProc]
      /\ pc = [p \in Procs |-> "user"] /\ call = [p \in Procs |-> "none"]
      /\ name = [p \in Procs |-> Dot] /\ new = [p \in Procs |-> Dot]
      /\ at = [p \in Procs |-> [h \in Holders |-> 0]]
      /\ puts = [p \in Procs |-> <<>>]
      /\ then = [p \in Procs |-> "user"]
      /\ panic = "none"

(* Process p is at loc, and no panic() has stopped the kernel. *)
At(p, loc) == pc[p] = loc /\ panic = "none"

-----------------------------------------------------------------------------
(* The functions of the inode cache *)

Cached(i) == {s \in Slots : ref[s] > 0 /\ inum[s] = i}
Recyclable == {s \in Slots : ref[s] = 0}
First(S) == CHOOSE s \in S : \A t \in S : s <= t

(* Mutant: a reference to a cached inode is not counted. *)
IgetUncounted(p, h, i) ==
  LET s == First(IF Cached(i) # {} THEN Cached(i) ELSE Recyclable)
  IN  IF Cached(i) \cup Recyclable = {}
      THEN panic' = "iget: no inodes" /\ UNCHANGED <<icache, at>>
      ELSE /\ ref' = [ref EXCEPT ![s] = IF Cached(i) # {} THEN @ ELSE 1]
           /\ inum' = [inum EXCEPT ![s] = i]
           /\ valid' = IF Cached(i) # {} THEN valid ELSE valid \ {s}
           /\ at' = [at EXCEPT ![p][h] = s]
           /\ UNCHANGED <<inode, panic>>

(* iget() of inode i; process p keeps the result in holder h. *)
Iget(p, h, i) ==
  LET s == First(IF Cached(i) # {} THEN Cached(i) ELSE Recyclable)
  IN  IF Cached(i) \cup Recyclable = {}
      THEN panic' = "iget: no inodes" /\ UNCHANGED <<icache, at>>
      ELSE /\ ref' = [ref EXCEPT ![s] = @ + 1]
           /\ inum' = [inum EXCEPT ![s] = i]
           /\ valid' = IF Cached(i) # {} THEN valid ELSE valid \ {s}
           /\ at' = [at EXCEPT ![p][h] = s]
           /\ UNCHANGED <<inode, panic>>

(* idup() of the current directory, or iget() of the root, by namex(). *)
EnterDir(p) ==
  /\ ref' = [ref EXCEPT ![ROOT] = @ + 1]
  /\ at' = [at EXCEPT ![p]["dp"] = ROOT]
  /\ pc' = [pc EXCEPT ![p] = "dir"]

(* iupdate() after a change of ip->nlink. *)
SetLinks(s, k) ==
  /\ inode' = [inode EXCEPT ![s].nlink = k]
  /\ disk' = [disk EXCEPT ![inum[s]] = inode'[s]]

(* p is about to call iput() on its references in hs, and then goes to loc. *)
Put(p, hs, loc) ==
  /\ puts' = [puts EXCEPT ![p] = hs]
  /\ then' = [then EXCEPT ![p] = loc]
  /\ pc' = [pc EXCEPT ![p] = "put"]

Unlock(s) == lock' = [lock EXCEPT ![s] = NoProc]

(* The locals of a call are gone when it returns. *)
Return(p) ==
  /\ call' = [call EXCEPT ![p] = "none"]
  /\ name' = [name EXCEPT ![p] = Dot]
  /\ new' = [new EXCEPT ![p] = Dot]

(* iput(): the lock, the test of the reference count, the freeing of the   *)
(* inode, the unlock, and only then the decrement.                         *)
Putting(p) == at[p][Head(puts[p])]

PutLock(p) ==
  /\ At(p, "put")
  /\ lock[Putting(p)] = NoProc
  /\ lock' = [lock EXCEPT ![Putting(p)] = p]
  /\ pc' = [pc EXCEPT ![p] = "putting"]
  /\ UNCHANGED <<disk, dir, icache, args, at, puts, then, panic>>

(* Mutant: an inode without links is freed whoever else refers to it. *)
PutTestShared(p) ==
  LET s == Putting(p)
  IN  /\ At(p, "putting")
      /\ IF s \in valid /\ inode[s].nlink = 0
         THEN /\ inode' = [inode EXCEPT ![s].type = "free"]
              /\ disk' = [disk EXCEPT ![inum[s]] = inode'[s]]
              /\ pc' = [pc EXCEPT ![p] = "freed"]
              /\ UNCHANGED lock
         ELSE /\ Unlock(s)
              /\ pc' = [pc EXCEPT ![p] = "drop"]
              /\ UNCHANGED <<inode, disk>>
      /\ UNCHANGED <<dir, inum, ref, valid, args, at, puts, then, panic>>

PutTest(p) ==
  LET s == Putting(p)
  IN  /\ At(p, "putting")
      /\ IF s \in valid /\ inode[s].nlink = 0 /\ ref[s] = 1
         THEN /\ inode' = [inode EXCEPT ![s].type = "free"]
              /\ disk' = [disk EXCEPT ![inum[s]] = inode'[s]]
              /\ pc' = [pc EXCEPT ![p] = "freed"]
              /\ UNCHANGED lock
         ELSE /\ Unlock(s)
              /\ pc' = [pc EXCEPT ![p] = "drop"]
              /\ UNCHANGED <<inode, disk>>
      /\ UNCHANGED <<dir, inum, ref, valid, args, at, puts, then, panic>>

PutFreed(p) ==
  /\ At(p, "freed")
  /\ valid' = valid \ {Putting(p)}
  /\ Unlock(Putting(p))
  /\ pc' = [pc EXCEPT ![p] = "drop"]
  /\ UNCHANGED <<disk, dir, inum, ref, inode, args, at, puts, then, panic>>

PutDrop(p) ==
  /\ At(p, "drop")
  /\ ref' = [ref EXCEPT ![Putting(p)] = @ - 1]
  /\ at' = [at EXCEPT ![p][Head(puts[p])] = 0]
  /\ puts' = [puts EXCEPT ![p] = Tail(@)]
  /\ pc' = [pc EXCEPT ![p] = IF Len(puts[p]) > 1 THEN "put" ELSE then[p]]
  /\ then' = [then EXCEPT ![p] = IF Len(puts[p]) > 1 THEN @ ELSE "user"]
  /\ IF pc'[p] = "user" THEN Return(p) ELSE UNCHANGED args
  /\ UNCHANGED <<disk, dir, inum, valid, inode, lock, panic>>

(* ilock(): fills the entry from the disk the first time. *)
LockInode(p) ==
  LET s == at[p]["ip"]
  IN  /\ At(p, "lock")
      /\ lock[s] = NoProc
      /\ lock' = [lock EXCEPT ![s] = p]
      /\ inode' = [inode EXCEPT ![s] = IF s \in valid THEN @ ELSE disk[inum[s]]]
      /\ valid' = valid \cup {s}
      /\ panic' = IF s \notin valid /\ inode'[s].type = "free"
                  THEN "ilock: no type" ELSE panic
      /\ pc' = [pc EXCEPT ![p] = "inode"]
      /\ UNCHANGED <<disk, dir, inum, ref, args, at, puts, then>>

-----------------------------------------------------------------------------
(* The system calls *)

Start(p, c, x, y) ==
  /\ At(p, "user")
  /\ c \in {"open", "create"} => at[p]["file"] = 0
  /\ call' = [call EXCEPT ![p] = c]
  /\ name' = [name EXCEPT ![p] = x]
  /\ new' = [new EXCEPT ![p] = y]
  /\ EnterDir(p)
  /\ UNCHANGED <<disk, dir, inum, valid, inode, lock, puts, then, panic>>

(* sys_close(), fileclose(). *)
Close(p) ==
  /\ At(p, "user")
  /\ at[p]["file"] # 0
  /\ Put(p, <<"file">>, "user")
  /\ UNCHANGED <<disk, dir, icache, lock, args, at, panic>>

LockDir(p) ==
  /\ At(p, "dir")
  /\ lock[ROOT] = NoProc
  /\ lock' = [lock EXCEPT ![ROOT] = p]
  /\ pc' = [pc EXCEPT ![p] = "indir"]
  /\ UNCHANGED <<disk, dir, icache, args, at, puts, then, panic>>

(* No such file, or unlink("."). *)
LookupFail(p) ==
  /\ At(p, "indir")
  /\ \/ call[p] \in {"open", "link", "unlink"} /\ dir[name[p]] = 0
     \/ call[p] = "unlink" /\ name[p] = Dot
  /\ Unlock(ROOT)
  /\ Put(p, <<"dp">>, "user")
  /\ UNCHANGED <<disk, dir, icache, args, at, panic>>

(* namei(), and create() of a name that exists: iunlockput(dp), ilock(ip). *)
LookupFound(p) ==
  /\ At(p, "indir")
  /\ call[p] \in {"open", "create", "link"} /\ dir[name[p]] # 0
  /\ Iget(p, "ip", dir[name[p]])
  /\ Unlock(ROOT)
  /\ Put(p, <<"dp">>, "lock")
  /\ UNCHANGED <<disk, dir, args>>

(* sys_unlink() locks the inode with the directory locked. *)
UnlinkFound(p) ==
  /\ At(p, "indir")
  /\ call[p] = "unlink" /\ name[p] # Dot /\ dir[name[p]] # 0
  /\ Iget(p, "ip", dir[name[p]])
  /\ pc' = [pc EXCEPT ![p] = "lock"]
  /\ UNCHANGED <<disk, dir, lock, args, puts, then>>

(* The inodes ialloc() can choose from; it takes the first one. *)
FreeInodes == {i \in Inums : disk[i].type = "free"}

(* create() of a new name: ialloc(), then ilock(ip). *)
CreateNew(p) ==
  LET i == First(FreeInodes)
  IN  /\ At(p, "indir")
      /\ call[p] = "create" /\ dir[name[p]] = 0
      /\ pc' = [pc EXCEPT ![p] = "lock"]
      /\ IF FreeInodes = {}
         THEN panic' = "ialloc: no inodes" /\ UNCHANGED <<disk, icache, at>>
         ELSE /\ disk' = [disk EXCEPT ![i] = [type |-> "file", nlink |-> 0]]
              /\ Iget(p, "ip", i)
      /\ UNCHANGED <<dir, lock, args, puts, then>>

(* create() goes on: ip->nlink = 1, dirlink(), iunlockput(dp). *)
CreateLink(p) ==
  /\ At(p, "inode")
  /\ call[p] = "create" /\ at[p]["dp"] # 0
  /\ SetLinks(at[p]["ip"], 1)
  /\ dir' = [dir EXCEPT ![name[p]] = inum[at[p]["ip"]]]
  /\ Unlock(ROOT)
  /\ Put(p, <<"dp">>, "inode")
  /\ UNCHANGED <<inum, ref, valid, args, at, panic>>

(* sys_open() has the inode locked: it gets a file and a descriptor ... *)
OpenDone(p) ==
  LET s == at[p]["ip"]
  IN  /\ At(p, "inode")
      /\ call[p] \in {"open", "create"} /\ at[p]["dp"] = 0
      /\ call[p] = "create" => inode[s].type = "file"
      /\ Unlock(s)
      /\ at' = [at EXCEPT ![p] = [@ EXCEPT !["file"] = s, !["ip"] = 0]]
      /\ pc' = [pc EXCEPT ![p] = "user"]
      /\ Return(p)
      /\ UNCHANGED <<disk, dir, icache, puts, then, panic>>

(* ... or none is left, or it may not open a directory like this. *)
OpenFail(p) ==
  LET s == at[p]["ip"]
  IN  /\ At(p, "inode")
      /\ call[p] \in {"open", "create"} /\ at[p]["dp"] = 0
      /\ Unlock(s)
      /\ Put(p, <<"ip">>, "user")
      /\ UNCHANGED <<disk, dir, icache, args, at, panic>>

(* sys_link() counts the link before it makes it. *)
LinkCount(p) ==
  LET s == at[p]["ip"]
  IN  /\ At(p, "inode")
      /\ call[p] = "link"
      /\ Unlock(s)
      /\ IF inode[s].type = "dir"
         THEN /\ Put(p, <<"ip">>, "user")
              /\ UNCHANGED <<disk, inode, ref, at, call>>
         ELSE /\ SetLinks(s, inode[s].nlink + 1)
              /\ call' = [call EXCEPT ![p] = "relink"]
              /\ EnterDir(p)
              /\ UNCHANGED <<puts, then>>
      /\ UNCHANGED <<dir, inum, valid, name, new, panic>>

(* dirlink() of the new name, then iunlockput(dp) and iput(ip) ... *)
LinkDone(p) ==
  /\ At(p, "indir")
  /\ call[p] = "relink" /\ dir[new[p]] = 0
  /\ dir' = [dir EXCEPT ![new[p]] = inum[at[p]["ip"]]]
  /\ Unlock(ROOT)
  /\ Put(p, <<"dp", "ip">>, "user")
  /\ UNCHANGED <<disk, icache, args, at, panic>>

(* ... or it finds the name taken, and drops what it found with the        *)
(* directory locked.                                                       *)
LinkTaken(p) ==
  /\ At(p, "indir")
  /\ call[p] = "relink" /\ dir[new[p]] # 0
  /\ Iget(p, "hit", dir[new[p]])
  /\ Put(p, <<"hit">>, "unlockdir")
  /\ UNCHANGED <<disk, dir, lock, args>>

LinkUnlockDir(p) ==
  /\ At(p, "unlockdir")
  /\ Unlock(ROOT)
  /\ Put(p, <<"dp">>, "lock")
  /\ call' = [call EXCEPT ![p] = "undo"]
  /\ UNCHANGED <<disk, dir, icache, name, new, at, panic>>

(* Mutant: the count stays as it is when the link could not be made. *)
LinkUndoNothing(p) ==
  LET s == at[p]["ip"]
  IN  /\ At(p, "inode")
      /\ call[p] = "undo"
      /\ Unlock(s)
      /\ Put(p, <<"ip">>, "user")
      /\ UNCHANGED <<disk, dir, icache, args, at, panic>>

LinkUndo(p) ==
  LET s == at[p]["ip"]
  IN  /\ At(p, "inode")
      /\ call[p] = "undo"
      /\ SetLinks(s, inode[s].nlink - 1)
      /\ Unlock(s)
      /\ Put(p, <<"ip">>, "user")
      /\ UNCHANGED <<dir, inum, ref, valid, args, at, panic>>

(* sys_unlink() clears the entry, then iunlockput(dp) with ip locked. *)
UnlinkEntry(p) ==
  LET s == at[p]["ip"]
  IN  /\ At(p, "inode")
      /\ call[p] = "unlink"
      /\ IF inode[s].nlink < 1
         THEN /\ panic' = "unlink: nlink < 1"
              /\ UNCHANGED <<dir, lock, pc, puts, then>>
         ELSE /\ dir' = [dir EXCEPT ![name[p]] = 0]
              /\ Unlock(ROOT)
              /\ Put(p, <<"dp">>, "unlinked")
              /\ UNCHANGED panic
      /\ UNCHANGED <<disk, icache, args, at>>

(* Mutant: sys_unlink() does not write the new count to disk. *)
UnlinkCountInMemory(p) ==
  LET s == at[p]["ip"]
  IN  /\ At(p, "unlinked")
      /\ inode' = [inode EXCEPT ![s].nlink = @ - 1]
      /\ Unlock(s)
      /\ Put(p, <<"ip">>, "user")
      /\ UNCHANGED <<disk, dir, inum, ref, valid, args, at, panic>>

UnlinkCount(p) ==
  LET s == at[p]["ip"]
  IN  /\ At(p, "unlinked")
      /\ SetLinks(s, inode[s].nlink - 1)
      /\ Unlock(s)
      /\ Put(p, <<"ip">>, "user")
      /\ UNCHANGED <<dir, inum, ref, valid, args, at, panic>>

-----------------------------------------------------------------------------

SysCall(p) ==
  \/ \E c \in {"open", "create", "unlink"}, x \in Paths : Start(p, c, x, x)
  \/ \E x, y \in Paths : Start(p, "link", x, y)
  \/ Close(p)

InIput(p) == PutLock(p) \/ PutTest(p) \/ PutFreed(p) \/ PutDrop(p)

InCall(p) ==
  \/ LockDir(p) \/ LookupFail(p) \/ LookupFound(p) \/ LockInode(p)
  \/ CreateNew(p) \/ CreateLink(p) \/ OpenDone(p) \/ OpenFail(p)
  \/ LinkCount(p) \/ LinkDone(p) \/ LinkTaken(p) \/ LinkUnlockDir(p)
  \/ LinkUndo(p) \/ UnlinkFound(p) \/ UnlinkEntry(p) \/ UnlinkCount(p)

Next == \E p \in Procs : SysCall(p) \/ InIput(p) \/ InCall(p)

Spec == Init /\ [][Next]_vars

-----------------------------------------------------------------------------
(* Properties *)

(* ip->ref counts the references to the entry: those of the calls, of open *)
(* files and of current directories.  An entry in use is never recycled,   *)
(* and one out of use can be.                                              *)
RefsCounted ==
  \A s \in Slots :
    ref[s] = Cardinality({x \in Procs \X Holders : at[x[1]][x[2]] = s})
             + (IF s = ROOT THEN Cardinality(Procs) ELSE 0)

(* An inode has one cache entry, so that two processes never lock different *)
(* copies of a file; and the cache is write-through: the copy in memory of  *)
(* an entry in use that nobody has locked is what is on disk.               *)
CacheCoherent ==
  \A s \in Slots : ref[s] > 0 =>
    /\ \A t \in Slots : ref[t] > 0 /\ inum[s] = inum[t] => s = t
    /\ s \in valid /\ lock[s] = NoProc => inode[s] = disk[inum[s]]

(* A file that is open, or that a directory names, is not free: iput()     *)
(* never frees an inode somebody can still use, even if ialloc() reuses    *)
(* inodes at once; and the checks of ilock() and sys_unlink() never fail.  *)
NotFreedInUse ==
  /\ \A x \in Paths : dir[x] # 0 => disk[dir[x]].type # "free"
  /\ \A p \in Procs : at[p]["file"] # 0 /\ panic = "none"
                      /\ ~(pc[p] \in {"freed", "drop"} /\ puts[p] = <<"file">>)
                      => disk[inum[at[p]["file"]]].type # "free"
  /\ panic \notin {"ilock: no type", "unlink: nlink < 1"}

(* When no call is running, the link count of an inode is the number of    *)
(* entries that name it.                                                   *)
Quiet == panic = "none" /\ \A p \in Procs : pc[p] = "user"
LinksCounted ==
  Quiet => \A i \in Inums \ {ROOT} :
             disk[i].nlink = Cardinality({x \in Paths : dir[x] = i})
=============================================================================
