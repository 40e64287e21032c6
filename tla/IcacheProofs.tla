---------------------------- MODULE IcacheProofs ----------------------------
(***************************************************************************)
(* The inode cache for every number of processes, names, inodes and cache  *)
(* entries: references are counted, an inode has one entry and its copy is *)
(* that of the disk, no inode is freed in use, links are counted.          *)
(***************************************************************************)
EXTENDS IcacheInvariant

-----------------------------------------------------------------------------
(* iget() *)

(* A panic leaves the properties as they are: what the step has done to     *)
(* the disk before it is a new inode, and it may have released a lock.      *)
LEMMA PanicStep ==
  ASSUME Running, NEW p \in Procs, pc[p] # "freed", UNCHANGED <<icache, at, dir>>,
         panic' \notin {"none", "ilock: no type", "unlink: nlink < 1"},
         \A s \in Slots : lock'[s] = NoProc => lock[s] \in {p, NoProc},
         \A i \in Inums : disk[i].type # "free" => disk'[i] = disk[i]
  PROVE  IInv'
<1>1. RefsCounted'
  BY ZenonT(30), RefsSame DEF Running, icache
<1>2. CacheCoherent'
  <2> SUFFICES ASSUME NEW s \in Slots, ref[s] > 0
               PROVE  /\ \A t \in Slots : ref[t] > 0 /\ inum[s] = inum[t] => s = t
                      /\ s \in valid /\ lock'[s] = NoProc => inode[s] = disk'[inum[s]]
    BY ZenonT(30) DEF CacheCoherent, icache
  <2>1. ASSUME s \in valid, lock'[s] = NoProc PROVE inode[s] = disk'[inum[s]]
    <3>1. ~Freeing(s)
      BY ZenonT(30), <2>1, NotFreeing
    <3>2. inode[s] = disk[inum[s]] /\ inode[s].type # "free"
      BY ZenonT(30), <2>1, <3>1 DEF Running, ValidInv
    <3> QED
      BY ZenonT(30), <3>2 DEF Running, TypeOK, CacheTypes
  <2> QED
    BY ZenonT(30), <2>1 DEF Running, Unique
<1>3. \A x \in Paths : dir[x] # 0 => dir[x] \in Inums
  BY ZenonT(30), Consts DEF Running, TypeOK, DiskTypes
<1>4. NotFreedInUse'
  BY ZenonT(30), <1>3 DEF NotFreedInUse, Running, DirLive
<1> QED
  BY ZenonT(30), <1>1, <1>2, <1>4 DEF IInv

(* iget() takes the entry of the inode, or recycles one that nobody has. *)
LEMMA IgetFact ==
  ASSUME Running, NEW p \in Procs, NEW h \in Holders, NEW i \in Inums, at[p][h] = 0,
         Iget(p, h, i), Cached(i) \cup Recyclable # {}
  PROVE  /\ \E s \in Slots : at' = [at EXCEPT ![p][h] = s] /\ inum'[s] = i
         /\ RefsCounted' /\ Unique' /\ InumsKept /\ inum'[ROOT] = ROOT
         /\ inum' \in [Slots -> Inums] /\ ref' \in [Slots -> Nat] /\ valid' \subseteq valid
         /\ inode' = inode /\ panic' = panic
         /\ \A t \in valid' : t \in valid /\ (ref'[t] > 0 => ref[t] > 0 /\ inum'[t] = inum[t])
         /\ \A t \in valid : ref[t] > 0 => t \in valid'
<1> DEFINE s == First(IF Cached(i) # {} THEN Cached(i) ELSE Recyclable)
<1>1. /\ ref' = [ref EXCEPT ![s] = @ + 1] /\ inum' = [inum EXCEPT ![s] = i]
      /\ valid' = IF Cached(i) # {} THEN valid ELSE valid \ {s}
      /\ at' = [at EXCEPT ![p][h] = s] /\ inode' = inode /\ panic' = panic
  BY ZenonT(30) DEF Iget
<1>2. /\ s \in Slots
      /\ Cached(i) # {} => ref[s] > 0 /\ inum[s] = i
      /\ Cached(i) = {} => ref[s] = 0 /\ \A t \in Slots : ref[t] > 0 => inum[t] # i
  <2>1. CASE Cached(i) # {}
    <3>1. s = First(Cached(i)) /\ Cached(i) \subseteq Nat
      BY ZenonT(30), <2>1, Consts DEF Cached
    <3>2. s \in Cached(i)
      BY ZenonT(30), <2>1, <3>1, FirstIn
    <3> QED
      BY ZenonT(30), <2>1, <3>2 DEF Cached
  <2>2. CASE Cached(i) = {}
    <3>1. s = First(Recyclable) /\ Recyclable \subseteq Nat
      BY ZenonT(30), <2>2, Consts DEF Recyclable
    <3>2. s \in Recyclable
      BY ZenonT(30), <2>2, <3>1, FirstIn
    <3> QED
      BY ZenonT(30), <2>2, <3>2 DEF Cached, Recyclable
  <2> QED
    BY ZenonT(30), <2>1, <2>2
<1> HIDE DEF s
<1>3. TypeOK /\ RefsCounted /\ ref \in [Slots -> Nat] /\ inum \in [Slots -> Inums]
      /\ valid \subseteq Slots
  BY ZenonT(30) DEF Running, TypeOK, CacheTypes
<1>4. /\ ref' \in [Slots -> Nat] /\ ref'[s] = ref[s] + 1
      /\ \A t \in Slots \ {s} : ref'[t] = ref[t]
      /\ inum' \in [Slots -> Inums] /\ inum'[s] = i /\ \A t \in Slots \ {s} : inum'[t] = inum[t]
  BY <1>1, <1>2, <1>3
<1>5. \A t \in Slots : ref[t] > 0 => inum'[t] = inum[t]
  BY <1>2, <1>3, <1>4
<1>6. RefsCounted'
  BY ZenonT(30), <1>1, <1>2, <1>3, RefsTake
<1>7. Unique'
  <2> SUFFICES ASSUME NEW t \in Slots, NEW u \in Slots, ref'[t] > 0, ref'[u] > 0,
                      inum'[t] = inum'[u]
               PROVE  t = u
    BY ZenonT(30) DEF Unique
  <2>1. CASE Cached(i) # {}
    BY ZenonT(30), <1>2, <1>3, <1>4, <1>5, <2>1 DEF Running, Unique
  <2>2. CASE Cached(i) = {}
    BY ZenonT(30), <1>2, <1>3, <1>4, <1>5, <2>2 DEF Running, Unique
  <2> QED
    BY ZenonT(30), <2>1, <2>2
<1>8. InumsKept
  BY ZenonT(30), <1>5, RefPositive DEF InumsKept, Running
<1>9. inum'[ROOT] = ROOT
  BY ZenonT(30), <1>5, RefPositive, Consts DEF Running, RootInv
<1>10. \A t \in valid' : t \in valid /\ (ref'[t] > 0 => ref[t] > 0 /\ inum'[t] = inum[t])
  BY ZenonT(30), <1>1, <1>2, <1>3, <1>4
<1>11. valid' \subseteq valid /\ \A t \in valid : ref[t] > 0 => t \in valid'
  BY <1>1, <1>2, <1>3
<1> QED
  BY ZenonT(30), <1>1, <1>2, <1>4, <1>6, <1>7, <1>8, <1>9, <1>10, <1>11

(* One call has the directory at a time. *)
LEMMA DirAlone ==
  ASSUME Running, NEW p \in Procs, HasDir(p), NEW q \in Procs \ {p}
  PROVE  ~Nested(q) /\ lock[ROOT] = p
  BY ZenonT(30) DEF Running, LockInv, Locks, HasDir

(* A call with the directory locked looks an inode up and keeps the         *)
(* reference in h.                                                          *)
LEMMA LookupStep ==
  ASSUME Running, NEW p \in Procs, pc[p] = "indir", NEW h \in Holders, at[p][h] = 0,
         NEW i \in Inums, disk[i].type # "free", Iget(p, h, i), Cached(i) \cup Recyclable # {},
         UNCHANGED <<disk, dir, call, name, new>>,
         lock' \in [Slots -> Procs \cup {NoProc}],
         \A s \in Slots, q \in Procs \ {p} : lock[s] = q => lock'[s] = q,
         pc' \in [Procs -> Places], puts' \in [Procs -> Lists], then' \in [Procs -> Places],
         \A q \in Procs \ {p} : pc'[q] = pc[q] /\ puts'[q] = puts[q] /\ then'[q] = then[q],
         at'[p][h] # 0 => Shape(p)' /\ Locks(p)' /\ Looked(p)' /\ (Extra(p)' <=> Extra(p)),
         Extra(p) => h # "ip"
  PROVE  Running'
<1>1. PICK s \in Slots : at' = [at EXCEPT ![p][h] = s] /\ inum'[s] = i
  BY IgetFact
<1>2. /\ RefsCounted' /\ Unique' /\ InumsKept /\ inum'[ROOT] = ROOT
      /\ inum' \in [Slots -> Inums] /\ ref' \in [Slots -> Nat] /\ valid' \subseteq valid
      /\ inode' = inode /\ panic' = panic
      /\ \A t \in valid' : t \in valid /\ (ref'[t] > 0 => ref[t] > 0 /\ inum'[t] = inum[t])
      /\ \A t \in valid : ref[t] > 0 => t \in valid'
  BY ZenonT(30), IgetFact
<1>3. /\ HolderTypes' /\ at'[p][h] = s /\ s # 0
      /\ \A g \in Holders : g # h => at'[p][g] = at[p][g]
      /\ \A q \in Procs \ {p} : at'[q] = at[q]
  BY <1>1, Consts DEF Running, TypeOK, HolderTypes
<1>4. Others(p)
  BY ZenonT(30), <1>3 DEF Others
<1>5. LocksKept(p)
  BY ZenonT(30), <1>2 DEF LocksKept
<1>6. TypeOK'
  BY ZenonT(30), <1>2, <1>3 DEF Running, TypeOK, DiskTypes, CacheTypes, CallTypes
<1>7. ASSUME NEW g \in Holders, at'[p][g] # 0 PROVE disk[inum'[at'[p][g]]].type # "free"
  <2>1. CASE g = h
    BY ZenonT(30), <1>1, <1>3, <2>1
  <2>2. CASE g # h
    <3>1. at'[p][g] = at[p][g] /\ inum'[at[p][g]] = inum[at[p][g]]
      BY <1>2, <1>3, <1>7, <2>2 DEF InumsKept
    <3> QED
      BY <1>7, <3>1 DEF Running, HeldLive, Dropping
  <2> QED
    BY ZenonT(30), <2>1, <2>2
<1>8. \A q \in Procs \ {p} : ~Nested(q)
  BY ZenonT(30), DirAlone DEF HasDir
<1>9. Extra(p) => at'[p]["ip"] = at[p]["ip"]
  BY ZenonT(30), <1>3 DEF Holders
<1>10. Shape(p)' /\ Locks(p)' /\ Looked(p)' /\ (Extra(p)' <=> Extra(p))
  BY ZenonT(30), <1>3
<1>11. UNCHANGED <<disk, dir, inode>>
  BY ZenonT(30), <1>2
<1> QED
  BY ZenonT(30), <1>2, <1>4, <1>5, <1>6, <1>7, <1>8, <1>9, <1>10, <1>11, CacheStep

(* namei(), and create() of a name that exists. *)
LEMMA LookupFoundStep ==
  ASSUME Running, panic = "none", NEW p \in Procs, LookupFound(p)
  PROVE  IInv' \/ (Running' /\ panic' = "none")
<1> DEFINE i == dir[name[p]]
<1>1. /\ pc[p] = "indir" /\ ~InPut(p) /\ call[p] \in {"open", "create", "link"} /\ i # 0
      /\ Iget(p, "ip", i) /\ lock' = [lock EXCEPT ![ROOT] = NoProc] /\ Put(p, <<"dp">>, "lock")
      /\ UNCHANGED <<disk, dir, call, name, new>>
  BY ZenonT(30) DEF LookupFound, At, InPut, Unlock, args
<1>2. i \in Inums /\ disk[i].type # "free"
  BY ZenonT(30), <1>1, Consts DEF Running, TypeOK, DiskTypes, CallTypes, DirLive
<1> HIDE DEF i
<1>3. RunShape(p) /\ at[p]["ip"] = 0 /\ (call[p] \in {"open", "create"} => at[p]["file"] = 0)
  BY ZenonT(30), <1>1 DEF Running, ShapeInv, Shape, RunShape
<1>4. HasDir(p) /\ lock[ROOT] = p /\ "ip" \in Holders
  BY ZenonT(30), <1>1 DEF Running, LockInv, Locks, HasDir, Holders
<1>5. /\ lock' \in [Slots -> Procs \cup {NoProc}]
      /\ \A s \in Slots, q \in Procs \ {p} : lock[s] = q => lock'[s] = q
      /\ \A s \in Slots : lock'[s] = NoProc => lock[s] \in {p, NoProc}
  BY ZenonT(30), <1>1, <1>4, Consts DEF Running, TypeOK, CacheTypes
<1>6. CASE Cached(i) \cup Recyclable = {}
  <2>1. panic' = "iget: no inodes" /\ UNCHANGED <<icache, at, dir>> /\ pc[p] # "freed"
    BY ZenonT(30), <1>1, <1>6 DEF Iget
  <2> QED
    BY ZenonT(30), <1>1, <1>5, <2>1, PanicStep
<1>7. CASE Cached(i) \cup Recyclable # {}
  <2>1. <<"dp">> \in Lists /\ "lock" \in Places
    BY ZenonT(30) DEF Lists, Places
  <2>2. /\ puts' \in [Procs -> Lists] /\ then' \in [Procs -> Places]
        /\ pc' \in [Procs -> Places]
        /\ pc'[p] = "put" /\ puts'[p] = <<"dp">> /\ then'[p] = "lock"
        /\ \A q \in Procs \ {p} : pc'[q] = pc[q] /\ puts'[q] = puts[q] /\ then'[q] = then[q]
        /\ InPut(p)' /\ ~Nested(p)' /\ ~HasPut(p)' /\ Looked(p)' /\ ~Keeps(p)'
        /\ ~HasDir(p)' /\ ~HasInode(p)'
    BY ZenonT(30), <1>1, <2>1, PutChange
  <2>3. panic' = panic /\ \E s \in Slots : at' = [at EXCEPT ![p]["ip"] = s]
    BY <1>1, <1>2, <1>3, <1>4, <1>7, IgetFact
  <2>4. \A g \in Holders : g # "ip" => at'[p][g] = at[p][g]
    BY ZenonT(30), <2>3 DEF Running, TypeOK, HolderTypes
  <2>5. at'[p]["ip"] # 0 => PutShape(p)'
    BY ZenonT(30), <1>1, <1>3, <2>2, <2>4 DEF RunShape, PutShape, Holders
  <2>6. at'[p]["ip"] # 0 => Shape(p)'
    BY ZenonT(30), <1>1, <1>3, <2>2, <2>4, <2>5 DEF Shape, Holders
  <2>7. ~Extra(p) /\ ~Extra(p)'
    BY ZenonT(30), <1>1, <2>2 DEF Extra
  <2>8. Locks(p)'
    BY ZenonT(30), <2>2, <2>7 DEF Locks
  <2>9. Running'
    BY ZenonT(30), <1>1, <1>2, <1>3, <1>4, <1>5, <1>7, <2>2, <2>6, <2>7, <2>8, LookupStep
  <2> QED
    BY ZenonT(30), <2>3, <2>9
<1> QED
  BY ZenonT(30), <1>6, <1>7

(* dirlink() finds the new name of a link taken. *)
LEMMA LinkTakenStep ==
  ASSUME Running, panic = "none", NEW p \in Procs, LinkTaken(p)
  PROVE  IInv' \/ (Running' /\ panic' = "none")
<1> DEFINE i == dir[new[p]]
<1>1. /\ pc[p] = "indir" /\ ~InPut(p) /\ call[p] = "relink" /\ i # 0
      /\ Iget(p, "hit", i) /\ lock' = lock /\ Put(p, <<"hit">>, "unlockdir")
      /\ UNCHANGED <<disk, dir, call, name, new>>
  BY ZenonT(30) DEF LinkTaken, At, InPut, args
<1>2. i \in Inums /\ disk[i].type # "free"
  BY ZenonT(30), <1>1, Consts DEF Running, TypeOK, DiskTypes, CallTypes, DirLive
<1> HIDE DEF i
<1>3. RunShape(p) /\ at[p]["hit"] = 0
  BY ZenonT(30), <1>1 DEF Running, ShapeInv, Shape, RunShape
<1>4. HasDir(p) /\ lock[ROOT] = p /\ "hit" \in Holders
  BY ZenonT(30), <1>1 DEF Running, LockInv, Locks, HasDir, Holders
<1>5. CASE Cached(i) \cup Recyclable = {}
  <2>1. panic' = "iget: no inodes" /\ UNCHANGED <<icache, at, dir>> /\ pc[p] # "freed"
    BY ZenonT(30), <1>1, <1>5 DEF Iget
  <2> QED
    BY ZenonT(30), <1>1, <2>1, PanicStep
<1>6. CASE Cached(i) \cup Recyclable # {}
  <2>1. <<"hit">> \in Lists /\ "unlockdir" \in Places
    BY ZenonT(30) DEF Lists, Places
  <2>2. /\ puts' \in [Procs -> Lists] /\ then' \in [Procs -> Places]
        /\ pc' \in [Procs -> Places]
        /\ pc'[p] = "put" /\ puts'[p] = <<"hit">> /\ then'[p] = "unlockdir"
        /\ \A q \in Procs \ {p} : pc'[q] = pc[q] /\ puts'[q] = puts[q] /\ then'[q] = then[q]
        /\ InPut(p)' /\ ~Nested(p)' /\ ~HasPut(p)' /\ Looked(p)' /\ ~Keeps(p)' /\ ~HasInode(p)'
    BY ZenonT(30), <1>1, <2>1, PutChange
  <2>3. panic' = panic /\ InumsKept /\ \E s \in Slots : at' = [at EXCEPT ![p]["hit"] = s]
    BY <1>1, <1>2, <1>3, <1>4, <1>6, IgetFact
  <2>4. \A g \in Holders : g # "hit" => at'[p][g] = at[p][g]
    BY ZenonT(30), <2>3 DEF Running, TypeOK, HolderTypes
  <2>5. at'[p]["hit"] # 0 => PutShape(p)'
    BY ZenonT(30), <1>1, <1>3, <2>2, <2>4 DEF RunShape, PutShape, Holders
  <2>6. at'[p]["hit"] # 0 => Shape(p)'
    BY ZenonT(30), <1>1, <2>2, <2>5 DEF Shape
  <2>7. Extra(p) /\ Extra(p)'
    BY ZenonT(30), <1>1, <2>2 DEF Extra
  <2>8. inum'[at'[p]["ip"]] # ROOT
    <3>1. at[p]["ip"] # 0 /\ inum[at[p]["ip"]] # ROOT /\ "ip" \in Holders
      BY ZenonT(30), <2>7, IpHeld DEF Running, LockInv, Locks, Holders
    <3> QED
      BY ZenonT(30), <2>3, <2>4, <3>1 DEF InumsKept
  <2>9. Locks(p)'
    BY ZenonT(30), <1>1, <1>4, <2>2, <2>8 DEF Locks
  <2>10. lock' \in [Slots -> Procs \cup {NoProc}]
    BY ZenonT(30), <1>1 DEF Running, TypeOK, CacheTypes
  <2>11. Running'
    BY ZenonT(30), <1>1, <1>2, <1>3, <1>4, <1>6, <2>2, <2>6, <2>7, <2>9, <2>10, LookupStep
  <2> QED
    BY ZenonT(30), <2>3, <2>11
<1> QED
  BY ZenonT(30), <1>5, <1>6

(* sys_unlink() finds the entry. *)
LEMMA UnlinkFoundStep ==
  ASSUME Running, panic = "none", NEW p \in Procs, UnlinkFound(p)
  PROVE  IInv' \/ (Running' /\ panic' = "none")
<1> DEFINE i == dir[name[p]]
<1>1. /\ pc[p] = "indir" /\ ~InPut(p) /\ call[p] = "unlink" /\ name[p] # Dot /\ i # 0
      /\ Iget(p, "ip", i) /\ pc' = [pc EXCEPT ![p] = "lock"] /\ UNCHANGED <<lock, puts, then>>
      /\ UNCHANGED <<disk, dir, call, name, new>>
  BY ZenonT(30) DEF UnlinkFound, At, InPut, args
<1>2. i \in Inums /\ disk[i].type # "free" /\ i # ROOT
  BY ZenonT(30), <1>1, Consts DEF Running, TypeOK, DiskTypes, CallTypes, DirLive, RootInv
<1>3. RunShape(p) /\ at[p]["ip"] = 0
  BY ZenonT(30), <1>1 DEF Running, ShapeInv, Shape, RunShape
<1>4. HasDir(p) /\ lock[ROOT] = p /\ "ip" \in Holders
  BY ZenonT(30), <1>1 DEF Running, LockInv, Locks, HasDir, Holders
<1> HIDE DEF i
<1>5. CASE Cached(i) \cup Recyclable = {}
  <2>1. panic' = "iget: no inodes" /\ UNCHANGED <<icache, at, dir>> /\ pc[p] # "freed"
    BY ZenonT(30), <1>1, <1>5 DEF Iget
  <2> QED
    BY ZenonT(30), <1>1, <2>1, PanicStep
<1>6. CASE Cached(i) \cup Recyclable # {}
  <2>1. /\ pc' \in [Procs -> Places] /\ pc'[p] = "lock"
        /\ \A q \in Procs \ {p} : pc'[q] = pc[q]
        /\ puts' \in [Procs -> Lists] /\ then' \in [Procs -> Places]
        /\ lock' \in [Slots -> Procs \cup {NoProc}]
    BY ZenonT(30), <1>1 DEF Running, TypeOK, CallTypes, CacheTypes, Places
  <2>2. PICK s \in Slots : at' = [at EXCEPT ![p]["ip"] = s] /\ inum'[s] = i
    BY <1>1, <1>2, <1>3, <1>4, <1>6, IgetFact
  <2>3. panic' = panic
    BY ZenonT(30), <1>1, <1>2, <1>3, <1>4, <1>6, IgetFact
  <2>4. at'[p]["ip"] = s /\ \A g \in Holders : g # "ip" => at'[p][g] = at[p][g]
    BY ZenonT(30), <1>4, <2>2 DEF Running, TypeOK, HolderTypes
  <2>5. s # 0 /\ ~InPut(p)' /\ RunShape(p)' /\ Shape(p)'
    BY ZenonT(30), <1>1, <1>3, <2>1, <2>4, Consts DEF InPut, RunShape, Shape, Holders
  <2>6. ~Extra(p) /\ ~Extra(p)'
    BY ZenonT(30), <1>1, <1>3, <2>1 DEF Extra, RunShape
  <2>7. ~Keeps(p)' /\ ~HasPut(p)' /\ ~HasInode(p)'
    BY ZenonT(30), <2>1, <2>5 DEF Keeps, HasPut, HasInode
  <2>8. Locks(p)'
    BY ZenonT(30), <1>1, <1>2, <1>4, <2>2, <2>4, <2>6, <2>7 DEF Locks
  <2>9. Looked(p)'
    BY ZenonT(30), <1>1, <2>2, <2>4 DEF Looked, i
  <2>10. Running'
    BY ZenonT(30), <1>1, <1>2, <1>3, <1>4, <1>6, <2>1, <2>5, <2>6, <2>8, <2>9, LookupStep
  <2> QED
    BY ZenonT(30), <2>3, <2>10
<1> QED
  BY ZenonT(30), <1>5, <1>6

(* No call has a link counted for a free inode. *)
LEMMA FreeInode ==
  ASSUME Running, NEW i \in Inums, disk[i].type = "free"
  PROVE  i # ROOT /\ disk[i].nlink = 0 /\ \A x \in Paths : dir[x] # i
<1>1. i # ROOT /\ i # 0
  BY Consts DEF Running, RootInv
<1>2. \A x \in Paths : dir[x] # i
  BY ZenonT(30), <1>1 DEF Running, DirLive
<1>3. Entries(i) = {}
  BY ZenonT(30), <1>2 DEF Entries
<1>4. ASSUME NEW q \in Procs, Extra(q), inum[at[q]["ip"]] = i PROVE FALSE
  <2>1. at[q]["ip"] # 0
    BY ZenonT(30), <1>4, IpHeld
  <2>2. Dropping(q, "ip")
    BY ZenonT(30), <1>4, <2>1 DEF Running, HeldLive, Holders
  <2>3. InPut(q) /\ Head(puts[q]) = "ip" /\ pc[q] # "unlinked"
    BY ZenonT(30), <2>2 DEF Dropping, InPut
  <2>4. PutShape(q)
    BY ZenonT(30), <2>3, PuttingFact
  <2>5. then[q] = "user"
    BY ZenonT(30), <2>3, <2>4, ListFacts DEF PutShape
  <2> QED
    BY ZenonT(30), <1>4, <2>3, <2>5 DEF Extra
<1>5. Pending(i) = {}
  BY ZenonT(30), <1>4 DEF Pending
<1> QED
  BY ZenonT(30), <1>1, <1>2, <1>3, <1>5, NoLinks

(* create() of a new name allocates an inode. *)
LEMMA CreateNewStep ==
  ASSUME Running, panic = "none", NEW p \in Procs, CreateNew(p)
  PROVE  IInv' \/ (Running' /\ panic' = "none")
<1> DEFINE i == First(FreeInodes)
<1>1. /\ pc[p] = "indir" /\ ~InPut(p) /\ call[p] = "create" /\ dir[name[p]] = 0
      /\ pc' = [pc EXCEPT ![p] = "lock"]
      /\ UNCHANGED <<dir, lock, call, name, new, puts, then>>
  BY ZenonT(30) DEF CreateNew, At, InPut, args
<1>2. CASE FreeInodes = {}
  <2>1. panic' = "ialloc: no inodes" /\ UNCHANGED <<disk, icache, at>>
    BY ZenonT(30), <1>2 DEF CreateNew
  <2> QED
    BY ZenonT(30), <1>1, <2>1, PanicStep
<1>3. CASE FreeInodes # {}
  <2>1. disk' = [disk EXCEPT ![i] = [type |-> "file", nlink |-> 0]] /\ Iget(p, "ip", i)
    BY ZenonT(30), <1>3 DEF CreateNew
  <2>2. i \in Inums /\ disk[i].type = "free"
    <3>1. i \in FreeInodes
      BY ZenonT(30), <1>3, FirstIn, Consts DEF FreeInodes
    <3> QED
      BY ZenonT(30), <3>1 DEF FreeInodes
  <2> HIDE DEF i
  <2>3. i # ROOT /\ disk[i].nlink = 0 /\ \A x \in Paths : dir[x] # i
    BY ZenonT(30), <2>2, FreeInode
  <2>4. /\ disk' \in [Inums -> Inodes] /\ disk'[i] = [type |-> "file", nlink |-> 0]
        /\ \A j \in Inums \ {i} : disk'[j] = disk[j]
    BY ZenonT(30), <2>1, <2>2 DEF Running, TypeOK, DiskTypes, Inodes
  <2>5. CASE Cached(i) \cup Recyclable = {}
    <3>1. panic' = "iget: no inodes" /\ UNCHANGED <<icache, at, dir>> /\ pc[p] # "freed"
      BY ZenonT(30), <1>1, <2>1, <2>5 DEF Iget
    <3>2. \A j \in Inums : disk[j].type # "free" => disk'[j] = disk[j]
      BY ZenonT(30), <2>2, <2>4
    <3> QED
      BY ZenonT(30), <1>1, <3>1, <3>2, PanicStep
  <2>6. CASE Cached(i) \cup Recyclable # {}
    <3>0. RunShape(p) /\ at[p]["ip"] = 0 /\ at[p]["file"] = 0 /\ "ip" \in Holders
      BY ZenonT(30), <1>1 DEF Running, ShapeInv, Shape, RunShape, Holders
    <3>1. PICK s \in Slots : at' = [at EXCEPT ![p]["ip"] = s] /\ inum'[s] = i
      BY <2>1, <2>2, <2>6, <3>0, IgetFact
    <3>2. /\ RefsCounted' /\ Unique' /\ InumsKept /\ inum'[ROOT] = ROOT
          /\ inum' \in [Slots -> Inums] /\ ref' \in [Slots -> Nat] /\ valid' \subseteq valid
          /\ inode' = inode /\ panic' = panic
          /\ \A t \in valid' : t \in valid /\ (ref'[t] > 0 => ref[t] > 0 /\ inum'[t] = inum[t])
          /\ \A t \in valid : ref[t] > 0 => t \in valid'
      BY ZenonT(30), <2>1, <2>2, <2>6, <3>0, IgetFact
    <3>3. /\ HolderTypes' /\ at'[p]["ip"] = s /\ s # 0
          /\ \A g \in Holders : g # "ip" => at'[p][g] = at[p][g]
          /\ \A q \in Procs \ {p} : at'[q] = at[q]
      BY ZenonT(30), <3>0, <3>1, Consts DEF Running, TypeOK, HolderTypes
    <3>4. CallTypes' /\ pc'[p] = "lock" /\ \A q \in Procs \ {p} : pc'[q] = pc[q]
      BY ZenonT(30), <1>1 DEF Running, TypeOK, CallTypes, Places
    <3>5. Others(p)
      BY ZenonT(30), <1>1, <3>3, <3>4 DEF Others
    <3>6. LocksKept(p)
      BY ZenonT(30), <1>1, <3>2 DEF LocksKept
    <3>7. TypeOK'
      BY ZenonT(30), <1>1, <2>4, <3>2, <3>3, <3>4 DEF Running, TypeOK, DiskTypes, CacheTypes
    <3>8. ~InPut(p)' /\ RunShape(p)' /\ Shape(p)'
      BY ZenonT(30), <1>1, <3>0, <3>3, <3>4 DEF InPut, RunShape, Shape, Holders
    <3>9. ~Extra(p) /\ ~Extra(p)' /\ ~Keeps(p)' /\ ~HasPut(p)' /\ ~HasInode(p)'
      BY ZenonT(30), <1>1, <3>4, <3>8 DEF Extra, Keeps, HasPut, HasInode
    <3>10. HasDir(p) /\ lock[ROOT] = p
      BY ZenonT(30), <1>1 DEF Running, LockInv, Locks, HasDir
    <3>11. Locks(p)'
      BY ZenonT(30), <1>1, <2>3, <3>1, <3>3, <3>9, <3>10 DEF Locks
    <3>12. Looked(p)'
      <4>1. ASSUME NEW q \in Procs \ {p}, NEW h \in Holders, at'[q][h] = s PROVE Dropping(q, h)'
        <5>1. at[q][h] = s /\ inum[s] = i
          BY <3>1, <3>2, <3>3, <4>1 DEF InumsKept
        <5>2. Dropping(q, h)
          BY ZenonT(30), <2>2, <3>3, <5>1 DEF Running, HeldLive
        <5> QED
          BY ZenonT(30), <3>5, <5>2, OthersSame
      <4>2. Fresh(p)'
        BY <1>1, <2>4, <3>1, <3>3, <4>1 DEF Fresh
      <4> QED
        BY ZenonT(30), <1>1, <4>2 DEF Looked
    <3>13. \A q \in Procs \ {p} : ~Nested(q) /\ lock[ROOT] # q
      BY ZenonT(30), <3>10, DirAlone
    <3>14. ShapeInv' /\ LockInv' /\ LookedInv'
      BY ZenonT(30), <3>2, <3>5, <3>6, <3>8, <3>11, <3>12, <3>13, OthersShape, OthersLocks,
         OthersLooked
    <3>15. \A j \in Inums : /\ disk'[j].nlink = disk[j].nlink
                            /\ disk[j].type # "free" => disk'[j] = disk[j]
      BY <2>2, <2>3, <2>4
    <3>16. HeldLive'
      <4>1. ASSUME NEW g \in Holders, at'[p][g] # 0 PROVE disk'[inum'[at'[p][g]]].type # "free"
        <5>1. CASE g = "ip"
          BY <2>4, <3>1, <3>3, <5>1
        <5>2. CASE g # "ip"
          <6>1. at'[p][g] = at[p][g] /\ inum'[at[p][g]] = inum[at[p][g]]
            BY ZenonT(30), <3>2, <3>3, <4>1, <5>2 DEF InumsKept
          <6>2. inum[at[p][g]] \in Inums
            BY ZenonT(30), <4>1, <6>1, RefPositive DEF Running, TypeOK, CacheTypes
          <6> QED
            BY <1>1, <3>15, <4>1, <6>1, <6>2 DEF Running, HeldLive, Dropping
        <5> QED
          BY ZenonT(30), <5>1, <5>2
      <4>2. \A j \in Inums : disk[j].type # "free" => disk'[j].type # "free"
        BY ZenonT(30), <3>15
      <4> QED
        BY ZenonT(30), <3>2, <3>5, <4>1, <4>2, HeldFrame
    <3>17. ValidInv'
      <4> SUFFICES ASSUME NEW t \in valid', ref'[t] > 0, ~Freeing(t)'
                   PROVE  inode'[t] = disk'[inum'[t]] /\ inode'[t].type # "free"
        BY ZenonT(30) DEF ValidInv
      <4>1. t \in valid /\ ref[t] > 0 /\ inum'[t] = inum[t] /\ inode' = inode
        BY ZenonT(30), <3>2
      <4>2. ~Freeing(t)
        <5> SUFFICES ASSUME NEW q \in Procs, pc[q] = "freed", Putting(q) = t PROVE FALSE
          BY ZenonT(30) DEF Freeing
        <5>1. q # p
          BY ZenonT(30), <1>1
        <5> QED
          BY ZenonT(30), <3>5, <5>1, OthersSame DEF Freeing, Others
      <4>3. inode[t] = disk[inum[t]] /\ inode[t].type # "free" /\ inum[t] \in Inums
        BY ZenonT(30), <4>1, <4>2 DEF Running, ValidInv, TypeOK, CacheTypes
      <4> QED
        BY ZenonT(30), <3>15, <4>1, <4>3
    <3>18. RootInv' /\ DirLive'
      BY <1>1, <2>2, <3>2, <3>15, Consts DEF Running, RootInv, DirLive, TypeOK, DiskTypes
    <3>19. LinkInv'
      BY ZenonT(30), <1>1, <3>2, <3>5, <3>9, <3>15, LinkFrame
    <3> QED
      BY ZenonT(30), <3>2, <3>7, <3>14, <3>16, <3>17, <3>18, <3>19 DEF Running
  <2> QED
    BY ZenonT(30), <2>5, <2>6
<1> QED
  BY ZenonT(30), <1>2, <1>3

-----------------------------------------------------------------------------
(* Steps that change link counts and directory entries *)

(* A call that has its inode locked has an up to date copy of it. *)
LEMMA InodeLocked ==
  ASSUME Running, NEW p \in Procs, pc[p] \in {"inode", "unlinked"}
  PROVE  /\ at[p]["ip"] # 0 /\ at[p]["ip"] \in Slots /\ ref[at[p]["ip"]] > 0
         /\ inum[at[p]["ip"]] \in Inums /\ lock[at[p]["ip"]] = p /\ at[p]["ip"] \in valid
         /\ inode[at[p]["ip"]] = disk[inum[at[p]["ip"]]]
         /\ inode[at[p]["ip"]].type # "free"
         /\ inum[at[p]["ip"]] = ROOT <=> at[p]["ip"] = ROOT
<1>1. HasInode(p)
  BY ZenonT(30) DEF HasInode
<1>2. at[p]["ip"] # 0
  BY ZenonT(30), <1>1, IpHeld
<1>3. at[p]["ip"] \in Slots /\ ref[at[p]["ip"]] > 0 /\ inum[at[p]["ip"]] \in Inums
  BY ZenonT(30), <1>2, IpFact
<1>4. lock[at[p]["ip"]] = p /\ at[p]["ip"] \in valid
  BY ZenonT(30), <1>1 DEF Running, LockInv, Locks
<1> QED
  BY ZenonT(30), <1>2, <1>3, <1>4, Locked

(* iupdate() of a locked inode changes the copy and the disk alike. *)
LEMMA SetLinksFact ==
  ASSUME Running, NEW s \in Slots, NEW i \in Inums, i = inum[s], NEW k \in Nat,
         SetLinks(s, k), inode[s] = disk[i]
  PROVE  /\ inode' \in [Slots -> Inodes] /\ disk' \in [Inums -> Inodes]
         /\ inode'[s] = disk'[i] /\ disk'[i].nlink = k /\ disk'[i].type = disk[i].type
         /\ \A t \in Slots \ {s} : inode'[t] = inode[t]
         /\ \A j \in Inums \ {i} : disk'[j] = disk[j]
<1>1. inode \in [Slots -> Inodes] /\ disk \in [Inums -> Inodes]
  BY ZenonT(30) DEF Running, TypeOK, DiskTypes, CacheTypes
<1>2. inode' = [inode EXCEPT ![s].nlink = k] /\ disk' = [disk EXCEPT ![i] = inode'[s]]
  BY ZenonT(30) DEF SetLinks
<1>3. /\ inode'[s] = [inode[s] EXCEPT !.nlink = k] /\ inode[s] \in Inodes
      /\ \A t \in Slots \ {s} : inode'[t] = inode[t]
  BY ZenonT(30), <1>1, <1>2
<1>4. inode'[s] \in Inodes /\ inode'[s].nlink = k /\ inode'[s].type = inode[s].type
  BY ZenonT(30), <1>3 DEF Inodes
<1>5. inode' \in [Slots -> Inodes]
  BY ZenonT(30), <1>1, <1>2, <1>4
<1>6. /\ disk' \in [Inums -> Inodes] /\ disk'[i] = inode'[s]
      /\ \A j \in Inums \ {i} : disk'[j] = disk[j]
  BY ZenonT(30), <1>1, <1>2, <1>4
<1> QED
  BY ZenonT(30), <1>3, <1>4, <1>5, <1>6

(* How the set of links on their way follows the call. *)
LEMMA PendingChange ==
  ASSUME Running, NEW p \in Procs, Others(p), inum' = inum,
         NEW i \in Inums, inum[at[p]["ip"]] = i, at'[p]["ip"] = at[p]["ip"]
  PROVE  /\ \A j : j # i => Pending(j)' = Pending(j)
         /\ Cardinality(Pending(i)') \in Nat /\ Cardinality(Pending(i)) \in Nat
         /\ (Extra(p)' <=> Extra(p)) => Cardinality(Pending(i)') = Cardinality(Pending(i))
         /\ Extra(p)' /\ ~Extra(p) =>
              Cardinality(Pending(i)') = Cardinality(Pending(i)) + 1
         /\ ~Extra(p)' /\ Extra(p) =>
              Cardinality(Pending(i)) = Cardinality(Pending(i)') + 1
<1>1. ASSUME NEW j, NEW q \in Procs, q # p PROVE q \in Pending(j)' <=> q \in Pending(j)
  <2>1. (Extra(q)' <=> Extra(q)) /\ at'[q] = at[q]
    BY ZenonT(30), <1>1, OthersSame DEF Others
  <2> QED
    BY ZenonT(30), <2>1 DEF Pending
<1>2. ASSUME NEW j PROVE /\ p \in Pending(j) <=> Extra(p) /\ i = j
                         /\ p \in Pending(j)' <=> Extra(p)' /\ i = j
                         /\ Pending(j) \subseteq Procs /\ Pending(j)' \subseteq Procs
  BY ZenonT(30) DEF Pending
<1>3. ASSUME NEW j, j # i \/ (Extra(p)' <=> Extra(p)) PROVE Pending(j)' = Pending(j)
  <2>1. p \in Pending(j)' <=> p \in Pending(j)
    BY ZenonT(30), <1>2, <1>3
  <2> QED
    BY <1>1, <1>2, <2>1
<1>4. ASSUME Extra(p)', ~Extra(p)
      PROVE  Cardinality(Pending(i)') = Cardinality(Pending(i)) + 1
  <2>1. p \in Pending(i)' /\ p \notin Pending(i)
    BY ZenonT(30), <1>2, <1>4
  <2>2. Pending(i)' = Pending(i) \cup {p}
    BY ZenonT(30), <1>1, <1>2, <2>1
  <2>3. IsFiniteSet(Pending(i))
    BY ZenonT(30), CountsFinite
  <2> QED
    BY ZenonT(30), <2>1, <2>2, <2>3, FS_AddElement
<1>5. ASSUME ~Extra(p)', Extra(p)
      PROVE  Cardinality(Pending(i)) = Cardinality(Pending(i)') + 1
  <2>1. p \notin Pending(i)' /\ p \in Pending(i)
    BY ZenonT(30), <1>2, <1>5
  <2>2. Pending(i)' = Pending(i) \ {p}
    BY ZenonT(30), <1>1, <1>2, <2>1
  <2>3. IsFiniteSet(Pending(i)) /\ Cardinality(Pending(i)) \in Nat
    BY ZenonT(30), CountsFinite
  <2>4. Cardinality(Pending(i) \ {p}) = Cardinality(Pending(i)) - 1
    BY ZenonT(30), <2>1, <2>3, FS_RemoveElement
  <2> QED
    BY <2>2, <2>3, <2>4
<1>6. Cardinality(Pending(i)') \in Nat /\ Cardinality(Pending(i)) \in Nat
  <2>1. IsFiniteSet(Procs)
    BY ZenonT(30), IcacheAssumption
  <2>2. Pending(i) \subseteq Procs /\ Pending(i)' \subseteq Procs
    BY ZenonT(30), <1>2
  <2> QED
    BY ZenonT(30), <2>1, <2>2, FS_Subset, FS_CardinalityType
<1> QED
  BY ZenonT(30), <1>3, <1>4, <1>5, <1>6

(* An entry that names i is made. *)
LEMMA EntryAdd ==
  ASSUME Running, NEW i \in Inums, NEW x \in Paths, dir[x] = 0, dir' = [dir EXCEPT ![x] = i]
  PROVE  /\ Cardinality(Entries(i)') = Cardinality(Entries(i)) + 1
         /\ dir'[x] = i /\ \A y \in Paths \ {x} : dir'[y] = dir[y]
         /\ dir' \in [Paths -> 0..NINODES]
<1>1. /\ dir'[x] = i /\ \A y \in Paths \ {x} : dir'[y] = dir[y]
      /\ dir' \in [Paths -> 0..NINODES]
  BY ZenonT(30), Consts DEF Running, TypeOK, DiskTypes
<1>2. x \notin Entries(i) /\ Entries(i)' = Entries(i) \cup {x}
  BY ZenonT(30), <1>1, Consts DEF Entries
<1>3. IsFiniteSet(Entries(i))
  BY ZenonT(30), CountsFinite
<1>4. Cardinality(Entries(i) \cup {x}) = Cardinality(Entries(i)) + 1
  BY ZenonT(30), <1>2, <1>3, FS_AddElement
<1> QED
  BY ZenonT(30), <1>1, <1>2, <1>4

(* An entry that names i is cleared. *)
LEMMA EntryDrop ==
  ASSUME Running, NEW i \in Inums, NEW x \in Paths, dir[x] = i, dir' = [dir EXCEPT ![x] = 0]
  PROVE  /\ Cardinality(Entries(i)) = Cardinality(Entries(i)') + 1
         /\ Cardinality(Entries(i)') \in Nat
         /\ dir'[x] = 0 /\ \A y \in Paths \ {x} : dir'[y] = dir[y]
         /\ dir' \in [Paths -> 0..NINODES]
<1>1. /\ dir'[x] = 0 /\ \A y \in Paths \ {x} : dir'[y] = dir[y]
      /\ dir' \in [Paths -> 0..NINODES]
  BY ZenonT(30), Consts DEF Running, TypeOK, DiskTypes
<1>2. x \in Entries(i) /\ Entries(i)' = Entries(i) \ {x}
  BY ZenonT(30), <1>1, Consts DEF Entries
<1>3. IsFiniteSet(Entries(i)) /\ Cardinality(Entries(i)) \in Nat
  BY ZenonT(30), CountsFinite
<1>4. /\ Cardinality(Entries(i) \ {x}) = Cardinality(Entries(i)) - 1
      /\ IsFiniteSet(Entries(i) \ {x})
  BY ZenonT(30), <1>2, <1>3, FS_RemoveElement
<1>5. Cardinality(Entries(i) \ {x}) \in Nat
  BY ZenonT(30), <1>4, FS_CardinalityType
<1> QED
  BY <1>1, <1>2, <1>3, <1>4, <1>5

(* The step changes no inode but i, kept in entry s, and if so both on disk *)
(* and in memory.                                                           *)
OneInode(s, i) ==
  /\ \A t \in Slots \ {s} : inode'[t] = inode[t]
  /\ \A j \in Inums \ {i} : disk'[j] = disk[j]
  /\ disk[i].type # "free" /\ disk'[i].type # "free"
  /\ inode'[s] = disk'[i] \/ (inode'[s] = inode[s] /\ disk'[i] = disk[i])

(* It makes and clears no entries but those of i, *)
OneName(i) ==
  \A x \in Paths : dir'[x] = dir[x] \/ (x # Dot /\ dir[x] \in {0, i} /\ dir'[x] \in {0, i})
(* and only while the directory is locked; *)
DirKept(p) == \A q \in Procs \ {p} : lock[ROOT] = q => dir' = dir

(* the count of i is then right; *)
LinksRight(i) == disk'[i].nlink = Cardinality(Entries(i)') + Cardinality(Pending(i)')

(* and p takes no reference but one to the root. *)
OnlyRoot(p) ==
  /\ inum' = inum /\ valid' = valid
  /\ \A t \in Slots : ref'[t] > 0 => ref[t] > 0
  /\ \A h \in Holders : at'[p][h] \in {0, ROOT, at[p][h]}

(* A step of a call that changes the links of its inode, in step with each *)
(* other, and nothing else of the file system.                             *)
LEMMA LinksStep ==
  ASSUME Running, NEW p \in Procs, Others(p), LocksKept(p), TypeOK', RefsCounted',
         pc[p] \notin {"freed", "drop"},
         NEW s \in Slots, s = at[p]["ip"], s = at'[p]["ip"], ref[s] > 0,
         NEW i \in Inums, i # ROOT, i = inum[s],
         OneInode(s, i), OneName(i), DirKept(p), LinksRight(i), OnlyRoot(p),
         Shape(p)', Locks(p)', Looked(p)'
  PROVE  Running'
<1>1. InumsKept /\ ROOT # 0 /\ i # 0 /\ inum' = inum /\ valid' = valid
  BY ZenonT(30), Consts DEF InumsKept, OnlyRoot
<1>2. \A h \in Holders : ~Dropping(p, h)
  BY ZenonT(30) DEF Dropping
<1>3. ASSUME NEW q \in Procs \ {p}, Nested(q), call[q] = "create"
      PROVE  /\ disk'[inum[at[q]["ip"]]].nlink = disk[inum[at[q]["ip"]]].nlink
             /\ \A h \in Holders : at'[p][h] # at[q]["ip"]
  <2>1. /\ at[q]["ip"] # ROOT /\ at[q]["ip"] # 0
        /\ \A h \in Holders : at[p][h] # at[q]["ip"]
    BY ZenonT(30), <1>2, <1>3, FreshAlone
  <2>2. at[q]["ip"] # s
    BY ZenonT(30), <2>1 DEF Holders
  <2>3. at[q]["ip"] \in Slots /\ ref[at[q]["ip"]] > 0 /\ inum[at[q]["ip"]] \in Inums
    BY ZenonT(30), <2>1, IpFact
  <2>4. inum[at[q]["ip"]] # i
    BY ZenonT(30), <2>2, <2>3 DEF Running, Unique
  <2> QED
    BY ZenonT(30), <2>1, <2>3, <2>4 DEF OneInode, OnlyRoot
<1>4. ShapeInv' /\ LockInv'
  BY ZenonT(30), <1>1, OthersShape, OthersLocks
<1>5. LookedInv'
  BY ZenonT(30), <1>1, <1>3, OthersLooked DEF DirKept
<1>6. Unique'
  BY ZenonT(30), UniqueFrame DEF OnlyRoot
<1>7. \A j \in Inums : disk[j].type # "free" => disk'[j].type # "free"
  BY ZenonT(30) DEF OneInode
<1>8. HeldLive'
  <2>1. ASSUME NEW h \in Holders, at'[p][h] # 0 PROVE disk'[inum'[at'[p][h]]].type # "free"
    <3>1. CASE at'[p][h] = ROOT
      <4>1. disk[ROOT].type # "free" /\ inum[ROOT] = ROOT
        BY DEF Running, RootInv
      <4>2. inum'[at'[p][h]] = ROOT
        BY ZenonT(30), <1>1, <3>1, <4>1
      <4> QED
        BY ZenonT(30), <1>7, <4>1, <4>2, Consts
    <3>2. CASE at'[p][h] = at[p][h]
      <4>1. disk[inum[at[p][h]]].type # "free"
        BY ZenonT(30), <1>2, <2>1, <3>2 DEF Running, HeldLive
      <4>2. inum[at[p][h]] \in Inums
        BY ZenonT(30), <2>1, <3>2, RefPositive DEF Running, TypeOK, CacheTypes
      <4> QED
        BY ZenonT(30), <1>1, <1>7, <3>2, <4>1, <4>2
    <3> QED
      BY ZenonT(30), <2>1, <3>1, <3>2 DEF OnlyRoot
  <2> QED
    BY ZenonT(30), <1>1, <1>7, <2>1, HeldFrame
<1>9. ValidInv'
  <2> SUFFICES ASSUME NEW t \in valid', ref'[t] > 0, ~Freeing(t)'
               PROVE  inode'[t] = disk'[inum'[t]] /\ inode'[t].type # "free"
    BY ZenonT(30) DEF ValidInv
  <2>1. t \in valid /\ t \in Slots /\ ref[t] > 0 /\ inum[t] \in Inums
    BY ZenonT(30), <1>1 DEF Running, TypeOK, CacheTypes, OnlyRoot
  <2>2. ~Freeing(t)
    <3> SUFFICES ASSUME NEW q \in Procs, pc[q] = "freed", Putting(q) = t PROVE FALSE
      BY ZenonT(30) DEF Freeing
    <3>1. q # p
      BY ZenonT(30)
    <3>2. pc'[q] = "freed" /\ Putting(q)' = t
      BY ZenonT(30), <3>1, OthersSame DEF Others
    <3> QED
      BY ZenonT(30), <3>2 DEF Freeing
  <2>3. inode[t] = disk[inum[t]] /\ inode[t].type # "free"
    BY ZenonT(30), <2>1, <2>2 DEF Running, ValidInv
  <2>4. CASE t = s
    BY ZenonT(30), <1>1, <2>3, <2>4 DEF OneInode
  <2>5. CASE t # s
    <3>1. inum[t] # i
      BY ZenonT(30), <2>1, <2>5 DEF Running, Unique
    <3> QED
      BY ZenonT(30), <1>1, <2>1, <2>3, <2>5, <3>1 DEF OneInode
  <2> QED
    BY ZenonT(30), <2>4, <2>5
<1>10. RootInv'
  <2>1. disk'[ROOT] = disk[ROOT] /\ inum'[ROOT] = inum[ROOT]
    BY ZenonT(30), <1>1, Consts DEF OneInode
  <2>2. \A x \in Paths : dir'[x] = ROOT <=> x = Dot
    BY ZenonT(30), <1>1 DEF Running, RootInv, OneName
  <2> QED
    BY ZenonT(30), <2>1, <2>2 DEF Running, RootInv
<1>11. DirLive'
  <2> SUFFICES ASSUME NEW x \in Paths, dir'[x] # 0 PROVE disk'[dir'[x]].type # "free"
    BY ZenonT(30) DEF DirLive
  <2>1. CASE dir'[x] = dir[x]
    <3>1. dir[x] \in Inums /\ disk[dir[x]].type # "free"
      BY ZenonT(30), <2>1, Consts DEF Running, DirLive, TypeOK, DiskTypes
    <3> QED
      BY ZenonT(30), <1>7, <2>1, <3>1
  <2>2. CASE dir'[x] = i
    BY ZenonT(30), <2>2 DEF OneInode
  <2> QED
    BY ZenonT(30), <2>1, <2>2 DEF OneName
<1>12. LinkInv'
  <2> SUFFICES ASSUME NEW j \in Inums \ {ROOT}, j # i
               PROVE  disk'[j].nlink = Cardinality(Entries(j)') + Cardinality(Pending(j)')
    BY ZenonT(30) DEF LinkInv, LinksRight
  <2>1. j # 0
    BY ZenonT(30), Consts
  <2>2. \A x \in Paths : dir'[x] = j <=> dir[x] = j
    BY ZenonT(30), <2>1 DEF OneName
  <2>3. Entries(j)' = Entries(j)
    BY ZenonT(30), <2>2 DEF Entries
  <2>4. inum[at[p]["ip"]] = i /\ at'[p]["ip"] = at[p]["ip"]
    BY ZenonT(30)
  <2>5. Pending(j)' = Pending(j)
    BY ZenonT(30), <1>1, <2>4, PendingChange
  <2>6. disk'[j] = disk[j] /\ disk[j].nlink = Cardinality(Entries(j)) + Cardinality(Pending(j))
    BY ZenonT(30) DEF Running, LinkInv, OneInode
  <2> QED
    BY ZenonT(30), <2>3, <2>5, <2>6
<1> QED
  BY ZenonT(30), <1>4, <1>5, <1>6, <1>8, <1>9, <1>10, <1>11, <1>12 DEF Running

(* create() goes on with its new inode locked: it counts the link and      *)
(* makes the entry.                                                         *)
LEMMA CreateLinkStep ==
  ASSUME Running, NEW p \in Procs, CreateLink(p)
  PROVE  Running'
<1>1. /\ pc[p] = "inode" /\ ~InPut(p) /\ call[p] = "create" /\ at[p]["dp"] # 0
      /\ SetLinks(at[p]["ip"], 1) /\ dir' = [dir EXCEPT ![name[p]] = inum[at[p]["ip"]]]
      /\ lock' = [lock EXCEPT ![ROOT] = NoProc] /\ Put(p, <<"dp">>, "inode")
      /\ UNCHANGED <<inum, ref, valid, call, name, new, at>>
  BY ZenonT(30) DEF CreateLink, At, InPut, Unlock, args
<1>2. Nested(p) /\ HasDir(p) /\ ~Extra(p)
  BY ZenonT(30), <1>1 DEF Nested, HasDir, Extra
<1>3. lock[ROOT] = p /\ inum[at[p]["ip"]] # ROOT /\ Fresh(p) /\ name[p] \in Paths
  BY ZenonT(30), <1>1, <1>2 DEF Running, LockInv, Locks, LookedInv, Looked, TypeOK, CallTypes
<1>4. PICK s \in Slots, i \in Inums :
        /\ s = at[p]["ip"] /\ i = inum[s] /\ s # 0 /\ ref[s] > 0 /\ lock[s] = p /\ s \in valid
        /\ inode[s] = disk[i] /\ disk[i].type # "free" /\ s # ROOT /\ i # ROOT
  BY <1>1, <1>3, InodeLocked
<1>5. dir[name[p]] = 0 /\ disk[i].nlink = 0
  BY ZenonT(30), <1>3, <1>4 DEF Fresh
<1>6. name[p] # Dot
  BY ZenonT(30), <1>5, Consts DEF Running, RootInv
<1>7. i = inum[s] /\ s = at[p]["ip"] /\ s = at'[p]["ip"]
  BY ZenonT(30), <1>1, <1>4
<1>8. /\ inode' \in [Slots -> Inodes] /\ disk' \in [Inums -> Inodes]
      /\ inode'[s] = disk'[i] /\ disk'[i].nlink = 1 /\ disk'[i].type = disk[i].type
      /\ \A t \in Slots \ {s} : inode'[t] = inode[t]
      /\ \A j \in Inums \ {i} : disk'[j] = disk[j]
  <2>1. SetLinks(s, 1) /\ 1 \in Nat
    BY ZenonT(30), <1>1, <1>7
  <2> QED
    BY ZenonT(30), <1>4, <1>7, <2>1, SetLinksFact
<1>9. /\ Cardinality(Entries(i)') = Cardinality(Entries(i)) + 1
      /\ dir'[name[p]] = i /\ \A y \in Paths \ {name[p]} : dir'[y] = dir[y]
      /\ dir' \in [Paths -> 0..NINODES]
  <2>1. dir' = [dir EXCEPT ![name[p]] = i]
    BY ZenonT(30), <1>1, <1>4
  <2> QED
    BY ZenonT(30), <1>3, <1>5, <2>1, EntryAdd
<1>10. /\ LocksKept(p) /\ lock' \in [Slots -> Procs \cup {NoProc}]
       /\ lock'[ROOT] = NoProc /\ \A t \in Slots \ {ROOT} : lock'[t] = lock[t]
  <2>1. ROOT \in Slots /\ lock[ROOT] \in {p, NoProc} /\ valid \ {ROOT} \subseteq valid'
    BY ZenonT(30), <1>1, <1>3, Consts
  <2> QED
    BY ZenonT(30), <1>1, <2>1, LockChange
<1>11. <<"dp">> \in Lists /\ "inode" \in Places
  BY ZenonT(30) DEF Lists, Places
<1>12. /\ puts' \in [Procs -> Lists] /\ then' \in [Procs -> Places] /\ pc' \in [Procs -> Places]
       /\ pc'[p] = "put" /\ puts'[p] = <<"dp">> /\ then'[p] = "inode"
       /\ \A q \in Procs \ {p} : pc'[q] = pc[q] /\ puts'[q] = puts[q] /\ then'[q] = then[q]
       /\ InPut(p)' /\ ~Nested(p)' /\ ~HasPut(p)' /\ Looked(p)' /\ ~HasDir(p)'
  BY ZenonT(30), <1>1, <1>11, PutChange
<1>13. Others(p)
  BY ZenonT(30), <1>1, <1>12 DEF Others
<1>14. TypeOK' /\ RefsCounted'
  BY ZenonT(30), <1>1, <1>8, <1>9, <1>10, <1>12, RefsSame
     DEF Running, TypeOK, DiskTypes, CacheTypes, CallTypes, HolderTypes
<1>15. Shape(p)'
  <2>1. RunShape(p) /\ (call[p] \in {"open", "create"} => at[p]["file"] = 0)
    BY ZenonT(30), <1>1 DEF Running, ShapeInv, Shape
  <2>2. at[p]["dp"] = ROOT /\ at[p]["hit"] = 0 /\ at[p]["ip"] # 0
    BY ZenonT(30), <1>1, <2>1 DEF RunShape
  <2>3. PutShape(p)'
    BY ZenonT(30), <1>1, <1>12, <2>2 DEF PutShape
  <2> QED
    BY ZenonT(30), <1>1, <1>12, <2>1, <2>3 DEF Shape
<1>16. ~Extra(p)'
  BY ZenonT(30), <1>1 DEF Extra
<1>17. Locks(p)'
  BY ZenonT(30), <1>1, <1>3, <1>4, <1>7, <1>10, <1>12, <1>16 DEF Locks
<1>18. LinksRight(i)
  <2>1. Cardinality(Pending(i)') = Cardinality(Pending(i))
    BY ZenonT(30), <1>1, <1>2, <1>4, <1>7, <1>13, <1>16, PendingChange
  <2>2. disk[i].nlink = Cardinality(Entries(i)) + Cardinality(Pending(i))
    BY ZenonT(30), <1>4 DEF Running, LinkInv
  <2> QED
    BY <1>5, <1>8, <1>9, <2>1, <2>2, CountsFinite DEF LinksRight
<1>19. OneInode(s, i)
  BY ZenonT(30), <1>4, <1>8 DEF OneInode
<1>20. OneName(i) /\ DirKept(p)
  BY ZenonT(30), <1>3, <1>5, <1>6, <1>9 DEF OneName, DirKept
<1>21. OnlyRoot(p)
  BY ZenonT(30), <1>1 DEF OnlyRoot
<1> QED
  BY ZenonT(30), <1>1, <1>4, <1>7, <1>10, <1>12, <1>13, <1>14, <1>15, <1>17, <1>18, <1>19,
     <1>20, <1>21,
     LinksStep

(* sys_link() counts the link and goes for the directory of the new name. *)
LEMMA LinkCountStep ==
  ASSUME Running, NEW p \in Procs, LinkCount(p)
  PROVE  Running'
<1>0. CASE inode[at[p]["ip"]].type = "dir"
  BY ZenonT(30), <1>0, LinkDirStep
<1>1. ASSUME inode[at[p]["ip"]].type # "dir" PROVE Running'
  <2>1. /\ pc[p] = "inode" /\ ~InPut(p) /\ call[p] = "link"
        /\ SetLinks(at[p]["ip"], inode[at[p]["ip"]].nlink + 1)
        /\ lock' = [lock EXCEPT ![at[p]["ip"]] = NoProc] /\ EnterDir(p)
        /\ call' = [call EXCEPT ![p] = "relink"]
        /\ UNCHANGED <<dir, inum, valid, name, new, puts, then>>
    BY ZenonT(30), <1>1 DEF LinkCount, At, InPut, Unlock
  <2>2. RunShape(p) /\ ~Extra(p)
    BY ZenonT(30), <2>1 DEF Running, ShapeInv, Shape, Extra
  <2>3. at[p]["dp"] = 0 /\ at[p]["hit"] = 0 /\ then[p] = "user"
    BY ZenonT(30), <2>1, <2>2 DEF RunShape
  <2>4. PICK s \in Slots, i \in Inums :
          /\ s = at[p]["ip"] /\ i = inum[s] /\ s # 0 /\ ref[s] > 0 /\ lock[s] = p /\ s \in valid
          /\ inode[s] = disk[i] /\ disk[i].type # "free"
    BY ZenonT(30), <2>1, InodeLocked
  <2>5. i # ROOT
    BY <1>1, <2>4 DEF Running, RootInv
  <2>6. disk[i].nlink \in Nat /\ disk[i].nlink + 1 \in Nat
    <3>1. disk[i] \in Inodes
      BY ZenonT(30) DEF Running, TypeOK, DiskTypes
    <3> QED
      BY <3>1 DEF Inodes
  <2>7. /\ inode' \in [Slots -> Inodes] /\ disk' \in [Inums -> Inodes]
        /\ inode'[s] = disk'[i] /\ disk'[i].nlink = disk[i].nlink + 1
        /\ disk'[i].type = disk[i].type
        /\ \A t \in Slots \ {s} : inode'[t] = inode[t]
        /\ \A j \in Inums \ {i} : disk'[j] = disk[j]
    <3>1. SetLinks(s, disk[i].nlink + 1)
      BY ZenonT(30), <2>1, <2>4
    <3> QED
      BY ZenonT(30), <2>4, <2>6, <3>1, SetLinksFact
  <2>8. /\ RefsCounted' /\ ref' \in [Slots -> Nat] /\ HolderTypes'
        /\ \A t \in Slots : ref'[t] > 0 => ref[t] > 0
        /\ at'[p]["dp"] = ROOT
        /\ \A h \in Holders \ {"dp"} : at'[p][h] = at[p][h]
        /\ \A q \in Procs \ {p} : at'[q] = at[q] /\ pc'[q] = pc[q]
        /\ pc' \in [Procs -> Places] /\ pc'[p] = "dir"
    BY ZenonT(30), <2>1, <2>3, EnterDirFact
  <2>9. at'[p]["ip"] = s /\ at'[p]["hit"] = 0
    BY ZenonT(30), <2>3, <2>4, <2>8 DEF Holders
  <2>10. /\ call' \in [Procs -> Calls] /\ call'[p] = "relink"
         /\ \A q \in Procs \ {p} : call'[q] = call[q]
    BY ZenonT(30), <2>1 DEF Running, TypeOK, CallTypes, Calls
  <2>11. Others(p)
    BY ZenonT(30), <2>1, <2>8, <2>10 DEF Others
  <2>12. /\ LocksKept(p) /\ lock' \in [Slots -> Procs \cup {NoProc}]
    <3>1. lock[s] \in {p, NoProc} /\ valid \ {s} \subseteq valid'
          /\ lock' = [lock EXCEPT ![s] = NoProc]
      BY ZenonT(30), <2>1, <2>4
    <3> QED
      BY ZenonT(30), <3>1, LockChange
  <2>13. TypeOK'
    BY ZenonT(30), <2>1, <2>7, <2>8, <2>10, <2>12 DEF Running, TypeOK, DiskTypes, CacheTypes,
       CallTypes
  <2>14. ~InPut(p)' /\ ~Nested(p)' /\ ~HasDir(p)' /\ ~HasInode(p)' /\ ~HasPut(p)' /\ Extra(p)'
    BY ZenonT(30), <2>8, <2>10 DEF InPut, Nested, Keeps, HasDir, HasInode, HasPut, Extra
  <2>15. Shape(p)'
    <3>1. RunShape(p)'
      BY ZenonT(30), <2>1, <2>3, <2>4, <2>8, <2>9, <2>10 DEF RunShape
    <3> QED
      BY ZenonT(30), <2>10, <2>14, <3>1 DEF Shape
  <2>16. Locks(p)' /\ Looked(p)'
    BY ZenonT(30), <2>1, <2>4, <2>5, <2>9, <2>14 DEF Locks, Looked
  <2>17. LinksRight(i)
    <3>1. Cardinality(Pending(i)') = Cardinality(Pending(i)) + 1
      BY ZenonT(30), <2>1, <2>2, <2>4, <2>9, <2>11, <2>14, PendingChange
    <3>2. disk[i].nlink = Cardinality(Entries(i)) + Cardinality(Pending(i))
      BY ZenonT(30), <2>5 DEF Running, LinkInv
    <3>3. Entries(i)' = Entries(i)
      BY ZenonT(30), <2>1 DEF Entries
    <3> QED
      BY <2>7, <3>1, <3>2, <3>3, CountsFinite DEF LinksRight
  <2>18. OneInode(s, i)
    BY ZenonT(30), <2>4, <2>7 DEF OneInode
  <2>19. OneName(i) /\ DirKept(p)
    BY ZenonT(30), <2>1 DEF OneName, DirKept
  <2>20. OnlyRoot(p)
    BY ZenonT(30), <2>1, <2>8 DEF OnlyRoot
  <2> QED
    BY ZenonT(30), <2>1, <2>4, <2>5, <2>8, <2>9, <2>11, <2>12, <2>13, <2>15, <2>16, <2>17,
       <2>18, <2>19,
       <2>20, LinksStep
<1> QED
  BY ZenonT(30), <1>0, <1>1

(* A call goes on to iput(), after a change of the links of its inode. *)
LEMMA LinksPut ==
  ASSUME Running, NEW p \in Procs, NEW hs \in Lists, NEW loc \in Places, Put(p, hs, loc),
         loc # "unlockdir", pc[p] \notin {"freed", "drop"},
         UNCHANGED <<inum, ref, valid, call, name, new, at>>,
         disk' \in [Inums -> Inodes], dir' \in [Paths -> 0..NINODES],
         inode' \in [Slots -> Inodes], lock' \in [Slots -> Procs \cup {NoProc}], LocksKept(p),
         NEW s \in Slots, s = at[p]["ip"], ref[s] > 0, NEW i \in Inums, i # ROOT, i = inum[s],
         loc \in {"inode", "unlinked"} => lock'[s] = p /\ s \in valid,
         OneInode(s, i), OneName(i), DirKept(p), LinksRight(i),
         PutShape(p)', call[p] \in {"open", "create"} => at[p]["file"] = 0
  PROVE  Running'
<1>1. /\ puts' \in [Procs -> Lists] /\ then' \in [Procs -> Places] /\ pc' \in [Procs -> Places]
      /\ pc'[p] = "put" /\ puts'[p] = hs /\ then'[p] = loc
      /\ \A q \in Procs \ {p} : pc'[q] = pc[q] /\ puts'[q] = puts[q] /\ then'[q] = then[q]
      /\ InPut(p)' /\ ~Nested(p)' /\ ~HasPut(p)' /\ Looked(p)' /\ ~HasDir(p)'
      /\ HasInode(p)' <=> loc \in {"inode", "unlinked"}
  BY ZenonT(30), PutChange
<1>2. Others(p)
  BY ZenonT(30), <1>1 DEF Others
<1>3. TypeOK' /\ RefsCounted'
  BY ZenonT(30), <1>1, RefsSame DEF Running, TypeOK, DiskTypes, CacheTypes, CallTypes, HolderTypes
<1>4. Shape(p)'
  BY ZenonT(30), <1>1 DEF Shape
<1>5. Locks(p)'
  BY ZenonT(30), <1>1 DEF Locks
<1>6. OnlyRoot(p)
  BY ZenonT(30) DEF OnlyRoot
<1>7. s = at'[p]["ip"]
  BY ZenonT(30)
<1> QED
  BY ZenonT(30), <1>1, <1>2, <1>3, <1>4, <1>5, <1>6, <1>7, LinksStep

(* dirlink() of the new name. *)
LEMMA LinkDoneStep ==
  ASSUME Running, NEW p \in Procs, LinkDone(p)
  PROVE  Running'
<1>1. /\ pc[p] = "indir" /\ ~InPut(p) /\ call[p] = "relink" /\ dir[new[p]] = 0
      /\ dir' = [dir EXCEPT ![new[p]] = inum[at[p]["ip"]]]
      /\ lock' = [lock EXCEPT ![ROOT] = NoProc] /\ Put(p, <<"dp", "ip">>, "user")
      /\ UNCHANGED <<inum, ref, valid, call, name, new, at>> /\ UNCHANGED <<disk, inode>>
  BY ZenonT(30) DEF LinkDone, At, InPut, Unlock, args, icache
<1>2. Extra(p) /\ HasDir(p) /\ RunShape(p) /\ new[p] \in Paths
  BY ZenonT(30), <1>1 DEF Extra, HasDir, Running, ShapeInv, Shape, TypeOK, CallTypes
<1>3. lock[ROOT] = p /\ inum[at[p]["ip"]] # ROOT
  BY ZenonT(30), <1>2 DEF Running, LockInv, Locks
<1>4. at[p]["dp"] = ROOT /\ at[p]["hit"] = 0 /\ at[p]["ip"] # 0
  BY ZenonT(30), <1>1, <1>2 DEF RunShape
<1>5. PICK s \in Slots, i \in Inums : s = at[p]["ip"] /\ i = inum[s] /\ ref[s] > 0 /\ i # ROOT
  BY ZenonT(30), <1>3, <1>4, IpFact
<1>6. disk[i].type # "free"
  <2>1. ~Dropping(p, "ip") /\ "ip" \in Holders
    BY ZenonT(30), <1>1 DEF Dropping, Holders
  <2> QED
    BY ZenonT(30), <1>4, <1>5, <2>1 DEF Running, HeldLive
<1>7. new[p] # Dot
  BY ZenonT(30), <1>1, Consts DEF Running, RootInv
<1>8. /\ Cardinality(Entries(i)') = Cardinality(Entries(i)) + 1
      /\ dir'[new[p]] = i /\ \A y \in Paths \ {new[p]} : dir'[y] = dir[y]
      /\ dir' \in [Paths -> 0..NINODES]
  <2>1. dir' = [dir EXCEPT ![new[p]] = i]
    BY ZenonT(30), <1>1, <1>5
  <2> QED
    BY ZenonT(30), <1>1, <1>2, <2>1, EntryAdd
<1>9. LocksKept(p) /\ lock' \in [Slots -> Procs \cup {NoProc}]
  <2>1. ROOT \in Slots /\ lock[ROOT] \in {p, NoProc} /\ valid \ {ROOT} \subseteq valid'
    BY ZenonT(30), <1>1, <1>3, Consts
  <2> QED
    BY ZenonT(30), <1>1, <2>1, LockChange
<1>10. <<"dp", "ip">> \in Lists /\ "user" \in Places
  BY ZenonT(30) DEF Lists, Places
<1>11. /\ puts'[p] = <<"dp", "ip">> /\ then'[p] = "user" /\ InPut(p)'
       /\ \A q \in Procs \ {p} : pc'[q] = pc[q] /\ puts'[q] = puts[q] /\ then'[q] = then[q]
  BY ZenonT(30), <1>1, <1>10, PutChange
<1>12. PutShape(p)'
  BY ZenonT(30), <1>1, <1>4, <1>11 DEF PutShape
<1>13. Others(p) /\ ~Extra(p)'
  BY ZenonT(30), <1>1, <1>11 DEF Others, Extra
<1>14. LinksRight(i)
  <2>1. /\ Cardinality(Pending(i)) = Cardinality(Pending(i)') + 1
        /\ Cardinality(Pending(i)') \in Nat
    BY ZenonT(30), <1>1, <1>2, <1>5, <1>13, PendingChange
  <2>2. disk[i].nlink = Cardinality(Entries(i)) + Cardinality(Pending(i))
    BY ZenonT(30), <1>5 DEF Running, LinkInv
  <2> QED
    <3>1. Cardinality(Entries(i)) \in Nat /\ disk'[i].nlink = disk[i].nlink
      BY ZenonT(30), <1>1, CountsFinite
    <3> QED
      BY <1>8, <2>1, <2>2, <3>1 DEF LinksRight
<1>15. OneInode(s, i)
  BY ZenonT(30), <1>1, <1>6 DEF OneInode
<1>16. OneName(i) /\ DirKept(p)
  BY ZenonT(30), <1>1, <1>3, <1>7, <1>8 DEF OneName, DirKept
<1>17. disk' \in [Inums -> Inodes] /\ inode' \in [Slots -> Inodes]
  BY ZenonT(30), <1>1 DEF Running, TypeOK, DiskTypes, CacheTypes
<1>18. pc[p] \notin {"freed", "drop"} /\ call[p] \notin {"open", "create"}
  BY ZenonT(30), <1>1
<1>19. "user" # "unlockdir" /\ "user" \notin {"inode", "unlinked"}
  BY ZenonT(30)
<1> QED
  BY ZenonT(30), <1>1, <1>5, <1>8, <1>9, <1>10, <1>12, <1>14, <1>15, <1>16, <1>17, <1>18, <1>19,
     LinksPut

(* A call that has its inode locked takes back a link of it, and drops it. *)
LEMMA LinkBackStep ==
  ASSUME Running, NEW p \in Procs, pc[p] \in {"inode", "unlinked"}, Extra(p), at[p]["dp"] = 0,
         at[p]["hit"] = 0, call[p] \in {"undo", "unlink"},
         SetLinks(at[p]["ip"], inode[at[p]["ip"]].nlink - 1), Unlock(at[p]["ip"]),
         Put(p, <<"ip">>, "user"),
         UNCHANGED <<inum, ref, valid, call, name, new, at>>, dir' = dir
  PROVE  Running'
<1>1. PICK s \in Slots, i \in Inums :
        /\ s = at[p]["ip"] /\ i = inum[s] /\ s # 0 /\ ref[s] > 0 /\ lock[s] = p
        /\ inode[s] = disk[i] /\ disk[i].type # "free"
  BY ZenonT(30), InodeLocked
<1>2. i # ROOT
  BY ZenonT(30), <1>1 DEF Running, LockInv, Locks
<1>3. disk[i].nlink = Cardinality(Entries(i)) + Cardinality(Pending(i))
  BY ZenonT(30), <1>2 DEF Running, LinkInv
<1>4. <<"ip">> \in Lists /\ "user" \in Places
  BY ZenonT(30) DEF Lists, Places
<1>5. /\ puts'[p] = <<"ip">> /\ then'[p] = "user" /\ InPut(p)' /\ pc'[p] = "put"
      /\ \A q \in Procs \ {p} : pc'[q] = pc[q] /\ puts'[q] = puts[q] /\ then'[q] = then[q]
  BY ZenonT(30), <1>4, PutChange
<1>6. Others(p) /\ ~Extra(p)'
  BY ZenonT(30), <1>5 DEF Others, Extra
<1>7. Cardinality(Pending(i)) = Cardinality(Pending(i)') + 1 /\ Cardinality(Pending(i)') \in Nat
  BY ZenonT(30), <1>1, <1>6, PendingChange
<1>8. disk[i].nlink - 1 \in Nat
      /\ disk[i].nlink - 1 = Cardinality(Entries(i)) + Cardinality(Pending(i)')
  BY <1>3, <1>7, CountsFinite
<1>9. /\ inode' \in [Slots -> Inodes] /\ disk' \in [Inums -> Inodes]
      /\ inode'[s] = disk'[i] /\ disk'[i].nlink = disk[i].nlink - 1
      /\ disk'[i].type = disk[i].type
      /\ \A t \in Slots \ {s} : inode'[t] = inode[t]
      /\ \A j \in Inums \ {i} : disk'[j] = disk[j]
  <2>1. SetLinks(s, disk[i].nlink - 1)
    BY ZenonT(30), <1>1
  <2> QED
    BY ZenonT(30), <1>1, <1>8, <2>1, SetLinksFact
<1>10. LocksKept(p) /\ lock' \in [Slots -> Procs \cup {NoProc}]
  <2>1. lock[s] \in {p, NoProc} /\ valid \ {s} \subseteq valid'
        /\ lock' = [lock EXCEPT ![s] = NoProc]
    BY ZenonT(30), <1>1 DEF Unlock
  <2> QED
    BY ZenonT(30), <2>1, LockChange
<1>11. PutShape(p)'
  BY ZenonT(30), <1>1, <1>5 DEF PutShape
<1>12. LinksRight(i)
  <2>1. Entries(i)' = Entries(i)
    BY ZenonT(30) DEF Entries
  <2> QED
    BY ZenonT(30), <1>8, <1>9, <2>1 DEF LinksRight
<1>13. OneInode(s, i)
  BY ZenonT(30), <1>1, <1>9 DEF OneInode
<1>14. OneName(i) /\ DirKept(p)
  BY ZenonT(30) DEF OneName, DirKept
<1>15. dir' \in [Paths -> 0..NINODES] /\ pc[p] \notin {"freed", "drop"}
  BY ZenonT(30) DEF Running, TypeOK, DiskTypes
<1> QED
  BY ZenonT(30), <1>1, <1>2, <1>4, <1>9, <1>10, <1>11, <1>12, <1>13, <1>14, <1>15, LinksPut

(* sys_link() could not make the entry. *)
LEMMA LinkUndoStep ==
  ASSUME Running, NEW p \in Procs, LinkUndo(p)
  PROVE  Running'
<1>1. /\ pc[p] = "inode" /\ ~InPut(p) /\ call[p] = "undo"
      /\ SetLinks(at[p]["ip"], inode[at[p]["ip"]].nlink - 1) /\ Unlock(at[p]["ip"])
      /\ Put(p, <<"ip">>, "user")
      /\ UNCHANGED <<inum, ref, valid, call, name, new, at>> /\ dir' = dir
  BY ZenonT(30) DEF LinkUndo, At, InPut, args
<1>2. RunShape(p) /\ Extra(p)
  BY ZenonT(30), <1>1 DEF Running, ShapeInv, Shape, Extra
<1>3. at[p]["dp"] = 0 /\ at[p]["hit"] = 0
  BY ZenonT(30), <1>1, <1>2 DEF RunShape
<1> QED
  BY ZenonT(30), <1>1, <1>2, <1>3, LinkBackStep

(* sys_unlink() has cleared the entry. *)
LEMMA UnlinkCountStep ==
  ASSUME Running, NEW p \in Procs, UnlinkCount(p)
  PROVE  Running'
<1>1. /\ pc[p] = "unlinked" /\ ~InPut(p)
      /\ SetLinks(at[p]["ip"], inode[at[p]["ip"]].nlink - 1) /\ Unlock(at[p]["ip"])
      /\ Put(p, <<"ip">>, "user")
      /\ UNCHANGED <<inum, ref, valid, call, name, new, at>> /\ dir' = dir
  BY ZenonT(30) DEF UnlinkCount, At, InPut, args
<1>2. RunShape(p)
  BY ZenonT(30), <1>1 DEF Running, ShapeInv, Shape
<1>3. at[p]["dp"] = 0 /\ at[p]["hit"] = 0 /\ call[p] = "unlink"
  BY ZenonT(30), <1>1, <1>2 DEF RunShape
<1>4. Extra(p)
  BY ZenonT(30), <1>1, <1>3 DEF Extra
<1> QED
  BY ZenonT(30), <1>1, <1>3, <1>4, LinkBackStep

(* sys_unlink() clears the entry: the count cannot be 0, for the entry is   *)
(* there as long as the directory is locked.                                *)
LEMMA UnlinkEntryStep ==
  ASSUME Running, NEW p \in Procs, UnlinkEntry(p)
  PROVE  Running' /\ panic' = panic
<1>1. /\ pc[p] = "inode" /\ ~InPut(p) /\ call[p] = "unlink"
      /\ UNCHANGED <<inum, ref, valid, call, name, new, at>> /\ UNCHANGED <<disk, inode>>
  BY ZenonT(30) DEF UnlinkEntry, At, InPut, args, icache
<1>2. RunShape(p)
  BY ZenonT(30), <1>1 DEF Running, ShapeInv, Shape
<1>3. at[p]["dp"] = ROOT /\ at[p]["hit"] = 0 /\ then[p] = "user"
  BY ZenonT(30), <1>1, <1>2 DEF RunShape
<1>4. Nested(p) /\ HasDir(p) /\ ~Extra(p)
  BY ZenonT(30), <1>1, <1>3, Consts DEF Nested, HasDir, Extra
<1>5. /\ lock[ROOT] = p /\ inum[at[p]["ip"]] # ROOT /\ name[p] \in Paths
      /\ name[p] # Dot /\ dir[name[p]] = inum[at[p]["ip"]]
  BY ZenonT(30), <1>1, <1>4 DEF Running, LockInv, Locks, LookedInv, Looked, TypeOK, CallTypes
<1>6. PICK s \in Slots, i \in Inums :
        /\ s = at[p]["ip"] /\ i = inum[s] /\ s # 0 /\ ref[s] > 0 /\ lock[s] = p /\ s \in valid
        /\ inode[s] = disk[i] /\ disk[i].type # "free" /\ i # ROOT /\ s # ROOT
  <2>1. /\ at[p]["ip"] \in Slots /\ inum[at[p]["ip"]] \in Inums /\ at[p]["ip"] # 0
        /\ ref[at[p]["ip"]] > 0 /\ lock[at[p]["ip"]] = p /\ at[p]["ip"] \in valid
        /\ inode[at[p]["ip"]] = disk[inum[at[p]["ip"]]]
        /\ disk[inum[at[p]["ip"]]].type # "free" /\ at[p]["ip"] # ROOT
    BY ZenonT(30), <1>1, <1>5, InodeLocked
  <2> QED
    BY ZenonT(30), <1>5, <2>1
<1>7. disk[i].nlink = Cardinality(Entries(i)) + Cardinality(Pending(i))
  BY ZenonT(30), <1>6 DEF Running, LinkInv
<1>8. ~(inode[s].nlink < 1)
  <2>1. Entries(i) # {}
    BY ZenonT(30), <1>5, <1>6 DEF Entries
  <2>2. disk[i].nlink \in Nat /\ disk[i].nlink # 0
    BY ZenonT(30), <1>6, <2>1, NoLinks
  <2> QED
    BY <1>6, <2>2
<1>9. /\ dir' = [dir EXCEPT ![name[p]] = 0] /\ lock' = [lock EXCEPT ![ROOT] = NoProc]
      /\ Put(p, <<"dp">>, "unlinked") /\ panic' = panic
  BY ZenonT(30), <1>6, <1>8 DEF UnlinkEntry, Unlock
<1>10. /\ Cardinality(Entries(i)) = Cardinality(Entries(i)') + 1
       /\ Cardinality(Entries(i)') \in Nat
       /\ dir'[name[p]] = 0 /\ \A y \in Paths \ {name[p]} : dir'[y] = dir[y]
       /\ dir' \in [Paths -> 0..NINODES]
  <2>1. dir[name[p]] = i
    BY ZenonT(30), <1>5, <1>6
  <2> QED
    BY ZenonT(30), <1>5, <1>9, <2>1, EntryDrop
<1>11. /\ LocksKept(p) /\ lock' \in [Slots -> Procs \cup {NoProc}]
       /\ \A t \in Slots \ {ROOT} : lock'[t] = lock[t]
  <2>1. ROOT \in Slots /\ lock[ROOT] \in {p, NoProc} /\ valid \ {ROOT} \subseteq valid'
    BY ZenonT(30), <1>1, <1>5, Consts
  <2> QED
    BY ZenonT(30), <1>9, <2>1, LockChange
<1>12. <<"dp">> \in Lists /\ "unlinked" \in Places
  BY ZenonT(30) DEF Lists, Places
<1>13. /\ puts'[p] = <<"dp">> /\ then'[p] = "unlinked" /\ InPut(p)'
       /\ \A q \in Procs \ {p} : pc'[q] = pc[q] /\ puts'[q] = puts[q] /\ then'[q] = then[q]
  BY ZenonT(30), <1>9, <1>12, PutChange
<1>14. PutShape(p)'
  BY ZenonT(30), <1>1, <1>3, <1>6, <1>13 DEF PutShape
<1>15. Others(p) /\ Extra(p)'
  BY ZenonT(30), <1>1, <1>13 DEF Others, Extra
<1>16. LinksRight(i)
  <2>1. Cardinality(Pending(i)') = Cardinality(Pending(i)) + 1
    BY ZenonT(30), <1>1, <1>4, <1>6, <1>15, PendingChange
  <2>2. Cardinality(Pending(i)) \in Nat /\ disk'[i].nlink = disk[i].nlink
    BY ZenonT(30), <1>1, CountsFinite
  <2> QED
    BY <1>7, <1>10, <2>1, <2>2 DEF LinksRight
<1>17. OneInode(s, i)
  BY ZenonT(30), <1>1, <1>6 DEF OneInode
<1>18. OneName(i) /\ DirKept(p)
  BY ZenonT(30), <1>5, <1>6, <1>10 DEF OneName, DirKept
<1>19. disk' \in [Inums -> Inodes] /\ inode' \in [Slots -> Inodes]
  BY ZenonT(30), <1>1 DEF Running, TypeOK, DiskTypes, CacheTypes
<1>20. lock'[s] = p
  BY ZenonT(30), <1>6, <1>11
<1> QED
  BY ZenonT(30), <1>1, <1>6, <1>9, <1>10, <1>11, <1>12, <1>14, <1>16, <1>17, <1>18, <1>19, <1>20, LinksPut

-----------------------------------------------------------------------------
(* The theorems *)

(* The invariant of a kernel that has not panicked.                        *)
LEMMA RunningInv == Running /\ panic = "none" => IInv
  BY ZenonT(30), RunningSafe DEF IInv, Running

(* The same, after a step.                                                 *)
LEMMA RunningInvNext == (Running /\ panic = "none")' => IInv'
  BY RunningInv, PTL

(* The file system at boot. *)
LEMMA InitIInv == Init => IInv
<1> SUFFICES ASSUME Init PROVE IInv
  BY ZenonT(30)
<1> DEFINE root == [type |-> "dir", nlink |-> 1]
           none == [type |-> "free", nlink |-> 0]
<1>1. /\ disk = [i \in Inums |-> IF i = ROOT THEN root ELSE none]
      /\ dir = [x \in Paths |-> IF x = Dot THEN ROOT ELSE 0]
      /\ inum = [s \in Slots |-> ROOT]
      /\ ref = [s \in Slots |-> IF s = ROOT THEN Cardinality(Procs) ELSE 0]
      /\ valid = {ROOT}
      /\ inode = [s \in Slots |-> IF s = ROOT THEN root ELSE none]
      /\ lock = [s \in Slots |-> NoProc]
  BY ZenonT(30) DEF Init
<1>2. /\ pc = [p \in Procs |-> "user"] /\ call = [p \in Procs |-> "none"]
      /\ name = [p \in Procs |-> Dot] /\ new = [p \in Procs |-> Dot]
      /\ at = [p \in Procs |-> [h \in Holders |-> 0]]
      /\ puts = [p \in Procs |-> <<>>] /\ then = [p \in Procs |-> "user"] /\ panic = "none"
  BY ZenonT(30) DEF Init
<1>3. root \in Inodes /\ none \in Inodes /\ root.nlink = 1 /\ root.type = "dir"
      /\ none.type = "free" /\ none.nlink = 0
  BY ZenonT(30) DEF Inodes
<1>4. \A p \in Procs : /\ pc[p] = "user" /\ call[p] = "none" /\ then[p] = "user"
                       /\ \A h \in Holders : at[p][h] = 0
                       /\ ~InPut(p) /\ ~Nested(p) /\ ~Keeps(p) /\ ~Extra(p)
                       /\ ~HasDir(p) /\ ~HasInode(p) /\ ~HasPut(p)
  BY ZenonT(30), <1>2 DEF InPut, Nested, Keeps, Extra, HasDir, HasInode, HasPut
<1> HIDE DEF root, none
<1>5. TypeOK
  <2>1. DiskTypes
    BY ZenonT(30), <1>1, <1>3, Consts DEF DiskTypes
  <2>2. CacheTypes
    <3>1. Cardinality(Procs) \in Nat
      BY ZenonT(30), RefsFinite
    <3> QED
      BY ZenonT(30), <1>1, <1>3, <3>1, Consts DEF CacheTypes
  <2>3. CallTypes
    BY ZenonT(30), <1>2, Consts DEF CallTypes, Places, Calls, Lists
  <2>4. HolderTypes
    BY ZenonT(30), <1>2, Consts DEF HolderTypes
  <2> QED
    BY ZenonT(30), <2>1, <2>2, <2>3, <2>4 DEF TypeOK
<1>6. RefsCounted
  <2> SUFFICES ASSUME NEW s \in Slots
               PROVE  ref[s] = Cardinality({x \in Procs \X Holders : at[x[1]][x[2]] = s})
                               + (IF s = ROOT THEN Cardinality(Procs) ELSE 0)
    BY ZenonT(30) DEF RefsCounted
  <2>1. {x \in Procs \X Holders : at[x[1]][x[2]] = s} = {}
    BY ZenonT(30), <1>4, Consts
  <2>2. Cardinality({}) = 0 /\ Cardinality(Procs) \in Nat
    BY ZenonT(30), FS_EmptySet, RefsFinite
  <2>3. ref[s] = IF s = ROOT THEN Cardinality(Procs) ELSE 0
    BY ZenonT(30), <1>1
  <2> QED
    BY <2>1, <2>2, <2>3
<1>7. Unique
  BY <1>1 DEF Unique
<1>8. ASSUME NEW p \in Procs PROVE Shape(p)
  BY ZenonT(30), <1>4, Consts DEF Shape, RunShape, Holders
<1>9. ASSUME NEW p \in Procs PROVE Locks(p) /\ Looked(p)
  BY ZenonT(30), <1>4 DEF Locks, Looked
<1>10. HeldLive
  BY ZenonT(30), <1>4 DEF HeldLive
<1>11. ValidInv
  BY ZenonT(30), <1>1, <1>3, Consts DEF ValidInv
<1>12. RootInv /\ DirLive
  <2>1. disk[ROOT] = root /\ inum[ROOT] = ROOT
    BY ZenonT(30), <1>1, Consts
  <2>2. \A x \in Paths : dir[x] = IF x = Dot THEN ROOT ELSE 0
    BY ZenonT(30), <1>1
  <2>3. \A x \in Paths : dir[x] = ROOT <=> x = Dot
    BY ZenonT(30), <2>2, Consts
  <2>4. DirLive
    BY ZenonT(30), <1>3, <2>1, <2>2 DEF DirLive
  <2> QED
    BY ZenonT(30), <2>1, <2>3, <2>4 DEF RootInv, root
<1>13. LinkInv
  <2> SUFFICES ASSUME NEW i \in Inums \ {ROOT}
               PROVE  disk[i].nlink = Cardinality(Entries(i)) + Cardinality(Pending(i))
    BY ZenonT(30) DEF LinkInv
  <2>1. Entries(i) = {} /\ Pending(i) = {}
    BY ZenonT(30), <1>1, <1>4, Consts DEF Entries, Pending
  <2>2. disk[i].nlink = 0
    BY ZenonT(30), <1>1, <1>3
  <2> QED
    BY <2>1, <2>2, FS_EmptySet
<1> QED
  BY ZenonT(30), <1>2, <1>5, <1>6, <1>7, <1>8, <1>9, <1>10, <1>11, <1>12, <1>13, RunningInv
     DEF Running, ShapeInv, LockInv, LookedInv

(* A step of the open, create, link, unlink and close calls. *)
LEMMA SysCallIInv ==
  ASSUME IInv, NEW p \in Procs, SysCall(p)
  PROVE  IInv'
<1>1. panic = "none" /\ panic' = panic
  BY ZenonT(30) DEF SysCall, Start, Close, At
<1>2. Running
  BY ZenonT(30), <1>1 DEF IInv
<1>3. ASSUME NEW c \in {"open", "create", "unlink"}, NEW x \in Paths, Start(p, c, x, x)
      PROVE  Running'
  BY ZenonT(30), <1>2, <1>3, StartStep
<1>4. ASSUME NEW x \in Paths, NEW y \in Paths, Start(p, "link", x, y) PROVE Running'
  BY ZenonT(30), <1>2, <1>4, StartStep
<1>5. ASSUME Close(p) PROVE Running'
  BY ZenonT(30), <1>2, <1>5, CloseStep
<1>6. Running'
  BY ZenonT(30), <1>3, <1>4, <1>5 DEF SysCall
<1> QED
  BY ZenonT(30), <1>1, <1>6, RunningInvNext

(* A step of iput(). *)
LEMMA InIputIInv ==
  ASSUME IInv, NEW p \in Procs, InIput(p)
  PROVE  IInv'
<1>1. panic = "none" /\ panic' = panic
  BY ZenonT(30) DEF InIput, PutLock, PutTest, PutFreed, PutDrop, At
<1>2. Running
  BY ZenonT(30), <1>1 DEF IInv
<1>3. Running'
  BY ZenonT(30), <1>2, PutLockStep, PutTestStep, PutFreedStep, PutDropStep DEF InIput
<1> QED
  BY ZenonT(30), <1>1, <1>3, RunningInvNext

(* A step of a call with the directory or its inode. *)
LEMMA InCallIInv ==
  ASSUME IInv, NEW p \in Procs, InCall(p)
  PROVE  IInv'
<1>1. panic = "none"
  BY ZenonT(30) DEF InCall, LockDir, LookupFail, LookupFound, LockInode, CreateNew, CreateLink, OpenDone,
         OpenFail, LinkCount, LinkDone, LinkTaken, LinkUnlockDir, LinkUndo, UnlinkFound,
         UnlinkEntry, UnlinkCount, At
<1>2. Running
  BY ZenonT(30), <1>1 DEF IInv
<1>3. ASSUME LockDir(p) \/ LookupFail(p) \/ OpenDone(p) \/ OpenFail(p) \/ LinkUnlockDir(p)
      PROVE  IInv'
  <2>1. panic' = panic
    BY ZenonT(30), <1>3 DEF LockDir, LookupFail, OpenDone, OpenFail, LinkUnlockDir
  <2>2. Running'
    BY ZenonT(30), <1>2, <1>3, LockDirStep, LookupFailStep, OpenDoneStep, OpenFailStep, LinkUnlockDirStep
  <2> QED
    BY ZenonT(30), <1>1, <2>1, <2>2, RunningInvNext
<1>4. ASSUME CreateLink(p) \/ LinkCount(p) \/ LinkDone(p) \/ LinkUndo(p) \/ UnlinkCount(p)
      PROVE  IInv'
  <2>1. panic' = panic
    BY ZenonT(30), <1>4 DEF CreateLink, LinkCount, LinkDone, LinkUndo, UnlinkCount
  <2>2. Running'
    BY ZenonT(30), <1>2, <1>4, CreateLinkStep, LinkCountStep, LinkDoneStep, LinkUndoStep, UnlinkCountStep
  <2> QED
    BY ZenonT(30), <1>1, <2>1, <2>2, RunningInvNext
<1>5. ASSUME LookupFound(p) \/ LinkTaken(p) \/ UnlinkFound(p) \/ CreateNew(p)
      PROVE  IInv'
  <2>1. IInv' \/ (Running' /\ panic' = "none")
    BY ZenonT(30), <1>1, <1>2, <1>5, LookupFoundStep, LinkTakenStep, UnlinkFoundStep, CreateNewStep
  <2> QED
    BY ZenonT(30), <2>1, RunningInvNext
<1>6. ASSUME LockInode(p) \/ UnlinkEntry(p)
      PROVE  IInv'
  <2>1. Running' /\ panic' = "none"
    BY ZenonT(30), <1>1, <1>2, <1>6, LockInodeStep, UnlinkEntryStep
  <2> QED
    BY ZenonT(30), <2>1, RunningInvNext
<1> QED
  BY ZenonT(30), <1>3, <1>4, <1>5, <1>6 DEF InCall

(* Nothing happens. *)
LEMMA StutterIInv ==
  ASSUME IInv, UNCHANGED vars
  PROVE  IInv'
<1>1. /\ UNCHANGED <<disk, dir, inum, ref, valid, inode, lock>>
      /\ UNCHANGED <<pc, call, name, new, at, puts, then, panic>>
  BY ZenonT(30) DEF vars
<1>2. RefsCounted' /\ CacheCoherent' /\ NotFreedInUse'
  BY ZenonT(30), <1>1 DEF IInv, RefsCounted, CacheCoherent, NotFreedInUse
<1>3. ASSUME Running PROVE Running'
  <2>1. \A p \in Procs : /\ Others(p) /\ LocksKept(p)
    BY ZenonT(30), <1>1 DEF Others, LocksKept
  <2>2. TypeOK' /\ RefsCounted' /\ Unique'
    BY ZenonT(30), <1>1, <1>2, <1>3 DEF Running, TypeOK, DiskTypes, CacheTypes, CallTypes, HolderTypes, Unique
  <2>3. ASSUME NEW p \in Procs PROVE /\ InPut(p)' <=> InPut(p)
                                     /\ Nested(p)' <=> Nested(p)
                                     /\ Keeps(p)' <=> Keeps(p)
                                     /\ HasDir(p)' <=> HasDir(p)
                                     /\ HasInode(p)' <=> HasInode(p)
                                     /\ HasPut(p)' <=> HasPut(p)
                                     /\ Extra(p)' <=> Extra(p)
                                     /\ Putting(p)' = Putting(p)
    BY ZenonT(30), <1>1 DEF InPut, Nested, Keeps, HasDir, HasInode, HasPut, Extra, Putting
  <2>4. \A p \in Procs, h \in Holders : Dropping(p, h)' <=> Dropping(p, h)
    BY ZenonT(30), <1>1 DEF Dropping
  <2>5. ASSUME NEW p \in Procs PROVE Shape(p)'
    <3>1. (PutShape(p)' <=> PutShape(p)) /\ (RunShape(p)' <=> RunShape(p))
      BY ZenonT(30), <1>1 DEF PutShape, RunShape
    <3>2. Shape(p)
      BY ZenonT(30), <1>3 DEF Running, ShapeInv
    <3> QED
      BY ZenonT(30), <1>1, <2>3, <3>1, <3>2 DEF Shape
  <2>6. ASSUME NEW p \in Procs PROVE Locks(p)'
    <3>1. Locks(p)
      BY ZenonT(30), <1>3 DEF Running, LockInv
    <3> QED
      BY ZenonT(30), <1>1, <2>3, <3>1 DEF Locks
  <2>7. ASSUME NEW p \in Procs PROVE Looked(p)'
    <3>1. Looked(p)
      BY ZenonT(30), <1>3 DEF Running, LookedInv
    <3>2. Fresh(p)' <=> Fresh(p)
      BY ZenonT(30), <1>1, <2>4 DEF Fresh
    <3> QED
      BY ZenonT(30), <1>1, <2>3, <3>1, <3>2 DEF Looked
  <2>8. HeldLive'
    BY ZenonT(30), <1>1, <1>3, <2>4 DEF Running, HeldLive
  <2>9. ValidInv'
    <3>1. \A s \in Slots : Freeing(s)' <=> Freeing(s)
      BY ZenonT(30), <1>1, <2>3 DEF Freeing
    <3>2. valid \subseteq Slots
      BY ZenonT(30), <1>3 DEF Running, TypeOK, CacheTypes
    <3> QED
      BY ZenonT(30), <1>1, <1>3, <3>1, <3>2 DEF Running, ValidInv
  <2>10. RootInv' /\ DirLive'
    BY ZenonT(30), <1>1, <1>3 DEF Running, RootInv, DirLive
  <2>11. LinkInv'
    <3>1. \A i \in Inums : Entries(i)' = Entries(i) /\ Pending(i)' = Pending(i)
      BY ZenonT(30), <1>1, <2>3 DEF Entries, Pending
    <3> QED
      BY ZenonT(30), <1>1, <1>3, <3>1 DEF Running, LinkInv
  <2> QED
    BY ZenonT(30), <2>2, <2>5, <2>6, <2>7, <2>8, <2>9, <2>10, <2>11
       DEF Running, ShapeInv, LockInv, LookedInv
<1> QED
  BY ZenonT(30), <1>1, <1>2, <1>3 DEF IInv

(* The invariant is inductive. *)
LEMMA NextIInv == IInv /\ [Next]_vars => IInv'
<1>1. ASSUME IInv, NEW p \in Procs, SysCall(p) \/ InIput(p) \/ InCall(p) PROVE IInv'
  BY ZenonT(30), <1>1, SysCallIInv, InIputIInv, InCallIInv
<1> QED
  BY ZenonT(30), <1>1, StutterIInv DEF Next

(* The inode cache never leaves the invariant, whatever the calls and       *)
(* however their steps interleave.                                          *)
THEOREM Invariance == Spec => []IInv
<1>1. Init => IInv
  BY ZenonT(30), InitIInv
<1>2. IInv /\ [Next]_vars => IInv'
  BY ZenonT(30), NextIInv
<1> QED
  BY <1>1, <1>2, PTL DEF Spec

(* ip->ref counts the references of calls, open files and directories.      *)
THEOREM RefsCountedHolds == Spec => []RefsCounted
<1>1. IInv => RefsCounted
  BY ZenonT(30) DEF IInv
<1> QED
  BY <1>1, Invariance, PTL

(* iget() never makes a second entry for an inode in use, and iupdate()     *)
(* writes every change through to the disk before the inode is unlocked.    *)
THEOREM CacheCoherentHolds == Spec => []CacheCoherent
<1>1. IInv => CacheCoherent
  BY ZenonT(30) DEF IInv
<1> QED
  BY <1>1, Invariance, PTL

(* iput() frees no inode that is open or has an entry, and neither ilock()  *)
(* nor sys_unlink() panics.                                                 *)
THEOREM NotFreedInUseHolds == Spec => []NotFreedInUse
<1>1. IInv => NotFreedInUse
  BY ZenonT(30) DEF IInv
<1> QED
  BY <1>1, Invariance, PTL

(* Between calls, ip->nlink is the number of entries that name the inode.   *)
THEOREM LinksCountedHolds == Spec => []LinksCounted
<1>1. IInv => LinksCounted
  <2>1. CASE panic # "none"
    BY ZenonT(30), <2>1 DEF LinksCounted, Quiet
  <2>2. CASE panic = "none"
    BY ZenonT(30), <2>2, RunningLinks DEF IInv
  <2> QED
    BY ZenonT(30), <2>1, <2>2
<1> QED
  BY <1>1, Invariance, PTL
=============================================================================
