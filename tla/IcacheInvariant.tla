-------------------------- MODULE IcacheInvariant ---------------------------
(***************************************************************************)
(* The inductive invariant of the inode cache, and why the steps keep it   *)
(* that look nothing up and change no link: the locks, ilock(), and iput() *)
(* with the freeing of the inode.                                          *)
(***************************************************************************)
EXTENDS Icache, FiniteSetTheorems, WellFoundedInduction, TLAPS

Inodes == [type : {"free", "file", "dir"}, nlink : Nat]
Places == {"user", "dir", "indir", "lock", "inode", "unlinked", "unlockdir",
           "put", "putting", "freed", "drop"}
Calls == {"none", "open", "create", "link", "relink", "undo", "unlink"}
Lists == {<<>>, <<"dp">>, <<"ip">>, <<"dp", "ip">>, <<"hit">>, <<"file">>}

DiskTypes == disk \in [Inums -> Inodes] /\ dir \in [Paths -> 0..NINODES]
CacheTypes ==
  /\ inum \in [Slots -> Inums] /\ ref \in [Slots -> Nat] /\ valid \subseteq Slots
  /\ inode \in [Slots -> Inodes] /\ lock \in [Slots -> Procs \cup {NoProc}]
CallTypes ==
  /\ pc \in [Procs -> Places] /\ call \in [Procs -> Calls]
  /\ name \in [Procs -> Paths] /\ new \in [Procs -> Paths]
  /\ puts \in [Procs -> Lists] /\ then \in [Procs -> Places]
HolderTypes == at \in [Procs -> [Holders -> 0..NINODE]]
TypeOK == DiskTypes /\ CacheTypes /\ CallTypes /\ HolderTypes

InPut(p) == pc[p] \in {"put", "putting", "freed", "drop"}

(* What a process holds while it is in iput(): the head of puts[p] is the   *)
(* reference being dropped.                                                 *)
PutShape(p) ==
  \/ /\ puts[p] = <<"dp">> /\ at[p]["dp"] = ROOT /\ at[p]["hit"] = 0
     /\ \/ /\ then[p] = "user" /\ at[p]["ip"] = 0
           /\ call[p] \in {"open", "link", "unlink"}
        \/ /\ then[p] = "lock" /\ at[p]["ip"] # 0
           /\ call[p] \in {"open", "create", "link", "undo"}
        \/ then[p] = "inode" /\ at[p]["ip"] # 0 /\ call[p] = "create"
        \/ then[p] = "unlinked" /\ at[p]["ip"] # 0 /\ call[p] = "unlink"
  \/ /\ puts[p] = <<"ip">>
     /\ at[p]["dp"] = 0 /\ at[p]["hit"] = 0 /\ at[p]["ip"] # 0
     /\ then[p] = "user" /\ call[p] # "none"
  \/ /\ puts[p] = <<"dp", "ip">>
     /\ at[p]["dp"] = ROOT /\ at[p]["hit"] = 0 /\ at[p]["ip"] # 0
     /\ then[p] = "user" /\ call[p] = "relink"
  \/ /\ puts[p] = <<"hit">>
     /\ at[p]["dp"] = ROOT /\ at[p]["hit"] # 0 /\ at[p]["ip"] # 0
     /\ then[p] = "unlockdir" /\ call[p] = "relink"
  \/ /\ puts[p] = <<"file">>
     /\ at[p]["dp"] = 0 /\ at[p]["hit"] = 0 /\ at[p]["ip"] = 0
     /\ at[p]["file"] # 0 /\ then[p] = "user" /\ call[p] = "none"

(* What it holds elsewhere. *)
RunShape(p) ==
  /\ then[p] = "user" /\ at[p]["hit"] = 0
  /\ pc[p] = "user" => call[p] = "none" /\ at[p]["dp"] = 0 /\ at[p]["ip"] = 0
  /\ pc[p] \in {"dir", "indir"} =>
       /\ at[p]["dp"] = ROOT
       /\ \/ call[p] \in {"open", "create", "link", "unlink"} /\ at[p]["ip"] = 0
          \/ call[p] = "relink" /\ at[p]["ip"] # 0
  /\ pc[p] \in {"lock", "inode"} =>
       /\ at[p]["ip"] # 0
       /\ \/ at[p]["dp"] = 0 /\ call[p] \in {"open", "create", "link", "undo"}
          \/ at[p]["dp"] = ROOT /\ call[p] \in {"create", "unlink"}
  /\ pc[p] = "unlinked" =>
       at[p]["dp"] = 0 /\ at[p]["ip"] # 0 /\ call[p] = "unlink"
  /\ pc[p] = "unlockdir" =>
       at[p]["dp"] = ROOT /\ at[p]["ip"] # 0 /\ call[p] = "relink"

Shape(p) ==
  /\ InPut(p) => PutShape(p)
  /\ ~InPut(p) => RunShape(p)
  /\ call[p] \in {"open", "create"} => at[p]["file"] = 0

(* The call has the directory locked while it goes for its inode. *)
Nested(p) == pc[p] \in {"lock", "inode"} /\ at[p]["dp"] # 0
(* It has the inode locked while it drops the directory. *)
Keeps(p) == InPut(p) /\ then[p] \in {"inode", "unlinked"}

HasDir(p) ==
  \/ pc[p] \in {"indir", "unlockdir"} \/ Nested(p)
  \/ InPut(p) /\ then[p] = "unlockdir"
HasInode(p) == pc[p] \in {"inode", "unlinked"} \/ Keeps(p)
HasPut(p) == pc[p] \in {"putting", "freed"}

(* The call has a link counted in ip->nlink that is not in the directory:   *)
(* sys_link() counts it first, sys_unlink() clears the entry first.         *)
Extra(p) ==
  \/ call[p] = "relink" /\ (~InPut(p) \/ then[p] = "unlockdir")
  \/ call[p] = "undo" /\ (~InPut(p) \/ then[p] = "lock")
  \/ call[p] = "unlink" /\ (pc[p] = "unlinked" \/ then[p] = "unlinked")

(* The sleep-locks a process has. *)
Locks(p) ==
  /\ HasDir(p) => lock[ROOT] = p
  /\ HasInode(p) => lock[at[p]["ip"]] = p /\ at[p]["ip"] \in valid
  /\ HasPut(p) => lock[Putting(p)] = p
  /\ HasPut(p) /\ then[p] = "unlockdir" => at[p]["hit"] # ROOT
  /\ Extra(p) \/ Nested(p) \/ Keeps(p) => inum[at[p]["ip"]] # ROOT

(* The reference is past the test of iput(), on its way out. *)
Dropping(p, h) == pc[p] \in {"freed", "drop"} /\ Head(puts[p]) = h

(* An inode that create() has allocated is known to nobody else. *)
Fresh(p) ==
  /\ dir[name[p]] = 0 /\ disk[inum[at[p]["ip"]]].nlink = 0
  /\ \A q \in Procs \ {p} : \A h \in Holders :
       at[q][h] = at[p]["ip"] => Dropping(q, h)

(* What a call has found in the directory stays true while it has it locked. *)
Looked(p) ==
  Nested(p) =>
    /\ call[p] = "unlink" => name[p] # Dot /\ dir[name[p]] = inum[at[p]["ip"]]
    /\ call[p] = "create" => Fresh(p)

ShapeInv == \A p \in Procs : Shape(p)
LockInv == \A p \in Procs : Locks(p)
LookedInv == \A p \in Procs : Looked(p)

Unique ==
  \A s, t \in Slots : ref[s] > 0 /\ ref[t] > 0 /\ inum[s] = inum[t] => s = t

(* The inode behind a reference is not free, unless the reference is going. *)
HeldLive ==
  \A p \in Procs, h \in Holders :
    at[p][h] # 0 /\ ~Dropping(p, h) => disk[inum[at[p][h]]].type # "free"

(* A valid entry in use has what is on disk, also while it is locked, but   *)
(* for the one iput() has just freed.                                       *)
Freeing(s) == \E p \in Procs : pc[p] = "freed" /\ Putting(p) = s
ValidInv ==
  \A s \in valid : ref[s] > 0 /\ ~Freeing(s) =>
    inode[s] = disk[inum[s]] /\ inode[s].type # "free"

RootInv ==
  /\ disk[ROOT] = [type |-> "dir", nlink |-> 1] /\ inum[ROOT] = ROOT
  /\ \A x \in Paths : dir[x] = ROOT <=> x = Dot

DirLive == \A x \in Paths : dir[x] # 0 => disk[dir[x]].type # "free"

(* The link count is the number of entries and of links on their way. *)
Entries(i) == {x \in Paths : dir[x] = i}
Pending(i) == {p \in Procs : Extra(p) /\ inum[at[p]["ip"]] = i}
LinkInv ==
  \A i \in Inums \ {ROOT} :
    disk[i].nlink = Cardinality(Entries(i)) + Cardinality(Pending(i))

(* The state of a kernel that has not panicked. *)
Running ==
  /\ TypeOK /\ RefsCounted /\ Unique /\ ShapeInv /\ LockInv /\ LookedInv
  /\ HeldLive /\ ValidInv /\ RootInv /\ DirLive /\ LinkInv

IInv ==
  /\ RefsCounted /\ CacheCoherent /\ NotFreedInUse
  /\ panic = "none" => Running

-----------------------------------------------------------------------------

(* Facts about the constants. *)
LEMMA Consts ==
  /\ ROOT = 1 /\ ROOT \in Slots /\ ROOT \in Inums
  /\ Slots \subseteq Nat /\ Inums \subseteq Nat /\ 0 \notin Slots /\ 0 \notin Inums
  /\ \A s : s \in 0..NINODE /\ s # 0 => s \in Slots
  /\ \A s \in Slots : s \in 0..NINODE
  /\ \A i : i \in 0..NINODES /\ i # 0 => i \in Inums
  /\ \A i \in Inums : i \in 0..NINODES
  /\ 0 \in 0..NINODE /\ 0 \in 0..NINODES
  /\ NoProc \notin Procs /\ Dot \in Paths
  BY IcacheAssumption DEF ROOT, Slots, Inums, Paths

(* A set of entries or of inode numbers has a first element. *)
LEMMA LeastExists ==
  ASSUME NEW S, S \subseteq Nat, S # {}
  PROVE  \E s \in S : \A t \in S : s <= t
<1> DEFINE Less == {x \in Nat \X Nat : x[1] < x[2]}
<1>0. IsWellFoundedOn(Less, Nat)
  BY ZenonT(30), NatLessThanWellFounded DEF OpToRel
<1>1. PICK s \in S : \A t \in S : ~(<<t, s>> \in Less)
  <2> HIDE DEF Less
  <2> QED
    BY ZenonT(30), <1>0, WFMin
<1>2. ASSUME NEW t \in S PROVE s <= t
  <2>1. t \in Nat /\ s \in Nat
    BY ZenonT(30)
  <2>2. ~(t < s)
    BY ZenonT(30), <1>1, <2>1
  <2> QED
    BY <2>1, <2>2
<1> QED
  BY ZenonT(30), <1>2

(* The first of a set is one of the set.                                   *)
LEMMA FirstIn ==
  ASSUME NEW S, S \subseteq Nat, S # {}
  PROVE  First(S) \in S
  BY ZenonT(30), LeastExists DEF First

(* The lists of references to drop. *)
LEMMA ListFacts ==
  /\ Head(<<"dp">>) = "dp" /\ Len(<<"dp">>) = 1 /\ Tail(<<"dp">>) = <<>>
  /\ Head(<<"ip">>) = "ip" /\ Len(<<"ip">>) = 1 /\ Tail(<<"ip">>) = <<>>
  /\ Head(<<"hit">>) = "hit" /\ Len(<<"hit">>) = 1 /\ Tail(<<"hit">>) = <<>>
  /\ Head(<<"file">>) = "file" /\ Len(<<"file">>) = 1 /\ Tail(<<"file">>) = <<>>
  /\ Head(<<"dp", "ip">>) = "dp" /\ Len(<<"dp", "ip">>) = 2
  /\ Tail(<<"dp", "ip">>) = <<"ip">>
  OBVIOUS

(* The lists are different.                                                *)
LEMMA ListsDiffer ==
  /\ <<"dp">> # <<"ip">> /\ <<"dp">> # <<"hit">> /\ <<"dp">> # <<"file">>
  /\ <<"ip">> # <<"hit">> /\ <<"ip">> # <<"file">> /\ <<"hit">> # <<"file">>
  /\ <<"dp", "ip">> # <<"dp">> /\ <<"dp", "ip">> # <<"ip">>
  /\ <<"dp", "ip">> # <<"hit">> /\ <<"dp", "ip">> # <<"file">>
  BY ZenonT(30)

-----------------------------------------------------------------------------
(* Reference counts *)

Refs(s) == {x \in Procs \X Holders : at[x[1]][x[2]] = s}

(* There are finitely many references to an entry.                         *)
LEMMA RefsFinite ==
  /\ IsFiniteSet(Procs \X Holders) /\ IsFiniteSet(Procs)
  /\ Cardinality(Procs) \in Nat
  /\ \A s : IsFiniteSet(Refs(s)) /\ Cardinality(Refs(s)) \in Nat
<1>1. IsFiniteSet(Holders)
  <2>1. IsFiniteSet({"dp", "ip", "hit", "file"})
    <3>1. IsFiniteSet({"dp"})
      BY ZenonT(30), FS_Singleton
    <3>2. IsFiniteSet({"dp"} \cup {"ip"})
      BY ZenonT(30), <3>1, FS_AddElement
    <3>3. IsFiniteSet(({"dp"} \cup {"ip"}) \cup {"hit"})
      BY ZenonT(30), <3>2, FS_AddElement
    <3>4. IsFiniteSet((({"dp"} \cup {"ip"}) \cup {"hit"}) \cup {"file"})
      BY ZenonT(30), <3>3, FS_AddElement
    <3>5. {"dp", "ip", "hit", "file"} = (({"dp"} \cup {"ip"}) \cup {"hit"}) \cup {"file"}
      BY ZenonT(30)
    <3> QED
      BY ZenonT(30), <3>4, <3>5
  <2> QED
    BY ZenonT(30), <2>1 DEF Holders
<1>2. IsFiniteSet(Procs)
  BY ZenonT(30), IcacheAssumption
<1>3. IsFiniteSet(Procs \X Holders)
  BY ZenonT(30), <1>1, <1>2, FS_Product
<1>4. ASSUME NEW s PROVE IsFiniteSet(Refs(s)) /\ Cardinality(Refs(s)) \in Nat
  <2>1. Refs(s) \subseteq Procs \X Holders
    BY ZenonT(30) DEF Refs
  <2> QED
    BY ZenonT(30), <1>3, <2>1, FS_Subset, FS_CardinalityType
<1> QED
  BY ZenonT(30), <1>2, <1>3, <1>4, FS_CardinalityType

(* An entry somebody refers to has a positive count, the root in any case. *)
LEMMA RefPositive ==
  ASSUME TypeOK, RefsCounted
  PROVE  /\ \A p \in Procs, h \in Holders : at[p][h] # 0 =>
              at[p][h] \in Slots /\ ref[at[p][h]] > 0
         /\ \A p \in Procs : ref[ROOT] > 0
         /\ \A s \in Slots : ref[s] = 0 =>
              \A p \in Procs, h \in Holders : at[p][h] # s
<1>1. \A s \in Slots : ref[s] = Cardinality(Refs(s))
                                + (IF s = ROOT THEN Cardinality(Procs) ELSE 0)
  BY ZenonT(30) DEF RefsCounted, Refs
<1>2. ASSUME NEW p \in Procs, NEW h \in Holders, NEW s \in Slots, at[p][h] = s
      PROVE  ref[s] > 0
  <2>1. <<p, h>> \in Refs(s)
    BY ZenonT(30), <1>2 DEF Refs
  <2>2. Cardinality(Refs(s)) # 0
    BY ZenonT(30), <2>1, RefsFinite, FS_EmptySet
  <2> QED
    BY <1>1, <2>2, RefsFinite
<1>3. ASSUME NEW p \in Procs PROVE ref[ROOT] > 0
  <2>1. Cardinality(Procs) # 0
    BY ZenonT(30), RefsFinite, FS_EmptySet
  <2> QED
    BY <1>1, <2>1, RefsFinite, Consts
<1>4. \A p \in Procs, h \in Holders : at[p][h] \in 0..NINODE
  BY ZenonT(30) DEF TypeOK, HolderTypes
<1> QED
  BY <1>2, <1>3, <1>4, Consts

(* A process that has the only reference. *)
LEMMA RefOnly ==
  ASSUME TypeOK, RefsCounted, NEW s \in Slots, s # ROOT, ref[s] = 1,
         NEW p \in Procs, NEW h \in Holders, at[p][h] = s,
         NEW q \in Procs, NEW g \in Holders, at[q][g] = s
  PROVE  q = p /\ g = h
<1>1. Cardinality(Refs(s)) = 1
  BY RefsFinite DEF RefsCounted, Refs
<1>2. <<p, h>> \in Refs(s) /\ <<q, g>> \in Refs(s)
  BY ZenonT(30) DEF Refs
<1>3. /\ IsFiniteSet(Refs(s) \ {<<p, h>>})
      /\ Cardinality(Refs(s) \ {<<p, h>>}) = Cardinality(Refs(s)) - 1
  BY ZenonT(30), <1>2, RefsFinite, FS_RemoveElement
<1>4. Refs(s) \ {<<p, h>>} = {}
  BY <1>1, <1>3, FS_EmptySet
<1>5. <<q, g>> = <<p, h>>
  BY ZenonT(30), <1>2, <1>4
<1> QED
  BY ZenonT(30), <1>5

(* at and ref did not change. *)
LEMMA RefsSame ==
  ASSUME RefsCounted, at' = at, ref' = ref
  PROVE  RefsCounted'
  BY ZenonT(30) DEF RefsCounted

(* A process takes a reference. *)
LEMMA RefsTake ==
  ASSUME TypeOK, RefsCounted, NEW p \in Procs, NEW h \in Holders, NEW s \in Slots,
         at[p][h] = 0, at' = [at EXCEPT ![p][h] = s],
         ref' = [ref EXCEPT ![s] = @ + 1]
  PROVE  RefsCounted'
<1>1. /\ \A q \in Procs, g \in Holders : <<q, g>> # <<p, h>> => at'[q][g] = at[q][g]
      /\ at'[p][h] = s
  BY ZenonT(30) DEF TypeOK, HolderTypes
<1>2. Refs(s)' = Refs(s) \cup {<<p, h>>} /\ <<p, h>> \notin Refs(s)
  BY <1>1, Consts DEF Refs
<1>3. \A t \in Slots \ {s} : Refs(t)' = Refs(t)
  BY <1>1, Consts DEF Refs
<1>4. Cardinality(Refs(s)') = Cardinality(Refs(s)) + 1
  BY ZenonT(30), <1>2, RefsFinite, FS_AddElement
<1>5. \A t \in Slots : ref[t] = Cardinality(Refs(t))
                                + (IF t = ROOT THEN Cardinality(Procs) ELSE 0)
  BY ZenonT(30) DEF RefsCounted, Refs
<1>6. /\ ref'[s] = ref[s] + 1
      /\ \A t \in Slots \ {s} : ref'[t] = ref[t]
  BY ZenonT(30) DEF TypeOK, CacheTypes
<1>7. \A t \in Slots : ref'[t] = Cardinality(Refs(t)')
                                 + (IF t = ROOT THEN Cardinality(Procs) ELSE 0)
  BY <1>3, <1>4, <1>5, <1>6, RefsFinite
<1> QED
  BY ZenonT(30), <1>7 DEF RefsCounted, Refs

(* A process drops a reference. *)
LEMMA RefsDrop ==
  ASSUME TypeOK, RefsCounted, NEW p \in Procs, NEW h \in Holders, NEW s \in Slots,
         at[p][h] = s, at' = [at EXCEPT ![p][h] = 0],
         ref' = [ref EXCEPT ![s] = @ - 1]
  PROVE  RefsCounted'
<1>1. /\ \A q \in Procs, g \in Holders : <<q, g>> # <<p, h>> => at'[q][g] = at[q][g]
      /\ at'[p][h] = 0
  BY ZenonT(30) DEF TypeOK, HolderTypes
<1>2. Refs(s)' = Refs(s) \ {<<p, h>>} /\ <<p, h>> \in Refs(s)
  BY <1>1, Consts DEF Refs
<1>3. \A t \in Slots \ {s} : Refs(t)' = Refs(t)
  BY <1>1, Consts DEF Refs
<1>4. Cardinality(Refs(s)') = Cardinality(Refs(s)) - 1
  <2>1. IsFiniteSet(Refs(s))
    BY ZenonT(30), RefsFinite
  <2>2. Cardinality(Refs(s) \ {<<p, h>>}) = Cardinality(Refs(s)) - 1
    BY ZenonT(30), <1>2, <2>1, FS_RemoveElement
  <2> QED
    BY ZenonT(30), <1>2, <2>2
<1>5. \A t \in Slots : ref[t] = Cardinality(Refs(t))
                                + (IF t = ROOT THEN Cardinality(Procs) ELSE 0)
  BY ZenonT(30) DEF RefsCounted, Refs
<1>6. /\ ref'[s] = ref[s] - 1
      /\ \A t \in Slots \ {s} : ref'[t] = ref[t]
  BY ZenonT(30) DEF TypeOK, CacheTypes
<1>7. \A t \in Slots : ref'[t] = Cardinality(Refs(t)')
                                 + (IF t = ROOT THEN Cardinality(Procs) ELSE 0)
  BY <1>3, <1>4, <1>5, <1>6, RefsFinite
<1> QED
  BY ZenonT(30), <1>7 DEF RefsCounted, Refs

(* A process moves a reference from one holder to another. *)
LEMMA RefsMove ==
  ASSUME TypeOK, RefsCounted, NEW p \in Procs, NEW s \in Slots,
         at[p]["ip"] = s, at[p]["file"] = 0,
         at' = [at EXCEPT ![p] = [@ EXCEPT !["file"] = s, !["ip"] = 0]],
         ref' = ref
  PROVE  RefsCounted'
<1>1. /\ \A q \in Procs, g \in Holders :
           <<q, g>> # <<p, "ip">> /\ <<q, g>> # <<p, "file">> => at'[q][g] = at[q][g]
      /\ at'[p]["ip"] = 0 /\ at'[p]["file"] = s
  BY ZenonT(30) DEF TypeOK, HolderTypes, Holders
<1>2. <<p, "ip">> \in Refs(s) /\ <<p, "file">> \notin Refs(s) \ {<<p, "ip">>}
  BY ZenonT(30), Consts DEF Refs, Holders
<1>3. Refs(s)' = (Refs(s) \ {<<p, "ip">>}) \cup {<<p, "file">>}
  BY <1>1, <1>2, Consts DEF Refs, Holders
<1>4. \A t \in Slots \ {s} : Refs(t)' = Refs(t)
  BY <1>1, Consts DEF Refs, Holders
<1>5. /\ IsFiniteSet(Refs(s) \ {<<p, "ip">>})
      /\ Cardinality(Refs(s) \ {<<p, "ip">>}) = Cardinality(Refs(s)) - 1
  BY ZenonT(30), <1>2, RefsFinite, FS_RemoveElement
<1>6. Cardinality(Refs(s)') = Cardinality(Refs(s))
  <2>1. PICK T : T = Refs(s) \ {<<p, "ip">>}
    BY ZenonT(30)
  <2>2. IsFiniteSet(T) /\ Cardinality(T) = Cardinality(Refs(s)) - 1 /\ <<p, "file">> \notin T
    BY ZenonT(30), <1>2, <1>5, <2>1
  <2>3. Cardinality(T \cup {<<p, "file">>}) = Cardinality(T) + 1
    BY ZenonT(30), <2>2, FS_AddElement
  <2>4. Refs(s)' = T \cup {<<p, "file">>}
    BY ZenonT(30), <1>3, <2>1
  <2> QED
    BY <2>2, <2>3, <2>4, RefsFinite
<1>7. \A t \in Slots : Cardinality(Refs(t)') = Cardinality(Refs(t))
  BY ZenonT(30), <1>4, <1>6
<1> QED
  BY ZenonT(30), <1>7 DEF RefsCounted, Refs

-----------------------------------------------------------------------------
(* What the invariant says of one process *)

(* The reference being dropped. *)
LEMMA PuttingFact ==
  ASSUME Running, NEW p \in Procs, InPut(p)
  PROVE  /\ PutShape(p) /\ puts[p] \in Lists /\ Head(puts[p]) \in Holders
         /\ Putting(p) = at[p][Head(puts[p])]
         /\ Putting(p) # 0 /\ Putting(p) \in Slots /\ ref[Putting(p)] > 0
         /\ then[p] # "unlockdir" /\ then[p] # "user" => Putting(p) = ROOT
         /\ then[p] = "unlockdir" => Putting(p) = at[p]["hit"]
         /\ Head(puts[p]) = "file" => puts[p] = <<"file">>
<1>1. PutShape(p) /\ puts[p] \in Lists
  BY ZenonT(30) DEF Running, ShapeInv, Shape, TypeOK, CallTypes
<1>2. /\ Head(puts[p]) \in Holders /\ at[p][Head(puts[p])] # 0
      /\ then[p] # "unlockdir" /\ then[p] # "user" => at[p][Head(puts[p])] = ROOT
      /\ then[p] = "unlockdir" => Head(puts[p]) = "hit"
      /\ Head(puts[p]) = "file" => puts[p] = <<"file">>
  BY ZenonT(30), <1>1, ListFacts, Consts DEF PutShape, Holders
<1>3. Putting(p) = at[p][Head(puts[p])]
  BY ZenonT(30) DEF Putting
<1>4. Putting(p) \in Slots /\ ref[Putting(p)] > 0
  BY ZenonT(30), <1>2, <1>3, RefPositive DEF Running
<1> QED
  BY ZenonT(30), <1>1, <1>2, <1>3, <1>4

(* The inode of a call. *)
LEMMA IpFact ==
  ASSUME Running, NEW p \in Procs, at[p]["ip"] # 0
  PROVE  at[p]["ip"] \in Slots /\ ref[at[p]["ip"]] > 0 /\ inum[at[p]["ip"]] \in Inums
<1>1. "ip" \in Holders
  BY ZenonT(30) DEF Holders
<1>2. at[p]["ip"] \in Slots /\ ref[at[p]["ip"]] > 0
  BY ZenonT(30), <1>1, RefPositive DEF Running
<1> QED
  BY ZenonT(30), <1>2 DEF Running, TypeOK, CacheTypes

(* Calls that need the inode have it. *)
LEMMA IpHeld ==
  ASSUME Running, NEW p \in Procs,
         Extra(p) \/ Nested(p) \/ Keeps(p) \/ HasInode(p) \/ pc[p] = "lock"
  PROVE  at[p]["ip"] # 0
<1>1. CASE InPut(p)
  <2>1. PutShape(p)
    BY ZenonT(30), <1>1, PuttingFact
  <2> QED
    BY ZenonT(30), <1>1, <2>1 DEF PutShape, Extra, Nested, Keeps, HasInode, InPut
<1>2. CASE ~InPut(p)
  <2>1. RunShape(p) /\ pc[p] \in Places /\ call[p] \in Calls
    BY ZenonT(30), <1>2 DEF Running, ShapeInv, Shape, TypeOK, CallTypes
  <2> QED
    BY ZenonT(30), <1>2, <2>1 DEF RunShape, Extra, Nested, Keeps, HasInode, InPut, Places
<1> QED
  BY ZenonT(30), <1>1, <1>2

(* A locked entry is not the one another process has just freed. *)
LEMMA NotFreeing ==
  ASSUME Running, NEW p \in Procs, NEW s \in Slots, lock[s] = p \/ lock[s] = NoProc,
         pc[p] # "freed" \/ Putting(p) # s
  PROVE  ~Freeing(s)
<1> SUFFICES ASSUME NEW q \in Procs, pc[q] = "freed", Putting(q) = s PROVE FALSE
  BY ZenonT(30) DEF Freeing
<1>1. lock[s] = q
  BY ZenonT(30) DEF Running, LockInv, Locks, HasPut
<1> QED
  BY ZenonT(30), <1>1, Consts

(* A running kernel has the properties. *)
LEMMA RunningSafe ==
  ASSUME Running, panic = "none"
  PROVE  CacheCoherent /\ NotFreedInUse
<1>1. CacheCoherent
  <2> SUFFICES ASSUME NEW s \in Slots, ref[s] > 0
               PROVE  /\ \A t \in Slots : ref[t] > 0 /\ inum[s] = inum[t] => s = t
                      /\ s \in valid /\ lock[s] = NoProc => inode[s] = disk[inum[s]]
    BY ZenonT(30) DEF CacheCoherent
  <2>1. \A t \in Slots : ref[t] > 0 /\ inum[s] = inum[t] => s = t
    BY ZenonT(30) DEF Running, Unique
  <2>2. ASSUME s \in valid, lock[s] = NoProc PROVE inode[s] = disk[inum[s]]
    <3>1. ASSUME NEW q \in Procs, pc[q] = "freed", Putting(q) = s PROVE FALSE
      <4>1. lock[s] = q
        BY ZenonT(30), <3>1 DEF Running, LockInv, Locks, HasPut
      <4> QED
        BY ZenonT(30), <2>2, <4>1, Consts
    <3>2. ~Freeing(s)
      BY ZenonT(30), <3>1 DEF Freeing
    <3> QED
      BY ZenonT(30), <2>2, <3>2 DEF Running, ValidInv
  <2> QED
    BY ZenonT(30), <2>1, <2>2
<1>2. NotFreedInUse
  <2>1. ASSUME NEW p \in Procs, at[p]["file"] # 0,
               ~(pc[p] \in {"freed", "drop"} /\ puts[p] = <<"file">>)
        PROVE  disk[inum[at[p]["file"]]].type # "free"
    <3>1. ~Dropping(p, "file")
      BY ZenonT(30), <2>1, PuttingFact DEF Dropping, InPut
    <3> QED
      BY ZenonT(30), <2>1, <3>1 DEF Running, HeldLive, Holders
  <2> QED
    BY ZenonT(30), <2>1 DEF NotFreedInUse, Running, DirLive
<1> QED
  BY ZenonT(30), <1>1, <1>2

(* With no call in progress, no link is on its way. *)
LEMMA RunningLinks ==
  ASSUME Running
  PROVE  LinksCounted
<1> SUFFICES ASSUME Quiet, NEW i \in Inums \ {ROOT}
             PROVE  disk[i].nlink = Cardinality({x \in Paths : dir[x] = i})
  BY ZenonT(30) DEF LinksCounted
<1>1. ASSUME NEW p \in Procs PROVE ~Extra(p)
  <2>1. pc[p] = "user" /\ ~InPut(p)
    BY ZenonT(30) DEF Quiet, InPut
  <2>2. call[p] = "none"
    BY ZenonT(30), <2>1 DEF Running, ShapeInv, Shape, RunShape
  <2> QED
    BY ZenonT(30), <2>2 DEF Extra
<1>2. Pending(i) = {}
  BY ZenonT(30), <1>1 DEF Pending
<1>3. Cardinality(Pending(i)) = 0
  BY ZenonT(30), <1>2, FS_EmptySet
<1>4. disk[i].nlink \in Nat /\ disk[i].nlink = Cardinality(Entries(i)) + Cardinality(Pending(i))
  BY ZenonT(30) DEF Running, LinkInv, TypeOK, DiskTypes, Inodes
<1>5. IsFiniteSet(Entries(i))
  <2>1. IsFiniteSet(Paths)
    BY ZenonT(30), IcacheAssumption, FS_AddElement DEF Paths
  <2>2. Entries(i) \subseteq Paths
    BY ZenonT(30) DEF Entries
  <2> QED
    BY ZenonT(30), <2>1, <2>2, FS_Subset
<1>6. Cardinality(Entries(i)) \in Nat
  BY ZenonT(30), <1>5, FS_CardinalityType
<1> QED
  BY <1>3, <1>4, <1>6 DEF Entries

-----------------------------------------------------------------------------
(* What a step of one process leaves to the others *)

Others(p) ==
  \A q \in Procs \ {p} :
    /\ pc'[q] = pc[q] /\ call'[q] = call[q] /\ name'[q] = name[q]
    /\ puts'[q] = puts[q] /\ then'[q] = then[q] /\ at'[q] = at[q]

(* The step takes no lock and no entry from anybody else. *)
LocksKept(p) ==
  /\ \A s \in Slots, q \in Procs \ {p} : lock[s] = q => lock'[s] = q
  /\ \A s \in valid, q \in Procs \ {p} : lock[s] = q /\ ref[s] > 0 => s \in valid'

InumsKept ==
  \A q \in Procs, h \in Holders : at[q][h] # 0 => inum'[at[q][h]] = inum[at[q][h]]

(* Where another process is, and what it holds, is as before.              *)
LEMMA OthersSame ==
  ASSUME NEW p \in Procs, Others(p), NEW q \in Procs \ {p}
  PROVE  /\ InPut(q)' <=> InPut(q)
         /\ Nested(q)' <=> Nested(q)
         /\ Keeps(q)' <=> Keeps(q)
         /\ HasDir(q)' <=> HasDir(q)
         /\ HasInode(q)' <=> HasInode(q)
         /\ HasPut(q)' <=> HasPut(q)
         /\ Extra(q)' <=> Extra(q)
         /\ Putting(q)' = Putting(q)
         /\ \A h \in Holders : Dropping(q, h)' <=> Dropping(q, h)
<1>1. InPut(q)' <=> InPut(q)
  BY ZenonT(30) DEF Others, InPut
<1>2. (Nested(q)' <=> Nested(q)) /\ (Keeps(q)' <=> Keeps(q))
  BY ZenonT(30), <1>1 DEF Others, Nested, Keeps
<1>3. HasDir(q)' <=> HasDir(q)
  BY ZenonT(30), <1>1, <1>2 DEF Others, HasDir
<1>4. (HasInode(q)' <=> HasInode(q)) /\ (HasPut(q)' <=> HasPut(q))
  BY ZenonT(30), <1>1, <1>2 DEF Others, HasInode, HasPut
<1>5. Extra(q)' <=> Extra(q)
  BY ZenonT(30), <1>1 DEF Others, Extra
<1>6. Putting(q)' = Putting(q)
  BY ZenonT(30) DEF Others, Putting
<1>7. \A h \in Holders : Dropping(q, h)' <=> Dropping(q, h)
  BY ZenonT(30) DEF Others, Dropping
<1> QED
  BY ZenonT(30), <1>1, <1>2, <1>3, <1>4, <1>5, <1>6, <1>7

(* What the other processes hold still fits where they are.                *)
LEMMA OthersShape ==
  ASSUME Running, NEW p \in Procs, Others(p), Shape(p)'
  PROVE  ShapeInv'
<1> SUFFICES ASSUME NEW q \in Procs \ {p} PROVE Shape(q)'
  BY ZenonT(30) DEF ShapeInv
<1>1. Shape(q)
  BY ZenonT(30) DEF Running, ShapeInv
<1>2. InPut(q)' <=> InPut(q)
  BY ZenonT(30) DEF Others, InPut
<1>3. PutShape(q) => PutShape(q)'
  BY ZenonT(30) DEF Others, PutShape
<1>4. RunShape(q) => RunShape(q)'
  BY ZenonT(30) DEF Others, RunShape
<1> QED
  BY ZenonT(30), <1>1, <1>2, <1>3, <1>4 DEF Shape, Others

(* The other processes keep their locks.                                   *)
LEMMA OthersLocks ==
  ASSUME Running, NEW p \in Procs, Others(p), LocksKept(p), InumsKept, Locks(p)'
  PROVE  LockInv'
<1> SUFFICES ASSUME NEW q \in Procs \ {p} PROVE Locks(q)'
  BY ZenonT(30) DEF LockInv
<1>1. Locks(q) /\ at'[q] = at[q] /\ then'[q] = then[q]
  BY ZenonT(30) DEF Running, LockInv, Others
<1>2. HasDir(q)' => lock'[ROOT] = q
  BY ZenonT(30), <1>1, OthersSame, Consts DEF Locks, LocksKept
<1>3. HasInode(q)' => lock'[at[q]["ip"]] = q /\ at[q]["ip"] \in valid'
  <2> SUFFICES ASSUME HasInode(q) PROVE lock'[at[q]["ip"]] = q /\ at[q]["ip"] \in valid'
    BY ZenonT(30), OthersSame
  <2>1. at[q]["ip"] \in Slots /\ ref[at[q]["ip"]] > 0
    BY ZenonT(30), IpHeld, IpFact
  <2> QED
    BY ZenonT(30), <1>1, <2>1 DEF Locks, LocksKept
<1>4. HasPut(q)' => lock'[Putting(q)] = q /\ (then[q] = "unlockdir" => at[q]["hit"] # ROOT)
  <2> SUFFICES ASSUME HasPut(q)
               PROVE  lock'[Putting(q)] = q /\ (then[q] = "unlockdir" => at[q]["hit"] # ROOT)
    BY ZenonT(30), OthersSame
  <2>1. Putting(q) \in Slots
    BY ZenonT(30), PuttingFact DEF HasPut, InPut
  <2> QED
    BY ZenonT(30), <1>1, <2>1 DEF Locks, LocksKept
<1>5. (Extra(q) \/ Nested(q) \/ Keeps(q))' => inum'[at[q]["ip"]] # ROOT
  <2> SUFFICES ASSUME Extra(q) \/ Nested(q) \/ Keeps(q) PROVE inum'[at[q]["ip"]] # ROOT
    BY ZenonT(30), OthersSame
  <2>1. at[q]["ip"] # 0
    BY ZenonT(30), IpHeld
  <2> QED
    BY ZenonT(30), <1>1, <2>1 DEF Locks, InumsKept, Holders
<1>6. Putting(q)' = Putting(q)
  BY ZenonT(30), OthersSame
<1> QED
  BY ZenonT(30), <1>1, <1>2, <1>3, <1>4, <1>5, <1>6 DEF Locks

(* What another process has found in the directory still holds.            *)
LEMMA OthersLooked ==
  ASSUME Running, NEW p \in Procs, Others(p), InumsKept,
         \A q \in Procs \ {p} : lock[ROOT] = q => dir' = dir,
         \A q \in Procs \ {p} : Nested(q) /\ call[q] = "create" =>
           /\ disk'[inum[at[q]["ip"]]].nlink = disk[inum[at[q]["ip"]]].nlink
           /\ \A h \in Holders : at'[p][h] = at[q]["ip"] => Dropping(p, h)',
         Looked(p)'
  PROVE  LookedInv'
<1> SUFFICES ASSUME NEW q \in Procs \ {p}, Nested(q) PROVE Looked(q)'
  BY ZenonT(30), OthersSame DEF LookedInv, Looked
<1>1. Looked(q) /\ Locks(q)
  BY ZenonT(30) DEF Running, LookedInv, LockInv
<1>2. dir' = dir
  BY ZenonT(30), <1>1 DEF Locks, HasDir
<1>3. at'[q] = at[q] /\ call'[q] = call[q] /\ name'[q] = name[q]
  BY ZenonT(30) DEF Others
<1>4. inum'[at[q]["ip"]] = inum[at[q]["ip"]]
  BY ZenonT(30), IpHeld DEF InumsKept, Holders
<1>5. ASSUME call[q] = "create" PROVE Fresh(q)'
  <2>1. Fresh(q)
    BY ZenonT(30), <1>1, <1>5 DEF Looked
  <2>2. disk'[inum'[at'[q]["ip"]]].nlink = 0
    BY ZenonT(30), <1>3, <1>4, <1>5, <2>1 DEF Fresh
  <2>3. ASSUME NEW r \in Procs \ {q}, NEW h \in Holders, at'[r][h] = at[q]["ip"]
        PROVE  Dropping(r, h)'
    <3>1. CASE r = p
      BY ZenonT(30), <1>5, <2>3, <3>1
    <3>2. CASE r # p
      <4>1. at[r][h] = at[q]["ip"]
        BY ZenonT(30), <2>3, <3>2 DEF Others
      <4>2. Dropping(r, h)
        BY ZenonT(30), <2>1, <4>1 DEF Fresh
      <4> QED
        BY ZenonT(30), <3>2, <4>2, OthersSame
    <3> QED
      BY ZenonT(30), <3>1, <3>2
  <2> QED
    BY ZenonT(30), <1>2, <1>3, <2>1, <2>2, <2>3 DEF Fresh
<1> QED
  BY ZenonT(30), <1>1, <1>2, <1>3, <1>4, <1>5 DEF Looked

(* References to inodes that the step does not free. *)
LEMMA HeldFrame ==
  ASSUME Running, NEW p \in Procs, Others(p), InumsKept,
         \A i \in Inums : disk[i].type # "free" => disk'[i].type # "free",
         \A h \in Holders : at'[p][h] # 0 /\ ~Dropping(p, h)' =>
           disk'[inum'[at'[p][h]]].type # "free"
  PROVE  HeldLive'
<1> SUFFICES ASSUME NEW q \in Procs, NEW h \in Holders, at'[q][h] # 0, ~Dropping(q, h)', q # p
             PROVE  disk'[inum'[at'[q][h]]].type # "free"
  BY ZenonT(30) DEF HeldLive
<1>1. at'[q] = at[q] /\ ~Dropping(q, h)
  BY ZenonT(30), OthersSame DEF Others
<1>2. disk[inum[at[q][h]]].type # "free"
  BY ZenonT(30), <1>1 DEF Running, HeldLive
<1>3. at[q][h] \in Slots
  BY ZenonT(30), <1>1, RefPositive DEF Running
<1>4. inum[at[q][h]] \in Inums
  BY ZenonT(30), <1>3 DEF Running, TypeOK, CacheTypes
<1>5. inum'[at[q][h]] = inum[at[q][h]]
  BY ZenonT(30), <1>1 DEF InumsKept
<1> QED
  BY ZenonT(30), <1>1, <1>2, <1>4, <1>5

(* Entries whose contents the step leaves alone. *)
LEMMA ValidFrame ==
  ASSUME Running, NEW p \in Procs, Others(p), disk' = disk, inode' = inode,
         pc[p] = "freed" => Putting(p) \notin valid',
         \A s \in valid' : s \in valid /\ (ref'[s] > 0 => ref[s] > 0 /\ inum'[s] = inum[s])
  PROVE  ValidInv'
<1> SUFFICES ASSUME NEW s \in valid', ref'[s] > 0, ~Freeing(s)'
             PROVE  inode[s] = disk[inum'[s]] /\ inode[s].type # "free"
  BY ZenonT(30) DEF ValidInv
<1>1. ~Freeing(s)
  BY ZenonT(30), OthersSame DEF Freeing, Others
<1> QED
  BY ZenonT(30), <1>1 DEF Running, ValidInv

(* No entry comes into use.                                                *)
LEMMA UniqueFrame ==
  ASSUME Running, \A s \in Slots : ref'[s] > 0 => ref[s] > 0 /\ inum'[s] = inum[s]
  PROVE  Unique'
  BY ZenonT(30) DEF Running, Unique

(* The links of a step that changes no count and no entry. *)
LEMMA LinkFrame ==
  ASSUME Running, NEW p \in Procs, Others(p), InumsKept, dir' = dir,
         \A i \in Inums \ {ROOT} : disk'[i].nlink = disk[i].nlink,
         Extra(p)' <=> Extra(p),
         Extra(p) => inum'[at'[p]["ip"]] = inum[at[p]["ip"]]
  PROVE  LinkInv'
<1> SUFFICES ASSUME NEW i \in Inums \ {ROOT}
             PROVE  disk'[i].nlink = Cardinality(Entries(i)') + Cardinality(Pending(i)')
  BY ZenonT(30) DEF LinkInv
<1>1. Entries(i)' = Entries(i)
  BY ZenonT(30) DEF Entries
<1>2. ASSUME NEW q \in Procs
      PROVE  (Extra(q)' /\ inum'[at'[q]["ip"]] = i) <=> (Extra(q) /\ inum[at[q]["ip"]] = i)
  <2>1. CASE q = p
    BY ZenonT(30), <2>1
  <2>2. CASE q # p
    <3>1. (Extra(q)' <=> Extra(q)) /\ at'[q] = at[q]
      BY ZenonT(30), <2>2, OthersSame DEF Others
    <3>2. Extra(q) => inum'[at[q]["ip"]] = inum[at[q]["ip"]]
      BY ZenonT(30), IpHeld DEF InumsKept, Holders
    <3> QED
      BY ZenonT(30), <3>1, <3>2
  <2> QED
    BY ZenonT(30), <2>1, <2>2
<1>3. Pending(i)' = Pending(i)
  BY ZenonT(30), <1>2 DEF Pending
<1> QED
  BY ZenonT(30), <1>1, <1>3 DEF Running, LinkInv

(* Nothing of the disk changes. *)
LEMMA DiskFrame ==
  ASSUME Running, disk' = disk, dir' = dir, inum'[ROOT] = inum[ROOT]
  PROVE  RootInv' /\ DirLive'
  BY ZenonT(30) DEF Running, RootInv, DirLive

(* A step that changes nothing but references and cache entries out of use. *)
LEMMA CacheStep ==
  ASSUME Running, NEW p \in Procs, Others(p), LocksKept(p), InumsKept,
         UNCHANGED <<disk, dir, inode>>, TypeOK', RefsCounted', Unique', inum'[ROOT] = ROOT,
         pc[p] = "freed" => Putting(p) \notin valid',
         \A s \in valid' : s \in valid /\ (ref'[s] > 0 => ref[s] > 0 /\ inum'[s] = inum[s]),
         Shape(p)', Locks(p)', Looked(p)', Extra(p)' <=> Extra(p),
         Extra(p) => at'[p]["ip"] = at[p]["ip"],
         \A h \in Holders : at'[p][h] # 0 /\ ~Dropping(p, h)' =>
           disk[inum'[at'[p][h]]].type # "free",
         \A q \in Procs \ {p} : Nested(q) /\ call[q] = "create" =>
           \A h \in Holders : at'[p][h] = at[q]["ip"] => Dropping(p, h)'
  PROVE  Running'
<1>1. ShapeInv' /\ LockInv' /\ LookedInv'
  BY ZenonT(30), OthersShape, OthersLocks, OthersLooked
<1>2. RootInv' /\ DirLive'
  BY ZenonT(30), DiskFrame DEF Running, RootInv
<1>3. HeldLive' /\ ValidInv'
  BY ZenonT(30), HeldFrame, ValidFrame
<1>4. Extra(p) => inum'[at'[p]["ip"]] = inum[at[p]["ip"]]
  BY ZenonT(30), IpHeld DEF InumsKept, Holders
<1>5. LinkInv'
  BY ZenonT(30), <1>4, LinkFrame
<1> QED
  BY ZenonT(30), <1>1, <1>2, <1>3, <1>5 DEF Running

(* A step that changes only where the process is and what it has locked. *)
LEMMA ControlStep ==
  ASSUME Running, NEW p \in Procs, Others(p), LocksKept(p),
         UNCHANGED <<disk, dir, icache, at>>, CallTypes',
         lock' \in [Slots -> Procs \cup {NoProc}],
         pc[p] \notin {"freed", "drop"}, pc'[p] # "freed",
         Shape(p)', Locks(p)', Looked(p)', Extra(p)' <=> Extra(p)
  PROVE  Running'
<1>1. InumsKept /\ UNCHANGED <<disk, dir, inode>> /\ valid' = valid
  BY ZenonT(30) DEF InumsKept, icache
<1>2. TypeOK' /\ RefsCounted'
  BY ZenonT(30), RefsSame DEF Running, TypeOK, DiskTypes, CacheTypes, HolderTypes, icache
<1>3. Unique' /\ inum'[ROOT] = ROOT
  BY ZenonT(30), UniqueFrame DEF icache, Running, RootInv
<1>4. ASSUME NEW h \in Holders, at'[p][h] # 0 PROVE disk[inum'[at'[p][h]]].type # "free"
  BY ZenonT(30), <1>4 DEF Running, HeldLive, Dropping, icache
<1>5. ASSUME NEW q \in Procs \ {p}, Nested(q), call[q] = "create",
             NEW h \in Holders, at'[p][h] = at[q]["ip"]
      PROVE  FALSE
  BY ZenonT(30), <1>5 DEF Running, LookedInv, Looked, Fresh, Dropping
<1>6. \A s \in valid' : s \in valid /\ (ref'[s] > 0 => ref[s] > 0 /\ inum'[s] = inum[s])
  BY ZenonT(30) DEF icache
<1> QED
  BY ZenonT(30), <1>1, <1>2, <1>3, <1>4, <1>5, <1>6, CacheStep

-----------------------------------------------------------------------------
(* Steps that change only where the process is and what it has locked *)

(* Taking a free lock, or releasing one's own, takes none from others.     *)
LEMMA LockChange ==
  ASSUME Running, NEW p \in Procs, NEW s \in Slots, lock[s] \in {p, NoProc},
         NEW x \in {p, NoProc}, lock' = [lock EXCEPT ![s] = x], valid \ {s} \subseteq valid'
  PROVE  /\ LocksKept(p) /\ lock' \in [Slots -> Procs \cup {NoProc}]
         /\ lock'[s] = x /\ \A t \in Slots \ {s} : lock'[t] = lock[t]
<1>1. lock \in [Slots -> Procs \cup {NoProc}]
  BY ZenonT(30) DEF Running, TypeOK, CacheTypes
<1>2. /\ lock' \in [Slots -> Procs \cup {NoProc}]
      /\ lock'[s] = x /\ \A t \in Slots \ {s} : lock'[t] = lock[t]
  BY ZenonT(30), <1>1
<1>3. LocksKept(p)
  BY ZenonT(30), <1>2, Consts DEF LocksKept
<1> QED
  BY ZenonT(30), <1>2, <1>3

(* What the process does next, when it is to call iput(). *)
LEMMA PutChange ==
  ASSUME Running, NEW p \in Procs, NEW hs \in Lists, NEW loc \in Places, Put(p, hs, loc)
  PROVE  /\ puts' \in [Procs -> Lists] /\ then' \in [Procs -> Places]
         /\ pc' \in [Procs -> Places]
         /\ pc'[p] = "put" /\ puts'[p] = hs /\ then'[p] = loc
         /\ \A q \in Procs \ {p} : pc'[q] = pc[q] /\ puts'[q] = puts[q] /\ then'[q] = then[q]
         /\ InPut(p)' /\ ~Nested(p)' /\ ~HasPut(p)' /\ Looked(p)'
         /\ Keeps(p)' <=> loc \in {"inode", "unlinked"}
         /\ HasDir(p)' <=> loc = "unlockdir"
         /\ HasInode(p)' <=> loc \in {"inode", "unlinked"}
<1>1. /\ pc \in [Procs -> Places] /\ puts \in [Procs -> Lists] /\ then \in [Procs -> Places]
  BY ZenonT(30) DEF Running, TypeOK, CallTypes
<1>2. /\ puts' \in [Procs -> Lists] /\ then' \in [Procs -> Places]
      /\ puts'[p] = hs /\ then'[p] = loc
      /\ \A q \in Procs \ {p} : puts'[q] = puts[q] /\ then'[q] = then[q]
  BY ZenonT(30), <1>1 DEF Put
<1>3. /\ pc' \in [Procs -> Places] /\ pc'[p] = "put"
      /\ \A q \in Procs \ {p} : pc'[q] = pc[q]
  BY ZenonT(30), <1>1 DEF Put, Places
<1>4. InPut(p)' /\ ~Nested(p)' /\ ~HasPut(p)' /\ Looked(p)'
  BY ZenonT(30), <1>3 DEF InPut, Nested, HasPut, Looked
<1> QED
  BY ZenonT(30), <1>2, <1>3, <1>4 DEF Keeps, HasDir, HasInode

(* iput() locks the entry.                                                 *)
LEMMA PutLockStep ==
  ASSUME Running, NEW p \in Procs, PutLock(p)
  PROVE  Running'
<1>1. /\ pc[p] = "put" /\ InPut(p) /\ lock[Putting(p)] = NoProc
      /\ lock' = [lock EXCEPT ![Putting(p)] = p] /\ pc' = [pc EXCEPT ![p] = "putting"]
      /\ UNCHANGED <<disk, dir, icache, at>> /\ UNCHANGED <<args, puts, then>>
  BY ZenonT(30) DEF PutLock, At, InPut
<1>2. Putting(p) \in Slots /\ PutShape(p)
  BY ZenonT(30), <1>1, PuttingFact
<1>3. /\ LocksKept(p) /\ lock' \in [Slots -> Procs \cup {NoProc}]
      /\ lock'[Putting(p)] = p /\ \A t \in Slots \ {Putting(p)} : lock'[t] = lock[t]
  BY ZenonT(30), <1>1, <1>2, LockChange DEF icache
<1>4. /\ pc'[p] = "putting" /\ \A q \in Procs \ {p} : pc'[q] = pc[q]
      /\ CallTypes'
  BY ZenonT(30), <1>1 DEF Running, TypeOK, CallTypes, args, Places
<1>5. Others(p)
  BY ZenonT(30), <1>1, <1>4 DEF Others, args
<1>6. /\ InPut(p)' /\ PutShape(p)' /\ Putting(p)' = Putting(p) /\ then' = then
      /\ call' = call /\ at' = at /\ name' = name
  BY ZenonT(30), <1>1, <1>2, <1>4 DEF InPut, PutShape, Putting, args
<1>7. Shape(p)'
  BY ZenonT(30), <1>6 DEF Running, ShapeInv, Shape
<1>8. ~Nested(p) /\ ~Nested(p)' /\ Looked(p)'
  BY ZenonT(30), <1>1, <1>4 DEF Nested, Looked
<1>9. /\ Extra(p)' <=> Extra(p)
      /\ Keeps(p)' <=> Keeps(p)
  BY ZenonT(30), <1>1, <1>4, <1>6 DEF Extra, Keeps
<1>10. /\ HasDir(p)' <=> HasDir(p)
       /\ HasInode(p)' <=> HasInode(p)
  BY ZenonT(30), <1>1, <1>4, <1>6, <1>8, <1>9 DEF HasDir, HasInode
<1>11. Locks(p)'
  <2>1. Locks(p)
    BY ZenonT(30) DEF Running, LockInv
  <2>2. HasDir(p)' => lock'[ROOT] = p /\ Putting(p) # ROOT
    BY ZenonT(30), <1>1, <1>2, <1>3, <1>10, <2>1, Consts DEF Locks
  <2>3. HasInode(p)' => lock'[at[p]["ip"]] = p /\ at[p]["ip"] \in valid'
    <3>1. HasInode(p) => at[p]["ip"] \in Slots
      BY ZenonT(30), IpHeld, IpFact
    <3> QED
      BY ZenonT(30), <1>1, <1>3, <1>10, <2>1, <3>1 DEF Locks, icache
  <2>4. then[p] = "unlockdir" => HasDir(p)' /\ Putting(p) = at[p]["hit"]
    BY ZenonT(30), <1>1, <1>6, PuttingFact DEF HasDir
  <2>5. (Extra(p) \/ Nested(p) \/ Keeps(p))' => inum'[at'[p]["ip"]] # ROOT
    BY ZenonT(30), <1>1, <1>8, <1>9, <2>1 DEF Locks, icache
  <2> QED
    BY ZenonT(30), <1>3, <1>6, <2>2, <2>3, <2>4, <2>5 DEF Locks
<1> QED
  BY ZenonT(30), <1>1, <1>3, <1>4, <1>5, <1>7, <1>8, <1>9, <1>11, ControlStep

(* The process releases what it has locked and goes on to iput(). *)
LEMMA PutStep ==
  ASSUME Running, NEW p \in Procs, NEW hs \in Lists, NEW loc \in Places, Put(p, hs, loc),
         loc \notin {"inode", "unlinked", "unlockdir"}, pc[p] \notin {"freed", "drop"},
         UNCHANGED <<disk, dir, icache, at>>, UNCHANGED <<name, new>>,
         call' \in [Procs -> Calls], \A q \in Procs \ {p} : call'[q] = call[q],
         LocksKept(p), lock' \in [Slots -> Procs \cup {NoProc}],
         PutShape(p)', call'[p] \in {"open", "create"} => at[p]["file"] = 0,
         Extra(p)' <=> Extra(p)
  PROVE  Running'
<1>1. /\ pc'[p] = "put" /\ InPut(p)' /\ ~Nested(p)' /\ ~HasPut(p)' /\ Looked(p)'
      /\ ~Keeps(p)' /\ ~HasDir(p)' /\ ~HasInode(p)'
  BY PutChange
<1>2. Others(p)
  BY ZenonT(30), PutChange DEF Others
<1>3. CallTypes'
  BY ZenonT(30), PutChange DEF Running, TypeOK, CallTypes
<1>4. Shape(p)'
  BY ZenonT(30), <1>1 DEF Shape
<1>5. Extra(p)' => inum'[at'[p]["ip"]] # ROOT
  BY ZenonT(30) DEF Running, LockInv, Locks, icache
<1>6. Locks(p)'
  BY ZenonT(30), <1>1, <1>5 DEF Locks
<1> QED
  BY ZenonT(30), <1>1, <1>2, <1>3, <1>4, <1>6, ControlStep

(* fileclose() drops the reference of the file.                            *)
LEMMA CloseStep ==
  ASSUME Running, NEW p \in Procs, Close(p)
  PROVE  Running'
<1>1. /\ pc[p] = "user" /\ ~InPut(p) /\ at[p]["file"] # 0 /\ Put(p, <<"file">>, "user")
      /\ UNCHANGED <<disk, dir, icache, at>> /\ UNCHANGED <<name, new>>
      /\ call' = call /\ lock' = lock
  BY ZenonT(30) DEF Close, At, InPut, args
<1>2. /\ <<"file">> \in Lists /\ "user" \in Places
  BY ZenonT(30) DEF Lists, Places
<1>3. puts'[p] = <<"file">> /\ then'[p] = "user"
  BY ZenonT(30), <1>1, <1>2, PutChange
<1>4. RunShape(p) /\ call[p] = "none"
  BY ZenonT(30), <1>1 DEF Running, ShapeInv, Shape, RunShape
<1>5. PutShape(p)'
  BY ZenonT(30), <1>1, <1>3, <1>4 DEF RunShape, PutShape
<1>6. Extra(p)' <=> Extra(p)
  BY ZenonT(30), <1>1, <1>4 DEF Extra
<1>7. LocksKept(p) /\ lock' \in [Slots -> Procs \cup {NoProc}] /\ call' \in [Procs -> Calls]
  BY ZenonT(30), <1>1 DEF Running, TypeOK, CallTypes, CacheTypes, icache, LocksKept
<1> QED
  BY ZenonT(30), <1>1, <1>2, <1>4, <1>5, <1>6, <1>7, PutStep

(* namei() or dirlookup() does not find the name.                          *)
LEMMA LookupFailStep ==
  ASSUME Running, NEW p \in Procs, LookupFail(p)
  PROVE  Running'
<1>1. /\ pc[p] = "indir" /\ ~InPut(p) /\ Put(p, <<"dp">>, "user")
      /\ call[p] \in {"open", "link", "unlink"}
      /\ UNCHANGED <<disk, dir, icache, at>> /\ UNCHANGED <<name, new>>
      /\ call' = call /\ lock' = [lock EXCEPT ![ROOT] = NoProc]
  BY ZenonT(30) DEF LookupFail, At, InPut, args, Unlock
<1>2. /\ <<"dp">> \in Lists /\ "user" \in Places
  BY ZenonT(30) DEF Lists, Places
<1>3. puts'[p] = <<"dp">> /\ then'[p] = "user" /\ InPut(p)' /\ pc'[p] = "put"
  BY ZenonT(30), <1>1, <1>2, PutChange
<1>4. RunShape(p) /\ (call[p] \in {"open", "create"} => at[p]["file"] = 0)
  BY ZenonT(30), <1>1 DEF Running, ShapeInv, Shape
<1>5. PutShape(p)'
  BY ZenonT(30), <1>1, <1>3, <1>4 DEF RunShape, PutShape
<1>6. Extra(p)' <=> Extra(p)
  BY ZenonT(30), <1>1, <1>3, <1>4 DEF Extra, RunShape
<1>7. lock[ROOT] = p
  BY ZenonT(30), <1>1 DEF Running, LockInv, Locks, HasDir
<1>8. LocksKept(p) /\ lock' \in [Slots -> Procs \cup {NoProc}]
  BY ZenonT(30), <1>1, <1>7, LockChange, Consts DEF icache
<1>9. call' \in [Procs -> Calls]
  BY ZenonT(30), <1>1 DEF Running, TypeOK, CallTypes
<1> QED
  BY ZenonT(30), <1>1, <1>2, <1>4, <1>5, <1>6, <1>8, <1>9, PutStep

(* sys_open() gives up with the inode locked: no descriptor is left, or    *)
(* the inode is a directory.                                               *)
LEMMA OpenFailStep ==
  ASSUME Running, NEW p \in Procs, OpenFail(p)
  PROVE  Running'
<1>1. /\ pc[p] = "inode" /\ ~InPut(p) /\ Put(p, <<"ip">>, "user")
      /\ call[p] \in {"open", "create"} /\ at[p]["dp"] = 0
      /\ UNCHANGED <<disk, dir, icache, at>> /\ UNCHANGED <<name, new>>
      /\ call' = call /\ lock' = [lock EXCEPT ![at[p]["ip"]] = NoProc]
  BY ZenonT(30) DEF OpenFail, At, InPut, args, Unlock
<1>2. /\ <<"ip">> \in Lists /\ "user" \in Places
  BY ZenonT(30) DEF Lists, Places
<1>3. puts'[p] = <<"ip">> /\ then'[p] = "user" /\ InPut(p)' /\ pc'[p] = "put"
  BY ZenonT(30), <1>1, <1>2, PutChange
<1>4. RunShape(p) /\ (call[p] \in {"open", "create"} => at[p]["file"] = 0)
  BY ZenonT(30), <1>1 DEF Running, ShapeInv, Shape
<1>5. PutShape(p)'
  BY ZenonT(30), <1>1, <1>3, <1>4 DEF RunShape, PutShape
<1>6. Extra(p)' <=> Extra(p)
  BY ZenonT(30), <1>1 DEF Extra
<1>7. HasInode(p)
  BY ZenonT(30), <1>1 DEF HasInode
<1>8. lock[at[p]["ip"]] = p /\ at[p]["ip"] \in Slots
  BY ZenonT(30), <1>7, IpHeld, IpFact DEF Running, LockInv, Locks
<1>9. LocksKept(p) /\ lock' \in [Slots -> Procs \cup {NoProc}]
  BY ZenonT(30), <1>1, <1>8, LockChange DEF icache
<1>10. call' \in [Procs -> Calls]
  BY ZenonT(30), <1>1 DEF Running, TypeOK, CallTypes
<1> QED
  BY ZenonT(30), <1>1, <1>2, <1>4, <1>5, <1>6, <1>9, <1>10, PutStep

(* sys_link() releases the directory that has the new name already, and    *)
(* goes on to take the link back.                                          *)
LEMMA LinkUnlockDirStep ==
  ASSUME Running, NEW p \in Procs, LinkUnlockDir(p)
  PROVE  Running'
<1>1. /\ pc[p] = "unlockdir" /\ ~InPut(p) /\ Put(p, <<"dp">>, "lock")
      /\ UNCHANGED <<disk, dir, icache, at>> /\ UNCHANGED <<name, new>>
      /\ call' = [call EXCEPT ![p] = "undo"] /\ lock' = [lock EXCEPT ![ROOT] = NoProc]
  BY ZenonT(30) DEF LinkUnlockDir, At, InPut, Unlock
<1>2. /\ <<"dp">> \in Lists /\ "lock" \in Places
  BY ZenonT(30) DEF Lists, Places
<1>3. puts'[p] = <<"dp">> /\ then'[p] = "lock" /\ InPut(p)' /\ pc'[p] = "put"
  BY ZenonT(30), <1>1, <1>2, PutChange
<1>4. RunShape(p) /\ call[p] = "relink"
  BY ZenonT(30), <1>1 DEF Running, ShapeInv, Shape, RunShape
<1>5. /\ call' \in [Procs -> Calls] /\ call'[p] = "undo"
      /\ \A q \in Procs \ {p} : call'[q] = call[q]
  BY ZenonT(30), <1>1 DEF Running, TypeOK, CallTypes, Calls
<1>6. PutShape(p)'
  BY ZenonT(30), <1>1, <1>3, <1>4, <1>5 DEF RunShape, PutShape
<1>7. Extra(p)' <=> Extra(p)
  BY ZenonT(30), <1>1, <1>3, <1>4, <1>5 DEF Extra
<1>8. lock[ROOT] = p
  BY ZenonT(30), <1>1 DEF Running, LockInv, Locks, HasDir
<1>9. LocksKept(p) /\ lock' \in [Slots -> Procs \cup {NoProc}]
  BY ZenonT(30), <1>1, <1>8, LockChange, Consts DEF icache
<1> QED
  BY ZenonT(30), <1>1, <1>2, <1>5, <1>6, <1>7, <1>9, PutStep

(* sys_link() of a directory. *)
LEMMA LinkDirStep ==
  ASSUME Running, NEW p \in Procs, LinkCount(p), inode[at[p]["ip"]].type = "dir"
  PROVE  Running'
<1>1. /\ pc[p] = "inode" /\ ~InPut(p) /\ Put(p, <<"ip">>, "user") /\ call[p] = "link"
      /\ UNCHANGED <<disk, dir, icache, at>> /\ UNCHANGED <<name, new>>
      /\ call' = call /\ lock' = [lock EXCEPT ![at[p]["ip"]] = NoProc]
  BY ZenonT(30) DEF LinkCount, At, InPut, icache, Unlock
<1>2. /\ <<"ip">> \in Lists /\ "user" \in Places
  BY ZenonT(30) DEF Lists, Places
<1>3. puts'[p] = <<"ip">> /\ then'[p] = "user" /\ InPut(p)' /\ pc'[p] = "put"
  BY ZenonT(30), <1>1, <1>2, PutChange
<1>4. RunShape(p)
  BY ZenonT(30), <1>1 DEF Running, ShapeInv, Shape
<1>5. PutShape(p)'
  BY ZenonT(30), <1>1, <1>3, <1>4 DEF RunShape, PutShape
<1>6. Extra(p)' <=> Extra(p)
  BY ZenonT(30), <1>1 DEF Extra
<1>7. HasInode(p)
  BY ZenonT(30), <1>1 DEF HasInode
<1>8. lock[at[p]["ip"]] = p /\ at[p]["ip"] \in Slots
  BY ZenonT(30), <1>7, IpHeld, IpFact DEF Running, LockInv, Locks
<1>9. LocksKept(p) /\ lock' \in [Slots -> Procs \cup {NoProc}]
  BY ZenonT(30), <1>1, <1>8, LockChange DEF icache
<1>10. call' \in [Procs -> Calls]
  BY ZenonT(30), <1>1 DEF Running, TypeOK, CallTypes
<1> QED
  BY ZenonT(30), <1>1, <1>2, <1>5, <1>6, <1>9, <1>10, PutStep

(* A call locks the directory.                                             *)
LEMMA LockDirStep ==
  ASSUME Running, NEW p \in Procs, LockDir(p)
  PROVE  Running'
<1>1. /\ pc[p] = "dir" /\ ~InPut(p) /\ lock[ROOT] = NoProc
      /\ lock' = [lock EXCEPT ![ROOT] = p] /\ pc' = [pc EXCEPT ![p] = "indir"]
      /\ UNCHANGED <<disk, dir, icache, at>> /\ UNCHANGED <<call, name, new, puts, then>>
  BY ZenonT(30) DEF LockDir, At, InPut, args
<1>2. /\ pc'[p] = "indir" /\ \A q \in Procs \ {p} : pc'[q] = pc[q]
      /\ CallTypes'
  BY ZenonT(30), <1>1 DEF Running, TypeOK, CallTypes, Places
<1>3. Others(p)
  BY ZenonT(30), <1>1, <1>2 DEF Others
<1>4. /\ LocksKept(p) /\ lock' \in [Slots -> Procs \cup {NoProc}] /\ lock'[ROOT] = p
  BY ZenonT(30), <1>1, LockChange, Consts DEF icache
<1>5. RunShape(p) /\ (call[p] \in {"open", "create"} => at[p]["file"] = 0)
  BY ZenonT(30), <1>1 DEF Running, ShapeInv, Shape
<1>6. RunShape(p)' /\ ~InPut(p)'
  BY ZenonT(30), <1>1, <1>2, <1>5 DEF RunShape, InPut
<1>7. Shape(p)'
  BY ZenonT(30), <1>1, <1>5, <1>6 DEF Shape
<1>8. Extra(p)' <=> Extra(p)
  BY ZenonT(30), <1>1, <1>2, <1>5, <1>6 DEF Extra, RunShape
<1>9. Looked(p)' /\ ~Nested(p)' /\ ~Keeps(p)' /\ ~HasPut(p)' /\ ~HasInode(p)'
  BY ZenonT(30), <1>2, <1>6 DEF Looked, Nested, Keeps, HasPut, HasInode
<1>10. Extra(p)' => inum'[at'[p]["ip"]] # ROOT
  BY ZenonT(30), <1>1, <1>8 DEF Running, LockInv, Locks, icache
<1>11. Locks(p)'
  BY ZenonT(30), <1>4, <1>9, <1>10 DEF Locks
<1> QED
  BY ZenonT(30), <1>1, <1>2, <1>3, <1>4, <1>7, <1>8, <1>9, <1>11, ControlStep

-----------------------------------------------------------------------------
(* Steps that take, move and drop references *)

(* The inode of a create() that has the directory is not the root, and      *)
(* only references on their way out name it.                                *)
LEMMA FreshAlone ==
  ASSUME Running, NEW p \in Procs, NEW q \in Procs \ {p}, Nested(q), call[q] = "create"
  PROVE  /\ at[q]["ip"] # ROOT /\ at[q]["ip"] # 0
         /\ \A h \in Holders : at[p][h] = at[q]["ip"] => Dropping(p, h)
<1>1. Locks(q) /\ Fresh(q)
  BY ZenonT(30) DEF Running, LockInv, LookedInv, Looked
<1>2. at[q]["ip"] # ROOT
  BY ZenonT(30), <1>1 DEF Locks, Running, RootInv
<1> QED
  BY ZenonT(30), <1>1, <1>2, IpHeld DEF Fresh

(* namex() starts at the root. *)
LEMMA EnterDirFact ==
  ASSUME Running, NEW p \in Procs, at[p]["dp"] = 0, EnterDir(p)
  PROVE  /\ RefsCounted' /\ ref' \in [Slots -> Nat] /\ HolderTypes'
         /\ \A s \in Slots : ref'[s] > 0 => ref[s] > 0
         /\ at'[p]["dp"] = ROOT
         /\ \A h \in Holders \ {"dp"} : at'[p][h] = at[p][h]
         /\ \A q \in Procs \ {p} : at'[q] = at[q] /\ pc'[q] = pc[q]
         /\ pc' \in [Procs -> Places] /\ pc'[p] = "dir"
<1>1. TypeOK /\ RefsCounted /\ "dp" \in Holders
  BY ZenonT(30) DEF Running, Holders
<1>2. RefsCounted'
  BY ZenonT(30), <1>1, RefsTake, Consts DEF EnterDir
<1>3. /\ HolderTypes' /\ at'[p]["dp"] = ROOT
      /\ \A h \in Holders \ {"dp"} : at'[p][h] = at[p][h]
      /\ \A q \in Procs \ {p} : at'[q] = at[q]
  BY ZenonT(30), <1>1, Consts DEF EnterDir, TypeOK, HolderTypes
<1>4. /\ pc' \in [Procs -> Places] /\ pc'[p] = "dir"
      /\ \A q \in Procs \ {p} : pc'[q] = pc[q]
  BY ZenonT(30), <1>1 DEF EnterDir, TypeOK, CallTypes, Places
<1>5. ref' \in [Slots -> Nat] /\ \A s \in Slots : ref'[s] > 0 => ref[s] > 0
  BY <1>1, RefPositive, Consts DEF EnterDir, TypeOK, CacheTypes
<1> QED
  BY ZenonT(30), <1>2, <1>3, <1>4, <1>5

(* A call begins.                                                          *)
LEMMA StartStep ==
  ASSUME Running, NEW p \in Procs, NEW c \in {"open", "create", "link", "unlink"},
         NEW x \in Paths, NEW y \in Paths, Start(p, c, x, y)
  PROVE  Running'
<1>1. /\ pc[p] = "user" /\ ~InPut(p) /\ (c \in {"open", "create"} => at[p]["file"] = 0)
      /\ call' = [call EXCEPT ![p] = c] /\ name' = [name EXCEPT ![p] = x]
      /\ new' = [new EXCEPT ![p] = y] /\ EnterDir(p)
      /\ UNCHANGED <<disk, dir, inode>> /\ UNCHANGED <<inum, valid, lock, puts, then>>
  BY ZenonT(30) DEF Start, At, InPut
<1>2. RunShape(p) /\ at[p]["dp"] = 0 /\ at[p]["ip"] = 0 /\ call[p] = "none"
  BY ZenonT(30), <1>1 DEF Running, ShapeInv, Shape, RunShape
<1>3. /\ RefsCounted' /\ ref' \in [Slots -> Nat] /\ HolderTypes'
      /\ \A s \in Slots : ref'[s] > 0 => ref[s] > 0
      /\ at'[p]["dp"] = ROOT
      /\ \A h \in Holders \ {"dp"} : at'[p][h] = at[p][h]
      /\ \A q \in Procs \ {p} : at'[q] = at[q] /\ pc'[q] = pc[q]
      /\ pc' \in [Procs -> Places] /\ pc'[p] = "dir"
  BY ZenonT(30), <1>1, <1>2, EnterDirFact
<1>4. /\ call' \in [Procs -> Calls] /\ name' \in [Procs -> Paths] /\ new' \in [Procs -> Paths]
      /\ call'[p] = c
      /\ \A q \in Procs \ {p} : call'[q] = call[q] /\ name'[q] = name[q]
  BY ZenonT(30), <1>1 DEF Running, TypeOK, CallTypes, Calls
<1>5. Others(p)
  BY ZenonT(30), <1>1, <1>3, <1>4 DEF Others
<1>6. LocksKept(p) /\ InumsKept
  BY ZenonT(30), <1>1 DEF LocksKept, InumsKept
<1>7. TypeOK'
  BY ZenonT(30), <1>1, <1>3, <1>4 DEF Running, TypeOK, DiskTypes, CacheTypes, CallTypes
<1>8. Unique' /\ inum'[ROOT] = ROOT
  BY ZenonT(30), <1>1, <1>3, UniqueFrame DEF Running, RootInv
<1>9. /\ at'[p]["hit"] = 0 /\ at'[p]["ip"] = 0 /\ at'[p]["file"] = at[p]["file"]
  BY ZenonT(30), <1>2, <1>3 DEF RunShape, Holders
<1>10. ~InPut(p)' /\ RunShape(p)'
  BY ZenonT(30), <1>1, <1>2, <1>3, <1>4, <1>9 DEF InPut, RunShape
<1>11. Shape(p)'
  BY ZenonT(30), <1>1, <1>4, <1>9, <1>10 DEF Shape
<1>12. ~Extra(p)' /\ ~Extra(p)
  BY ZenonT(30), <1>2, <1>3, <1>4, <1>10 DEF Extra, RunShape
<1>13. Locks(p)' /\ Looked(p)'
  BY ZenonT(30), <1>3, <1>10, <1>12 DEF Locks, Looked, HasDir, HasInode, HasPut, Keeps, Nested
<1>14. ASSUME NEW h \in Holders, at'[p][h] # 0 PROVE disk[inum'[at'[p][h]]].type # "free"
  <2>1. CASE h = "dp"
    BY <1>1, <1>3, <2>1 DEF Running, RootInv
  <2>2. CASE h # "dp"
    BY ZenonT(30), <1>1, <1>3, <1>14, <2>2 DEF Running, HeldLive, Dropping
  <2> QED
    BY ZenonT(30), <2>1, <2>2
<1>15. ASSUME NEW q \in Procs \ {p}, Nested(q), call[q] = "create",
              NEW h \in Holders, at'[p][h] = at[q]["ip"]
       PROVE  FALSE
  BY <1>1, <1>3, <1>15, FreshAlone DEF Dropping
<1>16. \A s \in valid' : s \in valid /\ (ref'[s] > 0 => ref[s] > 0 /\ inum'[s] = inum[s])
  BY ZenonT(30), <1>1, <1>3 DEF Running, TypeOK, CacheTypes
<1> QED
  BY ZenonT(30), <1>1, <1>3, <1>5, <1>6, <1>7, <1>8, <1>11, <1>12, <1>13, <1>14, <1>15, <1>16,
     CacheStep

(* sys_open() hands its reference to the file. *)
LEMMA OpenDoneStep ==
  ASSUME Running, NEW p \in Procs, OpenDone(p)
  PROVE  Running'
<1> DEFINE s == at[p]["ip"]
<1>1. /\ pc[p] = "inode" /\ ~InPut(p) /\ HasInode(p)
      /\ call[p] \in {"open", "create"} /\ at[p]["dp"] = 0
      /\ lock' = [lock EXCEPT ![s] = NoProc] /\ pc' = [pc EXCEPT ![p] = "user"]
      /\ at' = [at EXCEPT ![p] = [@ EXCEPT !["file"] = s, !["ip"] = 0]]
      /\ call' = [call EXCEPT ![p] = "none"] /\ name' = [name EXCEPT ![p] = Dot]
      /\ new' = [new EXCEPT ![p] = Dot]
      /\ UNCHANGED <<disk, dir, inode>> /\ UNCHANGED <<inum, ref, valid, puts, then>>
  BY ZenonT(30) DEF OpenDone, At, InPut, HasInode, Unlock, Return, icache
<1>2. RunShape(p) /\ at[p]["file"] = 0
  BY ZenonT(30), <1>1 DEF Running, ShapeInv, Shape
<1>3. s \in Slots /\ lock[s] = p
  BY ZenonT(30), <1>1, IpHeld, IpFact DEF Running, LockInv, Locks
<1> HIDE DEF s
<1>4. /\ LocksKept(p) /\ lock' \in [Slots -> Procs \cup {NoProc}]
  BY ZenonT(30), <1>1, <1>3, LockChange
<1>5. /\ HolderTypes' /\ at'[p]["file"] = s /\ at'[p]["ip"] = 0
      /\ \A h \in {"dp", "hit"} : at'[p][h] = at[p][h]
      /\ \A q \in Procs \ {p} : at'[q] = at[q]
  BY ZenonT(30), <1>1, <1>3, Consts DEF Running, TypeOK, HolderTypes, Holders
<1>6. CallTypes' /\ pc'[p] = "user" /\ call'[p] = "none"
  BY ZenonT(30), <1>1, Consts DEF Running, TypeOK, CallTypes, Places, Calls
<1>7. Others(p)
  BY ZenonT(30), <1>1, <1>5 DEF Others, Running, TypeOK, CallTypes
<1>8. InumsKept /\ inum'[ROOT] = ROOT
  BY ZenonT(30), <1>1 DEF InumsKept, Running, RootInv
<1>9. TypeOK'
  BY ZenonT(30), <1>1, <1>4, <1>5, <1>6 DEF Running, TypeOK, DiskTypes, CacheTypes
<1>10. RefsCounted'
  BY ZenonT(30), <1>1, <1>2, <1>3, RefsMove DEF Running, s
<1>11. Unique'
  BY ZenonT(30), <1>1, UniqueFrame
<1>12. ~InPut(p)' /\ RunShape(p)' /\ Shape(p)'
  BY ZenonT(30), <1>1, <1>2, <1>5, <1>6 DEF InPut, RunShape, Shape
<1>13. ~Extra(p) /\ ~Extra(p)'
  BY ZenonT(30), <1>1, <1>6 DEF Extra
<1>14. Locks(p)' /\ Looked(p)'
  BY ZenonT(30), <1>6, <1>12, <1>13 DEF Locks, Looked, HasDir, HasInode, HasPut, Keeps, Nested
<1>15. ASSUME NEW h \in Holders, at'[p][h] # 0
       PROVE  \E g \in Holders : at'[p][h] = at[p][g]
  BY ZenonT(30), <1>5, <1>15 DEF Holders, s
<1>16. ASSUME NEW h \in Holders, at'[p][h] # 0 PROVE disk[inum'[at'[p][h]]].type # "free"
  BY ZenonT(30), <1>1, <1>15, <1>16 DEF Running, HeldLive, Dropping
<1>17. ASSUME NEW q \in Procs \ {p}, Nested(q), call[q] = "create",
              NEW h \in Holders, at'[p][h] = at[q]["ip"]
       PROVE  FALSE
  BY ZenonT(30), <1>1, <1>15, <1>17, FreshAlone DEF Dropping
<1>18. \A t \in valid' : t \in valid /\ (ref'[t] > 0 => ref[t] > 0 /\ inum'[t] = inum[t])
  BY ZenonT(30), <1>1
<1> QED
  BY ZenonT(30), <1>1, <1>4, <1>7, <1>8, <1>9, <1>10, <1>11, <1>12, <1>13, <1>14, <1>16, <1>17,
     <1>18, CacheStep

(* The entry that iput() is at, and the locks the call keeps meanwhile. *)
LEMMA PutLocks ==
  ASSUME Running, NEW p \in Procs, HasPut(p)
  PROVE  /\ InPut(p) /\ Putting(p) \in Slots /\ lock[Putting(p)] = p
         /\ HasDir(p) => Putting(p) # ROOT
         /\ HasInode(p) => at[p]["ip"] \in Slots /\ Putting(p) # at[p]["ip"]
<1>1. Locks(p) /\ InPut(p) /\ ~Nested(p)
      /\ pc[p] \notin {"indir", "unlockdir", "inode", "unlinked"}
  BY ZenonT(30) DEF Running, LockInv, HasPut, InPut, Nested
<1>2. HasDir(p) => Putting(p) # ROOT
  BY ZenonT(30), <1>1, PuttingFact DEF HasDir, Locks
<1>3. HasInode(p) => Keeps(p) /\ Putting(p) = ROOT /\ at[p]["ip"] \in Slots
  BY ZenonT(30), <1>1, PuttingFact, IpHeld, IpFact DEF HasInode, Keeps
<1>4. HasInode(p) => at[p]["ip"] # ROOT
  BY ZenonT(30), <1>1, <1>3 DEF Running, RootInv, Locks
<1> QED
  BY ZenonT(30), <1>1, <1>2, <1>3, <1>4, PuttingFact DEF Locks

(* iput() goes on with the same reference. *)
LEMMA PutGoesOn ==
  ASSUME Running, NEW p \in Procs, HasPut(p), pc'[p] \in {"freed", "drop"},
         UNCHANGED <<at, puts, then, call, inum>>, valid \ {Putting(p)} \subseteq valid',
         \A t \in Slots \ {Putting(p)} : lock'[t] = lock[t],
         pc'[p] = "freed" => lock'[Putting(p)] = p
  PROVE  Shape(p)' /\ Locks(p)' /\ Looked(p)' /\ (Extra(p)' <=> Extra(p))
<1>1. InPut(p) /\ InPut(p)' /\ PutShape(p) /\ Putting(p)' = Putting(p)
  BY ZenonT(30), PutLocks, PuttingFact DEF InPut, Putting
<1>2. Shape(p)'
  BY ZenonT(30), <1>1 DEF Running, ShapeInv, Shape, PutShape
<1>3. ~Nested(p)' /\ ~Nested(p) /\ Looked(p)'
  BY ZenonT(30) DEF Nested, Looked, HasPut
<1>4. /\ Extra(p)' <=> Extra(p)
      /\ Keeps(p)' <=> Keeps(p)
  BY ZenonT(30), <1>1 DEF Extra, Keeps, HasPut
<1>5. /\ HasDir(p)' <=> HasDir(p)
      /\ HasInode(p)' <=> HasInode(p)
  BY ZenonT(30), <1>1, <1>3, <1>4 DEF HasDir, HasInode, HasPut
<1>6. Locks(p)
  BY ZenonT(30) DEF Running, LockInv
<1>7. HasDir(p)' => lock'[ROOT] = p
  BY ZenonT(30), <1>5, <1>6, PutLocks, Consts DEF Locks
<1>8. HasInode(p)' => lock'[at[p]["ip"]] = p /\ at[p]["ip"] \in valid'
  BY ZenonT(30), <1>5, <1>6, PutLocks DEF Locks
<1>9. HasPut(p)' => lock'[Putting(p)'] = p
  BY ZenonT(30), <1>1 DEF HasPut
<1>10. (Extra(p) \/ Nested(p) \/ Keeps(p))' => inum[at[p]["ip"]] # ROOT
  BY ZenonT(30), <1>3, <1>4, <1>6 DEF Locks
<1>11. Locks(p)'
  BY ZenonT(30), <1>6, <1>7, <1>8, <1>9, <1>10 DEF Locks
<1> QED
  BY ZenonT(30), <1>2, <1>3, <1>4, <1>11

(* iput() has freed the inode, and releases the entry. *)
LEMMA PutFreedStep ==
  ASSUME Running, NEW p \in Procs, PutFreed(p)
  PROVE  Running'
<1>1. /\ pc[p] = "freed" /\ HasPut(p) /\ valid' = valid \ {Putting(p)}
      /\ lock' = [lock EXCEPT ![Putting(p)] = NoProc] /\ pc' = [pc EXCEPT ![p] = "drop"]
      /\ UNCHANGED <<disk, dir, inode>> /\ UNCHANGED <<inum, ref, name, new>>
      /\ UNCHANGED <<at, puts, then, call>>
  BY ZenonT(30) DEF PutFreed, At, HasPut, Unlock, args
<1>2. Putting(p) \in Slots /\ lock[Putting(p)] = p
  BY ZenonT(30), <1>1, PutLocks
<1>3. /\ LocksKept(p) /\ lock' \in [Slots -> Procs \cup {NoProc}]
      /\ \A t \in Slots \ {Putting(p)} : lock'[t] = lock[t]
  BY ZenonT(30), <1>1, <1>2, LockChange
<1>4. CallTypes' /\ pc'[p] = "drop" /\ \A q \in Procs \ {p} : pc'[q] = pc[q]
  BY ZenonT(30), <1>1 DEF Running, TypeOK, CallTypes, Places
<1>5. Others(p)
  BY ZenonT(30), <1>1, <1>4 DEF Others
<1>6. InumsKept /\ inum'[ROOT] = ROOT
  BY ZenonT(30), <1>1 DEF InumsKept, Running, RootInv
<1>7. TypeOK'
  BY ZenonT(30), <1>1, <1>3, <1>4 DEF Running, TypeOK, DiskTypes, CacheTypes, HolderTypes
<1>8. RefsCounted' /\ Unique'
  BY ZenonT(30), <1>1, RefsSame, UniqueFrame DEF Running
<1>9. Shape(p)' /\ Locks(p)' /\ Looked(p)' /\ (Extra(p)' <=> Extra(p))
  BY ZenonT(30), <1>1, <1>3, <1>4, PutGoesOn
<1>10. \A h \in Holders : Dropping(p, h)' <=> Dropping(p, h)
  BY ZenonT(30), <1>1, <1>4 DEF Dropping
<1>11. ASSUME NEW h \in Holders, at'[p][h] # 0, ~Dropping(p, h)'
       PROVE  disk[inum'[at'[p][h]]].type # "free"
  BY ZenonT(30), <1>1, <1>10, <1>11 DEF Running, HeldLive
<1>12. ASSUME NEW q \in Procs \ {p}, Nested(q), call[q] = "create",
              NEW h \in Holders, at'[p][h] = at[q]["ip"]
       PROVE  Dropping(p, h)'
  BY ZenonT(30), <1>1, <1>10, <1>12, FreshAlone
<1>13. \A s \in valid' : s \in valid /\ (ref'[s] > 0 => ref[s] > 0 /\ inum'[s] = inum[s])
  BY ZenonT(30), <1>1
<1> QED
  BY ZenonT(30), <1>1, <1>3, <1>5, <1>6, <1>7, <1>8, <1>9, <1>11, <1>12, <1>13, CacheStep

(* iput() does not free the inode. *)
LEMMA PutTestKeeps ==
  ASSUME Running, NEW p \in Procs, PutTest(p), UNCHANGED <<inode, disk>>,
         Unlock(Putting(p)), pc' = [pc EXCEPT ![p] = "drop"]
  PROVE  Running'
<1>1. /\ pc[p] = "putting" /\ HasPut(p)
      /\ lock' = [lock EXCEPT ![Putting(p)] = NoProc]
      /\ UNCHANGED <<disk, dir, icache, at>> /\ UNCHANGED <<at, puts, then, call, inum>>
      /\ UNCHANGED <<name, new, valid>>
  BY ZenonT(30) DEF PutTest, At, Unlock, HasPut, icache, args
<1>2. Putting(p) \in Slots /\ lock[Putting(p)] = p
  BY ZenonT(30), <1>1, PutLocks
<1>3. /\ LocksKept(p) /\ lock' \in [Slots -> Procs \cup {NoProc}]
      /\ \A t \in Slots \ {Putting(p)} : lock'[t] = lock[t]
  BY ZenonT(30), <1>1, <1>2, LockChange
<1>4. CallTypes' /\ pc'[p] = "drop" /\ \A q \in Procs \ {p} : pc'[q] = pc[q]
  BY ZenonT(30), <1>1 DEF Running, TypeOK, CallTypes, Places
<1>5. Others(p)
  BY ZenonT(30), <1>1, <1>4 DEF Others
<1>6. Shape(p)' /\ Locks(p)' /\ Looked(p)' /\ (Extra(p)' <=> Extra(p))
  BY ZenonT(30), <1>1, <1>3, <1>4, PutGoesOn
<1> QED
  BY ZenonT(30), <1>1, <1>3, <1>4, <1>5, <1>6, ControlStep

(* Where the end of iput() leads. *)
LEMMA DropShape ==
  ASSUME Running, NEW p \in Procs, PutDrop(p)
  PROVE  /\ Shape(p)' /\ ~HasPut(p)' /\ ~Nested(p)' /\ ~Keeps(p)'
         /\ HasDir(p)' => HasDir(p)
         /\ HasInode(p)' => HasInode(p)
         /\ Extra(p)' <=> Extra(p)
         /\ HasInode(p) \/ Extra(p) => at'[p]["ip"] = at[p]["ip"]
         /\ CallTypes'
<1> DEFINE n == IF Len(puts[p]) > 1 THEN "put" ELSE then[p]
           t == IF Len(puts[p]) > 1 THEN then[p] ELSE "user"
           c == IF n = "user" THEN "none" ELSE call[p]
<1>1. /\ pc[p] = "drop" /\ InPut(p)
      /\ at' = [at EXCEPT ![p][Head(puts[p])] = 0]
      /\ puts' = [puts EXCEPT ![p] = Tail(@)] /\ pc' = [pc EXCEPT ![p] = n]
      /\ then' = [then EXCEPT ![p] = t]
  BY ZenonT(30) DEF PutDrop, At, InPut
<1>2. /\ PutShape(p) /\ Head(puts[p]) \in Holders
      /\ call[p] \in {"open", "create"} => at[p]["file"] = 0
  BY ZenonT(30), <1>1, PuttingFact DEF Running, ShapeInv, Shape
<1>3. n \in Places /\ t \in Places /\ Tail(puts[p]) \in Lists
  BY ZenonT(30), <1>2, ListFacts DEF PutShape, Places, Lists
<1>4. /\ pc' \in [Procs -> Places] /\ puts' \in [Procs -> Lists] /\ then' \in [Procs -> Places]
      /\ pc'[p] = n /\ puts'[p] = Tail(puts[p]) /\ then'[p] = t
  BY ZenonT(30), <1>1, <1>3 DEF Running, TypeOK, CallTypes
<1>5. /\ call' \in [Procs -> Calls] /\ name' \in [Procs -> Paths] /\ new' \in [Procs -> Paths]
      /\ call'[p] = c
  BY <1>4, Consts DEF PutDrop, Return, args, Running, TypeOK, CallTypes, Calls
<1>6. /\ at'[p][Head(puts[p])] = 0
      /\ \A h \in Holders : h # Head(puts[p]) => at'[p][h] = at[p][h]
  BY ZenonT(30), <1>1, <1>2 DEF Running, TypeOK, HolderTypes
<1>7. CallTypes'
  BY ZenonT(30), <1>4, <1>5 DEF CallTypes
<1> HIDE DEF n, t, c
<1>8. CASE puts[p] = <<"dp", "ip">>
  <2>1. n = "put" /\ t = "user" /\ c = call[p] /\ puts'[p] = <<"ip">>
    BY <1>2, <1>4, <1>8, ListFacts, ListsDiffer DEF n, t, c, PutShape
  <2>2. /\ at'[p]["dp"] = 0 /\ at'[p]["hit"] = 0 /\ at'[p]["ip"] # 0 /\ call[p] = "relink"
        /\ then[p] = "user"
    BY ZenonT(30), <1>2, <1>6, <1>8, ListFacts, ListsDiffer DEF PutShape, Holders
  <2>3. InPut(p)' /\ PutShape(p)' /\ Shape(p)'
    BY ZenonT(30), <1>4, <1>5, <2>1, <2>2 DEF InPut, PutShape, Shape
  <2>4. ~HasPut(p)' /\ ~Nested(p)' /\ ~Keeps(p)' /\ ~HasDir(p)' /\ ~HasInode(p)'
    BY ZenonT(30), <1>4, <2>1, <2>2, <2>3 DEF HasPut, Nested, Keeps, HasDir, HasInode
  <2>5. ~Extra(p)' /\ ~Extra(p) /\ ~HasInode(p)
    BY ZenonT(30), <1>1, <1>4, <1>5, <2>1, <2>2, <2>3 DEF Extra, HasInode, Keeps
  <2> QED
    BY ZenonT(30), <1>7, <2>3, <2>4, <2>5
<1>9. CASE puts[p] # <<"dp", "ip">>
  <2>1. /\ n = then[p] /\ t = "user" /\ ~InPut(p)'
        /\ c = IF then[p] = "user" THEN "none" ELSE call[p]
    BY <1>2, <1>4, <1>9, ListFacts DEF n, t, c, PutShape, InPut
  <2>2. ~HasPut(p)' /\ ~Keeps(p)'
    BY ZenonT(30), <1>2, <1>4, <2>1 DEF HasPut, Keeps, PutShape
  <2>3. CASE then[p] = "user"
    <3>1. /\ at'[p]["dp"] = 0 /\ at'[p]["ip"] = 0 /\ at'[p]["hit"] = 0
      BY ZenonT(30), <1>2, <1>6, <1>9, <2>3, ListFacts DEF PutShape, Holders
    <3>2. RunShape(p)' /\ Shape(p)'
      BY ZenonT(30), <1>4, <1>5, <2>1, <2>3, <3>1 DEF RunShape, Shape
    <3>3. ~Nested(p)' /\ ~HasDir(p)' /\ ~HasInode(p)' /\ ~Extra(p)'
      BY ZenonT(30), <1>4, <1>5, <2>1, <2>2, <2>3 DEF Nested, HasDir, HasInode, Extra
    <3>4. ~Extra(p) /\ ~HasInode(p)
      BY ZenonT(30), <1>1, <2>3 DEF Extra, HasInode, Keeps
    <3> QED
      BY ZenonT(30), <1>7, <2>2, <3>2, <3>3, <3>4
  <2>4. CASE then[p] = "unlockdir"
    <3>1. /\ at'[p]["dp"] = ROOT /\ at'[p]["ip"] = at[p]["ip"] /\ at'[p]["hit"] = 0
          /\ at[p]["ip"] # 0 /\ call[p] = "relink"
      BY ZenonT(30), <1>2, <1>6, <2>4, ListFacts DEF PutShape, Holders
    <3>2. RunShape(p)' /\ Shape(p)'
      BY ZenonT(30), <1>4, <1>5, <2>1, <2>4, <3>1 DEF RunShape, Shape
    <3>3. ~Nested(p)' /\ HasDir(p) /\ ~HasInode(p)' /\ Extra(p)' /\ Extra(p)
      BY ZenonT(30), <1>1, <1>4, <1>5, <2>1, <2>2, <2>4, <3>1 DEF Nested, HasDir, HasInode, Extra
    <3> QED
      BY ZenonT(30), <1>7, <2>2, <3>1, <3>2, <3>3
  <2>5. CASE then[p] \notin {"user", "unlockdir"}
    <3>1. puts[p] = <<"dp">>
      BY ZenonT(30), <1>2, <1>9, <2>5 DEF PutShape
    <3>2. /\ at'[p]["dp"] = 0 /\ at'[p]["ip"] = at[p]["ip"] /\ at'[p]["hit"] = 0
          /\ at'[p]["file"] = at[p]["file"] /\ at[p]["ip"] # 0
          /\ \/ then[p] = "lock" /\ call[p] \in {"open", "create", "link", "undo"}
             \/ then[p] = "inode" /\ call[p] = "create"
             \/ then[p] = "unlinked" /\ call[p] = "unlink"
      BY ZenonT(30), <1>2, <1>6, <2>5, <3>1, ListFacts, ListsDiffer DEF PutShape, Holders
    <3>3. RunShape(p)' /\ Shape(p)'
      BY ZenonT(30), <1>2, <1>4, <1>5, <2>1, <2>5, <3>2 DEF RunShape, Shape
    <3>4. ~Nested(p)' /\ ~HasDir(p)' /\ (HasInode(p)' <=> HasInode(p))
      BY ZenonT(30), <1>1, <1>4, <2>1, <2>2, <3>2 DEF Nested, HasDir, HasInode, Keeps
    <3>5. Extra(p)' <=> Extra(p)
      BY ZenonT(30), <1>1, <1>4, <1>5, <2>1, <2>5, <3>2 DEF Extra
    <3> QED
      BY ZenonT(30), <1>7, <2>2, <3>2, <3>3, <3>4, <3>5
  <2> QED
    BY ZenonT(30), <2>3, <2>4, <2>5
<1> QED
  BY ZenonT(30), <1>8, <1>9

(* iput() drops the reference, and the call goes on.                       *)
LEMMA PutDropStep ==
  ASSUME Running, NEW p \in Procs, PutDrop(p)
  PROVE  Running'
<1> DEFINE h0 == Head(puts[p])
<1>1. /\ pc[p] = "drop" /\ InPut(p)
      /\ at' = [at EXCEPT ![p][h0] = 0] /\ ref' = [ref EXCEPT ![Putting(p)] = @ - 1]
      /\ UNCHANGED <<disk, dir, inode>> /\ UNCHANGED <<inum, valid, lock>>
      /\ \A q \in Procs \ {p} : /\ pc'[q] = pc[q] /\ call'[q] = call[q] /\ name'[q] = name[q]
                                /\ puts'[q] = puts[q] /\ then'[q] = then[q]
  BY ZenonT(30) DEF PutDrop, At, InPut, Return, args, Running, TypeOK, CallTypes
<1>2. h0 \in Holders /\ Putting(p) = at[p][h0] /\ Putting(p) \in Slots /\ ref[Putting(p)] > 0
  BY ZenonT(30), <1>1, PuttingFact
<1> HIDE DEF h0
<1>3. /\ HolderTypes' /\ at'[p][h0] = 0
      /\ \A h \in Holders : h # h0 => at'[p][h] = at[p][h]
      /\ \A q \in Procs \ {p} : at'[q] = at[q]
  BY ZenonT(30), <1>1, <1>2, Consts DEF Running, TypeOK, HolderTypes
<1>4. Others(p)
  BY ZenonT(30), <1>1, <1>3 DEF Others
<1>5. LocksKept(p) /\ InumsKept /\ inum'[ROOT] = ROOT
  BY ZenonT(30), <1>1 DEF LocksKept, InumsKept, Running, RootInv
<1>6. RefsCounted'
  BY ZenonT(30), <1>1, <1>2, RefsDrop DEF Running
<1>7. ref' \in [Slots -> Nat] /\ \A s \in Slots : ref'[s] > 0 => ref[s] > 0
  BY <1>1, <1>2 DEF Running, TypeOK, CacheTypes
<1>8. TypeOK'
  BY ZenonT(30), <1>1, <1>3, <1>7, DropShape DEF Running, TypeOK, DiskTypes, CacheTypes
<1>9. Unique'
  BY ZenonT(30), <1>1, <1>7, UniqueFrame
<1>10. Shape(p)' /\ Looked(p)' /\ (Extra(p)' <=> Extra(p))
  BY ZenonT(30), DropShape DEF Looked
<1>11. Locks(p)'
  BY <1>1, DropShape DEF Running, LockInv, Locks
<1>12. \A h \in Holders : Dropping(p, h) <=> h = h0
  BY ZenonT(30), <1>1 DEF Dropping, h0
<1>13. ASSUME NEW h \in Holders, at'[p][h] # 0 PROVE disk[inum'[at'[p][h]]].type # "free"
  BY ZenonT(30), <1>1, <1>3, <1>12, <1>13 DEF Running, HeldLive
<1>14. ASSUME NEW q \in Procs \ {p}, Nested(q), call[q] = "create",
              NEW h \in Holders, at'[p][h] = at[q]["ip"]
       PROVE  FALSE
  BY ZenonT(30), <1>3, <1>12, <1>14, FreshAlone
<1>15. \A s \in valid' : s \in valid /\ (ref'[s] > 0 => ref[s] > 0 /\ inum'[s] = inum[s])
  BY ZenonT(30), <1>1, <1>7 DEF Running, TypeOK, CacheTypes
<1>16. Extra(p) => at'[p]["ip"] = at[p]["ip"]
  BY ZenonT(30), DropShape
<1> QED
  BY ZenonT(30), <1>1, <1>4, <1>5, <1>6, <1>8, <1>9, <1>10, <1>11, <1>13, <1>14, <1>15, <1>16,
     CacheStep

-----------------------------------------------------------------------------
(* Freeing an inode, and ilock() *)

(* An inode has finitely many entries, and links on their way.             *)
LEMMA CountsFinite ==
  ASSUME NEW i
  PROVE  /\ IsFiniteSet(Entries(i)) /\ Cardinality(Entries(i)) \in Nat
         /\ IsFiniteSet(Pending(i)) /\ Cardinality(Pending(i)) \in Nat
<1>1. IsFiniteSet(Paths) /\ IsFiniteSet(Procs)
  BY ZenonT(30), IcacheAssumption, FS_AddElement DEF Paths
<1>2. Entries(i) \subseteq Paths /\ Pending(i) \subseteq Procs
  BY ZenonT(30) DEF Entries, Pending
<1>3. IsFiniteSet(Entries(i)) /\ IsFiniteSet(Pending(i))
  BY ZenonT(30), <1>1, <1>2, FS_Subset
<1> QED
  BY ZenonT(30), <1>3, FS_CardinalityType

(* An inode without links is in no directory, and no link to it is counted. *)
LEMMA NoLinks ==
  ASSUME Running, NEW i \in Inums \ {ROOT}
  PROVE  /\ disk[i].nlink = 0 <=> Entries(i) = {} /\ Pending(i) = {}
         /\ disk[i].nlink \in Nat
<1>1. disk[i].nlink = Cardinality(Entries(i)) + Cardinality(Pending(i)) /\ disk[i].nlink \in Nat
  BY ZenonT(30) DEF Running, LinkInv, TypeOK, DiskTypes, Inodes
<1>2. /\ Cardinality(Entries(i)) = 0 <=> Entries(i) = {}
      /\ Cardinality(Pending(i)) = 0 <=> Pending(i) = {}
  BY ZenonT(30), CountsFinite, FS_EmptySet
<1>3. Cardinality(Entries(i)) \in Nat /\ Cardinality(Pending(i)) \in Nat
  BY ZenonT(30), CountsFinite
<1> QED
  BY <1>1, <1>2, <1>3

(* The inode of an entry the process has locked. *)
LEMMA Locked ==
  ASSUME Running, NEW p \in Procs, NEW s \in Slots, lock[s] = p, pc[p] # "freed",
         s \in valid, ref[s] > 0
  PROVE  /\ inode[s] = disk[inum[s]] /\ inode[s].type # "free"
         /\ inum[s] = ROOT <=> s = ROOT
<1>1. ~Freeing(s)
  BY ZenonT(30), NotFreeing
<1>2. inode[s] = disk[inum[s]] /\ inode[s].type # "free"
  BY ZenonT(30), <1>1 DEF Running, ValidInv
<1>3. ref[ROOT] > 0 /\ inum[ROOT] = ROOT
  BY ZenonT(30), RefPositive DEF Running, RootInv
<1> QED
  BY ZenonT(30), <1>2, <1>3, Consts DEF Running, Unique

(* What iput() frees: the only reference to an inode without links. *)
LEMMA FreesAlone ==
  ASSUME Running, NEW p \in Procs, pc[p] = "putting",
         Putting(p) \in valid, inode[Putting(p)].nlink = 0, ref[Putting(p)] = 1
  PROVE  /\ HasPut(p) /\ Putting(p) \in Slots /\ inum[Putting(p)] \in Inums \ {ROOT}
         /\ inode[Putting(p)] = disk[inum[Putting(p)]]
         /\ Entries(inum[Putting(p)]) = {}
         /\ \A q \in Procs, h \in Holders :
              at[q][h] # 0 /\ inum[at[q][h]] = inum[Putting(p)] => q = p /\ h = Head(puts[p])
<1> DEFINE s == Putting(p)
<1>1. HasPut(p) /\ InPut(p)
  BY ZenonT(30) DEF HasPut, InPut
<1>2. s \in Slots /\ lock[s] = p /\ Head(puts[p]) \in Holders /\ at[p][Head(puts[p])] = s
  BY ZenonT(30), <1>1, PutLocks, PuttingFact
<1> HIDE DEF s
<1>3. inode[s] = disk[inum[s]] /\ (inum[s] = ROOT <=> s = ROOT)
  BY <1>2, Locked DEF s
<1>4. inum[s] \in Inums
  BY ZenonT(30), <1>2 DEF Running, TypeOK, CacheTypes
<1>5. inum[s] # ROOT /\ s # ROOT
  BY <1>3 DEF Running, RootInv, s
<1>6. Entries(inum[s]) = {}
  BY ZenonT(30), <1>3, <1>4, <1>5, NoLinks DEF s
<1>7. ASSUME NEW q \in Procs, NEW h \in Holders, at[q][h] # 0, inum[at[q][h]] = inum[s]
      PROVE  q = p /\ h = Head(puts[p])
  <2>1. at[q][h] \in Slots /\ ref[at[q][h]] > 0 /\ ref[s] = 1
    BY ZenonT(30), <1>7, RefPositive DEF Running, s
  <2>2. at[q][h] = s
    BY <1>2, <1>7, <2>1 DEF Running, Unique
  <2> QED
    BY <1>2, <1>5, <2>1, <2>2, RefOnly DEF Running
<1> QED
  BY ZenonT(30), <1>1, <1>2, <1>3, <1>4, <1>5, <1>6, <1>7 DEF s

(* iput() frees the inode: it was the last reference, and there is no      *)
(* link.                                                                   *)
LEMMA PutTestFrees ==
  ASSUME Running, NEW p \in Procs, PutTest(p),
         Putting(p) \in valid, inode[Putting(p)].nlink = 0, ref[Putting(p)] = 1
  PROVE  Running'
<1> DEFINE s == Putting(p)
           i == inum[s]
<1>1. /\ pc[p] = "putting" /\ inode' = [inode EXCEPT ![s].type = "free"]
      /\ disk' = [disk EXCEPT ![i] = inode'[s]]
      /\ pc' = [pc EXCEPT ![p] = "freed"] /\ UNCHANGED <<lock, dir, ref, valid, name, new>>
      /\ UNCHANGED <<at, puts, then, call, inum>>
  BY ZenonT(30) DEF PutTest, At, args
<1>2. /\ HasPut(p) /\ s \in Slots /\ i \in Inums \ {ROOT} /\ inode[s] = disk[i] /\ Entries(i) = {}
      /\ \A q \in Procs, h \in Holders :
           at[q][h] # 0 /\ inum[at[q][h]] = i => q = p /\ h = Head(puts[p])
  BY ZenonT(30), <1>1, FreesAlone
<1>3. lock[s] = p /\ Head(puts[p]) \in Holders /\ ref[s] > 0 /\ s \in valid
  BY ZenonT(30), <1>2, PutLocks, PuttingFact
<1> HIDE DEF s, i
<1>4. /\ inode' \in [Slots -> Inodes] /\ disk' \in [Inums -> Inodes]
      /\ \A t \in Slots \ {s} : inode'[t] = inode[t]
      /\ \A j \in Inums \ {i} : disk'[j] = disk[j]
      /\ disk'[i].nlink = disk[i].nlink
  BY ZenonT(30), <1>1, <1>2 DEF Running, TypeOK, DiskTypes, CacheTypes, Inodes
<1>5. CallTypes' /\ pc'[p] = "freed" /\ \A q \in Procs \ {p} : pc'[q] = pc[q]
  BY ZenonT(30), <1>1 DEF Running, TypeOK, CallTypes, Places
<1>6. Others(p)
  BY ZenonT(30), <1>1, <1>5 DEF Others
<1>7. LocksKept(p) /\ InumsKept
  BY ZenonT(30), <1>1 DEF LocksKept, InumsKept
<1>8. TypeOK'
  BY ZenonT(30), <1>1, <1>4, <1>5 DEF Running, TypeOK, DiskTypes, CacheTypes, HolderTypes
<1>9. RefsCounted' /\ Unique'
  BY ZenonT(30), <1>1, RefsSame, UniqueFrame DEF Running
<1>10. Shape(p)' /\ Locks(p)' /\ Looked(p)' /\ (Extra(p)' <=> Extra(p))
  BY ZenonT(30), <1>1, <1>2, <1>3, <1>5, PutGoesOn DEF s
<1>11. ShapeInv' /\ LockInv'
  BY ZenonT(30), <1>6, <1>7, <1>10, OthersShape, OthersLocks
<1>12. LookedInv'
  <2>1. ASSUME NEW q \in Procs \ {p}, Nested(q), call[q] = "create"
        PROVE  /\ disk'[inum[at[q]["ip"]]].nlink = disk[inum[at[q]["ip"]]].nlink
               /\ \A h \in Holders : at'[p][h] = at[q]["ip"] => Dropping(p, h)'
    BY <1>1, <1>4, <2>1, FreshAlone, IpFact DEF Dropping
  <2> QED
    BY ZenonT(30), <1>1, <1>6, <1>7, <1>10, <2>1, OthersLooked
<1>13. HeldLive'
  <2> SUFFICES ASSUME NEW q \in Procs, NEW h \in Holders, at[q][h] # 0, ~Dropping(q, h)'
               PROVE  disk'[inum[at[q][h]]].type # "free"
    BY ZenonT(30), <1>1 DEF HeldLive
  <2>1. \A g \in Holders : g = Head(puts[p]) => Dropping(p, g)'
    BY ZenonT(30), <1>1, <1>5 DEF Dropping
  <2>2. inum[at[q][h]] # i
    BY ZenonT(30), <1>2, <2>1
  <2>3. inum[at[q][h]] \in Inums
    BY ZenonT(30), RefPositive DEF Running, TypeOK, CacheTypes
  <2>4. ~Dropping(q, h)
    BY ZenonT(30), <1>1, <1>6, OthersSame DEF Dropping
  <2> QED
    BY ZenonT(30), <1>4, <2>2, <2>3, <2>4 DEF Running, HeldLive
<1>14. ValidInv'
  <2> SUFFICES ASSUME NEW t \in valid, ref[t] > 0, ~Freeing(t)'
               PROVE  inode'[t] = disk'[inum[t]] /\ inode'[t].type # "free"
    BY ZenonT(30), <1>1 DEF ValidInv
  <2>1. \A g : g = s => Freeing(g)'
    BY ZenonT(30), <1>1, <1>5 DEF Freeing, Putting, s
  <2>2. t # s /\ t \in Slots
    BY ZenonT(30), <2>1 DEF Running, TypeOK, CacheTypes
  <2>3. inum[t] # i /\ inum[t] \in Inums
    BY ZenonT(30), <1>2, <1>3, <2>2 DEF Running, Unique, TypeOK, CacheTypes, i
  <2>4. ~Freeing(t)
    <3> SUFFICES ASSUME NEW q \in Procs, pc[q] = "freed", Putting(q) = t PROVE FALSE
      BY ZenonT(30) DEF Freeing
    <3>1. q # p
      BY ZenonT(30), <1>1
    <3> QED
      BY ZenonT(30), <1>6, <3>1, OthersSame DEF Freeing, Others
  <2> QED
    BY ZenonT(30), <1>4, <2>2, <2>3, <2>4 DEF Running, ValidInv
<1>15. RootInv' /\ DirLive'
  BY <1>1, <1>2, <1>4, Consts DEF Running, RootInv, DirLive, Entries, TypeOK, DiskTypes
<1>16. LinkInv'
  BY ZenonT(30), <1>1, <1>4, <1>6, <1>7, <1>10, LinkFrame
<1> QED
  BY ZenonT(30), <1>8, <1>9, <1>11, <1>12, <1>13, <1>14, <1>15, <1>16 DEF Running

(* iput() tests the link count and the references.                         *)
LEMMA PutTestStep ==
  ASSUME Running, NEW p \in Procs, PutTest(p)
  PROVE  Running'
<1>1. CASE Putting(p) \in valid /\ inode[Putting(p)].nlink = 0 /\ ref[Putting(p)] = 1
  BY ZenonT(30), <1>1, PutTestFrees
<1>2. CASE ~(Putting(p) \in valid /\ inode[Putting(p)].nlink = 0 /\ ref[Putting(p)] = 1)
  <2>1. UNCHANGED <<inode, disk>> /\ Unlock(Putting(p)) /\ pc' = [pc EXCEPT ![p] = "drop"]
    BY ZenonT(30), <1>2 DEF PutTest
  <2> QED
    BY ZenonT(30), <2>1, PutTestKeeps
<1> QED
  BY ZenonT(30), <1>1, <1>2

(* ilock() finds an inode in use: "ilock: no type" is never reached. *)
LEMMA LockInodeStep ==
  ASSUME Running, panic = "none", NEW p \in Procs, LockInode(p)
  PROVE  Running' /\ panic' = "none"
<1> DEFINE s == at[p]["ip"]
<1>1. /\ pc[p] = "lock" /\ ~InPut(p) /\ lock[s] = NoProc /\ lock' = [lock EXCEPT ![s] = p]
      /\ inode' = [inode EXCEPT ![s] = IF s \in valid THEN @ ELSE disk[inum[s]]]
      /\ valid' = valid \cup {s} /\ pc' = [pc EXCEPT ![p] = "inode"]
      /\ panic' = (IF s \notin valid /\ inode'[s].type = "free" THEN "ilock: no type" ELSE panic)
      /\ UNCHANGED <<disk, dir, inum, ref, call, name, new, at, puts, then>>
  BY ZenonT(30) DEF LockInode, At, InPut, args
<1>2. s # 0 /\ s \in Slots /\ ref[s] > 0 /\ inum[s] \in Inums
  BY ZenonT(30), <1>1, IpHeld, IpFact
<1>3. disk[inum[s]].type # "free"
  BY ZenonT(30), <1>1, <1>2 DEF Running, HeldLive, Dropping, Holders
<1>4. RunShape(p) /\ (call[p] \in {"open", "create"} => at[p]["file"] = 0)
  BY ZenonT(30), <1>1 DEF Running, ShapeInv, Shape
<1>5. Locks(p) /\ Looked(p)
  BY ZenonT(30) DEF Running, LockInv, LookedInv
<1> HIDE DEF s
<1>6. /\ inode' \in [Slots -> Inodes] /\ \A t \in Slots \ {s} : inode'[t] = inode[t]
      /\ inode'[s] = IF s \in valid THEN inode[s] ELSE disk[inum[s]]
  BY ZenonT(30), <1>1, <1>2 DEF Running, TypeOK, DiskTypes, CacheTypes
<1>7. panic' = "none"
  BY ZenonT(30), <1>1, <1>3, <1>6
<1>8. /\ LocksKept(p) /\ lock' \in [Slots -> Procs \cup {NoProc}]
      /\ lock'[s] = p /\ \A t \in Slots \ {s} : lock'[t] = lock[t]
  BY ZenonT(30), <1>1, <1>2, LockChange
<1>9. CallTypes' /\ pc'[p] = "inode" /\ \A q \in Procs \ {p} : pc'[q] = pc[q]
  BY ZenonT(30), <1>1 DEF Running, TypeOK, CallTypes, Places
<1>10. Others(p) /\ InumsKept
  BY ZenonT(30), <1>1, <1>9 DEF Others, InumsKept
<1>11. TypeOK'
  BY ZenonT(30), <1>1, <1>2, <1>6, <1>8, <1>9 DEF Running, TypeOK, DiskTypes, CacheTypes,
     HolderTypes
<1>12. RefsCounted' /\ Unique'
  BY ZenonT(30), <1>1, RefsSame, UniqueFrame DEF Running
<1>13. ~InPut(p)' /\ RunShape(p)' /\ Shape(p)'
  BY ZenonT(30), <1>1, <1>4, <1>9 DEF InPut, RunShape, Shape
<1>14. /\ Extra(p)' <=> Extra(p)
       /\ Nested(p)' <=> Nested(p)
       /\ ~Keeps(p)' /\ ~HasPut(p)'
       /\ HasDir(p)' <=> HasDir(p)
  BY ZenonT(30), <1>1, <1>4, <1>9, <1>13 DEF Extra, Nested, Keeps, HasPut, HasDir, RunShape
<1>15. Locks(p)'
  <2>1. HasDir(p)' => lock'[ROOT] = p
    BY ZenonT(30), <1>1, <1>5, <1>8, <1>14, Consts DEF Locks
  <2>2. lock'[at'[p]["ip"]] = p /\ at'[p]["ip"] \in valid'
    BY ZenonT(30), <1>1, <1>8 DEF s
  <2>3. (Extra(p) \/ Nested(p) \/ Keeps(p))' => inum'[at'[p]["ip"]] # ROOT
    BY ZenonT(30), <1>1, <1>5, <1>14 DEF Locks
  <2> QED
    BY ZenonT(30), <1>14, <2>1, <2>2, <2>3 DEF Locks
<1>16. Looked(p)'
  <2>1. Fresh(p) => Fresh(p)'
    <3>1. ASSUME NEW q \in Procs \ {p}, NEW h \in Holders PROVE Dropping(q, h)' <=> Dropping(q, h)
      BY ZenonT(30), <1>10, <3>1, OthersSame
    <3> QED
      BY ZenonT(30), <1>1, <3>1 DEF Fresh
  <2> QED
    BY ZenonT(30), <1>1, <1>5, <1>14, <2>1 DEF Looked
<1>17. ShapeInv' /\ LockInv'
  BY ZenonT(30), <1>8, <1>10, <1>13, <1>15, OthersShape, OthersLocks
<1>18. LookedInv'
  <2>1. ASSUME NEW q \in Procs \ {p}, Nested(q), call[q] = "create"
        PROVE  \A h \in Holders : at'[p][h] = at[q]["ip"] => Dropping(p, h)'
    BY ZenonT(30), <1>1, <2>1, FreshAlone DEF Dropping
  <2> QED
    BY ZenonT(30), <1>1, <1>10, <1>16, <2>1, OthersLooked
<1>19. HeldLive'
  <2>1. ASSUME NEW h \in Holders, at'[p][h] # 0 PROVE disk'[inum'[at'[p][h]]].type # "free"
    BY ZenonT(30), <1>1, <2>1 DEF Running, HeldLive, Dropping
  <2> QED
    BY ZenonT(30), <1>1, <1>10, <2>1, HeldFrame
<1>20. ValidInv'
  <2> SUFFICES ASSUME NEW t \in valid', ref[t] > 0, ~Freeing(t)'
               PROVE  inode'[t] = disk[inum[t]] /\ inode'[t].type # "free"
    BY ZenonT(30), <1>1 DEF ValidInv
  <2>1. t \in valid => inode[t] = disk[inum[t]] /\ inode[t].type # "free"
    <3>1. ~Freeing(t)
      <4> SUFFICES ASSUME NEW q \in Procs, pc[q] = "freed", Putting(q) = t PROVE FALSE
        BY ZenonT(30) DEF Freeing
      <4>1. q # p
        BY ZenonT(30), <1>1
      <4> QED
        BY ZenonT(30), <1>10, <4>1, OthersSame DEF Freeing, Others
    <3> QED
      BY ZenonT(30), <3>1 DEF Running, ValidInv
  <2> QED
    BY ZenonT(30), <1>1, <1>2, <1>3, <1>6, <2>1 DEF Running, TypeOK, CacheTypes
<1>21. RootInv' /\ DirLive' /\ LinkInv'
  BY ZenonT(30), <1>1, <1>10, <1>14, DiskFrame, LinkFrame
<1> QED
  BY ZenonT(30), <1>7, <1>11, <1>12, <1>17, <1>18, <1>19, <1>20, <1>21 DEF Running

=============================================================================
