------------------------------ MODULE VmProofs ------------------------------
(***************************************************************************)
(* Every page has one owner, a process has mapped exactly the pages below  *)
(* its size, and its stack is guarded, for any number of processes and     *)
(* pages, whichever kalloc() fails.                                        *)
(***************************************************************************)
EXTENDS Vm, TLAPS

-----------------------------------------------------------------------------
(* Bytes and pages *)

(* Division with remainder. *)
LEMMA DivFact ==
  ASSUME NEW s \in Nat, NEW m \in Nat, m > 0
  PROVE  s \div m \in Nat /\ m * (s \div m) <= s /\ s < m * (s \div m) + m
<1>1. s \div m \in Int /\ s % m \in 0..(m - 1)
  OBVIOUS
<1>2. s = m * (s \div m) + (s % m)
  OBVIOUS
<1>3. s \div m >= 0
  BY <1>1, <1>2
<1> QED
  BY <1>1, <1>2, <1>3

(* Quotient and remainder are unique.                                      *)
LEMMA DivIs ==
  ASSUME NEW s \in Nat, NEW m \in Nat, m > 0, NEW q \in Nat, m * q <= s, s < m * q + m
  PROVE  s \div m = q
<1>1. s \div m \in Nat /\ m * (s \div m) <= s /\ s < m * (s \div m) + m
  BY ZenonT(30), DivFact
<1>2. CASE s \div m < q
  <2>1. m * (s \div m) + m <= m * q
    BY <1>1, <1>2
  <2> QED
    BY <1>1, <2>1
<1>3. CASE s \div m > q
  <2>1. m * q + m <= m * (s \div m)
    BY <1>1, <1>3
  <2> QED
    BY <1>1, <2>1
<1> QED
  BY <1>1, <1>2, <1>3

(* What VmAssumption says of the sizes, with the products hidden.          *)
LEMMA Constants ==
  /\ PGSIZE \in Nat /\ PGSIZE > 0 /\ KERNPAGES \in Nat /\ KERNPAGES > 0
  /\ KERNBASE \in Nat
  /\ NPTENTRIES \in Nat /\ NPTENTRIES > 0 /\ 0 \notin Pages
  /\ UINT \in Nat /\ UINT >= 2 * KERNBASE /\ UINT >= KERNBASE + 4
<1>1. PGSIZE \in Nat /\ PGSIZE > 0 /\ KERNPAGES \in Nat /\ KERNPAGES > 0
      /\ NPTENTRIES \in Nat /\ NPTENTRIES > 0 /\ UINT \in Nat
  BY VmAssumption
<1>2. KERNBASE \in Nat /\ KERNBASE = KERNPAGES * PGSIZE
  BY <1>1 DEF KERNBASE
<1>3. UINT >= 2 * KERNBASE /\ UINT >= KERNBASE + 4
  <2>1. 2 * KERNPAGES * PGSIZE = 2 * KERNBASE
    BY <1>1, <1>2
  <2> QED
    BY ZenonT(30), VmAssumption, <1>2, <2>1
<1>4. 0 \notin Pages
  BY VmAssumption DEF Pages
<1> QED
  BY ZenonT(30), <1>1, <1>2, <1>3, <1>4

(* Page v lies below s bytes exactly when it is one of the pages they need. *)
LEMMA RoundUp ==
  ASSUME NEW s \in Nat
  PROVE  /\ PGROUNDUP(s) \in Nat
         /\ \A v \in Nat : v < PGROUNDUP(s) <=> v * PGSIZE < s
<1> DEFINE q == PGROUNDUP(s)
<1>1. s + PGSIZE - 1 \in Nat
  BY Constants
<1>2. q \in Nat /\ PGSIZE * q <= s + PGSIZE - 1 /\ s + PGSIZE - 1 < PGSIZE * q + PGSIZE
  BY ZenonT(30), <1>1, Constants, DivFact DEF PGROUNDUP
<1>3. ASSUME NEW v \in Nat PROVE v < q <=> v * PGSIZE < s
  <2> HIDE DEF q
  <2>1. CASE v < q
    <3>1. PGSIZE * (v + 1) <= PGSIZE * q
      BY <1>2, <2>1, Constants
    <3>2. PGSIZE * (v + 1) = v * PGSIZE + PGSIZE
      BY Constants
    <3> QED
      BY <1>2, <2>1, <3>1, <3>2, Constants
  <2>2. CASE v >= q
    <3>1. PGSIZE * v >= PGSIZE * q
      BY <1>2, <2>2, Constants
    <3>2. PGSIZE * v = v * PGSIZE
      BY Constants
    <3> QED
      BY <1>2, <2>2, <3>1, <3>2, Constants
  <2> QED
    BY <1>2, <2>1, <2>2
<1> QED
  BY ZenonT(30), <1>2, <1>3

(* PGROUNDUP() is monotonic.                                               *)
LEMMA RoundUpMono ==
  ASSUME NEW s \in Nat, NEW t \in Nat, s <= t
  PROVE  PGROUNDUP(s) <= PGROUNDUP(t)
<1> DEFINE v == PGROUNDUP(t)
<1>1. v \in Nat /\ PGROUNDUP(s) \in Nat /\ ~(v * PGSIZE < t)
  BY RoundUp
<1>2. v * PGSIZE \in Nat
  BY <1>1, Constants
<1>3. ~(v * PGSIZE < s)
  BY <1>1, <1>2
<1>4. ~(v < PGROUNDUP(s))
  BY ZenonT(30), <1>1, <1>3, RoundUp
<1> QED
  BY <1>1, <1>4

(* A multiple of PGSIZE rounds up to itself.                               *)
LEMMA RoundUpExact ==
  ASSUME NEW k \in Nat
  PROVE  k * PGSIZE \in Nat /\ PGROUNDUP(k * PGSIZE) = k
<1>1. k * PGSIZE \in Nat
  BY Constants
<1>2. k * PGSIZE + PGSIZE - 1 \in Nat
  BY <1>1, Constants
<1>3. PGSIZE * k = k * PGSIZE
  BY Constants
<1>4. (k * PGSIZE + PGSIZE - 1) \div PGSIZE = k
  BY <1>1, <1>2, <1>3, Constants, DivIs
<1> QED
  BY ZenonT(30), <1>1, <1>4 DEF PGROUNDUP

(* No more than KERNPAGES pages. *)
LEMMA RoundUpBound ==
  ASSUME NEW s \in Nat, s <= KERNBASE
  PROVE  PGROUNDUP(s) \in Nat /\ PGROUNDUP(s) <= KERNPAGES
<1>1. PGROUNDUP(KERNBASE) = KERNPAGES
  BY ZenonT(30), RoundUpExact, Constants DEF KERNBASE
<1>2. KERNBASE \in Nat
  BY ZenonT(30), Constants
<1>3. PGROUNDUP(s) <= PGROUNDUP(KERNBASE)
  BY ZenonT(30), <1>2, RoundUpMono
<1> QED
  BY ZenonT(30), <1>1, <1>3, RoundUp

(* The page of a byte below s is one of those pages. *)
LEMMA PageOfByte ==
  ASSUME NEW s \in Nat, NEW b \in Nat, b < s
  PROVE  b \div PGSIZE \in Nat /\ b \div PGSIZE < PGROUNDUP(s)
<1>1. b \div PGSIZE \in Nat /\ PGSIZE * (b \div PGSIZE) <= b
  BY ZenonT(30), DivFact, Constants
<1>2. PGSIZE * (b \div PGSIZE) = (b \div PGSIZE) * PGSIZE
  BY <1>1, Constants
<1>3. (b \div PGSIZE) * PGSIZE < s
  <2> DEFINE x == (b \div PGSIZE) * PGSIZE
  <2>1. x \in Nat
    BY <1>1, Constants
  <2> QED
    BY <1>1, <1>2, <2>1
<1> QED
  BY ZenonT(30), <1>1, <1>3, RoundUp

-----------------------------------------------------------------------------
(* Holders *)

Spaces == {"mem", "new"}

(* A holder names its process, and what it is. *)
LEMMA OwnShape ==
  ASSUME NEW p \in Proc
  PROVE  /\ Kstack(p) \in Holder /\ Kstack(p)[1] = p
         /\ Kstack(p)[2] = "own" /\ Kstack(p)[3] = "kstack"
         /\ Held(p) \in Holder /\ Held(p)[1] = p
         /\ Held(p)[2] = "own" /\ Held(p)[3] = "mem"
<1>1. Kstack(p) \in Holder /\ Held(p) \in Holder
  BY ZenonT(30) DEF Holder
<1> QED
  BY ZenonT(30), <1>1 DEF Kstack, Held

(* The holders of an address space belong to it.                           *)
LEMMA SpaceShape ==
  ASSUME NEW p \in Proc, NEW w \in Spaces, NEW h \in Space(p, w)
  PROVE  h \in Holder /\ h[1] = p /\ h[2] = w /\ h = <<p, w, h[3], h[4]>>
         /\ <<h[3], h[4]>> \in Parts
<1>1. PICK x \in Parts : h = <<p, w, x[1], x[2]>>
  BY ZenonT(30) DEF Space
<1>2. <<x[1], x[2]>> \in Parts
  BY DEF Parts
<1>3. h \in Holder
  BY DEF Holder, Spaces
<1> QED
  BY ZenonT(30), <1>1, <1>2, <1>3

(* An address space has its directory, its tables and its entries.         *)
LEMMA SpaceHas ==
  ASSUME NEW p, NEW w, NEW x, NEW y, <<x, y>> \in Parts
  PROVE  <<p, w, x, y>> \in Space(p, w)
<1> DEFINE z == <<x, y>>
<1>1. <<p, w, z[1], z[2]>> \in Space(p, w)
  BY ZenonT(30) DEF Space
<1> QED
  BY ZenonT(30), <1>1

(* A page table entry is a holder of its address space.                    *)
LEMMA EntryShape ==
  ASSUME NEW p \in Proc, NEW w \in Spaces, NEW v \in VPN
  PROVE  /\ Pte(p, w, v) \in Space(p, w) /\ Pte(p, w, v) \in Holder
         /\ Pte(p, w, v)[1] = p /\ Pte(p, w, v)[2] = w
         /\ Pte(p, w, v)[3] = "pte" /\ Pte(p, w, v)[4] = v
         /\ Table(p, w, v) \in Space(p, w) /\ Table(p, w, v) \in Holder
         /\ Table(p, w, v)[1] = p /\ Table(p, w, v)[2] = w /\ Table(p, w, v)[3] = "tab"
<1>1. <<"pte", v>> \in Parts
  BY ZenonT(30) DEF Parts
<1>2. <<"tab", v \div NPTENTRIES>> \in Parts
  BY ZenonT(30) DEF Parts, Tables
<1>3. Pte(p, w, v) \in Space(p, w) /\ Table(p, w, v) \in Space(p, w)
  BY ZenonT(30), <1>1, <1>2, SpaceHas DEF Pte, Table
<1>4. Pte(p, w, v) \in Holder /\ Table(p, w, v) \in Holder
  BY ZenonT(30), <1>3, SpaceShape
<1> QED
  BY ZenonT(30), <1>3, <1>4 DEF Pte, Table

(* The directory and the table of the kernel half are holders of it, too.  *)
LEMMA TopShape ==
  ASSUME NEW p \in Proc, NEW w \in Spaces
  PROVE  /\ <<p, w, "dir", 0>> \in Space(p, w) /\ <<p, w, "dir", 0>> \in Holder
         /\ <<p, w, "ktab", 0>> \in Space(p, w) /\ <<p, w, "ktab", 0>> \in Holder
<1>1. <<"dir", 0>> \in Parts /\ <<"ktab", 0>> \in Parts
  BY ZenonT(30) DEF Parts
<1>2. <<p, w, "dir", 0>> \in Space(p, w) /\ <<p, w, "ktab", 0>> \in Space(p, w)
  BY ZenonT(30), <1>1, SpaceHas
<1>3. Space(p, w) \subseteq Holder
  BY ZenonT(30), SpaceShape
<1> QED
  BY ZenonT(30), <1>2, <1>3

-----------------------------------------------------------------------------
(* Ownership *)

Owned(A, F) ==
  /\ \A g \in Holder : A[g] # 0 => \A h \in Holder : A[h] = A[g] => h = g
  /\ \A pg \in Pages : pg \in F <=> \A h \in Holder : A[h] # pg

PageMap == [Holder -> Pages \cup {0}]

(* kalloc() returns a free page. *)
LEMMA Kalloc ==
  ASSUME free \subseteq Pages, free # {}
  PROVE  kalloc \in free /\ kalloc \in Pages
  BY ZenonT(30) DEF kalloc

(* A free page given to a holder without one keeps ownership.              *)
LEMMA TakeOwned ==
  ASSUME NEW A \in PageMap, NEW F \in SUBSET Pages, Owned(A, F),
         NEW h \in Holder, A[h] = 0, NEW pg \in F
  PROVE  [A EXCEPT ![h] = pg] \in PageMap /\ Owned([A EXCEPT ![h] = pg], F \ {pg})
<1> DEFINE B == [A EXCEPT ![h] = pg]
<1>1. B \in PageMap /\ B[h] = pg /\ pg # 0 /\ \A g \in Holder : g # h => B[g] = A[g]
  BY ZenonT(30), Constants DEF PageMap
<1>2. \A g \in Holder : A[g] # pg
  BY ZenonT(30) DEF Owned
<1> HIDE DEF B
<1>3. ASSUME NEW g \in Holder, B[g] # 0, NEW k \in Holder, B[k] = B[g] PROVE k = g
  BY <1>1, <1>2, <1>3 DEF Owned
<1>4. ASSUME NEW x \in Pages PROVE x \in F \ {pg} <=> \A k \in Holder : B[k] # x
  <2>1. CASE x = pg
    BY ZenonT(30), <1>1, <2>1
  <2>2. CASE x # pg
    <3>1. x # 0
      BY ZenonT(30), Constants
    <3>2. \A k \in Holder : B[k] = x <=> A[k] = x
      BY ZenonT(30), <1>1, <2>2, <3>1
    <3> QED
      BY ZenonT(30), <3>2, <2>2 DEF Owned
  <2> QED
    BY ZenonT(30), <2>1, <2>2
<1>5. Owned(B, F \ {pg})
  BY ZenonT(30), <1>3, <1>4 DEF Owned
<1> QED
  BY ZenonT(30), <1>1, <1>5 DEF B

(* Moving a page to a holder that has none. *)
LEMMA MoveOwned ==
  ASSUME NEW A \in PageMap, NEW F \in SUBSET Pages, Owned(A, F),
         NEW h \in Holder, NEW g \in Holder, g # h, A[h] = 0
  PROVE  /\ [A EXCEPT ![h] = A[g], ![g] = 0] \in PageMap
         /\ Owned([A EXCEPT ![h] = A[g], ![g] = 0], F)
<1> DEFINE B == [A EXCEPT ![h] = A[g], ![g] = 0]
<1>1. B \in PageMap /\ B[h] = A[g] /\ B[g] = 0
      /\ \A k \in Holder : k # h /\ k # g => B[k] = A[k]
  BY ZenonT(30) DEF PageMap
<1> HIDE DEF B
<1>2. ASSUME NEW x \in Holder, B[x] # 0, NEW k \in Holder, B[k] = B[x] PROVE k = x
  <2>1. x # g /\ k # g
    BY ZenonT(30), <1>1, <1>2
  <2>2. CASE x = h
    BY <1>1, <1>2, <2>1, <2>2 DEF Owned
  <2>3. CASE x # h /\ k = h
    BY <1>1, <1>2, <2>1, <2>3 DEF Owned
  <2>4. CASE x # h /\ k # h
    BY <1>1, <1>2, <2>1, <2>4 DEF Owned
  <2> QED
    BY ZenonT(30), <2>2, <2>3, <2>4
<1>3. ASSUME NEW x \in Pages PROVE x \in F <=> \A k \in Holder : B[k] # x
  <2>1. x # 0
    BY ZenonT(30), Constants
  <2>2. (\E k \in Holder : B[k] = x) <=> (\E k \in Holder : A[k] = x)
    BY ZenonT(30), <1>1, <2>1
  <2> QED
    BY ZenonT(30), <2>2 DEF Owned
<1>4. Owned(B, F)
  BY ZenonT(30), <1>2, <1>3 DEF Owned
<1> QED
  BY ZenonT(30), <1>1, <1>4 DEF B

(* Freeing what the holders D hold. *)
LEMMA ReleaseOwned ==
  ASSUME NEW A \in PageMap, NEW F \in SUBSET Pages, Owned(A, F), NEW D \in SUBSET Holder
  PROVE  /\ [h \in Holder |-> IF h \in D THEN 0 ELSE A[h]] \in PageMap
         /\ F \cup ({A[h] : h \in D} \ {0}) \in SUBSET Pages
         /\ Owned([h \in Holder |-> IF h \in D THEN 0 ELSE A[h]], F \cup ({A[h] : h \in D} \ {0}))
<1> DEFINE B == [h \in Holder |-> IF h \in D THEN 0 ELSE A[h]]
           G == F \cup ({A[h] : h \in D} \ {0})
<1>1. B \in PageMap /\ \A h \in Holder : B[h] = IF h \in D THEN 0 ELSE A[h]
  BY ZenonT(30) DEF PageMap
<1>2. G \in SUBSET Pages
  BY ZenonT(30) DEF PageMap
<1>3. \A x \in Pages : x \in G <=> x \in F \/ \E h \in D : A[h] = x
  BY ZenonT(30), Constants
<1> HIDE DEF B, G
<1>4. ASSUME NEW g \in Holder, B[g] # 0, NEW k \in Holder, B[k] = B[g] PROVE k = g
  BY ZenonT(30), <1>1, <1>4 DEF Owned
<1>5. ASSUME NEW x \in Pages PROVE x \in G <=> \A k \in Holder : B[k] # x
  <2>1. x # 0
    BY ZenonT(30), Constants
  <2>2. CASE x \in F
    BY ZenonT(30), <1>1, <1>3, <2>1, <2>2 DEF Owned
  <2>3. CASE x \notin F
    <3>1. PICK h \in Holder : A[h] = x
      BY ZenonT(30), <2>3 DEF Owned
    <3>2. \A k \in Holder : A[k] = x => k = h
      BY ZenonT(30), <3>1, <2>1 DEF Owned
    <3>3. CASE h \in D
      BY ZenonT(30), <1>1, <1>3, <2>1, <3>1, <3>2, <3>3
    <3>4. CASE h \notin D
      BY ZenonT(30), <1>1, <1>3, <2>1, <2>3, <3>1, <3>2, <3>4
    <3> QED
      BY ZenonT(30), <3>3, <3>4
  <2> QED
    BY ZenonT(30), <2>2, <2>3
<1>6. Owned(B, G)
  BY ZenonT(30), <1>4, <1>5 DEF Owned
<1> QED
  BY ZenonT(30), <1>1, <1>2, <1>6 DEF B, G

(* The new address space of p takes the place of that of q, whose pages    *)
(* are freed.                                                              *)
LEMMA InstallOwned ==
  ASSUME NEW A \in PageMap, NEW F \in SUBSET Pages, Owned(A, F),
         NEW p \in Proc, NEW q \in Proc, NEW B \in PageMap, NEW G \in SUBSET Pages,
         \A h \in Space(q, "mem") : B[h] = A[<<p, "new", h[3], h[4]>>],
         \A h \in Space(p, "new") : B[h] = 0,
         \A h \in Holder : h \notin Space(q, "mem") /\ h \notin Space(p, "new") => B[h] = A[h],
         G = F \cup ({A[h] : h \in Space(q, "mem")} \ {0})
  PROVE  Owned(B, G)
<1> DEFINE old(h) == IF h \in Space(q, "mem") THEN <<p, "new", h[3], h[4]>> ELSE h
<1>1. ASSUME NEW h \in Space(q, "mem")
      PROVE  /\ old(h) \in Space(p, "new") /\ old(h) \in Holder
             /\ h = <<q, "mem", old(h)[3], old(h)[4]>>
  <2>1. h = <<q, "mem", h[3], h[4]>> /\ <<h[3], h[4]>> \in Parts
    BY <1>1, SpaceShape DEF Spaces
  <2>2. <<p, "new", h[3], h[4]>> \in Space(p, "new")
    BY ZenonT(30), <2>1, SpaceHas
  <2>3. Space(p, "new") \subseteq Holder
    BY ZenonT(30), SpaceShape DEF Spaces
  <2> QED
    BY ZenonT(30), <2>1, <2>2, <2>3
<1>2. ASSUME NEW h \in Holder, B[h] # 0
      PROVE  h \notin Space(p, "new") /\ old(h) \in Holder /\ B[h] = A[old(h)]
             /\ old(h) \notin Space(q, "mem")
  <2>1. h \notin Space(p, "new")
    BY ZenonT(30), <1>2
  <2>2. CASE h \in Space(q, "mem")
    <3>1. old(h)[2] = "new"
      BY ZenonT(30), <2>2
    <3> QED
      BY ZenonT(30), <2>1, <2>2, <1>1, <3>1, SpaceShape DEF Spaces
  <2>3. CASE h \notin Space(q, "mem")
    BY ZenonT(30), <2>1, <2>3
  <2> QED
    BY ZenonT(30), <2>2, <2>3
<1>3. ASSUME NEW g \in Holder, NEW h \in Holder, B[g] # 0, B[h] # 0, old(g) = old(h)
      PROVE  g = h
  <2>1. CASE g \in Space(q, "mem") /\ h \in Space(q, "mem")
    BY ZenonT(30), <1>1, <1>3, <2>1
  <2>2. CASE g \in Space(q, "mem") /\ h \notin Space(q, "mem")
    BY ZenonT(30), <1>1, <1>2, <1>3, <2>2
  <2>3. CASE g \notin Space(q, "mem") /\ h \in Space(q, "mem")
    BY ZenonT(30), <1>1, <1>2, <1>3, <2>3
  <2>4. CASE g \notin Space(q, "mem") /\ h \notin Space(q, "mem")
    BY ZenonT(30), <1>3, <2>4
  <2> QED
    BY ZenonT(30), <2>1, <2>2, <2>3, <2>4
(* Where a page goes that is not one of q. *)
<1>4. ASSUME NEW k \in Holder, k \notin Space(q, "mem")
      PROVE  \E h \in Holder : B[h] = A[k]
  <2>1. CASE k \in Space(p, "new")
    <3> DEFINE h == <<q, "mem", k[3], k[4]>>
    <3>0. <<k[3], k[4]>> \in Parts
      BY ZenonT(30), <2>1, SpaceShape DEF Spaces
    <3>1a. h \in Space(q, "mem")
      BY ZenonT(30), <3>0, SpaceHas
    <3>1. h \in Space(q, "mem") /\ h \in Holder
      BY ZenonT(30), <3>1a, SpaceShape DEF Spaces
    <3>2. <<p, "new", h[3], h[4]>> = k
      BY ZenonT(30), <2>1, SpaceShape DEF Spaces
    <3> QED
      BY ZenonT(30), <3>1, <3>2
  <2>2. CASE k \notin Space(p, "new")
    BY ZenonT(30), <1>4, <2>2
  <2> QED
    BY ZenonT(30), <2>1, <2>2
<1> HIDE DEF old
<1>5. ASSUME NEW g \in Holder, B[g] # 0, NEW h \in Holder, B[h] = B[g] PROVE h = g
  <2>1. A[old(h)] = A[old(g)] /\ A[old(g)] # 0 /\ old(h) \in Holder /\ old(g) \in Holder
    BY ZenonT(30), <1>2, <1>5
  <2>2. old(h) = old(g)
    BY ZenonT(30), <2>1 DEF Owned
  <2> QED
    BY ZenonT(30), <1>3, <1>5, <2>2
<1>6. ASSUME NEW x \in Pages PROVE x \in G <=> \A h \in Holder : B[h] # x
  <2>1. x # 0
    BY ZenonT(30), Constants
  <2>2. x \in G <=> x \in F \/ \E h \in Space(q, "mem") : A[h] = x
    BY ZenonT(30), <2>1
  <2>3. ASSUME x \in F, NEW h \in Holder PROVE B[h] # x
    <3>1. \A k \in Holder : A[k] # x
      BY ZenonT(30), <2>3 DEF Owned
    <3> QED
      BY <1>2, <2>1, <3>1
  <2>4. ASSUME NEW k \in Space(q, "mem"), A[k] = x, NEW h \in Holder PROVE B[h] # x
    <3>1. SUFFICES ASSUME B[h] = x PROVE FALSE
      BY ZenonT(30)
    <3>2. old(h) \in Holder /\ A[old(h)] = x /\ old(h) \notin Space(q, "mem")
      BY ZenonT(30), <1>2, <2>1, <3>1
    <3>3. k \in Holder
      BY ZenonT(30), SpaceShape DEF Spaces
    <3>4. old(h) = k
      BY <2>1, <2>4, <3>2, <3>3 DEF Owned
    <3> QED
      BY ZenonT(30), <3>2, <3>4
  <2>5. ASSUME x \notin G PROVE \E h \in Holder : B[h] = x
    <3>1. PICK k \in Holder : A[k] = x
      BY ZenonT(30), <2>2, <2>5 DEF Owned
    <3>2. k \notin Space(q, "mem")
      BY ZenonT(30), <2>2, <2>5, <3>1
    <3> QED
      BY ZenonT(30), <1>4, <3>1, <3>2
  <2> QED
    BY ZenonT(30), <2>2, <2>3, <2>4, <2>5
<1> QED
  BY ZenonT(30), <1>5, <1>6 DEF Owned

-----------------------------------------------------------------------------
(* The inductive invariant *)

(* The pages 0..m-1 of an address space are mapped, and no others. *)
MapIs(p, w, m) == \A v \in VPN : at[Pte(p, w, v)] # 0 <=> v < m

Bare(p, w) == \A h \in Space(p, w) : at[h] = 0

(* A call is at one of its own steps, and its process runs. *)
JobOK(p) ==
  LET j == job[p]
  IN  /\ j.op = "none" => j.step = "none"
      /\ j.op = "fork" => j.step \in {"kstack", "dir", "ktab", "alloc", "map"}
      /\ j.op = "exec" => j.step \in {"dir", "ktab", "segment", "alloc", "map", "load"}
      /\ j.op = "stack" => j.step \in {"alloc", "map", "args", "wild"}
      /\ j.op = "sbrk" => j.step \in {"alloc", "map"}
      /\ j.op # "none" => state[p] = "run"

(* mem holds a page only between kalloc() and mappages(). *)
HeldOK(p) == at[Held(p)] # 0 <=> job[p].step = "map"

(* What there is of the new address space. *)
NewOK(p) ==
  /\ job[p].op \in {"none", "sbrk"} \/ job[p].step \in {"kstack", "dir"} => Bare(p, "new")
  /\ job[p].step = "ktab" => \A h \in Space(p, "new") : h[3] # "dir" => at[h] = 0

(* A free slot has no memory, one that is being filled no address space. *)
SlotOK(p) ==
  /\ state[p] \in {"unused", "embryo"} => Bare(p, "mem")
  /\ state[p] = "unused" => at[Kstack(p)] = 0

(* What is mapped, at every step of a call. *)
MapOK(p) ==
  LET j == job[p]
  IN  /\ state[p] = "run" /\ j.op # "sbrk" => MapIs(p, "mem", PGROUNDUP(sz[p]))
      /\ j.step \in {"alloc", "map"} => MapIs(p, Work(p), j.a) /\ j.a <= PGROUNDUP(j.goal)
      /\ j.step = "map" => j.a < PGROUNDUP(j.goal)
      /\ j.step \in {"segment", "load"} => MapIs(p, "new", PGROUNDUP(j.old))
      /\ j.step = "args" => MapIs(p, "new", PGROUNDUP(j.goal))

(* The stack of exec() ends at a page boundary, and sp is in its last page. *)
StackOK(goal, sp) ==
  /\ goal \div PGSIZE >= 2 /\ goal = (goal \div PGSIZE) * PGSIZE
  /\ sp <= goal /\ goal - sp <= PGSIZE

(* How the sizes of a call are related. *)
SizeOK(p) ==
  LET j == job[p]
  IN  /\ sz[p] <= KERNBASE /\ j.goal <= KERNBASE /\ j.old <= KERNBASE
      /\ j.step \in {"kstack", "dir", "ktab"} => j.a = 0 /\ j.old = 0
      /\ j.op = "fork" => j.goal = sz[p]
      /\ j.op = "exec" /\ j.step \in {"alloc", "map"} => j.goal = j.old
      /\ j.op = "sbrk" => PGROUNDUP(sz[p]) <= j.a
      /\ j.op = "stack" => StackOK(j.goal, j.sp)

(* exec() clears PTE_U of the page below the stack, and of no other. *)
Guard(p) == Pte(p, "new", (job[p].goal \div PGSIZE) - 2)
GuardOK(p) ==
  /\ \A h \in Space(p, "new") :
       h \in nouser => job[p].op = "fork"
                         \/ (job[p].step \in {"args", "wild"} /\ h = Guard(p))
  /\ job[p].step = "args" => Guard(p) \in nouser

ProcOK(p) == JobOK(p) /\ HeldOK(p) /\ NewOK(p) /\ SlotOK(p) /\ MapOK(p) /\ SizeOK(p) /\ GuardOK(p)

(* The slot that a fork() fills is its own. *)
KidOK(p) ==
  job[p].op = "fork" =>
    /\ state[job[p].kid] = "embryo"
    /\ job[p].step = "kstack" => at[Kstack(job[p].kid)] = 0
    /\ \A q \in Proc : job[q].op = "fork" /\ job[q].kid = job[p].kid => q = p

IInv == TypeOK /\ PagesOwned /\ \A p \in Proc : ProcOK(p) /\ KidOK(p)

(* What a step leaves alone of a process keeps that process's invariant. *)
Kept(q) ==
  /\ job'[q] = job[q] /\ sz'[q] = sz[q] /\ state'[q] = state[q]
  /\ \A h \in Holder : h[1] = q => at'[h] = at[h] /\ (h \in nouser' <=> h \in nouser)

(* What is mapped for a process depends on its own holders only.           *)
LEMMA KeptMaps ==
  ASSUME NEW q \in Proc, Kept(q)
  PROVE  /\ at'[Held(q)] = at[Held(q)] /\ at'[Kstack(q)] = at[Kstack(q)]
         /\ \A w \in Spaces : \A h \in Space(q, w) :
              at'[h] = at[h] /\ (h \in nouser' <=> h \in nouser)
         /\ \A w \in Spaces, v \in VPN : at'[Pte(q, w, v)] = at[Pte(q, w, v)]
<1>1. at'[Held(q)] = at[Held(q)] /\ at'[Kstack(q)] = at[Kstack(q)]
  BY ZenonT(30), OwnShape DEF Kept
<1>2. \A w \in Spaces : \A h \in Space(q, w) :
        at'[h] = at[h] /\ (h \in nouser' <=> h \in nouser)
  BY ZenonT(30), SpaceShape DEF Kept
<1>3. \A w \in Spaces, v \in VPN : at'[Pte(q, w, v)] = at[Pte(q, w, v)]
  BY <1>2, EntryShape
<1> QED
  BY ZenonT(30), <1>1, <1>2, <1>3

(* A process that a step leaves alone keeps its invariant.                 *)
LEMMA KeptOK ==
  ASSUME TypeOK, NEW q \in Proc, Kept(q), ProcOK(q)
  PROVE  ProcOK(q)'
<1>1. job'[q] = job[q] /\ sz'[q] = sz[q] /\ state'[q] = state[q]
  BY ZenonT(30) DEF Kept
<1>2. at'[Held(q)] = at[Held(q)] /\ at'[Kstack(q)] = at[Kstack(q)]
  BY ZenonT(30), KeptMaps
<1>3. \A w \in Spaces : \A h \in Space(q, w) :
        at'[h] = at[h] /\ (h \in nouser' <=> h \in nouser)
  BY ZenonT(30), KeptMaps
<1>4. \A w \in Spaces, v \in VPN : at'[Pte(q, w, v)] = at[Pte(q, w, v)]
  BY ZenonT(30), KeptMaps
<1>5. \A w \in Spaces : (Bare(q, w))' <=> Bare(q, w)
  BY ZenonT(30), <1>3 DEF Bare
<1>7. JobOK(q)'
  BY ZenonT(30), <1>1 DEF JobOK, ProcOK
<1>8. HeldOK(q)'
  BY ZenonT(30), <1>1, <1>2 DEF HeldOK, ProcOK
<1>9. NewOK(q)'
  BY ZenonT(30), <1>1, <1>3, <1>5 DEF NewOK, ProcOK, Spaces
<1>10. SlotOK(q)'
  BY ZenonT(30), <1>1, <1>2, <1>5 DEF SlotOK, ProcOK, Spaces
<1>11. MapOK(q)'
  BY ZenonT(30), <1>1, <1>4 DEF MapOK, MapIs, ProcOK, Spaces, Work
<1>12. SizeOK(q)'
  BY ZenonT(30), <1>1 DEF SizeOK, ProcOK
<1>13. GuardOK(q)'
  <2>1. Guard(q)' = Guard(q) /\ Guard(q)[1] = q
    BY ZenonT(30), <1>1 DEF Guard, Pte
  <2>2. Guard(q) \in nouser => Guard(q) \in nouser'
    BY ZenonT(30), <2>1 DEF Kept, TypeOK
  <2> HIDE DEF Guard
  <2> QED
    BY ZenonT(30), <1>1, <1>3, <2>1, <2>2 DEF GuardOK, ProcOK, Spaces
<1> QED
  BY ZenonT(30), <1>7, <1>8, <1>9, <1>10, <1>11, <1>12, <1>13 DEF ProcOK

(* A step that changes one process only, and starts no fork(). *)
LEMMA Solo ==
  ASSUME IInv, TypeOK', PagesOwned', NEW p \in Proc, ProcOK(p)',
         \A q \in Proc \ {p} : Kept(q),
         job'[p].op = "fork" =>
           job[p].op = "fork" /\ job'[p].kid = job[p].kid /\ job'[p].step # "kstack",
         state[p] = "embryo" => state'[p] = "embryo" /\ at'[Kstack(p)] = at[Kstack(p)]
  PROVE  IInv'
<1>1. ASSUME NEW q \in Proc PROVE ProcOK(q)'
  BY ZenonT(30), KeptOK DEF IInv
<1>2. \A q \in Proc : job'[q].op = "fork" =>
        /\ job[q].op = "fork" /\ job'[q].kid = job[q].kid /\ job[q].kid \in Proc
        /\ job'[q].step = "kstack" => job[q].step = "kstack"
  BY ZenonT(30) DEF Kept, IInv, TypeOK
<1>3. \A q \in Proc : state[q] = "embryo" => state'[q] = "embryo" /\ at'[Kstack(q)] = at[Kstack(q)]
  BY OwnShape DEF Kept
<1>4. ASSUME NEW q \in Proc PROVE KidOK(q)'
  <2>1. \A r \in Proc : KidOK(r)
    BY ZenonT(30) DEF IInv
  <2> QED
    BY <1>2, <1>3, <2>1 DEF KidOK
<1> QED
  BY ZenonT(30), <1>1, <1>4 DEF IInv

-----------------------------------------------------------------------------
(* A call that fails *)

(* Which entries deallocuvm() clears. *)
LEMMA DeallocIs ==
  ASSUME NEW p \in Proc, NEW old, NEW goal
  PROVE  /\ deallocuvm(p, old, goal) \subseteq Space(p, "mem")
         /\ \A v \in VPN : Pte(p, "mem", v) \in deallocuvm(p, old, goal)
                          <=> PGROUNDUP(goal) <= v /\ v * PGSIZE < old
<1>1. \A v \in VPN : Pte(p, "mem", v) \in Space(p, "mem") /\ Pte(p, "mem", v)[4] = v
  BY EntryShape DEF Spaces
<1>2. deallocuvm(p, old, goal) \subseteq Space(p, "mem")
  BY ZenonT(30), <1>1 DEF deallocuvm
<1>3. ASSUME NEW v \in VPN
      PROVE  Pte(p, "mem", v) \in deallocuvm(p, old, goal)
               <=> PGROUNDUP(goal) <= v /\ v * PGSIZE < old
  BY ZenonT(30), <1>1 DEF deallocuvm
<1> QED
  BY ZenonT(30), <1>2, <1>3

(* What a failed call frees belongs to its own process or its child.       *)
LEMMA UndoneIn ==
  ASSUME IInv, NEW p \in Proc
  PROVE  Undone(p) \in SUBSET Holder
<1>1. job[p].kid \in Proc
  BY ZenonT(30) DEF IInv, TypeOK
<1>2. Held(p) \in Holder /\ Kstack(job[p].kid) \in Holder
  BY ZenonT(30), <1>1, OwnShape
<1>3. Space(p, "new") \subseteq Holder /\ Space(p, "mem") \subseteq Holder
  BY ZenonT(30), SpaceShape DEF Spaces
<1>4. deallocuvm(p, job[p].goal, sz[p]) \subseteq Space(p, "mem")
  BY ZenonT(30), DeallocIs
<1> QED
  BY ZenonT(30), <1>2, <1>3, <1>4 DEF Undone

(* Freeing keeps ownership and types. *)
LEMMA ReleaseOK ==
  ASSUME TypeOK, PagesOwned, NEW D \in SUBSET Holder, Release(D)
  PROVE  /\ PagesOwned' /\ at' \in PageMap /\ free' \subseteq Pages /\ nouser' \subseteq nouser
         /\ \A h \in Holder : at'[h] = IF h \in D THEN 0 ELSE at[h]
         /\ \A h \in Holder : h \in nouser' <=> h \in nouser /\ h \notin D
<1>1. at \in PageMap /\ free \in SUBSET Pages /\ Owned(at, free)
  BY ZenonT(30) DEF TypeOK, PageMap, PagesOwned, Owned
<1>2. Owned(at', free') /\ at' \in PageMap /\ free' \subseteq Pages
  BY ZenonT(30), <1>1, ReleaseOwned DEF Release
<1>3. PagesOwned'
  BY ZenonT(30), <1>2 DEF Owned, PagesOwned
<1>4. \A h \in Holder : at'[h] = IF h \in D THEN 0 ELSE at[h]
  BY ZenonT(30) DEF Release
<1>5. nouser' = nouser \ D
  BY ZenonT(30) DEF Release
<1> QED
  BY ZenonT(30), <1>2, <1>3, <1>4, <1>5

(* The whole state of p after a call that failed. *)
LEMMA BadOK ==
  ASSUME IInv, NEW p \in Proc, Bad(p), job[p].op # "none"
  PROVE  TypeOK' /\ PagesOwned' /\ ProcOK(p)'
<1> DEFINE j == job[p]
           D == Undone(p)
<1>1. TypeOK /\ PagesOwned /\ ProcOK(p) /\ KidOK(p) /\ state[p] = "run" /\ j.kid \in Proc
      /\ j.op \in {"fork", "exec", "stack", "sbrk"}
  BY ZenonT(30) DEF IInv, ProcOK, JobOK, TypeOK, Ops
<1>2. D \in SUBSET Holder
  BY ZenonT(30), UndoneIn
<1>3. /\ PagesOwned' /\ at' \in PageMap /\ free' \subseteq Pages /\ nouser' \subseteq nouser
      /\ \A h \in Holder : at'[h] = IF h \in D THEN 0 ELSE at[h]
      /\ \A h \in Holder : h \in nouser' <=> h \in nouser /\ h \notin D
  BY ZenonT(30), <1>1, <1>2, ReleaseOK DEF Bad
<1>4. job' = [job EXCEPT ![p] = Idle] /\ job'[p] = Idle /\ sz' = sz
  BY ZenonT(30), <1>1 DEF Bad, TypeOK
<1>5. state' = IF j.op = "fork" THEN [state EXCEPT ![j.kid] = "unused"] ELSE state
  BY ZenonT(30) DEF Bad
<1>6. state'[p] = "run"
  <2>1. j.op = "fork" => j.kid # p
    BY ZenonT(30), <1>1 DEF KidOK
  <2> QED
    BY ZenonT(30), <1>1, <1>5, <2>1 DEF TypeOK
<1>7. TypeOK'
  <2>1. Idle \in [op : Ops, step : Steps, kid : Proc, a : Nat, old : Nat, goal : Nat, sp : Nat]
    BY ZenonT(30), VmAssumption DEF Idle, Ops, Steps
  <2>2. job' \in [Proc -> [op : Ops, step : Steps, kid : Proc, a : Nat, old : Nat,
                           goal : Nat, sp : Nat]]
    BY ZenonT(30), <1>1, <1>4, <2>1 DEF TypeOK
  <2>3. state' \in [Proc -> {"unused", "embryo", "run", "doomed", "zombie"}]
    BY ZenonT(30), <1>1, <1>5 DEF TypeOK
  <2> QED
    BY ZenonT(30), <1>1, <1>3, <1>4, <2>2, <2>3 DEF TypeOK, PageMap
<1>8. Held(p) \in D /\ (j.op # "sbrk" => Space(p, "new") \subseteq D)
  BY ZenonT(30), <1>1 DEF Undone
<1>9. Idle.op = "none" /\ Idle.step = "none" /\ Idle.goal = 0 /\ Idle.old = 0
  BY ZenonT(30) DEF Idle
<1>10. \A h \in Space(p, "new") : h \in Holder /\ at'[h] = 0 /\ h \notin nouser'
  <2>1. Space(p, "new") \subseteq Holder
    BY ZenonT(30), SpaceShape DEF Spaces
  <2>2. CASE j.op = "sbrk"
    <3>1. \A h \in Space(p, "new") : at[h] = 0 /\ h \notin nouser
      BY ZenonT(30), <1>1, <2>2 DEF ProcOK, NewOK, Bare, GuardOK, JobOK
    <3> QED
      BY ZenonT(30), <1>3, <2>1, <3>1
  <2>3. CASE j.op # "sbrk"
    BY ZenonT(30), <1>3, <1>8, <2>1, <2>3
  <2> QED
    BY ZenonT(30), <2>2, <2>3
<1>11. MapIs(p, "mem", PGROUNDUP(sz[p]))'
  <2> SUFFICES ASSUME NEW v \in VPN
               PROVE  at'[Pte(p, "mem", v)] # 0 <=> v < PGROUNDUP(sz[p])
    BY ZenonT(30), <1>4 DEF MapIs, PGROUNDUP, Pte
  <2> DEFINE h == Pte(p, "mem", v)
  <2>1. h \in Space(p, "mem") /\ h \in Holder /\ h[1] = p /\ h[2] = "mem" /\ h[3] = "pte"
    BY EntryShape DEF Spaces
  <2>2. v \in Nat /\ sz[p] \in Nat /\ j.goal \in Nat /\ j.a \in Nat
    BY <1>1 DEF VPN, TypeOK
  <2>3. h # Held(p) /\ h # Kstack(j.kid) /\ h \notin Space(p, "new")
    BY ZenonT(30), <1>1, <2>1, OwnShape, SpaceShape DEF Spaces
  <2>4. CASE j.op = "sbrk"
    <3>1. /\ at[h] # 0 <=> v < j.a
          /\ j.a <= PGROUNDUP(j.goal) /\ PGROUNDUP(sz[p]) <= j.a
      BY ZenonT(30), <1>1, <2>4 DEF ProcOK, MapOK, SizeOK, JobOK, MapIs, Work
    <3>2. h \in D <=> PGROUNDUP(sz[p]) <= v /\ v * PGSIZE < j.goal
      BY ZenonT(30), <2>3, <2>4, DeallocIs DEF Undone
    <3>3. v < PGROUNDUP(j.goal) <=> v * PGSIZE < j.goal
      BY ZenonT(30), <2>2, RoundUp
    <3>4. PGROUNDUP(sz[p]) \in Nat /\ PGROUNDUP(j.goal) \in Nat
      BY ZenonT(30), <2>2, RoundUp
    <3>5. at'[h] = IF h \in D THEN 0 ELSE at[h]
      BY ZenonT(30), <1>3, <2>1
    <3> QED
      BY <2>2, <3>1, <3>2, <3>3, <3>4, <3>5
  <2>5. CASE j.op # "sbrk"
    <3>1. h \notin D
      BY ZenonT(30), <1>1, <2>3, <2>5 DEF Undone
    <3>2. at[h] # 0 <=> v < PGROUNDUP(sz[p])
      BY ZenonT(30), <1>1, <2>5 DEF ProcOK, MapOK, MapIs
    <3> QED
      BY ZenonT(30), <1>3, <2>1, <3>1, <3>2
  <2> QED
    BY ZenonT(30), <2>4, <2>5
<1>12. JobOK(p)'
  BY ZenonT(30), <1>4, <1>9 DEF JobOK
<1>13. HeldOK(p)'
  BY ZenonT(30), <1>3, <1>4, <1>8, <1>9, OwnShape DEF HeldOK
<1>14. NewOK(p)'
  BY ZenonT(30), <1>4, <1>9, <1>10 DEF NewOK, Bare
<1>15. SlotOK(p)'
  BY ZenonT(30), <1>6 DEF SlotOK
<1>16. MapOK(p)'
  BY ZenonT(30), <1>4, <1>9, <1>11 DEF MapOK
<1>17. SizeOK(p)'
  BY <1>1, <1>4, <1>9, Constants DEF SizeOK, ProcOK
<1>18. GuardOK(p)'
  BY ZenonT(30), <1>4, <1>9, <1>10 DEF GuardOK
<1> QED
  BY ZenonT(30), <1>3, <1>7, <1>12, <1>13, <1>14, <1>15, <1>16, <1>17, <1>18 DEF ProcOK

(* A failed call frees what it allocated: the label bad of exec(), and the *)
(* early returns of fork() and growproc().                                 *)
LEMMA BadIInv ==
  ASSUME IInv, NEW p \in Proc, Bad(p), job[p].op # "none"
  PROVE  IInv'
<1> DEFINE D == Undone(p)
<1>0. PICK c \in Proc : c = job[p].kid
  BY ZenonT(30) DEF IInv, TypeOK
<1>1. TypeOK /\ PagesOwned /\ (\A q \in Proc : ProcOK(q) /\ KidOK(q))
  BY ZenonT(30) DEF IInv
<1>2. TypeOK' /\ PagesOwned' /\ ProcOK(p)'
  BY ZenonT(30), BadOK
<1>3. D \in SUBSET Holder
  BY ZenonT(30), UndoneIn
<1>4. /\ \A h \in Holder : at'[h] = IF h \in D THEN 0 ELSE at[h]
      /\ \A h \in Holder : h \in nouser' <=> h \in nouser /\ h \notin D
  BY ZenonT(30), <1>1, <1>3, ReleaseOK DEF Bad
<1>5. job'[p] = Idle /\ (\A q \in Proc : q # p => job'[q] = job[q]) /\ sz' = sz
  BY ZenonT(30), <1>1 DEF Bad, TypeOK
<1>6. \A h \in D : h[1] = p \/ (job[p].op = "fork" /\ h = Kstack(c))
  <2>1. Held(p)[1] = p
    BY ZenonT(30), OwnShape
  <2>2. \A h \in Space(p, "new") : h[1] = p
    BY ZenonT(30), SpaceShape DEF Spaces
  <2>3. \A h \in deallocuvm(p, job[p].goal, sz[p]) : h[1] = p
    BY ZenonT(30), DeallocIs, SpaceShape DEF Spaces
  <2> QED
    BY ZenonT(30), <1>0, <2>1, <2>2, <2>3 DEF Undone
<1>7. Idle.op = "none"
  BY ZenonT(30) DEF Idle
<1>8. CASE job[p].op # "fork"
  <2>1. state' = state
    BY ZenonT(30), <1>8 DEF Bad
  <2>2. ASSUME NEW q \in Proc \ {p} PROVE Kept(q)
    BY ZenonT(30), <1>4, <1>5, <1>6, <1>8, <2>1 DEF Kept
  <2>3. state[p] = "run"
    BY ZenonT(30), <1>1 DEF ProcOK, JobOK
  <2> QED
    BY ZenonT(30), <1>2, <1>5, <1>7, <2>2, <2>3, Solo
<1>9. CASE job[p].op = "fork"
  <2>1. state' = [state EXCEPT ![c] = "unused"] /\ state[c] = "embryo" /\ c # p
        /\ state[p] = "run"
    BY ZenonT(30), <1>0, <1>1, <1>9 DEF Bad, KidOK, ProcOK, JobOK
  <2>2. Kstack(c)[1] = c /\ Kstack(c) \in Holder /\ Kstack(c) \in D
    BY ZenonT(30), <1>0, <1>1, <1>9, OwnShape DEF Undone
  <2>3. state'[c] = "unused" /\ \A q \in Proc : q # c => state'[q] = state[q]
    BY ZenonT(30), <1>1, <2>1 DEF TypeOK
  <2>4. ASSUME NEW q \in Proc, q # p, q # c PROVE Kept(q)
    BY ZenonT(30), <1>4, <1>5, <1>6, <2>2, <2>3, <2>4 DEF Kept
  <2>5. ASSUME NEW q \in Proc, q # p, q # c PROVE ProcOK(q)'
    BY ZenonT(30), <1>1, <2>4, <2>5, KeptOK
  <2>6. ProcOK(c)'
    <3>1. job'[c] = job[c] /\ sz'[c] = sz[c] /\ job[c].op = "none" /\ job[c].step = "none"
      BY ZenonT(30), <1>1, <1>5, <2>1 DEF ProcOK, JobOK
    <3>2. \A h \in Holder : h[1] = c /\ h # Kstack(c) =>
            at'[h] = at[h] /\ (h \in nouser' <=> h \in nouser)
      BY ZenonT(30), <1>4, <1>6, <2>1
    <3>3. \A w \in Spaces : \A h \in Space(c, w) :
            at'[h] = at[h] /\ (h \in nouser' <=> h \in nouser)
      <4>1. \A w \in Spaces : \A h \in Space(c, w) : h[1] = c /\ h \in Holder /\ h[2] = w
        BY ZenonT(30), <1>1, SpaceShape
      <4>2. Kstack(c)[2] = "own"
        BY ZenonT(30), <1>1, OwnShape
      <4> QED
        BY ZenonT(30), <3>2, <4>1, <4>2 DEF Spaces
    <3>4. at'[Held(c)] = at[Held(c)]
      BY ZenonT(30), <1>1, <3>2, OwnShape
    <3>5. JobOK(c)'
      BY ZenonT(30), <3>1 DEF JobOK
    <3>6. HeldOK(c)'
      BY ZenonT(30), <1>1, <3>1, <3>4 DEF HeldOK, ProcOK
    <3>7. NewOK(c)'
      BY ZenonT(30), <1>1, <3>1, <3>3 DEF NewOK, Bare, ProcOK, Spaces
    <3>8. SlotOK(c)'
      <4>1. Bare(c, "mem")'
        BY ZenonT(30), <1>1, <2>1, <3>3 DEF SlotOK, Bare, ProcOK, Spaces
      <4> QED
        BY ZenonT(30), <4>1, <1>4, <2>2 DEF SlotOK
    <3>9. MapOK(c)'
      BY ZenonT(30), <2>3, <3>1 DEF MapOK
    <3>10. SizeOK(c)'
      BY ZenonT(30), <1>1, <3>1 DEF SizeOK, ProcOK
    <3>11. GuardOK(c)'
      BY ZenonT(30), <1>1, <3>1, <3>3 DEF GuardOK, ProcOK, Spaces
    <3> QED
      BY ZenonT(30), <3>5, <3>6, <3>7, <3>8, <3>9, <3>10, <3>11 DEF ProcOK
  <2>7. ASSUME NEW q \in Proc PROVE KidOK(q)'
    <3>1. SUFFICES ASSUME job'[q].op = "fork" PROVE KidOK(q)'
      BY ZenonT(30) DEF KidOK
    <3>2. q # p /\ job'[q] = job[q] /\ job[q].op = "fork" /\ job[q].kid \in Proc
      BY ZenonT(30), <1>1, <1>5, <1>7, <3>1 DEF TypeOK
    <3>3. job[q].kid # c
      BY ZenonT(30), <1>0, <1>1, <1>9, <3>2 DEF KidOK
    <3>4. state'[job[q].kid] = "embryo" /\ job[q].kid # p
      BY ZenonT(30), <1>1, <2>1, <2>3, <3>2, <3>3 DEF KidOK
    <3>5. at'[Kstack(job[q].kid)] = at[Kstack(job[q].kid)]
      BY <1>4, <1>6, <3>2, <3>3, <3>4, <2>2, OwnShape
    <3>6. \A r \in Proc : job'[r].op = "fork" => job'[r] = job[r]
      BY ZenonT(30), <1>5, <1>7
    <3> QED
      BY <1>1, <3>2, <3>4, <3>5, <3>6 DEF KidOK
  <2> QED
    BY ZenonT(30), <1>2, <2>5, <2>6, <2>7 DEF IInv
<1> QED
  BY ZenonT(30), <1>8, <1>9

(* kalloc() for a holder that has no page. *)
LEMMA TakeOK ==
  ASSUME TypeOK, PagesOwned, free # {}, NEW h \in Holder, at[h] = 0, Take(h)
  PROVE  /\ PagesOwned' /\ at' \in PageMap /\ free' \subseteq Pages /\ at'[h] # 0
         /\ \A g \in Holder : g # h => at'[g] = at[g]
<1>1. at \in PageMap /\ free \in SUBSET Pages /\ Owned(at, free)
  BY ZenonT(30) DEF TypeOK, PageMap, PagesOwned, Owned
<1>2. kalloc \in free /\ kalloc \in Pages
  BY ZenonT(30), <1>1, Kalloc
<1> HIDE DEF kalloc
<1>3. at' = [at EXCEPT ![h] = kalloc] /\ free' = free \ {kalloc}
  BY ZenonT(30) DEF Take
<1>4. Owned(at', free') /\ at' \in PageMap /\ free' \subseteq Pages
  BY ZenonT(30), <1>1, <1>2, <1>3, TakeOwned
<1>5. PagesOwned'
  BY ZenonT(30), <1>4 DEF Owned, PagesOwned
<1>6. at'[h] # 0 /\ \A g \in Holder : g # h => at'[g] = at[g]
  BY ZenonT(30), <1>1, <1>2, <1>3, Constants DEF PageMap
<1> QED
  BY ZenonT(30), <1>4, <1>5, <1>6

-----------------------------------------------------------------------------
(* Steps that take a page *)

JobType == [op : Ops, step : Steps, kid : Proc, a : Nat, old : Nat, goal : Nat, sp : Nat]

(* A call in progress has a record of its step and its sizes.              *)
LEMMA JobTyped ==
  ASSUME TypeOK, NEW p \in Proc
  PROVE  /\ job[p] \in JobType /\ sz[p] \in Nat
         /\ job[p].a \in Nat /\ job[p].old \in Nat /\ job[p].goal \in Nat /\ job[p].sp \in Nat
         /\ job[p].kid \in Proc /\ job[p].op \in Ops /\ job[p].step \in Steps
  BY ZenonT(30) DEF TypeOK, JobType

(* What Goto() changes. *)
LEMMA GotoIs ==
  ASSUME TypeOK, NEW p \in Proc, NEW st \in Steps, Goto(p, st)
  PROVE  /\ job' \in [Proc -> JobType]
         /\ job'[p] = [job[p] EXCEPT !.step = st]
         /\ job'[p].step = st /\ job'[p].op = job[p].op /\ job'[p].kid = job[p].kid
         /\ job'[p].a = job[p].a /\ job'[p].old = job[p].old
         /\ job'[p].goal = job[p].goal /\ job'[p].sp = job[p].sp
         /\ \A q \in Proc : q # p => job'[q] = job[q]
<1>1. job \in [Proc -> JobType]
  BY ZenonT(30) DEF TypeOK, JobType
<1>2. job'[p] = [job[p] EXCEPT !.step = st] /\ \A q \in Proc : q # p => job'[q] = job[q]
  BY ZenonT(30), <1>1 DEF Goto
<1>3. [job[p] EXCEPT !.step = st] \in JobType
  BY <1>1 DEF JobType
<1>4. job' \in [Proc -> JobType]
  BY ZenonT(30), <1>1, <1>3 DEF Goto
<1>5. /\ job'[p].step = st /\ job'[p].op = job[p].op /\ job'[p].kid = job[p].kid
      /\ job'[p].a = job[p].a /\ job'[p].old = job[p].old
      /\ job'[p].goal = job[p].goal /\ job'[p].sp = job[p].sp
  BY ZenonT(30), <1>1, <1>2 DEF JobType
<1> QED
  BY ZenonT(30), <1>2, <1>4, <1>5

(* A step that takes a page for p leaves the other processes alone.        *)
LEMMA TakeSolo ==
  ASSUME IInv, NEW p \in Proc, NEW g \in Holder, g[1] = p, g # Kstack(p), at[g] = 0,
         free # {}, Take(g), NEW st \in Steps \ {"kstack"}, Goto(p, st),
         UNCHANGED <<nouser, state, sz>>,
         ProcOK(p)'
  PROVE  IInv'
<1>1. TypeOK /\ PagesOwned
  BY ZenonT(30) DEF IInv
<1>2. /\ PagesOwned' /\ at' \in PageMap /\ free' \subseteq Pages
      /\ \A h \in Holder : h # g => at'[h] = at[h]
  BY ZenonT(30), <1>1, TakeOK
<1>3. /\ job' \in [Proc -> JobType] /\ \A q \in Proc : q # p => job'[q] = job[q]
      /\ job'[p].step = st /\ job'[p].op = job[p].op /\ job'[p].kid = job[p].kid
  BY ZenonT(30), <1>1, GotoIs
<1>4. TypeOK'
  BY ZenonT(30), <1>1, <1>2, <1>3 DEF TypeOK, PageMap, JobType
<1>5. ASSUME NEW q \in Proc \ {p} PROVE Kept(q)
  BY ZenonT(30), <1>2, <1>3 DEF Kept
<1>6. at'[Kstack(p)] = at[Kstack(p)] /\ state' = state
  BY <1>2, OwnShape
<1> QED
  BY ZenonT(30), <1>2, <1>3, <1>4, <1>5, <1>6, Solo

(* What the invariant says of p keeps, when p gets a page for g that is    *)
(* not in its address space "mem".                                         *)
LEMMA SetupkvmIInv ==
  ASSUME IInv, NEW p \in Proc, Setupkvm(p)
  PROVE  IInv'
<1>1. TypeOK /\ PagesOwned /\ ProcOK(p) /\ job[p].step = "dir" /\ job[p].op # "none"
  BY ZenonT(30) DEF IInv, Setupkvm, ProcOK, JobOK
<1>2. CASE free = {}
  BY ZenonT(30), <1>1, <1>2, BadIInv DEF Setupkvm
<1>3. CASE free # {}
  <2> DEFINE g == <<p, "new", "dir", 0>>
  <2>1. g \in Space(p, "new") /\ g \in Holder /\ g # Kstack(p)
    <3>1. g \in Space(p, "new") /\ g \in Holder
      BY ZenonT(30), TopShape DEF Spaces
    <3> QED
      BY <3>1, OwnShape
  <2>2. Bare(p, "new") /\ at[g] = 0
    BY ZenonT(30), <1>1, <2>1 DEF ProcOK, NewOK, Bare
  <2>3. Take(g) /\ Goto(p, "ktab") /\ UNCHANGED <<nouser, state, sz>>
    BY ZenonT(30), <1>3 DEF Setupkvm
  <2>4. "ktab" \in Steps \ {"kstack"}
    BY ZenonT(30) DEF Steps
  <2>5. /\ job'[p].step = "ktab" /\ job'[p].op = job[p].op
        /\ job'[p].a = job[p].a /\ job'[p].old = job[p].old
        /\ job'[p].goal = job[p].goal /\ job'[p].sp = job[p].sp
    BY ZenonT(30), <1>1, <2>3, <2>4, GotoIs
  <2>6. \A h \in Holder : h # g => at'[h] = at[h]
    BY ZenonT(30), <1>1, <1>3, <2>1, <2>2, <2>3, TakeOK
  <2>7. JobOK(p)'
    BY ZenonT(30), <1>1, <2>3, <2>5 DEF ProcOK, JobOK
  <2>8. HeldOK(p)'
    <3>1. at'[Held(p)] = at[Held(p)]
      BY <2>6, OwnShape
    <3> QED
      BY ZenonT(30), <1>1, <2>5, <3>1 DEF ProcOK, HeldOK
  <2>9. NewOK(p)'
    <3>1. \A h \in Space(p, "new") : h \in Holder
      BY ZenonT(30), SpaceShape DEF Spaces
    <3>2. \A h \in Space(p, "new") : h[3] # "dir" => at'[h] = 0
      BY <2>2, <2>6, <3>1 DEF Bare
    <3>3. job[p].op # "sbrk" /\ job[p].op # "none"
      BY ZenonT(30), <1>1 DEF ProcOK, JobOK
    <3> QED
      BY ZenonT(30), <2>5, <3>2, <3>3 DEF NewOK
  <2>10. SlotOK(p)'
    BY ZenonT(30), <1>1, <2>3 DEF ProcOK, SlotOK, JobOK
  <2>11. MapOK(p)'
    <3>1. \A v \in VPN : at'[Pte(p, "mem", v)] = at[Pte(p, "mem", v)]
      BY <2>6, EntryShape DEF Spaces
    <3>2. MapIs(p, "mem", PGROUNDUP(sz[p]))
      BY ZenonT(30), <1>1 DEF ProcOK, MapOK, JobOK
    <3> QED
      BY ZenonT(30), <2>3, <2>5, <3>1, <3>2 DEF MapOK, MapIs, Pte
  <2>12. SizeOK(p)'
    BY ZenonT(30), <1>1, <2>3, <2>5 DEF ProcOK, SizeOK
  <2>13. GuardOK(p)'
    BY ZenonT(30), <1>1, <2>3, <2>5 DEF ProcOK, GuardOK
  <2>14. ProcOK(p)'
    BY ZenonT(30), <2>7, <2>8, <2>9, <2>10, <2>11, <2>12, <2>13 DEF ProcOK
  <2> QED
    BY ZenonT(30), <1>3, <2>1, <2>2, <2>3, <2>4, <2>14, TakeSolo
<1> QED
  BY ZenonT(30), <1>2, <1>3

(* setupkvm() maps the kernel half.                                        *)
LEMMA SetupkvmMapIInv ==
  ASSUME IInv, NEW p \in Proc, SetupkvmMap(p)
  PROVE  IInv'
<1>1. TypeOK /\ PagesOwned /\ ProcOK(p) /\ job[p].step = "ktab" /\ job[p].op \in {"fork", "exec"}
  BY ZenonT(30), JobTyped DEF IInv, SetupkvmMap, ProcOK, JobOK, Ops
<1>2. CASE free = {}
  BY ZenonT(30), <1>1, <1>2, BadIInv DEF SetupkvmMap
<1>3. CASE free # {}
  <2> DEFINE g == <<p, "new", "ktab", 0>>
             st == IF job[p].op = "fork" THEN "alloc" ELSE "segment"
  <2>1. g \in Space(p, "new") /\ g \in Holder /\ g # Kstack(p)
    <3>1. g \in Space(p, "new") /\ g \in Holder
      BY ZenonT(30), TopShape DEF Spaces
    <3> QED
      BY <3>1, OwnShape
  <2>2. \A h \in Space(p, "new") : h[3] # "dir" => at[h] = 0
    BY ZenonT(30), <1>1 DEF ProcOK, NewOK
  <2>2a. at[g] = 0
    BY ZenonT(30), <2>1, <2>2
  <2>3. Take(g) /\ Goto(p, st) /\ UNCHANGED <<nouser, state, sz>>
    BY ZenonT(30), <1>3 DEF SetupkvmMap
  <2>4. st \in Steps \ {"kstack"}
    BY ZenonT(30) DEF Steps
  <2>5. /\ job'[p].step = st /\ job'[p].op = job[p].op
        /\ job'[p].a = job[p].a /\ job'[p].old = job[p].old
        /\ job'[p].goal = job[p].goal /\ job'[p].sp = job[p].sp
    BY ZenonT(30), <1>1, <2>3, <2>4, GotoIs
  <2>6. \A h \in Holder : h # g => at'[h] = at[h]
    BY ZenonT(30), <1>1, <1>3, <2>1, <2>2a, <2>3, TakeOK
  <2>7. JobOK(p)'
    BY ZenonT(30), <1>1, <2>3, <2>5 DEF ProcOK, JobOK
  <2>8. HeldOK(p)'
    <3>1. at'[Held(p)] = at[Held(p)]
      BY <2>6, OwnShape
    <3> QED
      BY ZenonT(30), <1>1, <2>5, <3>1 DEF ProcOK, HeldOK
  <2>9. NewOK(p)'
    BY ZenonT(30), <1>1, <2>5 DEF NewOK
  <2>10. SlotOK(p)'
    BY ZenonT(30), <1>1, <2>3 DEF ProcOK, SlotOK, JobOK
  <2>11. MapOK(p)'
    <3>1. \A v \in VPN : at'[Pte(p, "mem", v)] = at[Pte(p, "mem", v)]
      BY <2>6, EntryShape DEF Spaces
    <3>2. MapIs(p, "mem", PGROUNDUP(sz[p]))
      BY ZenonT(30), <1>1 DEF ProcOK, MapOK, JobOK
    <3>3. \A v \in VPN : at'[Pte(p, "new", v)] = 0
      BY <2>2, <2>6, EntryShape DEF Spaces
    <3>4. job[p].a = 0 /\ job[p].old = 0 /\ PGROUNDUP(0) = 0
      BY <1>1, RoundUpExact, Constants DEF ProcOK, SizeOK
    <3>5. \A v \in VPN : ~(v < 0)
      BY DEF VPN
    <3>6. PGROUNDUP(job[p].goal) \in Nat
      BY ZenonT(30), <1>1, JobTyped, RoundUp
    <3>7. MapIs(p, "mem", PGROUNDUP(sz[p]))'
      BY ZenonT(30), <2>3, <3>1, <3>2 DEF MapIs, Pte
    <3>8. MapIs(p, "new", 0)'
      BY ZenonT(30), <3>3, <3>5 DEF MapIs, Pte
    <3>9. Work(p)' = "new"
      BY ZenonT(30), <1>1, <2>5 DEF Work
    <3> QED
      BY <1>1, <2>5, <3>4, <3>6, <3>7, <3>8, <3>9 DEF MapOK
  <2>12. SizeOK(p)'
    BY ZenonT(30), <1>1, <2>3, <2>5 DEF ProcOK, SizeOK
  <2>13. GuardOK(p)'
    BY ZenonT(30), <1>1, <2>3, <2>5 DEF ProcOK, GuardOK
  <2>14. ProcOK(p)'
    BY ZenonT(30), <2>7, <2>8, <2>9, <2>10, <2>11, <2>12, <2>13 DEF ProcOK
  <2> QED
    BY ZenonT(30), <1>3, <2>1, <2>2a, <2>3, <2>4, <2>14, TakeSolo
<1> QED
  BY ZenonT(30), <1>2, <1>3

(* The loops of allocuvm() and copyuvm() get a page.                       *)
LEMMA AllocPageIInv ==
  ASSUME IInv, NEW p \in Proc, AllocPage(p)
  PROVE  IInv'
<1>1. TypeOK /\ PagesOwned /\ ProcOK(p) /\ job[p].step = "alloc" /\ job[p].op # "none"
  BY ZenonT(30) DEF IInv, AllocPage, ProcOK, JobOK
<1>2. CASE free = {}
  BY ZenonT(30), <1>1, <1>2, BadIInv DEF AllocPage
<1>3. CASE free # {}
  <2>1. Held(p) \in Holder /\ Held(p)[1] = p /\ Held(p) # Kstack(p)
    BY ZenonT(30), OwnShape
  <2>2. at[Held(p)] = 0
    BY ZenonT(30), <1>1 DEF ProcOK, HeldOK
  <2>3. Take(Held(p)) /\ Goto(p, "map") /\ UNCHANGED <<nouser, state, sz>>
    BY ZenonT(30), <1>3 DEF AllocPage
  <2>4. "map" \in Steps \ {"kstack"}
    BY ZenonT(30) DEF Steps
  <2>5. /\ job'[p].step = "map" /\ job'[p].op = job[p].op
        /\ job'[p].a = job[p].a /\ job'[p].old = job[p].old
        /\ job'[p].goal = job[p].goal /\ job'[p].sp = job[p].sp
    BY ZenonT(30), <1>1, <2>3, <2>4, GotoIs
  <2>6. at'[Held(p)] # 0 /\ \A h \in Holder : h # Held(p) => at'[h] = at[h]
    BY ZenonT(30), <1>1, <1>3, <2>1, <2>2, <2>3, TakeOK
  <2>7. JobOK(p)'
    BY ZenonT(30), <1>1, <2>3, <2>5 DEF ProcOK, JobOK
  <2>8. HeldOK(p)'
    BY ZenonT(30), <2>5, <2>6 DEF HeldOK
  <2>9. NewOK(p)'
    <3>0. \A h \in Space(p, "new") : h \in Holder /\ h[2] = "new"
      BY ZenonT(30), SpaceShape DEF Spaces
    <3>1. \A h \in Space(p, "new") : at'[h] = at[h]
      BY ZenonT(30), <2>6, <3>0, OwnShape
    <3> QED
      BY ZenonT(30), <1>1, <2>5, <3>1 DEF ProcOK, NewOK, Bare
  <2>10. SlotOK(p)'
    BY ZenonT(30), <1>1, <2>3 DEF ProcOK, SlotOK, JobOK
  <2>11. MapOK(p)'
    <3>1. \A w \in Spaces, v \in VPN : at'[Pte(p, w, v)] = at[Pte(p, w, v)]
      BY <2>6, EntryShape, OwnShape DEF Spaces
    <3>2. job[p].a * PGSIZE < job[p].goal
      BY ZenonT(30) DEF AllocPage
    <3>3. job[p].a < PGROUNDUP(job[p].goal)
      BY ZenonT(30), <1>1, <3>2, JobTyped, RoundUp
    <3>4. state' = state /\ sz' = sz /\ Work(p)' = Work(p) /\ Work(p) \in Spaces
      BY ZenonT(30), <2>3, <2>5 DEF Work, Spaces
    <3>6. MapIs(p, "mem", PGROUNDUP(sz[p])) => MapIs(p, "mem", PGROUNDUP(sz[p]))'
      BY ZenonT(30), <3>1, <3>4 DEF MapIs, Pte, Spaces
    <3>7. MapIs(p, Work(p), job[p].a)'
      BY ZenonT(30), <1>1, <2>5, <3>1, <3>4 DEF MapIs, Pte, ProcOK, MapOK
    <3> QED
      BY ZenonT(30), <1>1, <2>5, <3>3, <3>4, <3>6, <3>7 DEF MapOK, ProcOK
  <2>12. SizeOK(p)'
    BY ZenonT(30), <1>1, <2>3, <2>5 DEF ProcOK, SizeOK
  <2>13. GuardOK(p)'
    BY ZenonT(30), <1>1, <2>3, <2>5 DEF ProcOK, GuardOK
  <2>14. ProcOK(p)'
    BY ZenonT(30), <2>7, <2>8, <2>9, <2>10, <2>11, <2>12, <2>13 DEF ProcOK
  <2> QED
    BY ZenonT(30), <1>3, <2>1, <2>2, <2>3, <2>4, <2>14, TakeSolo
<1> QED
  BY ZenonT(30), <1>2, <1>3

(* mappages() enters the page, with a table for it when there is none.     *)
LEMMA MappagesIInv ==
  ASSUME IInv, NEW p \in Proc, Mappages(p)
  PROVE  IInv'
<1>0. PICK w \in Spaces, a \in Nat : w = Work(p) /\ a = job[p].a
  BY ZenonT(30), JobTyped DEF Work, Spaces, IInv
<1> DEFINE x == Pte(p, w, a)
           t == Table(p, w, a)
           full == [at EXCEPT ![x] = at[Held(p)], ![Held(p)] = 0]
<1>1. TypeOK /\ PagesOwned /\ ProcOK(p) /\ job[p].step = "map" /\ job[p].op # "none"
  BY ZenonT(30) DEF IInv, Mappages, ProcOK, JobOK
<1>2. CASE at[t] = 0 /\ free = {}
  BY ZenonT(30), <1>0, <1>1, <1>2, BadIInv DEF Mappages
<1>3. CASE ~(at[t] = 0 /\ free = {})
  <2>1. a < PGROUNDUP(job[p].goal) /\ MapIs(p, w, a) /\ job[p].goal <= KERNBASE
    BY ZenonT(30), <1>0, <1>1 DEF ProcOK, MapOK, SizeOK
  <2>2. a \in VPN
    <3>1. PGROUNDUP(job[p].goal) \in Nat /\ PGROUNDUP(job[p].goal) <= KERNPAGES
      BY ZenonT(30), <1>1, <2>1, JobTyped, RoundUpBound
    <3> QED
      BY <2>1, <3>1, Constants DEF VPN
  <2>3. x \in Holder /\ t \in Holder /\ x # t /\ x # Held(p) /\ t # Held(p)
        /\ x[1] = p /\ t[1] = p /\ x # Kstack(p) /\ t # Kstack(p) /\ Held(p) # Kstack(p)
        /\ Held(p) \in Holder /\ Held(p)[1] = p /\ Kstack(p) \in Holder
    BY <2>2, EntryShape, OwnShape DEF Spaces
  <2>4. at[x] = 0 /\ at[Held(p)] # 0
    <3>1. at[Held(p)] # 0
      BY ZenonT(30), <1>1 DEF ProcOK, HeldOK
    <3>2. ~(a < a)
      BY <1>0
    <3> QED
      BY ZenonT(30), <2>1, <2>2, <3>1, <3>2 DEF MapIs
  <2>5. at \in PageMap /\ free \in SUBSET Pages /\ Owned(at, free)
    BY ZenonT(30), <1>1 DEF TypeOK, PageMap, PagesOwned, Owned
  <2>6. full \in PageMap /\ Owned(full, free)
    BY ZenonT(30), <2>3, <2>4, <2>5, MoveOwned
  <2>7. full[x] = at[Held(p)] /\ full[Held(p)] = 0
        /\ \A h \in Holder : h # x /\ h # Held(p) => full[h] = at[h]
    BY ZenonT(30), <2>3, <2>5 DEF PageMap
  <2>8. /\ IF at[t] = 0 THEN at' = [full EXCEPT ![t] = kalloc] /\ free' = free \ {kalloc}
                        ELSE at' = full /\ free' = free
        /\ nouser' = IF job[p].op = "fork" /\ Pte(p, "mem", a) \in nouser
                     THEN nouser \cup {x} ELSE nouser
        /\ job' = [job EXCEPT ![p].a = @ + 1, ![p].step = "alloc"]
        /\ state' = state /\ sz' = sz
    BY ZenonT(30), <1>0, <1>3 DEF Mappages
  <2> HIDE DEF full, x, t
  <2>9. /\ at' \in PageMap /\ free' \in SUBSET Pages /\ Owned(at', free')
        /\ at'[x] # 0 /\ at'[Held(p)] = 0
        /\ \A h \in Holder : h # x /\ h # t /\ h # Held(p) => at'[h] = at[h]
    <3>1. CASE at[t] = 0
      <4>1. kalloc \in free
        BY ZenonT(30), <1>3, <2>5, <3>1, Kalloc
      <4>2. full[t] = 0
        BY ZenonT(30), <2>3, <2>7, <3>1
      <4> HIDE DEF kalloc
      <4>3. at' \in PageMap /\ Owned(at', free') /\ free' \in SUBSET Pages
        BY <2>3, <2>5, <2>6, <2>8, <3>1, <4>1, <4>2, TakeOwned
      <4>4. \A h \in Holder : h # t => at'[h] = full[h]
        BY ZenonT(30), <2>6, <2>8, <3>1 DEF PageMap
      <4> QED
        BY ZenonT(30), <2>3, <2>4, <2>7, <4>3, <4>4
    <3>2. CASE at[t] # 0
      BY ZenonT(30), <2>3, <2>4, <2>5, <2>6, <2>7, <2>8, <3>2
    <3> QED
      BY ZenonT(30), <3>1, <3>2
  <2>10. PagesOwned'
    BY ZenonT(30), <2>9 DEF PagesOwned, Owned
  <2>11. /\ job' \in [Proc -> JobType] /\ (\A q \in Proc : q # p => job'[q] = job[q])
         /\ job'[p].step = "alloc" /\ job'[p].a = a + 1
         /\ job'[p].op = job[p].op /\ job'[p].kid = job[p].kid
         /\ job'[p].old = job[p].old /\ job'[p].goal = job[p].goal /\ job'[p].sp = job[p].sp
    <3>1. job \in [Proc -> JobType] /\ job[p] \in JobType /\ job[p].a + 1 \in Nat
          /\ "alloc" \in Steps
      BY <1>1 DEF TypeOK, JobType, Steps
    <3>2. job'[p] = [job[p] EXCEPT !.a = @ + 1, !.step = "alloc"]
          /\ (\A q \in Proc : q # p => job'[q] = job[q])
      BY ZenonT(30), <2>8, <3>1
    <3>3. job'[p] \in JobType
      BY ZenonT(30), <3>1, <3>2 DEF JobType
    <3>4. job' \in [Proc -> JobType]
      BY ZenonT(30), <2>8, <3>1, <3>2, <3>3
    <3> QED
      BY ZenonT(30), <1>0, <3>1, <3>2, <3>4 DEF JobType
  <2>12. nouser' \subseteq Holder /\ \A h \in Holder : h[1] # p => (h \in nouser' <=> h \in nouser)
    BY ZenonT(30), <1>1, <2>3, <2>8 DEF TypeOK
  <2>13. TypeOK'
    BY ZenonT(30), <1>1, <2>8, <2>9, <2>11, <2>12 DEF TypeOK, PageMap, JobType
  <2>14. ASSUME NEW q \in Proc \ {p} PROVE Kept(q)
    BY ZenonT(30), <2>3, <2>8, <2>9, <2>11, <2>12 DEF Kept
  <2>15. w = "mem" <=> job[p].op = "sbrk"
    BY ZenonT(30), <1>0 DEF Work
  <2>16. x[2] = w /\ t[2] = w /\ Held(p)[2] = "own" /\ t[3] = "tab" /\ x[3] = "pte"
    BY <2>2, EntryShape, OwnShape DEF x, t
  <2>17. JobOK(p)'
    BY ZenonT(30), <1>1, <2>8, <2>11 DEF ProcOK, JobOK
  <2>18. HeldOK(p)'
    BY ZenonT(30), <2>9, <2>11 DEF HeldOK
  <2>19. NewOK(p)'
    <3>1. CASE job[p].op = "sbrk"
      <4>1. \A h \in Space(p, "new") : at[h] = 0 /\ h \in Holder /\ h[2] = "new"
        BY ZenonT(30), <1>1, <3>1, SpaceShape DEF ProcOK, NewOK, Bare, Spaces
      <4>2. \A h \in Space(p, "new") : at'[h] = 0
        BY ZenonT(30), <2>9, <2>15, <2>16, <3>1, <4>1
      <4> QED
        BY ZenonT(30), <2>11, <4>2 DEF NewOK, Bare
    <3>2. CASE job[p].op # "sbrk"
      BY ZenonT(30), <1>1, <2>11, <3>2 DEF NewOK
    <3> QED
      BY ZenonT(30), <3>1, <3>2
  <2>20. SlotOK(p)'
    BY ZenonT(30), <1>1, <2>8 DEF ProcOK, SlotOK, JobOK
  <2>21. MapOK(p)'
    <3>1. MapIs(p, w, a + 1)'
      <4> SUFFICES ASSUME NEW v \in VPN PROVE at'[Pte(p, w, v)] # 0 <=> v < a + 1
        BY ZenonT(30) DEF MapIs, Pte
      <4>1. CASE v = a
        BY <2>9, <4>1 DEF x
      <4>2. CASE v # a
        <5>1. Pte(p, w, v) \in Holder /\ Pte(p, w, v)[3] = "pte" /\ Pte(p, w, v)[4] = v
              /\ Pte(p, w, v)[2] = w /\ x[4] = a
          BY <2>2, EntryShape DEF x
        <5>2. at'[Pte(p, w, v)] = at[Pte(p, w, v)]
          BY ZenonT(30), <2>9, <2>16, <4>2, <5>1 DEF Spaces
        <5>3. v < a + 1 <=> v < a
          BY <4>2 DEF VPN
        <5> QED
          BY ZenonT(30), <2>1, <5>2, <5>3 DEF MapIs
      <4> QED
        BY ZenonT(30), <4>1, <4>2
    <3>2. Work(p)' = w
      BY ZenonT(30), <1>0, <2>11 DEF Work
    <3>3. a + 1 <= PGROUNDUP(job[p].goal)
      BY <1>1, <2>1, JobTyped, RoundUp
    <3>4. job[p].op # "sbrk" => MapIs(p, "mem", PGROUNDUP(sz[p]))'
      <4>1. SUFFICES ASSUME job[p].op # "sbrk", NEW v \in VPN
                     PROVE  at'[Pte(p, "mem", v)] = at[Pte(p, "mem", v)]
        BY ZenonT(30), <1>1, <2>8 DEF MapIs, Pte, ProcOK, MapOK, JobOK
      <4>2. Pte(p, "mem", v) \in Holder /\ Pte(p, "mem", v)[2] = "mem"
        BY EntryShape DEF Spaces
      <4> QED
        BY ZenonT(30), <2>9, <2>15, <2>16, <4>1, <4>2 DEF Spaces
    <3> QED
      BY ZenonT(30), <2>11, <3>1, <3>2, <3>3, <3>4 DEF MapOK
  <2>22. SizeOK(p)'
    <3>1. job[p].op = "sbrk" => PGROUNDUP(sz[p]) <= a + 1
      BY <1>0, <1>1, JobTyped, RoundUp DEF ProcOK, SizeOK
    <3> QED
      BY ZenonT(30), <1>1, <2>8, <2>11, <3>1 DEF ProcOK, SizeOK
  <2>23. GuardOK(p)'
    BY ZenonT(30), <1>1, <2>8, <2>11 DEF ProcOK, GuardOK
  <2>24. ProcOK(p)'
    BY ZenonT(30), <2>17, <2>18, <2>19, <2>20, <2>21, <2>22, <2>23 DEF ProcOK
  <2>25. at'[Kstack(p)] = at[Kstack(p)]
    BY ZenonT(30), <2>3, <2>9
  <2> QED
    BY ZenonT(30), <2>8, <2>10, <2>11, <2>13, <2>14, <2>24, <2>25, Solo
<1> QED
  BY ZenonT(30), <1>2, <1>3

-----------------------------------------------------------------------------
(* fork() *)

(* fork() takes a slot and starts to copy.                                 *)
LEMMA ForkIInv ==
  ASSUME IInv, NEW p \in Proc, Fork(p)
  PROVE  IInv'
<1>1. TypeOK /\ PagesOwned /\ (\A q \in Proc : ProcOK(q) /\ KidOK(q))
      /\ state[p] = "run" /\ job[p] = Idle
  BY ZenonT(30) DEF IInv, Fork, Running
<1>2. PICK c \in Proc :
        /\ state[c] = "unused"
        /\ state' = [state EXCEPT ![c] = "embryo"]
        /\ job' = [job EXCEPT ![p] = [Idle EXCEPT !.op = "fork", !.step = "kstack",
                                                 !.kid = c, !.goal = sz[p]]]
  BY ZenonT(30) DEF Fork
<1>3. at' = at /\ free' = free /\ nouser' = nouser /\ sz' = sz
  BY ZenonT(30) DEF Fork
<1>4. Idle \in JobType /\ Idle.op = "none" /\ Idle.step = "none" /\ Idle.a = 0 /\ Idle.old = 0
  BY ZenonT(30), VmAssumption DEF Idle, JobType, Ops, Steps
<1>5. /\ job'[p].op = "fork" /\ job'[p].step = "kstack" /\ job'[p].kid = c
      /\ job'[p].goal = sz[p] /\ job'[p].a = 0 /\ job'[p].old = 0
      /\ \A q \in Proc : q # p => job'[q] = job[q]
  BY ZenonT(30), <1>1, <1>2 DEF TypeOK, Idle
<1>6. job' \in [Proc -> JobType]
  <2>1. [Idle EXCEPT !.op = "fork", !.step = "kstack", !.kid = c, !.goal = sz[p]] \in JobType
    BY ZenonT(30), <1>1, VmAssumption, JobTyped DEF Idle, JobType, Ops, Steps
  <2>2. job \in [Proc -> JobType]
    BY ZenonT(30), <1>1 DEF TypeOK, JobType
  <2> QED
    BY ZenonT(30), <1>2, <2>1, <2>2
<1>7. state'[c] = "embryo" /\ (\A q \in Proc : q # c => state'[q] = state[q]) /\ c # p
      /\ state' \in [Proc -> {"unused", "embryo", "run", "doomed", "zombie"}]
  BY ZenonT(30), <1>1, <1>2 DEF TypeOK
<1>8. TypeOK' /\ PagesOwned'
  <2>1. TypeOK'
    BY ZenonT(30), <1>1, <1>3, <1>6, <1>7 DEF TypeOK, JobType
  <2>2. PagesOwned'
    BY ZenonT(30), <1>1, <1>3 DEF PagesOwned
  <2> QED
    BY ZenonT(30), <2>1, <2>2
<1>9. ASSUME NEW q \in Proc, q # p, q # c PROVE ProcOK(q)'
  <2>1. Kept(q)
    BY ZenonT(30), <1>3, <1>5, <1>7, <1>9 DEF Kept
  <2> QED
    BY ZenonT(30), <1>1, <2>1, KeptOK
<1>10. ProcOK(c)'
  <2>1. job'[c] = job[c] /\ job[c].op = "none" /\ job[c].step = "none"
    BY ZenonT(30), <1>1, <1>2, <1>5, <1>7 DEF ProcOK, JobOK
  <2>2. JobOK(c)'
    BY ZenonT(30), <2>1 DEF JobOK
  <2>3. HeldOK(c)'
    BY ZenonT(30), <1>1, <1>3, <2>1 DEF HeldOK, ProcOK
  <2>4. NewOK(c)'
    BY ZenonT(30), <1>1, <1>3, <2>1 DEF NewOK, Bare, ProcOK
  <2>5. SlotOK(c)'
    BY ZenonT(30), <1>1, <1>2, <1>3, <1>7 DEF SlotOK, Bare, ProcOK
  <2>6. MapOK(c)'
    BY ZenonT(30), <1>7, <2>1 DEF MapOK
  <2>7. SizeOK(c)'
    BY ZenonT(30), <1>1, <1>3, <2>1 DEF SizeOK, ProcOK
  <2>8. GuardOK(c)'
    BY ZenonT(30), <1>1, <1>3, <2>1 DEF GuardOK, ProcOK
  <2> QED
    BY ZenonT(30), <2>2, <2>3, <2>4, <2>5, <2>6, <2>7, <2>8 DEF ProcOK
<1>11. ProcOK(p)'
  <2>1. state'[p] = "run" /\ job[p].op = "none" /\ job[p].step = "none"
    BY ZenonT(30), <1>1, <1>4, <1>7
  <2>2. JobOK(p)'
    BY ZenonT(30), <1>5, <2>1 DEF JobOK
  <2>3. HeldOK(p)'
    BY ZenonT(30), <1>1, <1>3, <1>5, <2>1 DEF HeldOK, ProcOK
  <2>4. NewOK(p)'
    BY ZenonT(30), <1>1, <1>3, <1>5, <2>1 DEF NewOK, Bare, ProcOK
  <2>5. SlotOK(p)'
    BY ZenonT(30), <2>1 DEF SlotOK
  <2>6. MapOK(p)'
    BY ZenonT(30), <1>1, <1>3, <1>5, <2>1 DEF MapOK, MapIs, ProcOK
  <2>7. SizeOK(p)'
    BY <1>1, <1>3, <1>5, Constants DEF SizeOK, ProcOK
  <2>8. GuardOK(p)'
    BY ZenonT(30), <1>5 DEF GuardOK
  <2> QED
    BY ZenonT(30), <2>2, <2>3, <2>4, <2>5, <2>6, <2>7, <2>8 DEF ProcOK
<1>12. ASSUME NEW q \in Proc PROVE KidOK(q)'
  <2>1. \A r \in Proc : r # p /\ job'[r].op = "fork" =>
          /\ job[r].op = "fork" /\ job'[r] = job[r] /\ job[r].kid \in Proc
          /\ state[job[r].kid] = "embryo" /\ job[r].kid # c /\ state'[job[r].kid] = "embryo"
    BY <1>1, <1>2, <1>5, <1>7 DEF KidOK, TypeOK
  <2>2. at[Kstack(c)] = 0
    BY ZenonT(30), <1>1, <1>2 DEF ProcOK, SlotOK
  <2>3. CASE q = p
    BY <1>3, <1>5, <1>7, <2>1, <2>2, <2>3 DEF KidOK
  <2>4. CASE q # p
    BY <1>1, <1>3, <1>5, <2>1, <2>4 DEF KidOK
  <2> QED
    BY ZenonT(30), <2>3, <2>4
<1> QED
  BY ZenonT(30), <1>8, <1>9, <1>10, <1>11, <1>12 DEF IInv

(* allocproc() gets the kernel stack of the child.                         *)
LEMMA ForkStackIInv ==
  ASSUME IInv, NEW p \in Proc, ForkStack(p)
  PROVE  IInv'
<1>0. PICK c \in Proc : c = job[p].kid
  BY ZenonT(30), JobTyped DEF IInv
<1>1. TypeOK /\ PagesOwned /\ (\A q \in Proc : ProcOK(q) /\ KidOK(q))
      /\ job[p].step = "kstack" /\ job[p].op = "fork"
  BY ZenonT(30), JobTyped DEF IInv, ForkStack, ProcOK, JobOK, Ops
<1>2. CASE free = {}
  BY ZenonT(30), <1>1, <1>2, BadIInv DEF ForkStack
<1>3. CASE free # {}
  <2>1. state[c] = "embryo" /\ at[Kstack(c)] = 0 /\ state[p] = "run" /\ c # p
        /\ Kstack(c) \in Holder /\ Kstack(c)[1] = c /\ Kstack(c)[2] = "own"
        /\ Kstack(c)[3] = "kstack"
    BY ZenonT(30), <1>0, <1>1, OwnShape DEF KidOK, ProcOK, JobOK
  <2>2. Take(Kstack(c)) /\ Goto(p, "dir") /\ nouser' = nouser /\ state' = state /\ sz' = sz
    BY ZenonT(30), <1>0, <1>3 DEF ForkStack
  <2>3. /\ PagesOwned' /\ at' \in PageMap /\ free' \subseteq Pages
        /\ \A h \in Holder : h # Kstack(c) => at'[h] = at[h]
    BY ZenonT(30), <1>1, <1>3, <2>1, <2>2, TakeOK
  <2>4. /\ job' \in [Proc -> JobType]
        /\ job'[p].step = "dir" /\ job'[p].op = "fork" /\ job'[p].kid = c
        /\ job'[p].a = job[p].a /\ job'[p].old = job[p].old
        /\ job'[p].goal = job[p].goal /\ job'[p].sp = job[p].sp
        /\ \A q \in Proc : q # p => job'[q] = job[q]
    <3>1. "dir" \in Steps
      BY ZenonT(30) DEF Steps
    <3> QED
      BY ZenonT(30), <1>0, <1>1, <2>2, <3>1, GotoIs
  <2>5. TypeOK'
    BY ZenonT(30), <1>1, <2>2, <2>3, <2>4 DEF TypeOK, PageMap, JobType
  <2>6. ASSUME NEW q \in Proc, q # p, q # c PROVE ProcOK(q)'
    <3>1. Kept(q)
      BY ZenonT(30), <2>1, <2>2, <2>3, <2>4, <2>6 DEF Kept
    <3> QED
      BY ZenonT(30), <1>1, <3>1, KeptOK
  <2>7. ASSUME NEW q \in Proc
        PROVE  /\ at'[Held(q)] = at[Held(q)]
               /\ \A w \in Spaces : \A h \in Space(q, w) : at'[h] = at[h]
               /\ \A w \in Spaces, v \in VPN : at'[Pte(q, w, v)] = at[Pte(q, w, v)]
    <3>1. at'[Held(q)] = at[Held(q)]
      BY ZenonT(30), <2>1, <2>3, OwnShape
    <3>2. \A w \in Spaces : \A h \in Space(q, w) : h \in Holder /\ h[2] = w
      BY ZenonT(30), SpaceShape
    <3>3. \A w \in Spaces : \A h \in Space(q, w) : at'[h] = at[h]
      BY ZenonT(30), <2>1, <2>3, <3>2 DEF Spaces
    <3>4. \A w \in Spaces, v \in VPN : Pte(q, w, v) \in Space(q, w)
      BY ZenonT(30), EntryShape
    <3> QED
      BY ZenonT(30), <3>1, <3>3, <3>4
  <2>8. ProcOK(c)'
    <3>1. job'[c] = job[c] /\ job[c].op = "none" /\ job[c].step = "none"
      BY ZenonT(30), <1>1, <2>1, <2>4 DEF ProcOK, JobOK
    <3>2. JobOK(c)'
      BY ZenonT(30), <3>1 DEF JobOK
    <3>3. HeldOK(c)'
      BY ZenonT(30), <1>1, <2>7, <3>1 DEF HeldOK, ProcOK
    <3>4. NewOK(c)'
      BY ZenonT(30), <1>1, <2>7, <3>1 DEF NewOK, Bare, ProcOK, Spaces
    <3>5. SlotOK(c)'
      BY ZenonT(30), <1>1, <2>1, <2>2, <2>7 DEF SlotOK, Bare, ProcOK, Spaces
    <3>6. MapOK(c)'
      BY ZenonT(30), <2>1, <2>2, <3>1 DEF MapOK
    <3>7. SizeOK(c)'
      BY ZenonT(30), <1>1, <2>2, <3>1 DEF SizeOK, ProcOK
    <3>8. GuardOK(c)'
      BY ZenonT(30), <1>1, <2>2, <3>1 DEF GuardOK, ProcOK
    <3> QED
      BY ZenonT(30), <3>2, <3>3, <3>4, <3>5, <3>6, <3>7, <3>8 DEF ProcOK
  <2>9. ProcOK(p)'
    <3>1. JobOK(p)'
      BY ZenonT(30), <2>1, <2>2, <2>4 DEF JobOK
    <3>2. HeldOK(p)'
      BY ZenonT(30), <1>1, <2>4, <2>7 DEF HeldOK, ProcOK
    <3>3. NewOK(p)'
      BY ZenonT(30), <1>1, <2>4, <2>7 DEF NewOK, Bare, ProcOK, Spaces
    <3>4. SlotOK(p)'
      BY ZenonT(30), <2>1, <2>2 DEF SlotOK
    <3>5. MapOK(p)'
      <4>1. MapIs(p, "mem", PGROUNDUP(sz[p]))'
        BY ZenonT(30), <1>1, <2>1, <2>2, <2>7 DEF MapOK, MapIs, ProcOK, Pte, Spaces
      <4> QED
        BY ZenonT(30), <2>4, <4>1 DEF MapOK
    <3>6. SizeOK(p)'
      BY ZenonT(30), <1>1, <2>2, <2>4 DEF SizeOK, ProcOK
    <3>7. GuardOK(p)'
      BY ZenonT(30), <2>4 DEF GuardOK
    <3> QED
      BY ZenonT(30), <3>1, <3>2, <3>3, <3>4, <3>5, <3>6, <3>7 DEF ProcOK
  <2>10. ASSUME NEW q \in Proc PROVE KidOK(q)'
    <3>1. CASE q = p
      <4>1. \A r \in Proc : job'[r].op = job[r].op /\ job'[r].kid = job[r].kid
        BY ZenonT(30), <1>0, <1>1, <2>4
      <4>2. \A r \in Proc : job[r].op = "fork" /\ job[r].kid = c => r = p
        BY ZenonT(30), <1>0, <1>1 DEF KidOK
      <4>3. state'[job'[p].kid] = "embryo" /\ job'[p].step # "kstack"
        BY ZenonT(30), <2>1, <2>2, <2>4
      <4> QED
        BY ZenonT(30), <2>4, <3>1, <4>1, <4>2, <4>3 DEF KidOK
    <3>2. CASE q # p
      <4>1. SUFFICES ASSUME job[q].op = "fork" PROVE KidOK(q)'
        BY ZenonT(30), <2>4, <3>2 DEF KidOK
      <4>2. job[q].kid # c /\ job[q].kid \in Proc
        BY ZenonT(30), <1>0, <1>1, <3>2, <4>1, JobTyped DEF KidOK
      <4>3. at'[Kstack(job[q].kid)] = at[Kstack(job[q].kid)]
        BY <2>1, <2>3, <4>2, OwnShape
      <4>4. \A r \in Proc : job'[r].op = job[r].op /\ job'[r].kid = job[r].kid
        BY ZenonT(30), <1>0, <1>1, <2>4
      <4>5. KidOK(q) /\ job'[q] = job[q] /\ state' = state
        BY ZenonT(30), <1>1, <2>2, <2>4, <3>2
      <4> QED
        BY ZenonT(30), <4>1, <4>3, <4>4, <4>5 DEF KidOK
    <3> QED
      BY ZenonT(30), <3>1, <3>2
  <2> QED
    BY ZenonT(30), <2>3, <2>5, <2>6, <2>8, <2>9, <2>10 DEF IInv
<1> QED
  BY ZenonT(30), <1>2, <1>3

(* What Install() changes. *)
LEMMA InstallIs ==
  ASSUME TypeOK, NEW p \in Proc, NEW q \in Proc, Install(p, q)
  PROVE  /\ at' \in PageMap /\ nouser' \subseteq Holder
         /\ \A h \in Space(q, "mem") : at'[h] = at[<<p, "new", h[3], h[4]>>]
         /\ \A h \in Space(p, "new") : at'[h] = 0 /\ h \notin nouser'
         /\ \A h \in Holder : h \notin Space(q, "mem") /\ h \notin Space(p, "new") =>
              at'[h] = at[h] /\ (h \in nouser' <=> h \in nouser)
         /\ \A v \in VPN : at'[Pte(q, "mem", v)] = at[Pte(p, "new", v)]
<1>1. at \in PageMap
  BY ZenonT(30) DEF TypeOK, PageMap
<1>2. \A h \in Space(q, "mem") : h \in Holder /\ h[2] = "mem" /\ <<h[3], h[4]>> \in Parts
  BY ZenonT(30), SpaceShape DEF Spaces
<1>3. \A h \in Space(p, "new") : h \in Holder /\ h[2] = "new" /\ h \notin Space(q, "mem")
  BY ZenonT(30), <1>2, SpaceShape DEF Spaces
<1>4. \A h \in Space(q, "mem") : <<p, "new", h[3], h[4]>> \in Holder
  <2> SUFFICES ASSUME NEW h \in Space(q, "mem") PROVE <<p, "new", h[3], h[4]>> \in Holder
    BY ZenonT(30)
  <2>1. <<p, "new", h[3], h[4]>> \in Space(p, "new")
    BY ZenonT(30), <1>2, SpaceHas
  <2> QED
    BY ZenonT(30), <1>3, <2>1
<1>5. at' = [h \in Holder |-> CASE h \in Space(q, "mem") -> at[<<p, "new", h[3], h[4]>>]
                                [] h \in Space(p, "new") -> 0
                                [] OTHER -> at[h]]
  BY ZenonT(30) DEF Install
<1>6. \A h \in Space(q, "mem") : at'[h] = at[<<p, "new", h[3], h[4]>>]
  BY ZenonT(30), <1>2, <1>3, <1>5
<1>7. \A h \in Space(p, "new") : at'[h] = 0
  BY ZenonT(30), <1>3, <1>5
<1>8. \A h \in Holder : h \notin Space(q, "mem") /\ h \notin Space(p, "new") => at'[h] = at[h]
  BY ZenonT(30), <1>5
<1>9. at' \in PageMap
  <2>1. \A h \in Holder : at'[h] \in Pages \cup {0}
    BY ZenonT(30), <1>1, <1>4, <1>6, <1>7, <1>8 DEF PageMap
  <2> QED
    BY ZenonT(30), <1>5, <2>1 DEF PageMap
<1>10. nouser' = {h \in Holder : CASE h \in Space(q, "mem") -> <<p, "new", h[3], h[4]>> \in nouser
                                   [] h \in Space(p, "new") -> FALSE
                                   [] OTHER -> h \in nouser}
  BY ZenonT(30) DEF Install
<1>11. nouser' \subseteq Holder
  BY ZenonT(30), <1>10
<1>12. \A h \in Space(p, "new") : h \notin nouser'
  BY ZenonT(30), <1>3, <1>10
<1>13. \A h \in Holder : h \notin Space(q, "mem") /\ h \notin Space(p, "new") =>
         (h \in nouser' <=> h \in nouser)
  BY ZenonT(30), <1>10
<1>14. ASSUME NEW v \in VPN PROVE at'[Pte(q, "mem", v)] = at[Pte(p, "new", v)]
  <2>1. Pte(q, "mem", v) \in Space(q, "mem") /\ Pte(q, "mem", v)[3] = "pte"
        /\ Pte(q, "mem", v)[4] = v
    BY EntryShape DEF Spaces
  <2> QED
    BY ZenonT(30), <1>6, <2>1 DEF Pte
<1> QED
  BY ZenonT(30), <1>6, <1>7, <1>8, <1>9, <1>11, <1>12, <1>13, <1>14

(* What a finished call leaves of the invariant to show. *)
LEMMA IdleOK ==
  ASSUME NEW p \in Proc, job'[p].op = "none", job'[p].step = "none",
         job'[p].goal <= KERNBASE, job'[p].old <= KERNBASE,
         at'[Held(p)] = 0, sz'[p] <= KERNBASE,
         \A h \in Space(p, "new") : at'[h] = 0 /\ h \notin nouser',
         state'[p] = "run", MapIs(p, "mem", PGROUNDUP(sz[p]))'
  PROVE  ProcOK(p)'
<1>1. JobOK(p)' /\ HeldOK(p)' /\ SlotOK(p)'
  BY ZenonT(30) DEF JobOK, HeldOK, SlotOK
<1>2. NewOK(p)'
  BY ZenonT(30) DEF NewOK, Bare
<1>3. MapOK(p)'
  BY ZenonT(30) DEF MapOK
<1>4. SizeOK(p)'
  BY ZenonT(30) DEF SizeOK
<1>5. GuardOK(p)'
  BY ZenonT(30) DEF GuardOK
<1> QED
  BY ZenonT(30), <1>1, <1>2, <1>3, <1>4, <1>5 DEF ProcOK

(* The record of a process without a call.                                 *)
LEMMA IdleIs ==
  /\ Idle \in JobType /\ Idle.op = "none" /\ Idle.step = "none"
  /\ Idle.goal <= KERNBASE /\ Idle.old <= KERNBASE
  BY VmAssumption, Constants DEF Idle, JobType, Ops, Steps

(* fork() ends: the copy becomes the address space of the child.           *)
LEMMA ForkDoneIInv ==
  ASSUME IInv, NEW p \in Proc, ForkDone(p)
  PROVE  IInv'
<1>0. PICK c \in Proc : c = job[p].kid
  BY ZenonT(30), JobTyped DEF IInv
<1>1. TypeOK /\ PagesOwned /\ (\A q \in Proc : ProcOK(q) /\ KidOK(q))
      /\ job[p].step = "alloc" /\ job[p].op = "fork"
      /\ job[p].a * PGSIZE >= job[p].goal
  BY ZenonT(30) DEF IInv, ForkDone, Complete
<1>2. /\ Install(p, c) /\ state' = [state EXCEPT ![c] = "run"] /\ sz' = [sz EXCEPT ![c] = sz[p]]
      /\ job' = [job EXCEPT ![p] = Idle] /\ free' = free
  BY ZenonT(30), <1>0 DEF ForkDone
<1>3. state[c] = "embryo" /\ state[p] = "run" /\ c # p /\ job[c].op = "none"
      /\ job[c].step = "none" /\ Bare(c, "mem")
  BY ZenonT(30), <1>0, <1>1 DEF KidOK, ProcOK, JobOK, SlotOK
<1>4. /\ at' \in PageMap /\ nouser' \subseteq Holder
      /\ \A h \in Space(c, "mem") : at'[h] = at[<<p, "new", h[3], h[4]>>]
      /\ \A h \in Space(p, "new") : at'[h] = 0 /\ h \notin nouser'
      /\ \A h \in Holder : h \notin Space(c, "mem") /\ h \notin Space(p, "new") =>
           at'[h] = at[h] /\ (h \in nouser' <=> h \in nouser)
      /\ \A v \in VPN : at'[Pte(c, "mem", v)] = at[Pte(p, "new", v)]
  BY ZenonT(30), <1>1, <1>2, InstallIs
<1>5. PagesOwned'
  <2>1. at \in PageMap /\ free \in SUBSET Pages /\ Owned(at, free)
    BY ZenonT(30), <1>1 DEF TypeOK, PageMap, PagesOwned, Owned
  <2>2. free' = free \cup ({at[h] : h \in Space(c, "mem")} \ {0})
    BY ZenonT(30), <1>2, <1>3 DEF Bare
  <2>3. free' \in SUBSET Pages
    BY ZenonT(30), <1>2, <2>1
  <2>4. Owned(at', free')
    BY <1>4, <2>1, <2>2, <2>3, InstallOwned
  <2> QED
    BY ZenonT(30), <2>4 DEF Owned, PagesOwned
<1>6. job'[p] = Idle /\ job' \in [Proc -> JobType] /\ \A q \in Proc : q # p => job'[q] = job[q]
  <2>1. Idle \in JobType
    BY ZenonT(30), VmAssumption DEF Idle, JobType, Ops, Steps
  <2>2. job \in [Proc -> JobType]
    BY ZenonT(30), <1>1 DEF TypeOK, JobType
  <2> QED
    BY ZenonT(30), <1>2, <2>1, <2>2
<1>7. /\ state'[c] = "run" /\ sz'[c] = sz[p] /\ state'[p] = "run" /\ sz'[p] = sz[p]
      /\ \A q \in Proc : q # c => state'[q] = state[q] /\ sz'[q] = sz[q]
      /\ state' \in [Proc -> {"unused", "embryo", "run", "doomed", "zombie"}]
      /\ sz' \in [Proc -> Nat]
  BY ZenonT(30), <1>1, <1>2, <1>3 DEF TypeOK
<1>8. TypeOK'
  BY ZenonT(30), <1>1, <1>2, <1>4, <1>6, <1>7 DEF TypeOK, PageMap, JobType
<1>9. /\ \A h \in Space(c, "mem") : h[1] = c /\ h[2] = "mem"
      /\ \A h \in Space(p, "new") : h[1] = p /\ h[2] = "new"
  BY ZenonT(30), SpaceShape DEF Spaces
<1>10. ASSUME NEW q \in Proc, q # p, q # c PROVE ProcOK(q)'
  <2>1. Kept(q)
    BY ZenonT(30), <1>4, <1>6, <1>7, <1>9, <1>10 DEF Kept
  <2> QED
    BY ZenonT(30), <1>1, <2>1, KeptOK
<1>11. \A q \in Proc : at'[Held(q)] = at[Held(q)] /\ at'[Kstack(q)] = at[Kstack(q)]
  BY ZenonT(30), <1>4, <1>9, OwnShape
<1>12. sz[p] \in Nat /\ sz[p] <= KERNBASE /\ job[p].goal = sz[p] /\ job[p].a \in Nat
       /\ job[p].a <= PGROUNDUP(sz[p]) /\ MapIs(p, "new", job[p].a)
  BY ZenonT(30), <1>1, JobTyped DEF ProcOK, SizeOK, MapOK, Work
<1>13. job[p].a = PGROUNDUP(sz[p])
  <2>1. PGROUNDUP(sz[p]) \in Nat /\ ~(job[p].a < PGROUNDUP(sz[p]))
    <3>1. job[p].a * PGSIZE \in Nat
      BY <1>12, Constants
    <3> QED
      BY <1>1, <1>12, <3>1, RoundUp
  <2> QED
    BY <1>12, <2>1
<1>14. ProcOK(c)'
  <2>1. job'[c] = job[c] /\ job[c].goal <= KERNBASE /\ job[c].old <= KERNBASE
    BY ZenonT(30), <1>1, <1>3, <1>6 DEF ProcOK, SizeOK
  <2>2. at'[Held(c)] = 0
    BY ZenonT(30), <1>1, <1>3, <1>11 DEF ProcOK, HeldOK
  <2>3. \A h \in Space(c, "new") : at'[h] = 0 /\ h \notin nouser'
    <3>1. \A h \in Space(c, "new") : h \in Holder /\ h[1] = c /\ h[2] = "new"
      BY ZenonT(30), SpaceShape DEF Spaces
    <3>2. \A h \in Space(c, "new") : at[h] = 0 /\ h \notin nouser
      BY ZenonT(30), <1>1, <1>3 DEF ProcOK, NewOK, Bare, GuardOK
    <3> QED
      BY ZenonT(30), <1>3, <1>4, <1>9, <3>1, <3>2
  <2>4. MapIs(c, "mem", PGROUNDUP(sz[c]))'
    <3>1. \A v \in VPN : at[Pte(p, "new", v)] # 0 <=> v < PGROUNDUP(sz[p])
      BY ZenonT(30), <1>12, <1>13 DEF MapIs
    <3>2. \A v \in VPN : at'[Pte(c, "mem", v)] # 0 <=> v < PGROUNDUP(sz[p])
      BY ZenonT(30), <1>4, <3>1
    <3> HIDE DEF PGROUNDUP
    <3>3. PGROUNDUP(sz'[c]) = PGROUNDUP(sz[p])
      BY ZenonT(30), <1>7
    <3> QED
      BY ZenonT(30), <3>2, <3>3 DEF MapIs, Pte
  <2> QED
    BY ZenonT(30), <1>3, <1>7, <1>12, <2>1, <2>2, <2>3, <2>4, IdleOK
<1>15. ProcOK(p)'
  <2>1. MapIs(p, "mem", PGROUNDUP(sz[p]))'
    <3>1. \A v \in VPN : at'[Pte(p, "mem", v)] = at[Pte(p, "mem", v)]
      <4>1. \A v \in VPN : Pte(p, "mem", v) \in Holder /\ Pte(p, "mem", v)[1] = p
                           /\ Pte(p, "mem", v)[2] = "mem"
        BY EntryShape DEF Spaces
      <4> QED
        BY ZenonT(30), <1>3, <1>4, <1>9, <4>1
    <3>2. MapIs(p, "mem", PGROUNDUP(sz[p]))
      BY ZenonT(30), <1>1, <1>3 DEF ProcOK, MapOK
    <3> QED
      BY ZenonT(30), <1>7, <3>1, <3>2 DEF MapIs, Pte, PGROUNDUP
  <2>2. at'[Held(p)] = 0
    BY ZenonT(30), <1>1, <1>11 DEF ProcOK, HeldOK
  <2> QED
    BY ZenonT(30), <1>4, <1>6, <1>7, <1>12, <2>1, <2>2, IdleOK, IdleIs
<1>16. ASSUME NEW q \in Proc PROVE KidOK(q)'
  <2>1. \A r \in Proc : job'[r].op = "fork" =>
          /\ r # p /\ job'[r] = job[r] /\ job[r].op = "fork" /\ job[r].kid \in Proc
          /\ job[r].kid # c /\ state[job[r].kid] = "embryo" /\ state'[job[r].kid] = "embryo"
          /\ at'[Kstack(job[r].kid)] = at[Kstack(job[r].kid)]
    <3>1. SUFFICES ASSUME NEW r \in Proc, job'[r].op = "fork"
                   PROVE  /\ r # p /\ job'[r] = job[r] /\ job[r].kid \in Proc /\ job[r].kid # c
                          /\ state[job[r].kid] = "embryo"
      BY ZenonT(30), <1>7, <1>11
    <3>2. r # p /\ job'[r] = job[r]
      <4>1. Idle.op = "none"
        BY ZenonT(30) DEF Idle
      <4> QED
        BY ZenonT(30), <1>6, <3>1, <4>1
    <3> QED
      BY ZenonT(30), <1>0, <1>1, <3>1, <3>2, JobTyped DEF KidOK
  <2> SUFFICES ASSUME job'[q].op = "fork"
               PROVE  /\ state'[job'[q].kid] = "embryo"
                      /\ job'[q].step = "kstack" => at'[Kstack(job'[q].kid)] = 0
                      /\ \A r \in Proc : job'[r].op = "fork" /\ job'[r].kid = job'[q].kid => r = q
    BY ZenonT(30) DEF KidOK
  <2>2. KidOK(q) /\ job'[q] = job[q] /\ job[q].op = "fork" /\ state'[job[q].kid] = "embryo"
        /\ at'[Kstack(job[q].kid)] = at[Kstack(job[q].kid)]
    BY ZenonT(30), <1>1, <2>1
  <2>3. ASSUME NEW r \in Proc, job'[r].op = "fork", job'[r].kid = job'[q].kid PROVE r = q
    <3>1. job[r].op = "fork" /\ job[r].kid = job[q].kid
      <4>1. job'[r] = job[r]
        BY ZenonT(30), <2>1, <2>3
      <4> QED
        BY ZenonT(30), <2>2, <2>3, <4>1
    <3> QED
      BY ZenonT(30), <2>2, <3>1 DEF KidOK
  <2> QED
    BY ZenonT(30), <2>2, <2>3 DEF KidOK
<1> QED
  BY ZenonT(30), <1>5, <1>8, <1>10, <1>14, <1>15, <1>16 DEF IInv

-----------------------------------------------------------------------------
(* exec() and sbrk() *)

(* A step that changes nothing but what p does next. *)
LEMMA Quiet ==
  ASSUME IInv, NEW p \in Proc, UNCHANGED <<free, at, state, sz>>, nouser' \subseteq Holder,
         \A h \in Holder : h[1] # p => (h \in nouser' <=> h \in nouser),
         NEW r \in JobType, job' = [job EXCEPT ![p] = r],
         r.op # "fork", r.step # "map", job[p].step # "map", state[p] = "run",
         JobOK(p)', NewOK(p)', MapOK(p)', SizeOK(p)', GuardOK(p)'
  PROVE  IInv'
<1>1. TypeOK /\ PagesOwned /\ ProcOK(p)
  BY ZenonT(30) DEF IInv
<1>2. job \in [Proc -> JobType]
  BY ZenonT(30), <1>1 DEF TypeOK, JobType
<1>3. job' \in [Proc -> JobType] /\ job'[p] = r /\ \A q \in Proc : q # p => job'[q] = job[q]
  BY ZenonT(30), <1>2
<1>4. TypeOK'
  BY ZenonT(30), <1>1, <1>3 DEF TypeOK, JobType
<1>5. PagesOwned'
  BY ZenonT(30), <1>1 DEF PagesOwned
<1>6. HeldOK(p)' /\ SlotOK(p)'
  BY ZenonT(30), <1>1, <1>3 DEF ProcOK, HeldOK, SlotOK
<1>7. ProcOK(p)'
  BY ZenonT(30), <1>6 DEF ProcOK
<1>8. ASSUME NEW q \in Proc \ {p} PROVE Kept(q)
  BY ZenonT(30), <1>3 DEF Kept
<1> QED
  BY ZenonT(30), <1>3, <1>4, <1>5, <1>7, <1>8, Solo

(* exec() starts a new address space.                                      *)
LEMMA ExecIInv ==
  ASSUME IInv, NEW p \in Proc, Exec(p)
  PROVE  IInv'
<1> DEFINE r == [Idle EXCEPT !.op = "exec", !.step = "dir"]
<1>1. TypeOK /\ ProcOK(p) /\ state[p] = "run" /\ job[p] = Idle
      /\ job' = [job EXCEPT ![p] = r] /\ UNCHANGED <<free, at, nouser, state, sz>>
  BY ZenonT(30) DEF IInv, Exec, Running
<1>2. r \in JobType /\ r.op = "exec" /\ r.step = "dir" /\ r.a = 0 /\ r.old = 0 /\ r.goal = 0
  BY ZenonT(30), VmAssumption DEF Idle, JobType, Ops, Steps
<1>3. job'[p] = r /\ job[p].op = "none" /\ job[p].step = "none"
  BY ZenonT(30), <1>1, IdleIs DEF TypeOK
<1> HIDE DEF r
<1>4. JobOK(p)'
  BY ZenonT(30), <1>1, <1>2, <1>3 DEF JobOK
<1>5. NewOK(p)'
  BY ZenonT(30), <1>1, <1>2, <1>3 DEF NewOK, Bare, ProcOK
<1>6. MapOK(p)'
  BY ZenonT(30), <1>1, <1>2, <1>3 DEF MapOK, MapIs, ProcOK
<1>7. SizeOK(p)'
  <2>1. sz[p] <= KERNBASE /\ 0 <= KERNBASE
    BY <1>1, Constants DEF ProcOK, SizeOK
  <2> QED
    BY ZenonT(30), <1>1, <1>2, <1>3, <2>1 DEF SizeOK
<1>8. GuardOK(p)'
  BY ZenonT(30), <1>1, <1>2, <1>3 DEF GuardOK, ProcOK
<1> QED
  BY ZenonT(30), <1>1, <1>2, <1>3, <1>4, <1>5, <1>6, <1>7, <1>8, Quiet DEF TypeOK

(* exec() checks a program header and starts to allocate for it.           *)
LEMMA SegmentIInv ==
  ASSUME IInv, NEW p \in Proc, Segment(p)
  PROVE  IInv'
<1>1. TypeOK /\ ProcOK(p) /\ job[p].step = "segment" /\ job[p].op = "exec" /\ state[p] = "run"
      /\ job[p] \in JobType /\ job[p].old \in Nat
  BY ZenonT(30), JobTyped DEF IInv, Segment, ProcOK, JobOK, Ops
<1>2. CASE Bad(p)
  BY ZenonT(30), <1>1, <1>2, BadIInv
<1>3. ASSUME NEW e \in 1..(KERNBASE - 1),
             job' = [job EXCEPT
                   ![p] = IF e < job[p].old THEN [job[p] EXCEPT !.step = "load"]
                          ELSE [job[p] EXCEPT !.step = "alloc", !.a = PGROUNDUP(job[p].old),
                                         !.goal = e, !.old = e]],
             UNCHANGED <<free, at, nouser, state, sz>>
      PROVE  IInv'
  <2>1. e \in Nat /\ e <= KERNBASE /\ PGROUNDUP(job[p].old) \in Nat /\ job[p].old <= KERNBASE
        /\ sz[p] <= KERNBASE /\ job[p].goal <= KERNBASE
    <3>1. job[p].old <= KERNBASE /\ sz[p] <= KERNBASE /\ job[p].goal <= KERNBASE
      BY ZenonT(30), <1>1 DEF ProcOK, SizeOK
    <3>2. PGROUNDUP(job[p].old) \in Nat
      BY ZenonT(30), <1>1, RoundUp
    <3> QED
      BY <3>1, <3>2, Constants
  <2>2. MapIs(p, "new", PGROUNDUP(job[p].old)) /\ MapIs(p, "mem", PGROUNDUP(sz[p]))
    BY ZenonT(30), <1>1 DEF ProcOK, MapOK
  <2>3. CASE e < job[p].old
    <3> DEFINE r == [job[p] EXCEPT !.step = "load"]
    <3>1. /\ r \in JobType /\ r.op = "exec" /\ r.step = "load" /\ r.old = job[p].old
          /\ r.goal = job[p].goal
      BY ZenonT(30), <1>1 DEF JobType, Steps
    <3>2. job' = [job EXCEPT ![p] = r] /\ job'[p] = r
      BY ZenonT(30), <1>1, <1>3, <2>3 DEF TypeOK
    <3> HIDE DEF r
    <3>3. JobOK(p)'
      BY ZenonT(30), <1>1, <1>3, <3>1, <3>2 DEF JobOK
    <3>4. NewOK(p)'
      BY ZenonT(30), <3>1, <3>2 DEF NewOK
    <3>5. MapOK(p)'
      BY ZenonT(30), <1>3, <2>2, <3>1, <3>2 DEF MapOK, MapIs
    <3>6. SizeOK(p)'
      BY ZenonT(30), <1>3, <2>1, <3>1, <3>2 DEF SizeOK
    <3>7. GuardOK(p)'
      BY ZenonT(30), <1>1, <1>3, <3>1, <3>2 DEF GuardOK, ProcOK
    <3> QED
      BY ZenonT(30), <1>1, <1>3, <3>1, <3>2, <3>3, <3>4, <3>5, <3>6, <3>7, Quiet DEF TypeOK
  <2>4. CASE ~(e < job[p].old)
    <3> DEFINE r == [job[p] EXCEPT !.step = "alloc", !.a = PGROUNDUP(job[p].old),
                                   !.goal = e, !.old = e]
    <3>1. /\ r \in JobType /\ r.op = "exec" /\ r.step = "alloc" /\ r.old = e
          /\ r.goal = e /\ r.a = PGROUNDUP(job[p].old)
      BY ZenonT(30), <1>1, <2>1 DEF JobType, Steps
    <3>2. job' = [job EXCEPT ![p] = r] /\ job'[p] = r
      BY ZenonT(30), <1>1, <1>3, <2>4 DEF TypeOK
    <3> HIDE DEF r
    <3>3. JobOK(p)'
      BY ZenonT(30), <1>1, <1>3, <3>1, <3>2 DEF JobOK
    <3>4. NewOK(p)'
      BY ZenonT(30), <3>1, <3>2 DEF NewOK
    <3>5. MapOK(p)'
      <4>1. PGROUNDUP(job[p].old) <= PGROUNDUP(e)
        <5>1. job[p].old <= e
          BY <1>1, <2>1, <2>4
        <5> QED
          BY ZenonT(30), <1>1, <2>1, <5>1, RoundUpMono
      <4>2. Work(p)' = "new"
        BY ZenonT(30), <3>1, <3>2 DEF Work
      <4> QED
        BY ZenonT(30), <1>3, <2>2, <3>1, <3>2, <4>1, <4>2 DEF MapOK, MapIs
    <3>6. SizeOK(p)'
      BY ZenonT(30), <1>3, <2>1, <3>1, <3>2 DEF SizeOK
    <3>7. GuardOK(p)'
      BY ZenonT(30), <1>1, <1>3, <3>1, <3>2 DEF GuardOK, ProcOK
    <3> QED
      BY ZenonT(30), <1>1, <1>3, <3>1, <3>2, <3>3, <3>4, <3>5, <3>6, <3>7, Quiet DEF TypeOK
  <2> QED
    BY ZenonT(30), <2>3, <2>4
<1> QED
  BY ZenonT(30), <1>2, <1>3 DEF Segment

(* The loop of allocuvm() has mapped every page. *)
LEMMA CompleteMaps ==
  ASSUME IInv, NEW p \in Proc, NEW op \in {"exec", "stack", "sbrk"}, Complete(p, op)
  PROVE  /\ job[p].op = op /\ job[p].step = "alloc" /\ state[p] = "run"
         /\ job[p].a = PGROUNDUP(job[p].goal)
         /\ MapIs(p, Work(p), PGROUNDUP(job[p].goal))
<1>1. TypeOK /\ ProcOK(p) /\ job[p].op = op /\ job[p].step = "alloc"
      /\ job[p].a * PGSIZE >= job[p].goal
  BY ZenonT(30) DEF IInv, Complete
<1>2. job[p].a \in Nat /\ job[p].goal \in Nat
  BY ZenonT(30), <1>1, JobTyped
<1>3. MapIs(p, Work(p), job[p].a) /\ job[p].a <= PGROUNDUP(job[p].goal) /\ state[p] = "run"
  BY ZenonT(30), <1>1 DEF ProcOK, MapOK, JobOK
<1>4. job[p].a * PGSIZE \in Nat
  BY <1>2, Constants
<1>5. PGROUNDUP(job[p].goal) \in Nat /\ ~(job[p].a < PGROUNDUP(job[p].goal))
  BY <1>1, <1>2, <1>4, RoundUp
<1>6. job[p].a = PGROUNDUP(job[p].goal)
  BY <1>2, <1>3, <1>5
<1> QED
  BY ZenonT(30), <1>1, <1>3, <1>6

(* exec() has loaded a segment.                                            *)
LEMMA LoadSegmentIInv ==
  ASSUME IInv, NEW p \in Proc, LoadSegment(p)
  PROVE  IInv'
<1>1. TypeOK /\ ProcOK(p) /\ job[p] \in JobType
  BY ZenonT(30), JobTyped DEF IInv
<1>2. job[p].op = "exec" /\ job[p].step \in {"alloc", "load"} /\ state[p] = "run"
      /\ MapIs(p, "new", PGROUNDUP(job[p].old))
  <2>1. CASE Complete(p, "exec")
    <3>1. /\ job[p].op = "exec" /\ job[p].step = "alloc" /\ state[p] = "run"
          /\ MapIs(p, Work(p), PGROUNDUP(job[p].goal))
      BY ZenonT(30), <2>1, CompleteMaps
    <3>2. job[p].goal = job[p].old /\ Work(p) = "new"
      BY ZenonT(30), <1>1, <3>1 DEF ProcOK, SizeOK, Work
    <3> QED
      BY ZenonT(30), <3>1, <3>2
  <2>2. CASE job[p].step = "load"
    BY ZenonT(30), <1>1, <2>2, JobTyped DEF ProcOK, JobOK, MapOK, Ops
  <2> QED
    BY ZenonT(30), <2>1, <2>2 DEF LoadSegment, Loading
<1>3. CASE Bad(p)
  BY ZenonT(30), <1>2, <1>3, BadIInv
<1>4. CASE Goto(p, "segment") /\ UNCHANGED <<free, at, nouser, state, sz>>
  <2> DEFINE r == [job[p] EXCEPT !.step = "segment"]
  <2>1. /\ r \in JobType /\ r.op = "exec" /\ r.step = "segment" /\ r.old = job[p].old
        /\ r.goal = job[p].goal
    BY ZenonT(30), <1>1, <1>2 DEF JobType, Steps
  <2>2. job' = [job EXCEPT ![p] = r] /\ job'[p] = r
    BY ZenonT(30), <1>1, <1>4 DEF Goto, TypeOK
  <2>3. MapIs(p, "mem", PGROUNDUP(sz[p]))
    BY ZenonT(30), <1>1, <1>2 DEF ProcOK, MapOK
  <2> HIDE DEF r
  <2>4. JobOK(p)'
    BY ZenonT(30), <1>2, <1>4, <2>1, <2>2 DEF JobOK
  <2>5. NewOK(p)'
    BY ZenonT(30), <2>1, <2>2 DEF NewOK
  <2>6. MapOK(p)'
    BY ZenonT(30), <1>2, <1>4, <2>1, <2>2, <2>3 DEF MapOK, MapIs
  <2>7. SizeOK(p)'
    BY ZenonT(30), <1>1, <1>4, <2>1, <2>2 DEF SizeOK, ProcOK
  <2>8. GuardOK(p)'
    BY ZenonT(30), <1>1, <1>2, <1>4, <2>1, <2>2 DEF GuardOK, ProcOK
  <2> QED
    BY ZenonT(30), <1>1, <1>2, <1>4, <2>1, <2>2, <2>4, <2>5, <2>6, <2>7, <2>8, Quiet DEF TypeOK
<1> QED
  BY ZenonT(30), <1>3, <1>4 DEF LoadSegment

(* exec() asks for two pages above the program.                            *)
LEMMA ExecStackIInv ==
  ASSUME IInv, NEW p \in Proc, ExecStack(p)
  PROVE  IInv'
<1>0. PICK k \in Nat : k = PGROUNDUP(job[p].old) + 2
  BY JobTyped, RoundUp DEF IInv
<1>1. TypeOK /\ ProcOK(p) /\ job[p].step = "segment" /\ job[p].op = "exec" /\ state[p] = "run"
      /\ job[p] \in JobType /\ job[p].old \in Nat
  BY ZenonT(30), JobTyped DEF IInv, ExecStack, ProcOK, JobOK, Ops
<1>2. CASE Bad(p)
  BY ZenonT(30), <1>1, <1>2, BadIInv
<1>3. CASE ~Bad(p)
  <2> DEFINE top == k * PGSIZE
             r == [job[p] EXCEPT !.op = "stack", !.step = "alloc", !.a = PGROUNDUP(job[p].old),
                                 !.goal = top, !.sp = top]
  <2>1. /\ ~(top >= KERNBASE) /\ job' = [job EXCEPT ![p] = r]
        /\ UNCHANGED <<free, at, nouser, state, sz>>
    BY ZenonT(30), <1>0, <1>3 DEF ExecStack
  <2>2. top \in Nat /\ PGROUNDUP(top) = k /\ top <= KERNBASE /\ PGROUNDUP(job[p].old) \in Nat
        /\ k >= 2 /\ PGROUNDUP(job[p].old) <= k
    BY <1>0, <1>1, <2>1, RoundUp, RoundUpExact, Constants
  <2>3. top \div PGSIZE = k
    <3>1. PGSIZE * k = k * PGSIZE
      BY Constants
    <3> QED
      BY <2>2, <3>1, DivIs, Constants
  <2>4. MapIs(p, "new", PGROUNDUP(job[p].old)) /\ MapIs(p, "mem", PGROUNDUP(sz[p]))
    BY ZenonT(30), <1>1 DEF ProcOK, MapOK
  <2> HIDE DEF top
  <2>5. /\ r \in JobType /\ r.op = "stack" /\ r.step = "alloc" /\ r.old = job[p].old
        /\ r.goal = top /\ r.sp = top /\ r.a = PGROUNDUP(job[p].old)
    BY ZenonT(30), <1>1, <2>2 DEF JobType, Steps, Ops
  <2>6. job'[p] = r
    BY ZenonT(30), <1>1, <2>1 DEF TypeOK
  <2> HIDE DEF r
  <2>7. JobOK(p)'
    BY ZenonT(30), <1>1, <2>1, <2>5, <2>6 DEF JobOK
  <2>8. NewOK(p)'
    BY ZenonT(30), <2>5, <2>6 DEF NewOK
  <2>9. MapOK(p)'
    <3>1. Work(p)' = "new"
      BY ZenonT(30), <2>5, <2>6 DEF Work
    <3> QED
      BY ZenonT(30), <2>1, <2>2, <2>4, <2>5, <2>6, <3>1 DEF MapOK, MapIs
  <2>10. SizeOK(p)'
    <3>1. sz[p] <= KERNBASE /\ job[p].old <= KERNBASE
      BY ZenonT(30), <1>1 DEF ProcOK, SizeOK
    <3>2. StackOK(top, top)
      <4>1. top = k * PGSIZE
        BY ZenonT(30) DEF top
      <4>2. top <= top /\ top - top <= PGSIZE
        BY <2>2, Constants
      <4> QED
        BY ZenonT(30), <2>2, <2>3, <4>1, <4>2 DEF StackOK
    <3> QED
      BY ZenonT(30), <2>1, <2>2, <2>5, <2>6, <3>1, <3>2 DEF SizeOK
  <2>11. GuardOK(p)'
    BY ZenonT(30), <1>1, <2>1, <2>5, <2>6 DEF GuardOK, ProcOK
  <2> QED
    BY ZenonT(30), <1>1, <2>1, <2>5, <2>6, <2>7, <2>8, <2>9, <2>10, <2>11, Quiet DEF TypeOK
<1> QED
  BY ZenonT(30), <1>2, <1>3

(* The top of the stack that exec() builds, in pages. *)
LEMMA StackTop ==
  ASSUME IInv, NEW p \in Proc, job[p].op = "stack"
  PROVE  \E k \in Nat : /\ k >= 2 /\ k = job[p].goal \div PGSIZE /\ job[p].goal = k * PGSIZE
                        /\ PGROUNDUP(job[p].goal) = k
                        /\ k - 1 \in VPN /\ k - 2 \in VPN /\ Guard(p) = Pte(p, "new", k - 2)
<1>1. TypeOK /\ ProcOK(p)
  BY ZenonT(30) DEF IInv
<1>2. job[p].goal \in Nat /\ job[p].goal <= KERNBASE
  BY ZenonT(30), <1>1, JobTyped DEF ProcOK, SizeOK
<1>3. job[p].goal \div PGSIZE \in Nat
  BY ZenonT(30), <1>2, DivFact, Constants
<1>4. PICK k \in Nat : k = job[p].goal \div PGSIZE
  BY ZenonT(30), <1>3
<1>5. k >= 2 /\ job[p].goal = k * PGSIZE
  <2>1. StackOK(job[p].goal, job[p].sp)
    BY ZenonT(30), <1>1 DEF ProcOK, SizeOK
  <2> QED
    BY ZenonT(30), <1>4, <2>1 DEF StackOK
<1>6. PGROUNDUP(job[p].goal) = k
  BY ZenonT(30), <1>5, RoundUpExact
<1>7. k <= KERNPAGES
  BY ZenonT(30), <1>2, <1>6, RoundUpBound
<1>8. k - 1 \in VPN /\ k - 2 \in VPN
  BY <1>5, <1>7, Constants DEF VPN
<1>9. Guard(p) = Pte(p, "new", k - 2)
  BY ZenonT(30), <1>4 DEF Guard
<1> QED
  BY ZenonT(30), <1>4, <1>5, <1>6, <1>8, <1>9

(* exec() makes the lower one inaccessible.                                *)
LEMMA ClearpteuIInv ==
  ASSUME IInv, NEW p \in Proc, Clearpteu(p)
  PROVE  IInv'
<1>1. TypeOK /\ ProcOK(p) /\ job[p] \in JobType /\ job[p].step = "alloc" /\ job[p].op = "stack"
      /\ state[p] = "run" /\ MapIs(p, Work(p), PGROUNDUP(job[p].goal))
  BY ZenonT(30), JobTyped, CompleteMaps DEF IInv, Clearpteu
<1>2. nouser' = nouser \cup {Guard(p)} /\ UNCHANGED <<free, at, state, sz>>
  BY ZenonT(30) DEF Clearpteu, Guard
<1>3. Guard(p) \in Space(p, "new") /\ Guard(p) \in Holder /\ Guard(p)[1] = p
  <2>1. PICK k \in Nat : k - 2 \in VPN /\ Guard(p) = Pte(p, "new", k - 2)
    BY ZenonT(30), <1>1, StackTop
  <2> QED
    BY <2>1, EntryShape DEF Spaces
<1> DEFINE r == [job[p] EXCEPT !.step = "args"]
<1>4. /\ r \in JobType /\ r.op = "stack" /\ r.step = "args" /\ r.old = job[p].old
      /\ r.goal = job[p].goal /\ r.sp = job[p].sp
  BY ZenonT(30), <1>1 DEF JobType, Steps
<1>5. job' = [job EXCEPT ![p] = r] /\ job'[p] = r
  BY ZenonT(30), <1>1 DEF Clearpteu, Goto, TypeOK
<1> HIDE DEF r
<1>6. JobOK(p)'
  BY ZenonT(30), <1>1, <1>2, <1>4, <1>5 DEF JobOK
<1>7. NewOK(p)'
  BY ZenonT(30), <1>4, <1>5 DEF NewOK
<1>8. MapOK(p)'
  <2>1. Work(p) = "new" /\ MapIs(p, "mem", PGROUNDUP(sz[p]))
    BY ZenonT(30), <1>1 DEF Work, ProcOK, MapOK
  <2> QED
    BY ZenonT(30), <1>1, <1>2, <1>4, <1>5, <2>1 DEF MapOK, MapIs
<1>9. SizeOK(p)'
  BY ZenonT(30), <1>1, <1>2, <1>4, <1>5 DEF SizeOK, ProcOK
<1>10. GuardOK(p)'
  <2>1. Guard(p)' = Guard(p)
    BY ZenonT(30), <1>4, <1>5 DEF Guard, Pte
  <2>2. \A h \in Space(p, "new") : h \notin nouser
    BY ZenonT(30), <1>1 DEF ProcOK, GuardOK
  <2> HIDE DEF Guard
  <2> QED
    BY ZenonT(30), <1>2, <1>4, <1>5, <2>1, <2>2 DEF GuardOK
<1>11. nouser' \subseteq Holder /\ \A h \in Holder : h[1] # p => (h \in nouser' <=> h \in nouser)
  <2> HIDE DEF Guard
  <2> QED
    BY ZenonT(30), <1>1, <1>2, <1>3 DEF TypeOK
<1> QED
  BY ZenonT(30), <1>1, <1>2, <1>4, <1>5, <1>6, <1>7, <1>8, <1>9, <1>10, <1>11, Quiet

(* The page of every byte of the stack. *)
LEMMA StackPage ==
  ASSUME NEW k \in Nat, k >= 2, NEW x \in Nat, x < k * PGSIZE
  PROVE  /\ k * PGSIZE - x <= PGSIZE => x \div PGSIZE = k - 1
         /\ k * PGSIZE - x > PGSIZE /\ k * PGSIZE - x <= 2 * PGSIZE => x \div PGSIZE = k - 2
<1>1. k * PGSIZE \in Nat /\ PGSIZE * (k - 1) = k * PGSIZE - PGSIZE
      /\ PGSIZE * (k - 2) = k * PGSIZE - 2 * PGSIZE /\ k - 1 \in Nat /\ k - 2 \in Nat
  BY Constants
<1>2. k * PGSIZE - x <= PGSIZE => x \div PGSIZE = k - 1
  BY <1>1, DivIs, Constants
<1>3. k * PGSIZE - x > PGSIZE /\ k * PGSIZE - x <= 2 * PGSIZE => x \div PGSIZE = k - 2
  BY <1>1, DivIs, Constants
<1> QED
  BY ZenonT(30), <1>2, <1>3

(* A byte of a page of the user's half. *)
LEMMA UserByte ==
  ASSUME NEW b \in Nat, b \div PGSIZE \in VPN
  PROVE  b < KERNBASE
<1>1. PICK q \in Nat : q = b \div PGSIZE /\ q + 1 <= KERNPAGES
  BY Constants DEF VPN
<1>2. b < PGSIZE * q + PGSIZE
  BY ZenonT(30), <1>1, DivFact, Constants
<1>3. PGSIZE * q + PGSIZE <= PGSIZE * KERNPAGES
  BY <1>1, Constants
<1>4. PGSIZE * KERNPAGES = KERNBASE
  BY Constants DEF KERNBASE
<1>5. PGSIZE * q + PGSIZE \in Nat
  BY <1>1, Constants
<1> QED
  BY <1>2, <1>3, <1>4, <1>5, Constants

(* A stack pointer that wraps points into the kernel's half. *)
LEMMA SpStays ==
  ASSUME NEW a \in Nat, a <= KERNBASE, NEW n \in 1..KERNBASE,
         ((a - n) % UINT) \div PGSIZE \in VPN
  PROVE  n <= a /\ (a - n) % UINT = a - n
<1>1. n \in Nat /\ UINT \in Nat /\ UINT >= 2 * KERNBASE /\ KERNBASE \in Nat /\ n <= KERNBASE
      /\ UINT > KERNBASE
  BY Constants
<1>2. CASE n <= a
  <2>1. a - n \in Nat /\ a - n < UINT
    BY <1>1, <1>2
  <2>2. (a - n) % UINT = a - n
    BY <1>1, <2>1
  <2> QED
    BY ZenonT(30), <1>2, <2>2
<1>3. CASE n > a
  <2>1. PICK u \in Nat : u = a - n + UINT /\ u < UINT /\ u >= KERNBASE
    BY <1>1, <1>3
  <2>2. (a - n) % UINT = u
    BY <1>1, <2>1
  <2>3. u < KERNBASE
    BY ZenonT(30), <2>2, UserByte
  <2> QED
    BY <1>1, <2>1, <2>3
<1> QED
  BY <1>1, <1>2, <1>3

(* exec() copies an argument, or ustack, below the last one.               *)
LEMMA PushArgIInv ==
  ASSUME IInv, NEW p \in Proc, NEW n \in 1..KERNBASE, PushArg(p, n)
  PROVE  IInv'
<1> DEFINE va == (job[p].sp - n) % UINT
<1>1. TypeOK /\ ProcOK(p) /\ job[p] \in JobType /\ job[p].step = "args" /\ job[p].op = "stack"
      /\ state[p] = "run" /\ job[p].sp \in Nat /\ n \in Nat /\ n > 0
  BY JobTyped, Constants DEF IInv, PushArg, ProcOK, JobOK, Ops
<1>2. CASE Bad(p)
  BY ZenonT(30), <1>1, <1>2, BadIInv
<1>3. CASE Goto(p, "wild") /\ UNCHANGED <<free, at, nouser, state, sz>>
  <2> DEFINE r == [job[p] EXCEPT !.step = "wild"]
  <2>1. /\ r \in JobType /\ r.op = "stack" /\ r.step = "wild" /\ r.old = job[p].old
        /\ r.goal = job[p].goal /\ r.sp = job[p].sp
    BY ZenonT(30), <1>1 DEF JobType, Steps
  <2>2. job' = [job EXCEPT ![p] = r] /\ job'[p] = r
    BY ZenonT(30), <1>1, <1>3 DEF Goto, TypeOK
  <2> HIDE DEF r
  <2>3. JobOK(p)'
    BY ZenonT(30), <1>1, <1>3, <2>1, <2>2 DEF JobOK
  <2>4. NewOK(p)'
    BY ZenonT(30), <2>1, <2>2 DEF NewOK
  <2>5. MapOK(p)'
    BY ZenonT(30), <1>1, <1>3, <2>1, <2>2 DEF MapOK, MapIs, ProcOK
  <2>6. SizeOK(p)'
    BY ZenonT(30), <1>1, <1>3, <2>1, <2>2 DEF SizeOK, ProcOK
  <2>7. GuardOK(p)'
    <3>1. Guard(p)' = Guard(p)
      BY ZenonT(30), <2>1, <2>2 DEF Guard, Pte
    <3> HIDE DEF Guard
    <3> QED
      BY ZenonT(30), <1>1, <1>3, <2>1, <2>2, <3>1 DEF GuardOK, ProcOK
  <2> QED
    BY ZenonT(30), <1>1, <1>3, <2>1, <2>2, <2>3, <2>4, <2>5, <2>6, <2>7, Quiet DEF TypeOK
<1>4. CASE /\ Copyout(p, va, n) /\ job' = [job EXCEPT ![p].sp = va]
           /\ UNCHANGED <<free, at, nouser, state, sz>>
  <2>1. \A x \in va..(va + n - 1) : Accessible(p, x \div PGSIZE)
    BY ZenonT(30), <1>4 DEF Copyout, Refused
  <2>2. PICK k \in Nat : /\ k >= 2 /\ job[p].goal = k * PGSIZE
                         /\ k - 2 \in VPN /\ Guard(p) = Pte(p, "new", k - 2)
    BY ZenonT(30), <1>1, StackTop
  <2>3. job[p].goal \in Nat /\ job[p].sp <= job[p].goal /\ job[p].goal - job[p].sp <= PGSIZE
        /\ Guard(p) \in nouser /\ job[p].goal <= KERNBASE
    BY ZenonT(30), <1>1, JobTyped DEF ProcOK, SizeOK, StackOK, GuardOK
  <2>4. PICK s \in Nat : s = job[p].sp - n /\ s = va
    <3>1. va \in Int
      BY <1>1, Constants
    <3>2. va \in va..(va + n - 1)
      <4> HIDE DEF va
      <4> QED
        BY <1>1, <3>1
    <3>3. va \div PGSIZE \in VPN
      BY ZenonT(30), <2>1, <3>2 DEF Accessible
    <3>4. job[p].sp <= KERNBASE
      BY <1>1, <2>3, Constants
    <3>5. n <= job[p].sp /\ va = job[p].sp - n
      BY ZenonT(30), <1>1, <3>3, <3>4, SpStays
    <3> HIDE DEF va
    <3> QED
      BY <1>1, <3>5
  <2> HIDE DEF va
  <2>5. job[p].goal - s <= PGSIZE
    <3>1. SUFFICES ASSUME job[p].goal - s > PGSIZE PROVE FALSE
      BY <2>3, <2>4, Constants
    <3>2. PICK x \in Nat : x = job[p].goal - PGSIZE - 1
      BY <2>3, <2>4, <3>1, Constants
    <3>3. x < k * PGSIZE /\ k * PGSIZE - x > PGSIZE /\ k * PGSIZE - x <= 2 * PGSIZE
      BY <2>2, <2>3, <3>2, Constants
    <3>4. x \div PGSIZE = k - 2
      BY ZenonT(30), <2>2, <3>3, StackPage
    <3>5. x \in s..(s + n - 1)
      BY <1>1, <2>3, <2>4, <3>1, <3>2, Constants
    <3>6. Pte(p, "new", x \div PGSIZE) \notin nouser
      BY ZenonT(30), <2>1, <2>4, <3>5 DEF Accessible
    <3> QED
      BY ZenonT(30), <2>2, <2>3, <3>4, <3>6
  <2> DEFINE r == [job[p] EXCEPT !.sp = s]
  <2>6. /\ r \in JobType /\ r.op = "stack" /\ r.step = "args" /\ r.old = job[p].old
        /\ r.goal = job[p].goal /\ r.sp = s
    BY ZenonT(30), <1>1 DEF JobType
  <2>7. job' = [job EXCEPT ![p] = r] /\ job'[p] = r
    BY ZenonT(30), <1>1, <1>4, <2>4 DEF TypeOK
  <2> HIDE DEF r
  <2>8. JobOK(p)'
    BY ZenonT(30), <1>1, <1>4, <2>6, <2>7 DEF JobOK
  <2>9. NewOK(p)'
    BY ZenonT(30), <2>6, <2>7 DEF NewOK
  <2>10. MapOK(p)'
    BY ZenonT(30), <1>1, <1>4, <2>6, <2>7 DEF MapOK, MapIs, ProcOK
  <2>11. SizeOK(p)'
    <3>1. s <= job[p].goal
      BY <1>1, <2>3, <2>4
    <3>2. StackOK(job[p].goal, s)
      BY ZenonT(30), <1>1, <2>5, <3>1 DEF SizeOK, ProcOK, StackOK
    <3> QED
      BY ZenonT(30), <1>1, <1>4, <2>6, <2>7, <3>2 DEF SizeOK, ProcOK
  <2>12. GuardOK(p)'
    <3>1. Guard(p)' = Guard(p)
      BY ZenonT(30), <2>6, <2>7 DEF Guard, Pte
    <3> HIDE DEF Guard
    <3> QED
      BY ZenonT(30), <1>1, <1>4, <2>6, <2>7, <3>1 DEF GuardOK, ProcOK
  <2> QED
    BY ZenonT(30), <1>1, <1>4, <2>6, <2>7, <2>8, <2>9, <2>10, <2>11, <2>12, Quiet DEF TypeOK
<1> QED
  BY ZenonT(30), <1>2, <1>3, <1>4 DEF PushArg

(* sbrk(n): the sum does not wrap. *)
LEMMA GrowIInv ==
  ASSUME IInv, NEW p \in Proc, NEW n \in 1..(KERNBASE - 1), Grow(p, n)
  PROVE  IInv'
<1>1. TypeOK /\ ProcOK(p) /\ state[p] = "run" /\ job[p] = Idle
      /\ UNCHANGED <<free, at, nouser, state, sz>>
  BY ZenonT(30) DEF IInv, Grow, Running
<1>2. sz[p] \in Nat /\ sz[p] <= KERNBASE /\ n \in Nat /\ n < KERNBASE
  BY <1>1, Constants DEF TypeOK, ProcOK, SizeOK
<1>3. (sz[p] + n) % UINT = sz[p] + n
  BY <1>2, Constants
<1>4. PICK g \in Nat : g = sz[p] + n
  BY <1>2
<1> DEFINE r == [Idle EXCEPT !.op = "sbrk", !.step = "alloc", !.a = PGROUNDUP(sz[p]), !.goal = g]
<1>5. g < KERNBASE /\ job' = [job EXCEPT ![p] = r]
  BY ZenonT(30), <1>3, <1>4 DEF Grow
<1>6. PGROUNDUP(sz[p]) \in Nat /\ PGROUNDUP(sz[p]) <= PGROUNDUP(g)
  BY <1>2, <1>4, RoundUp, RoundUpMono
<1>7. /\ r \in JobType /\ r.op = "sbrk" /\ r.step = "alloc" /\ r.a = PGROUNDUP(sz[p])
      /\ r.old = 0 /\ r.goal = g
  BY ZenonT(30), <1>6, VmAssumption DEF Idle, JobType, Ops, Steps
<1>8. job'[p] = r /\ job[p].op = "none" /\ job[p].step = "none"
  BY ZenonT(30), <1>1, <1>5, IdleIs DEF TypeOK
<1> HIDE DEF r
<1>9. JobOK(p)'
  BY ZenonT(30), <1>1, <1>7, <1>8 DEF JobOK
<1>10. NewOK(p)'
  BY ZenonT(30), <1>1, <1>7, <1>8 DEF NewOK, Bare, ProcOK
<1>11. MapOK(p)'
  <2>1. Work(p)' = "mem" /\ MapIs(p, "mem", PGROUNDUP(sz[p]))
    BY ZenonT(30), <1>1, <1>7, <1>8 DEF Work, ProcOK, MapOK
  <2> QED
    BY ZenonT(30), <1>1, <1>6, <1>7, <1>8, <2>1 DEF MapOK, MapIs
<1>12. SizeOK(p)'
  <2>1. PGROUNDUP(sz'[p]) <= r.a
    BY <1>1, <1>6, <1>7
  <2> QED
    <3>1. g <= KERNBASE /\ 0 <= KERNBASE
      BY <1>5, Constants
    <3> QED
      BY ZenonT(30), <1>1, <1>2, <1>7, <1>8, <2>1, <3>1 DEF SizeOK
<1>13. GuardOK(p)'
  BY ZenonT(30), <1>1, <1>7, <1>8 DEF GuardOK, ProcOK
<1> QED
  BY ZenonT(30), <1>1, <1>5, <1>7, <1>8, <1>9, <1>10, <1>11, <1>12, <1>13, Quiet DEF TypeOK

(* exec() commits: the old address space is freed. *)
LEMMA ExecDoneIInv ==
  ASSUME IInv, NEW p \in Proc, ExecDone(p)
  PROVE  IInv'
<1>1. TypeOK /\ PagesOwned /\ ProcOK(p) /\ job[p].step = "args" /\ job[p].op = "stack"
      /\ state[p] = "run" /\ job[p].goal \in Nat /\ job[p].goal <= KERNBASE
  BY ZenonT(30), JobTyped DEF IInv, ExecDone, ProcOK, JobOK, Ops, SizeOK
<1>2. /\ Install(p, p) /\ free' = free \cup ({at[h] : h \in Space(p, "mem")} \ {0})
      /\ sz' = [sz EXCEPT ![p] = job[p].goal] /\ job' = [job EXCEPT ![p] = Idle] /\ state' = state
  BY ZenonT(30) DEF ExecDone
<1>3. /\ at' \in PageMap /\ nouser' \subseteq Holder
      /\ \A h \in Space(p, "mem") : at'[h] = at[<<p, "new", h[3], h[4]>>]
      /\ \A h \in Space(p, "new") : at'[h] = 0 /\ h \notin nouser'
      /\ \A h \in Holder : h \notin Space(p, "mem") /\ h \notin Space(p, "new") =>
           at'[h] = at[h] /\ (h \in nouser' <=> h \in nouser)
      /\ \A v \in VPN : at'[Pte(p, "mem", v)] = at[Pte(p, "new", v)]
  BY ZenonT(30), <1>1, <1>2, InstallIs
<1>4. /\ \A h \in Space(p, "mem") : h \in Holder /\ h[1] = p /\ h[2] = "mem"
      /\ \A h \in Space(p, "new") : h \in Holder /\ h[1] = p /\ h[2] = "new"
  BY ZenonT(30), SpaceShape DEF Spaces
<1>5. PagesOwned' /\ free' \subseteq Pages
  <2>1. at \in PageMap /\ free \in SUBSET Pages /\ Owned(at, free)
    BY ZenonT(30), <1>1 DEF TypeOK, PageMap, PagesOwned, Owned
  <2>2. free' \in SUBSET Pages
    <3>1. \A h \in Space(p, "mem") : at[h] \in Pages \cup {0}
      BY ZenonT(30), <1>4, <2>1 DEF PageMap
    <3> QED
      BY ZenonT(30), <1>2, <2>1, <3>1
  <2>3. Owned(at', free')
    <3>1. /\ at' \in PageMap
          /\ \A h \in Space(p, "mem") : at'[h] = at[<<p, "new", h[3], h[4]>>]
          /\ \A h \in Space(p, "new") : at'[h] = 0
          /\ \A h \in Holder :
               h \notin Space(p, "mem") /\ h \notin Space(p, "new") => at'[h] = at[h]
      BY ZenonT(30), <1>3
    <3>2. free' = free \cup ({at[h] : h \in Space(p, "mem")} \ {0})
      BY ZenonT(30), <1>2
    <3> QED
      BY <2>1, <2>2, <3>1, <3>2, InstallOwned
  <2> QED
    BY ZenonT(30), <2>2, <2>3 DEF Owned, PagesOwned
<1>6. job'[p] = Idle /\ job' \in [Proc -> JobType] /\ \A q \in Proc : q # p => job'[q] = job[q]
  <2>1. job \in [Proc -> JobType]
    BY ZenonT(30), <1>1 DEF TypeOK, JobType
  <2> QED
    BY ZenonT(30), <1>2, <2>1, IdleIs
<1>7. sz'[p] = job[p].goal /\ sz' \in [Proc -> Nat] /\ \A q \in Proc : q # p => sz'[q] = sz[q]
  <2>1. sz \in [Proc -> Nat] /\ job[p].goal \in Nat /\ sz' = [sz EXCEPT ![p] = job[p].goal]
    BY ZenonT(30), <1>1, <1>2 DEF TypeOK
  <2> QED
    BY ZenonT(30), <2>1
<1>8. TypeOK'
  BY ZenonT(30), <1>1, <1>2, <1>3, <1>5, <1>6, <1>7 DEF TypeOK, PageMap, JobType
<1>9. ASSUME NEW q \in Proc \ {p} PROVE Kept(q)
  BY ZenonT(30), <1>2, <1>3, <1>4, <1>6, <1>7 DEF Kept
<1>10. ProcOK(p)'
  <2>1. at'[Held(p)] = 0
    <3>1. Held(p) \in Holder /\ Held(p)[2] = "own" /\ at[Held(p)] = 0
      BY ZenonT(30), <1>1, OwnShape DEF ProcOK, HeldOK
    <3>2. Held(p) \notin Space(p, "mem") /\ Held(p) \notin Space(p, "new")
      BY ZenonT(30), <1>4, <3>1
    <3> QED
      BY ZenonT(30), <1>3, <3>1, <3>2
  <2>2. MapIs(p, "mem", PGROUNDUP(sz[p]))'
    <3>1. \A v \in VPN : at[Pte(p, "new", v)] # 0 <=> v < PGROUNDUP(job[p].goal)
      BY ZenonT(30), <1>1 DEF ProcOK, MapOK, MapIs
    <3>2. \A v \in VPN : at'[Pte(p, "mem", v)] # 0 <=> v < PGROUNDUP(job[p].goal)
      BY ZenonT(30), <1>3, <3>1
    <3> HIDE DEF PGROUNDUP
    <3>3. PGROUNDUP(sz'[p]) = PGROUNDUP(job[p].goal)
      BY ZenonT(30), <1>7
    <3> QED
      BY ZenonT(30), <3>2, <3>3 DEF MapIs, Pte
  <2> QED
    BY ZenonT(30), <1>1, <1>2, <1>3, <1>6, <1>7, <2>1, <2>2, IdleOK, IdleIs
<1> QED
  BY ZenonT(30), <1>1, <1>5, <1>6, <1>8, <1>9, <1>10, Solo, IdleIs

(* sbrk(n) ends: the size becomes the new one.                             *)
LEMMA GrowDoneIInv ==
  ASSUME IInv, NEW p \in Proc, GrowDone(p)
  PROVE  IInv'
<1>1. TypeOK /\ PagesOwned /\ ProcOK(p) /\ job[p].step = "alloc" /\ job[p].op = "sbrk"
      /\ state[p] = "run" /\ job[p].goal \in Nat /\ job[p].goal <= KERNBASE
      /\ MapIs(p, Work(p), PGROUNDUP(job[p].goal))
  BY ZenonT(30), JobTyped, CompleteMaps DEF IInv, GrowDone, ProcOK, SizeOK
<1>2. /\ sz' = [sz EXCEPT ![p] = job[p].goal] /\ job' = [job EXCEPT ![p] = Idle]
      /\ UNCHANGED <<free, at, nouser, state>>
  BY ZenonT(30) DEF GrowDone
<1>3. job'[p] = Idle /\ job' \in [Proc -> JobType] /\ \A q \in Proc : q # p => job'[q] = job[q]
  <2>1. job \in [Proc -> JobType]
    BY ZenonT(30), <1>1 DEF TypeOK, JobType
  <2> QED
    BY ZenonT(30), <1>2, <2>1, IdleIs
<1>4. sz'[p] = job[p].goal /\ sz' \in [Proc -> Nat] /\ \A q \in Proc : q # p => sz'[q] = sz[q]
  BY ZenonT(30), <1>1, <1>2 DEF TypeOK
<1>5. TypeOK'
  BY ZenonT(30), <1>1, <1>2, <1>3, <1>4 DEF TypeOK, JobType
<1>6. PagesOwned'
  BY ZenonT(30), <1>1, <1>2 DEF PagesOwned
<1>7. ASSUME NEW q \in Proc \ {p} PROVE Kept(q)
  BY ZenonT(30), <1>2, <1>3, <1>4 DEF Kept
<1>8. ProcOK(p)'
  <2>1. at'[Held(p)] = 0
    BY ZenonT(30), <1>1, <1>2 DEF ProcOK, HeldOK
  <2>2. \A h \in Space(p, "new") : at'[h] = 0 /\ h \notin nouser'
    BY ZenonT(30), <1>1, <1>2 DEF ProcOK, NewOK, Bare, GuardOK
  <2>3. MapIs(p, "mem", PGROUNDUP(sz[p]))'
    <3>1. \A v \in VPN : at[Pte(p, "mem", v)] # 0 <=> v < PGROUNDUP(job[p].goal)
      BY ZenonT(30), <1>1 DEF Work, MapIs
    <3> HIDE DEF PGROUNDUP
    <3>2. PGROUNDUP(sz'[p]) = PGROUNDUP(job[p].goal)
      BY ZenonT(30), <1>4
    <3> QED
      BY ZenonT(30), <1>2, <3>1, <3>2 DEF MapIs, Pte
  <2> QED
    BY ZenonT(30), <1>1, <1>2, <1>3, <1>4, <2>1, <2>2, <2>3, IdleOK, IdleIs
<1> QED
  BY ZenonT(30), <1>1, <1>3, <1>5, <1>6, <1>7, <1>8, Solo, IdleIs

-----------------------------------------------------------------------------
(* Processes without a call *)

(* The invariant of a process that does not run. *)
LEMMA StoppedOK ==
  ASSUME NEW p \in Proc, ProcOK(p), job[p].op = "none", job'[p] = job[p],
         at'[Held(p)] = at[Held(p)], sz'[p] = sz[p],
         \A h \in Space(p, "new") : at'[h] = at[h] /\ (h \in nouser' <=> h \in nouser),
         state'[p] # "run", SlotOK(p)'
  PROVE  ProcOK(p)'
<1>1. job[p].step = "none"
  BY ZenonT(30) DEF ProcOK, JobOK
<1>2. JobOK(p)' /\ HeldOK(p)'
  BY ZenonT(30), <1>1 DEF JobOK, HeldOK, ProcOK
<1>3. NewOK(p)'
  BY ZenonT(30), <1>1 DEF NewOK, Bare, ProcOK
<1>4. MapOK(p)'
  BY ZenonT(30), <1>1 DEF MapOK
<1>5. SizeOK(p)'
  BY ZenonT(30), <1>1 DEF SizeOK, ProcOK
<1>6. GuardOK(p)'
  BY ZenonT(30), <1>1 DEF GuardOK, ProcOK
<1> QED
  BY ZenonT(30), <1>2, <1>3, <1>4, <1>5, <1>6 DEF ProcOK

(* exit() keeps the address space.                                         *)
LEMMA ExitIInv ==
  ASSUME IInv, NEW p \in Proc, Exit(p)
  PROVE  IInv'
<1>1. TypeOK /\ PagesOwned /\ ProcOK(p) /\ state[p] \in {"run", "doomed"} /\ job[p] = Idle
      /\ state' = [state EXCEPT ![p] = "zombie"] /\ UNCHANGED <<free, at, nouser, sz, job>>
  BY ZenonT(30) DEF IInv, Exit
<1>2. /\ state'[p] = "zombie" /\ \A q \in Proc : q # p => state'[q] = state[q]
      /\ state' \in [Proc -> {"unused", "embryo", "run", "doomed", "zombie"}]
  BY ZenonT(30), <1>1 DEF TypeOK
<1>3. TypeOK'
  BY ZenonT(30), <1>1, <1>2 DEF TypeOK
<1>4. PagesOwned'
  BY ZenonT(30), <1>1 DEF PagesOwned
<1>5. ASSUME NEW q \in Proc \ {p} PROVE Kept(q)
  BY ZenonT(30), <1>1, <1>2 DEF Kept
<1>6. SlotOK(p)'
  BY ZenonT(30), <1>2 DEF SlotOK
<1>7. ProcOK(p)'
  BY ZenonT(30), <1>1, <1>2, <1>6, StoppedOK, IdleIs
<1> QED
  BY ZenonT(30), <1>1, <1>3, <1>4, <1>5, <1>7, Solo, IdleIs

(* wait() frees the address space and the stack of a zombie.               *)
LEMMA WaitIInv ==
  ASSUME IInv, NEW p \in Proc, NEW c \in Proc, Wait(p, c)
  PROVE  IInv'
<1> DEFINE D == Space(c, "mem") \cup {Kstack(c)}
<1>1. TypeOK /\ PagesOwned /\ ProcOK(c) /\ state[c] = "zombie" /\ job[c].op = "none"
      /\ state' = [state EXCEPT ![c] = "unused"] /\ UNCHANGED <<sz, job>> /\ Release(D)
  BY ZenonT(30) DEF IInv, Wait, ProcOK, JobOK
<1>2. D \in SUBSET Holder /\ \A h \in D : h[1] = c
  <2>1. \A h \in Space(c, "mem") : h \in Holder /\ h[1] = c
    BY ZenonT(30), SpaceShape DEF Spaces
  <2> QED
    BY <2>1, OwnShape
<1>3. /\ PagesOwned' /\ at' \in PageMap /\ free' \subseteq Pages /\ nouser' \subseteq nouser
      /\ \A h \in Holder : at'[h] = IF h \in D THEN 0 ELSE at[h]
      /\ \A h \in Holder : h \in nouser' <=> h \in nouser /\ h \notin D
  BY ZenonT(30), <1>1, <1>2, ReleaseOK
<1>4. /\ state'[c] = "unused" /\ \A q \in Proc : q # c => state'[q] = state[q]
      /\ state' \in [Proc -> {"unused", "embryo", "run", "doomed", "zombie"}]
  BY ZenonT(30), <1>1 DEF TypeOK
<1>5. TypeOK'
  BY ZenonT(30), <1>1, <1>3, <1>4 DEF TypeOK, PageMap
<1>6. ASSUME NEW q \in Proc \ {c} PROVE Kept(q)
  BY ZenonT(30), <1>1, <1>2, <1>3, <1>4 DEF Kept
<1>7. SlotOK(c)'
  BY ZenonT(30), <1>2, <1>3 DEF SlotOK, Bare
<1>8. Held(c) \in Holder /\ Held(c) \notin D
      /\ \A h \in Space(c, "new") : h \in Holder /\ h \notin D
  <2>1. \A h \in Space(c, "mem") : h[2] = "mem"
    BY ZenonT(30), SpaceShape DEF Spaces
  <2>2. \A h \in Space(c, "new") : h \in Holder /\ h[2] = "new"
    BY ZenonT(30), SpaceShape DEF Spaces
  <2> QED
    BY ZenonT(30), <2>1, <2>2, OwnShape
<1>9. ProcOK(c)'
  BY ZenonT(30), <1>1, <1>3, <1>4, <1>7, <1>8, StoppedOK
<1> QED
  BY ZenonT(30), <1>1, <1>3, <1>5, <1>6, <1>9, Solo

(* sbrk(-n). *)
LEMMA ShrinkIInv ==
  ASSUME IInv, NEW p \in Proc, NEW n \in 1..KERNBASE, Shrink(p, n)
  PROVE  IInv'
<1>0. sz[p] \in Nat /\ n \in Nat
  BY Constants DEF IInv, TypeOK
<1>1. (sz[p] - n) % UINT \in Nat
  BY <1>0, Constants
<1>2. PICK g \in Nat : g = (sz[p] - n) % UINT
  BY ZenonT(30), <1>1
<1> DEFINE D == deallocuvm(p, sz[p], g)
<1>3. TypeOK /\ PagesOwned /\ ProcOK(p) /\ state[p] = "run" /\ job[p] = Idle /\ g < sz[p]
      /\ Release(D) /\ sz' = (IF g = 0 THEN sz ELSE [sz EXCEPT ![p] = g])
      /\ state' = (IF g = 0 THEN [state EXCEPT ![p] = "doomed"] ELSE state) /\ job' = job
  BY ZenonT(30), <1>2 DEF IInv, Shrink, Running
<1>4. /\ D \subseteq Space(p, "mem")
      /\ \A h \in Space(p, "mem") : h \in Holder /\ h[1] = p /\ h[2] = "mem"
  BY ZenonT(30), DeallocIs, SpaceShape DEF Spaces
<1>5. D \in SUBSET Holder
  BY ZenonT(30), <1>4
<1>6. /\ PagesOwned' /\ at' \in PageMap /\ free' \subseteq Pages /\ nouser' \subseteq nouser
      /\ \A h \in Holder : at'[h] = IF h \in D THEN 0 ELSE at[h]
      /\ \A h \in Holder : h \in nouser' <=> h \in nouser /\ h \notin D
  BY ZenonT(30), <1>3, <1>5, ReleaseOK
<1>7. /\ \A q \in Proc : q # p => state'[q] = state[q] /\ sz'[q] = sz[q]
      /\ state' \in [Proc -> {"unused", "embryo", "run", "doomed", "zombie"}]
      /\ sz' \in [Proc -> Nat]
  BY ZenonT(30), <1>3 DEF TypeOK
<1>8. TypeOK'
  BY ZenonT(30), <1>3, <1>6, <1>7 DEF TypeOK, PageMap
<1>9. ASSUME NEW q \in Proc \ {p} PROVE Kept(q)
  BY ZenonT(30), <1>3, <1>4, <1>6, <1>7 DEF Kept
<1>10. \A h \in Space(p, "new") \cup {Held(p)} :
         at'[h] = at[h] /\ (h \in nouser' <=> h \in nouser)
  <2>1. \A h \in Space(p, "new") : h \in Holder /\ h[2] = "new"
    BY ZenonT(30), SpaceShape DEF Spaces
  <2>2. \A h \in Space(p, "new") \cup {Held(p)} : h \in Holder /\ h \notin D
    BY <1>4, <2>1, OwnShape
  <2> QED
    BY ZenonT(30), <1>6, <2>2
<1>11. ProcOK(p)'
  <2>1. CASE g = 0
    <3>1. state'[p] = "doomed" /\ sz' = sz
      BY ZenonT(30), <1>3, <2>1 DEF TypeOK
    <3>2. SlotOK(p)'
      BY ZenonT(30), <3>1 DEF SlotOK
    <3> QED
      BY ZenonT(30), <1>3, <1>10, <3>1, <3>2, StoppedOK, IdleIs
  <2>2. CASE g # 0
    <3>1. state'[p] = "run" /\ sz'[p] = g
      BY ZenonT(30), <1>3, <2>2 DEF TypeOK
    <3>2. sz[p] <= KERNBASE /\ at[Held(p)] = 0
          /\ \A h \in Space(p, "new") : at[h] = 0 /\ h \notin nouser
      BY ZenonT(30), <1>3, IdleIs DEF ProcOK, SizeOK, HeldOK, NewOK, Bare, GuardOK
    <3>3. MapIs(p, "mem", PGROUNDUP(sz[p]))'
      <4>1. ASSUME NEW v \in VPN PROVE at'[Pte(p, "mem", v)] # 0 <=> v < PGROUNDUP(g)
        <5>1. v \in Nat /\ PGROUNDUP(g) \in Nat /\ PGROUNDUP(sz[p]) \in Nat
              /\ PGROUNDUP(g) <= PGROUNDUP(sz[p])
          BY <1>0, <1>3, RoundUp, RoundUpMono DEF VPN
        <5>2. at[Pte(p, "mem", v)] # 0 <=> v < PGROUNDUP(sz[p])
          BY ZenonT(30), <1>3, IdleIs DEF ProcOK, MapOK, MapIs
        <5>3. Pte(p, "mem", v) \in D <=> PGROUNDUP(g) <= v /\ v < PGROUNDUP(sz[p])
          <6>1. v < PGROUNDUP(sz[p]) <=> v * PGSIZE < sz[p]
            BY <1>0, <1>3, RoundUp DEF VPN
          <6> QED
            BY ZenonT(30), <6>1, DeallocIs
        <5>4. at'[Pte(p, "mem", v)] = IF Pte(p, "mem", v) \in D THEN 0 ELSE at[Pte(p, "mem", v)]
          <6>1. Pte(p, "mem", v) \in Holder
            BY ZenonT(30), EntryShape DEF Spaces
          <6> QED
            BY ZenonT(30), <1>6, <6>1
        <5> QED
          BY <5>1, <5>2, <5>3, <5>4
      <4> HIDE DEF PGROUNDUP
      <4>2. PGROUNDUP(sz'[p]) = PGROUNDUP(g)
        BY ZenonT(30), <3>1
      <4> QED
        BY ZenonT(30), <4>1, <4>2 DEF MapIs, Pte
    <3>4. sz'[p] <= KERNBASE
      BY <1>0, <1>3, <3>1, <3>2, Constants
    <3> QED
      BY ZenonT(30), <1>3, <1>10, <3>1, <3>2, <3>3, <3>4, IdleOK, IdleIs
  <2> QED
    BY ZenonT(30), <2>1, <2>2
<1> QED
  BY ZenonT(30), <1>3, <1>6, <1>8, <1>9, <1>11, Solo, IdleIs

-----------------------------------------------------------------------------
(* The first state *)

(* Five pages have a holder, and each has one. *)
LEMMA InitPages ==
  ASSUME Init
  PROVE  /\ at \in PageMap /\ free \subseteq Pages /\ PagesOwned
         /\ at[Kstack(initproc)] = 1
         /\ \A v \in VPN : at[Pte(initproc, "mem", v)] # 0 <=> v = 0
         /\ \A h \in Holder : h[1] # initproc \/ h[2] = "new" \/ h = Held(initproc) => at[h] = 0
<1> DEFINE a == Kstack(initproc)
           b == <<initproc, "mem", "dir", 0>>
           c == <<initproc, "mem", "ktab", 0>>
           d == <<initproc, "mem", "tab", 0>>
           e == <<initproc, "mem", "pte", 0>>
<1>1. initproc \in Proc /\ NPAGES \in Nat /\ NPAGES >= 5
  BY ZenonT(30), VmAssumption
<1>2. 0 \in VPN
  BY Constants DEF VPN
<1>3. 0 \div NPTENTRIES = 0
  BY Constants
<1>4. a \in Holder /\ b \in Holder /\ c \in Holder /\ d \in Holder /\ e \in Holder
  <2>1. d = Table(initproc, "mem", 0) /\ e = Pte(initproc, "mem", 0)
    BY ZenonT(30), <1>3 DEF Table, Pte
  <2>2. "mem" \in Spaces
    BY ZenonT(30) DEF Spaces
  <2>3. a \in Holder
    BY ZenonT(30), <1>1, OwnShape
  <2>4. b \in Holder /\ c \in Holder
    BY ZenonT(30), <1>1, <2>2, TopShape
  <2>5. Table(initproc, "mem", 0) \in Holder /\ Pte(initproc, "mem", 0) \in Holder
    BY ZenonT(30), <1>1, <1>2, <2>2, EntryShape
  <2> QED
    BY ZenonT(30), <2>1, <2>2, <2>3, <2>4, <2>5
<1>5. a # b /\ a # c /\ a # d /\ a # e /\ b # c /\ b # d /\ b # e /\ c # d /\ c # e /\ d # e
  BY ZenonT(30) DEF Kstack
<1>6. /\ a[1] = initproc /\ a[2] = "own" /\ a[3] = "kstack"
      /\ b[1] = initproc /\ b[2] = "mem" /\ c[1] = initproc /\ c[2] = "mem"
      /\ d[1] = initproc /\ d[2] = "mem" /\ e[1] = initproc /\ e[2] = "mem"
      /\ b[3] = "dir" /\ c[3] = "ktab" /\ d[3] = "tab" /\ e[3] = "pte" /\ e[4] = 0
  BY ZenonT(30) DEF Kstack
<1>7. at = [h \in Holder |-> CASE h = a -> 1 [] h = b -> 2 [] h = c -> 3 [] h = d -> 4
                                [] h = e -> 5 [] OTHER -> 0]
  BY ZenonT(30) DEF Init, inituvm
<1> HIDE DEF a, b, c, d, e
<1>8. /\ at[a] = 1 /\ at[b] = 2 /\ at[c] = 3 /\ at[d] = 4 /\ at[e] = 5
      /\ \A h \in Holder : h \notin {a, b, c, d, e} => at[h] = 0
  BY ZenonT(30), <1>4, <1>5, <1>7
<1>9. Pages = 1..NPAGES /\ free = 6..NPAGES
  BY ZenonT(30) DEF Pages, Init
<1>10. at \in PageMap
  <2>1. \A h \in Holder : at[h] \in Pages \cup {0}
    BY <1>1, <1>8, <1>9
  <2> QED
    BY ZenonT(30), <1>7, <2>1 DEF PageMap
<1>11. free \subseteq Pages
  BY <1>1, <1>9
<1>12. PagesOwned
  <2>1. ASSUME NEW g \in Holder, at[g] # 0, NEW h \in Holder, at[h] = at[g] PROVE h = g
    BY <1>8, <2>1
  <2>2. ASSUME NEW pg \in Pages PROVE pg \in free <=> \A h \in Holder : at[h] # pg
    <3>1. pg \in {1, 2, 3, 4, 5} \/ pg \in 6..NPAGES
      BY <1>1, <1>9
    <3>2. CASE pg \in {1, 2, 3, 4, 5}
      <4>1. \E h \in Holder : at[h] = pg
        BY ZenonT(30), <1>4, <1>8, <3>2
      <4> QED
        BY <1>9, <3>2, <4>1
    <3>3. CASE pg \in 6..NPAGES
      <4>1. \A h \in Holder : at[h] \in {0, 1, 2, 3, 4, 5}
        BY ZenonT(30), <1>8
      <4> QED
        BY <1>9, <3>3, <4>1
    <3> QED
      BY ZenonT(30), <3>1, <3>2, <3>3
  <2> QED
    BY ZenonT(30), <2>1, <2>2 DEF PagesOwned
<1>13. ASSUME NEW v \in VPN PROVE at[Pte(initproc, "mem", v)] # 0 <=> v = 0
  <2>1. Pte(initproc, "mem", v) \in Holder /\ Pte(initproc, "mem", v)[3] = "pte"
        /\ Pte(initproc, "mem", v)[4] = v
    BY <1>1, EntryShape DEF Spaces
  <2>2. CASE v = 0
    BY <1>8, <2>2 DEF Pte, e
  <2>3. CASE v # 0
    BY ZenonT(30), <1>6, <1>8, <2>1, <2>3
  <2> QED
    BY ZenonT(30), <2>2, <2>3
<1>14. ASSUME NEW h \in Holder, h[1] # initproc \/ h[2] = "new" \/ h = Held(initproc)
       PROVE  at[h] = 0
  <2>1. Held(initproc)[2] = "own" /\ Held(initproc)[3] = "mem"
    BY ZenonT(30), <1>1, OwnShape
  <2>2. CASE h[1] # initproc \/ h[2] = "new"
    BY ZenonT(30), <1>6, <1>8, <2>2
  <2>3. CASE h = Held(initproc)
    BY ZenonT(30), <1>6, <1>8, <2>1, <2>3
  <2> QED
    BY ZenonT(30), <1>14, <2>2, <2>3
<1>15. at[Kstack(initproc)] = 1
  BY ZenonT(30), <1>8 DEF a
<1> QED
  BY ZenonT(30), <1>10, <1>11, <1>12, <1>13, <1>14, <1>15

(* userinit() has given the first process a page of memory.                *)
LEMMA InitIInv ==
  ASSUME Init
  PROVE  IInv
<1>1. initproc \in Proc
  BY ZenonT(30), VmAssumption
<1>2. /\ at \in PageMap /\ free \subseteq Pages /\ PagesOwned
      /\ \A v \in VPN : at[Pte(initproc, "mem", v)] # 0 <=> v = 0
      /\ \A h \in Holder : h[1] # initproc \/ h[2] = "new" \/ h = Held(initproc) => at[h] = 0
  BY ZenonT(30), InitPages
<1>3. /\ nouser = {} /\ job = [p \in Proc |-> Idle]
      /\ state = [p \in Proc |-> IF p = initproc THEN "run" ELSE "unused"]
      /\ sz = [p \in Proc |-> IF p = initproc THEN PGSIZE ELSE 0]
  BY ZenonT(30) DEF Init
<1>4. TypeOK
  BY ZenonT(30), <1>2, <1>3, Constants, IdleIs DEF TypeOK, PageMap, JobType
<1>5. ASSUME NEW p \in Proc PROVE ProcOK(p) /\ KidOK(p)
  <2>1. job[p] = Idle /\ job[p].op = "none" /\ job[p].step = "none"
        /\ job[p].goal <= KERNBASE /\ job[p].old <= KERNBASE
    BY ZenonT(30), <1>3, IdleIs
  <2>2. \A h \in Space(p, "new") : h \in Holder /\ at[h] = 0
    BY ZenonT(30), <1>2, SpaceShape DEF Spaces
  <2>3. at[Held(p)] = 0
    BY <1>2, OwnShape
  <2>4. JobOK(p) /\ HeldOK(p)
    BY ZenonT(30), <2>1, <2>3 DEF JobOK, HeldOK
  <2>5. NewOK(p)
    BY ZenonT(30), <2>1, <2>2 DEF NewOK, Bare
  <2>6. SlotOK(p)
    <3>1. CASE p = initproc
      BY ZenonT(30), <1>3, <3>1 DEF SlotOK
    <3>2. CASE p # initproc
      <4>1. \A h \in Space(p, "mem") : h \in Holder /\ h[1] = p
        BY ZenonT(30), SpaceShape DEF Spaces
      <4> QED
        BY <1>2, <3>2, <4>1, OwnShape DEF SlotOK, Bare
    <3> QED
      BY ZenonT(30), <3>1, <3>2
  <2>7. MapOK(p)
    <3>1. state[p] = "run" => MapIs(p, "mem", PGROUNDUP(sz[p]))
      <4>1. SUFFICES ASSUME p = initproc PROVE MapIs(p, "mem", PGROUNDUP(sz[p]))
        BY ZenonT(30), <1>3
      <4>2. PGROUNDUP(1 * PGSIZE) = 1
        BY ZenonT(30), RoundUpExact
      <4>3. sz[p] = 1 * PGSIZE
        BY <1>3, <4>1, Constants
      <4>4. \A v \in VPN : v < 1 <=> v = 0
        BY DEF VPN
      <4> QED
        BY ZenonT(30), <1>2, <4>1, <4>2, <4>3, <4>4 DEF MapIs
    <3> QED
      BY ZenonT(30), <2>1, <3>1 DEF MapOK
  <2>8. SizeOK(p)
    <3>1. PGSIZE <= KERNBASE /\ 0 <= KERNBASE
      BY Constants DEF KERNBASE
    <3> QED
      BY ZenonT(30), <1>3, <2>1, <3>1 DEF SizeOK
  <2>9. GuardOK(p)
    BY ZenonT(30), <1>3, <2>1 DEF GuardOK
  <2>10. KidOK(p)
    BY ZenonT(30), <2>1 DEF KidOK
  <2> QED
    BY ZenonT(30), <2>4, <2>5, <2>6, <2>7, <2>8, <2>9, <2>10 DEF ProcOK
<1> QED
  BY ZenonT(30), <1>2, <1>4, <1>5 DEF IInv

(* A step that changes nothing. *)
LEMMA UnchangedIInv ==
  ASSUME IInv, UNCHANGED vars
  PROVE  IInv'
<1>1. TypeOK' /\ PagesOwned'
  BY ZenonT(30) DEF IInv, TypeOK, PagesOwned, vars
<1>2. ASSUME NEW q \in Proc PROVE Kept(q)
  BY ZenonT(30) DEF Kept, vars
<1>3. ASSUME NEW q \in Proc PROVE ProcOK(q)' /\ KidOK(q)'
  <2>1. ProcOK(q)'
    BY ZenonT(30), <1>2, KeptOK DEF IInv
  <2>2. KidOK(q)'
    BY ZenonT(30) DEF IInv, KidOK, vars
  <2> QED
    BY ZenonT(30), <2>1, <2>2
<1> QED
  BY ZenonT(30), <1>1, <1>3 DEF IInv

(* Every step keeps the invariant. *)
LEMMA StepIInv ==
  ASSUME IInv, [Next]_vars
  PROVE  IInv'
<1>1. CASE UNCHANGED vars
  BY ZenonT(30), <1>1, UnchangedIInv
<1>2. ASSUME NEW p \in Proc, Fork(p) \/ ForkStack(p) \/ ForkDone(p) PROVE IInv'
  BY ZenonT(30), <1>2, ForkIInv, ForkStackIInv, ForkDoneIInv
<1>3. ASSUME NEW p \in Proc, Setupkvm(p) \/ SetupkvmMap(p) \/ AllocPage(p) \/ Mappages(p)
      PROVE  IInv'
  BY ZenonT(30), <1>3, SetupkvmIInv, SetupkvmMapIInv, AllocPageIInv, MappagesIInv
<1>4. ASSUME NEW p \in Proc,
             Exec(p) \/ Segment(p) \/ LoadSegment(p) \/ ExecStack(p) \/ Clearpteu(p) \/ ExecDone(p)
      PROVE  IInv'
  BY ZenonT(30), <1>4, ExecIInv, SegmentIInv, LoadSegmentIInv, ExecStackIInv, ClearpteuIInv,
     ExecDoneIInv
<1>5. ASSUME NEW p \in Proc, NEW n \in 1..KERNBASE, PushArg(p, n) \/ Shrink(p, n) PROVE IInv'
  BY ZenonT(30), <1>5, PushArgIInv, ShrinkIInv
<1>6. ASSUME NEW p \in Proc, NEW n \in 1..(KERNBASE - 1), Grow(p, n) PROVE IInv'
  BY ZenonT(30), <1>6, GrowIInv
<1>7. ASSUME NEW p \in Proc, GrowDone(p) \/ Exit(p) PROVE IInv'
  BY ZenonT(30), <1>7, GrowDoneIInv, ExitIInv
<1>8. ASSUME NEW p \in Proc, NEW c \in Proc, Wait(p, c) PROVE IInv'
  BY ZenonT(30), <1>8, WaitIInv
<1> QED
  BY ZenonT(30), <1>1, <1>2, <1>3, <1>4, <1>5, <1>6, <1>7, <1>8 DEF Next

-----------------------------------------------------------------------------
(* The properties *)

(* Every step of fork(), exec(), sbrk(), exit() and wait() keeps the       *)
(* inductive invariant: the steps of a call that fails part way included.  *)
THEOREM Invariance == Spec => []IInv
<1>1. Init => IInv
  BY ZenonT(30), InitIInv
<1>2. IInv /\ [Next]_vars => IInv'
  BY ZenonT(30), StepIInv
<1> QED
  BY <1>1, <1>2, PTL DEF Spec

(* kalloc() and kfree(): every physical page is free or has one holder.    *)
THEOREM PagesOwnedHolds == Spec => []PagesOwned
<1>1. IInv => PagesOwned
  BY ZenonT(30) DEF IInv
<1> QED
  BY <1>1, Invariance, PTL

(* What fetchint(), fetchstr() and argptr() accept lies below proc->sz:    *)
(* no sum wraps.                                                           *)
LEMMA AcceptedBelow ==
  ASSUME NEW p \in Proc, sz[p] \in Nat, sz[p] <= KERNBASE, NEW b \in Accepted(p)
  PROVE  b \in Nat /\ b < sz[p]
<1>1. CASE \E a \in Address : fetchint(p, a) /\ b \in a..(a + 3)
  <2>1. PICK a \in Address : fetchint(p, a) /\ b \in a..(a + 3)
    BY ZenonT(30), <1>1
  <2>2. a \in Nat /\ a < sz[p] /\ (a + 4) % UINT <= sz[p]
    BY <2>1, Constants DEF Address, fetchint
  <2>3. a + 4 < UINT /\ a + 4 \in Nat
    BY <2>2, Constants
  <2>4. (a + 4) % UINT = a + 4
    BY <2>3, Constants
  <2> QED
    BY <2>1, <2>2, <2>4
<1>2. CASE \E a \in Address : fetchstr(p, a) /\ b \in a..(sz[p] - 1)
  BY <1>2, Constants DEF Address
<1>3. CASE \E i \in Address, s \in 0..(UINT \div 2 - 1) : argptr(p, i, s) /\ b \in i..(i + s - 1)
  <2>1. PICK i \in Address, s \in 0..(UINT \div 2 - 1) : argptr(p, i, s) /\ b \in i..(i + s - 1)
    BY ZenonT(30), <1>3
  <2>2. UINT \div 2 \in Nat /\ 2 * (UINT \div 2) <= UINT
    BY Constants, DivFact
  <2>3. i \in Nat /\ s \in Nat /\ s < UINT \div 2 /\ i < sz[p] /\ (i + s) % UINT <= sz[p]
    BY <2>1, <2>2, Constants DEF Address, argptr
  <2>4. i + s < UINT /\ i + s \in Nat
    BY <2>2, <2>3, Constants
  <2>5. (i + s) % UINT = i + s
    BY <2>4, Constants
  <2> QED
    BY <2>1, <2>3, <2>5
<1>4. PICK S \in ({a..(a + 3) : a \in {x \in Address : fetchint(p, x)}}
                  \cup {a..(sz[p] - 1) : a \in {x \in Address : fetchstr(p, x)}}
                  \cup {x[1]..(x[1] + x[2] - 1) :
                        x \in {y \in Address \X (0..(UINT \div 2 - 1)) : argptr(p, y[1], y[2])}}) :
             b \in S
  BY ZenonT(30) DEF Accepted
<1>5. CASE S \in {a..(a + 3) : a \in {x \in Address : fetchint(p, x)}}
  BY ZenonT(30), <1>1, <1>4, <1>5
<1>6. CASE S \in {a..(sz[p] - 1) : a \in {x \in Address : fetchstr(p, x)}}
  BY ZenonT(30), <1>2, <1>4, <1>6
<1>7. CASE S \in {x[1]..(x[1] + x[2] - 1) :
                    x \in {y \in Address \X (0..(UINT \div 2 - 1)) : argptr(p, y[1], y[2])}}
  <2>1. PICK x \in Address \X (0..(UINT \div 2 - 1)) :
               argptr(p, x[1], x[2]) /\ S = x[1]..(x[1] + x[2] - 1)
    BY ZenonT(30), <1>7
  <2>2. x[1] \in Address /\ x[2] \in 0..(UINT \div 2 - 1)
    BY ZenonT(30), <2>1
  <2> QED
    BY ZenonT(30), <1>3, <1>4, <2>1, <2>2
<1> QED
  BY ZenonT(30), <1>4, <1>5, <1>6, <1>7

(* The inductive invariant implies SizeMatchesMap.                         *)
LEMMA SizeMatches ==
  ASSUME IInv
  PROVE  SizeMatchesMap
<1> SUFFICES ASSUME NEW p \in Proc
             PROVE  /\ Running(p) => \A b \in Accepted(p) : b \div PGSIZE \in Mapped(p, "mem")
                    /\ state[p] = "run" /\ job[p].op # "sbrk" =>
                         Mapped(p, "mem") = 0..(PGROUNDUP(sz[p]) - 1)
                    /\ job[p].step = "map" => job[p].a \notin Mapped(p, Work(p))
  BY ZenonT(30) DEF SizeMatchesMap
<1>1. ProcOK(p) /\ sz[p] \in Nat /\ sz[p] <= KERNBASE /\ job[p].a \in Nat
  BY ZenonT(30), JobTyped DEF IInv, TypeOK, ProcOK, SizeOK
<1>2. PICK m \in Nat : m = PGROUNDUP(sz[p]) /\ m <= KERNPAGES
  BY ZenonT(30), <1>1, RoundUpBound
<1>3. ASSUME state[p] = "run", job[p].op # "sbrk"
      PROVE  Mapped(p, "mem") = 0..(m - 1)
  <2>1. \A v \in VPN : at[Pte(p, "mem", v)] # 0 <=> v < m
    BY ZenonT(30), <1>1, <1>2, <1>3 DEF ProcOK, MapOK, MapIs
  <2>2. Mapped(p, "mem") = {v \in VPN : v < m}
    BY ZenonT(30), <2>1 DEF Mapped
  <2>3. \A v : v \in VPN /\ v < m <=> v \in 0..(m - 1)
    BY <1>2, Constants DEF VPN
  <2> QED
    BY ZenonT(30), <2>2, <2>3
<1>4. ASSUME Running(p), NEW b \in Accepted(p) PROVE b \div PGSIZE \in Mapped(p, "mem")
  <2>1. b \in Nat /\ b < sz[p]
    BY ZenonT(30), <1>1, AcceptedBelow
  <2>2. b \div PGSIZE \in Nat /\ b \div PGSIZE < m
    BY ZenonT(30), <1>1, <1>2, <2>1, PageOfByte
  <2>3. Mapped(p, "mem") = 0..(m - 1)
    BY ZenonT(30), <1>3, <1>4, IdleIs DEF Running
  <2> QED
    BY <1>2, <2>2, <2>3
<1>5. job[p].step = "map" => job[p].a \notin Mapped(p, Work(p))
  <2>1. job[p].step = "map" => MapIs(p, Work(p), job[p].a)
    BY ZenonT(30), <1>1 DEF ProcOK, MapOK
  <2>2. job[p].a \in Nat
    BY ZenonT(30), <1>1, JobTyped
  <2> QED
    BY <2>1, <2>2 DEF MapIs, Mapped, VPN
<1> QED
  BY ZenonT(30), <1>2, <1>3, <1>4, <1>5

(* proc->sz and the page table agree, and what the arguments of a system   *)
(* call may name is mapped.                                                *)
THEOREM SizeMatchesMapHolds == Spec => []SizeMatchesMap
<1>1. IInv => SizeMatchesMap
  BY ZenonT(30), SizeMatches
<1> QED
  BY <1>1, Invariance, PTL

(* The inductive invariant implies StackGuarded.                           *)
LEMMA Guarded ==
  ASSUME IInv
  PROVE  StackGuarded
<1>1. SUFFICES ASSUME NEW p \in Proc, job[p].step = "args"
               PROVE  /\ \A x \in job[p].sp..(job[p].goal - 1) : Accessible(p, x \div PGSIZE)
                      /\ job[p].sp <= job[p].goal /\ job[p].goal - job[p].sp <= PGSIZE
                      /\ Guard(p) \in nouser
  BY ZenonT(30) DEF StackGuarded, Guard
<1>2. TypeOK /\ ProcOK(p) /\ job[p].op = "stack" /\ job[p].sp \in Nat /\ job[p].goal \in Nat
  BY ZenonT(30), <1>1, JobTyped DEF IInv, ProcOK, JobOK, Ops
<1>3. Guard(p) \in nouser /\ job[p].sp <= job[p].goal /\ job[p].goal - job[p].sp <= PGSIZE
      /\ MapIs(p, "new", PGROUNDUP(job[p].goal))
      /\ \A h \in Space(p, "new") : h \in nouser => h = Guard(p)
  BY ZenonT(30), <1>1, <1>2 DEF ProcOK, GuardOK, SizeOK, StackOK, MapOK
<1>4. PICK k \in Nat : /\ k >= 2 /\ job[p].goal = k * PGSIZE /\ PGROUNDUP(job[p].goal) = k
                       /\ k - 1 \in VPN /\ k - 2 \in VPN /\ Guard(p) = Pte(p, "new", k - 2)
  BY ZenonT(30), <1>2, StackTop
<1>5. at[Pte(p, "new", k - 1)] # 0
  BY <1>3, <1>4 DEF MapIs
<1>6. Pte(p, "new", k - 1) \notin nouser
  <2>1. Pte(p, "new", k - 1) \in Space(p, "new") /\ Pte(p, "new", k - 1)[4] = k - 1
        /\ Pte(p, "new", k - 2)[4] = k - 2
    BY <1>4, EntryShape DEF Spaces
  <2>2. Pte(p, "new", k - 1) # Pte(p, "new", k - 2)
    BY <2>1
  <2> QED
    BY ZenonT(30), <1>3, <1>4, <2>1, <2>2
<1>7. ASSUME NEW x \in job[p].sp..(job[p].goal - 1)
      PROVE  x \div PGSIZE = k - 1
  <2>1. PICK m : m = k * PGSIZE
    BY ZenonT(30)
  <2>2. x \in Nat /\ x < m /\ m - x <= PGSIZE
    <3>1. PGSIZE \in Nat /\ job[p].goal = m
      BY ZenonT(30), <1>4, <2>1, VmAssumption
    <3> QED
      BY <1>2, <1>3, <3>1
  <2> QED
    BY ZenonT(30), <1>4, <2>1, <2>2, StackPage
<1>8. \A x \in job[p].sp..(job[p].goal - 1) : Accessible(p, x \div PGSIZE)
  BY ZenonT(30), <1>4, <1>5, <1>6, <1>7 DEF Accessible
<1> QED
  BY ZenonT(30), <1>3, <1>8

(* exec(): the arguments stay in the stack's page, above the guard page,   *)
(* whatever their lengths: also those that make sp wrap.                   *)
THEOREM StackGuardedHolds == Spec => []StackGuarded
<1>1. IInv => StackGuarded
  BY ZenonT(30), Guarded
<1> QED
  BY <1>1, Invariance, PTL
=============================================================================
