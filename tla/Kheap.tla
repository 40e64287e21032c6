------------------------------- MODULE Kheap -------------------------------
(***************************************************************************)
(* The page allocator of the kernel heap (vm/kheap.c): an address-sorted   *)
(* list of free regions of virtual pages, whose nodes live in slots of     *)
(* metadata pages, and the mapping of allocated pages to physical ones.    *)
(*                                                                         *)
(* Pages of the heap are numbered from 0 (KHEAP_START).  The list of free  *)
(* regions is a sequence: the next pointers of its nodes are left out.     *)
(* That is exact until a slot is given out while its region is still in    *)
(* the list; fault then records it and the model stops.                    *)
(***************************************************************************)
EXTENDS Integers, Sequences, FiniteSets, FiniteSetsExt, SequencesExt

CONSTANTS HEAPPAGES,         \* virtual pages of the heap
          REGIONS_PER_PAGE,  \* slots of a metadata page
          PHYS,              \* physical pages kalloc() has
          NPTENTRIES         \* heap pages one page table maps

ASSUME KheapAssumption ==
  /\ HEAPPAGES \in Nat \ {0} /\ REGIONS_PER_PAGE \in Nat \ {0}
  /\ PHYS \in Nat \ {0} /\ NPTENTRIES \in Nat \ {0}

VARIABLES meta,    \* metadata_pages: ids of the pages, in list order
          used,    \* id -> num_regions
          free,    \* vmem_free_list: [slot, base, pages], in list order
          blocks,  \* [base, pages] given out and not freed yet
          mapped,  \* heap pages with a present page table entry
          tables,  \* page tables of the heap that exist
          avail,   \* physical pages on kalloc()'s list
          lost,    \* physical pages that were to be mapped and were not (for
                   \* properties)
          fault    \* "alias", "panic", "trap", "null" or "none"

pageVars == <<meta, used, free, blocks, mapped, tables, avail, lost>>
vars == <<pageVars, fault>>

Pages == 0..(HEAPPAGES - 1)
Span(r) == r.base..(r.base + r.pages - 1)
MetaIds == 1..HEAPPAGES

(* kheap_init(): one metadata page, one region that is the whole heap. *)
Init ==
  /\ meta = <<1>>
  /\ used = [m \in MetaIds |-> IF m = 1 THEN 1 ELSE 0]
  /\ free = <<[slot |-> <<1, 0>>, base |-> 0, pages |-> HEAPPAGES]>>
  /\ blocks = {} /\ mapped = {} /\ tables = {}
  /\ avail = PHYS - 1 /\ lost = 0
  /\ fault = "none"

-----------------------------------------------------------------------------
(* Slots of metadata pages *)

(* Metadata pages that have room, in list order. *)
Roomy == SelectSeq(meta, LAMBDA m : used[m] < REGIONS_PER_PAGE)
FreshMeta == Min(MetaIds \ Range(meta))

(* The slot get_new_vmem_region() returns: the one after the first         *)
(* num_regions ones, on the first page that has fewer than it can hold, or *)
(* on a new page.                                                          *)
NewSlot == IF Roomy # <<>> THEN <<Head(Roomy), used[Head(Roomy)]>>
                           ELSE <<FreshMeta, 0>>

(* What it leaves in used and meta. *)
UsedNew == [used EXCEPT ![NewSlot[1]] = @ + 1]
MetaNew == IF Roomy # <<>> THEN meta ELSE <<FreshMeta>> \o meta

(* recycle_vmem_region() counts the slot out of its page, and frees a page *)
(* that has none left: what becomes of u and ms.                           *)
UsedRecycled(slot, u) == [u EXCEPT ![slot[1]] = @ - 1]
MetaRecycled(slot, u, ms) ==
  IF u[slot[1]] = 1 THEN SelectSeq(ms, LAMBDA m : m # slot[1]) ELSE ms

-----------------------------------------------------------------------------
(* liballoc_alloc() *)

(* The first region that is large enough; 0 if there is none. *)
Fit(n) == SelectInSeq(free, LAMBDA r : r.pages >= n)

(* Mutant: the loop goes on when kalloc() fails. *)
MapPageSilent(st, v) ==
  LET t == v \div NPTENTRIES
  IN  CASE st.avail = 0 -> st
        [] st.avail > 0 /\ t \in st.tables ->
             [st EXCEPT !.avail = @ - 1, !.mapped = @ \cup {v}]
        [] st.avail > 1 /\ t \notin st.tables ->
             [st EXCEPT !.avail = @ - 2, !.mapped = @ \cup {v},
                        !.tables = @ \cup {t}]
        [] OTHER -> [st EXCEPT !.avail = 0, !.lost = @ + 1]

(* One turn of the loop that maps the block: a physical page, and a page   *)
(* table if map_kernel_page() needs one.  If there is no memory for the    *)
(* table the virtual page stays unmapped and nothing refers to the         *)
(* physical one any more: the result is not looked at.                     *)
MapPage(st, v) ==
  LET t == v \div NPTENTRIES
  IN  CASE st.avail = 0 -> [st EXCEPT !.fault = "panic"]
        [] st.avail > 0 /\ t \in st.tables ->
             [st EXCEPT !.avail = @ - 1, !.mapped = @ \cup {v}]
        [] st.avail > 1 /\ t \notin st.tables ->
             [st EXCEPT !.avail = @ - 2, !.mapped = @ \cup {v},
                        !.tables = @ \cup {t}]
        [] OTHER -> [st EXCEPT !.avail = 0, !.lost = @ + 1]

(* The loop, and the first thing the caller does: allocate_new_page() of   *)
(* liballoc.c writes a header to the first page, which traps if that page  *)
(* is not mapped.                                                          *)
MapBlock(base, n, pages) ==
  LET st == FoldLeft(MapPage,
                     [avail |-> pages, mapped |-> mapped, tables |-> tables,
                      lost |-> lost, fault |-> "none"],
                     [k \in 1..n |-> base + k - 1])
  IN  /\ avail' = st.avail /\ mapped' = st.mapped /\ tables' = st.tables
      /\ lost' = st.lost
      /\ fault' = IF st.fault = "none" /\ base \notin st.mapped THEN "trap"
                  ELSE st.fault

Alloc(n) ==
  LET k == Fit(n)
      r == free[k]
  IN  /\ fault = "none"
      /\ k # 0
      /\ IF r.pages = n
         THEN /\ free' = RemoveAt(free, k)
              /\ used' = UsedRecycled(r.slot, used)
              /\ meta' = MetaRecycled(r.slot, used, meta)
         ELSE /\ free' = [free EXCEPT ![k].base = @ + n, ![k].pages = @ - n]
              /\ UNCHANGED <<used, meta>>
      /\ blocks' = blocks \cup {[base |-> r.base, pages |-> n]}
      /\ MapBlock(r.base, n, avail + Len(meta) - Len(meta'))

-----------------------------------------------------------------------------
(* liballoc_free() *)

(* kfree_and_unmap_page() of every page of the block. *)
UnmapBlock(b) == mapped' = mapped \ Span(b)

PagesBack(b) == Cardinality(mapped \cap Span(b))

(* Regions that lie before the block; the last one is prev, the one after  *)
(* it current.                                                             *)
Before(b) == Cardinality({k \in DOMAIN free : free[k].base < b.base})
Touches(r, b) == r.base + r.pages = b.base
MergesBack(b) == Before(b) > 0 /\ Touches(free[Before(b)], b)
MergesForward(b) == Before(b) < Len(free) /\ Touches(b, free[Before(b) + 1])

(* The region that b becomes part of, before it absorbs the next one. *)
Grown(b) ==
  LET prev == free[Before(b)]
  IN  IF MergesBack(b) THEN [prev EXCEPT !.pages = @ + b.pages]
      ELSE [slot |-> NewSlot, base |-> b.base, pages |-> b.pages]

(* The list with g in the place of b, and prev if it was merged. *)
Inserted(g, b) ==
  SubSeq(free, 1, IF MergesBack(b) THEN Before(b) - 1 ELSE Before(b))
    \o (IF MergesForward(b)
        THEN <<[g EXCEPT !.pages = @ + free[Before(b) + 1].pages]>>
               \o SubSeq(free, Before(b) + 2, Len(free))
        ELSE <<g>> \o SubSeq(free, Before(b) + 1, Len(free)))

FreeBlock(b) ==
  LET next == free[Before(b) + 1]
      u == IF MergesBack(b) THEN used ELSE UsedNew
      ms == IF MergesBack(b) THEN meta ELSE MetaNew
  IN  /\ fault = "none"
      /\ b \in blocks
      /\ blocks' = blocks \ {b}
      /\ UnmapBlock(b)
      /\ IF ~MergesBack(b) /\ \E k \in DOMAIN free : free[k].slot = NewSlot
         THEN fault' = "alias" /\ UNCHANGED <<meta, used, free>>
         ELSE IF ~MergesBack(b) /\ Roomy = <<>> /\ avail + PagesBack(b) = 0
         THEN fault' = "panic" /\ UNCHANGED <<meta, used, free>>
         ELSE /\ free' = Inserted(Grown(b), b)
              /\ IF MergesForward(b)
                 THEN /\ used' = UsedRecycled(next.slot, u)
                      /\ meta' = MetaRecycled(next.slot, u, ms)
                 ELSE used' = u /\ meta' = ms
              /\ UNCHANGED fault
      /\ avail' = avail + PagesBack(b) + Len(meta) - Len(meta')
      /\ UNCHANGED <<tables, lost>>

-----------------------------------------------------------------------------
(* Properties *)

Owners(v) ==
  Cardinality({k \in DOMAIN free : v \in Span(free[k])})
    + Cardinality({b \in blocks : v \in Span(b)})

(* No page of the heap is lost or given out twice, when regions are split  *)
(* and merged and when memory runs out in the middle of a block: every     *)
(* virtual page is in one free region or in one block (until a slot is     *)
(* used twice, or free() finds no slot), and only pages of blocks are      *)
(* mapped.  A block has its pages, but for the last one if there was no    *)
(* memory for that one's page table.  Every physical page is on the list,  *)
(* mapped, a page table, a metadata page, or one that map_kernel_page()    *)
(* failed to map.                                                          *)
PagesAccounted ==
  /\ fault \in {"none", "null"} =>
       /\ \A v \in Pages : Owners(v) = 1
       /\ \A b \in blocks : \A v \in Span(b) \ mapped :
            /\ v = b.base + b.pages - 1 /\ b.pages > 1
            /\ v \div NPTENTRIES # (v - 1) \div NPTENTRIES /\ lost > 0
  /\ mapped \subseteq UNION {Span(b) : b \in blocks}
  /\ avail + Cardinality(mapped) + Cardinality(tables) + Len(meta) + lost = PHYS
=============================================================================
