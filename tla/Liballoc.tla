------------------------------ MODULE Liballoc ------------------------------
(***************************************************************************)
(* The kernel heap (vm/liballoc.c) over its page allocator (Kheap).        *)
(*                                                                         *)
(* A major block is a run of heap pages that begins with its header; it    *)
(* holds minor blocks, sorted by address, each a header and the memory of  *)
(* one request.  The doubly linked lists are sequences.  liballoc_lock()   *)
(* is empty and the only caller is main(), on one processor, so a call is  *)
(* one step; kheap_realloc(), which allocates and then frees, is two.      *)
(* Clients free only what they were given.                                 *)
(***************************************************************************)
EXTENDS Kheap

CONSTANTS l_pageSize,   \* bytes of a page
          l_pageCount,  \* least number of pages of a major block
          MAJOR,        \* sizeof(struct liballoc_major)
          MINOR,        \* sizeof(struct liballoc_minor)
          ALIGNMENT,
          ALIGN_INFO,
          ReqSizes,     \* bound of the model: sizes that clients ask for
          MaxBlocks     \* bound of the model: blocks that clients hold

VARIABLES majors,     \* from l_memRoot: [base, pages, usage, minors]
          l_bestBet,  \* base of a major block, or None
          moving      \* address of the block kheap_realloc() still frees

heapVars == <<majors, l_bestBet, moving>>
allVars == <<vars, heapVars>>

None == 0 - 1

HeapInit == Init /\ majors = <<>> /\ l_bestBet = None /\ moving = None

Start(mj) == mj.base * l_pageSize
Room(mj) == mj.pages * l_pageSize - mj.usage
Size(req) == req + ALIGNMENT + ALIGN_INFO
Need(req) == Size(req) + MINOR

Minors == UNION {Range(majors[i].minors) : i \in DOMAIN majors}

(* ALIGN(): where the client's memory begins in a minor block. *)
Align(q) == LET p == q + ALIGN_INFO
                diff == p % ALIGNMENT
            IN  IF diff # 0 THEN p + ALIGNMENT - diff ELSE p
Pointer(min) == Align(min.addr + MINOR)

(* The pages of the bytes from a to z. *)
PagesOf(a, z) == (a \div l_pageSize)..(z \div l_pageSize)

-----------------------------------------------------------------------------
(* kheap_malloc() *)

(* Mutant: CASE 4.1 forgets the header of the last minor block. *)
GapStartNoHeader(mj, k) == IF k = 0 THEN Start(mj) + MAJOR
                           ELSE mj.minors[k].addr + mj.minors[k].size

(* Gap k lies after the k-th minor block. *)
GapStart(mj, k) == IF k = 0 THEN Start(mj) + MAJOR
                   ELSE mj.minors[k].addr + MINOR + mj.minors[k].size
GapEnd(mj, k) == IF k = Len(mj.minors) THEN Start(mj) + mj.pages * l_pageSize
                 ELSE mj.minors[k + 1].addr
Gaps(mj, req) == {k \in 0..Len(mj.minors) : GapEnd(mj, k) - GapStart(mj, k) >= Need(req)}

(* CASES 2, 3, 4.1 and 4.2: a new minor block at the start of gap k. *)
Placed(mj, k, req) ==
  [mj EXCEPT !.usage = @ + Need(req),
             !.minors = InsertAt(@, k + 1, [addr |-> GapStart(mj, k), size |-> Size(req),
                                            req |-> req])]

(* The majors that are looked at, in order: from the best bet on if it     *)
(* has room, then all of them.                                             *)
Bet == SelectInSeq(majors, LAMBDA mj : mj.base = l_bestBet)
BetSize == IF l_bestBet = None THEN 0 ELSE Room(majors[Bet])
Scan(req) ==
  (IF BetSize > Need(req) THEN [i \in 1..(Len(majors) - Bet + 1) |-> Bet + i - 1] ELSE <<>>)
    \o [i \in 1..Len(majors) |-> i]

(* CASES 1 and 5: not enough room, or not in one piece. *)
Hit(req) == SelectInSeq(Scan(req), LAMBDA i : Room(majors[i]) >= Need(req)
                                              /\ Gaps(majors[i], req) # {})

(* l_bestBet once the majors of s were looked at. *)
BetAfter(s) ==
  FoldLeft(LAMBDA b, mj : IF Room(mj) > b.room THEN [base |-> mj.base, room |-> Room(mj)] ELSE b,
           [base |-> l_bestBet, room |-> BetSize], s).base
Visited(idx) == [i \in DOMAIN idx |-> majors[idx[i]]]

(* allocate_new_page() *)
NewPages(req) ==
  LET st == Size(req) + MAJOR + MINOR
  IN  Max({l_pageCount, (st + l_pageSize - 1) \div l_pageSize})
NewMajor(b, n) == [base |-> b, pages |-> n, usage |-> MAJOR, minors |-> <<>>]

(* The new block is looked at, and so may become the best bet, unless it   *)
(* was made because the last one had no room (CASE 1).                     *)
Looked(mj, req) ==
  IF majors = <<>> \/ Room(Last(majors)) >= Need(req) THEN <<mj>> ELSE <<>>

(* The header of a minor block in gap k is written to memory; the last     *)
(* page of the major block may not be mapped.                              *)
HeaderFault(k, mj) ==
  LET a == GapStart(mj, k)
  IN  IF PagesOf(a, Align(a + MINOR) - 1) \subseteq mapped THEN "none" ELSE "trap"

kheap_malloc(req) ==
  LET s == Scan(req)
      hit == Hit(req)
      n == NewPages(req)
      new == NewMajor(free[Fit(n)].base, n)
  IN  /\ fault = "none" /\ moving = None /\ Cardinality(Minors) < MaxBlocks
      /\ \/ /\ hit # 0
            /\ majors' = [majors EXCEPT ![s[hit]] = Placed(@, Min(Gaps(@, req)), req)]
            /\ l_bestBet' = BetAfter(Visited(SubSeq(s, 1, hit)))
            /\ fault' = HeaderFault(Min(Gaps(majors[s[hit]], req)), majors[s[hit]])
            /\ UNCHANGED pageVars
         \/ /\ hit = 0 /\ Fit(n) # 0
            /\ Alloc(n)
            /\ majors' = Append(majors, Placed(new, 0, req))
            /\ l_bestBet' = BetAfter(Visited(s) \o Looked(new, req))

(* No heap pages: NULL. *)
OutOfMemory(req) == moving = None /\ Hit(req) = 0 /\ Fit(NewPages(req)) = 0

MallocFails(req) ==
  /\ fault = "none"
  /\ OutOfMemory(req)
  /\ l_bestBet' = BetAfter(Visited(Scan(req)))
  /\ UNCHANGED <<vars, majors, moving>>

Malloc(req) == kheap_malloc(req) /\ UNCHANGED moving

(* kheap_calloc() and kheap_realloc() write through the NULL. *)
NullWrite(req) ==
  /\ fault = "none"
  /\ OutOfMemory(req)
  /\ fault' = "null"
  /\ l_bestBet' = BetAfter(Visited(Scan(req)))
  /\ UNCHANGED <<pageVars, majors, moving>>

(* A client writes to the memory it was given, as the loops of             *)
(* kheap_calloc() and kheap_realloc() do, and the page is not mapped.      *)
ClientTrap(min) ==
  /\ fault = "none"
  /\ ~(PagesOf(Pointer(min), Pointer(min) + min.req - 1) \subseteq mapped)
  /\ fault' = "trap"
  /\ UNCHANGED <<pageVars, heapVars>>

-----------------------------------------------------------------------------
(* kheap_free() and kheap_realloc() *)

(* Mutant: l_bestBet keeps a block that was given back. *)
FreedBetKept(mj) ==
  IF mj.minors = <<>> THEN l_bestBet
  ELSE IF l_bestBet # None /\ Room(mj) > BetSize THEN mj.base ELSE l_bestBet

(* l_bestBet when the major block has become mj. *)
FreedBet(mj) ==
  IF mj.minors = <<>> THEN IF l_bestBet = mj.base THEN None ELSE l_bestBet
  ELSE IF l_bestBet # None /\ Room(mj) > BetSize THEN mj.base ELSE l_bestBet

kheap_free(a) ==
  \E i \in DOMAIN majors :
    \E k \in DOMAIN majors[i].minors :
      LET min == majors[i].minors[k]
          mj == [majors[i] EXCEPT !.usage = @ - (min.size + MINOR), !.minors = RemoveAt(@, k)]
      IN  /\ fault = "none"
          /\ min.addr = a
          /\ l_bestBet' = FreedBet(mj)
          /\ IF mj.minors = <<>>
             THEN majors' = RemoveAt(majors, i) /\ FreeBlock([base |-> mj.base, pages |-> mj.pages])
             ELSE majors' = [majors EXCEPT ![i] = mj] /\ UNCHANGED vars

Free(min) == moving = None /\ kheap_free(min.addr) /\ UNCHANGED moving

(* The block stays when the request is not larger than the last one. *)
ReallocInPlace(min, req) ==
  /\ fault = "none" /\ moving = None
  /\ req < min.req
  /\ \E i \in DOMAIN majors : \E k \in DOMAIN majors[i].minors :
       /\ majors[i].minors[k] = min
       /\ majors' = [majors EXCEPT ![i].minors[k].req = req]
  /\ UNCHANGED <<vars, l_bestBet, moving>>

ReallocMoves(min, req) ==
  /\ req > min.req
  /\ kheap_malloc(req)
  /\ moving' = min.addr

ReallocFrees == moving # None /\ kheap_free(moving) /\ moving' = None

HeapNext ==
  \/ \E req \in ReqSizes : Malloc(req) \/ MallocFails(req) \/ NullWrite(req)
  \/ \E min \in Minors : Free(min) \/ ClientTrap(min)
  \/ \E min \in Minors, req \in ReqSizes : ReallocInPlace(min, req) \/ ReallocMoves(min, req)
  \/ ReallocFrees

HeapSpec == HeapInit /\ [][HeapNext]_allVars

-----------------------------------------------------------------------------
(* Properties *)

Bytes(min) == min.addr..(min.addr + MINOR + min.size - 1)

(* The memory that clients hold is aligned, lies between the header and    *)
(* the end of its own minor block, and minor blocks overlap neither each   *)
(* other nor the header of their major block, nor leave its pages.         *)
MemoryDisjoint ==
  fault = "none" =>
    /\ \A i, j \in DOMAIN majors :
         \A k \in DOMAIN majors[i].minors, l \in DOMAIN majors[j].minors :
           <<i, k>> # <<j, l>> => Bytes(majors[i].minors[k]) \cap Bytes(majors[j].minors[l]) = {}
    /\ \A i \in DOMAIN majors : \A k \in DOMAIN majors[i].minors :
         LET mj == majors[i]
             min == mj.minors[k]
         IN  /\ Bytes(min) \subseteq (Start(mj) + MAJOR)..(Start(mj) + mj.pages * l_pageSize - 1)
             /\ Pointer(min) % ALIGNMENT = 0
             /\ Pointer(min) >= min.addr + MINOR + ALIGN_INFO
             /\ Pointer(min) + min.req <= min.addr + MINOR + min.size

(* The majors are exactly the blocks taken from the page allocator and not *)
(* given back; usage counts what is in them, an empty one is given back,   *)
(* and l_bestBet never points to one that is gone.                         *)
MajorsCounted ==
  fault = "none" =>
    /\ {[base |-> majors[i].base, pages |-> majors[i].pages] : i \in DOMAIN majors} = blocks
    /\ \A i \in DOMAIN majors :
         /\ majors[i].minors # <<>>
         /\ majors[i].usage = MAJOR + FoldLeft(LAMBDA n, min : n + min.size + MINOR, 0,
                                               majors[i].minors)
    /\ l_bestBet = None \/ Bet # 0
=============================================================================
