----------------------------- MODULE PercpuPool -----------------------------
(***************************************************************************)
(* One per-CPU memory pool of rseq-percpu-alloc.c, used by several client  *)
(* threads: __rseq_percpu_malloc (malloc and zmalloc), rseq_percpu_free    *)
(* and the application's accesses through __rseq_percpu_ptr.              *)
(*                                                                         *)
(* The pool reserves PercpuLen bytes per CPU for MaxNrCpus CPUs.  An item *)
(* is identified by its offset within a CPU's range; the item exists once *)
(* per CPU.  Freed items are chained in an intrusive NULL-terminated list *)
(* whose links are stored in the item's CPU 0 copy, so the list is read   *)
(* from the pool memory "mem", which the application also writes.        *)
(*                                                                         *)
(* pool->lock serialises malloc and free: each critical section is one    *)
(* atomic step.  zmalloc clears the item on every CPU after unlocking,    *)
(* one CPU per step, so those steps interleave with other threads.        *)
(*                                                                         *)
(* rseq_percpu_pool_init_numa moves each page of each CPU's range to the   *)
(* NUMA node of that CPU with one move_pages(2) call per page.  A page of  *)
(* the anonymous mapping is in memory only once it was first written, on  *)
(* the node of whichever CPU the writing thread ran on; the kernel's       *)
(* answers to move_pages are chosen among those its manual page lists.     *)
(***************************************************************************)
EXTENDS Integers, SequencesExt

CONSTANTS
  Threads,      \* client threads
  ItemLen,      \* pool->item_len, a power of two
  PercpuLen,    \* pool->percpu_len, page aligned, ItemLen <= PercpuLen
  MaxNrCpus,    \* pool->max_nr_cpus
  Robust,       \* the pool was created with RSEQ_POOL_ROBUST
  BitsPerLong,  \* width of unsigned long
  IntBits,      \* width of int
  Null,         \* NULL pointer; also what zero-filled memory reads as
  AppData,      \* a non-zero value written by the application
  PageLen,      \* rseq_get_page_len(), a power of two dividing PercpuLen
  Nodes,        \* the NUMA nodes
  NodeOf,       \* NodeOf[c]: numa_node_of_cpu(c)
  NumaThreads   \* the threads that call rseq_percpu_pool_init_numa

ASSUME ItemLen \in Nat \ {0} /\ PercpuLen % ItemLen = 0 /\ ItemLen <= PercpuLen
ASSUME MaxNrCpus \in Nat \ {0} /\ Robust \in BOOLEAN
ASSUME PercpuLen % PageLen = 0 /\ NodeOf \in [0 .. MaxNrCpus - 1 -> Nodes]
ASSUME NumaThreads \subseteq Threads

NrItems == PercpuLen \div ItemLen
Offsets == {k * ItemLen : k \in 0 .. NrItems - 1}
Cpus    == 0 .. MaxNrCpus - 1

(* item_offset >> pool->item_order *)
Index(o) == o \div ItemLen

(* nr_pages = percpu_len >> rseq_get_count_order_ulong(page_len), and the  *)
(* page of a CPU's range that holds offset o.                              *)
NrPages   == PercpuLen \div PageLen
Pages     == 0 .. NrPages - 1
PageOf(o) == o \div PageLen

VARIABLES
  freeListHead, \* pool->free_list_head: the CPU 0 offset of a node, or Null
  nextUnused,   \* pool->next_unused
  freeBitmap,   \* pool->free_bitmap (see FreeBitmap)
  mem,          \* mem[c][o]: the word at offset o of CPU c's range
  held,         \* held[t]: offsets of the items thread t owns
  pc,           \* "idle", or "zeroing" inside rseq_percpu_zero_item
  zeroItem,     \* the item zmalloc is clearing (its item_offset)
  zeroCpu,      \* the loop index i of rseq_percpu_zero_item
  ret,          \* ret[t]: what thread t's last malloc returned
  status,       \* "running", or "mask"/"unmask" after a failed assert()
  pageNode,     \* pageNode[c][pg]: the node holding page pg of CPU c's
                \* range, or Null while it was never written
  numaCpu,      \* the loop indexes cpu and page of init_numa
  numaPage,
  numaOk        \* some init_numa call has returned 0 (history variable
                \* for NumaPlacesPages; the code keeps no such flag)

vars == <<freeListHead, nextUnused, freeBitmap, mem, held, pc, zeroItem,
          zeroCpu, ret, status, pageNode, numaCpu, numaPage, numaOk>>

numaVars == <<numaCpu, numaPage, numaOk>>

BM == INSTANCE FreeBitmap WITH Items <- 0 .. NrItems - 1,
        bitmap <- freeBitmap, inUse <- {}, status <- status

(* The items thread t owns: returned to it, or being zeroed for it.        *)
Owned(t) == held[t] \cup (IF pc[t] = "zeroing" THEN {zeroItem[t]} ELSE {})

(* Items handed out at least once: [0, next_unused).                       *)
HandedOut == {o \in Offsets : o < nextUnused}

(* The end of a successful __rseq_percpu_malloc once the lock is dropped:  *)
(* malloc returns the item; zmalloc first enters rseq_percpu_zero_item.   *)
MallocReturn(t, zeroed, o) ==
  IF zeroed
    THEN /\ pc' = [pc EXCEPT ![t] = "zeroing"]
         /\ zeroItem' = [zeroItem EXCEPT ![t] = o]
         /\ zeroCpu' = [zeroCpu EXCEPT ![t] = 0]
         /\ UNCHANGED <<held, ret>>
    ELSE /\ held' = [held EXCEPT ![t] = @ \cup {o}]
         /\ ret' = [ret EXCEPT ![t] = o]
         /\ UNCHANGED <<pc, zeroItem, zeroCpu>>

(* A store to offset o of CPU c's range: the first one faults the page in, *)
(* on the node of the CPU the storing thread happens to run on.            *)
FirstTouch(c, o) ==
  IF pageNode[c][PageOf(o)] = Null
    THEN \E n \in Nodes : pageNode' = [pageNode EXCEPT ![c][PageOf(o)] = n]
    ELSE UNCHANGED pageNode

-----------------------------------------------------------------------------
(* Mutations: plausible coding errors in the definitions below.  Each one  *)
(* makes a property checked by MCPercpuPool fail (see PROJECT.json).       *)

MallocFromFreeListKeepHead(t, zeroed) ==
  /\ freeListHead /= Null
  /\ MallocReturn(t, zeroed, freeListHead)
  /\ UNCHANGED <<freeListHead, nextUnused, freeBitmap, status>>

MallocNoMemOffByOne(t) ==
  /\ freeListHead = Null
  /\ nextUnused + ItemLen >= PercpuLen
  /\ ret' = [ret EXCEPT ![t] = Null]
  /\ UNCHANGED <<freeListHead, nextUnused, freeBitmap, mem, held, pc,
                 zeroItem, zeroCpu, status>>

FreeNoLink(t, o) ==
  /\ freeListHead' = o
  /\ held' = [held EXCEPT ![t] = @ \ {o}]
  /\ UNCHANGED <<mem, pageNode>>

MallocBumpNoBound(t, zeroed) ==
  /\ freeListHead = Null
  /\ nextUnused' = nextUnused + ItemLen
  /\ freeBitmap' = BM!MaskFreeSlot(freeBitmap, Index(nextUnused))
  /\ MallocReturn(t, zeroed, nextUnused)
  /\ UNCHANGED <<freeListHead, mem, status>>

ZeroCpuSkipCpu0(t) ==
  /\ zeroCpu[t] < MaxNrCpus
  /\ mem' = IF zeroCpu[t] = 0 THEN mem
            ELSE [mem EXCEPT ![zeroCpu[t]][zeroItem[t]] = Null]
  /\ IF zeroCpu[t] = 0 THEN UNCHANGED pageNode ELSE FirstTouch(zeroCpu[t], zeroItem[t])
  /\ zeroCpu' = [zeroCpu EXCEPT ![t] = @ + 1]

-----------------------------------------------------------------------------
(* Pop the head of the free list: its next link is read from CPU 0.        *)
MallocFromFreeList(t, zeroed) ==
  /\ freeListHead /= Null
  /\ freeListHead' = mem[0][freeListHead]
  /\ MallocReturn(t, zeroed, freeListHead)
  /\ UNCHANGED <<nextUnused, freeBitmap, status>>

(* Free list empty and no room left for another item: ENOMEM, NULL.        *)
MallocNoMem(t) ==
  /\ freeListHead = Null
  /\ nextUnused + ItemLen > PercpuLen
  /\ ret' = [ret EXCEPT ![t] = Null]
  /\ UNCHANGED <<freeListHead, nextUnused, freeBitmap, mem, held, pc,
                 zeroItem, zeroCpu, status>>

(* Take a never used item at next_unused and mark it in the bitmap.        *)
MallocBump(t, zeroed) ==
  /\ freeListHead = Null
  /\ nextUnused + ItemLen <= PercpuLen
  /\ nextUnused' = nextUnused + ItemLen
  /\ IF BM!MaskFreeSlotOk(freeBitmap, Index(nextUnused))
       THEN /\ freeBitmap' = BM!MaskFreeSlot(freeBitmap, Index(nextUnused))
            /\ MallocReturn(t, zeroed, nextUnused)
            /\ UNCHANGED status
       ELSE /\ status' = "mask"
            /\ UNCHANGED <<freeBitmap, held, pc, zeroItem, zeroCpu, ret>>
  /\ UNCHANGED <<freeListHead, mem>>

(* __rseq_percpu_malloc(pool, zeroed): the critical section under          *)
(* pool->lock.                                                             *)
Malloc(t, zeroed) ==
  /\ status = "running"
  /\ pc[t] = "idle"
  /\ \/ MallocFromFreeList(t, zeroed)
     \/ MallocNoMem(t)
     \/ MallocBump(t, zeroed)
  /\ UNCHANGED <<mem, pageNode>>

(* One iteration of rseq_percpu_zero_item: memset the item on one CPU.     *)
ZeroCpu(t) ==
  /\ zeroCpu[t] < MaxNrCpus
  /\ mem' = [mem EXCEPT ![zeroCpu[t]][zeroItem[t]] = Null]
  /\ FirstTouch(zeroCpu[t], zeroItem[t])
  /\ zeroCpu' = [zeroCpu EXCEPT ![t] = @ + 1]

(* The loop over the CPUs, then the return of zmalloc.                     *)
ZeroItem(t) ==
  /\ status = "running"
  /\ pc[t] = "zeroing"
  /\ \/ /\ ZeroCpu(t)
        /\ UNCHANGED <<freeListHead, nextUnused, freeBitmap, held, pc,
                       zeroItem, ret, status>>
     \/ /\ zeroCpu[t] = MaxNrCpus
        /\ held' = [held EXCEPT ![t] = @ \cup {zeroItem[t]}]
        /\ ret' = [ret EXCEPT ![t] = zeroItem[t]]
        /\ pc' = [pc EXCEPT ![t] = "idle"]
        /\ zeroItem' = [zeroItem EXCEPT ![t] = Null]
        /\ zeroCpu' = [zeroCpu EXCEPT ![t] = 0]
        /\ UNCHANGED <<freeListHead, nextUnused, freeBitmap, mem, status,
                       pageNode>>

(* Push item o on the free list: its CPU 0 copy becomes the new head       *)
(* node, linked to the old head.                                           *)
FreeLink(t, o) ==
  /\ mem' = [mem EXCEPT ![0][o] = freeListHead]
  /\ FirstTouch(0, o)
  /\ freeListHead' = o
  /\ held' = [held EXCEPT ![t] = @ \ {o}]

(* rseq_percpu_free(ptr): under pool->lock, unmask the item in the bitmap, *)
(* then push it on the free list.                                          *)
Free(t, o) ==
  /\ status = "running"
  /\ pc[t] = "idle"
  /\ o \in held[t]
  /\ \E mask \in BM!UnmaskMasks(Index(o)) :
       IF BM!UnmaskFreeSlotOk(freeBitmap, Index(o), mask)
         THEN /\ freeBitmap' = BM!UnmaskFreeSlot(freeBitmap, Index(o), mask)
              /\ FreeLink(t, o)
              /\ UNCHANGED status
         ELSE /\ status' = "unmask"
              /\ UNCHANGED <<freeBitmap, freeListHead, mem, held, pageNode>>
  /\ UNCHANGED <<nextUnused, pc, zeroItem, zeroCpu, ret>>

(* The application stores into CPU c's copy of an item it owns, at the     *)
(* address __rseq_percpu_ptr(ptr, c) = base + percpu_len * c + offset.    *)
Write(t, o, c) ==
  /\ status = "running"
  /\ pc[t] = "idle" /\ o \in held[t]
  /\ mem' = [mem EXCEPT ![c][o] = AppData]
  /\ FirstTouch(c, o)
  /\ UNCHANGED <<freeListHead, nextUnused, freeBitmap, held, pc, zeroItem,
                 zeroCpu, ret, status>>

(* rseq_percpu_pool_init_numa(pool, numa_flags) with numa_flags /= 0 (with *)
(* 0 it returns 0 at once, a stuttering step): the loops start at CPU 0,  *)
(* page 0.                                                                 *)
InitNuma(t) ==
  /\ status = "running" /\ pc[t] = "idle" /\ t \in NumaThreads
  /\ pc' = [pc EXCEPT ![t] = "numa"]
  /\ numaCpu' = [numaCpu EXCEPT ![t] = 0]
  /\ numaPage' = [numaPage EXCEPT ![t] = 0]
  /\ UNCHANGED <<freeListHead, nextUnused, freeBitmap, mem, held, zeroItem,
                 zeroCpu, ret, status, pageNode, numaOk>>

(* What move_pages(0, 1, &pageptr, &node, &status, numa_flags) can do to   *)
(* page pg of CPU c, as ret and the page's node afterwards: -1 on a call   *)
(* error (ENOMEM, ...); 0 with the page left where it is and the error in *)
(* status (ENOENT for a page not in memory, EBUSY, ENOMEM); for a page in *)
(* memory, 0 with the page moved to the node, or the positive number of    *)
(* pages not migrated.                                                     *)
MovePagesResults(c, pg) ==
  LET here == pageNode[c][pg] IN
  {[ret |-> -1, node |-> here], [ret |-> 0, node |-> here]}
    \cup (IF here = Null THEN {}
          ELSE {[ret |-> 0, node |-> NodeOf[c]], [ret |-> 1, node |-> here]})

(* One iteration of the inner loop: move_pages for the page, then return  *)
(* ret if it is not 0 (status is never read), else the next page, or page *)
(* 0 of the next CPU.                                                      *)
MovePage(t) ==
  /\ status = "running" /\ pc[t] = "numa"
  /\ numaCpu[t] < MaxNrCpus
  /\ LET c == numaCpu[t]
         pg == numaPage[t]
     IN \E r \in MovePagesResults(c, pg) :
          /\ pageNode' = [pageNode EXCEPT ![c][pg] = r.node]
          /\ IF r.ret /= 0
               THEN /\ pc' = [pc EXCEPT ![t] = "idle"]
                    /\ UNCHANGED <<numaCpu, numaPage>>
               ELSE /\ numaPage' = [numaPage EXCEPT ![t] = (pg + 1) % NrPages]
                    /\ numaCpu' = [numaCpu EXCEPT ![t] =
                                      IF pg + 1 = NrPages THEN c + 1 ELSE c]
                    /\ UNCHANGED pc
  /\ UNCHANGED <<freeListHead, nextUnused, freeBitmap, mem, held, zeroItem,
                 zeroCpu, ret, status, numaOk>>

(* Every page of every CPU went through move_pages with ret 0: return 0.  *)
NumaReturn(t) ==
  /\ status = "running" /\ pc[t] = "numa"
  /\ numaCpu[t] = MaxNrCpus
  /\ pc' = [pc EXCEPT ![t] = "idle"]
  /\ numaOk' = TRUE
  /\ UNCHANGED <<freeListHead, nextUnused, freeBitmap, mem, held, zeroItem,
                 zeroCpu, ret, status, pageNode, numaCpu, numaPage>>

Init ==
  /\ freeListHead = Null
  /\ nextUnused = 0
  /\ freeBitmap \in IF Robust THEN BM!CreateFreeBitmap ELSE {Null}
  \* a fresh anonymous mapping is zero-filled
  /\ mem = [c \in Cpus |-> [o \in Offsets |-> Null]]
  /\ held = [t \in Threads |-> {}]
  /\ pc = [t \in Threads |-> "idle"]
  /\ zeroItem = [t \in Threads |-> Null]
  /\ zeroCpu = [t \in Threads |-> 0]
  /\ ret = [t \in Threads |-> Null]
  /\ status = "running"
  \* no page of a fresh anonymous mapping is in memory
  /\ pageNode = [c \in Cpus |-> [pg \in Pages |-> Null]]
  /\ numaCpu = [t \in Threads |-> 0]
  /\ numaPage = [t \in Threads |-> 0]
  /\ numaOk = FALSE

Next ==
  \E t \in Threads :
    \/ /\ \/ \E zeroed \in BOOLEAN : Malloc(t, zeroed)
          \/ ZeroItem(t)
          \/ \E o \in Offsets : Free(t, o)
          \/ \E o \in Offsets, c \in Cpus : Write(t, o, c)
       /\ UNCHANGED numaVars
    \/ InitNuma(t) \/ MovePage(t) \/ NumaReturn(t)

Spec == Init /\ [][Next]_vars

-----------------------------------------------------------------------------
(* The free list as read from memory: the nodes from the head, following  *)
(* the CPU 0 links, up to and including the first value that is not an   *)
(* unvisited item (Null at the end of a sound list).                      *)
RECURSIVE Walk(_, _)
Walk(p, seen) ==
  IF p \in Offsets \ seen THEN Cons(p, Walk(mem[0][p], seen \cup {p}))
                          ELSE <<p>>

FreeWalk  == Walk(freeListHead, {})
FreeItems == ToSet(Front(FreeWalk))

TypeOK ==
  /\ freeListHead \in Offsets \cup {Null}
  /\ nextUnused \in 0 .. PercpuLen
  /\ mem \in [Cpus -> [Offsets -> Offsets \cup {Null, AppData}]]
  /\ held \in [Threads -> SUBSET Offsets]
  /\ pc \in [Threads -> {"idle", "zeroing", "numa"}]
  /\ zeroItem \in [Threads -> Offsets \cup {Null}]
  /\ zeroCpu \in [Threads -> 0 .. MaxNrCpus]
  /\ ret \in [Threads -> Offsets \cup {Null}]
  /\ status \in {"running", "mask", "unmask"}
  /\ pageNode \in [Cpus -> [Pages -> Nodes \cup {Null}]]
  /\ numaCpu \in [Threads -> 0 .. MaxNrCpus]
  /\ numaPage \in [Threads -> Pages]

(* The free list kept in the CPU 0 copies of the items is intact: however *)
(* the application writes the items it owns and however zmalloc clears   *)
(* them after unlocking, following the links from free_list_head reaches *)
(* NULL through items that were handed out, never through data.          *)
FreeListSound ==
  /\ Last(FreeWalk) = Null
  /\ FreeItems \subseteq HandedOut

(* Every item handed out is in exactly one place: on the free list, or    *)
(* owned by exactly one thread.  No item is given to two threads, none is *)
(* lost, and none beyond next_unused is in use.                           *)
EveryItemOnce ==
  /\ \A t \in Threads : Owned(t) \subseteq HandedOut
  /\ \A o \in HandedOut :
       Quantify(Threads, LAMBDA t : o \in Owned(t))
         + (IF o \in FreeItems THEN 1 ELSE 0) = 1

(* zmalloc returns memory that reads as zero on every CPU, also when the  *)
(* item is recycled from the free list and its CPU 0 copy held a link or *)
(* the previous owner's data.                                             *)
ZmallocReturnsZeroed ==
  [][\A t \in Threads :
       (pc[t] = "zeroing" /\ pc'[t] = "idle") =>
         \A c \in Cpus : mem[c][zeroItem[t]] = Null]_vars

(* The pool implements the abstract allocator of PoolAllocator: each item *)
(* belongs to at most one thread, and malloc fails with ENOMEM only when  *)
(* every item of the pool is allocated.                                   *)
Alloc == INSTANCE PoolAllocator WITH
           Slots <- Offsets,
           allocated <- [t \in Threads |-> Owned(t)],
           result <- [t \in Threads |->
                        IF pc[t] = "zeroing" THEN zeroItem[t] ELSE ret[t]]

AllocatorRefinement == Alloc!Spec

(* In a robust pool, clients that free only the items they own, once each, *)
(* never make mask_free_slot or unmask_free_slot fail their assert(): the *)
(* robust checks report no double free that did not happen.               *)
NoSpuriousAbort == status = "running"

(* mempool.h: init_numa moves the pages of the pool to the NUMA node of   *)
(* their CPU, and returns -1 when move_pages fails.  So once a call has   *)
(* returned 0, every page of the pool in memory is on its CPU's node.     *)
NumaPlacesPages ==
  numaOk => \A c \in Cpus, pg \in Pages :
              pageNode[c][pg] /= Null => pageNode[c][pg] = NodeOf[c]
=============================================================================
