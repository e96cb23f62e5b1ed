---------------------------- MODULE PoolDirectory ----------------------------
(***************************************************************************)
(* The process-wide pool directory of rseq-percpu-alloc.c and the handles  *)
(* it gives meaning to: rseq_percpu_pool_create and                        *)
(* rseq_percpu_pool_destroy under pool_lock, the handle encoding           *)
(* (pool->index << POOL_INDEX_SHIFT) | item_offset made by                 *)
(* __rseq_percpu_malloc, and its decoding by rseq_percpu_free.             *)
(*                                                                         *)
(* Every directory operation runs under pool_lock and is one step.  The   *)
(* inside of a pool is abstracted to the items it has handed out: a pool  *)
(* hands out any item it does not hold and fails with ENOMEM only when    *)
(* all are out, which is what PercpuPool is checked to implement (the     *)
(* AllocatorRefinement property).                                         *)
(*                                                                         *)
(* The word widths are scaled down: PoolIndexShift stands for             *)
(* RSEQ_BITS_PER_LONG - POOL_INDEX_BITS and PageLen for the page size, so *)
(* that handles stay small integers; the arithmetic is the code's.        *)
(*                                                                         *)
(* The mapping backend is the environment.  The default mmap fails for a  *)
(* zero length (mmap(2) returns EINVAL) and may fail with ENOMEM; default *)
(* munmap of a live mapping succeeds.  A caller-supplied backend may      *)
(* return a mapping of any length, and its munmap may fail.               *)
(***************************************************************************)
EXTENDS Integers, FiniteSetsExt, Bitwise

CONSTANTS
  Clients,        \* threads that create, use and destroy pools
  PoolIndexBits,  \* POOL_INDEX_BITS
  PoolIndexShift, \* POOL_INDEX_SHIFT
  PageLen,        \* rseq_get_page_len(), a power of two
  PtrSize,        \* sizeof(void *)
  ItemLenArgs,    \* item_len arguments clients pass to create
  PercpuLenArgs,  \* percpu_len arguments
  MaxNrCpusArgs,  \* max_nr_cpus arguments
  FlagArgs,       \* flags arguments, as sets of flag names
  MaxHandles,     \* bound on the handles a client holds at once
  CustomBackend,  \* pools are created with a caller-supplied mmap_attr
  Null,           \* NULL
  Base            \* the base address of a live mapping

MAX_NR_POOLS == 2^PoolIndexBits
MAX_POOL_LEN == 2^PoolIndexShift
FIRST_POOL   == 1
BITS_PER_LONG == PoolIndexBits + PoolIndexShift   \* width of size_t
POOL_SET_NR_ENTRIES == PoolIndexShift
POOL_SET_MIN_ENTRY == IF BITS_PER_LONG = 64 THEN 3 ELSE 2
Orders == 0 .. POOL_SET_NR_ENTRIES - 1
Slots        == 0 .. MAX_NR_POOLS - 1

(* RSEQ_POOL_FLAGS: the only flag create accepts. *)
RSEQ_POOL_FLAGS == {"robust"}

(* The directory entry of a slot nobody uses: memset(pool, 0, ...).        *)
ZeroPool == [base |-> Null, index |-> 0, item_len |-> 0, item_order |-> 0,
             percpu_len |-> 0, max_nr_cpus |-> 0, mapped |-> 0]

VARIABLES
  pool,       \* pool[i]: the fields of rseq_percpu_pool[i] create/destroy set
  allocated,  \* allocated[i]: offsets of the items pool i has handed out
  owned,      \* owned[c]: slots of the pools c created and has not destroyed
  handles,    \* handles[c]: what c's mallocs returned and c has not freed,
              \* as [pool, offset, handle] records
  poolSet,    \* "none" or "live": the calloc'd rseq_percpu_pool_set
  entries     \* entries[o]: pool_set->entries[o], a slot or Null

vars == <<pool, allocated, owned, handles, poolSet, entries>>

(* The slots of the pools the set holds.                                   *)
SetSlots == {entries[o] : o \in {o \in Orders : entries[o] /= Null}}

(* rseq_get_count_order_ulong: the order of the next power of two, via    *)
(* fls(x - 1); -1 for 0.                                                  *)
RECURSIVE Fls(_)
Fls(x) == IF x = 0 THEN 0 ELSE 1 + Fls(x \div 2)
CountOrder(x) == IF x = 0 THEN -1 ELSE Fls(x - 1)

(* 1UL << n.  A shift by BITS_PER_LONG or more is undefined; x86-64 and  *)
(* AArch64 shift by n modulo the width.                                   *)
Shl1(n) == 2^(n % BITS_PER_LONG)

(* rseq_align(v, align) for a power-of-two align: round v up.              *)
Align(v, a) == ((v + a - 1) \div a) * a

(* The handle codec.                                                       *)
Encode(index, offset) == (index * MAX_POOL_LEN) | offset
HandleIndex(h)  == shiftR(h, PoolIndexShift)
HandleOffset(h) == h & (MAX_POOL_LEN - 1)

(* The items of pool i: [0, percpu_len) in steps of item_len.              *)
PoolOffsets(i) ==
  {k * pool[i].item_len : k \in 0 .. (pool[i].percpu_len \div pool[i].item_len) - 1}

(* The mapping backend's answers.                                          *)
MmapResults(len) == IF CustomBackend \/ len > 0 THEN BOOLEAN ELSE {FALSE}
MunmapResults    == IF CustomBackend THEN BOOLEAN ELSE {TRUE}

-----------------------------------------------------------------------------
(* Mutations: plausible coding errors in the definitions below.  Each one  *)
(* makes a property checked by MCPoolDirectory fail (see PROJECT.json).    *)

CreateParamsNoLenLimit(itemLen, percpuLen, nrCpus, flags) ==
  LET len   == IF itemLen < PtrSize THEN PtrSize ELSE itemLen
      order == CountOrder(len)
      plen  == Align(percpuLen, PageLen)
  IN IF \/ flags \ RSEQ_POOL_FLAGS /= {}
        \/ order < 0
        \/ nrCpus < 0 \/ Shl1(order) > plen
       THEN Null
       ELSE [item_len |-> Shl1(order), item_order |-> order, percpu_len |-> plen,
             max_nr_cpus |-> nrCpus]

CreateParamsNoCpuCheck(itemLen, percpuLen, nrCpus, flags) ==
  LET len   == IF itemLen < PtrSize THEN PtrSize ELSE itemLen
      order == CountOrder(len)
      plen  == Align(percpuLen, PageLen)
  IN IF \/ flags \ RSEQ_POOL_FLAGS /= {}
        \/ order < 0
        \/ Shl1(order) > plen
        \/ plen > MAX_POOL_LEN - 1
       THEN Null
       ELSE [item_len |-> Shl1(order), item_order |-> order, percpu_len |-> plen,
             max_nr_cpus |-> nrCpus]

EmptySlotsNoBaseCheck == FIRST_POOL .. MAX_NR_POOLS - 1

EmptySlotsFromZero == {i \in 0 .. MAX_NR_POOLS - 1 : pool[i].base = Null}

AddPoolNoBusyCheck(c, s) ==
  /\ poolSet = "live" /\ s \in owned[c]
  /\ entries' = [entries EXCEPT ![pool[s].item_order] = s]
  /\ owned' = [owned EXCEPT ![c] = @ \ {s}]
  /\ UNCHANGED <<pool, allocated, handles, poolSet>>

SetPoolsFromOrderUp ==
  {entries[o] : o \in {o \in POOL_SET_MIN_ENTRY + 1 .. POOL_SET_NR_ENTRIES - 1 :
                          entries[o] /= Null}}

-----------------------------------------------------------------------------
(* The argument checks of rseq_percpu_pool_create, made before pool_lock  *)
(* is taken: Null (EINVAL) or the pool geometry.                          *)
CreateParams(itemLen, percpuLen, nrCpus, flags) ==
  LET len   == IF itemLen < PtrSize THEN PtrSize ELSE itemLen
      order == CountOrder(len)
      plen  == Align(percpuLen, PageLen)
  IN IF \/ flags \ RSEQ_POOL_FLAGS /= {}
        \/ order < 0
        \/ nrCpus < 0 \/ Shl1(order) > plen
        \/ plen > MAX_POOL_LEN - 1
       THEN Null
       ELSE [item_len |-> Shl1(order), item_order |-> order, percpu_len |-> plen,
             max_nr_cpus |-> nrCpus]

(* The slots the linear scan from FIRST_POOL accepts: !pool->base.        *)
EmptySlots == {i \in FIRST_POOL .. MAX_NR_POOLS - 1 : pool[i].base = Null}

(* Under pool_lock: take the first empty slot (ENOMEM if none), map       *)
(* percpu_len * max_nr_cpus bytes (a failed mmap returns NULL and leaves  *)
(* the slot empty), then fill the entry.  The length is computed in      *)
(* size_t, with no overflow check, so it wraps modulo 2^BITS_PER_LONG.    *)
CreatePool(c, p) ==
  /\ EmptySlots /= {}
  /\ LET i   == Min(EmptySlots)
         len == (p.percpu_len * p.max_nr_cpus) % 2^BITS_PER_LONG IN
     \E ok \in MmapResults(len) :
       IF ok
         THEN /\ pool' = [pool EXCEPT ![i] =
                             [base |-> Base, index |-> i,
                              item_len |-> p.item_len, item_order |-> p.item_order,
                              percpu_len |-> p.percpu_len,
                              max_nr_cpus |-> p.max_nr_cpus, mapped |-> len]]
              /\ owned' = [owned EXCEPT ![c] = @ \cup {i}]
         ELSE UNCHANGED <<pool, owned>>

(* rseq_percpu_pool_create(item_len, percpu_len, max_nr_cpus, NULL or     *)
(* attr, flags).  The robust bitmap it may add is modelled by FreeBitmap. *)
Create(c, itemLen, percpuLen, nrCpus, flags) ==
  /\ LET p == CreateParams(itemLen, percpuLen, nrCpus, flags) IN
     IF p = Null THEN UNCHANGED <<pool, owned>>
                 ELSE CreatePool(c, p)
  /\ UNCHANGED <<allocated, handles, poolSet, entries>>

(* Under pool_lock, for a live pool: munmap the range; if that fails the  *)
(* entry stays; otherwise clear the entry.                                *)
DestroyPool(s) ==
  /\ pool[s].base /= Null
  /\ \E ok \in MunmapResults :
       IF ok THEN /\ pool' = [pool EXCEPT ![s] = ZeroPool]
                  /\ allocated' = [allocated EXCEPT ![s] = {}]
             ELSE UNCHANGED <<pool, allocated>>

(* rseq_percpu_pool_destroy(pool): ENOENT for an empty slot, else         *)
(* DestroyPool.  Every path returns 0, so the caller drops the pool.  A   *)
(* correct caller destroys a pool it created once its items are freed.    *)
Destroy(c, s) ==
  /\ s \in owned[c]
  /\ allocated[s] = {}
  /\ IF pool[s].base = Null THEN UNCHANGED <<pool, allocated>>
                            ELSE DestroyPool(s)
  /\ owned' = [owned EXCEPT ![c] = @ \ {s}]
  /\ UNCHANGED <<handles, poolSet, entries>>

(* __rseq_percpu_malloc on a pool c created: the pool hands out an item   *)
(* it does not hold, encoded with the pool's index; NULL when all are out.*)
Malloc(c, s) ==
  /\ s \in owned[c]
  /\ Cardinality(handles[c]) < MaxHandles
  /\ \/ \E o \in PoolOffsets(s) \ allocated[s] :
          /\ allocated' = [allocated EXCEPT ![s] = @ \cup {o}]
          /\ handles' = [handles EXCEPT ![c] = @ \cup
                          {[pool |-> s, offset |-> o,
                            handle |-> Encode(pool[s].index, o)]}]
     \/ /\ PoolOffsets(s) \subseteq allocated[s]
        /\ UNCHANGED <<allocated, handles>>
  /\ UNCHANGED <<pool, owned, poolSet, entries>>

(* rseq_percpu_free(h): the pool and the item come from decoding h.        *)
Free(c, r) ==
  /\ r \in handles[c]
  /\ allocated' = [allocated EXCEPT ![HandleIndex(r.handle)] =
                     @ \ {HandleOffset(r.handle)}]
  /\ handles' = [handles EXCEPT ![c] = @ \ {r}]
  /\ UNCHANGED <<pool, owned, poolSet, entries>>

(* rseq_percpu_pool_set_create: calloc'd, so every entry is NULL.  One   *)
(* set exists at a time in this model; a failed calloc changes nothing.   *)
SetCreate ==
  /\ poolSet = "none"
  /\ poolSet' = "live" /\ entries' = [o \in Orders |-> Null]
  /\ UNCHANGED <<pool, allocated, owned, handles>>

(* rseq_percpu_pool_set_add_pool(set, pool) of a pool c owns, under the   *)
(* set lock: EBUSY if entries[item_order] is taken, else the set takes    *)
(* the pool over.                                                          *)
AddPool(c, s) ==
  /\ poolSet = "live" /\ s \in owned[c]
  /\ IF entries[pool[s].item_order] /= Null
       THEN UNCHANGED <<entries, owned>>
       ELSE /\ entries' = [entries EXCEPT ![pool[s].item_order] = s]
            /\ owned' = [owned EXCEPT ![c] = @ \ {s}]
  /\ UNCHANGED <<pool, allocated, handles, poolSet>>

(* The pools the destroy loop visits: orders POOL_SET_MIN_ENTRY up.        *)
SetPools ==
  {entries[o] : o \in {o \in POOL_SET_MIN_ENTRY .. POOL_SET_NR_ENTRIES - 1 :
                          entries[o] /= Null}}

(* rseq_percpu_pool_set_destroy, once the set's items are freed: for each *)
(* pool, rseq_percpu_pool_destroy (whose munmap may fail, and which       *)
(* returns 0 either way, so the loop never stops early) and clear the     *)
(* entry; then free the set.  Each pool destroy takes pool_lock on its    *)
(* own, but nothing another client does touches the set's pools, so the   *)
(* loop is one step.                                                       *)
SetDestroy ==
  /\ poolSet = "live"
  /\ \A s \in SetSlots : allocated[s] = {}
  /\ \E ok \in [SetPools -> MunmapResults] :
       pool' = [i \in Slots |-> IF i \in SetPools /\ ok[i] THEN ZeroPool ELSE pool[i]]
  /\ poolSet' = "none" /\ entries' = [o \in Orders |-> Null]
  /\ UNCHANGED <<allocated, owned, handles>>

Init ==
  /\ pool = [i \in Slots |-> ZeroPool]
  /\ allocated = [i \in Slots |-> {}]
  /\ owned = [c \in Clients |-> {}]
  /\ handles = [c \in Clients |-> {}]
  /\ poolSet = "none" /\ entries = [o \in Orders |-> Null]

Next ==
  \/ \E c \in Clients :
       \/ \E l \in ItemLenArgs, pl \in PercpuLenArgs, n \in MaxNrCpusArgs,
             f \in FlagArgs : Create(c, l, pl, n, f)
       \/ \E s \in Slots : Destroy(c, s) \/ Malloc(c, s) \/ AddPool(c, s)
       \/ \E r \in handles[c] : Free(c, r)
  \/ SetCreate \/ SetDestroy

Spec == Init /\ [][Next]_vars

-----------------------------------------------------------------------------
Pools == [base : {Null, Base}, index : Slots, item_len : Nat,
          item_order : Nat, percpu_len : Nat, max_nr_cpus : Int, mapped : Nat]

TypeOK ==
  /\ pool \in [Slots -> Pools]
  /\ allocated \in [Slots -> SUBSET (0 .. MAX_POOL_LEN - 1)]
  /\ owned \in [Clients -> SUBSET Slots]
  /\ \A c \in Clients : Cardinality(handles[c]) <= MaxHandles
  /\ poolSet \in {"none", "live"} /\ entries \in [Orders -> Slots \cup {Null}]

(* Each live directory entry belongs to exactly one owner, a client or   *)
(* the pool set, and every pool an owner still believes it has is live:  *)
(* create never hands out a live slot, a destroy that returns 0 has       *)
(* removed the pool it was given and no other, add_pool hands a pool over *)
(* once, and a set destroy that returns 0 has destroyed every pool the    *)
(* set held.                                                              *)
PoolOwnership ==
  \A i \in Slots :
    Quantify(Clients, LAMBDA c : i \in owned[c]) + (IF i \in SetSlots THEN 1 ELSE 0) =
      IF pool[i].base /= Null THEN 1 ELSE 0

(* Every handle a client holds is non-NULL and decodes, as               *)
(* rseq_percpu_free and __rseq_percpu_ptr do, to the live pool that      *)
(* issued it and to an item that pool still counts as handed out (spec   *)
(* section 8, invariants 1 and 2).                                       *)
HandlesDecode ==
  \A c \in Clients : \A r \in handles[c] :
    /\ r.handle /= 0
    /\ HandleIndex(r.handle) = r.pool
    /\ HandleOffset(r.handle) = r.offset
    /\ pool[r.pool].base /= Null
    /\ r.offset \in allocated[r.pool]

(* Every live pool has the geometry the rest of the allocator relies on: *)
(* items of item_len = 2^item_order bytes, large enough for a free-list   *)
(* pointer and no larger than the per-CPU range, an item_order that       *)
(* indexes a pool set's entries[POOL_SET_NR_ENTRIES], and a mapping that  *)
(* holds the range of each of its max_nr_cpus CPUs that                  *)
(* __rseq_percpu_ptr addresses, and at least CPU 0's, where              *)
(* rseq_percpu_free writes the free-list links.                           *)
PoolGeometry ==
  \A i \in Slots : pool[i].base /= Null =>
    /\ pool[i].item_len = 2^pool[i].item_order
    /\ PtrSize <= pool[i].item_len /\ pool[i].item_len <= pool[i].percpu_len
    /\ pool[i].item_order < POOL_SET_NR_ENTRIES
    /\ pool[i].max_nr_cpus >= 1
    /\ pool[i].mapped >= pool[i].percpu_len * pool[i].max_nr_cpus
=============================================================================
