------------------------------- MODULE PoolSet -------------------------------
(***************************************************************************)
(* The pool set of rseq-percpu-alloc.c: entries[order] holds at most one   *)
(* pool whose items are 2^order bytes; pool_set->lock covers add_pool and  *)
(* the lookup of __rseq_percpu_pool_set_malloc, but the allocation from   *)
(* the pool found happens after the set lock is released, under the       *)
(* pool's own lock, and an ENOMEM answer restarts the lookup one order up. *)
(*                                                                         *)
(* A pool is abstracted to its item order and its number of items: by     *)
(* AllocatorRefinement (MCPercpuPool), __rseq_percpu_malloc is one atomic *)
(* step that returns an item while the pool has room and ENOMEM only when  *)
(* it is full, and rseq_percpu_free gives one item back.  zmalloc differs *)
(* from malloc only inside the pool, so the set's two entry points share   *)
(* one model.  The pools are created beforehand (PoolDirectory) and owned  *)
(* by the application until add_pool hands them to the set; set destroy    *)
(* destroys them, and rseq_percpu_pool_destroy always returns 0.           *)
(***************************************************************************)
EXTENDS Integers, FiniteSetsExt, Functions

CONSTANTS
  Threads,      \* threads using the set
  Pools,        \* pools created by the application
  PoolOrder,    \* PoolOrder[p]: pool->item_order
  PoolItems,    \* PoolItems[p]: percpu_len >> item_order
  MinEntry,     \* POOL_SET_MIN_ENTRY
  NrEntries,    \* POOL_SET_NR_ENTRIES
  Lens,         \* the len arguments of set malloc
  MaxHeld,      \* most items a thread holds at once
  Null

Orders == 0 .. NrEntries - 1

ASSUME \A p \in Pools : PoolOrder[p] \in MinEntry .. NrEntries - 1

VARIABLES
  set,          \* "none" or "live": the set's calloc'd memory
  entries,      \* pool_set->entries
  spare,        \* pools the application owns (not added, or refused)
  gone,         \* pools destroyed by set destroy
  used,         \* used[p]: items of p handed out
  held,         \* held[t][p]: items of p that t holds
  pc,           \* "idle", "lookup" (before taking the set lock) or
                \* "malloc" (pool found, set lock released)
  len,          \* len[t]: the size asked for
  minOrder,     \* min_order
  order,        \* order: where the scan found the pool
  found,        \* pool: the pool found
  ret,          \* addr: the pool of the item the last call returned, or Null
  ruledOut,     \* orders this call saw empty, too small or full (history
                \* variable for NullMeansNoneFits; the code keeps no such set)
  noSpace       \* noSpace[t]: at some state of t's current call no pool of
                \* the set fitting len had a free item (history variable)

vars == <<set, entries, spare, gone, used, held, pc, len, minOrder, order,
          found, ret, ruledOut, noSpace>>

(* rseq_get_count_order_ulong: the order of the next power of two, via    *)
(* fls(x - 1); -1 for 0.                                                  *)
RECURSIVE Fls(_)
Fls(x) == IF x = 0 THEN 0 ELSE 1 + Fls(x \div 2)
CountOrder(x) == IF x = 0 THEN -1 ELSE Fls(x - 1)

ItemLen(p) == 2^PoolOrder[p]

HeldBy(t) == FoldFunctionOnSet(+, 0, held[t], Pools)

(* The orders the scan from m visits before it stops, and where it stops: *)
(* the first present pool whose item_len >= len.                          *)
FitOrders(m, l) == {o \in m .. NrEntries - 1 : entries[o] /= Null /\ ItemLen(entries[o]) >= l}

(* What the set promises a caller of size l: the orders of large enough   *)
(* items, and those among orders os that cannot serve it right now.        *)
Eligible(l) == {o \in MinEntry .. NrEntries - 1 : 2^o >= l}
Unusable(os, l) == {o \in os : entries[o] = Null \/ 2^o < l}

-----------------------------------------------------------------------------
(* Mutations: plausible coding errors in the definitions below.  Each one  *)
(* makes a property checked by MCPoolSet fail (see PROJECT.json).          *)

SetLookupStrictFit(t) ==
  /\ pc[t] = "lookup"
  /\ LET fits == {o \in minOrder[t] .. NrEntries - 1 :
                    entries[o] /= Null /\ ItemLen(entries[o]) > len[t]}
         last == IF fits = {} THEN NrEntries - 1 ELSE Min(fits) - 1
     IN /\ ruledOut' = [ruledOut EXCEPT ![t] = @ \cup Unusable(minOrder[t] .. last, len[t])]
        /\ IF fits = {}
             THEN /\ pc' = [pc EXCEPT ![t] = "idle"]
                  /\ ret' = [ret EXCEPT ![t] = Null]
                  /\ UNCHANGED <<order, found>>
             ELSE /\ pc' = [pc EXCEPT ![t] = "malloc"]
                  /\ order' = [order EXCEPT ![t] = Min(fits)]
                  /\ found' = [found EXCEPT ![t] = entries[Min(fits)]]
                  /\ UNCHANGED ret
  /\ UNCHANGED <<set, entries, spare, gone, used, held, len, minOrder>>

PoolMallocRetrySame(t) ==
  /\ pc[t] = "malloc"
  /\ LET p == found[t] IN
     IF used[p] < PoolItems[p]
       THEN /\ used' = [used EXCEPT ![p] = @ + 1]
            /\ held' = [held EXCEPT ![t][p] = @ + 1]
            /\ pc' = [pc EXCEPT ![t] = "idle"]
            /\ ret' = [ret EXCEPT ![t] = p]
            /\ UNCHANGED <<minOrder, ruledOut>>
       ELSE /\ minOrder' = [minOrder EXCEPT ![t] = order[t]]
            /\ ruledOut' = [ruledOut EXCEPT ![t] = @ \cup {order[t]}]
            /\ pc' = [pc EXCEPT ![t] = "lookup"]
            /\ UNCHANGED <<used, held, ret>>
  /\ UNCHANGED <<set, entries, spare, gone, len, order, found>>

PoolMallocPastEnd(t) ==
  /\ pc[t] = "malloc"
  /\ LET p == found[t] IN
     IF used[p] <= PoolItems[p]
       THEN /\ used' = [used EXCEPT ![p] = @ + 1]
            /\ held' = [held EXCEPT ![t][p] = @ + 1]
            /\ pc' = [pc EXCEPT ![t] = "idle"]
            /\ ret' = [ret EXCEPT ![t] = p]
            /\ UNCHANGED <<minOrder, ruledOut>>
       ELSE /\ minOrder' = [minOrder EXCEPT ![t] = order[t] + 1]
            /\ ruledOut' = [ruledOut EXCEPT ![t] = @ \cup {order[t]}]
            /\ pc' = [pc EXCEPT ![t] = "lookup"]
            /\ UNCHANGED <<used, held, ret>>
  /\ UNCHANGED <<set, entries, spare, gone, len, order, found>>

-----------------------------------------------------------------------------
(* rseq_percpu_pool_set_create: calloc'd, so every entry is NULL.  A      *)
(* failed calloc returns NULL and changes nothing.                        *)
SetCreate ==
  /\ set = "none"
  /\ set' = "live"
  /\ entries' = [o \in Orders |-> Null]
  /\ UNCHANGED <<spare, gone, used, held, pc, len, minOrder, order, found, ret, ruledOut>>

(* rseq_percpu_pool_set_add_pool: under the set lock, EBUSY (the pool     *)
(* stays with the caller) if entries[item_order] is taken, else the set   *)
(* takes the pool.                                                         *)
AddPool(t, p) ==
  /\ set = "live" /\ pc[t] = "idle" /\ p \in spare
  /\ IF entries[PoolOrder[p]] /= Null
       THEN UNCHANGED <<entries, spare>>
       ELSE /\ entries' = [entries EXCEPT ![PoolOrder[p]] = p]
            /\ spare' = spare \ {p}
  /\ UNCHANGED <<set, gone, used, held, pc, len, minOrder, order, found, ret, ruledOut>>

(* Entry of __rseq_percpu_pool_set_malloc: min_order is the order of len, *)
(* but at least POOL_SET_MIN_ENTRY.                                        *)
SetMalloc(t, l) ==
  /\ set = "live" /\ pc[t] = "idle" /\ HeldBy(t) < MaxHeld
  /\ pc' = [pc EXCEPT ![t] = "lookup"]
  /\ len' = [len EXCEPT ![t] = l]
  /\ minOrder' = [minOrder EXCEPT ![t] =
                   IF CountOrder(l) > MinEntry THEN CountOrder(l) ELSE MinEntry]
  /\ ruledOut' = [ruledOut EXCEPT ![t] = {}]
  /\ UNCHANGED <<set, entries, spare, gone, used, held, order, found, ret>>

(* again: under the set lock, scan from min_order for the first present   *)
(* pool with item_len >= len; unlock.  None found: return NULL (ENOMEM).  *)
SetLookup(t) ==
  /\ pc[t] = "lookup"
  /\ LET fits == FitOrders(minOrder[t], len[t])
         last == IF fits = {} THEN NrEntries - 1 ELSE Min(fits) - 1
     IN /\ ruledOut' = [ruledOut EXCEPT ![t] = @ \cup Unusable(minOrder[t] .. last, len[t])]
        /\ IF fits = {}
             THEN /\ pc' = [pc EXCEPT ![t] = "idle"]
                  /\ ret' = [ret EXCEPT ![t] = Null]
                  /\ UNCHANGED <<order, found>>
             ELSE /\ pc' = [pc EXCEPT ![t] = "malloc"]
                  /\ order' = [order EXCEPT ![t] = Min(fits)]
                  /\ found' = [found EXCEPT ![t] = entries[Min(fits)]]
                  /\ UNCHANGED ret
  /\ UNCHANGED <<set, entries, spare, gone, used, held, len, minOrder>>

(* __rseq_percpu_malloc(pool) outside the set lock; on ENOMEM retry with  *)
(* min_order = order + 1.                                                  *)
PoolMalloc(t) ==
  /\ pc[t] = "malloc"
  /\ LET p == found[t] IN
     IF used[p] < PoolItems[p]
       THEN /\ used' = [used EXCEPT ![p] = @ + 1]
            /\ held' = [held EXCEPT ![t][p] = @ + 1]
            /\ pc' = [pc EXCEPT ![t] = "idle"]
            /\ ret' = [ret EXCEPT ![t] = p]
            /\ UNCHANGED <<minOrder, ruledOut>>
       ELSE /\ minOrder' = [minOrder EXCEPT ![t] = order[t] + 1]
            /\ ruledOut' = [ruledOut EXCEPT ![t] = @ \cup {order[t]}]
            /\ pc' = [pc EXCEPT ![t] = "lookup"]
            /\ UNCHANGED <<used, held, ret>>
  /\ UNCHANGED <<set, entries, spare, gone, len, order, found>>

(* rseq_percpu_free of an item t holds: back to its pool.                  *)
Free(t, p) ==
  /\ pc[t] = "idle" /\ held[t][p] > 0
  /\ used' = [used EXCEPT ![p] = @ - 1]
  /\ held' = [held EXCEPT ![t][p] = @ - 1]
  /\ UNCHANGED <<set, entries, spare, gone, pc, len, minOrder, order, found, ret, ruledOut>>

(* rseq_percpu_pool_set_destroy, once no thread uses the set and every    *)
(* item is freed: destroy every pool of the set (each returns 0), clear   *)
(* its entry, free the set.                                                *)
SetDestroy ==
  /\ set = "live"
  /\ \A t \in Threads : pc[t] = "idle" /\ HeldBy(t) = 0
  /\ set' = "none"
  /\ gone' = gone \cup {entries[o] : o \in {o \in Orders : entries[o] /= Null}}
  /\ entries' = [o \in Orders |-> Null]
  /\ UNCHANGED <<spare, used, held, pc, len, minOrder, order, found, ret, ruledOut>>

Init ==
  /\ set = "none"
  /\ entries = [o \in Orders |-> Null]
  /\ spare = Pools
  /\ gone = {}
  /\ used = [p \in Pools |-> 0]
  /\ held = [t \in Threads |-> [p \in Pools |-> 0]]
  /\ pc = [t \in Threads |-> "idle"]
  /\ len = [t \in Threads |-> 0]
  /\ minOrder = [t \in Threads |-> MinEntry]
  /\ order = [t \in Threads |-> MinEntry]
  /\ found = [t \in Threads |-> Null]
  /\ ret = [t \in Threads |-> Null]
  /\ noSpace = [t \in Threads |-> FALSE]
  /\ ruledOut = [t \in Threads |-> {}]

(* History: noSpace[t] records whether, since t's call began, a state had *)
(* no pool of the set fitting len with a free item.                         *)
NoSpaceFor(l) ==
  \A o \in Orders : entries[o] = Null \/ ItemLen(entries[o]) < l
                   \/ used[entries[o]] = PoolItems[entries[o]]

NoSpaceNow(t) == NoSpaceFor(len[t])

NoSpaceHistory ==
  noSpace' = [t \in Threads |->
                /\ pc'[t] /= "idle"
                /\ (noSpace[t] /\ pc[t] /= "idle") \/ NoSpaceNow(t)']

(* The steps of one set malloc call after its entry.                       *)
SetMallocStep(t) == SetLookup(t) \/ PoolMalloc(t)

Next ==
  /\ \/ SetCreate
     \/ SetDestroy
     \/ \E t \in Threads :
          \/ \E p \in Pools : AddPool(t, p) \/ Free(t, p)
          \/ \E l \in Lens : SetMalloc(t, l)
          \/ SetMallocStep(t)
  /\ NoSpaceHistory

(* A thread that is in a call and not blocked keeps running: weak         *)
(* fairness of each thread's own malloc steps.  Nothing forces frees,     *)
(* adds or new calls.                                                      *)
Spec == Init /\ [][Next]_vars /\ \A t \in Threads : WF_vars(SetMallocStep(t) /\ NoSpaceHistory)

-----------------------------------------------------------------------------
TypeOK ==
  /\ set \in {"none", "live"}
  /\ entries \in [Orders -> Pools \cup {Null}]
  /\ spare \subseteq Pools /\ gone \subseteq Pools
  /\ used \in [Pools -> Nat] /\ \A p \in Pools : used[p] <= PoolItems[p]
  /\ held \in [Threads -> [Pools -> 0 .. MaxHeld]]
  /\ pc \in [Threads -> {"idle", "lookup", "malloc"}]
  /\ len \in [Threads -> Lens \cup {0}]
  /\ minOrder \in [Threads -> MinEntry .. NrEntries]
  /\ found \in [Threads -> Pools \cup {Null}]
  /\ ret \in [Threads -> Pools \cup {Null}]
  /\ noSpace \in [Threads -> BOOLEAN]
  /\ ruledOut \in [Threads -> SUBSET Orders]

(* Set malloc returns NULL only when every size class that could serve    *)
(* len was, at some moment of the call, empty, too small or full: the     *)
(* retry at order + 1 skips no class and the scan skips no fitting pool,  *)
(* whatever the other threads allocate, free or add meanwhile.            *)
NullMeansNoneFits ==
  [][\A t \in Threads :
       (pc[t] = "lookup" /\ pc'[t] = "idle") => Eligible(len[t]) \subseteq ruledOut'[t]
    ]_vars

(* Every set malloc call returns: the ENOMEM retry loop cannot spin on a  *)
(* full pool, whatever the other threads do.                               *)
SetMallocReturns == \A t \in Threads : pc[t] = "lookup" ~> pc[t] = "idle"

-----------------------------------------------------------------------------
(* mempool.h: set malloc returns NULL "if there is not enough space left", *)
(* and the API is MT-safe.  So a call that returns NULL must have a moment *)
(* in which no pool of the set fitting len had a free item.                *)
NullLinearizable ==
  [][\A t \in Threads :
       (pc[t] = "lookup" /\ pc'[t] = "idle" /\ ret'[t] = Null)
         => noSpace[t] \/ NoSpaceFor(len[t])
    ]_vars
=============================================================================
