---------------------------- MODULE PoolAllocator ---------------------------
(***************************************************************************)
(* What a fixed-capacity pool promises its clients (mempool.h): malloc     *)
(* hands a thread an item nobody else holds, and returns NULL (ENOMEM)     *)
(* only when there is not enough space left in the pool, that is when     *)
(* every item is allocated; free gives an item back.  Which free item     *)
(* malloc picks is left open.                                              *)
(***************************************************************************)
EXTENDS FiniteSets

CONSTANTS
  Threads,
  Slots,        \* the items of the pool
  Null          \* the NULL result of a failed malloc

VARIABLES
  allocated,    \* allocated[t]: the items thread t holds
  result        \* result[t]: what thread t's last malloc returned

vars == <<allocated, result>>

InUse == UNION {allocated[t] : t \in Threads}

Init ==
  /\ allocated = [t \in Threads |-> {}]
  /\ result = [t \in Threads |-> Null]

Malloc(t) ==
  \/ \E s \in Slots \ InUse :
       /\ allocated' = [allocated EXCEPT ![t] = @ \cup {s}]
       /\ result' = [result EXCEPT ![t] = s]
  \/ /\ InUse = Slots
     /\ result' = [result EXCEPT ![t] = Null]
     /\ UNCHANGED allocated

Free(t, s) ==
  /\ s \in allocated[t]
  /\ allocated' = [allocated EXCEPT ![t] = @ \ {s}]
  /\ UNCHANGED result

Next ==
  \E t \in Threads : Malloc(t) \/ \E s \in Slots : Free(t, s)

Spec == Init /\ [][Next]_vars
=============================================================================
