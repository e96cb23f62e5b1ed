----------------------------- MODULE FreeBitmap -----------------------------
(***************************************************************************)
(* The robust-mode free bitmap of a per-CPU pool (rseq-percpu-alloc.c:     *)
(* create_free_bitmap, destroy_free_bitmap, mask_free_slot,                *)
(* unmask_free_slot).  One bit per item: set while the item is allocated.  *)
(*                                                                         *)
(* Bitmap words are modelled bit by bit: a word is the SET of the bit      *)
(* positions that are 1, so "&" is \cap, "|=" is \cup and "&= ~" is "\".   *)
(* This keeps the real word widths (64-bit unsigned long, 32-bit int)      *)
(* without 64-bit integers, which TLC cannot represent.                    *)
(*                                                                         *)
(* The pure operators are used by PercpuPool.  The variables and actions   *)
(* below check the bitmap on its own: the caller marks an item of Items    *)
(* when it allocates it and unmarks it when it frees it, as a correct      *)
(* client of the pool does, and finally destroys the bitmap.               *)
(***************************************************************************)
EXTENDS Integers, FiniteSets

CONSTANTS
  BitsPerLong,  \* BIT_PER_ULONG: width of unsigned long
  IntBits,      \* width of C int, the type of the literal 1 in "1 << n"
  NrItems,      \* percpu_len >> item_order: items of the pool
  Items,        \* the item indexes the client uses (a subset of 0..NrItems-1)
  Null          \* NULL pointer: calloc failed

ASSUME IntBits \in Nat \ {0} /\ BitsPerLong >= IntBits
ASSUME Items \subseteq 0 .. NrItems - 1

VARIABLES
  bitmap,       \* pool->free_bitmap: Null or [word index -> set of 1 bits]
  inUse,        \* items the client holds (what the bitmap should record)
  status        \* "running", "destroyed", or the function whose assert() failed

vars == <<bitmap, inUse, status>>

(* Mutations: plausible coding errors in the operators below.  Each one   *)
(* makes a property checked by MCFreeBitmap fail (see PROJECT.json).       *)
MaskFreeSlotNoSet(bm, i) == bm
MaskFreeSlotPastBit(bm, i) ==
  IF bm = Null THEN Null ELSE [bm EXCEPT ![i \div BitsPerLong] = @ \cup {(i % BitsPerLong) + 1}]
UnmaskFreeSlotNoClear(bm, i, mask) == bm
DestroyFreeBitmapOkFirstWord(bm) == bm = Null \/ bm[0] = {}

Words == 0 .. ((NrItems + BitsPerLong - 1) \div BitsPerLong) - 1
Bits  == 0 .. BitsPerLong - 1

(* create_free_bitmap: calloc(count, sizeof(unsigned long)); the result is *)
(* not checked, so a failed calloc silently leaves the pool unchecked.     *)
CreateFreeBitmap == {[k \in Words |-> {}], Null}

(* k = item_index / BIT_PER_ULONG and the bit position within word k.      *)
WordOf(i) == i \div BitsPerLong
BitOf(i)  == i % BitsPerLong

(* mask_free_slot: mask = 1ULL << bit; assert(0 == (bitmap[k] & mask));    *)
(* bitmap[k] |= mask.  A NULL bitmap makes both a no-op.                   *)
MaskFreeSlotOk(bm, i) == bm = Null \/ BitOf(i) \notin bm[WordOf(i)]

MaskFreeSlot(bm, i) ==
  IF bm = Null THEN Null ELSE [bm EXCEPT ![WordOf(i)] = @ \cup {BitOf(i)}]

(* unmask_free_slot computes mask = 1 << bit with the int literal 1.  For  *)
(* bit < IntBits-1 this is the intended single bit.  For bit = IntBits-1   *)
(* the int is negative and is sign-extended when converted to unsigned     *)
(* long: every bit from IntBits-1 up is set.  For bit >= IntBits the shift *)
(* is undefined: x86-64 and arm64 reduce the count modulo IntBits, and a   *)
(* compiler may instead widen the shift; both outcomes are allowed.        *)
IntShift(s) == IF s < IntBits - 1 THEN {s} ELSE IntBits - 1 .. BitsPerLong - 1

UnmaskMasks(i) ==
  IF BitOf(i) < IntBits THEN {IntShift(BitOf(i))}
                        ELSE {IntShift(BitOf(i) % IntBits), {BitOf(i)}}

(* assert(mask == (bitmap[k] & mask)); bitmap[k] &= ~mask.                 *)
UnmaskFreeSlotOk(bm, i, mask) == bm = Null \/ mask \subseteq bm[WordOf(i)]

UnmaskFreeSlot(bm, i, mask) ==
  IF bm = Null THEN Null ELSE [bm EXCEPT ![WordOf(i)] = @ \ mask]

(* destroy_free_bitmap: assert(0 == bitmap[k]) for every word.             *)
DestroyFreeBitmapOk(bm) == bm = Null \/ \A k \in Words : bm[k] = {}

-----------------------------------------------------------------------------
(* The bitmap on its own, driven by a correct client.                      *)

Init ==
  /\ bitmap \in CreateFreeBitmap
  /\ inUse = {}
  /\ status = "running"

(* The allocation of item i (the bump path of __rseq_percpu_malloc).       *)
Mask(i) ==
  /\ status = "running"
  /\ i \in Items \ inUse
  /\ IF MaskFreeSlotOk(bitmap, i)
       THEN /\ bitmap' = MaskFreeSlot(bitmap, i)
            /\ inUse' = inUse \cup {i}
            /\ UNCHANGED status
       ELSE /\ status' = "mask"
            /\ UNCHANGED <<bitmap, inUse>>

(* The free of item i (rseq_percpu_free).                                  *)
Unmask(i) ==
  /\ status = "running"
  /\ i \in inUse
  /\ \E mask \in UnmaskMasks(i) :
       IF UnmaskFreeSlotOk(bitmap, i, mask)
         THEN /\ bitmap' = UnmaskFreeSlot(bitmap, i, mask)
              /\ inUse' = inUse \ {i}
              /\ UNCHANGED status
         ELSE /\ status' = "unmask"
              /\ UNCHANGED <<bitmap, inUse>>

(* Pool destruction checks the bitmap; afterwards the pool is gone.        *)
Destroy ==
  /\ status = "running"
  /\ status' = IF DestroyFreeBitmapOk(bitmap) THEN "destroyed" ELSE "destroy"
  /\ UNCHANGED <<bitmap, inUse>>

Next ==
  \/ \E i \in Items : Mask(i) \/ Unmask(i)
  \/ Destroy

Spec == Init /\ [][Next]_vars

-----------------------------------------------------------------------------
TypeOK ==
  /\ bitmap \in {Null} \cup [Words -> SUBSET Bits]
  /\ inUse \subseteq Items
  /\ status \in {"running", "mask", "unmask", "destroy", "destroyed"}

(* A client that frees only what it allocated never trips an assertion of *)
(* mask_free_slot or unmask_free_slot: the robust checks raise no false    *)
(* double-free.                                                            *)
NoSpuriousAbort == status \notin {"mask", "unmask"}

(* While the process runs, the bit of each item is set exactly when the    *)
(* client holds the item: unmask_free_slot clears the bit of the item      *)
(* freed and no other.                                                     *)
BitmapTracksUse ==
  (bitmap /= Null /\ status = "running") =>
    \A i \in Items : (BitOf(i) \in bitmap[WordOf(i)]) <=> (i \in inUse)

(* destroy_free_bitmap detects every leak: the pool is destroyed without   *)
(* an assertion failure only when no item is still allocated (unless the *)
(* bitmap could not be allocated at all).                                  *)
LeakDetected ==
  (status = "destroyed" /\ bitmap /= Null) => inUse = {}
=============================================================================
