------------------------------ MODULE MCPoolSet ------------------------------
(***************************************************************************)
(* Model-checking instance of PoolSet in the scaled build of              *)
(* MCPoolDirectory: 4-byte pointers (POOL_SET_MIN_ENTRY = 2), a 5-bit     *)
(* offset field (POOL_SET_NR_ENTRIES = 5) and one 16-byte page per CPU.   *)
(* Pools a and b have 8-byte items (two per page) and compete for entry 3; *)
(* pool c has one 16-byte item.  The sizes asked are 0 (the minimum       *)
(* class), 5 (class 3, falling back to 4) and 16 (class 4 only).          *)
(***************************************************************************)
EXTENDS PoolSet, TLC

CONSTANTS t1, t2, a, b, c

MCThreads == {t1, t2}

MCPools == {a, b, c}

MCPoolOrder == (a :> 3) @@ (b :> 3) @@ (c :> 4)

MCPoolItems == (a :> 2) @@ (b :> 2) @@ (c :> 1)
=============================================================================
