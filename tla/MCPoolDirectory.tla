--------------------------- MODULE MCPoolDirectory ---------------------------
(***************************************************************************)
(* Model-checking instance of PoolDirectory for two clients.  The scaled  *)
(* build: 16-byte pages, 4-byte pointers, a 5-bit offset field (pools of  *)
(* at most 31 bytes per CPU) and a 2-bit pool index (slots 1 to 3).  The  *)
(* arguments cover every check of create: an item smaller than a pointer *)
(* (1), a page-sized item (16), an item larger than the range (32); a     *)
(* zero range (0), one page (16), a range past MAX_POOL_LEN (48); a      *)
(* negative, a zero and a positive CPU count; no flag, the robust flag   *)
(* and an unknown flag.                                                   *)
(***************************************************************************)
EXTENDS PoolDirectory, TLC

CONSTANTS c1, c2

MCClients == {c1, c2}

MCFlagArgs == {{}, {"robust"}, {"unknown"}}

MCMaxNrCpusArgs == {-1, 0, 1}

(* Clients are interchangeable. *)
MCSymmetry == Permutations(MCClients)
=============================================================================
