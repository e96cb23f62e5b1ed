---------------------------- MODULE MCFreeBitmap ----------------------------
(***************************************************************************)
(* Model-checking instances of FreeBitmap.  A default pool stride of 4096  *)
(* bytes with 64-byte items has 64 items: two words on a 32-bit build, one *)
(* on a 64-bit build.  The client uses the items at the word and sign-bit  *)
(* boundaries, where the shift widths matter.                              *)
(***************************************************************************)
EXTENDS FreeBitmap

MCNrItems == 4096 \div 64

(* Items 0 and 1, the last bit of a 32-bit int (31), the first item of the *)
(* second 32-bit word (32) and the last item (63).                          *)
MCItems == {0, 1, 31, 32, 63}
=============================================================================
