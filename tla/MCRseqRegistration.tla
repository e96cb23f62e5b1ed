------------------------- MODULE MCRseqRegistration -------------------------
(***************************************************************************)
(* Three users of rseq on one thread, under every kernel environment:     *)
(* without rseq, with nothing registered, with __rseq_abi already         *)
(* registered by another component, and with another area registered.    *)
(***************************************************************************)
EXTENDS RseqRegistration, TLC

CONSTANTS u1, u2, u3

MCUsers == {u1, u2, u3}

(* The users are interchangeable. *)
MCSymmetry == Permutations(MCUsers)
=============================================================================
