---------------------------- MODULE MCPercpuPool ----------------------------
(***************************************************************************)
(* Model-checking instance of PercpuPool for two client threads.  The    *)
(* pool sizes are set per run in the .cfg files: one page per CPU with    *)
(* four 1 KiB items on one CPU (free-list shapes: several nodes in either *)
(* order while both threads own items, ENOMEM on both paths), or two      *)
(* 2 KiB items on two CPUs on two NUMA nodes (zeroing of every per-CPU    *)
(* copy, init_numa racing the writes that fault the pages in).  A page   *)
(* is 4 KiB, so each CPU's range is one page.  In the one-CPU runs no     *)
(* thread calls init_numa, which reads and writes no state they check.   *)
(***************************************************************************)
EXTENDS PercpuPool, TLC

CONSTANTS t1, t2, n0, n1

MCThreads == {t1, t2}

(* CPU 0 on node n0, every other CPU on node n1. *)
MCNodeOf == [c \in Cpus |-> IF c = 0 THEN n0 ELSE n1]

(* Client threads are interchangeable. *)
MCSymmetry == Permutations(MCThreads)
=============================================================================
