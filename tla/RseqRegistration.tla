-------------------------- MODULE RseqRegistration --------------------------
(***************************************************************************)
(* Per-thread rseq registration of rseq.c: rseq_register_current_thread   *)
(* and rseq_unregister_current_thread, shared by several users of one     *)
(* thread through the reference count kept in the user-space part of      *)
(* __lib_rseq_abi.  The rseq state is thread-local, so one thread is      *)
(* modelled; its users are the thread's own code and its signal handlers. *)
(*                                                                         *)
(* A signal handler runs on top of the code it interrupts and returns     *)
(* before that code continues: the running calls form a stack, and only   *)
(* the innermost one steps.  A handler may start whenever signals are not *)
(* blocked.  Both functions block every signal first (signal_off_save)    *)
(* and restore the caller's mask last (signal_restore).                   *)
(*                                                                         *)
(* The kernel is the environment.  Per the rseq(2) contract, registering  *)
(* fails with ENOSYS when the kernel lacks rseq, with EBUSY when the same *)
(* area is already registered and with EINVAL when another area is (e.g. *)
(* one registered by the C library); unregistering succeeds only for the  *)
(* registered area and resets its cpu_id to RSEQ_CPU_ID_UNINITIALIZED.    *)
(***************************************************************************)
EXTENDS Integers, SequencesExt

CONSTANTS
  Users,        \* the thread's code and its signal handlers that use rseq
  RefcountBits  \* width of __lib_rseq_abi.refcount (a __u32)

VARIABLES
  refcount,     \* __lib_rseq_abi.refcount
  cpuId,        \* __rseq_abi.cpu_id: "uninit", "failed" or "valid"
  kernel,       \* the thread's kernel registration: "none", "abi" (the area
                \* __rseq_abi) or "other" (an area of another component)
  supported,    \* the kernel implements rseq
  blocked,      \* all signals are blocked in the thread's signal mask
  active,       \* the stack of running calls, innermost last
  pc,           \* pc[u]: where u's call is, "idle" outside a call
  saved,        \* saved[u]: the mask signal_off_save saved for u's call
  ret,          \* ret[u]: the return value of u's running call
  holds         \* holds[u]: u's last rseq_register_current_thread returned
                \* 0 and u has not called unregister since

vars == <<refcount, cpuId, kernel, supported, blocked, active, pc, saved,
          ret, holds>>

Holders == {u \in Users : holds[u]}

(* sys_rseq(&__rseq_abi, sizeof(struct rseq), 0, RSEQ_SIG): the errno of  *)
(* a failed registration, or "ok".                                        *)
SysRegister ==
  CASE ~supported      -> "ENOSYS"
    [] kernel = "abi"   -> "EBUSY"
    [] kernel = "other" -> "EINVAL"
    [] OTHER            -> "ok"

(* Only the innermost running call steps; it moves from one pc to another. *)
Step(u, from, to) ==
  /\ active /= <<>> /\ Last(active) = u
  /\ pc[u] = from
  /\ pc' = [pc EXCEPT ![u] = to]

-----------------------------------------------------------------------------
(* Mutations: plausible coding errors in the definitions below.  Each one  *)
(* makes a property checked by MCRseqRegistration fail (see PROJECT.json). *)

SignalOffSaveNoBlock(u, from, to) ==
  /\ Step(u, from, to)
  /\ saved' = [saved EXCEPT ![u] = blocked]
  /\ UNCHANGED <<refcount, cpuId, kernel, supported, blocked, active, ret,
                 holds>>

RegisterSyscallFailedOnEbusy(u) ==
  /\ Step(u, "reg_sys", IF SysRegister = "ok" THEN "reg_restore" ELSE "reg_undo")
  /\ IF SysRegister = "ok"
       THEN /\ kernel' = "abi"
            /\ cpuId' = "valid"
       ELSE /\ cpuId' = "failed"
            /\ UNCHANGED kernel
  /\ UNCHANGED <<refcount, supported, blocked, active, saved, ret, holds>>

RegisterUndoKeepCount(u) ==
  /\ Step(u, "reg_undo", "reg_restore")
  /\ ret' = [ret EXCEPT ![u] = -1]
  /\ UNCHANGED <<refcount, cpuId, kernel, supported, blocked, active, saved,
                 holds>>

-----------------------------------------------------------------------------
(* User u calls rseq_register_current_thread (if it holds no registration) *)
(* or rseq_unregister_current_thread (if it does, giving it up): from the *)
(* thread's code when nothing runs, or from a signal handler when signals *)
(* are unblocked.                                                          *)
Call(u) ==
  /\ pc[u] = "idle"
  /\ active = <<>> \/ ~blocked
  /\ active' = Append(active, u)
  /\ pc' = [pc EXCEPT ![u] = IF holds[u] THEN "unreg_save" ELSE "reg_save"]
  /\ ret' = [ret EXCEPT ![u] = 0]
  /\ holds' = [holds EXCEPT ![u] = FALSE]
  /\ UNCHANGED <<refcount, cpuId, kernel, supported, blocked, saved>>

(* signal_off_save: block every signal, saving the previous mask.          *)
SignalOffSave(u, from, to) ==
  /\ Step(u, from, to)
  /\ saved' = [saved EXCEPT ![u] = blocked]
  /\ blocked' = TRUE
  /\ UNCHANGED <<refcount, cpuId, kernel, supported, active, ret, holds>>

(* if (__lib_rseq_abi.refcount++) goto end;  The count is unsigned and   *)
(* wraps.                                                                  *)
RegisterInc(u) ==
  /\ Step(u, "reg_inc", IF refcount /= 0 THEN "reg_restore" ELSE "reg_sys")
  /\ refcount' = (refcount + 1) % 2^RefcountBits
  /\ UNCHANGED <<cpuId, kernel, supported, blocked, active, saved, ret,
                 holds>>

(* The registration system call; on failure other than EBUSY, cpu_id is    *)
(* set to RSEQ_CPU_ID_REGISTRATION_FAILED.                                 *)
RegisterSyscall(u) ==
  /\ Step(u, "reg_sys", IF SysRegister = "ok" THEN "reg_restore" ELSE "reg_undo")
  /\ IF SysRegister = "ok"
       THEN /\ kernel' = "abi"
            /\ cpuId' = "valid"
       ELSE /\ cpuId' = IF SysRegister /= "EBUSY" THEN "failed" ELSE cpuId
            /\ UNCHANGED kernel
  /\ UNCHANGED <<refcount, supported, blocked, active, saved, ret, holds>>

(* ret = -1; __lib_rseq_abi.refcount--;                                     *)
RegisterUndo(u) ==
  /\ Step(u, "reg_undo", "reg_restore")
  /\ ret' = [ret EXCEPT ![u] = -1]
  /\ refcount' = (refcount - 1) % 2^RefcountBits
  /\ UNCHANGED <<cpuId, kernel, supported, blocked, active, saved, holds>>

(* if (--__lib_rseq_abi.refcount) goto end;                                 *)
UnregisterDec(u) ==
  /\ LET dec == (refcount - 1) % 2^RefcountBits IN
     /\ Step(u, "unreg_dec", IF dec /= 0 THEN "unreg_restore" ELSE "unreg_sys")
     /\ refcount' = dec
  /\ UNCHANGED <<cpuId, kernel, supported, blocked, active, saved, ret,
                 holds>>

(* The unregistration system call; it fails (EINVAL, ret = -1) when        *)
(* __rseq_abi is not the registered area.                                  *)
UnregisterSyscall(u) ==
  /\ Step(u, "unreg_sys", "unreg_restore")
  /\ IF kernel = "abi"
       THEN /\ kernel' = "none"
            /\ cpuId' = "uninit"
            /\ UNCHANGED ret
       ELSE /\ ret' = [ret EXCEPT ![u] = -1]
            /\ UNCHANGED <<kernel, cpuId>>
  /\ UNCHANGED <<refcount, supported, blocked, active, saved, holds>>

(* signal_restore and return.  A register call that returns 0 gives u a   *)
(* registration.                                                           *)
SignalRestore(u, from) ==
  /\ Step(u, from, "idle")
  /\ blocked' = saved[u]
  /\ active' = Front(active)
  /\ holds' = [holds EXCEPT ![u] = from = "reg_restore" /\ ret[u] = 0]
  /\ UNCHANGED <<refcount, cpuId, kernel, supported, saved, ret>>

(* The thread starts with __rseq_abi.cpu_id = RSEQ_CPU_ID_UNINITIALIZED.  *)
(* Another component may already have registered the same area (cpu_id is *)
(* then maintained by the kernel) or one of its own.                      *)
Init ==
  /\ refcount = 0
  /\ supported \in BOOLEAN
  /\ kernel \in IF supported THEN {"none", "abi", "other"} ELSE {"none"}
  /\ cpuId = IF kernel = "abi" THEN "valid" ELSE "uninit"
  /\ blocked = FALSE
  /\ active = <<>>
  /\ pc = [u \in Users |-> "idle"]
  /\ saved = [u \in Users |-> FALSE]
  /\ ret = [u \in Users |-> 0]
  /\ holds = [u \in Users |-> FALSE]

Next ==
  \E u \in Users :
    \/ Call(u)
    \/ SignalOffSave(u, "reg_save", "reg_inc")
    \/ SignalOffSave(u, "unreg_save", "unreg_dec")
    \/ RegisterInc(u)
    \/ RegisterSyscall(u)
    \/ RegisterUndo(u)
    \/ UnregisterDec(u)
    \/ UnregisterSyscall(u)
    \/ SignalRestore(u, "reg_restore")
    \/ SignalRestore(u, "unreg_restore")

Spec == Init /\ [][Next]_vars

-----------------------------------------------------------------------------
Calls == {"idle", "reg_save", "reg_inc", "reg_sys", "reg_undo",
          "reg_restore", "unreg_save", "unreg_dec", "unreg_sys",
          "unreg_restore"}

TypeOK ==
  /\ refcount \in 0 .. Cardinality(Users)
  /\ cpuId \in {"uninit", "failed", "valid"}
  /\ kernel \in {"none", "abi", "other"}
  /\ supported \in BOOLEAN /\ blocked \in BOOLEAN
  /\ active \in Seq(Users) /\ Len(active) <= Cardinality(Users)
  /\ pc \in [Users -> Calls]
  /\ saved \in [Users -> BOOLEAN]
  /\ ret \in [Users -> {0, -1}]
  /\ holds \in [Users -> BOOLEAN]

(* Every user whose registration returned 0 and who has not unregistered  *)
(* can use rseq: the kernel maintains __rseq_abi and its cpu_id is valid. *)
(* Neither a signal handler registering in the middle of the thread's own *)
(* registration, nor one user's unregistration, breaks this.             *)
HoldersAreRegistered ==
  Holders /= {} => kernel = "abi" /\ cpuId = "valid"

(* Between calls the reference count counts the users holding a           *)
(* registration, whatever failed registrations happened.                 *)
RefcountCountsHolders ==
  active = <<>> => refcount = Cardinality(Holders)

(* cpu_id reads RSEQ_CPU_ID_REGISTRATION_FAILED only when the kernel does *)
(* not maintain __rseq_abi: readers then fall back to sched_getcpu, and   *)
(* never take a valid area for a failed one.                             *)
FailedMeansUnregistered == cpuId = "failed" => kernel /= "abi"
=============================================================================
