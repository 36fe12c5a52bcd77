------------------------------ MODULE MCLocks -------------------------------
(***************************************************************************)
(* The spinlock demo, the rwlock demo and the ioctl device with its mutex, *)
(* checked side by side.  They share no state, so a behaviour is that of   *)
(* one of them.                                                            *)
(***************************************************************************)
EXTENDS SpinlockDemo

CONSTANTS Readers, Writers, Cpus, RwValues, MaxJiffies,      \* RwlockDemo
          IntValues, Lengths, DEFAULT_VALUE, DEFAULT_LENGTH, \* IoctlTest
          MAX_STRING_SIZE

VARIABLES demo,
          phase_rw, jiffies, data_rw, last_update, readers, writer, queue, on_cpu, pc_rw,
          input_rw, seen, stamped,
          phase_it, made, opened, pc_it, cmd, arg, lock, value, string, kernel_buffer, ret,
          reply

RW == INSTANCE RwlockDemo WITH
          Values <- RwValues, phase <- phase_rw, shared_data <- data_rw, pc <- pc_rw,
          input <- input_rw

IT == INSTANCE IoctlTest WITH Values <- IntValues, phase <- phase_it, pc <- pc_it

\* What the proofs need to know of the constants.
ASSUME LocksAssumption ==
    /\ Readers \cap Writers = {} /\ RW!Nobody \notin Writers /\ IT!Nobody \notin Procs
    /\ Cpus \in Nat /\ MaxJiffies \in Nat
    /\ DEFAULT_VALUE \in IntValues /\ Lengths \subseteq Nat
    /\ MAX_STRING_SIZE \in Nat /\ DEFAULT_LENGTH \in 0 .. MAX_STRING_SIZE - 1

vars_rw == <<phase_rw, jiffies, data_rw, last_update, readers, writer, queue, on_cpu, pc_rw,
             input_rw, seen, stamped>>
vars_it == <<phase_it, made, opened, pc_it, cmd, arg, lock, value, string, kernel_buffer, ret,
             reply>>

MCInit == demo \in {"spinlock", "rwlock", "ioctl"} /\ Init /\ RW!Init /\ IT!Init

MCNext ==
    \/ demo = "spinlock" /\ Next /\ UNCHANGED <<demo, vars_rw, vars_it>>
    \/ demo = "rwlock" /\ RW!Next /\ UNCHANGED <<demo, vars, vars_it>>
    \/ demo = "ioctl" /\ IT!Next /\ UNCHANGED <<demo, vars, vars_rw>>

MCSpec ==
    /\ MCInit /\ [][MCNext]_<<demo, vars, vars_rw, vars_it>>
    /\ RW!Fairness /\ IT!Fairness

-----------------------------------------------------------------------------
\* rwlock_demo.c: a reader prints a value with the time of that value, and the
\* tasks that run are never more than the CPUs.
SnapshotConsistent == RW!TypeOK /\ RW!SnapshotConsistent

\* ioctl_test.c: the module stays while a file is open or an ioctl runs; init is
\* all or nothing, and exit gives everything back.
OpenFilesPin == IT!TypeOK /\ IT!OpenFilesPin /\ IT!DM!BufferOutlivesUsers /\ IT!DM!NothingLeftBehind

\* ioctl_test.c: every ioctl is one indivisible operation on the device.
ImplementsAtomicDevice == IT!ImplementsAtomicDevice

\* rwlock_demo.c: with a CPU for every task, every handler returns; ioctl_test.c:
\* every ioctl returns.
HandlerReturns == RW!HandlerReturns /\ IT!IoctlReturns
=============================================================================
