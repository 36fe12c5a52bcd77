------------------------------- MODULE MCFiles ------------------------------
(***************************************************************************)
(* The modules behind files of /proc and /sys, the file system, and the    *)
(* ioctl program on its device, side by side.  They share no state, so a   *)
(* behaviour is that of one of them, the demo; the others stay unloaded.   *)
(***************************************************************************)
EXTENDS SimpleVfs, ProcFiles

CONSTANTS Ops, Args, Half, MaxOps,                       \* AtomicDemo
          MAX_LOG_ENTRIES, InitialEntries, MaxAdds,      \* PosDemo
          IntValues, Lengths, DEFAULT_VALUE,             \* IoctlTest
          DEFAULT_LENGTH, MAX_STRING_SIZE,
          Testers, TestValue, TestLength                 \* IoctlApp

VARIABLES demo,
          phase_at, counter, operations_count, large_counter, bit_flags, ref_count, pc_at, op_at,
          arg_at, old_val, effects, read_at, refs, seen_at,
          phase_pd, entry_id, message, log_count, next_id, adds, raced, pc_pd, local, text, moved,
          pos, seen_pd, said, walked,
          phase_ia, made, opened, pc_ia, cmd, arg_ia, lock, value, string, kernel_buffer_ia, ret,
          reply, todo, alone_ia

AT == INSTANCE AtomicDemo WITH
          Writers <- Users, phase <- phase_at, pc <- pc_at, op <- op_at, arg <- arg_at,
          seen <- seen_at

PD == INSTANCE PosDemo WITH
          Writers <- Users, Readers <- Viewers, phase <- phase_pd, pc <- pc_pd, seen <- seen_pd

IA == INSTANCE IoctlApp WITH
          Procs <- Users, Values <- IntValues, phase <- phase_ia, pc <- pc_ia, arg <- arg_ia,
          kernel_buffer <- kernel_buffer_ia, alone <- alone_ia

vars_at == <<phase_at, counter, operations_count, large_counter, bit_flags, ref_count, pc_at,
             op_at, arg_at, old_val, effects, read_at, refs, seen_at>>
vars_pd == <<phase_pd, entry_id, message, log_count, next_id, adds, raced, pc_pd, local, text,
             moved, pos, seen_pd, said, walked>>
vars_ma == <<phase_ma, demo_cache, script, ptrs, allocated_ma, held, results, pc_ma, overtaken,
             commands>>
vars_ds == <<phase_ds, step, linked, msg_queue, allocated_ds, leaked, at, seen_ds>>
vars_pe == <<phase_pe, kernel_buffer_pe, pc_pe, part, got, alone_pe>>
vars_se == <<phase_se, example_value, example_string, pc_se, buf, count, i, alone_se>>
vars_ia == <<phase_ia, made, opened, pc_ia, cmd, arg_ia, lock, value, string, kernel_buffer_ia,
             ret, reply, todo, alone_ia>>
MCvars == <<demo, vars_at, vars_pd, vars_ma, vars_ds, vars_pe, vars_se, vars, vars_ia>>

MCInit ==
    /\ demo \in {"atomic", "log", "allocator", "structures", "hello", "sysfs", "vfs", "ioctl"}
    /\ AT!Init /\ PD!Init /\ MA!Init /\ DS!Init /\ PE!Init /\ SE!Init /\ Init /\ IA!AppInit

\* The other modules stay out.
Only(d) ==
    /\ demo = d /\ UNCHANGED demo
    /\ IF d = "atomic" THEN TRUE ELSE UNCHANGED vars_at
    /\ IF d = "log" THEN TRUE ELSE UNCHANGED vars_pd
    /\ IF d = "allocator" THEN TRUE ELSE UNCHANGED vars_ma
    /\ IF d = "structures" THEN TRUE ELSE UNCHANGED vars_ds
    /\ IF d = "hello" THEN TRUE ELSE UNCHANGED vars_pe
    /\ IF d = "sysfs" THEN TRUE ELSE UNCHANGED vars_se
    /\ IF d = "vfs" THEN TRUE ELSE UNCHANGED vars
    /\ IF d = "ioctl" THEN TRUE ELSE UNCHANGED vars_ia

MCNext ==
    \/ Only("atomic") /\ AT!Next
    \/ Only("log") /\ PD!Next
    \/ Only("allocator") /\ MA!Next
    \/ Only("structures") /\ DS!Next
    \/ Only("hello") /\ PE!Next
    \/ Only("sysfs") /\ SE!Next
    \/ Only("vfs") /\ Next
    \/ Only("ioctl") /\ IA!AppNext

MCSpec == MCInit /\ [][MCNext]_MCvars

-----------------------------------------------------------------------------
\* Every variable of the module that runs keeps its type.
MCTypeOK ==
    CASE demo = "atomic"     -> AT!TypeOK
      [] demo = "log"        -> PD!TypeOK
      [] demo = "allocator"  -> MA!TypeOK
      [] demo = "structures" -> DS!TypeOK
      [] demo = "hello"      -> PE!TypeOK
      [] demo = "sysfs"      -> SE!TypeOK
      [] demo = "vfs"        -> TypeOK
      [] demo = "ioctl"      -> IA!AppTypeOK

\* atomic_demo.c: the printed operation count covers the printed counter, and
\* cmpxchg fails only if the counter changed in between.
AtomicsAgree == AT!OpsCoverCounter /\ AT!CasFailsOnlyOnChange

\* pos_demo.c: the log keeps the newest entries, in order and whole; a walk of
\* it prints ids in order, and an entry torn only while a full log shifts.
LogInOrder == PD!KeepsNewest /\ PD!WalkGoesForward /\ PD!TornOnlyWhenFull

\* ioctl_app.c: an undisturbed run is answered what it has set.
TestAnswersRight == IA!TestAnswersRight
=============================================================================
