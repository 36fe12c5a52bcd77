------------------------------ MODULE ProcFiles -----------------------------
(***************************************************************************)
(* Modules with memory that their files of /proc and /sys work on: what    *)
(* the commands of the allocator demo get and free (MA), the linked items  *)
(* (DS), the buffer of the hello file (PE), the string attribute (SE).     *)
(***************************************************************************)
EXTENDS Naturals, Sequences

CONSTANTS Users, Viewers, Commander,          \* processes
          Loader, ArraySize, MaxCommands,     \* MemAllocator
          QUEUE_SIZE,                         \* DataStructures
          Chars, StringSize                   \* SysfsExample

VARIABLES phase_ma, demo_cache, script, ptrs, allocated_ma, held, results, pc_ma,
          overtaken, commands,
          phase_ds, step, linked, msg_queue, allocated_ds, leaked, at, seen_ds,
          phase_pe, kernel_buffer_pe, pc_pe, part, got, alone_pe,
          phase_se, example_value, example_string, pc_se, buf, count, i, alone_se

MA == INSTANCE MemAllocator WITH
          Writers <- {Commander}, N <- ArraySize, phase <- phase_ma, allocated <- allocated_ma,
          pc <- pc_ma

DS == INSTANCE DataStructures WITH
          phase <- phase_ds, allocated <- allocated_ds, seen <- seen_ds

PE == INSTANCE ProcExample WITH
          Readers <- Users, Writers <- {Commander}, phase <- phase_pe,
          kernel_buffer <- kernel_buffer_pe, pc <- pc_pe, alone <- alone_pe

SE == INSTANCE SysfsExample WITH
          Procs <- Users, Size <- StringSize, phase <- phase_se, pc <- pc_se, alone <- alone_se

\* Sizes and bounds are numbers, and the array of the attribute has room for a
\* byte and the NUL.
ASSUME ProcFilesAssumption ==
    /\ ArraySize \in Nat /\ MaxCommands \in Nat
    /\ QUEUE_SIZE \in Nat
    /\ StringSize \in Nat /\ StringSize > 1

\* mem_allocator_demo.c: whichever allocations fail, a command frees what it got,
\* once; data_structures_demo.c: exit frees what init linked, and only an init
\* that fails at its last call leaves anything.
AllFreedOnce == MA!AllFreedOnce /\ DS!OnlyFailedLoadLeaks

\* mem_allocator_demo.c, data_structures_demo.c, proc_example.c: the cache, the
\* items and the buffer outlive the calls on the proc file that use them.
OutlivesCalls == MA!CacheOutlivesObjects /\ DS!ShowsWhatIsThere /\ PE!BufferOutlivesCalls

\* proc_example.c, sysfs_example.c, mem_allocator_demo.c: a read that nobody wrote
\* over tells the reader's own pid; a store that nobody wrote into is what is
\* shown, and however stores overlap, what is shown ends within the array; a time
\* that was checked and not stored again is not zero when it divides.
UndisturbedIsWhole ==
    PE!ReadsOwnPid /\ SE!StoreShows /\ SE!StringEnds /\ MA!UndisturbedDivides
=============================================================================
