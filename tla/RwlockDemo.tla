----------------------------- MODULE RwlockDemo -----------------------------
(***************************************************************************)
(* examples/class_3/08_rwlock_demo/rwlock_demo.c                           *)
(*                                                                         *)
(* Readers and writers of shared_data and last_update under a spinning     *)
(* rwlock_t.  Both handlers call msleep with the lock held, so the model   *)
(* has CPUs: a task that spins keeps its CPU, a task in msleep gives it up *)
(* and needs a free one to go on.  The lock serves its queue in order, as  *)
(* the kernel's queued rwlock does.                                        *)
(***************************************************************************)
EXTENDS Naturals, Sequences, FiniteSets

CONSTANTS Readers, Writers,  \* tasks
          Cpus,              \* number of processors
          Values,            \* what is written to /proc/rwlock_writer
          MaxJiffies         \* bound on the clock

VARIABLES phase,          \* of the module
          jiffies,
          shared_data, last_update,
          readers, writer, queue,  \* data_rwlock: holders and waiting tasks
          on_cpu,         \* tasks that occupy a CPU
          pc,
          input,          \* new_value of each writer
          seen,           \* <<local_data, local_time>> of each reader
          stamped         \* history: every <<shared_data, last_update>> ever set

lockVars == <<readers, writer, queue>>
dataVars == <<shared_data, last_update, stamped>>
vars == <<phase, jiffies, dataVars, lockVars, on_cpu, pc, input, seen>>

Tasks   == Readers \cup Writers
Outside == {"idle", "eof"}
Labels  == Outside \cup {"enter", "spin", "data", "time", "asleep", "woken", "reply"}
Nobody  == "nobody"

TypeOK ==
    /\ phase \in {"out", "init_writer", "init_time", "undo", "live", "rm_reader", "rm_writer"}
    /\ jiffies \in 0 .. MaxJiffies /\ last_update \in 0 .. MaxJiffies
    /\ shared_data \in Values \cup {0}
    /\ readers \subseteq Readers /\ writer \in Writers \cup {Nobody}
    /\ queue \in Seq(Tasks)
    /\ on_cpu \subseteq Tasks /\ Cardinality(on_cpu) <= Cpus
    /\ pc \in [Tasks -> Labels]
    /\ input \in [Writers -> Values \cup {0}]
    /\ seen \in [Readers -> (Values \cup {0}) \X (0 .. MaxJiffies)]

Init ==
    /\ phase = "out" /\ jiffies = 0
    /\ shared_data = 0 /\ last_update = 0 /\ stamped = {<<0, 0>>}
    /\ readers = {} /\ writer = Nobody /\ queue = <<>>
    /\ on_cpu = {}
    /\ pc = [t \in Tasks |-> "idle"]
    /\ input = [w \in Writers |-> 0]
    /\ seen = [r \in Readers |-> <<0, 0>>]

Goto(t, from, to) == pc[t] = from /\ pc' = [pc EXCEPT ![t] = to]

-----------------------------------------------------------------------------
\* rw_lock_init: proc_create of the reader file, with fresh statics ...
InitReaderFile ==
    /\ phase = "out"
    /\ phase' = "init_writer"
    /\ shared_data' = 0 /\ last_update' = 0 /\ stamped' = {<<0, 0>>}
    /\ UNCHANGED <<jiffies, lockVars, on_cpu, pc, input, seen>>

\* ... then of the writer file; on failure the reader file is removed again ...
InitWriterFile ==
    /\ phase = "init_writer"
    /\ phase' \in {"init_time", "undo"}
    /\ UNCHANGED <<jiffies, dataVars, lockVars, on_cpu, pc, input, seen>>

InitUndone ==
    /\ phase = "undo"
    /\ \A r \in Readers : pc[r] \in Outside
    /\ phase' = "out"
    /\ UNCHANGED <<jiffies, dataVars, lockVars, on_cpu, pc, input, seen>>

\* ... then last_update is set, without the lock, while both files are live.
InitTime ==
    /\ phase = "init_time"
    /\ phase' = "live"
    /\ last_update' = jiffies
    /\ stamped' = stamped \cup {<<shared_data, jiffies>>}
    /\ UNCHANGED <<jiffies, shared_data, lockVars, on_cpu, pc, input, seen>>

\* rw_lock_exit: proc_remove of the reader file starts ...
ExitBegin ==
    /\ phase = "live"
    /\ phase' = "rm_reader"
    /\ UNCHANGED <<jiffies, dataVars, lockVars, on_cpu, pc, input, seen>>

\* ... waits for its handlers, then proc_remove of the writer file starts ...
ExitReaderGone ==
    /\ phase = "rm_reader"
    /\ \A r \in Readers : pc[r] \in Outside
    /\ phase' = "rm_writer"
    /\ UNCHANGED <<jiffies, dataVars, lockVars, on_cpu, pc, input, seen>>

\* ... and waits for its handlers.
ExitDone ==
    /\ phase = "rm_writer"
    /\ \A w \in Writers : pc[w] \in Outside
    /\ phase' = "out"
    /\ UNCHANGED <<jiffies, dataVars, lockVars, on_cpu, pc, input, seen>>

\* The writer file is still live while the reader file is being removed.
ReaderFileLive == phase \in {"init_writer", "init_time", "live"}
WriterFileLive == phase \in {"init_time", "live", "rm_reader"}

-----------------------------------------------------------------------------
\* The clock, and the scheduler: a runnable task gets a free CPU.
Tick ==
    /\ jiffies < MaxJiffies
    /\ jiffies' = jiffies + 1
    /\ UNCHANGED <<phase, dataVars, lockVars, on_cpu, pc, input, seen>>

Dispatch(t) ==
    /\ pc[t] \in {"enter", "woken"}
    /\ t \notin on_cpu
    /\ Cardinality(on_cpu) < Cpus
    /\ on_cpu' = on_cpu \cup {t}
    /\ UNCHANGED <<phase, jiffies, dataVars, lockVars, pc, input, seen>>

\* The msleep timer expires.
Wake(t) ==
    /\ Goto(t, "asleep", "woken")
    /\ UNCHANGED <<phase, jiffies, dataVars, lockVars, on_cpu, input, seen>>

\* read_lock / write_lock: queue up and spin on the CPU.
Enqueue(t) ==
    /\ t \in on_cpu
    /\ Goto(t, "enter", "spin")
    /\ queue' = Append(queue, t)
    /\ UNCHANGED <<phase, jiffies, dataVars, readers, writer, on_cpu, input, seen>>

-----------------------------------------------------------------------------
\* reader_read
ReadBegin(r) ==
    /\ ReaderFileLive
    /\ Goto(r, "idle", "enter")
    /\ UNCHANGED <<phase, jiffies, dataVars, lockVars, on_cpu, input, seen>>

ReadLocked(r) ==
    /\ queue # <<>> /\ Head(queue) = r /\ writer = Nobody
    /\ queue' = Tail(queue)
    /\ readers' = readers \cup {r}
    /\ Goto(r, "spin", "data")
    /\ UNCHANGED <<phase, jiffies, dataVars, writer, on_cpu, input, seen>>

ReadData(r) ==
    /\ Goto(r, "data", "time")
    /\ seen' = [seen EXCEPT ![r] = <<shared_data, 0>>]
    /\ UNCHANGED <<phase, jiffies, dataVars, lockVars, on_cpu, input>>

\* local_time = last_update, then msleep with the lock held
ReadTime(r) ==
    /\ Goto(r, "time", "asleep")
    /\ seen' = [seen EXCEPT ![r][2] = last_update]
    /\ on_cpu' = on_cpu \ {r}
    /\ UNCHANGED <<phase, jiffies, dataVars, lockVars, input>>

ReadUnlock(r) ==
    /\ r \in on_cpu
    /\ Goto(r, "woken", "reply")
    /\ readers' = readers \ {r}
    /\ UNCHANGED <<phase, jiffies, dataVars, writer, queue, on_cpu, input, seen>>

\* copy_to_user; a fault leaves *pos at 0
ReadReply(r) ==
    /\ \E next \in Outside : Goto(r, "reply", next)
    /\ on_cpu' = on_cpu \ {r}
    /\ seen' = [seen EXCEPT ![r] = <<0, 0>>]
    /\ UNCHANGED <<phase, jiffies, dataVars, lockVars, input>>

ReadEof(r) ==
    /\ Goto(r, "eof", "idle")
    /\ UNCHANGED <<phase, jiffies, dataVars, lockVars, on_cpu, input, seen>>

-----------------------------------------------------------------------------
\* writer_write; input that is too long, faults or does not parse is refused
\* before the lock and leaves no trace.
WriteBegin(w, new_value) ==
    /\ WriterFileLive
    /\ Goto(w, "idle", "enter")
    /\ input' = [input EXCEPT ![w] = new_value]
    /\ UNCHANGED <<phase, jiffies, dataVars, lockVars, on_cpu, seen>>

WriteLocked(w) ==
    /\ queue # <<>> /\ Head(queue) = w /\ writer = Nobody /\ readers = {}
    /\ queue' = Tail(queue)
    /\ writer' = w
    /\ Goto(w, "spin", "data")
    /\ UNCHANGED <<phase, jiffies, dataVars, readers, on_cpu, input, seen>>

\* Fault: the lock is dropped between the two assignments.
WriteDataUnlocked(w) ==
    /\ Goto(w, "data", "time")
    /\ shared_data' = input[w]
    /\ writer' = Nobody
    /\ UNCHANGED <<phase, jiffies, last_update, stamped, readers, queue, on_cpu, input, seen>>

WriteData(w) ==
    /\ Goto(w, "data", "time")
    /\ shared_data' = input[w]
    /\ UNCHANGED <<phase, jiffies, last_update, stamped, lockVars, on_cpu, input, seen>>

\* last_update = jiffies, then msleep with the lock held
WriteTime(w) ==
    /\ Goto(w, "time", "asleep")
    /\ last_update' = jiffies
    /\ stamped' = stamped \cup {<<shared_data, jiffies>>}
    /\ on_cpu' = on_cpu \ {w}
    /\ UNCHANGED <<phase, jiffies, shared_data, lockVars, input, seen>>

WriteUnlock(w) ==
    /\ w \in on_cpu
    /\ Goto(w, "woken", "reply")
    /\ writer' = Nobody
    /\ UNCHANGED <<phase, jiffies, dataVars, readers, queue, on_cpu, input, seen>>

WriteReturn(w) ==
    /\ Goto(w, "reply", "idle")
    /\ on_cpu' = on_cpu \ {w}
    /\ input' = [input EXCEPT ![w] = 0]
    /\ UNCHANGED <<phase, jiffies, dataVars, lockVars, seen>>

-----------------------------------------------------------------------------
ReadStep(r) ==
    \/ Enqueue(r) \/ ReadLocked(r) \/ ReadData(r) \/ ReadTime(r) \/ ReadUnlock(r)
    \/ ReadReply(r)

WriteStep(w) ==
    \/ Enqueue(w) \/ WriteLocked(w) \/ WriteData(w) \/ WriteTime(w) \/ WriteUnlock(w)
    \/ WriteReturn(w)

Next ==
    \/ InitReaderFile \/ InitWriterFile \/ InitUndone \/ InitTime
    \/ ExitBegin \/ ExitReaderGone \/ ExitDone
    \/ Tick
    \/ \E t \in Tasks : Dispatch(t) \/ Wake(t)
    \/ \E r \in Readers : ReadBegin(r) \/ ReadStep(r) \/ ReadEof(r)
    \/ \E w \in Writers : WriteStep(w) \/ \E v \in Values : WriteBegin(w, v)

Spec == Init /\ [][Next]_vars

\* A task on a CPU runs, sleep timers expire, and the run queue is fair: a
\* runnable task is dispatched if a CPU becomes free again and again.
Fairness ==
    /\ \A t \in Tasks : SF_vars(Dispatch(t)) /\ WF_vars(Wake(t))
    /\ \A r \in Readers : WF_vars(ReadStep(r))
    /\ \A w \in Writers : WF_vars(WriteStep(w))

FairSpec == Spec /\ Fairness

-----------------------------------------------------------------------------
\* The value a reader prints is the one shared_data had when last_update was
\* set to the time it prints, the unlocked assignment of rw_lock_init included
\* (lines 29-30, 73-74, 106).
SnapshotConsistent ==
    \A r \in Readers : pc[r] \in {"asleep", "woken", "reply"} => seen[r] \in stamped

\* Every read and every write returns (lines 27-47, 71-83).  With a CPU for
\* each task this holds; see the runs for the single CPU of the test setup.
HandlerReturns == \A t \in Tasks : pc[t] \notin Outside ~> pc[t] \in Outside
=============================================================================
