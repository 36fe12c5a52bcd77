----------------------------- MODULE ThreadedIrq ----------------------------
(***************************************************************************)
(* examples/class_5/00_threaded_irq_demo/threaded_irq_demo.c               *)
(*                                                                         *)
(* A primary handler and a threaded handler on a shared line, and a proc   *)
(* file whose writes call the same functions from process context.         *)
(* primary_handler_count is atomic, irq_counter++ is a load and a store,   *)
(* and shared_counter with its message is under a mutex.                   *)
(***************************************************************************)
EXTENDS Naturals, FiniteSets

CONSTANTS Writers, Viewers,  \* processes that write to and read the file
          MaxIrqs            \* bound on primary handler executions per load

\* The hard interrupt and the irq thread are contexts beside the processes.
HardIrq   == "hardirq"
IrqThread == "irq_thread"
Primaries == Writers \cup {HardIrq}
Threads   == Writers \cup {IrqThread}
Contexts  == Writers \cup Viewers \cup {HardIrq, IrqThread}
Nobody    == "nobody"

VARIABLES phase,             \* of the module: out, live, or the step of init or exit
          primary_handler_count, thread_handler_count,
          irq_counter, loaded,
          shared_data_mutex, \* holder, or Nobody
          shared_counter,
          shared_message,    \* the number in the message
          wake,              \* the irq thread was woken and has not started
          full,              \* the writers that trigger the threaded handler too
          pc,
          shown              \* of a viewer: <<shared_counter, message number>>

counters == <<primary_handler_count, thread_handler_count, irq_counter, loaded>>
shared   == <<shared_data_mutex, shared_counter, shared_message>>
vars == <<phase, counters, shared, wake, full, pc, shown>>

Phases == {"out", "irq", "live", "remove", "sync", "free"}
Labels == {"idle", "primary", "load", "store", "thread", "lock", "count", "message", "unlock",
           "tail", "shown"}

TypeOK ==
    /\ phase \in Phases
    /\ primary_handler_count \in 0 .. MaxIrqs /\ thread_handler_count \in 0 .. MaxIrqs
    /\ irq_counter \in 0 .. MaxIrqs /\ loaded \in [Primaries -> 0 .. MaxIrqs]
    /\ shared_data_mutex \in Contexts \cup {Nobody}
    /\ shared_counter \in 0 .. MaxIrqs /\ shared_message \in 0 .. MaxIrqs
    /\ wake \in BOOLEAN /\ full \subseteq Writers
    /\ pc \in [Contexts -> Labels]
    /\ shown \in [Viewers -> (0 .. MaxIrqs) \X (0 .. MaxIrqs)]

Init ==
    /\ phase = "out"
    /\ primary_handler_count = 0 /\ thread_handler_count = 0
    /\ irq_counter = 0 /\ loaded = [c \in Primaries |-> 0]
    /\ shared_data_mutex = Nobody /\ shared_counter = 0 /\ shared_message = 0
    /\ wake = FALSE /\ full = {}
    /\ pc = [c \in Contexts |-> "idle"]
    /\ shown = [v \in Viewers |-> <<0, 0>>]

Goto(c, from, to) == pc[c] = from /\ pc' = [pc EXCEPT ![c] = to]

-----------------------------------------------------------------------------
\* my_init: the interrupt line (without it the load fails) ...
RequestIrq ==
    /\ phase = "out"
    /\ phase' = "irq"
    /\ primary_handler_count' = 0 /\ thread_handler_count' = 0 /\ irq_counter' = 0
    /\ shared_counter' = 0 /\ shared_message' = 0
    /\ UNCHANGED <<loaded, shared_data_mutex, wake, full, pc, shown>>

\* ... and the file; without it, free_irq.
CreateFile ==
    /\ phase = "irq"
    /\ phase' \in {"live", "free"}
    /\ UNCHANGED <<counters, shared, wake, full, pc, shown>>

\* my_exit: proc_remove waits for the handlers of the file ...
ExitBegin ==
    /\ phase = "live"
    /\ phase' = "remove"
    /\ UNCHANGED <<counters, shared, wake, full, pc, shown>>

RemoveFile ==
    /\ phase = "remove"
    /\ \A p \in Writers \cup Viewers : pc[p] = "idle"
    /\ phase' = "sync"
    /\ UNCHANGED <<counters, shared, wake, full, pc, shown>>

IrqQuiet == pc[HardIrq] = "idle" /\ pc[IrqThread] = "idle" /\ ~wake

\* ... synchronize_irq for running handlers, the thread's included ...
SynchronizeIrq ==
    /\ phase = "sync"
    /\ IrqQuiet
    /\ phase' = "free"
    /\ UNCHANGED <<counters, shared, wake, full, pc, shown>>

\* ... and free_irq takes the handlers off the line and waits for them again.
my_exit ==
    /\ phase = "free"
    /\ IrqQuiet
    /\ phase' = "out"
    /\ UNCHANGED <<counters, shared, wake, full, pc, shown>>

-----------------------------------------------------------------------------
\* Each primary handler that began is counted against the bound.
Begun == primary_handler_count + Cardinality({c \in Primaries : pc[c] = "primary"})

\* An interrupt on the line; the hard handler does not nest.  The line is on
\* until free_irq.
Interrupt ==
    /\ phase \notin {"out"}
    /\ Begun < MaxIrqs
    /\ Goto(HardIrq, "idle", "primary")
    /\ UNCHANGED <<phase, counters, shared, wake, full, shown>>

\* advanced_threaded_irq_proc_write: 1 calls the primary handler, 2 both; other
\* input is refused
WriteBegin(p, both) ==
    /\ phase = "live"
    /\ Begun < MaxIrqs
    /\ Goto(p, "idle", "primary")
    /\ full' = IF both THEN full \cup {p} ELSE full \ {p}
    /\ UNCHANGED <<phase, counters, shared, wake, shown>>

\* my_interrupt: atomic_inc, then the load and the store of irq_counter++
CountPrimary(c) ==
    /\ Goto(c, "primary", "load")
    /\ primary_handler_count' = primary_handler_count + 1
    /\ UNCHANGED <<phase, thread_handler_count, irq_counter, loaded, shared, wake, full, shown>>

LoadCounter(c) ==
    /\ Goto(c, "load", "store")
    /\ loaded' = [loaded EXCEPT ![c] = irq_counter]
    /\ UNCHANGED <<phase, primary_handler_count, thread_handler_count, irq_counter, shared, wake,
                   full, shown>>

\* The hard handler wakes the irq thread; a writer goes on by itself or returns.
StoreCounter(c) ==
    /\ Goto(c, "store", IF c \in full THEN "thread" ELSE "idle")
    /\ irq_counter' = loaded[c] + 1
    /\ loaded' = [loaded EXCEPT ![c] = 0]
    /\ wake' = (wake \/ c = HardIrq)
    /\ UNCHANGED <<phase, primary_handler_count, thread_handler_count, shared, full, shown>>

ThreadWakes ==
    /\ wake
    /\ Goto(IrqThread, "idle", "thread")
    /\ wake' = FALSE
    /\ UNCHANGED <<phase, counters, shared, full, shown>>

-----------------------------------------------------------------------------
\* my_threaded_interrupt
CountThread(c) ==
    /\ Goto(c, "thread", "lock")
    /\ thread_handler_count' = thread_handler_count + 1
    /\ UNCHANGED <<phase, primary_handler_count, irq_counter, loaded, shared, wake, full, shown>>

\* Fault: goes on while another context holds the mutex.
LockUnchecked(c) ==
    /\ Goto(c, "lock", "count")
    /\ shared_data_mutex' = c
    /\ UNCHANGED <<phase, counters, shared_counter, shared_message, wake, full, shown>>

LockMutex(c) ==
    /\ shared_data_mutex = Nobody
    /\ Goto(c, "lock", "count")
    /\ shared_data_mutex' = c
    /\ UNCHANGED <<phase, counters, shared_counter, shared_message, wake, full, shown>>

CountShared(c) ==
    /\ Goto(c, "count", "message")
    /\ shared_counter' = shared_counter + 1
    /\ UNCHANGED <<phase, counters, shared_data_mutex, shared_message, wake, full, shown>>

WriteMessage(c) ==
    /\ Goto(c, "message", "unlock")
    /\ shared_message' = shared_counter
    /\ UNCHANGED <<phase, counters, shared_data_mutex, shared_counter, wake, full, shown>>

UnlockMutex(c) ==
    /\ Goto(c, "unlock", "tail")
    /\ shared_data_mutex' = Nobody
    /\ UNCHANGED <<phase, counters, shared_counter, shared_message, wake, full, shown>>

\* Fault: forgets an interrupt that came in meanwhile.
ThreadForgets(c) ==
    /\ Goto(c, "tail", "idle")
    /\ full' = full \ {c}
    /\ wake' = FALSE
    /\ UNCHANGED <<phase, counters, shared, shown>>

\* allocation, sleep, calculation, return
ThreadReturns(c) ==
    /\ Goto(c, "tail", "idle")
    /\ full' = full \ {c}
    /\ UNCHANGED <<phase, counters, shared, wake, shown>>

-----------------------------------------------------------------------------
\* advanced_threaded_irq_proc_show prints the shared data under the mutex
ShowLock(v) ==
    /\ phase = "live"
    /\ shared_data_mutex = Nobody
    /\ Goto(v, "idle", "count")
    /\ shared_data_mutex' = v
    /\ UNCHANGED <<phase, counters, shared_counter, shared_message, wake, full, shown>>

ShowCounter(v) ==
    /\ Goto(v, "count", "message")
    /\ shown' = [shown EXCEPT ![v] = <<shared_counter, 0>>]
    /\ UNCHANGED <<phase, counters, shared, wake, full>>

ShowMessage(v) ==
    /\ Goto(v, "message", "shown")
    /\ shown' = [shown EXCEPT ![v][2] = shared_message]
    /\ shared_data_mutex' = Nobody
    /\ UNCHANGED <<phase, counters, shared_counter, shared_message, wake, full>>

ShowReturns(v) ==
    /\ Goto(v, "shown", "idle")
    /\ shown' = [shown EXCEPT ![v] = <<0, 0>>]
    /\ UNCHANGED <<phase, counters, shared, wake, full>>

-----------------------------------------------------------------------------
PrimaryStep(c) == CountPrimary(c) \/ LoadCounter(c) \/ StoreCounter(c)

ThreadStep(c) ==
    CountThread(c) \/ LockMutex(c) \/ CountShared(c) \/ WriteMessage(c) \/ UnlockMutex(c)
    \/ ThreadReturns(c)

ShowStep(v) == ShowCounter(v) \/ ShowMessage(v) \/ ShowReturns(v)

Next ==
    \/ RequestIrq \/ CreateFile
    \/ ExitBegin \/ RemoveFile \/ SynchronizeIrq \/ my_exit
    \/ Interrupt \/ ThreadWakes
    \/ \E c \in Primaries : PrimaryStep(c)
    \/ \E c \in Threads : ThreadStep(c)
    \/ \E p \in Writers, both \in BOOLEAN : WriteBegin(p, both)
    \/ \E v \in Viewers : ShowLock(v) \/ ShowStep(v)

Spec == Init /\ [][Next]_vars

\* Handlers run, the woken thread starts, and a waiter for the mutex gets it.
Fairness ==
    /\ WF_vars(ThreadWakes)
    /\ \A c \in Primaries : WF_vars(PrimaryStep(c))
    /\ \A c \in Threads : WF_vars(ThreadStep(c)) /\ SF_vars(LockMutex(c))
    /\ \A v \in Viewers : WF_vars(ShowStep(v))

FairSpec == Spec /\ Fairness

-----------------------------------------------------------------------------
\* The file never shows a counter with the message of another one, whether the
\* irq thread or a writer ran the handler (lines 78-83, 128-132); before the
\* first execution the message is the initial one.
ShownTogether == \A v \in Viewers : pc[v] = "shown" => shown[v][1] = shown[v][2]

\* No handler runs and no thread is awake when the module is gone (lines 233-237).
HandlersGone ==
    phase = "out" => ~wake /\ \A c \in Contexts : pc[c] = "idle"

\* Interrupts may be merged before the thread runs, but one that comes in, even
\* while the thread is busy, is answered by an execution of the threaded
\* handler that starts after it (lines 57, 61).
ThreadAnswers == (wake /\ pc[IrqThread] # "thread") ~> pc[IrqThread] = "thread"
=============================================================================
