--------------------------- MODULE InterruptDemo ----------------------------
(***************************************************************************)
(* examples/class_4/01_interrupt_demo/interrupt_demo.c                     *)
(*                                                                         *)
(* Opening /proc/timer_irq arms a timer whose callback counts a simulated  *)
(* interrupt.  The exit function stops the timer first and removes the     *)
(* file second, so an open between the two arms the timer again.           *)
(***************************************************************************)
EXTENDS Naturals, Deferred

CONSTANTS Procs,     \* processes that open the file
          MaxOpens   \* bound on the opens after one load

VARIABLES phase,     \* "out", "live", "stop_timer", "remove", "rundown"
          my_timer, interrupt_count,
          pc,        \* of each process: "idle", or "open" inside proc_open
          opens,     \* history: opens since the load
          late       \* history: mod_timer was called after del_timer_sync

vars == <<phase, my_timer, interrupt_count, pc, opens, late>>

TypeOK ==
    /\ phase \in {"out", "live", "stop_timer", "remove", "rundown"}
    /\ my_timer \in Item
    /\ interrupt_count \in 0 .. MaxOpens
    /\ pc \in [Procs -> {"idle", "open"}]
    /\ opens \in 0 .. MaxOpens
    /\ late \in BOOLEAN

Init ==
    /\ phase = "out"
    /\ my_timer = Quiet
    /\ interrupt_count = 0
    /\ pc = [p \in Procs |-> "idle"]
    /\ opens = 0
    /\ late = FALSE

\* timer_irq_init: timer_setup, then the file; without it the load fails
timer_irq_init ==
    /\ phase = "out"
    /\ phase' = "live"
    /\ my_timer' = Quiet
    /\ interrupt_count' = 0
    /\ opens' = 0 /\ late' = FALSE
    /\ UNCHANGED pc

-----------------------------------------------------------------------------
\* proc_open is entered while the file exists ...
OpenBegin(p) ==
    /\ phase \in {"live", "stop_timer", "remove"}
    /\ pc[p] = "idle"
    /\ opens < MaxOpens
    /\ pc' = [pc EXCEPT ![p] = "open"]
    /\ opens' = opens + 1
    /\ UNCHANGED <<phase, my_timer, interrupt_count, late>>

\* ... and arms the timer.
proc_open(p) ==
    /\ pc[p] = "open"
    /\ my_timer' = Armed(my_timer)
    /\ late' = (late \/ phase \in {"remove", "rundown"})
    /\ pc' = [pc EXCEPT ![p] = "idle"]
    /\ UNCHANGED <<phase, interrupt_count, opens>>

TimerExpires ==
    /\ CanStart(my_timer)
    /\ my_timer' = Started(my_timer)
    /\ UNCHANGED <<phase, interrupt_count, pc, opens, late>>

\* Fault: the callback arms the timer again.
timer_callback_periodic ==
    /\ my_timer.running
    /\ interrupt_count' = interrupt_count + 1
    /\ my_timer' = Armed(Returned(my_timer))
    /\ UNCHANGED <<phase, pc, opens, late>>

\* timer_callback runs timer_irq_handler
timer_callback ==
    /\ my_timer.running
    /\ interrupt_count' = interrupt_count + 1
    /\ my_timer' = Returned(my_timer)
    /\ UNCHANGED <<phase, pc, opens, late>>

-----------------------------------------------------------------------------
\* timer_irq_exit
ExitBegin ==
    /\ phase = "live"
    /\ phase' = "stop_timer"
    /\ UNCHANGED <<my_timer, interrupt_count, pc, opens, late>>

StopTimer ==
    /\ phase = "stop_timer"
    /\ CanCancel(my_timer)
    /\ my_timer' = Cancelled(my_timer)
    /\ phase' = "remove"
    /\ UNCHANGED <<interrupt_count, pc, opens, late>>

\* proc_remove: no new opens, then the running ones are waited for
RemoveFile ==
    /\ phase = "remove"
    /\ phase' = "rundown"
    /\ UNCHANGED <<my_timer, interrupt_count, pc, opens, late>>

timer_irq_exit ==
    /\ phase = "rundown"
    /\ \A p \in Procs : pc[p] = "idle"
    /\ phase' = "out"
    /\ UNCHANGED <<my_timer, interrupt_count, pc, opens, late>>

-----------------------------------------------------------------------------
Next ==
    \/ timer_irq_init \/ ExitBegin \/ StopTimer \/ RemoveFile \/ timer_irq_exit
    \/ TimerExpires \/ timer_callback
    \/ \E p \in Procs : OpenBegin(p) \/ proc_open(p)

Spec == Init /\ [][Next]_vars

-----------------------------------------------------------------------------
\* Every simulated interrupt was asked for: the interrupts counted, running and
\* outstanding are never more than the opens (lines 25, 38).
InterruptsWereAskedFor ==
    interrupt_count + (IF my_timer.pending THEN 1 ELSE 0)
                    + (IF my_timer.running THEN 1 ELSE 0) <= opens

\* The timer outlives the module only if a process armed it between
\* del_timer_sync and the end of proc_remove (lines 38, 61-62).
OnlyLateOpenLeaks == phase = "out" /\ my_timer # Quiet => late

\* No timer is left behind when the module is gone (lines 61-62).
TimerStopped == phase = "out" => my_timer = Quiet
=============================================================================
