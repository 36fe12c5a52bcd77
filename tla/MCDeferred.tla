----------------------------- MODULE MCDeferred -----------------------------
(***************************************************************************)
(* The modules with timers, tasklets, work queues and interrupt threads,   *)
(* checked side by side.  They share no state, so a behaviour is that of   *)
(* one of them, the demo; the others stay unloaded.                        *)
(***************************************************************************)
EXTENDS ShownCounters, DeferredWork

VARIABLE demo

vars_id == <<phase_id, my_timer, interrupt_count, pc_id, opens, late_id>>
vars_ti == <<phase_ti, proc_file, periodic_timer, hr_timer_ti, periodic_count, hr_count>>
vars_td == <<phase_td, tasklet_timer, counter_td, tasklets, count_td, loaded_td, runs, writes,
             pc_td, late_td>>
vars_wq == <<phase_wq, work_timer, counter_wq, demo_work_wq, pool, handler, copy, delayed_work,
             custom_wq, work_count_wq, delayed_count>>
vars_io == <<phase_io, demo_timer, hr_timer_io, demo_tasklet, demo_work_io, demo_wq, timer_count,
             hrtimer_count, tasklet_count, work_count_io, failing>>
vars_irq == <<phase_irq, primary_handler_count, thread_handler_count, irq_counter, loaded_irq,
              mutex_irq, shared_counter, message_irq, wake, full, pc_irq, shown>>
vars_tm == <<kind, phase_tm, timer, count_tm, work, bottom_count, top_half_time, raised, jiffies,
             start_jiffies, elapsed, told, at, total, sum>>
vars == <<demo, vars_id, vars_ti, vars_td, vars_wq, vars_io, vars_irq, vars_tm>>

Init ==
    /\ demo \in {"interrupt", "timer", "tasklet", "work", "ioctl", "irq", "timers"}
    /\ ID!Init /\ TI!Init /\ TD!Init /\ WQ!Init /\ IO!Init /\ TH!Init /\ TM!Init

\* The other modules stay out.
Only(d) ==
    /\ demo = d /\ UNCHANGED demo
    /\ IF d = "interrupt" THEN TRUE ELSE UNCHANGED vars_id
    /\ IF d = "timer" THEN TRUE ELSE UNCHANGED vars_ti
    /\ IF d = "tasklet" THEN TRUE ELSE UNCHANGED vars_td
    /\ IF d = "work" THEN TRUE ELSE UNCHANGED vars_wq
    /\ IF d = "ioctl" THEN TRUE ELSE UNCHANGED vars_io
    /\ IF d = "irq" THEN TRUE ELSE UNCHANGED vars_irq
    /\ IF d = "timers" THEN TRUE ELSE UNCHANGED vars_tm

Next ==
    \/ Only("interrupt") /\ ID!Next
    \/ Only("timer") /\ TI!Next
    \/ Only("tasklet") /\ TD!Next
    \/ Only("work") /\ WQ!Next
    \/ Only("ioctl") /\ IO!Next
    \/ Only("irq") /\ TH!Next
    \/ Only("timers") /\ TM!Next

Spec ==
    /\ Init /\ [][Next]_vars
    /\ TI!Fairness /\ WQ!Fairness /\ IO!Fairness /\ TH!Fairness /\ TM!Fairness

-----------------------------------------------------------------------------
\* Every variable of the module that runs keeps its type.
TypeOK ==
    CASE demo = "interrupt" -> ID!TypeOK
      [] demo = "timer"     -> TI!TypeOK
      [] demo = "tasklet"   -> TD!TypeOK
      [] demo = "work"      -> WQ!TypeOK
      [] demo = "ioctl"     -> IO!TypeOK
      [] demo = "irq"       -> TH!TypeOK
      [] demo = "timers"    -> TM!TypeOK

\* rmmod returns, though timers and work re-arm themselves, and every interrupt
\* of threaded_irq_demo.c is answered by a later run of the thread.
NoneWaitsForever ==
    /\ TI!ExitReturns /\ WQ!ExitReturns /\ IO!UnloadReturns /\ TM!ExitReturns
    /\ TH!ThreadAnswers
=============================================================================
