------------------------------ MODULE IoctlDemo -----------------------------
(***************************************************************************)
(* examples/class_5/08_IOCTL/ioctl_demo.c (the timer_demo module)          *)
(*                                                                         *)
(* A self-arming timer whose callback schedules a tasklet and queues work, *)
(* a self-restarting hrtimer, and /proc/timer_demo.  The exit function     *)
(* stops sources before what they feed; the error path of the init         *)
(* function stops the timers and the queue and forgets the tasklet.        *)
(***************************************************************************)
EXTENDS Naturals, Deferred

CONSTANT MaxFires     \* bound on each timer's expiries

VARIABLES phase,      \* of the module: out, live, or the step of init or exit
          demo_timer, hr_timer, demo_tasklet, demo_work,
          demo_wq,    \* the workqueue exists
          timer_count, hrtimer_count, tasklet_count, work_count,
          failing     \* history: the last load took the error path

items  == <<demo_timer, hr_timer, demo_tasklet, demo_work>>
counts == <<timer_count, hrtimer_count, tasklet_count, work_count>>
vars   == <<phase, items, demo_wq, counts, failing>>

Phases == {"out", "init_timer", "init_hr", "init_file", "live", "del_timer", "cancel_hr",
           "kill_tasklet", "flush_wq", "destroy_wq"}

TypeOK ==
    /\ phase \in Phases
    /\ demo_timer \in Item /\ hr_timer \in Item
    /\ demo_tasklet \in Item /\ demo_work \in Item
    /\ demo_wq \in BOOLEAN /\ failing \in BOOLEAN
    /\ timer_count \in 0 .. MaxFires /\ hrtimer_count \in 0 .. MaxFires
    /\ tasklet_count \in 0 .. MaxFires /\ work_count \in 0 .. MaxFires

Init ==
    /\ phase = "out"
    /\ demo_timer = Quiet /\ hr_timer = Quiet /\ demo_tasklet = Quiet /\ demo_work = Quiet
    /\ demo_wq = FALSE /\ failing = FALSE
    /\ timer_count = 0 /\ hrtimer_count = 0 /\ tasklet_count = 0 /\ work_count = 0

Step(from, to) == phase = from /\ phase' = to

-----------------------------------------------------------------------------
\* timer_demo_init: the queue (without it the load fails), tasklet and work ...
InitQueue ==
    /\ Step("out", "init_timer")
    /\ demo_wq' = TRUE
    /\ demo_tasklet' = Quiet /\ demo_work' = Quiet
    /\ timer_count' = 0 /\ hrtimer_count' = 0 /\ tasklet_count' = 0 /\ work_count' = 0
    /\ failing' = FALSE
    /\ UNCHANGED <<demo_timer, hr_timer>>

\* ... the two timers ...
InitTimer ==
    /\ Step("init_timer", "init_hr")
    /\ demo_timer' = Armed(Quiet)
    /\ UNCHANGED <<hr_timer, demo_tasklet, demo_work, demo_wq, counts, failing>>

InitHr ==
    /\ Step("init_hr", "init_file")
    /\ hr_timer' = Armed(Quiet)
    /\ UNCHANGED <<demo_timer, demo_tasklet, demo_work, demo_wq, counts, failing>>

\* ... and the file; without it, cleanup_timers.
InitFile ==
    /\ Step("init_file", "live")
    /\ UNCHANGED <<items, demo_wq, counts, failing>>

InitFails ==
    /\ Step("init_file", "del_timer")
    /\ failing' = TRUE
    /\ UNCHANGED <<items, demo_wq, counts>>

-----------------------------------------------------------------------------
TimerExpires ==
    /\ CanStart(demo_timer) /\ timer_count < MaxFires
    /\ demo_timer' = Started(demo_timer)
    /\ UNCHANGED <<phase, hr_timer, demo_tasklet, demo_work, demo_wq, counts, failing>>

\* demo_timer_callback: demo_interrupt_handler schedules both bottom halves,
\* then the timer is re-armed
demo_timer_callback ==
    /\ demo_timer.running
    /\ timer_count' = timer_count + 1
    /\ demo_tasklet' = Armed(demo_tasklet)
    /\ demo_work' = Armed(demo_work)
    /\ demo_timer' = Armed(Returned(demo_timer))
    /\ UNCHANGED <<phase, hr_timer, demo_wq, hrtimer_count, tasklet_count, work_count, failing>>

TaskletStarts ==
    /\ CanStart(demo_tasklet)
    /\ demo_tasklet' = Started(demo_tasklet)
    /\ UNCHANGED <<phase, demo_timer, hr_timer, demo_work, demo_wq, counts, failing>>

demo_tasklet_handler ==
    /\ demo_tasklet.running
    /\ tasklet_count' = tasklet_count + 1
    /\ demo_tasklet' = Returned(demo_tasklet)
    /\ UNCHANGED <<phase, demo_timer, hr_timer, demo_work, demo_wq, timer_count, hrtimer_count,
                   work_count, failing>>

\* demo_work_handler counts, sleeps and returns
WorkStarts ==
    /\ CanStart(demo_work)
    /\ demo_work' = Started(demo_work)
    /\ work_count' = work_count + 1
    /\ UNCHANGED <<phase, demo_timer, hr_timer, demo_tasklet, demo_wq, timer_count,
                   hrtimer_count, tasklet_count, failing>>

WorkReturns ==
    /\ demo_work.running
    /\ demo_work' = Returned(demo_work)
    /\ UNCHANGED <<phase, demo_timer, hr_timer, demo_tasklet, demo_wq, counts, failing>>

HrExpires ==
    /\ CanStart(hr_timer) /\ hrtimer_count < MaxFires
    /\ hr_timer' = Started(hr_timer)
    /\ UNCHANGED <<phase, demo_timer, demo_tasklet, demo_work, demo_wq, counts, failing>>

hr_timer_callback ==
    /\ hr_timer.running
    /\ hrtimer_count' = hrtimer_count + 1
    /\ hr_timer' = Armed(Returned(hr_timer))
    /\ UNCHANGED <<phase, demo_timer, demo_tasklet, demo_work, demo_wq, timer_count,
                   tasklet_count, work_count, failing>>

-----------------------------------------------------------------------------
\* timer_demo_exit: the file has only reads to wait for, then the timers ...
ExitBegin ==
    /\ Step("live", "del_timer")
    /\ UNCHANGED <<items, demo_wq, counts, failing>>

DelTimer ==
    /\ Step("del_timer", "cancel_hr")
    /\ CanCancel(demo_timer)
    /\ demo_timer' = Cancelled(demo_timer)
    /\ UNCHANGED <<hr_timer, demo_tasklet, demo_work, demo_wq, counts, failing>>

\* ... the error path goes on to the queue, the exit function to the tasklet ...
CancelHr ==
    /\ Step("cancel_hr", IF failing THEN "destroy_wq" ELSE "kill_tasklet")
    /\ CanCancel(hr_timer)
    /\ hr_timer' = Cancelled(hr_timer)
    /\ UNCHANGED <<demo_timer, demo_tasklet, demo_work, demo_wq, counts, failing>>

KillTasklet ==
    /\ Step("kill_tasklet", "flush_wq")
    /\ IsFlushed(demo_tasklet)
    /\ UNCHANGED <<items, demo_wq, counts, failing>>

FlushQueue ==
    /\ Step("flush_wq", "destroy_wq")
    /\ IsFlushed(demo_work)
    /\ UNCHANGED <<items, demo_wq, counts, failing>>

\* ... and destroy_workqueue drains what is left.
timer_demo_exit ==
    /\ Step("destroy_wq", "out")
    /\ IsFlushed(demo_work)
    /\ demo_wq' = FALSE
    /\ UNCHANGED <<items, counts, failing>>

-----------------------------------------------------------------------------
Exit == DelTimer \/ CancelHr \/ KillTasklet \/ FlushQueue \/ timer_demo_exit

Next ==
    \/ InitQueue \/ InitTimer \/ InitHr \/ InitFile \/ InitFails
    \/ TimerExpires \/ demo_timer_callback
    \/ TaskletStarts \/ demo_tasklet_handler
    \/ WorkStarts \/ WorkReturns
    \/ HrExpires \/ hr_timer_callback
    \/ ExitBegin \/ Exit

Spec == Init /\ [][Next]_vars

\* Callbacks return, scheduled tasklets and queued work run, and so does rmmod.
Fairness ==
    /\ WF_vars(demo_timer_callback) /\ WF_vars(hr_timer_callback)
    /\ WF_vars(TaskletStarts) /\ WF_vars(demo_tasklet_handler)
    /\ WF_vars(WorkStarts) /\ WF_vars(WorkReturns) /\ WF_vars(Exit)

FairSpec == Spec /\ Fairness

-----------------------------------------------------------------------------
\* Once the module is gone nothing of it is pending or running, but for the
\* tasklet the error path of the init function does not kill (lines 168-172,
\* 180-189).
OnlyFailedInitLeaks ==
    phase = "out" => /\ demo_timer = Quiet /\ hr_timer = Quiet /\ demo_work = Quiet
                     /\ demo_tasklet # Quiet => failing

\* Work is queued and runs only while the queue exists (lines 44, 171, 189).
QueueOutlivesWork == demo_work # Quiet => demo_wq

\* The bottom halves run at most once for each expiry that scheduled them
\* (lines 43-44).
BottomHalvesFollowTop ==
    /\ tasklet_count + (IF demo_tasklet.running THEN 1 ELSE 0)
                     + (IF demo_tasklet.pending THEN 1 ELSE 0) <= timer_count
    /\ work_count + (IF demo_work.pending THEN 1 ELSE 0) <= timer_count

\* rmmod and a failing insmod return (lines 169-171, 183-189).
UnloadReturns == phase = "del_timer" ~> phase = "out"
=============================================================================
