------------------------- MODULE TimerImplementation ------------------------
(***************************************************************************)
(* examples/class_5/07_timer_implementation/timer_implementation.c         *)
(*                                                                         *)
(* A periodic timer and a high-resolution timer that both re-arm           *)
(* themselves, and /proc/simple_timer.  The exit function stops the timers *)
(* and then removes what a second proc_create of the same name returns:    *)
(* procfs refuses the duplicate and returns NULL, and proc_remove(NULL)    *)
(* does nothing.                                                           *)
(***************************************************************************)
EXTENDS Naturals, Deferred

CONSTANT MaxFires    \* bound on each counter

VARIABLES phase,     \* of the module: out, live, or the step of init or exit
          proc_file, \* simple_timer is registered in procfs
          periodic_timer, hr_timer,
          periodic_count, hr_count

vars == <<phase, proc_file, periodic_timer, hr_timer, periodic_count, hr_count>>

TypeOK ==
    /\ phase \in {"out", "init_periodic", "init_hr", "live",
                 "stop_periodic", "stop_hr", "remove"}
    /\ proc_file \in BOOLEAN
    /\ periodic_timer \in Item /\ hr_timer \in Item
    /\ periodic_count \in 0 .. MaxFires /\ hr_count \in 0 .. MaxFires

Init ==
    /\ phase = "out"
    /\ proc_file = FALSE
    /\ periodic_timer = Quiet /\ hr_timer = Quiet
    /\ periodic_count = 0 /\ hr_count = 0

-----------------------------------------------------------------------------
\* simple_timer_init: fails at once without a proc entry, so also if the name
\* is still taken ...
InitFile ==
    /\ phase = "out"
    /\ ~proc_file
    /\ proc_file' = TRUE
    /\ phase' = "init_periodic"
    /\ periodic_count' = 0 /\ hr_count' = 0
    /\ UNCHANGED <<periodic_timer, hr_timer>>

InitRefused ==
    /\ phase = "out"
    /\ proc_file
    /\ UNCHANGED vars

\* ... otherwise arms the periodic and then the high-resolution timer.
InitPeriodic ==
    /\ phase = "init_periodic"
    /\ periodic_timer' = Armed(Quiet)
    /\ phase' = "init_hr"
    /\ UNCHANGED <<proc_file, hr_timer, periodic_count, hr_count>>

InitHr ==
    /\ phase = "init_hr"
    /\ hr_timer' = Armed(Quiet)
    /\ phase' = "live"
    /\ UNCHANGED <<proc_file, periodic_timer, periodic_count, hr_count>>

-----------------------------------------------------------------------------
PeriodicExpires ==
    /\ CanStart(periodic_timer)
    /\ periodic_count < MaxFires
    /\ periodic_timer' = Started(periodic_timer)
    /\ UNCHANGED <<phase, proc_file, hr_timer, periodic_count, hr_count>>

\* periodic_timer_callback counts and re-arms
periodic_timer_callback ==
    /\ periodic_timer.running
    /\ periodic_count' = periodic_count + 1
    /\ periodic_timer' = Armed(Returned(periodic_timer))
    /\ UNCHANGED <<phase, proc_file, hr_timer, hr_count>>

HrExpires ==
    /\ CanStart(hr_timer)
    /\ hr_count < MaxFires
    /\ hr_timer' = Started(hr_timer)
    /\ UNCHANGED <<phase, proc_file, periodic_timer, periodic_count, hr_count>>

\* hr_timer_callback counts and returns HRTIMER_RESTART
hr_timer_callback ==
    /\ hr_timer.running
    /\ hr_count' = hr_count + 1
    /\ hr_timer' = Armed(Returned(hr_timer))
    /\ UNCHANGED <<phase, proc_file, periodic_timer, periodic_count>>

-----------------------------------------------------------------------------
\* simple_timer_exit: both timers are stopped ...
ExitBegin ==
    /\ phase = "live"
    /\ phase' = "stop_periodic"
    /\ UNCHANGED <<proc_file, periodic_timer, hr_timer, periodic_count, hr_count>>

\* Fault: waits until the timer is no longer pending by itself.
StopPeriodicDrain ==
    /\ phase = "stop_periodic"
    /\ IsFlushed(periodic_timer)
    /\ phase' = "stop_hr"
    /\ UNCHANGED <<proc_file, periodic_timer, hr_timer, periodic_count, hr_count>>

StopPeriodic ==
    /\ phase = "stop_periodic"
    /\ CanCancel(periodic_timer)
    /\ periodic_timer' = Cancelled(periodic_timer)
    /\ phase' = "stop_hr"
    /\ UNCHANGED <<proc_file, hr_timer, periodic_count, hr_count>>

StopHr ==
    /\ phase = "stop_hr"
    /\ CanCancel(hr_timer)
    /\ hr_timer' = Cancelled(hr_timer)
    /\ phase' = "remove"
    /\ UNCHANGED <<proc_file, periodic_timer, periodic_count, hr_count>>

\* ... and proc_create is called with a name that is registered: it returns
\* NULL, and proc_remove has nothing to remove.
simple_timer_exit ==
    /\ phase = "remove"
    /\ phase' = "out"
    /\ UNCHANGED <<proc_file, periodic_timer, hr_timer, periodic_count, hr_count>>

-----------------------------------------------------------------------------
Next ==
    \/ InitFile \/ InitRefused \/ InitPeriodic \/ InitHr
    \/ PeriodicExpires \/ periodic_timer_callback
    \/ HrExpires \/ hr_timer_callback
    \/ ExitBegin \/ StopPeriodic \/ StopHr \/ simple_timer_exit

Spec == Init /\ [][Next]_vars

\* Callbacks return and rmmod runs on.
Fairness ==
    /\ WF_vars(periodic_timer_callback) /\ WF_vars(hr_timer_callback)
    /\ WF_vars(StopPeriodic) /\ WF_vars(StopHr) /\ WF_vars(simple_timer_exit)

FairSpec == Spec /\ Fairness

-----------------------------------------------------------------------------
\* Once the module is gone neither timer is pending or running, although both
\* callbacks re-arm their timer (lines 35, 46, 105-106).
TimersStopped == phase = "out" => periodic_timer = Quiet /\ hr_timer = Quiet

\* rmmod returns although the timers keep re-arming themselves (lines 105-109).
ExitReturns == phase = "stop_periodic" ~> phase = "out"

\* The proc entry is gone when the module is (lines 108-109).
EntryRemoved == phase = "out" => ~proc_file
=============================================================================
