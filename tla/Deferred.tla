------------------------------ MODULE Deferred ------------------------------
(***************************************************************************)
(* Deferred kernel work as the modules of this repository use it: a        *)
(* timer_list, an hrtimer, a tasklet or a work item.  An item is pending   *)
(* until it starts to run; it may be made pending again while it runs, and *)
(* it never runs twice at once.                                            *)
(*                                                                         *)
(* The synchronous stops (del_timer_sync, hrtimer_cancel, tasklet_kill,    *)
(* cancel_work_sync, flush_work) wait; none of them keeps the item from    *)
(* being made pending again afterwards.                                    *)
(***************************************************************************)

Item  == [pending : BOOLEAN, running : BOOLEAN]
Quiet == [pending |-> FALSE, running |-> FALSE]

\* mod_timer, add_timer, tasklet_schedule, schedule_work, queue_work
Armed(i) == [pending |-> TRUE, running |-> i.running]

\* The item starts to run, and returns.
CanStart(i) == i.pending /\ ~i.running
Started(i)  == [pending |-> FALSE, running |-> TRUE]
Returned(i) == [pending |-> i.pending, running |-> FALSE]

\* del_timer_sync, hrtimer_cancel, cancel_work_sync: a pending item is taken
\* off, a running one waited for.
CanCancel(i) == ~i.running
Cancelled(i) == [pending |-> FALSE, running |-> i.running]

\* tasklet_kill, flush_work: a pending item is left to run first.
IsFlushed(i) == i = Quiet
=============================================================================
