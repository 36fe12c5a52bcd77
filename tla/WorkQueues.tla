----------------------------- MODULE WorkQueues -----------------------------
(***************************************************************************)
(* examples/class_5/04_work_queues/work_queues.c                           *)
(*                                                                         *)
(* A self-arming timer puts demo_work on the system workqueue and on       *)
(* custom_wq in turn; delayed_work queues itself again each time it runs.  *)
(* The exit function stops timer, work and delayed work and destroys the   *)
(* queue, in an order on which all of them depend.                         *)
(*                                                                         *)
(* The system workqueue runs work in the pool of a CPU, custom_wq in a     *)
(* pool of its own.  The kernel keeps a work item from running twice at    *)
(* once on one workqueue, not on two, and it remembers only the pool it    *)
(* was queued on last: that is where cancel_work_sync waits.               *)
(***************************************************************************)
EXTENDS Naturals, Deferred

CONSTANTS Cpus,
          MaxRuns     \* bound on timer rounds and on delayed executions

Custom == "custom"                \* the pool of custom_wq
Pools  == Cpus \cup {Custom}

VARIABLES phase,      \* of the module: out, live, or the step of init or exit
          work_timer, counter,
          demo_work,  \* demo_work is pending,
          pool,       \* on the pool it was queued on last
          handler,    \* of each pool: where demo_work_handler is
          copy,       \* its copy of work_count
          delayed_work,
          custom_wq,  \* the custom queue exists
          work_count, delayed_count

running == <<handler, copy, work_count>>
vars == <<phase, work_timer, counter, demo_work, pool, running, delayed_work, custom_wq,
          delayed_count>>

Phases == {"out", "init_delayed", "init_timer", "live", "del_timer", "cancel_work",
           "cancel_delayed", "flush_delayed", "destroy_wq"}

TypeOK ==
    /\ phase \in Phases
    /\ work_timer \in Item /\ counter \in 0 .. MaxRuns
    /\ demo_work \in BOOLEAN /\ pool \in Pools
    /\ handler \in [Pools -> {"idle", "count", "sleep"}]
    /\ copy \in [Pools -> 0 .. MaxRuns]
    /\ delayed_work \in Item
    /\ custom_wq \in BOOLEAN
    /\ work_count \in 0 .. MaxRuns /\ delayed_count \in 0 .. MaxRuns

Init ==
    /\ phase = "out"
    /\ work_timer = Quiet /\ counter = 0
    /\ demo_work = FALSE /\ pool = Custom
    /\ handler = [p \in Pools |-> "idle"] /\ copy = [p \in Pools |-> 0]
    /\ delayed_work = Quiet
    /\ custom_wq = FALSE
    /\ work_count = 0 /\ delayed_count = 0

-----------------------------------------------------------------------------
\* work_init: the queue (without it the load fails), the delayed work, the timer.
\* The data of the load before is gone, and with it what was left running.
InitQueue ==
    /\ phase = "out"
    /\ phase' = "init_delayed"
    /\ custom_wq' = TRUE
    /\ counter' = 0 /\ work_count' = 0 /\ delayed_count' = 0
    /\ handler' = [p \in Pools |-> "idle"] /\ copy' = [p \in Pools |-> 0]
    /\ UNCHANGED <<work_timer, demo_work, pool, delayed_work>>

InitDelayed ==
    /\ phase = "init_delayed"
    /\ phase' = "init_timer"
    /\ delayed_work' = Armed(Quiet)
    /\ UNCHANGED <<work_timer, counter, demo_work, pool, running, custom_wq, delayed_count>>

InitTimer ==
    /\ phase = "init_timer"
    /\ phase' = "live"
    /\ work_timer' = Armed(Quiet)
    /\ UNCHANGED <<counter, demo_work, pool, running, delayed_work, custom_wq, delayed_count>>

-----------------------------------------------------------------------------
TimerExpires ==
    /\ CanStart(work_timer)
    /\ counter < MaxRuns
    /\ work_timer' = Started(work_timer)
    /\ UNCHANGED <<phase, counter, demo_work, pool, running, delayed_work, custom_wq,
                   delayed_count>>

\* Where schedule_work on CPU c queues: where the system queue still runs it, if
\* that is the last pool
SystemPool(c) == IF pool \in Cpus /\ handler[pool] # "idle" THEN pool ELSE c

\* schedule_work_timer: even rounds use the system queue, odd ones custom_wq;
\* work that is still pending stays where it is
schedule_work_timer ==
    /\ work_timer.running
    /\ counter' = counter + 1
    /\ demo_work' = TRUE
    /\ \E c \in Cpus :
          pool' = IF demo_work THEN pool
                  ELSE IF counter' % 2 = 0 THEN SystemPool(c) ELSE Custom
    /\ work_timer' = Armed(Returned(work_timer))
    /\ UNCHANGED <<phase, running, delayed_work, custom_wq, delayed_count>>

\* demo_work_handler starts: ++work_count is a load ...
WorkStarts(p) ==
    /\ demo_work /\ pool = p /\ handler[p] = "idle"
    /\ demo_work' = FALSE
    /\ handler' = [handler EXCEPT ![p] = "count"]
    /\ copy' = [copy EXCEPT ![p] = work_count]
    /\ UNCHANGED <<phase, work_timer, counter, pool, delayed_work, custom_wq, work_count,
                   delayed_count>>

\* ... and a store
WorkCounts(p) ==
    /\ handler[p] = "count"
    /\ handler' = [handler EXCEPT ![p] = "sleep"]
    /\ work_count' = copy[p] + 1
    /\ copy' = [copy EXCEPT ![p] = 0]
    /\ UNCHANGED <<phase, work_timer, counter, demo_work, pool, delayed_work, custom_wq,
                   delayed_count>>

\* it sleeps and returns
WorkReturns(p) ==
    /\ handler[p] = "sleep"
    /\ handler' = [handler EXCEPT ![p] = "idle"]
    /\ UNCHANGED <<phase, work_timer, counter, demo_work, pool, copy, delayed_work, custom_wq,
                   work_count, delayed_count>>

DelayedStarts ==
    /\ CanStart(delayed_work)
    /\ delayed_count < MaxRuns
    /\ delayed_work' = Started(delayed_work)
    /\ UNCHANGED <<phase, work_timer, counter, demo_work, pool, running, custom_wq, delayed_count>>

\* delayed_work_handler counts and queues itself again; while it is being
\* cancelled the kernel ignores that
delayed_work_handler ==
    /\ delayed_work.running
    /\ delayed_count' = delayed_count + 1
    /\ delayed_work' = IF phase = "flush_delayed" THEN Returned(delayed_work)
                       ELSE Armed(Returned(delayed_work))
    /\ UNCHANGED <<phase, work_timer, counter, demo_work, pool, running, custom_wq>>

-----------------------------------------------------------------------------
\* work_exit
ExitBegin ==
    /\ phase = "live"
    /\ phase' = "del_timer"
    /\ UNCHANGED <<work_timer, counter, demo_work, pool, running, delayed_work, custom_wq,
                   delayed_count>>

\* Fault: del_timer, which does not wait for a running callback.
DelTimerAsync ==
    /\ phase = "del_timer"
    /\ work_timer' = Cancelled(work_timer)
    /\ phase' = "cancel_work"
    /\ UNCHANGED <<counter, demo_work, pool, running, delayed_work, custom_wq, delayed_count>>

DelTimer ==
    /\ phase = "del_timer"
    /\ CanCancel(work_timer)
    /\ work_timer' = Cancelled(work_timer)
    /\ phase' = "cancel_work"
    /\ UNCHANGED <<counter, demo_work, pool, running, delayed_work, custom_wq, delayed_count>>

\* cancel_work_sync takes the pending item off and waits for the handler on the
\* last pool; it does not look at the others
CancelWork ==
    /\ phase = "cancel_work"
    /\ handler[pool] = "idle"
    /\ demo_work' = FALSE
    /\ phase' = "cancel_delayed"
    /\ UNCHANGED <<work_timer, counter, pool, running, delayed_work, custom_wq, delayed_count>>

\* cancel_delayed_work_sync takes the pending item off and keeps it from being
\* queued until the running handler has returned
CancelDelayed ==
    /\ phase = "cancel_delayed"
    /\ delayed_work' = Cancelled(delayed_work)
    /\ phase' = "flush_delayed"
    /\ UNCHANGED <<work_timer, counter, demo_work, pool, running, custom_wq, delayed_count>>

FlushDelayed ==
    /\ phase = "flush_delayed"
    /\ CanCancel(delayed_work)
    /\ phase' = "destroy_wq"
    /\ UNCHANGED <<work_timer, counter, demo_work, pool, running, delayed_work, custom_wq,
                   delayed_count>>

\* destroy_workqueue drains the queue; proc_remove has only reads to wait for
work_exit ==
    /\ phase = "destroy_wq"
    /\ handler[Custom] = "idle" /\ (pool = Custom => ~demo_work)
    /\ custom_wq' = FALSE
    /\ phase' = "out"
    /\ UNCHANGED <<work_timer, counter, demo_work, pool, running, delayed_work, delayed_count>>

-----------------------------------------------------------------------------
Work(p) == WorkStarts(p) \/ WorkCounts(p) \/ WorkReturns(p)

Exit == DelTimer \/ CancelWork \/ CancelDelayed \/ FlushDelayed \/ work_exit

Next ==
    \/ InitQueue \/ InitDelayed \/ InitTimer
    \/ TimerExpires \/ schedule_work_timer
    \/ \E p \in Pools : Work(p)
    \/ DelayedStarts \/ delayed_work_handler
    \/ ExitBegin \/ Exit

Spec == Init /\ [][Next]_vars

\* Callbacks and handlers return, queued work is started, and rmmod runs on.
Fairness ==
    /\ WF_vars(schedule_work_timer) /\ \A p \in Pools : WF_vars(Work(p))
    /\ WF_vars(delayed_work_handler) /\ WF_vars(Exit)

FairSpec == Spec /\ Fairness

-----------------------------------------------------------------------------
\* Once the module is gone nothing of it is pending, although the timer and the
\* delayed work keep queueing themselves, and nothing runs but, perhaps, a
\* handler on the system queue that a later queueing on another pool has made
\* cancel_work_sync forget (lines 47, 58-63, 66, 122-125).
OnlyOvertakenRuns ==
    phase = "out" =>
        /\ work_timer = Quiet /\ delayed_work = Quiet /\ ~demo_work
        /\ \A p \in Pools : handler[p] # "idle" => p \in Cpus \ {pool, Custom}

\* demo_work is never queued or running on custom_wq once that is destroyed
\* (lines 62, 125).
QueueOutlivesWork ==
    ~custom_wq => handler[Custom] = "idle" /\ (pool = Custom => ~demo_work)

\* Two handlers at once may count one run for two, but never count a run that no
\* round of the timer asked for (lines 22, 53, 58-63).
WorkFollowsTimer == work_count + (IF demo_work THEN 1 ELSE 0) <= counter

\* rmmod returns although the timer and the delayed work never stop by
\* themselves (lines 122-126).
ExitReturns == phase = "del_timer" ~> phase = "out"
=============================================================================
