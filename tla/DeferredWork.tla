---------------------------- MODULE DeferredWork ----------------------------
(***************************************************************************)
(* The modules whose timers set off tasklets and work: what they may leave *)
(* behind, and how often what they set off runs.                           *)
(***************************************************************************)
EXTENDS Naturals, FiniteSets

CONSTANTS Procs, MaxOpens,                               \* InterruptDemo, TaskletDemo
          MaxRounds, MaxWrites,                          \* TaskletDemo
          MaxFires,                                      \* every module with a timer
          WorkCpus, MaxRuns                              \* WorkQueues

VARIABLES phase_id, my_timer, interrupt_count, pc_id, opens, late_id,
          phase_ti, proc_file, periodic_timer, hr_timer_ti, periodic_count, hr_count,
          phase_td, tasklet_timer, counter_td, tasklets, count_td, loaded_td, runs, writes, pc_td,
          late_td,
          phase_wq, work_timer, counter_wq, demo_work_wq, pool, handler, copy, delayed_work,
          custom_wq, work_count_wq, delayed_count,
          phase_io, demo_timer, hr_timer_io, demo_tasklet, demo_work_io, demo_wq, timer_count,
          hrtimer_count, tasklet_count, work_count_io, failing

ID == INSTANCE InterruptDemo WITH
          phase <- phase_id, pc <- pc_id, late <- late_id

TI == INSTANCE TimerImplementation WITH
          phase <- phase_ti, hr_timer <- hr_timer_ti

TD == INSTANCE TaskletDemo WITH
          phase <- phase_td, counter <- counter_td, count <- count_td, loaded <- loaded_td,
          pc <- pc_td, late <- late_td

WQ == INSTANCE WorkQueues WITH
          Cpus <- WorkCpus, phase <- phase_wq, counter <- counter_wq, demo_work <- demo_work_wq,
          work_count <- work_count_wq

IO == INSTANCE IoctlDemo WITH
          phase <- phase_io, hr_timer <- hr_timer_io, demo_work <- demo_work_io,
          work_count <- work_count_io

\* The bounds are numbers, and the processes are finitely many.
ASSUME WorkAssumption ==
    /\ MaxOpens \in Nat /\ MaxRounds \in Nat /\ MaxWrites \in Nat
    /\ MaxFires \in Nat /\ MaxRuns \in Nat
    /\ IsFiniteSet(Procs)

\* Unload stops every timer, tasklet and work item the module started, except
\* in the four windows the code leaves: an open after del_timer_sync
\* (interrupt_demo.c), a write after tasklet_kill (tasklet_proirity.c), the error
\* path of init (ioctl_demo.c), and a handler on the system queue overtaken by
\* another queueing of the same work (work_queues.c); and no work is pending on
\* a queue that is destroyed (work_queues.c, ioctl_demo.c).
OnlyKnownLeaks ==
    /\ ID!OnlyLateOpenLeaks /\ TI!TimersStopped /\ TD!OnlyLateWriteLeaks
    /\ WQ!OnlyOvertakenRuns /\ IO!OnlyFailedInitLeaks
    /\ WQ!QueueOutlivesWork /\ IO!QueueOutlivesWork

\* interrupt_demo.c, tasklet_proirity.c, ioctl_demo.c, work_queues.c: however
\* expiries, opens, writes and handlers interleave, no callback, tasklet or work
\* item is counted more often than it was asked for, and the unlocked counts of
\* the tasklets are exact whenever none of them runs.
RunsWereAskedFor ==
    /\ ID!InterruptsWereAskedFor /\ TD!RunsWereScheduled /\ TD!CountsExact
    /\ IO!BottomHalvesFollowTop /\ WQ!WorkFollowsTimer
=============================================================================
