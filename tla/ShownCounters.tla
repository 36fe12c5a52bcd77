--------------------------- MODULE ShownCounters ---------------------------
(***************************************************************************)
(* What the proc files of the modules with timers and interrupt threads    *)
(* show: counters that a callback or a thread changes while a reader goes  *)
(* from one to the next, and times that wrap.                              *)
(***************************************************************************)
EXTENDS Naturals

CONSTANTS Writers, Viewers, MaxIrqs,                      \* ThreadedIrq
          MaxExpiries, Rearms, CpuCount, Width, Later, Future  \* TimerDemos

VARIABLES phase_irq, primary_handler_count, thread_handler_count, irq_counter, loaded_irq,
          mutex_irq, shared_counter, message_irq, wake, full, pc_irq, shown,
          kind, phase_tm, timer, count_tm, work, bottom_count, top_half_time, raised, jiffies,
          start_jiffies, elapsed, told, at, total, sum

TH == INSTANCE ThreadedIrq WITH
          phase <- phase_irq, loaded <- loaded_irq, shared_data_mutex <- mutex_irq,
          shared_message <- message_irq, pc <- pc_irq

TM == INSTANCE TimerDemos WITH
          MaxFires <- MaxExpiries, phase <- phase_tm, count <- count_tm

\* The bounds are numbers, the processes of ThreadedIrq are not its other
\* contexts, and the times that jiffies_conversions.c adds to jiffies are less
\* than half its range.
ASSUME ShownAssumption ==
    /\ MaxExpiries \in Nat /\ CpuCount \in Nat
    /\ Writers \cap Viewers = {}
    /\ {TH!HardIrq, TH!IrqThread, TH!Nobody} \cap (Writers \cup Viewers) = {}
    /\ Width \in Nat /\ Later \in Nat /\ Later < Width \div 2
    /\ Future \in Nat /\ 0 < Future /\ Future <= Width \div 2

\* threaded_irq_demo.c: counter and message are shown together;
\* raising_softirqs.c: the CPUs shown cover the total shown before them.
ShownTogether == TH!ShownTogether /\ TM!CpusCoverTotal

\* jiffies_conversions.c: comparisons of times are right though jiffies wraps;
\* interrupt_processing.c: the bottom half runs at most once for each expiry; all
\* of them, threaded_irq_demo.c included: exit leaves nothing pending or running.
HandlersRight ==
    /\ TM!ComparisonsRight /\ TM!BottomFollowsTop
    /\ TM!AllStopped /\ TH!HandlersGone
=============================================================================
