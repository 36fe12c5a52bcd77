----------------------------- MODULE TimerDemos -----------------------------
(***************************************************************************)
(* The five modules that are one self-arming timer and a proc file:        *)
(*   halves    class_5/01_interrupt_processing/interrupt_processing.c      *)
(*   softirq   class_5/02_softirqs/raising_softirqs.c                      *)
(*   jiffies   class_5/05_jiffies_conversions/jiffies_conversions.c        *)
(*   basic     class_5/06_basic_timer/basic_timer.c (no proc file)         *)
(*   irq_test  interrupt_handler_guide/irq_test.c                          *)
(*                                                                         *)
(* The callback counts, does its part and re-arms.  A reader of the proc   *)
(* file reads the counters one after the other while the callback runs.    *)
(* jiffies is an unsigned counter of Width values that wraps.              *)
(***************************************************************************)
EXTENDS Naturals, Deferred

CONSTANTS MaxFires,      \* bound on expiries in one load
          Rearms,        \* basic_timer.c re-arms while it has fired less often (5)
          CpuCount,
          Width,         \* number of values of jiffies (2^32 or 2^64)
          Later,         \* 10 * HZ
          Future         \* 5 * HZ, or the 100 of the proc file

Kinds == {"halves", "softirq", "jiffies", "basic", "irq_test"}
Cpus  == 1 .. CpuCount

VARIABLES kind, phase,   \* which module, and its life: out, live, stop, flush, remove
          timer, count,  \* top_count, count, timer_fires, timer_count, irq_count
          work, bottom_count,
          top_half_time, \* what the callback measured of itself: 0, or more (1)
          raised,        \* per CPU: softirq_cpu_count
          jiffies, start_jiffies,
          elapsed,       \* history: ticks since the module was loaded
          told,          \* history: what the last comparison said, and when
          at, total, sum \* the reader: CPUs read so far + 1 (0 idle), and what it prints

timing == <<jiffies, start_jiffies, elapsed, told>>
reader == <<at, total, sum>>
vars == <<kind, phase, timer, count, work, bottom_count, top_half_time, raised, timing, reader>>

Untold == [late |-> FALSE, before |-> TRUE, when |-> 0]

TypeOK ==
    /\ kind \in Kinds /\ phase \in {"out", "live", "stop", "flush", "remove"}
    /\ timer \in Item /\ work \in Item
    /\ count \in 0 .. MaxFires /\ bottom_count \in 0 .. MaxFires
    /\ top_half_time \in {0, 1}
    /\ raised \in [Cpus -> 0 .. MaxFires]
    /\ jiffies \in 0 .. Width - 1 /\ start_jiffies \in 0 .. Width - 1
    /\ elapsed \in 0 .. Width \div 2
    /\ told \in [late : BOOLEAN, before : BOOLEAN, when : 0 .. Width \div 2]
    /\ at \in 0 .. CpuCount + 1 /\ total \in 0 .. MaxFires
    /\ sum \in 0 .. MaxFires * CpuCount

Init ==
    /\ kind = "jiffies" /\ phase = "out"
    /\ timer = Quiet /\ count = 0 /\ work = Quiet /\ bottom_count = 0
    /\ top_half_time = 0 /\ raised = [c \in Cpus |-> 0]
    /\ jiffies = 0 /\ start_jiffies = jiffies /\ elapsed = 0 /\ told = Untold
    /\ at = 0 /\ total = 0 /\ sum = 0

-----------------------------------------------------------------------------
\* module_init of one of them: the timer is armed; whether proc_create succeeds
\* is not asked.  The clock may be about to wrap.
Load ==
    /\ phase = "out" /\ phase' = "live"
    /\ kind' \in Kinds
    /\ jiffies' \in IF kind' = "jiffies" THEN {0, Width - 1} ELSE {0}
    /\ timer' = Armed(Quiet)
    /\ count' = 0 /\ bottom_count' = 0 /\ top_half_time' = 0
    /\ raised' = [c \in Cpus |-> 0]
    /\ start_jiffies' = jiffies' /\ elapsed' = 0 /\ told' = Untold
    /\ UNCHANGED <<work, reader>>

\* jiffies only matters to one of them
Tick ==
    /\ kind = "jiffies" /\ phase # "out" /\ elapsed < Width \div 2
    /\ jiffies' = (jiffies + 1) % Width
    /\ elapsed' = elapsed + 1
    /\ UNCHANGED <<kind, phase, timer, count, work, bottom_count, top_half_time, raised,
                   start_jiffies, told, reader>>

\* The timer expires and the callback counts.
Expire ==
    /\ CanStart(timer) /\ count < MaxFires
    /\ timer' = Started(timer)
    /\ count' = count + 1
    /\ UNCHANGED <<kind, phase, work, bottom_count, top_half_time, raised, timing, reader>>

Rearmed(again) == timer' = IF again THEN Armed(Returned(timer)) ELSE Returned(timer)

\* demo_top_half: schedule_work, and the time it took, which may be too short for
\* the clock
demo_top_half ==
    /\ kind = "halves" /\ timer.running
    /\ work' = Armed(work) /\ top_half_time' \in {0, 1}
    /\ Rearmed(TRUE)
    /\ UNCHANGED <<kind, phase, count, bottom_count, raised, timing, reader>>

BottomHalfStarts ==
    /\ CanStart(work)
    /\ work' = Started(work)
    /\ bottom_count' = bottom_count + 1
    /\ UNCHANGED <<kind, phase, timer, count, top_half_time, raised, timing, reader>>

\* demo_bottom_half sleeps and returns
demo_bottom_half ==
    /\ work.running
    /\ work' = Returned(work)
    /\ UNCHANGED <<kind, phase, timer, count, bottom_count, top_half_time, raised, timing, reader>>

\* raise_softirq_timer: this_cpu_inc on whatever CPU the callback runs
raise_softirq_timer ==
    /\ kind = "softirq" /\ timer.running
    /\ \E c \in Cpus : raised' = [raised EXCEPT ![c] = @ + 1]
    /\ Rearmed(TRUE)
    /\ UNCHANGED <<kind, phase, count, work, bottom_count, top_half_time, timing, reader>>

\* Fault: compares the numbers as they stand.
plain_after(a, b) == a > b

\* time_after(a, b) is (long)(b - a) < 0; time_before(a, b) is time_after(b, a)
time_after(a, b) == (b + Width - a) % Width >= Width \div 2

\* time_callback: compares the time with start and with the near future
time_callback ==
    /\ kind = "jiffies" /\ timer.running
    /\ told' = [late   |-> time_after(jiffies, (start_jiffies + Later) % Width),
                before |-> time_after((jiffies + Future) % Width, jiffies),
                when   |-> elapsed]
    /\ Rearmed(TRUE)
    /\ UNCHANGED <<kind, phase, count, work, bottom_count, top_half_time, raised,
                   jiffies, start_jiffies, elapsed, reader>>

timer_callback ==
    /\ kind = "basic" /\ timer.running
    /\ Rearmed(count < Rearms)
    /\ UNCHANGED <<kind, phase, count, work, bottom_count, top_half_time, raised, timing, reader>>

timer_func ==
    /\ kind = "irq_test" /\ timer.running
    /\ Rearmed(TRUE)
    /\ UNCHANGED <<kind, phase, count, work, bottom_count, top_half_time, raised, timing, reader>>

-----------------------------------------------------------------------------
\* The proc file: the total first; demo_proc_show goes on to divide only if it
\* finds top_half_time set.
ShowTotal ==
    /\ kind # "basic" /\ phase \in {"live", "stop", "flush"} /\ at = 0
    /\ kind = "halves" => top_half_time # 0
    /\ at' = 1 /\ total' = count /\ sum' = 0
    /\ UNCHANGED <<kind, phase, timer, count, work, bottom_count, top_half_time, raised, timing>>

\* Fault: reads the first CPU again for every CPU.
ShowFirstCpu ==
    /\ kind = "softirq" /\ at \in Cpus
    /\ at' = at + 1 /\ sum' = sum + raised[1]
    /\ UNCHANGED <<kind, phase, timer, count, work, bottom_count, top_half_time, raised, timing,
                   total>>

\* softirq_proc_show: for_each_online_cpu; CPUs stay online
ShowCpu ==
    /\ kind = "softirq" /\ at \in Cpus
    /\ at' = at + 1 /\ sum' = sum + raised[at]
    /\ UNCHANGED <<kind, phase, timer, count, work, bottom_count, top_half_time, raised, timing,
                   total>>

\* the division of demo_proc_show, or the end of the file
ShowDone ==
    /\ at = (IF kind = "softirq" THEN CpuCount + 1 ELSE 1)
    /\ at' = 0 /\ total' = 0 /\ sum' = 0
    /\ UNCHANGED <<kind, phase, timer, count, work, bottom_count, top_half_time, raised, timing>>

-----------------------------------------------------------------------------
\* module_exit: del_timer_sync ...
ExitBegin ==
    /\ phase = "live" /\ phase' = "stop"
    /\ UNCHANGED <<kind, timer, count, work, bottom_count, top_half_time, raised, timing, reader>>

\* Fault: del_timer, which does not wait for a running callback.
StopTimerAsync ==
    /\ phase = "stop"
    /\ timer' = Cancelled(timer)
    /\ phase' = "flush"
    /\ UNCHANGED <<kind, count, work, bottom_count, top_half_time, raised, timing, reader>>

StopTimer ==
    /\ phase = "stop" /\ CanCancel(timer)
    /\ timer' = Cancelled(timer)
    /\ phase' = "flush"
    /\ UNCHANGED <<kind, count, work, bottom_count, top_half_time, raised, timing, reader>>

\* ... flush_work, where there is work ...
FlushWork ==
    /\ phase = "flush" /\ IsFlushed(work)
    /\ phase' = "remove"
    /\ UNCHANGED <<kind, timer, count, work, bottom_count, top_half_time, raised, timing, reader>>

\* ... and proc_remove, which lets no new read in and waits for one under way.
Unload ==
    /\ phase = "remove" /\ at = 0
    /\ phase' = "out"
    /\ UNCHANGED <<kind, timer, count, work, bottom_count, top_half_time, raised, timing, reader>>

-----------------------------------------------------------------------------
Callback == \/ demo_top_half \/ raise_softirq_timer \/ time_callback
            \/ timer_callback \/ timer_func

Show == ShowCpu \/ ShowDone
Exit == StopTimer \/ FlushWork \/ Unload

Next ==
    \/ Load \/ Tick \/ Expire \/ Callback
    \/ BottomHalfStarts \/ demo_bottom_half
    \/ ShowTotal \/ Show
    \/ ExitBegin \/ Exit

Spec == Init /\ [][Next]_vars

\* Callbacks, work and reads go on, and rmmod runs on.
Fairness ==
    /\ WF_vars(Callback) /\ WF_vars(BottomHalfStarts) /\ WF_vars(demo_bottom_half)
    /\ WF_vars(Show) /\ WF_vars(StopTimer) /\ WF_vars(FlushWork) /\ WF_vars(Unload)

-----------------------------------------------------------------------------
\* Once a module is gone neither its timer nor its work is pending or running,
\* although the callback re-arms the timer and queues the work
\* (interrupt_processing.c:100-101 and the other exit functions).
AllStopped == phase = "out" => timer = Quiet /\ work = Quiet

\* The bottom half never runs more often than the top half asked for it
\* (interrupt_processing.c:22, 28, 40).
BottomFollowsTop == bottom_count <= count

\* The raises shown per CPU account for the total shown before them, but for
\* the one that may be under way (raising_softirqs.c:17, 20, 47-51).
CpusCoverTotal == kind = "softirq" /\ at = CpuCount + 1 => sum + 1 >= total

\* For half the range of jiffies, wrapped or not, a callback says "more than 10
\* seconds" exactly when they have passed, and finds the future ahead
\* (jiffies_conversions.c:25, 31, 74).
ComparisonsRight == told.before /\ told.late = (told.when > Later)

\* rmmod returns although the timer keeps re-arming itself.
ExitReturns == phase = "stop" ~> phase = "out"
=============================================================================
