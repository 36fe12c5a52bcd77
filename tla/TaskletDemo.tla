----------------------------- MODULE TaskletDemo ----------------------------
(***************************************************************************)
(* examples/class_5/03_tasklet/tasklet_proirity.c                          *)
(*                                                                         *)
(* A self-arming timer and writes to /proc/tasklet_demo schedule a normal  *)
(* and a high-priority tasklet.  Each tasklet increments its counter       *)
(* without a lock and relies on a tasklet never running twice at once.     *)
(* The exit function stops timer and tasklets first and removes the file   *)
(* last.                                                                   *)
(***************************************************************************)
EXTENDS Naturals, Deferred

CONSTANTS Procs,    \* processes that write to the file
          MaxRounds, MaxWrites  \* bounds on timer rounds and writes per load

VARIABLES phase,    \* of the module: out, live, or the step of exit
          tasklet_timer, counter,
          tasklets, \* the normal and the hi tasklet
          count,    \* normal_count and hi_count
          loaded,   \* the register each ++count goes through
          runs,     \* history: executions of each tasklet since the load
          writes,   \* history: writes since the load
          pc,       \* of each process: "idle" or the tasklet it is scheduling
          late      \* history: the tasklets scheduled by a write after tasklet_kill

vars == <<phase, tasklet_timer, counter, tasklets, count, loaded, runs, writes, pc, late>>

Kinds == {"normal", "hi"}
Idle  == "idle"
Phases == {"out", "live", "del_timer", "kill_normal", "kill_hi", "remove", "rundown"}

MostRuns  == MaxRounds + MaxWrites
NotLoaded == MostRuns + 1

TypeOK ==
    /\ phase \in Phases
    /\ tasklet_timer \in Item /\ counter \in 0 .. MaxRounds
    /\ tasklets \in [Kinds -> Item]
    /\ count \in [Kinds -> 0 .. MostRuns]
    /\ loaded \in [Kinds -> 0 .. NotLoaded]
    /\ runs \in [Kinds -> 0 .. MostRuns]
    /\ writes \in 0 .. MaxWrites
    /\ pc \in [Procs -> Kinds \cup {Idle}]
    /\ late \subseteq Kinds

Init ==
    /\ phase = "out"
    /\ tasklet_timer = Quiet /\ counter = 0
    /\ tasklets = [k \in Kinds |-> Quiet]
    /\ count = [k \in Kinds |-> 0]
    /\ loaded = [k \in Kinds |-> NotLoaded]
    /\ runs = [k \in Kinds |-> 0] /\ writes = 0
    /\ pc = [p \in Procs |-> Idle]
    /\ late = {}

\* demo_tasklet_init: tasklets, timer, file (whose absence is not checked)
demo_tasklet_init ==
    /\ phase = "out"
    /\ phase' = "live"
    /\ tasklet_timer' = Armed(Quiet) /\ counter' = 0
    /\ tasklets' = [k \in Kinds |-> Quiet]
    /\ count' = [k \in Kinds |-> 0]
    /\ loaded' = [k \in Kinds |-> NotLoaded]
    /\ runs' = [k \in Kinds |-> 0] /\ writes' = 0
    /\ late' = {}
    /\ UNCHANGED pc

-----------------------------------------------------------------------------
TimerExpires ==
    /\ CanStart(tasklet_timer)
    /\ counter < MaxRounds
    /\ tasklet_timer' = Started(tasklet_timer)
    /\ UNCHANGED <<phase, counter, tasklets, count, loaded, runs, writes, pc, late>>

\* Fault: schedules both tasklets in every round.
schedule_both ==
    /\ tasklet_timer.running
    /\ counter' = counter + 1
    /\ tasklets' = [k \in Kinds |-> Armed(tasklets[k])]
    /\ tasklet_timer' = Armed(Returned(tasklet_timer))
    /\ UNCHANGED <<phase, count, loaded, runs, writes, pc, late>>

\* schedule_tasklet_timer: the hi tasklet in even rounds, the normal one always
schedule_tasklet_timer ==
    /\ tasklet_timer.running
    /\ counter' = counter + 1
    /\ tasklets' = [k \in Kinds |-> IF k = "normal" \/ counter' % 2 = 0
                                      THEN Armed(tasklets[k]) ELSE tasklets[k]]
    /\ tasklet_timer' = Armed(Returned(tasklet_timer))
    /\ UNCHANGED <<phase, count, loaded, runs, writes, pc, late>>

\* Fault: starts on a second CPU while it runs.
TaskletStartsTwice(k) ==
    /\ tasklets[k].pending
    /\ tasklets' = [tasklets EXCEPT ![k] = Started(tasklets[k])]
    /\ loaded' = [loaded EXCEPT ![k] = NotLoaded]
    /\ runs' = [runs EXCEPT ![k] = @ + 1]
    /\ UNCHANGED <<phase, tasklet_timer, counter, count, writes, pc, late>>

TaskletStarts(k) ==
    /\ CanStart(tasklets[k])
    /\ tasklets' = [tasklets EXCEPT ![k] = Started(tasklets[k])]
    /\ loaded' = [loaded EXCEPT ![k] = NotLoaded]
    /\ runs' = [runs EXCEPT ![k] = @ + 1]
    /\ UNCHANGED <<phase, tasklet_timer, counter, count, writes, pc, late>>

\* normal_tasklet_handler, hi_tasklet_handler: load and store of ++count
LoadCount(k) ==
    /\ tasklets[k].running
    /\ loaded[k] = NotLoaded
    /\ loaded' = [loaded EXCEPT ![k] = count[k]]
    /\ UNCHANGED <<phase, tasklet_timer, counter, tasklets, count, runs, writes, pc, late>>

StoreCount(k) ==
    /\ tasklets[k].running
    /\ loaded[k] # NotLoaded
    /\ count' = [count EXCEPT ![k] = loaded[k] + 1]
    /\ tasklets' = [tasklets EXCEPT ![k] = Returned(tasklets[k])]
    /\ UNCHANGED <<phase, tasklet_timer, counter, loaded, runs, writes, pc, late>>

-----------------------------------------------------------------------------
\* tasklet_proc_write; other input is refused before anything is scheduled
WriteBegin(p, k) ==
    /\ phase \in Phases \ {"out", "rundown"}
    /\ writes < MaxWrites
    /\ pc[p] = Idle
    /\ pc' = [pc EXCEPT ![p] = k]
    /\ writes' = writes + 1
    /\ UNCHANGED <<phase, tasklet_timer, counter, tasklets, count, loaded, runs, late>>

Killed(k) == phase \in {"remove", "rundown"} \/ (k = "normal" /\ phase = "kill_hi")

tasklet_proc_write(p) ==
    /\ pc[p] # Idle
    /\ tasklets' = [tasklets EXCEPT ![pc[p]] = Armed(tasklets[pc[p]])]
    /\ late' = IF Killed(pc[p]) THEN late \cup {pc[p]} ELSE late
    /\ pc' = [pc EXCEPT ![p] = Idle]
    /\ UNCHANGED <<phase, tasklet_timer, counter, count, loaded, runs, writes>>

-----------------------------------------------------------------------------
\* demo_tasklet_exit
ExitBegin ==
    /\ phase = "live"
    /\ phase' = "del_timer"
    /\ UNCHANGED <<tasklet_timer, counter, tasklets, count, loaded, runs, writes, pc, late>>

DelTimer ==
    /\ phase = "del_timer"
    /\ CanCancel(tasklet_timer)
    /\ tasklet_timer' = Cancelled(tasklet_timer)
    /\ phase' = "kill_normal"
    /\ UNCHANGED <<counter, tasklets, count, loaded, runs, writes, pc, late>>

\* Fault: does not wait for a scheduled tasklet.
KillAtOnce(k, from, to) ==
    /\ phase = from
    /\ phase' = to
    /\ UNCHANGED <<tasklet_timer, counter, tasklets, count, loaded, runs, writes, pc, late>>

\* tasklet_kill
Kill(k, from, to) ==
    /\ phase = from
    /\ IsFlushed(tasklets[k])
    /\ phase' = to
    /\ UNCHANGED <<tasklet_timer, counter, tasklets, count, loaded, runs, writes, pc, late>>

\* proc_remove
RemoveFile ==
    /\ phase = "remove"
    /\ phase' = "rundown"
    /\ UNCHANGED <<tasklet_timer, counter, tasklets, count, loaded, runs, writes, pc, late>>

demo_tasklet_exit ==
    /\ phase = "rundown"
    /\ \A p \in Procs : pc[p] = Idle
    /\ phase' = "out"
    /\ UNCHANGED <<tasklet_timer, counter, tasklets, count, loaded, runs, writes, pc, late>>

-----------------------------------------------------------------------------
Next ==
    \/ demo_tasklet_init
    \/ TimerExpires \/ schedule_tasklet_timer
    \/ \E k \in Kinds : TaskletStarts(k) \/ LoadCount(k) \/ StoreCount(k)
    \/ \E p \in Procs : tasklet_proc_write(p) \/ \E k \in Kinds : WriteBegin(p, k)
    \/ ExitBegin \/ DelTimer
    \/ Kill("normal", "kill_normal", "kill_hi") \/ Kill("hi", "kill_hi", "remove")
    \/ RemoveFile \/ demo_tasklet_exit

Spec == Init /\ [][Next]_vars

-----------------------------------------------------------------------------
\* The unlocked counters are exact: between executions, a tasklet's counter is
\* the number of its executions (lines 24, 26, 34).
CountsExact == \A k \in Kinds : ~tasklets[k].running => count[k] = runs[k]

\* What is scheduled is merged, never multiplied: a tasklet does not run more
\* often than it was scheduled (lines 47-52, 90-98).
RunsWereScheduled ==
    /\ runs["hi"] <= counter \div 2 + writes
    /\ runs["normal"] <= counter + writes

\* A tasklet outlives the module only if a write scheduled it after its
\* tasklet_kill (lines 92, 96, 135-138).
OnlyLateWriteLeaks ==
    phase = "out" => tasklet_timer = Quiet /\ \A k \in Kinds : tasklets[k] # Quiet => k \in late
=============================================================================
