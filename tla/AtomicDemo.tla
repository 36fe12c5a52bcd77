----------------------------- MODULE AtomicDemo -----------------------------
(***************************************************************************)
(* examples/class_3/04_atomic_operations/atomic_demo.c                     *)
(*                                                                         *)
(* Writes to the basic, advanced and bits files and reads of the basic and *)
(* status files of /proc/atomic_demo.  Each atomic_*() call is one step;   *)
(* what a handler does between two of them interleaves.  Counters wrap at  *)
(* their width, here Half values on each side of zero.                     *)
(***************************************************************************)
EXTENDS Integers, FiniteSets

CONSTANTS Writers, Viewers,  \* processes
          Ops,               \* the commands written in this instance
          Args,              \* the integer that follows a command
          Half,              \* 2^31 for atomic_t
          MaxOps             \* bound on operations since the module was loaded

DeltaOps   == {"inc", "dec", "add", "sub", "dec_and_test", "inc_and_test",
               "sub_and_test", "add_negative"}
StoreOps   == {"set", "xchg"}
LargeOps   == {"large_inc", "large_add"}
BitOps     == {"set_bit", "clear", "change", "test_and_set", "test_and_clear",
               "test_and_change"}
AllOps     == DeltaOps \cup StoreOps \cup LargeOps \cup BitOps
              \cup {"cmpxchg", "ref_get", "ref_put", "unknown"}

VARIABLES phase,     \* of the module: "out", "live", "rundown"
          counter, operations_count, large_counter,
          bit_flags, \* the bits that are set
          ref_count,
          pc, op, arg,
          old_val,   \* of cmpxchg
          effects,   \* history: successful updates of counter since the load
          read_at,   \* history: effects when cmpxchg read counter
          refs,      \* history: references taken and not yet put
          seen       \* of a viewer: effects behind counter_val, and ops_val

countVars == <<counter, operations_count, effects>>
refVars   == <<ref_count, refs>>
argVars   == <<op, arg, old_val, read_at>>
vars == <<phase, countVars, large_counter, bit_flags, refVars, pc, argVars, seen>>

Callers == Writers \cup Viewers
BITS_PER_LONG == 2 * Half
Bits    == 0 .. BITS_PER_LONG - 1
FLAG_SYSTEM_READY == 0
NotSeen == [effects |-> 0, ops |-> 0]

\* Two's complement arithmetic of an int.
Wrap(n) == ((n + Half) % (2 * Half)) - Half
Word    == -Half .. Half - 1

TypeOK ==
    /\ phase \in {"out", "live", "rundown"}
    /\ counter \in Word /\ operations_count \in 0 .. MaxOps
    /\ large_counter \in Int /\ ref_count \in Int
    /\ bit_flags \subseteq Bits
    /\ pc \in [Callers -> {"idle", "count", "dispatch", "cas", "reset", "show_ops", "shown"}]
    /\ op \in [Writers -> AllOps] /\ arg \in [Writers -> Int]
    /\ old_val \in [Writers -> Word]
    /\ effects \in Nat /\ read_at \in [Writers -> Nat] /\ refs \in Int
    /\ seen \in [Viewers -> [effects : Nat, ops : Nat]]

FreshStatics ==
    /\ counter' = 0 /\ operations_count' = 0 /\ large_counter' = 0
    /\ bit_flags' = {FLAG_SYSTEM_READY}
    /\ ref_count' = 1 /\ refs' = 1 /\ effects' = 0

Init ==
    /\ phase = "out"
    /\ counter = 0 /\ operations_count = 0 /\ large_counter = 0 /\ bit_flags = {}
    /\ ref_count = 1 /\ refs = 1 /\ effects = 0
    /\ pc = [p \in Callers |-> "idle"]
    /\ op = [p \in Writers |-> "unknown"] /\ arg = [p \in Writers |-> 0]
    /\ old_val = [p \in Writers |-> 0] /\ read_at = [p \in Writers |-> 0]
    /\ seen = [v \in Viewers |-> NotSeen]

Goto(p, from, to) == pc[p] = from /\ pc' = [pc EXCEPT ![p] = to]

\* The handler returns: its locals go out of scope.
Finish(p, from) ==
    /\ Goto(p, from, "idle")
    /\ op' = [op EXCEPT ![p] = "unknown"]
    /\ arg' = [arg EXCEPT ![p] = 0]
    /\ old_val' = [old_val EXCEPT ![p] = 0]
    /\ read_at' = [read_at EXCEPT ![p] = 0]

-----------------------------------------------------------------------------
\* atomic_comprehensive_init; if a file cannot be created the directory and
\* what is in it go again
atomic_comprehensive_init ==
    /\ phase = "out"
    /\ phase' \in {"live", "rundown"}
    /\ FreshStatics
    /\ UNCHANGED <<pc, argVars, seen>>

\* atomic_comprehensive_exit: proc_remove of the directory and its files
ExitBegin ==
    /\ phase = "live"
    /\ phase' = "rundown"
    /\ UNCHANGED <<countVars, large_counter, bit_flags, refVars, pc, argVars, seen>>

atomic_comprehensive_exit ==
    /\ phase = "rundown"
    /\ \A p \in Callers : pc[p] = "idle"
    /\ phase' = "out"
    /\ UNCHANGED <<countVars, large_counter, bit_flags, refVars, pc, argVars, seen>>

-----------------------------------------------------------------------------
\* The write handlers up to the command: a write that is too long, faults or
\* has no command, or a bit number out of range, is refused and leaves no trace.
Begin(p, o, n) ==
    /\ phase = "live"
    /\ Cardinality({q \in Writers : pc[q] = "count"}) + operations_count < MaxOps
    /\ o \in BitOps => n \in Bits
    /\ Goto(p, "idle", "count")
    /\ op' = [op EXCEPT ![p] = o]
    /\ arg' = [arg EXCEPT ![p] = n]
    /\ UNCHANGED <<phase, countVars, large_counter, bit_flags, refVars, old_val, read_at, seen>>

\* Fault: counts nothing until the command is known to be good.
CountLater(p) ==
    /\ Goto(p, "count", "dispatch")
    /\ UNCHANGED <<phase, countVars, large_counter, bit_flags, refVars, argVars, seen>>

\* atomic_inc(&operations_count), before the command is looked at
CountOp(p) ==
    /\ Goto(p, "count", "dispatch")
    /\ operations_count' = operations_count + 1
    /\ UNCHANGED <<phase, counter, effects, large_counter, bit_flags, refVars, argVars, seen>>

UnknownOp(p) ==
    /\ op[p] = "unknown"
    /\ Finish(p, "dispatch")
    /\ UNCHANGED <<phase, countVars, large_counter, bit_flags, refVars, seen>>

-----------------------------------------------------------------------------
\* Commands on counter that are one atomic operation.
Delta(o, n) ==
    CASE o \in {"inc", "inc_and_test"} -> 1
      [] o \in {"dec", "dec_and_test"} -> -1
      [] o \in {"add", "add_negative"} -> n
      [] o \in {"sub", "sub_and_test"} -> -n

CounterOp(p) ==
    /\ op[p] \in DeltaOps \cup StoreOps
    /\ counter' = IF op[p] \in DeltaOps THEN Wrap(counter + Delta(op[p], arg[p])) ELSE arg[p]
    /\ effects' = effects + 1
    /\ Finish(p, "dispatch")
    /\ UNCHANGED <<phase, operations_count, large_counter, bit_flags, refVars, seen>>

\* cmpxchg is atomic_read, then atomic_cmpxchg against what was read
CasRead(p) ==
    /\ op[p] = "cmpxchg"
    /\ Goto(p, "dispatch", "cas")
    /\ old_val' = [old_val EXCEPT ![p] = counter]
    /\ read_at' = [read_at EXCEPT ![p] = effects]
    /\ UNCHANGED <<phase, countVars, large_counter, bit_flags, refVars, op, arg, seen>>

CasSucceeds(p) == counter = old_val[p]

\* Fault: a plain store where the compare failed.
CasStoreAnyway(p) ==
    /\ counter' = arg[p]
    /\ effects' = IF CasSucceeds(p) THEN effects + 1 ELSE effects
    /\ Finish(p, "cas")
    /\ UNCHANGED <<phase, operations_count, large_counter, bit_flags, refVars, seen>>

CasTry(p) ==
    /\ IF CasSucceeds(p) THEN counter' = arg[p] /\ effects' = effects + 1
                         ELSE UNCHANGED <<counter, effects>>
    /\ Finish(p, "cas")
    /\ UNCHANGED <<phase, operations_count, large_counter, bit_flags, refVars, seen>>

LargeOp(p) ==
    /\ op[p] \in LargeOps
    /\ large_counter' = large_counter + (IF op[p] = "large_inc" THEN 1 ELSE arg[p])
    /\ Finish(p, "dispatch")
    /\ UNCHANGED <<phase, countVars, bit_flags, refVars, seen>>

BitOp(p) ==
    LET bit == {arg[p]} IN
    /\ op[p] \in BitOps
    /\ bit_flags' = CASE op[p] \in {"set_bit", "test_and_set"} -> bit_flags \cup bit
                      [] op[p] \in {"clear", "test_and_clear"} -> bit_flags \ bit
                      [] op[p] \in {"change", "test_and_change"} ->
                           (bit_flags \cup bit) \ (bit_flags \cap bit)
    /\ Finish(p, "dispatch")
    /\ UNCHANGED <<phase, countVars, large_counter, refVars, seen>>

RefGet(p) ==
    /\ op[p] = "ref_get"
    /\ ref_count' = ref_count + 1
    /\ refs' = refs + 1
    /\ Finish(p, "dispatch")
    /\ UNCHANGED <<phase, countVars, large_counter, bit_flags, seen>>

\* ref_put: dec_and_test; at zero the resource is done and a fresh one begins ...
RefPut(p) ==
    /\ op[p] = "ref_put"
    /\ ref_count' = ref_count - 1
    /\ refs' = IF ref_count = 1 THEN 1 ELSE refs - 1
    /\ IF ref_count = 1
         THEN Goto(p, "dispatch", "reset") /\ UNCHANGED argVars
         ELSE Finish(p, "dispatch")
    /\ UNCHANGED <<phase, countVars, large_counter, bit_flags, seen>>

\* ... by a separate atomic_set
RefReset(p) ==
    /\ ref_count' = 1
    /\ Finish(p, "reset")
    /\ UNCHANGED <<phase, countVars, large_counter, bit_flags, refs, seen>>

-----------------------------------------------------------------------------
\* atomic_basic_show and atomic_status_show read counter first and
\* operations_count later; the rest of what they print is not related.
ShowCounter(v) ==
    /\ phase = "live"
    /\ Goto(v, "idle", "show_ops")
    /\ seen' = [seen EXCEPT ![v] = [effects |-> effects, ops |-> 0]]
    /\ UNCHANGED <<phase, countVars, large_counter, bit_flags, refVars, argVars>>

ShowOps(v) ==
    /\ Goto(v, "show_ops", "shown")
    /\ seen' = [seen EXCEPT ![v] = [@ EXCEPT !.ops = operations_count]]
    /\ UNCHANGED <<phase, countVars, large_counter, bit_flags, refVars, argVars>>

ShowReturn(v) ==
    /\ Goto(v, "shown", "idle")
    /\ seen' = [seen EXCEPT ![v] = NotSeen]
    /\ UNCHANGED <<phase, countVars, large_counter, bit_flags, refVars, argVars>>

-----------------------------------------------------------------------------
WriteStep(p) ==
    \/ CountOp(p) \/ UnknownOp(p) \/ CounterOp(p) \/ CasRead(p) \/ CasTry(p)
    \/ LargeOp(p) \/ BitOp(p) \/ RefGet(p) \/ RefPut(p) \/ RefReset(p)

ShowStep(v) == ShowCounter(v) \/ ShowOps(v) \/ ShowReturn(v)

Next ==
    \/ atomic_comprehensive_init \/ ExitBegin \/ atomic_comprehensive_exit
    \/ \E p \in Writers : WriteStep(p)
    \/ \E p \in Writers, o \in Ops, n \in Args : Begin(p, o, n)
    \/ \E v \in Viewers : ShowStep(v)

Spec == Init /\ [][Next]_vars

-----------------------------------------------------------------------------
\* "Operations performed" is never behind the counter printed with it: every
\* update in counter_val is counted in ops_val, because handlers count before
\* they act (lines 43, 123) and the files are printed in the opposite order
\* (lines 81-82, 280-282).
OpsCoverCounter ==
    \A v \in Viewers : pc[v] = "shown" => seen[v].effects <= seen[v].ops

\* cmpxchg fails only if another process updated counter after it was read
\* (lines 64-70).
CasFailsOnlyOnChange ==
    \A p \in Writers : pc[p] = "cas" /\ ~CasSucceeds(p) => effects > read_at[p]

\* A reference that was taken is counted once the resets are done (lines 147-156
\* against line 288).
RefUpdatesKept == (\A p \in Writers : pc[p] # "reset") => ref_count = refs
=============================================================================
