---------------------------- MODULE SpinlockDemo ----------------------------
(***************************************************************************)
(* examples/class_3/06_spinlock_demo/spinlock_demo.c                       *)
(*                                                                         *)
(* Reads and writes of /proc/spinlock_demo update shared_data and          *)
(* operation_count inside one spinlock.  operation_count++ is a load and a *)
(* store; only the lock makes it whole.  The module is shown to implement  *)
(* CountedRegister.                                                        *)
(***************************************************************************)
EXTENDS Naturals

CONSTANTS Procs,    \* user processes
          Values,   \* what is written to the file
          MaxOps    \* bound on operations since the module was loaded

ASSUME ValueAssumption == Values \subseteq Nat

Free == "free"
ASSUME FreeAssumption == Free \notin Procs

VARIABLES phase,            \* of the module: "out", "live", "rundown"
          data_lock,        \* holder, or Free
          shared_data, operation_count,
          pc,
          writes,           \* the processes whose current operation is a write
          input,            \* value of a write
          local_data, local_count,
          loaded            \* the register operation_count++ goes through

vars == <<phase, data_lock, shared_data, operation_count, pc, writes, input,
          local_data, local_count, loaded>>

Outside == {"idle", "eof"}
Inside  == {"data", "load", "store", "count", "unlock"}

TypeOK ==
    /\ phase \in {"out", "live", "rundown"}
    /\ data_lock \in Procs \cup {Free}
    /\ shared_data \in Nat /\ operation_count \in Nat
    /\ pc \in [Procs -> Outside \cup Inside \cup {"lock", "reply"}]
    /\ writes \subseteq Procs
    /\ input \in [Procs -> Nat]
    /\ local_data \in [Procs -> Nat]
    /\ local_count \in [Procs -> Nat]
    /\ loaded \in [Procs -> Nat]

Init ==
    /\ phase = "out"
    /\ data_lock = Free
    /\ shared_data = 0 /\ operation_count = 0
    /\ pc = [p \in Procs |-> "idle"]
    /\ writes = {}
    /\ input = [p \in Procs |-> 0]
    /\ local_data = [p \in Procs |-> 0]
    /\ local_count = [p \in Procs |-> 0]
    /\ loaded = [p \in Procs |-> 0]

Goto(p, from, to) == pc[p] = from /\ pc' = [pc EXCEPT ![p] = to]

dataVars  == <<shared_data, operation_count>>
localVars == <<writes, input, local_data, local_count, loaded>>

-----------------------------------------------------------------------------
\* spinlock_init; a failing proc_create leaves the module out
spinlock_init ==
    /\ phase = "out"
    /\ phase' = "live"
    /\ shared_data' = 0 /\ operation_count' = 0
    /\ UNCHANGED <<data_lock, pc, localVars>>

\* spinlock_exit: proc_remove refuses new calls, then waits for running ones
ExitBegin ==
    /\ phase = "live"
    /\ phase' = "rundown"
    /\ UNCHANGED <<data_lock, dataVars, pc, localVars>>

spinlock_exit ==
    /\ phase = "rundown"
    /\ \A p \in Procs : pc[p] \in Outside
    /\ phase' = "out"
    /\ UNCHANGED <<data_lock, dataVars, pc, localVars>>

-----------------------------------------------------------------------------
Room == operation_count < MaxOps

\* spinlock_read; kmalloc failing returns at once, and so does *pos > 0
ReadBegin(p) ==
    /\ phase = "live" /\ Room
    /\ Goto(p, "idle", "lock")
    /\ UNCHANGED <<phase, data_lock, dataVars, localVars>>

ReadEof(p) ==
    /\ Goto(p, "eof", "idle")
    /\ UNCHANGED <<phase, data_lock, dataVars, localVars>>

\* spinlock_write; input that is too long, faults or does not parse is refused
\* before the lock
WriteBegin(p, value) ==
    /\ phase = "live" /\ Room
    /\ Goto(p, "idle", "lock")
    /\ writes' = writes \cup {p}
    /\ input' = [input EXCEPT ![p] = value]
    /\ UNCHANGED <<phase, data_lock, dataVars, local_data, local_count, loaded>>

\* Fault: enters while another process holds the lock.
LockUnchecked(p) ==
    /\ Goto(p, "lock", "data")
    /\ data_lock' = p
    /\ UNCHANGED <<phase, dataVars, localVars>>

Lock(p) ==
    /\ data_lock = Free
    /\ Goto(p, "lock", "data")
    /\ data_lock' = p
    /\ UNCHANGED <<phase, dataVars, localVars>>

\* local_data = shared_data, or shared_data = value
AccessData(p) ==
    /\ Goto(p, "data", "load")
    /\ IF p \in writes
         THEN /\ shared_data' = input[p]
              /\ UNCHANGED local_data
         ELSE /\ local_data' = [local_data EXCEPT ![p] = shared_data]
              /\ UNCHANGED shared_data
    /\ UNCHANGED <<phase, data_lock, operation_count, writes, input, local_count, loaded>>

LoadCount(p) ==
    /\ Goto(p, "load", "store")
    /\ loaded' = [loaded EXCEPT ![p] = operation_count]
    /\ UNCHANGED <<phase, data_lock, dataVars, writes, input, local_data, local_count>>

\* Fault: counts down.
StoreCountDown(p) ==
    /\ Goto(p, "store", IF p \in writes THEN "unlock" ELSE "count")
    /\ operation_count' = loaded[p] - 1
    /\ UNCHANGED <<phase, data_lock, shared_data, localVars>>

StoreCount(p) ==
    /\ Goto(p, "store", IF p \in writes THEN "unlock" ELSE "count")
    /\ operation_count' = loaded[p] + 1
    /\ UNCHANGED <<phase, data_lock, shared_data, localVars>>

CopyCount(p) ==
    /\ Goto(p, "count", "unlock")
    /\ local_count' = [local_count EXCEPT ![p] = operation_count]
    /\ UNCHANGED <<phase, data_lock, dataVars, writes, input, local_data, loaded>>

Unlock(p) ==
    /\ Goto(p, "unlock", "reply")
    /\ data_lock' = Free
    /\ UNCHANGED <<phase, dataVars, localVars>>

\* The return: a read whose copy_to_user succeeds leaves *pos > 0; the locals
\* go out of scope.
Return(p) ==
    /\ \E next \in (IF p \in writes THEN {"idle"} ELSE Outside) : Goto(p, "reply", next)
    /\ writes' = writes \ {p}
    /\ input' = [input EXCEPT ![p] = 0]
    /\ local_data' = [local_data EXCEPT ![p] = 0]
    /\ local_count' = [local_count EXCEPT ![p] = 0]
    /\ loaded' = [loaded EXCEPT ![p] = 0]
    /\ UNCHANGED <<phase, data_lock, dataVars>>

-----------------------------------------------------------------------------
Step(p) ==
    Lock(p) \/ AccessData(p) \/ LoadCount(p) \/ StoreCount(p) \/ CopyCount(p)
    \/ Unlock(p) \/ Return(p)

Next ==
    \/ spinlock_init \/ ExitBegin \/ spinlock_exit
    \/ \E p \in Procs : ReadBegin(p) \/ ReadEof(p) \/ Step(p)
    \/ \E p \in Procs, v \in Values : WriteBegin(p, v)

Spec == Init /\ [][Next]_vars

-----------------------------------------------------------------------------
\* An operation takes effect when it accesses shared_data; from then until
\* operation_count is stored the abstract count is one ahead.
Counting(p) == pc[p] \in {"load", "store"}

NumberOf(p) ==
    IF Counting(p) THEN operation_count + 1
    ELSE IF pc[p] = "count" THEN operation_count ELSE local_count[p]

ReplyOf(p) ==
    IF p \in writes \/ pc[p] \in Outside \cup {"lock", "data"}
      THEN <<0, 0>> ELSE <<local_data[p], NumberOf(p)>>

AbstractOps   == IF \E p \in Procs : Counting(p) THEN operation_count + 1 ELSE operation_count
AbstractReply == [p \in Procs |-> ReplyOf(p)]

CR == INSTANCE CountedRegister WITH
          value <- shared_data, ops <- AbstractOps, reply <- AbstractReply

\* Reads and writes behave as indivisible numbered operations: a read reports
\* a value together with its own number in the order of operations, no number
\* is skipped or given twice (lines 28-32, 67-72).
ImplementsCountedRegister == CR!Spec
=============================================================================
