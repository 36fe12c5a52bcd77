---------------------------- MODULE DeadlockDemo ----------------------------
(***************************************************************************)
(* examples/class_3/09_deadlock_prevention/deadlock_demo.c                 *)
(*                                                                         *)
(* Processes read /proc/deadlock_demo.  A read tries to take the mutexes   *)
(* resource_a and resource_b with mutex_trylock, sleeps and retries when   *)
(* it fails, and gives up with -EBUSY after MAX_RETRIES rounds.  The       *)
(* module may be removed and loaded again at any time; proc_remove keeps   *)
(* new handlers out and waits for the running ones.                        *)
(***************************************************************************)
EXTENDS Naturals

CONSTANTS Procs,        \* processes that read the file
          MAX_RETRIES,  \* 10 in the code
          NoOwner       \* a mutex that nobody holds

ASSUME RetriesAssumption == MAX_RETRIES \in Nat \ {0}
ASSUME OwnerAssumption   == NoOwner \notin Procs

VARIABLES proc_entry,   \* "absent", "live", or "rundown" while proc_remove waits
          resource_a,   \* holder of each mutex
          resource_b,
          pc,           \* where each process is in deadlock_demo_read
          retries       \* its local retry counter

vars == <<proc_entry, resource_a, resource_b, pc, retries>>

\* "eof": the file is open with *pos > 0.  "copy": at copy_to_user.
Outside  == {"idle", "eof"}
Handler  == {"try_a", "try_b", "backoff", "critical", "release_a", "copy"}

TypeOK ==
    /\ proc_entry \in {"absent", "live", "rundown"}
    /\ resource_a \in Procs \cup {NoOwner}
    /\ resource_b \in Procs \cup {NoOwner}
    /\ pc \in [Procs -> Outside \cup Handler]
    /\ retries \in [Procs -> 0 .. MAX_RETRIES]

Init ==
    /\ proc_entry = "absent"
    /\ resource_a = NoOwner
    /\ resource_b = NoOwner
    /\ pc = [p \in Procs |-> "idle"]
    /\ retries = [p \in Procs |-> 0]

Goto(p, from, to) ==
    /\ pc[p] = from
    /\ pc' = [pc EXCEPT ![p] = to]

-----------------------------------------------------------------------------
\* insmod; a failing proc_create makes the load fail and changes nothing.
deadlock_init ==
    /\ proc_entry = "absent"
    /\ proc_entry' = "live"
    /\ UNCHANGED <<resource_a, resource_b, pc, retries>>

\* rmmod: proc_remove first stops new handlers ...
ProcRemoveBegin ==
    /\ proc_entry = "live"
    /\ proc_entry' = "rundown"
    /\ UNCHANGED <<resource_a, resource_b, pc, retries>>

\* ... and returns when the last one has left.
deadlock_exit ==
    /\ proc_entry = "rundown"
    /\ \A p \in Procs : pc[p] \in Outside
    /\ proc_entry' = "absent"
    /\ UNCHANGED <<resource_a, resource_b, pc, retries>>

-----------------------------------------------------------------------------
\* A first read (*pos = 0) enters the handler.
BeginRead(p) ==
    /\ proc_entry = "live"
    /\ Goto(p, "idle", "try_a")
    /\ UNCHANGED <<proc_entry, resource_a, resource_b, retries>>

\* The next read finds *pos > 0 and returns 0 (or -EIO once the entry is
\* gone); the reader then closes the file.
ReadEof(p) ==
    /\ Goto(p, "eof", "idle")
    /\ UNCHANGED <<proc_entry, resource_a, resource_b, retries>>

\* Fault: the lock is taken whoever holds it.
TryAIgnoresOwner(p) ==
    /\ pc[p] = "try_a"
    /\ resource_a' = p
    /\ pc' = [pc EXCEPT ![p] = "try_b"]
    /\ UNCHANGED <<proc_entry, resource_b, retries>>

\* mutex_trylock(&resource_a)
TryA(p) ==
    /\ pc[p] = "try_a"
    /\ IF resource_a = NoOwner
       THEN /\ resource_a' = p
            /\ pc' = [pc EXCEPT ![p] = "try_b"]
       ELSE /\ pc' = [pc EXCEPT ![p] = "backoff"]
            /\ UNCHANGED resource_a
    /\ UNCHANGED <<proc_entry, resource_b, retries>>

\* mutex_trylock(&resource_b), which on failure gives resource_a back
TryB(p) ==
    /\ pc[p] = "try_b"
    /\ IF resource_b = NoOwner
       THEN /\ resource_b' = p
            /\ pc' = [pc EXCEPT ![p] = "critical"]
            /\ UNCHANGED resource_a
       ELSE /\ resource_a' = NoOwner
            /\ pc' = [pc EXCEPT ![p] = "backoff"]
            /\ UNCHANGED resource_b
    /\ UNCHANGED <<proc_entry, retries>>

\* Fault: one round too many.
RetryOnceMore(p) ==
    /\ pc[p] = "backoff"
    /\ retries' = [retries EXCEPT ![p] = @ + 1]
    /\ pc' = [pc EXCEPT ![p] = IF retries[p] + 1 <= MAX_RETRIES
                               THEN "try_a" ELSE "copy"]
    /\ UNCHANGED <<proc_entry, resource_a, resource_b>>

\* Fault: retries is never incremented.
RetryForever(p) ==
    /\ Goto(p, "backoff", "try_a")
    /\ UNCHANGED <<proc_entry, resource_a, resource_b, retries>>

\* msleep(10), retries++, and the loop condition; falling out of the loop is
\* the -EBUSY return, whose message is formatted without the locks.
Retry(p) ==
    /\ pc[p] = "backoff"
    /\ retries' = [retries EXCEPT ![p] = @ + 1]
    /\ pc' = [pc EXCEPT ![p] = IF retries[p] + 1 < MAX_RETRIES
                               THEN "try_a" ELSE "copy"]
    /\ UNCHANGED <<proc_entry, resource_a, resource_b>>

\* Fault: the first unlock names the wrong mutex.
ReleaseAFirst(p) ==
    /\ Goto(p, "critical", "release_a")
    /\ resource_a' = NoOwner
    /\ UNCHANGED <<proc_entry, resource_b, retries>>

\* The critical section ends; release_both_locks unlocks resource_b ...
ReleaseB(p) ==
    /\ Goto(p, "critical", "release_a")
    /\ resource_b' = NoOwner
    /\ UNCHANGED <<proc_entry, resource_a, retries>>

\* Fault: the second unlock is forgotten.
ReleaseNothing(p) ==
    /\ Goto(p, "release_a", "copy")
    /\ UNCHANGED <<proc_entry, resource_a, resource_b, retries>>

\* ... and then resource_a.
ReleaseA(p) ==
    /\ Goto(p, "release_a", "copy")
    /\ resource_a' = NoOwner
    /\ UNCHANGED <<proc_entry, resource_b, retries>>

\* copy_to_user: a fault returns -EFAULT with *pos still 0.
CopyOut(p) ==
    /\ \E next \in {"eof", "idle"} : Goto(p, "copy", next)
    /\ retries' = [retries EXCEPT ![p] = 0]
    /\ UNCHANGED <<proc_entry, resource_a, resource_b>>

ReadStep(p) ==
    TryA(p) \/ TryB(p) \/ Retry(p) \/ ReleaseB(p) \/ ReleaseA(p) \/ CopyOut(p)

Next ==
    \/ deadlock_init
    \/ ProcRemoveBegin
    \/ deadlock_exit
    \/ \E p \in Procs : BeginRead(p) \/ ReadEof(p) \/ ReadStep(p)

Spec == Init /\ [][Next]_vars

\* The scheduler runs every process that is inside the handler, and rmmod.
FairSpec == Spec /\ WF_vars(deadlock_exit) /\ \A p \in Procs : WF_vars(ReadStep(p))

-----------------------------------------------------------------------------
\* At most one process is in the section that release_both_locks ends, and it
\* holds both mutexes there (lines 55-65).
CriticalExclusive ==
    \A p \in Procs : pc[p] = "critical" =>
        /\ resource_a = p /\ resource_b = p
        /\ \A q \in Procs \ {p} : pc[q] # "critical"

\* Both locks are always taken and dropped nested, so a process that got
\* resource_a finds resource_b free: the second trylock (line 22) never fails
\* and the back-off at line 27 is a safety net that no schedule needs.
SecondTrylockSucceeds ==
    \A p \in Procs : pc[p] = "try_b" => resource_b = NoOwner

\* A lock is held only by a process inside the handler: no return path, the
\* -EBUSY one included, leaves a mutex locked, and none is locked once the
\* module text is gone (lines 24-35, 97).
NoLockLeaked ==
    /\ \A p \in Procs : pc[p] \in Outside \cup {"try_a", "backoff", "copy"} =>
           resource_a # p /\ resource_b # p
    /\ proc_entry = "absent" => \A p \in Procs : pc[p] \in Outside

\* Every read returns, however the other readers interleave: no deadlock and
\* no endless retry (lines 18-35).
ReadReturns ==
    \A p \in Procs : pc[p] \in Handler ~> pc[p] \in Outside
=============================================================================
