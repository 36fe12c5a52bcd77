---------------------------- MODULE MutexSemDemo ----------------------------
(***************************************************************************)
(* examples/class_3/07_mutex_semaphore/mutex_sem_demo.c                    *)
(*                                                                         *)
(* Three files under /proc/sync_demo.  "mutex" updates shared_data and     *)
(* shared_message under a mutex, "semaphore" takes one of MAX_RESOURCES    *)
(* permits and numbers the resource it got, "status" prints everything     *)
(* without taking either.  Processes are their pids; the kernel is SMP, so *)
(* an unlocked int++ is a load and a store.                                *)
(***************************************************************************)
EXTENDS Integers, FiniteSets

CONSTANTS MutexReaders, SemReaders, StatusReaders,  \* disjoint sets of pids
          MAX_RESOURCES,                            \* 3 in the code
          MaxData, MaxId   \* bounds: no read starts past these counter values

ASSUME PidAssumption ==
    /\ MutexReaders \cup SemReaders \cup StatusReaders \subseteq Nat \ {0}
    /\ MutexReaders \cap SemReaders = {}
    /\ StatusReaders \cap (MutexReaders \cup SemReaders) = {}
    /\ IsFiniteSet(SemReaders)
ASSUME BoundAssumption == MAX_RESOURCES \in Nat /\ MaxData \in Nat /\ MaxId \in Nat

VARIABLES phase,                \* of the module: "out", "loading", "live", "rundown"
          entries,              \* files that exist under /proc/sync_demo
          shared_data_mutex,    \* holder, 0 when free
          shared_data,
          shared_message,       \* pid it names, 0 for "Initial state"
          resource_pool,        \* free permits
          active_users,
          resource_id_counter,
          pc,                   \* position of each reader in its handler, and its locals:
          local_data, local_msg, my_resource_id, user_count

mutexVars == <<shared_data_mutex, shared_data, shared_message>>
semVars   == <<resource_pool, active_users, resource_id_counter>>
locals    == <<local_data, local_msg, my_resource_id, user_count>>
vars      == <<phase, entries, mutexVars, semVars, pc, locals>>

Readers == MutexReaders \cup SemReaders \cup StatusReaders
Files   == {"mutex", "semaphore", "status"}
Outside == {"idle", "eof"}
Zero    == [p \in Readers |-> 0]

MutexSteps  == {"lock", "add", "message", "copy", "work", "reply"}
SemSteps    == {"down", "inc", "load_id", "store_id", "use", "up", "reply"}
StatusSteps == {"status", "format", "reply"}

TypeOK ==
    /\ phase \in {"out", "loading", "live", "rundown"}
    /\ entries \subseteq Files
    /\ shared_data_mutex \in MutexReaders \cup {0}
    /\ shared_data \in Nat
    /\ shared_message \in MutexReaders \cup {0}
    /\ resource_pool \in 0 .. MAX_RESOURCES
    /\ active_users \in Nat
    /\ resource_id_counter \in Nat \ {0}
    /\ pc \in [Readers -> Outside \cup MutexSteps \cup SemSteps \cup StatusSteps]
    /\ local_data \in [Readers -> Nat] /\ local_msg \in [Readers -> Nat]
    /\ my_resource_id \in [Readers -> Nat] /\ user_count \in [Readers -> Nat]

\* The static initialisers, which every insmod runs again.
FreshStatics ==
    /\ shared_data_mutex' = 0 /\ shared_data' = 0 /\ shared_message' = 0
    /\ active_users' = 0 /\ resource_id_counter' = 1

Init ==
    /\ phase = "out" /\ entries = {}
    /\ shared_data_mutex = 0 /\ shared_data = 0 /\ shared_message = 0
    /\ resource_pool = MAX_RESOURCES /\ active_users = 0 /\ resource_id_counter = 1
    /\ pc = [p \in Readers |-> "idle"]
    /\ local_data = Zero /\ local_msg = Zero /\ my_resource_id = Zero /\ user_count = Zero

-----------------------------------------------------------------------------
\* insmod: sema_init, proc_mkdir, and three proc_create calls of which any may
\* fail; a file can be read as soon as it exists.  (When proc_mkdir fails the
\* load just fails.)
mutex_sem_init(made) ==
    /\ phase = "out"
    /\ phase' = "loading"
    /\ entries' = made
    /\ FreshStatics
    /\ resource_pool' = MAX_RESOURCES
    /\ UNCHANGED <<pc, locals>>

\* The check of the three entries; a missing one removes the directory.
InitCheck ==
    /\ phase = "loading"
    /\ phase' = IF entries = Files THEN "live" ELSE "rundown"
    /\ UNCHANGED <<entries, mutexVars, semVars, pc, locals>>

\* rmmod: proc_remove(proc_dir) keeps new handlers out ...
ProcRemoveBegin ==
    /\ phase = "live"
    /\ phase' = "rundown"
    /\ UNCHANGED <<entries, mutexVars, semVars, pc, locals>>

\* ... and waits for those inside.
mutex_sem_exit ==
    /\ phase = "rundown"
    /\ \A p \in Readers : pc[p] \in Outside
    /\ phase' = "out"
    /\ entries' = {}
    /\ UNCHANGED <<mutexVars, semVars, pc, locals>>

Goto(p, from, to) == pc[p] = from /\ pc' = [pc EXCEPT ![p] = to]

\* A first read of a file (*pos = 0).
Begin(p, file, to) ==
    /\ phase \in {"loading", "live"}
    /\ file \in entries
    /\ Goto(p, "idle", to)
    /\ UNCHANGED <<phase, entries, mutexVars, semVars, locals>>

\* copy_to_user, which may fault and leave *pos at 0.
Reply(p) ==
    /\ \E next \in Outside : Goto(p, "reply", next)
    /\ local_data' = [local_data EXCEPT ![p] = 0]
    /\ local_msg' = [local_msg EXCEPT ![p] = 0]
    /\ my_resource_id' = [my_resource_id EXCEPT ![p] = 0]
    /\ user_count' = [user_count EXCEPT ![p] = 0]
    /\ UNCHANGED <<phase, entries, mutexVars, semVars>>

\* The second read returns 0 and the reader closes the file.
ReadEof(p) ==
    /\ Goto(p, "eof", "idle")
    /\ UNCHANGED <<phase, entries, mutexVars, semVars, locals>>

-----------------------------------------------------------------------------
\* mutex_demo_read
MutexBegin(p) == shared_data <= MaxData /\ Begin(p, "mutex", "lock")

\* A signal ends the wait: -ERESTARTSYS.
MutexInterrupted(p) ==
    /\ Goto(p, "lock", "idle")
    /\ UNCHANGED <<phase, entries, mutexVars, semVars, locals>>

\* Fault: the return value of mutex_lock_interruptible is ignored.
LockUnchecked(p) ==
    /\ Goto(p, "lock", "add")
    /\ shared_data_mutex' = p
    /\ UNCHANGED <<phase, entries, shared_data, shared_message, semVars, locals>>

LockMutex(p) ==
    /\ Goto(p, "lock", "add")
    /\ shared_data_mutex = 0
    /\ shared_data_mutex' = p
    /\ UNCHANGED <<phase, entries, shared_data, shared_message, semVars, locals>>

AddData(p) ==
    /\ Goto(p, "add", "message")
    /\ shared_data' = shared_data + (p % 100)
    /\ UNCHANGED <<phase, entries, shared_data_mutex, shared_message, semVars, locals>>

WriteMessage(p) ==
    /\ Goto(p, "message", "copy")
    /\ shared_message' = p
    /\ UNCHANGED <<phase, entries, shared_data_mutex, shared_data, semVars, locals>>

\* Fault: unlocks before sleeping.
CopyAndUnlock(p) ==
    /\ Goto(p, "copy", "work")
    /\ local_data' = [local_data EXCEPT ![p] = shared_data]
    /\ local_msg' = [local_msg EXCEPT ![p] = shared_message]
    /\ shared_data_mutex' = 0
    /\ UNCHANGED <<phase, entries, shared_data, shared_message, semVars,
                   my_resource_id, user_count>>

CopyLocals(p) ==
    /\ Goto(p, "copy", "work")
    /\ local_data' = [local_data EXCEPT ![p] = shared_data]
    /\ local_msg' = [local_msg EXCEPT ![p] = shared_message]
    /\ UNCHANGED <<phase, entries, mutexVars, semVars, my_resource_id, user_count>>

UnlockMutex(p) ==
    /\ Goto(p, "work", "reply")
    /\ shared_data_mutex' = 0
    /\ UNCHANGED <<phase, entries, shared_data, shared_message, semVars, locals>>

MutexStep(p) ==
    LockMutex(p) \/ AddData(p) \/ WriteMessage(p) \/ CopyLocals(p) \/ UnlockMutex(p)

-----------------------------------------------------------------------------
\* semaphore_demo_read
SemBegin(p) == resource_id_counter <= MaxId /\ Begin(p, "semaphore", "down")

\* Fault: an interrupted waiter has taken a permit.
InterruptedWithPermit(p) ==
    /\ Goto(p, "down", "idle")
    /\ resource_pool > 0
    /\ resource_pool' = resource_pool - 1
    /\ UNCHANGED <<phase, entries, mutexVars, active_users, resource_id_counter, locals>>

SemInterrupted(p) ==
    /\ Goto(p, "down", "idle")
    /\ UNCHANGED <<phase, entries, mutexVars, semVars, locals>>

Down(p) ==
    /\ Goto(p, "down", "inc")
    /\ resource_pool > 0
    /\ resource_pool' = resource_pool - 1
    /\ UNCHANGED <<phase, entries, mutexVars, active_users, resource_id_counter, locals>>

\* user_count = atomic_inc_return(&active_users)
IncUsers(p) ==
    /\ Goto(p, "inc", "load_id")
    /\ active_users' = active_users + 1
    /\ user_count' = [user_count EXCEPT ![p] = active_users']
    /\ UNCHANGED <<phase, entries, mutexVars, resource_pool, resource_id_counter,
                   local_data, local_msg, my_resource_id>>

\* my_resource_id = resource_id_counter++
LoadId(p) ==
    /\ Goto(p, "load_id", "store_id")
    /\ my_resource_id' = [my_resource_id EXCEPT ![p] = resource_id_counter]
    /\ UNCHANGED <<phase, entries, mutexVars, semVars, local_data, local_msg, user_count>>

StoreId(p) ==
    /\ Goto(p, "store_id", "use")
    /\ resource_id_counter' = my_resource_id[p] + 1
    /\ UNCHANGED <<phase, entries, mutexVars, resource_pool, active_users, locals>>

\* Fault: the permit goes back before the user is uncounted.
UpBeforeDec(p) ==
    /\ Goto(p, "use", "up")
    /\ resource_pool' = resource_pool + 1
    /\ UNCHANGED <<phase, entries, mutexVars, active_users, resource_id_counter, locals>>

DecUsers(p) ==
    /\ Goto(p, "use", "up")
    /\ active_users' = active_users - 1
    /\ UNCHANGED <<phase, entries, mutexVars, resource_pool, resource_id_counter, locals>>

\* Fault: up() is forgotten.
UpForgotten(p) ==
    /\ Goto(p, "up", "reply")
    /\ UNCHANGED <<phase, entries, mutexVars, semVars, locals>>

Up(p) ==
    /\ Goto(p, "up", "reply")
    /\ resource_pool' = resource_pool + 1
    /\ UNCHANGED <<phase, entries, mutexVars, active_users, resource_id_counter, locals>>

SemStep(p) ==
    Down(p) \/ IncUsers(p) \/ LoadId(p) \/ StoreId(p) \/ DecUsers(p) \/ Up(p)

-----------------------------------------------------------------------------
\* status_read: snprintf gets the integers by value and the message by
\* address, so the text is read after them.
StatusBegin(p) == Begin(p, "status", "status")

\* Fault: counts the resource that is not handed out yet.
StatusLoadOffByOne(p) ==
    /\ Goto(p, "status", "format")
    /\ local_data' = [local_data EXCEPT ![p] = shared_data]
    /\ user_count' = [user_count EXCEPT ![p] = active_users]
    /\ my_resource_id' = [my_resource_id EXCEPT ![p] = resource_id_counter - 2]
    /\ UNCHANGED <<phase, entries, mutexVars, semVars, local_msg>>

StatusLoad(p) ==
    /\ Goto(p, "status", "format")
    /\ local_data' = [local_data EXCEPT ![p] = shared_data]
    /\ user_count' = [user_count EXCEPT ![p] = active_users]
    /\ my_resource_id' = [my_resource_id EXCEPT ![p] = resource_id_counter - 1]
    /\ UNCHANGED <<phase, entries, mutexVars, semVars, local_msg>>

StatusFormat(p) ==
    /\ Goto(p, "format", "reply")
    /\ local_msg' = [local_msg EXCEPT ![p] = shared_message]
    /\ UNCHANGED <<phase, entries, mutexVars, semVars, local_data, my_resource_id, user_count>>

StatusStep(p) == StatusLoad(p) \/ StatusFormat(p)

Next ==
    \/ \E made \in SUBSET Files : mutex_sem_init(made)
    \/ InitCheck \/ ProcRemoveBegin \/ mutex_sem_exit
    \/ \E p \in Readers : Reply(p) \/ ReadEof(p)
    \/ \E p \in MutexReaders : MutexBegin(p) \/ MutexInterrupted(p) \/ MutexStep(p)
    \/ \E p \in SemReaders : SemBegin(p) \/ SemInterrupted(p) \/ SemStep(p)
    \/ \E p \in StatusReaders : StatusBegin(p) \/ StatusStep(p)

Spec == Init /\ [][Next]_vars

\* Handlers and rmmod are scheduled; mutexes and semaphores serve their wait
\* lists in order, so a waiter that is passed over is served eventually.
Fairness ==
    /\ WF_vars(mutex_sem_exit) /\ WF_vars(InitCheck)
    /\ \A p \in Readers : WF_vars(Reply(p))
    /\ \A p \in MutexReaders : WF_vars(MutexStep(p)) /\ SF_vars(LockMutex(p))
    /\ \A p \in SemReaders : WF_vars(SemStep(p)) /\ SF_vars(Down(p))
    /\ \A p \in StatusReaders : WF_vars(StatusStep(p))

FairSpec == Spec /\ Fairness

-----------------------------------------------------------------------------
\* For TLC: the mutex half and the semaphore half share only the life cycle of
\* the module, so a behaviour has the readers of one half.
VARIABLE active

MCInit == Init /\ active \in {MutexReaders \cup StatusReaders, SemReaders}

MCNext ==
    /\ Next
    /\ \A p \in Readers \ active : pc'[p] = pc[p]
    /\ UNCHANGED active

MCSpec == MCInit /\ [][MCNext]_<<vars, active>> /\ Fairness

-----------------------------------------------------------------------------
\* While a reader sleeps with the mutex nobody else changes what it copied:
\* it reports its own pid and the value its own update produced (lines 47-58).
CopyStaysCurrent ==
    \A p \in MutexReaders : pc[p] = "work" =>
        /\ shared_data_mutex = p
        /\ local_msg[p] = p /\ shared_message = p
        /\ local_data[p] = shared_data

\* Two readers whose replies are still on their way never report the same
\* shared_data: no increment was lost between them (lines 47-52).
NoLostUpdate ==
    \A p, q \in MutexReaders :
        /\ p # q /\ p % 100 > 0 /\ q % 100 > 0
        /\ {pc[p], pc[q]} \subseteq {"work", "reply"}
        => local_data[p] # local_data[q]

Holders == {p \in SemReaders : pc[p] \in SemSteps \ {"down", "reply"}}
Counted == {p \in SemReaders : pc[p] \in {"load_id", "store_id", "use"}}

\* Permits are neither lost nor duplicated, whether a waiter is served,
\* interrupted or fails to copy its reply (lines 88-113).
PermitsConserved == resource_pool + Cardinality(Holders) = MAX_RESOURCES

\* active_users never exceeds the pool and every "n/MAX" that a reader prints
\* is in range: the count drops before the permit is returned (lines 94, 112).
UsersWithinPool ==
    /\ active_users <= MAX_RESOURCES
    /\ \A p \in Counted : user_count[p] \in 1 .. MAX_RESOURCES

\* A reader waiting for a permit gets one or is interrupted (line 88).
WaiterServed == \A p \in SemReaders : pc[p] = "down" ~> pc[p] # "down"
=============================================================================
