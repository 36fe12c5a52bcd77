---------------------------- MODULE MCLocks_proofs --------------------------
(***************************************************************************)
(* Locks, for any tasks, CPUs, processes, values and size of the array.    *)
(* The spinlock demo keeps its types and implements the counted register;  *)
(* what a reader under the reader-writer lock prints belongs together      *)
(* (Rw...); the ioctls are indivisible and open files keep their module    *)
(* (It...).                                                                *)
(***************************************************************************)
EXTENDS MCLocks, Sequences, FiniteSets, TLAPS

\* The time, in seconds, that the provers have for a step
USE SMTT(40), ZenonT(40)

-----------------------------------------------------------------------------
\* The lock and the section belong together, the loaded count is current, a
\* pending write has a value, and nothing runs while the module is out.
SectionInv ==
    /\ TypeOK
    /\ \A p \in Procs : pc[p] \in Inside <=> data_lock = p
    /\ \A p \in Procs : pc[p] = "store" => loaded[p] = operation_count
    /\ \A p \in writes : input[p] \in Values
    /\ phase = "out" => \A p \in Procs : pc[p] \in Outside

LEMMA SectionInvInit == Init => SectionInv
  BY FreeAssumption DEF Init, SectionInv, TypeOK, Outside, Inside, Free

LEMMA SectionInvNext == SectionInv /\ [Next]_vars => SectionInv'
<1> SUFFICES ASSUME SectionInv, [Next]_vars PROVE SectionInv'
    BY Zenon
<1> USE ValueAssumption, FreeAssumption DEF SectionInv, TypeOK, Goto, dataVars, localVars,
                                            Outside, Inside
<1>1. CASE spinlock_init
    BY <1>1, Zenon DEF spinlock_init
<1>2. CASE ExitBegin
    BY <1>2, Zenon DEF ExitBegin
<1>3. CASE spinlock_exit
    BY <1>3, Zenon DEF spinlock_exit
<1>4. ASSUME NEW p \in Procs, ReadBegin(p) PROVE SectionInv'
    BY <1>4, Zenon DEF ReadBegin
<1>5. ASSUME NEW p \in Procs, ReadEof(p) PROVE SectionInv'
    BY <1>5, ZenonT(40) DEF ReadEof
<1>6. ASSUME NEW p \in Procs, NEW v \in Values, WriteBegin(p, v) PROVE SectionInv'
    BY <1>6 DEF WriteBegin
<1>7. ASSUME NEW p \in Procs, Lock(p) PROVE SectionInv'
    BY <1>7, Zenon DEF Lock
<1>8. ASSUME NEW p \in Procs, AccessData(p) PROVE SectionInv'
    BY <1>8 DEF AccessData
<1>9. ASSUME NEW p \in Procs, LoadCount(p) PROVE SectionInv'
    BY <1>9, ZenonT(40) DEF LoadCount
<1>10. ASSUME NEW p \in Procs, StoreCount(p) PROVE SectionInv'
    BY <1>10 DEF StoreCount
<1>11. ASSUME NEW p \in Procs, CopyCount(p) PROVE SectionInv'
    BY <1>11, Zenon DEF CopyCount
<1>12. ASSUME NEW p \in Procs, Unlock(p) PROVE SectionInv'
    BY <1>12, Zenon DEF Unlock, Free
<1>13. ASSUME NEW p \in Procs, Return(p) PROVE SectionInv'
    <2>1. PICK next \in Outside : Goto(p, "reply", next)
        BY <1>13, Zenon DEF Return
    <2> QED
        BY <1>13, <2>1, ZenonT(40) DEF Return
<1>14. CASE UNCHANGED vars
    BY <1>14, Zenon DEF vars
<1> QED
    BY <1>1, <1>2, <1>3, <1>4, <1>5, <1>6, <1>7, <1>8, <1>9, <1>10, <1>11, <1>12, <1>13,
       <1>14, ZenonT(40) DEF Next, Step

\* Every behaviour of the module keeps its variables in their types.
THEOREM TypeCorrect == Spec => []TypeOK
<1>1. SectionInv => TypeOK
    BY Zenon DEF SectionInv
<1> QED
    BY <1>1, SectionInvInit, SectionInvNext, PTL DEF Spec

-----------------------------------------------------------------------------
\* One step of the code is one step of the register, or none.
LEMMA StepSimulates ==
    ASSUME SectionInv, SectionInv', [Next]_vars
    PROVE  [CR!Next]_<<shared_data, AbstractOps, AbstractReply>>
<1> DEFINE Stutter == UNCHANGED <<shared_data, AbstractOps, AbstractReply>>
<1> USE ValueAssumption DEF SectionInv, TypeOK, Goto, dataVars, localVars, Outside, Inside
<1>0. /\ AbstractReply = [q \in Procs |-> AbstractReply[q]]
      /\ AbstractReply' = [q \in Procs |-> AbstractReply'[q]]
    BY ZenonT(40) DEF AbstractReply, ReplyOf, NumberOf, Counting
<1>1. CASE spinlock_init
    <2>1. AbstractReply = [q \in Procs |-> <<0, 0>>] /\ AbstractReply' = AbstractReply
        BY <1>1, ZenonT(40) DEF spinlock_init, AbstractReply, ReplyOf, NumberOf, Counting
    <2>2. AbstractOps' = 0
        BY <1>1, Zenon DEF spinlock_init, AbstractOps, Counting
    <2> QED
        BY <1>1, <2>1, <2>2, Zenon DEF spinlock_init, CR!Next, CR!Reload, CR!NoReply
<1>2. CASE ExitBegin \/ spinlock_exit
    <2>1. AbstractOps' = AbstractOps
        BY <1>2, Zenon DEF ExitBegin, spinlock_exit, AbstractOps, Counting
    <2>2. AbstractReply' = AbstractReply
        BY <1>2, ZenonT(40) DEF ExitBegin, spinlock_exit, AbstractReply, ReplyOf, NumberOf, Counting
    <2> QED
        BY <1>2, <2>1, <2>2, Zenon DEF ExitBegin, spinlock_exit
<1>3. ASSUME NEW p \in Procs, ReadBegin(p) \/ ReadEof(p) PROVE Stutter
    <2>1. AbstractOps' = AbstractOps
        <3>1. \A q \in Procs : Counting(q)' <=> Counting(q)
            BY <1>3 DEF ReadBegin, ReadEof, Counting
        <3>2. operation_count' = operation_count
            BY <1>3, ZenonT(40) DEF ReadBegin, ReadEof
        <3> QED
            BY <3>1, <3>2, ZenonT(40) DEF AbstractOps, Counting
    <2>2. AbstractReply' = AbstractReply
        BY <1>3 DEF ReadBegin, ReadEof, AbstractReply, ReplyOf, NumberOf, Counting
    <2> QED
        BY <1>3, <2>1, <2>2, Zenon DEF ReadBegin, ReadEof
<1>4. ASSUME NEW p \in Procs, NEW v \in Values, WriteBegin(p, v) PROVE Stutter
    <2>1. AbstractOps' = AbstractOps
        BY <1>4, Zenon DEF WriteBegin, AbstractOps, Counting
    <2>2. AbstractReply' = AbstractReply
        BY <1>4, ZenonT(40) DEF WriteBegin, AbstractReply, ReplyOf, NumberOf, Counting
    <2> QED
        BY <1>4, <2>1, <2>2, ZenonT(40) DEF WriteBegin
<1>5. ASSUME NEW p \in Procs, Lock(p) \/ Unlock(p) PROVE Stutter
    <2>1. AbstractOps' = AbstractOps
        <3>1. \A q \in Procs : Counting(q)' <=> Counting(q)
            BY <1>5 DEF Lock, Unlock, Counting
        <3>2. operation_count' = operation_count
            BY <1>5, ZenonT(40) DEF Lock, Unlock
        <3> QED
            BY <3>1, <3>2, Zenon DEF AbstractOps, Counting
    <2>2. AbstractReply' = AbstractReply
        BY <1>5 DEF Lock, Unlock, AbstractReply, ReplyOf, NumberOf, Counting
    <2> QED
        BY <1>5, <2>1, <2>2, Zenon DEF Lock, Unlock
<1>6. ASSUME NEW p \in Procs, AccessData(p) PROVE CR!Next
    <2>1. AbstractOps = operation_count /\ AbstractOps' = operation_count + 1
        BY <1>6, ZenonT(40) DEF AccessData, AbstractOps, Counting
    <2>2. CASE p \in writes
        <3>1. AbstractReply' = AbstractReply
            BY <1>6, <2>2 DEF AccessData, AbstractReply, ReplyOf, NumberOf, Counting
        <3> QED
            BY <1>6, <2>1, <2>2, <3>1, Zenon DEF AccessData, CR!Next, CR!Write
    <2>3. CASE p \notin writes
        <3>1. AbstractReply[p] = <<0, 0>>
            BY <1>6, <2>3, ZenonT(40) DEF AccessData, AbstractReply, ReplyOf
        <3>2. AbstractReply'[p] = <<shared_data, operation_count + 1>>
            BY <1>6, <2>3 DEF AccessData, AbstractReply, ReplyOf, NumberOf, Counting
        <3>3. \A q \in Procs : q # p => AbstractReply'[q] = AbstractReply[q]
            BY <1>6, <2>3 DEF AccessData, AbstractReply, ReplyOf, NumberOf, Counting
        <3>4. AbstractReply' = [AbstractReply EXCEPT ![p] = <<shared_data, operation_count + 1>>]
            BY <1>0, <3>2, <3>3
        <3> QED
            BY <1>6, <2>1, <2>3, <3>1, <3>4, ZenonT(40) DEF AccessData, CR!Next, CR!Read, CR!NoReply
    <2> QED
        BY <2>2, <2>3, ZenonT(40)
<1>7. ASSUME NEW p \in Procs, LoadCount(p) PROVE Stutter
    BY <1>7 DEF LoadCount, AbstractOps, AbstractReply, ReplyOf, NumberOf, Counting
<1>8. ASSUME NEW p \in Procs, StoreCount(p) PROVE Stutter
    <2>1. AbstractOps = operation_count + 1 /\ AbstractOps' = operation_count + 1
        BY <1>8, ZenonT(40) DEF StoreCount, AbstractOps, Counting
    <2>2. AbstractReply' = AbstractReply
        BY <1>8 DEF StoreCount, AbstractReply, ReplyOf, NumberOf, Counting
    <2> QED
        BY <1>8, <2>1, <2>2, Zenon DEF StoreCount
<1>9. ASSUME NEW p \in Procs, CopyCount(p) PROVE Stutter
    BY <1>9 DEF CopyCount, AbstractOps, AbstractReply, ReplyOf, NumberOf, Counting
<1>10. ASSUME NEW p \in Procs, Return(p) PROVE CR!Next
    <2>1. PICK next \in Outside : Goto(p, "reply", next)
        BY <1>10, Zenon DEF Return
    <2>2. AbstractOps' = AbstractOps
        BY <1>10, <2>1, ZenonT(40) DEF Return, AbstractOps, Counting
    <2>3. AbstractReply' = [AbstractReply EXCEPT ![p] = <<0, 0>>]
        BY <1>10, <2>1, ZenonT(40) DEF Return, AbstractReply, ReplyOf, NumberOf, Counting
    <2> QED
        BY <1>10, <2>2, <2>3, Zenon DEF Return, CR!Next, CR!Return, CR!NoReply
<1>11. CASE UNCHANGED vars
    BY <1>11, ZenonT(40) DEF vars, AbstractOps, AbstractReply, ReplyOf, NumberOf, Counting
<1> QED
    BY <1>1, <1>2, <1>3, <1>4, <1>5, <1>6, <1>7, <1>8, <1>9, <1>10, <1>11, ZenonT(40) DEF Next, Step

\* Reads and writes of /proc/spinlock_demo are indivisible numbered operations.
THEOREM Refinement == Spec => ImplementsCountedRegister
<1>1. Init => CR!Init
    BY ZenonT(40)
       DEF Init, CR!Init, CR!NoReply, AbstractOps, AbstractReply, ReplyOf, NumberOf, Counting
<1> QED
    BY <1>1, SectionInvInit, SectionInvNext, StepSimulates, PTL
       DEF Spec, ImplementsCountedRegister, CR!Spec

-----------------------------------------------------------------------------
\* Where a task holds the lock.
RwHeld == {"data", "time", "asleep", "woken"}

\* The lock is held by one writer or by readers, its holders are the tasks
\* inside, and a file that is not there has no handler.
RwLockInv ==
    /\ DOMAIN pc_rw = RW!Tasks
    /\ \A r \in Readers : pc_rw[r] \in RwHeld <=> r \in readers
    /\ \A w \in Writers : pc_rw[w] \in RwHeld <=> writer = w
    /\ writer # RW!Nobody => writer \in Writers /\ readers = {}
    /\ readers \subseteq Readers
    /\ phase_rw \in {"out", "rm_writer"} => \A r \in Readers : pc_rw[r] \in RW!Outside
    /\ phase_rw \in {"out", "init_writer", "undo"} => \A w \in Writers : pc_rw[w] \in RW!Outside

\* The value and the time belong together except between the two assignments
\* of a writer, and a reader between its two loads has the present value.
RwPairInv ==
    /\ (\A w \in Writers : pc_rw[w] # "time") => <<data_rw, last_update>> \in stamped
    /\ DOMAIN seen = Readers
    /\ \A r \in Readers : pc_rw[r] = "time" => seen[r] = <<data_rw, 0>>
    /\ RW!SnapshotConsistent

-----------------------------------------------------------------------------
\* No task is inside before the module is loaded.
LEMMA RwInit ==
    ASSUME RW!Init
    PROVE  RwLockInv /\ RwPairInv
BY LocksAssumption, Zenon
   DEF RW!Init, RwLockInv, RwPairInv, RW!SnapshotConsistent, RwHeld, RW!Outside,
                       RW!Tasks

\* Locking, unlocking, loading and unloading keep the holders and the places
\* of the tasks together.
LEMMA RwLockNext ==
    ASSUME RwLockInv, [RW!Next]_(RW!vars)
    PROVE  RwLockInv'
<1> USE LocksAssumption DEF RwLockInv, RwHeld, RW!Outside, RW!Tasks, RW!Goto, RW!lockVars
<1>1. CASE RW!InitReaderFile \/ RW!InitWriterFile \/ RW!InitUndone \/ RW!InitTime
    BY <1>1, ZenonT(40) DEF RW!InitReaderFile, RW!InitWriterFile, RW!InitUndone, RW!InitTime
<1>2. CASE RW!ExitBegin \/ RW!ExitReaderGone \/ RW!ExitDone \/ RW!Tick
    BY <1>2, ZenonT(40) DEF RW!ExitBegin, RW!ExitReaderGone, RW!ExitDone, RW!Tick
<1>3. ASSUME NEW t \in RW!Tasks, RW!Dispatch(t) \/ RW!Wake(t) \/ RW!Enqueue(t) PROVE RwLockInv'
    BY <1>3, ZenonT(40) DEF RW!Dispatch, RW!Wake, RW!Enqueue
<1>4. ASSUME NEW r \in Readers, RW!ReadBegin(r) \/ RW!ReadEof(r) PROVE RwLockInv'
    BY <1>4, ZenonT(40) DEF RW!ReadBegin, RW!ReadEof, RW!ReaderFileLive
<1>5. ASSUME NEW r \in Readers, RW!ReadLocked(r) PROVE RwLockInv'
    BY <1>5, ZenonT(40) DEF RW!ReadLocked
<1>6. ASSUME NEW r \in Readers, RW!ReadData(r) \/ RW!ReadTime(r) PROVE RwLockInv'
    BY <1>6, ZenonT(40) DEF RW!ReadData, RW!ReadTime
<1>7. ASSUME NEW r \in Readers, RW!ReadUnlock(r) \/ RW!ReadReply(r) PROVE RwLockInv'
    BY <1>7, ZenonT(40) DEF RW!ReadUnlock, RW!ReadReply
<1>8. ASSUME NEW w \in Writers, NEW v \in RwValues, RW!WriteBegin(w, v) PROVE RwLockInv'
    BY <1>8, Zenon DEF RW!WriteBegin, RW!WriterFileLive
<1>9. ASSUME NEW w \in Writers, RW!WriteLocked(w) PROVE RwLockInv'
    BY <1>9, ZenonT(40) DEF RW!WriteLocked
<1>10. ASSUME NEW w \in Writers, RW!WriteData(w) \/ RW!WriteTime(w) PROVE RwLockInv'
    BY <1>10, ZenonT(40) DEF RW!WriteData, RW!WriteTime
<1>11. ASSUME NEW w \in Writers, RW!WriteUnlock(w) \/ RW!WriteReturn(w) PROVE RwLockInv'
    BY <1>11, ZenonT(40) DEF RW!WriteUnlock, RW!WriteReturn
<1>12. CASE UNCHANGED RW!vars
    BY <1>12, Zenon DEF RW!vars
<1> HIDE DEF RwLockInv
<1> QED
    BY <1>1, <1>2, <1>3, <1>4, <1>5, <1>6, <1>7, <1>8, <1>9, <1>10, <1>11, <1>12, Zenon
       DEF RW!Next, RW!ReadStep, RW!WriteStep

-----------------------------------------------------------------------------
\* A step that leaves the data, what was read and all places between a lock and
\* a reply alone keeps the pairs.
LEMMA RwPairsKept ==
    ASSUME RwPairInv, UNCHANGED <<RW!dataVars, seen>>,
           \A w \in Writers : pc_rw[w] = "time" => pc_rw'[w] = "time",
           \A r \in Readers : pc_rw'[r] = "time" => pc_rw[r] = "time",
           \A r \in Readers : pc_rw'[r] \in {"asleep", "woken", "reply"}
                                 => pc_rw[r] \in {"asleep", "woken", "reply"}
    PROVE  RwPairInv'
BY Zenon DEF RwPairInv, RW!SnapshotConsistent, RW!dataVars

\* Every assignment to the data keeps the pairs: a writer's are made with no
\* reader inside, and init's pairs the time with whatever value is there.
LEMMA RwPairNext ==
    ASSUME RwLockInv, RwPairInv, [RW!Next]_(RW!vars)
    PROVE  RwPairInv'
<1> USE LocksAssumption DEF RwLockInv, RwHeld, RW!Outside, RW!Tasks, RW!Goto, RW!lockVars
<1>1. CASE RW!InitReaderFile
    BY <1>1, Zenon DEF RW!InitReaderFile, RwPairInv, RW!SnapshotConsistent
<1>2. CASE RW!InitTime
    BY <1>2, Zenon DEF RW!InitTime, RwPairInv, RW!SnapshotConsistent
<1>3. CASE \/ RW!InitWriterFile \/ RW!InitUndone
           \/ RW!ExitBegin \/ RW!ExitReaderGone \/ RW!ExitDone \/ RW!Tick
    BY <1>3, RwPairsKept, Zenon DEF RW!InitWriterFile, RW!InitUndone, RW!ExitBegin, RW!ExitReaderGone,
                             RW!ExitDone, RW!Tick
<1>4. ASSUME NEW t \in RW!Tasks, RW!Dispatch(t) \/ RW!Wake(t) \/ RW!Enqueue(t) PROVE RwPairInv'
    BY <1>4, RwPairsKept, ZenonT(40) DEF RW!Dispatch, RW!Wake, RW!Enqueue
<1>5. ASSUME NEW r \in Readers,
             RW!ReadBegin(r) \/ RW!ReadEof(r) \/ RW!ReadLocked(r) \/ RW!ReadUnlock(r)
      PROVE  RwPairInv'
    BY <1>5, RwPairsKept, ZenonT(40) DEF RW!ReadBegin, RW!ReadEof, RW!ReadLocked, RW!ReadUnlock
<1>6. ASSUME NEW r \in Readers, RW!ReadData(r) PROVE RwPairInv'
    BY <1>6, Zenon DEF RW!ReadData, RW!dataVars, RwPairInv, RW!SnapshotConsistent
<1>7. ASSUME NEW r \in Readers, RW!ReadTime(r) PROVE RwPairInv'
    <2>1. \A w \in Writers : pc_rw[w] # "time"
        BY <1>7, Zenon DEF RW!ReadTime
    <2>2. seen'[r] = <<data_rw, last_update>> /\ <<data_rw, last_update>> \in stamped
        BY <1>7, <2>1 DEF RW!ReadTime, RwPairInv
    <2> QED
        BY <1>7, <2>1, <2>2, ZenonT(40) DEF RW!ReadTime, RW!dataVars, RwPairInv, RW!SnapshotConsistent
<1>8. ASSUME NEW r \in Readers, RW!ReadReply(r) PROVE RwPairInv'
    BY <1>8, ZenonT(40) DEF RW!ReadReply, RW!dataVars, RwPairInv, RW!SnapshotConsistent
<1>9. ASSUME NEW w \in Writers,
             \/ RW!WriteLocked(w) \/ RW!WriteUnlock(w) \/ RW!WriteReturn(w)
             \/ \E v \in RwValues : RW!WriteBegin(w, v)
      PROVE  RwPairInv'
    BY <1>9, RwPairsKept, ZenonT(40) DEF RW!WriteBegin, RW!WriteLocked, RW!WriteUnlock, RW!WriteReturn
<1>10. ASSUME NEW w \in Writers, RW!WriteData(w) PROVE RwPairInv'
    <2>1. \A r \in Readers : pc_rw[r] \notin RwHeld
        BY <1>10, Zenon DEF RW!WriteData
    <2>2. pc_rw'[w] = "time" /\ \A r \in Readers : pc_rw'[r] = pc_rw[r]
        BY <1>10, Zenon DEF RW!WriteData
    <2> QED
        BY <1>10, <2>1, <2>2, ZenonT(40) DEF RW!WriteData, RwPairInv, RW!SnapshotConsistent
<1>11. ASSUME NEW w \in Writers, RW!WriteTime(w) PROVE RwPairInv'
    <2>1. \A r \in Readers : pc_rw[r] \notin RwHeld /\ pc_rw'[r] = pc_rw[r]
        BY <1>11, Zenon DEF RW!WriteTime
    <2> QED
        BY <1>11, <2>1, ZenonT(40) DEF RW!WriteTime, RwPairInv, RW!SnapshotConsistent
<1>12. CASE UNCHANGED RW!vars
    BY <1>12, RwPairsKept, Zenon DEF RW!vars
<1> HIDE DEF RwLockInv
<1> QED
    BY <1>1, <1>2, <1>3, <1>4, <1>5, <1>6, <1>7, <1>8, <1>9, <1>10, <1>11, <1>12, Zenon
       DEF RW!Next, RW!ReadStep, RW!WriteStep

-----------------------------------------------------------------------------
\* The labels between mutex_lock and mutex_unlock.
ItHeld == {"copy", "apply", "reset_string", "unlock"}

\* What a call carries from one of its steps to the next.
ItCallInv(p) ==
    /\ pc_it[p] \in {"idle", "lock", "copy"} => reply[p] = IT!NoReply
    /\ pc_it[p] \in {"lock", "copy"} =>
          /\ cmd[p] = "SET_VALUE" => arg[p] \in IntValues
          /\ cmd[p] = "SET_STRING" => arg[p] \in Lengths
    /\ pc_it[p] = "apply" =>
          \/ cmd[p] = "RESET"
          \/ cmd[p] = "SET_VALUE" /\ kernel_buffer[p] \in IntValues
          \/ cmd[p] = "SET_STRING" /\ \E n \in Lengths : kernel_buffer[p] = IT!Truncated(n)

\* The mutex is held by whoever is between its lock and its unlock, calls are
\* made on open files, and files are open only while the module is live.
ItMutexInv ==
    /\ pc_it \in [Procs -> IT!Labels]
    /\ DOMAIN cmd = Procs /\ DOMAIN arg = Procs
    /\ DOMAIN kernel_buffer = Procs /\ DOMAIN reply = Procs
    /\ \A p \in Procs : pc_it[p] \in ItHeld <=> lock = p
    /\ \A p \in Procs : pc_it[p] # "idle" => p \in opened
    /\ opened # {} => phase_it = "live"
    /\ \A p \in Procs : ItCallInv(p)

-----------------------------------------------------------------------------
\* No file is open and no ioctl under way before the module is first loaded.
LEMMA ItInit ==
    ASSUME IT!Init
    PROVE  ItMutexInv
BY LocksAssumption, Zenon DEF IT!Init, IT!DM!Init, ItMutexInv, ItCallInv, ItHeld, IT!Labels

\* Loading and unloading happen with no file open, so no call is under way.
LEMMA ItModule ==
    ASSUME ItMutexInv, IT!Module
    PROVE  ItMutexInv'
<1> USE LocksAssumption DEF ItMutexInv, ItCallInv, IT!call, IT!device, ItHeld
<1>1. CASE IT!ioctl_demo_init
    <2>1. \A p \in Procs : pc_it[p] = "idle"
        BY <1>1, Zenon DEF IT!ioctl_demo_init, IT!DM!InitBegin
    <2> QED
        BY <1>1, <2>1, ZenonT(40) DEF IT!ioctl_demo_init, IT!DM!InitBegin
<1>2. CASE IT!DM!Lifecycle /\ UNCHANGED <<IT!device, IT!call>>
    <2>1. opened' = opened /\ (opened' # {} => phase_it' = "live")
        BY <1>2, ZenonT(40)
           DEF IT!DM!Lifecycle, IT!DM!Make, IT!DM!MakeFails, IT!DM!ExitBegin, IT!DM!Undo,
                    IT!DM!Gone
    <2> QED
        BY <1>2, <2>1, Zenon
<1> QED
    BY <1>1, <1>2, Zenon DEF IT!Module

\* A call begins on an open file, outside the mutex, with its argument.
LEMMA ItIoctl ==
    ASSUME ItMutexInv, NEW p \in Procs, IT!Ioctl(p)
    PROVE  ItMutexInv'
<1> USE LocksAssumption DEF ItMutexInv, ItCallInv, ItHeld, IT!Labels, IT!Goto, IT!device
<1>1. PICK c, a : /\ IT!ioctl_demo_ioctl(p, c, a)
                  /\ c = "SET_VALUE" => a \in IntValues
                  /\ c = "SET_STRING" => a \in Lengths
    BY DEF IT!Ioctl
<1>2. /\ pc_it[p] = "idle" /\ pc_it' \in [Procs -> IT!Labels] /\ pc_it'[p] \in {"lock", "return"}
      /\ \A q \in Procs : q # p => pc_it'[q] = pc_it[q]
    BY <1>1, ZenonT(40) DEF IT!ioctl_demo_ioctl
<1>3. /\ DOMAIN cmd' = Procs /\ cmd'[p] = c
      /\ DOMAIN arg' = Procs /\ arg'[p] = a
      /\ \A q \in Procs : q # p => cmd'[q] = cmd[q] /\ arg'[q] = arg[q]
    BY <1>1, Zenon DEF IT!ioctl_demo_ioctl
<1>4. p \in opened /\ UNCHANGED <<phase_it, opened, lock, kernel_buffer, reply>>
    BY <1>1, Zenon DEF IT!ioctl_demo_ioctl
<1>5. ItCallInv(p)'
    BY <1>1, <1>2, <1>3, <1>4, Zenon
<1>6. \A q \in Procs : q # p => ItCallInv(q)'
    BY <1>2, <1>3, <1>4
<1> QED
    BY <1>2, <1>3, <1>4, <1>5, <1>6

\* Each step of a call keeps what the call has to carry, and the others' too.
LEMMA ItCall ==
    ASSUME ItMutexInv, NEW p \in Procs,
           IT!Body(p) \/ IT!CopyFaults(p) \/ IT!Return(p)
    PROVE  ItMutexInv'
<1>0. IT!Nobody \notin Procs
    BY LocksAssumption, Zenon
<1> USE <1>0 DEF ItMutexInv, ItCallInv, ItHeld, IT!Labels, IT!Goto, IT!device
<1>1. CASE IT!Lock(p)
    BY <1>1, ZenonT(40) DEF IT!Lock
<1>2. CASE IT!CopyIn(p)
    BY <1>2, ZenonT(40) DEF IT!CopyIn
<1>3. CASE IT!CopyOut(p)
    BY <1>3, ZenonT(40) DEF IT!CopyOut
<1>4. CASE IT!Apply(p)
    BY <1>4, ZenonT(40) DEF IT!Apply
<1>5. CASE IT!ResetString(p)
    BY <1>5, ZenonT(40) DEF IT!ResetString
<1>6. CASE IT!Unlock(p)
    BY <1>6, ZenonT(40) DEF IT!Unlock
<1>7. CASE IT!CopyFaults(p)
    BY <1>7, ZenonT(40) DEF IT!CopyFaults
<1>8. CASE IT!Return(p)
    <2>1. /\ pc_it[p] = "return" /\ pc_it' \in [Procs -> IT!Labels] /\ pc_it'[p] = "idle"
          /\ reply'[p] = IT!NoReply
        BY <1>8, ZenonT(40) DEF IT!Return
    <2>2. \A q \in Procs : q # p =>
             /\ pc_it'[q] = pc_it[q] /\ cmd'[q] = cmd[q] /\ arg'[q] = arg[q]
             /\ kernel_buffer'[q] = kernel_buffer[q] /\ reply'[q] = reply[q]
        BY <1>8, Zenon DEF IT!Return
    <2>3. UNCHANGED <<phase_it, opened, lock>>
        BY <1>8, Zenon DEF IT!Return
    <2>4. ItCallInv(p)' /\ \A q \in Procs : q # p => ItCallInv(q)'
        <3>1. ItCallInv(p)'
            BY <2>1, ZenonT(40)
        <3>2. ASSUME NEW q \in Procs, q # p PROVE ItCallInv(q)'
            BY <2>2, <3>2
        <3> QED
            BY <3>1, <3>2, Zenon
    <2>5. /\ DOMAIN cmd' = Procs /\ DOMAIN arg' = Procs
          /\ DOMAIN kernel_buffer' = Procs /\ DOMAIN reply' = Procs
        BY <1>8, Zenon DEF IT!Return
    <2> QED
        BY <2>1, <2>2, <2>3, <2>4, <2>5, ZenonT(40)
<1> HIDE DEF ItMutexInv
<1> QED
    BY <1>1, <1>2, <1>3, <1>4, <1>5, <1>6, <1>7, <1>8, ZenonT(40) DEF IT!Body

\* Every step of the driver keeps the invariant.
LEMMA ItNext ==
    ASSUME ItMutexInv, [IT!Next]_(IT!vars)
    PROVE  ItMutexInv'
<1>1. CASE IT!Module
    BY <1>1, ItModule, ZenonT(40)
<1>2. ASSUME NEW p \in Procs, IT!ioctl_demo_open(p) \/ IT!ioctl_demo_release(p)
      PROVE  ItMutexInv'
    BY <1>2, ZenonT(40) DEF IT!ioctl_demo_open, IT!ioctl_demo_release, IT!DM!Open, IT!DM!Close,
                ItMutexInv, ItCallInv, IT!device, IT!call
<1>3. ASSUME NEW p \in Procs, IT!Ioctl(p) PROVE ItMutexInv'
    BY <1>3, ItIoctl, Zenon
<1>4. ASSUME NEW p \in Procs, IT!Body(p) \/ IT!CopyFaults(p) \/ IT!Return(p) PROVE ItMutexInv'
    BY <1>4, ItCall, Zenon
<1>5. CASE UNCHANGED IT!vars
    BY <1>5, Zenon DEF IT!vars, IT!device, IT!call, ItMutexInv, ItCallInv
<1> QED
    BY <1>1, <1>2, <1>3, <1>4, <1>5, Zenon DEF IT!Next

-----------------------------------------------------------------------------
\* While a process has the mutex at another place than the middle of RESET, no
\* process is there, and the string is the one the device promises.
LEMMA ItStringIsPromised ==
    ASSUME ItMutexInv, NEW p \in Procs, pc_it[p] \in ItHeld, pc_it[p] # "reset_string"
    PROVE  IT!AbstractString = string
BY Zenon DEF ItMutexInv, ItHeld, IT!AbstractString

\* A step that changes nobody's place in RESET, nor the string, changes nothing
\* of what is promised of it.
LEMMA ItSameString ==
    ASSUME \A q \in Procs : pc_it'[q] = "reset_string" <=> pc_it[q] = "reset_string",
           string' = string
    PROVE  IT!AbstractString' = IT!AbstractString
BY Zenon DEF IT!AbstractString

\* One step of the driver is one step of the promised device, or none.
LEMMA ItStep ==
    ASSUME ItMutexInv, [IT!Next]_(IT!vars)
    PROVE  [IT!AD!Next]_<<value, IT!AbstractString, reply>>
<1> DEFINE Stutter == UNCHANGED <<value, IT!AbstractString, reply>>
<1>1. CASE IT!ioctl_demo_init
    BY <1>1, Zenon DEF IT!ioctl_demo_init, IT!call, IT!AbstractString, IT!AD!Next, IT!AD!Reset
<1>2. CASE IT!DM!Lifecycle /\ UNCHANGED <<IT!device, IT!call>>
    BY <1>2, Zenon DEF IT!device, IT!call, IT!AbstractString
<1>3. ASSUME NEW p \in Procs, IT!ioctl_demo_open(p) \/ IT!ioctl_demo_release(p) PROVE Stutter
    BY <1>3, Zenon
       DEF IT!ioctl_demo_open, IT!ioctl_demo_release, IT!device, IT!call, IT!AbstractString
<1>4. ASSUME NEW p \in Procs, IT!Ioctl(p) PROVE Stutter
    <2>1. PICK c, a : IT!ioctl_demo_ioctl(p, c, a)
        BY <1>4, Zenon DEF IT!Ioctl
    <2> QED
        BY <2>1, ItSameString, ZenonT(40)
           DEF IT!ioctl_demo_ioctl, IT!Goto, IT!device, ItMutexInv, IT!Labels
<1>5. ASSUME NEW p \in Procs, IT!Lock(p) \/ IT!CopyIn(p) \/ IT!Unlock(p) \/ IT!CopyFaults(p)
      PROVE  Stutter
    BY <1>5, ItSameString, ZenonT(40)
       DEF IT!Lock, IT!CopyIn, IT!Unlock, IT!CopyFaults, IT!Goto, IT!device,
                              ItMutexInv, IT!Labels
<1>6. ASSUME NEW p \in Procs, IT!CopyOut(p) PROVE IT!AD!Next
    <2>1. IT!AbstractString = string /\ IT!AbstractString' = string
        BY <1>6, ItStringIsPromised, ItSameString, ZenonT(40)
           DEF IT!CopyOut, IT!Goto, IT!device, ItMutexInv, IT!Labels, ItHeld
    <2>2. reply[p] = IT!NoReply
        BY <1>6, Zenon DEF IT!CopyOut, IT!Goto, ItMutexInv, ItCallInv
    <2>3. \E r \in {<<"value", value>>, <<"string", string>>} : reply' = [reply EXCEPT ![p] = r]
        BY <1>6, Zenon DEF IT!CopyOut
    <2>4. IT!AD!Get(p)
        BY ZenonT(40), <1>6, <2>1, <2>2, <2>3 DEF IT!CopyOut, IT!device, IT!AD!Get, IT!AD!NoReply,
                                             IT!NoReply
    <2> QED
        BY <2>4, Zenon DEF IT!AD!Next
<1>7. ASSUME NEW p \in Procs, IT!Apply(p) PROVE IT!AD!Next
    <2>0. IT!AbstractString = string
        BY <1>7, ItStringIsPromised, Zenon DEF IT!Apply, IT!Goto, ItHeld
    <2>1. CASE cmd[p] = "RESET"
        <3>1. pc_it'[p] = "reset_string"
            BY <1>7, <2>1, ZenonT(40) DEF IT!Apply, IT!Goto, ItMutexInv
        <3>2. IT!AbstractString' = DEFAULT_LENGTH
            BY <3>1, Zenon DEF IT!AbstractString
        <3>3. value' = DEFAULT_VALUE /\ reply' = reply
            BY <1>7, <2>1, Zenon DEF IT!Apply
        <3> QED
            BY <3>2, <3>3, Zenon DEF IT!AD!Next, IT!AD!Reset
    <2>2. CASE cmd[p] # "RESET"
        <3>1. \A q \in Procs : pc_it'[q] # "reset_string"
            BY <1>7, <2>2, Zenon DEF IT!Apply, IT!Goto, ItMutexInv, ItHeld
        <3>2. IT!AbstractString' = string'
            BY <3>1, Zenon DEF IT!AbstractString
        <3>3. CASE cmd[p] = "SET_VALUE" /\ kernel_buffer[p] \in IntValues
            <4>1. IT!AD!SetValue(kernel_buffer[p])
                BY <1>7, <2>0, <3>2, <3>3, ZenonT(40) DEF IT!Apply, IT!AD!SetValue
            <4> QED
                BY <3>3, <4>1, ZenonT(40) DEF IT!AD!Next
        <3>4. CASE cmd[p] = "SET_STRING" /\ \E n \in Lengths : kernel_buffer[p] = IT!Truncated(n)
            <4>1. PICK n \in Lengths : kernel_buffer[p] = IT!Truncated(n)
                BY <3>4, Zenon
            <4>2. IT!AD!SetString(n)
                BY <1>7, <3>2, <3>4, <4>1, ZenonT(40)
                   DEF IT!Apply, IT!AD!SetString, IT!AD!Cut, IT!Truncated
            <4> QED
                BY <4>2, Zenon DEF IT!AD!Next
        <3> QED
            BY <1>7, <2>2, <3>3, <3>4, Zenon DEF IT!Apply, IT!Goto, ItMutexInv, ItCallInv
    <2> QED
        BY <2>1, <2>2, Zenon
<1>8. ASSUME NEW p \in Procs, IT!ResetString(p) PROVE Stutter
    <2>1. IT!AbstractString = DEFAULT_LENGTH /\ IT!AbstractString' = DEFAULT_LENGTH
        BY <1>8, Zenon DEF IT!ResetString, IT!Goto, IT!AbstractString
    <2> QED
        BY <1>8, <2>1, Zenon DEF IT!ResetString
<1>9. ASSUME NEW p \in Procs, IT!Return(p) PROVE IT!AD!Next
    <2>1. IT!AbstractString' = IT!AbstractString
        BY <1>9, ItSameString, Zenon DEF IT!Return, IT!Goto, IT!device, ItMutexInv, IT!Labels
    <2>2. IT!AD!Return(p)
        BY <1>9, <2>1, Zenon DEF IT!Return, IT!device, IT!AD!Return, IT!AD!NoReply, IT!NoReply
    <2> QED
        BY <2>2, ZenonT(40) DEF IT!AD!Next
<1>10. CASE UNCHANGED IT!vars
    BY <1>10, Zenon DEF IT!vars, IT!device, IT!call, IT!AbstractString
<1> QED
    BY <1>1, <1>2, <1>3, <1>4, <1>5, <1>6, <1>7, <1>8, <1>9, <1>10, ZenonT(40)
       DEF IT!Next, IT!Module, IT!Body

-----------------------------------------------------------------------------
\* What a call and the device hold has its type.
ItReplies ==
    {IT!NoReply} \cup ({"value"} \X IntValues) \cup ({"string"} \X (0 .. MAX_STRING_SIZE - 1))

ItTypeInv ==
    /\ cmd \in [Procs -> IT!Commands]
    /\ arg \in [Procs -> IntValues \cup Lengths]
    /\ lock \in Procs \cup {IT!Nobody}
    /\ value \in IntValues /\ string \in 0 .. MAX_STRING_SIZE - 1
    /\ kernel_buffer \in [Procs -> IntValues \cup (0 .. MAX_STRING_SIZE - 1)]
    /\ ret \in [Procs -> {"ok", "EFAULT", "ENOTTY"}]
    /\ reply \in [Procs -> ItReplies]

LEMMA ItTypeInit == ASSUME IT!Init PROVE ItTypeInv
BY LocksAssumption, ZenonT(40) DEF IT!Init, ItTypeInv, IT!Commands, ItReplies

\* strncpy_from_user leaves room for the NUL.
LEMMA ItTruncated == ASSUME NEW n \in Lengths PROVE IT!Truncated(n) \in 0 .. MAX_STRING_SIZE - 1
BY LocksAssumption DEF IT!Truncated

LEMMA ItTypeNext ==
    ASSUME ItTypeInv, ItMutexInv, [IT!Next]_(IT!vars)
    PROVE  ItTypeInv'
<1> USE LocksAssumption DEF ItTypeInv, IT!device, IT!call
<1>1. CASE IT!Module
    BY <1>1, Zenon DEF IT!Module, IT!ioctl_demo_init
<1>2. ASSUME NEW p \in Procs, IT!ioctl_demo_open(p) \/ IT!ioctl_demo_release(p) PROVE ItTypeInv'
    BY <1>2, Zenon DEF IT!ioctl_demo_open, IT!ioctl_demo_release
<1>3. ASSUME NEW p \in Procs, IT!Ioctl(p) PROVE ItTypeInv'
    <2>1. PICK c \in IT!Commands, a \in IntValues \cup Lengths : IT!ioctl_demo_ioctl(p, c, a)
        BY <1>3, Zenon DEF IT!Ioctl, IT!Commands
    <2> QED
        BY <2>1, Zenon DEF IT!ioctl_demo_ioctl
<1>4. ASSUME NEW p \in Procs, IT!Lock(p) \/ IT!Unlock(p) \/ IT!CopyFaults(p) PROVE ItTypeInv'
    BY <1>4, Zenon DEF IT!Lock, IT!Unlock, IT!CopyFaults
<1>5. ASSUME NEW p \in Procs, IT!CopyIn(p) PROVE ItTypeInv'
    <2>1. /\ cmd[p] = "SET_VALUE" => arg[p] \in IntValues
          /\ cmd[p] = "SET_STRING" => arg[p] \in Lengths
        BY <1>5, Zenon DEF IT!CopyIn, IT!Goto, ItMutexInv, ItCallInv
    <2> QED
        BY <1>5, <2>1, ItTruncated, ZenonT(40) DEF IT!CopyIn
<1>6. ASSUME NEW p \in Procs, IT!CopyOut(p) PROVE ItTypeInv'
    <2>1. <<"value", value>> \in ItReplies /\ <<"string", string>> \in ItReplies
        BY Zenon DEF ItReplies
    <2> QED
        BY <1>6, <2>1, Zenon DEF IT!CopyOut
<1>7. ASSUME NEW p \in Procs, IT!Apply(p) PROVE ItTypeInv'
    <2>1. /\ cmd[p] = "SET_VALUE" => kernel_buffer[p] \in IntValues
          /\ cmd[p] = "SET_STRING" => kernel_buffer[p] \in 0 .. MAX_STRING_SIZE - 1
        BY <1>7, ItTruncated DEF IT!Apply, IT!Goto, ItMutexInv, ItCallInv
    <2> QED
        BY <1>7, <2>1, ZenonT(40) DEF IT!Apply
<1>8. ASSUME NEW p \in Procs, IT!ResetString(p) PROVE ItTypeInv'
    BY <1>8, Zenon DEF IT!ResetString
<1>9. ASSUME NEW p \in Procs, IT!Return(p) PROVE ItTypeInv'
    BY <1>9, Zenon DEF IT!Return, IT!Commands, ItReplies
<1>10. CASE UNCHANGED IT!vars
    BY <1>10, Zenon DEF IT!vars
<1> HIDE DEF ItTypeInv
<1> QED
    BY <1>1, <1>2, <1>3, <1>4, <1>5, <1>6, <1>7, <1>8, <1>9, <1>10, ZenonT(40) DEF IT!Next, IT!Body

-----------------------------------------------------------------------------
\* A behaviour of the composition is one of the ioctl device.
LEMMA RunsIt == MCSpec => IT!Spec
<1>1. [MCNext]_<<demo, vars, vars_rw, vars_it>> => [IT!Next]_(IT!vars)
    BY Zenon DEF MCNext, vars_it, IT!vars, IT!device, IT!call
<1> QED
    BY <1>1, PTL DEF MCSpec, MCInit, IT!Spec

LEMMA ItCorrect == IT!Spec => [](ItTypeInv /\ ItMutexInv)
BY ItInit, ItNext, ItTypeInit, ItTypeNext, PTL DEF IT!Spec

\* Every ioctl is one indivisible operation on the integer and the string, for
\* any processes, arguments and size of the array (ioctl_test.c:95-169).
THEOREM IoctlsAreAtomic == MCSpec => ImplementsAtomicDevice
<1>1. IT!Init => IT!AD!Init
    BY Zenon DEF IT!Init, IT!AD!Init, IT!AD!NoReply, IT!NoReply, IT!AbstractString
<1>2. IT!Spec => IT!AD!Spec
    BY <1>1, ItInit, ItNext, ItStep, PTL DEF IT!Spec, IT!AD!Spec
<1> QED
    BY <1>2, RunsIt, PTL DEF ImplementsAtomicDevice, IT!ImplementsAtomicDevice

-----------------------------------------------------------------------------
INSTANCE FiniteSetTheorems

\* Every variable keeps its type; the tasks on CPUs are finitely many, so they
\* can be counted.
RwTypeInv == RW!TypeOK /\ IsFiniteSet(on_cpu) /\ RW!Cardinality(on_cpu) \in Nat

\* RW counts as the theorems on finite sets do.
LEMMA RwCardinality == ASSUME NEW S PROVE RW!Cardinality(S) = Cardinality(S)
BY ZenonT(40) DEF RW!Cardinality, Cardinality

LEMMA RwTypeInit == ASSUME RW!Init PROVE RwTypeInv
<1>1. on_cpu = {} /\ IsFiniteSet(on_cpu) /\ RW!Cardinality(on_cpu) = 0
    BY FS_EmptySet, RwCardinality, ZenonT(40) DEF RW!Init
<1> QED
    BY <1>1, LocksAssumption DEF RW!Init, RwTypeInv, RW!TypeOK, RW!Outside, RW!Labels,
                                 RW!Tasks

\* Taking a task off its CPU leaves no more on the CPUs.
LEMMA RwOffCpu ==
    ASSUME RwTypeInv, NEW t, on_cpu' = on_cpu \ {t}
    PROVE  /\ IsFiniteSet(on_cpu') /\ RW!Cardinality(on_cpu') \in Nat
           /\ on_cpu' \subseteq RW!Tasks /\ RW!Cardinality(on_cpu') <= Cpus
<1>1. /\ IsFiniteSet(on_cpu') /\ Cardinality(on_cpu') \in Nat
      /\ Cardinality(on_cpu') <= Cardinality(on_cpu) /\ Cardinality(on_cpu) \in Nat
    BY FS_Subset, FS_CardinalityType, ZenonT(40) DEF RwTypeInv
<1> QED
    BY <1>1, RwCardinality, LocksAssumption DEF RwTypeInv, RW!TypeOK

LEMMA RwMoves ==
    ASSUME RwTypeInv, NEW t \in RW!Tasks, NEW from, NEW to \in RW!Labels, RW!Goto(t, from, to)
    PROVE  pc_rw' \in [RW!Tasks -> RW!Labels]
BY ZenonT(40) DEF RwTypeInv, RW!TypeOK, RW!Goto

\* Only a free CPU is given to a task, and the lock's queue holds tasks.
LEMMA RwTypeNext ==
    ASSUME RwTypeInv, RwPairInv, [RW!Next]_(RW!vars)
    PROVE  RwTypeInv'
<1> USE LocksAssumption DEF RW!lockVars, RW!dataVars
<1>0. /\ RW!Outside \subseteq RW!Labels /\ Readers \subseteq RW!Tasks /\ Writers \subseteq RW!Tasks
      /\ {"idle", "enter", "spin", "data", "time", "asleep", "woken", "reply"} \subseteq RW!Labels
    BY ZenonT(40) DEF RW!Outside, RW!Labels, RW!Tasks
<1>1. CASE RW!InitReaderFile \/ RW!InitWriterFile \/ RW!InitUndone \/ RW!InitTime
    BY <1>1 DEF RwTypeInv, RW!TypeOK, RW!InitReaderFile, RW!InitWriterFile, RW!InitUndone,
                RW!InitTime
<1>2. CASE RW!ExitBegin \/ RW!ExitReaderGone \/ RW!ExitDone \/ RW!Tick
    BY <1>2 DEF RwTypeInv, RW!TypeOK, RW!ExitBegin, RW!ExitReaderGone, RW!ExitDone, RW!Tick
<1>3. ASSUME NEW t \in RW!Tasks, RW!Dispatch(t) PROVE RwTypeInv'
    <2>1. IsFiniteSet(on_cpu') /\ RW!Cardinality(on_cpu') = RW!Cardinality(on_cpu) + 1
        BY <1>3, FS_AddElement, RwCardinality, ZenonT(40) DEF RW!Dispatch, RwTypeInv
    <2> QED
        BY <1>3, <2>1 DEF RW!Dispatch, RwTypeInv, RW!TypeOK
<1>4. ASSUME NEW t \in RW!Tasks, RW!Wake(t) PROVE RwTypeInv'
    BY <1>0, <1>4, RwMoves, ZenonT(40) DEF RwTypeInv, RW!TypeOK, RW!Wake
<1>5. ASSUME NEW t \in RW!Tasks, RW!Enqueue(t) PROVE RwTypeInv'
    <2>1. queue' \in Seq(RW!Tasks)
        BY <1>5 DEF RwTypeInv, RW!TypeOK, RW!Enqueue
    <2> QED
        BY <1>0, <1>5, RwMoves, <2>1, ZenonT(40) DEF RwTypeInv, RW!TypeOK, RW!Enqueue
<1>6. ASSUME NEW r \in Readers, RW!ReadBegin(r) \/ RW!ReadEof(r) \/ RW!ReadUnlock(r)
      PROVE  RwTypeInv'
    BY <1>0, <1>6, RwMoves, ZenonT(40)
       DEF RwTypeInv, RW!TypeOK, RW!ReadBegin, RW!ReadEof, RW!ReadUnlock
<1>7. ASSUME NEW r \in Readers, RW!ReadLocked(r) PROVE RwTypeInv'
    <2>1. queue' \in Seq(RW!Tasks)
        BY <1>7 DEF RwTypeInv, RW!TypeOK, RW!ReadLocked
    <2> QED
        BY <1>0, <1>7, RwMoves, <2>1, ZenonT(40) DEF RwTypeInv, RW!TypeOK, RW!ReadLocked
<1>8. ASSUME NEW r \in Readers, RW!ReadData(r) PROVE RwTypeInv'
    BY <1>0, <1>8, RwMoves DEF RwTypeInv, RW!TypeOK, RW!ReadData
<1>9. ASSUME NEW r \in Readers, RW!ReadTime(r) PROVE RwTypeInv'
    <2>1. pc_rw[r] = "time" /\ seen[r] = <<data_rw, 0>> /\ DOMAIN seen = Readers
        BY <1>9, ZenonT(40) DEF RW!ReadTime, RW!Goto, RwPairInv
    <2>2. seen'[r] = <<data_rw, last_update>>
        BY <1>9, <2>1 DEF RW!ReadTime
    <2>3. seen' = [seen EXCEPT ![r] = seen'[r]]
        BY <1>9, <2>1, ZenonT(40) DEF RW!ReadTime
    <2>4. seen' \in [Readers -> (RwValues \cup {0}) \X (0 .. MaxJiffies)]
        BY <2>2, <2>3 DEF RwTypeInv, RW!TypeOK
    <2>5. /\ IsFiniteSet(on_cpu') /\ RW!Cardinality(on_cpu') \in Nat
          /\ on_cpu' \subseteq RW!Tasks /\ RW!Cardinality(on_cpu') <= Cpus
        BY <1>9, RwOffCpu, ZenonT(40) DEF RW!ReadTime
    <2> QED
        BY <1>0, <1>9, RwMoves, <2>4, <2>5, ZenonT(40) DEF RwTypeInv, RW!TypeOK, RW!ReadTime
<1>10. ASSUME NEW r \in Readers, RW!ReadReply(r) PROVE RwTypeInv'
    <2>1. pc_rw' \in [RW!Tasks -> RW!Labels]
        BY <1>0, <1>10, RwMoves, ZenonT(40) DEF RW!ReadReply
    <2>2. /\ IsFiniteSet(on_cpu') /\ RW!Cardinality(on_cpu') \in Nat
          /\ on_cpu' \subseteq RW!Tasks /\ RW!Cardinality(on_cpu') <= Cpus
        BY <1>10, RwOffCpu, ZenonT(40) DEF RW!ReadReply
    <2>3. seen' \in [Readers -> (RwValues \cup {0}) \X (0 .. MaxJiffies)]
        BY <1>10 DEF RW!ReadReply, RwTypeInv, RW!TypeOK
    <2> QED
        BY <1>10, <2>1, <2>2, <2>3, ZenonT(40) DEF RwTypeInv, RW!TypeOK, RW!ReadReply
<1>11. ASSUME NEW w \in Writers, NEW v \in RwValues, RW!WriteBegin(w, v) PROVE RwTypeInv'
    BY <1>0, <1>11, RwMoves, ZenonT(40) DEF RwTypeInv, RW!TypeOK, RW!WriteBegin
<1>12. ASSUME NEW w \in Writers, RW!WriteLocked(w) PROVE RwTypeInv'
    <2>1. queue' \in Seq(RW!Tasks)
        BY <1>12 DEF RwTypeInv, RW!TypeOK, RW!WriteLocked
    <2> QED
        BY <1>0, <1>12, RwMoves, <2>1, ZenonT(40) DEF RwTypeInv, RW!TypeOK, RW!WriteLocked
<1>13. ASSUME NEW w \in Writers, RW!WriteData(w) PROVE RwTypeInv'
    BY <1>0, <1>13, RwMoves, ZenonT(40) DEF RwTypeInv, RW!TypeOK, RW!WriteData
<1>14. ASSUME NEW w \in Writers, RW!WriteUnlock(w) PROVE RwTypeInv'
    BY <1>0, <1>14, RwMoves, ZenonT(40) DEF RwTypeInv, RW!TypeOK, RW!WriteUnlock
<1>15. ASSUME NEW w \in Writers, RW!WriteTime(w) PROVE RwTypeInv'
    <2>1. /\ IsFiniteSet(on_cpu') /\ RW!Cardinality(on_cpu') \in Nat
          /\ on_cpu' \subseteq RW!Tasks /\ RW!Cardinality(on_cpu') <= Cpus
        BY <1>15, RwOffCpu, ZenonT(40) DEF RW!WriteTime
    <2> QED
        BY <1>0, <1>15, <2>1, RwMoves, ZenonT(40) DEF RwTypeInv, RW!TypeOK, RW!WriteTime
<1>16. ASSUME NEW w \in Writers, RW!WriteReturn(w) PROVE RwTypeInv'
    <2>1. /\ IsFiniteSet(on_cpu') /\ RW!Cardinality(on_cpu') \in Nat
          /\ on_cpu' \subseteq RW!Tasks /\ RW!Cardinality(on_cpu') <= Cpus
        BY <1>16, RwOffCpu, ZenonT(40) DEF RW!WriteReturn
    <2> QED
        BY <1>0, <1>16, <2>1, RwMoves, ZenonT(40) DEF RwTypeInv, RW!TypeOK, RW!WriteReturn
<1>17. CASE UNCHANGED RW!vars
    BY <1>17, ZenonT(40) DEF RW!vars, RwTypeInv, RW!TypeOK
<1> QED
    BY <1>1, <1>2, <1>3, <1>4, <1>5, <1>6, <1>7, <1>8, <1>9, <1>10, <1>11, <1>12, <1>13,
       <1>14, <1>15, <1>16, <1>17, ZenonT(40)
       DEF RW!Next, RW!ReadStep, RW!WriteStep, RW!Tasks

\* A behaviour of the composition is one of the reader-writer lock.
LEMMA RunsRw == MCSpec => RW!Spec
<1>1. [MCNext]_<<demo, vars, vars_rw, vars_it>> => [RW!Next]_(RW!vars)
    BY ZenonT(40) DEF MCNext, vars_rw, RW!vars, RW!dataVars, RW!lockVars
<1> QED
    BY <1>1, PTL DEF MCSpec, MCInit, RW!Spec

LEMMA RwCorrect == RW!Spec => [](RwTypeInv /\ RwPairInv)
BY RwInit, RwLockNext, RwPairNext, RwTypeInit, RwTypeNext, PTL DEF RW!Spec

\* The value a reader prints is the one shared_data had when last_update was
\* set to the time it prints, although init sets the time without the lock, and
\* no more tasks run than there are CPUs (rwlock_demo.c:29-30, 73-74, 106).
THEOREM SnapshotsConsistent == MCSpec => []SnapshotConsistent
<1>1. RwTypeInv /\ RwPairInv => SnapshotConsistent
    BY ZenonT(40) DEF RwTypeInv, RwPairInv, SnapshotConsistent
<1> QED
    BY <1>1, RunsRw, RwCorrect, PTL

-----------------------------------------------------------------------------
\* The life of the module is that of DeviceModule, proved there.
LP == INSTANCE DeviceModule_proofs WITH
          Objects <- IT!Objects, mapped <- {}, phase <- phase_it

LEMMA ItObjects ==
    IT!Objects \in Seq({"region", "class", "cdev", "device"}) /\ IT!Objects # <<>>
BY DEF IT!Objects

LEMMA ItLife == IT!Spec => LP!Spec
<1>1. IT!Init => LP!Init
    BY ZenonT(40) DEF IT!Init, IT!DM!Init, LP!Init
<1>2. [IT!Next]_(IT!vars) => [LP!Next]_(LP!vars)
    <2> SUFFICES ASSUME [IT!Next]_(IT!vars) PROVE [LP!Next]_(LP!vars)
        BY ZenonT(40)
    <2> USE DEF LP!Next
    <2>1. CASE IT!ioctl_demo_init
        BY <2>1, ZenonT(40) DEF IT!ioctl_demo_init, IT!DM!InitBegin, LP!InitBegin
    <2>2. CASE IT!DM!Lifecycle
        BY <2>2, ZenonT(40)
           DEF IT!DM!Lifecycle, IT!DM!Make, IT!DM!MakeFails, IT!DM!ExitBegin, IT!DM!Undo,
                    IT!DM!Gone, IT!DM!ButLast, LP!ButLast,
                    LP!Lifecycle, LP!Make, LP!MakeFails, LP!ExitBegin, LP!Undo, LP!Gone
    <2>3. ASSUME NEW p \in Procs, IT!ioctl_demo_open(p) PROVE LP!Next
        BY <2>3, ZenonT(40) DEF IT!ioctl_demo_open, IT!DM!Open, LP!Open
    <2>4. ASSUME NEW p \in Procs, IT!ioctl_demo_release(p) PROVE LP!Next
        BY <2>4, ZenonT(40) DEF IT!ioctl_demo_release, IT!DM!Close, LP!Close
    <2>5. ASSUME NEW p \in Procs, IT!Ioctl(p) PROVE UNCHANGED LP!vars
        BY <2>5, ZenonT(40) DEF IT!Ioctl, IT!ioctl_demo_ioctl, LP!vars
    <2>6. ASSUME NEW p \in Procs, IT!Body(p) \/ IT!CopyFaults(p) \/ IT!Return(p)
          PROVE  UNCHANGED LP!vars
        BY <2>6, ZenonT(40)
           DEF IT!Body, IT!Lock, IT!CopyIn, IT!CopyOut, IT!Apply, IT!ResetString, IT!Unlock,
                    IT!CopyFaults, IT!Return, LP!vars
    <2>7. CASE UNCHANGED IT!vars
        BY <2>7, ZenonT(40) DEF IT!vars, LP!vars
    <2> QED
        BY <2>1, <2>2, <2>3, <2>4, <2>5, <2>6, <2>7, ZenonT(40) DEF IT!Next, IT!Module
<1> QED
    BY <1>1, <1>2, PTL DEF IT!Spec, LP!Spec

\* While a file is open or an ioctl is under way the module stays with all it
\* registered; a load is all or nothing and an unload gives everything back
\* (ioctl_test.c:174, 185-225, 232-240).
THEOREM FilesPin == MCSpec => []OpenFilesPin
<1>1. LP!Spec => [](LP!TypeOK /\ LP!BufferOutlivesUsers /\ LP!NothingLeftBehind)
    <2>1. LP!Spec => []LP!TypeOK
        BY ItObjects, LP!TypeCorrect, ZenonT(40)
    <2>2. LP!Spec => []LP!BufferOutlivesUsers
        BY ItObjects, LP!UsersFindAll, ZenonT(40)
    <2>3. LP!Spec => []LP!NothingLeftBehind
        BY ItObjects, LP!AllOrNothing, ZenonT(40)
    <2> QED
        BY <2>1, <2>2, <2>3, PTL
<1>2. ItTypeInv /\ ItMutexInv /\ LP!TypeOK /\ LP!BufferOutlivesUsers /\ LP!NothingLeftBehind
      => OpenFilesPin
    <2> SUFFICES ASSUME ItTypeInv, ItMutexInv, LP!TypeOK, LP!BufferOutlivesUsers,
                        LP!NothingLeftBehind
                 PROVE  OpenFilesPin
        BY ZenonT(40)
    <2>1. IT!DM!TypeOK
        BY ZenonT(40) DEF LP!TypeOK, IT!DM!TypeOK, LP!ObjectSet, IT!DM!ObjectSet
    <2>2. IT!TypeOK
        BY <2>1, ZenonT(40) DEF IT!TypeOK, ItTypeInv, ItMutexInv, ItReplies
    <2>3. IT!OpenFilesPin
        BY ZenonT(40) DEF ItMutexInv, IT!OpenFilesPin
    <2>4. IT!DM!BufferOutlivesUsers /\ IT!DM!NothingLeftBehind
        BY Zenon DEF LP!BufferOutlivesUsers, IT!DM!BufferOutlivesUsers, LP!NothingLeftBehind,
               IT!DM!NothingLeftBehind
    <2> QED
        BY <2>2, <2>3, <2>4, ZenonT(40) DEF OpenFilesPin
<1> QED
    BY <1>1, <1>2, RunsIt, ItLife, ItCorrect, PTL
=============================================================================
