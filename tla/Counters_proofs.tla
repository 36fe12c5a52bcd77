-------------------------- MODULE Counters_proofs ---------------------------
(***************************************************************************)
(* Counters that processes, timers and interrupt threads share, for any    *)
(* number of each.  mutex_sem_demo.c: what the mutex excludes, and how the *)
(* permits of the semaphore are accounted for.  The modules with one timer *)
(* and the module with an interrupt thread: what a file shows belongs      *)
(* together, times are compared rightly, and exit leaves nothing pending   *)
(* or running.                                                             *)
(***************************************************************************)
EXTENDS MutexSemDemo, ShownCounters, TLAPS

\* The time, in seconds, that the provers have for a step
USE SMTT(40), ZenonT(40)

\* Each kind of reader stays in its own handler, and nobody is in one while
\* the module is not loaded.
StepInv ==
    /\ \A p \in MutexReaders : pc[p] \in Outside \cup MutexSteps
    /\ \A p \in SemReaders : pc[p] \in Outside \cup SemSteps
    /\ \A p \in StatusReaders : pc[p] \in Outside \cup StatusSteps
    /\ phase = "out" => \A p \in Readers : pc[p] \in Outside

\* The holder of the mutex is the reader between lock and unlock; copies made
\* earlier lie below shared_data, by at least the holder's own contribution
\* once it has been added.
MutexInv ==
    /\ \A p \in MutexReaders :
          shared_data_mutex = p <=> pc[p] \in {"add", "message", "copy", "work"}
    /\ \A p \in MutexReaders : pc[p] = "copy" => shared_message = p
    /\ CopyStaysCurrent
    /\ \A q \in MutexReaders : pc[q] \in {"work", "reply"} => local_data[q] <= shared_data
    /\ \A p, q \in MutexReaders :
          /\ p # q /\ pc[p] \in {"message", "copy", "work"} /\ pc[q] \in {"work", "reply"}
          => local_data[q] + (p % 100) <= shared_data
    /\ NoLostUpdate

\* Permits and users are counted by the positions of the readers.
SemInv ==
    /\ PermitsConserved
    /\ active_users = Cardinality(Counted)
    /\ \A p \in Counted : user_count[p] \in 1 .. MAX_RESOURCES

IInv == TypeOK /\ StepInv /\ MutexInv /\ SemInv

-----------------------------------------------------------------------------
LEMMA ModuloNat == \A p \in MutexReaders : p \in Nat /\ p # 0 /\ p % 100 \in Nat
BY PidAssumption

\* What counting the readers of the semaphore file relies on: SemReaders is
\* finite.
Counting ==
    /\ Cardinality({}) = 0
    /\ \A S \in SUBSET SemReaders :
          /\ Cardinality(S) \in Nat
          /\ \A p \in SemReaders \ S : Cardinality(S \cup {p}) = Cardinality(S) + 1
          /\ \A p \in S : Cardinality(S) > 0 /\ Cardinality(S \ {p}) = Cardinality(S) - 1
          /\ \A T \in SUBSET S : Cardinality(T) <= Cardinality(S)

\* Counted users hold a permit.
LEMMA CountedHold ==
    ASSUME Counting
    PROVE  /\ Cardinality(Holders) \in Nat /\ Cardinality(Counted) \in Nat
           /\ Holders \in SUBSET SemReaders /\ Counted \in SUBSET Holders
           /\ Cardinality(Counted) <= Cardinality(Holders)
<1>1. Holders \in SUBSET SemReaders /\ Counted \in SUBSET Holders
  BY Zenon DEF Holders, Counted, SemSteps
<1>2. Counted \in SUBSET SemReaders
  BY <1>1, Zenon
<1>3. QED
  BY <1>1, <1>2, ZenonT(40) DEF Counting

LEMMA InitIInv == Counting /\ Init => IInv
<1> SUFFICES ASSUME Counting, Init PROVE IInv
  BY ZenonT(40)
<1> USE PidAssumption, BoundAssumption DEF Init
<1>1. TypeOK /\ StepInv
  BY DEF TypeOK, StepInv, Readers, Files, Outside, Zero, MutexSteps, SemSteps, StatusSteps
<1>2. MutexInv
  BY Zenon DEF MutexInv, CopyStaysCurrent, NoLostUpdate, Readers
<1>3. Holders = {} /\ Counted = {}
  BY Zenon DEF Holders, Counted, Readers, SemSteps
<1>4. SemInv
  BY <1>3 DEF Counting, SemInv, PermitsConserved
<1>5. QED
  BY <1>1, <1>2, <1>4, ZenonT(40) DEF IInv

-----------------------------------------------------------------------------
\* A step of the mutex file leaves the semaphore state alone, and conversely.
LEMMA MutexStepSem ==
    ASSUME TypeOK, SemInv, UNCHANGED semVars,
           \A q \in SemReaders : pc'[q] = pc[q] /\ user_count'[q] = user_count[q]
    PROVE  SemInv'
<1>1. Holders' = Holders /\ Counted' = Counted
  BY Zenon DEF Holders, Counted
<1>2. \A q \in Counted : q \in SemReaders
  BY Zenon DEF Counted
<1>3. QED
  BY <1>1, <1>2, ZenonT(40) DEF SemInv, PermitsConserved, semVars

LEMMA SemStepMutex ==
    ASSUME TypeOK, MutexInv, UNCHANGED mutexVars,
           \A q \in MutexReaders :
               /\ pc'[q] = pc[q]
               /\ local_data'[q] = local_data[q] /\ local_msg'[q] = local_msg[q]
    PROVE  MutexInv'
BY DEF MutexInv, CopyStaysCurrent, NoLostUpdate, mutexVars

-----------------------------------------------------------------------------
LEMMA TypeStepNext == Counting /\ IInv /\ [Next]_vars => TypeOK' /\ StepInv'
<1> SUFFICES ASSUME Counting, IInv, [Next]_vars PROVE TypeOK' /\ StepInv'
  BY ZenonT(40)
<1> USE PidAssumption, BoundAssumption
    DEF IInv, TypeOK, StepInv, Readers, Outside, MutexSteps, SemSteps, StatusSteps,
        Goto, mutexVars, semVars, locals
<1>1. ASSUME NEW made \in SUBSET Files, mutex_sem_init(made) PROVE TypeOK' /\ StepInv'
  BY <1>1 DEF mutex_sem_init, FreshStatics, Files
<1>2. CASE InitCheck
  BY <1>2, Zenon DEF InitCheck
<1>3. CASE ProcRemoveBegin
  BY <1>3, ZenonT(40) DEF ProcRemoveBegin
<1>4. CASE mutex_sem_exit
  BY <1>4, ZenonT(40) DEF mutex_sem_exit
<1>5. ASSUME NEW p \in Readers, Reply(p) PROVE TypeOK' /\ StepInv'
  <2>1. TypeOK'
    BY <1>5, ZenonT(40) DEF Reply
  <2>2. StepInv'
    BY <1>5, ZenonT(40) DEF Reply
  <2>3. QED
    BY <2>1, <2>2, ZenonT(40)
<1>6. ASSUME NEW p \in Readers, ReadEof(p) PROVE TypeOK' /\ StepInv'
  BY <1>6, ZenonT(40) DEF ReadEof
<1>7. ASSUME NEW p \in MutexReaders, MutexBegin(p) PROVE TypeOK' /\ StepInv'
  BY <1>7, ZenonT(40) DEF MutexBegin, Begin
<1>8. ASSUME NEW p \in MutexReaders, MutexInterrupted(p) PROVE TypeOK' /\ StepInv'
  BY <1>8, ZenonT(40) DEF MutexInterrupted
<1>9. ASSUME NEW p \in MutexReaders, LockMutex(p) PROVE TypeOK' /\ StepInv'
  BY <1>9, ZenonT(40) DEF LockMutex
<1>10. ASSUME NEW p \in MutexReaders, AddData(p) PROVE TypeOK' /\ StepInv'
  <2>1. p % 100 \in Nat
    BY ModuloNat, ZenonT(40)
  <2>2. QED
    BY <1>10, <2>1 DEF AddData
<1>11. ASSUME NEW p \in MutexReaders, WriteMessage(p) PROVE TypeOK' /\ StepInv'
  BY <1>11, ZenonT(40) DEF WriteMessage
<1>12. ASSUME NEW p \in MutexReaders, CopyLocals(p) PROVE TypeOK' /\ StepInv'
  BY <1>12 DEF CopyLocals
<1>13. ASSUME NEW p \in MutexReaders, UnlockMutex(p) PROVE TypeOK' /\ StepInv'
  BY <1>13, ZenonT(40) DEF UnlockMutex
<1>14. ASSUME NEW p \in SemReaders, SemBegin(p) PROVE TypeOK' /\ StepInv'
  BY <1>14 DEF SemBegin, Begin
<1>15. ASSUME NEW p \in SemReaders, SemInterrupted(p) PROVE TypeOK' /\ StepInv'
  BY <1>15, ZenonT(40) DEF SemInterrupted
<1>16. ASSUME NEW p \in SemReaders, Down(p) PROVE TypeOK' /\ StepInv'
  BY <1>16 DEF Down
<1>17. ASSUME NEW p \in SemReaders, IncUsers(p) PROVE TypeOK' /\ StepInv'
  BY <1>17 DEF IncUsers
<1>18. ASSUME NEW p \in SemReaders, LoadId(p) PROVE TypeOK' /\ StepInv'
  BY <1>18, ZenonT(40) DEF LoadId
<1>19. ASSUME NEW p \in SemReaders, StoreId(p) PROVE TypeOK' /\ StepInv'
  BY <1>19 DEF StoreId
<1>20. ASSUME NEW p \in SemReaders, DecUsers(p) PROVE TypeOK' /\ StepInv'
  <2>1. p \in Counted /\ Counted \in SUBSET SemReaders
    BY <1>20, ZenonT(40) DEF Counted, DecUsers
  <2>2. active_users > 0
    BY <2>1, ZenonT(40) DEF Counting, SemInv
  <2>3. QED
    BY <1>20, <2>2 DEF DecUsers
<1>21. ASSUME NEW p \in SemReaders, Up(p) PROVE TypeOK' /\ StepInv'
  <2>1. p \in Holders /\ Holders \in SUBSET SemReaders
    BY <1>21, ZenonT(40) DEF Holders, Up
  <2>a. Cardinality(Holders) \in Nat /\ Cardinality(Holders) > 0
    BY <2>1, ZenonT(40) DEF Counting
  <2>2. resource_pool < MAX_RESOURCES
    BY <2>a DEF SemInv, PermitsConserved
  <2>3. QED
    BY <1>21, <2>2 DEF Up
<1>22. ASSUME NEW p \in StatusReaders, StatusBegin(p) PROVE TypeOK' /\ StepInv'
  BY <1>22, ZenonT(40) DEF StatusBegin, Begin
<1>23. ASSUME NEW p \in StatusReaders, StatusLoad(p) PROVE TypeOK' /\ StepInv'
  BY <1>23 DEF StatusLoad
<1>24. ASSUME NEW p \in StatusReaders, StatusFormat(p) PROVE TypeOK' /\ StepInv'
  BY <1>24 DEF StatusFormat
<1>25. CASE UNCHANGED vars
  BY <1>25, ZenonT(40) DEF vars
<1>26. QED
  BY <1>1, <1>2, <1>3, <1>4, <1>5, <1>6, <1>7, <1>8, <1>9, <1>10, <1>11, <1>12, <1>13, <1>14,
     <1>15, <1>16, <1>17, <1>18, <1>19, <1>20, <1>21, <1>22, <1>23, <1>24, <1>25, ZenonT(40)
     DEF Next, MutexStep, SemStep, StatusStep

-----------------------------------------------------------------------------
LEMMA SemInvNext == Counting /\ IInv /\ [Next]_vars => SemInv'
<1> SUFFICES ASSUME Counting, IInv, [Next]_vars PROVE SemInv'
  BY ZenonT(40)
<1> USE PidAssumption, BoundAssumption DEF IInv, TypeOK
<1>a. Readers \cap SemReaders = SemReaders
  BY ZenonT(40) DEF Readers
<1>1. ASSUME NEW made \in SUBSET Files, mutex_sem_init(made) PROVE SemInv'
  <2>1. \A p \in SemReaders : pc'[p] \in Outside
    BY <1>1, <1>a, ZenonT(40) DEF mutex_sem_init, StepInv
  <2>2. Holders' = {} /\ Counted' = {}
    BY <2>1, ZenonT(40) DEF Holders, Counted, Outside, SemSteps
  <2>3. QED
    BY <1>1, <2>2 DEF Counting, mutex_sem_init, FreshStatics, SemInv, PermitsConserved
<1>2. CASE InitCheck \/ ProcRemoveBegin \/ mutex_sem_exit \/ UNCHANGED vars
  <2>1. UNCHANGED <<semVars, pc, locals>>
    BY <1>2, ZenonT(40) DEF InitCheck, ProcRemoveBegin, mutex_sem_exit, vars
  <2>2. QED
    BY <2>1, MutexStepSem, ZenonT(40) DEF semVars, locals
<1>3. ASSUME NEW p \in Readers, Reply(p) \/ ReadEof(p) PROVE SemInv'
  <2>a. PICK next \in Outside : pc' = [pc EXCEPT ![p] = next]
    BY <1>3, ZenonT(40) DEF Reply, ReadEof, Goto, Outside
  <2>b. pc[p] \in {"reply", "eof"}
    BY <1>3, Zenon DEF Reply, ReadEof, Goto
  <2>1. Holders' = Holders /\ Counted' = Counted
    BY <1>a, <2>a, <2>b, ZenonT(40) DEF Holders, Counted, SemSteps, Outside
  <2>2. \A q \in Counted' : user_count'[q] = user_count[q]
    BY <1>3, <1>a, ZenonT(40) DEF Reply, ReadEof, Goto, Counted, locals, Outside
  <2>3. UNCHANGED semVars
    BY <1>3, Zenon DEF Reply, ReadEof
  <2>4. QED
    BY <2>1, <2>2, <2>3, ZenonT(40) DEF SemInv, PermitsConserved, semVars
<1>4. ASSUME NEW p \in MutexReaders, MutexBegin(p) \/ MutexInterrupted(p) \/ MutexStep(p)
      PROVE  SemInv'
  <2>1. UNCHANGED <<semVars, user_count>>
    BY <1>4, Zenon DEF MutexBegin, Begin, MutexInterrupted, MutexStep, LockMutex, AddData,
       WriteMessage, CopyLocals, UnlockMutex, locals
  <2>2. \A q \in SemReaders : pc'[q] = pc[q]
    BY <1>4, <1>a, ZenonT(40) DEF MutexBegin, Begin, MutexInterrupted, MutexStep, LockMutex, AddData,
       WriteMessage, CopyLocals, UnlockMutex, Goto
  <2>3. QED
    BY <2>1, <2>2, MutexStepSem, Zenon
<1>5. ASSUME NEW p \in StatusReaders, StatusBegin(p) \/ StatusStep(p) PROVE SemInv'
  <2>1. UNCHANGED semVars
    BY <1>5, ZenonT(40) DEF StatusBegin, Begin, StatusStep, StatusLoad, StatusFormat
  <2>2. \A q \in SemReaders : pc'[q] = pc[q] /\ user_count'[q] = user_count[q]
    BY <1>5, <1>a DEF StatusBegin, Begin, StatusStep, StatusLoad, StatusFormat, Goto, locals
  <2>3. QED
    BY <2>1, <2>2, MutexStepSem, ZenonT(40)
<1>6. ASSUME NEW p \in SemReaders, SemBegin(p) \/ SemInterrupted(p) \/ LoadId(p) \/ StoreId(p)
      PROVE  SemInv'
  <2>1. Holders' = Holders /\ Counted' = Counted
    BY <1>6, <1>a, ZenonT(40) DEF SemBegin, Begin, SemInterrupted, LoadId, StoreId, Goto, Holders,
       Counted, SemSteps
  <2>2. UNCHANGED <<resource_pool, active_users, user_count>>
    BY <1>6, Zenon DEF SemBegin, Begin, SemInterrupted, LoadId, StoreId, semVars, locals
  <2>3. QED
    BY <2>1, <2>2, ZenonT(40) DEF SemInv, PermitsConserved
<1>7. ASSUME NEW p \in SemReaders, Down(p) PROVE SemInv'
  <2>1. p \notin Holders /\ Holders' = Holders \cup {p} /\ Counted' = Counted
    BY <1>7, <1>a, ZenonT(40) DEF Down, Goto, Holders, Counted, SemSteps
  <2>2. Cardinality(Holders') = Cardinality(Holders) + 1
    BY <2>1, CountedHold, ZenonT(40) DEF Counting
  <2>3. QED
    BY <1>7, <2>1, <2>2, CountedHold DEF Down, SemInv, PermitsConserved, locals
<1>8. ASSUME NEW p \in SemReaders, IncUsers(p) PROVE SemInv'
  <2>1. p \notin Counted /\ p \in Holders /\ Counted' = Counted \cup {p} /\ Holders' = Holders
    BY <1>8, <1>a, ZenonT(40) DEF IncUsers, Goto, Holders, Counted, SemSteps
  <2>2. Cardinality(Counted') = Cardinality(Counted) + 1
    BY <2>1, CountedHold, ZenonT(40) DEF Counting
  <2>3. Cardinality(Counted') <= Cardinality(Holders)
    BY <2>1, CountedHold, ZenonT(40) DEF Counting
  <2>a. Cardinality(Counted) \in Nat /\ Cardinality(Holders) \in Nat
    BY CountedHold, Zenon
  <2>b. active_users' = Cardinality(Counted) + 1
    BY <1>8, ZenonT(40) DEF IncUsers, SemInv
  <2>c. resource_pool \in Nat /\ resource_pool + Cardinality(Holders) = MAX_RESOURCES
    BY DEF SemInv, PermitsConserved
  <2>4. active_users' \in 1 .. MAX_RESOURCES
    BY <2>2, <2>3, <2>a, <2>b, <2>c
  <2>5. \A q \in Counted' : user_count'[q] \in 1 .. MAX_RESOURCES
    BY <1>8, <1>a, <2>1, <2>4, ZenonT(40) DEF IncUsers, SemInv, Counted
  <2>6. QED
    BY <1>8, <2>1, <2>2, <2>5, ZenonT(40) DEF IncUsers, SemInv, PermitsConserved
<1>9. ASSUME NEW p \in SemReaders, DecUsers(p) PROVE SemInv'
  <2>1. p \in Counted /\ Counted' = Counted \ {p} /\ Holders' = Holders
    BY <1>9, <1>a, ZenonT(40) DEF DecUsers, Goto, Holders, Counted, SemSteps
  <2>2. Cardinality(Counted') = Cardinality(Counted) - 1
    BY <2>1, CountedHold, ZenonT(40) DEF Counting
  <2>3. QED
    BY <1>9, <2>1, <2>2, CountedHold, ZenonT(40) DEF DecUsers, SemInv, PermitsConserved, locals
<1>10. ASSUME NEW p \in SemReaders, Up(p) PROVE SemInv'
  <2>1. p \in Holders /\ Holders' = Holders \ {p} /\ Counted' = Counted
    BY <1>10, <1>a, ZenonT(40) DEF Up, Goto, Holders, Counted, SemSteps
  <2>2. Cardinality(Holders') = Cardinality(Holders) - 1
    BY <2>1, CountedHold, ZenonT(40) DEF Counting
  <2>3. QED
    BY <1>10, <2>1, <2>2, CountedHold DEF Up, SemInv, PermitsConserved, locals
<1>11. QED
  BY <1>1, <1>2, <1>3, <1>4, <1>5, <1>6, <1>7, <1>8, <1>9, <1>10, ZenonT(40)
     DEF Next, SemStep

-----------------------------------------------------------------------------
LEMMA MutexInvNext == IInv /\ [Next]_vars => MutexInv'
<1> SUFFICES ASSUME IInv, [Next]_vars PROVE MutexInv'
  BY Zenon
<1> USE PidAssumption DEF IInv, TypeOK
<1>a. MutexReaders \subseteq Readers
  BY Zenon DEF Readers
<1>b. \A p \in MutexReaders : p # 0 /\ p % 100 \in Nat
  BY ModuloNat, ZenonT(40)
<1>1. ASSUME NEW made \in SUBSET Files, mutex_sem_init(made) PROVE MutexInv'
  <2>1. \A p \in MutexReaders : pc'[p] \in Outside
    BY <1>1, <1>a, ZenonT(40) DEF mutex_sem_init, StepInv
  <2>2. QED
    BY <1>1, <1>b, <2>1, ZenonT(40) DEF mutex_sem_init, FreshStatics, MutexInv, CopyStaysCurrent,
       NoLostUpdate, Outside
<1>2. CASE InitCheck \/ ProcRemoveBegin \/ mutex_sem_exit \/ UNCHANGED vars
  <2>1. UNCHANGED <<mutexVars, pc, locals>>
    BY <1>2, ZenonT(40) DEF InitCheck, ProcRemoveBegin, mutex_sem_exit, vars
  <2>2. QED
    BY <2>1, SemStepMutex, ZenonT(40) DEF locals
<1>3. ASSUME NEW p \in SemReaders, SemBegin(p) \/ SemInterrupted(p) \/ SemStep(p)
      PROVE  MutexInv'
  <2>1. UNCHANGED <<mutexVars, local_data, local_msg>>
    BY <1>3, ZenonT(40) DEF SemBegin, Begin, SemInterrupted, SemStep, Down, IncUsers, LoadId, StoreId,
       DecUsers, Up, locals
  <2>2. \A q \in MutexReaders : pc'[q] = pc[q]
    BY <1>3, <1>a, ZenonT(40) DEF SemBegin, Begin, SemInterrupted, SemStep, Down, IncUsers, LoadId,
       StoreId, DecUsers, Up, Goto
  <2>3. QED
    BY <2>1, <2>2, SemStepMutex, ZenonT(40)
<1>4. ASSUME NEW p \in StatusReaders, StatusBegin(p) \/ StatusStep(p) PROVE MutexInv'
  <2>1. UNCHANGED mutexVars
    BY <1>4, ZenonT(40) DEF StatusBegin, Begin, StatusStep, StatusLoad, StatusFormat
  <2>2. \A q \in MutexReaders :
            /\ pc'[q] = pc[q]
            /\ local_data'[q] = local_data[q] /\ local_msg'[q] = local_msg[q]
    BY <1>4, <1>a, ZenonT(40)
       DEF StatusBegin, Begin, StatusStep, StatusLoad, StatusFormat, Goto, locals
  <2>3. QED
    BY <2>1, <2>2, SemStepMutex, ZenonT(40)
<1>5. ASSUME NEW p \in Readers, Reply(p) \/ ReadEof(p) PROVE MutexInv'
  <2>1. PICK next \in Outside : pc' = [pc EXCEPT ![p] = next]
    BY <1>5, ZenonT(40) DEF Reply, ReadEof, Goto, Outside
  <2>2. pc[p] \in {"reply", "eof"}
    BY <1>5, ZenonT(40) DEF Reply, ReadEof, Goto
  <2>3. UNCHANGED mutexVars
    BY <1>5, ZenonT(40) DEF Reply, ReadEof
  <2>4. \A q \in Readers \ {p} : local_data'[q] = local_data[q] /\ local_msg'[q] = local_msg[q]
    BY <1>5, ZenonT(40) DEF Reply, ReadEof, locals
  <2>5. QED
    BY <1>a, <1>b, <2>1, <2>2, <2>3, <2>4 DEF MutexInv, CopyStaysCurrent, NoLostUpdate,
       mutexVars, Outside
<1>6. ASSUME NEW p \in MutexReaders, MutexBegin(p) PROVE MutexInv'
  BY <1>a, <1>b, <1>6 DEF MutexBegin, Begin, Goto, MutexInv, CopyStaysCurrent, NoLostUpdate,
     mutexVars, locals
<1>7. ASSUME NEW p \in MutexReaders, MutexInterrupted(p) PROVE MutexInv'
  BY <1>a, <1>b, <1>7 DEF MutexInterrupted, Goto, MutexInv, CopyStaysCurrent, NoLostUpdate,
     mutexVars, locals
<1>8. ASSUME NEW p \in MutexReaders, LockMutex(p) PROVE MutexInv'
  BY <1>a, <1>b, <1>8 DEF LockMutex, Goto, MutexInv, CopyStaysCurrent, NoLostUpdate,
     mutexVars, locals
<1>9. ASSUME NEW p \in MutexReaders, AddData(p) PROVE MutexInv'
  BY <1>a, <1>b, <1>9 DEF AddData, Goto, MutexInv, CopyStaysCurrent, NoLostUpdate,
     mutexVars, locals
<1>10. ASSUME NEW p \in MutexReaders, WriteMessage(p) PROVE MutexInv'
  BY <1>a, <1>b, <1>10 DEF WriteMessage, Goto, MutexInv, CopyStaysCurrent, NoLostUpdate,
     mutexVars, locals
<1>11. ASSUME NEW p \in MutexReaders, CopyLocals(p) PROVE MutexInv'
  BY <1>a, <1>b, <1>11 DEF CopyLocals, Goto, MutexInv, CopyStaysCurrent, NoLostUpdate,
     mutexVars, locals
<1>12. ASSUME NEW p \in MutexReaders, UnlockMutex(p) PROVE MutexInv'
  BY <1>a, <1>b, <1>12 DEF UnlockMutex, Goto, MutexInv, CopyStaysCurrent, NoLostUpdate,
     mutexVars, locals
<1>13. QED
  BY <1>1, <1>2, <1>3, <1>4, <1>5, <1>6, <1>7, <1>8, <1>9, <1>10, <1>11, <1>12, ZenonT(40)
     DEF Next, MutexStep

-----------------------------------------------------------------------------
\* A condition as a number, and an item that is neither pending nor running.
One(b) == IF b THEN 1 ELSE 0
Off(i) == ~i.pending /\ ~i.running

\* An item that is off is as if it had never been armed.
LEMMA OffQuiet ==
    ASSUME NEW i \in [pending : BOOLEAN, running : BOOLEAN], Off(i)
    PROVE  i = [pending |-> FALSE, running |-> FALSE]
<1>1. i = [pending |-> i.pending, running |-> i.running]
    BY Zenon
<1>2. i.pending = FALSE /\ i.running = FALSE
    BY ZenonT(40) DEF Off
<1> QED
    BY <1>1, <1>2, ZenonT(40)

-----------------------------------------------------------------------------
\* Timer and work are off once exit has waited for them, no read is under way
\* once the module is gone, and each execution of the bottom half, the pending
\* one included, belongs to an expiry whose callback has run.
TmStopInv ==
    /\ kind \in TM!Kinds /\ phase_tm \in {"out", "live", "stop", "flush", "remove"}
    /\ timer \in TM!Item /\ work \in TM!Item /\ top_half_time \in {0, 1}
    /\ phase_tm \in {"flush", "remove", "out"} => Off(timer)
    /\ phase_tm \in {"remove", "out"} => Off(work)
    /\ at \in 0 .. CpuCount + 1 /\ (phase_tm = "out" => at = 0)
    /\ count_tm \in 0 .. MaxExpiries /\ bottom_count \in Nat
    /\ bottom_count + One(work.pending) + One(timer.running) <= count_tm

\* Nothing is armed before a module is loaded.
LEMMA TmStopInit ==
    ASSUME TM!Init, MaxExpiries \in Nat, CpuCount \in Nat
    PROVE  TmStopInv
BY DEF TM!Init, TmStopInv, Off, One, TM!Item, TM!Quiet, TM!Kinds

\* Every step of the modules of one timer keeps what their exits rely on.
LEMMA TmStopNext ==
    ASSUME TmStopInv, [TM!Next]_(TM!vars), MaxExpiries \in Nat, CpuCount \in Nat
    PROVE  TmStopInv'
<1> USE DEF TmStopInv, Off, One, TM!Item, TM!Quiet, TM!Armed, TM!Started,
            TM!Returned, TM!Cancelled,
            TM!CanStart, TM!CanCancel, TM!IsFlushed, TM!Kinds, TM!Cpus, TM!Rearmed, TM!timing,
                TM!reader
<1>1. TM!Load => TmStopInv'
    BY DEF TM!Load
<1>2. TM!Tick => TmStopInv'
    BY ZenonT(40) DEF TM!Tick
<1>3. TM!Expire => TmStopInv'
    BY DEF TM!Expire
<1>4. TM!demo_top_half => TmStopInv'
    BY DEF TM!demo_top_half
<1>5. TM!raise_softirq_timer => TmStopInv'
    BY DEF TM!raise_softirq_timer
<1>6. TM!time_callback => TmStopInv'
    BY DEF TM!time_callback
<1>7. TM!timer_callback => TmStopInv'
    BY DEF TM!timer_callback
<1>8. TM!timer_func => TmStopInv'
    BY DEF TM!timer_func
<1>9. TM!BottomHalfStarts => TmStopInv'
    BY DEF TM!BottomHalfStarts
<1>10. TM!demo_bottom_half => TmStopInv'
    BY DEF TM!demo_bottom_half
<1>11. TM!ShowTotal => TmStopInv'
    BY DEF TM!ShowTotal
<1>12. TM!ShowCpu => TmStopInv'
    BY DEF TM!ShowCpu
<1>13. TM!ShowDone => TmStopInv'
    BY DEF TM!ShowDone
<1>14. TM!ExitBegin => TmStopInv'
    BY ZenonT(40) DEF TM!ExitBegin
<1>15. TM!StopTimer => TmStopInv'
    BY DEF TM!StopTimer
<1>16. TM!FlushWork => TmStopInv'
    BY Zenon DEF TM!FlushWork
<1>17. TM!Unload => TmStopInv'
    BY Zenon DEF TM!Unload
<1>18. UNCHANGED TM!vars => TmStopInv'
    BY ZenonT(40) DEF TM!vars
<1> HIDE DEF TmStopInv
<1> QED
    BY <1>1, <1>2, <1>3, <1>4, <1>5, <1>6, <1>7, <1>8, <1>9, <1>10, <1>11, <1>12, <1>13, <1>14,
       <1>15, <1>16, <1>17, <1>18, ZenonT(40) DEF TM!Next, TM!Callback, TM!Show, TM!Exit

\* S holds the sums of the raises of the first CPUs.  Up to the raise under
\* way their total is the count, and a reader that has added up the first CPUs
\* misses at most the raises of the others.
TmSums(S) ==
    /\ S \in [0 .. CpuCount -> Nat]
    /\ S[0] = 0 /\ \A c \in TM!Cpus : S[c] = S[c - 1] + raised[c]
    /\ kind = "softirq" => count_tm <= S[CpuCount] + One(timer.running)
    /\ kind = "softirq" /\ at # 0 => total <= sum + (S[CpuCount] - S[at - 1]) + 1

\* What the reader of the per-CPU counters has added up.
TmSumInv ==
    /\ raised \in [TM!Cpus -> Nat] /\ \A c \in TM!Cpus : raised[c] + One(timer.running) <= count_tm
    /\ total \in 0 .. MaxExpiries
    /\ sum \in Nat /\ (at = 0 => sum = 0) /\ (at # 0 => sum <= (at - 1) * MaxExpiries)
    /\ \E S : TmSums(S)

\* Nothing was raised, counted or shown before the first load.
LEMMA TmSumInit ==
    ASSUME TM!Init, MaxExpiries \in Nat, CpuCount \in Nat
    PROVE  TmSumInv
<1> DEFINE Z == [n \in 0 .. CpuCount |-> 0]
<1>1. TmSums(Z)
    BY DEF TM!Init, TmSums, One, TM!Cpus
<1> QED
    BY <1>1 DEF TM!Init, TmSumInv, One, TM!Quiet, TM!Cpus

\* Every step keeps the CPUs still to be shown within what the total left out.
LEMMA TmSumNext ==
    ASSUME TmStopInv, TmSumInv, [TM!Next]_(TM!vars), MaxExpiries \in Nat, CpuCount \in Nat
    PROVE  TmSumInv'
<1>0. /\ timer \in TM!Item /\ count_tm \in 0 .. MaxExpiries /\ at \in 0 .. CpuCount + 1
      /\ phase_tm = "out" => at = 0 /\ ~timer.running
    BY Zenon DEF TmStopInv, Off
<1>1. PICK S : TmSums(S)
    BY ZenonT(40) DEF TmSumInv
<1>2. CASE TM!Load
    <2> DEFINE Z == [n \in 0 .. CpuCount |-> 0]
    <2>1. TmSums(Z)'
        BY <1>0, <1>2 DEF TM!Load, TmSums, One, TM!Cpus, TM!reader
    <2> QED
        BY <1>0, <1>2, <2>1 DEF TM!Load, TmSumInv, One, TM!Armed, TM!Quiet, TM!reader
<1>3. CASE TM!raise_softirq_timer
    <2>1. PICK c \in TM!Cpus : raised' = [raised EXCEPT ![c] = @ + 1]
        BY <1>3, ZenonT(40) DEF TM!raise_softirq_timer
    <2> DEFINE R == [n \in 0 .. CpuCount |-> IF n >= c THEN S[n] + 1 ELSE S[n]]
    <2>2. One(timer.running) = 1 /\ One(timer'.running) = 0
        BY <1>0, <1>3, ZenonT(40)
           DEF TM!raise_softirq_timer, TM!Rearmed, TM!Armed, TM!Returned, TM!Item, One
    <2>3. UNCHANGED <<kind, count_tm, at, total, sum>>
        BY <1>3, ZenonT(40) DEF TM!raise_softirq_timer, TM!reader
    <2>4. /\ R \in [0 .. CpuCount -> Nat] /\ R[0] = 0 /\ R[CpuCount] = S[CpuCount] + 1
          /\ \A n \in 0 .. CpuCount : R[n] - S[n] \in {0, 1}
        BY <1>1, <2>1 DEF TmSums, TM!Cpus
    <2>5. \A d \in TM!Cpus : R[d] = R[d - 1] + raised'[d]
        <3>1. TAKE d \in TM!Cpus
        <3>2. d \in 0 .. CpuCount /\ d - 1 \in 0 .. CpuCount /\ S[d] = S[d - 1] + raised[d]
            BY <1>1 DEF TmSums, TM!Cpus
        <3>3. S[d - 1] \in Nat /\ raised[d] \in Nat /\ c \in Nat /\ d \in Nat
            BY <1>1, <3>2 DEF TmSums, TmSumInv, TM!Cpus
        <3>4. raised'[d] = IF d = c THEN raised[d] + 1 ELSE raised[d]
            BY <2>1, ZenonT(40) DEF TmSumInv
        <3> QED
            BY <3>2, <3>3, <3>4
    <2> HIDE DEF R
    <2>6. ASSUME at # 0
          PROVE  /\ S[CpuCount] - S[at - 1] <= R[CpuCount] - R[at - 1]
                 /\ S[CpuCount] - S[at - 1] \in Int /\ R[CpuCount] - R[at - 1] \in Int
        <3>1. at - 1 \in 0 .. CpuCount /\ CpuCount \in 0 .. CpuCount
            BY <1>0, <2>6
        <3>2. /\ S[CpuCount] \in Nat /\ S[at - 1] \in Nat /\ R[at - 1] \in Nat
              /\ R[CpuCount] = S[CpuCount] + 1 /\ R[at - 1] - S[at - 1] \in {0, 1}
            BY <1>1, <2>4, <3>1, ZenonT(40) DEF TmSums
        <3> QED
            BY <3>2
    <2>8. kind = "softirq" /\ at # 0 => total <= sum + (R[CpuCount] - R[at - 1]) + 1
        <3>1. SUFFICES ASSUME kind = "softirq", at # 0
                       PROVE  total <= sum + (R[CpuCount] - R[at - 1]) + 1
            BY ZenonT(40)
        <3>2. total <= sum + (S[CpuCount] - S[at - 1]) + 1
            BY <1>1, <3>1, ZenonT(40) DEF TmSums
        <3>3. total \in Int /\ sum \in Int
            BY DEF TmSumInv
        <3> QED
            BY <2>6, <3>1, <3>2, <3>3
    <2>9. TmSums(R)'
        BY <1>0, <1>1, <2>2, <2>3, <2>4, <2>5, <2>8 DEF TmSums
    <2> QED
        BY <1>0, <2>1, <2>2, <2>3, <2>9 DEF TmSumInv
<1>4. CASE TM!ShowCpu
    <2>1. TmSums(S)'
        <3>1. at \in 0 .. CpuCount /\ at - 1 \in 0 .. CpuCount /\ at' - 1 = at
            BY <1>0, <1>4 DEF TM!ShowCpu, TM!Cpus
        <3>2. S[at] = S[at - 1] + raised[at] /\ sum' = sum + raised[at]
            BY <1>1, <1>4, ZenonT(40) DEF TmSums, TM!ShowCpu
        <3>3. at # 0 /\ S[at] \in Nat /\ S[at - 1] \in Nat /\ raised[at] \in Nat
            BY <1>1, <1>4, <3>1 DEF TmSums, TmSumInv, TM!ShowCpu, TM!Cpus
        <3>4. kind = "softirq" => total <= sum + (S[CpuCount] - S[at - 1]) + 1
            BY <1>1, <3>3, ZenonT(40) DEF TmSums
        <3>5. S[CpuCount] \in Nat /\ sum \in Nat /\ total \in Nat /\ S[at' - 1] = S[at]
            BY <1>1, <3>1 DEF TmSums, TmSumInv
        <3>6. kind = "softirq" => total <= sum' + (S[CpuCount] - S[at' - 1]) + 1
            BY <3>2, <3>3, <3>4, <3>5
        <3> QED
            BY <1>1, <1>4, <3>1, <3>6, ZenonT(40) DEF TM!ShowCpu, TmSums
    <2>2. at' # 0 /\ (at' - 1) * MaxExpiries = (at - 1) * MaxExpiries + MaxExpiries
        BY <1>0, <1>4 DEF TM!ShowCpu, TM!Cpus
    <2>3. raised[at] \in 0 .. MaxExpiries
        BY <1>0, <1>4 DEF TM!ShowCpu, TmSumInv, One
    <2>4. sum' \in Nat /\ sum' <= (at' - 1) * MaxExpiries
        BY <1>0, <1>4, <2>2, <2>3 DEF TM!ShowCpu, TmSumInv, TM!Cpus
    <2> QED
        BY <1>4, <2>1, <2>2, <2>4, ZenonT(40) DEF TM!ShowCpu, TmSumInv, One
<1>5. CASE TM!ShowTotal
    <2>1. TmSums(S)'
        BY <1>0, <1>1, <1>5 DEF TM!ShowTotal, TmSums, TmSumInv, One, TM!Cpus, TM!timing
    <2> QED
        BY <1>0, <1>5, <2>1 DEF TM!ShowTotal, TmSumInv, One, TM!timing
<1>6. CASE TM!ShowDone
    <2>1. TmSums(S)'
        BY <1>1, <1>6, ZenonT(40) DEF TM!ShowDone, TmSums, One, TM!timing
    <2> QED
        BY <1>0, <1>6, <2>1 DEF TM!ShowDone, TmSumInv, One, TM!timing
<1>7. CASE TM!Expire
    <2>1. One(timer.running) = 0 /\ One(timer'.running) = 1
        BY <1>0, <1>7, ZenonT(40) DEF TM!Expire, TM!CanStart, TM!Started, TM!Item, One
    <2>2. TmSums(S)'
        BY <1>0, <1>1, <1>7, <2>1 DEF TM!Expire, TmSums, TM!reader
    <2> QED
        BY <1>0, <1>7, <2>1, <2>2 DEF TM!Expire, TmSumInv, TM!reader
<1>8. ASSUME UNCHANGED <<kind, count_tm, raised, TM!reader>>, timer'.running => timer.running,
             kind = "softirq" /\ timer.running => timer'.running
      PROVE  TmSumInv'
    <2>0. kind = "softirq" => One(timer'.running) = One(timer.running)
        BY <1>8, ZenonT(40) DEF One
    <2>1. TmSums(S)'
        BY <1>1, <1>8, <2>0, ZenonT(40) DEF TmSums, TM!Cpus, TM!reader
    <2> QED
        BY <1>0, <1>8, <2>1 DEF TmSumInv, One, TM!reader
<1>9. CASE TM!demo_top_half \/ TM!time_callback \/ TM!timer_callback \/ TM!timer_func
    <2>1. kind # "softirq" /\ (timer'.running => timer.running)
        BY <1>0, <1>9, ZenonT(40) DEF TM!demo_top_half, TM!time_callback, TM!timer_callback,
                                 TM!timer_func
    <2> QED
        BY <1>8, <1>9, <2>1, ZenonT(40) DEF TM!demo_top_half, TM!time_callback, TM!timer_callback,
                                       TM!timer_func
<1>10. (TM!Tick \/ TM!BottomHalfStarts \/ TM!demo_bottom_half
        \/ TM!ExitBegin \/ TM!FlushWork \/ TM!Unload) => TmSumInv'
    BY <1>8, ZenonT(40)
       DEF TM!Tick, TM!BottomHalfStarts, TM!demo_bottom_half, TM!ExitBegin, TM!FlushWork,
                TM!Unload
<1>11. CASE TM!StopTimer
    <2>1. timer'.running <=> timer.running
        BY <1>0, <1>11, ZenonT(40) DEF TM!StopTimer, TM!Cancelled, TM!Item
    <2> QED
        BY <1>8, <1>11, <2>1, ZenonT(40) DEF TM!StopTimer
<1>12. UNCHANGED TM!vars => TmSumInv'
    BY <1>8, ZenonT(40) DEF TM!vars
<1> QED
    BY <1>2, <1>3, <1>4, <1>5, <1>6, <1>7, <1>9, <1>10, <1>11, <1>12, ZenonT(40)
       DEF TM!Next, TM!Callback,
       TM!Show, TM!Exit

\* What the reader adds up stays within the counters it reads.
LEMMA TmSumBound ==
    ASSUME TmStopInv, TmSumInv, MaxExpiries \in Nat, CpuCount \in Nat
    PROVE  sum \in 0 .. MaxExpiries * CpuCount
<1>1. CASE at = 0
    BY <1>1 DEF TmSumInv
<1>2. CASE at # 0
    <2>1. at - 1 \in Nat /\ CpuCount - (at - 1) \in Nat
        BY <1>2 DEF TmStopInv
    <2>2. (CpuCount - (at - 1)) * MaxExpiries \in Nat
        BY <2>1
    <2>3. MaxExpiries * CpuCount = (at - 1) * MaxExpiries + (CpuCount - (at - 1)) * MaxExpiries
        BY <2>1
    <2> QED
        BY <1>2, <2>1, <2>2, <2>3 DEF TmSumInv
<1> QED
    BY <1>1, <1>2, ZenonT(40)

\* What a callback may have said.
TmSaid == [late : BOOLEAN, before : BOOLEAN, when : 0 .. Width \div 2]

\* jiffies is the start plus the ticks since, wrapped at most once, and what
\* the last callback said of them was right.
TmClockInv ==
    /\ jiffies \in 0 .. Width - 1 /\ start_jiffies \in 0 .. Width - 1
    /\ elapsed \in 0 .. Width \div 2
    /\ jiffies = start_jiffies + elapsed \/ jiffies = start_jiffies + elapsed - Width
    /\ told \in TmSaid
    /\ TM!ComparisonsRight

\* The differences that jiffies_conversions.c looks at lie within half the range.
TmWidthOK ==
    /\ Width \in Nat /\ Later \in Nat /\ Later < Width \div 2
    /\ Future \in Nat /\ 0 < Future /\ Future <= Width \div 2

\* Numbers below twice the width wrap by at most one subtraction.
LEMMA TmWrap ==
    ASSUME NEW W \in Nat, NEW a \in 0 .. 2 * W - 1
    PROVE  a % W = IF a < W THEN a ELSE a - W
OBVIOUS

\* time_after, and so time_before, is right for times less than half the range
\* apart, wrapped or not.
LEMMA TmTimeAfter ==
    ASSUME TmWidthOK, NEW a \in 0 .. Width - 1, NEW b \in 0 .. Width - 1,
           NEW d \in Nat, d <= Width \div 2, a = b + d \/ a = b + d - Width
    PROVE  /\ d > 0 => TM!time_after(a, b)
           /\ d < Width \div 2 => ~TM!time_after(b, a)
<1>0. Width \in Nat
    BY ZenonT(40) DEF TmWidthOK
<1>1. 0 < Width \div 2 /\ 2 * (Width \div 2) <= Width /\ Width \div 2 \in Nat
    BY DEF TmWidthOK
<1>2. (b + Width - a) % Width = IF d = 0 THEN 0 ELSE Width - d
    <2> DEFINE x == b + Width - a
    <2>1. x \in 0 .. 2 * Width - 1
        BY <1>0
    <2> HIDE DEF x
    <2>2. x % Width = IF x < Width THEN x ELSE x - Width
        BY <1>0, <2>1, TmWrap, ZenonT(40)
    <2> QED
        BY <1>0, <1>1, <2>2 DEF x
<1>3. (a + Width - b) % Width = IF d = Width THEN 0 ELSE d
    <2> DEFINE x == a + Width - b
    <2>1. x \in 0 .. 2 * Width - 1
        BY <1>0
    <2> HIDE DEF x
    <2>2. x % Width = IF x < Width THEN x ELSE x - Width
        BY <1>0, <2>1, TmWrap, Zenon
    <2> QED
        BY <1>0, <1>1, <2>2 DEF x
<1> QED
    BY <1>1, <1>2, <1>3 DEF TM!time_after, TmWidthOK

\* Before the first callback nothing wrong has been said.
LEMMA TmUntoldRight ==
    ASSUME TmWidthOK
    PROVE  /\ TM!Untold \in TmSaid
           /\ TM!Untold.before /\ TM!Untold.late = (TM!Untold.when > Later)
<1>1. ~(0 > Later) /\ 0 \in 0 .. Width \div 2
    BY DEF TmWidthOK
<1>2. /\ TM!Untold \in TmSaid
      /\ TM!Untold.before /\ ~TM!Untold.late /\ TM!Untold.when = 0
    BY <1>1, ZenonT(40) DEF TM!Untold, TmSaid
<1>3. TM!Untold.late = FALSE /\ (0 > Later) = FALSE
    BY <1>1 DEF TM!Untold
<1> QED
    BY <1>2, <1>3, ZenonT(40)

\* The clock starts with the module.
LEMMA TmClockInit ==
    ASSUME TM!Init, TmWidthOK
    PROVE  TmClockInv
<1>1. 0 < Width /\ 0 <= Width \div 2 /\ Width \div 2 \in Nat
    BY DEF TmWidthOK
<1> QED
    BY <1>1, TmUntoldRight DEF TM!Init, TmClockInv, TM!ComparisonsRight, TmWidthOK

\* Every step keeps the clock and what was told of it in agreement.
LEMMA TmClockNext ==
    ASSUME TmClockInv, [TM!Next]_(TM!vars), TmWidthOK
    PROVE  TmClockInv'
<1>0. /\ Width \in Nat /\ Later \in Nat /\ Future \in Nat
      /\ jiffies \in Nat /\ start_jiffies \in Nat
    BY DEF TmClockInv, TmWidthOK
<1>1. 0 < Width /\ 2 * (Width \div 2) <= Width /\ Width \div 2 \in Nat
    BY DEF TmWidthOK
<1>2. CASE TM!Load
    <2>1. told' = TM!Untold
        BY <1>2, ZenonT(40) DEF TM!Load
    <2>2. TM!ComparisonsRight' /\ told' \in TmSaid
        BY <2>1, TmUntoldRight, ZenonT(40) DEF TM!ComparisonsRight
    <2>3. /\ jiffies' \in 0 .. Width - 1 /\ start_jiffies' \in 0 .. Width - 1
          /\ elapsed' \in 0 .. Width \div 2
        BY <1>0, <1>1, <1>2 DEF TM!Load
    <2>4. jiffies' = start_jiffies' + elapsed'
        <3>1. \A n \in Int : n = n + 0
            OBVIOUS
        <3>2. jiffies' \in Int
            BY <1>0, <2>3
        <3> QED
            BY <1>2, <3>1, <3>2, ZenonT(40) DEF TM!Load
    <2> QED
        BY <2>2, <2>3, <2>4, ZenonT(40) DEF TmClockInv
<1>3. CASE TM!Tick
    <2>1. jiffies' = IF jiffies + 1 < Width THEN jiffies + 1 ELSE jiffies + 1 - Width
        <3> DEFINE x == jiffies + 1
        <3>1. x \in 0 .. 2 * Width - 1
            BY <1>0, <1>1 DEF TmClockInv
        <3>2. jiffies' = x % Width
            BY <1>3, ZenonT(40) DEF TM!Tick
        <3> HIDE DEF x
        <3>3. jiffies' = IF x < Width THEN x ELSE x - Width
            BY <1>0, <3>1, <3>2, TmWrap, ZenonT(40)
        <3> QED
            BY <1>0, <3>3 DEF x
    <2> QED
        BY <1>1, <1>3, <2>1 DEF TM!Tick, TmClockInv, TM!ComparisonsRight, TmWidthOK
<1>4. CASE TM!time_callback
    <2> DEFINE l == (start_jiffies + Later) % Width
               f == (jiffies + Future) % Width
    <2>1. l \in 0 .. Width - 1 /\ (l = start_jiffies + Later \/ l = start_jiffies + Later - Width)
        <3> DEFINE x == start_jiffies + Later
        <3>1. x \in 0 .. 2 * Width - 1
            BY <1>1 DEF TmClockInv, TmWidthOK
        <3>2. l = x % Width
            BY Zenon
        <3> HIDE DEF x, l
        <3>3. l = IF x < Width THEN x ELSE x - Width
            BY <1>0, <3>1, <3>2, TmWrap, ZenonT(40)
        <3> QED
            BY <1>0, <3>1, <3>3 DEF x
    <2>2. f \in 0 .. Width - 1 /\ (f = jiffies + Future \/ f = jiffies + Future - Width)
        <3> DEFINE x == jiffies + Future
        <3>1. x \in 0 .. 2 * Width - 1
            BY <1>1 DEF TmClockInv, TmWidthOK
        <3>2. f = x % Width
            BY Zenon
        <3> HIDE DEF x, f
        <3>3. f = IF x < Width THEN x ELSE x - Width
            BY <1>0, <3>1, <3>2, TmWrap, Zenon
        <3> QED
            BY <1>0, <3>1, <3>3 DEF x
    <2> HIDE DEF l, f
    <2>3. TM!time_after(f, jiffies)
        BY <1>1, <2>2, TmTimeAfter, ZenonT(40) DEF TmClockInv, TmWidthOK
    <2>4. ASSUME elapsed > Later PROVE TM!time_after(jiffies, l)
        <3>1. elapsed - Later \in Nat /\ elapsed - Later > 0 /\ elapsed - Later <= Width \div 2
            BY <1>1, <2>4 DEF TmClockInv, TmWidthOK
        <3>2. jiffies = l + (elapsed - Later) \/ jiffies = l + (elapsed - Later) - Width
            BY <1>1, <2>1, <3>1 DEF TmClockInv, TmWidthOK
        <3> QED
            BY <2>1, <3>1, <3>2, TmTimeAfter, ZenonT(40) DEF TmClockInv
    <2>5. ASSUME ~(elapsed > Later) PROVE ~TM!time_after(jiffies, l)
        <3>1. Later - elapsed \in Nat /\ Later - elapsed < Width \div 2
            BY <1>1, <2>5 DEF TmClockInv, TmWidthOK
        <3>2. l = jiffies + (Later - elapsed) \/ l = jiffies + (Later - elapsed) - Width
            BY <1>1, <2>1, <3>1 DEF TmClockInv, TmWidthOK
        <3> QED
            BY <1>1, <2>1, <3>1, <3>2, TmTimeAfter DEF TmClockInv
    <2>6. /\ told'.late = TM!time_after(jiffies, l) /\ told'.before = TM!time_after(f, jiffies)
          /\ told'.when = elapsed
        BY <1>4, ZenonT(40) DEF TM!time_callback, l, f
    <2>7. told' \in TmSaid
        BY <1>4 DEF TM!time_callback, TM!time_after, TmClockInv, TmSaid
    <2>8. TM!ComparisonsRight'
        <3>1. told'.before /\ told'.late \in BOOLEAN
            BY <2>3, <2>6, <2>7, ZenonT(40) DEF TmSaid
        <3>2. told'.late <=> told'.when > Later
            BY <2>4, <2>5, <2>6, ZenonT(40)
        <3> QED
            BY <3>1, <3>2 DEF TM!ComparisonsRight
    <2> QED
        BY <1>4, <2>7, <2>8, ZenonT(40) DEF TM!time_callback, TmClockInv
<1>5. UNCHANGED TM!timing => TmClockInv'
    BY Zenon DEF TM!timing, TmClockInv, TM!ComparisonsRight
<1> QED
    BY <1>2, <1>3, <1>4, <1>5, ZenonT(40) DEF TM!Next, TM!vars, TM!Callback, TM!Show, TM!Exit,
                                         TM!Expire, TM!demo_top_half,
       TM!raise_softirq_timer, TM!timer_callback, TM!timer_func, TM!BottomHalfStarts,
           TM!demo_bottom_half,
       TM!ShowTotal, TM!ShowCpu, TM!ShowDone, TM!ExitBegin, TM!StopTimer, TM!FlushWork, TM!Unload

\* Neither timer nor work is left behind by exit.
LEMMA TmStops ==
    ASSUME TmStopInv, MaxExpiries \in Nat
    PROVE  TM!AllStopped /\ TM!BottomFollowsTop
<1>1. TM!BottomFollowsTop
    BY DEF TmStopInv, TM!BottomFollowsTop, One
<1> QED
    BY <1>1, OffQuiet, ZenonT(40) DEF TM!Item, TM!Quiet, TmStopInv, TM!AllStopped

\* A read that is over has shown CPUs that cover its total
\* (raising_softirqs.c:47-52).
LEMMA TmCoversTotal ==
    ASSUME TmStopInv, TmSumInv, CpuCount \in Nat
    PROVE  TM!CpusCoverTotal
<1>1. PICK S : TmSums(S)
    BY ZenonT(40) DEF TmSumInv
<1>2. S[CpuCount] - S[CpuCount] = 0
    BY <1>1 DEF TmSums
<1> QED
    BY <1>1, <1>2 DEF TmSums, TmSumInv, TM!CpusCoverTotal

\* The types of the timer modules follow.
LEMMA TmTypes ==
    ASSUME TmStopInv, TmSumInv, TmClockInv, MaxExpiries \in Nat, CpuCount \in Nat
    PROVE  TM!TypeOK
<1>1. bottom_count \in 0 .. MaxExpiries /\ \A c \in TM!Cpus : raised[c] \in 0 .. MaxExpiries
    BY DEF TmStopInv, TmSumInv, One
<1>2. sum \in 0 .. MaxExpiries * CpuCount
    BY TmSumBound, ZenonT(40)
<1> QED
    BY <1>1, <1>2, ZenonT(40) DEF TM!TypeOK, TmStopInv, TmSumInv, TmClockInv, TmSaid

-----------------------------------------------------------------------------
\* Where a context holds the mutex.
IrqInside == {"count", "message", "unlock"}

\* The contexts are different from one another and from nobody.
IrqDistinct ==
    /\ Writers \cap Viewers = {} /\ TH!HardIrq \notin Writers \cup Viewers
    /\ TH!IrqThread \notin Writers \cup Viewers /\ TH!Nobody \notin TH!Contexts

\* The mutex belongs to the context inside; once the module is gone, and of
\* the processes once the file is, nobody is left in a handler.
IrqMutexInv ==
    /\ phase_irq \in TH!Phases /\ full \subseteq Writers
    /\ pc_irq \in [TH!Contexts -> TH!Labels]
    /\ pc_irq[TH!HardIrq] \in {"idle", "primary", "load", "store"}
    /\ \A v \in Viewers : pc_irq[v] \in {"idle", "count", "message", "shown"}
    /\ \A c \in TH!Contexts : pc_irq[c] \in IrqInside <=> mutex_irq = c
    /\ mutex_irq \in TH!Contexts \cup {TH!Nobody}
    /\ phase_irq \in {"out", "irq", "sync",
        "free"} => \A p \in Writers \cup Viewers : pc_irq[p] = "idle"
    /\ phase_irq = "out" => TH!IrqQuiet

\* Counter and message agree except between the two assignments of a handler,
\* and a viewer between its two loads has the present counter.
IrqPairInv ==
    /\ (\A c \in TH!Threads : pc_irq[c] # "message") => shared_counter = message_irq
    /\ DOMAIN shown = Viewers
    /\ \A v \in Viewers : pc_irq[v] = "message" => shown[v] = <<shared_counter, 0>>
    /\ TH!ShownTogether

\* Nobody is in a handler before the interrupt is requested.
LEMMA IrqMutexInit ==
    ASSUME TH!Init, IrqDistinct
    PROVE  IrqMutexInv /\ IrqPairInv
BY ZenonT(40)
   DEF TH!Init, IrqDistinct, IrqMutexInv, IrqPairInv, TH!ShownTogether, TH!IrqQuiet, IrqInside,
       TH!Phases, TH!Labels, TH!Contexts,
       TH!HardIrq, TH!IrqThread

\* The interrupt and its thread are two contexts.
LEMMA IrqHandlers == TH!HardIrq # TH!IrqThread
BY ZenonT(40) DEF TH!HardIrq, TH!IrqThread

\* Every step of threaded_irq_demo.c keeps the mutex with its holder.
LEMMA IrqMutexNext ==
    ASSUME IrqMutexInv, [TH!Next]_(TH!vars), IrqDistinct
    PROVE  IrqMutexInv'
<1> USE DEF IrqDistinct, IrqMutexInv, TH!IrqQuiet, IrqInside, TH!Phases, TH!Labels, TH!Contexts,
            TH!Primaries, TH!Threads, TH!Goto,
            TH!shared, TH!counters
<1>1. (TH!RequestIrq \/ TH!CreateFile \/ TH!ExitBegin \/ TH!RemoveFile
       \/ TH!SynchronizeIrq \/ TH!my_exit) => IrqMutexInv'
    BY DEF TH!RequestIrq, TH!CreateFile, TH!ExitBegin, TH!RemoveFile, TH!SynchronizeIrq, TH!my_exit
<1>2. (TH!Interrupt \/ TH!ThreadWakes) => IrqMutexInv'
    BY IrqHandlers, ZenonT(40) DEF TH!Interrupt, TH!ThreadWakes
<1>3. \A c \in TH!Primaries : (TH!CountPrimary(c) \/ TH!LoadCounter(c)) => IrqMutexInv'
    BY DEF TH!CountPrimary, TH!LoadCounter
<1>4. \A c \in TH!Primaries : TH!StoreCounter(c) => IrqMutexInv'
    BY DEF TH!StoreCounter
<1>5. \A c \in TH!Threads : TH!CountThread(c) => IrqMutexInv'
    BY DEF TH!CountThread
<1>6. \A c \in TH!Threads : TH!LockMutex(c) => IrqMutexInv'
    BY DEF TH!LockMutex
<1>7. \A c \in TH!Threads : (TH!CountShared(c) \/ TH!WriteMessage(c)) => IrqMutexInv'
    BY DEF TH!CountShared, TH!WriteMessage
<1>8. \A c \in TH!Threads : (TH!UnlockMutex(c) \/ TH!ThreadReturns(c)) => IrqMutexInv'
    BY DEF TH!UnlockMutex, TH!ThreadReturns
<1>9. \A p \in Writers, both \in BOOLEAN : TH!WriteBegin(p, both) => IrqMutexInv'
    BY DEF TH!WriteBegin
<1>10. \A v \in Viewers : TH!ShowLock(v) => IrqMutexInv'
    BY DEF TH!ShowLock
<1>11. \A v \in Viewers : (TH!ShowCounter(v) \/ TH!ShowReturns(v)) => IrqMutexInv'
    BY DEF TH!ShowCounter, TH!ShowReturns
<1>12. \A v \in Viewers : TH!ShowMessage(v) => IrqMutexInv'
    BY DEF TH!ShowMessage
<1>13. UNCHANGED TH!vars => IrqMutexInv'
    BY DEF TH!vars
<1> HIDE DEF IrqMutexInv
<1> QED
    BY <1>1, <1>2, <1>3, <1>4, <1>5, <1>6, <1>7, <1>8, <1>9, <1>10, <1>11, <1>12, <1>13, ZenonT(40)
       DEF TH!Next, TH!PrimaryStep, TH!ThreadStep, TH!ShowStep

\* A step that leaves the shared data and what is shown alone keeps the pairs.
LEMMA IrqPairsKept ==
    ASSUME IrqPairInv, UNCHANGED <<shared_counter, message_irq, shown>>,
           \A c \in TH!Threads : pc_irq[c] = "message" => pc_irq'[c] = "message",
           \A v \in Viewers : pc_irq'[v] \in {"message", "shown"} => pc_irq[v] = pc_irq'[v]
    PROVE  IrqPairInv'
BY ZenonT(40) DEF IrqPairInv, TH!ShownTogether

\* Every step keeps counter and message together outside the mutex.
LEMMA IrqPairNext ==
    ASSUME IrqMutexInv, IrqPairInv, [TH!Next]_(TH!vars), IrqDistinct
    PROVE  IrqPairInv'
<1> USE DEF IrqDistinct, IrqMutexInv, IrqInside, TH!Contexts, TH!Threads, TH!Goto
<1>1. TH!RequestIrq => IrqPairInv'
    BY ZenonT(40) DEF TH!RequestIrq, IrqPairInv, TH!ShownTogether
<1>2. (TH!CreateFile \/ TH!ExitBegin \/ TH!RemoveFile
       \/ TH!SynchronizeIrq \/ TH!my_exit) => IrqPairInv'
    BY IrqPairsKept, ZenonT(40)
       DEF TH!CreateFile, TH!ExitBegin, TH!RemoveFile, TH!SynchronizeIrq, TH!my_exit,
                        TH!shared
<1>3. (TH!Interrupt \/ TH!ThreadWakes) => IrqPairInv'
    BY IrqPairsKept, IrqHandlers, ZenonT(40) DEF TH!Interrupt, TH!ThreadWakes, TH!shared
<1>4. \A c \in TH!Primaries :
          (TH!CountPrimary(c) \/ TH!LoadCounter(c) \/ TH!StoreCounter(c)) => IrqPairInv'
    BY IrqPairsKept, ZenonT(40)
       DEF TH!Primaries, TH!CountPrimary, TH!LoadCounter, TH!StoreCounter, TH!shared
<1>5. \A c \in TH!Threads :
          (TH!CountThread(c) \/ TH!LockMutex(c) \/ TH!UnlockMutex(c) \/ TH!ThreadReturns(c))
          => IrqPairInv'
    BY IrqPairsKept, ZenonT(40)
       DEF TH!CountThread, TH!LockMutex, TH!UnlockMutex, TH!ThreadReturns, TH!shared
<1>6. \A c \in TH!Threads : TH!CountShared(c) => IrqPairInv'
    BY DEF TH!CountShared, IrqPairInv, TH!ShownTogether
<1>7. \A c \in TH!Threads : TH!WriteMessage(c) => IrqPairInv'
    BY DEF TH!WriteMessage, IrqPairInv, TH!ShownTogether
<1>8. \A p \in Writers, both \in BOOLEAN : TH!WriteBegin(p, both) => IrqPairInv'
    BY IrqPairsKept, ZenonT(40) DEF TH!WriteBegin, TH!shared
<1>9. \A v \in Viewers : TH!ShowLock(v) => IrqPairInv'
    BY IrqPairsKept, ZenonT(40) DEF TH!ShowLock
<1>10. \A v \in Viewers : TH!ShowCounter(v) => IrqPairInv'
    BY DEF TH!ShowCounter, IrqPairInv, TH!ShownTogether, TH!shared
<1>11. ASSUME NEW v \in Viewers, TH!ShowMessage(v) PROVE IrqPairInv'
    <2>1. \A c \in TH!Threads : pc_irq[c] # "message"
        BY <1>11 DEF TH!ShowMessage
    <2>2. shown'[v] = <<shared_counter, message_irq>>
        BY <1>11 DEF TH!ShowMessage, IrqPairInv
    <2> QED
        BY <1>11, <2>1, <2>2 DEF TH!ShowMessage, IrqPairInv, TH!ShownTogether
<1>12. \A v \in Viewers : TH!ShowReturns(v) => IrqPairInv'
    BY DEF TH!ShowReturns, IrqPairInv, TH!ShownTogether, TH!shared
<1>13. UNCHANGED TH!vars => IrqPairInv'
    BY IrqPairsKept, ZenonT(40) DEF TH!vars, TH!shared
<1> HIDE DEF IrqMutexInv
<1> QED
    BY <1>1, <1>2, <1>3, <1>4, <1>5, <1>6, <1>7, <1>8, <1>9, <1>10, <1>11, <1>12, <1>13, ZenonT(40)
       DEF TH!Next, TH!PrimaryStep, TH!ThreadStep, TH!ShowStep

\* free_irq leaves nobody in a handler (threaded_irq_demo.c:233-237).
LEMMA IrqStops ==
    ASSUME IrqMutexInv
    PROVE  TH!HandlersGone
BY ZenonT(40) DEF IrqMutexInv, TH!HandlersGone, TH!IrqQuiet, TH!Contexts

-----------------------------------------------------------------------------
\* The invariants of a component together.
TmInv  == TmStopInv /\ TmSumInv /\ TmClockInv
IrqInv == IrqMutexInv /\ IrqPairInv

\* The assumptions on the constants, in the words of the lemmas.
LEMMA Bounds == MaxExpiries \in Nat /\ CpuCount \in Nat /\ IrqDistinct /\ TmWidthOK
<1>1. MaxExpiries \in Nat /\ CpuCount \in Nat /\ TmWidthOK
    BY ShownAssumption, ZenonT(40) DEF TmWidthOK
<1>2. IrqDistinct
    BY ShownAssumption, ZenonT(40) DEF IrqDistinct, TH!Contexts, TH!HardIrq, TH!IrqThread, TH!Nobody
<1> QED
    BY <1>1, <1>2, ZenonT(40)

\* They hold in every behaviour of their component.
LEMMA TmCorrect == TM!Spec => []TmInv
<1>1. TM!Init => TmInv
    BY Bounds, TmStopInit, TmSumInit, TmClockInit, ZenonT(40) DEF TmInv
<1>2. TmInv /\ [TM!Next]_(TM!vars) => TmInv'
    BY Bounds, TmStopNext, TmSumNext, TmClockNext, ZenonT(40) DEF TmInv
<1> QED
    BY <1>1, <1>2, PTL DEF TM!Spec

\* The invariants of threaded_irq_demo.c hold in every state.
LEMMA IrqCorrect == TH!Spec => []IrqInv
<1>1. TH!Init => IrqInv
    BY Bounds, IrqMutexInit, ZenonT(40) DEF IrqInv
<1>2. IrqInv /\ [TH!Next]_(TH!vars) => IrqInv'
    BY Bounds, IrqMutexNext, IrqPairNext, ZenonT(40) DEF IrqInv
<1> QED
    BY <1>1, <1>2, PTL DEF TH!Spec

-----------------------------------------------------------------------------
\* The file of threaded_irq_demo.c shows a counter and the message of the same
\* execution, whoever ran the handler; and for any number of CPUs the raises that
\* raising_softirqs.c shows per CPU cover the total it showed before them, but
\* for one under way (threaded_irq_demo.c:78-83, raising_softirqs.c:47-51).
THEOREM ShownTogetherAlways == TH!Spec /\ TM!Spec => []ShownTogether
<1>1. IrqInv /\ TmInv => ShownTogether
    BY Bounds, TmCoversTotal, ZenonT(40) DEF IrqInv, IrqPairInv, TmInv, ShownTogether
<1> QED
    BY <1>1, IrqCorrect, TmCorrect, PTL

\* For every width of jiffies, wrapped or not, the comparisons of
\* jiffies_conversions.c are right for half its range; the bottom half of
\* interrupt_processing.c runs at most once for each expiry; and once exit is
\* over, neither timer nor work is pending or running and nobody is left in a
\* handler of threaded_irq_demo.c (jiffies_conversions.c:25-31, 74,
\* interrupt_processing.c:22-40, 121-126, threaded_irq_demo.c:233-237).
THEOREM HandlersRightAlways == TH!Spec /\ TM!Spec => []HandlersRight
<1>1. IrqInv => TH!HandlersGone
    BY IrqStops, ZenonT(40) DEF IrqInv
<1>2. TmInv => TM!ComparisonsRight /\ TM!BottomFollowsTop /\ TM!AllStopped
    BY Bounds, TmStops, ZenonT(40) DEF TmInv, TmClockInv
<1>3. IrqInv /\ TmInv => HandlersRight
    BY <1>1, <1>2, ZenonT(40) DEF HandlersRight
<1> QED
    BY <1>3, IrqCorrect, TmCorrect, PTL

\* Every variable of the timer modules keeps its type, the counters their
\* bounds and jiffies its width, although only the expiries are bounded: the
\* callbacks, bottom halves and reads that these set off are not
\* (raising_softirqs.c:26-39, jiffies_conversions.c:17-45).
THEOREM TimersTyped == TM!Spec => []TM!TypeOK
<1>1. TmInv => TM!TypeOK
    BY Bounds, TmTypes, ZenonT(40) DEF TmInv
<1> QED
    BY <1>1, TmCorrect, PTL

-----------------------------------------------------------------------------
INSTANCE FiniteSetTheorems

\* A finite set of readers can be counted.
LEMMA ReadersCount == Counting
<1>1. Cardinality({}) = 0
  BY FS_EmptySet, Zenon
<1> SUFFICES ASSUME NEW S \in SUBSET SemReaders
    PROVE  /\ Cardinality(S) \in Nat
           /\ \A p \in SemReaders \ S : Cardinality(S \cup {p}) = Cardinality(S) + 1
           /\ \A p \in S : Cardinality(S) > 0 /\ Cardinality(S \ {p}) = Cardinality(S) - 1
           /\ \A T \in SUBSET S : Cardinality(T) <= Cardinality(S)
  BY <1>1, Zenon DEF Counting
<1>2. IsFiniteSet(S) /\ Cardinality(S) \in Nat
  BY PidAssumption, FS_Subset, FS_CardinalityType, ZenonT(40)
<1>3. \A p \in SemReaders \ S : Cardinality(S \cup {p}) = Cardinality(S) + 1
  BY <1>2, FS_AddElement, ZenonT(40)
<1>4. \A p \in S : Cardinality(S \ {p}) = Cardinality(S) - 1
  BY <1>2, FS_RemoveElement, ZenonT(40)
<1>5. S # {} => Cardinality(S) # 0
  BY <1>2, FS_EmptySet, ZenonT(40)
<1>6. Cardinality(S) # 0 => Cardinality(S) > 0
  BY <1>2
<1>7. \A T \in SUBSET S : Cardinality(T) <= Cardinality(S)
  BY <1>2, FS_Subset, ZenonT(40)
<1>8. QED
  BY <1>2, <1>3, <1>4, <1>5, <1>6, <1>7, Zenon

LEMMA SpecIInv == Spec => []IInv
<1>1. IInv /\ [Next]_vars => IInv'
  BY ReadersCount, TypeStepNext, SemInvNext, MutexInvNext, ZenonT(40) DEF IInv
<1>2. Init => IInv
  BY ReadersCount, InitIInv, ZenonT(40)
<1>3. QED
  BY <1>1, <1>2, PTL DEF Spec

-----------------------------------------------------------------------------
\* The counters stay natural numbers, the free permits within the pool, and the
\* mutex with a reader of the mutex file or with nobody (lines 40-113).
THEOREM TypeCorrect == Spec => []TypeOK
<1>1. IInv => TypeOK
  BY Zenon DEF IInv
<1>2. QED
  BY <1>1, SpecIInv, PTL

\* A reader that sleeps with the mutex has reported its own update, and nobody
\* has changed the shared data since (lines 47-58).
THEOREM CopyCurrent == Spec => []CopyStaysCurrent
<1>1. IInv => CopyStaysCurrent
  BY ZenonT(40) DEF IInv, MutexInv
<1>2. QED
  BY <1>1, SpecIInv, PTL

\* Readers with replies in flight report different values: every increment of
\* shared_data took effect (line 47).
THEOREM UpdatesKept == Spec => []NoLostUpdate
<1>1. IInv => NoLostUpdate
  BY ZenonT(40) DEF IInv, MutexInv
<1>2. QED
  BY <1>1, SpecIInv, PTL

\* The permits in the pool and the readers holding one always add up to
\* MAX_RESOURCES (lines 88-113).
THEOREM PoolAccounting == Spec => []PermitsConserved
<1>1. IInv => PermitsConserved
  BY ZenonT(40) DEF IInv, SemInv
<1>2. QED
  BY <1>1, SpecIInv, PTL

\* active_users never exceeds MAX_RESOURCES, nor does any count that a reader
\* prints (lines 94, 107-112).
THEOREM UsersBounded == Spec => []UsersWithinPool
<1>1. IInv => UsersWithinPool
  <2>1. SUFFICES ASSUME IInv PROVE active_users <= MAX_RESOURCES
    BY ZenonT(40) DEF IInv, SemInv, UsersWithinPool
  <2>2. Cardinality(Holders) <= MAX_RESOURCES
    BY <2>1, ReadersCount, CountedHold, BoundAssumption DEF IInv, SemInv, PermitsConserved, TypeOK
  <2>3. QED
    BY <2>1, <2>2, ReadersCount, CountedHold, BoundAssumption DEF IInv, SemInv, TypeOK
<1>2. QED
  BY <1>1, SpecIInv, PTL
=============================================================================
