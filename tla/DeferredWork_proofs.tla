------------------------- MODULE DeferredWork_proofs ------------------------
(***************************************************************************)
(* The modules whose timers set off tasklets and work, for any processes   *)
(* and bounds: unload leaves behind only what is known to be left, and     *)
(* nothing runs more often than it was asked for.                          *)
(*                                                                         *)
(* Each component has its inductive invariants, with a lemma for Init and  *)
(* one for [Next]_vars.  Those that count processes at a place assume what *)
(* module Numbers says of such numbers, which is proved at the end.        *)
(***************************************************************************)
EXTENDS DeferredWork, Numbers, Integers, TLAPS

\* The time, in seconds, that the provers have for a step
USE SMTT(40), ZenonT(40)

\* Neither pending nor running.
Off(i) == ~i.pending /\ ~i.running

\* An item that is off is as if it had never been armed.
LEMMA OffQuiet ==
    ASSUME NEW i \in [pending : BOOLEAN, running : BOOLEAN], Off(i)
    PROVE  i = [pending |-> FALSE, running |-> FALSE]
<1>1. i = [pending |-> i.pending, running |-> i.running]
    BY Zenon
<1>2. i.pending = FALSE /\ i.running = FALSE
    BY Zenon DEF Off
<1> QED
    BY <1>1, <1>2, Zenon

-----------------------------------------------------------------------------
\* The number of a finite set's members at some places is a number, at most
\* that of its members ...
LEMMA NumberType ==
    ASSUME Counts, NEW S, IsFiniteSet(S), NEW L, NEW f
    PROVE  Number(f, S, L) \in Nat
BY Zenon DEF Counts

\* ... at most that of the set itself.
LEMMA NumberBound ==
    ASSUME Counts, NEW S, IsFiniteSet(S), NEW L, NEW f
    PROVE  Cardinality(S) \in Nat /\ Number(f, S, L) <= Cardinality(S)
BY Zenon DEF Counts

\* ... and changes by one when one comes or leaves, and only then.
LEMMA Comes ==
    ASSUME Counts, NEW S, IsFiniteSet(S), NEW L, NEW f, NEW g, NEW x \in S,
           Moves(x, f, g, S), g[x] \in L, f[x] \notin L
    PROVE  Number(g, S, L) = Number(f, S, L) + 1
BY DEF Counts

\* One fewer when one leaves ...
LEMMA Leaves ==
    ASSUME Counts, NEW S, IsFiniteSet(S), NEW L, NEW f, NEW g, NEW x \in S,
           Moves(x, f, g, S), f[x] \in L, g[x] \notin L
    PROVE  Number(f, S, L) = Number(g, S, L) + 1
<1>1. Moves(x, g, f, S)
    BY Zenon DEF Moves
<1> QED
    BY <1>1, Comes, ZenonT(40)

\* ... as many when nobody comes or leaves ...
LEMMA Stays ==
    ASSUME NEW S, NEW L, NEW f, NEW g, \A s \in S : g[s] \in L <=> f[s] \in L
    PROVE  Number(g, S, L) = Number(f, S, L)
<1>1. At(g, S, L) = At(f, S, L)
    BY Zenon DEF At
<1> QED
    BY <1>1, Zenon DEF Number

\* ... and as many when the one who moves stays in or out.
LEMMA Passes ==
    ASSUME NEW S, NEW L, NEW f, NEW g, NEW x, Moves(x, f, g, S),
           x \in S => (g[x] \in L <=> f[x] \in L)
    PROVE  Number(g, S, L) = Number(f, S, L)
BY Stays, ZenonT(40) DEF Moves

\* Nobody is at a place where nobody is.
LEMMA NumberZero ==
    ASSUME Counts, NEW S, NEW f, NEW L, \A s \in S : f[s] \notin L
    PROVE  Number(f, S, L) = 0
<1>1. At(f, S, L) = {}
    BY Zenon DEF At
<1> QED
    BY <1>1, Zenon DEF Number, Counts

-----------------------------------------------------------------------------
\* The timer is off once exit has waited for it; a tasklet that was killed is
\* off unless a write came late; no write is under way once the module is gone.
TdStopInv ==
    /\ phase_td \in TD!Phases
    /\ tasklet_timer \in TD!Item /\ tasklets \in [TD!Kinds -> TD!Item]
    /\ pc_td \in [Procs -> TD!Kinds \cup {TD!Idle}] /\ late_td \subseteq TD!Kinds
    /\ phase_td \in {"kill_normal", "kill_hi", "remove", "rundown", "out"} => Off(tasklet_timer)
    /\ \A k \in TD!Kinds : TD!Killed(k) \/ phase_td = "out" => Off(tasklets[k]) \/ k \in late_td
    /\ phase_td = "out" => \A p \in Procs : pc_td[p] = TD!Idle

\* Between executions the counter of a tasklet is the number of its executions;
\* within one it is one behind, and what was loaded is the counter.
TdCountInv ==
    /\ DOMAIN tasklets = TD!Kinds
    /\ count_td \in [TD!Kinds -> Nat] /\ loaded_td \in [TD!Kinds -> Nat]
    /\ runs \in [TD!Kinds -> Nat]
    /\ \A k \in TD!Kinds :
         /\ tasklets[k].running => runs[k] = count_td[k] + 1
         /\ ~tasklets[k].running => runs[k] = count_td[k]
         /\ tasklets[k].running /\ loaded_td[k] # TD!NotLoaded => loaded_td[k] = count_td[k]
         /\ loaded_td[k] # TD!NotLoaded => loaded_td[k] <= count_td[k]

\* Nothing is scheduled before the module is loaded.
LEMMA TdStopInit ==
    ASSUME TD!Init
    PROVE  TdStopInv
BY Zenon DEF TD!Init, TdStopInv, Off, TD!Item, TD!Quiet, TD!Kinds, TD!Phases, TD!Idle, TD!Killed

\* Every step of tasklet_proirity.c keeps what its exit relies on.
LEMMA TdStopNext ==
    ASSUME TdStopInv, [TD!Next]_(TD!vars)
    PROVE  TdStopInv'
<1> USE DEF TdStopInv, Off, TD!Item, TD!Quiet, TD!Armed, TD!Started, TD!Returned, TD!Cancelled,
            TD!CanStart, TD!CanCancel,
            TD!IsFlushed, TD!Kinds, TD!Phases, TD!Idle, TD!Killed
<1>1. TD!demo_tasklet_init => TdStopInv'
    BY DEF TD!demo_tasklet_init
<1>2. TD!TimerExpires => TdStopInv'
    BY DEF TD!TimerExpires
<1>3. TD!schedule_tasklet_timer => TdStopInv'
    BY DEF TD!schedule_tasklet_timer
<1>4. \A k \in TD!Kinds : TD!TaskletStarts(k) => TdStopInv'
    BY DEF TD!TaskletStarts
<1>5. \A k \in TD!Kinds : TD!LoadCount(k) => TdStopInv'
    BY ZenonT(40) DEF TD!LoadCount
<1>6. \A k \in TD!Kinds : TD!StoreCount(k) => TdStopInv'
    BY DEF TD!StoreCount
<1>7. ASSUME NEW p \in Procs, TD!tasklet_proc_write(p) PROVE TdStopInv'
    BY <1>7, ZenonT(40) DEF TD!tasklet_proc_write
<1>8. \A p \in Procs, k \in TD!Kinds : TD!WriteBegin(p, k) => TdStopInv'
    BY DEF TD!WriteBegin
<1>9. TD!ExitBegin => TdStopInv'
    BY Zenon DEF TD!ExitBegin
<1>10. TD!DelTimer => TdStopInv'
    BY DEF TD!DelTimer
<1>11. TD!Kill("normal", "kill_normal", "kill_hi") => TdStopInv'
    BY ZenonT(40) DEF TD!Kill
<1>12. TD!Kill("hi", "kill_hi", "remove") => TdStopInv'
    BY ZenonT(40) DEF TD!Kill
<1>13. TD!RemoveFile => TdStopInv'
    BY Zenon DEF TD!RemoveFile
<1>14. TD!demo_tasklet_exit => TdStopInv'
    BY Zenon DEF TD!demo_tasklet_exit
<1>15. UNCHANGED TD!vars => TdStopInv'
    BY ZenonT(40) DEF TD!vars
<1> HIDE DEF TdStopInv
<1> QED
    BY <1>1, <1>2, <1>3, <1>4, <1>5, <1>6, <1>7, <1>8, <1>9, <1>10, <1>11, <1>12, <1>13, <1>14,
       <1>15, Zenon DEF TD!Next

\* All counters start at zero.
LEMMA TdCountInit ==
    ASSUME TD!Init, TD!NotLoaded \in Nat
    PROVE  TdCountInv
BY Zenon DEF TD!Init, TdCountInv, TD!Quiet, TD!Kinds

\* A tasklet does not start while it runs, so nobody changes its counter
\* between its load and its store.
LEMMA TdCountNext ==
    ASSUME TdStopInv, TdCountInv, [TD!Next]_(TD!vars), TD!NotLoaded \in Nat
    PROVE  TdCountInv'
<1>0. DOMAIN tasklets = TD!Kinds /\ \A k \in TD!Kinds : tasklets[k] \in TD!Item
    BY ZenonT(40) DEF TdStopInv
<1> USE <1>0 DEF TdCountInv, TD!Item, TD!Armed, TD!Started, TD!Returned, TD!CanStart
<1>1. TD!demo_tasklet_init => TdCountInv'
    BY DEF TD!demo_tasklet_init, TD!Quiet
<1>2. TD!TimerExpires => TdCountInv'
    BY ZenonT(40) DEF TD!TimerExpires
<1>3. TD!schedule_tasklet_timer => TdCountInv'
    BY DEF TD!schedule_tasklet_timer
<1>4. \A k \in TD!Kinds : TD!TaskletStarts(k) => TdCountInv'
    BY DEF TD!TaskletStarts
<1>5. \A k \in TD!Kinds : TD!LoadCount(k) => TdCountInv'
    BY DEF TD!LoadCount
<1>6. \A k \in TD!Kinds : TD!StoreCount(k) => TdCountInv'
    BY DEF TD!StoreCount
<1>7. \A p \in Procs : TD!tasklet_proc_write(p) => TdCountInv'
    BY DEF TD!tasklet_proc_write
<1>8. \A p \in Procs, k \in TD!Kinds : TD!WriteBegin(p, k) => TdCountInv'
    BY ZenonT(40) DEF TD!WriteBegin
<1>9. CASE \/ TD!ExitBegin \/ TD!DelTimer \/ TD!RemoveFile \/ TD!demo_tasklet_exit
           \/ TD!Kill("normal", "kill_normal", "kill_hi") \/ TD!Kill("hi", "kill_hi", "remove")
    BY <1>9, ZenonT(40) DEF TD!ExitBegin, TD!DelTimer, TD!RemoveFile, TD!demo_tasklet_exit, TD!Kill
<1>10. UNCHANGED TD!vars => TdCountInv'
    BY ZenonT(40) DEF TD!vars
<1> HIDE DEF TdCountInv
<1> QED
    BY <1>1, <1>2, <1>3, <1>4, <1>5, <1>6, <1>7, <1>8, <1>9, <1>10, Zenon DEF TD!Next

\* How often each tasklet was to run: by the timer, and by writes.
TdAsked(k) == (IF k = "hi" THEN counter_td \div 2 ELSE counter_td) + writes

\* One if the tasklet is pending.
TdPending(k) == One(tasklets[k].pending)

\* The writes under way that are to schedule it.
TdWriting(k) == Number(pc_td, Procs, {k})

\* Each execution, each tasklet pending and each write under way was asked for.
TdAskInv ==
    /\ counter_td \in 0 .. MaxRounds /\ writes \in 0 .. MaxWrites
    /\ tasklet_timer.running => counter_td < MaxRounds
    /\ \A k \in TD!Kinds :
         runs[k] + TdPending(k) + TdWriting(k) <= TdAsked(k)

\* Every second round counts for the tasklet of high priority.
LEMMA TdHalves ==
    ASSUME NEW n \in Nat
    PROVE  /\ n \div 2 \in Nat /\ (n + 1) \div 2 \in Nat
           /\ n \div 2 <= n
           /\ (n + 1) \div 2 >= n \div 2
           /\ (n + 1) % 2 = 0 => (n + 1) \div 2 = n \div 2 + 1
OBVIOUS

\* Nothing is scheduled and nothing has run before the first load.
LEMMA TdAskInit ==
    ASSUME Counts, TD!Init, MaxRounds \in Nat, MaxWrites \in Nat
    PROVE  TdAskInv
<1>1. \A k \in TD!Kinds : TdWriting(k) = 0
    BY NumberZero, Zenon DEF TD!Init, TD!Kinds, TD!Idle, TdWriting
<1>2. TdAsked("hi") = 0 /\ TdAsked("normal") = 0
    BY DEF TD!Init, TdAsked
<1> QED
    BY <1>1, <1>2 DEF TD!Init, TdAskInv, TdPending, One, TD!Quiet, TD!Kinds

\* Every step keeps the runs within the writes and expiries that asked for them.
LEMMA TdAskNext ==
    ASSUME Counts, TdStopInv, TdCountInv, TdAskInv, [TD!Next]_(TD!vars), MaxRounds \in Nat,
        MaxWrites \in Nat,
           IsFiniteSet(Procs)
    PROVE  TdAskInv'
<1>1. \A k \in TD!Kinds : TdWriting(k) \in Nat /\ TdWriting(k)' \in Nat
    BY NumberType, Zenon DEF TdWriting
<1>2. /\ tasklet_timer \in TD!Item /\ tasklets \in [TD!Kinds -> TD!Item]
      /\ pc_td \in [Procs -> TD!Kinds \cup {TD!Idle}]
      /\ runs \in [TD!Kinds -> Nat] /\ counter_td \in Nat /\ writes \in Nat
    BY DEF TdStopInv, TdCountInv, TdAskInv
<1>3. \A k \in TD!Kinds : TdAsked(k) \in Nat
    BY <1>2, TdHalves DEF TdAsked
<1>0. \A k \in TD!Kinds : TdPending(k) \in {0, 1} /\ TdPending(k)' \in {0, 1}
    BY Zenon DEF TdPending, One
<1>4. CASE TD!demo_tasklet_init
    <2>1. \A k \in TD!Kinds : TdWriting(k)' = 0
        BY <1>4, NumberZero, ZenonT(40)
           DEF TD!demo_tasklet_init, TdStopInv, TD!Kinds, TD!Idle, TdWriting
    <2>2. TdAsked("hi")' = 0 /\ TdAsked("normal")' = 0
        BY <1>4 DEF TD!demo_tasklet_init, TdAsked
    <2> QED
        BY <1>4, <2>1, <2>2 DEF TD!demo_tasklet_init, TdAskInv, TdPending, One, TD!Quiet,
                                TD!Armed, TD!Kinds
<1>5. CASE TD!TimerExpires
    BY <1>1, <1>2, <1>5, Zenon
       DEF TD!TimerExpires, TdAskInv, TdAsked, TdPending, TdWriting, TD!CanStart,
                            TD!Started, TD!Item
<1>6. CASE TD!schedule_tasklet_timer
    <2>1. \A k \in TD!Kinds : TdAsked(k)' \in Nat /\ TdAsked(k)' >= TdAsked(k)
        BY <1>2, <1>6, TdHalves DEF TD!schedule_tasklet_timer, TdAsked
    <2>2. \A k \in TD!Kinds : k = "normal" \/ counter_td' % 2 = 0 => TdAsked(k)' = TdAsked(k) + 1
        BY <1>2, <1>6, TdHalves DEF TD!schedule_tasklet_timer, TdAsked, TD!Kinds
    <2>3. \A k \in TD!Kinds : TdAsked(k)' = TdAsked(k) + 1 \/ TdPending(k)' = TdPending(k)
        BY <1>6, <2>2, Zenon DEF TD!schedule_tasklet_timer, TdPending
    <2>4. \A k \in TD!Kinds : runs[k] + TdPending(k)' + TdWriting(k) <= TdAsked(k)'
        BY <1>0, <1>1, <1>2, <1>3, <2>1, <2>3 DEF TdAskInv
    <2>5. counter_td' \in 0 .. MaxRounds /\ ~tasklet_timer'.running
        BY <1>2, <1>6 DEF TD!schedule_tasklet_timer, TdAskInv, TD!Armed, TD!Returned, TD!Item
    <2> QED
        BY <1>6, <2>4, <2>5, ZenonT(40) DEF TD!schedule_tasklet_timer, TdAskInv, TdWriting
<1>7. ASSUME NEW k \in TD!Kinds, TD!TaskletStarts(k) PROVE TdAskInv'
    <2>1. \A j \in TD!Kinds : TdAsked(j)' = TdAsked(j)
        BY <1>7, Zenon DEF TD!TaskletStarts, TdAsked
    <2>2. /\ TdPending(k) = 1 /\ TdPending(k)' = 0
          /\ \A j \in TD!Kinds \ {k} : TdPending(j)' = TdPending(j)
        BY <1>2, <1>7, Zenon DEF TD!TaskletStarts, TdPending, One, TD!CanStart, TD!Started
    <2> QED
        BY <1>0, <1>1, <1>2, <1>3, <1>7, <2>1, <2>2 DEF TD!TaskletStarts, TdAskInv, TdWriting
<1>8. ASSUME NEW k \in TD!Kinds, TD!LoadCount(k) PROVE TdAskInv'
    BY <1>8, Zenon DEF TD!LoadCount, TdAskInv, TdAsked, TdPending, TdWriting
<1>9. ASSUME NEW k \in TD!Kinds, TD!StoreCount(k) PROVE TdAskInv'
    <2>1. \A j \in TD!Kinds : tasklets'[j].pending = tasklets[j].pending
        BY <1>2, <1>9, ZenonT(40) DEF TD!StoreCount, TD!Returned, TD!Item
    <2> QED
        BY <1>9, <2>1, Zenon DEF TD!StoreCount, TdAskInv, TdAsked, TdPending, TdWriting
<1>10. ASSUME NEW p \in Procs, TD!tasklet_proc_write(p) PROVE TdAskInv'
    <2>0. PICK k \in TD!Kinds : pc_td[p] \in {k}
        BY <1>2, <1>10, ZenonT(40) DEF TD!tasklet_proc_write
    <2>1. pc_td'[p] = TD!Idle /\ Moves(p, pc_td, pc_td', Procs)
        BY <1>2, <1>10, Zenon DEF TD!tasklet_proc_write, Moves
    <2>2. \A j \in TD!Kinds : pc_td'[p] \notin {j}
        BY <2>1, Zenon DEF TD!Kinds, TD!Idle
    <2>3. TdWriting(k) = TdWriting(k)' + 1
        <3> DEFINE L == {k}
        <3>1. pc_td[p] \in L /\ pc_td'[p] \notin L
            BY <2>0, <2>2, Zenon
        <3> HIDE DEF L
        <3>2. Number(pc_td, Procs, L) = Number(pc_td', Procs, L) + 1
            BY <2>1, <3>1, Leaves
        <3> QED
            BY <3>2, Zenon DEF TdWriting, L
    <2>4. \A j \in TD!Kinds \ {k} : TdWriting(j)' = TdWriting(j)
        <3> TAKE j \in TD!Kinds \ {k}
        <3>1. \A q \in Procs : pc_td'[q] \in {j} <=> pc_td[q] \in {j}
            BY <2>0, <2>1, <2>2, Zenon DEF Moves
        <3> QED
            BY <2>1, <3>1, Stays, Zenon DEF TdWriting
    <2>5. \A j \in TD!Kinds : TdAsked(j)' = TdAsked(j)
        BY <1>10, Zenon DEF TD!tasklet_proc_write, TdAsked
    <2>6. \A j \in TD!Kinds \ {k} : TdPending(j)' = TdPending(j)
        BY <1>2, <1>10, <2>0, ZenonT(40) DEF TD!tasklet_proc_write, TdPending
    <2>7. \A j \in TD!Kinds : runs[j] + TdPending(j)' + TdWriting(j)' <= TdAsked(j)
        BY <1>0, <1>1, <1>2, <1>3, <2>3, <2>4, <2>6 DEF TdAskInv
    <2> QED
        BY <1>10, <2>5, <2>7, ZenonT(40) DEF TD!tasklet_proc_write, TdAskInv
<1>11. ASSUME NEW p \in Procs, NEW k \in TD!Kinds, TD!WriteBegin(p, k) PROVE TdAskInv'
    <2>1. pc_td'[p] = k /\ pc_td[p] = TD!Idle /\ Moves(p, pc_td, pc_td', Procs)
        BY <1>2, <1>11, Zenon DEF TD!WriteBegin, Moves
    <2>2. \A j \in TD!Kinds : pc_td[p] \notin {j}
        BY <2>1, Zenon DEF TD!Kinds, TD!Idle
    <2>4. TdWriting(k)' = TdWriting(k) + 1
        <3> DEFINE L == {k}
        <3>1. pc_td'[p] \in L /\ pc_td[p] \notin L
            BY <2>1, <2>2, Zenon
        <3> HIDE DEF L
        <3>2. Number(pc_td', Procs, L) = Number(pc_td, Procs, L) + 1
            BY <2>1, <3>1, Comes
        <3> QED
            BY <3>2, Zenon DEF TdWriting, L
    <2>5. \A j \in TD!Kinds \ {k} : TdWriting(j)' = TdWriting(j)
        <3> TAKE j \in TD!Kinds \ {k}
        <3>1. \A q \in Procs : pc_td'[q] \in {j} <=> pc_td[q] \in {j}
            BY <2>1, <2>2, ZenonT(40) DEF Moves
        <3> QED
            BY <2>1, <3>1, Stays, Zenon DEF TdWriting
    <2>6. \A j \in TD!Kinds : TdAsked(j)' = TdAsked(j) + 1
        BY <1>2, <1>11, TdHalves DEF TD!WriteBegin, TdAsked
    <2>7. \A j \in TD!Kinds : runs[j] + TdPending(j) + TdWriting(j)' <= TdAsked(j)'
        BY <1>0, <1>1, <1>2, <1>3, <2>4, <2>5, <2>6 DEF TdAskInv
    <2> QED
        BY <1>2, <1>11, <2>7 DEF TD!WriteBegin, TdAskInv, TdPending
<1>12. ASSUME UNCHANGED <<counter_td, writes, tasklet_timer, runs, tasklets, pc_td>> PROVE TdAskInv'
    BY <1>12, Zenon DEF TdAskInv, TdAsked, TdPending, TdWriting
<1>13. CASE TD!DelTimer
    BY <1>2, <1>13, ZenonT(40) DEF TD!DelTimer, TdAskInv, TdAsked, TdPending, TdWriting, TD!CanCancel,
                       TD!Cancelled, TD!Item
<1>14. CASE \/ TD!ExitBegin \/ TD!RemoveFile \/ TD!demo_tasklet_exit \/ UNCHANGED TD!vars
            \/ TD!Kill("normal", "kill_normal", "kill_hi") \/ TD!Kill("hi", "kill_hi", "remove")
    BY <1>12, <1>14, Zenon DEF TD!ExitBegin, TD!RemoveFile, TD!demo_tasklet_exit, TD!Kill, TD!vars
<1> QED
    BY <1>4, <1>5, <1>6, <1>7, <1>8, <1>9, <1>10, <1>11, <1>13, <1>14, ZenonT(40) DEF TD!Next

\* What the invariants say of the types and the counters.
LEMMA TdAskTypes ==
    ASSUME Counts, TdStopInv, TdCountInv, TdAskInv, MaxRounds \in Nat, MaxWrites \in Nat,
        IsFiniteSet(Procs)
    PROVE  TD!TypeOK /\ TD!RunsWereScheduled /\ TD!CountsExact
<1>1. \A k \in TD!Kinds : TdWriting(k) \in Nat
    BY NumberType, Zenon DEF TdWriting
<1>2. \A k \in TD!Kinds : TdPending(k) \in Nat
    BY Zenon DEF TdPending, One
<1>3. \A k \in TD!Kinds : runs[k] <= TdAsked(k)
    <2>1. \A k \in TD!Kinds : TdAsked(k) \in Nat /\ runs[k] \in Nat
        BY TdHalves DEF TdAsked, TdAskInv, TdCountInv
    <2> QED
        BY <1>1, <1>2, <2>1 DEF TdAskInv
<1>4. TD!RunsWereScheduled
    BY <1>3, ZenonT(40) DEF TD!RunsWereScheduled, TdAsked, TD!Kinds
<1>5. \A k \in TD!Kinds : runs[k] \in 0 .. TD!MostRuns
    BY <1>3, TdHalves DEF TdAsked, TdAskInv, TdCountInv, TD!MostRuns
<1>6. \A k \in TD!Kinds : count_td[k] \in 0 .. TD!MostRuns
    BY <1>5 DEF TdCountInv, TD!MostRuns
<1>7. \A k \in TD!Kinds : loaded_td[k] \in 0 .. TD!NotLoaded
    BY <1>6 DEF TdCountInv, TD!MostRuns, TD!NotLoaded
<1> QED
    BY <1>4, <1>5, <1>6, <1>7, Zenon DEF TD!TypeOK, TdStopInv, TdCountInv, TdAskInv, TD!CountsExact

\* Only a late write can leave a tasklet behind (tasklet_proirity.c:135-138).
LEMMA TdStops ==
    ASSUME TdStopInv
    PROVE  TD!OnlyLateWriteLeaks
BY OffQuiet, Zenon DEF TD!Item, TD!Quiet, TdStopInv, TD!OnlyLateWriteLeaks

-----------------------------------------------------------------------------
\* A timer armed after del_timer_sync was armed by a late open, and no open is
\* under way once the module is gone.
IdStopInv ==
    /\ phase_id \in {"out", "live", "stop_timer", "remove", "rundown"}
    /\ my_timer \in ID!Item /\ pc_id \in [Procs -> {"idle", "open"}] /\ late_id \in BOOLEAN
    /\ phase_id \in {"remove", "rundown", "out"} => Off(my_timer) \/ late_id
    /\ phase_id = "out" => \A p \in Procs : pc_id[p] = "idle"

\* Inside proc_open, before it arms the timer.
IdOpening == {"open"}

\* The interrupts counted, running and pending, and the opens about to ask for
\* one, are no more than the opens.
IdAskInv ==
    /\ interrupt_count \in Nat /\ opens \in 0 .. MaxOpens
    /\ interrupt_count + One(my_timer.pending) + One(my_timer.running)
                       + Number(pc_id, Procs, IdOpening) <= opens

\* No timer runs before the module is loaded.
LEMMA IdStopInit ==
    ASSUME ID!Init
    PROVE  IdStopInv
BY Zenon DEF ID!Init, IdStopInv, Off, ID!Item, ID!Quiet

\* Every step of interrupt_demo.c keeps what its exit relies on.
LEMMA IdStopNext ==
    ASSUME IdStopInv, [ID!Next]_(ID!vars)
    PROVE  IdStopInv'
<1> USE DEF IdStopInv, Off, ID!Item, ID!Quiet, ID!Armed, ID!Started, ID!Returned, ID!Cancelled,
            ID!CanStart, ID!CanCancel
<1>1. CASE ID!timer_irq_init
    BY <1>1, Zenon DEF ID!timer_irq_init
<1>2. ID!ExitBegin => IdStopInv'
    BY ZenonT(40) DEF ID!ExitBegin
<1>3. ID!StopTimer => IdStopInv'
    BY DEF ID!StopTimer
<1>4. ID!RemoveFile => IdStopInv'
    BY DEF ID!RemoveFile
<1>5. ID!timer_irq_exit => IdStopInv'
    BY DEF ID!timer_irq_exit
<1>6. ID!TimerExpires => IdStopInv'
    BY DEF ID!TimerExpires
<1>7. ID!timer_callback => IdStopInv'
    BY DEF ID!timer_callback
<1>8. \A p \in Procs : ID!OpenBegin(p) => IdStopInv'
    BY DEF ID!OpenBegin
<1>9. ASSUME NEW p \in Procs, ID!proc_open(p) PROVE IdStopInv'
    BY <1>9, ZenonT(40) DEF ID!proc_open
<1>10. UNCHANGED ID!vars => IdStopInv'
    BY DEF ID!vars
<1> HIDE DEF IdStopInv
<1> QED
    BY <1>1, <1>2, <1>3, <1>4, <1>5, <1>6, <1>7, <1>8, <1>9, <1>10, ZenonT(40) DEF ID!Next

\* Nothing is asked for before the module is loaded.
LEMMA IdAskInit ==
    ASSUME Counts, ID!Init, MaxOpens \in Nat
    PROVE  IdAskInv
<1>1. Number(pc_id, Procs, IdOpening) = 0
    BY NumberZero, Zenon DEF ID!Init, IdOpening
<1> QED
    BY <1>1 DEF ID!Init, IdAskInv, One, ID!Quiet

\* Every step keeps the expiries within the opens that armed the timer.
LEMMA IdAskNext ==
    ASSUME Counts, IdStopInv, IdAskInv, [ID!Next]_(ID!vars), MaxOpens \in Nat, IsFiniteSet(Procs)
    PROVE  IdAskInv'
<1> DEFINE N == Number(pc_id, Procs, IdOpening)
<1>1. N \in Nat
    BY NumberType, Zenon
<1>2. my_timer \in ID!Item /\ pc_id \in [Procs -> {"idle", "open"}]
    BY Zenon DEF IdStopInv
<1>3. CASE ID!timer_irq_init
    <2>1. Number(pc_id', Procs, IdOpening) = 0
        BY <1>3, NumberZero, ZenonT(40) DEF ID!timer_irq_init, IdStopInv, IdOpening
    <2> QED
        BY <1>3, <2>1 DEF ID!timer_irq_init, IdAskInv, One, ID!Quiet
<1>4. ASSUME NEW p \in Procs, ID!OpenBegin(p) PROVE IdAskInv'
    <2>1. pc_id'[p] \in IdOpening /\ pc_id[p] \notin IdOpening /\ Moves(p, pc_id, pc_id', Procs)
        BY <1>2, <1>4, Zenon DEF ID!OpenBegin, IdOpening, Moves
    <2>2. Number(pc_id', Procs, IdOpening) = N + 1
        BY <2>1, Comes, ZenonT(40)
    <2> QED
        BY <1>1, <1>2, <1>4, <2>2 DEF ID!OpenBegin, IdAskInv, One
<1>5. ASSUME NEW p \in Procs, ID!proc_open(p) PROVE IdAskInv'
    <2>1. pc_id'[p] \notin IdOpening /\ pc_id[p] \in IdOpening /\ Moves(p, pc_id, pc_id', Procs)
        BY <1>2, <1>5, Zenon DEF ID!proc_open, IdOpening, Moves
    <2>2. N = Number(pc_id', Procs, IdOpening) + 1 /\ Number(pc_id', Procs, IdOpening) \in Nat
        BY <2>1, Leaves, NumberType
    <2> QED
        BY <1>1, <1>2, <1>5, <2>2 DEF ID!proc_open, IdAskInv, One, ID!Armed, ID!Item
<1>6. CASE ID!TimerExpires
    BY <1>1, <1>2, <1>6 DEF ID!TimerExpires, IdAskInv, One, ID!CanStart, ID!Started, ID!Item
<1>7. CASE ID!timer_callback
    BY <1>1, <1>2, <1>7 DEF ID!timer_callback, IdAskInv, One, ID!Returned, ID!Item
<1>8. CASE ID!StopTimer
    BY <1>1, <1>2, <1>8 DEF ID!StopTimer, IdAskInv, One, ID!Cancelled, ID!Item
<1>9. CASE ID!ExitBegin \/ ID!RemoveFile \/ ID!timer_irq_exit
    BY <1>9, Zenon DEF ID!ExitBegin, ID!RemoveFile, ID!timer_irq_exit, IdAskInv
<1>10. CASE UNCHANGED ID!vars
    BY <1>10, ZenonT(40) DEF ID!vars, IdAskInv
<1> QED
    BY <1>3, <1>4, <1>5, <1>6, <1>7, <1>8, <1>9, <1>10, ZenonT(40) DEF ID!Next

\* The counter of interrupts stays within the bound on the opens.
LEMMA IdAskTypes ==
    ASSUME Counts, IdStopInv, IdAskInv, MaxOpens \in Nat, IsFiniteSet(Procs)
    PROVE  ID!TypeOK /\ ID!InterruptsWereAskedFor
<1>1. Number(pc_id, Procs, IdOpening) \in Nat
    BY NumberType, Zenon
<1> QED
    BY <1>1 DEF ID!TypeOK, ID!InterruptsWereAskedFor, IdStopInv, IdAskInv, One

\* Only a late open can leave the timer behind (interrupt_demo.c:61-62).
LEMMA IdStops ==
    ASSUME IdStopInv
    PROVE  ID!OnlyLateOpenLeaks
BY OffQuiet, ZenonT(40) DEF ID!Item, ID!Quiet, IdStopInv, ID!OnlyLateOpenLeaks

-----------------------------------------------------------------------------
\* Timers, tasklet and work are off before init arms them and after exit or the
\* error path has waited for them, but for the tasklet of a failed load; the
\* queue is there while the module is.
IoStopInv ==
    /\ IO!TypeOK
    /\ phase_io \in {"out", "init_timer", "cancel_hr", "kill_tasklet", "flush_wq", "destroy_wq"}
         => Off(demo_timer)
    /\ phase_io \in {"out", "init_timer", "init_hr", "kill_tasklet", "flush_wq", "destroy_wq"}
         => Off(hr_timer_io)
    /\ phase_io \in {"out", "init_timer"} => Off(demo_work_io)
    /\ phase_io \in {"out", "flush_wq", "destroy_wq"} => Off(demo_tasklet) \/ failing
    /\ phase_io = "init_timer" => Off(demo_tasklet)
    /\ demo_wq <=> phase_io # "out"
    /\ demo_timer.running => timer_count < MaxFires
    /\ hr_timer_io.running => hrtimer_count < MaxFires

\* The tasklet and the work run at most once for each expiry.
IoAskInv == IO!BottomHalvesFollowTop

\* Nothing is armed before the module is loaded.
LEMMA IoStopInit ==
    ASSUME IO!Init, MaxFires \in Nat
    PROVE  IoStopInv /\ IoAskInv
<1>1. demo_wq \in BOOLEAN /\ failing \in BOOLEAN
    BY Zenon DEF IO!Init
<1> QED
    BY <1>1 DEF IO!Init, IoStopInv, IoAskInv, IO!BottomHalvesFollowTop, Off, IO!TypeOK, IO!Item,
                IO!Quiet, IO!Phases

\* Every step of ioctl_demo.c keeps what its exit and its error path rely on.
LEMMA IoStopNext ==
    ASSUME IoStopInv, IoAskInv, [IO!Next]_(IO!vars), MaxFires \in Nat
    PROVE  IoStopInv' /\ IoAskInv'
<1> USE DEF IoStopInv, IoAskInv, IO!BottomHalvesFollowTop, Off, IO!TypeOK, IO!Item, IO!Quiet,
            IO!Armed, IO!Started,
            IO!Returned, IO!Cancelled, IO!CanStart, IO!CanCancel, IO!IsFlushed, IO!Phases,
                IO!Step, IO!items, IO!counts
<1>1. CASE IO!InitQueue
    <2>1. demo_wq' \in BOOLEAN /\ failing' \in BOOLEAN
        BY <1>1, ZenonT(40) DEF IO!InitQueue
    <2> QED
        BY <1>1, <2>1 DEF IO!InitQueue
<1>2. IO!InitTimer => (IoStopInv' /\ IoAskInv')
    BY DEF IO!InitTimer
<1>3. IO!InitHr => (IoStopInv' /\ IoAskInv')
    BY DEF IO!InitHr
<1>4. IO!InitFile => (IoStopInv' /\ IoAskInv')
    BY DEF IO!InitFile
<1>5. IO!InitFails => (IoStopInv' /\ IoAskInv')
    BY DEF IO!InitFails
<1>6. IO!TimerExpires => (IoStopInv' /\ IoAskInv')
    BY DEF IO!TimerExpires
<1>7. IO!demo_timer_callback => (IoStopInv' /\ IoAskInv')
    BY DEF IO!demo_timer_callback
<1>8. IO!TaskletStarts => (IoStopInv' /\ IoAskInv')
    BY DEF IO!TaskletStarts
<1>9. IO!demo_tasklet_handler => (IoStopInv' /\ IoAskInv')
    BY DEF IO!demo_tasklet_handler
<1>10. IO!WorkStarts => (IoStopInv' /\ IoAskInv')
    BY DEF IO!WorkStarts
<1>11. IO!WorkReturns => (IoStopInv' /\ IoAskInv')
    BY DEF IO!WorkReturns
<1>12. IO!HrExpires => (IoStopInv' /\ IoAskInv')
    BY DEF IO!HrExpires
<1>13. IO!hr_timer_callback => (IoStopInv' /\ IoAskInv')
    BY DEF IO!hr_timer_callback
<1>14. IO!ExitBegin => (IoStopInv' /\ IoAskInv')
    BY DEF IO!ExitBegin
<1>15. IO!DelTimer => (IoStopInv' /\ IoAskInv')
    BY DEF IO!DelTimer
<1>16. IO!CancelHr => (IoStopInv' /\ IoAskInv')
    BY DEF IO!CancelHr
<1>17. IO!KillTasklet => (IoStopInv' /\ IoAskInv')
    BY DEF IO!KillTasklet
<1>18. IO!FlushQueue => (IoStopInv' /\ IoAskInv')
    BY DEF IO!FlushQueue
<1>19. CASE IO!timer_demo_exit
    BY <1>19, ZenonT(40) DEF IO!timer_demo_exit
<1>20. UNCHANGED IO!vars => (IoStopInv' /\ IoAskInv')
    BY DEF IO!vars
<1> HIDE DEF IoStopInv, IoAskInv
<1> QED
    BY <1>1, <1>2, <1>3, <1>4, <1>5, <1>6, <1>7, <1>8, <1>9, <1>10, <1>11, <1>12, <1>13, <1>14,
       <1>15, <1>16, <1>17, <1>18, <1>19, <1>20, ZenonT(40) DEF IO!Next, IO!Exit

\* Only a failed load can leave its tasklet behind (ioctl_demo.c:168-172).
LEMMA IoStops ==
    ASSUME IoStopInv
    PROVE  IO!OnlyFailedInitLeaks /\ IO!QueueOutlivesWork /\ IO!TypeOK
<1>1. /\ demo_timer \in IO!Item /\ hr_timer_io \in IO!Item
      /\ demo_work_io \in IO!Item /\ demo_tasklet \in IO!Item
    BY ZenonT(40) DEF IoStopInv, IO!TypeOK
<1> QED
    BY <1>1, OffQuiet, ZenonT(40)
       DEF IO!Item, IO!Quiet, IoStopInv, IO!OnlyFailedInitLeaks, IO!QueueOutlivesWork

-----------------------------------------------------------------------------
\* Neither the runs counted, nor the count a handler is about to store, exceed
\* the rounds of the timer, one of which is still to be counted while the work
\* is pending.
WqCountInv ==
    /\ work_count_wq <= counter_wq /\ (demo_work_wq => work_count_wq < counter_wq)
    /\ \A p \in WQ!Pools : handler[p] = "count" =>
          copy[p] + 1 <= counter_wq /\ (demo_work_wq => copy[p] + 1 < counter_wq)

\* Timer, work and delayed work are off before init arms them and after exit
\* has waited for them; then no handler is on the pool that had the work last,
\* nor, once the queue is gone, on the custom one.
WqStopInv ==
    /\ WQ!TypeOK
    /\ phase_wq \in {"out", "init_delayed", "init_timer", "cancel_work", "cancel_delayed",
        "flush_delayed", "destroy_wq"} => Off(work_timer)
    /\ phase_wq \in {"out", "init_delayed", "init_timer", "cancel_delayed", "flush_delayed",
        "destroy_wq"} => ~demo_work_wq
    /\ phase_wq \in {"out", "cancel_delayed", "flush_delayed", "destroy_wq"}
           => handler[pool] = "idle"
    /\ phase_wq = "out" => handler[WQ!Custom] = "idle"
    /\ phase_wq \in {"out", "init_delayed", "destroy_wq"} => Off(delayed_work)
    /\ phase_wq = "flush_delayed" => ~delayed_work.pending
    /\ custom_wq <=> phase_wq # "out"
    /\ work_timer.running => counter_wq < MaxRuns
    /\ delayed_work.running => delayed_count < MaxRuns
    /\ WqCountInv

\* Nothing is queued before the module is loaded.
LEMMA WqStopInit ==
    ASSUME WQ!Init, MaxRuns \in Nat
    PROVE  WqStopInv
<1>1. custom_wq \in BOOLEAN /\ demo_work_wq \in BOOLEAN
    BY Zenon DEF WQ!Init
<1> QED
    BY <1>1 DEF WQ!Init, WqStopInv, WqCountInv, Off, WQ!TypeOK, WQ!Item, WQ!Quiet, WQ!Phases,
                WQ!Pools, WQ!Custom

\* Every step of work_queues.c keeps what its exit relies on.
LEMMA WqStopNext ==
    ASSUME WqStopInv, [WQ!Next]_(WQ!vars), MaxRuns \in Nat
    PROVE  WqStopInv'
<1> USE DEF WqStopInv, WqCountInv, Off, WQ!TypeOK, WQ!Item, WQ!Quiet, WQ!Armed, WQ!Started,
            WQ!Returned, WQ!Cancelled, WQ!CanStart, WQ!CanCancel, WQ!Phases, WQ!running
<1>0. WQ!Custom \in WQ!Pools /\ WorkCpus \subseteq WQ!Pools
    BY Zenon DEF WQ!Pools
<1>1. WQ!InitQueue => WqStopInv'
    BY <1>0 DEF WQ!InitQueue
<1>2. WQ!InitDelayed => WqStopInv'
    BY DEF WQ!InitDelayed
<1>3. WQ!InitTimer => WqStopInv'
    BY DEF WQ!InitTimer
<1>4. WQ!TimerExpires => WqStopInv'
    BY DEF WQ!TimerExpires
<1>5. WQ!schedule_work_timer => WqStopInv'
    BY <1>0 DEF WQ!schedule_work_timer, WQ!SystemPool
<1>6. ASSUME NEW p \in WQ!Pools, WQ!WorkStarts(p) PROVE WqStopInv'
    <2>1. demo_work_wq' \in BOOLEAN /\ ~demo_work_wq'
        BY <1>6, Zenon DEF WQ!WorkStarts
    <2> QED
        BY <1>0, <1>6, <2>1 DEF WQ!WorkStarts
<1>7. ASSUME NEW p \in WQ!Pools, WQ!WorkCounts(p) PROVE WqStopInv'
    BY <1>0, <1>7 DEF WQ!WorkCounts
<1>8. ASSUME NEW p \in WQ!Pools, WQ!WorkReturns(p) PROVE WqStopInv'
    BY <1>0, <1>8 DEF WQ!WorkReturns
<1>9. WQ!DelayedStarts => WqStopInv'
    BY DEF WQ!DelayedStarts
<1>10. WQ!delayed_work_handler => WqStopInv'
    BY DEF WQ!delayed_work_handler
<1>11. WQ!ExitBegin => WqStopInv'
    BY DEF WQ!ExitBegin
<1>12. WQ!DelTimer => WqStopInv'
    BY DEF WQ!DelTimer
<1>13. ASSUME WQ!CancelWork PROVE WqStopInv'
    <2>1. demo_work_wq' \in BOOLEAN /\ ~demo_work_wq'
        BY <1>13, Zenon DEF WQ!CancelWork
    <2> QED
        BY <1>13, <2>1 DEF WQ!CancelWork
<1>14. WQ!CancelDelayed => WqStopInv'
    BY DEF WQ!CancelDelayed
<1>15. WQ!FlushDelayed => WqStopInv'
    BY DEF WQ!FlushDelayed
<1>16. CASE WQ!work_exit
    BY <1>16, ZenonT(40) DEF WQ!work_exit
<1>17. UNCHANGED WQ!vars => WqStopInv'
    BY DEF WQ!vars
<1> HIDE DEF WqStopInv
<1> QED
    BY <1>1, <1>2, <1>3, <1>4, <1>5, <1>6, <1>7, <1>8, <1>9, <1>10, <1>11, <1>12, <1>13, <1>14,
       <1>15, <1>16, <1>17, ZenonT(40) DEF WQ!Next, WQ!Work, WQ!Exit

\* Nothing is left behind but an overtaken handler, no work outlives its queue,
\* and none is counted that was not asked for (work_queues.c:22, 58-63, 122-125).
LEMMA WqStops ==
    ASSUME WqStopInv, MaxRuns \in Nat
    PROVE  WQ!OnlyOvertakenRuns /\ WQ!QueueOutlivesWork /\ WQ!WorkFollowsTimer /\ WQ!TypeOK
<1>1. WQ!TypeOK /\ work_timer \in WQ!Item /\ delayed_work \in WQ!Item
    BY ZenonT(40) DEF WqStopInv, WQ!TypeOK
<1>2. WQ!OnlyOvertakenRuns
    BY <1>1, OffQuiet, ZenonT(40)
       DEF WQ!Item, WQ!Quiet, WqStopInv, WQ!OnlyOvertakenRuns, WQ!Pools
<1>3. WQ!QueueOutlivesWork
    BY ZenonT(40) DEF WqStopInv, WQ!QueueOutlivesWork
<1>4. WQ!WorkFollowsTimer
    BY <1>1 DEF WqStopInv, WqCountInv, WQ!TypeOK, WQ!WorkFollowsTimer
<1> QED
    BY <1>1, <1>2, <1>3, <1>4, Zenon

-----------------------------------------------------------------------------
\* Each timer is off before init arms it and after exit has waited for it, and
\* a callback is within the bound on the expiries.
TiStopInv ==
    /\ TI!TypeOK
    /\ phase_ti \in {"out", "init_periodic", "stop_hr", "remove"} => Off(periodic_timer)
    /\ phase_ti \in {"out", "init_periodic", "init_hr", "remove"} => Off(hr_timer_ti)
    /\ periodic_timer.running => periodic_count < MaxFires
    /\ hr_timer_ti.running => hr_count < MaxFires

\* Both timers are off before the module is loaded.
LEMMA TiStopInit ==
    ASSUME TI!Init, MaxFires \in Nat
    PROVE  TiStopInv
<1>1. proc_file \in BOOLEAN
    BY Zenon DEF TI!Init
<1> QED
    BY <1>1 DEF TI!Init, TiStopInv, Off, TI!TypeOK, TI!Item, TI!Quiet

\* Every step of timer_implementation.c keeps what its exit relies on.
LEMMA TiStopNext ==
    ASSUME TiStopInv, [TI!Next]_(TI!vars), MaxFires \in Nat
    PROVE  TiStopInv'
<1> USE DEF TiStopInv, Off, TI!TypeOK, TI!Item, TI!Quiet, TI!Armed, TI!Started, TI!Returned,
            TI!Cancelled, TI!CanStart, TI!CanCancel
<1>1. TI!InitFile => TiStopInv'
    BY DEF TI!InitFile
<1>2. TI!InitRefused => TiStopInv'
    BY ZenonT(40) DEF TI!InitRefused, TI!vars
<1>3. TI!InitPeriodic => TiStopInv'
    BY DEF TI!InitPeriodic
<1>4. TI!InitHr => TiStopInv'
    BY DEF TI!InitHr
<1>5. TI!PeriodicExpires => TiStopInv'
    BY DEF TI!PeriodicExpires
<1>6. TI!periodic_timer_callback => TiStopInv'
    BY DEF TI!periodic_timer_callback
<1>7. TI!HrExpires => TiStopInv'
    BY DEF TI!HrExpires
<1>8. TI!hr_timer_callback => TiStopInv'
    BY DEF TI!hr_timer_callback
<1>9. TI!ExitBegin => TiStopInv'
    BY ZenonT(40) DEF TI!ExitBegin
<1>10. TI!StopPeriodic => TiStopInv'
    BY DEF TI!StopPeriodic
<1>11. TI!StopHr => TiStopInv'
    BY Zenon DEF TI!StopHr
<1>12. TI!simple_timer_exit => TiStopInv'
    BY Zenon DEF TI!simple_timer_exit
<1>13. UNCHANGED TI!vars => TiStopInv'
    BY Zenon DEF TI!vars
<1> HIDE DEF TiStopInv
<1> QED
    BY <1>1, <1>2, <1>3, <1>4, <1>5, <1>6, <1>7, <1>8, <1>9, <1>10, <1>11, <1>12, <1>13, ZenonT(40)
       DEF TI!Next

\* No timer is left behind (timer_implementation.c:100-106).
LEMMA TiStops ==
    ASSUME TiStopInv
    PROVE  TI!TimersStopped /\ TI!TypeOK
BY OffQuiet, Zenon DEF TI!Item, TI!Quiet, TiStopInv, TI!TimersStopped, TI!TypeOK

-----------------------------------------------------------------------------
INSTANCE FiniteSetTheorems

\* The number of a finite set's members at some places is at most the number
\* of its members ...
LEMMA FiniteNumber ==
    ASSUME NEW S, IsFiniteSet(S), NEW L, NEW f
    PROVE  /\ IsFiniteSet(At(f, S, L)) /\ Number(f, S, L) \in Nat
           /\ Cardinality(S) \in Nat /\ Number(f, S, L) <= Cardinality(S)
<1>1. At(f, S, L) \subseteq S
    BY ZenonT(40) DEF At
<1> QED
    BY <1>1, FS_Subset, FS_CardinalityType, ZenonT(40) DEF Number

\* ... and is one more when one of them has come.
LEMMA OneComes ==
    ASSUME NEW S, IsFiniteSet(S), NEW L, NEW f, NEW g, NEW x \in S,
           Moves(x, f, g, S), g[x] \in L, f[x] \notin L
    PROVE  Number(g, S, L) = Number(f, S, L) + 1
<1>1. At(g, S, L) = At(f, S, L) \cup {x} /\ x \notin At(f, S, L)
    BY DEF At, Moves
<1>2. IsFiniteSet(At(f, S, L))
    BY FiniteNumber, ZenonT(40)
<1>3. Cardinality(At(f, S, L) \cup {x}) = Cardinality(At(f, S, L)) + 1
    BY <1>1, <1>2, FS_AddElement, ZenonT(40)
<1> QED
    BY <1>1, <1>3, ZenonT(40) DEF Number

\* The facts that the proofs about counters assume: a process that reaches or
\* leaves a stage of a handler changes the number of those at that stage by one
\* (the handlers of interrupt_demo.c, tasklet_proirity.c, threaded_irq_demo.c,
\* netlink_example.c and shared_memory_demo.c).
LEMMA CountsHold == Counts
<1>1. \A S, x : IsFiniteSet(S) => IsFiniteSet(S \cup {x})
    BY FS_AddElement, ZenonT(40)
<1>2. Cardinality({}) = 0
    BY FS_EmptySet, ZenonT(40)
<1>3. \A S, L, f : IsFiniteSet(S) => /\ Number(f, S, L) \in Nat /\ Cardinality(S) \in Nat
                                      /\ Number(f, S, L) <= Cardinality(S)
    BY FiniteNumber, ZenonT(40)
<1>4. \A S, L, f, g, x : /\ IsFiniteSet(S) /\ x \in S /\ Moves(x, f, g, S)
                         /\ g[x] \in L /\ f[x] \notin L
                         => Number(g, S, L) = Number(f, S, L) + 1
    BY OneComes
<1> QED
    BY <1>1, <1>2, <1>3, <1>4, ZenonT(40) DEF Counts

-----------------------------------------------------------------------------
\* The invariants of a component together.
IdInv == IdStopInv /\ IdAskInv
TdInv == TdStopInv /\ TdCountInv /\ TdAskInv
IoInv == IoStopInv /\ IoAskInv

\* The assumptions on the constants, in the words of the lemmas.
LEMMA Bounds ==
    /\ MaxOpens \in Nat /\ MaxRounds \in Nat /\ MaxWrites \in Nat /\ MaxFires \in Nat
    /\ MaxRuns \in Nat /\ TD!NotLoaded \in Nat /\ IsFiniteSet(Procs)
BY WorkAssumption DEF TD!NotLoaded, TD!MostRuns

\* The invariants hold in every behaviour of their component.
LEMMA IdCorrect == ID!Spec => []IdInv
<1>1. ID!Init => IdInv
    BY Bounds, CountsHold, IdStopInit, IdAskInit, ZenonT(40) DEF IdInv
<1>2. IdInv /\ [ID!Next]_(ID!vars) => IdInv'
    BY Bounds, CountsHold, IdStopNext, IdAskNext, ZenonT(40) DEF IdInv
<1> QED
    BY <1>1, <1>2, PTL DEF ID!Spec

\* The invariants of each module hold in every state of it.
LEMMA TiCorrect == TI!Spec => []TiStopInv
<1>1. TI!Init => TiStopInv
    BY Bounds, TiStopInit, ZenonT(40)
<1>2. TiStopInv /\ [TI!Next]_(TI!vars) => TiStopInv'
    BY Bounds, TiStopNext, ZenonT(40)
<1> QED
    BY <1>1, <1>2, PTL DEF TI!Spec

\* Likewise those of tasklet_proirity.c ...
LEMMA TdCorrect == TD!Spec => []TdInv
<1>1. TD!Init => TdInv
    BY Bounds, CountsHold, TdStopInit, TdCountInit, TdAskInit, ZenonT(40) DEF TdInv
<1>2. TdInv /\ [TD!Next]_(TD!vars) => TdInv'
    BY Bounds, CountsHold, TdStopNext, TdCountNext, TdAskNext, ZenonT(40) DEF TdInv
<1> QED
    BY <1>1, <1>2, PTL DEF TD!Spec

\* ... of work_queues.c ...
LEMMA WqCorrect == WQ!Spec => []WqStopInv
<1>1. WQ!Init => WqStopInv
    BY Bounds, WqStopInit, ZenonT(40)
<1>2. WqStopInv /\ [WQ!Next]_(WQ!vars) => WqStopInv'
    BY Bounds, WqStopNext, ZenonT(40)
<1> QED
    BY <1>1, <1>2, PTL DEF WQ!Spec

\* ... and of ioctl_demo.c.
LEMMA IoCorrect == IO!Spec => []IoInv
<1>1. IO!Init => IoInv
    BY Bounds, IoStopInit, ZenonT(40) DEF IoInv
<1>2. IoInv /\ [IO!Next]_(IO!vars) => IoInv'
    BY Bounds, IoStopNext, ZenonT(40) DEF IoInv
<1> QED
    BY <1>1, <1>2, PTL DEF IO!Spec

-----------------------------------------------------------------------------
\* When a module is gone, nothing of it is pending or running, but for a timer
\* armed by a late open, a tasklet scheduled by a late write, the tasklet of a
\* failed load and a handler overtaken on the system queue, and work is never on
\* a queue that is destroyed
\* (interrupt_demo.c:61-62, timer_implementation.c:100-106,
\* tasklet_proirity.c:135-138, ioctl_demo.c:168-172, work_queues.c:58-63, 122-125).
THEOREM OnlyKnownLeaksAlways ==
    ID!Spec /\ TI!Spec /\ TD!Spec /\ WQ!Spec /\ IO!Spec => []OnlyKnownLeaks
<1>1. IdInv => ID!OnlyLateOpenLeaks
    BY IdStops, ZenonT(40) DEF IdInv
<1>2. TdInv => TD!OnlyLateWriteLeaks
    BY TdStops, ZenonT(40) DEF TdInv
<1>3. IoInv => IO!OnlyFailedInitLeaks /\ IO!QueueOutlivesWork
    BY IoStops, ZenonT(40) DEF IoInv
<1>4. IdInv /\ TiStopInv /\ TdInv /\ WqStopInv /\ IoInv => OnlyKnownLeaks
    BY <1>1, <1>2, <1>3, Bounds, TiStops, WqStops, ZenonT(40) DEF OnlyKnownLeaks
<1> QED
    BY <1>4, IdCorrect, TiCorrect, TdCorrect, WqCorrect, IoCorrect, PTL

\* No callback, tasklet or work item is counted more often than opens, writes
\* and expiries asked for it, and the counters that the tasklets increase without a
\* lock are exact (interrupt_demo.c:25, 38, tasklet_proirity.c:24-52, 90-98,
\* ioctl_demo.c:43-44, work_queues.c:22, 53-63).
THEOREM RunsWereAskedForAlways ==
    ID!Spec /\ TD!Spec /\ IO!Spec /\ WQ!Spec => []RunsWereAskedFor
<1>1. IdInv => ID!InterruptsWereAskedFor
    BY Bounds, CountsHold, IdAskTypes, ZenonT(40) DEF IdInv
<1>2. TdInv => TD!RunsWereScheduled /\ TD!CountsExact
    BY Bounds, CountsHold, TdAskTypes, ZenonT(40) DEF TdInv
<1>3. IdInv /\ TdInv /\ IoInv /\ WqStopInv => RunsWereAskedFor
    BY <1>1, <1>2, Bounds, WqStops, ZenonT(40) DEF IoInv, IoAskInv, RunsWereAskedFor
<1> QED
    BY <1>3, IdCorrect, TdCorrect, IoCorrect, WqCorrect, PTL

\* Every variable of these modules keeps its type and every counter its bound,
\* although only the expiries, the opens and the writes are bounded: the
\* callbacks, tasklets and work items that these set off are not
\* (tasklet_proirity.c:24-52, work_queues.c:24-59, ioctl_demo.c:36-83).
THEOREM WorkTyped ==
    ID!Spec /\ TI!Spec /\ TD!Spec /\ WQ!Spec /\ IO!Spec
        => [](ID!TypeOK /\ TI!TypeOK /\ TD!TypeOK /\ WQ!TypeOK /\ IO!TypeOK)
<1>1. IdInv => ID!TypeOK
    BY Bounds, CountsHold, IdAskTypes, ZenonT(40) DEF IdInv
<1>2. TdInv => TD!TypeOK
    BY Bounds, CountsHold, TdAskTypes, ZenonT(40) DEF TdInv
<1>3. IdInv /\ TiStopInv /\ TdInv /\ WqStopInv /\ IoInv
          => ID!TypeOK /\ TI!TypeOK /\ TD!TypeOK /\ WQ!TypeOK /\ IO!TypeOK
    BY <1>1, <1>2, Bounds, TiStops, WqStops, IoStops, ZenonT(40) DEF IoInv
<1> QED
    BY <1>3, IdCorrect, TiCorrect, TdCorrect, WqCorrect, IoCorrect, PTL
=============================================================================
