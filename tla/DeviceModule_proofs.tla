------------------------- MODULE DeviceModule_proofs ------------------------
(***************************************************************************)
(* The way the device modules come and go is safe for any processes and    *)
(* any list of objects, whichever acquisition of init fails and whoever    *)
(* opens, maps, unmaps and closes in between.                              *)
(***************************************************************************)
EXTENDS DeviceModule, TLAPS

\* The time, in seconds, that the provers have for a step
USE SMTT(40), ZenonT(40)

\* What is held is the beginning of the list, all of it while the module is
\* live and less while init goes on; and only a live module has users.
LifeInv ==
    /\ phase \in {"out", "init", "undo", "live", "exit"}
    /\ made \in Seq(ObjectSet)
    /\ Len(made) <= Len(Objects)
    /\ \A n \in 1 .. Len(made) : made[n] = Objects[n]
    /\ phase = "out" => Len(made) = 0
    /\ phase = "init" => Len(made) < Len(Objects)
    /\ phase = "live" => Len(made) = Len(Objects)
    /\ phase # "live" => opened = {} /\ mapped = {}
    /\ opened \subseteq Procs /\ mapped \subseteq Procs

\* Appending the next object keeps the beginning of the list (Make).
LEMMA NextObject ==
    ASSUME NEW S, NEW all \in Seq(S), NEW some \in Seq(S), Len(some) < Len(all),
           \A n \in 1 .. Len(some) : some[n] = all[n]
    PROVE  LET more == Append(some, all[Len(some) + 1])
           IN  /\ more \in Seq(S) /\ Len(more) = Len(some) + 1
               /\ \A n \in 1 .. Len(more) : more[n] = all[n]
  OBVIOUS

\* Dropping the last object keeps the beginning of the list (Undo).
LEMMA LessObject ==
    ASSUME NEW S, NEW some \in Seq(S), some # <<>>
    PROVE  /\ ButLast(some) \in Seq(S) /\ Len(ButLast(some)) = Len(some) - 1
           /\ \A n \in 1 .. Len(some) - 1 : ButLast(some)[n] = some[n]
<1>1. Len(some) \in Nat \ {0}
    OBVIOUS
<1>2. \A n \in 1 .. Len(some) - 1 : some[n] \in S
    OBVIOUS
<1>3. SubSeq(some, 1, Len(some) - 1) = [n \in 1 .. Len(some) - 1 |-> some[n]]
    BY <1>1
<1>4. [n \in 1 .. Len(some) - 1 |-> some[n]] \in Seq(S)
    BY <1>1, <1>2
<1>5. ButLast(some) = [n \in 1 .. Len(some) - 1 |-> some[n]]
    BY <1>3 DEF ButLast
<1>6. Len(ButLast(some)) = Len(some) - 1
    BY <1>1, <1>5
<1> QED
    BY <1>4, <1>5, <1>6

LEMMA LifeInvInit == ASSUME NEW S, Objects \in Seq(S), Objects # <<>> PROVE Init => LifeInv
  BY DEF Init, LifeInv

LEMMA LifeInvNext ==
    ASSUME NEW S, Objects \in Seq(S), Objects # <<>>
    PROVE  LifeInv /\ [Next]_vars => LifeInv'
<1> SUFFICES ASSUME LifeInv, [Next]_vars PROVE LifeInv'
    OBVIOUS
<1>0. Objects \in Seq(ObjectSet) /\ Len(Objects) \in Nat \ {0}
    BY DEF ObjectSet
<1> USE DEF LifeInv
<1>1. CASE InitBegin
    BY <1>0, <1>1 DEF InitBegin
<1>2. CASE Make
    BY <1>0, <1>2, NextObject DEF Make
<1>3. CASE MakeFails
    BY <1>3 DEF MakeFails
<1>4. CASE ExitBegin
    BY <1>4 DEF ExitBegin
<1>5. CASE Undo
    BY <1>0, <1>5, LessObject DEF Undo
<1>6. CASE Gone
    BY <1>6 DEF Gone
<1>7. ASSUME NEW p \in Procs, Open(p) PROVE LifeInv'
    BY <1>7 DEF Open
<1>8. ASSUME NEW p \in Procs, Mmap(p) PROVE LifeInv'
    BY <1>8 DEF Mmap
<1>9. ASSUME NEW p \in Procs, Munmap(p) PROVE LifeInv'
    BY <1>9 DEF Munmap
<1>10. ASSUME NEW p \in Procs, Close(p) PROVE LifeInv'
    BY <1>10 DEF Close
<1>11. CASE UNCHANGED vars
    BY <1>11 DEF vars
<1> QED
    BY <1>1, <1>2, <1>3, <1>4, <1>5, <1>6, <1>7, <1>8, <1>9, <1>10, <1>11 DEF Next, Lifecycle

\* An initial segment as long as the whole is the whole.
LEMMA Segment ==
    ASSUME NEW S, NEW all \in Seq(S), NEW some \in Seq(S), Len(some) <= Len(all),
           \A n \in 1 .. Len(some) : some[n] = all[n]
    PROVE  some = SubSeq(all, 1, Len(some)) /\ (Len(some) = Len(all) => some = all)
  OBVIOUS

LEMMA LifeInvImplies ==
    ASSUME NEW S, Objects \in Seq(S), LifeInv
    PROVE  NothingLeftBehind /\ BufferOutlivesUsers
<1>1. Objects \in Seq(ObjectSet)
    BY DEF ObjectSet
<1>2. made = SubSeq(Objects, 1, Len(made)) /\ (Len(made) = Len(Objects) => made = Objects)
    BY <1>1, Segment DEF LifeInv
<1> QED
    BY <1>2 DEF LifeInv, NothingLeftBehind, BufferOutlivesUsers

\* Every variable keeps its type (init, exit, open, release, mmap).
THEOREM TypeCorrect ==
    ASSUME NEW S, Objects \in Seq(S), Objects # <<>>
    PROVE  Spec => []TypeOK
<1>1. LifeInv => TypeOK
    BY DEF LifeInv, TypeOK
<1> QED
    BY <1>1, LifeInvInit, LifeInvNext, PTL DEF Spec

\* Every load is all or nothing and every unload gives all back, whichever
\* acquisition fails (the error labels of the four init functions).
THEOREM AllOrNothing ==
    ASSUME NEW S, Objects \in Seq(S), Objects # <<>>
    PROVE  Spec => []NothingLeftBehind
<1>1. LifeInv => NothingLeftBehind
    BY LifeInvImplies
<1> QED
    BY <1>1, LifeInvInit, LifeInvNext, PTL DEF Spec

\* Whoever has the device open or mapped finds all of it (.owner of the file
\* operations, and the file a mapping keeps open).
THEOREM UsersFindAll ==
    ASSUME NEW S, Objects \in Seq(S), Objects # <<>>
    PROVE  Spec => []BufferOutlivesUsers
<1>1. LifeInv => BufferOutlivesUsers
    BY LifeInvImplies
<1> QED
    BY <1>1, LifeInvInit, LifeInvNext, PTL DEF Spec
=============================================================================
