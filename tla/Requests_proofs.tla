--------------------------- MODULE Requests_proofs --------------------------
(***************************************************************************)
(* Handlers that any number of processes call at once.  vma_allocation.c   *)
(* (Vm...): read and write under a mutex, a mapping without one.  The read *)
(* of deadlock_demo.c takes two locks in an order that needs no waiting.   *)
(* netlink_recv_msg (Nl...) takes none and yet answers a client its own,   *)
(* unless another asks for it.  The life of the mapped device, the         *)
(* instance of what every device module keeps, comes last.                 *)
(***************************************************************************)
EXTENDS DeadlockDemo, Services, Numbers, TLAPS

\* The time, in seconds, that the provers have for a step
USE SMTT(40), ZenonT(40)

-----------------------------------------------------------------------------
\* What the proofs assume of the constants
VmSizes == NPages \in Nat /\ Pgoffs \subseteq Nat /\ MaxCalls \in Nat /\ VM!Nobody \notin Callers

\* With the mutex held, and before anything is copied
VmLocked == {"check", "copy", "unlock"}
VmFresher == {"idle", "lock", "check"}

\* The mutex is held by whoever is inside read or write, and only processes
\* that have the device open are.
VmMutexInv ==
    /\ pc_vm \in [Callers -> VM!Labels]
    /\ mutex_vm \in VM!Owners
    /\ \A p \in Callers : pc_vm[p] \in VmLocked <=> mutex_vm = p
    /\ \A p \in Callers : pc_vm[p] # "idle" => p \in opened_vm
    /\ opened_vm # {} => phase_vm = "live"

\* A copy stays within the buffer.
VmCallInv ==
    /\ f_pos \in [Callers -> 0 .. NPages]
    /\ op \in [Callers -> {"read", "write"}] /\ user \in [Callers -> {"heap", "mapping"}]
    /\ count \in [Callers -> 0 .. NPages] /\ copied \in [Callers -> 0 .. NPages]
    /\ ret \in [Callers -> VM!Rets] /\ calls \in 0 .. MaxCalls
    /\ \A p \in Callers : pc_vm[p] \in VmFresher => copied[p] = 0
    /\ \A p \in Callers : pc_vm[p] = "idle" => user[p] = "heap"
    /\ \A p \in Callers : pc_vm[p] = "copy" =>
          f_pos[p] + count[p] <= NPages /\ copied[p] <= count[p]

\* Only the pages of mappings are there, each at its offset.
VmMapInv ==
    /\ vm_pgoff \in [Callers -> Pgoffs \cup {0}]
    /\ DOMAIN pte = Callers
    /\ \A p \in Callers : user[p] = "mapping" => p \in mapped_vm
    /\ \A p \in Callers : DOMAIN pte[p] \subseteq VM!Slots
    /\ VM!MappingShowsFile

\* A read that nobody stored into has the buffer as it was, and delivers it
\* from its position on.
VmDelivers(p) ==
    /\ got[p] \in Seq(VM!Owners)
    /\ pc_vm[p] \in VmFresher \/ op[p] = "write" \/ user[p] = "mapping" => got[p] = <<>>
    /\ pc_vm[p] = "copy" /\ op[p] = "read" /\ user[p] = "heap" => Len(got[p]) = copied[p]
    /\ pc_vm[p] \in {"check", "copy"} /\ p \notin poked /\ op[p] = "read" /\ user[p] = "heap"
          => before[p] = buffer_vm
    /\ pc_vm[p] = "copy" /\ p \notin poked =>
          \A i \in 1 .. Len(got[p]) : got[p][i] = before[p][f_pos[p] + i - 1]

\* So it is with the calls of all processes.
VmMomentInv ==
    /\ buffer_vm \in [VM!Pages -> VM!Owners] /\ before \in [Callers -> [VM!Pages -> VM!Owners]]
    /\ DOMAIN got = Callers /\ poked \subseteq Callers
    /\ \A p \in Callers : VmDelivers(p)

\* A step of another process that leaves the call of q alone
VmApart(q) ==
    /\ pc_vm'[q] = pc_vm[q] /\ op'[q] = op[q] /\ user'[q] = user[q] /\ copied'[q] = copied[q]
    /\ got'[q] = got[q] /\ before'[q] = before[q] /\ f_pos'[q] = f_pos[q]
    /\ q \in poked' <=> q \in poked

-----------------------------------------------------------------------------
\* No process has the device open before the module is loaded.
LEMMA VmMutexInit ==
    ASSUME VmSizes, VM!Init
    PROVE  VmMutexInv /\ VmCallInv /\ VmMapInv /\ VmMomentInv
<1>1. \A p \in Callers : pte[p] = <<>> /\ got[p] = <<>>
    BY Zenon DEF VM!Init
<1>2. VM!Fresh \in [VM!Pages -> VM!Owners]
    BY Zenon DEF VM!Fresh, VM!Owners
<1>3. VmMutexInv /\ VmCallInv
    BY DEF VmSizes, VM!Init, VM!DM!Init, VmMutexInv, VmCallInv, VM!Labels, VM!Owners, VM!Rets,
           VmLocked, VmFresher
<1>4. VmMapInv
    BY <1>1 DEF VM!Init, VmMapInv, VM!MappingShowsFile
<1>5. VmMomentInv
    BY <1>1, <1>2 DEF VM!Init, VmMomentInv, VmDelivers, VmFresher
<1> QED
    BY <1>3, <1>4, <1>5, ZenonT(40)

\* Locking and unlocking, opening and closing, loading and unloading
LEMMA VmMutexNext ==
    ASSUME VmSizes, VmMutexInv, [VM!Next]_(VM!vars)
    PROVE  VmMutexInv'
<1> USE DEF VmSizes, VmMutexInv, VmLocked, VM!Labels, VM!Owners, VM!Goto, VM!device, VM!call
<1>1. CASE VM!simple_vma_init
    BY <1>1, Zenon DEF VM!simple_vma_init, VM!DM!InitBegin
<1>2. CASE VM!DM!Lifecycle /\ UNCHANGED <<buffer_vm, mutex_vm, f_pos, vm_pgoff, pte, VM!call>>
    <2>1. opened_vm' = opened_vm /\ (opened_vm' # {} => phase_vm' = "live")
        BY <1>2, Zenon DEF VM!DM!Lifecycle, VM!DM!Make, VM!DM!MakeFails, VM!DM!ExitBegin, VM!DM!Undo,
                    VM!DM!Gone
    <2> QED
        BY <1>2, <2>1, Zenon
<1>3. ASSUME NEW p \in Callers, VM!example_char_open(p) \/ VM!example_char_release(p)
      PROVE  VmMutexInv'
    BY <1>3, Zenon DEF VM!example_char_open, VM!example_char_release, VM!DM!Open, VM!DM!Close
<1>4. ASSUME NEW p \in Callers, VM!example_char_mmap(p) \/ VM!Unmap(p) PROVE VmMutexInv'
    BY <1>4, Zenon DEF VM!example_char_mmap, VM!Unmap, VM!DM!Mmap, VM!DM!Munmap
<1>5. ASSUME NEW p \in Callers, VM!Touch(p) \/ VM!Store(p) \/ VM!Copy(p) PROVE VmMutexInv'
    BY <1>5, Zenon DEF VM!Touch, VM!Store, VM!Copy
<1>6. ASSUME NEW p \in Callers, VM!Call(p) \/ VM!Interrupted(p) \/ VM!CopyStops(p) \/ VM!Advance(p)
      PROVE  VmMutexInv'
    BY <1>6, ZenonT(40) DEF VM!Call, VM!Interrupted, VM!CopyStops, VM!Advance
<1>7. ASSUME NEW p \in Callers, VM!Lock(p) \/ VM!Unlock(p) \/ VM!Return(p) PROVE VmMutexInv'
    BY <1>7, ZenonT(40) DEF VM!Lock, VM!Unlock, VM!Return
<1>8. ASSUME NEW p \in Callers, VM!Check(p) PROVE VmMutexInv'
    BY <1>8, Zenon DEF VM!Check
<1>9. ASSUME NEW p \in Callers, VM!CopyFaults(p) PROVE VmMutexInv'
    BY <1>9, ZenonT(40) DEF VM!CopyFaults
<1>10. CASE UNCHANGED VM!vars
    BY <1>10, Zenon DEF VM!vars
<1> HIDE DEF VmMutexInv
<1> QED
    BY <1>1, <1>2, <1>3, <1>4, <1>5, <1>6, <1>7, <1>8, <1>9, <1>10, ZenonT(40)
       DEF VM!Next, VM!Module, VM!Files, VM!Body

\* The position and the count of a call are cut to the size of the buffer.
LEMMA VmCallNext ==
    ASSUME VmSizes, VmMutexInv, VmCallInv, [VM!Next]_(VM!vars)
    PROVE  VmCallInv'
<1> USE DEF VmSizes, VmMutexInv, VmCallInv, VmFresher, VM!Rets, VM!Labels, VM!Goto, VM!call
<1>1. CASE VM!simple_vma_init
    BY <1>1, Zenon DEF VM!simple_vma_init
<1>2. CASE UNCHANGED <<f_pos, VM!call>>
    BY <1>2, Zenon
<1>3. ASSUME NEW p \in Callers, VM!example_char_release(p) PROVE VmCallInv'
    BY <1>3, ZenonT(40) DEF VM!example_char_release
<1>4. ASSUME NEW p \in Callers, VM!example_char_open(p) \/ VM!example_char_mmap(p) \/ VM!Unmap(p)
      PROVE  VmCallInv'
    BY <1>4, ZenonT(40) DEF VM!example_char_open, VM!example_char_mmap, VM!Unmap
<1>5. ASSUME NEW p \in Callers, VM!Touch(p) \/ VM!Store(p) PROVE VmCallInv'
    BY <1>5, ZenonT(40) DEF VM!Touch, VM!Store
<1>6. ASSUME NEW p \in Callers, VM!Call(p) PROVE VmCallInv'
    BY <1>6 DEF VM!Call
<1>7. ASSUME NEW p \in Callers, VM!Interrupted(p) \/ VM!CopyStops(p) PROVE VmCallInv'
    BY <1>7 DEF VM!Interrupted, VM!CopyStops
<1>8. ASSUME NEW p \in Callers, VM!Lock(p) \/ VM!Unlock(p) PROVE VmCallInv'
    BY <1>8 DEF VM!Lock, VM!Unlock
<1>9. ASSUME NEW p \in Callers, VM!Check(p) PROVE VmCallInv'
    BY <1>9 DEF VM!Check, VM!Cut
<1>10. ASSUME NEW p \in Callers, VM!Copy(p) PROVE VmCallInv'
    BY <1>10 DEF VM!Copy
<1>11. ASSUME NEW p \in Callers, VM!CopyFaults(p) PROVE VmCallInv'
    BY <1>11 DEF VM!CopyFaults
<1>12. ASSUME NEW p \in Callers, VM!Advance(p) PROVE VmCallInv'
    BY <1>12 DEF VM!Advance
<1>13. ASSUME NEW p \in Callers, VM!Return(p) PROVE VmCallInv'
    BY <1>13 DEF VM!Return
<1> HIDE DEF VmCallInv
<1> QED
    BY <1>1, <1>2, <1>3, <1>4, <1>5, <1>6, <1>7, <1>8, <1>9, <1>10, <1>11, <1>12, <1>13, ZenonT(40)
       DEF VM!Next, VM!Module, VM!Files, VM!Body, VM!vars

\* A page fault inside the buffer maps the page at its offset.
LEMMA VmPageMapped ==
    ASSUME VmSizes, VmMapInv, NEW p \in Callers, p \in mapped_vm, NEW s \in VM!Slots,
           ~VM!FaultsBeyond(p, s), VM!MapPage(p, s), mapped_vm' = mapped_vm, vm_pgoff' = vm_pgoff
    PROVE  /\ DOMAIN pte' = Callers
           /\ \A q \in Callers : DOMAIN pte'[q] \subseteq VM!Slots
           /\ VM!MappingShowsFile'
<1>1. /\ DOMAIN pte' = Callers /\ \A q \in Callers \ {p} : pte'[q] = pte[q]
      /\ pte'[p] = [t \in DOMAIN pte[p] \cup {s} |-> IF t = s THEN s + vm_pgoff[p] ELSE pte[p][t]]
    BY Zenon DEF VM!MapPage, VmMapInv
<1>2. s + vm_pgoff[p] \in VM!Pages
    <2>1. vm_pgoff[p] \in Pgoffs \cup {0} /\ Pgoffs \subseteq Nat /\ NPages \in Nat
        BY Zenon DEF VmMapInv, VmSizes
    <2>2. 0 \in Nat
        BY Zenon
    <2>3. vm_pgoff[p] \in Nat
        BY <2>1, <2>2, Zenon
    <2>4. s \in Nat
        BY <2>1 DEF VM!Pages, VM!Slots
    <2> QED
        BY <2>1, <2>3, <2>4 DEF VM!FaultsBeyond, VM!Pages
<1>3. /\ DOMAIN pte'[p] = DOMAIN pte[p] \cup {s} /\ pte'[p][s] = s + vm_pgoff[p]
      /\ \A t \in DOMAIN pte[p] \ {s} : pte'[p][t] = pte[p][t]
    BY <1>1, Zenon
<1> QED
    BY <1>1, <1>2, <1>3 DEF VmMapInv, VM!MappingShowsFile

\* Mapping, unmapping and faults, the fault of a copy included
LEMMA VmMapNext ==
    ASSUME VmSizes, VmMutexInv, VmCallInv, VmMapInv, [VM!Next]_(VM!vars)
    PROVE  VmMapInv'
<1> USE DEF VM!Goto, VM!call, VM!device
<1>1. CASE VM!simple_vma_init
    BY <1>1, ZenonT(40) DEF VM!simple_vma_init, VM!DM!InitBegin, VmMapInv, VM!MappingShowsFile
<1>2. CASE VM!DM!Lifecycle /\ UNCHANGED <<buffer_vm, mutex_vm, f_pos, vm_pgoff, pte, VM!call>>
    <2>1. mapped_vm' = mapped_vm
        BY <1>2, Zenon DEF VM!DM!Lifecycle, VM!DM!Make, VM!DM!MakeFails, VM!DM!ExitBegin, VM!DM!Undo,
                    VM!DM!Gone
    <2> QED
        BY <1>2, <2>1, ZenonT(40) DEF VmMapInv, VM!MappingShowsFile
<1>3. ASSUME NEW p \in Callers, VM!example_char_open(p) \/ VM!example_char_release(p)
      PROVE  VmMapInv'
    BY <1>3, Zenon
       DEF VM!example_char_open, VM!example_char_release, VM!DM!Open, VM!DM!Close, VmMapInv,
                VM!MappingShowsFile
<1>4. ASSUME NEW p \in Callers, VM!example_char_mmap(p) PROVE VmMapInv'
    <2>1. DOMAIN pte[p] = {}
        BY <1>4, Zenon DEF VM!example_char_mmap, VM!DM!Mmap, VmMapInv, VM!MappingShowsFile
    <2> QED
        BY <1>4, <2>1, ZenonT(40) DEF VM!example_char_mmap, VM!DM!Mmap, VmMapInv, VM!MappingShowsFile
<1>5. ASSUME NEW p \in Callers, VM!Unmap(p) PROVE VmMapInv'
    <2>1. /\ pte'[p] = <<>> /\ DOMAIN pte'[p] = {} /\ user'[p] = "heap"
          /\ DOMAIN pte' = Callers /\ \A q \in Callers \ {p} : pte'[q] = pte[q]
        BY <1>5 DEF VM!Unmap, VmMapInv, VmCallInv
    <2> QED
        BY <1>5, <2>1, ZenonT(40) DEF VM!Unmap, VM!DM!Munmap, VmMapInv, VM!MappingShowsFile
<1>6. ASSUME NEW p \in Callers, VM!Touch(p) PROVE VmMapInv'
    <2>1. PICK s \in VM!Slots : ~VM!FaultsBeyond(p, s) /\ VM!MapPage(p, s)
        BY <1>6, Zenon DEF VM!Touch
    <2> QED
        BY <1>6, <2>1, VmPageMapped, Zenon DEF VM!Touch, VmMapInv
<1>7. ASSUME NEW p \in Callers, VM!CopyFaults(p) PROVE VmMapInv'
    <2>1. CASE VM!FaultsBeyond(p, copied[p])
        BY <1>7, <2>1, ZenonT(40) DEF VM!CopyFaults, VmMapInv, VM!MappingShowsFile
    <2>2. CASE ~VM!FaultsBeyond(p, copied[p])
        <3>1. p \in mapped_vm /\ VM!MapPage(p, copied[p]) /\ copied[p] < count[p]
            BY <1>7, <2>2, Zenon DEF VM!CopyFaults, VM!NeedsFault, VmMapInv
        <3>2. copied[p] \in 0 .. NPages /\ count[p] \in 0 .. NPages
            BY Zenon DEF VmCallInv
        <3>3. copied[p] \in VM!Slots
            BY <3>1, <3>2 DEF VM!Slots, VM!Pages, VmSizes
        <3> QED
            BY <1>7, <2>2, <3>1, <3>3, VmPageMapped, Zenon DEF VM!CopyFaults, VmMapInv
    <2> QED
        BY <2>1, <2>2, Zenon
<1>8. ASSUME NEW p \in Callers, VM!Call(p) PROVE VmMapInv'
    BY <1>8, ZenonT(40) DEF VM!Call, VmMapInv, VM!MappingShowsFile, VmCallInv
<1>9. ASSUME NEW p \in Callers, VM!Return(p) PROVE VmMapInv'
    BY <1>9, ZenonT(40) DEF VM!Return, VmMapInv, VM!MappingShowsFile, VmCallInv
<1>10. CASE UNCHANGED <<mapped_vm, vm_pgoff, pte, user>>
    BY <1>10, ZenonT(40) DEF VmMapInv, VM!MappingShowsFile
<1>11. ASSUME NEW p \in Callers,
              \/ VM!Store(p) \/ VM!Interrupted(p) \/ VM!CopyStops(p)
              \/ VM!Lock(p) \/ VM!Check(p) \/ VM!Copy(p) \/ VM!Advance(p) \/ VM!Unlock(p)
       PROVE  VmMapInv'
    BY <1>10, <1>11, Zenon DEF VM!Store, VM!Interrupted, VM!CopyStops, VM!Lock, VM!Check, VM!Copy,
                        VM!Advance, VM!Unlock
<1> QED
    BY <1>1, <1>2, <1>3, <1>4, <1>5, <1>6, <1>7, <1>8, <1>9, <1>10, <1>11, ZenonT(40)
       DEF VM!Next, VM!Module, VM!Files, VM!Body, VM!vars

-----------------------------------------------------------------------------
\* Such a step leaves what q delivers alone, if it leaves the buffer alone or q
\* is not at it.
LEMMA VmApartDelivers ==
    ASSUME NEW q \in Callers, VmDelivers(q), VmApart(q),
           buffer_vm' = buffer_vm \/ pc_vm[q] \notin {"check", "copy"}
    PROVE  VmDelivers(q)'
BY Zenon DEF VmDelivers, VmApart

\* A call that has delivered nothing has nothing to answer for.
LEMMA VmNothingDelivered ==
    ASSUME NEW p \in Callers, got'[p] = <<>>, pc_vm'[p] \notin {"check", "copy"}
    PROVE  VmDelivers(p)'
<1>1. <<>> \in Seq(VM!Owners)
    OBVIOUS
<1> QED
    BY <1>1, ZenonT(40) DEF VmDelivers

\* A store to one page of a buffer leaves a buffer.
LEMMA VmPageStored ==
    ASSUME NEW S, NEW T, NEW f \in [S -> T], NEW i, NEW v \in T
    PROVE  [f EXCEPT ![i] = v] \in [S -> T]
BY Zenon

\* Only the holder of the mutex and stores through mappings change the buffer,
\* and a read that copies to the heap does not.
LEMMA VmMomentNext ==
    ASSUME VmSizes, VmMutexInv, VmCallInv, VmMapInv, VmMomentInv, [VM!Next]_(VM!vars)
    PROVE  VmMomentInv'
<1> USE DEF VM!Goto, VM!call, VM!device
<1>0. \A p \in Callers : VmDelivers(p)
    BY Zenon DEF VmMomentInv
<1>1. CASE VM!simple_vma_init
    <2>1. \A p \in Callers : pc_vm[p] = "idle"
        BY <1>1, Zenon DEF VM!simple_vma_init, VM!DM!InitBegin, VmMutexInv
    <2>2. VM!Fresh \in [VM!Pages -> VM!Owners]
        BY Zenon DEF VM!Fresh, VM!Owners
    <2>3. \A p \in Callers : VmApart(p) /\ pc_vm[p] \notin {"check", "copy"}
        BY <1>1, <2>1, ZenonT(40) DEF VM!simple_vma_init, VmApart
    <2> QED
        BY <1>0, <1>1, <2>2, <2>3, VmApartDelivers, ZenonT(40) DEF VM!simple_vma_init, VmMomentInv
<1>2. CASE UNCHANGED <<buffer_vm, f_pos, VM!call>>
    <2>1. \A p \in Callers : VmApart(p)
        BY <1>2, Zenon DEF VmApart
    <2> QED
        BY <1>0, <1>2, <2>1, VmApartDelivers, ZenonT(40) DEF VmMomentInv
<1>3. ASSUME NEW p \in Callers, VM!example_char_release(p) PROVE VmMomentInv'
    <2>1. /\ UNCHANGED <<buffer_vm, VM!call>> /\ \A q \in Callers \ {p} : f_pos'[q] = f_pos[q]
          /\ pc_vm[p] = "idle"
        BY <1>3, Zenon DEF VM!example_char_release, VmCallInv
    <2>2. \A q \in Callers \ {p} : VmApart(q)
        BY <2>1, ZenonT(40) DEF VmApart
    <2>3. VmDelivers(p)'
        BY <1>0, <2>1, Zenon DEF VmDelivers
    <2> QED
        BY <1>0, <2>1, <2>2, <2>3, VmApartDelivers, ZenonT(40) DEF VmMomentInv
<1>4. ASSUME NEW p \in Callers, VM!Store(p) PROVE VmMomentInv'
    <2>1. buffer_vm' \in [VM!Pages -> VM!Owners]
        BY <1>4, Zenon DEF VM!Store, VmMomentInv, VM!Owners
    <2>2. /\ poked' = {q \in Callers : pc_vm[q] # "idle"}
          /\ UNCHANGED <<pc_vm, op, user, copied, got, before, f_pos>>
        BY <1>4, Zenon DEF VM!Store
    <2>3. \A q \in Callers : VmDelivers(q)'
        BY <1>0, <2>2, ZenonT(40) DEF VmDelivers
    <2> QED
        BY <2>1, <2>2, <2>3, Zenon DEF VmMomentInv
<1>5. ASSUME NEW p \in Callers, VM!Call(p) PROVE VmMomentInv'
    <2>1. /\ pc_vm[p] = "idle" /\ pc_vm' = [pc_vm EXCEPT ![p] = "lock"]
          /\ UNCHANGED <<buffer_vm, f_pos, copied, got, before, poked>>
          /\ \A q \in Callers \ {p} : op'[q] = op[q] /\ user'[q] = user[q]
        BY <1>5, Zenon DEF VM!Call, VmCallInv
    <2>2. \A q \in Callers \ {p} : VmApart(q)
        BY <2>1, ZenonT(40) DEF VmApart, VmMutexInv
    <2>3. pc_vm'[p] = "lock" /\ got'[p] = <<>>
        BY <1>0, <2>1, ZenonT(40) DEF VmDelivers, VmFresher, VmMutexInv
    <2>4. VmDelivers(p)'
        BY <2>3, VmNothingDelivered, ZenonT(40)
    <2> QED
        BY <1>0, <2>1, <2>2, <2>4, VmApartDelivers, ZenonT(40) DEF VmMomentInv
<1>6. ASSUME NEW p \in Callers, VM!Lock(p) PROVE VmMomentInv'
    <2>1. /\ pc_vm[p] = "lock" /\ pc_vm' = [pc_vm EXCEPT ![p] = "check"]
          /\ UNCHANGED <<buffer_vm, f_pos, copied, got, op, user>>
          /\ before' = [before EXCEPT ![p] = buffer_vm] /\ poked' = poked \ {p}
        BY <1>6, Zenon DEF VM!Lock
    <2>2. \A q \in Callers \ {p} : VmApart(q)
        BY <2>1, Zenon DEF VmApart, VmMutexInv, VmMomentInv
    <2>3. pc_vm'[p] = "check" /\ got'[p] = <<>> /\ before'[p] = buffer_vm'
        BY <1>0, <2>1, ZenonT(40) DEF VmDelivers, VmFresher, VmMutexInv, VmMomentInv
    <2>4. VmDelivers(p)'
        BY <2>3 DEF VmDelivers
    <2> QED
        BY <1>0, <2>1, <2>2, <2>4, VmApartDelivers, ZenonT(40) DEF VmMomentInv
<1>7. ASSUME NEW p \in Callers, NEW to \in {"unlock", "return"},
             pc_vm' = [pc_vm EXCEPT ![p] = to], UNCHANGED <<buffer_vm, copied, got, op, user,
                 before, poked>>,
             \A q \in Callers \ {p} : f_pos'[q] = f_pos[q]
      PROVE  VmMomentInv'
    <2>1. \A q \in Callers \ {p} : VmApart(q)
        BY <1>7, Zenon DEF VmApart, VmMutexInv
    <2>2. pc_vm'[p] \in {"unlock", "return"}
        BY <1>7, Zenon DEF VmMutexInv
    <2>3. VmDelivers(p)'
        BY <1>0, <1>7, <2>2, Zenon DEF VmDelivers, VmFresher
    <2> QED
        BY <1>0, <1>7, <2>1, <2>3, VmApartDelivers, ZenonT(40) DEF VmMomentInv
<1>8. ASSUME NEW p \in Callers, VM!Interrupted(p) PROVE VmMomentInv'
    BY <1>7, <1>8, Zenon DEF VM!Interrupted
<1>9. ASSUME NEW p \in Callers, VM!CopyStops(p) PROVE VmMomentInv'
    BY <1>7, <1>9, Zenon DEF VM!CopyStops
<1>10. ASSUME NEW p \in Callers, VM!Unlock(p) PROVE VmMomentInv'
    BY <1>7, <1>10, Zenon DEF VM!Unlock
<1>11. ASSUME NEW p \in Callers, VM!Advance(p) PROVE VmMomentInv'
    BY <1>7, <1>11, Zenon DEF VM!Advance, VmCallInv
<1>12. ASSUME NEW p \in Callers, VM!Check(p) PROVE VmMomentInv'
    <2>1. CASE f_pos[p] >= NPages
        BY <1>7, <1>12, <2>1, Zenon DEF VM!Check
    <2>2. CASE ~(f_pos[p] >= NPages)
        <3>1. /\ pc_vm[p] = "check" /\ pc_vm' = [pc_vm EXCEPT ![p] = "copy"]
              /\ UNCHANGED <<buffer_vm, f_pos, copied, got, op, user, before, poked>>
            BY <1>12, <2>2, ZenonT(40) DEF VM!Check
        <3>2. \A q \in Callers \ {p} : VmApart(q)
            BY <3>1, Zenon DEF VmApart, VmMutexInv
        <3>3. pc_vm'[p] = "copy" /\ got'[p] = <<>> /\ copied'[p] = 0
            BY <1>0, <3>1, ZenonT(40) DEF VmDelivers, VmFresher, VmMutexInv, VmCallInv
        <3>4. VmDelivers(p)'
            <4>1. <<>> \in Seq(VM!Owners) /\ Len(<<>>) = 0 /\ 1 .. 0 = {}
                OBVIOUS
            <4>2. p \notin poked /\ op[p] = "read" /\ user[p] = "heap" => before[p] = buffer_vm
                BY <1>0, <3>1, Zenon DEF VmDelivers
            <4> QED
                BY <3>1, <3>3, <4>1, <4>2, Zenon DEF VmDelivers
        <3> QED
            BY <1>0, <3>1, <3>2, <3>4, VmApartDelivers, ZenonT(40) DEF VmMomentInv
    <2> QED
        BY <2>1, <2>2, Zenon
<1>13. ASSUME NEW p \in Callers, VM!CopyFaults(p) PROVE VmMomentInv'
    <2>1. CASE VM!FaultsBeyond(p, copied[p])
        BY <1>7, <1>13, <2>1, ZenonT(40) DEF VM!CopyFaults
    <2>2. CASE ~VM!FaultsBeyond(p, copied[p])
        BY <1>2, <1>13, <2>2, Zenon DEF VM!CopyFaults
    <2> QED
        BY <2>1, <2>2, ZenonT(40)
<1>14. ASSUME NEW p \in Callers, VM!Return(p) PROVE VmMomentInv'
    <2>1. /\ pc_vm' = [pc_vm EXCEPT ![p] = "idle"] /\ op' = [op EXCEPT ![p] = "read"]
          /\ user' = [user EXCEPT ![p] = "heap"] /\ copied' = [copied EXCEPT ![p] = 0]
          /\ got' = [got EXCEPT ![p] = <<>>] /\ before' = [before EXCEPT ![p] = VM!Fresh]
          /\ poked' = poked \ {p} /\ UNCHANGED <<buffer_vm, f_pos>>
        BY <1>14, Zenon DEF VM!Return
    <2>2. \A q \in Callers \ {p} : VmApart(q)
        BY <2>1, Zenon DEF VmApart, VmMutexInv, VmCallInv, VmMomentInv
    <2>3. pc_vm'[p] = "idle" /\ got'[p] = <<>>
        BY <2>1, Zenon DEF VmMutexInv, VmMomentInv
    <2>4. VmDelivers(p)'
        BY <2>3, VmNothingDelivered, Zenon
    <2>5. VM!Fresh \in [VM!Pages -> VM!Owners]
        BY Zenon DEF VM!Fresh, VM!Owners
    <2> QED
        BY <1>0, <2>1, <2>2, <2>4, <2>5, VmApartDelivers, ZenonT(40) DEF VmMomentInv
<1>15. ASSUME NEW p \in Callers, VM!Copy(p) PROVE VmMomentInv'
    <2>1. \A q \in Callers \ {p} : pc_vm[q] \notin {"check", "copy"}
        BY <1>15 DEF VM!Copy, VmMutexInv, VmLocked
    <2>2. /\ f_pos[p] + copied[p] \in VM!Pages
          /\ copied[p] \in Nat /\ f_pos[p] \in Nat /\ pc_vm[p] = "copy"
        BY <1>15 DEF VM!Copy, VmCallInv, VM!Pages, VmSizes
    <2>3. /\ UNCHANGED <<pc_vm, op, user, before, poked, f_pos>>
          /\ copied' = [copied EXCEPT ![p] = @ + 1]
        BY <1>15, Zenon DEF VM!Copy
    <2>4. CASE op[p] = "read" /\ user[p] = "heap"
        <3>1. /\ got' = [got EXCEPT ![p] = Append(@, buffer_vm[f_pos[p] + copied[p]])]
              /\ buffer_vm' = buffer_vm
            BY <1>15, <2>4, Zenon DEF VM!Copy
        <3>2. buffer_vm[f_pos[p] + copied[p]] \in VM!Owners
            BY <2>2, Zenon DEF VmMomentInv
        <3>3. got[p] \in Seq(VM!Owners) /\ Len(got[p]) = copied[p]
            BY <1>0, <2>2, <2>4, Zenon DEF VmDelivers
        <3>4. got'[p] = Append(got[p], buffer_vm[f_pos[p] + copied[p]])
            BY <3>1, ZenonT(40) DEF VmMomentInv
        <3>5. /\ got'[p] \in Seq(VM!Owners) /\ Len(got'[p]) = copied[p] + 1
              /\ got'[p][copied[p] + 1] = buffer_vm[f_pos[p] + copied[p]]
              /\ \A i \in 1 .. copied[p] : got'[p][i] = got[p][i]
            BY <2>2, <3>2, <3>3, <3>4
        <3>6. \A q \in Callers \ {p} : VmApart(q)
            BY <2>3, <3>1, ZenonT(40) DEF VmApart, VmCallInv, VmMomentInv
        <3>7. p \notin poked =>
                  \A i \in 1 .. Len(got'[p]) : got'[p][i] = before[p][f_pos[p] + i - 1]
            <4> SUFFICES ASSUME p \notin poked, NEW i \in 1 .. copied[p] + 1
                         PROVE  got'[p][i] = before[p][f_pos[p] + i - 1]
                BY <3>5, Zenon
            <4>1. before[p] = buffer_vm
                BY <1>0, <2>2, <2>4, ZenonT(40) DEF VmDelivers
            <4>2. CASE i = copied[p] + 1
                BY <2>2, <3>5, <4>1, <4>2
            <4>3. CASE i \in 1 .. copied[p]
                BY <1>0, <2>2, <3>3, <3>5, <4>3 DEF VmDelivers
            <4> QED
                BY <2>2, <4>2, <4>3
        <3>8. copied'[p] = copied[p] + 1
            BY <2>3, Zenon DEF VmCallInv
        <3>9. VmDelivers(p)'
            BY <1>0, <2>2, <2>3, <2>4, <3>1, <3>5, <3>7, <3>8, ZenonT(40) DEF VmDelivers, VmFresher
        <3> QED
            BY <1>0, <2>3, <3>1, <3>6, <3>9, VmApartDelivers, Zenon DEF VmMomentInv
    <2>5. CASE ~(op[p] = "read" /\ user[p] = "heap")
        <3>1. got' = got
            BY <1>15, <2>5, Zenon DEF VM!Copy
        <3>2. buffer_vm' \in [VM!Pages -> VM!Owners]
            <4> DEFINE Put(i, v) == [buffer_vm EXCEPT ![i] = v]
            <4>1. /\ \A i \in VM!Pages : buffer_vm[i] \in VM!Owners
                  /\ \A i, v : v \in VM!Owners => Put(i, v) \in [VM!Pages -> VM!Owners]
                BY VmPageStored, Zenon DEF VmMomentInv
            <4>2. user[p] = "mapping" => pte[p][copied[p]] \in VM!Pages
                BY <1>15, Zenon DEF VM!Copy, VM!NeedsFault, VmCallInv, VmMapInv, VM!MappingShowsFile
            <4>3. p \in VM!Owners
                BY Zenon DEF VM!Owners
            <4>4. CASE op[p] = "write" /\ user[p] = "heap"
                <5>1. buffer_vm' = Put(f_pos[p] + copied[p], p)
                    BY <1>15, <4>4, ZenonT(40) DEF VM!Copy
                <5> QED
                    BY <4>1, <4>3, <5>1, ZenonT(40)
            <4>5. CASE op[p] = "write" /\ user[p] = "mapping"
                <5>1. buffer_vm' = Put(f_pos[p] + copied[p], buffer_vm[pte[p][copied[p]]])
                    BY <1>15, <4>5, Zenon DEF VM!Copy
                <5> QED
                    BY <4>1, <4>2, <4>5, <5>1, ZenonT(40)
            <4>6. CASE op[p] = "read" /\ user[p] = "mapping"
                <5>1. buffer_vm' = Put(pte[p][copied[p]], buffer_vm[f_pos[p] + copied[p]])
                    BY <1>15, <4>6, Zenon DEF VM!Copy
                <5> QED
                    BY <2>2, <4>1, <5>1, Zenon
            <4> QED
                BY <2>5, <4>4, <4>5, <4>6, ZenonT(40) DEF VmCallInv
        <3>3. got[p] = <<>>
            BY <1>0, <2>5, ZenonT(40) DEF VmDelivers, VmCallInv
        <3>4. \A q \in Callers \ {p} : VmApart(q)
            BY <2>3, <3>1, Zenon DEF VmApart, VmCallInv
        <3>5. VmDelivers(p)'
            BY <1>0, <2>3, <2>5, <3>1, <3>3, ZenonT(40) DEF VmDelivers
        <3> QED
            BY <1>0, <2>1, <2>3, <3>1, <3>2, <3>4, <3>5, VmApartDelivers, Zenon DEF VmMomentInv
    <2> QED
        BY <2>4, <2>5, ZenonT(40)
<1>16. ASSUME NEW p \in Callers,
              VM!example_char_open(p) \/ VM!example_char_mmap(p) \/ VM!Unmap(p) \/ VM!Touch(p)
       PROVE  VmMomentInv'
    BY <1>2, <1>16, Zenon DEF VM!example_char_open, VM!example_char_mmap, VM!Unmap, VM!Touch
<1>17. ASSUME NEW p \in Callers, VM!Files(p) \/ VM!Body(p) PROVE VmMomentInv'
    BY <1>3, <1>4, <1>5, <1>6, <1>8, <1>9, <1>10, <1>11, <1>12, <1>13, <1>14, <1>15, <1>16,
       <1>17, ZenonT(40) DEF VM!Files, VM!Body
<1>18. CASE VM!Module
    BY <1>1, <1>2, <1>18, ZenonT(40) DEF VM!Module
<1> QED
    BY <1>2, <1>17, <1>18, Zenon DEF VM!Next, VM!vars

-----------------------------------------------------------------------------
\* What a read has delivered is what the property asks for.
LEMMA VmMoment ==
    ASSUME VmMomentInv
    PROVE  VM!ReadIsOneMoment
BY ZenonT(40) DEF VmMomentInv, VmDelivers, VM!ReadIsOneMoment

\* The types follow from the four parts.
LEMMA VmTypes ==
    ASSUME VmSizes, VmMutexInv, VmCallInv, VmMapInv, VmMomentInv, VM!DM!TypeOK
    PROVE  VM!TypeOK
<1>1. \A p \in Callers : /\ DOMAIN pte[p] \subseteq VM!Slots
                       /\ \A s \in DOMAIN pte[p] : pte[p][s] \in Nat
    <2>1. \A n \in VM!Pages : n \in Nat
        BY DEF VM!Pages, VmSizes
    <2> QED
        BY <2>1, Zenon DEF VmMapInv, VM!MappingShowsFile
<1>2. \A p \in Callers : got[p] \in Seq(VM!Owners) /\ before[p] \in [VM!Pages -> VM!Owners]
    BY Zenon DEF VmMomentInv, VmDelivers
<1> QED
    BY <1>1, <1>2, Zenon DEF VM!TypeOK, VmMutexInv, VmCallInv, VmMapInv, VmMomentInv

-----------------------------------------------------------------------------
HoldsA == {"try_b", "critical", "release_a"}

\* Ownership follows the program counter.  The last conjunct is what makes the
\* nesting visible: whoever holds resource_b is between the two trylocks and
\* the first unlock, hence holds resource_a too.
LockInv ==
    /\ \A p \in Procs : resource_a = p <=> pc[p] \in HoldsA
    /\ \A p \in Procs : resource_b = p <=> pc[p] = "critical"

UnloadInv == proc_entry = "absent" => \A p \in Procs : pc[p] \in Outside

\* retries stays below the limit wherever another round may follow.
RetryInv == \A p \in Procs : pc[p] # "copy" => retries[p] < MAX_RETRIES

IInv == TypeOK /\ LockInv /\ UnloadInv /\ RetryInv

LEMMA InitIInv == Init => IInv
BY RetriesAssumption, OwnerAssumption
   DEF Init, IInv, TypeOK, LockInv, UnloadInv, RetryInv, Outside, Handler, HoldsA

LEMMA NextIInv == IInv /\ [Next]_vars => IInv'
<1> SUFFICES ASSUME IInv, [Next]_vars PROVE IInv'
  BY Zenon
<1> USE RetriesAssumption, OwnerAssumption
    DEF IInv, TypeOK, LockInv, UnloadInv, RetryInv, Outside, Handler, HoldsA
<1>1. CASE deadlock_init
  BY <1>1, Zenon DEF deadlock_init
<1>2. CASE ProcRemoveBegin
  BY <1>2, Zenon DEF ProcRemoveBegin
<1>3. CASE deadlock_exit
  BY <1>3, Zenon DEF deadlock_exit
<1>4. ASSUME NEW p \in Procs, BeginRead(p) PROVE IInv'
  BY <1>4, Zenon DEF BeginRead, Goto
<1>5. ASSUME NEW p \in Procs, ReadEof(p) PROVE IInv'
  BY <1>5, Zenon DEF ReadEof, Goto
<1>6. ASSUME NEW p \in Procs, TryA(p) PROVE IInv'
  BY <1>6, ZenonT(40) DEF TryA
<1>7. ASSUME NEW p \in Procs, TryB(p) PROVE IInv'
  BY <1>7, ZenonT(40) DEF TryB
<1>8. ASSUME NEW p \in Procs, Retry(p) PROVE IInv'
  BY <1>8 DEF Retry
<1>9. ASSUME NEW p \in Procs, ReleaseB(p) PROVE IInv'
  BY <1>9, ZenonT(40) DEF ReleaseB, Goto
<1>10. ASSUME NEW p \in Procs, ReleaseA(p) PROVE IInv'
  BY <1>10, ZenonT(40) DEF ReleaseA, Goto
<1>11. ASSUME NEW p \in Procs, CopyOut(p) PROVE IInv'
  BY <1>11 DEF CopyOut, Goto
<1>12. CASE UNCHANGED vars
  BY <1>12, Zenon DEF vars
<1>13. QED
  BY <1>1, <1>2, <1>3, <1>4, <1>5, <1>6, <1>7, <1>8, <1>9, <1>10, <1>11, <1>12, ZenonT(40)
     DEF Next, ReadStep

LEMMA SpecIInv == Spec => []IInv
BY InitIInv, NextIInv, PTL DEF Spec

\* Every variable of the module keeps its type; in particular retries never
\* passes MAX_RETRIES (line 18).
THEOREM TypeCorrect == Spec => []TypeOK
<1>1. IInv => TypeOK
  BY Zenon DEF IInv
<1>2. QED
  BY <1>1, SpecIInv, PTL

\* Only one reader at a time is between safe_acquire_both_locks and
\* release_both_locks, and it holds both mutexes (lines 55-65).
THEOREM MutualExclusion == Spec => []CriticalExclusive
<1>1. IInv => CriticalExclusive
  BY Zenon DEF IInv, LockInv, CriticalExclusive, HoldsA
<1>2. QED
  BY <1>1, SpecIInv, PTL

\* The second trylock (line 22) succeeds whenever the first one did.
THEOREM NestedLocking == Spec => []SecondTrylockSucceeds
<1>1. IInv => SecondTrylockSucceeds
  BY OwnerAssumption, ZenonT(40) DEF IInv, TypeOK, LockInv, SecondTrylockSucceeds, HoldsA
<1>2. QED
  BY <1>1, SpecIInv, PTL

\* No return path of the handler leaves a mutex locked, and no handler runs in
\* unloaded module text (lines 24-35, 97).
THEOREM LocksReturned == Spec => []NoLockLeaked
<1>1. IInv => NoLockLeaked
  BY Zenon DEF IInv, LockInv, UnloadInv, NoLockLeaked, HoldsA, Outside
<1>2. QED
  BY <1>1, SpecIInv, PTL

-----------------------------------------------------------------------------
\* The number of a finite set's members at some places is a number ...
LEMMA NumberType ==
    ASSUME Counts, NEW S, IsFiniteSet(S), NEW L, NEW f
    PROVE  Number(f, S, L) \in Nat
BY ZenonT(40) DEF Counts

\* ... and changes by one when one comes or leaves, and only then.
LEMMA Comes ==
    ASSUME Counts, NEW S, IsFiniteSet(S), NEW L, NEW f, NEW g, NEW x \in S,
           Moves(x, f, g, S), g[x] \in L, f[x] \notin L
    PROVE  Number(g, S, L) = Number(f, S, L) + 1
BY DEF Counts

\* One fewer when one leaves ...
LEMMA Leaves ==
    ASSUME Counts, NEW S, IsFiniteSet(S), NEW L, NEW f, NEW g, NEW x \in S,
           Moves(x, f, g, S), f[x] \in L, g[x] \notin L
    PROVE  Number(f, S, L) = Number(g, S, L) + 1
<1>1. Moves(x, g, f, S)
    BY Zenon DEF Moves
<1> QED
    BY <1>1, Comes, ZenonT(40)

\* ... as many when nobody comes or leaves ...
LEMMA Stays ==
    ASSUME NEW S, NEW L, NEW f, NEW g, \A s \in S : g[s] \in L <=> f[s] \in L
    PROVE  Number(g, S, L) = Number(f, S, L)
<1>1. At(g, S, L) = At(f, S, L)
    BY Zenon DEF At
<1> QED
    BY <1>1, Zenon DEF Number

\* ... and as many when the one who moves stays in or out.
LEMMA Passes ==
    ASSUME NEW S, NEW L, NEW f, NEW g, NEW x, Moves(x, f, g, S),
           x \in S => (g[x] \in L <=> f[x] \in L)
    PROVE  Number(g, S, L) = Number(f, S, L)
BY Stays, ZenonT(40) DEF Moves

\* Nobody is at a place where nobody is.
LEMMA NumberZero ==
    ASSUME Counts, NEW S, NEW f, NEW L, \A s \in S : f[s] \notin L
    PROVE  Number(f, S, L) = 0
<1>1. At(f, S, L) = {}
    BY Zenon DEF At
<1> QED
    BY <1>1, Zenon DEF Number, Counts

-----------------------------------------------------------------------------
\* A request is on its way or being handled.
NlWorking == {"send", "load", "store", "reply"}

\* What a client asks for follows its script.
NlAsks(c) ==
    /\ pc_nl[c] \in {"load", "store"} => request[c] = NL!HELLO
    /\ pc_nl[c] = "off" \/ c \notin Testers => step[c] = 0
    /\ c \in Testers /\ pc_nl[c] = "fill" => step[c] < 3
    /\ c \in Testers /\ pc_nl[c] \in NlWorking \cup {"recv"} =>
          step[c] \in 1 .. 3 /\ request[c] = NL!Script[step[c]]

\* Sockets keep the module, and who waits in vain has sent all it could, unless
\* others have answered it.
NlSocketInv ==
    /\ phase_nl \in {"out", "live"}
    /\ pc_nl \in [NL!Clients -> NL!Labels] /\ step \in [NL!Clients -> 0 .. 3]
    /\ request \in [NL!Clients -> NL!Types]
    /\ nlmsg_pid \in [NL!Clients -> NL!Clients \cup {Kernel}]
    /\ NL!SocketsPin
    /\ \A c \in NL!Clients : NlAsks(c)
    /\ lost \subseteq NL!Clients /\ strayed \subseteq NL!Clients
    /\ \A c \in lost \ strayed : pc_nl[c] = "recv"

\* Clients whose HELLO is counted and not yet stored, and how many they are
NlIncrement == {"load", "store"}
NlRaising   == Number(pc_nl, NL!Clients, NlIncrement)

\* A load leaves room for every store that is to come.
NlRoom(c) == pc_nl[c] = "store" => temp[c] + NlRaising <= hellos

\* Who has had an answer, and none of another's, has had its HELLO counted.
NlHeard(c) ==
    /\ pc_nl[c] = "reply" /\ request[c] = NL!HELLO =>
          temp[c] \in 1 .. hellos /\ message_counter >= 1
    /\ c \in Testers \ strayed /\ \/ pc_nl[c] = "fill" /\ step[c] >= 1
                                  \/ pc_nl[c] \in NlWorking /\ step[c] >= 2
                                  \/ pc_nl[c] = "recv" /\ (c \notin lost \/ step[c] >= 2)
          => message_counter >= 1

\* The counter and all increments under way stay within the HELLOs.
NlCountInv ==
    /\ message_counter \in Nat /\ hellos \in Nat /\ hellos <= MaxHellos
    /\ temp \in [NL!Clients -> 0 .. MaxHellos]
    /\ message_counter + NlRaising <= hellos
    /\ \A c \in NL!Clients : NlRoom(c)
    /\ \A c \in NL!Clients : NlHeard(c)

\* Unless others have answered it, the answer on a client's socket is the one to
\* its request.
NlMine(c) ==
    c \notin strayed =>
        IF pc_nl[c] = "recv" /\ c \notin lost
        THEN \E d \in -1 .. MaxHellos :
                /\ inbox[c] = <<<<request[c], d>>>>
                /\ c \in Testers /\ request[c] # NL!STATUS => d \in 1 .. hellos
        ELSE inbox[c] = <<>>

\* So it is with every client, and nothing but answers is on a socket.
NlAnswerInv ==
    /\ inbox \in [NL!Clients -> Seq(NL!Answers)]
    /\ \A c \in NL!Clients : Len(inbox[c]) <= SocketRoom /\ NlMine(c)

-----------------------------------------------------------------------------
\* No client has a socket before the module is loaded.
LEMMA NlSocketInit ==
    ASSUME NL!Init, SocketRoom \in Nat
    PROVE  NlSocketInv /\ NlAnswerInv
<1>1. NlSocketInv
    BY DEF NL!Init, NlSocketInv, NlAsks, NL!SocketsPin, NL!Bound, NlWorking, NL!Labels, NL!Types
<1>2. NlAnswerInv
    BY DEF NL!Init, NlAnswerInv, NlMine
<1> QED
    BY <1>1, <1>2, Zenon

\* The three requests of the test program (netlink_test.c)
LEMMA NlScriptIs ==
    /\ Len(NL!Script) = 3
    /\ NL!Script[1] = NL!HELLO /\ NL!Script[2] = NL!COUNTER /\ NL!Script[3] = NL!STATUS
BY Zenon DEF NL!Script

\* The ways back from the handler to the client
NlReturns(c) == NL!send_message_to_user(c) \/ NL!Refused(c) \/ NL!ReplyFails(c)

\* None of them changes the request, and another client may lose its own answers
\* only by being sent this one.
LEMMA NlBack ==
    ASSUME NEW c \in NL!Clients, NlReturns(c), NlSocketInv
    PROVE  /\ NL!Return(c)
           /\ lost' \subseteq lost \cup {c} /\ lost \subseteq lost'
           /\ strayed \subseteq strayed' /\ strayed' \subseteq NL!Clients
BY ZenonT(40) DEF NlReturns, NL!send_message_to_user, NL!Refused, NL!ReplyFails, NL!Takes,
                  NlSocketInv

\* A step of one client leaves the others' requests alone.
LEMMA NlAsksKept ==
    ASSUME NEW c \in NL!Clients, NlAsks(c), pc_nl'[c] = pc_nl[c], step'[c] = step[c],
        request'[c] = request[c]
    PROVE  NlAsks(c)'
BY Zenon DEF NlAsks

\* Every step keeps the module under the sockets and requests true to the
\* script.
LEMMA NlSocketNext ==
    ASSUME NlSocketInv, NlAnswerInv, [NL!Next]_(NL!vars), OtherTypes \subseteq NL!Types,
           Testers \cap Others = {}
    PROVE  NlSocketInv'
<1> USE DEF NL!Goto, NL!handler, NL!socket, NL!SocketsPin, NL!Bound, NlWorking, NL!Labels
<1>0. \A c \in NL!Clients : NlAsks(c)
    BY Zenon DEF NlSocketInv
<1>1. CASE NL!netlink_example_init \/ NL!netlink_example_exit
    <2>1. \A c \in NL!Clients : NlAsks(c)'
        BY <1>0, <1>1, NlAsksKept, ZenonT(40) DEF NL!netlink_example_init, NL!netlink_example_exit
    <2> QED
        BY <1>1, <2>1, ZenonT(40) DEF NL!netlink_example_init, NL!netlink_example_exit, NlSocketInv
<1>2. ASSUME NEW c \in NL!Clients, NL!OpenSocket(c) PROVE NlSocketInv'
    <2>1. NlAsks(c)'
        BY <1>0, <1>2 DEF NL!OpenSocket, NlAsks, NlSocketInv
    <2>2. \A d \in NL!Clients \ {c} : NlAsks(d)'
        BY <1>0, <1>2, NlAsksKept, ZenonT(40) DEF NL!OpenSocket, NlSocketInv
    <2> QED
        BY <1>2, <2>1, <2>2, ZenonT(40) DEF NL!OpenSocket, NlSocketInv
<1>3. ASSUME NEW c \in NL!Clients, NL!Fill(c) PROVE NlSocketInv'
    <2>1. /\ step' \in [NL!Clients -> 0 .. 3] /\ request' \in [NL!Clients -> NL!Types]
          /\ \A d \in NL!Clients \ {c} : step'[d] = step[d] /\ request'[d] = request[d]
        BY <1>3, NlScriptIs DEF NL!Fill, NlSocketInv, NL!Types
    <2>2. NlAsks(c)'
        <3>1. CASE c \in Testers
            <4>1. /\ step[c] \in 0 .. 2 /\ step'[c] = step[c] + 1
                  /\ request'[c] = NL!Script[step[c] + 1]
                BY <1>3, <3>1, NlScriptIs DEF NL!Fill, NlSocketInv
            <4> QED
                BY <1>3, <3>1, <4>1 DEF NL!Fill, NlAsks, NlSocketInv
        <3>2. CASE c \notin Testers
            BY <1>0, <1>3, <3>2, ZenonT(40) DEF NL!Fill, NlAsks, NlSocketInv
        <3> QED
            BY <3>1, <3>2, ZenonT(40)
    <2>3. \A d \in NL!Clients \ {c} : NlAsks(d)'
        BY <1>0, <1>3, <2>1, NlAsksKept, ZenonT(40) DEF NL!Fill, NlSocketInv
    <2>4. nlmsg_pid' \in [NL!Clients -> NL!Clients \cup {Kernel}] /\ NL!Goto(c, "fill", "send")
          /\ UNCHANGED <<phase_nl, lost, strayed>>
        BY <1>3 DEF NL!Fill, NlSocketInv
    <2> QED
        BY <2>1, <2>2, <2>3, <2>4, ZenonT(40) DEF NlSocketInv
<1>4. ASSUME NEW c \in NL!Clients, NEW from \in {"send", "reply"}, NL!Enter(c, from)
      PROVE  NlSocketInv'
    <2>1. NlAsks(c)'
        BY <1>0, <1>4, ZenonT(40) DEF NL!Enter, NlAsks, NlSocketInv
    <2>2. \A d \in NL!Clients \ {c} : NlAsks(d)'
        BY <1>0, <1>4, NlAsksKept, ZenonT(40) DEF NL!Enter, NlSocketInv
    <2>3. c \notin lost \ strayed
        BY <1>4, ZenonT(40) DEF NL!Enter, NlSocketInv
    <2> QED
        BY <1>4, <2>1, <2>2, <2>3 DEF NL!Enter, NlSocketInv
<1>5. ASSUME NEW c \in NL!Clients, NL!Load(c) \/ NL!Store(c) PROVE NlSocketInv'
    <2>1. NlAsks(c)'
        BY <1>0, <1>5, ZenonT(40) DEF NL!Load, NL!Store, NlAsks, NlSocketInv
    <2>2. \A d \in NL!Clients \ {c} : NlAsks(d)'
        BY <1>0, <1>5, NlAsksKept, ZenonT(40) DEF NL!Load, NL!Store, NlSocketInv
    <2> QED
        BY <1>5, <2>1, <2>2, ZenonT(40) DEF NL!Load, NL!Store, NlSocketInv
<1>9. ASSUME NEW c \in NL!Clients, NL!SendFails(c) PROVE NlSocketInv'
    <2>1. NlAsks(c)'
        BY <1>0, <1>9, ZenonT(40) DEF NL!SendFails, NlAsks, NlSocketInv
    <2>2. \A d \in NL!Clients \ {c} : NlAsks(d)'
        BY <1>0, <1>9, NlAsksKept, ZenonT(40) DEF NL!SendFails, NlSocketInv
    <2> QED
        BY <1>9, <2>1, <2>2 DEF NL!SendFails, NlSocketInv
<1>10. ASSUME NEW c \in NL!Clients, NlReturns(c) PROVE NlSocketInv'
    <2>1. /\ NL!Return(c) /\ lost' \subseteq lost \cup {c} /\ strayed \subseteq strayed'
          /\ strayed' \subseteq NL!Clients
        BY <1>10, NlBack, ZenonT(40)
    <2>2. NlAsks(c)'
        BY <1>0, <2>1, ZenonT(40) DEF NL!Return, NlAsks, NlSocketInv
    <2>3. \A d \in NL!Clients \ {c} : NlAsks(d)'
        BY <1>0, <2>1, NlAsksKept, ZenonT(40) DEF NL!Return, NlSocketInv
    <2> QED
        BY <2>1, <2>2, <2>3 DEF NL!Return, NlSocketInv
<1>6. ASSUME NEW c \in NL!Clients, NL!Receive(c) PROVE NlSocketInv'
    <2>1. NlAsks(c)'
        BY <1>0, <1>6, NlScriptIs DEF NL!Receive, NlAsks, NlSocketInv
    <2>2. \A d \in NL!Clients \ {c} : NlAsks(d)'
        BY <1>0, <1>6, NlAsksKept, ZenonT(40) DEF NL!Receive, NlSocketInv
    <2>3. c \notin lost' \ strayed' /\ lost' \subseteq lost /\ strayed' \subseteq strayed
          /\ \A d \in NL!Clients \ {c} : d \in strayed => d \in strayed'
        BY <1>6, ZenonT(40) DEF NL!Receive, NL!Closed, NlAnswerInv, NlMine
    <2> QED
        BY <1>6, <2>1, <2>2, <2>3, ZenonT(40) DEF NL!Receive, NlSocketInv, NL!Types
<1>7. ASSUME NEW c \in NL!Clients, NL!Leave(c) PROVE NlSocketInv'
    <2>1. NlAsks(c)'
        BY <1>0, <1>7, ZenonT(40) DEF NL!Leave, NlAsks, NlSocketInv
    <2>2. \A d \in NL!Clients \ {c} : NlAsks(d)'
        BY <1>0, <1>7, NlAsksKept, ZenonT(40) DEF NL!Leave, NlSocketInv
    <2> QED
        BY <1>7, <2>1, <2>2 DEF NL!Leave, NL!Closed, NlSocketInv, NL!Types
<1>8. CASE UNCHANGED NL!vars
    <2>1. \A c \in NL!Clients : NlAsks(c)'
        BY <1>0, <1>8, NlAsksKept, ZenonT(40) DEF NL!vars
    <2> QED
        BY <1>8, <2>1, Zenon DEF NL!vars, NlSocketInv
<1> QED
    BY <1>1, <1>2, <1>3, <1>4, <1>5, <1>6, <1>7, <1>8, <1>9, <1>10, ZenonT(40)
       DEF NL!Next, NL!Step, NL!Handler, NL!Send, NL!ToKernel, NlReturns

-----------------------------------------------------------------------------
\* A step of a client moves that client alone.
LEMMA NlGoes ==
    ASSUME NlSocketInv, NEW c \in NL!Clients, NEW from, NEW to, NL!Goto(c, from, to)
    PROVE  Moves(c, pc_nl, pc_nl', NL!Clients) /\ pc_nl[c] = from /\ pc_nl'[c] = to
BY Zenon DEF NlSocketInv, NL!Goto, Moves

\* A step of another client leaves room for a store, if it starts no more
\* increments than it counts HELLOs.
LEMMA NlRoomKept ==
    ASSUME NEW c \in NL!Clients, NlRoom(c), pc_nl'[c] = pc_nl[c], temp'[c] = temp[c],
        temp[c] \in Nat,
           NlRaising \in Nat, NlRaising' \in Nat, hellos \in Nat, hellos' \in Nat,
           NlRaising' + hellos <= NlRaising + hellos'
    PROVE  NlRoom(c)'
<1>1. \A t, r, q, h, k \in Nat : t + r <= h /\ q + h <= r + k => t + q <= k
    OBVIOUS
<1> QED
    BY <1>1, ZenonT(40) DEF NlRoom

\* A step of another client takes back nothing that was counted.
LEMMA NlHeardKept ==
    ASSUME NEW c \in NL!Clients, NlHeard(c), pc_nl'[c] = pc_nl[c], temp'[c] = temp[c],
           step'[c] = step[c], request'[c] = request[c], c \in lost' <=> c \in lost,
           c \in strayed => c \in strayed',
           hellos \in Nat, hellos' \in Nat, hellos <= hellos',
           message_counter >= 1 => message_counter' >= 1
    PROVE  NlHeard(c)'
BY DEF NlHeard

\* A step that leaves the HELLO of d alone
NlAside(d) ==
    /\ pc_nl'[d] = pc_nl[d] /\ temp'[d] = temp[d] /\ step'[d] = step[d] /\ request'[d] = request[d]
    /\ d \in lost' <=> d \in lost
    /\ d \in strayed => d \in strayed'

\* A step that keeps the room there is and takes back nothing
NlOnward ==
    /\ NlRaising \in Nat /\ NlRaising' \in Nat /\ hellos \in Nat /\ hellos' \in Nat
    /\ hellos <= hellos' /\ NlRaising' + hellos <= NlRaising + hellos'
    /\ message_counter >= 1 => message_counter' >= 1

\* Such a step of one client keeps what holds of the others.
LEMMA NlOthersCounted ==
    ASSUME NEW c \in NL!Clients, \A d \in NL!Clients : NlRoom(d) /\ NlHeard(d) /\ temp[d] \in Nat,
           \A d \in NL!Clients \ {c} : NlAside(d), NlOnward
    PROVE  \A d \in NL!Clients \ {c} : NlRoom(d)' /\ NlHeard(d)'
<1> SUFFICES ASSUME NEW d \in NL!Clients \ {c} PROVE NlRoom(d)' /\ NlHeard(d)'
    BY ZenonT(40)
<1>1. NlAside(d) /\ NlRoom(d) /\ NlHeard(d) /\ temp[d] \in Nat
    BY Zenon
<1>2. NlRoom(d)'
    BY <1>1, NlRoomKept, ZenonT(40) DEF NlAside, NlOnward
<1>3. NlHeard(d)'
    BY <1>1, NlHeardKept, ZenonT(40) DEF NlAside, NlOnward
<1> QED
    BY <1>2, <1>3, ZenonT(40)

\* The counter starts at zero.
LEMMA NlCountInit ==
    ASSUME Counts, MaxHellos \in Nat, NL!Init
    PROVE  NlCountInv
<1>1. NlRaising = 0
    BY NumberZero, Zenon DEF NL!Init, NlRaising, NlIncrement
<1> QED
    BY <1>1 DEF NL!Init, NlCountInv, NlRoom, NlHeard, NlWorking

\* Increments may overwrite one another and so lose HELLOs, but a load never
\* reads more than has been sent.
LEMMA NlCountNext ==
    ASSUME Counts, MaxHellos \in Nat, IsFiniteSet(NL!Clients), Testers \cap Others = {},
           NlSocketInv, NlAnswerInv, NlCountInv, [NL!Next]_(NL!vars)
    PROVE  NlCountInv'
<1>0. \A c \in NL!Clients : NlAsks(c) /\ NlRoom(c) /\ NlHeard(c) /\ temp[c] \in Nat
    BY DEF NlSocketInv, NlCountInv
<1>1. /\ NlRaising \in Nat /\ NlRaising' \in Nat /\ message_counter \in Nat /\ hellos \in Nat
      /\ hellos <= MaxHellos /\ temp \in [NL!Clients -> 0 .. MaxHellos]
      /\ message_counter + NlRaising <= hellos
    BY NumberType, ZenonT(40) DEF NlRaising, NlCountInv
<1>quiet. NlRaising' = NlRaising /\ hellos' = hellos /\ message_counter' = message_counter
          => NlOnward
    BY <1>1 DEF NlOnward
<1>2. ASSUME pc_nl' = pc_nl, temp' = temp, step' = step, request' = request, lost' = lost,
             strayed' = strayed, message_counter' = message_counter, hellos' = hellos
      PROVE  NlCountInv'
    <2>1. NlRaising' = NlRaising
        BY <1>2, ZenonT(40) DEF NlRaising
    <2>2. \A c \in NL!Clients : NlRoom(c)' /\ NlHeard(c)'
        BY <1>0, <1>1, <1>2, <2>1, NlRoomKept, NlHeardKept
    <2> QED
        BY <1>1, <1>2, <2>1, <2>2, ZenonT(40) DEF NlCountInv
<1>3. CASE NL!netlink_example_init
    <2>1. \A c \in NL!Clients : pc_nl'[c] \in {"off", "done"}
        BY <1>3, Zenon DEF NL!netlink_example_init, NlSocketInv, NL!SocketsPin, NL!Bound
    <2>2. NlRaising' = 0
        BY <2>1, NumberZero, ZenonT(40) DEF NlRaising, NlIncrement
    <2>3. \A c \in NL!Clients : NlRoom(c)' /\ NlHeard(c)'
        BY <2>1, ZenonT(40) DEF NlRoom, NlHeard, NlWorking
    <2> QED
        BY <1>1, <1>3, <2>2, <2>3 DEF NL!netlink_example_init, NlCountInv
<1>4. ASSUME NEW c \in NL!Clients, NL!OpenSocket(c) \/ NL!Leave(c) PROVE NlCountInv'
    <2>1. /\ Moves(c, pc_nl, pc_nl', NL!Clients) /\ pc_nl'[c] \in {"fill", "off"}
          /\ pc_nl[c] \in {"off", "recv", "fill", "done"}
        BY <1>4, ZenonT(40) DEF NL!OpenSocket, NL!Leave, NL!Goto, Moves, NlSocketInv
    <2>2. NlRaising' = NlRaising
        BY <2>1, Passes DEF NlRaising, NlIncrement
    <2>3. UNCHANGED <<message_counter, temp, hellos>>
        BY <1>4, Zenon DEF NL!OpenSocket, NL!Leave, NL!handler
    <2>4. \A d \in NL!Clients \ {c} : NlRoom(d)' /\ NlHeard(d)'
        <3>1. \A d \in NL!Clients \ {c} : NlAside(d)
            BY <1>4, <2>1, <2>3, ZenonT(40) DEF NL!OpenSocket, NL!Leave, NL!Closed, NL!socket,
                                                NlSocketInv, Moves, NlAside
        <3> QED
            BY <1>0, <1>quiet, <2>2, <2>3, <3>1, NlOthersCounted, ZenonT(40)
    <2>5. NlRoom(c)' /\ NlHeard(c)'
        BY <1>0, <1>4, <2>1 DEF NL!OpenSocket, NL!Leave, NL!Goto, NlRoom, NlHeard, NlAsks,
                                NlWorking, NlSocketInv
    <2> QED
        BY <1>1, <2>2, <2>3, <2>4, <2>5, ZenonT(40) DEF NlCountInv
<1>5. ASSUME NEW c \in NL!Clients, NL!Fill(c) PROVE NlCountInv'
    <2>1. Moves(c, pc_nl, pc_nl', NL!Clients) /\ pc_nl[c] = "fill" /\ pc_nl'[c] = "send"
        BY <1>5, NlGoes, ZenonT(40) DEF NL!Fill
    <2>2. NlRaising' = NlRaising
        BY <2>1, Passes, ZenonT(40) DEF NlRaising, NlIncrement
    <2>3. UNCHANGED <<message_counter, temp, hellos, lost, strayed>>
        BY <1>5, ZenonT(40) DEF NL!Fill, NL!handler, NL!socket
    <2>4. \A d \in NL!Clients \ {c} : NlRoom(d)' /\ NlHeard(d)'
        <3>1. \A d \in NL!Clients \ {c} : NlAside(d)
            BY <1>5, <2>1, <2>3, ZenonT(40) DEF NL!Fill, NlSocketInv, Moves, NlAside
        <3> QED
            BY <1>0, <1>quiet, <2>2, <2>3, <3>1, NlOthersCounted, ZenonT(40)
    <2>5. NlRoom(c)' /\ NlHeard(c)'
        <3>1. c \in Testers => step[c] \in 0 .. 3 /\ step'[c] = step[c] + 1
            BY <1>5, Zenon DEF NL!Fill, NlSocketInv
        <3>2. c \in Testers /\ step'[c] >= 2 => step[c] >= 1
            BY <3>1
        <3>3. c \in Testers \ strayed /\ step[c] >= 1 => message_counter >= 1
            BY <1>0, <2>1, ZenonT(40) DEF NlHeard
        <3>4. NlRoom(c)'
            BY <2>1, ZenonT(40) DEF NlRoom
        <3> QED
            BY <2>1, <2>3, <3>2, <3>3, <3>4, ZenonT(40) DEF NlHeard
    <2> QED
        BY <1>1, <2>2, <2>3, <2>4, <2>5, ZenonT(40) DEF NlCountInv
<1>6. ASSUME NEW c \in NL!Clients, NEW from \in {"send", "reply"}, NL!Enter(c, from)
      PROVE  NlCountInv'
    <2>1. /\ Moves(c, pc_nl, pc_nl', NL!Clients) /\ pc_nl[c] \in {"send", "reply"}
          /\ pc_nl'[c] = IF request[c] = NL!HELLO THEN "load" ELSE "reply"
        BY <1>6, NlGoes, ZenonT(40) DEF NL!Enter
    <2>2. UNCHANGED <<message_counter, temp, step, request, lost, strayed>>
        BY <1>6, ZenonT(40) DEF NL!Enter, NL!socket
    <2>3. hellos' \in Nat /\ hellos' <= MaxHellos /\ hellos <= hellos'
        BY <1>1, <1>6 DEF NL!Enter
    <2>4. NlRaising' + hellos = NlRaising + hellos'
        <3>1. CASE request[c] = NL!HELLO
            <4>1. pc_nl'[c] \in NlIncrement /\ pc_nl[c] \notin NlIncrement
                BY <2>1, <3>1, ZenonT(40) DEF NlIncrement
            <4>2. NlRaising' = NlRaising + 1
                BY <2>1, <4>1, Comes, ZenonT(40) DEF NlRaising
            <4> QED
                BY <1>1, <1>6, <3>1, <4>2 DEF NL!Enter
        <3>2. CASE request[c] # NL!HELLO
            <4>1. pc_nl'[c] \notin NlIncrement /\ pc_nl[c] \notin NlIncrement
                BY <2>1, <3>2, Zenon DEF NlIncrement
            <4>2. NlRaising' = NlRaising
                BY <2>1, <4>1, Passes, Zenon DEF NlRaising
            <4> QED
                BY <1>6, <3>2, <4>2, Zenon DEF NL!Enter
        <3> QED
            BY <3>1, <3>2, ZenonT(40)
    <2>5. message_counter' + NlRaising' <= hellos'
        <3>1. \A m, r, q, h, k \in Nat : m + r <= h /\ q + h = r + k => m + q <= k
            OBVIOUS
        <3> QED
            BY <1>1, <2>2, <2>3, <2>4, <3>1, ZenonT(40)
    <2>6. \A d \in NL!Clients \ {c} : NlRoom(d)' /\ NlHeard(d)'
        <3>1. \A d \in NL!Clients \ {c} : NlAside(d)
            BY <2>1, <2>2, ZenonT(40) DEF Moves, NlAside
        <3>2. NlRaising' + hellos <= NlRaising + hellos'
            <4>1. \A m, n \in Nat : m + n <= m + n
                OBVIOUS
            <4> QED
                BY <1>1, <2>4, <4>1, ZenonT(40)
        <3>3. NlOnward
            BY <1>1, <2>2, <2>3, <3>2, ZenonT(40) DEF NlOnward
        <3> QED
            BY <1>0, <3>1, <3>3, NlOthersCounted, ZenonT(40)
    <2>7. NlRoom(c)' /\ NlHeard(c)'
        BY <1>0, <2>1, <2>2, ZenonT(40) DEF NlRoom, NlHeard, NlWorking
    <2> QED
        <3>1. \A d \in NL!Clients : NlRoom(d)' /\ NlHeard(d)'
            BY <2>6, <2>7, ZenonT(40)
        <3> QED
            BY <1>1, <2>2, <2>3, <2>5, <3>1, ZenonT(40) DEF NlCountInv
<1>7. ASSUME NEW c \in NL!Clients, NL!SendFails(c) PROVE NlCountInv'
    <2>1. Moves(c, pc_nl, pc_nl', NL!Clients) /\ pc_nl[c] = "send" /\ pc_nl'[c] = "recv"
        BY <1>7, NlGoes, ZenonT(40) DEF NL!SendFails
    <2>2. NlRaising' = NlRaising
        BY <2>1, Passes, ZenonT(40) DEF NlRaising, NlIncrement
    <2>3. UNCHANGED <<message_counter, temp, hellos, step, request, strayed>> /\ lost' = lost \cup {c}
        BY <1>7, Zenon DEF NL!SendFails, NL!handler
    <2>4. \A d \in NL!Clients \ {c} : NlRoom(d)' /\ NlHeard(d)'
        <3>1. \A d \in NL!Clients \ {c} : NlAside(d)
            BY <2>1, <2>3, ZenonT(40) DEF Moves, NlAside
        <3> QED
            BY <1>0, <1>quiet, <2>2, <2>3, <3>1, NlOthersCounted, ZenonT(40)
    <2>5. NlRoom(c)' /\ NlHeard(c)'
        BY <1>0, <2>1, <2>3, ZenonT(40) DEF NlRoom, NlHeard, NlWorking
    <2> QED
        BY <1>1, <2>2, <2>3, <2>4, <2>5, ZenonT(40) DEF NlCountInv
<1>8. ASSUME NEW c \in NL!Clients, NL!Load(c) PROVE NlCountInv'
    <2>1. Moves(c, pc_nl, pc_nl', NL!Clients) /\ pc_nl[c] = "load" /\ pc_nl'[c] = "store"
        BY <1>8, NlGoes, ZenonT(40) DEF NL!Load
    <2>2. NlRaising' = NlRaising
        BY <2>1, Passes, ZenonT(40) DEF NlRaising, NlIncrement
    <2>3. /\ UNCHANGED <<message_counter, hellos, step, request, lost, strayed>>
          /\ temp' = [temp EXCEPT ![c] = message_counter]
        BY <1>8, ZenonT(40) DEF NL!Load, NL!socket
    <2>4. message_counter \in 0 .. MaxHellos
        BY <1>1
    <2>5. /\ temp' \in [NL!Clients -> 0 .. MaxHellos] /\ temp'[c] = message_counter
          /\ \A d \in NL!Clients \ {c} : temp'[d] = temp[d]
        BY <1>1, <2>3, <2>4, ZenonT(40)
    <2>6. \A d \in NL!Clients \ {c} : NlRoom(d)' /\ NlHeard(d)'
        <3>1. \A d \in NL!Clients \ {c} : NlAside(d)
            BY <2>1, <2>3, <2>5, ZenonT(40) DEF Moves, NlAside
        <3> QED
            BY <1>0, <1>quiet, <2>2, <2>3, <3>1, NlOthersCounted, ZenonT(40)
    <2>7. NlRoom(c)' /\ NlHeard(c)'
        BY <1>0, <1>1, <2>1, <2>2, <2>3, <2>5, ZenonT(40) DEF NlRoom, NlHeard, NlWorking
    <2> QED
        BY <1>1, <2>2, <2>3, <2>5, <2>6, <2>7, ZenonT(40) DEF NlCountInv
<1>9. ASSUME NEW c \in NL!Clients, NL!Store(c) PROVE NlCountInv'
    <2>1. Moves(c, pc_nl, pc_nl', NL!Clients) /\ pc_nl[c] = "store" /\ pc_nl'[c] = "reply"
        BY <1>9, NlGoes, ZenonT(40) DEF NL!Store
    <2>2. NlRaising = NlRaising' + 1
        <3>1. pc_nl[c] \in NlIncrement /\ pc_nl'[c] \notin NlIncrement
            BY <2>1, Zenon DEF NlIncrement
        <3> QED
            BY <2>1, <3>1, Leaves DEF NlRaising
    <2>3. /\ UNCHANGED <<hellos, step, request, lost, strayed>> /\ message_counter' = temp[c] + 1
          /\ temp' = [temp EXCEPT ![c] = temp[c] + 1]
        BY <1>9, Zenon DEF NL!Store, NL!socket
    <2>4. temp[c] \in Nat /\ temp[c] + NlRaising <= hellos
        BY <1>0, <2>1, ZenonT(40) DEF NlRoom
    <2>5. /\ (temp[c] + 1) + NlRaising' <= hellos /\ temp[c] + 1 \in 1 .. hellos
          /\ temp[c] + 1 \in 0 .. MaxHellos /\ NlRaising' + hellos <= NlRaising + hellos
        <3>1. \A t, r, q, h \in Nat : r = q + 1 /\ t + r <= h /\ h <= MaxHellos =>
                 /\ (t + 1) + q <= h /\ t + 1 \in 1 .. h /\ t + 1 \in 0 .. MaxHellos
                 /\ q + h <= r + h
            OBVIOUS
        <3> QED
            BY <1>0, <1>1, <2>2, <2>4, <3>1, ZenonT(40)
    <2>6. /\ temp' \in [NL!Clients -> 0 .. MaxHellos] /\ temp'[c] = temp[c] + 1
          /\ \A d \in NL!Clients \ {c} : temp'[d] = temp[d]
        BY <1>1, <2>3, <2>5, ZenonT(40)
    <2>7. message_counter' \in Nat /\ message_counter' >= 1
        BY <2>3, <2>4
    <2>8. \A d \in NL!Clients \ {c} : NlRoom(d)' /\ NlHeard(d)'
        <3>1. \A d \in NL!Clients \ {c} : NlAside(d)
            BY <2>1, <2>3, <2>6, ZenonT(40) DEF Moves, NlAside
        <3>2. NlOnward
            <4>1. hellos' = hellos /\ hellos <= hellos'
                BY <1>1, <2>3
            <4>2. NlRaising' + hellos <= NlRaising + hellos'
                BY <2>5, <4>1, ZenonT(40)
            <4> QED
                BY <1>1, <2>7, <4>1, <4>2, ZenonT(40) DEF NlOnward
        <3> QED
            BY <1>0, <3>1, <3>2, NlOthersCounted, Zenon
    <2>9. NlRoom(c)' /\ NlHeard(c)'
        BY <2>1, <2>3, <2>5, <2>6, <2>7, ZenonT(40) DEF NlRoom, NlHeard
    <2> QED
        BY <1>1, <2>3, <2>5, <2>6, <2>7, <2>8, <2>9, ZenonT(40) DEF NlCountInv
<1>10. ASSUME NEW c \in NL!Clients, NlReturns(c) PROVE NlCountInv'
    <2>0. /\ NL!Return(c) /\ lost' \subseteq lost \cup {c} /\ lost \subseteq lost'
          /\ strayed \subseteq strayed'
        BY <1>10, NlBack, ZenonT(40)
    <2>1. Moves(c, pc_nl, pc_nl', NL!Clients) /\ pc_nl[c] = "reply" /\ pc_nl'[c] = "recv"
        BY <2>0, NlGoes, ZenonT(40) DEF NL!Return
    <2>2. NlRaising' = NlRaising
        BY <2>1, Passes, ZenonT(40) DEF NlRaising, NlIncrement
    <2>3. /\ UNCHANGED <<message_counter, hellos, step, request>>
          /\ temp' = [temp EXCEPT ![c] = 0]
          /\ \A d \in NL!Clients \ {c} : d \in lost' <=> d \in lost
        BY <2>0, ZenonT(40) DEF NL!Return
    <2>4. /\ temp' \in [NL!Clients -> 0 .. MaxHellos]
          /\ \A d \in NL!Clients \ {c} : temp'[d] = temp[d]
        BY <1>1, <2>3
    <2>5. \A d \in NL!Clients \ {c} : NlRoom(d)' /\ NlHeard(d)'
        <3>1. \A d \in NL!Clients \ {c} : NlAside(d)
            BY <2>0, <2>1, <2>3, <2>4, ZenonT(40) DEF Moves, NlAside
        <3> QED
            BY <1>0, <1>quiet, <2>2, <2>3, <3>1, NlOthersCounted, ZenonT(40)
    <2>6. c \in Testers \ strayed => message_counter >= 1
        <3>1. c \in Testers => step[c] \in 1 .. 3 /\ request[c] = NL!Script[step[c]]
            BY <1>0, <2>1, ZenonT(40) DEF NlAsks, NlWorking
        <3>2. c \in Testers => request[c] = NL!HELLO \/ step[c] >= 2
            BY <3>1, NlScriptIs
        <3> QED
            BY <1>0, <2>1, <3>2, ZenonT(40) DEF NlHeard, NlWorking
    <2>7. NlRoom(c)' /\ NlHeard(c)'
        BY <2>0, <2>1, <2>3, <2>6, ZenonT(40) DEF NlRoom, NlHeard, NlWorking
    <2> QED
        BY <1>1, <2>2, <2>3, <2>4, <2>5, <2>7, ZenonT(40) DEF NlCountInv
<1>11. ASSUME NEW c \in NL!Clients, NL!Receive(c) PROVE NlCountInv'
    <2>1. Moves(c, pc_nl, pc_nl', NL!Clients) /\ pc_nl[c] = "recv" /\ pc_nl'[c] \in {"fill", "done"}
        BY <1>11, ZenonT(40) DEF NL!Receive, NlSocketInv, Moves
    <2>2. NlRaising' = NlRaising
        BY <2>1, Passes, ZenonT(40) DEF NlRaising, NlIncrement
    <2>3. /\ UNCHANGED <<message_counter, temp, hellos, step>>
          /\ \A d \in NL!Clients \ {c} : /\ request'[d] = request[d]
                                         /\ d \in lost' <=> d \in lost
                                         /\ d \in strayed => d \in strayed'
          /\ pc_nl'[c] = "fill" => lost' = lost /\ strayed' = strayed
        BY <1>11, <2>1, ZenonT(40) DEF NL!Receive, NL!Closed, NL!handler, NlSocketInv
    <2>4. \A d \in NL!Clients \ {c} : NlRoom(d)' /\ NlHeard(d)'
        <3>1. \A d \in NL!Clients \ {c} : NlAside(d)
            BY <2>1, <2>3, ZenonT(40) DEF Moves, NlAside
        <3> QED
            BY <1>0, <1>quiet, <2>2, <2>3, <3>1, NlOthersCounted, ZenonT(40)
    <2>5. c \notin lost \ strayed
        BY <1>11, <2>1, ZenonT(40) DEF NL!Receive, NlAnswerInv, NlMine
    <2>6. NlRoom(c)' /\ NlHeard(c)'
        BY <1>0, <2>1, <2>3, <2>5, ZenonT(40) DEF NlRoom, NlHeard, NlWorking
    <2> QED
        BY <1>1, <2>2, <2>3, <2>4, <2>6, ZenonT(40) DEF NlCountInv
<1>12. CASE NL!netlink_example_exit \/ UNCHANGED NL!vars
    BY <1>2, <1>12, ZenonT(40) DEF NL!netlink_example_exit, NL!vars, NL!handler, NL!socket
<1> QED
    BY <1>3, <1>4, <1>5, <1>6, <1>7, <1>8, <1>9, <1>10, <1>11, <1>12, ZenonT(40)
       DEF NL!Next, NL!Step, NL!Handler, NL!Send, NL!ToKernel, NlReturns

-----------------------------------------------------------------------------
\* A step that leaves the answer to d alone, or sends it that of another client
NlUnanswered(d) ==
    d \notin strayed' =>
        /\ pc_nl'[d] = pc_nl[d] /\ request'[d] = request[d] /\ inbox'[d] = inbox[d]
        /\ d \in lost' <=> d \in lost
        /\ d \notin strayed

\* It keeps what holds of the answer to d.
LEMMA NlMineKept ==
    ASSUME NEW c, NlMine(c), NlUnanswered(c),
           hellos \in Nat, hellos' \in Nat, hellos <= hellos'
    PROVE  NlMine(c)'
<1>1. \A n : n \in 1 .. hellos => n \in 1 .. hellos'
    OBVIOUS
<1> QED
    BY <1>1, ZenonT(40) DEF NlMine, NlUnanswered

\* Such a step of one client keeps what holds of the others.
LEMMA NlOthersMine ==
    ASSUME NEW c \in NL!Clients, \A d \in NL!Clients : NlMine(d),
           \A d \in NL!Clients \ {c} : NlUnanswered(d),
           hellos \in Nat, hellos' \in Nat, hellos <= hellos'
    PROVE  \A d \in NL!Clients \ {c} : NlMine(d)'
BY NlMineKept, ZenonT(40)

\* A socket that is emptied, or gives away its first answer, has room.
LEMMA NlRoomLeft ==
    ASSUME NEW q \in Seq(NL!Answers), Len(q) <= SocketRoom, SocketRoom \in Nat
    PROVE  /\ <<>> \in Seq(NL!Answers) /\ Len(<<>>) <= SocketRoom
           /\ q # <<>> => Tail(q) \in Seq(NL!Answers) /\ Len(Tail(q)) <= SocketRoom
OBVIOUS

\* What the handler sends is an answer; that to a tester's own HELLO or COUNTER
\* counts its HELLO.
LEMMA NlDataRight ==
    ASSUME Counts, MaxHellos \in Nat, IsFiniteSet(NL!Clients), NlSocketInv, NlCountInv,
           NEW c \in NL!Clients, pc_nl[c] = "reply", NEW d \in NL!Data(c)
    PROVE  /\ d \in -1 .. MaxHellos /\ <<request[c], d>> \in NL!Answers
           /\ c \in Testers \ strayed /\ request[c] # NL!STATUS => d \in 1 .. hellos
<1>0. NlAsks(c) /\ NlHeard(c) /\ request[c] \in NL!Types
    BY ZenonT(40) DEF NlSocketInv, NlCountInv
<1>1. /\ message_counter \in 0 .. hellos /\ hellos <= MaxHellos
      /\ message_counter \in 0 .. MaxHellos /\ temp[c] \in 0 .. MaxHellos
    <2>1. NlRaising \in Nat
        BY NumberType, ZenonT(40) DEF NlRaising
    <2> QED
        BY <2>1 DEF NlCountInv
<1>2. request[c] = NL!HELLO => temp[c] \in 1 .. hellos /\ message_counter >= 1
    BY <1>0, ZenonT(40) DEF NlHeard
<1>3. c \in Testers => request[c] \in {NL!HELLO, NL!COUNTER, NL!STATUS}
    BY <1>0, NlScriptIs DEF NlAsks, NlWorking
<1>4. c \in Testers \ strayed /\ request[c] = NL!COUNTER => message_counter >= 1
    <2>1. c \in Testers /\ request[c] = NL!COUNTER => step[c] >= 2
        BY <1>0, NlScriptIs DEF NlAsks, NlWorking, NL!HELLO, NL!COUNTER
    <2> QED
        BY <1>0, <2>1, ZenonT(40) DEF NlHeard, NlWorking
<1> DEFINE Right == /\ d \in -1 .. MaxHellos
                    /\ c \in Testers \ strayed /\ request[c] # NL!STATUS => d \in 1 .. hellos
<1>5. ASSUME request[c] = NL!HELLO PROVE Right
    BY <1>1, <1>2, <1>5 DEF NL!Data, NL!HELLO, NL!COUNTER, NL!STATUS
<1>6. ASSUME request[c] = NL!COUNTER PROVE Right
    BY <1>1, <1>4, <1>6 DEF NL!Data, NL!HELLO, NL!COUNTER, NL!STATUS
<1>7. ASSUME request[c] = NL!STATUS PROVE Right
    BY <1>7 DEF NL!Data, NL!HELLO, NL!COUNTER, NL!STATUS
<1>8. ASSUME request[c] = "other" PROVE Right
    BY <1>3, <1>8 DEF NL!Data, NL!HELLO, NL!COUNTER, NL!STATUS
<1>9. Right
    BY <1>0, <1>5, <1>6, <1>7, <1>8, ZenonT(40) DEF NL!Types
<1> QED
    BY <1>0, <1>9, ZenonT(40) DEF NL!Answers

\* Every step puts at most the one answer on the socket of the client that asked
\* and takes it off again, or sends it to another client, which has strayed then.
LEMMA NlAnswerNext ==
    ASSUME Counts, MaxHellos \in Nat, SocketRoom \in Nat, IsFiniteSet(NL!Clients), NlSocketInv,
           NlCountInv, NlCountInv', NlAnswerInv, [NL!Next]_(NL!vars)
    PROVE  NlAnswerInv'
<1>0. /\ inbox \in [NL!Clients -> Seq(NL!Answers)]
      /\ \A c \in NL!Clients : NlMine(c) /\ Len(inbox[c]) <= SocketRoom
      /\ hellos \in Nat /\ hellos' \in Nat
    BY ZenonT(40) DEF NlAnswerInv, NlCountInv
<1>1. CASE UNCHANGED <<pc_nl, request, inbox, lost, strayed, hellos>>
    BY <1>0, <1>1, ZenonT(40) DEF NlAnswerInv, NlMine
<1>2. CASE NL!netlink_example_init
    <2>1. /\ UNCHANGED <<inbox, strayed>>
          /\ \A c \in NL!Clients : pc_nl[c] # "recv" /\ pc_nl'[c] # "recv"
        BY <1>2, ZenonT(40)
           DEF NL!netlink_example_init, NL!socket, NlSocketInv, NL!SocketsPin, NL!Bound
    <2> QED
        BY <1>0, <2>1, ZenonT(40) DEF NlAnswerInv, NlMine
<1>3. ASSUME NEW c \in NL!Clients, NEW from \in NL!Labels \ {"recv"}, NEW to \in NL!Labels \ {"recv"},
             NL!Goto(c, from, to), UNCHANGED <<inbox, lost, strayed>>, hellos <= hellos',
             \A d \in NL!Clients \ {c} : request'[d] = request[d]
      PROVE  NlAnswerInv'
    <2>1. Moves(c, pc_nl, pc_nl', NL!Clients) /\ pc_nl[c] # "recv" /\ pc_nl'[c] # "recv"
        BY <1>3, NlGoes, ZenonT(40)
    <2>2. \A d \in NL!Clients \ {c} : NlMine(d)'
        <3>1. \A d \in NL!Clients \ {c} : NlUnanswered(d)
            BY <1>3, <2>1, ZenonT(40) DEF Moves, NlUnanswered
        <3> QED
            BY <1>0, <1>3, <3>1, NlOthersMine, ZenonT(40)
    <2>3. NlMine(c)'
        BY <1>0, <1>3, <2>1, ZenonT(40) DEF NlMine
    <2> QED
        BY <1>0, <1>3, <2>2, <2>3, ZenonT(40) DEF NlAnswerInv
<1>4. ASSUME NEW c \in NL!Clients, NL!OpenSocket(c) \/ NL!Load(c) \/ NL!Store(c) PROVE NlAnswerInv'
    <2>1. UNCHANGED <<inbox, lost, strayed, hellos, request>>
        BY <1>4, ZenonT(40) DEF NL!OpenSocket, NL!Load, NL!Store, NL!handler, NL!socket
    <2>2. hellos <= hellos'
        BY <1>0, <2>1
    <2> QED
        BY <1>3, <1>4, <2>1, <2>2, ZenonT(40) DEF NL!OpenSocket, NL!Load, NL!Store, NL!Labels
<1>5. ASSUME NEW c \in NL!Clients, NL!Fill(c) PROVE NlAnswerInv'
    <2>1. /\ UNCHANGED <<inbox, lost, strayed, hellos>> /\ NL!Goto(c, "fill", "send")
          /\ \A d \in NL!Clients \ {c} : request'[d] = request[d]
        BY <1>5, ZenonT(40) DEF NL!Fill, NL!handler, NL!socket, NlSocketInv
    <2>2. hellos <= hellos'
        BY <1>0, <2>1
    <2> QED
        BY <1>3, <2>1, <2>2, ZenonT(40) DEF NL!Labels
<1>6. ASSUME NEW c \in NL!Clients, NEW from \in {"send", "reply"}, NL!Enter(c, from)
      PROVE  NlAnswerInv'
    <2>1. UNCHANGED <<inbox, lost, strayed, request>>
        BY <1>6, ZenonT(40) DEF NL!Enter, NL!socket
    <2>2. hellos <= hellos'
        BY <1>0, <1>6 DEF NL!Enter
    <2>3. PICK to \in {"load", "reply"} : NL!Goto(c, from, to)
        BY <1>6, ZenonT(40) DEF NL!Enter
    <2>4. from \in NL!Labels \ {"recv"} /\ to \in NL!Labels \ {"recv"}
        BY <1>6, <2>3, ZenonT(40) DEF NL!Labels
    <2> QED
        BY <1>3, <2>1, <2>2, <2>3, <2>4, ZenonT(40)
<1>7. ASSUME NEW c \in NL!Clients, NL!SendFails(c) \/ NL!Refused(c) \/ NL!ReplyFails(c)
      PROVE  NlAnswerInv'
    <2>1. Moves(c, pc_nl, pc_nl', NL!Clients) /\ pc_nl[c] # "recv" /\ pc_nl'[c] = "recv"
        <3>1. PICK from \in {"send", "reply"} : NL!Goto(c, from, "recv")
            BY <1>7, Zenon DEF NL!SendFails, NL!Refused, NL!ReplyFails, NL!Return
        <3>2. from # "recv"
            BY <3>1
        <3> QED
            BY <3>1, <3>2, NlGoes, ZenonT(40)
    <2>2. UNCHANGED <<inbox, hellos, request, strayed>> /\ lost' = lost \cup {c}
        BY <1>7, ZenonT(40) DEF NL!SendFails, NL!Refused, NL!ReplyFails, NL!Return, NL!handler
    <2>3. \A d \in NL!Clients \ {c} : NlMine(d)'
        <3>1. \A d \in NL!Clients \ {c} : NlUnanswered(d)
            BY <2>1, <2>2, ZenonT(40) DEF Moves, NlUnanswered
        <3>2. hellos <= hellos'
            BY <1>0, <2>2
        <3> QED
            BY <1>0, <3>1, <3>2, NlOthersMine, Zenon
    <2>4. NlMine(c)'
        BY <1>0, <2>1, <2>2, ZenonT(40) DEF NlMine
    <2> QED
        BY <1>0, <2>2, <2>3, <2>4, ZenonT(40) DEF NlAnswerInv
<1>8. ASSUME NEW c \in NL!Clients, NL!send_message_to_user(c) PROVE NlAnswerInv'
    <2> DEFINE to == nlmsg_pid[c]
    <2>1. /\ Moves(c, pc_nl, pc_nl', NL!Clients) /\ pc_nl[c] = "reply" /\ pc_nl'[c] = "recv"
          /\ UNCHANGED <<hellos, request>>
        BY <1>8, NlGoes, ZenonT(40) DEF NL!send_message_to_user, NL!Return
    <2>2. PICK d \in NL!Data(c) : inbox' = [inbox EXCEPT ![to] = Append(inbox[to], <<request[c], d>>)]
        BY <1>8, ZenonT(40) DEF NL!send_message_to_user
    <2>3. /\ to \in NL!Clients /\ Len(inbox[to]) < SocketRoom
          /\ lost' = IF to = c THEN lost ELSE lost \cup {c}
          /\ strayed' = IF to = c THEN strayed ELSE strayed \cup {to}
        BY <1>8, ZenonT(40) DEF NL!send_message_to_user, NL!Takes
    <2>4. /\ d \in -1 .. MaxHellos /\ <<request[c], d>> \in NL!Answers
          /\ c \in Testers \ strayed /\ request[c] # NL!STATUS => d \in 1 .. hellos
        BY <2>1, NlDataRight, ZenonT(40)
    <2> HIDE DEF to
    <2>5. /\ Append(inbox[to], <<request[c], d>>) \in Seq(NL!Answers)
          /\ Len(Append(inbox[to], <<request[c], d>>)) <= SocketRoom
          /\ inbox[to] = <<>> => Append(inbox[to], <<request[c], d>>) = <<<<request[c], d>>>>
        <3>1. ASSUME NEW q \in Seq(NL!Answers), NEW a \in NL!Answers, Len(q) < SocketRoom
              PROVE  /\ Append(q, a) \in Seq(NL!Answers) /\ Len(Append(q, a)) <= SocketRoom
                     /\ q = <<>> => Append(q, a) = <<a>>
            <4>1. Append(q, a) \in Seq(NL!Answers) /\ Len(Append(q, a)) = Len(q) + 1
                OBVIOUS
            <4>2. Append(<<>>, a) = <<a>>
                OBVIOUS
            <4>3. Len(q) + 1 <= SocketRoom
                BY <3>1
            <4> QED
                BY <4>1, <4>2, <4>3, ZenonT(40)
        <3> QED
            BY <1>0, <2>3, <2>4, <3>1, ZenonT(40)
    <2>6. /\ inbox' \in [NL!Clients -> Seq(NL!Answers)]
          /\ \A e \in NL!Clients : Len(inbox'[e]) <= SocketRoom
          /\ inbox'[to] = Append(inbox[to], <<request[c], d>>)
          /\ \A e \in NL!Clients \ {to} : inbox'[e] = inbox[e]
        BY <1>0, <2>2, <2>3, <2>5, ZenonT(40)
    <2>7. \A e \in NL!Clients \ {c} : NlMine(e)'
        <3>1. \A e \in NL!Clients \ {c} : NlUnanswered(e)
            BY <2>1, <2>3, <2>6, ZenonT(40) DEF Moves, NlUnanswered
        <3>2. hellos <= hellos'
            BY <1>0, <2>1
        <3> QED
            BY <1>0, <3>1, <3>2, NlOthersMine, ZenonT(40)
    <2>8. NlMine(c)'
        <3>1. c \notin strayed => inbox[c] = <<>> /\ c \notin lost
            BY <1>0, <2>1, ZenonT(40) DEF NlMine, NlSocketInv
        <3>2. CASE to = c
            BY <2>1, <2>3, <2>4, <2>5, <2>6, <3>1, <3>2, ZenonT(40) DEF NlMine
        <3>3. CASE to # c
            BY <2>3, <2>6, <3>1, <3>3, ZenonT(40) DEF NlMine
        <3> QED
            BY <3>2, <3>3, ZenonT(40)
    <2> QED
        BY <2>6, <2>7, <2>8, ZenonT(40) DEF NlAnswerInv
<1>9. ASSUME NEW c \in NL!Clients, NL!Receive(c) \/ NL!Leave(c) PROVE NlAnswerInv'
    <2>1. /\ Moves(c, pc_nl, pc_nl', NL!Clients) /\ pc_nl'[c] # "recv"
          /\ UNCHANGED hellos /\ \A d \in NL!Clients \ {c} : request'[d] = request[d]
        BY <1>9, ZenonT(40) DEF NL!Receive, NL!Leave, NL!handler, NlSocketInv, Moves
    <2>2. \/ NL!Closed(c)
          \/ /\ pc_nl[c] = "recv" /\ inbox[c] # <<>> /\ UNCHANGED <<lost, strayed>>
             /\ inbox' = [inbox EXCEPT ![c] = Tail(inbox[c])]
        BY <1>9, ZenonT(40) DEF NL!Receive, NL!Leave
    <2>3. PICK q \in Seq(NL!Answers) : /\ inbox' = [inbox EXCEPT ![c] = q] /\ Len(q) <= SocketRoom
                                       /\ q = <<>> \/ q = Tail(inbox[c])
        BY <1>0, <2>2, NlRoomLeft, ZenonT(40) DEF NL!Closed
    <2>4. /\ inbox' \in [NL!Clients -> Seq(NL!Answers)]
          /\ \A d \in NL!Clients : Len(inbox'[d]) <= SocketRoom
          /\ \A d \in NL!Clients \ {c} : inbox'[d] = inbox[d]
        BY <1>0, <2>3, ZenonT(40)
    <2>5. \A d \in NL!Clients \ {c} : NlMine(d)'
        <3>1. \A d \in NL!Clients \ {c} : NlUnanswered(d)
            BY <2>1, <2>2, <2>4, ZenonT(40) DEF NL!Closed, Moves, NlUnanswered
        <3>2. hellos <= hellos'
            BY <1>0, <2>1
        <3> QED
            BY <1>0, <3>1, <3>2, NlOthersMine, ZenonT(40)
    <2>6. NlMine(c)'
        <3>1. \A a : Tail(<<a>>) = <<>>
            OBVIOUS
        <3>2. CASE NL!Closed(c)
            BY <1>0, <2>1, <3>2, ZenonT(40) DEF NL!Closed, NlMine
        <3>3. CASE pc_nl[c] = "recv" /\ inbox[c] # <<>> /\ UNCHANGED <<lost, strayed>>
                   /\ inbox' = [inbox EXCEPT ![c] = Tail(inbox[c])]
            <4>1. c \notin strayed => \E a : inbox[c] = <<a>>
                BY <1>0, <3>3, ZenonT(40) DEF NlMine
            <4>2. inbox'[c] = Tail(inbox[c])
                BY <1>0, <3>3, ZenonT(40)
            <4> QED
                BY <2>1, <3>1, <3>3, <4>1, <4>2, ZenonT(40) DEF NlMine
        <3> QED
            BY <2>2, <3>2, <3>3, ZenonT(40)
    <2> QED
        BY <2>4, <2>5, <2>6, ZenonT(40) DEF NlAnswerInv
<1>10. CASE NL!netlink_example_exit \/ UNCHANGED NL!vars
    BY <1>1, <1>10, ZenonT(40) DEF NL!netlink_example_exit, NL!vars, NL!handler, NL!socket
<1> QED
    BY <1>2, <1>4, <1>5, <1>6, <1>7, <1>8, <1>9, <1>10, ZenonT(40)
       DEF NL!Next, NL!Step, NL!Handler, NL!Send, NL!ToKernel

-----------------------------------------------------------------------------
\* What the property asks for follows.
LEMMA NlAnswered ==
    ASSUME MaxHellos \in Nat, IsFiniteSet(NL!Clients), Counts, NlSocketInv, NlCountInv, NlAnswerInv
    PROVE  NL!AnswerIsMine /\ NL!CounterWithinHellos
<1>1. \A c \in NL!Clients : NlMine(c)
    BY Zenon DEF NlAnswerInv
<1>2. \A a : Len(<<a>>) = 1 /\ Head(<<a>>) = a /\ <<a>> # <<>>
    OBVIOUS
<1>3. ASSUME NEW c \in NL!Clients \ strayed
      PROVE  /\ pc_nl[c] = "recv" /\ inbox[c] # <<>> =>
                   Len(inbox[c]) = 1 /\ Head(inbox[c])[1] = request[c] /\ c \notin lost
             /\ pc_nl[c] = "recv" /\ inbox[c] = <<>> => c \in lost
             /\ pc_nl[c] # "recv" => inbox[c] = <<>>
    <2>1. CASE pc_nl[c] = "recv" /\ c \notin lost
        <3>1. PICK d : inbox[c] = <<<<request[c], d>>>>
            BY <1>1, <2>1, ZenonT(40) DEF NlMine
        <3>2. <<request[c], d>>[1] = request[c]
            BY ZenonT(40)
        <3> QED
            BY <1>2, <2>1, <3>1, <3>2, ZenonT(40)
    <2>2. CASE ~(pc_nl[c] = "recv" /\ c \notin lost)
        BY <1>1, <2>2, ZenonT(40) DEF NlMine
    <2> QED
        BY <2>1, <2>2, ZenonT(40)
<1>4. NlRaising \in Nat /\ message_counter <= hellos
    BY NumberType DEF NlCountInv, NlRaising
<1>5. \A c \in Testers \ strayed : pc_nl[c] = "recv" /\ inbox[c] # <<>> /\ request[c] # NL!STATUS =>
          Head(inbox[c])[2] \in 1 .. hellos
    BY <1>1, <1>2 DEF NlMine, NL!Clients
<1> QED
    BY <1>3, <1>4, <1>5, ZenonT(40) DEF NL!AnswerIsMine, NL!CounterWithinHellos

\* So do the types.
LEMMA NlTyped ==
    ASSUME MaxHellos \in Nat, IsFiniteSet(NL!Clients), Counts, NlSocketInv, NlCountInv, NlAnswerInv
    PROVE  NL!TypeOK
<1>1. message_counter \in 0 .. MaxHellos /\ hellos \in 0 .. MaxHellos
    <2>1. NlRaising \in Nat
        BY NumberType, ZenonT(40) DEF NlRaising
    <2> QED
        BY <2>1 DEF NlCountInv
<1>2. \A c \in NL!Clients : inbox[c] \in Seq(NL!Answers) /\ Len(inbox[c]) <= SocketRoom
    BY ZenonT(40) DEF NlAnswerInv
<1> QED
    BY <1>1, <1>2, NlScriptIs, ZenonT(40) DEF NL!TypeOK, NlSocketInv, NlCountInv

-----------------------------------------------------------------------------
INSTANCE FiniteSetTheorems

\* The number of a finite set's members at some places is at most the number
\* of its members ...
LEMMA FiniteNumber ==
    ASSUME NEW S, IsFiniteSet(S), NEW L, NEW f
    PROVE  /\ IsFiniteSet(At(f, S, L)) /\ Number(f, S, L) \in Nat
           /\ Cardinality(S) \in Nat /\ Number(f, S, L) <= Cardinality(S)
<1>1. At(f, S, L) \subseteq S
    BY ZenonT(40) DEF At
<1> QED
    BY <1>1, FS_Subset, FS_CardinalityType, ZenonT(40) DEF Number

\* ... and is one more when one of them has come.
LEMMA OneComes ==
    ASSUME NEW S, IsFiniteSet(S), NEW L, NEW f, NEW g, NEW x \in S,
           Moves(x, f, g, S), g[x] \in L, f[x] \notin L
    PROVE  Number(g, S, L) = Number(f, S, L) + 1
<1>1. At(g, S, L) = At(f, S, L) \cup {x} /\ x \notin At(f, S, L)
    BY DEF At, Moves
<1>2. IsFiniteSet(At(f, S, L))
    BY FiniteNumber, ZenonT(40)
<1>3. Cardinality(At(f, S, L) \cup {x}) = Cardinality(At(f, S, L)) + 1
    BY <1>1, <1>2, FS_AddElement, ZenonT(40)
<1> QED
    BY <1>1, <1>3, ZenonT(40) DEF Number

\* The facts that the proofs about counters assume: a process that reaches or
\* leaves a stage of a handler changes the number of those at that stage by one
\* (the handlers of interrupt_demo.c, tasklet_proirity.c, threaded_irq_demo.c,
\* netlink_example.c and shared_memory_demo.c).
LEMMA CountsHold == Counts
<1>1. \A S, x : IsFiniteSet(S) => IsFiniteSet(S \cup {x})
    BY FS_AddElement, ZenonT(40)
<1>2. Cardinality({}) = 0
    BY FS_EmptySet, ZenonT(40)
<1>3. \A S, L, f : IsFiniteSet(S) => /\ Number(f, S, L) \in Nat /\ Cardinality(S) \in Nat
                                      /\ Number(f, S, L) <= Cardinality(S)
    BY FiniteNumber, ZenonT(40)
<1>4. \A S, L, f, g, x : /\ IsFiniteSet(S) /\ x \in S /\ Moves(x, f, g, S)
                         /\ g[x] \in L /\ f[x] \notin L
                         => Number(g, S, L) = Number(f, S, L) + 1
    BY OneComes
<1> QED
    BY <1>1, <1>2, <1>3, <1>4, ZenonT(40) DEF Counts

-----------------------------------------------------------------------------
\* The three parts of the invariant are inductive together.
LEMMA NlCorrect == NL!Spec => [](NlSocketInv /\ NlCountInv /\ NlAnswerInv)
<1>1. /\ MaxHellos \in Nat /\ SocketRoom \in Nat /\ IsFiniteSet(NL!Clients) /\ Counts
      /\ OtherTypes \subseteq NL!Types /\ Testers \cap Others = {}
    BY NetlinkAssumption, CountsHold, ZenonT(40) DEF NL!Clients
<1>2. NL!Init => NlSocketInv /\ NlCountInv /\ NlAnswerInv
    BY <1>1, NlSocketInit, NlCountInit, ZenonT(40)
<1>3. NlSocketInv /\ NlCountInv /\ NlAnswerInv /\ [NL!Next]_(NL!vars)
      => (NlSocketInv /\ NlCountInv /\ NlAnswerInv)'
    BY <1>1, NlSocketNext, NlCountNext, NlAnswerNext, ZenonT(40)
<1> QED
    BY <1>2, <1>3, PTL DEF NL!Spec

\* Whatever pids other clients write into their headers, a client to which none
\* of them has directed an answer finds on its socket its own, once, or none; the
\* unlocked counter never runs ahead of the HELLOs; and sockets keep the module
\* (netlink_example.c:21-96, 119-125, netlink_test.c:69-120).
THEOREM NetlinkAlways == NL!Spec => []NetlinkRight
<1>1. NlSocketInv /\ NlCountInv /\ NlAnswerInv => NetlinkRight
    <2>1. MaxHellos \in Nat /\ IsFiniteSet(NL!Clients) /\ Counts
        BY NetlinkAssumption, CountsHold, Zenon DEF NL!Clients
    <2> QED
        BY <2>1, NlAnswered, ZenonT(40) DEF NetlinkRight, NlSocketInv
<1> QED
    BY <1>1, NlCorrect, PTL

\* Requests, answers and counters keep their types (netlink_example.c:21-96).
THEOREM NetlinkTyped == NL!Spec => []NL!TypeOK
<1>1. NlSocketInv /\ NlCountInv /\ NlAnswerInv => NL!TypeOK
    <2>1. MaxHellos \in Nat /\ IsFiniteSet(NL!Clients) /\ Counts
        BY NetlinkAssumption, CountsHold, Zenon DEF NL!Clients
    <2> QED
        BY <2>1, NlTyped, ZenonT(40)
<1> QED
    BY <1>1, NlCorrect, PTL

-----------------------------------------------------------------------------
\* The module comes and goes as DeviceModule does, proved there.
LV == INSTANCE DeviceModule_proofs WITH
          Procs <- Callers, Objects <- VM!Objects, mapped <- mapped_vm, phase <- phase_vm,
          made <- made_vm, opened <- opened_vm

\* Every step of the device is one of DeviceModule or leaves its state alone
\* (vma_allocation.c:81-91, 148-272).
LEMMA VmLife == VM!Spec => LV!Spec
<1>1. VM!Init => LV!Init
    BY ZenonT(40) DEF VM!Init, VM!DM!Init, LV!Init
<1>2. [VM!Next]_(VM!vars) => [LV!Next]_(LV!vars)
    <2> SUFFICES ASSUME [VM!Next]_(VM!vars) PROVE [LV!Next]_(LV!vars)
        BY ZenonT(40)
    <2> USE DEF LV!Next
    <2>1. CASE VM!simple_vma_init
        BY <2>1, ZenonT(40) DEF VM!simple_vma_init, VM!DM!InitBegin, LV!InitBegin
    <2>2. CASE VM!DM!Lifecycle
        BY <2>2, ZenonT(40)
           DEF VM!DM!Lifecycle, VM!DM!Make, VM!DM!MakeFails, VM!DM!ExitBegin, VM!DM!Undo,
                    VM!DM!Gone, VM!DM!ButLast, LV!ButLast,
                    LV!Lifecycle, LV!Make, LV!MakeFails, LV!ExitBegin, LV!Undo, LV!Gone
    <2>3. ASSUME NEW p \in Callers, VM!example_char_open(p) \/ VM!example_char_release(p)
          PROVE  LV!Next
        BY <2>3, ZenonT(40)
           DEF VM!example_char_open, VM!example_char_release, VM!DM!Open, VM!DM!Close,
                    LV!Open, LV!Close
    <2>4. ASSUME NEW p \in Callers, VM!example_char_mmap(p) \/ VM!Unmap(p) PROVE LV!Next
        BY <2>4, ZenonT(40)
           DEF VM!example_char_mmap, VM!Unmap, VM!DM!Mmap, VM!DM!Munmap, LV!Mmap, LV!Munmap
    <2>5. CASE UNCHANGED VM!device
        BY <2>5, ZenonT(40) DEF VM!device, LV!vars
    <2>6. ASSUME NEW p \in Callers, VM!Touch(p) \/ VM!Store(p) \/ VM!Call(p) \/ VM!Interrupted(p)
                                    \/ VM!CopyStops(p)
          PROVE  UNCHANGED VM!device
        BY <2>6, ZenonT(40) DEF VM!Touch, VM!Store, VM!Call, VM!Interrupted, VM!CopyStops
    <2>7. ASSUME NEW p \in Callers, VM!Body(p) PROVE UNCHANGED VM!device
        BY <2>7, ZenonT(40)
           DEF VM!Body, VM!Lock, VM!Check, VM!Copy, VM!CopyFaults, VM!Advance, VM!Unlock,
                    VM!Return
    <2> QED
        BY <2>1, <2>2, <2>3, <2>4, <2>5, <2>6, <2>7, ZenonT(40)
           DEF VM!Next, VM!Module, VM!Files, VM!vars
<1> QED
    BY <1>1, <1>2, PTL DEF VM!Spec, LV!Spec

\* What DeviceModule promises holds of the device.
LEMMA VmOrderly == LV!Spec => [](LV!TypeOK /\ LV!BufferOutlivesUsers /\ LV!NothingLeftBehind)
<1>0. /\ VM!Objects \in Seq({"dev", "buffer", "region", "cdev", "class", "node"})
      /\ VM!Objects # <<>>
    BY DEF VM!Objects
<1>1. LV!Spec => []LV!TypeOK
    BY <1>0, LV!TypeCorrect, ZenonT(40)
<1>2. LV!Spec => []LV!BufferOutlivesUsers
    BY <1>0, LV!UsersFindAll, ZenonT(40)
<1>3. LV!Spec => []LV!NothingLeftBehind
    BY <1>0, LV!AllOrNothing, ZenonT(40)
<1> QED
    BY <1>1, <1>2, <1>3, PTL

\* The four parts of the invariant are inductive, each on the ones before it.
LEMMA VmCorrect == VM!Spec => [](VmMutexInv /\ VmCallInv /\ VmMapInv /\ VmMomentInv)
<1>1. VmSizes
    BY MappedAssumption, ZenonT(40) DEF VmSizes
<1>2. VM!Init => VmMutexInv /\ VmCallInv /\ VmMapInv /\ VmMomentInv
    BY <1>1, VmMutexInit, ZenonT(40)
<1>3. VmMutexInv /\ VmCallInv /\ VmMapInv /\ VmMomentInv /\ [VM!Next]_(VM!vars)
      => (VmMutexInv /\ VmCallInv /\ VmMapInv /\ VmMomentInv)'
    BY <1>1, VmMutexNext, VmCallNext, VmMapNext, VmMomentNext, ZenonT(40)
<1> QED
    BY <1>2, <1>3, PTL DEF VM!Spec

\* A fault puts the page of the file at the offset of the mapping there or
\* nothing; a read under the mutex delivers the buffer of one moment unless a
\* mapping was stored to; and the module stays while it is used
\* (vma_allocation.c:39-72, 93-117, 182-272).
THEOREM MappedDeviceAlways == VM!Spec => []MappedDeviceRight
<1>1. VmMapInv /\ VmMomentInv /\ LV!BufferOutlivesUsers /\ LV!NothingLeftBehind
      => MappedDeviceRight
    BY VmMoment, ZenonT(40) DEF MappedDeviceRight, VmMapInv,
           LV!BufferOutlivesUsers, VM!DM!BufferOutlivesUsers,
           LV!NothingLeftBehind, VM!DM!NothingLeftBehind
<1> QED
    BY <1>1, VmCorrect, VmLife, VmOrderly, PTL

\* Positions, counts and page tables keep their types: no position and no copy
\* leaves the buffer (vma_allocation.c:93-171).
THEOREM MappedDeviceTyped == VM!Spec => []VM!TypeOK
<1>1. VmMutexInv /\ VmCallInv /\ VmMapInv /\ VmMomentInv /\ LV!TypeOK => VM!TypeOK
    <2>1. LV!TypeOK => VM!DM!TypeOK
        BY ZenonT(40) DEF LV!TypeOK, VM!DM!TypeOK, LV!ObjectSet, VM!DM!ObjectSet
    <2> QED
        BY <2>1, MappedAssumption, VmTypes, ZenonT(40) DEF VmSizes
<1> QED
    BY <1>1, VmCorrect, VmLife, VmOrderly, PTL

=============================================================================
