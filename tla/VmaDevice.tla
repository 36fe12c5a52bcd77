----------------------------- MODULE VmaDevice ------------------------------
(***************************************************************************)
(* examples/class_7/02_vma_allocation/vma_allocation.c                     *)
(*                                                                         *)
(* A buffer of NPages pages that processes read and write through the      *)
(* device, under a mutex, and through mappings that are filled in by page  *)
(* faults, under none.  Positions and counts are in pages.  The memory a   *)
(* process hands to read and write may itself be its mapping of the        *)
(* device: then the copy faults while the mutex is held.                   *)
(***************************************************************************)
EXTENDS Naturals, Sequences

CONSTANTS Procs,         \* user processes, each with a descriptor of its own
          NPages,        \* BUFFER_SIZE in pages
          Pgoffs,        \* offsets at which they map the device
          Mappers,       \* those of them that map it
          MaxCalls       \* bound on the calls of all of them together

Nobody == "nobody"
Pages  == 0 .. NPages - 1
Slots  == Pages          \* pages of a mapping, which is at most as large as the buffer

VARIABLES phase, made, opened, mapped,       \* of DeviceModule
          buffer,        \* who wrote each page last
          mutex,
          f_pos,         \* of each descriptor
          vm_pgoff,      \* of each mapping
          pte,           \* page of the buffer behind each slot of a mapping that has one
          pc, op, count,
          user,          \* where the caller's memory is: heap, or the mapping
          copied,        \* pages the copy has moved
          got,           \* what a read has delivered to the heap
          ret,
          calls,
          before,        \* history: the buffer when the mutex was taken
          poked          \* history: calls during which a mapping was stored to

\* what init obtains, in its order: kzalloc, vmalloc,
\* alloc_chrdev_region, cdev_add, class_create, device_create
Objects == <<"dev", "buffer", "region", "cdev", "class", "node">>

DM == INSTANCE DeviceModule

device == <<phase, made, opened, mapped>>
call   == <<pc, op, count, user, copied, got, ret, calls, before, poked>>
vars == <<device, buffer, mutex, f_pos, vm_pgoff, pte, call>>

Labels == {"idle", "lock", "check", "copy", "unlock", "return"}
Rets   == {"ok", "end", "ERESTARTSYS", "EFAULT", "ENOSPC"}
Owners == Procs \cup {Nobody}

TypeOK ==
    /\ DM!TypeOK
    /\ buffer \in [Pages -> Owners] /\ mutex \in Owners
    /\ f_pos \in [Procs -> 0 .. NPages]
    /\ vm_pgoff \in [Procs -> Pgoffs \cup {0}]
    /\ \A p \in Procs : DOMAIN pte[p] \subseteq Slots /\ \A s \in DOMAIN pte[p] : pte[p][s] \in Nat
    /\ pc \in [Procs -> Labels] /\ op \in [Procs -> {"read", "write"}]
    /\ count \in [Procs -> 0 .. NPages] /\ copied \in [Procs -> 0 .. NPages]
    /\ user \in [Procs -> {"heap", "mapping"}]
    /\ \A p \in Procs : got[p] \in Seq(Owners) /\ before[p] \in [Pages -> Owners]
    /\ ret \in [Procs -> Rets] /\ calls \in 0 .. MaxCalls
    /\ poked \subseteq Procs

Fresh == [i \in Pages |-> Nobody]

Init ==
    /\ DM!Init
    /\ buffer = Fresh /\ mutex = Nobody
    /\ f_pos = [p \in Procs |-> 0]
    /\ vm_pgoff = [p \in Procs |-> 0]
    /\ pte = [p \in Procs |-> <<>>]
    /\ pc = [p \in Procs |-> "idle"]
    /\ op = [p \in Procs |-> "read"]
    /\ count = [p \in Procs |-> 0]
    /\ user = [p \in Procs |-> "heap"]
    /\ copied = [p \in Procs |-> 0]
    /\ got = [p \in Procs |-> <<>>]
    /\ ret = [p \in Procs |-> "ok"]
    /\ calls = 0
    /\ before = [p \in Procs |-> Fresh]
    /\ poked = {}

Goto(p, from, to) == pc[p] = from /\ pc' = [pc EXCEPT ![p] = to]

-----------------------------------------------------------------------------
\* vmalloc and memset(buffer, 0x42): a buffer nobody has written to
simple_vma_init ==
    /\ DM!InitBegin
    /\ buffer' = Fresh
    /\ UNCHANGED <<mutex, f_pos, vm_pgoff, pte, call>>

Module ==
    \/ simple_vma_init
    \/ DM!Lifecycle /\ UNCHANGED <<buffer, mutex, f_pos, vm_pgoff, pte, call>>

example_char_open(p) ==
    /\ DM!Open(p)
    /\ UNCHANGED <<buffer, mutex, f_pos, vm_pgoff, pte, call>>

example_char_release(p) ==
    /\ pc[p] = "idle"
    /\ DM!Close(p)
    /\ f_pos' = [f_pos EXCEPT ![p] = 0]
    /\ UNCHANGED <<buffer, mutex, vm_pgoff, pte, call>>

\* The size is at most the buffer's; the offset is not looked at.
example_char_mmap(p) ==
    /\ p \in Mappers /\ pc[p] = "idle"
    /\ DM!Mmap(p)
    /\ \E o \in Pgoffs : vm_pgoff' = [vm_pgoff EXCEPT ![p] = o]
    /\ UNCHANGED <<buffer, mutex, f_pos, pte, call>>

Unmap(p) ==
    /\ pc[p] = "idle"
    /\ DM!Munmap(p)
    /\ vm_pgoff' = [vm_pgoff EXCEPT ![p] = 0]
    /\ pte' = [pte EXCEPT ![p] = <<>>]
    /\ UNCHANGED <<buffer, mutex, f_pos, call>>

-----------------------------------------------------------------------------
\* Fault: the limit is off by one page.
FaultsPast(p, s) == s + vm_pgoff[p] > NPages

\* offset >= BUFFER_SIZE: VM_FAULT_SIGBUS
FaultsBeyond(p, s) == s + vm_pgoff[p] >= NPages

\* buffer + pgoff * PAGE_SIZE, through vmalloc_to_page
MapPage(p, s) ==
    pte' = [pte EXCEPT ![p] = [t \in DOMAIN @ \cup {s} |-> IF t = s THEN s + vm_pgoff[p] ELSE @[t]]]

\* example_vma_fault, raised by the process' own access to its mapping
Touch(p) ==
    /\ p \in mapped /\ pc[p] = "idle"
    /\ \E s \in Slots \ DOMAIN pte[p] : ~FaultsBeyond(p, s) /\ MapPage(p, s)
    /\ UNCHANGED <<device, buffer, mutex, f_pos, vm_pgoff, call>>

\* a store through a page that is mapped; no lock, no system call
Store(p) ==
    /\ p \in mapped /\ pc[p] = "idle"
    /\ \E s \in DOMAIN pte[p] : buffer' = [buffer EXCEPT ![pte[p][s]] = p]
    /\ buffer' # buffer
    /\ poked' = {q \in Procs : pc[q] # "idle"}
    /\ UNCHANGED <<device, mutex, f_pos, vm_pgoff, pte, pc, op, count, user, copied, got, ret,
                   calls, before>>

-----------------------------------------------------------------------------
\* read(2) and write(2)
Call(p) ==
    /\ p \in opened /\ calls < MaxCalls
    /\ Goto(p, "idle", "lock")
    /\ \E o \in {"read", "write"} : op' = [op EXCEPT ![p] = o]
    /\ \E n \in 1 .. NPages : count' = [count EXCEPT ![p] = n]
    /\ \E u \in {"heap", "mapping"} :
        /\ u = "mapping" => p \in mapped
        /\ user' = [user EXCEPT ![p] = u]
    /\ calls' = calls + 1
    /\ UNCHANGED <<device, buffer, mutex, f_pos, vm_pgoff, pte, copied, got, ret, before, poked>>

\* Fault: the copy does not wait for the mutex.
LockUnchecked(p) ==
    /\ Goto(p, "lock", "check")
    /\ mutex' = p
    /\ before' = [before EXCEPT ![p] = buffer]
    /\ poked' = poked \ {p}
    /\ UNCHANGED <<device, buffer, f_pos, vm_pgoff, pte, op, count, user, copied, got, ret, calls>>

\* mutex_lock_interruptible
Lock(p) ==
    /\ mutex = Nobody
    /\ Goto(p, "lock", "check")
    /\ mutex' = p
    /\ before' = [before EXCEPT ![p] = buffer]
    /\ poked' = poked \ {p}
    /\ UNCHANGED <<device, buffer, f_pos, vm_pgoff, pte, op, count, user, copied, got, ret, calls>>

\* ... or a signal before the mutex is had
Interrupted(p) ==
    /\ Goto(p, "lock", "return")
    /\ ret' = [ret EXCEPT ![p] = "ERESTARTSYS"]
    /\ UNCHANGED <<device, buffer, mutex, f_pos, vm_pgoff, pte, op, count, user, copied, got,
                   calls, before, poked>>

\* if (*ppos + count > BUFFER_SIZE) count = BUFFER_SIZE - *ppos
Cut(p) == IF f_pos[p] + count[p] > NPages THEN NPages - f_pos[p] ELSE count[p]

\* *ppos >= BUFFER_SIZE: end of file for a read, no space for a write
Check(p) ==
    /\ pc[p] = "check"
    /\ IF f_pos[p] >= NPages
       THEN /\ Goto(p, "check", "unlock")
            /\ ret' = [ret EXCEPT ![p] = IF op[p] = "read" THEN "end" ELSE "ENOSPC"]
            /\ UNCHANGED count
       ELSE /\ Goto(p, "check", "copy")
            /\ count' = [count EXCEPT ![p] = Cut(p)]
            /\ UNCHANGED ret
    /\ UNCHANGED <<device, buffer, mutex, f_pos, vm_pgoff, pte, op, user, copied, got, calls,
                   before, poked>>

\* the next page of the caller's memory is in the mapping and not there yet
NeedsFault(p) == user[p] = "mapping" /\ copied[p] \notin DOMAIN pte[p]

\* copy_to_user and copy_from_user, page by page
Copy(p) ==
    /\ pc[p] = "copy" /\ copied[p] < count[p] /\ ~NeedsFault(p)
    /\ LET here == f_pos[p] + copied[p]
           from == IF op[p] = "read" THEN buffer[here]
                   ELSE IF user[p] = "heap" THEN p ELSE buffer[pte[p][copied[p]]]
       IN /\ buffer' = IF op[p] = "write" THEN [buffer EXCEPT ![here] = from]
                       ELSE IF user[p] = "heap" THEN buffer
                       ELSE [buffer EXCEPT ![pte[p][copied[p]]] = from]
          /\ got' = IF op[p] = "read" /\ user[p] = "heap"
                    THEN [got EXCEPT ![p] = Append(@, from)] ELSE got
    /\ copied' = [copied EXCEPT ![p] = @ + 1]
    /\ UNCHANGED <<device, mutex, f_pos, vm_pgoff, pte, pc, op, count, user, ret, calls, before,
                   poked>>

\* Fault: the fault handler takes the mutex of the device.
CopyFaultsLocked(p) ==
    /\ pc[p] = "copy" /\ copied[p] < count[p] /\ NeedsFault(p)
    /\ mutex = Nobody
    /\ MapPage(p, copied[p])
    /\ UNCHANGED <<device, buffer, mutex, f_pos, vm_pgoff, call>>

\* example_vma_fault inside the copy, with the mutex held: the page, or a
\* SIGBUS that the copy turns into EFAULT
CopyFaults(p) ==
    /\ pc[p] = "copy" /\ copied[p] < count[p] /\ NeedsFault(p)
    /\ IF FaultsBeyond(p, copied[p])
       THEN /\ Goto(p, "copy", "unlock")
            /\ ret' = [ret EXCEPT ![p] = "EFAULT"]
            /\ UNCHANGED pte
       ELSE MapPage(p, copied[p]) /\ UNCHANGED <<pc, ret>>
    /\ UNCHANGED <<device, buffer, mutex, f_pos, vm_pgoff, op, count, user, copied, got, calls,
                   before, poked>>

\* a bad address in the caller's own memory ends the copy where it is
CopyStops(p) ==
    /\ user[p] = "heap"
    /\ Goto(p, "copy", "unlock")
    /\ ret' = [ret EXCEPT ![p] = "EFAULT"]
    /\ UNCHANGED <<device, buffer, mutex, f_pos, vm_pgoff, pte, op, count, user, copied, got,
                   calls, before, poked>>

\* *ppos += count
Advance(p) ==
    /\ copied[p] = count[p]
    /\ Goto(p, "copy", "unlock")
    /\ f_pos' = [f_pos EXCEPT ![p] = @ + count[p]]
    /\ UNCHANGED <<device, buffer, mutex, vm_pgoff, pte, op, count, user, copied, got, ret,
                   calls, before, poked>>

\* out: mutex_unlock
Unlock(p) ==
    /\ Goto(p, "unlock", "return")
    /\ mutex' = Nobody
    /\ UNCHANGED <<device, buffer, f_pos, vm_pgoff, pte, op, count, user, copied, got, ret,
                   calls, before, poked>>

\* The locals go out of scope.
Return(p) ==
    /\ Goto(p, "return", "idle")
    /\ op' = [op EXCEPT ![p] = "read"]
    /\ count' = [count EXCEPT ![p] = 0]
    /\ user' = [user EXCEPT ![p] = "heap"]
    /\ copied' = [copied EXCEPT ![p] = 0]
    /\ got' = [got EXCEPT ![p] = <<>>]
    /\ ret' = [ret EXCEPT ![p] = "ok"]
    /\ before' = [before EXCEPT ![p] = Fresh]
    /\ poked' = poked \ {p}
    /\ UNCHANGED <<device, buffer, mutex, f_pos, vm_pgoff, pte, calls>>

-----------------------------------------------------------------------------
Files(p) ==
    \/ example_char_open(p) \/ example_char_release(p) \/ example_char_mmap(p) \/ Unmap(p)
    \/ Touch(p) \/ Store(p) \/ Call(p) \/ Interrupted(p) \/ CopyStops(p)

Body(p) == Lock(p) \/ Check(p) \/ Copy(p) \/ CopyFaults(p) \/ Advance(p) \/ Unlock(p) \/ Return(p)

Next == Module \/ \E p \in Procs : Files(p) \/ Body(p)

Spec == Init /\ [][Next]_vars

\* System calls go on, and the mutex hands over to its waiters.
Fairness == \A p \in Procs : WF_vars(Body(p)) /\ SF_vars(Lock(p))

FairSpec == Spec /\ Fairness

-----------------------------------------------------------------------------
\* A mapping shows the page of the buffer at the same offset as a read of the
\* descriptor would, and no page outside the buffer (lines 50-68).
MappingShowsFile ==
    \A p \in Procs : \A s \in DOMAIN pte[p] :
        p \in mapped /\ pte[p][s] = s + vm_pgoff[p] /\ pte[p][s] \in Pages

\* What a read delivers is one moment of the buffer: no part of another
\* process' write is in it without the rest, unless somebody stored through a
\* mapping meanwhile (lines 97-115).
ReadIsOneMoment ==
    \A p \in Procs : pc[p] = "copy" /\ p \notin poked =>
        \A i \in 1 .. Len(got[p]) : got[p][i] = before[p][f_pos[p] + i - 1]

\* Every read and write returns, even when the memory it copies to or from is
\* the caller's own mapping of the device and faults under the mutex
\* (lines 39-72, 97-145).
CallsReturn == \A p \in Procs : pc[p] = "lock" ~> pc[p] = "idle"
=============================================================================
