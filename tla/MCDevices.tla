------------------------------ MODULE MCDevices -----------------------------
(***************************************************************************)
(* The netlink service, the shared memory device with its test program,    *)
(* the mapped device and the disk, checked side by side.  They share no    *)
(* state, so a behaviour is that of one of them, the demo; the others stay *)
(* unloaded.                                                               *)
(***************************************************************************)
EXTENDS BufferDevices, Services

Segment(from, sectors) == [at |-> from, len |-> sectors]

\* The Shapes: one bio of two segments, and two bios, the first of two sectors
BlockShapes == {<< <<Segment(0, 1), Segment(1, 1)>> >>,
                << <<Segment(0, 2)>>, <<Segment(2, 1)>> >>}

VARIABLE demo

vars_nl == <<phase_nl, message_counter, pc_nl, step, nlmsg_pid, request, temp, inbox, hellos,
             lost, strayed>>
vars_sm == <<phase_sm, made_sm, opened_sm, mapped_sm, user_to_kernel, kernel_to_user, mutex_sm,
             msg_count, pc_sm, message, input, served, alone_sm>>
vars_vm == <<phase_vm, made_vm, opened_vm, mapped_vm, buffer_vm, mutex_vm, f_pos, vm_pgoff, pte,
             pc_vm, op, count, user, copied, got, ret, calls, before, poked>>
vars_bd == <<phase_bd, made_bd, opened_bd, data, req, buffer_bd, alone_bd>>
vars == <<demo, vars_nl, vars_sm, vars_vm, vars_bd>>

Init ==
    /\ demo \in {"netlink", "shared", "vma", "block"}
    /\ NL!Init /\ SM!Init /\ VM!Init /\ BD!Init

\* The other modules stay out.
Only(d) ==
    /\ demo = d /\ UNCHANGED demo
    /\ IF d = "netlink" THEN TRUE ELSE UNCHANGED vars_nl
    /\ IF d = "shared" THEN TRUE ELSE UNCHANGED vars_sm
    /\ IF d = "vma" THEN TRUE ELSE UNCHANGED vars_vm
    /\ IF d = "block" THEN TRUE ELSE UNCHANGED vars_bd

Next ==
    \/ Only("netlink") /\ NL!Next
    \/ Only("shared") /\ SM!Next
    \/ Only("vma") /\ VM!Next
    \/ Only("block") /\ BD!Next

Spec ==
    /\ Init /\ [][Next]_vars
    /\ NL!Fairness /\ VM!Fairness /\ BD!Fairness

-----------------------------------------------------------------------------
\* Every variable of the module that runs keeps its type.
TypeOK ==
    CASE demo = "netlink" -> NL!TypeOK
      [] demo = "shared"  -> SM!TypeOK
      [] demo = "vma"     -> VM!TypeOK
      [] demo = "block"   -> BD!TypeOK

\* vma_allocation.c: reads and writes return, page faults included; block_demo.c:
\* every request ends; netlink: a tester ends its script unless a message is lost.
CallsReturn == VM!CallsReturn /\ NL!TestCompletes /\ BD!RequestsEnd
=============================================================================
