------------------------------ MODULE Services ------------------------------
(***************************************************************************)
(* Two modules that serve requests of other processes: the netlink module  *)
(* with its test program and clients of other kinds (NL), and the device   *)
(* whose buffer is read and written under a mutex and mapped without one   *)
(* (VM).                                                                   *)
(***************************************************************************)
EXTENDS Integers, Sequences, FiniteSets

CONSTANTS Testers, Others, OtherTypes, Kernel, SocketRoom, MaxHellos,   \* Netlink
          Callers, NPages, Pgoffs, Mappers, MaxCalls     \* VmaDevice

VARIABLES phase_nl, message_counter, pc_nl, step, nlmsg_pid, request, temp, inbox, hellos, lost,
          strayed,
          phase_vm, made_vm, opened_vm, mapped_vm, buffer_vm, mutex_vm, f_pos, vm_pgoff, pte,
          pc_vm, op, count, user, copied, got, ret, calls, before, poked

NL == INSTANCE Netlink WITH
          phase <- phase_nl, pc <- pc_nl

\* The clients are finitely many, those that run netlink_test run nothing else,
\* and the bounds are numbers.
ASSUME NetlinkAssumption ==
    /\ IsFiniteSet(Testers \cup Others) /\ Testers \cap Others = {}
    /\ OtherTypes \subseteq NL!Types
    /\ SocketRoom \in Nat /\ MaxHellos \in Nat

\* netlink: unless another client's header names it, a client gets the answer to
\* its request, once, or none; the counter it carries never runs ahead of the
\* HELLOs; and a module whose socket is in use stays.
NetlinkRight == NL!AnswerIsMine /\ NL!CounterWithinHellos /\ NL!SocketsPin

-----------------------------------------------------------------------------
VM == INSTANCE VmaDevice WITH
          Procs <- Callers, phase <- phase_vm, made <- made_vm, opened <- opened_vm,
          mapped <- mapped_vm, buffer <- buffer_vm, mutex <- mutex_vm, pc <- pc_vm

\* Sizes, offsets and bounds are numbers, and no process is the value of a free
\* mutex.
ASSUME MappedAssumption ==
    NPages \in Nat /\ Pgoffs \subseteq Nat /\ MaxCalls \in Nat /\ VM!Nobody \notin Callers

\* vma_allocation.c: a mapping shows the pages of the file, and only those; a
\* read delivers one moment of the buffer; and the module stays, with all it
\* made, while a file or a mapping is in use.
MappedDeviceRight ==
    /\ VM!MappingShowsFile /\ VM!ReadIsOneMoment
    /\ VM!DM!BufferOutlivesUsers /\ VM!DM!NothingLeftBehind
=============================================================================
