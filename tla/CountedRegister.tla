--------------------------- MODULE CountedRegister --------------------------
(***************************************************************************)
(* What spinlock_demo.c promises its users: a register whose every read    *)
(* and write is one indivisible numbered operation.  The n-th operation    *)
(* since the module was loaded gets number n, and a read reports its own   *)
(* number beside the value at that moment.                                 *)
(***************************************************************************)
EXTENDS Naturals

CONSTANTS Procs, Values

VARIABLES value, ops, reply

NoReply == <<0, 0>>

Init ==
    /\ value = 0
    /\ ops = 0
    /\ reply = [p \in Procs |-> NoReply]

Read(p) ==
    /\ reply[p] = NoReply
    /\ ops' = ops + 1
    /\ reply' = [reply EXCEPT ![p] = <<value, ops + 1>>]
    /\ UNCHANGED value

Write(v) ==
    /\ value' = v
    /\ ops' = ops + 1
    /\ UNCHANGED reply

Return(p) ==
    /\ reply' = [reply EXCEPT ![p] = NoReply]
    /\ UNCHANGED <<value, ops>>

\* The module is loaded again, when no read is outstanding.
Reload ==
    /\ reply = [p \in Procs |-> NoReply]
    /\ value' = 0
    /\ ops' = 0
    /\ UNCHANGED reply

Next ==
    \/ Reload
    \/ \E p \in Procs : Read(p) \/ Return(p)
    \/ \E v \in Values : Write(v)

Spec == Init /\ [][Next]_<<value, ops, reply>>
=============================================================================
