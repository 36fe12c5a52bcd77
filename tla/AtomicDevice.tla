---------------------------- MODULE AtomicDevice ----------------------------
(***************************************************************************)
(* What /dev/ioctl_demo promises its users: an integer and a string, each  *)
(* ioctl on them one indivisible operation.  A string is known by its      *)
(* length, and a longer one is cut to MaxLength.                           *)
(***************************************************************************)
EXTENDS Naturals

CONSTANTS Procs, Values, Lengths, DefaultValue, DefaultLength, MaxLength

VARIABLES value, string, reply

NoReply == <<"none", 0>>
Cut(n)  == IF n > MaxLength THEN MaxLength ELSE n

Init ==
    /\ value = DefaultValue
    /\ string = DefaultLength
    /\ reply = [p \in Procs |-> NoReply]

SetValue(v)  == value' = v /\ UNCHANGED <<string, reply>>
SetString(n) == string' = Cut(n) /\ UNCHANGED <<value, reply>>

Get(p) ==
    /\ reply[p] = NoReply
    /\ \E r \in {<<"value", value>>, <<"string", string>>} : reply' = [reply EXCEPT ![p] = r]
    /\ UNCHANGED <<value, string>>

Return(p) ==
    /\ reply' = [reply EXCEPT ![p] = NoReply]
    /\ UNCHANGED <<value, string>>

\* IOCTL_RESET, or the module is loaded again
Reset ==
    /\ value' = DefaultValue
    /\ string' = DefaultLength
    /\ UNCHANGED reply

Next ==
    \/ Reset
    \/ \E v \in Values : SetValue(v)
    \/ \E n \in Lengths : SetString(n)
    \/ \E p \in Procs : Get(p) \/ Return(p)

Spec == Init /\ [][Next]_<<value, string, reply>>
=============================================================================
