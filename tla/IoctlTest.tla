----------------------------- MODULE IoctlTest ------------------------------
(***************************************************************************)
(* examples/class_5/08_IOCTL/ioctl_test.c                                  *)
(*                                                                         *)
(* The character device /dev/ioctl_demo: an integer and a string under one *)
(* mutex, five ioctl commands, and a module whose init registers four      *)
(* objects and unwinds them when one fails.  A string is known by its      *)
(* length.  The device is shown to implement AtomicDevice.                 *)
(***************************************************************************)
EXTENDS Naturals

CONSTANTS Procs,                 \* user processes
          Values, Lengths,       \* integers and lengths of strings they pass
          DEFAULT_VALUE, DEFAULT_LENGTH,
          MAX_STRING_SIZE        \* size of the array, NUL included

Commands  == {"SET_VALUE", "GET_VALUE", "SET_STRING", "GET_STRING", "RESET", "unknown"}
Nobody    == "nobody"
NoReply   == <<"none", 0>>

\* what init registers, in its order
Objects == <<"region", "class", "cdev", "device">>

VARIABLES phase, made, opened,   \* of DeviceModule
          pc, cmd,
          arg,           \* the integer or the length behind the pointer
          lock,          \* of device_data: holder, or Nobody
          value, string, \* device_data
          kernel_buffer, \* what copy_from_user delivered
          ret,           \* "ok" or the error
          reply          \* what copy_to_user delivered

\* The device is not mapped.
DM == INSTANCE DeviceModule WITH mapped <- {}

device == <<lock, value, string>>
call   == <<pc, cmd, arg, kernel_buffer, ret, reply>>
vars == <<phase, made, opened, device, call>>

Labels == {"idle", "lock", "copy", "apply", "reset_string", "unlock", "return"}

TypeOK ==
    /\ DM!TypeOK
    /\ pc \in [Procs -> Labels] /\ cmd \in [Procs -> Commands]
    /\ arg \in [Procs -> Values \cup Lengths]
    /\ lock \in Procs \cup {Nobody}
    /\ value \in Values /\ string \in 0 .. MAX_STRING_SIZE - 1
    /\ kernel_buffer \in [Procs -> Values \cup (0 .. MAX_STRING_SIZE - 1)]
    /\ ret \in [Procs -> {"ok", "EFAULT", "ENOTTY"}]
    /\ reply \in [Procs -> {NoReply} \cup ({"value"} \X Values)
                           \cup ({"string"} \X (0 .. MAX_STRING_SIZE - 1))]

Init ==
    /\ DM!Init
    /\ lock = Nobody /\ value = DEFAULT_VALUE /\ string = DEFAULT_LENGTH
    /\ pc = [p \in Procs |-> "idle"]
    /\ cmd = [p \in Procs |-> "unknown"]
    /\ arg = [p \in Procs |-> DEFAULT_VALUE]
    /\ kernel_buffer = [p \in Procs |-> DEFAULT_VALUE]
    /\ ret = [p \in Procs |-> "ok"]
    /\ reply = [p \in Procs |-> NoReply]

Goto(p, from, to) == pc[p] = from /\ pc' = [pc EXCEPT ![p] = to]

-----------------------------------------------------------------------------
\* ioctl_demo_init: the data, then the four objects
ioctl_demo_init ==
    /\ DM!InitBegin
    /\ value' = DEFAULT_VALUE /\ string' = DEFAULT_LENGTH /\ lock' = Nobody
    /\ UNCHANGED call

Module ==
    \/ ioctl_demo_init
    \/ DM!Lifecycle /\ UNCHANGED <<device, call>>

ioctl_demo_open(p) == DM!Open(p) /\ UNCHANGED <<device, call>>

ioctl_demo_release(p) ==
    /\ pc[p] = "idle"
    /\ DM!Close(p)
    /\ UNCHANGED <<device, call>>

\* ioctl_demo_ioctl: a command of another magic or number, or an address that
\* access_ok refuses, returns at once; the rest waits for the mutex.
ioctl_demo_ioctl(p, c, a) ==
    /\ p \in opened
    /\ \E e \in {"ok", "ENOTTY", "EFAULT"} :
        /\ Goto(p, "idle", IF e = "ok" THEN "lock" ELSE "return")
        /\ ret' = [ret EXCEPT ![p] = e]
    /\ cmd' = [cmd EXCEPT ![p] = c]
    /\ arg' = [arg EXCEPT ![p] = a]
    /\ UNCHANGED <<phase, made, opened, device, kernel_buffer, reply>>

\* Fault: enters while another process holds the mutex.
LockUnchecked(p) ==
    /\ Goto(p, "lock", IF cmd[p] = "unknown" THEN "unlock"
                       ELSE IF cmd[p] = "RESET" THEN "apply" ELSE "copy")
    /\ lock' = p
    /\ ret' = [ret EXCEPT ![p] = IF cmd[p] = "unknown" THEN "ENOTTY" ELSE "ok"]
    /\ UNCHANGED <<phase, made, opened, value, string, cmd, arg, kernel_buffer, reply>>

\* mutex_lock and the switch; a number in range that is no command is refused
\* by the default case.
Lock(p) ==
    /\ lock = Nobody
    /\ Goto(p, "lock", IF cmd[p] = "unknown" THEN "unlock"
                       ELSE IF cmd[p] = "RESET" THEN "apply" ELSE "copy")
    /\ lock' = p
    /\ ret' = [ret EXCEPT ![p] = IF cmd[p] = "unknown" THEN "ENOTTY" ELSE "ok"]
    /\ UNCHANGED <<phase, made, opened, value, string, cmd, arg, kernel_buffer, reply>>

\* Fault: a faulting command starts over.
CopyRetries(p) ==
    /\ Goto(p, "copy", "lock")
    /\ lock' = Nobody
    /\ UNCHANGED <<phase, made, opened, value, string, cmd, arg, kernel_buffer, ret, reply>>

\* copy_from_user, strncpy_from_user and copy_to_user may fault
CopyFaults(p) ==
    /\ Goto(p, "copy", "unlock")
    /\ ret' = [ret EXCEPT ![p] = "EFAULT"]
    /\ UNCHANGED <<phase, made, opened, device, cmd, arg, kernel_buffer, reply>>

\* strncpy_from_user up to MAX_STRING_SIZE - 1 characters, and a NUL after them
Truncated(n) == IF n > MAX_STRING_SIZE - 1 THEN MAX_STRING_SIZE - 1 ELSE n

CopyIn(p) ==
    /\ cmd[p] \in {"SET_VALUE", "SET_STRING"}
    /\ Goto(p, "copy", "apply")
    /\ kernel_buffer' = [kernel_buffer EXCEPT ![p] =
                            IF cmd[p] = "SET_VALUE" THEN arg[p] ELSE Truncated(arg[p])]
    /\ UNCHANGED <<phase, made, opened, device, cmd, arg, ret, reply>>

CopyOut(p) ==
    /\ cmd[p] \in {"GET_VALUE", "GET_STRING"}
    /\ Goto(p, "copy", "unlock")
    /\ reply' = [reply EXCEPT ![p] =
                    IF cmd[p] = "GET_VALUE" THEN <<"value", value>> ELSE <<"string", string>>]
    /\ UNCHANGED <<phase, made, opened, device, cmd, arg, kernel_buffer, ret>>

\* the stores of SET_VALUE and SET_STRING, and the first one of RESET ...
Apply(p) ==
    /\ Goto(p, "apply", IF cmd[p] = "RESET" THEN "reset_string" ELSE "unlock")
    /\ value' = IF cmd[p] = "SET_VALUE" THEN kernel_buffer[p]
                ELSE IF cmd[p] = "RESET" THEN DEFAULT_VALUE ELSE value
    /\ string' = IF cmd[p] = "SET_STRING" THEN kernel_buffer[p] ELSE string
    /\ UNCHANGED <<phase, made, opened, lock, cmd, arg, kernel_buffer, ret, reply>>

\* ... and its second
ResetString(p) ==
    /\ Goto(p, "reset_string", "unlock")
    /\ string' = DEFAULT_LENGTH
    /\ UNCHANGED <<phase, made, opened, lock, value, cmd, arg, kernel_buffer, ret, reply>>

Unlock(p) ==
    /\ Goto(p, "unlock", "return")
    /\ lock' = Nobody
    /\ UNCHANGED <<phase, made, opened, value, string, cmd, arg, kernel_buffer, ret, reply>>

\* The locals go out of scope.
Return(p) ==
    /\ Goto(p, "return", "idle")
    /\ cmd' = [cmd EXCEPT ![p] = "unknown"]
    /\ arg' = [arg EXCEPT ![p] = DEFAULT_VALUE]
    /\ kernel_buffer' = [kernel_buffer EXCEPT ![p] = DEFAULT_VALUE]
    /\ ret' = [ret EXCEPT ![p] = "ok"]
    /\ reply' = [reply EXCEPT ![p] = NoReply]
    /\ UNCHANGED <<phase, made, opened, device>>

-----------------------------------------------------------------------------
Body(p) == Lock(p) \/ CopyIn(p) \/ CopyOut(p) \/ Apply(p) \/ ResetString(p) \/ Unlock(p)

Ioctl(p) ==
    \/ \E v \in Values : ioctl_demo_ioctl(p, "SET_VALUE", v)
    \/ \E n \in Lengths : ioctl_demo_ioctl(p, "SET_STRING", n)
    \/ \E c \in Commands \ {"SET_VALUE", "SET_STRING"} : ioctl_demo_ioctl(p, c, DEFAULT_VALUE)

Next ==
    \/ Module
    \/ \E p \in Procs :
        \/ ioctl_demo_open(p) \/ ioctl_demo_release(p) \/ Ioctl(p)
        \/ Body(p) \/ CopyFaults(p) \/ Return(p)

Spec == Init /\ [][Next]_vars

\* System calls go on, and a mutex hands over to its waiters.
Fairness ==
    /\ \A p \in Procs : WF_vars(Body(p) \/ CopyFaults(p) \/ Return(p)) /\ SF_vars(Lock(p))

FairSpec == Spec /\ Fairness

-----------------------------------------------------------------------------
\* RESET takes effect with its first store.
AbstractString == IF \E p \in Procs : pc[p] = "reset_string" THEN DEFAULT_LENGTH ELSE string

AD == INSTANCE AtomicDevice WITH
          string <- AbstractString,
          DefaultValue <- DEFAULT_VALUE, DefaultLength <- DEFAULT_LENGTH,
          MaxLength <- MAX_STRING_SIZE - 1

\* Every ioctl is one indivisible operation on the value and the string: a
\* RESET is never seen half done, a failing command changes nothing, and a
\* string is cut so that it fits with its NUL (lines 95-169).
ImplementsAtomicDevice == AD!Spec

\* While a file is open or an ioctl is under way, the module and all it
\* registered stay (.owner, lines 174, 211).
OpenFilesPin == \A p \in Procs : p \in opened \/ pc[p] # "idle" => phase = "live"

\* Every ioctl returns, whatever the others' commands and errors (lines 95-170).
IoctlReturns == \A p \in Procs : pc[p] = "lock" ~> pc[p] = "idle"
=============================================================================
