------------------------------ MODULE IoctlApp ------------------------------
(***************************************************************************)
(* examples/class_5/08_IOCTL/ioctl_app.c on the device of IoctlTest        *)
(*                                                                         *)
(* The program opens the device, makes the calls of the command on its     *)
(* command line, gives up at the first that fails, and closes.  Other      *)
(* processes use the device as they like.                                  *)
(***************************************************************************)
EXTENDS IoctlTest, Sequences

CONSTANTS Testers,                 \* the processes that run ioctl_app
          TestValue, TestLength    \* 12345, and the length of "Hello from user space!"

VARIABLES todo,                    \* of each tester: the calls still to make
          alone                    \* history: testers nobody has disturbed

app == <<todo, alone>>

Anything == <<"anything", 0>>

\* A call, and the answer the program should then print
Call(c, a, want) == [cmd |-> c, arg |-> a, want |-> want]
Plain(c)         == Call(c, DEFAULT_VALUE, Anything)

test_value_operations ==
    <<Call("SET_VALUE", TestValue, NoReply),
      Call("GET_VALUE", DEFAULT_VALUE, <<"value", TestValue>>)>>

test_string_operations ==
    <<Call("SET_STRING", TestLength, NoReply),
      Call("GET_STRING", DEFAULT_VALUE, <<"string", TestLength>>)>>

test_reset_operation ==
    <<Call("RESET", DEFAULT_VALUE, NoReply),
      Call("GET_VALUE", DEFAULT_VALUE, <<"value", DEFAULT_VALUE>>),
      Call("GET_STRING", DEFAULT_VALUE, <<"string", DEFAULT_LENGTH>>)>>

test_all == test_value_operations \o test_string_operations \o test_reset_operation

\* What a command line makes the program do; a wrong one makes no call.
Scripts ==
    {test_all, <<>>, <<Plain("GET_VALUE")>>, <<Plain("GET_STRING")>>, <<Plain("RESET")>>}
    \cup {<<Call("SET_VALUE", v, NoReply)>> : v \in Values}
    \cup {<<Call("SET_STRING", n, NoReply)>> : n \in Lengths}

AppTypeOK ==
    /\ TypeOK
    /\ \A p \in Testers : \E s \in Scripts, n \in 1 .. 8 : todo[p] = SubSeq(s, n, Len(s))
    /\ alone \subseteq Testers

AppInit == Init /\ todo = [p \in Testers |-> <<>>] /\ alone = {}

-----------------------------------------------------------------------------
\* The open of main, with one of the command lines
main(p) ==
    /\ ioctl_demo_open(p)
    /\ \E s \in Scripts : todo' = [todo EXCEPT ![p] = s]
    /\ alone' = alone \cup (IF \A q \in Procs \ {p} : pc[q] \in {"idle", "lock", "return"}
                            THEN {p} ELSE {})

NextCall(p) ==
    /\ todo[p] # <<>>
    /\ ioctl_demo_ioctl(p, Head(todo[p]).cmd, Head(todo[p]).arg)
    /\ UNCHANGED app

\* Fault: an error does not end the test.
CarryOn(p) ==
    /\ Return(p)
    /\ todo' = [todo EXCEPT ![p] = Tail(@)]
    /\ UNCHANGED alone

\* The call returns: perror and goto cleanup, or the next call
Returned(p) ==
    /\ Return(p)
    /\ todo' = [todo EXCEPT ![p] = IF ret[p] = "ok" THEN Tail(@) ELSE <<>>]
    /\ UNCHANGED alone

\* cleanup: close(fd)
cleanup(p) ==
    /\ todo[p] = <<>>
    /\ ioctl_demo_release(p)
    /\ alone' = alone \ {p}
    /\ UNCHANGED todo

\* The driver's part of a call; whoever gets the mutex disturbs the others.
Driver(p) ==
    /\ Body(p) \/ CopyFaults(p)
    /\ alone' = IF pc[p] = "lock" THEN alone \cap {p} ELSE alone
    /\ UNCHANGED todo

Other(p) ==
    /\ ioctl_demo_open(p) \/ ioctl_demo_release(p) \/ Ioctl(p) \/ Return(p)
    /\ UNCHANGED app

AppNext ==
    \/ Module /\ UNCHANGED app
    \/ \E p \in Procs : Driver(p)
    \/ \E p \in Testers : main(p) \/ NextCall(p) \/ Returned(p) \/ cleanup(p)
    \/ \E p \in Procs \ Testers : Other(p)

app_vars == <<vars, app>>

AppSpec == AppInit /\ [][AppNext]_app_vars

-----------------------------------------------------------------------------
\* As long as nobody else gets at the device, each answer of test_all is what
\* the program set before it, or the default after its reset, and no later
\* call follows a failed one (ioctl_app.c:38-55, 67-84, 96-117, 204-217).
TestAnswersRight ==
    \A p \in alone :
        pc[p] = "return" /\ ret[p] = "ok" =>
            Head(todo[p]).want \in {Anything, reply[p]}
=============================================================================
