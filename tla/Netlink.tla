------------------------------ MODULE Netlink -------------------------------
(***************************************************************************)
(* examples/class_3/05_netlink_interface/netlink_example.c and its client  *)
(* netlink_test.c                                                          *)
(*                                                                         *)
(* A request runs netlink_recv_msg inside the sender's sendmsg, so the     *)
(* handlers of two clients interleave; nothing locks message_counter.  The *)
(* answer goes to the pid in the request's header, whoever has sent it,    *)
(* and may be lost; pid 0 is the module's own socket.  netlink_test always *)
(* writes its own pid, another client any.  It checks no result: without   *)
(* an answer its recvmsg waits until somebody kills it.                    *)
(***************************************************************************)
EXTENDS Integers, Sequences

CONSTANTS Testers,       \* processes that run netlink_test
          Others,        \* processes with a client of another kind
          OtherTypes,    \* what these ask, some of the Types
          Kernel,        \* pid 0
          SocketRoom,    \* answers that fit into the buffer of a socket
          MaxHellos      \* bound on the HELLOs of one load of the module

Clients == Testers \cup Others

HELLO   == "HELLO"
COUNTER == "COUNTER"
STATUS  == "STATUS"
Types   == {HELLO, COUNTER, STATUS, "other"}

\* what main of netlink_test.c sends, in its order
Script == <<HELLO, COUNTER, STATUS>>

VARIABLES phase,             \* of the module: out, live
          message_counter,
          pc,
          step,              \* requests of the script a tester has prepared
          nlmsg_pid,         \* header of the buffer a client uses for both ways
          request,           \* msg_type the client has put in it
          temp,              \* the handler's copy of message_counter
          inbox,             \* answers queued on each client's socket
          hellos,            \* history: HELLOs the handler has taken up
          lost,              \* history: clients that have asked and got no answer
          strayed            \* history: clients whose socket got another's answer

handler == <<message_counter, temp, hellos>>
socket  == <<inbox, lost, strayed>>
vars == <<phase, pc, step, nlmsg_pid, request, socket, handler>>

Labels == {"off", "fill", "send", "load", "store", "reply", "recv", "done"}

Answers == Types \X (-1 .. MaxHellos)

TypeOK ==
    /\ phase \in {"out", "live"}
    /\ message_counter \in 0 .. MaxHellos /\ hellos \in 0 .. MaxHellos
    /\ pc \in [Clients -> Labels] /\ step \in [Clients -> 0 .. Len(Script)]
    /\ nlmsg_pid \in [Clients -> Clients \cup {Kernel}]
    /\ request \in [Clients -> Types]
    /\ temp \in [Clients -> 0 .. MaxHellos]
    /\ \A c \in Clients : inbox[c] \in Seq(Answers) /\ Len(inbox[c]) <= SocketRoom
    /\ lost \subseteq Clients /\ strayed \subseteq Clients

Init ==
    /\ phase = "out" /\ message_counter = 0 /\ hellos = 0
    /\ pc = [c \in Clients |-> "off"]
    /\ step = [c \in Clients |-> 0]
    /\ nlmsg_pid = [c \in Clients |-> Kernel]
    /\ request = [c \in Clients |-> "other"]
    /\ temp = [c \in Clients |-> 0]
    /\ inbox = [c \in Clients |-> <<>>]
    /\ lost = {} /\ strayed = {}

Goto(c, from, to) == pc[c] = from /\ pc' = [pc EXCEPT ![c] = to]

\* The client has a socket.
Bound(c) == pc[c] \notin {"off", "done"}

\* What is left on a socket goes with it.
Closed(c) ==
    /\ inbox' = [inbox EXCEPT ![c] = <<>>]
    /\ lost' = lost \ {c} /\ strayed' = strayed \ {c}

-----------------------------------------------------------------------------
\* netlink_kernel_create; its failure leaves the module out
netlink_example_init ==
    /\ phase = "out"
    /\ phase' = "live"
    /\ message_counter' = 0 /\ hellos' = 0
    /\ UNCHANGED <<pc, step, nlmsg_pid, request, temp, socket>>

\* netlink_kernel_release; rmmod waits until no client has a socket
netlink_example_exit ==
    /\ phase = "live" /\ \A c \in Clients : ~Bound(c)
    /\ phase' = "out"
    /\ UNCHANGED <<pc, step, nlmsg_pid, request, socket, handler>>

\* socket and bind; without the module there is no such protocol
OpenSocket(c) ==
    /\ phase = "live"
    /\ Goto(c, "off", "fill")
    /\ UNCHANGED <<phase, step, nlmsg_pid, request, socket, handler>>

\* Fault: the header keeps the pid of the answer received into it.
FillNoPid(c) ==
    /\ Goto(c, "fill", "send")
    /\ \/ /\ c \in Testers /\ step[c] < Len(Script)
          /\ nlmsg_pid' = [nlmsg_pid EXCEPT ![c] = IF step[c] = 0 THEN c ELSE @]
          /\ step' = [step EXCEPT ![c] = @ + 1]
          /\ request' = [request EXCEPT ![c] = Script[step[c] + 1]]
       \/ /\ c \in Others
          /\ \E x \in Clients \cup {Kernel} : nlmsg_pid' = [nlmsg_pid EXCEPT ![c] = x]
          /\ \E t \in OtherTypes : request' = [request EXCEPT ![c] = t]
          /\ UNCHANGED step
    /\ UNCHANGED <<phase, socket, handler>>

\* The header and the message: "Fix: reset PID" before every request of the test.
Fill(c) ==
    /\ Goto(c, "fill", "send")
    /\ \/ /\ c \in Testers /\ step[c] < Len(Script)
          /\ nlmsg_pid' = [nlmsg_pid EXCEPT ![c] = c]
          /\ step' = [step EXCEPT ![c] = @ + 1]
          /\ request' = [request EXCEPT ![c] = Script[step[c] + 1]]
       \/ /\ c \in Others
          /\ \E x \in Clients \cup {Kernel} : nlmsg_pid' = [nlmsg_pid EXCEPT ![c] = x]
          /\ \E t \in OtherTypes : request' = [request EXCEPT ![c] = t]
          /\ UNCHANGED step
    /\ UNCHANGED <<phase, socket, handler>>

\* netlink_recv_msg is entered; MaxHellos bounds the model
Enter(c, from) ==
    /\ request[c] = HELLO => hellos < MaxHellos
    /\ Goto(c, from, IF request[c] = HELLO THEN "load" ELSE "reply")
    /\ hellos' = IF request[c] = HELLO THEN hellos + 1 ELSE hellos
    /\ UNCHANGED <<phase, step, nlmsg_pid, request, socket, message_counter, temp>>

\* by sendmsg, inside the sender
Send(c) == Enter(c, "send")

\* sendmsg fails before the handler; the client goes on to recvmsg
SendFails(c) ==
    /\ Goto(c, "send", "recv")
    /\ nlmsg_pid' = [nlmsg_pid EXCEPT ![c] = Kernel]
    /\ lost' = lost \cup {c}
    /\ UNCHANGED <<phase, step, request, inbox, strayed, handler>>

\* message_counter++, a load ...
Load(c) ==
    /\ Goto(c, "load", "store")
    /\ temp' = [temp EXCEPT ![c] = message_counter]
    /\ UNCHANGED <<phase, step, nlmsg_pid, request, socket, message_counter, hellos>>

\* Fault: counts every HELLO twice.
StoreTwice(c) ==
    /\ Goto(c, "store", "reply")
    /\ message_counter' = temp[c] + 2
    /\ temp' = [temp EXCEPT ![c] = @ + 2]
    /\ UNCHANGED <<phase, step, nlmsg_pid, request, socket, hellos>>

\* ... and a store
Store(c) ==
    /\ Goto(c, "store", "reply")
    /\ message_counter' = temp[c] + 1
    /\ temp' = [temp EXCEPT ![c] = @ + 1]
    /\ UNCHANGED <<phase, step, nlmsg_pid, request, socket, hellos>>

\* data of the answer; for a HELLO the build may read message_counter again or
\* use the value it stored
Data(c) ==
    CASE request[c] = HELLO   -> {temp[c], message_counter}
      [] request[c] = COUNTER -> {message_counter}
      [] request[c] = STATUS  -> {0}
      [] request[c] = "other" -> {-1}

\* Back in the client, whose memset clears its buffer before it receives into it.
Return(c) ==
    /\ Goto(c, "reply", "recv")
    /\ nlmsg_pid' = [nlmsg_pid EXCEPT ![c] = Kernel]
    /\ temp' = [temp EXCEPT ![c] = 0]
    /\ UNCHANGED <<phase, step, request, message_counter, hellos>>

\* The socket bound to pid x takes an answer.
Takes(x) == x \in Clients /\ Bound(x) /\ Len(inbox[x]) < SocketRoom

\* Fault: no break after the case of a HELLO.
FallThrough(c) ==
    LET to == nlmsg_pid[c] IN
    /\ Takes(to)
    /\ \E d \in Data(c) : inbox' = [inbox EXCEPT ![to] =
           IF request[c] = HELLO THEN @ \o <<<<HELLO, d>>, <<COUNTER, d>>>>
           ELSE Append(@, <<request[c], d>>)]
    /\ lost' = IF to = c THEN lost ELSE lost \cup {c}
    /\ strayed' = IF to = c THEN strayed ELSE strayed \cup {to}
    /\ Return(c)

\* send_message_to_user: the answer is queued on the socket of the header's pid,
send_message_to_user(c) ==
    LET to == nlmsg_pid[c] IN
    /\ Takes(to)
    /\ \E d \in Data(c) : inbox' = [inbox EXCEPT ![to] = Append(@, <<request[c], d>>)]
    /\ lost' = IF to = c THEN lost ELSE lost \cup {c}
    /\ strayed' = IF to = c THEN strayed ELSE strayed \cup {to}
    /\ Return(c)

\* or nobody is bound to that, or its buffer is full,
Refused(c) ==
    /\ nlmsg_pid[c] # Kernel /\ ~Takes(nlmsg_pid[c])
    /\ lost' = lost \cup {c} /\ UNCHANGED <<inbox, strayed>>
    /\ Return(c)

\* or pid 0 hands it to netlink_recv_msg again, with its own header, whose pid is 0,
ToKernel(c) == nlmsg_pid[c] = Kernel /\ Enter(c, "reply")

\* or nlmsg_new, nlmsg_put or netlink_unicast is out of memory.
ReplyFails(c) ==
    /\ lost' = lost \cup {c} /\ UNCHANGED <<inbox, strayed>>
    /\ Return(c)

\* recvmsg; the header received has pid 0.  After the last answer main closes
\* the socket.
Receive(c) ==
    /\ pc[c] = "recv" /\ inbox[c] # <<>>
    /\ IF step[c] = Len(Script)
       THEN pc' = [pc EXCEPT ![c] = "done"] /\ Closed(c)
       ELSE /\ pc' = [pc EXCEPT ![c] = "fill"]
            /\ inbox' = [inbox EXCEPT ![c] = Tail(@)]
            /\ UNCHANGED <<lost, strayed>>
    /\ request' = [request EXCEPT ![c] = "other"]
    /\ UNCHANGED <<phase, step, nlmsg_pid, handler>>

\* The user ends a client that waits for ever, or another client its work; a
\* finished tester may be started again.
Leave(c) ==
    /\ \/ pc[c] = "recv" /\ inbox[c] = <<>>
       \/ pc[c] = "fill" /\ c \in Others
       \/ pc[c] = "done"
    /\ pc' = [pc EXCEPT ![c] = "off"]
    /\ step' = [step EXCEPT ![c] = 0]
    /\ request' = [request EXCEPT ![c] = "other"]
    /\ Closed(c)
    /\ UNCHANGED <<phase, nlmsg_pid, handler>>

-----------------------------------------------------------------------------
Handler(c) == Load(c) \/ Store(c) \/ send_message_to_user(c) \/ Refused(c) \/ ToKernel(c)

Step(c) == Fill(c) \/ Send(c) \/ SendFails(c) \/ Handler(c) \/ Receive(c)

Next ==
    \/ netlink_example_init \/ netlink_example_exit
    \/ \E c \in Clients : OpenSocket(c) \/ Step(c) \/ ReplyFails(c) \/ Leave(c)

Spec == Init /\ [][Next]_vars

\* A tester that can run does, and so does the handler it is inside.  Past
\* MaxHellos, which bounds the model, a HELLO can only fail.
Fairness == \A c \in Testers : WF_vars(Step(c))

FairSpec == Spec /\ Fairness

-----------------------------------------------------------------------------
\* A waiting client to whose socket no other client has directed an answer has
\* the answer to its last request as the only one there, or the request or the
\* answer failed or was directed elsewhere: none comes twice or is left over
\* (netlink_example.c 51, 67, 74-95; netlink_test.c 84-116).
AnswerIsMine ==
    \A c \in Clients \ strayed :
        /\ pc[c] = "recv" /\ inbox[c] # <<>> =>
              Len(inbox[c]) = 1 /\ Head(inbox[c])[1] = request[c] /\ c \notin lost
        /\ pc[c] = "recv" /\ inbox[c] = <<>> => c \in lost
        /\ pc[c] # "recv" => inbox[c] = <<>>

\* Unlocked increments lose HELLOs but never invent one, and a tester's COUNTER
\* answer counts at least its own HELLO, if that reached the handler
\* (netlink_example.c 76, 82).
CounterWithinHellos ==
    /\ message_counter <= hellos
    /\ \A c \in Testers \ strayed :
          pc[c] = "recv" /\ inbox[c] # <<>> /\ request[c] # STATUS =>
              Head(inbox[c])[2] \in 1 .. hellos

\* While a client has a socket the module stays (netlink_example.c 105, 119-125).
SocketsPin == \A c \in Clients : Bound(c) => phase = "live"

\* A tester gets through its script unless one of its messages is lost, whatever
\* other clients send it (netlink_test.c 69-120).
TestCompletes ==
    \A c \in Testers : pc[c] = "fill" ~> pc[c] \in {"done", "off"} \/ c \in lost
=============================================================================
