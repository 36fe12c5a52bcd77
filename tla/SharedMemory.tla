---------------------------- MODULE SharedMemory ----------------------------
(***************************************************************************)
(* examples/class_6/02_dma_buffer_demo/shared_memory_demo.c and its client *)
(* shared_mem_test.c                                                       *)
(*                                                                         *)
(* A client clears the response area, writes its message next to it, asks  *)
(* the driver to answer with an ioctl and prints what it then finds.  The  *)
(* driver serialises the ioctls; nothing serialises the clients' own       *)
(* stores, so an area that two of them write at once holds a mix of both   *)
(* (Torn).  Commands other than SHARED_MEM_SEND_MSG are refused without    *)
(* an effect and are left out.                                             *)
(***************************************************************************)
EXTENDS Naturals, Sequences, FiniteSets

CONSTANTS Procs,         \* clients
          Messages,      \* what they send
          MaxCount       \* bound on the messages of one load of the module

Nobody == "nobody"
Empty  == <<"empty">>
Torn   == <<"torn">>

VARIABLES phase, made, opened, mapped,       \* of DeviceModule
          user_to_kernel, kernel_to_user,    \* the two areas
          mutex, msg_count,
          pc,
          message,       \* of the client
          input,         \* what snprintf has read of user_to_kernel
          served,        \* history: ioctls that have passed the unlock
          alone          \* history: clients that nobody disturbed since they cleared

\* what init obtains, in its order: kzalloc twice,
\* alloc_chrdev_region, cdev_add, class_create, device_create
Objects == <<"dev", "buffer", "region", "cdev", "class", "node">>

DM == INSTANCE DeviceModule

device == <<phase, made, opened, mapped>>
areas  == <<user_to_kernel, kernel_to_user>>
vars == <<device, areas, mutex, msg_count, pc, message, input, served, alone>>

Labels == {"off", "opened", "mapped", "clear", "write", "writing", "ioctl", "count",
           "snprintf", "printing", "unlock", "respond"}

Texts == {<<m>> : m \in Messages} \cup {Empty, Torn}
Echoes == {Empty, Torn} \cup ((1 .. MaxCount) \X Texts)

TypeOK ==
    /\ DM!TypeOK
    /\ user_to_kernel \in Texts /\ kernel_to_user \in Echoes
    /\ mutex \in Procs \cup {Nobody}
    /\ msg_count \in 0 .. MaxCount /\ served \in 0 .. MaxCount
    /\ pc \in [Procs -> Labels]
    /\ message \in [Procs -> Texts] /\ input \in [Procs -> Texts]
    /\ alone \subseteq Procs

Init ==
    /\ DM!Init
    /\ user_to_kernel = Empty /\ kernel_to_user = Empty
    /\ mutex = Nobody /\ msg_count = 0 /\ served = 0
    /\ pc = [p \in Procs |-> "off"]
    /\ message = [p \in Procs |-> Empty]
    /\ input = [p \in Procs |-> Empty]
    /\ alone = {}

Goto(p, from, to) == pc[p] = from /\ pc' = [pc EXCEPT ![p] = to]

\* Whoever is between its clear and its print sees the others' steps.
Disturb(p) == alone' = alone \cap {p}

-----------------------------------------------------------------------------
\* kzalloc gives zeroed areas and a zeroed counter.
shared_memory_demo_init ==
    /\ DM!InitBegin
    /\ user_to_kernel' = Empty /\ kernel_to_user' = Empty
    /\ msg_count' = 0 /\ served' = 0
    /\ UNCHANGED <<mutex, pc, message, input, alone>>

Module ==
    \/ shared_memory_demo_init
    \/ DM!Lifecycle /\ UNCHANGED <<areas, mutex, msg_count, pc, message, input, served, alone>>

\* open, mmap of the whole buffer, or the client gives up
OpenDevice(p) ==
    /\ DM!Open(p)
    /\ Goto(p, "off", "opened")
    /\ UNCHANGED <<areas, mutex, msg_count, message, input, served, alone>>

shared_mem_mmap(p) ==
    /\ DM!Mmap(p)
    /\ Goto(p, "opened", "mapped")
    /\ UNCHANGED <<areas, mutex, msg_count, message, input, served, alone>>

\* remap_pfn_range fails
MmapFails(p) ==
    /\ DM!Close(p)
    /\ Goto(p, "opened", "off")
    /\ UNCHANGED <<areas, mutex, msg_count, message, input, served, alone>>

\* fgets or argv[1]: a message to send; MaxCount bounds the model
NextMessage(p) ==
    /\ p \in mapped /\ msg_count + Cardinality(Procs) <= MaxCount
    /\ Goto(p, "mapped", "clear")
    /\ \E m \in Messages : message' = [message EXCEPT ![p] = <<m>>]
    /\ UNCHANGED <<device, areas, mutex, msg_count, input, served, alone>>

\* memset(kernel_to_user, 0, MSG_SIZE)
Clear(p) ==
    /\ Goto(p, "clear", "write")
    /\ kernel_to_user' = Empty
    /\ alone' = IF \A q \in Procs \ {p} : pc[q] \in {"off", "opened", "mapped", "clear"}
                THEN {p} ELSE {}
    /\ UNCHANGED <<device, user_to_kernel, mutex, msg_count, message, input, served>>

\* strncpy(user_to_kernel, message, MSG_SIZE - 1), from its first store ...
WriteBegin(p) ==
    /\ Goto(p, "write", "writing")
    /\ user_to_kernel' = Torn
    /\ Disturb(p)
    /\ UNCHANGED <<device, kernel_to_user, mutex, msg_count, message, input, served>>

\* ... to its last, whole unless another client has written meanwhile
WriteEnd(p) ==
    /\ Goto(p, "writing", "ioctl")
    /\ \E t \in IF p \in alone THEN {message[p]} ELSE {message[p], Torn} : user_to_kernel' = t
    /\ Disturb(p)
    /\ UNCHANGED <<device, kernel_to_user, mutex, msg_count, message, input, served>>

\* process_message: mutex_lock
Lock(p) ==
    /\ mutex = Nobody
    /\ Goto(p, "ioctl", "count")
    /\ mutex' = p
    /\ UNCHANGED <<device, areas, msg_count, message, input, served, alone>>

\* ++demo_device->msg_count; the input already ends before MSG_SIZE
Count(p) ==
    /\ Goto(p, "count", "snprintf")
    /\ msg_count' = msg_count + 1
    /\ Disturb(p)
    /\ UNCHANGED <<device, areas, mutex, message, input, served>>

\* Fault: formats the response area into itself.
PrintItself(p) ==
    /\ Goto(p, "snprintf", "printing")
    /\ input' = [input EXCEPT ![p] = Empty]
    /\ kernel_to_user' = Torn
    /\ Disturb(p)
    /\ UNCHANGED <<device, user_to_kernel, mutex, msg_count, message, served>>

\* snprintf(output, MSG_SIZE, "Echo #%lu: %s", msg_count, input) begins ...
PrintBegin(p) ==
    /\ Goto(p, "snprintf", "printing")
    /\ input' = [input EXCEPT ![p] = user_to_kernel]
    /\ kernel_to_user' = Torn
    /\ Disturb(p)
    /\ UNCHANGED <<device, user_to_kernel, mutex, msg_count, message, served>>

\* ... and ends, with a mix where a client stored into either area meanwhile
PrintEnd(p) ==
    /\ Goto(p, "printing", "unlock")
    /\ LET text == IF user_to_kernel = input[p] THEN input[p] ELSE Torn
       IN kernel_to_user' = IF kernel_to_user = Torn THEN <<msg_count, text>> ELSE Torn
    /\ input' = [input EXCEPT ![p] = Empty]
    /\ Disturb(p)
    /\ UNCHANGED <<device, user_to_kernel, mutex, msg_count, message, served>>

Unlock(p) ==
    /\ Goto(p, "unlock", "respond")
    /\ mutex' = Nobody
    /\ served' = served + 1
    /\ UNCHANGED <<device, areas, msg_count, message, input, alone>>

\* printf of the response, and the loop of the interactive mode
Respond(p) ==
    /\ Goto(p, "respond", "mapped")
    /\ message' = [message EXCEPT ![p] = Empty]
    /\ alone' = alone \ {p}
    /\ UNCHANGED <<device, areas, mutex, msg_count, input, served>>

\* quit, end of input, or the end of the single message mode
Quit(p) ==
    /\ DM!Munmap(p)
    /\ pc[p] = "mapped"
    /\ UNCHANGED <<areas, mutex, msg_count, pc, message, input, served, alone>>

CloseDevice(p) ==
    /\ p \notin mapped
    /\ DM!Close(p)
    /\ Goto(p, "mapped", "off")
    /\ UNCHANGED <<areas, mutex, msg_count, message, input, served, alone>>

-----------------------------------------------------------------------------
Ioctl(p) == Lock(p) \/ Count(p) \/ PrintBegin(p) \/ PrintEnd(p) \/ Unlock(p)

Client(p) ==
    \/ OpenDevice(p) \/ shared_mem_mmap(p) \/ MmapFails(p)
    \/ NextMessage(p) \/ Clear(p) \/ WriteBegin(p) \/ WriteEnd(p) \/ Respond(p)
    \/ Quit(p) \/ CloseDevice(p)

Next == Module \/ \E p \in Procs : Client(p) \/ Ioctl(p)

Spec == Init /\ [][Next]_vars

-----------------------------------------------------------------------------
\* Each ioctl is counted once, and the answer in the buffer carries the number
\* of the last one (lines 60-73): whenever nobody is inside process_message,
\* the response area is empty, torn by a client's own store, or numbered
\* msg_count.
AnswersNumbered ==
    mutex = Nobody =>
        /\ msg_count = served
        /\ kernel_to_user \notin {Empty, Torn} => kernel_to_user[1] = msg_count

\* A client that no other client disturbed between its clear and its print
\* reads the echo of its own message (shared_mem_test.c lines 70-83).
UndisturbedEcho ==
    \A p \in Procs : pc[p] = "respond" /\ p \in alone =>
        kernel_to_user = <<msg_count, message[p]>>
=============================================================================
