--------------------------- MODULE DataStructures ---------------------------
(***************************************************************************)
(* examples/class_4/00_data_structures_demo/data_structures_demo.c         *)
(*                                                                         *)
(* A list, a queue, a hash table and a tree that init fills, not looking   *)
(* at what its calls return, and that a proc file walks.                   *)
(***************************************************************************)
EXTENDS Naturals, Sequences

CONSTANTS Viewers,
          QUEUE_SIZE

Calls == << <<"task", 10>>, <<"task", 5>>, <<"message", 1>>, <<"message", 2>>,
            <<"user", 1001>>, <<"user", 1002>>, <<"interval", 100>>, <<"interval", 300>> >>
Items == {Calls[n] : n \in DOMAIN Calls}
Walked == <<"task", "user", "interval">>     \* in the order of show and of exit

VARIABLES phase,       \* of the module: out, adding, live, remove, clean
          step,        \* the calls init has made, or the structures exit has emptied
          linked,      \* the items in the list, the table and the tree
          msg_queue,   \* the kfifo
          allocated,   \* what kmalloc gave and kfree has not taken back
          leaked,      \* history: what a load that failed left allocated
          at,          \* of each viewer: the structure it is about to walk (0: none)
          seen         \* of each viewer: the items shown so far

vars == <<phase, step, linked, msg_queue, allocated, leaked, at, seen>>
viewers == <<at, seen>>

OfKind(k) == {x \in Items : x[1] = k}

TypeOK ==
    /\ phase \in {"out", "adding", "live", "remove", "clean"}
    /\ step \in 0 .. Len(Calls)
    /\ linked \subseteq Items /\ allocated \subseteq Items /\ leaked \subseteq Items
    /\ msg_queue \in Seq(Items) /\ Len(msg_queue) <= QUEUE_SIZE
    /\ at \in [Viewers -> 0 .. Len(Walked) + 1]
    /\ seen \in [Viewers -> SUBSET Items]

Init ==
    /\ phase = "out" /\ step = 0 /\ linked = {} /\ msg_queue = <<>>
    /\ allocated = {} /\ leaked = {}
    /\ at = [v \in Viewers |-> 0] /\ seen = [v \in Viewers |-> {}]

-----------------------------------------------------------------------------
\* insmod: the static structures are empty in a fresh load
Load ==
    /\ phase = "out" /\ phase' = "adding"
    /\ step' = 0 /\ linked' = {} /\ msg_queue' = <<>> /\ allocated' = {} /\ leaked' = {}
    /\ UNCHANGED viewers

\* add_task, add_user, insert_interval: nothing changes where kmalloc fails; an
\* interval whose start is there already is freed again
Link(x) ==
    \/ /\ x \notin linked
       /\ linked' = linked \cup {x} /\ allocated' = allocated \cup {x}
    \/ UNCHANGED <<linked, allocated>>

\* send_message: -ENOSPC when the queue is full
send_message(x) ==
    msg_queue' = IF Len(msg_queue) < QUEUE_SIZE THEN Append(msg_queue, x) ELSE msg_queue

\* The next call of data_structures_init
Add ==
    LET x == Calls[step + 1] IN
    /\ phase = "adding" /\ step < Len(Calls) /\ step' = step + 1
    /\ IF x[1] = "message"
       THEN send_message(x) /\ UNCHANGED <<linked, allocated>>
       ELSE Link(x) /\ UNCHANGED msg_queue
    /\ UNCHANGED <<phase, leaked, viewers>>

\* proc_create
CreateEntry ==
    /\ phase = "adding" /\ step = Len(Calls) /\ phase' = "live"
    /\ step' = 0
    /\ UNCHANGED <<linked, msg_queue, allocated, leaked, viewers>>

\* proc_create fails: init returns -ENOMEM and frees nothing
CreateEntryFails ==
    /\ phase = "adding" /\ step = Len(Calls) /\ phase' = "out"
    /\ step' = 0 /\ leaked' = allocated
    /\ UNCHANGED <<linked, msg_queue, allocated, viewers>>

-----------------------------------------------------------------------------
\* data_structures_show walks the three in turn, each under its lock.
ShowBegin(v) ==
    /\ phase = "live" /\ at[v] = 0
    /\ at' = [at EXCEPT ![v] = 1]
    /\ UNCHANGED <<phase, step, linked, msg_queue, allocated, leaked, seen>>

ShowNext(v) ==
    /\ at[v] \in 1 .. Len(Walked)
    /\ seen' = [seen EXCEPT ![v] = @ \cup (linked \cap OfKind(Walked[at[v]]))]
    /\ at' = [at EXCEPT ![v] = @ + 1]
    /\ UNCHANGED <<phase, step, linked, msg_queue, allocated, leaked>>

ShowReturns(v) ==
    /\ at[v] = Len(Walked) + 1
    /\ at' = [at EXCEPT ![v] = 0] /\ seen' = [seen EXCEPT ![v] = {}]
    /\ UNCHANGED <<phase, step, linked, msg_queue, allocated, leaked>>

-----------------------------------------------------------------------------
\* data_structures_exit: proc_remove lets no new reader in and waits for those
\* there are; then the three are emptied.
ExitBegin ==
    /\ phase = "live" /\ phase' = "remove"
    /\ UNCHANGED <<step, linked, msg_queue, allocated, leaked, viewers>>

\* Fault: the structures are emptied while readers are still there.
RemovedEarly ==
    /\ phase = "remove" /\ phase' = "clean"
    /\ UNCHANGED <<step, linked, msg_queue, allocated, leaked, viewers>>

Removed ==
    /\ phase = "remove" /\ phase' = "clean"
    /\ \A v \in Viewers : at[v] = 0
    /\ UNCHANGED <<step, linked, msg_queue, allocated, leaked, viewers>>

\* Fault: the entries of the hash table stay.
CleanButUsers ==
    LET gone == (linked \cap OfKind(Walked[step + 1])) \ OfKind("user") IN
    /\ phase = "clean" /\ step < Len(Walked) /\ step' = step + 1
    /\ linked' = linked \ gone /\ allocated' = allocated \ gone
    /\ UNCHANGED <<phase, msg_queue, leaked, viewers>>

Clean ==
    LET gone == linked \cap OfKind(Walked[step + 1]) IN
    /\ phase = "clean" /\ step < Len(Walked) /\ step' = step + 1
    /\ linked' = linked \ gone /\ allocated' = allocated \ gone
    /\ UNCHANGED <<phase, msg_queue, leaked, viewers>>

Unload ==
    /\ phase = "clean" /\ step = Len(Walked) /\ phase' = "out"
    /\ step' = 0
    /\ UNCHANGED <<linked, msg_queue, allocated, leaked, viewers>>

Next ==
    \/ Load \/ Add \/ CreateEntry \/ CreateEntryFails
    \/ ExitBegin \/ Removed \/ Clean \/ Unload
    \/ \E v \in Viewers : ShowBegin(v) \/ ShowNext(v) \/ ShowReturns(v)

Spec == Init /\ [][Next]_vars

-----------------------------------------------------------------------------
\* Once the module is out, nothing it allocated is left, whichever of its
\* allocations failed: the walks of exit find everything that was linked.  Only
\* an init that fails at proc_create leaves its items behind
\* (data_structures_demo.c:222-226, 241-260).
OnlyFailedLoadLeaks ==
    /\ phase = "out" => allocated = leaked
    /\ phase # "out" => linked = allocated

\* What a reader has walked past was all there was of it, and none of it is
\* freed while the reader goes on (data_structures_demo.c:166-194, 240).
ShowsWhatIsThere ==
    \A v \in Viewers : at[v] # 0 =>
        seen[v] = allocated \cap UNION {OfKind(Walked[n]) : n \in 1 .. at[v] - 1}
=============================================================================
