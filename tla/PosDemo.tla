------------------------------ MODULE PosDemo ------------------------------
(***************************************************************************)
(* examples/class_3/02_advanced_procfs/pos_demo.c                          *)
(*                                                                         *)
(* A log of MAX_LOG_ENTRIES entries that writes of a proc file append to   *)
(* and a seq_file walks.  No lock is taken: every use of log_count, every  *)
(* ++ and every entry that memmove copies is a step of its own.  A message *)
(* is the number of the add_log_entry call that carried it, so entry_id =  *)
(* message in a whole entry of calls that did not overlap.  The slots      *)
(* after the array stand for the memory behind it.                         *)
(***************************************************************************)
EXTENDS Naturals, FiniteSets

CONSTANTS Writers, Readers,   \* processes that write to and read the file
          MAX_LOG_ENTRIES,
          InitialEntries,     \* entries that init adds
          MaxAdds             \* bound on add_log_entry calls per load

Tasks == Writers \cup Readers
Slots == 0 .. MAX_LOG_ENTRIES + Cardinality(Writers)

VARIABLES phase,              \* of the module: out, live, remove
          entry_id, message,  \* of the slots of log_buffer
          log_count, next_id,
          adds,               \* history: add_log_entry calls of this load
          raced,              \* history: two of them overlapped
          pc,
          local,              \* of a writer: the value it read and will store
          text,               \* of a writer: its message
          moved,              \* of a writer in memmove: entries copied
          pos,                \* of a reader's open file
          seen, said,         \* of a reader: id and message it printed last
          walked              \* history: of a reader, the greatest id before that

log   == <<entry_id, message, log_count, next_id>>
write == <<adds, raced, local, text, moved>>
read  == <<pos, seen, said, walked>>
vars == <<phase, log, write, pc, read>>

Labels == {"idle", "id", "bump", "message", "load", "store",
           "move_id", "move_message", "last_id", "last_bump", "last_message",
           "show_id", "show_message", "next"}

TypeOK ==
    /\ phase \in {"out", "live", "remove"}
    /\ entry_id \in [Slots -> 0 .. MaxAdds] /\ message \in [Slots -> 0 .. MaxAdds]
    /\ log_count \in Slots /\ next_id \in 1 .. MaxAdds + 1
    /\ adds \in 0 .. MaxAdds /\ raced \in BOOLEAN
    /\ pc \in [Tasks -> Labels]
    /\ local \in [Writers -> 0 .. MaxAdds + 1] /\ text \in [Writers -> 0 .. MaxAdds]
    /\ moved \in [Writers -> 0 .. MAX_LOG_ENTRIES - 1]
    /\ pos \in [Readers -> Slots]
    /\ seen \in [Readers -> 0 .. MaxAdds] /\ said \in [Readers -> 0 .. MaxAdds]
    /\ walked \in [Readers -> 0 .. MaxAdds]

Init ==
    /\ phase = "out"
    /\ entry_id = [i \in Slots |-> 0] /\ message = [i \in Slots |-> 0]
    /\ log_count = 0 /\ next_id = 1 /\ adds = 0 /\ raced = FALSE
    /\ pc = [p \in Tasks |-> "idle"]
    /\ local = [w \in Writers |-> 0] /\ text = [w \in Writers |-> 0]
    /\ moved = [w \in Writers |-> 0]
    /\ pos = [r \in Readers |-> 0]
    /\ seen = [r \in Readers |-> 0] /\ said = [r \in Readers |-> 0]
    /\ walked = [r \in Readers |-> 0]

Goto(p, from, to) == pc[p] = from /\ pc' = [pc EXCEPT ![p] = to]

-----------------------------------------------------------------------------
\* pos_demo_init: nobody can reach the log before proc_create.
pos_demo_init ==
    /\ phase = "out"
    /\ phase' = "live"
    /\ entry_id' = [i \in Slots |-> IF i < InitialEntries THEN i + 1 ELSE 0]
    /\ message' = entry_id'
    /\ log_count' = InitialEntries /\ next_id' = InitialEntries + 1
    /\ adds' = InitialEntries /\ raced' = FALSE
    /\ pos' = [r \in Readers |-> 0]
    /\ seen' = [r \in Readers |-> 0] /\ said' = seen' /\ walked' = seen'
    /\ UNCHANGED <<local, text, moved, pc>>

\* pos_demo_exit: proc_remove, once the handlers inside have returned.
ExitBegin ==
    /\ phase = "live"
    /\ phase' = "remove"
    /\ UNCHANGED <<log, write, pc, read>>

pos_demo_exit ==
    /\ phase = "remove"
    /\ \A p \in Tasks : pc[p] = "idle"
    /\ phase' = "out"
    /\ UNCHANGED <<log, write, pc, read>>

-----------------------------------------------------------------------------
\* log_proc_write with a message that fits, into add_log_entry: is there room?
log_proc_write(w) ==
    /\ phase = "live" /\ adds < MaxAdds
    /\ Goto(w, "idle", IF log_count < MAX_LOG_ENTRIES THEN "id" ELSE "move_id")
    /\ adds' = adds + 1
    /\ raced' = (raced \/ \E v \in Writers : pc[v] # "idle")
    /\ text' = [text EXCEPT ![w] = adds']
    /\ UNCHANGED <<phase, log, local, moved, read>>

\* entry_id = next_id++, into slot: the one log_count names now, or the last ...
StoreId(w, from, to, slot) ==
    /\ Goto(w, from, to)
    /\ entry_id' = [entry_id EXCEPT ![slot] = next_id]
    /\ local' = [local EXCEPT ![w] = next_id + 1]
    /\ UNCHANGED <<phase, message, log_count, next_id, adds, raced, text, moved, read>>

Bump(w, from, to) ==
    /\ Goto(w, from, to)
    /\ next_id' = local[w]
    /\ local' = [local EXCEPT ![w] = 0]
    /\ UNCHANGED <<phase, entry_id, message, log_count, adds, raced, text, moved, read>>

\* ... strncpy ...
StoreMessage(w, from, to, slot) ==
    /\ Goto(w, from, to)
    /\ message' = [message EXCEPT ![slot] = text[w]]
    /\ text' = [text EXCEPT ![w] = 0]
    /\ UNCHANGED <<phase, entry_id, log_count, next_id, adds, raced, local, moved, read>>

LoadCount(w) ==
    /\ Goto(w, "load", "store")
    /\ local' = [local EXCEPT ![w] = log_count]
    /\ UNCHANGED <<phase, log, adds, raced, text, moved, read>>

\* ... log_count++.
StoreCount(w) ==
    /\ Goto(w, "store", "idle")
    /\ log_count' = local[w] + 1
    /\ local' = [local EXCEPT ![w] = 0]
    /\ UNCHANGED <<phase, entry_id, message, next_id, adds, raced, text, moved, read>>

\* Fault: the shift copies one entry too many.
MoveIdTooFar(w) ==
    /\ moved[w] < MAX_LOG_ENTRIES
    /\ Goto(w, "move_id", "move_message")
    /\ entry_id' = [entry_id EXCEPT ![moved[w]] = entry_id[moved[w] + 1]]
    /\ UNCHANGED <<phase, message, log_count, next_id, write, read>>

\* memmove: towards lower addresses, so from the first entry on.
MoveId(w) ==
    /\ moved[w] < MAX_LOG_ENTRIES - 1
    /\ Goto(w, "move_id", "move_message")
    /\ entry_id' = [entry_id EXCEPT ![moved[w]] = entry_id[moved[w] + 1]]
    /\ UNCHANGED <<phase, message, log_count, next_id, write, read>>

MoveMessage(w) ==
    /\ Goto(w, "move_message", "move_id")
    /\ message' = [message EXCEPT ![moved[w]] = message[moved[w] + 1]]
    /\ moved' = [moved EXCEPT ![w] = @ + 1]
    /\ UNCHANGED <<phase, entry_id, log_count, next_id, adds, raced, local, text, read>>

\* Fault: the shift stops one entry early.
MovedShort(w) ==
    /\ moved[w] >= MAX_LOG_ENTRIES - 2
    /\ Goto(w, "move_id", "last_id")
    /\ moved' = [moved EXCEPT ![w] = 0]
    /\ UNCHANGED <<phase, log, adds, raced, local, text, read>>

Moved(w) ==
    /\ moved[w] = MAX_LOG_ENTRIES - 1
    /\ Goto(w, "move_id", "last_id")
    /\ moved' = [moved EXCEPT ![w] = 0]
    /\ UNCHANGED <<phase, log, adds, raced, local, text, read>>

-----------------------------------------------------------------------------
\* Fault: takes the entry that is being filled for the last one.
StartPastEnd(r) ==
    /\ phase = "live"
    /\ pos[r] <= log_count
    /\ Goto(r, "idle", "show_id")
    /\ UNCHANGED <<phase, log, write, read>>

\* log_seq_start: end of file, or the entry at the position of the file.
log_seq_start(r) ==
    /\ phase = "live"
    /\ pos[r] < log_count
    /\ Goto(r, "idle", "show_id")
    /\ UNCHANGED <<phase, log, write, read>>

\* log_seq_show: the id and the message are read one after the other.
ShowId(r) ==
    /\ Goto(r, "show_id", "show_message")
    /\ walked' = [walked EXCEPT ![r] = seen[r]]
    /\ seen' = [seen EXCEPT ![r] = entry_id[pos[r]]]
    /\ UNCHANGED <<phase, log, write, pos, said>>

ShowMessage(r) ==
    /\ Goto(r, "show_message", "next")
    /\ said' = [said EXCEPT ![r] = message[pos[r]]]
    /\ UNCHANGED <<phase, log, write, pos, seen, walked>>

\* log_seq_next: the next entry, unless it is the last one or the buffer of the
\* read call is full (log_seq_stop); the position stays with the file.
log_seq_next(r) ==
    /\ \/ pos[r] + 1 < log_count /\ Goto(r, "next", "show_id")
       \/ Goto(r, "next", "idle")
    /\ pos' = [pos EXCEPT ![r] = @ + 1]
    /\ UNCHANGED <<phase, log, write, seen, said, walked>>

\* log_proc_open, or a seek to the start.
log_proc_open(r) ==
    /\ phase = "live" /\ pc[r] = "idle" /\ pos[r] > 0
    /\ pos' = [pos EXCEPT ![r] = 0]
    /\ seen' = [seen EXCEPT ![r] = 0]
    /\ said' = [said EXCEPT ![r] = 0]
    /\ walked' = [walked EXCEPT ![r] = 0]
    /\ UNCHANGED <<phase, log, write, pc>>

-----------------------------------------------------------------------------
AppendStep(w) ==
    \/ StoreId(w, "id", "bump", log_count)
    \/ Bump(w, "bump", "message")
    \/ StoreMessage(w, "message", "load", log_count)
    \/ LoadCount(w)
    \/ StoreCount(w)

OverwriteStep(w) ==
    \/ MoveId(w) \/ MoveMessage(w) \/ Moved(w)
    \/ StoreId(w, "last_id", "last_bump", MAX_LOG_ENTRIES - 1)
    \/ Bump(w, "last_bump", "last_message")
    \/ StoreMessage(w, "last_message", "idle", MAX_LOG_ENTRIES - 1)

ReadStep(r) ==
    \/ log_proc_open(r) \/ log_seq_start(r)
    \/ ShowId(r) \/ ShowMessage(r)
    \/ log_seq_next(r)

Next ==
    \/ pos_demo_init \/ ExitBegin \/ pos_demo_exit
    \/ \E w \in Writers : log_proc_write(w) \/ AppendStep(w) \/ OverwriteStep(w)
    \/ \E r \in Readers : ReadStep(r)

Spec == Init /\ [][Next]_vars

-----------------------------------------------------------------------------
\* As long as no two calls overlapped, between calls the log holds the newest
\* entries, oldest first and whole, in as many slots as there are
\* (add_log_entry, lines 26-42).
KeepsNewest ==
    (phase # "out" /\ ~raced /\ \A w \in Writers : pc[w] = "idle")
        => /\ log_count = IF adds < MAX_LOG_ENTRIES THEN adds ELSE MAX_LOG_ENTRIES
           /\ \A i \in 0 .. MAX_LOG_ENTRIES - 1 :
                i < log_count => /\ entry_id[i] = adds - log_count + i + 1
                                 /\ message[i] = entry_id[i]

\* A walk of the log beside one call at a time prints ids in order: the shift
\* may make it skip an entry or print one twice, but never go back (lines
\* 60-96).
WalkGoesForward == ~raced => \A r \in Readers : seen[r] # 0 => walked[r] <= seen[r]

\* An entry is published by log_count++ after it is complete: without
\* overlapping calls a reader prints the id of one entry with the message of
\* another only when the log is full and entries move under it (lines 28-32,
\* 35-41).
TornOnlyWhenFull ==
    \A r \in Readers : (~raced /\ pc[r] = "next" /\ seen[r] # said[r])
                            => log_count = MAX_LOG_ENTRIES

\* The entry a reader is given is one of the log's entries: log_seq_start and
\* log_seq_next "Return pointer to log entry at position *pos" (lines 57, 76).
EntryInLog == \A r \in Readers : pc[r] \in {"show_id", "show_message"} => pos[r] < MAX_LOG_ENTRIES

=============================================================================
