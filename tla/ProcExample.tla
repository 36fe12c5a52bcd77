---------------------------- MODULE ProcExample -----------------------------
(***************************************************************************)
(* examples/class_3/01_basic_procfs/proc_example.c                         *)
(*                                                                         *)
(* A proc file whose reads print the reader's pid through a buffer that    *)
(* reads and writes share without a lock.  A text is two parts, written    *)
(* and copied one after the other, each marked with who wrote it.          *)
(***************************************************************************)
EXTENDS Naturals

CONSTANTS Readers, Writers

Callers == Readers \cup Writers
Parts == 1 .. 2

VARIABLES phase,           \* of the module: out, buffer, live, remove
          kernel_buffer,   \* who wrote each part ("zero": kzalloc)
          pc,              \* of each process: idle, format, copy, return
          part,            \* the part it is about to write or to copy
          got,             \* of a reader: who wrote the parts it was given
          alone            \* history: no other call has written since this one began

vars == <<phase, kernel_buffer, pc, part, got, alone>>
call == <<pc, part, got, alone>>

Text == Callers \cup {"zero"}

TypeOK ==
    /\ phase \in {"out", "buffer", "live", "remove"}
    /\ kernel_buffer \in [Parts -> Text]
    /\ pc \in [Callers -> {"idle", "format", "copy", "return"}]
    /\ part \in [Callers -> Parts]
    /\ got \in [Readers -> [Parts -> Text]]
    /\ alone \in [Callers -> BOOLEAN]

Zero == [n \in Parts |-> "zero"]

Init ==
    /\ phase = "out" /\ kernel_buffer = Zero
    /\ pc = [p \in Callers |-> "idle"] /\ part = [p \in Callers |-> 1]
    /\ got = [r \in Readers |-> Zero] /\ alone = [p \in Callers |-> TRUE]

-----------------------------------------------------------------------------
\* proc_init: the buffer, then the file or the buffer freed
AllocBuffer ==
    /\ phase = "out" /\ phase' = "buffer"
    /\ kernel_buffer' = Zero
    /\ UNCHANGED call

CreateEntry ==
    /\ phase = "buffer" /\ phase' = "live"
    /\ UNCHANGED <<kernel_buffer, call>>

CreateEntryFails ==
    /\ phase = "buffer" /\ phase' = "out"
    /\ UNCHANGED <<kernel_buffer, call>>

\* proc_exit: proc_remove lets no call in and waits for those under way
ExitBegin ==
    /\ phase = "live" /\ phase' = "remove"
    /\ UNCHANGED <<kernel_buffer, call>>

\* Fault: kfree before proc_remove has waited.
FreeBufferEarly ==
    /\ phase = "remove" /\ phase' = "out"
    /\ UNCHANGED <<kernel_buffer, call>>

FreeBuffer ==
    /\ phase = "remove" /\ phase' = "out"
    /\ \A p \in Callers : pc[p] = "idle"
    /\ UNCHANGED <<kernel_buffer, call>>

-----------------------------------------------------------------------------
\* A read at offset 0 (elsewhere it returns 0), or a write that fits
Begin(p) ==
    /\ phase = "live" /\ pc[p] = "idle"
    /\ pc' = [pc EXCEPT ![p] = "format"] /\ part' = [part EXCEPT ![p] = 1]
    /\ alone' = [alone EXCEPT ![p] = TRUE]
    /\ UNCHANGED <<phase, kernel_buffer, got>>

\* Fault: a read leaves the first part as it is.
FillTail(p) ==
    /\ pc[p] = "format"
    /\ kernel_buffer' = [kernel_buffer EXCEPT ![2] = p]
    /\ alone' = [q \in Callers |-> alone[q] /\ q = p]
    /\ pc' = [pc EXCEPT ![p] = IF p \in Readers THEN "copy" ELSE "return"]
    /\ UNCHANGED <<phase, part, got>>

\* snprintf or copy_from_user puts the next part in the buffer.
Fill(p) ==
    /\ pc[p] = "format"
    /\ kernel_buffer' = [kernel_buffer EXCEPT ![part[p]] = p]
    /\ alone' = [q \in Callers |-> alone[q] /\ q = p]
    /\ part' = [part EXCEPT ![p] = (@ % 2) + 1]
    /\ pc' = [pc EXCEPT ![p] = IF part[p] = 1 THEN "format"
                               ELSE IF p \in Readers THEN "copy" ELSE "return"]
    /\ UNCHANGED <<phase, got>>

\* copy_to_user
CopyOut(p) ==
    /\ pc[p] = "copy"
    /\ got' = [got EXCEPT ![p][part[p]] = kernel_buffer[part[p]]]
    /\ part' = [part EXCEPT ![p] = (@ % 2) + 1]
    /\ pc' = [pc EXCEPT ![p] = IF part[p] = 1 THEN "copy" ELSE "return"]
    /\ UNCHANGED <<phase, kernel_buffer, alone>>

\* A call returns, or copy_from_user or copy_to_user faults.
Return(p) ==
    /\ pc[p] \in {"return", IF p \in Readers THEN "copy" ELSE "format"}
    /\ pc' = [pc EXCEPT ![p] = "idle"] /\ part' = [part EXCEPT ![p] = 1]
    /\ got' = [r \in Readers |-> IF r = p THEN Zero ELSE got[r]]
    /\ UNCHANGED <<phase, kernel_buffer, alone>>

Next ==
    \/ AllocBuffer \/ CreateEntry \/ CreateEntryFails \/ ExitBegin \/ FreeBuffer
    \/ \E p \in Callers : Begin(p) \/ Fill(p) \/ CopyOut(p) \/ Return(p)

Spec == Init /\ [][Next]_vars

-----------------------------------------------------------------------------
\* A read that no other call wrote over tells the reader its own pid
\* (proc_example.c:21-24).
ReadsOwnPid ==
    \A r \in Readers :
        pc[r] = "return" /\ alone[r] => got[r] = [n \in Parts |-> r]

\* The buffer is there as long as a call uses it (proc_example.c:68-73).
BufferOutlivesCalls == phase = "out" => \A p \in Callers : pc[p] = "idle"
=============================================================================
