-------------------------- MODULE ProcFiles_proofs --------------------------
(***************************************************************************)
(* The memory behind the files of /proc and /sys, for any users, sizes and *)
(* number of commands.  proc_example.c (Pe...) and sysfs_example.c (Se...) *)
(* keep what a call wrote as long as nobody writes over it; exit and walks *)
(* of data_structures_demo.c (Ds...) deal with the structures they passed; *)
(* what a runner of mem_allocator_demo.c (Ma...) holds is told by its      *)
(* place in its command, so every loop frees what an earlier one got.      *)
(***************************************************************************)
EXTENDS ProcFiles, TLAPS

\* The time, in seconds, that the provers have for a step
USE SMTT(40), ZenonT(40)

-----------------------------------------------------------------------------
\* A read that nobody wrote over: what it put in the buffer so far is there, and
\* what it was given is what it put there.
PeUndisturbed(r) ==
    /\ pc_pe[r] = "format" /\ part[r] = 2 => kernel_buffer_pe[1] = r
    /\ pc_pe[r] = "copy" => /\ \A n \in PE!Parts : kernel_buffer_pe[n] = r
                            /\ part[r] = 2 => got[r][1] = r
    /\ pc_pe[r] = "return" => \A n \in PE!Parts : got[r][n] = r

\* Before the entry is made nobody is in a call on it.
PeNoCallYet == phase_pe \in {"out", "buffer"} => \A p \in PE!Callers : pc_pe[p] = "idle"

\* The invariant of proc_example.c
PeInv == PeNoCallYet /\ \A r \in Users : alone_pe[r] => PeUndisturbed(r)

\* The types of proc_example.c hold in every state.
LEMMA PeTyped == PE!Spec => []PE!TypeOK
<1> USE DEF PE!TypeOK, PE!Callers, PE!Parts, PE!Text, PE!Zero
<1>1. PE!Init => PE!TypeOK
    BY DEF PE!Init
<1>2. PE!TypeOK /\ [PE!Next]_(PE!vars) => PE!TypeOK'
    <2> SUFFICES ASSUME PE!TypeOK, [PE!Next]_(PE!vars) PROVE PE!TypeOK'
        BY Zenon
    <2>1. CASE PE!AllocBuffer \/ PE!CreateEntry \/ PE!CreateEntryFails \/ PE!ExitBegin \/ PE!FreeBuffer
        BY <2>1, Zenon DEF PE!AllocBuffer, PE!CreateEntry, PE!CreateEntryFails, PE!ExitBegin,
                           PE!FreeBuffer, PE!call
    <2>2. ASSUME NEW p \in PE!Callers, PE!Begin(p) PROVE PE!TypeOK'
        BY <2>2 DEF PE!Begin
    <2>3. ASSUME NEW p \in PE!Callers, PE!Fill(p) PROVE PE!TypeOK'
        BY <2>3 DEF PE!Fill
    <2>4. ASSUME NEW p \in PE!Callers, PE!CopyOut(p) PROVE PE!TypeOK'
        <3>1. part[p] \in PE!Parts /\ kernel_buffer_pe[part[p]] \in PE!Text
            BY Zenon
        <3>2. got' \in [Users -> [PE!Parts -> PE!Text]]
            <4>1. CASE p \in Users
                <5>1. [got[p] EXCEPT ![part[p]] = kernel_buffer_pe[part[p]]] \in [PE!Parts -> PE!Text]
                    BY <3>1, <4>1, Zenon
                <5>2. QED
                    BY <2>4, <5>1, Zenon DEF PE!CopyOut
            <4>2. CASE p \notin Users
                BY <2>4, <4>2, ZenonT(40) DEF PE!CopyOut
            <4>3. QED
                BY <4>1, <4>2, Zenon
        <3>3. QED
            BY <2>4, <3>2 DEF PE!CopyOut
    <2>5. ASSUME NEW p \in PE!Callers, PE!Return(p) PROVE PE!TypeOK'
        BY <2>5 DEF PE!Return
    <2>6. CASE UNCHANGED PE!vars
        BY <2>6, Zenon DEF PE!vars
    <2>7. QED
        BY <2>1, <2>2, <2>3, <2>4, <2>5, <2>6, Zenon DEF PE!Next
<1>3. QED
    BY <1>1, <1>2, PTL DEF PE!Spec

\* Every step keeps what an undisturbed read put in the buffer.
LEMMA PeInvariance == PE!Spec => []PeInv
<1>1. PE!Init => PeInv
    BY ZenonT(40) DEF PE!Init, PeInv, PeNoCallYet, PeUndisturbed, PE!Callers
<1>2. PE!TypeOK /\ PeInv /\ [PE!Next]_(PE!vars) => PeInv'
    <2> SUFFICES ASSUME PE!TypeOK, PeInv, [PE!Next]_(PE!vars) PROVE PeInv'
        BY Zenon
    <2> USE DEF PE!TypeOK, PE!Callers, PE!Parts, PeInv, PeUndisturbed, PeNoCallYet
    <2>1. CASE PE!AllocBuffer \/ PE!CreateEntry \/ PE!CreateEntryFails \/ PE!ExitBegin \/ PE!FreeBuffer
        BY <2>1 DEF PE!AllocBuffer, PE!CreateEntry, PE!CreateEntryFails, PE!ExitBegin,
                    PE!FreeBuffer, PE!call
    <2>2. ASSUME NEW p \in PE!Callers, PE!Begin(p) PROVE PeInv'
        BY <2>2 DEF PE!Begin
    <2>3. ASSUME NEW p \in PE!Callers, PE!Fill(p) PROVE PeInv'
        <3>1. PeNoCallYet'
            BY <2>3, Zenon DEF PE!Fill
        <3>2. ASSUME NEW r \in Users, alone_pe'[r] PROVE r = p /\ alone_pe[r]
            BY <2>3, <3>2, ZenonT(40) DEF PE!Fill
        <3>3. p \in Users /\ alone_pe[p] => PeUndisturbed(p)'
            BY <2>3 DEF PE!Fill
        <3> QED
            BY <3>1, <3>2, <3>3
    <2>4. ASSUME NEW p \in PE!Callers, PE!CopyOut(p) PROVE PeInv'
        BY <2>4 DEF PE!CopyOut
    <2>5. ASSUME NEW p \in PE!Callers, PE!Return(p) PROVE PeInv'
        BY <2>5 DEF PE!Return
    <2>6. CASE UNCHANGED PE!vars
        BY <2>6 DEF PE!vars
    <2>7. QED
        BY <2>1, <2>2, <2>3, <2>4, <2>5, <2>6, Zenon DEF PE!Next
<1>3. QED
    BY <1>1, <1>2, PeTyped, PTL DEF PE!Spec

\* A read that nobody wrote over tells the reader's own pid, and the buffer is
\* there for every call (proc_example.c:13-50).
LEMMA PeReadsOwn == PE!Spec => [](PE!ReadsOwnPid /\ PE!BufferOutlivesCalls)
<1>1. PE!TypeOK /\ PeInv => PE!ReadsOwnPid /\ PE!BufferOutlivesCalls
    BY DEF PE!TypeOK, PeInv, PeNoCallYet, PeUndisturbed, PE!ReadsOwnPid, PE!BufferOutlivesCalls
<1>2. QED
    BY <1>1, PeTyped, PeInvariance, PTL

-----------------------------------------------------------------------------
\* What a walk has passed when it is about to enter the n-th structure
DsPassed(n) == UNION {DS!OfKind(DS!Walked[m]) : m \in 1 .. n - 1}

\* Init links what it allocates; exit, and a walk, have dealt with the structures
\* they passed and with no other.
DsInv ==
    /\ phase_ds # "out" => linked = allocated_ds /\ leaked = {}
    /\ phase_ds = "out" => allocated_ds = leaked
    /\ phase_ds \in {"live", "remove"} => step = 0
    /\ phase_ds = "clean" => step <= 3 /\ linked \cap DsPassed(step + 1) = {}
    /\ phase_ds # "out" => linked \subseteq DsPassed(4)
    /\ phase_ds \notin {"live", "remove"} => \A v \in Viewers : at[v] = 0
    /\ \A v \in Viewers : /\ at[v] = 0 => seen_ds[v] = {}
                          /\ at[v] # 0 => seen_ds[v] = allocated_ds \cap DsPassed(at[v])

\* A walk and exit go through three structures.
LEMMA DsThreeWalked ==
    /\ Len(DS!Walked) = 3
    /\ DS!Walked[1] = "task" /\ DS!Walked[2] = "user" /\ DS!Walked[3] = "interval"
    BY Zenon DEF DS!Walked

\* Init makes eight calls.
LEMMA DsEightCalls ==
    /\ Len(DS!Calls) = 8
    /\ \A n \in 1 .. 8 : /\ DS!Calls[n] \in DS!Items
                         /\ DS!Calls[n][1] \in {"task", "message", "user", "interval"}
<1>1. Len(DS!Calls) = 8 /\ DOMAIN DS!Calls = 1 .. 8
    BY DEF DS!Calls
<1>2. \A n \in 1 .. 8 : DS!Calls[n][1] \in {"task", "message", "user", "interval"}
    BY DEF DS!Calls
<1>3. QED
    BY <1>1, <1>2, Zenon DEF DS!Items

\* One structure more is passed with each step, and after three nothing is left.
LEMMA DsPassedGrows ==
    /\ DsPassed(1) = {}
    /\ \A n \in 1 .. 3 : DsPassed(n + 1) = DsPassed(n) \cup DS!OfKind(DS!Walked[n])
    /\ \A x \in DS!Items : x[1] \in {"task", "user", "interval"} => x \in DsPassed(4)
<1>1. DsPassed(1) = {}
    <2>1. ASSUME NEW x \in DsPassed(1) PROVE FALSE
        <3>1. PICK m \in 1 .. 1 - 1 : x \in DS!OfKind(DS!Walked[m])
            BY <2>1, Zenon DEF DsPassed
        <3>2. QED
            BY <3>1
    <2>2. QED
        BY <2>1, Zenon
<1>2. ASSUME NEW n \in 1 .. 3 PROVE DsPassed(n + 1) = DsPassed(n) \cup DS!OfKind(DS!Walked[n])
    <2>1. 1 .. (n + 1) - 1 = (1 .. n - 1) \cup {n}
        OBVIOUS
    <2>2. DsPassed(n + 1) = UNION {DS!OfKind(DS!Walked[m]) : m \in (1 .. n - 1) \cup {n}}
        BY <2>1, Zenon DEF DsPassed
    <2>3. QED
        BY <2>2, Zenon DEF DsPassed
<1>3. ASSUME NEW x \in DS!Items, x[1] \in {"task", "user", "interval"} PROVE x \in DsPassed(4)
    <2>1. \E m \in 1 .. 3 : x \in DS!OfKind(DS!Walked[m])
        BY <1>3, DsThreeWalked DEF DS!OfKind
    <2>2. 4 - 1 = 3
        OBVIOUS
    <2>3. QED
        BY <2>1, <2>2, Zenon DEF DsPassed
<1>4. QED
    BY <1>1, <1>2, <1>3, Zenon

\* What a call of init does to the structures
DsAdded(x) ==
    \/ DS!send_message(x) /\ UNCHANGED <<linked, allocated_ds>>
    \/ DS!Link(x) /\ x \in DsPassed(4) /\ UNCHANGED msg_queue

\* A call of init sends a message or links one item of a structure walked.
LEMMA DsAddsOne == DS!TypeOK /\ DS!Add => \E x \in DS!Items : DsAdded(x)
<1> SUFFICES ASSUME DS!TypeOK, DS!Add PROVE \E x \in DS!Items : DsAdded(x)
    BY Zenon
<1> DEFINE x == DS!Calls[step + 1]
<1>1. step + 1 \in 1 .. 8
    BY DsEightCalls DEF DS!Add, DS!TypeOK
<1>2. x \in DS!Items /\ (x[1] # "message" => x \in DsPassed(4))
    BY <1>1, DsEightCalls, DsPassedGrows, Zenon
<1>3. IF x[1] = "message" THEN DS!send_message(x) /\ UNCHANGED <<linked, allocated_ds>>
                          ELSE DS!Link(x) /\ UNCHANGED msg_queue
    BY Zenon DEF DS!Add
<1> HIDE DEF x
<1>4. QED
    BY <1>2, <1>3, Zenon DEF DsAdded

\* The types of data_structures_demo.c hold in every state.
LEMMA DsTyped == DS!Spec => []DS!TypeOK
<1> USE DEF DS!TypeOK
<1>1. DS!Init => DS!TypeOK
    BY ProcFilesAssumption, DsThreeWalked, DsEightCalls DEF DS!Init
<1>2. DS!TypeOK /\ [DS!Next]_(DS!vars) => DS!TypeOK'
    <2> SUFFICES ASSUME DS!TypeOK, [DS!Next]_(DS!vars) PROVE DS!TypeOK'
        BY Zenon
    <2> USE DsThreeWalked, DsEightCalls DEF DS!viewers
    <2>1. CASE DS!Load
        BY <2>1, ProcFilesAssumption DEF DS!Load
    <2>2. CASE DS!Add
        <3>1. PICK x \in DS!Items : DsAdded(x)
            BY <2>2, DsAddsOne, Zenon
        <3>2. linked' \subseteq DS!Items /\ allocated_ds' \subseteq DS!Items
            BY <3>1, Zenon DEF DsAdded, DS!Link
        <3>3. msg_queue' \in Seq(DS!Items) /\ Len(msg_queue') <= QUEUE_SIZE
            <4>1. CASE msg_queue' = msg_queue
                BY <4>1, Zenon
            <4>2. CASE msg_queue' = Append(msg_queue, x) /\ Len(msg_queue) < QUEUE_SIZE
                BY <4>2, ProcFilesAssumption
            <4>3. QED
                BY <3>1, <4>1, <4>2, Zenon DEF DsAdded, DS!send_message
        <3>4. QED
            BY <2>2, <3>2, <3>3 DEF DS!Add
    <2>3. CASE DS!CreateEntry \/ DS!CreateEntryFails \/ DS!ExitBegin \/ DS!Removed \/ DS!Unload
        BY <2>3 DEF DS!CreateEntry, DS!CreateEntryFails, DS!ExitBegin, DS!Removed, DS!Unload
    <2>4. CASE DS!Clean
        BY <2>4 DEF DS!Clean
    <2>5. ASSUME NEW v \in Viewers, DS!ShowBegin(v) \/ DS!ShowNext(v) \/ DS!ShowReturns(v)
          PROVE  DS!TypeOK'
        <3>1. CASE DS!ShowBegin(v)
            BY <3>1 DEF DS!ShowBegin
        <3>2. CASE DS!ShowNext(v)
            BY <3>2 DEF DS!ShowNext
        <3>3. CASE DS!ShowReturns(v)
            BY <3>3 DEF DS!ShowReturns
        <3>4. QED
            BY <2>5, <3>1, <3>2, <3>3, ZenonT(40)
    <2>6. CASE UNCHANGED DS!vars
        BY <2>6, Zenon DEF DS!vars
    <2>7. QED
        BY <2>1, <2>2, <2>3, <2>4, <2>5, <2>6, ZenonT(40) DEF DS!Next
<1>3. QED
    BY <1>1, <1>2, PTL DEF DS!Spec

\* Every step of load, exit and walk keeps the invariant.
LEMMA DsInvariance == DS!Spec => []DsInv
<1>1. DS!Init => DsInv
    BY Zenon DEF DS!Init, DsInv
<1>2. DS!TypeOK /\ DsInv /\ [DS!Next]_(DS!vars) => DsInv'
    <2> SUFFICES ASSUME DS!TypeOK, DsInv, [DS!Next]_(DS!vars) PROVE DsInv'
        BY Zenon
    <2> USE DsThreeWalked, DsEightCalls, DsPassedGrows DEF DS!TypeOK, DsInv, DS!viewers
    <2>1. CASE DS!Load
        BY <2>1, Zenon DEF DS!Load
    <2>2. CASE DS!Add
        <3>1. PICK x \in DS!Items : DsAdded(x)
            BY <2>2, DsAddsOne, Zenon
        <3>2. linked' = allocated_ds' /\ linked' \subseteq DsPassed(4)
            BY <2>2, <3>1, Zenon DEF DS!Add, DsAdded, DS!Link
        <3>3. QED
            BY <2>2, <3>2, Zenon DEF DS!Add
    <2>3. CASE DS!CreateEntry \/ DS!CreateEntryFails
        BY <2>3, ZenonT(40) DEF DS!CreateEntry, DS!CreateEntryFails
    <2>4. CASE DS!ExitBegin
        BY <2>4, Zenon DEF DS!ExitBegin
    <2>5. CASE DS!Removed
        BY <2>5 DEF DS!Removed
    <2>6. CASE DS!Clean
        <3>1. step + 1 \in 1 .. 3
            BY <2>6 DEF DS!Clean
        <3>2. DsPassed(step + 1 + 1) = DsPassed(step + 1) \cup DS!OfKind(DS!Walked[step + 1])
            BY <3>1, Zenon
        <3> DEFINE gone == linked \cap DS!OfKind(DS!Walked[step + 1])
        <3>3. linked' \cap DsPassed(step' + 1) = {}
            <4>1. linked' = linked \ gone /\ step' + 1 = step + 1 + 1 /\ phase_ds = "clean"
                BY <2>6, Zenon DEF DS!Clean
            <4>2. linked \cap DsPassed(step + 1) = {}
                BY <4>1, Zenon
            <4>3. QED
                BY <3>2, <4>1, <4>2, Zenon
        <3>4. QED
            BY <2>6, <3>1, <3>3 DEF DS!Clean
    <2>7. CASE DS!Unload
        <3>1. linked = {}
            <4>1. step + 1 = 4
                BY <2>7 DEF DS!Unload
            <4>2. linked \cap DsPassed(4) = {} /\ linked \subseteq DsPassed(4)
                BY <2>7, <4>1, Zenon DEF DS!Unload
            <4>3. QED
                BY <4>2, ZenonT(40)
        <3>2. QED
            BY <2>7, <3>1, Zenon DEF DS!Unload
    <2>8. ASSUME NEW v \in Viewers, DS!ShowBegin(v) \/ DS!ShowNext(v) \/ DS!ShowReturns(v)
          PROVE  DsInv'
        <3>1. CASE DS!ShowBegin(v)
            BY <3>1, ZenonT(40) DEF DS!ShowBegin
        <3>2. CASE DS!ShowNext(v)
            BY <3>2 DEF DS!ShowNext
        <3>3. CASE DS!ShowReturns(v)
            BY <3>3, ZenonT(40) DEF DS!ShowReturns
        <3>4. QED
            BY <2>8, <3>1, <3>2, <3>3, ZenonT(40)
    <2>9. CASE UNCHANGED DS!vars
        BY <2>9, Zenon DEF DS!vars
    <2>10. QED
        BY <2>1, <2>2, <2>3, <2>4, <2>5, <2>6, <2>7, <2>8, <2>9, ZenonT(40) DEF DS!Next
<1>3. QED
    BY <1>1, <1>2, DsTyped, PTL DEF DS!Spec

\* Exit frees all that was linked, and a walk shows only what is there
\* (data_structures_demo.c:157-197, 232-264).
LEMMA DsItemsKept == DS!Spec => [](DS!OnlyFailedLoadLeaks /\ DS!ShowsWhatIsThere)
<1>1. DsInv => DS!OnlyFailedLoadLeaks /\ DS!ShowsWhatIsThere
    BY Zenon DEF DsInv, DS!OnlyFailedLoadLeaks, DS!ShowsWhatIsThere, DsPassed
<1>2. QED
    BY <1>1, DsInvariance, PTL

-----------------------------------------------------------------------------
\* What strncpy makes of the byte n of a text
SeCopied(text, n) == IF \E k \in 0 .. n : text[k] = SE!NUL THEN SE!NUL ELSE text[n]

\* How far a store has come: the bytes it copied, and whether it cut the text.
SeWritten(p) ==
    CASE pc_se[p] = "copy"   -> i[p]
      [] pc_se[p] = "cut"    -> count[p]
      [] pc_se[p] = "return" -> count[p] - 1
      [] OTHER            -> 0

\* No store reaches the last byte, and what an undisturbed one wrote is there.
SeStoresOK ==
    /\ example_string[StringSize - 1] = SE!NUL
    /\ phase_se \in {"out", "kobject"} => \A p \in Users : pc_se[p] = "idle"
    /\ \A p \in Users :
        /\ pc_se[p] # "idle" => /\ count[p] < StringSize
                                /\ \A k \in SE!Index : k >= count[p] => buf[p][k] = SE!NUL
        /\ pc_se[p] = "copy" => i[p] < count[p]
        /\ alone_se[p] => /\ \A n \in 0 .. SeWritten(p) - 1 :
                                example_string[n] = SeCopied(buf[p], n)
                          /\ pc_se[p] = "return" => example_string[count[p] - 1] = SE!NUL

\* The array starts out blank and no store is under way.
LEMMA SeTypedInit == SE!Init => SE!TypeOK /\ SeStoresOK
<1> SUFFICES ASSUME SE!Init PROVE SE!TypeOK /\ SeStoresOK
    BY Zenon
<1> USE ProcFilesAssumption DEF SE!Init, SE!Blank, SE!Index, SE!Byte, SE!Counts, SE!NUL
<1>1. SE!TypeOK
    BY DEF SE!TypeOK
<1>2. \A p \in Users : pc_se[p] = "idle" /\ ~alone_se[p]
    BY Zenon
<1>3. example_string[StringSize - 1] = SE!NUL
    OBVIOUS
<1>4. SeStoresOK
    BY <1>2, <1>3, Zenon DEF SeStoresOK
<1>5. QED
    BY <1>1, <1>4, Zenon

\* What a step on the string leaves of the stores that were not disturbed.
LEMMA SeStoreStep ==
    ASSUME SE!TypeOK, SeStoresOK, NEW p \in Users, SE!Copy(p) \/ SE!Cut(p)
    PROVE  SE!TypeOK' /\ SeStoresOK'
<1> USE ProcFilesAssumption DEF SE!Index, SE!Counts
<1>1. /\ pc_se[p] \in {"copy", "cut"} /\ count[p] \in 1 .. StringSize - 1
      /\ i[p] \in Nat /\ (pc_se[p] = "copy" => i[p] < count[p])
    <2>1. pc_se[p] \in {"copy", "cut"} /\ pc_se[p] # "idle"
        BY Zenon DEF SE!Copy, SE!Cut
    <2>2. count[p] < StringSize /\ (pc_se[p] = "copy" => i[p] < count[p])
        BY <2>1, Zenon DEF SeStoresOK
    <2>3. QED
        BY <2>1, <2>2 DEF SE!TypeOK
<1> DEFINE place == IF pc_se[p] = "copy" THEN i[p] ELSE count[p] - 1
           byte == IF pc_se[p] = "copy" THEN SeCopied(buf[p], i[p]) ELSE SE!NUL
<1>2. place \in 0 .. StringSize - 2
    BY <1>1
<1>3. byte \in SE!Byte
    <2>1. pc_se[p] = "copy" => buf[p][i[p]] \in SE!Byte
        BY <1>1 DEF SE!TypeOK
    <2>2. SE!NUL \in SE!Byte
        BY Zenon DEF SE!Byte
    <2>3. QED
        BY <2>1, <2>2, Zenon DEF SeCopied
<1>4. /\ example_string' = [example_string EXCEPT ![place] = byte]
      /\ alone_se' = [q \in Users |-> alone_se[q] /\ q = p]
      /\ UNCHANGED <<phase_se, example_value, buf, count>>
    BY Zenon DEF SE!Copy, SE!Cut, SeCopied
<1>5. \/ /\ pc_se[p] = "copy" /\ i' = [i EXCEPT ![p] = @ + 1]
         /\ pc_se' = [pc_se EXCEPT ![p] = IF i[p] + 1 = count[p] THEN "cut" ELSE "copy"]
      \/ pc_se[p] = "cut" /\ i' = i /\ pc_se' = [pc_se EXCEPT ![p] = "return"]
    BY Zenon DEF SE!Copy, SE!Cut
<1>6. SE!TypeOK'
    <2>1. /\ pc_se' \in [Users -> {"idle", "copy", "cut", "return"}]
          /\ i' \in [Users -> 0 .. StringSize]
        <3>1. CASE pc_se[p] = "copy"
            <4>1. i[p] + 1 \in 0 .. StringSize
                BY <1>1, <3>1
            <4>2. i' = [i EXCEPT ![p] = i[p] + 1]
                BY <1>5, <3>1, Zenon
            <4>3. QED
                BY <1>5, <3>1, <4>1, <4>2, ZenonT(40) DEF SE!TypeOK
        <3>2. QED
            BY <1>5, <3>1, Zenon DEF SE!TypeOK
    <2>2. example_string' \in [SE!Index -> SE!Byte]
        <3> HIDE DEF place, byte
        <3> QED BY <1>2, <1>3, <1>4, ZenonT(40) DEF SE!TypeOK
    <2>3. QED
        BY <1>4, <2>1, <2>2, Zenon DEF SE!TypeOK
<1>7. example_string'[StringSize - 1] = SE!NUL
    <2> HIDE DEF place, byte
    <2> QED BY <1>2, <1>4 DEF SE!TypeOK, SeStoresOK
<1>8. phase_se' \in {"out", "kobject"} => \A q \in Users : pc_se'[q] = "idle"
    BY <1>1, <1>4, ZenonT(40) DEF SeStoresOK
<1>9. ASSUME NEW q \in Users
      PROVE  /\ pc_se'[q] # "idle" => /\ count'[q] < StringSize
                                      /\ \A k \in SE!Index : k >= count'[q] => buf'[q][k] = SE!NUL
             /\ pc_se'[q] = "copy" => i'[q] < count'[q]
    BY <1>1, <1>4, <1>5 DEF SeStoresOK, SE!TypeOK
<1>10. ASSUME NEW q \in Users, alone_se'[q]
       PROVE  /\ \A n \in 0 .. SeWritten(q)' - 1 : example_string'[n] = SeCopied(buf[q], n)
              /\ pc_se'[q] = "return" => example_string'[count[q] - 1] = SE!NUL
    <2>1. q = p /\ alone_se[p]
        BY <1>4, <1>10, Zenon
    <2>2. \A n \in 0 .. SeWritten(p) - 1 : example_string[n] = SeCopied(buf[p], n)
        BY <2>1, ZenonT(40) DEF SeStoresOK
    <2>3. CASE pc_se[p] = "copy"
        <3>1. SeWritten(p) = i[p] /\ SeWritten(p)' = i[p] + 1 /\ pc_se'[p] # "return"
            BY <1>1, <1>4, <1>5, <2>3, ZenonT(40) DEF SeWritten, SE!TypeOK
        <3>2. example_string' = [example_string EXCEPT ![i[p]] = SeCopied(buf[p], i[p])]
            BY <1>4, <2>3, Zenon
        <3>3. \A n \in 0 .. i[p] : example_string'[n] = SeCopied(buf[p], n)
            BY <1>1, <2>2, <2>3, <3>1, <3>2 DEF SE!TypeOK
        <3>4. QED
            BY <1>1, <2>1, <3>1, <3>3
    <2>4. CASE pc_se[p] = "cut"
        <3>1. SeWritten(p) = count[p] /\ SeWritten(p)' = count[p] - 1
            BY <1>1, <1>4, <1>5, <2>4, Zenon DEF SeWritten, SE!TypeOK
        <3>2. example_string' = [example_string EXCEPT ![count[p] - 1] = SE!NUL]
            BY <1>4, <2>4, ZenonT(40)
        <3>3. QED
            BY <1>1, <2>1, <2>2, <3>1, <3>2 DEF SE!TypeOK
    <2>5. QED
        BY <1>1, <2>3, <2>4, ZenonT(40)
<1>11. SeStoresOK'
    BY <1>4, <1>7, <1>8, <1>9, <1>10 DEF SeStoresOK
<1>12. QED
    BY <1>6, <1>11, ZenonT(40)

\* Every step keeps the array terminated and what an undisturbed store wrote.
LEMMA SeTypedNext ==
    ASSUME SE!TypeOK, SeStoresOK, [SE!Next]_(SE!vars)
    PROVE  SE!TypeOK' /\ SeStoresOK'
<1> USE ProcFilesAssumption DEF SE!Index, SE!Byte, SE!Counts, SE!store, SE!NUL
<1>1. CASE SE!CreateKobject
    <2>1. PICK c \in Chars : example_string' = [SE!Blank EXCEPT ![0] = c]
        BY <1>1, Zenon DEF SE!CreateKobject
    <2>2. SE!TypeOK'
        BY <1>1, <2>1, Zenon DEF SE!CreateKobject, SE!Blank, SE!TypeOK
    <2>3. \A p \in Users : pc_se[p] = "idle" /\ SeWritten(p) = 0
        BY <1>1, Zenon DEF SE!CreateKobject, SeStoresOK, SeWritten
    <2>4. example_string'[StringSize - 1] = SE!NUL
        BY <2>1 DEF SE!Blank
    <2>5. SeStoresOK'
        BY <1>1, <2>3, <2>4 DEF SE!CreateKobject, SeStoresOK, SeWritten
    <2>6. QED
        BY <2>2, <2>5, Zenon
<1>2. CASE SE!CreateGroup \/ SE!ExitBegin \/ SE!Removed \/ SE!value_store \/ UNCHANGED SE!vars
    <2>1. UNCHANGED <<example_string, SE!store>>
        BY <1>2, Zenon DEF SE!CreateGroup, SE!ExitBegin, SE!Removed, SE!value_store, SE!vars
    <2>2. SE!TypeOK'
        BY <1>2, <2>1, Zenon DEF SE!CreateGroup, SE!ExitBegin, SE!Removed, SE!value_store,
                                 SE!vars, SE!TypeOK
    <2>3. phase_se' \in {"out", "kobject"} => \A p \in Users : pc_se'[p] = "idle"
        BY <1>2, <2>1, ZenonT(40) DEF SE!CreateGroup, SE!ExitBegin, SE!Removed, SE!value_store,
                                 SE!vars, SeStoresOK
    <2>4. QED
        BY <2>1, <2>2, <2>3, ZenonT(40) DEF SeStoresOK, SeWritten
<1>3. ASSUME NEW p \in Users, SE!string_store(p) PROVE SE!TypeOK' /\ SeStoresOK'
    <2>1. PICK n \in SE!Counts : /\ n < StringSize
                                 /\ \E text \in [0 .. n - 1 -> SE!Byte] :
                                        buf' = [buf EXCEPT ![p] = [k \in SE!Index |-> IF k < n THEN text[k] ELSE SE!NUL]]
                                 /\ count' = [count EXCEPT ![p] = n]
        BY <1>3, Zenon DEF SE!string_store, SE!Fits
    <2>2. PICK text \in [0 .. n - 1 -> SE!Byte] :
              buf' = [buf EXCEPT ![p] = [k \in SE!Index |-> IF k < n THEN text[k] ELSE SE!NUL]]
        BY <2>1, ZenonT(40)
    <2>3. SE!TypeOK'
        BY <1>3, <2>1, <2>2 DEF SE!string_store, SE!TypeOK
    <2>4. SeWritten(p)' = 0
        BY <1>3, Zenon DEF SE!string_store, SeWritten, SE!TypeOK
    <2>5. \A q \in Users : q # p => SeWritten(q)' = SeWritten(q)
        BY <1>3, <2>1, ZenonT(40) DEF SE!string_store, SeWritten, SE!TypeOK
    <2>6. SeStoresOK'
        BY <1>3, <2>1, <2>2, <2>4, <2>5 DEF SE!string_store, SE!TypeOK, SeStoresOK
    <2>7. QED
        BY <2>3, <2>6, Zenon
<1>4. ASSUME NEW p \in Users, SE!Return(p) PROVE SE!TypeOK' /\ SeStoresOK'
    <2>1. SE!TypeOK'
        BY <1>4 DEF SE!Return, SE!TypeOK, SE!Blank
    <2>2. \A q \in Users : q # p => SeWritten(q)' = SeWritten(q)
        BY <1>4, ZenonT(40) DEF SE!Return, SeWritten, SE!TypeOK
    <2>3. SeStoresOK'
        BY <1>4, <2>2 DEF SE!Return, SE!TypeOK, SeStoresOK
    <2>4. QED
        BY <2>1, <2>3, Zenon
<1>5. QED
    BY <1>1, <1>2, <1>3, <1>4, SeStoreStep, Zenon DEF SE!Next

\* What a store wrote alone is what a show finds.
LEMMA SeShowsStored == SE!TypeOK /\ SeStoresOK => SE!StringEnds /\ SE!StoreShows
<1> SUFFICES ASSUME SE!TypeOK, SeStoresOK PROVE SE!StringEnds /\ SE!StoreShows
    BY ZenonT(40)
<1> USE ProcFilesAssumption DEF SE!Index
<1>1. SE!StringEnds
    BY DEF SE!StringEnds, SeStoresOK
<1>2. ASSUME NEW p \in Users, pc_se[p] = "return", alone_se[p]
      PROVE  /\ SE!Shown(example_string) = SE!Shown(buf[p]) \ {count[p] - 1}
             /\ \A n \in SE!Shown(example_string) : example_string[n] = buf[p][n]
    <2> DEFINE c == count[p]
    <2>1. c \in 1 .. StringSize - 1
        <3>1. pc_se[p] # "idle"
            BY <1>2, Zenon
        <3>2. c < StringSize
            BY <3>1, Zenon DEF SeStoresOK
        <3>3. QED
            BY <3>2 DEF SE!TypeOK, SE!Counts
    <2>2. /\ \A n \in 0 .. c - 2 : example_string[n] = SeCopied(buf[p], n)
          /\ example_string[c - 1] = SE!NUL
        BY <1>2, <2>1 DEF SeStoresOK, SeWritten
    <2>3. \A k \in SE!Index : k >= c => buf[p][k] = SE!NUL
        BY <1>2, Zenon DEF SeStoresOK
    <2> HIDE DEF c
    <2>4. ASSUME NEW n \in SE!Index, n \in SE!Shown(example_string)
          PROVE  n \in SE!Shown(buf[p]) /\ n < c - 1 /\ example_string[n] = buf[p][n]
        <3>1. n < c - 1
            BY <2>1, <2>2, <2>4 DEF SE!Shown
        <3>2. \A k \in 0 .. n : buf[p][k] # SE!NUL
            <4>1. \A k \in 0 .. n : example_string[k] = SeCopied(buf[p], k)
                                      /\ example_string[k] # SE!NUL
                BY <2>1, <2>2, <2>4, <3>1 DEF SE!Shown
            <4>2. QED
                BY <4>1, Zenon DEF SeCopied
        <3>3. example_string[n] = buf[p][n]
            BY <2>1, <2>2, <3>1, <3>2 DEF SeCopied
        <3>4. QED
            BY <3>1, <3>2, <3>3, Zenon DEF SE!Shown
    <2>5. ASSUME NEW n \in SE!Index, n \in SE!Shown(buf[p]), n # c - 1
          PROVE  n \in SE!Shown(example_string)
        <3>1. \A k \in 0 .. n : buf[p][k] # SE!NUL
            BY <2>5, Zenon DEF SE!Shown
        <3>2. n < c - 1
            BY <2>1, <2>3, <2>5, <3>1
        <3>3. \A k \in 0 .. n : example_string[k] = SeCopied(buf[p], k)
            BY <2>1, <2>2, <3>2
        <3>4. \A k \in 0 .. n : SeCopied(buf[p], k) # SE!NUL
            BY <3>1 DEF SeCopied
        <3>5. QED
            BY <3>3, <3>4, Zenon DEF SE!Shown
    <2>6. c - 1 \notin SE!Shown(example_string)
        BY <2>1, <2>2 DEF SE!Shown
    <2>7. SE!Shown(example_string) = SE!Shown(buf[p]) \ {c - 1}
        <3>1. SE!Shown(example_string) \subseteq SE!Index /\ SE!Shown(buf[p]) \subseteq SE!Index
            BY Zenon DEF SE!Shown
        <3>2. QED
            BY <2>4, <2>5, <2>6, <3>1, Zenon
    <2>8. \A n \in SE!Shown(example_string) : example_string[n] = buf[p][n]
        BY <2>4, Zenon DEF SE!Shown
    <2>9. QED
        BY <2>7, <2>8, Zenon DEF c
<1>3. QED
    BY <1>1, <1>2, Zenon DEF SE!StoreShows

\* The string attribute ends within its array, and shows an undisturbed store
\* (sysfs_example.c:33-51).
LEMMA SeStringKept == SE!Spec => [](SE!TypeOK /\ SE!StringEnds /\ SE!StoreShows)
<1>1. SE!TypeOK /\ SeStoresOK /\ [SE!Next]_(SE!vars) => (SE!TypeOK /\ SeStoresOK)'
    BY SeTypedNext, Zenon
<1>2. QED
    BY SeTypedInit, <1>1, SeShowsStored, PTL DEF SE!Spec

\* However stores overlap, string_show finds a NUL in the array, because
\* string_store refuses a text as long as the array (sysfs_example.c:43-47).
THEOREM StringAlwaysEnds == SE!Spec => []SE!StringEnds
BY SeStringKept, PTL

-----------------------------------------------------------------------------
\* The loops that the commands are made of
MaLoops == [do : {"alloc", "free", "free_even_null", "alloc_until", "free_counted"},
            array : MA!Arrays]
         \cup [do : {"record"}, array : MA!Tests]

\* The loops of a command from the n-th on
MaRest(c, n) == SubSeq(c, n, Len(c))

\* Which loops of the first command allocate, free and record a time
MaAllocs  == {1, 4, 7, 10, 12, 14, 16}
MaFrees7  == {2, 5, 8, 11, 13, 15, 17}
MaRecords == {3, 6, 9}

\* What a concatenation holds
LEMMA MaConcat ==
    ASSUME NEW s \in Seq(MaLoops), NEW t \in Seq(MaLoops)
    PROVE  /\ s \o t \in Seq(MaLoops) /\ Len(s \o t) = Len(s) + Len(t)
           /\ \A n \in 1 .. Len(s) : (s \o t)[n] = s[n]
           /\ \A n \in 1 .. Len(t) : (s \o t)[Len(s) + n] = t[n]
    OBVIOUS

\* A timed test allocates, frees and records.
LEMMA MaPerformanceLoops ==
    ASSUME NEW t \in MA!Tests
    PROVE  /\ MA!Performance(t) \in Seq(MaLoops) /\ Len(MA!Performance(t)) = 3
           /\ MA!Performance(t)[1] = MA!Alloc("ptrs") /\ MA!Performance(t)[2] = MA!FreeAll("ptrs")
           /\ MA!Performance(t)[3] = MA!Record(t)
    BY DEF MA!Performance, MaLoops, MA!Alloc, MA!FreeAll, MA!Record, MA!Loop, MA!Arrays

\* An untimed test leaves out the record.
LEMMA MaUntimedLoops ==
    LET u == SubSeq(MA!Performance("kmalloc"), 1, 2)
    IN  u \in Seq(MaLoops) /\ Len(u) = 2 /\ u[1] = MA!Alloc("ptrs") /\ u[2] = MA!FreeAll("ptrs")
<1>1. "kmalloc" \in MA!Tests
    BY Zenon DEF MA!Tests
<1>2. QED
    BY <1>1, MaPerformanceLoops

\* The first command: seventeen loops
LEMMA MaSeventeenLoops ==
    /\ MA!run_performance_tests \in Seq(MaLoops) /\ Len(MA!run_performance_tests) = 17
    /\ \A n \in MaAllocs : MA!run_performance_tests[n] = MA!Alloc("ptrs")
    /\ \A n \in MaFrees7 : MA!run_performance_tests[n] = MA!FreeAll("ptrs")
    /\ \A n \in MaRecords : \E t \in MA!Tests : MA!run_performance_tests[n] = MA!Record(t)
<1> DEFINE k == MA!Performance("kmalloc")
           v == MA!Performance("vmalloc")
           s == MA!Performance("slab")
           u == SubSeq(MA!Performance("kmalloc"), 1, 2)
           c2 == k \o v
           c3 == c2 \o s
           c4 == c3 \o u
           c5 == c4 \o u
           c6 == c5 \o u
           c7 == c6 \o u
<1>1. {"kmalloc", "vmalloc", "slab"} = MA!Tests
    BY Zenon DEF MA!Tests
<1>2. /\ k \in Seq(MaLoops) /\ Len(k) = 3
      /\ k[1] = MA!Alloc("ptrs") /\ k[2] = MA!FreeAll("ptrs") /\ k[3] = MA!Record("kmalloc")
    BY <1>1, MaPerformanceLoops, Zenon
<1>3. /\ v \in Seq(MaLoops) /\ Len(v) = 3
      /\ v[1] = MA!Alloc("ptrs") /\ v[2] = MA!FreeAll("ptrs") /\ v[3] = MA!Record("vmalloc")
    BY <1>1, MaPerformanceLoops, Zenon
<1>4. /\ s \in Seq(MaLoops) /\ Len(s) = 3
      /\ s[1] = MA!Alloc("ptrs") /\ s[2] = MA!FreeAll("ptrs") /\ s[3] = MA!Record("slab")
    BY <1>1, MaPerformanceLoops, Zenon
<1>5. u \in Seq(MaLoops) /\ Len(u) = 2 /\ u[1] = MA!Alloc("ptrs") /\ u[2] = MA!FreeAll("ptrs")
    BY MaUntimedLoops, Zenon
<1>6. MA!run_performance_tests = c7
    BY ZenonT(40) DEF MA!run_performance_tests
<1> HIDE DEF k, v, s, u
<1>7. /\ c2 \in Seq(MaLoops) /\ Len(c2) = 6
      /\ \A n \in 1 .. 3 : c2[n] = k[n] /\ c2[3 + n] = v[n]
    <2>1. /\ c2 \in Seq(MaLoops) /\ Len(c2) = Len(k) + Len(v)
          /\ \A n \in 1 .. Len(k) : c2[n] = k[n]
          /\ \A n \in 1 .. Len(v) : c2[Len(k) + n] = v[n]
        BY <1>2, <1>3, MaConcat, ZenonT(40)
    <2> HIDE DEF c2
    <2>2. QED
        BY <2>1, <1>2, <1>3
<1> HIDE DEF c2
<1>8. /\ c3 \in Seq(MaLoops) /\ Len(c3) = 9
      /\ \A n \in 1 .. 6 : c3[n] = c2[n]
      /\ \A n \in 1 .. 3 : c3[6 + n] = s[n]
    <2>1. /\ c3 \in Seq(MaLoops) /\ Len(c3) = Len(c2) + Len(s)
          /\ \A n \in 1 .. Len(c2) : c3[n] = c2[n]
          /\ \A n \in 1 .. Len(s) : c3[Len(c2) + n] = s[n]
        BY <1>7, <1>4, MaConcat, ZenonT(40)
    <2> HIDE DEF c3
    <2>2. QED
        BY <2>1, <1>7, <1>4
<1> HIDE DEF c3
<1>9. /\ c4 \in Seq(MaLoops) /\ Len(c4) = 11
      /\ \A n \in 1 .. 9 : c4[n] = c3[n]
      /\ c4[10] = u[1] /\ c4[11] = u[2]
    <2>1. /\ c4 \in Seq(MaLoops) /\ Len(c4) = Len(c3) + Len(u)
          /\ \A n \in 1 .. Len(c3) : c4[n] = c3[n]
          /\ \A n \in 1 .. Len(u) : c4[Len(c3) + n] = u[n]
        BY <1>8, <1>5, MaConcat, ZenonT(40)
    <2> HIDE DEF c4
    <2>2. QED
        BY <2>1, <1>8, <1>5
<1> HIDE DEF c4
<1>10. /\ c5 \in Seq(MaLoops) /\ Len(c5) = 13
       /\ \A n \in 1 .. 11 : c5[n] = c4[n]
       /\ c5[12] = u[1] /\ c5[13] = u[2]
    <2>1. /\ c5 \in Seq(MaLoops) /\ Len(c5) = Len(c4) + Len(u)
          /\ \A n \in 1 .. Len(c4) : c5[n] = c4[n]
          /\ \A n \in 1 .. Len(u) : c5[Len(c4) + n] = u[n]
        BY <1>9, <1>5, MaConcat, ZenonT(40)
    <2> HIDE DEF c5
    <2>2. QED
        BY <2>1, <1>9, <1>5
<1> HIDE DEF c5
<1>11. /\ c6 \in Seq(MaLoops) /\ Len(c6) = 15
       /\ \A n \in 1 .. 13 : c6[n] = c5[n]
       /\ c6[14] = u[1] /\ c6[15] = u[2]
    <2>1. /\ c6 \in Seq(MaLoops) /\ Len(c6) = Len(c5) + Len(u)
          /\ \A n \in 1 .. Len(c5) : c6[n] = c5[n]
          /\ \A n \in 1 .. Len(u) : c6[Len(c5) + n] = u[n]
        BY <1>10, <1>5, MaConcat, ZenonT(40)
    <2> HIDE DEF c6
    <2>2. QED
        BY <2>1, <1>10, <1>5
<1> HIDE DEF c6
<1>12. /\ c7 \in Seq(MaLoops) /\ Len(c7) = 17
       /\ \A n \in 1 .. 15 : c7[n] = c6[n]
       /\ c7[16] = u[1] /\ c7[17] = u[2]
    <2>1. /\ c7 \in Seq(MaLoops) /\ Len(c7) = Len(c6) + Len(u)
          /\ \A n \in 1 .. Len(c6) : c7[n] = c6[n]
          /\ \A n \in 1 .. Len(u) : c7[Len(c6) + n] = u[n]
        BY <1>11, <1>5, MaConcat, ZenonT(40)
    <2> HIDE DEF c7
    <2>2. QED
        BY <2>1, <1>11, <1>5
<1> HIDE DEF c7
<1>13. /\ c2[1] = MA!Alloc("ptrs") /\ c2[2] = MA!FreeAll("ptrs") /\ c2[3] = MA!Record("kmalloc")
       /\ c2[4] = MA!Alloc("ptrs") /\ c2[5] = MA!FreeAll("ptrs") /\ c2[6] = MA!Record("vmalloc")
    BY <1>2, <1>3, <1>7
<1>14. /\ \A n \in 1 .. 6 : c7[n] = c2[n]
       /\ \A n \in 1 .. 9 : c7[n] = c3[n]
       /\ \A n \in 1 .. 11 : c7[n] = c4[n]
       /\ \A n \in 1 .. 13 : c7[n] = c5[n]
    <2>0. /\ \A n \in 1 .. 13 : n \in 1 .. 15
          /\ \A n \in 1 .. 11 : n \in 1 .. 13
          /\ \A n \in 1 .. 9 : n \in 1 .. 11
          /\ \A n \in 1 .. 6 : n \in 1 .. 9
        OBVIOUS
    <2>1. \A n \in 1 .. 13 : c7[n] = c5[n]
        BY <1>11, <1>12, <2>0, Zenon
    <2>2. \A n \in 1 .. 11 : c7[n] = c4[n]
        BY <1>10, <2>0, <2>1, ZenonT(40)
    <2>3. \A n \in 1 .. 9 : c7[n] = c3[n]
        BY <1>9, <2>0, <2>2, ZenonT(40)
    <2>4. \A n \in 1 .. 6 : c7[n] = c2[n]
        BY <1>8, <2>0, <2>3, ZenonT(40)
    <2>5. QED
        BY <2>1, <2>2, <2>3, <2>4, ZenonT(40)
<1>15. /\ c7[1] = MA!Alloc("ptrs") /\ c7[2] = MA!FreeAll("ptrs") /\ c7[3] = MA!Record("kmalloc")
       /\ c7[4] = MA!Alloc("ptrs") /\ c7[5] = MA!FreeAll("ptrs") /\ c7[6] = MA!Record("vmalloc")
    BY <1>13, <1>14
<1>16. c7[7] = MA!Alloc("ptrs") /\ c7[8] = MA!FreeAll("ptrs") /\ c7[9] = MA!Record("slab")
    BY <1>4, <1>8, <1>14
<1>17. /\ c7[10] = MA!Alloc("ptrs") /\ c7[11] = MA!FreeAll("ptrs")
       /\ c7[12] = MA!Alloc("ptrs") /\ c7[13] = MA!FreeAll("ptrs")
       /\ c7[14] = MA!Alloc("ptrs") /\ c7[15] = MA!FreeAll("ptrs")
       /\ c7[16] = MA!Alloc("ptrs") /\ c7[17] = MA!FreeAll("ptrs")
    BY <1>5, <1>9, <1>10, <1>11, <1>12, <1>14
<1>18. QED
    BY <1>1, <1>6, <1>12, <1>15, <1>16, <1>17, ZenonT(40) DEF MaAllocs, MaFrees7, MaRecords

\* What is left of a command, and after its next loop
LEMMA MaRestSteps ==
    ASSUME NEW c \in Seq(MaLoops), NEW n \in 1 .. Len(c) + 1
    PROVE  /\ Len(MaRest(c, n)) = Len(c) + 1 - n
           /\ MaRest(c, n) = <<>> <=> n = Len(c) + 1
           /\ n <= Len(c) => Head(MaRest(c, n)) = c[n] /\ Tail(MaRest(c, n)) = MaRest(c, n + 1)
    BY DEF MaRest

\* The second command: five loops
LEMMA MaFiveLoops ==
    /\ MA!test_memory_fragmentation \in Seq(MaLoops) /\ Len(MA!test_memory_fragmentation) = 5
    /\ MA!test_memory_fragmentation[1] = MA!Alloc("large")
    /\ MA!test_memory_fragmentation[2] = MA!Loop("free_even_null", "large")
    /\ MA!test_memory_fragmentation[3] = MA!Alloc("small")
    /\ MA!test_memory_fragmentation[4] = MA!FreeAll("large")
    /\ MA!test_memory_fragmentation[5] = MA!FreeAll("small")
    BY DEF MA!test_memory_fragmentation, MaLoops, MA!Alloc, MA!FreeAll, MA!Loop, MA!Arrays

\* The third command: two loops
LEMMA MaTwoLoops ==
    /\ MA!test_allocation_failures \in Seq(MaLoops) /\ Len(MA!test_allocation_failures) = 2
    /\ MA!test_allocation_failures[1] = MA!Loop("alloc_until", "ptrs")
    /\ MA!test_allocation_failures[2] = MA!Loop("free_counted", "ptrs")
    BY DEF MA!test_allocation_failures, MaLoops, MA!Loop, MA!Arrays

\* What is left of each command at each of its loops
LEMMA MaRestOfSeventeen ==
    \A n \in 1 .. 18 :
        /\ MaRest(MA!run_performance_tests, n) = <<>> <=> n = 18
        /\ n # 18 =>
               /\ n \in 1 .. 17
               /\ Head(MaRest(MA!run_performance_tests, n)) = MA!run_performance_tests[n]
               /\ Tail(MaRest(MA!run_performance_tests, n))
                    = MaRest(MA!run_performance_tests, n + 1)
<1> DEFINE c == MA!run_performance_tests
<1>1. c \in Seq(MaLoops) /\ Len(c) = 17
    BY MaSeventeenLoops, Zenon
<1> HIDE DEF c
<1>2. ASSUME NEW n \in 1 .. 18
      PROVE  /\ MaRest(c, n) = <<>> <=> n = 18
             /\ n # 18 => /\ n \in 1 .. 17 /\ Head(MaRest(c, n)) = c[n]
                         /\ Tail(MaRest(c, n)) = MaRest(c, n + 1)
    <2>1. n \in 1 .. Len(c) + 1
        BY <1>1
    <2>2. /\ MaRest(c, n) = <<>> <=> n = Len(c) + 1
          /\ n <= Len(c) => Head(MaRest(c, n)) = c[n] /\ Tail(MaRest(c, n)) = MaRest(c, n + 1)
        BY <1>1, <2>1, MaRestSteps, ZenonT(40)
    <2>3. QED
        BY <1>1, <2>2
<1>3. QED
    BY <1>2, ZenonT(40) DEF c

\* ... of the second ...
LEMMA MaRestOfFive ==
    \A n \in 1 .. 6 :
        /\ MaRest(MA!test_memory_fragmentation, n) = <<>> <=> n = 6
        /\ n # 6 =>
               /\ n \in 1 .. 5
               /\ Head(MaRest(MA!test_memory_fragmentation, n)) = MA!test_memory_fragmentation[n]
               /\ Tail(MaRest(MA!test_memory_fragmentation, n))
                    = MaRest(MA!test_memory_fragmentation, n + 1)
<1> DEFINE c == MA!test_memory_fragmentation
<1>1. c \in Seq(MaLoops) /\ Len(c) = 5
    BY MaFiveLoops, ZenonT(40)
<1> HIDE DEF c
<1>2. ASSUME NEW n \in 1 .. 6
      PROVE  /\ MaRest(c, n) = <<>> <=> n = 6
             /\ n # 6 => /\ n \in 1 .. 5 /\ Head(MaRest(c, n)) = c[n]
                         /\ Tail(MaRest(c, n)) = MaRest(c, n + 1)
    <2>1. n \in 1 .. Len(c) + 1
        BY <1>1
    <2>2. /\ MaRest(c, n) = <<>> <=> n = Len(c) + 1
          /\ n <= Len(c) => Head(MaRest(c, n)) = c[n] /\ Tail(MaRest(c, n)) = MaRest(c, n + 1)
        BY <1>1, <2>1, MaRestSteps, ZenonT(40)
    <2>3. QED
        BY <1>1, <2>2
<1>3. QED
    BY <1>2, Zenon DEF c

\* ... and of the third.
LEMMA MaRestOfTwo ==
    \A n \in 1 .. 3 :
        /\ MaRest(MA!test_allocation_failures, n) = <<>> <=> n = 3
        /\ n # 3 =>
               /\ n \in 1 .. 2
               /\ Head(MaRest(MA!test_allocation_failures, n)) = MA!test_allocation_failures[n]
               /\ Tail(MaRest(MA!test_allocation_failures, n))
                    = MaRest(MA!test_allocation_failures, n + 1)
<1> DEFINE c == MA!test_allocation_failures
<1>1. c \in Seq(MaLoops) /\ Len(c) = 2
    BY MaTwoLoops, Zenon
<1> HIDE DEF c
<1>2. ASSUME NEW n \in 1 .. 3
      PROVE  /\ MaRest(c, n) = <<>> <=> n = 3
             /\ n # 3 => /\ n \in 1 .. 2 /\ Head(MaRest(c, n)) = c[n]
                         /\ Tail(MaRest(c, n)) = MaRest(c, n + 1)
    <2>1. n \in 1 .. Len(c) + 1
        BY <1>1
    <2>2. /\ MaRest(c, n) = <<>> <=> n = Len(c) + 1
          /\ n <= Len(c) => Head(MaRest(c, n)) = c[n] /\ Tail(MaRest(c, n)) = MaRest(c, n + 1)
        BY <1>1, <2>1, MaRestSteps, Zenon
    <2>3. QED
        BY <1>1, <2>2
<1>3. QED
    BY <1>2, Zenon DEF c

-----------------------------------------------------------------------------
\* Where a runner with the loops s to go stands in a command, and what it holds
\* there: h, of the pointers p, of which it counted k.
MaInPerformance(s, p, h) ==
    \E n \in 1 .. 18 :
        /\ s = MaRest(MA!run_performance_tests, n)
        /\ h["large"] = {} /\ h["small"] = {}
        /\ h["ptrs"] = IF n \in MaFrees7 THEN p["ptrs"] ELSE {}

\* In the second command half of the large ones go before the small ones come.
MaInFragmentation(s, p, h) ==
    \E n \in 1 .. 6 :
        /\ s = MaRest(MA!test_memory_fragmentation, n)
        /\ h["ptrs"] = {}
        /\ h["large"] = IF n \in {2, 3, 4} THEN p["large"] ELSE {}
        /\ h["small"] = IF n \in {4, 5} THEN p["small"] ELSE {}

\* In the third one those that were counted are held.
MaInFailures(s, h, k) ==
    \E n \in 1 .. 3 :
        /\ s = MaRest(MA!test_allocation_failures, n)
        /\ h["large"] = {} /\ h["small"] = {}
        /\ h["ptrs"] = IF n = 2 THEN 0 .. k - 1 ELSE {}

\* A runner is somewhere in one of the commands.
MaInCommand(s, p, h, k) ==
    MaInPerformance(s, p, h) \/ MaInFragmentation(s, p, h) \/ MaInFailures(s, h, k)

\* What runner r holds is what its place in a command says.
MaOwns(r) == MaInCommand(script[r], ptrs[r], held[r], allocated_ma[r])

\* The types of what runners work on
MaRunnersOK ==
    /\ script \in [MA!Runners -> Seq(MaLoops)]
    /\ \A r \in MA!Runners : Len(script[r]) <= 17
    /\ ptrs \in [MA!Runners -> [MA!Arrays -> SUBSET MA!Index]]
    /\ held \in [MA!Runners -> [MA!Arrays -> SUBSET MA!Index]]
    /\ allocated_ma \in [MA!Runners -> 0 .. ArraySize]

\* A loop moves one runner, and of that one the array of the loop only.
MaKept(r, a) == \A b \in MA!Arrays \ {a} : held'[r][b] = held[r][b] /\ ptrs'[r][b] = ptrs[r][b]

\* What a loop d on array a does to what runner r holds
MaEffect(r, d, a) ==
    \/ /\ d = "alloc" /\ MaKept(r, a)
       /\ held'[r][a] = held[r][a] \cup ptrs'[r][a]
    \/ /\ d = "alloc_until" /\ MaKept(r, a)
       /\ held'[r][a] = held[r][a] \cup 0 .. allocated_ma'[r] - 1
    \/ /\ d \in {"free", "free_counted", "free_even_null"} /\ MaKept(r, a)
       /\ held'[r][a] = held[r][a] \ MA!Freed(r)
       /\ d = "free_even_null" => ptrs'[r][a] = ptrs[r][a] \ MA!Freed(r)
    \/ d = "record" /\ held'[r] = held[r] /\ ptrs'[r] = ptrs[r]

\* The other runners are where they were.
MaAlone(r) ==
    \A q \in MA!Runners \ {r} : /\ script'[q] = script[q] /\ ptrs'[q] = ptrs[q]
                                /\ held'[q] = held[q] /\ allocated_ma'[q] = allocated_ma[q]

\* A step of one runner leaves the others alone.
LEMMA MaStepsAlone ==
    ASSUME MaRunnersOK, NEW r \in MA!Runners, MA!Step(r)
    PROVE  MaAlone(r)
<1> USE DEF MaRunnersOK, MaAlone, MA!Proceed
<1>1. CASE MA!Allocate(r)
    BY <1>1, ZenonT(40) DEF MA!Allocate
<1>2. CASE MA!AllocateUntil(r)
    BY <1>2, ZenonT(40) DEF MA!AllocateUntil
<1>3. CASE MA!Free(r)
    BY <1>3, Zenon DEF MA!Free
<1>4. CASE MA!RecordTime(r)
    BY <1>4, Zenon DEF MA!RecordTime
<1>5. QED
    BY <1>1, <1>2, <1>3, <1>4, ZenonT(40) DEF MA!Step

\* A step is one loop, with its effect.
LEMMA MaStepEffect ==
    ASSUME MaRunnersOK, NEW r \in MA!Runners, MA!Step(r), NEW d, NEW a,
           d = Head(script[r]).do, a = Head(script[r]).array, a \in MA!Arrays \/ d = "record",
           d # "free_even"
    PROVE  /\ script[r] # <<>> /\ script'[r] = Tail(script[r])
           /\ MaEffect(r, d, a)
<1> USE DEF MaRunnersOK, MaEffect, MaKept, MA!Proceed, MA!At
<1>1. CASE MA!Allocate(r)
    <2>1. PICK given \in SUBSET MA!Index : /\ ptrs' = [ptrs EXCEPT ![r][a] = given]
                                      /\ held' = [held EXCEPT ![r][a] = @ \cup given]
        BY <1>1, Zenon DEF MA!Allocate
    <2>2. d = "alloc" /\ script[r] # <<>> /\ script'[r] = Tail(script[r])
        BY <1>1, ZenonT(40) DEF MA!Allocate
    <2>3. QED
        BY <2>1, <2>2, ZenonT(40)
<1>2. CASE MA!AllocateUntil(r)
    <2>1. PICK n \in 0 .. ArraySize : /\ allocated_ma' = [allocated_ma EXCEPT ![r] = n]
                                      /\ ptrs' = [ptrs EXCEPT ![r][a] = 0 .. n - 1]
                                      /\ held' = [held EXCEPT ![r][a] = @ \cup 0 .. n - 1]
        BY <1>2, Zenon DEF MA!AllocateUntil
    <2>2. d = "alloc_until" /\ script[r] # <<>> /\ script'[r] = Tail(script[r])
        BY <1>2, Zenon DEF MA!AllocateUntil
    <2>3. QED
        BY <2>1, <2>2, ZenonT(40)
<1>3. CASE MA!Free(r)
    <2>1. /\ held' = [held EXCEPT ![r][a] = @ \ MA!Freed(r)]
          /\ ptrs' = [ptrs EXCEPT ![r][a] = IF MA!At(r, {"free_even_null"}) THEN @ \ MA!Freed(r)
                                            ELSE IF MA!Last(r) THEN {} ELSE @]
        BY <1>3, Zenon DEF MA!Free
    <2>2. /\ d \in {"free", "free_counted", "free_even_null"}
          /\ script[r] # <<>> /\ script'[r] = Tail(script[r])
        BY <1>3, Zenon DEF MA!Free, MA!Frees
    <2>3. QED
        BY <2>1, <2>2, ZenonT(40)
<1>4. CASE MA!RecordTime(r)
    BY <1>4, Zenon DEF MA!RecordTime
<1>5. QED
    BY <1>1, <1>2, <1>3, <1>4, ZenonT(40) DEF MA!Step

\* Only a runner with a loop to go steps.
LEMMA MaHasLoop ==
    ASSUME NEW r, MA!Step(r)
    PROVE  script[r] # <<>>
    BY Zenon DEF MA!Step, MA!Allocate, MA!AllocateUntil, MA!Free, MA!Frees, MA!RecordTime, MA!At

\* A step within the first command: what was allocated is freed by the next loop
\* (mem_allocator_demo.c:57-175).
LEMMA MaPerformanceStep ==
    ASSUME MaRunnersOK, NEW r \in MA!Runners, MA!Step(r), MaInPerformance(script[r], ptrs[r],
                                                                          held[r])
    PROVE  MaInPerformance(script'[r], ptrs'[r], held'[r])
<1> DEFINE c == MA!run_performance_tests
<1>1. PICK n \in 1 .. 18 :
          /\ script[r] = MaRest(c, n)
          /\ held[r]["large"] = {} /\ held[r]["small"] = {}
          /\ held[r]["ptrs"] = IF n \in MaFrees7 THEN ptrs[r]["ptrs"] ELSE {}
    BY Zenon DEF MaInPerformance
<1>2. script[r] # <<>>
    BY MaHasLoop, ZenonT(40)
<1>3. n \in 1 .. 17 /\ Head(script[r]) = c[n] /\ Tail(script[r]) = MaRest(c, n + 1)
    BY <1>1, <1>2, MaRestOfSeventeen, ZenonT(40)
<1>4. n \in MaAllocs \/ n \in MaFrees7 \/ n \in MaRecords
    BY <1>3 DEF MaAllocs, MaFrees7, MaRecords
<1>5. SUFFICES /\ script'[r] = MaRest(c, n + 1)
               /\ held'[r]["large"] = {} /\ held'[r]["small"] = {}
               /\ held'[r]["ptrs"] = IF n + 1 \in MaFrees7 THEN ptrs'[r]["ptrs"] ELSE {}
    BY <1>3 DEF MaInPerformance
<1>6. CASE n \in MaAllocs
    <2>1. Head(script[r]).do = "alloc" /\ Head(script[r]).array = "ptrs"
        BY <1>3, <1>6, MaSeventeenLoops DEF MA!Alloc, MA!Loop
    <2>2. script'[r] = Tail(script[r]) /\ MaEffect(r, "alloc", "ptrs")
        BY <2>1, MaStepEffect, ZenonT(40) DEF MA!Arrays
    <2>3. n + 1 \in MaFrees7 /\ n \notin MaFrees7
        BY <1>6 DEF MaAllocs, MaFrees7
    <2>4. QED
        BY <1>1, <1>3, <2>2, <2>3, ZenonT(40) DEF MaEffect, MaKept, MA!Arrays
<1>7. CASE n \in MaFrees7
    <2>1. Head(script[r]).do = "free" /\ Head(script[r]).array = "ptrs"
        BY <1>3, <1>7, MaSeventeenLoops DEF MA!FreeAll, MA!Loop
    <2>2. script'[r] = Tail(script[r]) /\ MaEffect(r, "free", "ptrs")
        BY <2>1, MaStepEffect, Zenon DEF MA!Arrays
    <2>3. n + 1 \notin MaFrees7 /\ MA!Freed(r) = ptrs[r]["ptrs"]
        BY <1>7, <2>1 DEF MaFrees7, MA!Freed
    <2>4. QED
        BY <1>1, <1>3, <1>7, <2>2, <2>3, ZenonT(40) DEF MaEffect, MaKept, MA!Arrays
<1>8. CASE n \in MaRecords
    <2>1. Head(script[r]).do = "record"
        <3>1. PICK t \in MA!Tests : c[n] = MA!Record(t)
            BY <1>8, MaSeventeenLoops, ZenonT(40)
        <3>2. QED
            BY <1>3, <3>1 DEF MA!Record, MA!Loop
    <2>2. script'[r] = Tail(script[r]) /\ MaEffect(r, "record", Head(script[r]).array)
        BY <2>1, MaStepEffect, ZenonT(40)
    <2>3. n \notin MaFrees7 /\ n + 1 \notin MaFrees7
        BY <1>8 DEF MaRecords, MaFrees7
    <2>4. QED
        BY <1>1, <1>3, <2>2, <2>3, ZenonT(40) DEF MaEffect
<1>9. QED
    BY <1>4, <1>6, <1>7, <1>8, ZenonT(40)

\* A step within the second command (mem_allocator_demo.c:177-224)
LEMMA MaFragmentationStep ==
    ASSUME MaRunnersOK, NEW r \in MA!Runners, MA!Step(r), MaInFragmentation(script[r], ptrs[r],
                                                                            held[r])
    PROVE  MaInFragmentation(script'[r], ptrs'[r], held'[r])
<1> DEFINE c == MA!test_memory_fragmentation
<1>1. PICK n \in 1 .. 6 :
          /\ script[r] = MaRest(c, n)
          /\ held[r]["ptrs"] = {}
          /\ held[r]["large"] = IF n \in {2, 3, 4} THEN ptrs[r]["large"] ELSE {}
          /\ held[r]["small"] = IF n \in {4, 5} THEN ptrs[r]["small"] ELSE {}
    BY Zenon DEF MaInFragmentation
<1>2. script[r] # <<>>
    BY MaHasLoop, ZenonT(40)
<1>3. n \in 1 .. 5 /\ Head(script[r]) = c[n] /\ Tail(script[r]) = MaRest(c, n + 1)
    BY <1>1, <1>2, MaRestOfFive, ZenonT(40)
<1>5. SUFFICES /\ script'[r] = MaRest(c, n + 1)
               /\ held'[r]["ptrs"] = {}
               /\ held'[r]["large"] = IF n + 1 \in {2, 3, 4} THEN ptrs'[r]["large"] ELSE {}
               /\ held'[r]["small"] = IF n + 1 \in {4, 5} THEN ptrs'[r]["small"] ELSE {}
    BY <1>3 DEF MaInFragmentation
<1>6. CASE n = 1
    <2>1. Head(script[r]).do = "alloc" /\ Head(script[r]).array = "large"
        BY <1>3, <1>6, MaFiveLoops DEF MA!Alloc, MA!Loop
    <2>2. script'[r] = Tail(script[r]) /\ MaEffect(r, "alloc", "large")
        BY <2>1, MaStepEffect, ZenonT(40) DEF MA!Arrays
    <2>3. /\ held'[r]["ptrs"] = held[r]["ptrs"] /\ ptrs'[r]["ptrs"] = ptrs[r]["ptrs"]
          /\ held'[r]["small"] = held[r]["small"] /\ ptrs'[r]["small"] = ptrs[r]["small"]
          /\ held'[r]["large"] = held[r]["large"] \cup ptrs'[r]["large"]
        BY <2>2, ZenonT(40) DEF MaEffect, MaKept, MA!Arrays
    <2>4. n \notin {2, 3, 4} /\ n \notin {4, 5} /\ n + 1 \in {2, 3, 4} /\ n + 1 \notin {4, 5}
        BY <1>6
    <2>5. QED
        BY <1>1, <1>3, <2>2, <2>3, <2>4, ZenonT(40)
<1>7. CASE n = 2
    <2>1. Head(script[r]).do = "free_even_null" /\ Head(script[r]).array = "large"
        BY <1>3, <1>7, MaFiveLoops DEF MA!Loop
    <2>2. script'[r] = Tail(script[r]) /\ MaEffect(r, "free_even_null", "large")
        BY <2>1, MaStepEffect, Zenon DEF MA!Arrays
    <2>3. /\ held'[r]["ptrs"] = held[r]["ptrs"] /\ ptrs'[r]["ptrs"] = ptrs[r]["ptrs"]
          /\ held'[r]["small"] = held[r]["small"] /\ ptrs'[r]["small"] = ptrs[r]["small"]
          /\ held'[r]["large"] = held[r]["large"] \ MA!Freed(r)
          /\ ptrs'[r]["large"] = ptrs[r]["large"] \ MA!Freed(r)
        BY <2>2, ZenonT(40) DEF MaEffect, MaKept, MA!Arrays
    <2>4. n \in {2, 3, 4} /\ n \notin {4, 5} /\ n + 1 \in {2, 3, 4} /\ n + 1 \notin {4, 5}
        BY <1>7
    <2>5. QED
        BY <1>1, <1>3, <2>2, <2>3, <2>4, ZenonT(40)
<1>8. CASE n = 3
    <2>1. Head(script[r]).do = "alloc" /\ Head(script[r]).array = "small"
        BY <1>3, <1>8, MaFiveLoops DEF MA!Alloc, MA!Loop
    <2>2. script'[r] = Tail(script[r]) /\ MaEffect(r, "alloc", "small")
        BY <2>1, MaStepEffect, ZenonT(40) DEF MA!Arrays
    <2>3. /\ held'[r]["ptrs"] = held[r]["ptrs"] /\ ptrs'[r]["ptrs"] = ptrs[r]["ptrs"]
          /\ held'[r]["large"] = held[r]["large"] /\ ptrs'[r]["large"] = ptrs[r]["large"]
          /\ held'[r]["small"] = held[r]["small"] \cup ptrs'[r]["small"]
        BY <2>2, ZenonT(40) DEF MaEffect, MaKept, MA!Arrays
    <2>4. n \in {2, 3, 4} /\ n \notin {4, 5} /\ n + 1 \in {2, 3, 4} /\ n + 1 \in {4, 5}
        BY <1>8
    <2>5. QED
        BY <1>1, <1>3, <2>2, <2>3, <2>4, ZenonT(40)
<1>9. CASE n = 4
    <2>1. Head(script[r]).do = "free" /\ Head(script[r]).array = "large"
        BY <1>3, <1>9, MaFiveLoops DEF MA!FreeAll, MA!Loop
    <2>2. script'[r] = Tail(script[r]) /\ MaEffect(r, "free", "large")
        BY <2>1, MaStepEffect, ZenonT(40) DEF MA!Arrays
    <2>3. MA!Freed(r) = ptrs[r]["large"]
        BY <2>1, Zenon DEF MA!Freed
    <2>4. /\ held'[r]["ptrs"] = held[r]["ptrs"]
          /\ held'[r]["small"] = held[r]["small"] /\ ptrs'[r]["small"] = ptrs[r]["small"]
          /\ held'[r]["large"] = held[r]["large"] \ ptrs[r]["large"]
        BY <2>2, <2>3, ZenonT(40) DEF MaEffect, MaKept, MA!Arrays
    <2>5. n \in {2, 3, 4} /\ n \in {4, 5} /\ n + 1 \notin {2, 3, 4} /\ n + 1 \in {4, 5}
        BY <1>9
    <2>6. QED
        BY <1>1, <1>3, <2>2, <2>4, <2>5, ZenonT(40)
<1>10. CASE n = 5
    <2>1. Head(script[r]).do = "free" /\ Head(script[r]).array = "small"
        BY <1>3, <1>10, MaFiveLoops DEF MA!FreeAll, MA!Loop
    <2>2. script'[r] = Tail(script[r]) /\ MaEffect(r, "free", "small")
        BY <2>1, MaStepEffect, ZenonT(40) DEF MA!Arrays
    <2>3. MA!Freed(r) = ptrs[r]["small"]
        BY <2>1, ZenonT(40) DEF MA!Freed
    <2>4. /\ held'[r]["ptrs"] = held[r]["ptrs"] /\ held'[r]["large"] = held[r]["large"]
          /\ held'[r]["small"] = held[r]["small"] \ ptrs[r]["small"]
        BY <2>2, <2>3, ZenonT(40) DEF MaEffect, MaKept, MA!Arrays
    <2>5. n \notin {2, 3, 4} /\ n \in {4, 5} /\ n + 1 \notin {2, 3, 4} /\ n + 1 \notin {4, 5}
        BY <1>10
    <2>6. QED
        BY <1>1, <1>3, <2>2, <2>4, <2>5, ZenonT(40)
<1>11. n = 1 \/ n = 2 \/ n = 3 \/ n = 4 \/ n = 5
    <2>1. n \in 1 .. 5
        BY <1>3, ZenonT(40)
    <2>2. QED
        BY <2>1
<1>12. QED
    BY <1>6, <1>7, <1>8, <1>9, <1>10, <1>11, ZenonT(40)

\* A step within the third command (mem_allocator_demo.c:226-252)
LEMMA MaFailuresStep ==
    ASSUME MaRunnersOK, NEW r \in MA!Runners, MA!Step(r), MaInFailures(script[r], held[r],
                                                                       allocated_ma[r])
    PROVE  MaInFailures(script'[r], held'[r], allocated_ma'[r])
<1> DEFINE c == MA!test_allocation_failures
<1>1. PICK n \in 1 .. 3 :
          /\ script[r] = MaRest(c, n)
          /\ held[r]["large"] = {} /\ held[r]["small"] = {}
          /\ held[r]["ptrs"] = IF n = 2 THEN 0 .. allocated_ma[r] - 1 ELSE {}
    BY Zenon DEF MaInFailures
<1>2. script[r] # <<>>
    BY MaHasLoop, Zenon
<1>3. n \in 1 .. 2 /\ Head(script[r]) = c[n] /\ Tail(script[r]) = MaRest(c, n + 1)
    BY <1>1, <1>2, MaRestOfTwo, ZenonT(40)
<1>5. SUFFICES /\ script'[r] = MaRest(c, n + 1)
               /\ held'[r]["large"] = {} /\ held'[r]["small"] = {}
               /\ held'[r]["ptrs"] = IF n + 1 = 2 THEN 0 .. allocated_ma'[r] - 1 ELSE {}
    BY <1>3 DEF MaInFailures
<1>6. CASE n = 1
    <2>1. Head(script[r]).do = "alloc_until" /\ Head(script[r]).array = "ptrs"
        BY <1>3, <1>6, MaTwoLoops DEF MA!Loop
    <2>2. script'[r] = Tail(script[r]) /\ MaEffect(r, "alloc_until", "ptrs")
        BY <2>1, MaStepEffect, ZenonT(40) DEF MA!Arrays
    <2>3. n # 2 /\ n + 1 = 2
        BY <1>6
    <2>4. QED
        BY <1>1, <1>3, <2>2, <2>3, ZenonT(40) DEF MaEffect, MaKept, MA!Arrays
<1>7. CASE n = 2
    <2>1. Head(script[r]).do = "free_counted" /\ Head(script[r]).array = "ptrs"
        BY <1>3, <1>7, MaTwoLoops DEF MA!Loop
    <2>2. script'[r] = Tail(script[r]) /\ MaEffect(r, "free_counted", "ptrs")
        BY <2>1, MaStepEffect, ZenonT(40) DEF MA!Arrays
    <2>3. MA!Freed(r) = 0 .. allocated_ma[r] - 1
        BY <2>1, ZenonT(40) DEF MA!Freed
    <2>4. n + 1 # 2
        BY <1>7
    <2>5. QED
        BY <1>1, <1>3, <1>7, <2>2, <2>3, <2>4, ZenonT(40) DEF MaEffect, MaKept, MA!Arrays
<1>8. n = 1 \/ n = 2
    <2>1. n \in 1 .. 2
        BY <1>3, Zenon
    <2>2. QED
        BY <2>1
<1>9. QED
    BY <1>6, <1>7, <1>8, ZenonT(40)

\* The commands are sequences of loops.
LEMMA MaCommandsFit ==
    ASSUME NEW c \in MA!Commands
    PROVE  c \in Seq(MaLoops) /\ Len(c) <= 17 /\ c = MaRest(c, 1)
<1>1. c \in Seq(MaLoops) /\ Len(c) <= 17
    <2>1. CASE c = MA!run_performance_tests
        BY <2>1, MaSeventeenLoops
    <2>2. CASE c = MA!test_memory_fragmentation
        BY <2>2, MaFiveLoops
    <2>3. CASE c = MA!test_allocation_failures
        BY <2>3, MaTwoLoops
    <2>4. QED
        BY <2>1, <2>2, <2>3, ZenonT(40) DEF MA!Commands
<1>2. QED
    BY <1>1 DEF MaRest

\* A runner that holds nothing may start any command ...
LEMMA MaStarts ==
    ASSUME NEW c \in MA!Commands, NEW p, NEW h, NEW k, \A a \in MA!Arrays : h[a] = {}
    PROVE  MaInCommand(c, p, h, k)
<1>1. c = MaRest(c, 1)
    BY MaCommandsFit, ZenonT(40)
<1>2. 1 \notin MaFrees7
    BY DEF MaFrees7
<1>3. h["ptrs"] = {} /\ h["large"] = {} /\ h["small"] = {}
    BY Zenon DEF MA!Arrays
<1>4. QED
    BY <1>1, <1>2, <1>3 DEF MA!Commands, MaInCommand, MaInPerformance, MaInFragmentation,
                            MaInFailures

\* ... and one that is done holds nothing.
LEMMA MaEnds ==
    ASSUME NEW p, NEW h, NEW k
    PROVE  MaInCommand(<<>>, p, h, k) <=> \A a \in MA!Arrays : h[a] = {}
<1>1. /\ \A n \in 1 .. 18 : MaRest(MA!run_performance_tests, n) = <<>> <=> n = 18
      /\ \A n \in 1 .. 6 : MaRest(MA!test_memory_fragmentation, n) = <<>> <=> n = 6
      /\ \A n \in 1 .. 3 : MaRest(MA!test_allocation_failures, n) = <<>> <=> n = 3
    BY MaRestOfSeventeen, MaRestOfFive, MaRestOfTwo, ZenonT(40)
<1>2. 18 \notin MaFrees7 /\ 6 \notin {2, 3, 4} /\ 6 \notin {4, 5}
    BY DEF MaFrees7
<1>3. ASSUME MaInCommand(<<>>, p, h, k) PROVE \A a \in MA!Arrays : h[a] = {}
    <2>1. CASE MaInPerformance(<<>>, p, h)
        BY <1>1, <1>2, <2>1, Zenon DEF MaInPerformance, MA!Arrays
    <2>2. CASE MaInFragmentation(<<>>, p, h)
        BY <1>1, <1>2, <2>2, ZenonT(40) DEF MaInFragmentation, MA!Arrays
    <2>3. CASE MaInFailures(<<>>, h, k)
        BY <1>1, <2>3 DEF MaInFailures, MA!Arrays
    <2>4. QED
        BY <1>3, <2>1, <2>2, <2>3, ZenonT(40) DEF MaInCommand
<1>4. ASSUME \A a \in MA!Arrays : h[a] = {} PROVE MaInCommand(<<>>, p, h, k)
    <2>1. h["ptrs"] = {} /\ h["large"] = {} /\ h["small"] = {}
        BY <1>4, Zenon DEF MA!Arrays
    <2>2. MaInPerformance(<<>>, p, h)
        BY <1>1, <1>2, <2>1 DEF MaInPerformance
    <2>3. QED
        BY <2>2, Zenon DEF MaInCommand
<1>5. QED
    BY <1>3, <1>4, Zenon

\* Every step leaves every runner at a place of a command.
LEMMA MaCommandStep ==
    ASSUME MaRunnersOK, NEW r \in MA!Runners, MA!Step(r), \A q \in MA!Runners : MaOwns(q)
    PROVE  \A q \in MA!Runners : MaOwns(q)'
<1>1. MaOwns(r)'
    BY MaPerformanceStep, MaFragmentationStep, MaFailuresStep, ZenonT(40) DEF MaOwns, MaInCommand
<1>2. ASSUME NEW q \in MA!Runners \ {r} PROVE MaOwns(q)'
    BY MaStepsAlone, ZenonT(40) DEF MaAlone, MaOwns
<1>3. QED
    BY <1>1, <1>2, ZenonT(40)

\* What a loop is about to free is what is held.
LEMMA MaFreesOwn ==
    ASSUME NEW r \in MA!Runners, MaOwns(r), MA!Frees(r)
    PROVE  MA!Freed(r) \subseteq held[r][Head(script[r]).array]
<1> DEFINE s == script[r]
<1>1. s # <<>> /\ Head(s).do \in {"free", "free_even", "free_even_null", "free_counted"}
    BY Zenon DEF MA!Frees, MA!At
<1>2. CASE MaInPerformance(s, ptrs[r], held[r])
    <2> DEFINE c == MA!run_performance_tests
    <2>1. PICK n \in 1 .. 18 :
              s = MaRest(c, n) /\ held[r]["ptrs"] = IF n \in MaFrees7 THEN ptrs[r]["ptrs"] ELSE {}
        BY <1>2, Zenon DEF MaInPerformance
    <2>2. n \in 1 .. 17 /\ Head(s) = c[n]
        BY <1>1, <2>1, MaRestOfSeventeen, ZenonT(40)
    <2>3. n \in MaFrees7
        <3>1. CASE n \in MaAllocs
            BY <1>1, <2>2, <3>1, MaSeventeenLoops DEF MA!Alloc, MA!Loop
        <3>2. CASE n \in MaRecords
            <4>1. PICK t \in MA!Tests : c[n] = MA!Record(t)
                BY <3>2, MaSeventeenLoops, ZenonT(40)
            <4>2. QED
                BY <1>1, <2>2, <4>1 DEF MA!Record, MA!Loop
        <3>3. QED
            BY <2>2, <3>1, <3>2 DEF MaAllocs, MaFrees7, MaRecords
    <2>4. Head(s).do = "free" /\ Head(s).array = "ptrs"
        BY <2>2, <2>3, MaSeventeenLoops DEF MA!FreeAll, MA!Loop
    <2>5. QED
        BY <2>1, <2>3, <2>4, ZenonT(40) DEF MA!Freed
<1>3. CASE MaInFragmentation(s, ptrs[r], held[r])
    <2> DEFINE c == MA!test_memory_fragmentation
    <2>1. PICK n \in 1 .. 6 :
              /\ s = MaRest(c, n)
              /\ held[r]["large"] = IF n \in {2, 3, 4} THEN ptrs[r]["large"] ELSE {}
              /\ held[r]["small"] = IF n \in {4, 5} THEN ptrs[r]["small"] ELSE {}
        BY <1>3, Zenon DEF MaInFragmentation
    <2>2. n \in 1 .. 5 /\ Head(s) = c[n]
        BY <1>1, <2>1, MaRestOfFive, ZenonT(40)
    <2>3. n \in {2, 4, 5}
        BY <1>1, <2>2, MaFiveLoops DEF MA!Alloc, MA!Loop
    <2>4. CASE n = 2
        <3>1. Head(s).do = "free_even_null" /\ Head(s).array = "large"
            BY <2>2, <2>4, MaFiveLoops DEF MA!Loop
        <3>2. QED
            BY <2>1, <2>4, <3>1, ZenonT(40) DEF MA!Freed
    <2>5. CASE n = 4
        <3>1. Head(s).do = "free" /\ Head(s).array = "large"
            BY <2>2, <2>5, MaFiveLoops DEF MA!FreeAll, MA!Loop
        <3>2. QED
            BY <2>1, <2>5, <3>1, ZenonT(40) DEF MA!Freed
    <2>6. CASE n = 5
        <3>1. Head(s).do = "free" /\ Head(s).array = "small"
            BY <2>2, <2>6, MaFiveLoops DEF MA!FreeAll, MA!Loop
        <3>2. QED
            BY <2>1, <2>6, <3>1, ZenonT(40) DEF MA!Freed
    <2>7. QED
        BY <2>3, <2>4, <2>5, <2>6, ZenonT(40)
<1>4. CASE MaInFailures(s, held[r], allocated_ma[r])
    <2> DEFINE c == MA!test_allocation_failures
    <2>1. PICK n \in 1 .. 3 :
              s = MaRest(c, n) /\ held[r]["ptrs"] = IF n = 2 THEN 0 .. allocated_ma[r] - 1 ELSE {}
        BY <1>4, Zenon DEF MaInFailures
    <2>2. n \in 1 .. 2 /\ Head(s) = c[n]
        BY <1>1, <2>1, MaRestOfTwo, ZenonT(40)
    <2>3. n = 2
        BY <1>1, <2>2, MaTwoLoops DEF MA!Loop
    <2>4. Head(s).do = "free_counted" /\ Head(s).array = "ptrs"
        BY <2>2, <2>3, MaTwoLoops DEF MA!Loop
    <2>5. QED
        BY <2>1, <2>3, <2>4, ZenonT(40) DEF MA!Freed
<1>5. QED
    BY <1>2, <1>3, <1>4, ZenonT(40) DEF MaOwns, MaInCommand

-----------------------------------------------------------------------------
\* The cache is there while the module is, and nobody runs or reads when it is
\* made or destroyed.
MaQuiet ==
    /\ demo_cache <=> phase_ma # "out"
    /\ phase_ma \in {"out", "cache", "destroy"} =>
           (\A r \in MA!Runners : script[r] = <<>>) /\ (\A v \in Viewers : pc_ma[v] = "idle")

\* The invariant of mem_allocator_demo.c
MaInv == MaRunnersOK /\ (\A r \in MA!Runners : MaOwns(r)) /\ MaQuiet /\ MA!UndisturbedDivides

\* The types of the rest of the module
MaOthersOK ==
    /\ phase_ma \in {"out", "cache", "tests", "live", "remove", "destroy"}
    /\ demo_cache \in BOOLEAN
    /\ results \subseteq MA!Tests
    /\ pc_ma \in [Viewers -> {"idle", "ratio", "slab", "slab_ratio"}]
    /\ overtaken \subseteq Viewers
    /\ commands \in 0 .. MaxCommands

\* The types of mem_allocator_demo.c follow.
LEMMA MaTypes == MaRunnersOK /\ MaOthersOK => MA!TypeOK
    BY MaSeventeenLoops, ZenonT(40) DEF MaRunnersOK, MaOthersOK, MA!TypeOK

\* A step of a runner keeps the types.
LEMMA MaRunnersStep ==
    ASSUME MaRunnersOK, NEW r \in MA!Runners, MA!Step(r)
    PROVE  MaRunnersOK'
<1>1. script[r] # <<>> /\ script' = [script EXCEPT ![r] = Tail(@)]
    BY ZenonT(40) DEF MA!Step, MA!Allocate, MA!AllocateUntil, MA!Free, MA!Frees, MA!RecordTime, MA!At,
                 MA!Proceed
<1>2. script' \in [MA!Runners -> Seq(MaLoops)] /\ \A q \in MA!Runners : Len(script'[q]) <= 17
    BY <1>1 DEF MaRunnersOK
<1> DEFINE a == Head(script[r]).array
           Sets == [MA!Runners -> [MA!Arrays -> SUBSET MA!Index]]
<1>3. ASSUME NEW f \in Sets, NEW X, a \in MA!Arrays => X \in SUBSET MA!Index
      PROVE  [f EXCEPT ![r][a] = X] \in Sets
    BY <1>3, Zenon
<1>4. a \in MA!Arrays => held[r][a] \in SUBSET MA!Index /\ ptrs[r][a] \in SUBSET MA!Index
    BY Zenon DEF MaRunnersOK
<1>5. held \in Sets /\ ptrs \in Sets /\ allocated_ma \in [MA!Runners -> 0 .. ArraySize]
    BY Zenon DEF MaRunnersOK
<1>6. SUFFICES held' \in Sets /\ ptrs' \in Sets /\ allocated_ma' \in [MA!Runners -> 0 .. ArraySize]
    BY <1>2, Zenon DEF MaRunnersOK
<1>7. CASE MA!Allocate(r)
    <2>1. PICK given \in SUBSET MA!Index : /\ ptrs' = [ptrs EXCEPT ![r][a] = given]
                                      /\ held' = [held EXCEPT ![r][a] = held[r][a] \cup given]
        BY <1>7, Zenon DEF MA!Allocate
    <2>2. a \in MA!Arrays => held[r][a] \cup given \in SUBSET MA!Index
        BY <1>4, ZenonT(40)
    <2> HIDE DEF a, Sets
    <2>3. QED
        BY <1>3, <1>5, <1>7, <2>1, <2>2, ZenonT(40) DEF MA!Allocate
<1>8. CASE MA!AllocateUntil(r)
    <2>1. PICK n \in 0 .. ArraySize : /\ allocated_ma' = [allocated_ma EXCEPT ![r] = n]
                                      /\ ptrs' = [ptrs EXCEPT ![r][a] = 0 .. n - 1]
                                      /\ held' = [held EXCEPT ![r][a] = held[r][a] \cup 0 .. n - 1]
        BY <1>8, ZenonT(40) DEF MA!AllocateUntil
    <2>2. 0 .. n - 1 \in SUBSET MA!Index
        BY ProcFilesAssumption DEF MA!Index
    <2>3. a \in MA!Arrays => held[r][a] \cup 0 .. n - 1 \in SUBSET MA!Index
        BY <1>4, <2>2, Zenon
    <2> HIDE DEF a, Sets
    <2>4. QED
        BY <1>3, <1>5, <2>1, <2>2, <2>3, ZenonT(40)
<1>9. CASE MA!Free(r)
    <2> DEFINE X == IF MA!At(r, {"free_even_null"}) THEN ptrs[r][a] \ MA!Freed(r)
                    ELSE IF MA!Last(r) THEN {} ELSE ptrs[r][a]
    <2>1. /\ allocated_ma' = [allocated_ma EXCEPT ![r] = 0]
          /\ ptrs' = [ptrs EXCEPT ![r][a] = X]
          /\ held' = [held EXCEPT ![r][a] = held[r][a] \ MA!Freed(r)]
        BY <1>9, ZenonT(40) DEF MA!Free
    <2>2. /\ a \in MA!Arrays => X \in SUBSET MA!Index
          /\ a \in MA!Arrays => held[r][a] \ MA!Freed(r) \in SUBSET MA!Index
        BY <1>4, ZenonT(40)
    <2>3. 0 \in 0 .. ArraySize
        BY ProcFilesAssumption
    <2> HIDE DEF a, Sets, X
    <2>4. QED
        BY <1>3, <1>5, <2>1, <2>2, <2>3, ZenonT(40)
<1>10. CASE MA!RecordTime(r)
    BY <1>5, <1>10, ZenonT(40) DEF MA!RecordTime
<1>11. QED
    BY <1>7, <1>8, <1>9, <1>10, ZenonT(40) DEF MA!Step

\* Of the rest of the module, a step of a runner changes the results only, and
\* then overtakes every viewer.
LEMMA MaStepsRecord ==
    ASSUME NEW r, MA!Step(r)
    PROVE  /\ UNCHANGED <<phase_ma, demo_cache, pc_ma, commands>>
           /\ \/ results' = results /\ overtaken' = overtaken
              \/ /\ Head(script[r]).do = "record" /\ overtaken' = Viewers
                 /\ results' \in {results \cup {Head(script[r]).array}, results \ {Head(script[r]).array}}
    BY Zenon DEF MA!Step, MA!Allocate, MA!AllocateUntil, MA!Free, MA!RecordTime, MA!At, MA!viewer

\* Nobody runs before the cache is made and after it is destroyed.
LEMMA MaRunnersQuiet ==
    ASSUME MaInv, NEW r \in MA!Runners, MA!Step(r)
    PROVE  phase_ma \notin {"out", "cache", "destroy"}
    BY MaHasLoop, Zenon DEF MaInv, MaQuiet

\* Every step of load, commands, reads and exit keeps the invariant.
LEMMA MaInvariance == MA!Spec => [](MaInv /\ MaOthersOK)
<1>1. MA!Init => MaInv /\ MaOthersOK
    <2> SUFFICES ASSUME MA!Init PROVE MaInv /\ MaOthersOK
        BY Zenon
    <2>1. MaRunnersOK
        BY ProcFilesAssumption DEF MA!Init, MaRunnersOK
    <2>2. \A r \in MA!Runners : MaOwns(r)
        BY MaEnds, ZenonT(40) DEF MA!Init, MaOwns
    <2>3. QED
        <3>1. MaQuiet
            BY Zenon DEF MA!Init, MaQuiet
        <3>2. MA!UndisturbedDivides
            BY Zenon DEF MA!Init, MA!UndisturbedDivides
        <3>3. demo_cache \in BOOLEAN
            BY ZenonT(40) DEF MA!Init
        <3>4. MaOthersOK
            BY <3>3, ProcFilesAssumption DEF MA!Init, MaOthersOK
        <3>5. QED
            BY <2>1, <2>2, <3>1, <3>2, <3>4, ZenonT(40) DEF MaInv
<1>2. MaInv /\ MaOthersOK /\ [MA!Next]_(MA!vars) => MaInv' /\ MaOthersOK'
    <2> SUFFICES ASSUME MaInv, MaOthersOK, [MA!Next]_(MA!vars) PROVE MaInv' /\ MaOthersOK'
        BY ZenonT(40)
    <2>0. UNCHANGED MA!runner => MaRunnersOK' /\ \A r \in MA!Runners : MaOwns(r)'
        BY Zenon DEF MaInv, MA!runner, MaRunnersOK, MaOwns
    <2>1. CASE MA!CreateCache \/ MA!CreateEntryFails \/ MA!InitReturns \/ MA!ExitBegin
        <3>1. CASE MA!CreateCache
            BY <2>0, <3>1, ProcFilesAssumption
               DEF MA!CreateCache, MaInv, MaQuiet, MA!UndisturbedDivides, MaOthersOK, MA!viewer, MA!runner
        <3>2. CASE MA!CreateEntryFails
            BY <2>0, <3>2, ZenonT(40) DEF MA!CreateEntryFails, MaInv, MaQuiet, MA!UndisturbedDivides,
                                     MaOthersOK, MA!viewer, MA!runner
        <3>3. CASE MA!InitReturns \/ MA!ExitBegin
            BY <2>0, <3>3, ZenonT(40) DEF MA!InitReturns, MA!ExitBegin, MaInv, MaQuiet,
                                     MA!UndisturbedDivides, MaOthersOK, MA!viewer, MA!runner
        <3>4. QED
            BY <2>1, <3>1, <3>2, <3>3, ZenonT(40)
    <2>2. CASE MA!Exit
        BY <2>0, <2>2, ZenonT(40) DEF MA!Exit, MA!RemoveEntry, MA!DestroyCache, MaInv, MaQuiet,
                                 MA!UndisturbedDivides, MaOthersOK, MA!viewer,
                          MA!runner
    <2>3. ASSUME NEW w \in MA!Runners, NEW c \in MA!Commands, script[w] = <<>>,
                 script' = [script EXCEPT ![w] = c], UNCHANGED <<ptrs, allocated_ma, held>>
          PROVE  MaRunnersOK' /\ \A r \in MA!Runners : MaOwns(r)'
        <3>1. c \in Seq(MaLoops) /\ Len(c) <= 17
            BY MaCommandsFit, ZenonT(40)
        <3>2. MaRunnersOK'
            BY <2>3, <3>1, ZenonT(40) DEF MaInv, MaRunnersOK
        <3>3. \A a \in MA!Arrays : held[w][a] = {}
            BY <2>3, MaEnds DEF MaInv, MaOwns
        <3>4. MaOwns(w)'
            BY <2>3, <3>3, MaStarts, ZenonT(40) DEF MaInv, MaRunnersOK, MaOwns
        <3>5. ASSUME NEW r \in MA!Runners \ {w} PROVE MaOwns(r)'
            BY <2>3, ZenonT(40) DEF MaInv, MaRunnersOK, MaOwns
        <3>6. QED
            BY <3>2, <3>4, <3>5, ZenonT(40)
    <2>4. CASE MA!CreateEntry
        <3>1. Loader \in MA!Runners /\ MA!run_performance_tests \in MA!Commands
            BY Zenon DEF MA!Runners, MA!Commands
        <3>2. script[Loader] = <<>>
            BY <2>4, <3>1, Zenon DEF MA!CreateEntry, MaInv, MaQuiet
        <3>3. MaRunnersOK' /\ \A r \in MA!Runners : MaOwns(r)'
            BY <2>3, <2>4, <3>1, <3>2, ZenonT(40) DEF MA!CreateEntry
        <3>4. QED
            BY <2>4, <3>3, Zenon
               DEF MA!CreateEntry, MaInv, MaQuiet, MA!UndisturbedDivides, MaOthersOK, MA!viewer
    <2>5. ASSUME NEW w \in {Commander}, MA!mem_demo_write(w) PROVE MaInv' /\ MaOthersOK'
        <3>1. w \in MA!Runners
            BY Zenon DEF MA!Runners
        <3>2. PICK c \in MA!Commands : script' = [script EXCEPT ![w] = c]
            BY <2>5, Zenon DEF MA!mem_demo_write
        <3>3. MaRunnersOK' /\ \A r \in MA!Runners : MaOwns(r)'
            BY <2>3, <2>5, <3>1, <3>2, ZenonT(40) DEF MA!mem_demo_write
        <3>4. QED
            BY <2>5, <3>3, ProcFilesAssumption
               DEF MA!mem_demo_write, MaInv, MaQuiet, MA!UndisturbedDivides, MaOthersOK, MA!viewer
    <2>6. ASSUME NEW r \in MA!Runners, MA!Step(r) PROVE MaInv' /\ MaOthersOK'
        <3>1. MaRunnersOK' /\ \A q \in MA!Runners : MaOwns(q)'
            BY <2>6, MaRunnersStep, MaCommandStep, ZenonT(40) DEF MaInv
        <3>2. /\ UNCHANGED <<phase_ma, demo_cache, pc_ma, commands>>
              /\ \/ results' = results /\ overtaken' = overtaken
                 \/ /\ Head(script[r]).do = "record" /\ overtaken' = Viewers
                    /\ results' \in {results \cup {Head(script[r]).array}, results \ {Head(script[r]).array}}
            BY <2>6, MaStepsRecord, Zenon
        <3>3. Head(script[r]).do = "record" => Head(script[r]).array \in MA!Tests
            <4>1. script[r] \in Seq(MaLoops) /\ script[r] # <<>>
                BY <2>6, MaHasLoop, ZenonT(40) DEF MaInv, MaRunnersOK
            <4>2. Head(script[r]) \in MaLoops
                BY <4>1
            <4>3. QED
                BY <4>2, Zenon DEF MaLoops
        <3>4. QED
            <4>1. MA!UndisturbedDivides' /\ MaOthersOK'
                BY <3>2, <3>3, ZenonT(40) DEF MaInv, MA!UndisturbedDivides, MaOthersOK, MA!viewer
            <4>2. MaQuiet'
                BY <2>6, <3>2, MaRunnersQuiet, ZenonT(40) DEF MaInv, MaQuiet
            <4>3. QED
                BY <3>1, <4>1, <4>2, ZenonT(40) DEF MaInv
    <2>7. ASSUME NEW v \in Viewers, MA!ShowTest(v) \/ MA!Show(v) PROVE MaInv' /\ MaOthersOK'
        <3>1. CASE MA!ShowTest(v)
            BY <2>0, <3>1, ZenonT(40)
               DEF MA!ShowTest, MaInv, MaQuiet, MA!UndisturbedDivides, MaOthersOK, MA!viewer,
                                     MA!runner
        <3>2. CASE MA!ShowRatio(v)
            BY <2>0, <3>2, ZenonT(40)
               DEF MA!ShowRatio, MaInv, MaQuiet, MA!UndisturbedDivides, MaOthersOK, MA!viewer,
                                     MA!runner
        <3>3. CASE MA!ShowSlab(v)
            BY <2>0, <3>3, ZenonT(40)
               DEF MA!ShowSlab, MaInv, MaQuiet, MA!UndisturbedDivides, MaOthersOK, MA!viewer,
                                     MA!runner
        <3>4. CASE MA!ShowSlabRatio(v)
            BY <2>0, <3>4, ZenonT(40) DEF MA!ShowSlabRatio, MaInv, MaQuiet, MA!UndisturbedDivides,
                                     MaOthersOK, MA!viewer, MA!runner
        <3>5. QED
            BY <2>7, <3>1, <3>2, <3>3, <3>4, ZenonT(40) DEF MA!Show
    <2>8. CASE UNCHANGED MA!vars
        BY <2>0, <2>8, ZenonT(40)
           DEF MA!vars, MaInv, MaQuiet, MA!UndisturbedDivides, MaOthersOK, MA!viewer, MA!runner
    <2>9. QED
        BY <2>1, <2>2, <2>4, <2>5, <2>6, <2>7, <2>8, ZenonT(40) DEF MA!Next
<1>3. QED
    BY <1>1, <1>2, PTL DEF MA!Spec

\* The invariants of mem_allocator_demo.c hold in every state.
LEMMA MaMemoryRight == MA!Spec => [](/\ MA!TypeOK /\ MA!AllFreedOnce
                                     /\ MA!CacheOutlivesObjects /\ MA!UndisturbedDivides)
<1>1. MaInv => MA!AllFreedOnce
    <2> SUFFICES ASSUME MaInv, NEW r \in MA!Runners
                 PROVE  /\ script[r] = <<>> => \A a \in MA!Arrays : held[r][a] = {}
                        /\ MA!Frees(r) => MA!Freed(r) \subseteq held[r][Head(script[r]).array]
        BY ZenonT(40) DEF MA!AllFreedOnce
    <2>1. MaOwns(r)
        BY ZenonT(40) DEF MaInv
    <2>2. script[r] = <<>> => \A a \in MA!Arrays : held[r][a] = {}
        BY <2>1, MaEnds DEF MaOwns
    <2>3. QED
        BY <2>1, <2>2, MaFreesOwn, ZenonT(40)
<1>2. MaInv /\ MaOthersOK => MA!CacheOutlivesObjects /\ MA!UndisturbedDivides
    BY Zenon DEF MaInv, MaQuiet, MaOthersOK, MA!CacheOutlivesObjects
<1>3. MaInv /\ MaOthersOK => MA!TypeOK
    BY MaTypes, Zenon DEF MaInv
<1>4. QED
    BY <1>1, <1>2, <1>3, MaInvariance, PTL

-----------------------------------------------------------------------------
\* Whichever allocations fail, a command has freed what it got when it ends, and
\* frees nothing it does not have (mem_allocator_demo.c:57-252); what init linked
\* is gone after exit (data_structures_demo.c:232-264).
THEOREM AlwaysFreedOnce == MA!Spec /\ DS!Spec => []AllFreedOnce
BY MaMemoryRight, DsItemsKept, PTL DEF AllFreedOnce

\* No call on the proc files finds the cache, the items or the buffer gone,
\* because exit removes the file, and waits for its calls, before it frees
\* (mem_allocator_demo.c:383-395, data_structures_demo.c:232-264,
\* proc_example.c:68-75).
THEOREM MemoryOutlivesCalls == MA!Spec /\ DS!Spec /\ PE!Spec => []OutlivesCalls
BY MaMemoryRight, DsItemsKept, PeReadsOwn, PTL DEF OutlivesCalls

\* Without a lock, a call that nobody disturbed is whole or divides by a time that
\* it found not to be zero, and overlapping stores still leave a string that ends
\* (proc_example.c:13-50, sysfs_example.c:33-51, mem_allocator_demo.c:289-295).
THEOREM UndisturbedAlwaysWhole == PE!Spec /\ SE!Spec /\ MA!Spec => []UndisturbedIsWhole
BY PeReadsOwn, SeStringKept, MaMemoryRight, PTL DEF UndisturbedIsWhole
=============================================================================
