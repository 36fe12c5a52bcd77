---------------------------- MODULE SysfsExample ----------------------------
(***************************************************************************)
(* examples/class_3/03_sysfs_interface/sysfs_example.c                     *)
(*                                                                         *)
(* Two attributes.  Calls through different open files run at the same     *)
(* time, and no lock is taken: the string is stored byte by byte.          *)
(***************************************************************************)
EXTENDS Naturals

CONSTANTS Procs,     \* processes that write to string
          Chars,     \* what a byte may be besides NUL
          Size       \* sizeof(example_string)

NUL    == 0
Index  == 0 .. Size - 1
Byte   == Chars \cup {NUL}
Counts == 1 .. Size        \* sysfs passes no empty write on

VARIABLES phase,            \* of the module: out, kobject, live, remove
          example_value,
          example_string,
          pc,               \* of each store: idle, copy, cut, return
          buf, count,       \* its arguments
          i,                \* the bytes it has copied
          alone             \* history: no other store has written since it began

store == <<pc, buf, count, i, alone>>
vars  == <<phase, example_value, example_string, store>>

Blank == [n \in Index |-> NUL]

TypeOK ==
    /\ phase \in {"out", "kobject", "live", "remove"}
    /\ example_value \in Byte
    /\ example_string \in [Index -> Byte] /\ buf \in [Procs -> [Index -> Byte]]
    /\ pc \in [Procs -> {"idle", "copy", "cut", "return"}]
    /\ count \in [Procs -> Counts] /\ i \in [Procs -> 0 .. Size]
    /\ alone \in [Procs -> BOOLEAN]

Init ==
    /\ phase = "out" /\ example_value = 0 /\ example_string = Blank
    /\ pc = [p \in Procs |-> "idle"] /\ buf = [p \in Procs |-> Blank]
    /\ count = [p \in Procs |-> 1] /\ i = [p \in Procs |-> 0]
    /\ alone = [p \in Procs |-> FALSE]

-----------------------------------------------------------------------------
\* sysfs_example_init: the kobject, then the group or the kobject put
CreateKobject ==
    /\ phase = "out" /\ phase' = "kobject"
    /\ example_value' = 0
    /\ \E c \in Chars : example_string' = [Blank EXCEPT ![0] = c]     \* "default"
    /\ UNCHANGED store

CreateGroup ==
    /\ phase = "kobject" /\ phase' \in {"live", "out"}
    /\ UNCHANGED <<example_value, example_string, store>>

\* sysfs_example_exit: sysfs_remove_group waits for the calls under way
ExitBegin ==
    /\ phase = "live" /\ phase' = "remove"
    /\ UNCHANGED <<example_value, example_string, store>>

Removed ==
    /\ phase = "remove" /\ phase' = "out"
    /\ \A p \in Procs : pc[p] = "idle"
    /\ UNCHANGED <<example_value, example_string, store>>

-----------------------------------------------------------------------------
\* kstrtoint leaves the value alone where it fails.
value_store ==
    /\ phase = "live"
    /\ example_value' \in Byte
    /\ UNCHANGED <<phase, example_string, store>>

\* Fault: a text as long as the array is taken.
FitsExactly(n) == n <= Size

\* count >= sizeof(example_string): -EINVAL
Fits(n) == n < Size

string_store(p) ==
    /\ phase = "live" /\ pc[p] = "idle"
    /\ \E n \in Counts :
          /\ Fits(n)
          /\ \E text \in [0 .. n - 1 -> Byte] :
                buf' = [buf EXCEPT ![p] = [k \in Index |-> IF k < n THEN text[k] ELSE NUL]]
          /\ count' = [count EXCEPT ![p] = n]
    /\ pc' = [pc EXCEPT ![p] = "copy"] /\ i' = [i EXCEPT ![p] = 0]
    /\ alone' = [alone EXCEPT ![p] = TRUE]
    /\ UNCHANGED <<phase, example_value, example_string>>

\* The next byte of strncpy, which fills up with NUL after the end of the text
Copy(p) ==
    /\ pc[p] = "copy"
    /\ example_string' = [example_string EXCEPT ![i[p]] =
           IF \E k \in 0 .. i[p] : buf[p][k] = NUL THEN NUL ELSE buf[p][i[p]]]
    /\ i' = [i EXCEPT ![p] = @ + 1]
    /\ pc' = [pc EXCEPT ![p] = IF i[p] + 1 = count[p] THEN "cut" ELSE "copy"]
    /\ alone' = [q \in Procs |-> alone[q] /\ q = p]
    /\ UNCHANGED <<phase, example_value, buf, count>>

\* Fault: the NUL goes after the last byte.
CutAfter(p) ==
    /\ pc[p] = "cut" /\ pc' = [pc EXCEPT ![p] = "return"]
    /\ example_string' = [example_string EXCEPT ![count[p]] = NUL]
    /\ alone' = [q \in Procs |-> alone[q] /\ q = p]
    /\ UNCHANGED <<phase, example_value, buf, count, i>>

\* example_string[count - 1] = '\0'
Cut(p) ==
    /\ pc[p] = "cut" /\ pc' = [pc EXCEPT ![p] = "return"]
    /\ example_string' = [example_string EXCEPT ![count[p] - 1] = NUL]
    /\ alone' = [q \in Procs |-> alone[q] /\ q = p]
    /\ UNCHANGED <<phase, example_value, buf, count, i>>

Return(p) ==
    /\ pc[p] = "return" /\ pc' = [pc EXCEPT ![p] = "idle"]
    /\ buf' = [buf EXCEPT ![p] = Blank] /\ count' = [count EXCEPT ![p] = 1]
    /\ i' = [i EXCEPT ![p] = 0] /\ alone' = [alone EXCEPT ![p] = FALSE]
    /\ UNCHANGED <<phase, example_value, example_string>>

Next ==
    \/ CreateKobject \/ CreateGroup \/ ExitBegin \/ Removed \/ value_store
    \/ \E p \in Procs : string_store(p) \/ Copy(p) \/ Cut(p) \/ Return(p)

Spec == Init /\ [][Next]_vars

-----------------------------------------------------------------------------
\* The bytes that string_show prints of a string: up to the first NUL
Shown(s) == {n \in Index : \A k \in 0 .. n : s[k] # NUL}

\* However stores overlap, string_show finds a NUL in the array
\* (sysfs_example.c:36, 43-47).
StringEnds == \E n \in Index : example_string[n] = NUL

\* A store that no other one wrote into leaves the text it was given, less its
\* last character, to be shown (sysfs_example.c:46-47).
StoreShows ==
    \A p \in Procs : pc[p] = "return" /\ alone[p] =>
        /\ Shown(example_string) = Shown(buf[p]) \ {count[p] - 1}
        /\ \A n \in Shown(example_string) : example_string[n] = buf[p][n]
=============================================================================
