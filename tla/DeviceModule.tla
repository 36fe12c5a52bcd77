---------------------------- MODULE DeviceModule ----------------------------
(***************************************************************************)
(* How the device modules of this repository come and go:                  *)
(*   class_6/02_dma_buffer_demo/shared_memory_demo.c                       *)
(*   class_7/01_block_device/block_demo.c                                  *)
(*   class_7/02_vma_allocation/vma_allocation.c                            *)
(*   class_5/08_IOCTL/ioctl_test.c                                         *)
(* Init obtains a list of objects, unwinds from the one that failed, exit  *)
(* gives all back in reverse, and open files and mappings keep the module. *)
(***************************************************************************)
EXTENDS Naturals, Sequences

CONSTANTS Procs,         \* user processes
          Objects        \* what init obtains, in its order

VARIABLES phase,         \* of the module: out, init, undo, live, exit
          made,          \* the objects held, in order
          opened,        \* processes with an open descriptor
          mapped         \* processes with a mapping; it keeps its file open

vars == <<phase, made, opened, mapped>>

ObjectSet  == {Objects[n] : n \in DOMAIN Objects}
ButLast(s) == SubSeq(s, 1, Len(s) - 1)

TypeOK ==
    /\ phase \in {"out", "init", "undo", "live", "exit"}
    /\ made \in Seq(ObjectSet) /\ Len(made) <= Len(Objects)
    /\ opened \subseteq Procs /\ mapped \subseteq Procs

Init == phase = "out" /\ made = <<>> /\ opened = {} /\ mapped = {}

-----------------------------------------------------------------------------
InitBegin ==
    /\ phase = "out"
    /\ phase' = "init"
    /\ UNCHANGED <<made, opened, mapped>>

Make ==
    /\ phase = "init"
    /\ made' = Append(made, Objects[Len(made) + 1])
    /\ phase' = IF Len(made') = Len(Objects) THEN "live" ELSE "init"
    /\ UNCHANGED <<opened, mapped>>

\* goto err_...: the label undoes everything obtained before the failure
MakeFails ==
    /\ phase = "init"
    /\ phase' = "undo"
    /\ UNCHANGED <<made, opened, mapped>>

\* Fault: without .owner, nothing keeps the module in.
ExitInUse ==
    /\ phase = "live"
    /\ phase' = "exit"
    /\ UNCHANGED <<made, opened, mapped>>

\* rmmod calls exit only while no file of the device is in use (.owner)
ExitBegin ==
    /\ phase = "live" /\ opened = {} /\ mapped = {}
    /\ phase' = "exit"
    /\ UNCHANGED <<made, opened, mapped>>

\* Fault: the unwinding of a failed init forgets the device structure.
UndoButFirst ==
    /\ phase \in {"undo", "exit"} /\ made # <<>>
    /\ IF phase = "undo" /\ Len(made) = 1
       THEN phase' = "out" /\ made' = made
       ELSE phase' = phase /\ made' = ButLast(made)
    /\ UNCHANGED <<opened, mapped>>

\* device_destroy, class_destroy, cdev_del, unregister_chrdev_region and the
\* two frees, from the last object that was made
Undo ==
    /\ phase \in {"undo", "exit"} /\ made # <<>>
    /\ made' = ButLast(made)
    /\ UNCHANGED <<phase, opened, mapped>>

Gone ==
    /\ phase \in {"undo", "exit"} /\ made = <<>>
    /\ phase' = "out"
    /\ UNCHANGED <<made, opened, mapped>>

\* Init and exit of the module, after InitBegin.
Lifecycle == Make \/ MakeFails \/ ExitBegin \/ Undo \/ Gone

-----------------------------------------------------------------------------
\* The node is there once the last object was made; try_module_get fails when
\* the module is going.
Open(p) ==
    /\ phase = "live" /\ p \notin opened
    /\ opened' = opened \cup {p}
    /\ UNCHANGED <<phase, made, mapped>>

Mmap(p) ==
    /\ p \in opened /\ p \notin mapped
    /\ mapped' = mapped \cup {p}
    /\ UNCHANGED <<phase, made, opened>>

Munmap(p) ==
    /\ p \in mapped
    /\ mapped' = mapped \ {p}
    /\ UNCHANGED <<phase, made, opened>>

Close(p) ==
    /\ p \in opened
    /\ opened' = opened \ {p}
    /\ UNCHANGED <<phase, made, mapped>>

\* The drivers take these steps together with their own.
Next ==
    \/ InitBegin \/ Lifecycle
    \/ \E p \in Procs : Open(p) \/ Mmap(p) \/ Munmap(p) \/ Close(p)

Spec == Init /\ [][Next]_vars

-----------------------------------------------------------------------------
\* Whoever can reach the buffer, through a file or through a mapping, finds
\* it allocated, with everything made before and after it.
BufferOutlivesUsers == opened \cup mapped # {} => made = Objects

\* Init either obtains all its objects or gives back those it had, and exit
\* gives back all of them, in reverse.
NothingLeftBehind ==
    /\ made = SubSeq(Objects, 1, Len(made))
    /\ phase = "out" => made = <<>>
    /\ phase = "live" => made = Objects
=============================================================================
