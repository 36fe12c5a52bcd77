------------------------------ MODULE SimpleVfs -----------------------------
(***************************************************************************)
(* examples/class_7/00_vfs_obj_imp/simple_vfs.c and the way test_vfs.c     *)
(* uses it                                                                 *)
(*                                                                         *)
(* A file system that lives in the dentry cache: a file exists as long as  *)
(* its dentry does.  example_create takes a reference to keep it; the      *)
(* lookup of "testfile" makes the file up and takes none.  The dentry      *)
(* cache, unlink(2) and kill_litter_super are the kernel's and are         *)
(* modelled by what they do to reference counts (external).                *)
(*                                                                         *)
(* Freed dentries and inodes are used again, so that a process that still  *)
(* has a file on one gets at whatever took its place.  readdir prints      *)
(* three fixed names and statfs constants; neither changes anything.       *)
(***************************************************************************)
EXTENDS Integers, FiniteSetsExt

CONSTANTS Procs, Names,      \* file names, "testfile" among them
          Dentries, Inodes,  \* memory for them
          Size               \* of the data array (64)

None   == "none"
Free   == [name |-> None, inode |-> None, count |-> 0, hashed |-> FALSE, pinned |-> FALSE]
NoFile == [dentry |-> None, inode |-> None, pos |-> 0]
Cells  == 0 .. Size - 1

\* The array has room for the NUL, and no dentry or inode is None.
ASSUME VfsAssumption ==
    /\ IsFiniteSet(Procs) /\ None \notin Inodes /\ None \notin Dentries
    /\ Size \in Nat /\ Size > 0

VARIABLES phase,        \* of the module: out or in
          root,         \* inode of the root directory while mounted, or None
          dentry,       \* name, inode (None if negative), d_count, in the hash,
                        \* and (history) whether create's reference is in d_count
          inodes,       \* the allocated ones
          data,         \* of each inode: NUL or a letter in each cell
          file,         \* of each process: the open file, or NoFile
          op, len,      \* its read or write under way
          unlinking,    \* the unlink under way: its dentry and inode
          underflow     \* history: a reference was dropped that nobody had taken

cache == <<root, dentry, inodes, unlinking, underflow>>
calls == <<data, op, len>>
vars == <<phase, cache, file, calls>>

Used == {d \in Dentries : dentry[d] # Free}

TypeOK ==
    /\ phase \in {"out", "in"} /\ root \in Inodes \cup {None}
    /\ \A d \in Dentries : /\ dentry[d].name \in Names \cup {None}
                           /\ dentry[d].inode \in Inodes \cup {None}
                           /\ dentry[d].count \in Int
    /\ inodes \subseteq Inodes
    /\ data \in [Inodes -> [Cells -> {"NUL", "a"}]]
    /\ file \in [Procs -> [dentry : Dentries \cup {None}, inode : Inodes \cup {None}, pos : 0 .. Size]]
    /\ op \in [Procs -> {"none", "read", "write"}] /\ len \in [Procs -> 0 .. Size]
    /\ unlinking \in {NoFile} \cup [dentry : Dentries, inode : Inodes, pos : {0}]
    /\ underflow \in BOOLEAN

Init ==
    /\ phase = "out" /\ root = None
    /\ dentry = [d \in Dentries |-> Free] /\ inodes = {}
    /\ data = [i \in Inodes |-> [c \in Cells |-> "NUL"]]
    /\ file = [p \in Procs |-> NoFile]
    /\ op = [p \in Procs |-> "none"] /\ len = [p \in Procs |-> 0]
    /\ unlinking = NoFile /\ underflow = FALSE

-----------------------------------------------------------------------------
(* The dentry cache.  A state of it is a record of dentries and inodes.    *)

Cache == [dentry |-> dentry, inodes |-> inodes]

\* The dentry is freed, and with it its inode, which nothing else refers to:
\* evict calls example_destroy_inode.
Kill(s, d) == [dentry |-> [s.dentry EXCEPT ![d] = Free],
               inodes |-> s.inodes \ {s.dentry[d].inode}]

\* dput: a hashed dentry without users stays in the cache; a count that is not
\* positive is complained about and left alone
Dput(s, d) ==
    IF s.dentry[d].count <= 0 THEN s
    ELSE IF s.dentry[d].count = 1 /\ ~s.dentry[d].hashed THEN Kill(s, d)
    ELSE [s EXCEPT !.dentry[d].count = @ - 1]

\* d_delete: the only user makes the dentry negative, otherwise it leaves the hash
D_delete(s, d) ==
    IF s.dentry[d].count = 1
    THEN [dentry |-> [s.dentry EXCEPT ![d].inode = None],
          inodes |-> s.inodes \ {s.dentry[d].inode}]
    ELSE [s EXCEPT !.dentry[d].hashed = FALSE]

\* Memory is short: an unused dentry goes.
Reclaim(d) ==
    LET s == Kill(Cache, d) IN
    /\ dentry[d] # Free /\ dentry[d].count = 0
    /\ dentry' = s.dentry
    /\ inodes' = s.inodes \cup (inodes \cap {unlinking.inode})
    /\ UNCHANGED <<phase, root, unlinking, underflow, file, calls>>

-----------------------------------------------------------------------------
\* register_filesystem and unregister_filesystem; a mount keeps the module
Register   == phase = "out" /\ phase' = "in" /\ UNCHANGED <<cache, file, calls>>
Unregister == phase = "in" /\ root = None /\ phase' = "out" /\ UNCHANGED <<cache, file, calls>>

\* example_get_inode through example_alloc_inode: an inode with empty data
example_get_inode(i) ==
    /\ i \in Inodes \ inodes
    /\ inodes' = inodes \cup {i}
    /\ data' = [data EXCEPT ![i] = [c \in Cells |-> "NUL"]]

\* without a root inode or a root dentry the mount fails and leaves nothing
example_fill_super(i) ==
    /\ phase = "in" /\ root = None
    /\ example_get_inode(i)
    /\ root' = i
    /\ UNCHANGED <<phase, dentry, unlinking, underflow, file, op, len>>

\* kill_litter_super drops one reference of every file in the hash and frees
\* what then has none; the rest is "still in use" and out of everybody's reach,
\* and keeps the root.
Unmount ==
    LET listed == {d \in Used : dentry[d].hashed /\ dentry[d].inode # None}
        left   == {d \in Used : dentry[d].count # (IF d \in listed THEN 1 ELSE 0)}
    IN
    /\ root # None /\ unlinking = NoFile
    /\ \A p \in Procs : file[p] = NoFile
    /\ dentry' = [d \in Dentries |->
                    IF d \notin left THEN Free
                    ELSE [dentry[d] EXCEPT !.hashed = FALSE,
                                           !.count = IF d \in listed THEN @ - 1 ELSE @]]
    /\ inodes' = inodes \ ({dentry[d].inode : d \in Used \ left}
                           \cup (IF left = {} THEN {root} ELSE {}))
    /\ root' = None
    /\ underflow' = (underflow \/ \E d \in listed : ~dentry[d].pinned)
    /\ UNCHANGED <<phase, unlinking, file, calls>>

-----------------------------------------------------------------------------
Hashed(n) == {d \in Dentries : dentry[d].hashed /\ dentry[d].name = n}

\* example_lookup of a name that is not in the cache, under the directory's
\* lock: "testfile" gets an inode if there is one; the rest, and a failed
\* allocation, a negative dentry.  The walk that asked goes on or lets go.
example_lookup(n, d) ==
    /\ root # None /\ unlinking = NoFile
    /\ Hashed(n) = {} /\ dentry[d] = Free
    /\ \/ /\ n = "testfile"
          /\ \E i \in Inodes :
                /\ example_get_inode(i)
                /\ dentry' = [dentry EXCEPT ![d] =
                                [Free EXCEPT !.name = n, !.hashed = TRUE, !.inode = i]]
       \/ /\ dentry' = [dentry EXCEPT ![d] = [Free EXCEPT !.name = n, !.hashed = TRUE]]
          /\ UNCHANGED <<inodes, data>>
    /\ UNCHANGED <<phase, root, unlinking, underflow, file, op, len>>

\* Fault: forgets the dget that keeps the file.
CreateUnpinned(p, d, i) ==
    /\ root # None /\ unlinking = NoFile /\ file[p] = NoFile
    /\ dentry[d].hashed /\ dentry[d].inode = None
    /\ example_get_inode(i)
    /\ dentry' = [dentry EXCEPT ![d].inode = i, ![d].count = @ + 1, ![d].pinned = TRUE]
    /\ file' = [file EXCEPT ![p] = [dentry |-> d, inode |-> i, pos |-> 0]]
    /\ UNCHANGED <<phase, root, unlinking, underflow, op, len>>

\* open(O_CREAT) of a negative dentry: example_create, and the open file's own
\* reference
example_create(p, d, i) ==
    /\ root # None /\ unlinking = NoFile /\ file[p] = NoFile
    /\ dentry[d].hashed /\ dentry[d].inode = None
    /\ example_get_inode(i)
    /\ dentry' = [dentry EXCEPT ![d].inode = i, ![d].count = @ + 2, ![d].pinned = TRUE]
    /\ file' = [file EXCEPT ![p] = [dentry |-> d, inode |-> i, pos |-> 0]]
    /\ UNCHANGED <<phase, root, unlinking, underflow, op, len>>

\* open of a file in the cache needs no lock of the directory
example_open(p, d) ==
    /\ root # None /\ file[p] = NoFile
    /\ dentry[d].hashed /\ dentry[d].inode # None
    /\ dentry' = [dentry EXCEPT ![d].count = @ + 1]
    /\ file' = [file EXCEPT ![p] = [dentry |-> d, inode |-> dentry[d].inode, pos |-> 0]]
    /\ UNCHANGED <<phase, root, inodes, unlinking, underflow, calls>>

Close(p) ==
    LET s == Dput(Cache, file[p].dentry) IN
    /\ file[p] # NoFile /\ op[p] = "none"
    /\ dentry' = s.dentry /\ inodes' = s.inodes
    /\ file' = [file EXCEPT ![p] = NoFile]
    /\ UNCHANGED <<phase, root, unlinking, underflow, calls>>

\* unlink(2) takes a reference to the dentry and to the inode; example_unlink
\* drops a reference, meant to be the one of create ...
example_unlink(d) ==
    LET s == Dput([Cache EXCEPT !.dentry[d].count = @ + 1], d) IN
    /\ root # None /\ unlinking = NoFile
    /\ dentry[d].hashed /\ dentry[d].inode # None
    /\ dentry' = [s.dentry EXCEPT ![d].pinned = FALSE]
    /\ inodes' = s.inodes
    /\ unlinking' = [dentry |-> d, inode |-> dentry[d].inode, pos |-> 0]
    /\ underflow' = (underflow \/ ~dentry[d].pinned)
    /\ UNCHANGED <<phase, root, file, calls>>

\* ... and vfs_unlink goes on with d_delete, dput and iput.
UnlinkDone ==
    LET d == unlinking.dentry
        s == Dput(D_delete(Cache, d), d)
    IN
    /\ unlinking # NoFile
    /\ dentry' = s.dentry
    /\ inodes' = {i \in s.inodes : i = unlinking.inode =>
                                       \E e \in Dentries : s.dentry[e].inode = i}
    /\ unlinking' = NoFile
    /\ UNCHANGED <<phase, root, underflow, file, calls>>

-----------------------------------------------------------------------------
\* strlen stops at the first NUL, or runs on past the array.
strlen(i) == Min({c \in Cells : data[i][c] = "NUL"} \cup {Size})

\* example_read: the length first, then the copy and the position.  The
\* process asked for more or fewer bytes; the copy may fault.
ReadLength(p) ==
    LET n == strlen(file[p].inode) IN
    /\ file[p] # NoFile /\ op[p] = "none"
    /\ file[p].pos < n
    /\ op' = [op EXCEPT ![p] = "read"] /\ len' = [len EXCEPT ![p] = n]
    /\ UNCHANGED <<phase, cache, file, data>>

example_read(p) ==
    /\ op[p] = "read"
    /\ \E n \in 0 .. len[p] - file[p].pos : file' = [file EXCEPT ![p].pos = @ + n]
    /\ op' = [op EXCEPT ![p] = "none"] /\ len' = [len EXCEPT ![p] = 0]
    /\ UNCHANGED <<phase, cache, data>>

\* lseek(fd, 0, SEEK_SET)
Rewind(p) ==
    /\ file[p].pos > 0 /\ op[p] = "none"
    /\ file' = [file EXCEPT ![p].pos = 0]
    /\ UNCHANGED <<phase, cache, calls>>

\* Fault: leaves no room for the NUL.
ClampedFull(count) == IF count > Size THEN Size ELSE count

Clamped(count) == IF count > Size - 1 THEN Size - 1 ELSE count

Filled(i, n) == [data EXCEPT ![i] = [c \in Cells |-> IF c < n THEN "a" ELSE @[c]]]

\* example_write: always from the start of the array, whatever the position
WriteCopy(p, count) ==
    /\ file[p] # NoFile /\ op[p] = "none"
    /\ data' = Filled(file[p].inode, Clamped(count))
    /\ op' = [op EXCEPT ![p] = "write"] /\ len' = [len EXCEPT ![p] = Clamped(count)]
    /\ UNCHANGED <<phase, cache, file>>

\* copy_from_user faults after some bytes
WriteFaults(p, count) ==
    /\ file[p] # NoFile /\ op[p] = "none"
    /\ \E n \in 0 .. Clamped(count) : data' = Filled(file[p].inode, n)
    /\ UNCHANGED <<phase, cache, file, op, len>>

\* the NUL, and i_size
example_write(p) ==
    /\ op[p] = "write"
    /\ data' = [data EXCEPT ![file[p].inode] =
                    [c \in Cells |-> IF c = len[p] THEN "NUL" ELSE @[c]]]
    /\ op' = [op EXCEPT ![p] = "none"] /\ len' = [len EXCEPT ![p] = 0]
    /\ UNCHANGED <<phase, cache, file>>

-----------------------------------------------------------------------------
Next ==
    \/ Register \/ Unregister \/ Unmount \/ UnlinkDone
    \/ \E i \in Inodes : example_fill_super(i)
    \/ \E d \in Dentries :
        \/ Reclaim(d) \/ example_unlink(d)
        \/ \E n \in Names : example_lookup(n, d)
    \/ \E p \in Procs :
        \/ \E d \in Dentries : example_open(p, d) \/ \E i \in Inodes : example_create(p, d, i)
        \/ Close(p) \/ ReadLength(p) \/ example_read(p) \/ Rewind(p) \/ example_write(p)
        \/ \E count \in 1 .. Size : WriteCopy(p, count) \/ WriteFaults(p, count)

Spec == Init /\ [][Next]_vars

-----------------------------------------------------------------------------
Openers(d) == {p \in Procs : file[p].dentry = d}

\* As long as nobody unlinks or unmounts a file that lookup made up, the
\* references add up: every open file keeps its inode, a created file stays
\* until it is unlinked, and nothing is left after the unmount
\* (simple_vfs.c:149, 171, 185, 299).
ReferencesAddUp ==
    ~underflow =>
        /\ \A p \in Procs : file[p] # NoFile =>
            file[p].inode \in inodes /\ dentry[file[p].dentry].inode = file[p].inode
        /\ \A d \in Used : dentry[d].count = Cardinality(Openers(d))
               + (IF dentry[d].pinned \/ unlinking.dentry = d THEN 1 ELSE 0)
        /\ root = None => inodes = {}

\* Whatever writes overlap or fault, the array of a file ends in a NUL, so the
\* length a reader takes stays inside (simple_vfs.c:201, 225-231).
TextTerminated ==
    /\ \A i \in inodes : data[i][Size - 1] = "NUL"
    /\ \A p \in Procs : op[p] = "read" => len[p] < Size

\* The memory of every inode is cleaned up when the file system goes
\* (lab7_complete_guide.md:69, simple_vfs.c:93-96).
InodesCleanedUp == root = None => inodes = {}
=============================================================================
