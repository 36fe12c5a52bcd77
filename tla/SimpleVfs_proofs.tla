--------------------------- MODULE SimpleVfs_proofs -------------------------
(***************************************************************************)
(* The example file system, for any processes, names, dentries, inodes and *)
(* size of the arrays: as long as no reference was dropped that was never  *)
(* taken, every count of a dentry is the number of its users, so an open   *)
(* file keeps its inode and nothing is left by an unmount; and whatever    *)
(* writes overlap, the text of a file ends within its array.               *)
(***************************************************************************)
EXTENDS SimpleVfs, FiniteSetTheorems, WellFoundedInduction, TLAPS

\* The time, in seconds, that the provers have for a step
USE SMTT(40), ZenonT(40)

\* Every set of numbers that is not empty has a least one.
LEMMA LeastNumber ==
    ASSUME NEW T, T \subseteq Nat, T # {}
    PROVE  Min(T) \in T /\ \A y \in T : Min(T) <= y
<1> DEFINE R == OpToRel(<, Nat)
<1>1. IsWellFoundedOn(R, Nat)
    BY NatLessThanWellFounded, Zenon
<1>2. \A x, y \in Nat : x < y => <<x, y>> \in R
    BY Zenon DEF OpToRel
<1> HIDE DEF R
<1>3. \E x \in T : \A y \in T : ~(<<y, x>> \in R)
    BY <1>1, WFMin, Zenon
<1>4. PICK x \in T : \A y \in T : ~(<<y, x>> \in R)
    BY <1>3, Zenon
<1>5. \A y \in T : x <= y
    <2>1. \A y \in T : x \in Nat /\ y \in Nat
        BY Zenon
    <2>2. \A y \in T : ~(y < x)
        BY <1>2, <1>4, <2>1, Zenon
    <2>3. QED
        BY <2>1, <2>2
<1>6. QED
    BY <1>5, Zenon DEF Min

\* The variables that the texts and the references are about
FileType == [dentry : Dentries \cup {None}, inode : Inodes \cup {None}, pos : Int]

\* The fields of the dentry cache that the references are about
DentriesTyped(dd) ==
    /\ DOMAIN dd = Dentries
    /\ \A d \in Dentries :
          /\ DOMAIN dd[d] = {"name", "inode", "count", "hashed", "pinned"}
          /\ dd[d].inode \in Inodes \cup {None} /\ dd[d].count \in Int

\* Which values the files, the calls under way and the cache may have
FilesTyped ==
    /\ file \in [Procs -> FileType]
    /\ op \in [Procs -> {"none", "read", "write"}] /\ len \in [Procs -> Int]
    /\ \A p \in Procs : /\ file[p] = NoFile \/ (file[p].dentry \in Dentries /\ file[p].inode \in Inodes)
                        /\ op[p] # "none" => file[p] # NoFile
    /\ DentriesTyped(dentry) /\ inodes \subseteq Inodes
    /\ unlinking \in {NoFile} \cup [dentry : Dentries, inode : Inodes, pos : {0}]

\* No copy and no NUL of a write goes beyond the array or to its last byte.
TextsOK ==
    /\ data \in [Inodes -> [Cells -> {"NUL", "a"}]]
    /\ \A n \in Inodes : data[n][Size - 1] = "NUL"
    /\ \A p \in Procs : op[p] \in {"read", "write"} => len[p] \in 0 .. Size - 1

\* Nothing is open and every array is clean before the first mount.
LEMMA TypedInit == Init => FilesTyped /\ TextsOK
<1> SUFFICES ASSUME Init PROVE FilesTyped /\ TextsOK
    BY Zenon
<1>1. NoFile \in FileType
    BY DEF NoFile, FileType
<1>2. FilesTyped
    <2>1. \A p \in Procs : file[p] = NoFile /\ op[p] = "none"
        BY Zenon DEF Init
    <2>2. file \in [Procs -> FileType] /\ len \in [Procs -> Int]
        BY <1>1 DEF Init
    <2>3. DentriesTyped(dentry)
        BY DEF Init, DentriesTyped, Free
    <2>4. /\ op \in [Procs -> {"none", "read", "write"}]
          /\ inodes \subseteq Inodes /\ unlinking = NoFile
        BY Zenon DEF Init
    <2>5. QED
        BY <2>1, <2>2, <2>3, <2>4, Zenon DEF FilesTyped
<1>3. TextsOK
    BY VfsAssumption DEF Init, TextsOK, Cells
<1>4. QED
    BY <1>2, <1>3, Zenon

\* A dentry that is freed, or whose fields change, leaves the others as they are.
LEMMA DentryChanges ==
    ASSUME NEW dd, DentriesTyped(dd), NEW d \in Dentries
    PROVE  /\ DentriesTyped([dd EXCEPT ![d] = Free])
           /\ \A c \in Int : DentriesTyped([dd EXCEPT ![d].count = c])
           /\ \A b : DentriesTyped([dd EXCEPT ![d].hashed = b])
           /\ \A b : DentriesTyped([dd EXCEPT ![d].pinned = b])
           /\ \A n \in Inodes \cup {None} : DentriesTyped([dd EXCEPT ![d].inode = n])
BY DEF DentriesTyped, Free

\* What dput and d_delete make of the cache
LEMMA DputEffect ==
    ASSUME NEW s, s = [dentry |-> s.dentry, inodes |-> s.inodes], DentriesTyped(s.dentry),
           NEW d \in Dentries
    PROVE  /\ s.dentry[d].count <= 0 => Dput(s, d) = s
           /\ s.dentry[d].count = 1 /\ ~s.dentry[d].hashed =>
                 Dput(s, d) = [dentry |-> [s.dentry EXCEPT ![d] = Free],
                               inodes |-> s.inodes \ {s.dentry[d].inode}]
           /\ s.dentry[d].count > 1 \/ (s.dentry[d].count = 1 /\ s.dentry[d].hashed) =>
                 Dput(s, d) = [dentry |-> [s.dentry EXCEPT ![d].count = s.dentry[d].count - 1],
                               inodes |-> s.inodes]
           /\ DentriesTyped(Dput(s, d).dentry) /\ Dput(s, d).inodes \subseteq s.inodes
<1>0. PICK dd, ii : dd = s.dentry /\ ii = s.inodes
    BY Zenon
<1> USE <1>0
<1>1. s.dentry = dd /\ s.inodes = ii /\ dd[d].count \in Int
    BY Zenon DEF DentriesTyped
<1>2. [s EXCEPT !.dentry[d].count = @ - 1]
          = [dentry |-> [dd EXCEPT ![d].count = dd[d].count - 1], inodes |-> ii]
    OBVIOUS
<1>3. CASE dd[d].count <= 0
    BY <1>1, <1>3 DEF Dput
<1>4. CASE dd[d].count = 1 /\ ~dd[d].hashed
    <2>1. Dput(s, d) = [dentry |-> [dd EXCEPT ![d] = Free], inodes |-> ii \ {dd[d].inode}]
        BY <1>1, <1>4 DEF Dput, Kill
    <2>2. QED
        BY <1>4, <2>1, DentryChanges
<1>5. CASE dd[d].count > 1 \/ (dd[d].count = 1 /\ dd[d].hashed)
    <2>1. Dput(s, d) = [dentry |-> [dd EXCEPT ![d].count = dd[d].count - 1], inodes |-> ii]
        BY <1>1, <1>2, <1>5 DEF Dput
    <2>2. DentriesTyped([dd EXCEPT ![d].count = dd[d].count - 1])
        <3>1. dd[d].count - 1 \in Int
            BY <1>1
        <3>2. QED
            BY <3>1, DentryChanges, Zenon
    <2>3. QED
        BY <1>1, <1>5, <2>1, <2>2
<1>6. QED
    BY <1>1, <1>3, <1>4, <1>5

\* d_delete makes the last reference of a dentry negative, and unhashes a dentry
\* that others still use.
LEMMA DdeleteEffect ==
    ASSUME NEW s, s = [dentry |-> s.dentry, inodes |-> s.inodes], DentriesTyped(s.dentry),
           NEW d \in Dentries
    PROVE  /\ s.dentry[d].count = 1 =>
                 D_delete(s, d) = [dentry |-> [s.dentry EXCEPT ![d].inode = None],
                                   inodes |-> s.inodes \ {s.dentry[d].inode}]
           /\ s.dentry[d].count # 1 =>
                 D_delete(s, d) = [dentry |-> [s.dentry EXCEPT ![d].hashed = FALSE],
                                   inodes |-> s.inodes]
           /\ DentriesTyped(D_delete(s, d).dentry) /\ D_delete(s, d).inodes \subseteq s.inodes
           /\ D_delete(s, d) = [dentry |-> D_delete(s, d).dentry, inodes |-> D_delete(s, d).inodes]
<1>0. PICK dd, ii : dd = s.dentry /\ ii = s.inodes
    BY Zenon
<1> USE <1>0
<1>1. s.dentry = dd /\ s.inodes = ii
    BY Zenon
<1>2. [s EXCEPT !.dentry[d].hashed = FALSE] = [dentry |-> [dd EXCEPT ![d].hashed = FALSE],
                                               inodes |-> ii]
    <2>1. \A b : [s EXCEPT !.dentry[d].hashed = b] = [dentry |-> [dd EXCEPT ![d].hashed = b],
                                                      inodes |-> ii]
        OBVIOUS
    <2>2. QED
        BY <2>1, Zenon
<1>3. CASE dd[d].count = 1
    <2>1. D_delete(s, d) = [dentry |-> [dd EXCEPT ![d].inode = None], inodes |-> ii \ {dd[d].inode}]
        BY <1>1, <1>3, Zenon DEF D_delete
    <2>2. DentriesTyped([dd EXCEPT ![d].inode = None])
        BY DentryChanges, Zenon
    <2>3. QED
        BY <1>3, <2>1, <2>2
<1>4. CASE dd[d].count # 1
    <2> DEFINE e == [dd EXCEPT ![d].hashed = FALSE]
    <2>1. D_delete(s, d) = [dentry |-> e, inodes |-> ii]
        BY <1>1, <1>2, <1>4, Zenon DEF D_delete
    <2>2. DentriesTyped(e)
        BY DentryChanges, Zenon
    <2> HIDE DEF e
    <2>3. /\ DentriesTyped(D_delete(s, d).dentry) /\ D_delete(s, d).inodes \subseteq ii
          /\ D_delete(s, d) = [dentry |-> D_delete(s, d).dentry, inodes |-> D_delete(s, d).inodes]
        BY <2>1, <2>2
    <2>4. QED
        BY <1>4, <2>1, <2>3, Zenon DEF e
<1>5. QED
    BY <1>3, <1>4, Zenon

\* The references: who holds what, and nobody shares an inode
Extra(d) == IF dentry[d].pinned \/ unlinking.dentry = d THEN 1 ELSE 0

\* The dentry of an open file leads to its inode; every count is the number of
\* open files, and one for the reference of create or of an unlink under way; two
\* dentries never share an inode, and no inode is without a dentry.
RefsOK ==
    /\ \A p \in Procs : file[p] # NoFile => dentry[file[p].dentry].inode = file[p].inode
    /\ \A d \in Dentries : dentry[d].count = Cardinality(Openers(d)) + Extra(d)
    /\ \A d \in Dentries : dentry[d].inode # None => /\ dentry[d].inode \in inodes
                                                     /\ dentry[d].inode # root
    /\ \A d, e \in Dentries : dentry[d].inode # None /\ dentry[d].inode = dentry[e].inode => d = e
    /\ \A n \in inodes : n = root \/ \E d \in Dentries : dentry[d].inode = n
    /\ \A d \in Dentries : dentry[d].pinned => dentry[d].hashed /\ dentry[d].inode # None
    /\ unlinking # NoFile => /\ dentry[unlinking.dentry].inode = unlinking.inode
                             /\ dentry[unlinking.dentry].hashed
                             /\ ~dentry[unlinking.dentry].pinned
    /\ IF root = None THEN inodes = {} ELSE root \in inodes

\* The processes that have a dentry open can be counted.
LEMMA OpenersFinite ==
    ASSUME NEW d
    PROVE  /\ IsFiniteSet(Openers(d)) /\ Cardinality(Openers(d)) \in Nat
           /\ Cardinality(Openers(d)) = 0 => Openers(d) = {}
<1>1. Openers(d) \subseteq Procs
    BY Zenon DEF Openers
<1>2. IsFiniteSet(Openers(d))
    BY <1>1, VfsAssumption, FS_Subset, Zenon
<1>3. QED
    BY <1>2, FS_CardinalityType, FS_EmptySet, Zenon

\* They stay the same when every file keeps its dentry ...
LEMMA OpenersSame ==
    ASSUME \A p \in Procs : file'[p].dentry = file[p].dentry, NEW d
    PROVE  Openers(d)' = Openers(d)
BY Zenon DEF Openers

\* ... one more with an open ...
LEMMA OpenersAdd ==
    ASSUME FilesTyped, NEW p \in Procs, file[p] = NoFile, NEW f, file' = [file EXCEPT ![p] = f],
           f.dentry \in Dentries
    PROVE  /\ Cardinality(Openers(f.dentry)') = Cardinality(Openers(f.dentry)) + 1
           /\ \A e \in Dentries : e # f.dentry => Openers(e)' = Openers(e)
<1>1. \A q \in Procs : file'[q] = IF q = p THEN f ELSE file[q]
    BY Zenon DEF FilesTyped
<1>2. file[p].dentry = None
    BY DEF NoFile
<1>3. \A e \in Dentries : p \notin Openers(e)
    BY <1>2, VfsAssumption, Zenon DEF Openers
<1>4. Openers(f.dentry)' = Openers(f.dentry) \cup {p}
    BY <1>1, Zenon DEF Openers
<1>5. Cardinality(Openers(f.dentry) \cup {p}) = Cardinality(Openers(f.dentry)) + 1
    BY <1>3, OpenersFinite, FS_AddElement, Zenon
<1>6. \A e \in Dentries : e # f.dentry => Openers(e)' = Openers(e)
    BY <1>1, <1>2, VfsAssumption, Zenon DEF Openers
<1>7. QED
    BY <1>4, <1>5, <1>6, Zenon

\* ... and one fewer with a close.
LEMMA OpenersDrop ==
    ASSUME FilesTyped, NEW p \in Procs, NEW d \in Dentries, file[p].dentry = d,
           file' = [file EXCEPT ![p] = NoFile]
    PROVE  /\ Cardinality(Openers(d)') = Cardinality(Openers(d)) - 1
           /\ p \in Openers(d) /\ Openers(d)' = Openers(d) \ {p}
           /\ \A e \in Dentries : e # d => Openers(e)' = Openers(e)
<1>1. \A q \in Procs : file'[q] = IF q = p THEN NoFile ELSE file[q]
    BY Zenon DEF FilesTyped
<1>2. NoFile.dentry = None
    BY Zenon DEF NoFile
<1>3. Openers(d)' = Openers(d) \ {p} /\ p \in Openers(d)
    BY <1>1, <1>2, VfsAssumption, Zenon DEF Openers
<1>4. Cardinality(Openers(d) \ {p}) = Cardinality(Openers(d)) - 1
    BY <1>3, OpenersFinite, FS_RemoveElement, Zenon
<1>5. \A e \in Dentries : e # d => Openers(e)' = Openers(e)
    BY <1>1, <1>2, VfsAssumption, Zenon DEF Openers
<1>6. QED
    BY <1>3, <1>4, <1>5, Zenon

\* A free dentry refers to nothing and nothing refers to it.
LEMMA FreeFields ==
    /\ Free.count = 0 /\ Free.inode = None /\ ~Free.pinned /\ ~Free.hashed
<1>1. Free.count = 0 /\ Free.inode = None
    BY Zenon DEF Free
<1>2. ~Free.pinned /\ ~Free.hashed
    BY Zenon DEF Free
<1>3. QED
    BY <1>1, <1>2, Zenon

\* Before the first mount there is nothing to refer to.
LEMMA RefsInit == Init => RefsOK
<1> SUFFICES ASSUME Init PROVE RefsOK
    BY Zenon
<1>1. \A d \in Dentries : /\ dentry[d].count = 0 /\ dentry[d].inode = None
                          /\ ~dentry[d].pinned
    BY FreeFields, Zenon DEF Init
<1>2. \A p \in Procs : file[p] = NoFile
    BY Zenon DEF Init
<1>3. unlinking = NoFile /\ NoFile.dentry = None /\ root = None /\ inodes = {}
    BY Zenon DEF Init, NoFile
<1>4. \A d \in Dentries : Cardinality(Openers(d)) = 0
    <2>1. \A d \in Dentries : Openers(d) = {}
        BY <1>2, <1>3, VfsAssumption, Zenon DEF Openers
    <2>2. QED
        BY <2>1, FS_EmptySet, Zenon
<1>5. \A d \in Dentries : Extra(d) = 0
    BY <1>1, <1>3, VfsAssumption, Zenon DEF Extra
<1>6. QED
    BY <1>1, <1>2, <1>3, <1>4, <1>5 DEF RefsOK

\* Reads, writes and seeks use the open file and the data only.
Transfer(p) ==
    \/ ReadLength(p) \/ example_read(p) \/ Rewind(p) \/ example_write(p)
    \/ \E n \in 1 .. Size : WriteCopy(p, n) \/ WriteFaults(p, n)

\* A transfer changes no reference, and a write stays before the last byte of
\* the array (simple_vfs.c:218-236).
LEMMA TransferTyped ==
    ASSUME FilesTyped, TextsOK, NEW p \in Procs, Transfer(p)
    PROVE  FilesTyped' /\ TextsOK' /\ UNCHANGED cache
           /\ \A q \in Procs : /\ file'[q].dentry = file[q].dentry /\ file'[q].inode = file[q].inode
                               /\ file'[q] = NoFile <=> file[q] = NoFile
<1> USE VfsAssumption
<1>1. UNCHANGED cache
    BY Zenon DEF Transfer, ReadLength, example_read, Rewind, example_write, WriteCopy, WriteFaults
<1>2. /\ file[p] # NoFile /\ file[p] \in FileType
      /\ file[p].dentry \in Dentries /\ file[p].inode \in Inodes
    <2>1. file[p] # NoFile
        BY DEF Transfer, ReadLength, example_read, Rewind, example_write, WriteCopy, WriteFaults,
               FilesTyped, NoFile
    <2>2. QED
        BY <2>1, ZenonT(40) DEF FilesTyped
<1>3. \E x \in Int : file' = [file EXCEPT ![p] = [dentry |-> file[p].dentry,
                                                  inode |-> file[p].inode, pos |-> x]]
    <2>1. CASE file' = file
        <3>1. file[p] = [dentry |-> file[p].dentry, inode |-> file[p].inode, pos |-> file[p].pos]
            BY <1>2, Zenon DEF FileType
        <3>2. file = [file EXCEPT ![p] = file[p]]
            BY Zenon DEF FilesTyped
        <3>3. file[p].pos \in Int
            BY <1>2, Zenon DEF FileType
        <3>4. QED
            BY <2>1, <3>1, <3>2, <3>3, Zenon
    <2>2. CASE example_read(p)
        <3>1. PICK n \in 0 .. len[p] - file[p].pos : file' = [file EXCEPT ![p].pos = @ + n]
            BY <2>2, ZenonT(40) DEF example_read
        <3>2. file[p].pos + n \in Int
            BY <1>2 DEF FileType, FilesTyped
        <3>3. [file[p] EXCEPT !.pos = file[p].pos + n]
                  = [dentry |-> file[p].dentry, inode |-> file[p].inode, pos |-> file[p].pos + n]
            BY <1>2 DEF FileType
        <3>4. file' = [file EXCEPT ![p] = [file[p] EXCEPT !.pos = file[p].pos + n]]
            BY <3>1, Zenon
        <3>5. QED
            BY <3>2, <3>3, <3>4, ZenonT(40)
    <2>3. CASE Rewind(p)
        <3>1. [file[p] EXCEPT !.pos = 0] = [dentry |-> file[p].dentry, inode |-> file[p].inode,
                                            pos |-> 0]
            BY <1>2 DEF FileType
        <3>2. file' = [file EXCEPT ![p] = [file[p] EXCEPT !.pos = 0]]
            BY <2>3, Zenon DEF Rewind
        <3>3. 0 \in Int
            OBVIOUS
        <3>4. QED
            BY <3>1, <3>2, <3>3, ZenonT(40)
    <2>4. QED
        BY <2>1, <2>2, <2>3, Zenon DEF Transfer, ReadLength, example_write, WriteCopy, WriteFaults
<1>4. PICK x \in Int : file' = [file EXCEPT ![p] = [dentry |-> file[p].dentry,
                                                    inode |-> file[p].inode, pos |-> x]]
    BY <1>3, Zenon
<1>5. \A q \in Procs : /\ file'[q].dentry = file[q].dentry /\ file'[q].inode = file[q].inode
                       /\ file'[q] = NoFile <=> file[q] = NoFile
    BY <1>2, <1>4, Zenon DEF FilesTyped, NoFile
<1>6. file' \in [Procs -> FileType]
    <2>1. [dentry |-> file[p].dentry, inode |-> file[p].inode, pos |-> x] \in FileType
        BY <1>2, Zenon DEF FileType
    <2>2. QED
        BY <1>4, <2>1, Zenon DEF FilesTyped
<1>7. \E l \in 0 .. Size - 1 : Clamped(l) = l
    BY DEF Clamped
<1>8. \A n \in 1 .. Size : Clamped(n) \in 0 .. Size - 1
    BY DEF Clamped
<1>9. strlen(file[p].inode) \in 0 .. Size - 1
    <2> DEFINE T == {c \in Cells : data[file[p].inode][c] = "NUL"} \cup {Size}
    <2>1. T \subseteq Nat /\ Size - 1 \in T
        BY <1>2 DEF TextsOK, Cells
    <2>2. Min(T) \in T /\ Min(T) <= Size - 1
        <3> HIDE DEF T
        <3>1. QED
            BY <2>1, LeastNumber, ZenonT(40)
    <2>3. strlen(file[p].inode) = Min(T)
        BY Zenon DEF strlen
    <2> HIDE DEF T
    <2>4. QED
        <3>1. Min(T) \in Nat /\ Min(T) <= Size - 1
            BY <2>1, <2>2, ZenonT(40)
        <3>2. QED
            BY <2>3, <3>1
<1>10. /\ op' \in [Procs -> {"none", "read", "write"}] /\ len' \in [Procs -> Int]
       /\ \A q \in Procs : /\ q # p => op'[q] = op[q] /\ len'[q] = len[q]
                           /\ op'[q] \in {"read", "write"} => len'[q] \in 0 .. Size - 1
    <2>1. CASE ReadLength(p)
        BY <1>9, <2>1 DEF ReadLength, FilesTyped, TextsOK
    <2>2. CASE example_read(p) \/ example_write(p)
        BY <2>2 DEF example_read, example_write, FilesTyped, TextsOK
    <2>3. CASE Rewind(p) \/ \E n \in 1 .. Size : WriteFaults(p, n)
        BY <2>3, ZenonT(40) DEF Rewind, WriteFaults, FilesTyped, TextsOK, calls
    <2>4. ASSUME NEW n \in 1 .. Size, WriteCopy(p, n)
          PROVE  /\ op' \in [Procs -> {"none", "read", "write"}] /\ len' \in [Procs -> Int]
                 /\ \A q \in Procs : /\ q # p => op'[q] = op[q] /\ len'[q] = len[q]
                                     /\ op'[q] \in {"read", "write"} => len'[q] \in 0 .. Size - 1
        BY <1>8, <2>4 DEF WriteCopy, FilesTyped, TextsOK
    <2>5. QED
        BY <2>1, <2>2, <2>3, <2>4, ZenonT(40) DEF Transfer
<1>11. FilesTyped'
    <2>1. \A q \in Procs : /\ file'[q] = NoFile \/ (file'[q].dentry \in Dentries /\ file'[q].inode \in Inodes)
                           /\ op'[q] # "none" => file'[q] # NoFile
        BY <1>2, <1>5, <1>10, ZenonT(40) DEF FilesTyped
    <2>2. QED
        BY <1>1, <1>6, <1>10, <2>1, Zenon DEF FilesTyped, cache
<1>12. ASSUME NEW n \in 0 .. Size - 1, data' = Filled(file[p].inode, n)
       PROVE  /\ data' \in [Inodes -> [Cells -> {"NUL", "a"}]]
              /\ \A m \in Inodes : data'[m][Size - 1] = "NUL"
    <2>1. Size - 1 \in Cells
        BY DEF Cells
    <2>2. QED
        BY <1>2, <1>12, <2>1 DEF Filled, TextsOK
<1>13. data' \in [Inodes -> [Cells -> {"NUL", "a"}]] /\ \A m \in Inodes : data'[m][Size - 1] = "NUL"
    <2>1. CASE data' = data
        BY <2>1, ZenonT(40) DEF TextsOK
    <2>2. CASE example_write(p)
        BY <1>2, <2>2 DEF example_write, TextsOK, Cells
    <2>3. ASSUME NEW n \in 1 .. Size, WriteCopy(p, n) \/ WriteFaults(p, n)
          PROVE  \E m \in 0 .. Size - 1 : data' = Filled(file[p].inode, m)
        BY <1>8, <2>3 DEF WriteCopy, WriteFaults
    <2>4. QED
        BY <1>12, <2>1, <2>2, <2>3, ZenonT(40) DEF Transfer, ReadLength, example_read, Rewind, calls
<1>14. TextsOK'
    BY <1>10, <1>13, Zenon DEF TextsOK
<1>15. QED
    BY <1>1, <1>5, <1>11, <1>14, ZenonT(40)

\* A step of the cache that leaves the transfers alone
LEMMA CacheTyped ==
    ASSUME FilesTyped, UNCHANGED <<op, len>>, DentriesTyped(dentry'), inodes' \subseteq Inodes,
           unlinking' \in {NoFile} \cup [dentry : Dentries, inode : Inodes, pos : {0}],
           \/ UNCHANGED file
           \/ \E p \in Procs, f \in FileType :
                 /\ \/ f = NoFile /\ op[p] = "none"
                    \/ f.dentry \in Dentries /\ f.inode \in Inodes /\ f # NoFile
                 /\ file' = [file EXCEPT ![p] = f]
    PROVE  FilesTyped'
<1>1. CASE UNCHANGED file
    BY <1>1, Zenon DEF FilesTyped
<1>2. ASSUME NEW p \in Procs, NEW f \in FileType,
             \/ f = NoFile /\ op[p] = "none"
             \/ f.dentry \in Dentries /\ f.inode \in Inodes /\ f # NoFile,
             file' = [file EXCEPT ![p] = f]
      PROVE  FilesTyped'
    <2>1. file' \in [Procs -> FileType] /\ \A q \in Procs : file'[q] = IF q = p THEN f ELSE file[q]
        BY <1>2, Zenon DEF FilesTyped
    <2>2. QED
        BY <1>2, <2>1, Zenon DEF FilesTyped
<1>3. QED
    BY <1>1, <1>2, Zenon

\* The arrays still end when an inode is allocated with a clean one.
LEMMA TextsKept ==
    ASSUME TextsOK, UNCHANGED <<op, len>>,
           data' = data \/ \E i \in Inodes : data' = [data EXCEPT ![i] = [c \in Cells |-> "NUL"]]
    PROVE  TextsOK'
<1>1. Size - 1 \in Cells
    BY VfsAssumption DEF Cells
<1>2. QED
    BY <1>1, ZenonT(40) DEF TextsOK

\* The references add up after a step that moves no reference.
LEMMA QuietRefs ==
    ASSUME FilesTyped, RefsOK, UNCHANGED <<root, dentry, inodes, unlinking>>,
           \A q \in Procs : /\ file'[q].dentry = file[q].dentry /\ file'[q].inode = file[q].inode
                            /\ file'[q] = NoFile <=> file[q] = NoFile
    PROVE  RefsOK'
<1>1. \A d : Openers(d)' = Openers(d)
    BY OpenersSame, Zenon
<1>2. \A d \in Dentries : Extra(d)' = Extra(d)
    BY ZenonT(40) DEF Extra
<1>3. \A d \in Dentries : (dentry[d].count = Cardinality(Openers(d)) + Extra(d))'
    BY <1>1, <1>2 DEF RefsOK
<1>4. \A p \in Procs : (file[p] # NoFile => dentry[file[p].dentry].inode = file[p].inode)'
    BY ZenonT(40) DEF RefsOK
<1>5. QED
    BY <1>3, <1>4 DEF RefsOK

\* The mount allocates the root.
LEMMA MountStep ==
    ASSUME FilesTyped, TextsOK, NEW i \in Inodes, example_fill_super(i)
    PROVE  FilesTyped' /\ TextsOK' /\ (RefsOK => RefsOK')
<1> USE DEF example_fill_super, example_get_inode
<1>1. FilesTyped'
    BY CacheTyped, ZenonT(40) DEF FilesTyped
<1>2. TextsOK'
    <2>1. UNCHANGED <<op, len>> /\ data' = [data EXCEPT ![i] = [c \in Cells |-> "NUL"]]
        BY Zenon
    <2>2. QED
        BY <2>1, TextsKept, Zenon
<1>3. ASSUME RefsOK PROVE RefsOK'
    <2>1. \A d : Openers(d)' = Openers(d)
        BY OpenersSame, Zenon
    <2>2. \A d \in Dentries : Extra(d)' = Extra(d)
        BY ZenonT(40) DEF Extra
    <2>3. \A d \in Dentries : (dentry[d].count = Cardinality(Openers(d)) + Extra(d))'
        BY <1>3, <2>1, <2>2 DEF RefsOK
    <2>4. inodes = {} /\ i # None
        BY <1>3, VfsAssumption, Zenon DEF RefsOK
    <2>5. QED
        BY <1>3, <2>3, <2>4, Zenon DEF RefsOK
<1>4. QED
    BY <1>1, <1>2, <1>3, Zenon

\* The last user of a dentry is gone, and the dentry with it.
LEMMA FreeRefs ==
    ASSUME FilesTyped, RefsOK, UNCHANGED <<root, unlinking>>, NEW d \in Dentries,
           dentry'[d] = Free, \A e \in Dentries : e # d => dentry'[e] = dentry[e],
           inodes' = inodes \ {dentry[d].inode}, Extra(d) = 0,
           \A p \in Procs : file'[p] = NoFile \/ (file'[p] = file[p] /\ file[p].dentry # d),
           Openers(d)' = {}, \A e \in Dentries : e # d => Openers(e)' = Openers(e)
    PROVE  RefsOK'
<1>1. unlinking.dentry # d /\ ~dentry[d].pinned
    BY DEF Extra
<1>2. Extra(d)' = 0 /\ \A e \in Dentries : e # d => Extra(e)' = Extra(e)
    BY <1>1, FreeFields, Zenon DEF Extra
<1>3. ASSUME NEW e \in Dentries PROVE dentry'[e].count = Cardinality(Openers(e)') + Extra(e)'
    <2>1. CASE e = d
        <3>1. dentry'[d].count = 0 /\ Cardinality(Openers(d)') = 0
            BY FreeFields, FS_EmptySet, Zenon
        <3>2. QED
            BY <1>2, <2>1, <3>1
    <2>2. CASE e # d
        <3>1. dentry[e].count = Cardinality(Openers(e)) + Extra(e)
            BY Zenon DEF RefsOK
        <3>2. dentry'[e] = dentry[e] /\ Openers(e)' = Openers(e) /\ Extra(e)' = Extra(e)
            BY <1>2, <2>2, ZenonT(40)
        <3>3. QED
            BY <3>1, <3>2, ZenonT(40)
    <2>3. QED
        BY <2>1, <2>2, Zenon
<1>4. \A e \in Dentries : dentry'[e].inode # None => e # d /\ dentry'[e].inode = dentry[e].inode
    BY FreeFields, ZenonT(40)
<1>5. /\ \A e \in Dentries : dentry'[e].inode # None => /\ dentry'[e].inode \in inodes'
                                                       /\ dentry'[e].inode # root'
      /\ \A e, f \in Dentries :
            dentry'[e].inode # None /\ dentry'[e].inode = dentry'[f].inode => e = f
    BY <1>4 DEF RefsOK
<1>6. \A n \in inodes' : n = root' \/ \E e \in Dentries : dentry'[e].inode = n
    BY DEF RefsOK
<1>7. \A e \in Dentries : dentry'[e].pinned => dentry'[e].hashed /\ dentry'[e].inode # None
    BY FreeFields DEF RefsOK
<1>8. \A p \in Procs : file'[p] # NoFile => dentry'[file'[p].dentry].inode = file'[p].inode
    BY DEF RefsOK, FilesTyped
<1>9. unlinking' # NoFile => /\ dentry'[unlinking'.dentry].inode = unlinking'.inode
                             /\ dentry'[unlinking'.dentry].hashed
                             /\ ~dentry'[unlinking'.dentry].pinned
    BY <1>1, ZenonT(40) DEF RefsOK, FilesTyped
<1>10. IF root' = None THEN inodes' = {} ELSE root' \in inodes'
    BY ZenonT(40) DEF RefsOK
<1>11. QED
    BY <1>3, <1>5, <1>6, <1>7, <1>8, <1>9, <1>10, ZenonT(40) DEF RefsOK

\* A dentry that nobody uses is reclaimed.
LEMMA ReclaimStep ==
    ASSUME FilesTyped, TextsOK, NEW d \in Dentries, Reclaim(d)
    PROVE  FilesTyped' /\ TextsOK' /\ (RefsOK => RefsOK')
<1>1. /\ dentry' = [dentry EXCEPT ![d] = Free]
      /\ inodes' = (inodes \ {dentry[d].inode}) \cup (inodes \cap {unlinking.inode})
      /\ dentry[d].count = 0
      /\ UNCHANGED <<phase, root, unlinking, underflow, file, data, op, len>>
    BY Zenon DEF Reclaim, Kill, Cache, calls
<1>2. DentriesTyped(dentry') /\ dentry'[d] = Free /\ \A e \in Dentries : e # d => dentry'[e] = dentry[e]
    <2>1. DentriesTyped(dentry')
        BY <1>1, DentryChanges, Zenon DEF FilesTyped
    <2>2. QED
        BY <1>1, <2>1, Zenon DEF FilesTyped, DentriesTyped
<1>3. FilesTyped'
    BY <1>1, <1>2, CacheTyped, Zenon DEF FilesTyped
<1>4. TextsOK'
    BY <1>1, TextsKept, Zenon
<1>5. ASSUME RefsOK PROVE RefsOK'
    <2>1. Cardinality(Openers(d)) = 0 /\ Extra(d) = 0 /\ Openers(d) = {}
        <3>1. Cardinality(Openers(d)) \in Nat /\ Extra(d) \in {0, 1}
            BY OpenersFinite, Zenon DEF Extra
        <3>2. dentry[d].count = Cardinality(Openers(d)) + Extra(d)
            BY <1>5, Zenon DEF RefsOK
        <3>3. Cardinality(Openers(d)) = 0 /\ Extra(d) = 0
            BY <1>1, <3>1, <3>2
        <3>4. QED
            BY <3>3, OpenersFinite, Zenon
    <2>2. unlinking.dentry # d /\ ~dentry[d].pinned
        BY <2>1 DEF Extra
    <2>3. \A e : Openers(e)' = Openers(e)
        BY <1>1, OpenersSame, Zenon
    <2>4. inodes' = inodes \ {dentry[d].inode}
        <3>1. CASE unlinking = NoFile
            BY <1>1, <3>1, VfsAssumption, ZenonT(40) DEF NoFile, FilesTyped
        <3>2. CASE unlinking # NoFile
            <4>1. /\ unlinking.dentry \in Dentries /\ unlinking.inode \in Inodes
                  /\ dentry[unlinking.dentry].inode = unlinking.inode
                BY <1>5, <3>2, ZenonT(40) DEF FilesTyped, RefsOK
            <4>2. dentry[d].inode # unlinking.inode
                BY <1>5, <2>2, <4>1, VfsAssumption DEF RefsOK
            <4>3. QED
                BY <1>1, <4>2, ZenonT(40)
        <3>3. QED
            BY <3>1, <3>2, Zenon
    <2>5. \A p \in Procs : file'[p] = NoFile \/ (file'[p] = file[p] /\ file[p].dentry # d)
        BY <1>1, <2>1, Zenon DEF Openers
    <2>6. Openers(d)' = {} /\ \A e \in Dentries : e # d => Openers(e)' = Openers(e)
        BY <2>1, <2>3, Zenon
    <2>7. QED
        BY <1>1, <1>2, <1>5, <2>1, <2>4, <2>5, <2>6, FreeRefs, ZenonT(40)
<1>6. QED
    BY <1>3, <1>4, <1>5, Zenon

\* The lookup of a name makes up a file, or a negative dentry.
LEMMA LookupStep ==
    ASSUME FilesTyped, TextsOK, NEW n \in Names, NEW d \in Dentries, example_lookup(n, d)
    PROVE  FilesTyped' /\ TextsOK' /\ (RefsOK => RefsOK')
<1> DEFINE Fresh(m) == /\ m \notin inodes /\ inodes' = inodes \cup {m}
                       /\ data' = [data EXCEPT ![m] = [c \in Cells |-> "NUL"]]
           Made(m) == /\ DOMAIN dentry' = Dentries /\ \A e \in Dentries : e # d => dentry'[e] = dentry[e]
                      /\ DOMAIN dentry'[d] = {"name", "inode", "count", "hashed", "pinned"}
                      /\ dentry'[d].inode = m /\ dentry'[d].count = 0 /\ dentry'[d].pinned = Free.pinned
<1>0. /\ DOMAIN Free = {"name", "inode", "count", "hashed", "pinned"}
      /\ DOMAIN dentry = Dentries
    BY Zenon DEF Free, FilesTyped, DentriesTyped
<1>1. \E m \in Inodes \cup {None} : /\ Made(m)
                                    /\ m # None => Fresh(m)
                                    /\ m = None => UNCHANGED <<inodes, data>>
    <2>1. ASSUME NEW i \in Inodes, example_get_inode(i),
                 dentry' = [dentry EXCEPT ![d] = [Free EXCEPT !.name = n, !.hashed = TRUE,
                                                  !.inode = i]]
          PROVE  Made(i) /\ Fresh(i) /\ i # None
        <3>1. \A b : dentry' = [dentry EXCEPT ![d] = [Free EXCEPT !.name = n, !.hashed = b,
                                                      !.inode = i]]
                         => Made(i)
            BY <1>0, FreeFields, ZenonT(40)
        <3>2. Made(i)
            BY <2>1, <3>1, Zenon
        <3>3. QED
            BY <2>1, <3>2, VfsAssumption, Zenon DEF example_get_inode
    <2>2. ASSUME dentry' = [dentry EXCEPT ![d] = [Free EXCEPT !.name = n, !.hashed = TRUE]]
          PROVE  Made(None)
        <3>1. \A b : dentry' = [dentry EXCEPT ![d] = [Free EXCEPT !.name = n,
                                                      !.hashed = b]] => Made(None)
            BY <1>0, FreeFields, ZenonT(40)
        <3>2. QED
            BY <2>2, <3>1, ZenonT(40)
    <2> HIDE DEF Made, Fresh
    <2>3. CASE \E i \in Inodes : /\ example_get_inode(i)
                                 /\ dentry' = [dentry EXCEPT ![d] =
                                        [Free EXCEPT !.name = n, !.hashed = TRUE, !.inode = i]]
        BY <2>1, <2>3, ZenonT(40)
    <2>4. CASE /\ dentry' = [dentry EXCEPT ![d] = [Free EXCEPT !.name = n, !.hashed = TRUE]]
               /\ UNCHANGED <<inodes, data>>
        <3>1. Made(None)
            BY <2>2, <2>4, ZenonT(40)
        <3>2. QED
            BY <2>4, <3>1, ZenonT(40)
    <2>5. QED
        BY <2>3, <2>4, Zenon DEF example_lookup
<1>2. PICK m \in Inodes \cup {None} : Made(m) /\ (m # None => Fresh(m)) /\ (m = None => UNCHANGED <<inodes, data>>)
    BY <1>1, Zenon
<1>3. /\ dentry[d] = Free /\ unlinking = NoFile /\ root # None
      /\ UNCHANGED <<root, unlinking, underflow, file, op, len>>
    BY Zenon DEF example_lookup
<1>4. Made(m)
    BY <1>2, Zenon
<1>5. ~dentry'[d].pinned
    BY <1>4, FreeFields, ZenonT(40)
<1>6. DentriesTyped(dentry') /\ inodes' \subseteq Inodes
    BY <1>2, <1>4 DEF DentriesTyped, FilesTyped
<1>7. FilesTyped'
    BY <1>3, <1>6, CacheTyped, ZenonT(40) DEF FilesTyped
<1>8. TextsOK'
    <2>1. data' = data \/ \E i \in Inodes : data' = [data EXCEPT ![i] = [c \in Cells |-> "NUL"]]
        BY <1>2, ZenonT(40)
    <2>2. QED
        BY <1>3, <2>1, TextsKept, ZenonT(40)
<1>9. ASSUME RefsOK PROVE RefsOK'
    <2>1. /\ \A e : Openers(e)' = Openers(e)
          /\ Cardinality(Openers(d)) = 0 /\ Openers(d) = {}
        <3>1. dentry[d].count = 0
            BY <1>3, FreeFields, ZenonT(40)
        <3>2. Cardinality(Openers(d)) \in Nat /\ Extra(d) \in {0, 1}
            BY OpenersFinite, ZenonT(40) DEF Extra
        <3>3. dentry[d].count = Cardinality(Openers(d)) + Extra(d)
            BY <1>9, ZenonT(40) DEF RefsOK
        <3>4. Cardinality(Openers(d)) = 0
            BY <3>1, <3>2, <3>3
        <3>5. Openers(d) = {}
            BY <3>4, OpenersFinite, ZenonT(40)
        <3>6. \A p \in Procs : file'[p].dentry = file[p].dentry
            BY <1>3, Zenon
        <3>7. \A e : Openers(e)' = Openers(e)
            BY <3>6, ZenonT(40) DEF Openers
        <3>8. QED
            BY <3>4, <3>5, <3>7, ZenonT(40)
    <2>2. Extra(d)' = 0 /\ \A e \in Dentries : e # d => Extra(e)' = Extra(e)
        BY <1>3, <1>4, <1>5, VfsAssumption, ZenonT(40) DEF Extra, NoFile
    <2>3. \A e \in Dentries : dentry'[e].count = Cardinality(Openers(e)') + Extra(e)'
        <3>1. dentry'[d].count = Cardinality(Openers(d)') + Extra(d)'
            BY <1>4, <2>1, <2>2
        <3>2. ASSUME NEW e \in Dentries, e # d
              PROVE  dentry'[e].count = Cardinality(Openers(e)') + Extra(e)'
            <4>1. dentry[e].count = Cardinality(Openers(e)) + Extra(e)
                BY <1>9, Zenon DEF RefsOK
            <4>2. dentry'[e] = dentry[e] /\ Openers(e)' = Openers(e) /\ Extra(e)' = Extra(e)
                BY <1>4, <2>1, <2>2, <3>2, ZenonT(40)
            <4>3. QED
                BY <4>1, <4>2, Zenon
        <3>3. QED
            BY <3>1, <3>2, ZenonT(40)
    <2>4. \A p \in Procs : file[p] # NoFile => file[p].dentry # d /\ file[p].dentry \in Dentries
        BY <2>1, ZenonT(40) DEF Openers, FilesTyped
    <2>5. \A e \in Dentries : dentry[e].inode # None => /\ dentry[e].inode \in inodes /\ e # d
                                                       /\ dentry[e].inode # root
        BY <1>3, <1>9, FreeFields, ZenonT(40) DEF RefsOK
    <2>6. /\ \A e \in Dentries : dentry'[e].inode # None => /\ dentry'[e].inode \in inodes'
                                                           /\ dentry'[e].inode # root'
          /\ \A e, f \in Dentries :
                dentry'[e].inode # None /\ dentry'[e].inode = dentry'[f].inode => e = f
        BY <1>2, <1>3, <1>4, <1>9, <2>5 DEF RefsOK
    <2>7. \A k \in inodes' : k = root' \/ \E e \in Dentries : dentry'[e].inode = k
        <3>1. ASSUME NEW k \in inodes, k # root PROVE \E e \in Dentries : dentry'[e].inode = k
            <4>1. PICK e \in Dentries : dentry[e].inode = k
                BY <1>9, <3>1, ZenonT(40) DEF RefsOK
            <4>2. e # d
                BY <1>3, <4>1, FreeFields, VfsAssumption, ZenonT(40) DEF FilesTyped
            <4>3. QED
                BY <1>4, <4>1, <4>2, ZenonT(40)
        <3>2. QED
            BY <1>2, <1>3, <1>4, <3>1
    <2>8. \A e \in Dentries : dentry'[e].pinned => dentry'[e].hashed /\ dentry'[e].inode # None
        BY <1>4, <1>5, <1>9 DEF RefsOK
    <2>9. \A p \in Procs : file'[p] # NoFile => dentry'[file'[p].dentry].inode = file'[p].inode
        BY <1>3, <1>4, <1>9, <2>4 DEF RefsOK
    <2>10. IF root' = None THEN inodes' = {} ELSE root' \in inodes'
        BY <1>2, <1>3, <1>9, ZenonT(40) DEF RefsOK
    <2>11. unlinking' = NoFile
        BY <1>3, Zenon
    <2>12. QED
        BY <2>3, <2>6, <2>7, <2>8, <2>9, <2>10, <2>11, ZenonT(40) DEF RefsOK
<1>10. QED
    BY <1>7, <1>8, <1>9, Zenon

\* A step that changes nothing of the dentries but their counts
LEMMA CountsMove ==
    ASSUME FilesTyped, RefsOK, UNCHANGED <<root, inodes, unlinking>>,
           \A e \in Dentries : /\ dentry'[e].inode = dentry[e].inode
                               /\ dentry'[e].hashed = dentry[e].hashed
                               /\ dentry'[e].pinned = dentry[e].pinned,
           \A e \in Dentries : dentry'[e].count = Cardinality(Openers(e)') + Extra(e),
           \A p \in Procs : file'[p] # NoFile =>
                                /\ file'[p].dentry \in Dentries
                                /\ dentry[file'[p].dentry].inode = file'[p].inode
    PROVE  RefsOK'
<1>1. \A e \in Dentries : Extra(e)' = Extra(e)
    BY Zenon DEF Extra
<1>2. \A e \in Dentries : dentry'[e].count = Cardinality(Openers(e)') + Extra(e)'
    BY <1>1, Zenon
<1>3. unlinking # NoFile => unlinking.dentry \in Dentries
    BY Zenon DEF FilesTyped
<1>4. \A p \in Procs : file'[p] # NoFile => dentry'[file'[p].dentry].inode = file'[p].inode
    BY ZenonT(40)
<1>5. /\ \A d \in Dentries : dentry'[d].inode # None => /\ dentry'[d].inode \in inodes'
                                                       /\ dentry'[d].inode # root'
      /\ \A d, e \in Dentries :
            dentry'[d].inode # None /\ dentry'[d].inode = dentry'[e].inode => d = e
      /\ \A n \in inodes' : n = root' \/ \E d \in Dentries : dentry'[d].inode = n
      /\ IF root' = None THEN inodes' = {} ELSE root' \in inodes'
    BY DEF RefsOK
<1>6. /\ \A d \in Dentries : dentry'[d].pinned => dentry'[d].hashed /\ dentry'[d].inode # None
      /\ unlinking' # NoFile => /\ dentry'[unlinking'.dentry].inode = unlinking'.inode
                                /\ dentry'[unlinking'.dentry].hashed
                                /\ ~dentry'[unlinking'.dentry].pinned
    BY <1>3 DEF RefsOK
<1>7. QED
    BY <1>2, <1>4, <1>5, <1>6, ZenonT(40) DEF RefsOK

\* An open takes a reference to the dentry of a positive lookup.
LEMMA OpenStep ==
    ASSUME FilesTyped, TextsOK, NEW p \in Procs, NEW d \in Dentries, example_open(p, d)
    PROVE  FilesTyped' /\ TextsOK' /\ (RefsOK => RefsOK')
<1>0. PICK f : f = [dentry |-> d, inode |-> dentry[d].inode, pos |-> 0]
    BY Zenon
<1>1. /\ file[p] = NoFile /\ dentry[d].inode \in Inodes /\ file' = [file EXCEPT ![p] = f]
      /\ dentry[d].count \in Int /\ dentry' = [dentry EXCEPT ![d].count = dentry[d].count + 1]
      /\ UNCHANGED <<root, inodes, unlinking, underflow, data, op, len>>
    BY <1>0, ZenonT(40) DEF example_open, calls, FilesTyped, DentriesTyped
<1>2. /\ DentriesTyped(dentry') /\ dentry'[d].count = dentry[d].count + 1
      /\ \A e \in Dentries : e # d => dentry'[e] = dentry[e]
      /\ \A e \in Dentries : /\ dentry'[e].inode = dentry[e].inode
                             /\ dentry'[e].hashed = dentry[e].hashed
                             /\ dentry'[e].pinned = dentry[e].pinned
    <2>1. dentry[d].count + 1 \in Int /\ DentriesTyped(dentry)
        BY <1>1 DEF FilesTyped
    <2>2. DentriesTyped(dentry')
        BY <1>1, <2>1, DentryChanges, ZenonT(40)
    <2>3. QED
        BY <1>1, <2>1, <2>2, ZenonT(40) DEF DentriesTyped
<1>3. f \in FileType /\ f.dentry = d /\ f.inode = dentry[d].inode /\ f # NoFile
    BY <1>0, <1>1, VfsAssumption DEF FileType, NoFile
<1>4. FilesTyped'
    BY <1>1, <1>2, <1>3, CacheTyped, ZenonT(40) DEF FilesTyped
<1>5. TextsOK'
    BY <1>1, TextsKept, ZenonT(40)
<1>6. ASSUME RefsOK PROVE RefsOK'
    <2>1. /\ Cardinality(Openers(d)') = Cardinality(Openers(d)) + 1
          /\ \A e \in Dentries : e # d => Openers(e)' = Openers(e)
        <3>1. f.dentry \in Dentries
            BY <1>3, Zenon
        <3>2. /\ Cardinality(Openers(f.dentry)') = Cardinality(Openers(f.dentry)) + 1
              /\ \A e \in Dentries : e # f.dentry => Openers(e)' = Openers(e)
            BY <1>1, <3>1, OpenersAdd, ZenonT(40)
        <3>3. QED
            BY <1>3, <3>2, ZenonT(40)
    <2>2. \A e \in Dentries : dentry[e].count = Cardinality(Openers(e)) + Extra(e)
        BY <1>6, ZenonT(40) DEF RefsOK
    <2>3. ASSUME NEW e \in Dentries PROVE dentry'[e].count = Cardinality(Openers(e)') + Extra(e)
        <3>1. Cardinality(Openers(e)) \in Nat /\ Extra(e) \in {0, 1}
            BY OpenersFinite, ZenonT(40) DEF Extra
        <3>2. CASE e = d
            BY <1>2, <1>3, <2>1, <2>2, <3>1, <3>2
        <3>3. CASE e # d
            BY <1>2, <1>3, <2>1, <2>2, <3>3, ZenonT(40)
        <3>4. QED
            BY <3>2, <3>3, ZenonT(40)
    <2>4. \A q \in Procs : file'[q] = IF q = p THEN f ELSE file[q]
        BY <1>1, ZenonT(40) DEF FilesTyped
    <2>5. \A q \in Procs : file'[q] # NoFile => /\ file'[q].dentry \in Dentries
                                               /\ dentry[file'[q].dentry].inode = file'[q].inode
        BY <1>3, <1>6, <2>4 DEF FilesTyped, RefsOK
    <2>6. QED
        BY <1>1, <1>2, <1>6, <2>3, <2>5, CountsMove, ZenonT(40)
<1>7. QED
    BY <1>4, <1>5, <1>6, ZenonT(40)

\* A close drops its reference, and the last one of an unhashed dentry frees
\* the inode.
LEMMA CloseStep ==
    ASSUME FilesTyped, TextsOK, NEW p \in Procs, Close(p)
    PROVE  FilesTyped' /\ TextsOK' /\ (RefsOK => RefsOK')
<1>0. file[p] # NoFile
    BY Zenon DEF Close
<1>a. PICK d \in Dentries : d = file[p].dentry
    BY <1>0, ZenonT(40) DEF FilesTyped
<1> DEFINE s == Dput(Cache, d)
<1>1. /\ file[p] # NoFile /\ op[p] = "none" /\ d \in Dentries /\ file[p].inode \in Inodes
      /\ dentry' = s.dentry /\ inodes' = s.inodes /\ file' = [file EXCEPT ![p] = NoFile]
      /\ UNCHANGED <<root, unlinking, underflow, data, op, len>>
    BY <1>a, ZenonT(40) DEF Close, calls, FilesTyped
<1>2. DentriesTyped(dentry) /\ dentry[d].count \in Int /\ file[p].dentry = d
    BY <1>a, <1>1, ZenonT(40) DEF FilesTyped, DentriesTyped
<1> HIDE DEF s
<1>3. /\ DentriesTyped(s.dentry) /\ s.inodes \subseteq inodes
      /\ dentry[d].count = 1 /\ ~dentry[d].hashed =>
            s = [dentry |-> [dentry EXCEPT ![d] = Free], inodes |-> inodes \ {dentry[d].inode}]
      /\ dentry[d].count > 1 \/ (dentry[d].count = 1 /\ dentry[d].hashed) =>
            s = [dentry |-> [dentry EXCEPT ![d].count = dentry[d].count - 1], inodes |-> inodes]
    <2>1. /\ Cache.dentry = dentry /\ Cache.inodes = inodes
          /\ Cache = [dentry |-> dentry, inodes |-> inodes]
        BY Zenon DEF Cache
    <2>2. DentriesTyped(Cache.dentry) /\ Cache = [dentry |-> Cache.dentry, inodes |-> Cache.inodes]
        BY <1>2, <2>1, ZenonT(40)
    <2>3. /\ DentriesTyped(s.dentry) /\ s.inodes \subseteq Cache.inodes
          /\ Cache.dentry[d].count = 1 /\ ~Cache.dentry[d].hashed =>
                s = [dentry |-> [Cache.dentry EXCEPT ![d] = Free],
                     inodes |-> Cache.inodes \ {Cache.dentry[d].inode}]
          /\ Cache.dentry[d].count > 1 \/ (Cache.dentry[d].count = 1 /\ Cache.dentry[d].hashed) =>
                s = [dentry |-> [Cache.dentry EXCEPT ![d].count = Cache.dentry[d].count - 1],
                     inodes |-> Cache.inodes]
        BY <2>2, DputEffect, ZenonT(40) DEF s
    <2>4. QED
        BY <2>1, <2>3, ZenonT(40)
<1>4. FilesTyped'
    <2>1. NoFile \in FileType
        BY DEF NoFile, FileType
    <2>2. QED
        BY <1>1, <1>3, <2>1, CacheTyped, ZenonT(40) DEF FilesTyped
<1>5. TextsOK'
    BY <1>1, TextsKept, ZenonT(40)
<1>6. ASSUME RefsOK PROVE RefsOK'
    <2>1. /\ Cardinality(Openers(d)') = Cardinality(Openers(d)) - 1
          /\ p \in Openers(d) /\ Openers(d)' = Openers(d) \ {p}
          /\ \A e \in Dentries : e # d => Openers(e)' = Openers(e)
        BY <1>1, <1>2, OpenersDrop, ZenonT(40)
    <2>2. \A e \in Dentries : dentry[e].count = Cardinality(Openers(e)) + Extra(e)
        BY <1>6, Zenon DEF RefsOK
    <2>3. \A e : Cardinality(Openers(e)) \in Nat /\ Extra(e) \in {0, 1}
        BY OpenersFinite, ZenonT(40) DEF Extra
    <2>4. dentry[d].count >= 1
        <3>1. Cardinality(Openers(d)) # 0
            BY <2>1, OpenersFinite, Zenon
        <3>2. QED
            BY <1>1, <2>2, <2>3, <3>1
    <2>5. \A q \in Procs : file'[q] = IF q = p THEN NoFile ELSE file[q]
        BY <1>1, Zenon DEF FilesTyped
    <2>6. CASE dentry[d].count > 1 \/ (dentry[d].count = 1 /\ dentry[d].hashed)
        <3>1. dentry' = [dentry EXCEPT ![d].count = dentry[d].count - 1] /\ inodes' = inodes
            BY <1>1, <1>3, <2>6
        <3>2. /\ dentry'[d].count = dentry[d].count - 1
              /\ \A e \in Dentries : e # d => dentry'[e] = dentry[e]
              /\ \A e \in Dentries : /\ dentry'[e].inode = dentry[e].inode
                                     /\ dentry'[e].hashed = dentry[e].hashed
                                     /\ dentry'[e].pinned = dentry[e].pinned
            BY <1>1, <1>2, <3>1 DEF DentriesTyped
        <3>3. ASSUME NEW e \in Dentries PROVE dentry'[e].count = Cardinality(Openers(e)') + Extra(e)
            <4>1. CASE e = d
                <5>1. dentry'[d].count = Cardinality(Openers(d)') + Extra(d)
                    BY <2>1, <2>2, <2>3, <3>2
                <5>2. QED
                    BY <4>1, <5>1, ZenonT(40)
            <4>2. CASE e # d
                BY <2>1, <2>2, <3>2, <4>2, ZenonT(40)
            <4>3. QED
                BY <4>1, <4>2, ZenonT(40)
        <3>4. \A q \in Procs : file'[q] # NoFile => /\ file'[q].dentry \in Dentries
                                                   /\ dentry[file'[q].dentry].inode = file'[q].inode
            BY <1>6, <2>5 DEF FilesTyped, RefsOK
        <3>5. QED
            BY <1>1, <1>6, <3>1, <3>2, <3>3, <3>4, CountsMove, ZenonT(40)
    <2>7. CASE dentry[d].count = 1 /\ ~dentry[d].hashed
        <3>1. dentry' = [dentry EXCEPT ![d] = Free] /\ inodes' = inodes \ {dentry[d].inode}
            BY <1>1, <1>3, <2>7
        <3>2. dentry'[d] = Free /\ \A e \in Dentries : e # d => dentry'[e] = dentry[e]
            BY <1>1, <1>2, <3>1, ZenonT(40) DEF DentriesTyped
        <3>3. Cardinality(Openers(d)) = 1 /\ Extra(d) = 0 /\ Cardinality(Openers(d)') = 0
            <4>1. Cardinality(Openers(d)) # 0
                BY <2>1, OpenersFinite, Zenon
            <4>2. QED
                BY <1>1, <2>1, <2>2, <2>3, <2>7, <4>1
        <3>4. Openers(d)' = {}
            <4>1. IsFiniteSet(Openers(d) \ {p})
                BY OpenersFinite, FS_RemoveElement, ZenonT(40)
            <4>2. Cardinality(Openers(d) \ {p}) = 0
                BY <2>1, <3>3, ZenonT(40)
            <4>3. QED
                BY <2>1, <4>1, <4>2, FS_EmptySet, ZenonT(40)
        <3>5. \A q \in Procs : file'[q] = NoFile \/ (file'[q] = file[q] /\ file[q].dentry # d)
            BY <2>5, <3>4, Zenon DEF Openers
        <3>6. QED
            BY <1>1, <1>6, <2>1, <3>1, <3>2, <3>3, <3>4, <3>5, FreeRefs, ZenonT(40)
    <2>8. QED
        BY <1>1, <1>2, <2>4, <2>6, <2>7
<1>7. QED
    BY <1>4, <1>5, <1>6, Zenon

\* A file is created: one reference keeps it and one is the open file's.
LEMMA CreateStep ==
    ASSUME FilesTyped, TextsOK, NEW p \in Procs, NEW d \in Dentries, NEW i \in Inodes,
           example_create(p, d, i)
    PROVE  FilesTyped' /\ TextsOK' /\ (RefsOK => RefsOK')
<1>1. PICK f : f = [dentry |-> d, inode |-> i, pos |-> 0]
    BY Zenon
<1>2. /\ root # None /\ unlinking = NoFile /\ file[p] = NoFile /\ file' = [file EXCEPT ![p] = f]
      /\ dentry[d].inode = None /\ dentry[d].hashed /\ i \notin inodes /\ inodes' = inodes \cup {i}
      /\ data' = [data EXCEPT ![i] = [c \in Cells |-> "NUL"]]
      /\ UNCHANGED <<root, unlinking, underflow, op, len>>
    BY <1>1, ZenonT(40) DEF example_create, example_get_inode
<1>3. /\ DentriesTyped(dentry') /\ dentry'[d].count = dentry[d].count + 2 /\ dentry'[d].inode = i
      /\ dentry'[d].hashed = dentry[d].hashed /\ dentry'[d].pinned = TRUE
      /\ \A e \in Dentries : e # d => dentry'[e] = dentry[e]
    <2>1. ASSUME NEW b,
                 dentry' = [dentry EXCEPT ![d].inode = i, ![d].count = @ + 2, ![d].pinned = b]
          PROVE  /\ DentriesTyped(dentry') /\ dentry'[d].count = dentry[d].count + 2
                 /\ dentry'[d].inode = i /\ dentry'[d].hashed = dentry[d].hashed /\ dentry'[d].pinned = b
                 /\ \A e \in Dentries : e # d => dentry'[e] = dentry[e]
        BY <2>1 DEF FilesTyped, DentriesTyped
    <2>2. dentry' = [dentry EXCEPT ![d].inode = i, ![d].count = @ + 2, ![d].pinned = TRUE]
        BY ZenonT(40) DEF example_create
    <2>3. QED
        BY <2>1, <2>2, ZenonT(40)
<1>4. f \in FileType /\ f.dentry = d /\ f.inode = i /\ f # NoFile
    BY <1>1, VfsAssumption DEF FileType, NoFile
<1>5. FilesTyped'
    <2>1. inodes' \subseteq Inodes
        BY <1>2, ZenonT(40) DEF FilesTyped
    <2>2. QED
        BY <1>2, <1>3, <1>4, <2>1, CacheTyped, ZenonT(40) DEF FilesTyped
<1>6. TextsOK'
    BY <1>2, TextsKept, ZenonT(40)
<1>7. ASSUME RefsOK PROVE RefsOK'
    <2>1. /\ Cardinality(Openers(f.dentry)') = Cardinality(Openers(f.dentry)) + 1
          /\ \A e \in Dentries : e # f.dentry => Openers(e)' = Openers(e)
        <3>1. f.dentry \in Dentries
            BY <1>4, Zenon
        <3>2. QED
            BY <1>2, <3>1, OpenersAdd, Zenon
    <2>2. /\ Cardinality(Openers(d)') = Cardinality(Openers(d)) + 1
          /\ \A e \in Dentries : e # d => Openers(e)' = Openers(e)
        BY <1>4, <2>1, ZenonT(40)
    <2>3. ~dentry[d].pinned
        BY <1>2, <1>7, ZenonT(40) DEF RefsOK
    <2>4. Extra(d) = 0 /\ Extra(d)' = 1 /\ \A e \in Dentries : e # d => Extra(e)' = Extra(e)
        <3>1. unlinking.dentry # d /\ unlinking' = unlinking
            BY <1>2, VfsAssumption, ZenonT(40) DEF NoFile
        <3>2. dentry'[d].pinned
            BY <1>3, Zenon
        <3>3. QED
            BY <1>3, <2>3, <3>1, <3>2, ZenonT(40) DEF Extra
    <2>5. ASSUME NEW e \in Dentries PROVE dentry'[e].count = Cardinality(Openers(e)') + Extra(e)'
        <3>1. \A g \in Dentries : dentry[g].count = Cardinality(Openers(g)) + Extra(g)
            BY <1>7, ZenonT(40) DEF RefsOK
        <3>2. dentry'[d].count = Cardinality(Openers(d)') + Extra(d)'
            <4>1. Cardinality(Openers(d)) \in Nat /\ dentry[d].count = Cardinality(Openers(d)) + Extra(d)
                BY <3>1, OpenersFinite, ZenonT(40)
            <4>2. QED
                BY <1>3, <2>2, <2>4, <4>1
        <3>3. CASE e # d
            BY <1>3, <2>2, <2>4, <3>1, <3>3, ZenonT(40)
        <3>4. QED
            BY <3>2, <3>3, ZenonT(40)
    <2>6. \A e \in Dentries : dentry[e].inode # None => e # d /\ dentry[e].inode \in inodes /\ dentry[e].inode # i
        BY <1>2, <1>7, ZenonT(40) DEF RefsOK
    <2>7. i # None /\ i # root /\ root \in inodes
        BY <1>2, <1>7, VfsAssumption, ZenonT(40) DEF RefsOK
    <2>8. /\ \A e \in Dentries : dentry'[e].inode # None => /\ dentry'[e].inode \in inodes'
                                                           /\ dentry'[e].inode # root'
          /\ \A e, g \in Dentries :
                dentry'[e].inode # None /\ dentry'[e].inode = dentry'[g].inode => e = g
        BY <1>2, <1>3, <1>7, <2>6, <2>7 DEF RefsOK
    <2>9. \A k \in inodes' : k = root' \/ \E e \in Dentries : dentry'[e].inode = k
        <3>1. ASSUME NEW k \in inodes, k # root PROVE \E e \in Dentries : dentry'[e].inode = k
            <4>1. PICK e \in Dentries : dentry[e].inode = k
                BY <1>7, <3>1, Zenon DEF RefsOK
            <4>2. e # d
                BY <1>2, <4>1, VfsAssumption, ZenonT(40) DEF FilesTyped
            <4>3. QED
                BY <1>3, <4>1, <4>2, ZenonT(40)
        <3>2. QED
            BY <1>2, <1>3, <3>1, ZenonT(40)
    <2>10. \A e \in Dentries : dentry'[e].pinned => dentry'[e].hashed /\ dentry'[e].inode # None
        <3>1. dentry'[d].hashed /\ dentry'[d].inode # None
            BY <1>2, <1>3, <2>7, Zenon
        <3>2. QED
            BY <1>3, <1>7, <3>1, ZenonT(40) DEF RefsOK
    <2>11. \A q \in Procs : file'[q] # NoFile => dentry'[file'[q].dentry].inode = file'[q].inode
        <3>1. \A q \in Procs : file'[q] = IF q = p THEN f ELSE file[q]
            BY <1>2, ZenonT(40) DEF FilesTyped
        <3>2. \A q \in Procs : file[q] # NoFile => /\ file[q].dentry \in Dentries /\ file[q].dentry # d
                                                  /\ dentry[file[q].dentry].inode = file[q].inode
            BY <1>2, <1>7, VfsAssumption DEF FilesTyped, RefsOK
        <3>3. QED
            BY <1>3, <1>4, <3>1, <3>2
    <2>12. IF root' = None THEN inodes' = {} ELSE root' \in inodes'
        BY <1>2, <2>7, ZenonT(40)
    <2>13. unlinking' = NoFile
        BY <1>2, Zenon
    <2>14. QED
        BY <2>5, <2>8, <2>9, <2>10, <2>11, <2>12, <2>13, ZenonT(40) DEF RefsOK
<1>8. QED
    BY <1>5, <1>6, <1>7, Zenon

\* unlink(2): the reference of create goes and the one of the call stays.
LEMMA UnlinkStep ==
    ASSUME FilesTyped, TextsOK, NEW d \in Dentries, example_unlink(d)
    PROVE  FilesTyped' /\ TextsOK' /\ (RefsOK /\ ~underflow' => RefsOK')
<1> DEFINE c == [Cache EXCEPT !.dentry[d].count = @ + 1]
           s == Dput(c, d)
<1>1. /\ root # None /\ unlinking = NoFile /\ dentry[d].hashed /\ dentry[d].inode # None
      /\ dentry' = [s.dentry EXCEPT ![d].pinned = FALSE] /\ inodes' = s.inodes
      /\ unlinking' = [dentry |-> d, inode |-> dentry[d].inode, pos |-> 0]
      /\ underflow' = (underflow \/ ~dentry[d].pinned)
      /\ UNCHANGED <<root, file, data, op, len>>
    BY Zenon DEF example_unlink, calls
<1>2. DentriesTyped(dentry) /\ inodes \subseteq Inodes /\ dentry[d].count \in Int /\ dentry[d].inode \in Inodes
    BY <1>1, Zenon DEF FilesTyped, DentriesTyped
<1>3. c = [dentry |-> [dentry EXCEPT ![d].count = dentry[d].count + 1], inodes |-> inodes]
    BY DEF Cache
<1> HIDE DEF c, s
<1>4. /\ c.dentry = [dentry EXCEPT ![d].count = dentry[d].count + 1] /\ c.inodes = inodes
      /\ c = [dentry |-> c.dentry, inodes |-> c.inodes]
    BY <1>3, Zenon
<1>5. DentriesTyped(c.dentry)
    <2>1. dentry[d].count + 1 \in Int
        BY <1>2
    <2>2. DentriesTyped([dentry EXCEPT ![d].count = dentry[d].count + 1])
        BY <1>2, <2>1, DentryChanges, ZenonT(40)
    <2>3. QED
        BY <1>4, <2>2, ZenonT(40)
<1>6. /\ DentriesTyped(s.dentry) /\ s.inodes \subseteq c.inodes
      /\ c.dentry[d].count > 1 \/ (c.dentry[d].count = 1 /\ c.dentry[d].hashed) =>
            s = [dentry |-> [c.dentry EXCEPT ![d].count = c.dentry[d].count - 1],
                 inodes |-> c.inodes]
    BY <1>4, <1>5, DputEffect, ZenonT(40) DEF s
<1>7. DentriesTyped(dentry')
    BY <1>1, <1>6, DentryChanges, ZenonT(40)
<1>8. FilesTyped'
    BY <1>1, <1>2, <1>4, <1>6, <1>7, CacheTyped, ZenonT(40) DEF FilesTyped
<1>9. TextsOK'
    BY <1>1, TextsKept, ZenonT(40)
<1>10. ASSUME RefsOK, ~underflow' PROVE RefsOK'
    <2>1. dentry[d].pinned
        BY <1>1, <1>10, Zenon
    <2>2. Extra(d) = 1 /\ Cardinality(Openers(d)) \in Nat /\ dentry[d].count = Cardinality(Openers(d)) + Extra(d)
        BY <1>10, <2>1, OpenersFinite, ZenonT(40) DEF Extra, RefsOK
    <2>3. c.dentry[d].count = dentry[d].count + 1 /\ c.dentry[d].count > 1 /\ c.dentry[d].count - 1 = dentry[d].count
        BY <1>2, <1>4, <2>2 DEF DentriesTyped
    <2>4. s.dentry = [c.dentry EXCEPT ![d].count = dentry[d].count] /\ s.inodes = inodes
        <3>1. s = [dentry |-> [c.dentry EXCEPT ![d].count = c.dentry[d].count - 1],
                   inodes |-> c.inodes]
            BY <1>6, <2>3, Zenon
        <3>2. s.dentry = [c.dentry EXCEPT ![d].count = c.dentry[d].count - 1] /\ s.inodes = c.inodes
            BY <3>1, ZenonT(40)
        <3>3. QED
            BY <1>4, <2>3, <3>2, ZenonT(40)
    <2>5. /\ s.dentry[d].count = dentry[d].count /\ s.dentry[d].inode = dentry[d].inode
          /\ s.dentry[d].hashed = dentry[d].hashed
          /\ \A e \in Dentries : e # d => s.dentry[e] = dentry[e]
        BY <1>2, <1>4, <1>5, <2>4 DEF DentriesTyped
    <2>6. /\ dentry'[d].pinned = FALSE /\ dentry'[d].count = dentry[d].count
          /\ dentry'[d].inode = dentry[d].inode /\ dentry'[d].hashed = dentry[d].hashed
          /\ \A e \in Dentries : e # d => dentry'[e] = dentry[e]
        <3>1. ASSUME NEW b, dentry' = [s.dentry EXCEPT ![d].pinned = b]
              PROVE  /\ dentry'[d].pinned = b /\ dentry'[d].count = dentry[d].count
                     /\ dentry'[d].inode = dentry[d].inode /\ dentry'[d].hashed = dentry[d].hashed
                     /\ \A e \in Dentries : e # d => dentry'[e] = dentry[e]
            BY <1>6, <2>5, <3>1, ZenonT(40) DEF DentriesTyped
        <3>2. QED
            BY <1>1, <3>1, ZenonT(40)
    <2>7. ~dentry'[d].pinned /\ dentry'[d].hashed
        BY <1>1, <2>6, ZenonT(40)
    <2>8. Extra(d)' = 1 /\ \A e \in Dentries : e # d => Extra(e)' = Extra(e)
        BY <1>1, <2>6, VfsAssumption, ZenonT(40) DEF Extra, NoFile
    <2>9. \A e \in Dentries : Openers(e)' = Openers(e)
        BY <1>1, ZenonT(40) DEF Openers
    <2>10. ASSUME NEW e \in Dentries PROVE dentry'[e].count = Cardinality(Openers(e)') + Extra(e)'
        <3>1. dentry[e].count = Cardinality(Openers(e)) + Extra(e)
            BY <1>10, ZenonT(40) DEF RefsOK
        <3>2. dentry'[e].count = dentry[e].count /\ Openers(e)' = Openers(e) /\ Extra(e)' = Extra(e)
            BY <2>2, <2>6, <2>8, <2>9, ZenonT(40)
        <3>3. QED
            BY <3>1, <3>2, ZenonT(40)
    <2>11. \A e \in Dentries : dentry'[e].inode = dentry[e].inode
        BY <2>6, ZenonT(40)
    <2>12. inodes' = inodes /\ root' = root /\ file' = file
        BY <1>1, <2>4, ZenonT(40)
    <2>13. /\ \A e \in Dentries : dentry'[e].inode # None => /\ dentry'[e].inode \in inodes'
                                                            /\ dentry'[e].inode # root'
           /\ \A e, g \in Dentries :
                 dentry'[e].inode # None /\ dentry'[e].inode = dentry'[g].inode => e = g
           /\ \A k \in inodes' : k = root' \/ \E e \in Dentries : dentry'[e].inode = k
           /\ IF root' = None THEN inodes' = {} ELSE root' \in inodes'
        BY <1>10, <2>11, <2>12 DEF RefsOK
    <2>14. \A e \in Dentries : dentry'[e].pinned => dentry'[e].hashed /\ dentry'[e].inode # None
        BY <1>10, <2>6, <2>7, ZenonT(40) DEF RefsOK
    <2>15. \A q \in Procs : file'[q] # NoFile => dentry'[file'[q].dentry].inode = file'[q].inode
        BY <1>10, <2>11, <2>12 DEF RefsOK, FilesTyped
    <2>16. /\ dentry'[unlinking'.dentry].inode = unlinking'.inode
           /\ dentry'[unlinking'.dentry].hashed /\ ~dentry'[unlinking'.dentry].pinned
        <3>1. unlinking'.dentry = d /\ unlinking'.inode = dentry[d].inode
            BY <1>1, ZenonT(40)
        <3>2. QED
            BY <2>7, <2>11, <3>1, ZenonT(40)
    <2>17. QED
        BY <2>10, <2>13, <2>14, <2>15, <2>16, ZenonT(40) DEF RefsOK
<1>11. QED
    BY <1>8, <1>9, <1>10, ZenonT(40)

\* The end of an unlink: the dentry becomes negative, or leaves the hash.
LEMMA UnlinkDoneStep ==
    ASSUME FilesTyped, TextsOK, UnlinkDone
    PROVE  FilesTyped' /\ TextsOK' /\ (RefsOK => RefsOK')
<1>1. unlinking # NoFile /\ unlinking \in [dentry : Dentries, inode : Inodes, pos : {0}]
    BY Zenon DEF UnlinkDone, FilesTyped
<1>2. PICK d \in Dentries : d = unlinking.dentry
    BY <1>1, Zenon
<1> DEFINE c == D_delete(Cache, d)
           s == Dput(c, d)
<1>3. /\ dentry' = s.dentry /\ unlinking' = NoFile
      /\ UNCHANGED <<root, underflow, file, data, op, len>>
      /\ inodes' = {i \in s.inodes : i = unlinking.inode => \E e \in Dentries : s.dentry[e].inode = i}
    BY <1>2, Zenon DEF UnlinkDone, calls
<1>4. DentriesTyped(dentry) /\ inodes \subseteq Inodes /\ dentry[d].count \in Int
    BY Zenon DEF FilesTyped, DentriesTyped
<1>5. Cache.dentry = dentry /\ Cache.inodes = inodes
    BY Zenon DEF Cache
<1> HIDE DEF c, s
<1>6. /\ dentry[d].count = 1 =>
            c = [dentry |-> [dentry EXCEPT ![d].inode = None],
                 inodes |-> inodes \ {dentry[d].inode}]
      /\ dentry[d].count # 1 => c = [dentry |-> [dentry EXCEPT ![d].hashed = FALSE],
                                     inodes |-> inodes]
      /\ DentriesTyped(c.dentry) /\ c.inodes \subseteq inodes
      /\ c = [dentry |-> c.dentry, inodes |-> c.inodes]
    <2>1. DentriesTyped(Cache.dentry) /\ Cache = [dentry |-> Cache.dentry, inodes |-> Cache.inodes]
        BY <1>4, <1>5, ZenonT(40) DEF Cache
    <2>2. /\ Cache.dentry[d].count = 1 =>
                c = [dentry |-> [Cache.dentry EXCEPT ![d].inode = None],
                     inodes |-> Cache.inodes \ {Cache.dentry[d].inode}]
          /\ Cache.dentry[d].count # 1 =>
                c = [dentry |-> [Cache.dentry EXCEPT ![d].hashed = FALSE], inodes |-> Cache.inodes]
          /\ DentriesTyped(c.dentry) /\ c.inodes \subseteq Cache.inodes
          /\ c = [dentry |-> c.dentry, inodes |-> c.inodes]
        BY <2>1, DdeleteEffect, ZenonT(40) DEF c
    <2>3. QED
        BY <1>5, <2>2, ZenonT(40)
<1>7. /\ DentriesTyped(s.dentry) /\ s.inodes \subseteq c.inodes
      /\ c.dentry[d].count > 1 \/ (c.dentry[d].count = 1 /\ c.dentry[d].hashed) =>
            s = [dentry |-> [c.dentry EXCEPT ![d].count = c.dentry[d].count - 1],
                 inodes |-> c.inodes]
    BY <1>6, DputEffect, ZenonT(40) DEF s
<1>8. FilesTyped'
    <2>1. inodes' \subseteq Inodes /\ DentriesTyped(dentry')
        BY <1>3, <1>4, <1>6, <1>7, ZenonT(40)
    <2>2. QED
        BY <1>3, <2>1, CacheTyped, ZenonT(40)
<1>9. TextsOK'
    BY <1>3, TextsKept, ZenonT(40)
<1>10. ASSUME RefsOK PROVE RefsOK'
    <2>1. /\ dentry[d].inode = unlinking.inode /\ dentry[d].hashed /\ ~dentry[d].pinned
          /\ dentry[d].inode \in Inodes /\ dentry[d].inode # None
        BY <1>1, <1>2, <1>10, VfsAssumption DEF RefsOK
    <2>2. Extra(d) = 1 /\ Cardinality(Openers(d)) \in Nat /\ dentry[d].count = Cardinality(Openers(d)) + 1
        BY <1>2, <1>10, OpenersFinite, ZenonT(40) DEF Extra, RefsOK
    <2>3. \A e \in Dentries : Openers(e)' = Openers(e)
        BY <1>3, ZenonT(40) DEF Openers
    <2>4. CASE dentry[d].count = 1
        <3>1. c = [dentry |-> [dentry EXCEPT ![d].inode = None],
                   inodes |-> inodes \ {dentry[d].inode}]
            BY <1>6, <2>4, ZenonT(40)
        <3>2. c.dentry = [dentry EXCEPT ![d].inode = None] /\ c.inodes = inodes \ {dentry[d].inode}
            BY <3>1, ZenonT(40)
        <3>3. /\ c.dentry[d].count = 1 /\ c.dentry[d].inode = None
              /\ c.dentry[d].hashed = dentry[d].hashed /\ c.dentry[d].pinned = dentry[d].pinned
              /\ \A e \in Dentries : e # d => c.dentry[e] = dentry[e]
            BY <1>4, <2>4, <3>2, ZenonT(40) DEF DentriesTyped
        <3>4. s = [dentry |-> [c.dentry EXCEPT ![d].count = c.dentry[d].count - 1],
                   inodes |-> c.inodes]
            BY <1>7, <2>1, <3>3, Zenon
        <3>5. s.dentry = [c.dentry EXCEPT ![d].count = c.dentry[d].count - 1] /\ s.inodes = c.inodes
            BY <3>4, ZenonT(40)
        <3>6. /\ dentry'[d].count = 0 /\ dentry'[d].inode = None
              /\ dentry'[d].hashed = dentry[d].hashed /\ dentry'[d].pinned = dentry[d].pinned
              /\ \A e \in Dentries : e # d => dentry'[e] = dentry[e]
            BY <1>3, <1>6, <3>3, <3>5 DEF DentriesTyped
        <3>7. inodes' = inodes \ {dentry[d].inode}
            BY <1>3, <2>1, <3>2, <3>5, ZenonT(40)
        <3>8. Openers(d) = {} /\ Cardinality(Openers(d)) = 0
            <4>1. Cardinality(Openers(d)) = 0
                BY <2>2, <2>4
            <4>2. QED
                BY <4>1, OpenersFinite, ZenonT(40)
        <3>9. Extra(d)' = 0 /\ \A e \in Dentries : e # d => Extra(e)' = Extra(e)
            <4>1. unlinking'.dentry = None /\ None \notin Dentries /\ unlinking.dentry = d
                BY <1>2, <1>3, VfsAssumption, Zenon DEF NoFile
            <4>2. ~dentry'[d].pinned
                BY <2>1, <3>6, ZenonT(40)
            <4>3. QED
                BY <3>6, <4>1, <4>2, ZenonT(40) DEF Extra
        <3>10. ASSUME NEW e \in Dentries
               PROVE  dentry'[e].count = Cardinality(Openers(e)') + Extra(e)'
            <4>1. dentry'[d].count = Cardinality(Openers(d)') + Extra(d)'
                BY <2>3, <3>6, <3>8, <3>9
            <4>2. CASE e # d
                <5>1. dentry[e].count = Cardinality(Openers(e)) + Extra(e)
                    BY <1>10, ZenonT(40) DEF RefsOK
                <5>2. dentry'[e] = dentry[e] /\ Openers(e)' = Openers(e) /\ Extra(e)' = Extra(e)
                    BY <2>3, <3>6, <3>9, <4>2, ZenonT(40)
                <5>3. QED
                    BY <5>1, <5>2, ZenonT(40)
            <4>3. QED
                BY <4>1, <4>2, ZenonT(40)
        <3>11. \A e \in Dentries : dentry'[e].inode # None => e # d /\ dentry'[e].inode = dentry[e].inode
            BY <3>6, ZenonT(40)
        <3>12. /\ \A e \in Dentries : dentry'[e].inode # None => /\ dentry'[e].inode \in inodes'
                                                                /\ dentry'[e].inode # root'
               /\ \A e, g \in Dentries :
                     dentry'[e].inode # None /\ dentry'[e].inode = dentry'[g].inode => e = g
            BY <1>3, <1>10, <3>7, <3>11 DEF RefsOK
        <3>13. \A k \in inodes' : k = root' \/ \E e \in Dentries : dentry'[e].inode = k
            BY <1>3, <1>10, <3>6, <3>7 DEF RefsOK
        <3>14. \A e \in Dentries : dentry'[e].pinned => dentry'[e].hashed /\ dentry'[e].inode # None
            BY <1>10, <2>1, <3>6, ZenonT(40) DEF RefsOK
        <3>15. \A q \in Procs : file'[q] # NoFile => dentry'[file'[q].dentry].inode = file'[q].inode
            <4>1. \A q \in Procs : file[q].dentry # d
                BY <3>8, ZenonT(40) DEF Openers
            <4>2. QED
                BY <1>3, <1>10, <3>6, <4>1 DEF RefsOK, FilesTyped
        <3>16. IF root' = None THEN inodes' = {} ELSE root' \in inodes'
            BY <1>3, <1>10, <2>1, <3>7, ZenonT(40) DEF RefsOK
        <3>17. unlinking' = NoFile
            BY <1>3, Zenon
        <3>18. QED
            BY <3>10, <3>12, <3>13, <3>14, <3>15, <3>16, <3>17, ZenonT(40) DEF RefsOK
    <2>5. CASE dentry[d].count # 1
        <3>1. c = [dentry |-> [dentry EXCEPT ![d].hashed = FALSE], inodes |-> inodes]
            BY <1>6, <2>5, ZenonT(40)
        <3>2. /\ c.dentry[d].count = dentry[d].count /\ c.dentry[d].inode = dentry[d].inode
              /\ c.dentry[d].pinned = dentry[d].pinned /\ c.inodes = inodes
              /\ \A e \in Dentries : e # d => c.dentry[e] = dentry[e]
            <4>1. ASSUME NEW b, c = [dentry |-> [dentry EXCEPT ![d].hashed = b], inodes |-> inodes]
                  PROVE  /\ c.dentry[d].count = dentry[d].count /\ c.dentry[d].inode = dentry[d].inode
                         /\ c.dentry[d].pinned = dentry[d].pinned /\ c.inodes = inodes
                         /\ \A e \in Dentries : e # d => c.dentry[e] = dentry[e]
                BY <1>4, <4>1, ZenonT(40) DEF DentriesTyped
            <4>2. QED
                BY <3>1, <4>1, ZenonT(40)
        <3>3. s = [dentry |-> [c.dentry EXCEPT ![d].count = c.dentry[d].count - 1],
                   inodes |-> c.inodes]
            <4>1. c.dentry[d].count > 1
                BY <1>4, <2>2, <2>5, <3>2
            <4>2. QED
                BY <1>7, <4>1, ZenonT(40)
        <3>4. s.dentry = [c.dentry EXCEPT ![d].count = c.dentry[d].count - 1] /\ s.inodes = c.inodes
            BY <3>3, Zenon
        <3>5. /\ dentry'[d].count = dentry[d].count - 1 /\ dentry'[d].inode = dentry[d].inode
              /\ dentry'[d].pinned = dentry[d].pinned
              /\ \A e \in Dentries : e # d => dentry'[e] = dentry[e]
            BY <1>3, <1>6, <3>2, <3>4 DEF DentriesTyped
        <3>6. inodes' = inodes
            BY <1>3, <2>1, <3>2, <3>4, <3>5
        <3>7. Extra(d)' = 0 /\ \A e \in Dentries : e # d => Extra(e)' = Extra(e)
            <4>1. unlinking'.dentry = None /\ None \notin Dentries /\ unlinking.dentry = d
                BY <1>2, <1>3, VfsAssumption, Zenon DEF NoFile
            <4>2. ~dentry'[d].pinned
                BY <2>1, <3>5, ZenonT(40)
            <4>3. QED
                BY <3>5, <4>1, <4>2, ZenonT(40) DEF Extra
        <3>8. ASSUME NEW e \in Dentries
              PROVE  dentry'[e].count = Cardinality(Openers(e)') + Extra(e)'
            <4>1. dentry'[d].count = Cardinality(Openers(d)') + Extra(d)'
                BY <2>2, <2>3, <3>5, <3>7
            <4>2. CASE e # d
                <5>1. dentry[e].count = Cardinality(Openers(e)) + Extra(e)
                    BY <1>10, Zenon DEF RefsOK
                <5>2. dentry'[e] = dentry[e] /\ Openers(e)' = Openers(e) /\ Extra(e)' = Extra(e)
                    BY <2>3, <3>5, <3>7, <4>2, ZenonT(40)
                <5>3. QED
                    BY <5>1, <5>2, Zenon
            <4>3. QED
                BY <4>1, <4>2, Zenon
        <3>9. \A e \in Dentries : dentry'[e].inode = dentry[e].inode
            BY <3>5, ZenonT(40)
        <3>10. /\ \A e \in Dentries : dentry'[e].inode # None => /\ dentry'[e].inode \in inodes'
                                                                /\ dentry'[e].inode # root'
               /\ \A e, g \in Dentries :
                     dentry'[e].inode # None /\ dentry'[e].inode = dentry'[g].inode => e = g
               /\ \A k \in inodes' : k = root' \/ \E e \in Dentries : dentry'[e].inode = k
               /\ IF root' = None THEN inodes' = {} ELSE root' \in inodes'
            BY <1>3, <1>10, <3>6, <3>9 DEF RefsOK
        <3>11. \A e \in Dentries : dentry'[e].pinned => dentry'[e].hashed /\ dentry'[e].inode # None
            BY <1>10, <2>1, <3>5, ZenonT(40) DEF RefsOK
        <3>12. \A q \in Procs : file'[q] # NoFile => dentry'[file'[q].dentry].inode = file'[q].inode
            BY <1>3, <1>10, <3>9 DEF RefsOK, FilesTyped
        <3>13. unlinking' = NoFile
            BY <1>3, Zenon
        <3>14. QED
            BY <3>8, <3>10, <3>11, <3>12, <3>13, ZenonT(40) DEF RefsOK
    <2>6. QED
        BY <2>4, <2>5, ZenonT(40)
<1>11. QED
    BY <1>8, <1>9, <1>10, ZenonT(40)

\* After an unmount that drops only references of create, nothing is left.
LEMMA UnmountStep ==
    ASSUME FilesTyped, TextsOK, Unmount
    PROVE  FilesTyped' /\ TextsOK' /\ (RefsOK /\ ~underflow' => RefsOK')
<1> DEFINE listed == {d \in Used : dentry[d].hashed /\ dentry[d].inode # None}
           left   == {d \in Used : dentry[d].count # (IF d \in listed THEN 1 ELSE 0)}
           Kept(d, b) == [dentry[d] EXCEPT !.hashed = b,
                          !.count = IF d \in listed THEN @ - 1 ELSE @]
<1>1. /\ root # None /\ unlinking = NoFile /\ \A p \in Procs : file[p] = NoFile
      /\ dentry' = [d \in Dentries |-> IF d \notin left THEN Free ELSE Kept(d, FALSE)]
      /\ inodes' = inodes \ ({dentry[d].inode : d \in Used \ left} \cup (IF left = {} THEN {root} ELSE {}))
      /\ root' = None
      /\ underflow' = (underflow \/ \E d \in listed : ~dentry[d].pinned)
      /\ UNCHANGED <<unlinking, file, data, op, len>>
    BY Zenon DEF Unmount, calls
<1>2. listed \subseteq Used /\ left \subseteq Used /\ Used \subseteq Dentries
    BY Zenon DEF Used
<1>3. DentriesTyped(dentry')
    <2>1. ASSUME NEW d \in Dentries, NEW b
          PROVE  /\ DOMAIN Kept(d, b) = {"name", "inode", "count", "hashed", "pinned"}
                 /\ Kept(d, b).inode \in Inodes \cup {None} /\ Kept(d, b).count \in Int
        <3>1. /\ DOMAIN dentry[d] = {"name", "inode", "count", "hashed", "pinned"}
              /\ dentry[d].inode \in Inodes \cup {None} /\ dentry[d].count \in Int
            BY ZenonT(40) DEF FilesTyped, DentriesTyped
        <3> HIDE DEF listed
        <3>2. PICK n \in Int : n = IF d \in listed THEN dentry[d].count - 1 ELSE dentry[d].count
            BY <3>1
        <3>3. Kept(d, b) = [dentry[d] EXCEPT !.hashed = b, !.count = n]
            BY <3>2, ZenonT(40)
        <3>4. QED
            BY <3>1, <3>3, ZenonT(40)
    <2>2. /\ DOMAIN Free = {"name", "inode", "count", "hashed", "pinned"}
          /\ Free.inode \in Inodes \cup {None} /\ Free.count \in Int
        BY DEF Free
    <2>3. \A d \in Dentries : dentry'[d] = Free \/ dentry'[d] = Kept(d, FALSE)
        <3> HIDE DEF Kept, left
        <3>1. QED
            BY <1>1, Zenon
    <2>4. DOMAIN dentry' = Dentries
        BY <1>1, Zenon
    <2> HIDE DEF Kept
    <2>5. \A d \in Dentries : /\ DOMAIN dentry'[d] = {"name", "inode", "count", "hashed", "pinned"}
                              /\ dentry'[d].inode \in Inodes \cup {None} /\ dentry'[d].count \in Int
        BY <2>1, <2>2, <2>3, ZenonT(40)
    <2>6. QED
        BY <2>4, <2>5, ZenonT(40) DEF DentriesTyped
<1>4. FilesTyped'
    <2>1. inodes' \subseteq Inodes
        <3>1. inodes' \subseteq inodes
            BY <1>1, Zenon
        <3>2. QED
            BY <3>1, ZenonT(40) DEF FilesTyped
    <2>2. QED
        BY <1>1, <1>3, <2>1, CacheTyped, ZenonT(40)
<1>5. TextsOK'
    BY <1>1, TextsKept, ZenonT(40)
<1>6. ASSUME RefsOK, ~underflow' PROVE RefsOK'
    <2>0. file' = file /\ unlinking' = unlinking /\ unlinking = NoFile /\ \A p \in Procs : file[p] = NoFile
        BY <1>1, ZenonT(40)
    <2>1. \A d \in Dentries : Openers(d) = {} /\ Openers(d)' = {}
        <3>1. \A p \in Procs : file[p].dentry = None /\ file'[p].dentry = None
            BY <2>0 DEF NoFile
        <3>2. QED
            BY <3>1, VfsAssumption, ZenonT(40) DEF Openers
    <2>2. Cardinality({}) = 0
        BY FS_EmptySet, ZenonT(40)
    <2>3. unlinking.dentry = None /\ unlinking'.dentry = None
        BY <2>0, ZenonT(40) DEF NoFile
    <2>4. \A d \in listed : dentry[d].pinned
        BY <1>1, <1>6, ZenonT(40)
    <2>5. \A d \in Dentries : dentry[d].pinned => d \in listed
        <3>1. ASSUME NEW d \in Dentries, dentry[d].pinned PROVE d \in listed
            <4>1. dentry[d].hashed /\ dentry[d].inode # None
                BY <1>6, <3>1, ZenonT(40) DEF RefsOK
            <4>2. dentry[d] # Free
                BY <3>1, FreeFields, ZenonT(40)
            <4>3. QED
                BY <4>1, <4>2, ZenonT(40) DEF Used
        <3>2. QED
            BY <3>1, ZenonT(40)
    <2>6. left = {}
        <3>1. ASSUME NEW d \in Used PROVE dentry[d].count = IF d \in listed THEN 1 ELSE 0
            <4>1. d \in Dentries /\ (d \in listed <=> dentry[d].pinned)
                BY <1>2, <2>4, <2>5, ZenonT(40)
            <4>2. dentry[d].count = Cardinality(Openers(d)) + Extra(d) /\ Openers(d) = {}
                BY <1>6, <2>1, <4>1, ZenonT(40) DEF RefsOK
            <4>3. Extra(d) = IF d \in listed THEN 1 ELSE 0
                BY <2>3, <4>1, VfsAssumption, ZenonT(40) DEF Extra
            <4> HIDE DEF listed
            <4>4. QED
                BY <2>2, <4>2, <4>3
        <3>2. QED
            BY <3>1, ZenonT(40)
    <2>7. \A d \in Dentries : dentry'[d] = Free
        <3> HIDE DEF left, Kept
        <3>1. QED
            BY <1>1, <2>6, ZenonT(40)
    <2>8. inodes' = {}
        <3>1. \A d \in Dentries : dentry[d].inode # None => d \in Used
            BY FreeFields, ZenonT(40) DEF Used
        <3>2. inodes' = inodes \ ({dentry[d].inode : d \in Used} \cup {root})
            <4>1. Used \ {} = Used
                BY Zenon
            <4> HIDE DEF left
            <4>2. QED
                BY <1>1, <2>6, <4>1, ZenonT(40)
        <3>3. ASSUME NEW k \in inodes, k # root PROVE \E d \in Used : dentry[d].inode = k
            <4>1. PICK d \in Dentries : dentry[d].inode = k
                BY <1>6, <3>3, ZenonT(40) DEF RefsOK
            <4>2. k # None
                BY VfsAssumption, ZenonT(40) DEF FilesTyped
            <4>3. QED
                BY <3>1, <4>1, <4>2, ZenonT(40)
        <3>4. QED
            BY <3>2, <3>3, ZenonT(40)
    <2>9. \A d \in Dentries : /\ dentry'[d].count = 0 /\ dentry'[d].inode = None
                              /\ ~dentry'[d].pinned
        BY <2>7, FreeFields, Zenon
    <2>10. \A d \in Dentries : Extra(d)' = 0
        BY <2>3, <2>9, VfsAssumption, ZenonT(40) DEF Extra
    <2>11. \A d \in Dentries : dentry'[d].count = Cardinality(Openers(d)') + Extra(d)'
        BY <2>1, <2>2, <2>9, <2>10
    <2>12. file' = file /\ unlinking' = NoFile /\ root' = None
        BY <1>1, ZenonT(40)
    <2> HIDE DEF left, listed, Kept
    <2>13. QED
        BY <2>0, <2>8, <2>9, <2>11, <2>12, ZenonT(40) DEF RefsOK
<1>7. QED
    BY <1>4, <1>5, <1>6, ZenonT(40)

\* The inductive invariant: what ReferencesAddUp and TextTerminated rest on.  The
\* references are spoken of only as long as no dput was one too many.
Inv == FilesTyped /\ TextsOK /\ (~underflow => RefsOK)

\* Every step of the file system keeps it.
LEMMA InvNext == Inv /\ [Next]_vars => Inv'
<1> SUFFICES ASSUME Inv, [Next]_vars PROVE Inv'
    BY Zenon
<1> USE DEF Inv
<1>1. CASE Register \/ Unregister \/ UNCHANGED vars
    <2>1. UNCHANGED <<cache, file, data, op, len>>
        BY <1>1, Zenon DEF Register, Unregister, vars, calls
    <2>2. FilesTyped' /\ TextsOK'
        BY <2>1, Zenon DEF FilesTyped, TextsOK, cache
    <2>3. ASSUME ~underflow' PROVE RefsOK'
        BY <2>1, <2>3, QuietRefs, ZenonT(40) DEF cache
    <2>4. QED
        BY <2>2, <2>3, ZenonT(40)
<1>2. CASE Unmount
    <2>1. ~underflow' => ~underflow
        BY <1>2, Zenon DEF Unmount
    <2>2. QED
        BY <1>2, <2>1, UnmountStep, ZenonT(40)
<1>3. CASE UnlinkDone
    BY <1>3, UnlinkDoneStep, ZenonT(40) DEF UnlinkDone
<1>4. ASSUME NEW i \in Inodes, example_fill_super(i) PROVE Inv'
    BY <1>4, MountStep, ZenonT(40) DEF example_fill_super
<1>5. ASSUME NEW d \in Dentries, Reclaim(d) PROVE Inv'
    BY <1>5, ReclaimStep, ZenonT(40) DEF Reclaim
<1>6. ASSUME NEW d \in Dentries, example_unlink(d) PROVE Inv'
    <2>1. ~underflow' => ~underflow
        BY <1>6, Zenon DEF example_unlink
    <2>2. QED
        BY <1>6, <2>1, UnlinkStep, ZenonT(40)
<1>7. ASSUME NEW n \in Names, NEW d \in Dentries, example_lookup(n, d) PROVE Inv'
    <2>1. underflow' = underflow
        BY <1>7, Zenon DEF example_lookup
    <2>2. QED
        BY <1>7, <2>1, LookupStep, ZenonT(40)
<1>8. ASSUME NEW p \in Procs, NEW d \in Dentries, example_open(p, d) PROVE Inv'
    BY <1>8, OpenStep, ZenonT(40) DEF example_open
<1>9. ASSUME NEW p \in Procs, NEW d \in Dentries, NEW i \in Inodes, example_create(p, d, i)
      PROVE  Inv'
    <2>1. underflow' = underflow
        BY <1>9, Zenon DEF example_create
    <2>2. QED
        BY <1>9, <2>1, CreateStep, ZenonT(40)
<1>10. ASSUME NEW p \in Procs, Close(p) PROVE Inv'
    BY <1>10, CloseStep, ZenonT(40) DEF Close
<1>11. ASSUME NEW p \in Procs, Transfer(p) PROVE Inv'
    <2>1. /\ FilesTyped' /\ TextsOK' /\ UNCHANGED <<root, dentry, inodes, unlinking, underflow>>
          /\ \A q \in Procs : /\ file'[q].dentry = file[q].dentry /\ file'[q].inode = file[q].inode
                              /\ file'[q] = NoFile <=> file[q] = NoFile
        BY <1>11, TransferTyped, ZenonT(40) DEF cache
    <2>2. ASSUME ~underflow' PROVE RefsOK'
        BY <2>1, <2>2, QuietRefs, ZenonT(40)
    <2>3. QED
        BY <2>1, <2>2, ZenonT(40)
<1> HIDE DEF Inv
<1>12. QED
    BY <1>1, <1>2, <1>3, <1>4, <1>5, <1>6, <1>7, <1>8, <1>9, <1>10, <1>11, ZenonT(40)
       DEF Next, Transfer

\* Init satisfies the invariant, and it implies the two properties.
LEMMA InvInit == Init => Inv
BY TypedInit, RefsInit, Zenon DEF Inv

\* As long as nobody unlinks or unmounts a file that lookup made up, an open file
\* keeps its inode, a created file stays until it is unlinked, and the unmount
\* leaves nothing (simple_vfs.c:149, 171, 185, 299).
THEOREM ReferencesAlwaysAddUp == Spec => []ReferencesAddUp
<1>1. Inv => ReferencesAddUp
    <2> SUFFICES ASSUME Inv, ~underflow
                 PROVE  /\ \A p \in Procs : file[p] # NoFile => /\ file[p].inode \in inodes
                                                                /\ dentry[file[p].dentry].inode = file[p].inode
                        /\ \A d \in Used : dentry[d].count = Cardinality(Openers(d)) + Extra(d)
                        /\ root = None => inodes = {}
        BY Zenon DEF ReferencesAddUp, Extra
    <2>1. FilesTyped /\ RefsOK
        BY ZenonT(40) DEF Inv
    <2>2. \A p \in Procs : file[p] # NoFile => /\ file[p].inode \in inodes
                                               /\ dentry[file[p].dentry].inode = file[p].inode
        BY <2>1, VfsAssumption DEF FilesTyped, RefsOK
    <2>3. \A d \in Used : dentry[d].count = Cardinality(Openers(d)) + Extra(d)
        BY <2>1, ZenonT(40) DEF RefsOK, Used
    <2>4. QED
        BY <2>1, <2>2, <2>3, ZenonT(40) DEF RefsOK
<1>2. QED
    BY <1>1, InvInit, InvNext, PTL DEF Spec

\* Whatever writes overlap or fault, the array of a file ends in a NUL and the
\* length a reader takes stays inside (simple_vfs.c:201, 225-231).
THEOREM TextsAlwaysEnd == Spec => []TextTerminated
<1>1. Inv => TextTerminated
    BY VfsAssumption DEF Inv, TextTerminated, TextsOK, FilesTyped
<1>2. QED
    BY <1>1, InvInit, InvNext, PTL DEF Spec
=============================================================================
