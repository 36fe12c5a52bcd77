------------------------------ MODULE BlockDemo -----------------------------
(***************************************************************************)
(* examples/class_7/01_block_device/block_demo.c                           *)
(*                                                                         *)
(* A disk in memory.  The block layer hands the driver requests made of    *)
(* bios made of segments; the driver copies segment by segment, without a  *)
(* lock, and ends every request with BLK_STS_OK.  A segment has a page,    *)
(* known by how far into the request it begins, and a number of sectors;   *)
(* what a sector holds is known by who wrote it and where in the request   *)
(* it was.                                                                 *)
(***************************************************************************)
EXTENDS Naturals, Sequences

CONSTANTS Procs,         \* who submits requests
          Sectors,       \* SIMPLE_BLOCK_SIZE / KERNEL_SECTOR_SIZE
          Values,        \* what they write
          Shapes         \* how requests are cut: sequences of bios, each a sequence of
                         \* segments [at |-> where its page begins, len |-> its sectors]

\* what init obtains, in its order: kzalloc, vmalloc, register_blkdev,
\* blk_mq_alloc_tag_set, blk_mq_alloc_disk, add_disk
Objects == <<"dev", "data", "major", "tag_set", "disk", "added">>

VARIABLES phase, made, opened,   \* of DeviceModule
          data,                  \* the sectors
          req,                   \* the request of each process, or NoRequest
          buffer,                \* its pages
          alone                  \* history: requests no other one disturbed

\* A disk is not mapped.
DM == INSTANCE DeviceModule WITH mapped <- {}

device == <<phase, made, opened>>
vars == <<device, data, req, buffer, alone>>

\* bio and segment are the iterators of __rq_for_each_bio and bio_for_each_segment.
NoRequest == [write |-> FALSE, first |-> 0, size |-> 0, bios |-> <<>>,
              bio |-> 1, segment |-> 1, sector |-> 0]

\* What a sector can hold: the 0xAA of init, nothing yet (of a page), or the
\* k-th sector of a written request.
Pattern  == <<"0xAA", 0>>
Contents == {Pattern, <<"none", 0>>} \cup (Values \X (1 .. Sectors))

Segments == [at : Nat, len : Nat]

Size(shape) ==
    LET bio == shape[Len(shape)] IN bio[Len(bio)].at + bio[Len(bio)].len

\* Segments and bios follow each other without a gap, from the beginning of the
\* request to its end.
Tiled(shape) ==
    /\ shape \in Seq(Seq(Segments))
    /\ shape # <<>> /\ \A b \in 1 .. Len(shape) : shape[b] # <<>>
    /\ shape[1][1].at = 0
    /\ \A b \in 1 .. Len(shape) :
        /\ \A s \in 1 .. Len(shape[b]) : shape[b][s].at + shape[b][s].len <= Size(shape)
        /\ \A s \in 1 .. Len(shape[b]) - 1 :
               shape[b][s + 1].at = shape[b][s].at + shape[b][s].len
        /\ b < Len(shape) =>
               shape[b + 1][1].at = shape[b][Len(shape[b])].at + shape[b][Len(shape[b])].len

TypeOK ==
    /\ DM!TypeOK
    /\ data \in [0 .. Sectors - 1 -> Contents]
    /\ \A p \in Procs : /\ req[p].write \in BOOLEAN
                        /\ req[p].first \in 0 .. Sectors /\ req[p].sector \in 0 .. Sectors
                        /\ DOMAIN buffer[p] = 1 .. req[p].size
                        /\ \A k \in 1 .. req[p].size : buffer[p][k] \in Contents
    /\ alone \subseteq Procs

Init ==
    /\ DM!Init
    /\ data = [s \in 0 .. Sectors - 1 |-> Pattern]
    /\ req = [p \in Procs |-> NoRequest]
    /\ buffer = [p \in Procs |-> <<>>]
    /\ alone = {}

-----------------------------------------------------------------------------
\* simple_block_init fills the storage before anyone can see the disk.
simple_block_init ==
    /\ DM!InitBegin
    /\ data' = [s \in 0 .. Sectors - 1 |-> Pattern]
    /\ UNCHANGED <<req, buffer, alone>>

Module ==
    \/ simple_block_init
    \/ DM!Lifecycle /\ UNCHANGED <<data, req, buffer, alone>>

example_block_open(p) == DM!Open(p) /\ UNCHANGED <<data, req, buffer, alone>>

\* Closing waits for what was submitted.
example_block_release(p) ==
    /\ req[p] = NoRequest
    /\ DM!Close(p)
    /\ UNCHANGED <<data, req, buffer, alone>>

-----------------------------------------------------------------------------
Span(r) == r.first .. r.first + r.size - 1

Conflict(r, s) == (r.write \/ s.write) /\ Span(r) \cap Span(s) # {}

\* The block layer accepts a request that fits the capacity and calls
\* simple_queue_rq, which starts it.
Submit(p, write, first, shape, v) ==
    LET r == [write |-> write, first |-> first, size |-> Size(shape), bios |-> shape,
              bio |-> 1, segment |-> 1, sector |-> first]
        rivals == {q \in Procs \ {p} : Conflict(r, req[q])}
    IN
    /\ p \in opened /\ req[p] = NoRequest
    /\ first + r.size <= Sectors
    /\ req' = [req EXCEPT ![p] = r]
    /\ buffer' = [buffer EXCEPT ![p] =
                    [k \in 1 .. r.size |-> IF write THEN <<v, k>> ELSE <<"none", 0>>]]
    /\ alone' = (alone \ (rivals \cup {p})) \cup (IF rivals = {} THEN {p} ELSE {})
    /\ UNCHANGED <<device, data>>

\* Fault: the last sector counts as beyond the end.
TransferShort(r, n) == r.sector + n < Sectors

\* simple_transfer copies nothing if the segment goes past the end of the disk
Fits(r, n) == r.sector + n <= Sectors

Here(r)  == r.bios[r.bio][r.segment]
Ended(r) == r.bio > Len(r.bios)

\* bi_sector of the next bio
NextSector(r) == IF r.bio < Len(r.bios) THEN r.first + r.bios[r.bio + 1][1].at
                 ELSE r.sector + Here(r).len

\* Fault: the bio's sector is not moved on between its segments.
SectorStays(r) ==
    IF r.segment < Len(r.bios[r.bio])
    THEN [r EXCEPT !.segment = @ + 1]
    ELSE [r EXCEPT !.bio = @ + 1, !.segment = 1, !.sector = NextSector(r)]

\* On to the next segment of the bio, or to the next bio and its own sector
Advanced(r) ==
    IF r.segment < Len(r.bios[r.bio])
    THEN [r EXCEPT !.segment = @ + 1, !.sector = @ + Here(r).len]
    ELSE [r EXCEPT !.bio = @ + 1, !.segment = 1, !.sector = NextSector(r)]

\* One round of simple_handle_bio: page_address, simple_transfer.
simple_handle_bio(p) ==
    LET r == req[p]
        n == Here(r).len
        done == Here(r).at
    IN
    /\ ~Ended(r)
    /\ IF ~Fits(r, n) THEN UNCHANGED <<data, buffer>>
       ELSE IF r.write
       THEN /\ data' = [s \in DOMAIN data |->
                           IF s \in r.sector .. r.sector + n - 1
                           THEN buffer[p][done + 1 + s - r.sector] ELSE data[s]]
            /\ UNCHANGED buffer
       ELSE /\ buffer' = [buffer EXCEPT ![p] =
                            [k \in DOMAIN @ |-> IF k \in done + 1 .. done + n
                                                THEN data[r.sector + k - done - 1] ELSE @[k]]]
            /\ UNCHANGED data
    /\ req' = [req EXCEPT ![p] = Advanced(r)]
    /\ UNCHANGED <<device, alone>>

\* blk_mq_end_request(req, BLK_STS_OK)
EndRequest(p) ==
    /\ req[p] # NoRequest /\ Ended(req[p])
    /\ req' = [req EXCEPT ![p] = NoRequest]
    /\ buffer' = [buffer EXCEPT ![p] = <<>>]
    /\ alone' = alone \ {p}
    /\ UNCHANGED <<device, data>>

-----------------------------------------------------------------------------
simple_queue_rq(p) == simple_handle_bio(p) \/ EndRequest(p)

Next ==
    \/ Module
    \/ \E p \in Procs :
        \/ example_block_open(p) \/ example_block_release(p) \/ simple_queue_rq(p)
        \/ \E first \in 0 .. Sectors - 1, shape \in Shapes :
            \/ \E v \in Values : Submit(p, TRUE, first, shape, v)
            \/ Submit(p, FALSE, first, shape, CHOOSE v \in Values : TRUE)

Spec == Init /\ [][Next]_vars

Fairness == \A p \in Procs : WF_vars(simple_queue_rq(p))

-----------------------------------------------------------------------------
\* A request that ends, and always with BLK_STS_OK, has moved every one of its
\* sectors between the right page and the right place, however its bios and
\* segments were cut, unless a request to the same sectors ran beside it
\* (block_demo.c:34-46, 66-78, 94-100).
OkMeansMoved ==
    \A p \in alone : Ended(req[p]) =>
        \A k \in 1 .. req[p].size : buffer[p][k] = data[req[p].first + k - 1]

\* Every submitted request is ended (block_demo.c:94-101).
RequestsEnd == \A p \in Procs : req[p] # NoRequest ~> req[p] = NoRequest
=============================================================================
