------------------------ MODULE BufferDevices_proofs ------------------------
(***************************************************************************)
(* The disk and the shared memory, for any processes, sectors, messages    *)
(* and any way of cutting requests: requests move all they are made of,    *)
(* answers are numbered and reach the client alone with the device, and    *)
(* both modules come and go in order.                                      *)
(***************************************************************************)
EXTENDS BufferDevices, Integers, TLAPS

\* The time, in seconds, that the provers have for a step
USE SMTT(40), ZenonT(40)

-----------------------------------------------------------------------------
\* How the block layer cuts requests.
BdCuts == Sectors \in Nat /\ \A shape \in Shapes : BD!Tiled(shape)

\* Where the next segment of a request begins.
BdDone(r) == IF BD!Ended(r) THEN r.size ELSE BD!Here(r).at

BdRequests == [write : BOOLEAN, first : Nat, size : Nat, bios : Shapes, bio : Nat \ {0},
             segment : Nat \ {0}, sector : Nat]

\* A request that the block layer made and the driver is going through
BdFitting(r) ==
    /\ r \in BdRequests
    /\ r.size = BD!Size(r.bios) /\ r.first + r.size <= Sectors
    /\ r.bio <= Len(r.bios) + 1
    /\ ~BD!Ended(r) => r.segment <= Len(r.bios[r.bio])
    /\ r.sector = r.first + BdDone(r)

\* Only open disks of a live module have requests.
BdRequestInv ==
    /\ DOMAIN req = Procs
    /\ \A p \in Procs : req[p] # BD!NoRequest => BdFitting(req[p]) /\ p \in opened_bd
    /\ opened_bd # {} => phase_bd = "live"
    /\ alone_bd \subseteq Procs
    /\ \A p \in alone_bd : req[p] # BD!NoRequest

\* Disk and pages hold sectors.
BdPagesInv ==
    /\ data \in [0 .. Sectors - 1 -> BD!Contents]
    /\ DOMAIN buffer_bd = Procs
    /\ \A p \in Procs : DOMAIN buffer_bd[p] = 1 .. req[p].size
    /\ \A p \in Procs : \A k \in 1 .. req[p].size : buffer_bd[p][k] \in BD!Contents

\* As far as the driver has got, the pages of a request are as the disk.
BdAgree(r, pages, disk) == \A k \in 1 .. BdDone(r) : pages[k] = disk[r.first + k - 1]

\* A request that nobody disturbed meets no other one, and what it has gone
\* through is the same in its pages and on the disk.
BdMovedInv ==
    /\ \A p \in alone_bd : \A q \in Procs \ {p} : ~BD!Conflict(req[p], req[q])
    /\ \A p \in alone_bd : BdAgree(req[p], buffer_bd[p], data)

-----------------------------------------------------------------------------
\* The iterators of a request point to one of its segments.
LEMMA BdPoints ==
    ASSUME BdCuts, NEW r, BdFitting(r), ~BD!Ended(r)
    PROVE  /\ BD!Tiled(r.bios) /\ Len(r.bios) \in Nat /\ r.bio \in 1 .. Len(r.bios)
           /\ Len(r.bios[r.bio]) \in Nat /\ r.segment \in 1 .. Len(r.bios[r.bio])
           /\ BD!Here(r) \in BD!Segments
<1>1. r.bios \in Shapes /\ r.bio \in Nat \ {0} /\ r.segment \in Nat \ {0}
    BY Zenon DEF BdFitting, BdRequests
<1>2. BD!Tiled(r.bios)
    BY <1>1, Zenon DEF BdCuts
<1>3. r.bios \in Seq(Seq(BD!Segments))
    BY <1>2, Zenon DEF BD!Tiled
<1>4. Len(r.bios) \in Nat /\ \A b \in 1 .. Len(r.bios) : r.bios[b] \in Seq(BD!Segments)
    BY <1>3
<1>5. r.bio \in 1 .. Len(r.bios)
    BY <1>1, <1>4 DEF BD!Ended
<1>6. r.bios[r.bio] \in Seq(BD!Segments)
    BY <1>4, <1>5, Zenon
<1>7. r.segment <= Len(r.bios[r.bio])
    BY Zenon DEF BdFitting
<1>8. /\ Len(r.bios[r.bio]) \in Nat /\ r.segment \in 1 .. Len(r.bios[r.bio])
      /\ r.bios[r.bio][r.segment] \in BD!Segments
    BY <1>1, <1>6, <1>7
<1> QED
    BY <1>2, <1>4, <1>5, <1>8, Zenon DEF BD!Here

\* A segment ends inside its request.
LEMMA BdSegmentInside ==
    ASSUME BdCuts, NEW r, BdFitting(r), ~BD!Ended(r)
    PROVE  /\ BD!Here(r).at \in Nat /\ BD!Here(r).len \in Nat
           /\ BD!Here(r).at + BD!Here(r).len <= r.size
           /\ r.sector = r.first + BD!Here(r).at /\ BdDone(r) = BD!Here(r).at
           /\ r.size \in Nat /\ r.first \in Nat /\ r.first + r.size <= Sectors
<1>1. BD!Here(r).at \in Nat /\ BD!Here(r).len \in Nat
    BY BdPoints, Zenon DEF BD!Segments
<1>2. BD!Here(r).at + BD!Here(r).len <= BD!Size(r.bios)
    BY BdPoints, Zenon DEF BD!Tiled, BD!Here
<1>3. /\ r.size \in Nat /\ r.first \in Nat /\ r.first + r.size <= Sectors
      /\ r.size = BD!Size(r.bios) /\ r.sector = r.first + BdDone(r)
    BY Zenon DEF BdFitting, BdRequests
<1> QED
    BY <1>1, <1>2, <1>3, Zenon DEF BdDone

\* What the driver has gone through is part of the request.
LEMMA BdDoneInside ==
    ASSUME BdCuts, NEW r, BdFitting(r)
    PROVE  BdDone(r) \in Nat /\ BdDone(r) <= r.size
<1>1. CASE BD!Ended(r)
    BY <1>1 DEF BdDone, BdFitting, BdRequests
<1>2. CASE ~BD!Ended(r)
    BY <1>2, BdSegmentInside
<1> QED
    BY <1>1, <1>2, Zenon

\* The next bio begins where the last segment of this one ends.
LEMMA BdNextBegins ==
    ASSUME BdCuts, NEW r, BdFitting(r), ~BD!Ended(r), r.bio < Len(r.bios)
    PROVE  LET last == r.bios[r.bio][Len(r.bios[r.bio])]
               next == r.bios[r.bio + 1]
           IN  1 <= Len(next) /\ next[1].at \in Nat /\ next[1].at = last.at + last.len
<1>1. /\ r.bios \in Seq(Seq(BD!Segments)) /\ r.bio \in 1 .. Len(r.bios) /\ Len(r.bios) \in Nat
      /\ r.bio + 1 \in 1 .. Len(r.bios)
    BY BdPoints DEF BD!Tiled
<1>2. r.bios[r.bio + 1] # <<>>
    BY <1>1, BdPoints, Zenon DEF BD!Tiled
<1>3. r.bios[r.bio + 1] \in Seq(BD!Segments)
    BY <1>1
<1>4. 1 <= Len(r.bios[r.bio + 1]) /\ r.bios[r.bio + 1][1] \in BD!Segments
    BY <1>2, <1>3
<1>5. r.bios[r.bio + 1][1].at \in Nat
    BY <1>4, Zenon DEF BD!Segments
<1> QED
    BY <1>1, <1>4, <1>5, BdPoints, ZenonT(40) DEF BD!Tiled

\* The next segment begins where the last one ended.
LEMMA BdAdvancedFits ==
    ASSUME BdCuts, NEW r, BdFitting(r), ~BD!Ended(r)
    PROVE  /\ BdFitting(BD!Advanced(r))
           /\ BdDone(BD!Advanced(r)) = BdDone(r) + BD!Here(r).len
           /\ BD!Advanced(r).first = r.first /\ BD!Advanced(r).size = r.size
           /\ BD!Advanced(r).write = r.write
<1>1. r.bios \in Shapes /\ r.bio \in Nat \ {0} /\ r.segment \in Nat \ {0}
    BY Zenon DEF BdFitting, BdRequests
<1>2. BD!Tiled(r.bios)
    BY BdPoints, Zenon
<1>3. /\ r.bio \in 1 .. Len(r.bios) /\ r.segment \in 1 .. Len(r.bios[r.bio])
      /\ Len(r.bios) \in Nat /\ Len(r.bios[r.bio]) \in Nat
    BY BdPoints, Zenon
<1>4. /\ BD!Here(r).at \in Nat /\ BD!Here(r).len \in Nat /\ r.sector = r.first + BD!Here(r).at
      /\ r.first \in Nat /\ BdDone(r) = BD!Here(r).at
    BY BdSegmentInside, Zenon
<1> DEFINE a == BD!Advanced(r)
<1>5. /\ a \in BdRequests /\ a.first = r.first /\ a.size = r.size /\ a.write = r.write
      /\ a.bios = r.bios
      /\ IF r.segment < Len(r.bios[r.bio])
         THEN a.bio = r.bio /\ a.segment = r.segment + 1 /\ a.sector = r.sector + BD!Here(r).len
         ELSE a.bio = r.bio + 1 /\ a.segment = 1 /\ a.sector = BD!NextSector(r)
    <2>1. r \in BdRequests /\ r.sector \in Nat
        BY Zenon DEF BdFitting, BdRequests
    <2>2. CASE r.segment < Len(r.bios[r.bio])
        <3>1. a = [r EXCEPT !.segment = @ + 1, !.sector = @ + BD!Here(r).len]
            BY <2>2, Zenon DEF BD!Advanced
        <3>2. r.segment + 1 \in Nat \ {0} /\ r.sector + BD!Here(r).len \in Nat
            BY <1>1, <1>4, <2>1
        <3> HIDE DEF a
        <3> QED
            BY <2>1, <2>2, <3>1, <3>2, Zenon DEF BdRequests
    <2>3. CASE ~(r.segment < Len(r.bios[r.bio]))
        <3>1. a = [r EXCEPT !.bio = @ + 1, !.segment = 1, !.sector = BD!NextSector(r)]
            BY <2>3, Zenon DEF BD!Advanced
        <3>2. r.bio + 1 \in Nat \ {0} /\ 1 \in Nat \ {0} /\ BD!NextSector(r) \in Nat
            <4>1. CASE r.bio < Len(r.bios)
                <5>1. r.bios[r.bio + 1][1].at \in Nat
                    BY <4>1, BdNextBegins, Zenon
                <5>2. BD!NextSector(r) = r.first + r.bios[r.bio + 1][1].at
                    BY <4>1, Zenon DEF BD!NextSector
                <5> QED
                    BY <1>1, <1>4, <5>1, <5>2
            <4>2. CASE ~(r.bio < Len(r.bios))
                <5>1. BD!NextSector(r) = r.sector + BD!Here(r).len
                    BY <4>2, Zenon DEF BD!NextSector
                <5> QED
                    BY <1>1, <1>4, <2>1, <5>1
            <4> QED
                BY <4>1, <4>2, ZenonT(40)
        <3> HIDE DEF a
        <3> QED
            BY <2>1, <2>3, <3>1, <3>2, Zenon DEF BdRequests
    <2> QED
        BY <2>2, <2>3, Zenon
<1> HIDE DEF a
<1>6. BdDone(a) = BD!Here(r).at + BD!Here(r).len
    <2>1. CASE r.segment < Len(r.bios[r.bio])
        <3>1. ~BD!Ended(a) /\ BD!Here(a) = r.bios[r.bio][r.segment + 1]
            BY <1>3, <1>5, <2>1, Zenon DEF BD!Ended, BD!Here
        <3>2. r.segment \in 1 .. Len(r.bios[r.bio]) - 1
            BY <1>3, <2>1
        <3>3. r.bios[r.bio][r.segment + 1].at = BD!Here(r).at + BD!Here(r).len
            BY <1>2, <1>3, <3>2, Zenon DEF BD!Tiled, BD!Here
        <3> QED
            BY <3>1, <3>3, Zenon DEF BdDone
    <2>2. CASE ~(r.segment < Len(r.bios[r.bio])) /\ r.bio < Len(r.bios)
        <3>1. ~BD!Ended(a) /\ BD!Here(a) = r.bios[r.bio + 1][1]
            BY <1>3, <1>5, <2>2 DEF BD!Ended, BD!Here
        <3>2. r.segment = Len(r.bios[r.bio])
            BY <1>3, <2>2
        <3> QED
            BY <1>3, <2>2, <3>1, <3>2, BdNextBegins, ZenonT(40) DEF BD!Here, BdDone
    <2>3. CASE ~(r.segment < Len(r.bios[r.bio])) /\ ~(r.bio < Len(r.bios))
        <3>1. BD!Ended(a) /\ r.bio = Len(r.bios) /\ r.segment = Len(r.bios[r.bio])
            BY <1>3, <1>5, <2>3 DEF BD!Ended
        <3> QED
            BY <1>5, <3>1, ZenonT(40) DEF BdFitting, BD!Size, BD!Here, BdDone
    <2> QED
        BY <2>1, <2>2, <2>3, Zenon
<1>7. a.sector = r.first + BdDone(a)
    <2>1. CASE r.segment < Len(r.bios[r.bio]) \/ ~(r.bio < Len(r.bios))
        BY <1>4, <1>5, <1>6, <2>1 DEF BD!NextSector
    <2>2. CASE ~(r.segment < Len(r.bios[r.bio])) /\ r.bio < Len(r.bios)
        BY <1>3, <1>5, <2>2 DEF BD!NextSector, BdDone, BD!Ended, BD!Here
    <2> QED
        BY <2>1, <2>2, ZenonT(40)
<1>8. a.bio <= Len(a.bios) + 1 /\ (~BD!Ended(a) => a.segment <= Len(a.bios[a.bio]))
    <2>1. CASE r.segment < Len(r.bios[r.bio])
        BY <1>3, <1>5, <2>1
    <2>2. CASE ~(r.segment < Len(r.bios[r.bio])) /\ r.bio < Len(r.bios)
        BY <1>3, <1>5, <2>2, BdNextBegins
    <2>3. CASE ~(r.segment < Len(r.bios[r.bio])) /\ ~(r.bio < Len(r.bios))
        BY <1>3, <1>5, <2>3 DEF BD!Ended
    <2> QED
        BY <2>1, <2>2, <2>3, Zenon
<1> QED
    BY <1>4, <1>5, <1>6, <1>7, <1>8, ZenonT(40) DEF BdFitting, a

\* A request without bios is none that the block layer made.
LEMMA BdFittingIsOne ==
    ASSUME BdCuts, NEW r, BdFitting(r)
    PROVE  r # BD!NoRequest
<1>1. r.bios \in Shapes
    BY Zenon DEF BdFitting, BdRequests
<1>2. r.bios # <<>>
    BY <1>1, Zenon DEF BdCuts, BD!Tiled
<1>3. BD!NoRequest.bios = <<>>
    BY Zenon DEF BD!NoRequest
<1> QED
    BY <1>2, <1>3, Zenon

\* simple_transfer of a segment of n sectors, whose page begins done sectors into
\* the request of p: to the disk ...
BdStored(p, r, n, done) ==
    data' = [s \in DOMAIN data |->
                IF s \in r.sector .. r.sector + n - 1
                THEN buffer_bd[p][done + 1 + s - r.sector] ELSE data[s]]

\* ... and from it
BdFetched(p, r, n, done) ==
    buffer_bd' = [buffer_bd EXCEPT ![p] =
                 [k \in DOMAIN @ |-> IF k \in done + 1 .. done + n
                                     THEN data[r.sector + k - done - 1] ELSE @[k]]]

-----------------------------------------------------------------------------
\* No disk is open before the module is loaded.
LEMMA BdRequestInit ==
    ASSUME BD!Init
    PROVE  BdRequestInv /\ BdPagesInv /\ BdMovedInv
<1>1. BD!NoRequest.size = 0
    BY Zenon DEF BD!NoRequest
<1> QED
    BY <1>1 DEF BD!Init, BD!DM!Init, BdRequestInv, BdPagesInv, BdMovedInv, BD!Contents

\* What a process submits fits the disk.
LEMMA BdSubmitFits ==
    ASSUME BdCuts, NEW p \in Procs, NEW write \in BOOLEAN, NEW first \in 0 .. Sectors - 1,
           NEW shape \in Shapes, NEW v, BD!Submit(p, write, first, shape, v), BdRequestInv
    PROVE  /\ BdFitting(req'[p]) /\ BdDone(req'[p]) = 0 /\ req'[p] # BD!NoRequest
           /\ req' = [req EXCEPT ![p] = req'[p]]
           /\ req'[p].write = write /\ req'[p].size = BD!Size(shape) /\ req'[p].size \in Nat
<1> DEFINE r == [write |-> write, first |-> first, size |-> BD!Size(shape), bios |-> shape,
                 bio |-> 1, segment |-> 1, sector |-> first]
<1>1. req' = [req EXCEPT ![p] = r] /\ req'[p] = r /\ first + r.size <= Sectors
    BY Zenon DEF BD!Submit, BdRequestInv
<1>2. /\ BD!Tiled(shape) /\ Len(shape) \in Nat \ {0}
      /\ \A b \in 1 .. Len(shape) : shape[b] \in Seq(BD!Segments) /\ shape[b] # <<>>
    <2>1. BD!Tiled(shape)
        BY Zenon DEF BdCuts
    <2>2. shape \in Seq(Seq(BD!Segments)) /\ shape # <<>>
        BY <2>1, Zenon DEF BD!Tiled
    <2>3. \A b \in 1 .. Len(shape) : shape[b] \in Seq(BD!Segments)
        BY <2>2
    <2>4. Len(shape) \in Nat \ {0}
        BY <2>2
    <2>5. \A b \in 1 .. Len(shape) : shape[b] # <<>>
        BY <2>1, ZenonT(40) DEF BD!Tiled
    <2> QED
        BY <2>1, <2>3, <2>4, <2>5, ZenonT(40)
<1>3. BD!Size(shape) \in Nat
    <2>1. shape[Len(shape)] \in Seq(BD!Segments) /\ shape[Len(shape)] # <<>>
        BY <1>2
    <2>2. shape[Len(shape)][Len(shape[Len(shape)])] \in BD!Segments
        BY <2>1
    <2> QED
        BY <2>2 DEF BD!Size, BD!Segments
<1>4. 1 <= Len(shape[1])
    BY <1>2
<1>5. first \in Nat /\ 1 \in Nat \ {0}
    BY DEF BdCuts
<1>6. r \in BdRequests
    BY <1>3, <1>5, Zenon DEF BdRequests
<1>7. /\ r.write = write /\ r.first = first /\ r.size = BD!Size(shape) /\ r.bios = shape
      /\ r.bio = 1 /\ r.segment = 1 /\ r.sector = first
    BY Zenon
<1> HIDE DEF r
<1>8. ~BD!Ended(r) /\ BD!Here(r) = shape[1][1]
    BY <1>2, <1>7 DEF BD!Ended, BD!Here
<1>9. BdDone(r) = 0
    BY <1>2, <1>8, ZenonT(40) DEF BdDone, BD!Tiled
<1>10. BdFitting(r)
    BY <1>1, <1>2, <1>4, <1>5, <1>6, <1>7, <1>9 DEF BdFitting
<1> QED
    BY <1>1, <1>3, <1>7, <1>9, <1>10, BdFittingIsOne, ZenonT(40)

\* Requests fit the disk as they are made and as the driver goes through them.
LEMMA BdRequestNext ==
    ASSUME BdCuts, BdRequestInv, [BD!Next]_(BD!vars)
    PROVE  BdRequestInv'
<1>1. CASE BD!simple_block_init
    BY <1>1, Zenon DEF BD!simple_block_init, BD!DM!InitBegin, BdRequestInv
<1>2. CASE BD!DM!Lifecycle /\ UNCHANGED <<data, req, buffer_bd, alone_bd>>
    <2>1. opened_bd' = opened_bd /\ (opened_bd' # {} => phase_bd' = "live")
        BY <1>2, Zenon DEF BD!DM!Lifecycle, BD!DM!Make, BD!DM!MakeFails, BD!DM!ExitBegin, BD!DM!Undo,
                    BD!DM!Gone, BdRequestInv
    <2> QED
        BY <1>2, <2>1, Zenon DEF BdRequestInv
<1>3. ASSUME NEW p \in Procs, BD!example_block_open(p) PROVE BdRequestInv'
    BY <1>3, Zenon DEF BD!example_block_open, BD!DM!Open, BdRequestInv
<1>4. ASSUME NEW p \in Procs, BD!example_block_release(p) PROVE BdRequestInv'
    BY <1>4, Zenon DEF BD!example_block_release, BD!DM!Close, BdRequestInv
<1>5. ASSUME NEW p \in Procs, BD!simple_handle_bio(p) PROVE BdRequestInv'
    <2>1. /\ ~BD!Ended(req[p]) /\ req' = [req EXCEPT ![p] = BD!Advanced(req[p])]
          /\ UNCHANGED <<BD!device, alone_bd>>
        BY <1>5, Zenon DEF BD!simple_handle_bio
    <2>2. req[p] # BD!NoRequest
        BY <2>1 DEF BD!Ended, BD!NoRequest
    <2>3. BdFitting(BD!Advanced(req[p])) /\ BD!Advanced(req[p]) # BD!NoRequest
        BY <2>1, <2>2, BdAdvancedFits, BdFittingIsOne, Zenon DEF BdRequestInv
    <2> QED
        BY <2>1, <2>2, <2>3, Zenon DEF BdRequestInv, BD!device
<1>6. ASSUME NEW p \in Procs, BD!EndRequest(p) PROVE BdRequestInv'
    BY <1>6, ZenonT(40) DEF BD!EndRequest, BdRequestInv, BD!device
<1>7. ASSUME NEW p \in Procs, NEW write \in BOOLEAN, NEW first \in 0 .. Sectors - 1,
             NEW shape \in Shapes, NEW v, BD!Submit(p, write, first, shape, v)
      PROVE  BdRequestInv'
    <2>1. /\ p \in opened_bd /\ UNCHANGED BD!device
          /\ alone_bd' \subseteq alone_bd \cup {p}
        BY <1>7, Zenon DEF BD!Submit
    <2> QED
        BY <1>7, <2>1, BdSubmitFits, ZenonT(40) DEF BdRequestInv, BD!device
<1>8. CASE UNCHANGED BD!vars
    BY <1>8, Zenon DEF BD!vars, BD!device, BdRequestInv
<1> QED
    BY <1>1, <1>2, <1>3, <1>4, <1>5, <1>6, <1>7, <1>8, ZenonT(40) DEF BD!Next, BD!Module,
       BD!simple_queue_rq

\* A segment is moved within the disk and within its request.
LEMMA BdPagesNext ==
    ASSUME BdCuts, BdRequestInv, BdPagesInv, [BD!Next]_(BD!vars)
    PROVE  BdPagesInv'
<1>1. CASE BD!simple_block_init
    BY <1>1, Zenon DEF BD!simple_block_init, BdPagesInv, BD!Contents
<1>2. CASE UNCHANGED <<data, req, buffer_bd>>
    BY <1>2, Zenon DEF BdPagesInv
<1>5. ASSUME NEW p \in Procs, BD!simple_handle_bio(p) PROVE BdPagesInv'
    <2> DEFINE r == req[p]
               n == BD!Here(r).len
               done == BD!Here(r).at
    <2>1. /\ ~BD!Ended(r) /\ req' = [req EXCEPT ![p] = BD!Advanced(r)]
          /\ \/ UNCHANGED <<data, buffer_bd>>
             \/ BD!Fits(r, n) /\ BdStored(p, r, n, done) /\ UNCHANGED buffer_bd
             \/ BD!Fits(r, n) /\ BdFetched(p, r, n, done) /\ UNCHANGED data
        BY <1>5, Zenon DEF BD!simple_handle_bio, BdStored, BdFetched
    <2>2. req[p] # BD!NoRequest
        BY <2>1 DEF BD!Ended, BD!NoRequest
    <2>3. /\ done \in Nat /\ n \in Nat /\ done + n <= r.size /\ r.sector = r.first + done
          /\ r.size \in Nat /\ r.first \in Nat /\ r.first + r.size <= Sectors
          /\ BD!Advanced(r).size = r.size
        BY <2>1, <2>2, BdSegmentInside, BdAdvancedFits, ZenonT(40) DEF BdRequestInv
    <2>4. \A q \in Procs : req'[q].size = req[q].size
        BY <2>1, <2>3, Zenon DEF BdRequestInv
    <2> HIDE DEF r, n, done
    <2>5. CASE UNCHANGED <<data, buffer_bd>>
        BY <2>4, <2>5, ZenonT(40) DEF BdPagesInv
    <2>6. CASE BdStored(p, r, n, done) /\ UNCHANGED buffer_bd
        <3>1. \A s \in r.sector .. r.sector + n - 1 :
                  buffer_bd[p][done + 1 + s - r.sector] \in BD!Contents
            <4>1. \A k \in 1 .. r.size : buffer_bd[p][k] \in BD!Contents
                BY Zenon DEF BdPagesInv, r
            <4>2. \A s \in r.sector .. r.sector + n - 1 : done + 1 + s - r.sector \in 1 .. r.size
                BY <2>3
            <4> QED
                BY <4>1, <4>2, Zenon
        <3>2. data' \in [0 .. Sectors - 1 -> BD!Contents]
            BY <2>6, <3>1, Zenon DEF BdStored, BdPagesInv
        <3> QED
            BY <2>4, <2>6, <3>2, ZenonT(40) DEF BdPagesInv
    <2>7. CASE BdFetched(p, r, n, done) /\ UNCHANGED data
        <3>1. \A k \in done + 1 .. done + n : data[r.sector + k - done - 1] \in BD!Contents
            <4>1. \A s \in 0 .. Sectors - 1 : data[s] \in BD!Contents
                BY Zenon DEF BdPagesInv
            <4>2. \A k \in done + 1 .. done + n : r.sector + k - done - 1 \in 0 .. Sectors - 1
                BY <2>3 DEF BdCuts
            <4> QED
                BY <4>1, <4>2, Zenon
        <3>2. /\ DOMAIN buffer_bd' = Procs /\ DOMAIN buffer_bd'[p] = DOMAIN buffer_bd[p]
              /\ \A q \in Procs \ {p} : buffer_bd'[q] = buffer_bd[q]
              /\ \A k \in DOMAIN buffer_bd[p] :
                    buffer_bd'[p][k] = IF k \in done + 1 .. done + n
                                    THEN data[r.sector + k - done - 1] ELSE buffer_bd[p][k]
            BY <2>7, Zenon DEF BdFetched, BdPagesInv
        <3>3. \A k \in DOMAIN buffer_bd'[p] : buffer_bd'[p][k] \in BD!Contents
            BY <3>1, <3>2, ZenonT(40) DEF BdPagesInv
        <3> QED
            BY <2>4, <2>7, <3>2, <3>3, ZenonT(40) DEF BdPagesInv
    <2> QED
        BY <2>1, <2>5, <2>6, <2>7, Zenon
<1>6. ASSUME NEW p \in Procs, BD!EndRequest(p) PROVE BdPagesInv'
    <2>1. BD!NoRequest.size = 0
        BY Zenon DEF BD!NoRequest
    <2> QED
        BY <1>6, <2>1 DEF BD!EndRequest, BdPagesInv, BdRequestInv
<1>7. ASSUME NEW p \in Procs, NEW write \in BOOLEAN, NEW first \in 0 .. Sectors - 1,
             NEW shape \in Shapes, NEW v, write => v \in Tags,
             BD!Submit(p, write, first, shape, v)
      PROVE  BdPagesInv'
    <2>1. /\ buffer_bd' = [buffer_bd EXCEPT ![p] =
                           [k \in 1 .. BD!Size(shape) |-> IF write THEN <<v, k>> ELSE <<"none",
                               0>>]]
          /\ data' = data /\ first + BD!Size(shape) <= Sectors
        BY <1>7, ZenonT(40) DEF BD!Submit
    <2>2. \A k \in 1 .. BD!Size(shape) :
              (IF write THEN <<v, k>> ELSE <<"none", 0>>) \in BD!Contents
        BY <1>7, <2>1, BdSubmitFits DEF BD!Contents, BdCuts
    <2>3. req'[p].size = BD!Size(shape) /\ \A q \in Procs \ {p} : req'[q] = req[q]
        BY <1>7, BdSubmitFits DEF BdRequestInv
    <2> QED
        BY <2>1, <2>2, <2>3, Zenon DEF BdPagesInv
<1> QED
    BY <1>1, <1>2, <1>5, <1>6, <1>7, Zenon
       DEF BD!Next, BD!Module, BD!simple_queue_rq, BD!example_block_open,
           BD!example_block_release, BD!vars

\* Whether two requests meet does not depend on how far they have got.
LEMMA BdSameConflict ==
    ASSUME NEW a, NEW b, NEW c, NEW d,
           a.first = c.first /\ a.size = c.size /\ a.write = c.write,
           b.first = d.first /\ b.size = d.size /\ b.write = d.write
    PROVE  BD!Conflict(a, b) <=> BD!Conflict(c, d)
BY Zenon DEF BD!Conflict, BD!Span

\* The transfers of a request leave the sectors and pages of the others alone.
LEMMA BdMovedNext ==
    ASSUME BdCuts, BdRequestInv, BdPagesInv, BdMovedInv, [BD!Next]_(BD!vars)
    PROVE  BdMovedInv'
<1>1. CASE BD!simple_block_init
    <2>1. alone_bd' = {}
        BY <1>1, Zenon DEF BD!simple_block_init, BD!DM!InitBegin, BdRequestInv
    <2> QED
        BY <2>1, ZenonT(40) DEF BdMovedInv
<1>2. CASE UNCHANGED <<data, req, buffer_bd, alone_bd>>
    BY <1>2, Zenon DEF BdMovedInv
<1>5. ASSUME NEW p \in Procs, BD!simple_handle_bio(p) PROVE BdMovedInv'
    <2> DEFINE r == req[p]
               n == BD!Here(r).len
               done == BD!Here(r).at
    <2>1. /\ ~BD!Ended(r) /\ req' = [req EXCEPT ![p] = BD!Advanced(r)] /\ alone_bd' = alone_bd
          /\ \/ ~BD!Fits(r, n) /\ UNCHANGED <<data, buffer_bd>>
             \/ r.write /\ BdStored(p, r, n, done) /\ UNCHANGED buffer_bd
             \/ BdFetched(p, r, n, done) /\ UNCHANGED data
        BY <1>5, ZenonT(40) DEF BD!simple_handle_bio, BdStored, BdFetched
    <2>2. req[p] # BD!NoRequest
        BY <2>1 DEF BD!Ended, BD!NoRequest
    <2>3. /\ done \in Nat /\ n \in Nat /\ done + n <= r.size /\ r.sector = r.first + done
          /\ r.size \in Nat /\ r.first \in Nat /\ r.first + r.size <= Sectors
          /\ BdDone(r) = done
        BY <2>1, <2>2, BdSegmentInside, ZenonT(40) DEF BdRequestInv
    <2>4. /\ BD!Advanced(r).size = r.size /\ BD!Advanced(r).first = r.first
          /\ BD!Advanced(r).write = r.write
          /\ BdDone(BD!Advanced(r)) = done + n
        BY <2>1, <2>2, <2>3, BdAdvancedFits, ZenonT(40) DEF BdRequestInv
    <2>5. \A q \in Procs : /\ req'[q].size = req[q].size /\ req'[q].first = req[q].first
                           /\ req'[q].write = req[q].write
                           /\ q # p => req'[q] = req[q]
        BY <2>1, <2>4, Zenon DEF BdRequestInv
    <2>6. req'[p] = BD!Advanced(r) /\ alone_bd \subseteq Procs /\ alone_bd' = alone_bd
        BY <2>1, Zenon DEF BdRequestInv
    <2>7. \A q, o \in Procs : BD!Conflict(req'[q], req'[o]) <=> BD!Conflict(req[q], req[o])
        <3> TAKE q, o \in Procs
        <3> DEFINE a == req'[q]
                   b == req'[o]
                   c == req[q]
                   d == req[o]
        <3>1. /\ a.first = c.first /\ a.size = c.size /\ a.write = c.write
              /\ b.first = d.first /\ b.size = d.size /\ b.write = d.write
            BY <2>5, Zenon
        <3> HIDE DEF a, b, c, d
        <3>2. BD!Conflict(a, b) <=> BD!Conflict(c, d)
            BY <3>1, BdSameConflict, Zenon
        <3> QED
            BY <3>2, Zenon DEF a, b, c, d
    <2>8. \A q \in alone_bd : \A o \in Procs \ {q} : ~BD!Conflict(req'[q], req'[o])
        BY <2>6, <2>7, ZenonT(40) DEF BdMovedInv
    <2>9. BD!Fits(r, n)
        BY <2>3 DEF BD!Fits, BdCuts
    <2>10. ASSUME NEW q \in alone_bd \ {p} PROVE BdAgree(req'[q], buffer_bd'[q], data')
        <3>0. req'[q] = req[q]
            BY <2>5, <2>6, ZenonT(40)
        <3> SUFFICES ASSUME NEW k \in 1 .. BdDone(req[q])
                     PROVE  buffer_bd'[q][k] = data'[req[q].first + k - 1]
            <4>1. BdAgree(req[q], buffer_bd'[q], data')
                BY Zenon DEF BdAgree
            <4> QED
                BY <3>0, <4>1, Zenon
        <3>1. buffer_bd[q][k] = data[req[q].first + k - 1] /\ q \in Procs
            BY <2>6, Zenon DEF BdMovedInv, BdAgree
        <3>2. CASE r.write /\ BdStored(p, r, n, done) /\ UNCHANGED buffer_bd
            <4>1. req[q] # BD!NoRequest /\ BdFitting(req[q])
                BY <3>1, ZenonT(40) DEF BdRequestInv
            <4>2. BdDone(req[q]) \in Nat /\ BdDone(req[q]) <= req[q].size
                BY <4>1, BdDoneInside, ZenonT(40)
            <4>3. /\ req[q].first \in Nat /\ req[q].size \in Nat
                  /\ req[q].first + req[q].size <= Sectors
                BY <4>1, ZenonT(40) DEF BdFitting, BdRequests
            <4>4. req[q].first + k - 1 \in BD!Span(req[q])
                BY <4>2, <4>3 DEF BD!Span
            <4>5. BD!Span(req[q]) \cap BD!Span(r) = {}
                BY <2>6, <3>1, <3>2, ZenonT(40) DEF BdMovedInv, BD!Conflict
            <4>6. req[q].first + k - 1 \notin r.sector .. r.sector + n - 1
                BY <2>3, <4>4, <4>5 DEF BD!Span
            <4>7. req[q].first + k - 1 \in DOMAIN data
                BY <4>2, <4>3 DEF BdPagesInv, BdCuts
            <4>8. data'[req[q].first + k - 1] = data[req[q].first + k - 1]
                BY <3>2, <4>6, <4>7, Zenon DEF BdStored
            <4> QED
                BY <3>1, <3>2, <4>8, ZenonT(40)
        <3>3. CASE BdFetched(p, r, n, done) /\ UNCHANGED data
            BY <3>1, <3>3, Zenon DEF BdFetched, BdPagesInv
        <3> QED
            BY <2>1, <2>9, <3>2, <3>3, ZenonT(40)
    <2>11. ASSUME p \in alone_bd, NEW k \in 1 .. done + n
           PROVE  buffer_bd'[p][k] = data'[r.first + k - 1]
        <3>1. k <= done => buffer_bd[p][k] = data[r.first + k - 1]
            BY <2>3, <2>11 DEF BdMovedInv, BdAgree
        <3>2. k \in DOMAIN buffer_bd[p] /\ r.first + k - 1 \in DOMAIN data
            <4>1. DOMAIN data = 0 .. Sectors - 1 /\ DOMAIN buffer_bd[p] = 1 .. r.size
                BY Zenon DEF BdPagesInv
            <4> HIDE DEF r, n, done
            <4>2. r.first + k - 1 \in 0 .. Sectors - 1 /\ k \in 1 .. r.size
                BY <2>3 DEF BdCuts
            <4> QED
                BY <4>1, <4>2, ZenonT(40)
        <3> HIDE DEF r, n, done
        <3>3. CASE BdStored(p, r, n, done) /\ UNCHANGED buffer_bd
            BY <2>3, <3>1, <3>2, <3>3 DEF BdStored
        <3>4. CASE BdFetched(p, r, n, done) /\ UNCHANGED data
            BY <2>3, <3>1, <3>2, <3>4 DEF BdFetched, BdPagesInv
        <3> QED
            BY <2>1, <2>9, <3>3, <3>4, Zenon DEF r, n, done
    <2>12. p \in alone_bd => BdAgree(req'[p], buffer_bd'[p], data')
        <3>1. p \in alone_bd => BdAgree(BD!Advanced(r), buffer_bd'[p], data')
            BY <2>4, <2>11, Zenon DEF BdAgree
        <3> QED
            BY <2>6, <3>1, Zenon
    <2> QED
        BY <2>6, <2>8, <2>10, <2>12, ZenonT(40) DEF BdMovedInv
<1>6. ASSUME NEW p \in Procs, BD!EndRequest(p) PROVE BdMovedInv'
    <2>1. /\ alone_bd' = alone_bd \ {p} /\ data' = data
          /\ \A q \in Procs \ {p} : req'[q] = req[q] /\ buffer_bd'[q] = buffer_bd[q]
        BY <1>6, ZenonT(40) DEF BD!EndRequest, BdPagesInv, BdRequestInv
    <2>2. \A q \in Procs \ {p} : ~BD!Conflict(req[q], req'[p])
        BY <1>6 DEF BD!EndRequest, BD!Conflict, BD!Span, BD!NoRequest, BdRequestInv
    <2> QED
        BY <2>1, <2>2, Zenon DEF BdMovedInv, BdRequestInv
<1>7. ASSUME NEW p \in Procs, NEW write \in BOOLEAN, NEW first \in 0 .. Sectors - 1,
             NEW shape \in Shapes, NEW v, BD!Submit(p, write, first, shape, v)
      PROVE  BdMovedInv'
    <2> DEFINE rivals == {q \in Procs \ {p} : BD!Conflict(req'[p], req[q])}
    <2>1. /\ alone_bd' = (alone_bd \ (rivals \cup {p})) \cup (IF rivals = {} THEN {p} ELSE {})
          /\ data' = data /\ \A q \in Procs \ {p} : buffer_bd'[q] = buffer_bd[q]
        BY <1>7, Zenon DEF BD!Submit, BdPagesInv, BdRequestInv
    <2>2. BdDone(req'[p]) = 0 /\ \A q \in Procs \ {p} : req'[q] = req[q]
        BY <1>7, BdSubmitFits, ZenonT(40) DEF BdRequestInv
    <2>3. \A a, b : BD!Conflict(a, b) <=> BD!Conflict(b, a)
        BY Zenon DEF BD!Conflict
    <2>4. \A q \in alone_bd' : \A o \in Procs \ {q} : ~BD!Conflict(req'[q], req'[o])
        BY <2>1, <2>2, <2>3 DEF BdMovedInv, BdRequestInv
    <2>5. BdAgree(req'[p], buffer_bd'[p], data')
        BY <2>2 DEF BdAgree
    <2>6. \A q \in alone_bd' : BdAgree(req'[q], buffer_bd'[q], data')
        BY <2>1, <2>2, <2>5, ZenonT(40) DEF BdMovedInv, BdRequestInv
    <2> QED
        BY <2>4, <2>6, Zenon DEF BdMovedInv
<1> QED
    BY <1>1, <1>2, <1>5, <1>6, <1>7, ZenonT(40)
       DEF BD!Next, BD!Module, BD!simple_queue_rq, BD!example_block_open,
           BD!example_block_release, BD!vars

\* The three together give what is promised of the disk.
LEMMA BdMoved ==
    ASSUME BdCuts, BdRequestInv, BdPagesInv, BdMovedInv
    PROVE  BD!OkMeansMoved
BY Zenon DEF BdRequestInv, BdMovedInv, BD!OkMeansMoved, BdAgree, BdDone

\* The types of disk, pages and requests follow (block_demo.c:34-84).
LEMMA BdTypes ==
    ASSUME BdCuts, BdRequestInv, BdPagesInv, BD!DM!TypeOK
    PROVE  BD!TypeOK
<1>1. ASSUME NEW p \in Procs
      PROVE  /\ req[p].write \in BOOLEAN /\ req[p].first \in 0 .. Sectors
             /\ req[p].sector \in 0 .. Sectors
    <2>1. CASE req[p] = BD!NoRequest
        BY <2>1 DEF BD!NoRequest, BdCuts
    <2>2. CASE BdFitting(req[p])
        BY <2>2, BdDoneInside DEF BdFitting, BdRequests, BdCuts
    <2> QED
        BY <2>1, <2>2, ZenonT(40) DEF BdRequestInv
<1> QED
    BY <1>1, ZenonT(40) DEF BD!TypeOK, BdPagesInv, BdRequestInv

-----------------------------------------------------------------------------
SmInside  == {"count", "snprintf", "printing", "unlock"}
SmCounted == {"snprintf", "printing", "unlock"}
SmEarly   == {"off", "opened", "mapped", "clear"}

\* The mutex is held by whoever is inside process_message, clients have the
\* device open, and open files keep the module.
SmMutexInv ==
    /\ pc_sm \in [Procs -> SM!Labels]
    /\ \A p \in Procs : pc_sm[p] \in SmInside <=> mutex_sm = p
    /\ \A p \in Procs : pc_sm[p] # "off" => p \in opened_sm
    /\ opened_sm # {} => phase_sm = "live"

\* The count is one ahead while an ioctl is between its increment and its
\* unlock, and the response is a number behind until it is overwritten.
SmCountInv ==
    /\ msg_count \in Nat /\ served \in Nat
    /\ msg_count = IF \E p \in Procs : pc_sm[p] \in SmCounted THEN served + 1 ELSE served
    /\ (\A p \in Procs : pc_sm[p] # "snprintf") /\ kernel_to_user \notin {SM!Empty, SM!Torn}
          => kernel_to_user[1] = msg_count

\* While a client is alone the others have not cleared, and each of its steps
\* finds what its last one left.
SmEchoInv ==
    /\ DOMAIN message = Procs /\ DOMAIN input = Procs
    /\ \A p \in Procs : p \in alone_sm =>
          /\ \A q \in Procs \ {p} : pc_sm[q] \in SmEarly
          /\ pc_sm[p] \in {"ioctl", "count", "snprintf", "printing"} => user_to_kernel = message[p]
          /\ pc_sm[p] = "printing" => input[p] = message[p] /\ kernel_to_user = SM!Torn
          /\ pc_sm[p] \in {"unlock", "respond"} => kernel_to_user = <<msg_count, message[p]>>

\* The steps of a client outside the ioctl that store into neither area
SmQuiet(p) ==
    \/ SM!OpenDevice(p) \/ SM!shared_mem_mmap(p) \/ SM!MmapFails(p)
    \/ SM!NextMessage(p) \/ SM!Respond(p) \/ SM!Quit(p) \/ SM!CloseDevice(p)

-----------------------------------------------------------------------------
\* No client has the device open before the module is loaded.
LEMMA SmInvInit ==
    ASSUME SM!Nobody \notin Procs, SM!Init
    PROVE  SmMutexInv /\ SmCountInv /\ SmEchoInv
BY Zenon DEF SM!Init, SM!DM!Init, SmMutexInv, SmCountInv, SmEchoInv, SmInside, SmCounted, SM!Labels

\* The clients' own steps and the module's keep the mutex with its holder.
LEMMA SmMutexInvNext ==
    ASSUME SM!Nobody \notin Procs, SmMutexInv, [SM!Next]_(SM!vars)
    PROVE  SmMutexInv'
<1> USE DEF SmMutexInv, SmInside, SM!Labels, SM!Goto, SM!device
<1>1. CASE SM!shared_memory_demo_init
    BY <1>1, ZenonT(40) DEF SM!shared_memory_demo_init, SM!DM!InitBegin
<1>2. CASE SM!DM!Lifecycle /\ UNCHANGED <<SM!areas, mutex_sm, msg_count, pc_sm, message, input,
    served, alone_sm>>
    <2>1. opened_sm' = opened_sm /\ (opened_sm' # {} => phase_sm' = "live")
        BY <1>2, Zenon DEF SM!DM!Lifecycle, SM!DM!Make, SM!DM!MakeFails, SM!DM!ExitBegin, SM!DM!Undo,
                    SM!DM!Gone
    <2> QED
        BY <1>2, <2>1, ZenonT(40)
<1>3. ASSUME NEW p \in Procs, SM!OpenDevice(p) \/ SM!shared_mem_mmap(p) PROVE SmMutexInv'
    BY <1>3, ZenonT(40) DEF SM!OpenDevice, SM!shared_mem_mmap, SM!DM!Open, SM!DM!Mmap
<1>4. ASSUME NEW p \in Procs, SM!MmapFails(p) \/ SM!Quit(p) \/ SM!CloseDevice(p) PROVE SmMutexInv'
    BY <1>4, ZenonT(40) DEF SM!MmapFails, SM!Quit, SM!CloseDevice, SM!DM!Close, SM!DM!Munmap
<1>5. ASSUME NEW p \in Procs, SM!NextMessage(p) \/ SM!Respond(p) PROVE SmMutexInv'
    BY <1>5, ZenonT(40) DEF SM!NextMessage, SM!Respond
<1>6. ASSUME NEW p \in Procs, SM!Clear(p) \/ SM!WriteBegin(p) \/ SM!WriteEnd(p) PROVE SmMutexInv'
    BY <1>6, ZenonT(40) DEF SM!Clear, SM!WriteBegin, SM!WriteEnd
<1>7. ASSUME NEW p \in Procs, SM!Lock(p) \/ SM!Unlock(p) PROVE SmMutexInv'
    BY <1>7, ZenonT(40) DEF SM!Lock, SM!Unlock
<1>8. ASSUME NEW p \in Procs, SM!Count(p) \/ SM!PrintBegin(p) \/ SM!PrintEnd(p) PROVE SmMutexInv'
    BY <1>8, ZenonT(40) DEF SM!Count, SM!PrintBegin, SM!PrintEnd
<1>9. CASE UNCHANGED SM!vars
    BY <1>9, Zenon DEF SM!vars
<1> HIDE DEF SmMutexInv
<1> QED
    BY <1>1, <1>2, <1>3, <1>4, <1>5, <1>6, <1>7, <1>8, <1>9, Zenon
       DEF SM!Next, SM!Module, SM!Client, SM!Ioctl

\* Only the holder of the mutex counts and answers.
LEMMA SmCountInvNext ==
    ASSUME SM!Nobody \notin Procs, SmMutexInv, SmCountInv, [SM!Next]_(SM!vars)
    PROVE  SmCountInv'
<1> USE DEF SmMutexInv, SmCountInv, SmInside, SmCounted, SM!Labels, SM!Goto, SM!areas
<1>1. CASE SM!shared_memory_demo_init
    <2>1. \A p \in Procs : pc_sm[p] = "off"
        BY <1>1, Zenon DEF SM!shared_memory_demo_init, SM!DM!InitBegin
    <2> QED
        BY <1>1, <2>1, ZenonT(40) DEF SM!shared_memory_demo_init
<1>2. CASE SM!DM!Lifecycle /\ UNCHANGED <<SM!areas, mutex_sm, msg_count, pc_sm, message, input,
    served, alone_sm>>
    BY <1>2, Zenon
<1>3. ASSUME NEW p \in Procs, SmQuiet(p) PROVE SmCountInv'
    BY <1>3, ZenonT(40) DEF SmQuiet, SM!OpenDevice, SM!shared_mem_mmap, SM!MmapFails, SM!NextMessage,
                SM!Respond, SM!Quit,
                SM!CloseDevice
<1>4. ASSUME NEW p \in Procs, SM!Clear(p) \/ SM!WriteBegin(p) \/ SM!WriteEnd(p) \/ SM!Lock(p)
      PROVE  SmCountInv'
    BY <1>4, ZenonT(40) DEF SM!Clear, SM!WriteBegin, SM!WriteEnd, SM!Lock
<1>5. ASSUME NEW p \in Procs, SM!Count(p) PROVE SmCountInv'
    <2>1. pc_sm'[p] = "snprintf" /\ \A q \in Procs : pc_sm[q] \notin SmCounted
        BY <1>5, ZenonT(40) DEF SM!Count
    <2> QED
        BY <1>5, <2>1 DEF SM!Count
<1>6. ASSUME NEW p \in Procs, SM!PrintBegin(p) \/ SM!PrintEnd(p) PROVE SmCountInv'
    <2>1. /\ pc_sm[p] \in SmCounted /\ pc_sm'[p] \in SmCounted
          /\ kernel_to_user' \in {<<msg_count, input[p]>>, <<msg_count, SM!Torn>>, SM!Torn}
        BY <1>6, ZenonT(40) DEF SM!PrintBegin, SM!PrintEnd
    <2>2. kernel_to_user' \notin {SM!Empty, SM!Torn} => kernel_to_user'[1] = msg_count
        BY <2>1
    <2> QED
        BY <1>6, <2>1, <2>2, ZenonT(40) DEF SM!PrintBegin, SM!PrintEnd
<1>7. ASSUME NEW p \in Procs, SM!Unlock(p) PROVE SmCountInv'
    <2>1. /\ pc_sm[p] \in SmCounted
          /\ \A q \in Procs : pc_sm'[q] \notin SmCounted /\ pc_sm[q] # "snprintf"
        BY <1>7, ZenonT(40) DEF SM!Unlock
    <2> QED
        BY <1>7, <2>1, ZenonT(40) DEF SM!Unlock
<1>8. CASE UNCHANGED SM!vars
    BY <1>8, Zenon DEF SM!vars
<1> HIDE DEF SmCountInv
<1> QED
    BY <1>1, <1>2, <1>3, <1>4, <1>5, <1>6, <1>7, <1>8, ZenonT(40)
       DEF SM!Next, SM!Module, SM!Client, SM!Ioctl, SmQuiet

-----------------------------------------------------------------------------
\* A client stays alone only while the others do nothing that matters to it.
LEMMA SmEchoInvNext ==
    ASSUME SM!Nobody \notin Procs, SmMutexInv, SmEchoInv, [SM!Next]_(SM!vars)
    PROVE  SmEchoInv'
<1> USE DEF SmMutexInv, SmEchoInv, SmInside, SmEarly, SM!Labels, SM!Goto, SM!areas, SM!Disturb
<1>1. CASE SM!shared_memory_demo_init
    <2>1. \A p \in Procs : pc_sm[p] = "off" /\ pc_sm'[p] = "off"
        BY <1>1, Zenon DEF SM!shared_memory_demo_init, SM!DM!InitBegin
    <2> QED
        BY <1>1, <2>1, ZenonT(40) DEF SM!shared_memory_demo_init
<1>2. CASE SM!DM!Lifecycle /\ UNCHANGED <<SM!areas, mutex_sm, msg_count, pc_sm, message, input,
    served, alone_sm>>
    BY <1>2, ZenonT(40)
<1>3. ASSUME NEW p \in Procs, SmQuiet(p) PROVE SmEchoInv'
    BY <1>3 DEF SmQuiet, SM!OpenDevice, SM!shared_mem_mmap, SM!MmapFails, SM!NextMessage,
                SM!Respond, SM!Quit,
                SM!CloseDevice
<1>4. ASSUME NEW p \in Procs, SM!Clear(p) PROVE SmEchoInv'
    BY <1>4, ZenonT(40) DEF SM!Clear
<1>5. ASSUME NEW p \in Procs, SM!WriteBegin(p) \/ SM!WriteEnd(p) PROVE SmEchoInv'
    BY <1>5 DEF SM!WriteBegin, SM!WriteEnd
<1>6. ASSUME NEW p \in Procs, SM!Lock(p) \/ SM!Unlock(p) PROVE SmEchoInv'
    BY <1>6 DEF SM!Lock, SM!Unlock
<1>7. ASSUME NEW p \in Procs, SM!Count(p) \/ SM!PrintBegin(p) PROVE SmEchoInv'
    BY <1>7 DEF SM!Count, SM!PrintBegin
<1>8. ASSUME NEW p \in Procs, SM!PrintEnd(p) PROVE SmEchoInv'
    BY <1>8, ZenonT(40) DEF SM!PrintEnd
<1>9. CASE UNCHANGED SM!vars
    BY <1>9, ZenonT(40) DEF SM!vars
<1> HIDE DEF SmEchoInv
<1> QED
    BY <1>1, <1>2, <1>3, <1>4, <1>5, <1>6, <1>7, <1>8, <1>9, ZenonT(40)
       DEF SM!Next, SM!Module, SM!Client, SM!Ioctl, SmQuiet

-----------------------------------------------------------------------------
\* The modules come and go as DeviceModule does, proved there.
LB == INSTANCE DeviceModule_proofs WITH
          Objects <- BD!Objects, mapped <- {}, phase <- phase_bd, made <- made_bd,
          opened <- opened_bd

LS == INSTANCE DeviceModule_proofs WITH
          Objects <- SM!Objects, mapped <- mapped_sm, phase <- phase_sm, made <- made_sm,
          opened <- opened_sm

\* The module of the disk comes and goes as every device module
\* (block_demo.c:124-246).
LEMMA BdLife == BD!Spec => LB!Spec
<1>1. BD!Init => LB!Init
    BY ZenonT(40) DEF BD!Init, BD!DM!Init, LB!Init
<1>2. [BD!Next]_(BD!vars) => [LB!Next]_(LB!vars)
    <2> SUFFICES ASSUME [BD!Next]_(BD!vars) PROVE [LB!Next]_(LB!vars)
        BY ZenonT(40)
    <2> USE DEF LB!Next
    <2>1. CASE BD!simple_block_init
        BY <2>1, ZenonT(40) DEF BD!simple_block_init, BD!DM!InitBegin, LB!InitBegin
    <2>2. CASE BD!DM!Lifecycle
        BY <2>2, ZenonT(40)
           DEF BD!DM!Lifecycle, BD!DM!Make, BD!DM!MakeFails, BD!DM!ExitBegin, BD!DM!Undo,
                    BD!DM!Gone, BD!DM!ButLast, LB!ButLast,
                    LB!Lifecycle, LB!Make, LB!MakeFails, LB!ExitBegin, LB!Undo, LB!Gone
    <2>3. ASSUME NEW p \in Procs, BD!example_block_open(p) PROVE LB!Next
        BY <2>3, ZenonT(40) DEF BD!example_block_open, BD!DM!Open, LB!Open
    <2>4. ASSUME NEW p \in Procs, BD!example_block_release(p) PROVE LB!Next
        BY <2>4, ZenonT(40) DEF BD!example_block_release, BD!DM!Close, LB!Close
    <2>5. CASE UNCHANGED BD!device
        BY <2>5, ZenonT(40) DEF BD!device, LB!vars
    <2>6. ASSUME NEW p \in Procs, BD!simple_queue_rq(p) PROVE UNCHANGED BD!device
        BY <2>6, ZenonT(40) DEF BD!simple_queue_rq, BD!simple_handle_bio, BD!EndRequest
    <2>7. \A p, write, first, shape, v : BD!Submit(p, write, first, shape, v)
              => UNCHANGED BD!device
        BY DEF BD!Submit
    <2> QED
        BY <2>1, <2>2, <2>3, <2>4, <2>5, <2>6, <2>7, ZenonT(40) DEF BD!Next, BD!Module, BD!vars
<1> QED
    BY <1>1, <1>2, PTL DEF BD!Spec, LB!Spec

\* The module of the shared memory comes and goes as every device module
\* (shared_memory_demo.c:131-222).
LEMMA SmLife == SM!Spec => LS!Spec
<1>1. SM!Init => LS!Init
    BY ZenonT(40) DEF SM!Init, SM!DM!Init, LS!Init
<1>2. [SM!Next]_(SM!vars) => [LS!Next]_(LS!vars)
    <2> SUFFICES ASSUME [SM!Next]_(SM!vars) PROVE [LS!Next]_(LS!vars)
        BY Zenon
    <2> USE DEF LS!Next
    <2>1. CASE SM!shared_memory_demo_init
        BY <2>1, ZenonT(40) DEF SM!shared_memory_demo_init, SM!DM!InitBegin, LS!InitBegin
    <2>2. CASE SM!DM!Lifecycle
        BY <2>2, ZenonT(40)
           DEF SM!DM!Lifecycle, SM!DM!Make, SM!DM!MakeFails, SM!DM!ExitBegin, SM!DM!Undo,
                    SM!DM!Gone, SM!DM!ButLast, LS!ButLast,
                    LS!Lifecycle, LS!Make, LS!MakeFails, LS!ExitBegin, LS!Undo, LS!Gone
    <2>3. ASSUME NEW p \in Procs, SM!OpenDevice(p) PROVE LS!Next
        BY <2>3, ZenonT(40) DEF SM!OpenDevice, SM!DM!Open, LS!Open
    <2>4. ASSUME NEW p \in Procs, SM!MmapFails(p) \/ SM!CloseDevice(p) PROVE LS!Next
        BY <2>4, ZenonT(40) DEF SM!MmapFails, SM!CloseDevice, SM!DM!Close, LS!Close
    <2>5. ASSUME NEW p \in Procs, SM!shared_mem_mmap(p) \/ SM!Quit(p) PROVE LS!Next
        BY <2>5, ZenonT(40)
           DEF SM!shared_mem_mmap, SM!Quit, SM!DM!Mmap, SM!DM!Munmap, LS!Mmap, LS!Munmap
    <2>6. CASE UNCHANGED SM!device
        BY <2>6, ZenonT(40) DEF SM!device, LS!vars
    <2> QED
        BY <2>1, <2>2, <2>3, <2>4, <2>5, <2>6, ZenonT(40)
           DEF SM!Next, SM!Module, SM!Client, SM!Ioctl, SM!NextMessage, SM!Clear, SM!WriteBegin,
               SM!WriteEnd, SM!Respond, SM!Lock, SM!Count, SM!PrintBegin, SM!PrintEnd, SM!Unlock,
               SM!vars
<1> QED
    BY <1>1, <1>2, PTL DEF SM!Spec, LS!Spec

-----------------------------------------------------------------------------
\* The invariants of the disk hold in every state.
LEMMA BdCorrect == BD!Spec => [](BdRequestInv /\ BdPagesInv /\ BdMovedInv)
<1>1. BdCuts
    BY BufferAssumption, ZenonT(40) DEF BdCuts
<1>2. BD!Init => BdRequestInv /\ BdPagesInv /\ BdMovedInv
    BY <1>1, BdRequestInit, ZenonT(40)
<1>3. BdRequestInv /\ BdPagesInv /\ BdMovedInv /\ [BD!Next]_(BD!vars)
      => (BdRequestInv /\ BdPagesInv /\ BdMovedInv)'
    BY <1>1, BdRequestNext, BdPagesNext, BdMovedNext, ZenonT(40)
<1> QED
    BY <1>2, <1>3, PTL DEF BD!Spec

\* The invariants of the shared memory hold in every state.
LEMMA SmCorrect == SM!Spec => [](SmMutexInv /\ SmCountInv /\ SmEchoInv)
<1>1. SM!Nobody \notin Procs
    BY BufferAssumption, ZenonT(40)
<1>2. SM!Init => SmMutexInv /\ SmCountInv /\ SmEchoInv
    BY <1>1, SmInvInit, ZenonT(40)
<1>3. SmMutexInv /\ SmCountInv /\ SmEchoInv /\ [SM!Next]_(SM!vars)
      => (SmMutexInv /\ SmCountInv /\ SmEchoInv)'
    BY <1>1, SmMutexInvNext, SmCountInvNext, SmEchoInvNext, ZenonT(40)
<1> QED
    BY <1>2, <1>3, PTL DEF SM!Spec

\* What the two init functions obtain is a list with something in it.
LEMMA Lists ==
    /\ BD!Objects \in Seq({"dev", "data", "major", "tag_set", "disk", "added"})
    /\ BD!Objects # <<>>
    /\ SM!Objects \in Seq({"dev", "buffer", "region", "cdev", "class", "node"})
    /\ SM!Objects # <<>>
BY DEF BD!Objects, SM!Objects

\* What is proved of a device module holds for both.
LEMMA LivesOrderly ==
    /\ LB!Spec => [](LB!TypeOK /\ LB!BufferOutlivesUsers /\ LB!NothingLeftBehind)
    /\ LS!Spec => [](LS!TypeOK /\ LS!BufferOutlivesUsers /\ LS!NothingLeftBehind)
<1>1. LB!Spec => []LB!TypeOK
    BY Lists, LB!TypeCorrect, ZenonT(40)
<1>2. LB!Spec => []LB!BufferOutlivesUsers
    BY Lists, LB!UsersFindAll, ZenonT(40)
<1>3. LB!Spec => []LB!NothingLeftBehind
    BY Lists, LB!AllOrNothing, ZenonT(40)
<1>4. LS!Spec => []LS!TypeOK
    BY Lists, LS!TypeCorrect, ZenonT(40)
<1>5. LS!Spec => []LS!BufferOutlivesUsers
    BY Lists, LS!UsersFindAll, ZenonT(40)
<1>6. LS!Spec => []LS!NothingLeftBehind
    BY Lists, LS!AllOrNothing, ZenonT(40)
<1> QED
    BY <1>1, <1>2, <1>3, <1>4, <1>5, <1>6, PTL

\* Every ioctl is counted once and answered with its number, and a client that
\* no other one disturbs reads the echo of its own message
\* (shared_memory_demo.c:60-73, shared_mem_test.c:70-83).
THEOREM AnswersRightAlways == SM!Spec => []AnswersRight
<1>1. SmMutexInv /\ SmCountInv => SM!AnswersNumbered
    BY BufferAssumption, ZenonT(40)
       DEF SmMutexInv, SmCountInv, SM!AnswersNumbered, SmInside, SmCounted
<1>2. SmEchoInv => SM!UndisturbedEcho
    BY ZenonT(40) DEF SmEchoInv, SM!UndisturbedEcho
<1>3. SmMutexInv /\ SmCountInv /\ SmEchoInv => AnswersRight
    BY <1>1, <1>2, ZenonT(40) DEF AnswersRight
<1> QED
    BY <1>3, SmCorrect, PTL

\* However a request is cut into bios and segments, and whatever other requests
\* run beside it, it has moved each of its sectors to its place when it is ended
\* with BLK_STS_OK, unless one of them went to the same sectors
\* (block_demo.c:34-46, 66-78, 94-100).
THEOREM TransfersWholeAlways == BD!Spec => []TransfersWhole
<1>1. BdRequestInv /\ BdPagesInv /\ BdMovedInv => TransfersWhole
    BY BufferAssumption, BdMoved, ZenonT(40) DEF BdCuts, TransfersWhole
<1> QED
    BY <1>1, BdCorrect, PTL

\* While a file or a mapping is in use the module stays with all it made; init
\* is all or nothing and exit gives everything back
\* (shared_memory_demo.c:131-222, block_demo.c:124-246).
THEOREM OrderlyUnloadAlways == SM!Spec /\ BD!Spec => []OrderlyUnload
<1>1. /\ LS!BufferOutlivesUsers /\ LS!NothingLeftBehind
      /\ LB!BufferOutlivesUsers /\ LB!NothingLeftBehind
      => OrderlyUnload
    BY ZenonT(40) DEF OrderlyUnload, LS!BufferOutlivesUsers, SM!DM!BufferOutlivesUsers,
           LS!NothingLeftBehind, SM!DM!NothingLeftBehind, LB!BufferOutlivesUsers,
           BD!DM!BufferOutlivesUsers, LB!NothingLeftBehind, BD!DM!NothingLeftBehind
<1> QED
    BY <1>1, SmLife, BdLife, LivesOrderly, PTL

\* Disk, pages and requests keep their types: no iterator leaves the request and
\* no sector the disk (block_demo.c:48-84).
THEOREM DiskTyped == BD!Spec => []BD!TypeOK
<1>1. BdRequestInv /\ BdPagesInv /\ LB!TypeOK => BD!TypeOK
    <2>1. LB!TypeOK => BD!DM!TypeOK
        BY Zenon DEF LB!TypeOK, BD!DM!TypeOK, LB!ObjectSet, BD!DM!ObjectSet
    <2> QED
        BY <2>1, BufferAssumption, BdTypes, ZenonT(40) DEF BdCuts
<1> QED
    BY <1>1, BdCorrect, BdLife, LivesOrderly, PTL
=============================================================================
