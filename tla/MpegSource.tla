------------------------------ MODULE MpegSource ------------------------------
(***************************************************************************)
(* mpeg_stream.c: a stream is scanned once, from end to end, and its       *)
(* packets are then fetched by number, in any order, with a cached         *)
(* position that makes fetching them in order cheap.  One step is one      *)
(* packet read, or a call.                                                 *)
(***************************************************************************)
EXTENDS MpegPackets, DataStreams

CONSTANTS
    Files,          \* the streams
    SCAN_WINDOW     \* how far the scan offsets back and forward reach: 10 s

ASSUME FilesAssumption ==
    /\ \A f \in Files : IsStream(f)
    /\ SCAN_WINDOW \in Nat

VARIABLES
    file,           \* the stream, and is_strict: the scan's strict_aps
    data_source,
    scanned,
    info,           \* the info of the scan
    read_pkt,       \* _read_pkt_pos and _read_pkt_no
    pc, pos, pno,   \* the call being served and its locals
    ctx,            \* its parser context: state
    want,           \* the packet that is fetched, and fix_scan_info
    got,            \* what the last call left in the caller's buffers
    split           \* history: where the scan found each packet, [from, length]

vars == <<file, data_source, scanned, info, read_pkt, pc, pos, pno, ctx, want, got, split>>

NothingGot == [no |-> -1, from |-> 0, length |-> 0, packet |-> NoPacket, scan |-> <<>>]

\* vcd_mpeg_source_new
Init ==
    /\ file \in Files
    /\ data_source = Source
    /\ scanned = FALSE
    /\ info = NoStream
    /\ read_pkt = [pos |-> 0, no |-> 0]
    /\ pc = "idle"
    /\ pos = 0
    /\ pno = 0
    /\ ctx = [stream |-> NoStream, packet |-> NoPacket]
    /\ want = [no |-> 0, fix |-> FALSE, strict |-> FALSE]
    /\ got = NothingGot
    /\ split = <<>>

\* vcd_data_source_stat: the size of the file when the source was made.
Stat == Length(file)

\* What one turn of a loop reads into buf.
ReadLength == SourceRead(data_source, IF PACKET_SIZE < Stat - pos THEN PACKET_SIZE ELSE Stat - pos,
                         Stat)

-----------------------------------------------------------------------------
(* vcd_mpeg_source_scan                                                    *)

Scan(strict_aps) ==
    /\ pc = "idle"
    /\ ~scanned
    /\ pc' = "scan"
    /\ pos' = 0
    /\ pno' = 0
    /\ ctx' = [stream |-> NoStream, packet |-> NoPacket]
    /\ want' = [want EXCEPT !.strict = strict_aps]
    /\ data_source' = SourceSought(data_source, 0)
    /\ UNCHANGED <<file, scanned, info, read_pkt, got, split>>

IsAccessPoint(packet, strict) ==
    packet.aps \in {"SGI", "ASGI"} \/ (~strict /\ packet.aps \in {"I", "GI"})

\* The access point of packet no goes to the list of its stream.
Collected(c, no, strict) ==
    IF IsAccessPoint(c.packet, strict)
    THEN [c EXCEPT !.stream.aps_list[c.packet.aps_idx] =
            Append(@, [packet_no |-> no, timestamp |-> c.packet.aps_pts])]
    ELSE c

\* Mutant: a short packet is padded, but the source is not sought back to the
\* next one.
NextPacket_nopad(source, read, length, at) == SourceAdvanced(source, read)

\* The source behind a packet of that length of which read units were read: a
\* short packet is padded, and the source sought back to the next.
NextPacket(source, read, length, at) ==
    LET after == SourceAdvanced(source, read)
    IN  IF length # read THEN SourceSought(after, at + length) ELSE after

\* One turn of the loop.  What is behind a bad packet is ignored.
ScanPacket ==
    /\ pc = "scan"
    /\ pos < Stat
    /\ \E p \in {ParsePacket(file, data_source.at, ReadLength, TRUE, ctx)} :
           IF p.ret = 0
           THEN /\ pc' = IF pno = 0 THEN "exited" ELSE pc
                /\ pos' = Stat
                /\ ctx' = p.ctx
                /\ data_source' = SourceAdvanced(data_source, ReadLength)
                /\ UNCHANGED <<pno, split>>
           ELSE /\ ctx' = Collected(p.ctx, pno, want.strict)
                /\ pos' = pos + p.ret
                /\ pno' = pno + 1
                /\ data_source' = NextPacket(data_source, ReadLength, p.ret, pos)
                /\ split' = Append(split, [from |-> pos, length |-> p.ret])
                /\ UNCHANGED pc
    /\ UNCHANGED <<file, scanned, info, read_pkt, want, got>>

\* What is kept of the stream: timestamps count from the first one.
Concluded(stream) ==
    [stream EXCEPT
        !.playing_time = stream.max_pts - stream.min_pts,
        !.aps_list = [v \in 0 .. 2 |-> [k \in DOMAIN stream.aps_list[v] |->
            [stream.aps_list[v][k] EXCEPT !.timestamp = @ - stream.min_pts]]]]

ScanEnd ==
    /\ pc = "scan"
    /\ pos >= Stat
    /\ data_source' = SourceClosed(data_source)
    /\ IF pos = Stat
       THEN /\ info' = Concluded(ctx.stream)
            /\ scanned' = TRUE
            /\ pc' = "idle"
       ELSE pc' = "aborted" /\ UNCHANGED <<info, scanned>>
    /\ UNCHANGED <<file, read_pkt, pos, pno, ctx, want, got, split>>

-----------------------------------------------------------------------------
(* vcd_mpeg_source_get_packet                                              *)

\* Mutant: no way back.
StartFor_forward(no) == read_pkt

\* Where the search for a packet begins: behind the last one fetched, or from the
\* start of the stream.
StartFor(no) == IF no < read_pkt.no THEN [pos |-> 0, no |-> 0] ELSE read_pkt

\* Mutant: the number of the packet that was fetched is kept.
Behind_same(at, length, no) == [pos |-> at + length, no |-> no]

\* The place of the next packet.
Behind(at, length, no) == [pos |-> at + length, no |-> no + 1]

\* A number beyond the last packet is an error: the callers never pass one.
GetPacket(no, fix) ==
    LET from == StartFor(no)
    IN  /\ pc = "idle"
        /\ scanned
        /\ no < info.packets
        /\ read_pkt' = from
        /\ want' = [want EXCEPT !.no = no, !.fix = fix]
        /\ ctx' = [stream |-> [NoStream EXCEPT !.seen_pts = TRUE, !.min_pts = info.min_pts],
                   packet |-> NoPacket]
        /\ pos' = from.pos
        /\ pno' = from.no
        /\ data_source' = SourceSought(data_source, from.pos)
        /\ pc' = "get"
        /\ UNCHANGED <<file, scanned, info, got, split>>

\* The time of a packet without a timestamp, as a fraction <<n, d>>: between the
\* access points around it, or beyond the last two.
ApproxPts(list, no) ==
    LET before == {k \in DOMAIN list : list[k].packet_no < no}
        l == Cardinality(before)
        m == IF l < Len(list) THEN l ELSE l - 1
        a == list[l]
        t == IF m < 1 THEN 0 ELSE list[m + 1].timestamp - list[m].timestamp
        p == IF m < 1 THEN 1 ELSE list[m + 1].packet_no - list[m].packet_no
    IN  <<a.timestamp * p + (no - a.packet_no) * t, p>>

\* Less than SCAN_WINDOW, of a fraction.
IsNear(x, y) == x < SCAN_WINDOW * y

\* Mutant: the nearest access point that is less than SCAN_WINDOW back.
Passed_near(t, a, no, pts) ==
    CASE a.packet_no = no -> t
      [] a.packet_no < no ->
           [t EXCEPT !.prev = a.packet_no,
                     !.back = IF IsNear(pts[1] - a.timestamp * pts[2], pts[2])
                              THEN a.packet_no ELSE @]
      [] a.packet_no > no ->
           [t EXCEPT !.next = IF @ = -1 THEN a.packet_no ELSE @,
                     !.forw = IF IsNear(a.timestamp * pts[2] - pts[1], pts[2])
                              THEN a.packet_no ELSE @]

\* _fix_scan_info: the loop passes an access point, before the packet or behind it.
Passed(t, a, no, pts) ==
    CASE a.packet_no = no -> t
      [] a.packet_no < no ->
           [t EXCEPT !.prev = a.packet_no,
                     !.back = IF @ = -1 /\ IsNear(pts[1] - a.timestamp * pts[2], pts[2])
                              THEN a.packet_no ELSE @]
      [] a.packet_no > no ->
           [t EXCEPT !.next = IF @ = -1 THEN a.packet_no ELSE @,
                     !.forw = IF IsNear(a.timestamp * pts[2] - pts[1], pts[2])
                              THEN a.packet_no ELSE @]

NoOffsets == [prev |-> -1, next |-> -1, back |-> -1, forw |-> -1]

\* The access points next to the packet, and those as far as SCAN_WINDOW back and
\* forward; a packet that has none is its own.
ScanOffsets(list, no, pts) ==
    LET s == FoldLeft(LAMBDA t, a : Passed(t, a, no, pts), NoOffsets, list)
    IN  [s EXCEPT !.back = IF @ = -1 THEN no ELSE @, !.forw = IF @ = -1 THEN no ELSE @]

\* The stream whose access points count for a packet.
VidOf(packet) ==
    IF "e2" \in packet.streams THEN 2 ELSE IF "e1" \in packet.streams THEN 1 ELSE 0

Fixes(packet) == want.fix /\ packet.scan_data /\ info.version = 2

\* The scan has seen no access point in the stream of the packet: the list of the
\* stream was never made, and walking it fails.
NoList(packet) == info.aps_list[VidOf(packet)] = <<>>

\* _approx_pts is called where there is no access point before the packet: it
\* takes the place of one that is not there.
NoBase(packet) ==
    /\ ~packet.has_pts
    /\ ~\E k \in DOMAIN info.aps_list[VidOf(packet)] :
          info.aps_list[VidOf(packet)][k].packet_no < pno

CannotFix(packet) == Fixes(packet) /\ (NoList(packet) \/ NoBase(packet))

\* The scan offsets of a packet that can be fixed.
Fixed(packet) ==
    LET list == info.aps_list[VidOf(packet)]
        pts == IF packet.has_pts THEN <<packet.pts - info.min_pts, 1>> ELSE ApproxPts(list, pno)
    IN  IF Fixes(packet) THEN <<ScanOffsets(list, pno, pts)>> ELSE <<>>

\* One turn of the loop: the packet is passed over, or it is the one.
GetNext ==
    /\ pc = "get"
    /\ \E p \in {ParsePacket(file, data_source.at, ReadLength, want.fix, ctx)} :
           LET packet == p.ctx.packet IN
           CASE pos >= Stat \/ p.ret = 0 ->
                  /\ pc' = "aborted"
                  /\ UNCHANGED <<data_source, read_pkt, pos, pno, ctx, got>>
             [] pos < Stat /\ p.ret # 0 /\ pno = want.no ->
                  /\ read_pkt' = Behind(pos, p.ret, pno)
                  /\ data_source' = SourceAdvanced(data_source, ReadLength)
                  /\ IF CannotFix(packet)
                     THEN pc' = "crashed" /\ UNCHANGED got
                     ELSE /\ pc' = "idle"
                          /\ got' = [no |-> pno, from |-> pos, length |-> p.ret,
                                     packet |-> [packet EXCEPT !.pts = @ - info.min_pts],
                                     scan |-> Fixed(packet)]
                  /\ ctx' = p.ctx
                  /\ UNCHANGED <<pos, pno>>
             [] pos < Stat /\ p.ret # 0 /\ pno # want.no ->
                  /\ pos' = pos + p.ret
                  /\ pno' = pno + 1
                  /\ ctx' = p.ctx
                  /\ data_source' = NextPacket(data_source, ReadLength, p.ret, pos)
                  /\ UNCHANGED <<pc, read_pkt, got>>
    /\ UNCHANGED <<file, scanned, info, want, split>>

\* vcd_mpeg_source_close
Close ==
    /\ pc = "idle"
    /\ data_source.is_open
    /\ data_source' = SourceClosed(data_source)
    /\ UNCHANGED <<file, scanned, info, read_pkt, pc, pos, pno, ctx, want, got, split>>

Next ==
    \/ \E strict_aps \in BOOLEAN : Scan(strict_aps)
    \/ ScanPacket
    \/ ScanEnd
    \/ GetNext
    \/ \E no \in 0 .. Len(file) - 1, fix \in BOOLEAN : GetPacket(no, fix)
    \/ Close

Spec == Init /\ [][Next]_vars

-----------------------------------------------------------------------------
(* Properties.                                                             *)

\* Every call is at a place of the stream, the source stands where its position
\* says, and the scan has counted the packets it has passed.
MpegTypeOK ==
    /\ pc \in {"idle", "scan", "get", "exited", "aborted", "crashed"}
    /\ pos \in Nat
    /\ pno \in Nat
    /\ data_source \in [is_open : BOOLEAN, position : Nat, at : Nat]
    /\ data_source.position = data_source.at
    /\ pc = "scan" => ctx.stream.packets = pno /\ Len(split) = pno
    /\ scanned => info.packets = Len(split)

\* A packet is the same when it is fetched, after any other calls, as when it was
\* scanned: the number a table of the disc holds is the place where the packet is
\* written.
FetchedAsScanned ==
    got.no # -1 => [from |-> got.from, length |-> got.length] = split[got.no + 1]

\* Every packet the scan has counted can be fetched.  The exceptions are packets
\* of MPEG-2 that carry scan data and are fetched with update_scan_offsets: those
\* of a stream in which the scan has seen no access point, and those without a
\* timestamp that no access point of their stream comes before.
FetchSucceeds ==
    /\ pc # "aborted"
    /\ pc = "crashed" =>
          LET packet == ctx.packet
              list == info.aps_list[VidOf(packet)]
          IN  /\ want.fix /\ info.version = 2 /\ packet.scan_data
              /\ \/ list = <<>>
                 \/ ~packet.has_pts /\ \A k \in DOMAIN list : list[k].packet_no >= want.no

\* The access points of a stream are in the order of the disc and of time, and
\* within the playing time: the searches of vcd.c, files.c and of the scan data
\* stop at the first that is too far.
AccessPointsOrdered ==
    scanned =>
        \A v \in 0 .. 2 :
            LET list == info.aps_list[v]
            IN  /\ \A k \in 2 .. Len(list) :
                      /\ list[k - 1].packet_no < list[k].packet_no
                      /\ list[k - 1].timestamp <= list[k].timestamp
                /\ \A k \in DOMAIN list :
                      /\ list[k].packet_no < info.packets
                      /\ list[k].timestamp \in 0 .. info.playing_time

Packs == {k \in DOMAIN file : file[k].code = "pack"}

PackEnd(k) ==
    LET later == {j \in Packs : j > k}
    IN  IF later = {} THEN Stat ELSE file[CHOOSE j \in later : \A i \in later : j <= i].at

PackLength(k) == PackEnd(k) - file[k].at

\* A stream that begins with a pack, of packs no longer than a sector, none of
\* which is so little shorter that the start code of the next is cut off.
Regular ==
    /\ file # <<>>
    /\ file[1].code = "pack"
    /\ \A k \in Packs :
          /\ PackLength(k) <= PACKET_SIZE
          /\ PackEnd(k) < Stat =>
                PackLength(k) \notin PACKET_SIZE - CODE_SIZE + 1 .. PACKET_SIZE - 1

\* A regular stream is scanned to its end, whatever the lengths of its packs: one
\* packet for every pack.
AllPacksCounted ==
    scanned /\ Regular => info.packets = Cardinality(Packs)

NumbersOf(list) == {list[k].packet_no : k \in DOMAIN list}

Lowest(S, default) == IF S = {} THEN default ELSE CHOOSE x \in S : \A y \in S : x <= y
Highest(S, default) == IF S = {} THEN default ELSE CHOOSE x \in S : \A y \in S : x >= y

\* The scan offsets of the packet of number no at time pts, in a list of access
\* points: the points next to it, and those farthest from it that are less than
\* SCAN_WINDOW earlier, before it, and later, behind it.
NearNumbers(list, no, pts) ==
    {list[k].packet_no : k \in {j \in DOMAIN list :
        IF list[j].packet_no < no THEN pts - list[j].timestamp < SCAN_WINDOW
                                  ELSE list[j].timestamp - pts < SCAN_WINDOW}}

RightOffsets(s, list, no, pts) ==
    /\ s.prev = Highest({n \in NumbersOf(list) : n < no}, -1)
    /\ s.next = Lowest({n \in NumbersOf(list) : n > no}, -1)
    /\ s.back = Lowest({n \in NearNumbers(list, no, pts) : n < no}, no)
    /\ s.forw = Highest({n \in NearNumbers(list, no, pts) : n > no}, no)

\* The scan offsets that are written into a packet whose time is known are right.
ScanOffsetsRight ==
    got.scan # <<>> /\ got.packet.has_pts =>
        RightOffsets(got.scan[1], info.aps_list[VidOf(got.packet)], got.no, got.packet.pts)

=============================================================================
