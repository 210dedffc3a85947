-------------------------------- MODULE DiscRip --------------------------------
(***************************************************************************)
(* The part of frontends/xml/vcd_xml_rip.c that turns the sectors of a     *)
(* disc back into streams, and what it finds of pauses and entries on the  *)
(* way: vcdxrip.  It reads a disc by INFO and ENTRIES alone.               *)
(***************************************************************************)
EXTENDS TrackImage, PbcRip

(* What the loops carry: mpeg_ctx.stream.min_pts, last_pts and the sectors done *)
NothingRead == [min |-> NoPts, last |-> 0, packets |-> <<>>, pauses |-> <<>>, entries |-> {}]

\* vcd_mpeg_parse_packet and last_pts: the time of a packet counts from the lowest so far.
Streamed(read, packet) ==
    LET min == IF read.min = NoPts THEN packet.pts ELSE Min({read.min, packet.pts})
    IN  IF packet.pts = NoPts THEN read ELSE [read EXCEPT !.min = min, !.last = packet.pts - min]

\* A sector that may ask for a pause.
Paused(read, sector) ==
    IF "TRIG" \in sector.sm THEN [read EXCEPT !.pauses = Append(@, read.last)] ELSE read

-----------------------------------------------------------------------------
(* Segments *)

\* _parse_info: the first of the segments of each item, counted from 0, and how many.
SegmentItems(spi_contents) ==
    LET first == SelectSeq([i \in DOMAIN spi_contents |-> i], LAMBDA i : ~spi_contents[i].item_cont)
        Behind(n) == IF n = Len(first) THEN Len(spi_contents) + 1 ELSE first[n + 1]
    IN  [n \in DOMAIN first |-> [id |-> <<"segment", first[n] - 1>>, count |-> Behind(n) - first[n]]]

\* A sector that belongs to nothing.
Unused(sector) == sector.fn = 0 /\ sector.cn = 0 /\ sector.sm \subseteq {"FORM2"}

\* _rip_segments, of one: up to the end of the file, or of the segments.
RippedSegment(sectors) ==
    LET ends == {k \in DOMAIN sectors : "EOF" \in sectors[k].sm}
        unused == {k \in DOMAIN sectors : Unused(sectors[k])}
        last == Min({Len(sectors)} \cup ends \cup {k - 1 : k \in unused})
        Sector(read, sector) ==
            LET streamed == Streamed(read, sector.data)
            IN  [Paused(streamed, sector) EXCEPT !.packets = Append(@, sector.data)]
    IN  FoldLeft(Sector, NothingRead, SubSeq(sectors, 1, last))

\* The sectors a segment item has on a disc: start is counted from the first segment.
ItemSectors(segment_sectors, start, count) ==
    SubSeq(segment_sectors, (start * SEGMENT_SECTORS) + 1, (start + count) * SEGMENT_SECTORS)

RippedSegments(info, segment_sectors) ==
    LET items == SegmentItems(info.spi_contents)
    IN  [n \in DOMAIN items |->
            LET read == RippedSegment(ItemSectors(segment_sectors, items[n].id[2], items[n].count))
            IN  [id |-> items[n].id, autopause_list |-> read.pauses, stream |-> read.packets]]

-----------------------------------------------------------------------------
(* Sequences *)

\* _parse_entries: the first entry of a track is that of its start, the others are access
\* points.
SequenceItems(entries) ==
    LET first == SelectSeq([i \in DOMAIN entries |-> i],
                           LAMBDA i : i = 1 \/ entries[i].n # entries[i - 1].n)
        Behind(n) == IF n = Len(first) THEN Len(entries) + 1 ELSE first[n + 1]
        Extent(i) == MsfToLsn(entries[i].msf)
    IN  [n \in DOMAIN first |->
            [id |-> <<"sequence", entries[first[n]].n - 2>>,
             default_entry_id |-> <<"entry", first[n] - 1>>,
             start_extent |-> Extent(first[n]),
             points |-> [i \in 1 .. Behind(n) - first[n] - 1 |->
                            [id |-> <<"entry", first[n] + i - 1>>, extent |-> Extent(first[n] + i)]]]]

\* Mutant: the numbers of the channel and of the file change places.
InData_file(sectors, k) == \E j \in 1 .. k : sectors[j].fn # 0

\* The loop of _rip_sequences is in the data from the first channel number on.
InData(sectors, k) == \E j \in 1 .. k : sectors[j].cn # 0

\* Where the loop ends: behind the end of the file, or at a sector that is no part of it.
RippedUpTo(sectors) ==
    LET stops == {k \in DOMAIN sectors :
                    \/ "FORM2" \notin sectors[k].sm
                    \/ k > 1 /\ InData(sectors, k - 1) /\ (sectors[k].fn = 0 \/ "REALT" \notin sectors[k].sm)}
        ends == {k \in DOMAIN sectors : "EOF" \in sectors[k].sm}
    IN  Min({Len(sectors)} \cup ends \cup {k - 1 : k \in stops})

\* _rip_sequences, of one, the first sector being start_extent: what is behind the last
\* packet that is not zero is truncated; an entry gets the time of the last packet that
\* had one.
RippedSequence(sectors, start_extent, points) ==
    LET Sector(read, k) ==
            LET streamed == Streamed(read, sectors[k].data)
                here == {i \in DOMAIN points : points[i].extent = start_extent + k - 1}
            IN  IF ~InData(sectors, k) THEN read
                ELSE [Paused(streamed, sectors[k]) EXCEPT
                        !.packets = IF read.packets = <<>> /\ sectors[k].data.kind = "zero" THEN @
                                    ELSE Append(@, sectors[k].data),
                        !.entries = @ \cup {<<i, streamed.last>> : i \in here}]
        read == FoldLeft(Sector, NothingRead, [k \in 1 .. RippedUpTo(sectors) |-> k])
        nonzero == {k \in DOMAIN read.packets : read.packets[k].kind # "zero"}
    IN  [read EXCEPT !.packets = SubSeq(@, 1, IF nonzero = {} THEN 0 ELSE Max(nonzero))]

\* The sequences of a disc whose tracks are in the sectors from first on.
RippedSequences(entries, sectors, first) ==
    LET items == SequenceItems(entries)
        End(n) == IF n = Len(items) THEN first + Len(sectors) ELSE items[n + 1].start_extent
        Read(n) == RippedSequence(SubSeq(sectors, items[n].start_extent - first + 1, End(n) - first),
                                  items[n].start_extent, items[n].points)
        Time(read, i) ==
            LET times == {entry \in read.entries : entry[1] = i}
            IN  IF times = {} THEN 0 ELSE (CHOOSE entry \in times : TRUE)[2]
    IN  [n \in DOMAIN items |->
            LET read == Read(n)
            IN  [id |-> items[n].id, default_entry_id |-> items[n].default_entry_id,
                 entry_point_list |-> [i \in DOMAIN items[n].points |->
                    [id |-> items[n].points[i].id, timestamp |-> Time(read, i)]],
                 autopause_list |-> read.pauses, stream |-> read.packets]]
=============================================================================
