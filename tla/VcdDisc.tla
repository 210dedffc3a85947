-------------------------------- MODULE VcdDisc --------------------------------
(***************************************************************************)
(* A disc on its way from an author to a reader: the lists of playback     *)
(* control are appended and laid out (lib/vcd.c, lib/pbc.c), the files     *)
(* and the sectors that carry its streams are written (lib/files.c), and   *)
(* are read again, by a player that asks lib/info.c, or by vcdxrip, which  *)
(* makes streams and a description of the disc, of which vcdxbuild makes   *)
(* another disc.                                                           *)
(***************************************************************************)
EXTENDS VcdInfo, DiscRip, VideocdXml

CONSTANTS
    Inputs,        \* what authors make: records [disc, pbc], the disc without its places
    MARGIN,        \* the margins of a track, front and rear, that vcd_obj_new sets
    PSD_MAX        \* the size of a PSD that vcdinfo_read_psd refuses to exceed

ASSUME DiscAssumption ==
    /\ PSD_MAX \in Nat
    /\ MARGIN \in Nat

VARIABLES
    input,         \* what the author has
    pbc_list,      \* the lists appended so far, as the author made them
    disc,          \* the disc, its items in their places
    computed,      \* the computed values of the lists laid out so far: [lid, offset, offset_ext]
    psd_end,       \* where the loop of _vcd_pbc_finalize is in the PSD, and in the extended one
    files,         \* the files of the disc, once they are written
    pc,            \* where the author, or the reader, is
    ctx,           \* what the reader visits
    n,             \* the next slot of the LOT
    todo,          \* the calls of vcdinf_visit_pbc that are to be made
    list,          \* the offset list so far
    ok,            \* no visit failed
    vcd,           \* what the library has of the disc
    xml,           \* the description that vcdxrip has made
    original       \* the disc that this one is made of, if it is

writerVars == <<input, pbc_list, disc, computed, psd_end, files>>
visitVars == <<ctx, n, todo, list, ok>>
vars == <<writerVars, pc, visitVars, vcd, xml, original>>

NoFiles == [psd_size |-> 0]
NoCtx == [extended |-> FALSE]
NoVcd == [info |-> <<>>]
NoItems == [sequences |-> <<>>, segments |-> <<>>]
NoXml == [type |-> "invalid"]

Init ==
    /\ input \in Inputs
    /\ pbc_list = <<>>
    /\ disc = NoItems
    /\ computed = <<>>
    /\ psd_end = [normal |-> 0, extended |-> 0]
    /\ files = NoFiles
    /\ pc = "author"
    /\ ctx = NoCtx
    /\ n = 1
    /\ todo = <<>>
    /\ list = <<>>
    /\ ok = TRUE
    /\ vcd = NoVcd
    /\ xml = NoXml
    /\ original = NoItems

Type == input.disc.type

-----------------------------------------------------------------------------
(* The author *)

\* vcd_obj_append_pbc_node, of the next list.  What a selection list plays must not be
\* there yet, be it an item or a list: the call looks up the wrong id.
AppendPbcNode ==
    /\ pc = "author"
    /\ Len(pbc_list) < Len(input.pbc)
    /\ LET pbc == input.pbc[Len(pbc_list) + 1]
           refused == \/ ~HasPbc(Type)
                      \/ /\ pbc.kind = "selection"
                         /\ pbc.items[1] # NoId
                         /\ Taken(disc, pbc_list, pbc.items[1])
       IN  IF refused THEN pc' = "exited" /\ UNCHANGED pbc_list
           ELSE pbc_list' = Append(pbc_list, pbc) /\ UNCHANGED pc
    /\ UNCHANGED <<input, disc, computed, psd_end, files, visitVars, vcd, xml, original>>

\* The sectors of a track before its end.
TrackFile(d, sequence) == d.track_front_margin + sequence.packets + d.track_rear_margin

\* What the scan of a stream, and what is added to it, makes of a sequence.
Scanned(sequence) ==
    sequence @@
    [packets |-> Len(sequence.stream), playing_time |-> PlayingTime(sequence.stream),
     aps_list |-> AccessPoints(sequence.stream), pause_list |-> SortedPauses(sequence.pauses),
     entry_list |-> SortSeq(sequence.entries, LAMBDA ent1, ent2 : ent1.time < ent2.time)]

\* Where sequences start: each behind the pregap and what is before it.
Started(d) ==
    LET scanned == [k \in DOMAIN d.sequences |-> Scanned(d.sequences[k])]
    IN  [k \in DOMAIN scanned |->
            scanned[k] @@
            [relative_start_extent |->
                FoldLeft(LAMBDA end, sequence : end + TrackFile(d, sequence) + d.track_pregap,
                         d.track_pregap, SubSeq(scanned, 1, k - 1))]]

\* The segments an item takes, and where they are: one item behind the other.
Allocated(d) ==
    LET counted == [k \in DOMAIN d.segments |->
                        d.segments[k] @@
                        [packets |-> Len(d.segments[k].stream),
                         pause_list |-> SortedPauses(d.segments[k].pauses),
                         segment_count |-> Len2Blocks(Len(d.segments[k].stream), SEGMENT_SECTORS)]]
    IN  [k \in DOMAIN counted |->
            counted[k] @@
            [start_extent |-> d.mpeg_segment_start_extent
                                + (SegmentsUpTo(counted, k - 1) * SEGMENT_SECTORS)]]

\* _update_entry_points: an entry is at the access point that is nearest to its time.
Entered(d) ==
    [d EXCEPT !.sequences = [k \in DOMAIN @ |->
        [@[k] EXCEPT !.entry_list = [m \in DOMAIN @ |->
            @[m] @@ [packet_no |-> ClosestAps(d.sequences[k].aps_list, @[m].time)]]]]]

\* The ids of the items of a disc.
ItemIds(d) ==
    ({d.sequences[k].id : k \in DOMAIN d.sequences} \cup ToSet(EntryIds(Started(d)))
       \cup {d.segments[k].id : k \in DOMAIN d.segments}) \ {NoId}

\* vcd_obj_append_segment_play_item, vcd_obj_append_sequence_play_item and
\* vcd_obj_add_sequence_entry, and the calls that add pauses, for all items: none has the id
\* of a list.
AppendItems ==
    /\ pc = "author"
    /\ pbc_list = input.pbc
    /\ IF \E id \in ItemIds(input.disc) : LidLookup(pbc_list, id) # 0
       THEN pc' = "exited" /\ UNCHANGED disc
       ELSE /\ disc' = [sequences |-> Started(input.disc), segments |-> Allocated(input.disc)]
                          @@ input.disc
            /\ pc' = "finalize"
    /\ UNCHANGED <<input, pbc_list, computed, psd_end, files, visitVars, vcd, xml, original>>

\* What a disc without an extended PSD says of it.
LengthExt(pbc) == IF HasPbcX(Type) THEN RoundedLength(Type, pbc, TRUE) ELSE 0

\* An iteration of the loop of _vcd_pbc_finalize.
FinalizeNode ==
    /\ pc = "finalize"
    /\ Len(computed) < Len(pbc_list)
    /\ LET pbc == pbc_list[Len(computed) + 1]
           length == RoundedLength(Type, pbc, FALSE)
           end == OfsAdd(psd_end.normal, length, ISO_BLOCKSIZE)
           end_ext == OfsAdd(psd_end.extended, LengthExt(pbc), ISO_BLOCKSIZE)
       IN  /\ psd_end' = [normal |-> end, extended |-> IF HasPbcX(Type) THEN end_ext ELSE 0]
           /\ computed' = Append(computed,
                 [lid |-> Len(computed) + 1, offset |-> end - length,
                  offset_ext |-> IF HasPbcX(Type) THEN end_ext - LengthExt(pbc) ELSE 0])
    /\ UNCHANGED <<input, pbc_list, disc, files, pc, visitVars, vcd, xml, original>>

\* The lists with their computed values.
Lists == [k \in DOMAIN computed |-> pbc_list[k] @@ computed[k]]

\* vcd_obj_begin_output, at its end, and vcd_obj_write_image, which fills the files.
\* Entries need an access point, or an assertion fails.
WriteFiles ==
    /\ pc = "finalize"
    /\ Len(computed) = Len(pbc_list)
    /\ IF \E sequence \in ToSet(disc.sequences) : sequence.entry_list # <<>> /\ sequence.aps_list = <<>>
       THEN pc' = "aborted" /\ UNCHANGED <<disc, files>>
       ELSE IF PbcAvailable(Type, Lists) /\ \E k \in DOMAIN Lists : Unwritable(disc, Lists, Lists[k])
       THEN pc' = "exited" /\ UNCHANGED <<disc, files>>
       ELSE IF NoScanPoints(disc) THEN pc' = "aborted" /\ UNCHANGED <<disc, files>>
       ELSE \E d \in {Entered(disc)} :
            /\ disc' = d
            /\ files' =
                 [info |-> InfoVcd(d, Lists, psd_end.normal),
                  entries |-> EntriesVcd(d),
                  lot |-> LotVcd(Lists, FALSE), psd |-> PsdVcd(d, Lists, FALSE),
                  lot_x |-> IF HasPbcX(Type) THEN LotVcd(Lists, TRUE) ELSE <<>>,
                  psd_x |-> IF HasPbcX(Type) THEN PsdVcd(d, Lists, TRUE) ELSE <<>>,
                  psd_size |-> psd_end.normal, psd_x_size |-> psd_end.extended,
                  unreachable |-> Unreachable(Lists),
                  search |-> IF Has4CSvcd(Type) THEN SearchDat(d) ELSE <<>>,
                  scandata |-> IF Has4CSvcd(Type) THEN ScandataDat(d) ELSE <<>>]
            /\ pc' = "disc"
    /\ UNCHANGED <<input, pbc_list, computed, psd_end, visitVars, vcd, xml, original>>

\* The sectors behind those of the file system, and those of the segments.
TracksImage == FlattenSeq([k \in DOMAIN disc.sequences |-> TrackSectors(disc, k)])
SegmentsImage == FlattenSeq([k \in DOMAIN disc.segments |-> SegmentSectors(disc, disc.segments[k])])

-----------------------------------------------------------------------------
(* The readers *)

\* The tracks as the cue list of the image has them, and the sizes of their files.
Toc ==
    <<0>> \o [k \in DOMAIN disc.sequences |->
                 disc.sequences[k].relative_start_extent + disc.iso_size]
          \o <<LET last == Len(disc.sequences)
               IN  disc.sequences[last].relative_start_extent + disc.iso_size
                     + TrackFile(disc, disc.sequences[last])>>

\* vcdinfo_open, and vcdinfo_read_psd, which ends the program over a PSD that is too big.
OpenDisc ==
    /\ pc = "disc"
    /\ LET type == DetectType(files.info.head)
       IN  IF type = "invalid" THEN pc' = "unknown" /\ UNCHANGED vcd
           ELSE IF files.info.psd_size > PSD_MAX THEN pc' = "exited" /\ UNCHANGED vcd
           ELSE /\ pc' = "open"
                /\ vcd' = [type |-> type, info |-> files.info, entries |-> files.entries,
                           psd |-> files.psd, psd_x |-> files.psd_x,
                           offset_list |-> <<>>, offset_x_list |-> <<>>,
                           seg_sizes |-> InitSegments(files.info.spi_contents,
                              [k \in DOMAIN disc.segments |-> disc.segments[k].packets]),
                           toc |-> Toc, has_xa |-> TRUE,
                           file_sizes |-> [k \in DOMAIN disc.sequences |->
                                              TrackFile(disc, disc.sequences[k])]]
    /\ UNCHANGED <<writerVars, visitVars, xml, original>>

Context(reader, extended) ==
    IF extended
    THEN [reader |-> reader, extended |-> TRUE, psd |-> files.psd_x,
          psd_size |-> files.psd_x_size, lot |-> files.lot_x]
    ELSE [reader |-> reader, extended |-> FALSE, psd |-> files.psd,
          psd_size |-> files.info.psd_size, lot |-> files.lot]

Begin(reader, extended) ==
    /\ Context(reader, extended).psd_size # 0
    /\ pc' = "visit"
    /\ ctx' = Context(reader, extended)
    /\ n' = 1
    /\ todo' = <<>>
    /\ list' = <<>>
    /\ ok' = TRUE

\* vcdinfo_visit_lot, for either PSD, as often as the client likes.
VisitLot(extended) ==
    /\ pc \in {"open", "read"}
    /\ Begin("info", extended)
    /\ UNCHANGED <<writerVars, vcd, xml, original>>

\* _parse_pbc: the extended PSD is taken where there is one, unless the user forbids it.
ParsePbc(no_ext_psd) ==
    /\ pc = "disc"
    /\ Begin("rip", files.info.pbc_x /\ ~no_ext_psd)
    /\ UNCHANGED <<writerVars, vcd, xml, original>>

\* The loop of vcdinf_visit_lot: the next slot of the LOT.
NextSlot ==
    /\ pc = "visit"
    /\ todo = <<>>
    /\ n <= Len(ctx.lot)
    /\ n' = n + 1
    /\ todo' = IF ctx.lot[n] = PSD_OFS_DISABLED THEN <<>>
               ELSE <<[lid |-> n, offset |-> ctx.lot[n], in_lot |-> TRUE]>>
    /\ UNCHANGED <<writerVars, pc, ctx, list, ok, vcd, xml, original>>

\* vcdinf_visit_pbc: one call, before those it makes.
VisitNext ==
    /\ pc = "visit"
    /\ todo # <<>>
    /\ LET visit == VisitPbc(ctx, list, Head(todo))
       IN  /\ list' = visit.list
           /\ todo' = visit.calls \o Tail(todo)
           /\ ok' = (ok /\ visit.ok)
    /\ UNCHANGED <<writerVars, pc, ctx, n, vcd, xml, original>>

Visited == pc = "visit" /\ todo = <<>> /\ n > Len(ctx.lot)

\* The end of vcdinfo_visit_lot.  Both offset lists are new ones: of the other PSD, the
\* library forgets what it knew.  No list at all fails an assertion of _vcd_list_sort.
EndVisit ==
    /\ Visited
    /\ ctx.reader = "info"
    /\ IF list = <<>> THEN pc' = "aborted" /\ UNCHANGED vcd
       ELSE /\ pc' = "read"
            /\ vcd' = LET found == WithAllLids(SortedByLid(list))
                      IN  [vcd EXCEPT !.offset_list = IF ctx.extended THEN <<>> ELSE found,
                                      !.offset_x_list = IF ctx.extended THEN found ELSE <<>>]
    /\ UNCHANGED <<writerVars, visitVars, xml, original>>

\* What vcdxrip has found in INFO, in ENTRIES and in the sectors, and lists.  Segments start
\* at a whole second.
Described(lists) ==
    /\ xml' = [type |-> DetectType(files.info.head),
               segment_list |-> RippedSegments(files.info, SegmentsImage),
               sequence_list |-> RippedSequences(files.entries, TracksImage, disc.iso_size),
               pbc_list |-> lists]
    /\ pc' = IF MsfToLsn(files.info.first_seg_addr) % 75 = 0 THEN "ripped" ELSE "aborted"

\* The end of vcdxrip, with _parse_pbc at its end.
EndRip ==
    /\ Visited
    /\ ctx.reader = "rip"
    /\ list' = SortedByLid(list)
    /\ Described(RippedLists(ctx.psd, SortedByLid(list)))
    /\ UNCHANGED <<writerVars, ctx, n, todo, ok, vcd, original>>

\* vcdxrip of a disc without playback control.
RipItems ==
    /\ pc = "disc"
    /\ files.info.psd_size = 0
    /\ Described(<<>>)
    /\ UNCHANGED <<writerVars, visitVars, vcd, original>>

-----------------------------------------------------------------------------
(* vcdxbuild *)

\* What vcd_xml_master makes of a description: the options are those of a new disc.
NewInput(description) ==
    LET margin == IF Has4CSvcd(description.type) THEN 0 ELSE MARGIN
    IN  [disc |-> [type |-> description.type, iso_size |-> input.disc.iso_size,
                   mpeg_segment_start_extent |-> input.disc.mpeg_segment_start_extent,
                   svcd_vcd3_mpegav |-> FALSE, track_pregap |-> CDIO_PREGAP_SECTORS,
                   track_front_margin |-> margin, track_rear_margin |-> margin,
                   sequences |-> [k \in DOMAIN description.sequence_list |->
                      LET sequence == description.sequence_list[k]
                      IN  [id |-> sequence.id, default_entry_id |-> sequence.default_entry_id,
                           entries |-> [m \in DOMAIN sequence.entry_point_list |->
                              [id |-> sequence.entry_point_list[m].id,
                               time |-> sequence.entry_point_list[m].timestamp]],
                           pauses |-> sequence.autopause_list, stream |-> sequence.stream]],
                   segments |-> [k \in DOMAIN description.segment_list |->
                      LET segment == description.segment_list[k]
                      IN  [id |-> segment.id, pauses |-> segment.autopause_list,
                           stream |-> segment.stream]]],
         pbc |-> description.pbc_list]

\* vcdxbuild, of what vcdxrip has made of a disc, once: the description is written, read
\* and checked, and the next author begins.
BuildAgain ==
    /\ pc = "ripped"
    /\ original = NoItems
    /\ \E document \in {Dumped(xml)} :
          IF ~Valid(document) THEN pc' = "refused" /\ UNCHANGED <<writerVars, visitVars, vcd, xml, original>>
          ELSE /\ input' = NewInput(ParsedXml(document))
               /\ original' = disc
               /\ pbc_list' = <<>>
               /\ disc' = NoItems
               /\ computed' = <<>>
               /\ psd_end' = [normal |-> 0, extended |-> 0]
               /\ files' = NoFiles
               /\ pc' = "author"
               /\ ctx' = NoCtx
               /\ n' = 1
               /\ todo' = <<>>
               /\ list' = <<>>
               /\ ok' = TRUE
               /\ vcd' = NoVcd
               /\ xml' = NoXml

Next ==
    \/ AppendPbcNode
    \/ AppendItems
    \/ FinalizeNode
    \/ WriteFiles
    \/ OpenDisc
    \/ \E extended \in BOOLEAN : VisitLot(extended)
    \/ \E no_ext_psd \in BOOLEAN : ParsePbc(no_ext_psd)
    \/ NextSlot
    \/ VisitNext
    \/ EndVisit
    \/ EndRip
    \/ RipItems
    \/ BuildAgain

Spec == Init /\ [][Next]_vars
-----------------------------------------------------------------------------
(* Properties *)

\* Where the descriptor of the k-th list starts in a PSD, and where it ends.
Start(k, extended) == IF extended THEN computed[k].offset_ext ELSE computed[k].offset
EndOf(k, extended) == Start(k, extended) + RoundedLength(Type, pbc_list[k], extended)
PsdEnd(extended) == IF extended THEN psd_end.extended ELSE psd_end.normal

\* No list is longer than a block: the writer does not look, and a playlist of a thousand
\* items would be.
ListsFit ==
    \A k \in DOMAIN computed, extended \in BOOLEAN :
        NodeLength(Type, pbc_list[k], extended) \in 1 .. ISO_BLOCKSIZE

\* The PSDs that the disc has.
Psds == {extended \in BOOLEAN : extended => HasPbcX(Type)}

\* The layout of both passes of _vcd_pbc_finalize is one a player can use: offsets are
\* whole units, no descriptor crosses the end of a block, none overlaps another, and all
\* are in the size that INFO gives for the PSD.
DescriptorsApart ==
    ListsFit => \A extended \in Psds : \A k \in DOMAIN computed :
        /\ Start(k, extended) % INFO_OFFSET_MULT = 0
        /\ Start(k, extended) \div ISO_BLOCKSIZE = (EndOf(k, extended) - 1) \div ISO_BLOCKSIZE
        /\ \A j \in 1 .. k - 1 : EndOf(j, extended) <= Start(k, extended)
        /\ EndOf(k, extended) <= PsdEnd(extended)

Offset(k, extended) == Start(k, extended) \div INFO_OFFSET_MULT

\* No list is where the offsets of 16 bits end; the writer does not look.
OffsetsFit(extended) == \A k \in DOMAIN computed : Offset(k, extended) < OFS_SIZE - 3

\* The lists a player can get to: from those in the LOT, wherever they lead.
Reachable ==
    LET reached[m \in 0 .. Len(Lists)] ==
            IF m = 0 THEN {k \in DOMAIN Lists : ~Lists[k].rejected}
            ELSE LET before == reached[m - 1]
                     ids == UNION {ListLinks(Lists[k]) : k \in before}
                 IN  before \cup ({LidLookup(Lists, id) : id \in ids} \ {0})
    IN  reached[Len(Lists)]

\* A reader has found the lists a player can get to, each once.
FoundAll(found, extended) ==
    /\ ok
    /\ Len(found) = Cardinality(Reachable)
    /\ {found[i].offset : i \in DOMAIN found} = {Offset(k, extended) : k \in Reachable}

\* What the library answers about the lists it found in a PSD.  An end list that is
\* rejected has no LID on the disc, and gets another.
InfoFindsLists(found, extended) ==
    LET At(k) == found[SelectInSeq(found, LAMBDA ofs : ofs.offset = Offset(k, extended))]
        Lids(id) == IF id = NoId THEN {} ELSE {At(LidLookup(Lists, id)).lid}
    IN  /\ FoundAll(found, extended)
        /\ \A i, j \in DOMAIN found : found[i].lid = found[j].lid => i = j
        /\ \A k \in Reachable :
              /\ At(k).in_lot = ~Lists[k].rejected
              /\ At(k).lid = k \/ (Lists[k].kind = "end" /\ Lists[k].rejected)
              /\ Lists[k].kind # "end" => OffsetLids(vcd, ReturnOffset(vcd, k)) = Lids(Lists[k].retn)
              /\ Lists[k].kind = "selection" =>
                    /\ Lists[k].selection_type = "normal" =>
                          OffsetLids(vcd, GetDefaultOffset(vcd, k)) = Lids(Lists[k].default)
                    /\ LidGetItemids(vcd, k) = {PinLookup(disc, id) : id \in ToSet(Lists[k].items)}
                    /\ \A number \in 0 .. Len(Lists[k].selects) + Lists[k].bsn :
                          LET chosen == number - Lists[k].bsn + 1
                          IN  SelectionGetLids(vcd, k, number) =
                                 IF chosen \in DOMAIN Lists[k].selects
                                 THEN Lids(Lists[k].selects[chosen]) ELSE {}

\* What vcdxrip calls the item with an id.
RippedItem(id) ==
    LET sequence == SelectInSeq(disc.sequences, LAMBDA item : item.id = id)
        entry == SelectInSeq(EntryIds(disc.sequences), LAMBDA own : own = id)
        segment == SelectInSeq(disc.segments, LAMBDA item : item.id = id)
    IN  IF id = NoId THEN NoId
        ELSE IF sequence # 0 THEN <<"sequence", sequence - 1>>
        ELSE IF entry # 0 THEN <<"entry", entry - 1>>
        ELSE <<"segment", SegmentsUpTo(disc.segments, segment - 1)>>

\* A wait comes back as it was up to a minute, to five seconds up to 2000, or as no end.
WaitKept(seconds, ripped) ==
    IF seconds < 0 THEN ripped = -1
    ELSE IF seconds <= 60 THEN ripped = seconds
    ELSE IF seconds > 2000 THEN ripped = 2000
    ELSE Distance(seconds, ripped) <= 5

\* What vcdxrip makes of a list that is no end list: a playing time is rounded to a
\* fifteenth, and a PSD without areas has none to tell.
RipKeepsList(pbc, x, Name(_), extended) ==
    LET names(ids) == [k \in DOMAIN ids |-> Name(ids[k])]
    IN  /\ <<x.prev, x.next, x.retn>> = names(<<pbc.prev, pbc.next, pbc.retn>>)
        /\ WaitKept(pbc.wait_time, x.wait_time)
        /\ pbc.kind = "playlist" =>
              /\ WaitKept(pbc.auto_pause_time, x.auto_pause_time)
              /\ Distance(x.playing_time, pbc.playing_time) <= 1
        /\ pbc.kind = "selection" =>
              /\ x.selection_type = pbc.selection_type
              /\ x.default = IF pbc.selection_type = "normal" THEN Name(pbc.default) ELSE NoId
              /\ x.timeout = Name(pbc.timeout)
              /\ x.selects = names(pbc.selects)
              /\ x.bsn = pbc.bsn
              /\ x.jump_delayed = pbc.jump_delayed
              /\ x.loop_count = pbc.loop_count \/ (pbc.loop_count > 127 /\ x.loop_count = 127)
              /\ HasAreas(Type, extended) => x.areas = pbc.areas

\* The lists of vcdxrip are those the author made, under other ids.
RipFindsLists(extended) ==
    LET Name(id) == IF id = NoId THEN NoId ELSE OfsId(list, Offset(LidLookup(Lists, id), extended))
        ripped == ToSet(xml.pbc_list)
    IN  /\ FoundAll(list, extended)
        /\ Len(xml.pbc_list) = Cardinality({x.id : x \in ripped})
        /\ \A k \in Reachable : \E x \in ripped :
              LET pbc == Lists[k]
              IN  /\ x.id = OfsId(list, Offset(k, extended))
                  /\ x.kind = pbc.kind
                  /\ x.rejected = pbc.rejected
                  /\ pbc.kind # "end" => RipKeepsList(pbc, x, Name, extended)
                  /\ pbc.kind # "end" \/ Has4CSvcd(Type) =>
                        x.items = [m \in DOMAIN pbc.items |-> RippedItem(pbc.items[m])]
                  /\ pbc.kind = "end" /\ Has4CSvcd(Type) /\ pbc.next_disc < 256 =>
                        x.next_disc = pbc.next_disc

\* What is left of the areas of a selection behind the XML file: neither that of the
\* default, nor those that lead nowhere.
XmlAreas(pbc) ==
    LET Of(id, area) == IF id = NoId THEN NoArea ELSE area
    IN  [prev |-> Of(pbc.prev, pbc.areas.prev), next |-> Of(pbc.next, pbc.areas.next),
         retn |-> Of(pbc.retn, pbc.areas.retn), default |-> NoArea,
         selects |-> [k \in DOMAIN pbc.selects |-> Of(pbc.selects[k], pbc.areas.selects[k])]]

\* vcdxbuild reads the lists that vcdxrip wrote.
XmlKeepsLists ==
    ParsedXml(Dumped(xml)).pbc_list =
       [k \in DOMAIN xml.pbc_list |-> [xml.pbc_list[k] EXCEPT !.areas = XmlAreas(xml.pbc_list[k])]]

\* Whatever path the visit takes from list to list, a reader finds the lists of the author
\* with their LIDs and what each leads to, and vcdxrip writes lists that mean the same;
\* and vcdxbuild reads the same again, but for some areas; and the lists that the writer has
\* warned of are the ones that are not found.
ListsReadBack ==
    /\ pc = "read" /\ OffsetsFit(ctx.extended) =>
          InfoFindsLists(IF ctx.extended THEN vcd.offset_x_list ELSE vcd.offset_list, ctx.extended)
    /\ pc = "ripped" /\ OffsetsFit(ctx.extended) => RipFindsLists(ctx.extended)
    /\ pc = "ripped" => XmlKeepsLists
    /\ pc = "disc" /\ IsInjective([k \in DOMAIN Lists |-> Lists[k].id]) =>
          Reachable = DOMAIN Lists \ files.unreachable

\* The item a number stands for.
Item(id) == ClassifyItemid(PinLookup(disc, id))

TracksFound ==
    \A k \in DOMAIN disc.sequences :
        /\ disc.sequences[k].id # NoId => Item(disc.sequences[k].id) = [type |-> "track", num |-> k]
        /\ TrackLsn(vcd, k) = disc.sequences[k].relative_start_extent + disc.iso_size
        /\ TrackSectCount(vcd, k) = TrackFile(disc, disc.sequences[k])

\* The numbers of the entries of the k-th track.
EntriesOf(k) == {e \in 0 .. Len(vcd.entries) - 1 : EntryTrack(vcd, e) = k}

EntriesFound ==
    /\ \A k \in DOMAIN disc.sequences :
          LET sequence == disc.sequences[k]
          IN  /\ sequence.default_entry_id # NoId =>
                    LET item == Item(sequence.default_entry_id)
                    IN  /\ item.type = "entry"
                        /\ EntryTrack(vcd, item.num) = k
                        /\ EntryLsn(vcd, item.num) = TrackLsn(vcd, k)
              /\ \A m \in DOMAIN sequence.entry_list :
                    LET item == Item(sequence.entry_list[m].id)
                    IN  /\ item.type = "entry"
                        /\ EntryTrack(vcd, item.num) = k
                        /\ EntryLsn(vcd, item.num) = TrackData(disc, k) + sequence.entry_list[m].packet_no
              /\ disc.track_pregap = CDIO_PREGAP_SECTORS =>
                    MapThenSumSet(LAMBDA e : EntrySectCount(vcd, e), EntriesOf(k)) =
                       TrackFile(disc, sequence)
    /\ \A e \in 1 .. Len(vcd.entries) - 1 :
          EntryLsn(vcd, e) > EntryLsn(vcd, 0) =>
             /\ SearchReturns(vcd, EntryLsn(vcd, e))
             /\ EntryLsn(vcd, LsnGetEntry(vcd, EntryLsn(vcd, e))) = EntryLsn(vcd, e)

SegmentsFound ==
    HasPbc(Type) =>
    \A k \in DOMAIN disc.segments :
        LET segment == disc.segments[k]
            item == Item(segment.id)
        IN  /\ item.type = "segment"
            /\ SegLsn(vcd, item.num) = segment.start_extent
            /\ SegSectorCount(vcd, item.num) = segment.packets
            /\ \A i \in 0 .. segment.segment_count :
                  SegContinue(vcd, item.num + i) = (i \in 1 .. segment.segment_count - 1)

\* The numbers of items, which pbc.c counts, and the tables of INFO and ENTRIES, which
\* files.c fills, agree: a player that is sent to an item finds it, and as long as it is.
ItemsFound ==
    pc \in {"open", "read"} => vcd.type = Type /\ TracksFound /\ EntriesFound /\ SegmentsFound

Ascending(aps) == \A k \in 2 .. Len(aps) : aps[k - 1].timestamp < aps[k].timestamp

\* A sector is that of an access point, and none is nearer to the time.
Nearest(aps, msf, time, first_sector) ==
    \E ap \in ToSet(aps) :
        /\ MsfToLsn(msf) = ap.packet_no + first_sector
        /\ \A other \in ToSet(aps) :
              Distance(ap.timestamp, time) <= Distance(other.timestamp, time)

\* The walks over the access points, each of which goes on where the last one stopped,
\* find for every half second the nearest: of the disc in SEARCH.DAT, and of each track,
\* where its index entry says, in SCANDATA.DAT.
ScanPointsNearest ==
    pc = "disc" /\ Has4CSvcd(Type) =>
        /\ Ascending(AllAps(disc)) =>
              /\ Len(files.search.points) = files.search.scan_points
              /\ \A m \in DOMAIN files.search.points :
                    Nearest(AllAps(disc), files.search.points[m], (m - 1) * HALF_SECOND, 0)
        /\ \A k \in DOMAIN disc.sequences :
              LET aps == disc.sequences[k].aps_list
                  first == files.scandata.table_offset[k] - files.scandata.mpegtrack_start_index
              IN  Ascending(aps) =>
                  \A m \in 1 .. ScandataCount(disc.sequences[k]) :
                      Nearest(aps, files.scandata.scandata_table[first + m], (m - 1) * HALF_SECOND,
                              TrackData(disc, k))

\* The packets of a sequence that vcdxrip finds: from the first that belongs to a stream on,
\* to the last that is not empty.
KeptFrom(stream) == Min({k \in DOMAIN stream : TrackChannel(stream[k].kind) # 0})
Kept(stream) ==
    SubSeq(stream, KeptFrom(stream), Max({k \in DOMAIN stream : stream[k].kind # "zero"}))

\* vcdxrip counts times from the lowest so far: those of a stream that does not begin with
\* its lowest time come out wrong.
LowestFirst(stream) ==
    \A k \in DOMAIN stream :
        stream[k].pts # NoPts /\ (\A j \in 1 .. k - 1 : stream[j].pts = NoPts) =>
           stream[k].pts = MinPts(stream)

\* The times of the pauses do not grow as they are printed: one that does is late, and comes
\* to the next packet.
NoneLate(stream, triggers) ==
    \A k \in triggers : Printed(stream[k].pts - MinPts(stream)) <= stream[k].pts - MinPts(stream)

PausedAlike(old, new, cut) ==
    LET triggers == Triggers(old.stream, old.pause_list)
    IN  LowestFirst(old.stream) /\ NoneLate(old.stream, triggers) =>
           Triggers(new.stream, new.pause_list) = {k - cut : k \in triggers}

SequenceAlike(old, new) ==
    LET cut == KeptFrom(old.stream) - 1
    IN  /\ new.stream = Kept(old.stream)
        /\ Len(new.entry_list) = Len(old.entry_list)
        /\ LowestFirst(old.stream) =>
              \A m \in DOMAIN new.entry_list :
                  new.entry_list[m].packet_no = old.entry_list[m].packet_no - cut
        /\ PausedAlike(old, new, cut)

\* The disc that vcdxbuild makes of what vcdxrip found on another plays as that one: each
\* track and each segment has the packets of the old one, its entries and its pauses are at
\* the same packets; the description is refused for a playlist without items alone, and
\* what was a disc once does not end the writer.
RebuiltAlike ==
    /\ pc = "refused" =>
          \/ ~OffsetsFit(ctx.extended)
          \/ \E k \in Reachable : Lists[k].kind = "playlist" /\ Lists[k].items = <<>>
    /\ original # NoItems /\ files = NoFiles => pc \notin {"exited", "aborted"}
    /\ original # NoItems /\ pc = "disc" =>
          /\ Type = original.type
          /\ Len(disc.sequences) = Len(original.sequences)
          /\ \A k \in DOMAIN disc.sequences : SequenceAlike(original.sequences[k], disc.sequences[k])
          /\ HasPbc(Type) =>
                /\ Len(disc.segments) = Len(original.segments)
                /\ \A k \in DOMAIN disc.segments :
                      /\ disc.segments[k].stream = original.segments[k].stream
                      /\ PausedAlike(original.segments[k], disc.segments[k], 0)

=============================================================================
