-------------------------------- MODULE VcdInfo --------------------------------
(***************************************************************************)
(* info.c: what the library tells a player of a disc, from the files it    *)
(* read.  vcd is the record [info, entries, psd, psd_x, offset_list,       *)
(* offset_x_list, seg_sizes, toc, has_xa]; toc has the first sector of     *)
(* every track, the one of the file system first, and of the lead-out.     *)
(***************************************************************************)
EXTENDS VcdFiles, PbcRip

CONSTANTS
    UNSIGNED_SIZE,         \* how many values an unsigned int has
    CDIO_PREGAP_SECTORS

ASSUME InfoAssumption ==
    /\ UNSIGNED_SIZE \in Nat
    /\ UNSIGNED_SIZE > 1
    /\ CDIO_PREGAP_SECTORS \in Nat

NULL_LSN == UNSIGNED_SIZE - 1         \* a very high value
VCDINFO_INVALID_TRACK == 255

-----------------------------------------------------------------------------
(* Segments *)

\* The segments that go with the file of an item: they are as long as segments can be.
Continued(spi_contents, i) ==
    Cardinality({j \in i + 1 .. Len(spi_contents) :
                    \A k \in i + 1 .. j : spi_contents[k].item_cont})

\* _init_segments: the sizes of the files of the directory SEGMENT, in its order, each
\* followed by the segments that continue it.
InitSegments(spi_contents, files) ==
    LET first[n \in 1 .. Len(files)] ==
            IF n = 1 THEN 1 ELSE first[n - 1] + 1 + Continued(spi_contents, first[n - 1])
    IN  [i \in DOMAIN spi_contents |->
            IF \E n \in DOMAIN files : first[n] = i
            THEN files[CHOOSE n \in DOMAIN files : first[n] = i]
            ELSE IF spi_contents[i].item_cont THEN SEGMENT_SECTORS ELSE 0]

\* vcdinfo_get_seg_lsn, of a segment that is there; the first is 0.
SegLsn(vcd, i_seg) == MsfToLsn(vcd.info.first_seg_addr) + (SEGMENT_SECTORS * i_seg)

\* vcdinfo_get_seg_sector_count
SegSectorCount(vcd, i_seg) ==
    IF i_seg >= vcd.info.item_count THEN 0 ELSE vcd.seg_sizes[i_seg + 1]

\* vcdinfo_get_seg_continue
SegContinue(vcd, i_seg) ==
    i_seg < vcd.info.item_count /\ vcd.info.spi_contents[i_seg + 1].item_cont

-----------------------------------------------------------------------------
(* Entries and tracks; the first entry is 0, the first track of MPEG data 1 *)

\* vcdinf_get_entry_msf, vcdinfo_get_entry_lsn
EntryLsn(vcd, entry_num) ==
    IF entry_num < Len(vcd.entries) THEN MsfToLsn(vcd.entries[entry_num + 1].msf) ELSE NULL_LSN

\* vcdinf_get_track, vcdinfo_get_track
EntryTrack(vcd, entry_num) ==
    IF entry_num < Len(vcd.entries) THEN vcd.entries[entry_num + 1].n - 1
    ELSE VCDINFO_INVALID_TRACK

\* vcdinfo_get_track_lsn
TrackLsn(vcd, i_track) == vcd.toc[i_track + 1]

\* vcdinfo_get_track_sect_count: the size of the file of the track, or else up to the next.
TrackSectCount(vcd, i_track) ==
    IF i_track = VCDINFO_INVALID_TRACK THEN 0
    ELSE IF vcd.has_xa THEN vcd.file_sizes[i_track]
    ELSE LET here == TrackLsn(vcd, i_track)
             next == TrackLsn(vcd, i_track + 1)
         IN  IF next > here THEN next - here ELSE 0

\* vcdinfo_get_entry_sect_count, of an entry that is there: up to the next one, or to the
\* pregap of its track, or to the end of the file of the last track.
EntrySectCount(vcd, entry_num) ==
    LET this_lsn == EntryLsn(vcd, entry_num)
        track == EntryTrack(vcd, entry_num)
        pregap == IF track # EntryTrack(vcd, entry_num + 1) THEN CDIO_PREGAP_SECTORS ELSE 0
        next_lsn == IF entry_num + 1 < Len(vcd.entries)
                    THEN EntryLsn(vcd, entry_num + 1) - pregap
                    ELSE TrackLsn(vcd, track) + vcd.file_sizes[track]
    IN  next_lsn - this_lsn

\* The search of vcdinfo_lsn_get_entry after n rounds.  All of it is unsigned.
SearchRounds == 40   \* the bound on the rounds: one that has not ended by then never does

EntrySearch(vcd, lsn) ==
    LET Round(i, j) ==
            LET mid == ((i + j) % UNSIGNED_SIZE) \div 2
                mid_lsn == EntryLsn(vcd, mid)
            IN  [i |-> IF lsn >= mid_lsn THEN mid + 1 ELSE i,
                 j |-> IF lsn <= mid_lsn THEN (mid - 1) % UNSIGNED_SIZE ELSE j,
                 mid |-> mid]
        after[n \in 1 .. SearchRounds] ==
            IF n = 1 THEN Round(0, Len(vcd.entries))
            ELSE LET before == after[n - 1]
                 IN  IF before.i <= before.j THEN Round(before.i, before.j) ELSE before
    IN  after[SearchRounds]

\* vcdinfo_lsn_get_entry: whether it returns at all, and what.
SearchReturns(vcd, lsn) == LET end == EntrySearch(vcd, lsn) IN end.i > end.j

LsnGetEntry(vcd, lsn) ==
    LET end == EntrySearch(vcd, lsn)
    IN  IF lsn = EntryLsn(vcd, end.mid) THEN end.mid ELSE (end.mid - 1) % UNSIGNED_SIZE

\* vcdinfo_track_get_entry
TrackGetEntry(vcd, i_track) == LsnGetEntry(vcd, TrackLsn(vcd, i_track))

-----------------------------------------------------------------------------
(* Lists *)

\* The lists of a kind of PSD that have a descriptor with the LID.
WithLid(psd, list, lid) ==
    {k \in DOMAIN list :
        LET d == psd[list[k].offset * INFO_OFFSET_MULT] IN d.type # "end" /\ d.lid = lid}

\* vcdinfo_lid_get_pxd, of a list that has a LID of its own: the extended PSD first.
LidGetPxd(vcd, lid) ==
    LET extended == WithLid(vcd.psd_x, vcd.offset_x_list, lid)
        normal == WithLid(vcd.psd, vcd.offset_list, lid)
    IN  IF extended # {}
        THEN {vcd.psd_x[vcd.offset_x_list[Min(extended)].offset * INFO_OFFSET_MULT]}
        ELSE IF normal # {}
        THEN {vcd.psd[vcd.offset_list[Min(normal)].offset * INFO_OFFSET_MULT]}
        ELSE {}

\* vcdinfo_get_offset_t: the LID of the list at an offset, or none.
OffsetLids(vcd, offset) ==
    LET list == vcd.offset_x_list \o vcd.offset_list
        at == SelectInSeq(list, LAMBDA ofs : ofs.offset = offset)
    IN  IF Special(offset) \/ at = 0 THEN {} ELSE {list[at].lid}

IsSelection(d) == d.type \in {"selection", "ext_selection"}

\* vcdinfo_get_return_offset, vcdinfo_get_default_offset, vcdinfo_lid_get_offset: the
\* last is what the number of a selection, from 1, leads to.
ReturnOffset(vcd, lid) ==
    LET pxd == LidGetPxd(vcd, lid)
    IN  IF pxd = {} THEN PSD_OFS_DISABLED ELSE (CHOOSE d \in pxd : TRUE).return_ofs

GetDefaultOffset(vcd, lid) ==
    LET pxd == {d \in LidGetPxd(vcd, lid) : IsSelection(d)}
    IN  IF pxd = {} THEN PSD_OFS_DISABLED ELSE (CHOOSE d \in pxd : TRUE).default_ofs

LidGetOffset(vcd, lid, number) ==
    LET pxd == {d \in LidGetPxd(vcd, lid) : IsSelection(d) /\ number \in DOMAIN d.ofs}
    IN  IF pxd = {} THEN PSD_OFS_DISABLED ELSE (CHOOSE d \in pxd : TRUE).ofs[number]

\* vcdinfo_selection_get_offset: numbers start at the BSN of the list, all unsigned.
SelectionGetOffset(vcd, lid, selection) ==
    LET pxd == {d \in LidGetPxd(vcd, lid) : IsSelection(d)}
        number == (selection - (CHOOSE d \in pxd : TRUE).bsn + 1) % UNSIGNED_SIZE
    IN  IF pxd = {} \/ number = 0 THEN PSD_OFS_DISABLED ELSE LidGetOffset(vcd, lid, number)

\* vcdinfo_selection_get_lid
SelectionGetLids(vcd, lid, number) == OffsetLids(vcd, SelectionGetOffset(vcd, lid, number))

\* vcdinfo_lid_get_itemid: the item of a selection list.
LidGetItemids(vcd, lid) ==
    UNION {ToSet(d.itemid) : d \in {e \in LidGetPxd(vcd, lid) : IsSelection(e)}}
=============================================================================
