------------------------------- MODULE VcdFiles -------------------------------
(***************************************************************************)
(* files.c: what the files of a disc say about it, to be read by players:  *)
(* INFO, ENTRIES, LOT and PSD, and the scan points in SEARCH.DAT and       *)
(* SCANDATA.DAT.                                                           *)
(*                                                                         *)
(* A disc is a record [type, iso_size, mpeg_segment_start_extent,          *)
(* track_pregap, track_front_margin, track_rear_margin, sequences,         *)
(* segments].  Times are in ticks.                                         *)
(***************************************************************************)
EXTENDS PbcLists

CONSTANTS
    HALF_SECOND,        \* in ticks
    SEGMENT_SECTORS     \* VCDINFO_SEGMENT_SECTOR_SIZE

ASSUME FilesAssumption ==
    /\ HALF_SECOND \in Nat \ {0}
    /\ SEGMENT_SECTORS \in Nat \ {0}

(* libcdio: the sector 0 of a disc is at 00:02:00. *)
LsnToLba(lsn) == lsn + 150
LbaToMsf(lba) == [m |-> lba \div 4500, s |-> (lba \div 75) % 60, f |-> lba % 75]
MsfToLsn(msf) == (msf.m * 4500) + (msf.s * 75) + msf.f - 150

-----------------------------------------------------------------------------
(* INFO *)

\* The identifier, the version and the system profile tag that set_info_vcd writes.
InfoHead(type) ==
    [id |-> IF type = "SVCD" THEN "SUPERVCD" ELSE IF type = "HQVCD" THEN "HQ-VCD" ELSE "VIDEO_CD",
     version |-> IF type = "VCD2" THEN 2 ELSE 1,
     tag |-> IF type \in {"VCD11", "HQVCD"} THEN 1 ELSE 0]

\* vcd_files_info_detect_type
DetectType(head) ==
    IF head.id = "SUPERVCD" THEN "SVCD"
    ELSE IF head.id = "HQ-VCD" THEN "HQVCD"
    ELSE IF head.id # "VIDEO_CD" THEN "invalid"
    ELSE IF head.version = 2 THEN "VCD2"
    ELSE IF head.version = 1 /\ head.tag = 0 THEN "VCD"
    ELSE IF head.version = 1 /\ head.tag = 1 THEN "VCD11"
    ELSE "invalid"

\* The segments of fixed size, item by item: all but the first of an item continue it.
SpiContents(segments) ==
    FlattenSeq([n \in DOMAIN segments |->
        [i \in 1 .. segments[n].segment_count |-> [item_cont |-> i > 1]]])

\* set_info_vcd
InfoVcd(disc, pbc_list, psd_size) ==
    LET pbc == PbcAvailable(disc.type, pbc_list)
        spi == IF HasPbc(disc.type) THEN SpiContents(disc.segments) ELSE <<>>
    IN  [head |-> InfoHead(disc.type),
         psd_size |-> IF pbc THEN psd_size ELSE 0,
         offset_mult |-> IF pbc THEN INFO_OFFSET_MULT ELSE 0,
         lot_entries |-> IF HasPbc(disc.type) THEN MaxLid(disc.type, pbc_list) ELSE 0,
         pbc_x |-> pbc /\ HasPbcX(disc.type),
         spi_contents |-> spi,
         item_count |-> Len(spi),
         first_seg_addr |-> LbaToMsf(IF spi = <<>> THEN 150
                                     ELSE LsnToLba(disc.mpeg_segment_start_extent))]

-----------------------------------------------------------------------------
(* ENTRIES *)

\* The entries of the n-th track: its start, then its access points.
TrackEntries(disc, n) ==
    LET sequence == disc.sequences[n]
        lsect == sequence.relative_start_extent + disc.iso_size
        data == lsect + disc.track_front_margin
    IN  <<[n |-> n + 1, msf |-> LbaToMsf(LsnToLba(lsect))]>>
          \o [k \in DOMAIN sequence.entry_list |->
                [n |-> n + 1, msf |-> LbaToMsf(data + LsnToLba(sequence.entry_list[k].packet_no))]]

\* set_entries_vcd
EntriesVcd(disc) ==
    FlattenSeq([n \in DOMAIN disc.sequences |-> TrackEntries(disc, n)])

-----------------------------------------------------------------------------
(* LOT and PSD *)

ListOffset(pbc, extended) == IF extended THEN pbc.offset_ext ELSE pbc.offset

\* set_lot_vcd: where the lists that are not rejected are, by LID; the others are disabled.
LotVcd(pbc_list, extended) ==
    [lid \in DOMAIN pbc_list |->
        IF pbc_list[lid].rejected THEN PSD_OFS_DISABLED
        ELSE (ListOffset(pbc_list[lid], extended) \div INFO_OFFSET_MULT) % OFS_SIZE]

\* set_psd_vcd: the descriptors by the byte they start at.
PsdVcd(disc, pbc_list, extended) ==
    [at \in {ListOffset(pbc_list[n], extended) : n \in DOMAIN pbc_list} |->
        LET n == Min({m \in DOMAIN pbc_list : ListOffset(pbc_list[m], extended) = at})
        IN  Descriptor(disc, pbc_list, pbc_list[n], extended)]

-----------------------------------------------------------------------------
(* Scan points *)

\* _get_cumulative_playing_time
CumulativePlayingTime(disc, n) ==
    FoldLeft(LAMBDA sum, sequence : sum + sequence.playing_time, 0, SubSeq(disc.sequences, 1, n))

\* The half seconds of a time, the one that is not full included.
HalfSeconds(time) == Len2Blocks(time, HALF_SECOND)

\* _get_scanpoint_count, _get_scandata_count
ScanpointCount(disc) == HalfSeconds(CumulativePlayingTime(disc, Len(disc.sequences)))
ScandataCount(sequence) == HalfSeconds(sequence.playing_time)

\* Where the data of the n-th track starts.
TrackData(disc, n) ==
    disc.sequences[n].relative_start_extent + disc.iso_size + disc.track_front_margin

\* The access points of all tracks on the time and the sectors of the disc.
AllAps(disc) ==
    FlattenSeq([n \in DOMAIN disc.sequences |->
        LET aps == disc.sequences[n].aps_list
        IN  [k \in DOMAIN aps |->
               [timestamp |-> aps[k].timestamp + CumulativePlayingTime(disc, n - 1),
                packet_no |-> aps[k].packet_no + TrackData(disc, n)]]])

Distance(a, b) == IF a > b THEN a - b ELSE b - a

Nearer(ap, than, time) == Distance(ap.timestamp, time) < Distance(than.timestamp, time)

\* The loop of both tables: from the k-th access point on while the next is nearer.
Walk(aps, k, time) ==
    Max({j \in k .. Len(aps) : \A i \in k + 1 .. j : Nearer(aps[i], aps[i - 1], time)})

\* The access points for the first count half seconds, each walked to from the one before.
ScanPoints(aps, count) ==
    LET at[n \in 1 .. count] ==
            Walk(aps, IF n = 1 THEN 1 ELSE at[n - 1], (n - 1) * HALF_SECOND)
    IN  [n \in 1 .. count |-> aps[at[n]].packet_no]

\* _make_track_scantable, set_search_dat
SearchDat(disc) ==
    LET table == ScanPoints(AllAps(disc), ScanpointCount(disc))
    IN  [scan_points |-> ScanpointCount(disc),
         points |-> [n \in DOMAIN table |-> LbaToMsf(LsnToLba(table[n]))]]

\* _get_scandata_table, on the sectors of the disc.
ScandataTable(disc, n) ==
    LET table == ScanPoints(disc.sequences[n].aps_list, ScandataCount(disc.sequences[n]))
    IN  [k \in DOMAIN table |-> LbaToMsf(LsnToLba(table[k] + TrackData(disc, n)))]

\* Mutant: counted as the points of SEARCH.DAT are, over the tracks before.
PointsBefore_total(disc, n) == HalfSeconds(CumulativePlayingTime(disc, n - 1))

\* The points of the tracks before the n-th.
PointsBefore(disc, n) ==
    FoldLeft(LAMBDA sum, sequence : sum + ScandataCount(sequence), 0,
             SubSeq(disc.sequences, 1, n - 1))

\* set_scandata_dat: the table of all tracks, and where it has each, in points of three
\* bytes; the entries of the index are as long as points.
ScandataDat(disc) ==
    LET tracks == Len(disc.sequences)
    IN  [scandata_count |-> ScanpointCount(disc),
         mpegtrack_start_index |-> tracks,
         table_offset |-> [n \in 1 .. tracks |-> tracks + PointsBefore(disc, n)],
         scandata_table |-> FlattenSeq([n \in 1 .. tracks |-> ScandataTable(disc, n)])]

\* The walks start at the first access point: an assertion fails, or a null pointer is
\* read, where there is none.
NoScanPoints(disc) ==
    Has4CSvcd(disc.type) /\ \E n \in DOMAIN disc.sequences : disc.sequences[n].aps_list = <<>>
=============================================================================
