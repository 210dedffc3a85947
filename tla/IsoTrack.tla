------------------------------- MODULE IsoTrack -------------------------------
(***************************************************************************)
(* vcd_obj_begin_output: every sector of the ISO 9660 track gets its use,  *)
(* in the order of _finalize_vcd_iso_track, and the size of the image is   *)
(* known before its first sector is written.  iso_bitmap is the abstract   *)
(* space of module SectorSpace: the set of the sectors in use.             *)
(***************************************************************************)
EXTENDS VcdObj, Sectors

CONSTANTS             \* the fixed places of the ISO 9660 track
    SILENCE,          \* sectors of ISO 9660 silence at its start
    ISO_PVD_SECTOR, ISO_EVD_SECTOR, DIR_SECTOR,
    KARAOKE_SECTOR, KARAOKE_SIZE,
    INFO_VCD_SECTOR, ENTRIES_VCD_SECTOR,
    LOT_VCD_SECTOR, LOT_VCD_SIZE, PSD_VCD_SECTOR,
    ALIGNMENT,        \* segments start at a multiple of it: a second of play
    MIN_ISO_SIZE,
    CD_MAX_SECTORS    \* CDIO_CD_MAX_SECTORS

CONSTANTS             \* sizes of what other components generate, in sectors
    PsdBlocks(_),     \* get_psd_size, by the number of pbc nodes
    SearchBlocks(_),  \* get_search_dat_size, by the number of sequences
    ScandataBlocks(_),\* get_scandata_dat_size, by the number of sequences
    DirBlocks         \* the sizes _vcd_directory_get_size may return

ASSUME LayoutAssumption ==
    /\ SILENCE \in Nat \ {0}
    /\ ISO_PVD_SECTOR = SILENCE
    /\ ISO_EVD_SECTOR = ISO_PVD_SECTOR + 1
    /\ DIR_SECTOR = ISO_EVD_SECTOR + 1
    /\ KARAOKE_SECTOR \in Nat /\ KARAOKE_SECTOR > DIR_SECTOR
    /\ KARAOKE_SIZE \in Nat \ {0}
    /\ INFO_VCD_SECTOR = KARAOKE_SECTOR + KARAOKE_SIZE
    /\ ENTRIES_VCD_SECTOR = INFO_VCD_SECTOR + 1
    /\ LOT_VCD_SECTOR = ENTRIES_VCD_SECTOR + 1
    /\ LOT_VCD_SIZE \in Nat \ {0}
    /\ PSD_VCD_SECTOR = LOT_VCD_SECTOR + LOT_VCD_SIZE
    /\ ALIGNMENT \in Nat \ {0}
    /\ SEGMENT_SECTOR_SIZE % ALIGNMENT = 0
    /\ {MIN_ISO_SIZE, CD_MAX_SECTORS} \subseteq Nat
    /\ DirBlocks \subseteq Nat \ {0}

ASSUME BlocksAssumption ==
    /\ MaxItems.pbc_list \in Nat
    /\ MaxItems.sequences \in Nat
    /\ \A n \in 0 .. MaxItems.pbc_list : PsdBlocks(n) \in Nat \ {0}
    /\ \A n \in 0 .. MaxItems.sequences :
          {SearchBlocks(n), ScandataBlocks(n)} \subseteq Nat \ {0}

VARIABLES
    pc,                          \* what runs
    i, n,                        \* its loops' variables
    query,                       \* it runs for get_image_size
    queried,                     \* what get_image_size said of this object, or -1
    iso_bitmap,
    dict,                        \* buffer_dict_list: records [key, sector, length]
    mpeg_segment_start_extent,
    ext_file_start_extent,
    custom_file_start_extent,
    iso_size,
    image_size                   \* what begin_output returned

extents ==
    <<mpeg_segment_start_extent, ext_file_start_extent, custom_file_start_extent,
      iso_size, image_size>>

layoutVars == <<pc, i, n, query, queried, iso_bitmap, dict, extents>>

LayoutInit ==
    /\ pc = "idle"
    /\ i = 0
    /\ n = 0
    /\ query = FALSE
    /\ queried = -1
    /\ iso_bitmap = {}
    /\ dict = {}
    /\ mpeg_segment_start_extent = 0
    /\ ext_file_start_extent = 0
    /\ custom_file_start_extent = 0
    /\ iso_size = 0
    /\ image_size = 0

Running(phase) == pc = phase /\ ~aborted

Fails ==
    /\ aborted' = TRUE
    /\ UNCHANGED <<objVars, in_output, layoutVars>>

Goto(phase) == pc' = phase /\ i' = 1 /\ n' = 0

Entry(key, sector, length) == [key |-> key, sector |-> sector, length |-> length]

SectorsOf(e) == Extent(e.sector, e.length)
AllSectorsOf(entries) == UNION {SectorsOf(e) : e \in entries}

-----------------------------------------------------------------------------
(* _finalize_vcd_iso_track_allocation                                      *)

\* Begun for an output, or only to tell its size (for_query).
BeginOutput(for_query) ==
    /\ Running("idle")
    /\ ~in_output
    /\ sequences # <<>>
    /\ in_output' = TRUE
    /\ query' = for_query
    /\ iso_bitmap' = {}
    /\ dict' = {}
    /\ Goto("reserve")
    /\ UNCHANGED <<objVars, aborted, queried, extents>>

\* The areas with a place of their own, but for what has a buffer.
Blank ==
    {Entry("silence", 0, SILENCE),
     Entry("karaoke", KARAOKE_SECTOR, KARAOKE_SIZE),
     Entry("dir_area", DIR_SECTOR, KARAOKE_SECTOR - DIR_SECTOR)}

Buffers ==
    {Entry("pvd", ISO_PVD_SECTOR, 1),
     Entry("evd", ISO_EVD_SECTOR, 1),
     Entry("info", INFO_VCD_SECTOR, 1),
     Entry("entries", ENTRIES_VCD_SECTOR, 1)}

PbcBuffers ==
    IF pbc_available
    THEN {Entry("lot", LOT_VCD_SECTOR, LOT_VCD_SIZE),
          Entry("psd", PSD_VCD_SECTOR, PsdBlocks(Len(pbc_list)))}
    ELSE {}

Disjoint(entries) ==
    \A d, e \in entries : d # e => SectorsOf(d) \cap SectorsOf(e) = {}

\* _dict_insert aborts on a place that is taken.
ReserveFixed ==
    LET areas == Blank \cup Buffers \cup PbcBuffers
    IN  /\ Running("reserve")
        /\ IF Disjoint(areas)
           THEN /\ iso_bitmap' = AllSectorsOf(areas)
                /\ dict' = Buffers \cup PbcBuffers
                /\ Goto("svcd")
                /\ UNCHANGED <<objVars, in_output, aborted, query, queried,
                               extents>>
           ELSE Fails

\* The search files of an SVCD go where there is room.
ReserveSearch ==
    LET tracks == Entry("tracks", FirstFit(iso_bitmap, 1), 1)
        used == iso_bitmap \cup SectorsOf(tracks)
        size == SearchBlocks(Len(sequences))
        search == Entry("search", FirstFit(used, size), size)
    IN  /\ Running("svcd")
        /\ IF ~Has4C_SVCD
           THEN /\ Goto("fill")
                /\ UNCHANGED <<objVars, in_output, aborted, iso_bitmap, dict>>
                /\ UNCHANGED <<query, queried, extents>>
           ELSE IF tracks.sector > INFO_VCD_SECTOR /\ search.sector > INFO_VCD_SECTOR
           THEN /\ iso_bitmap' = used \cup SectorsOf(search)
                /\ dict' = dict \cup {tracks, search}
                /\ Goto("fill")
                /\ UNCHANGED <<objVars, in_output, aborted, query, queried,
                               extents>>
           ELSE Fails

End == Highest(iso_bitmap) + 1

\* The primary information area is filled up to where segments may start.
FillToAlignment ==
    LET start == Len2Blocks(End, ALIGNMENT) * ALIGNMENT
        used == iso_bitmap \cup (0 .. start - 1)
    IN  /\ Running("fill")
        /\ IF Highest(used) + 1 = start
           THEN /\ mpeg_segment_start_extent' = start
                /\ iso_bitmap' = used
                /\ Goto("segments")
                /\ UNCHANGED <<objVars, in_output, aborted, query, queried, dict,
                               ext_file_start_extent, custom_file_start_extent,
                               iso_size, image_size>>
           ELSE Fails

\* A segment gets whole units of play: no other extent shares one.
PlaceSegment ==
    LET size == segments[i].segment_count * SEGMENT_SECTOR_SIZE
        start == FirstFit(iso_bitmap, size)
        used == iso_bitmap \cup Extent(start, size)
    IN  /\ Running("segments")
        /\ i <= Len(segments)
        /\ IF start % ALIGNMENT = 0 /\ Highest(used) + 1 = start + size
           THEN /\ segments' = [segments EXCEPT ![i].start_extent = start]
                /\ iso_bitmap' = used
                /\ i' = i + 1
                /\ UNCHANGED <<type, prm, sequences, files, pbc_list,
                               relative_end_extent, in_output, aborted>>
                /\ UNCHANGED <<pc, n, query, queried, dict, extents>>
           ELSE Fails

EndSegments ==
    /\ Running("segments")
    /\ i > Len(segments)
    /\ IF End % ALIGNMENT = 0
       THEN /\ ext_file_start_extent' = End
            /\ Goto("ext")
            /\ UNCHANGED <<objVars, in_output, aborted, query, queried, iso_bitmap, dict,
                           mpeg_segment_start_extent, custom_file_start_extent,
                           iso_size, image_size>>
       ELSE Fails

\* What goes to the EXT area, in this order.
ExtFiles ==
    (IF Has4C_SVCD
     THEN <<[key |-> "scandata", length |-> ScandataBlocks(Len(sequences))]>> ELSE <<>>)
    \o (IF HasPBC_X /\ pbc_available
        THEN <<[key |-> "lot_x", length |-> LOT_VCD_SIZE],
               [key |-> "psd_x", length |-> PsdBlocks(Len(pbc_list))]>> ELSE <<>>)

PlaceExt ==
    LET f == ExtFiles[i]
        start == FirstFit(iso_bitmap, f.length)
    IN  /\ Running("ext")
        /\ i <= Len(ExtFiles)
        /\ iso_bitmap' = iso_bitmap \cup Extent(start, f.length)
        /\ dict' = dict \cup {Entry(f.key, start, f.length)}
        /\ i' = i + 1
        /\ UNCHANGED <<objVars, in_output, aborted, pc, n, query, queried,
                       extents>>

EndExt ==
    /\ Running("ext")
    /\ i > Len(ExtFiles)
    /\ custom_file_start_extent' = End
    /\ Goto("files")
    /\ UNCHANGED <<objVars, in_output, aborted, query, queried, iso_bitmap, dict,
                   mpeg_segment_start_extent, ext_file_start_extent, iso_size, image_size>>

\* Mutant: an empty file gets no extent.
PlaceFile_nodummy ==
    LET size == files[i].sectors
        start == IF size # 0 THEN FirstFit(iso_bitmap, size) ELSE SECTOR_NIL
    IN  /\ Running("files")
        /\ i <= Len(files)
        /\ files' = [files EXCEPT ![i].start_extent = start]
        /\ iso_bitmap' = iso_bitmap \cup Extent(start, size)
        /\ i' = i + 1
        /\ UNCHANGED <<type, prm, sequences, segments, pbc_list,
                       relative_end_extent, in_output, aborted>>
        /\ UNCHANGED <<pc, n, query, queried, dict, extents>>

\* An empty file gets a dummy extent.
PlaceFile ==
    LET size == files[i].sectors
        start == IF size # 0 THEN FirstFit(iso_bitmap, size)
                 ELSE custom_file_start_extent
    IN  /\ Running("files")
        /\ i <= Len(files)
        /\ files' = [files EXCEPT ![i].start_extent = start]
        /\ iso_bitmap' = iso_bitmap \cup Extent(start, size)
        /\ i' = i + 1
        /\ UNCHANGED <<type, prm, sequences, segments, pbc_list,
                       relative_end_extent, in_output, aborted>>
        /\ UNCHANGED <<pc, n, query, queried, dict, extents>>

\* Mutant: the last sector in use is not counted.
EndFiles_highest ==
    /\ Running("files")
    /\ i > Len(files)
    /\ iso_size' = IF MIN_ISO_SIZE > End - 1 THEN MIN_ISO_SIZE ELSE End - 1
    /\ Goto("filesystem")
    /\ UNCHANGED <<objVars, in_output, aborted, query, queried, iso_bitmap, dict,
                   mpeg_segment_start_extent, ext_file_start_extent,
                   custom_file_start_extent, image_size>>

\* The size of the ISO 9660 track is frozen here.
EndFiles ==
    /\ Running("files")
    /\ i > Len(files)
    /\ iso_size' = IF MIN_ISO_SIZE > End THEN MIN_ISO_SIZE ELSE End
    /\ Goto("filesystem")
    /\ UNCHANGED <<objVars, in_output, aborted, query, queried, iso_bitmap, dict,
                   mpeg_segment_start_extent, ext_file_start_extent,
                   custom_file_start_extent, image_size>>

-----------------------------------------------------------------------------
(* _finalize_vcd_iso_track_filesystem                                      *)

\* Mutant: one sequence fewer is accepted.
TooManyItems_early ==
    \/ \E k \in DOMAIN segments : SegmentsBefore(k) >= MAX_SEGMENTS
    \/ Len(sequences) >= MAX_TRACKS

TooManyItems ==
    \/ \E k \in DOMAIN segments : SegmentsBefore(k) >= MAX_SEGMENTS
    \/ Len(sequences) > MAX_TRACKS

TooBig(dirs_size) ==
    DIR_SECTOR + dirs_size + 2 >=
        (IF Has4C_SVCD THEN INFO_VCD_SECTOR ELSE KARAOKE_SECTOR)

\* The part of the directory area that is needed is released, and given to the
\* directory and to its path tables.
DirEntries(dirs_size) ==
    {Entry("dir", DIR_SECTOR, dirs_size),
     Entry("ptl", DIR_SECTOR + dirs_size, 1),
     Entry("ptm", DIR_SECTOR + dirs_size + 1, 1)}

MakeFilesystem(dirs_size) ==
    LET area == Extent(DIR_SECTOR, dirs_size + 2)
    IN  /\ Running("filesystem")
        /\ CASE TooManyItems -> Fails
             [] ~TooManyItems /\ TooBig(dirs_size) ->      \* vcd_error
                    /\ pc' = "exited"
                    /\ UNCHANGED <<objVars, in_output, aborted, i, n, query, queried,
                                   iso_bitmap, dict>>
                    /\ UNCHANGED <<extents>>
             [] OTHER ->
                  IF /\ area \subseteq iso_bitmap
                     /\ Disjoint(DirEntries(dirs_size))
                  THEN /\ iso_bitmap' = (iso_bitmap \ area)
                                          \cup AllSectorsOf(DirEntries(dirs_size))
                       /\ dict' = dict \cup DirEntries(dirs_size)
                       /\ Goto("entries")
                       /\ UNCHANGED <<objVars, in_output, aborted, query, queried,
                                      extents>>
                  ELSE Fails

-----------------------------------------------------------------------------
(* _update_entry_points, and the end of vcd_obj_begin_output               *)

Distance(a, b) == IF a >= b THEN a - b ELSE b - a

\* Where _get_closest_aps stops: access points get closer up to k, and no longer.
StopsAt(aps, time, k) ==
    LET Closer(j) == Distance(aps[j].timestamp, time) < Distance(aps[j - 1].timestamp, time)
    IN  /\ \A j \in 2 .. k : Closer(j)
        /\ k < Len(aps) => ~Closer(k + 1)

\* Sequence i's entry point n + 1.
UpdateEntry ==
    /\ Running("entries")
    /\ i <= Len(sequences)
    /\ n < Len(sequences[i].entries)
    /\ IF sequences[i].source.aps = <<>>
       THEN Fails
       ELSE /\ \E k \in DOMAIN sequences[i].source.aps :
                  /\ StopsAt(sequences[i].source.aps, sequences[i].entries[n + 1].time, k)
                  /\ sequences' = [sequences EXCEPT ![i].entries[n + 1].aps =
                                        sequences[i].source.aps[k]]
            /\ n' = n + 1
            /\ UNCHANGED <<type, prm, segments, files, pbc_list,
                           relative_end_extent, in_output, aborted>>
            /\ UNCHANGED <<pc, i, query, queried, iso_bitmap, dict, extents>>

\* Mutant: the loop does not advance.
NextSequence_stuck ==
    /\ Running("entries")
    /\ i <= Len(sequences)
    /\ n = Len(sequences[i].entries)
    /\ n' = 0
    /\ UNCHANGED <<objVars, in_output, aborted, pc, i, query, queried, iso_bitmap, dict,
                   extents>>

NextSequence ==
    /\ Running("entries")
    /\ i <= Len(sequences)
    /\ n = Len(sequences[i].entries)
    /\ i' = i + 1
    /\ n' = 0
    /\ UNCHANGED <<objVars, in_output, aborted, pc, query, queried, iso_bitmap, dict,
                   extents>>

\* vcd_obj_end_output
ReleaseOutput ==
    /\ in_output' = FALSE
    /\ iso_bitmap' = {}
    /\ dict' = {}

\* Mutant: get_image_size forgets the lead-out.
ReturnSize_noleadout ==
    LET size == relative_end_extent + iso_size + (IF query THEN 0 ELSE prm.leadout_pregap)
    IN  /\ Running("entries")
        /\ i > Len(sequences)
        /\ image_size' = size
        /\ pc' = IF query THEN "idle" ELSE "output"
        /\ IF query
           THEN ReleaseOutput /\ queried' = size
           ELSE UNCHANGED <<in_output, iso_bitmap, dict, queried>>
        /\ UNCHANGED <<objVars, aborted, i, n, query,
                       mpeg_segment_start_extent, ext_file_start_extent,
                       custom_file_start_extent, iso_size>>

\* begin_output returns, or the image is too big.  get_image_size ends the
\* output at once.
ReturnSize ==
    LET size == relative_end_extent + iso_size + prm.leadout_pregap
    IN  /\ Running("entries")
        /\ i > Len(sequences)
        /\ image_size' = size
        /\ pc' = CASE size > CD_MAX_SECTORS -> "exited"
                   [] size <= CD_MAX_SECTORS /\ query -> "idle"
                   [] OTHER -> "output"
        /\ IF pc' = "idle"
           THEN ReleaseOutput /\ queried' = size
           ELSE UNCHANGED <<in_output, iso_bitmap, dict, queried>>
        /\ UNCHANGED <<objVars, aborted, i, n, query,
                       mpeg_segment_start_extent, ext_file_start_extent,
                       custom_file_start_extent, iso_size>>

LayoutNext ==
    \/ ReserveFixed \/ ReserveSearch \/ FillToAlignment
    \/ PlaceSegment \/ EndSegments
    \/ PlaceExt \/ EndExt
    \/ PlaceFile \/ EndFiles
    \/ \E d \in DirBlocks : MakeFilesystem(d)
    \/ UpdateEntry \/ NextSequence \/ ReturnSize

=============================================================================
