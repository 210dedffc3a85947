------------------------------ MODULE ImageWriter ------------------------------
(***************************************************************************)
(* vcd_obj_write_image: the cue sheet, then every sector of the image in   *)
(* order, with calls of the client's progress callback in between.  One    *)
(* step is one sector.                                                     *)
(***************************************************************************)
EXTENDS IsoTrack

CONSTANT CB_FREQUENCY     \* cb_frequency: sectors between progress callbacks

ASSUME WriterAssumption == CB_FREQUENCY \in Nat \ {0}

VARIABLES
    sectors_written,
    in_track,
    last_cb_call,
    cues,          \* the cue sheet the sink got
    wrote,         \* the sector the sink got last: [lsn, kind, no, at]
    cancelled,     \* the callback has returned a value # 0
    result         \* what write_image returned, or -1

writerVars ==
    <<sectors_written, in_track, last_cb_call, cues, wrote, cancelled, result>>

NoCues == [tracks |-> <<>>, end |-> 0]
Nothing == [lsn |-> -1, kind |-> "nothing", no |-> 0, at |-> 0]

WriterInit ==
    /\ sectors_written = 0
    /\ in_track = 0
    /\ last_cb_call = 0
    /\ cues = NoCues
    /\ wrote = Nothing
    /\ cancelled = FALSE
    /\ result = -1

\* What no step of the writer changes.
frozen == <<objVars, in_output, query, queried, dict, extents>>

MoveTo(phase) == Goto(phase) /\ UNCHANGED <<frozen, iso_bitmap>>

Stay(item, sector) == i' = item /\ n' = sector /\ UNCHANGED <<frozen, pc>>

\* Mutant: one sector late.
Callback_late(at, force, answer) ==
    IF last_cb_call + CB_FREQUENCY >= at /\ ~force
    THEN ~answer /\ UNCHANGED <<last_cb_call, cancelled>>
    ELSE last_cb_call' = at /\ cancelled' = (cancelled \/ answer)

\* _callback_wrapper, once at sectors are written; answer: the client cancels.
Callback(at, force, answer) ==
    IF last_cb_call + CB_FREQUENCY > at /\ ~force
    THEN ~answer /\ UNCHANGED <<last_cb_call, cancelled>>
    ELSE last_cb_call' = at /\ cancelled' = (cancelled \/ answer)

\* _write_m2_image_sector and _write_m2_raw_image_sector
WriteSector(extent, kind, no, at, answer) ==
    /\ IF extent = sectors_written
       THEN /\ wrote' = [lsn |-> extent, kind |-> kind, no |-> no, at |-> at]
            /\ sectors_written' = sectors_written + 1
            /\ Callback(sectors_written + 1, FALSE, answer)
            /\ UNCHANGED aborted
       ELSE /\ aborted' = TRUE
            /\ UNCHANGED <<wrote, sectors_written, last_cb_call, cancelled>>
    /\ UNCHANGED <<in_track, cues, result>>

\* write_image returns.
Return(value) == pc' = "output" /\ result' = value

-----------------------------------------------------------------------------
(* The cue sheet: per track its pregap, its start and one subindex per     *)
(* entry point; then the end of the disc.  The list the sink gets is these *)
(* in order, after the start of the ISO track at 0.                        *)

TrackStart(k) == iso_size + sequences[k].relative_start_extent

\* Mutant: subindexes without the front margin.
CueSheet_nofront ==
    [tracks |-> [k \in DOMAIN sequences |->
        [pregap   |-> TrackStart(k) - prm.track_pregap,
         start    |-> TrackStart(k),
         subindex |-> [e \in DOMAIN sequences[k].entries |->
            TrackStart(k) + sequences[k].entries[e].aps.packet_no]]],
     end |-> relative_end_extent + iso_size + prm.leadout_pregap]

CueSheet ==
    [tracks |-> [k \in DOMAIN sequences |->
        [pregap   |-> TrackStart(k) - prm.track_pregap,
         start    |-> TrackStart(k),
         subindex |-> [e \in DOMAIN sequences[k].entries |->
            TrackStart(k) + prm.track_front_margin + sequences[k].entries[e].aps.packet_no]]],
     end |-> relative_end_extent + iso_size + prm.leadout_pregap]

\* Every client writes one image per begin_output.
WriteImage(answer) ==
    /\ Running("output")
    /\ result = -1
    /\ cues' = CueSheet
    /\ IF sectors_written = 0
       THEN /\ Callback(0, TRUE, answer)
            /\ UNCHANGED aborted
            /\ IF answer
               THEN Return(1) /\ UNCHANGED <<frozen, i, n, iso_bitmap>>
               ELSE /\ MoveTo("contents")
                    /\ UNCHANGED result
       ELSE Fails /\ UNCHANGED <<last_cb_call, cancelled, result>>
    /\ UNCHANGED <<sectors_written, in_track, wrote>>

-----------------------------------------------------------------------------
(* _write_vcd_iso_track                                                    *)

\* The assertions of set_info_vcd, set_entries_vcd, set_search_dat and
\* set_scandata_dat: the last two cannot do without access points and playing
\* time in every sequence.
ContentsAbort ==
    \/ HasPBC /\ SegmentsBefore(Len(segments) + 1) > MAX_SEGMENTS
    \/ \E k \in DOMAIN EntrySlots : EntrySlots[k].additional /\ k > MAX_ENTRIES
    \/ /\ Has4C_SVCD
       /\ \E k \in DOMAIN sequences :
             sequences[k].source.aps = <<>> \/ ~sequences[k].source.plays

MakeContents ==
    /\ Running("contents")
    /\ IF ContentsAbort THEN Fails ELSE MoveTo("head") /\ UNCHANGED aborted
    /\ UNCHANGED writerVars

\* Mutant: the first sector of a buffer is taken for the one before it.
BufferAt_shifted(s) ==
    IF \E e \in dict : s - 1 \in SectorsOf(e)
    THEN (CHOOSE e \in dict : s - 1 \in SectorsOf(e)).key
    ELSE "blank"

\* _dict_get_sector
BufferAt(s) ==
    IF \E e \in dict : s \in SectorsOf(e)
    THEN (CHOOSE e \in dict : s \in SectorsOf(e)).key
    ELSE "blank"

\* The buffers and the blanks among them, up to the segments.
WriteHead ==
    /\ Running("head")
    /\ n < mpeg_segment_start_extent
    /\ \E answer \in BOOLEAN : WriteSector(n, BufferAt(n), 0, 0, answer)
    /\ Stay(i, n + 1)
    /\ UNCHANGED iso_bitmap

EndHead ==
    /\ Running("head")
    /\ n >= mpeg_segment_start_extent
    /\ MoveTo("write_segments")
    /\ UNCHANGED <<aborted, writerVars>>

\* _write_segment: its packets, padded to whole units.
WriteSegment ==
    /\ Running("write_segments")
    /\ i <= Len(segments)
    /\ n < segments[i].segment_count * SEGMENT_SECTOR_SIZE
    /\ \E answer \in BOOLEAN :
          WriteSector(IF n = 0 THEN segments[i].start_extent ELSE sectors_written,
                      "segment", i, n, answer)
    /\ Stay(i, n + 1)
    /\ UNCHANGED iso_bitmap

NextSegment ==
    /\ Running("write_segments")
    /\ i <= Len(segments)
    /\ n >= segments[i].segment_count * SEGMENT_SECTOR_SIZE
    /\ Stay(i + 1, 0)
    /\ UNCHANGED <<aborted, iso_bitmap, writerVars>>

EndWriteSegments ==
    /\ Running("write_segments")
    /\ i > Len(segments)
    /\ IF sectors_written = ext_file_start_extent
       THEN MoveTo("write_ext") /\ UNCHANGED aborted
       ELSE Fails
    /\ UNCHANGED writerVars

WriteExt ==
    /\ Running("write_ext")
    /\ sectors_written < custom_file_start_extent
    /\ \E answer \in BOOLEAN :
          WriteSector(sectors_written, BufferAt(sectors_written), 0, 0, answer)
    /\ Stay(i, n)
    /\ UNCHANGED iso_bitmap

EndWriteExt ==
    /\ Running("write_ext")
    /\ sectors_written >= custom_file_start_extent
    /\ IF sectors_written = custom_file_start_extent
       THEN MoveTo("write_files") /\ UNCHANGED aborted
       ELSE Fails
    /\ UNCHANGED writerVars

\* _write_source_mode2_raw and _write_source_mode2_form1: a cancelled file is
\* left for the next one.
WriteFile ==
    /\ Running("write_files")
    /\ i <= Len(files)
    /\ n < files[i].sectors
    /\ \E answer \in BOOLEAN :
          /\ WriteSector(files[i].start_extent + n, "file", i, n, answer)
          /\ IF answer THEN Stay(i + 1, 0) ELSE Stay(i, n + 1)
    /\ UNCHANGED iso_bitmap

NextFile ==
    /\ Running("write_files")
    /\ i <= Len(files)
    /\ n >= files[i].sectors
    /\ Stay(i + 1, 0)
    /\ UNCHANGED <<aborted, iso_bitmap, writerVars>>

EndWriteFiles ==
    /\ Running("write_files")
    /\ i > Len(files)
    /\ MoveTo("blank")
    /\ UNCHANGED <<aborted, writerVars>>

\* The sectors nobody uses are found by reserving them one at a time.
WriteBlank ==
    LET s == FirstFit(iso_bitmap, 1)
    IN  /\ Running("blank")
        /\ iso_bitmap' = iso_bitmap \cup {s}
        /\ IF s < iso_size
           THEN /\ \E answer \in BOOLEAN : WriteSector(s, "blank", 0, 0, answer)
                /\ Stay(i, n)
           ELSE /\ Goto("tracks")
                /\ UNCHANGED <<frozen, aborted, writerVars>>

-----------------------------------------------------------------------------
(* The tracks, the lead-out, the end.                                      *)

StartTrack(answer) ==
    /\ Running("tracks")
    /\ i <= Len(sequences)
    /\ in_track' = in_track + 1
    /\ Callback(sectors_written, TRUE, answer)
    /\ IF answer
       THEN Return(1) /\ UNCHANGED n
       ELSE pc' = "sequence" /\ n' = 0 /\ UNCHANGED result
    /\ UNCHANGED <<frozen, aborted, i, iso_bitmap, sectors_written, cues, wrote>>

\* Where the parts of track i begin and end, from the start of its pregap.
FrontAt == prm.track_pregap
PacketsAt == FrontAt + prm.track_front_margin
RearAt == PacketsAt + sequences[i].source.packets
SequenceEnd == RearAt + prm.track_rear_margin

WriteGap(kind, from, to) ==
    /\ Running("sequence")
    /\ n \in from .. to - 1
    /\ \E answer \in BOOLEAN :
          WriteSector(sectors_written, kind, i, n - from, answer)
    /\ Stay(i, n + 1)
    /\ UNCHANGED iso_bitmap

WritePregap == WriteGap("pregap", 0, FrontAt)
WriteFrontMargin == WriteGap("front", FrontAt, PacketsAt)
WriteRearMargin == WriteGap("rear", RearAt, SequenceEnd)

\* A cancelled track goes on with its rear margin; vcd_error on an invalid packet.
WritePacket ==
    /\ Running("sequence")
    /\ n \in PacketsAt .. RearAt - 1
    /\ IF sequences[i].source.invalid = n - PacketsAt + 1
       THEN /\ pc' = "exited"
            /\ UNCHANGED <<frozen, aborted, i, n, writerVars>>
       ELSE \E answer \in BOOLEAN :
               /\ WriteSector(sectors_written, "packet", i, n - PacketsAt, answer)
               /\ IF answer THEN Stay(i, RearAt) ELSE Stay(i, n + 1)
    /\ UNCHANGED iso_bitmap

EndSequence ==
    /\ Running("sequence")
    /\ n >= SequenceEnd
    /\ pc' = "tracks"
    /\ i' = i + 1
    /\ UNCHANGED <<frozen, aborted, n, iso_bitmap, writerVars>>

EndTracks ==
    /\ Running("tracks")
    /\ i > Len(sequences)
    /\ MoveTo("leadout")
    /\ UNCHANGED <<aborted, writerVars>>

WriteLeadout ==
    /\ Running("leadout")
    /\ n < prm.leadout_pregap
    /\ \E answer \in BOOLEAN : WriteSector(sectors_written, "leadout", 0, n, answer)
    /\ Stay(i, n + 1)
    /\ UNCHANGED iso_bitmap

\* Only an image that is not cancelled here has its sink destroyed.
Finish(answer) ==
    /\ Running("leadout")
    /\ n >= prm.leadout_pregap
    /\ Callback(sectors_written, TRUE, answer)
    /\ Return(IF answer THEN 1 ELSE 0)
    /\ UNCHANGED <<frozen, aborted, i, n, iso_bitmap>>
    /\ UNCHANGED <<sectors_written, in_track, cues, wrote>>

WriterNext ==
    \/ MakeContents
    \/ WriteHead \/ EndHead
    \/ WriteSegment \/ NextSegment \/ EndWriteSegments
    \/ WriteExt \/ EndWriteExt
    \/ WriteFile \/ NextFile \/ EndWriteFiles
    \/ WriteBlank
    \/ \E answer \in BOOLEAN : StartTrack(answer)
    \/ WritePregap \/ WriteFrontMargin \/ WritePacket \/ WriteRearMargin
    \/ EndSequence \/ EndTracks
    \/ WriteLeadout
    \/ \E answer \in BOOLEAN : Finish(answer)

=============================================================================
