------------------------------- MODULE Mastering -------------------------------
(***************************************************************************)
(* A client masters a disc: it builds the object, may ask for the size of  *)
(* its image, begins the output, writes the image, ends the output.        *)
(***************************************************************************)
EXTENDS ImageWriter

CONSTANT Again     \* bound: clients may output an object they have written already

vars == <<objVars, in_output, aborted, layoutVars, writerVars>>

Init == ObjInit /\ LayoutInit /\ WriterInit

\* What get_image_size said of the object no longer counts.  No client goes on
\* building an object it has just written an image of.
Build ==
    /\ pc = "idle"
    /\ result = -1
    /\ BuildNext
    /\ queried' = -1
    /\ UNCHANGED <<pc, i, n, query, iso_bitmap, dict, extents, writerVars>>

\* vcd_obj_begin_output, or vcd_obj_get_image_size (for_query)
StartOutput(for_query) ==
    /\ Again \/ result = -1
    /\ BeginOutput(for_query)
    /\ sectors_written' = 0
    /\ in_track' = 1
    /\ cues' = NoCues
    /\ wrote' = Nothing
    /\ cancelled' = FALSE
    /\ result' = -1
    /\ UNCHANGED last_cb_call

Layout == LayoutNext /\ UNCHANGED writerVars

EndOutput ==
    /\ Running("output")
    /\ ReleaseOutput
    /\ pc' = "idle"
    /\ UNCHANGED <<objVars, aborted, i, n, query, queried, extents, writerVars>>

\* vcd_obj_destroy
Destroy ==
    /\ Running("idle")
    /\ ~in_output
    /\ pc' = "destroyed"
    /\ UNCHANGED <<objVars, in_output, aborted, i, n, query, queried, iso_bitmap, dict>>
    /\ UNCHANGED <<extents, writerVars>>

Next ==
    \/ Build
    \/ \E for_query \in BOOLEAN : StartOutput(for_query)
    \/ Layout
    \/ \E answer \in BOOLEAN : WriteImage(answer)
    \/ WriterNext
    \/ EndOutput
    \/ Destroy

Spec == Init /\ [][Next]_vars

\* One thread runs begin_output and write_image to their ends.
Fairness == WF_vars(Layout) /\ WF_vars(WriterNext)

FairSpec == Spec /\ Fairness

-----------------------------------------------------------------------------
(* Types.                                                                  *)

WritePhases ==
    {"contents", "head", "write_segments", "write_ext", "write_files", "blank",
     "tracks", "sequence", "leadout"}

LayoutPhases ==
    {"reserve", "svcd", "fill", "segments", "ext", "files", "filesystem", "entries"}

Phases == {"idle", "output", "exited", "destroyed"} \cup LayoutPhases \cup WritePhases

BufferKeys ==
    {"pvd", "evd", "info", "entries", "lot", "psd", "tracks", "search",
     "scandata", "lot_x", "psd_x", "dir", "ptl", "ptm"}

\* The object, the layout and the writer have the shape the C structs give them:
\* extents and counters are never negative, lists hold records of their kind.
TypeOK ==
    /\ ObjTypeOK
    /\ pc \in Phases
    /\ i \in Nat
    /\ n \in Nat
    /\ query \in BOOLEAN
    /\ queried \in Nat \cup {-1}
    /\ iso_bitmap \subseteq Nat
    /\ dict \subseteq [key : BufferKeys, sector : Nat, length : Nat \ {0}]
    /\ mpeg_segment_start_extent \in Nat
    /\ ext_file_start_extent \in Nat
    /\ custom_file_start_extent \in Nat
    /\ iso_size \in Nat
    /\ image_size \in Nat
    /\ sectors_written \in Nat
    /\ in_track \in Nat
    /\ last_cb_call \in Nat
    /\ cancelled \in BOOLEAN
    /\ result \in {-1, 0, 1}

-----------------------------------------------------------------------------
(* Safety.                                                                 *)

\* The only ways an assertion of vcd.c and files.c can fail are ones the client
\* can see in its own calls: a cancelled write, too many items, entry points in
\* a stream without access points, an SVCD of streams without them or without
\* playing time.  In all other runs no sector is allocated twice, no extent is
\* misaligned and every extent is written where it was placed.
OnlyKnownAborts ==
    aborted =>
        \/ cancelled
        \/ Len(sequences) > MAX_TRACKS
        \/ \E k \in DOMAIN segments : SegmentsBefore(k) >= MAX_SEGMENTS
        \/ SegmentsBefore(Len(segments) + 1) > MAX_SEGMENTS
        \/ \E k \in DOMAIN EntrySlots : EntrySlots[k].additional /\ k > MAX_ENTRIES
        \/ \E k \in DOMAIN sequences :
              /\ sequences[k].source.aps = <<>>
              /\ sequences[k].entries # <<>> \/ Has4C_SVCD
        \/ Has4C_SVCD /\ \E k \in DOMAIN sequences : ~sequences[k].source.plays

\* What the directory and the descriptors of the finished image point at.
Recorded ==
    {[kind |-> e.key, no |-> 0, at |-> e.sector, length |-> e.length] : e \in dict}
      \cup {[kind |-> "segment", no |-> k, at |-> segments[k].start_extent,
             length |-> segments[k].segment_count * SEGMENT_SECTOR_SIZE]
              : k \in DOMAIN segments}
      \cup {[kind |-> "file", no |-> k, at |-> files[k].start_extent,
             length |-> files[k].sectors] : k \in DOMAIN files}
      \cup {[kind |-> "track", no |-> k, at |-> TrackStart(k),
             length |-> prm.track_front_margin + sequences[k].source.packets
                          + prm.track_rear_margin] : k \in DOMAIN sequences}

LaidOut == pc \in {"entries", "output"} \cup WritePhases

\* No two recorded extents share a sector, those of the ISO 9660 track end within
\* its size, and the tracks follow it.
LayoutDisjoint ==
    LaidOut =>
        /\ \A a, b \in Recorded :
              a # b => Extent(a.at, a.length) \cap Extent(b.at, b.length) = {}
        /\ \A a \in Recorded :
              IF a.kind = "track" THEN a.at >= iso_size + prm.track_pregap
              ELSE a.at + a.length <= iso_size

TrackKinds == {"front", "packet", "rear"}
FillKinds == {"blank", "pregap", "leadout"}

\* Every sector that reaches the sink belongs to the extent that records it, and
\* a sector in no extent is filler: what INFO, ENTRIES and the directory promise
\* at a sector is what a player finds there.
SectorsInPlace ==
    in_output /\ wrote # Nothing /\ ~cancelled =>
        LET kind == IF wrote.kind \in TrackKinds THEN "track" ELSE wrote.kind
            here == {a \in Recorded : wrote.lsn \in Extent(a.at, a.length)}
        IN  IF wrote.kind \in FillKinds THEN here = {}
            ELSE \E a \in here :
                    /\ a.kind = kind
                    /\ a.no = wrote.no
                    /\ kind \in {"segment", "file"} => wrote.lsn = a.at + wrote.at

\* The cue sheet is sent before the first sector is written, and the sectors fall
\* where it said: a track's pregap and its start, and every subindex on the packet
\* of its entry point's access point.
CueSheetKept ==
    in_output /\ wrote # Nothing /\ ~cancelled =>
        LET t == cues.tracks[wrote.no]
            s == sequences[wrote.no]
        IN  /\ wrote.kind = "pregap" => wrote.lsn = t.pregap + wrote.at
            /\ wrote.kind = "front" => wrote.lsn = t.start + wrote.at
            /\ wrote.kind = "packet" =>
                  \A e \in DOMAIN s.entries :
                      s.entries[e].aps.packet_no = wrote.at <=> t.subindex[e] = wrote.lsn
            /\ wrote.lsn < cues.end

\* Entry points may be added in any order of time: the subindexes of a track are
\* handed to the sink, and numbered in ENTRIES.VCD, in the order of the disc.
SubindexesInOrder ==
    \A k \in DOMAIN cues.tracks :
        LET sub == cues.tracks[k].subindex
        IN  \A e \in 2 .. Len(sub) : sub[e - 1] <= sub[e]

\* begin_output returns the sectors to be written: an image that is written
\* without a cancel has as many.
ImageSizeExact ==
    result = 0 /\ ~cancelled => sectors_written = image_size

\* What get_image_size tells stays true: laying the same object out again, to
\* write it, gives the size it told.
SizeStaysTrue ==
    pc = "output" /\ queried # -1 => image_size = queried

\* A client that shows progress hears of every CB_FREQUENCY sectors, at the
\* latest, in the second and later images of an object as in the first.
CallbackOften ==
    pc \in WritePhases => sectors_written - last_cb_call \in 0 .. CB_FREQUENCY - 1

-----------------------------------------------------------------------------
(* Liveness.                                                               *)

\* begin_output and write_image end, whatever the callback answers: they return,
\* or the process ends.
OutputReturns ==
    pc \in LayoutPhases \cup WritePhases
        ~> pc \in {"output", "idle", "exited"} \/ aborted

-----------------------------------------------------------------------------
(* What the documentation says, and the code does not.                     *)

\* vcd.h:134: if the progress callback returns a value # 0 the writing process
\* gets aborted.  No further sector would be written.
CancelStopsWriting ==
    [][cancelled /\ sectors_written > 0 => sectors_written' \in {sectors_written, 0}]_vars

=============================================================================
