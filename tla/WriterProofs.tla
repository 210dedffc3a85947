----------------------------- MODULE WriterProofs -----------------------------
(***************************************************************************)
(* The image that write_image writes, of every disc whose parameters are   *)
(* set before its sequences: how far it has come in each phase, and so     *)
(* that it is as long as begin_output said.  And what a client gets to see *)
(* of begin_output and write_image, for every disc, every frequency of the *)
(* callback and every answer: how often it hears of the writing, what size *)
(* it is told, and why the process ends.                                   *)
(***************************************************************************)
EXTENDS LayoutProofs

-----------------------------------------------------------------------------
(* How far the image has come, while nothing has failed and the client     *)
(* has not cancelled.                                                      *)

ContentsWritten == pc = "contents" => sectors_written = 0

HeadWritten ==
    pc = "head" => sectors_written = n /\ n <= mpeg_segment_start_extent

\* Where the segments before segment k end.
SegmentFrom(k) == IF k = 1 THEN mpeg_segment_start_extent ELSE SegmentEnd(k - 1)

SegmentsWritten ==
    pc = "write_segments" =>
        IF n > 0
        THEN /\ i \in DOMAIN segments
             /\ n <= SegmentSize(i)
             /\ sectors_written = segments[i].start_extent + n
        ELSE i <= Len(segments) + 1 /\ sectors_written = SegmentFrom(i)

ExtWritten ==
    pc = "write_ext" =>
        /\ ext_file_start_extent <= sectors_written
        /\ sectors_written <= custom_file_start_extent

\* Sector x is where the files before file k end: those without sectors have no place.
FilesUpTo(k, x) ==
    \/ /\ \A j \in 1 .. k - 1 : files[j].sectors = 0
       /\ x = custom_file_start_extent
    \/ \E j \in 1 .. k - 1 :
          /\ files[j].sectors # 0
          /\ \A h \in j + 1 .. k - 1 : files[h].sectors = 0
          /\ x = FileEnd(j)

\* Between two files the image ends where the last of those before it does that has
\* sectors, and so behind all of them.
FilesWritten ==
    pc = "write_files" =>
        IF n > 0
        THEN /\ i \in DOMAIN files
             /\ n <= files[i].sectors
             /\ sectors_written = files[i].start_extent + n
        ELSE /\ custom_file_start_extent <= sectors_written
             /\ \A j \in DOMAIN files :
                   j < i /\ files[j].sectors # 0 => FileEnd(j) <= sectors_written
             /\ i <= Len(files) + 1
             /\ FilesUpTo(i, sectors_written)

BlanksWritten == pc = "blank" => sectors_written = End /\ End <= iso_size

TracksWritten ==
    pc = "tracks" =>
        /\ i <= Len(sequences) + 1
        /\ sectors_written + prm.track_pregap = iso_size + StartOf(i)

SequenceWritten ==
    pc = "sequence" =>
        /\ n <= SequenceEnd
        /\ sectors_written + prm.track_pregap = (iso_size + StartOf(i)) + n

LeadoutWritten ==
    pc = "leadout" =>
        /\ n <= prm.leadout_pregap
        /\ sectors_written = (iso_size + relative_end_extent) + n

\* How far the ISO 9660 track has come, and the tracks behind it.
IsoProgress ==
    ~cancelled /\ ~aborted =>
        /\ ContentsWritten /\ HeadWritten /\ SegmentsWritten /\ ExtWritten /\ FilesWritten
        /\ BlanksWritten

TrackProgress ==
    ~cancelled /\ ~aborted => TracksWritten /\ SequenceWritten /\ LeadoutWritten

Progress == IsoProgress /\ TrackProgress

\* write_image has not returned while it, or begin_output, runs.
Unanswered == pc \in LayoutPhases \cup WritePhases => result = -1

SizeKnown ==
    pc \in {"output"} \cup WritePhases =>
        image_size = relative_end_extent + iso_size + prm.leadout_pregap

ImageInv == Progress /\ Unanswered /\ SizeKnown /\ ImageSizeExact

\* A sector that is written, with no answer but go on.
LEMMA SectorWritten ==
    ASSUME ShapeInv, NEW extent, NEW kind, NEW no, NEW at, NEW answer \in BOOLEAN,
           WriteSector(extent, kind, no, at, answer), ~cancelled', ~aborted'
    PROVE  /\ extent = sectors_written /\ sectors_written' = sectors_written + 1
           /\ ~answer /\ ~cancelled /\ ~aborted
           /\ wrote' = [lsn |-> extent, kind |-> kind, no |-> no, at |-> at]
           /\ UNCHANGED <<in_track, cues, result>>
  <1>1. extent = sectors_written
    BY DEF WriteSector
  <1>2. /\ sectors_written' = sectors_written + 1
        /\ wrote' = [lsn |-> extent, kind |-> kind, no |-> no, at |-> at]
        /\ Callback(sectors_written + 1, FALSE, answer)
        /\ UNCHANGED <<aborted, in_track, cues, result>>
    BY <1>1 DEF WriteSector
  <1>3. ~answer /\ ~cancelled
    BY <1>2 DEF Callback
  <1> QED
    BY <1>1, <1>2, <1>3

\* The numbers the writer counts with.
LEMMA ImageTypes ==
    ASSUME ShapeInv
    PROVE  /\ sectors_written \in Nat /\ n \in Nat /\ i \in Nat
           /\ mpeg_segment_start_extent \in Nat /\ ext_file_start_extent \in Nat
           /\ custom_file_start_extent \in Nat /\ iso_size \in Nat
           /\ relative_end_extent \in Nat
           /\ prm.track_pregap \in Nat /\ prm.leadout_pregap \in Nat
  BY ExtentTypes, ParamTypes DEF ShapeInv, WriterTypeOK, ObjTypeOK

\* What a step of the writer leaves as it is.
LEMMA FrozenParts ==
    ASSUME UNCHANGED frozen
    PROVE  /\ UNCHANGED <<type, prm, sequences, segments, files, pbc_list>>
           /\ UNCHANGED <<relative_end_extent, in_output, dict, image_size>>
           /\ UNCHANGED <<mpeg_segment_start_extent, ext_file_start_extent>>
           /\ UNCHANGED <<custom_file_start_extent, iso_size>>
  BY DEF frozen, objVars, extents

\* Where the tracks begin.
LEMMA Starts ==
    ASSUME ShapeInv, TracksInv
    PROVE  /\ \A k \in 1 .. Len(sequences) + 1 : StartOf(k) \in Nat
           /\ \A k \in 1 .. Len(sequences) :
                 /\ sequences[k].relative_start_extent = StartOf(k)
                 /\ SequenceLength(k) \in Nat
                 /\ StartOf(k + 1) = prm.track_pregap + (StartOf(k) + SequenceLength(k))
           /\ StartOf(1) = prm.track_pregap
           /\ StartOf(Len(sequences) + 1) = prm.track_pregap + relative_end_extent
           /\ Len(sequences) \in Nat /\ DOMAIN sequences = 1 .. Len(sequences)
  <1>1. /\ Len(sequences) \in Nat /\ DOMAIN sequences = 1 .. Len(sequences)
        /\ prm.track_pregap \in Nat /\ relative_end_extent \in Nat
    BY ListLengths, ImageTypes DEF ShapeInv
  <1>2. StartOf(1) = prm.track_pregap
    BY <1>1 DEF StartOf
  <1>3. ASSUME NEW k \in 1 .. Len(sequences)
        PROVE  /\ sequences[k].relative_start_extent = StartOf(k)
               /\ SequenceLength(k) \in Nat
               /\ sequences[k].relative_start_extent \in Nat
               /\ StartOf(k + 1) = prm.track_pregap + (StartOf(k) + SequenceLength(k))
    <2>1. /\ sequences[k].relative_start_extent = StartOf(k)
          /\ SequenceLength(k) \in Nat
          /\ sequences[k].relative_start_extent \in Nat
      BY <1>1, TrackNumbers DEF ShapeInv, TracksInv, SequencesAdjoin
    <2>2. k + 1 # 1 /\ (k + 1) - 1 = k
      OBVIOUS
    <2>3. StartOf(k + 1) = prm.track_pregap
             + (sequences[k].relative_start_extent + SequenceLength(k))
      BY <2>2 DEF StartOf
    <2> QED
      BY <2>1, <2>3
  <1>4. \A k \in 1 .. Len(sequences) + 1 : StartOf(k) \in Nat
    <2>1. ASSUME NEW k \in 1 .. Len(sequences) + 1 PROVE StartOf(k) \in Nat
      <3>1. CASE k = 1
        BY <1>1, <1>2, <3>1
      <3>2. CASE k # 1
        <4>1. k - 1 \in 1 .. Len(sequences) /\ (k - 1) + 1 = k
          BY <1>1, <3>2
        <4>2. StartOf((k - 1) + 1) =
                  prm.track_pregap + (StartOf(k - 1) + SequenceLength(k - 1))
          BY <1>3, <4>1
        <4>3. StartOf(k - 1) \in Nat /\ SequenceLength(k - 1) \in Nat
          BY <1>3, <4>1
        <4> QED
          BY <1>1, <4>1, <4>2, <4>3
      <3> QED
        BY <3>1, <3>2
    <2> QED
      BY <2>1
  <1>5. StartOf(Len(sequences) + 1) = prm.track_pregap + relative_end_extent
    <2>1. CASE sequences = <<>>
      <3>1. Len(sequences) = 0 /\ relative_end_extent = 0
        BY <2>1 DEF TracksInv, SequencesAdjoin
      <3> QED
        BY <1>1, <1>2, <3>1
    <2>2. CASE sequences # <<>>
      <3>1. relative_end_extent = StartOf(Len(sequences) + 1) - prm.track_pregap
        BY <2>2 DEF TracksInv, SequencesAdjoin
      <3>2. Len(sequences) + 1 \in 1 .. Len(sequences) + 1
        BY <1>1
      <3> QED
        BY <1>1, <1>4, <3>1, <3>2
    <2> QED
      BY <2>1, <2>2
  <1> QED
    BY <1>1, <1>2, <1>3, <1>4, <1>5


-----------------------------------------------------------------------------
(* The steps of write_image, phase by phase.                               *)

\* Where the ISO 9660 track is laid out, and its tracks do not overlap.
IsoLaidOut == ShapeInv /\ PlaceInv

LaidOutWell == IsoLaidOut /\ TracksInv

\* A phase that has not come, or is over, asks for nothing.
LEMMA Elsewhere ==
    /\ pc' # "contents" => ContentsWritten'
    /\ pc' # "head" => HeadWritten'
    /\ pc' # "write_segments" => SegmentsWritten'
    /\ pc' # "write_ext" => ExtWritten'
    /\ pc' # "write_files" => FilesWritten'
    /\ pc' # "blank" => BlanksWritten'
    /\ pc' # "tracks" => TracksWritten'
    /\ pc' # "sequence" => SequenceWritten'
    /\ pc' # "leadout" => LeadoutWritten'
  <1>1. pc' # "contents" => ContentsWritten'
    BY DEF ContentsWritten
  <1>2. pc' # "head" => HeadWritten'
    BY DEF HeadWritten
  <1>3. pc' # "write_segments" => SegmentsWritten'
    BY DEF SegmentsWritten
  <1>4. pc' # "write_ext" => ExtWritten'
    BY DEF ExtWritten
  <1>5. pc' # "write_files" => FilesWritten'
    BY DEF FilesWritten
  <1>6. pc' # "blank" => BlanksWritten'
    BY DEF BlanksWritten
  <1>7. pc' # "tracks" => TracksWritten'
    BY DEF TracksWritten
  <1>8. pc' # "sequence" => SequenceWritten'
    BY DEF SequenceWritten
  <1>9. pc' # "leadout" => LeadoutWritten'
    BY DEF LeadoutWritten
  <1> QED
    BY <1>1, <1>2, <1>3, <1>4, <1>5, <1>6, <1>7, <1>8, <1>9

\* The sectors up to the end of the EXT area.
LEMMA HeadProgress ==
    ASSUME IsoLaidOut, IsoProgress, ~cancelled', ~aborted', MakeContents \/ WriteHead \/ EndHead
    PROVE  IsoProgress'
  <1>1. ShapeInv
    BY DEF IsoLaidOut
  <1>2. CASE MakeContents
    <2>1. /\ pc = "contents" /\ ~aborted /\ pc' = "head" /\ n' = 0
          /\ UNCHANGED <<sectors_written, cancelled>>
      BY <1>2 DEF MakeContents, Running, MoveTo, Goto, Fails, writerVars
    <2>2. sectors_written = 0
      BY <2>1 DEF IsoProgress, ContentsWritten
    <2>3. HeadWritten'
      <3>1. n' = 0 /\ sectors_written' = 0
        BY <2>1, <2>2
      <3>2. mpeg_segment_start_extent' = mpeg_segment_start_extent
        BY <1>2 DEF MakeContents, MoveTo, Fails, frozen, layoutVars, extents
      <3> QED
        BY <1>1, <3>1, <3>2, ImageTypes DEF HeadWritten
    <2> QED
      BY <2>1, <2>2, <2>3, Elsewhere DEF IsoProgress
  <1>3. CASE WriteHead
    <2>1. /\ pc = "head" /\ pc' = pc /\ n' = n + 1 /\ n < mpeg_segment_start_extent
          /\ \E answer \in BOOLEAN : WriteSector(n, BufferAt(n), 0, 0, answer)
          /\ UNCHANGED frozen
      BY <1>3 DEF WriteHead, Running, Stay
    <2>2. n = sectors_written /\ sectors_written' = sectors_written + 1
      BY <1>1, <2>1, SectorWritten
    <2>3. HeadWritten'
      <3>1. mpeg_segment_start_extent' = mpeg_segment_start_extent
        BY <2>1, FrozenParts
      <3>2. n + 1 <= mpeg_segment_start_extent
        BY <1>1, <2>1, ImageTypes
      <3> QED
        BY <2>1, <2>2, <3>1, <3>2 DEF HeadWritten
    <2> QED
      BY <2>1, <2>2, <2>3, Elsewhere DEF IsoProgress
  <1>4. CASE EndHead
    <2>1. /\ pc = "head" /\ ~aborted /\ n >= mpeg_segment_start_extent
          /\ pc' = "write_segments" /\ i' = 1 /\ n' = 0
          /\ UNCHANGED frozen /\ UNCHANGED <<sectors_written, cancelled>>
      BY <1>4 DEF EndHead, Running, MoveTo, Goto, writerVars
    <2>2. SegmentsWritten'
      <3>1. sectors_written = n /\ n <= mpeg_segment_start_extent
        BY <2>1 DEF IsoProgress, HeadWritten
      <3>2. sectors_written = mpeg_segment_start_extent
        BY <1>1, <2>1, <3>1, ImageTypes
      <3>3. UNCHANGED <<mpeg_segment_start_extent, segments>>
        BY <2>1, FrozenParts
      <3>4. 1 <= Len(segments) + 1
        BY <1>1, ListLengths DEF ShapeInv
      <3> QED
        BY <2>1, <3>2, <3>3, <3>4 DEF SegmentsWritten, SegmentFrom
    <2> QED
      BY <2>1, <2>2, Elsewhere DEF IsoProgress
  <1> QED
    BY <1>2, <1>3, <1>4

LEMMA SegmentsProgress ==
    ASSUME IsoLaidOut, IsoProgress, ~cancelled', ~aborted',
           WriteSegment \/ NextSegment \/ EndWriteSegments
    PROVE  IsoProgress'
  <1>1. ShapeInv
    BY DEF IsoLaidOut
  <1>2. CASE WriteSegment
    <2>1. PICK start, size : start = segments[i].start_extent /\ size = SegmentSize(i)
      OBVIOUS
    <2>2. PICK answer \in BOOLEAN :
             WriteSector(IF n = 0 THEN start ELSE sectors_written, "segment", i, n, answer)
      BY <1>2, <2>1 DEF WriteSegment
    <2>3. /\ pc = "write_segments" /\ pc' = pc /\ n' = n + 1 /\ i' = i
          /\ i <= Len(segments) /\ n < size /\ UNCHANGED frozen
      BY <1>2, <2>1 DEF WriteSegment, Running, Stay, SegmentSize
    <2>4. segments' = segments
      BY <2>3, FrozenParts
    <2>5. i \in DOMAIN segments
      BY <1>1, <2>3, ListLengths, ImageTypes
      DEF ShapeInv, Counting, Started, WritePhases
    <2>6. start \in Nat /\ size \in Nat /\ n \in Nat /\ sectors_written \in Nat
      BY <1>1, <2>1, <2>5, ListLengths, ItemTypes, ImageTypes DEF ShapeInv
    <2>7. /\ (IF n = 0 THEN start ELSE sectors_written) = sectors_written
          /\ sectors_written' = sectors_written + 1
          /\ ~cancelled /\ ~aborted
      BY <1>1, <2>2, SectorWritten
    <2>8. sectors_written = start + n
      <3>1. CASE n = 0
        BY <2>6, <2>7, <3>1
      <3>2. CASE n # 0
        BY <2>1, <2>3, <2>6, <2>7, <3>2 DEF IsoProgress, SegmentsWritten
      <3> QED
        BY <3>1, <3>2
    <2>9. /\ i' \in DOMAIN segments' /\ segments'[i'].start_extent = start
          /\ SegmentSize(i)' = size
      BY <2>1, <2>3, <2>4, <2>5 DEF SegmentSize
    <2>10. n' <= size /\ sectors_written' = start + n'
      BY <2>3, <2>6, <2>7, <2>8
    <2>11. SegmentsWritten'
      <3>1. n' > 0
        BY <2>3, <2>6
      <3> QED
        BY <2>3, <2>9, <2>10, <3>1 DEF SegmentsWritten
    <2> QED
      BY <2>3, <2>9, <2>10, <2>11, Elsewhere DEF IsoProgress
  <1>3. CASE NextSegment
    <2>1. PICK k : k = i
      OBVIOUS
    <2>2. /\ pc = "write_segments" /\ pc' = pc /\ i' = k + 1 /\ n' = 0
          /\ k <= Len(segments) /\ n >= SegmentSize(k)
          /\ UNCHANGED frozen /\ UNCHANGED <<sectors_written, cancelled, aborted>>
      BY <1>3, <2>1 DEF NextSegment, Running, Stay, SegmentSize, writerVars
    <2>3. k \in DOMAIN segments /\ k \in Nat \ {0} /\ Len(segments) \in Nat
      BY <1>1, <2>1, <2>2, ListLengths, ImageTypes
      DEF ShapeInv, Counting, Started, WritePhases
    <2>4. /\ SegmentSize(k) \in Nat \ {0} /\ segments[k].start_extent \in Nat
          /\ n \in Nat /\ sectors_written \in Nat
      BY <1>1, <2>3, ListLengths, ItemTypes, ImageTypes DEF ShapeInv
    <2>5. n > 0
      BY <2>2, <2>4
    <2>6. sectors_written = segments[k].start_extent + n /\ n <= SegmentSize(k)
      BY <2>1, <2>2, <2>5 DEF IsoProgress, SegmentsWritten
    <2>7. sectors_written = SegmentEnd(k)
      BY <2>2, <2>4, <2>6 DEF SegmentEnd
    <2>8. UNCHANGED <<mpeg_segment_start_extent, segments>> /\ SegmentEnd(k)' = SegmentEnd(k)
      BY <2>2, FrozenParts DEF SegmentEnd, SegmentSize
    <2>9. SegmentFrom(i)' = SegmentEnd(k)
      <3>1. k + 1 # 1 /\ (k + 1) - 1 = k
        BY <2>3
      <3> QED
        BY <2>2, <2>8, <3>1 DEF SegmentFrom
    <2>10. k + 1 <= Len(segments) + 1
      BY <2>2, <2>3
    <2>11. SegmentsWritten'
      BY <2>2, <2>7, <2>8, <2>9, <2>10 DEF SegmentsWritten
    <2> QED
      BY <2>2, <2>11, Elsewhere DEF IsoProgress
  <1>4. CASE EndWriteSegments
    <2>1. /\ pc = "write_segments" /\ pc' = "write_ext"
          /\ sectors_written = ext_file_start_extent
          /\ UNCHANGED <<sectors_written, frozen>>
      BY <1>4 DEF EndWriteSegments, Running, MoveTo, Goto, Fails, writerVars
    <2>2. /\ UNCHANGED <<ext_file_start_extent, custom_file_start_extent>>
      BY <2>1, FrozenParts
    <2>3. ext_file_start_extent \in Nat /\ ext_file_start_extent <= custom_file_start_extent
      <3>1. /\ pc \in Started /\ ExtFrom = ext_file_start_extent
            /\ FilesFrom = custom_file_start_extent
        BY <2>1 DEF Started, WritePhases, ExtFrom, FilesFrom, BeforeSegments, BeforeExt,
                    BeforeFiles
      <3> QED
        BY <1>1, <3>1, ImageTypes DEF IsoLaidOut, PlaceInv, Borders
    <2>4. ExtWritten'
      BY <2>1, <2>2, <2>3 DEF ExtWritten
    <2> QED
      BY <2>1, <2>2, <2>3, <2>4, Elsewhere DEF IsoProgress
  <1> QED
    BY <1>2, <1>3, <1>4

\* The end of the files before the next one.
LEMMA FilesUpToNext ==
    ASSUME NEW k \in Nat \ {0}, NEW x
    PROVE  /\ x = custom_file_start_extent => FilesUpTo(1, x)
           /\ files[k].sectors = 0 /\ FilesUpTo(k, x) => FilesUpTo(k + 1, x)
           /\ files[k].sectors # 0 /\ x = FileEnd(k) => FilesUpTo(k + 1, x)
  <1>1. /\ (k + 1) - 1 = k /\ k \in 1 .. k
        /\ \A j \in 1 .. k : j \in 1 .. k - 1 \/ j = k
        /\ 1 .. k - 1 \subseteq 1 .. k
    OBVIOUS
  <1>2. ASSUME x = custom_file_start_extent PROVE FilesUpTo(1, x)
    <2>1. \A j \in 1 .. 1 - 1 : files[j].sectors = 0
      OBVIOUS
    <2> QED
      BY <1>2, <2>1 DEF FilesUpTo
  <1>3. ASSUME files[k].sectors = 0, FilesUpTo(k, x) PROVE FilesUpTo(k + 1, x)
    <2>1. CASE \A j \in 1 .. k - 1 : files[j].sectors = 0
      <3>1. \A j \in 1 .. k : files[j].sectors = 0
        BY <1>1, <1>3, <2>1
      <3>2. x = custom_file_start_extent
        BY <1>3, <2>1 DEF FilesUpTo
      <3> QED
        BY <1>1, <3>1, <3>2 DEF FilesUpTo
    <2>2. CASE ~\A j \in 1 .. k - 1 : files[j].sectors = 0
      <3>1. PICK j \in 1 .. k - 1 :
               /\ files[j].sectors # 0
               /\ \A h \in j + 1 .. k - 1 : files[h].sectors = 0
               /\ x = FileEnd(j)
        BY <1>3, <2>2 DEF FilesUpTo
      <3>2. \A h \in j + 1 .. k : h \in j + 1 .. k - 1 \/ h = k
        OBVIOUS
      <3>3. \A h \in j + 1 .. k : files[h].sectors = 0
        BY <1>3, <3>1, <3>2
      <3>4. j \in 1 .. k
        BY <1>1
      <3> QED
        BY <1>1, <3>1, <3>3, <3>4 DEF FilesUpTo
    <2> QED
      BY <2>1, <2>2
  <1>4. ASSUME files[k].sectors # 0, x = FileEnd(k) PROVE FilesUpTo(k + 1, x)
    <2>1. \A h \in k + 1 .. k : files[h].sectors = 0
      OBVIOUS
    <2> QED
      BY <1>1, <1>4, <2>1 DEF FilesUpTo
  <1> QED
    BY <1>2, <1>3, <1>4

\* It stays where it is while the files are written.
LEMMA FilesUpToKept ==
    ASSUME UNCHANGED <<files, custom_file_start_extent>>, NEW k, NEW x,
           FilesUpTo(k, x), i' = k, sectors_written' = x
    PROVE  FilesUpTo(i, sectors_written)'
  <1>1. \A j : FileEnd(j)' = FileEnd(j)
    BY DEF FileEnd
  <1> QED
    BY <1>1 DEF FilesUpTo

LEMMA ExtProgress ==
    ASSUME IsoLaidOut, IsoProgress, ~cancelled', ~aborted', WriteExt \/ EndWriteExt
    PROVE  IsoProgress'
  <1>1. ShapeInv
    BY DEF IsoLaidOut
  <1>2. CASE WriteExt
    <2>1. /\ pc = "write_ext" /\ pc' = pc /\ sectors_written < custom_file_start_extent
          /\ UNCHANGED frozen
          /\ \E answer \in BOOLEAN :
                WriteSector(sectors_written, BufferAt(sectors_written), 0, 0, answer)
      BY <1>2 DEF WriteExt, Running, Stay
    <2>2. sectors_written' = sectors_written + 1 /\ ~cancelled /\ ~aborted
      BY <1>1, <2>1, SectorWritten
    <2>3. ext_file_start_extent <= sectors_written
      BY <2>1, <2>2 DEF IsoProgress, ExtWritten
    <2>4. UNCHANGED <<ext_file_start_extent, custom_file_start_extent>>
      BY <2>1, FrozenParts
    <2>5. /\ ext_file_start_extent' <= sectors_written'
          /\ sectors_written' <= custom_file_start_extent'
      BY <1>1, <2>1, <2>2, <2>3, <2>4, ImageTypes
    <2>6. ExtWritten'
      BY <2>1, <2>5 DEF ExtWritten
    <2> QED
      BY <2>1, <2>5, <2>6, Elsewhere DEF IsoProgress
  <1>3. CASE EndWriteExt
    <2>1. /\ pc' = "write_files" /\ i' = 1 /\ n' = 0
          /\ sectors_written = custom_file_start_extent
          /\ UNCHANGED <<sectors_written, frozen>>
      BY <1>3 DEF EndWriteExt, MoveTo, Goto, Fails, writerVars
    <2>2. UNCHANGED <<files, custom_file_start_extent>>
      BY <2>1, FrozenParts
    <2>3. \A j \in DOMAIN files' : ~(j < i')
      BY <1>1, <2>1, <2>2, ListLengths DEF ShapeInv
    <2>4. custom_file_start_extent' <= sectors_written'
      BY <1>1, <2>1, <2>2, ImageTypes
    <2>5. FilesUpTo(i, sectors_written)'
      <3>1. FilesUpTo(1, sectors_written)
        BY <2>1, FilesUpToNext
      <3> QED
        BY <2>1, <2>2, <3>1, FilesUpToKept
    <2>6. i' <= Len(files') + 1
      BY <1>1, <2>1, <2>2, ListLengths DEF ShapeInv
    <2>7. FilesWritten'
      BY <2>1, <2>2, <2>3, <2>4, <2>5, <2>6 DEF FilesWritten
    <2> QED
      BY <2>1, <2>7, Elsewhere DEF IsoProgress
  <1> QED
    BY <1>2, <1>3

\* The places of the files, while they are written.
LEMMA FilePlaces ==
    ASSUME IsoLaidOut, pc = "write_files"
    PROVE  /\ \A j \in DOMAIN files :
                /\ j \in Nat
                /\ files[j].start_extent \in Nat /\ files[j].sectors \in Nat
                /\ FileEnd(j) = files[j].start_extent + files[j].sectors
                /\ custom_file_start_extent <= files[j].start_extent
                /\ FileEnd(j) <= End
                /\ files[j].sectors # 0 =>
                      \A h \in DOMAIN files :
                         h < j /\ files[h].sectors # 0 => FileEnd(h) <= files[j].start_extent
           /\ custom_file_start_extent <= End /\ End <= iso_size /\ End \in Nat
           /\ \/ End = custom_file_start_extent
              \/ \E j \in DOMAIN files : files[j].sectors # 0 /\ FileEnd(j) = End
  <1>1. /\ pc \in Started \ BeforeFiles /\ Unblanked
        /\ FilesFrom = custom_file_start_extent /\ IsoEnd = iso_size
        /\ \A k : FilePlaced(k)
    BY DEF Started, WritePhases, BeforeSegments, BeforeExt, BeforeFiles, BeforeSize, Unblanked,
           FilesFrom, IsoEnd, FilePlaced
  <1>2. \A j \in DOMAIN files :
           /\ j \in 1 .. Len(files) /\ j \in Nat
           /\ files[j].start_extent \in Nat /\ files[j].sectors \in Nat
           /\ FileEnd(j) = files[j].start_extent + files[j].sectors
    BY ListLengths, ItemTypes DEF IsoLaidOut, ShapeInv, FileEnd
  <1>3. \A j \in DOMAIN files :
           /\ custom_file_start_extent <= files[j].start_extent
           /\ FileEnd(j) <= End
           /\ files[j].sectors # 0 =>
                \A h \in 1 .. j - 1 : files[h].sectors # 0 => FileEnd(h) <= files[j].start_extent
    BY <1>1 DEF IsoLaidOut, PlaceInv, FilesPlaced
  <1>4. \A j \in DOMAIN files : \A h \in DOMAIN files : h < j => h \in 1 .. j - 1
    BY <1>2
  <1>5. custom_file_start_extent <= End /\ End <= iso_size /\ End \in Nat
    BY <1>1 DEF IsoLaidOut, PlaceInv, Borders, ShapeInv, Packed
  <1>6. \/ End = custom_file_start_extent
        \/ \E j \in DOMAIN files : files[j].sectors # 0 /\ FileEnd(j) = End
    BY <1>1 DEF IsoLaidOut, PlaceInv, FilesReachEnd
  <1> QED
    BY <1>2, <1>3, <1>4, <1>5, <1>6

LEMMA FilesProgress ==
    ASSUME IsoLaidOut, IsoProgress, ~cancelled', ~aborted',
           WriteFile \/ NextFile \/ EndWriteFiles
    PROVE  IsoProgress'
  <1>1. ShapeInv
    BY DEF IsoLaidOut
  <1>2. pc = "write_files"
    BY DEF WriteFile, NextFile, EndWriteFiles, Running
  <1>3. i >= 1 /\ i \in Nat /\ n \in Nat /\ sectors_written \in Nat
    BY <1>1, <1>2, ImageTypes DEF ShapeInv, Counting, Started, WritePhases
  <1>4. DOMAIN files = 1 .. Len(files) /\ Len(files) \in Nat
    BY <1>1, ListLengths DEF ShapeInv
  <1>5. CASE WriteFile
    <2>1. i \in DOMAIN files
      BY <1>3, <1>4, <1>5 DEF WriteFile
    <2>2. PICK start, size : start = files[i].start_extent /\ size = files[i].sectors
      OBVIOUS
    <2>3. PICK answer \in BOOLEAN :
             /\ WriteSector(start + n, "file", i, n, answer)
             /\ IF answer THEN Stay(i + 1, 0) ELSE Stay(i, n + 1)
      BY <1>5, <2>2 DEF WriteFile
    <2>4. /\ start + n = sectors_written /\ sectors_written' = sectors_written + 1
          /\ ~answer
      BY <1>1, <2>3, SectorWritten
    <2>5. pc' = pc /\ i' = i /\ n' = n + 1 /\ UNCHANGED frozen /\ n < size
      BY <1>5, <2>2, <2>3, <2>4 DEF Stay, WriteFile
    <2>6. files' = files
      BY <2>5, FrozenParts
    <2>7. start \in Nat /\ size \in Nat
      BY <1>2, <2>1, <2>2, FilePlaces
    <2>8. n' > 0 /\ n' <= size /\ sectors_written' = start + n'
      BY <1>3, <2>4, <2>5, <2>7
    <2>9. FilesWritten'
      BY <1>2, <2>1, <2>2, <2>5, <2>6, <2>8 DEF FilesWritten
    <2> QED
      BY <1>2, <2>1, <2>2, <2>5, <2>6, <2>8, <2>9, Elsewhere DEF IsoProgress
  <1>6. CASE NextFile
    <2>1. /\ i \in DOMAIN files /\ n >= files[i].sectors
          /\ pc' = pc /\ i' = i + 1 /\ n' = 0
          /\ UNCHANGED <<frozen, sectors_written, cancelled, aborted>>
      BY <1>3, <1>4, <1>6 DEF NextFile, Stay, writerVars
    <2>2. UNCHANGED <<files, custom_file_start_extent>>
      BY <2>1, FrozenParts
    <2>3. FilesWritten
      BY <2>1 DEF IsoProgress
    <2>4. /\ custom_file_start_extent <= sectors_written
          /\ \A j \in DOMAIN files :
                j < i + 1 /\ files[j].sectors # 0 => FileEnd(j) <= sectors_written
          /\ FilesUpTo(i + 1, sectors_written)
      <3>1. \A j \in DOMAIN files : j < i + 1 => j < i \/ j = i
        BY <1>3, <1>4
      <3>2. CASE n = 0
        <4>1. files[i].sectors = 0
          BY <1>2, <1>3, <2>1, <3>2, FilePlaces
        <4>2. FilesUpTo(i, sectors_written)
          BY <1>2, <1>3, <2>3, <3>2 DEF FilesWritten
        <4>3. FilesUpTo(i + 1, sectors_written)
          BY <1>3, <4>1, <4>2, FilesUpToNext
        <4> QED
          BY <1>2, <1>3, <2>3, <3>1, <3>2, <4>1, <4>3 DEF FilesWritten
      <3>3. CASE n # 0
        <4>1. PICK start, size : start = files[i].start_extent /\ size = files[i].sectors
          OBVIOUS
        <4>2. n <= size /\ sectors_written = start + n
          BY <1>2, <1>3, <2>3, <3>3, <4>1 DEF FilesWritten
        <4>3. start \in Nat /\ size \in Nat /\ FileEnd(i) = start + size
              /\ custom_file_start_extent <= start
          BY <1>2, <2>1, <4>1, FilePlaces
        <4>4. n = size /\ sectors_written = FileEnd(i) /\ size # 0
          BY <1>3, <2>1, <3>3, <4>1, <4>2, <4>3
        <4>5. custom_file_start_extent <= sectors_written
          BY <1>1, <1>3, <4>2, <4>3, ImageTypes
        <4>6. \A j \in DOMAIN files :
                 j < i /\ files[j].sectors # 0 => FileEnd(j) <= start /\ FileEnd(j) \in Nat
          BY <1>2, <2>1, <4>1, <4>4, FilePlaces
        <4>7. \A j \in DOMAIN files :
                 j < i /\ files[j].sectors # 0 => FileEnd(j) <= sectors_written
          BY <1>3, <4>2, <4>3, <4>6
        <4>8. FilesUpTo(i + 1, sectors_written)
          BY <1>3, <4>1, <4>4, FilesUpToNext
        <4> QED
          BY <1>3, <2>1, <3>1, <4>4, <4>5, <4>7, <4>8
      <3> QED
        BY <3>2, <3>3
    <2>5. \A j \in DOMAIN files : FileEnd(j)' = FileEnd(j)
      BY <2>2 DEF FileEnd
    <2>6. FilesUpTo(i, sectors_written)'
      BY <2>1, <2>2, <2>4, FilesUpToKept
    <2>7. i' <= Len(files') + 1
      BY <1>3, <1>4, <2>1, <2>2
    <2>8. FilesWritten'
      BY <1>2, <2>1, <2>2, <2>4, <2>5, <2>6, <2>7 DEF FilesWritten
    <2> QED
      BY <1>2, <2>1, <2>8, Elsewhere DEF IsoProgress
  <1>7. CASE EndWriteFiles
    <2>1. /\ i > Len(files) /\ pc' = "blank"
          /\ UNCHANGED <<frozen, iso_bitmap, sectors_written, cancelled, aborted>>
      BY <1>7 DEF EndWriteFiles, MoveTo, Goto, writerVars
    <2>2. \A j \in DOMAIN files : j < i
      BY <1>3, <1>4, <2>1
    <2>3. /\ n = 0
          /\ custom_file_start_extent <= sectors_written
          /\ \A j \in DOMAIN files : files[j].sectors # 0 => FileEnd(j) <= sectors_written
          /\ \/ sectors_written = custom_file_start_extent
             \/ \E j \in DOMAIN files : sectors_written = FileEnd(j)
      <3>1. FilesWritten
        BY <2>1 DEF IsoProgress
      <3>2. i \notin DOMAIN files
        BY <1>3, <1>4, <2>1
      <3>3. /\ n = 0 /\ custom_file_start_extent <= sectors_written
            /\ \A j \in DOMAIN files :
                  j < i /\ files[j].sectors # 0 => FileEnd(j) <= sectors_written
            /\ i <= Len(files) + 1 /\ FilesUpTo(i, sectors_written)
        BY <1>2, <1>3, <3>1, <3>2 DEF FilesWritten
      <3>4. i - 1 = Len(files)
        BY <1>3, <1>4, <2>1, <3>3
      <3>5. \/ sectors_written = custom_file_start_extent
            \/ \E j \in 1 .. Len(files) : sectors_written = FileEnd(j)
        BY <3>3, <3>4 DEF FilesUpTo
      <3> QED
        BY <1>4, <2>2, <3>3, <3>5
    <2>4. sectors_written <= End
      BY <1>2, <2>3, FilePlaces
    <2>5. End <= sectors_written
      BY <1>2, <2>3, FilePlaces
    <2>6. End \in Nat /\ End <= iso_size
      BY <1>2, FilePlaces
    <2>7. sectors_written = End
      BY <1>3, <2>4, <2>5, <2>6
    <2>8. End' = End /\ iso_size' = iso_size
      BY <2>1, FrozenParts DEF End
    <2>9. BlanksWritten'
      BY <2>1, <2>6, <2>7, <2>8 DEF BlanksWritten
    <2> QED
      BY <2>1, <2>6, <2>7, <2>8, <2>9, Elsewhere DEF IsoProgress
  <1> QED
    BY <1>5, <1>6, <1>7

\* The blanks between the last file and the size of the ISO 9660 track.
LEMMA BlankProgress ==
    ASSUME IsoLaidOut, IsoProgress, ~cancelled', ~aborted', WriteBlank
    PROVE  /\ IsoProgress'
           /\ pc' = "blank" \/ (pc' = "tracks" /\ sectors_written' = iso_size /\ i' = 1)
           /\ UNCHANGED frozen
  <1>1. ShapeInv
    BY DEF IsoLaidOut
  <1>2. /\ pc = "blank" /\ ~aborted
        /\ End \in Nat /\ End' = End + 1 /\ FirstFit(iso_bitmap, 1) = End
    BY <1>1, BlankGrows DEF WriteBlank, Running
  <1>3. PICK e : e = End
    OBVIOUS
  <1>4. CASE e < iso_size
    <2>1. /\ \E answer \in BOOLEAN : WriteSector(e, "blank", 0, 0, answer)
          /\ Stay(i, n)
      BY <1>2, <1>3, <1>4 DEF WriteBlank
    <2>2. e = sectors_written /\ sectors_written' = sectors_written + 1
      BY <1>1, <2>1, SectorWritten
    <2>3. pc' = "blank" /\ UNCHANGED frozen
      BY <1>2, <2>1 DEF Stay
    <2>4. iso_size' = iso_size
      BY <2>3, FrozenParts
    <2>5. sectors_written' = End' /\ End' <= iso_size'
      BY <1>1, <1>2, <1>3, <1>4, <2>2, <2>4, ImageTypes
    <2>6. BlanksWritten'
      BY <2>5 DEF BlanksWritten
    <2>7. IsoProgress'
      BY <2>3, <2>6, Elsewhere DEF IsoProgress
    <2> QED
      BY <2>3, <2>7
  <1>5. CASE ~(e < iso_size)
    <2>1. /\ pc' = "tracks" /\ i' = 1 /\ UNCHANGED frozen
          /\ UNCHANGED <<sectors_written, cancelled>>
      BY <1>2, <1>3, <1>5 DEF WriteBlank, Goto, writerVars
    <2>2. sectors_written = End /\ End <= iso_size
      BY <1>2, <2>1 DEF IsoProgress, BlanksWritten
    <2>3. sectors_written = iso_size
      BY <1>1, <1>2, <1>3, <1>5, <2>2, ImageTypes
    <2>4. IsoProgress'
      BY <2>1, Elsewhere DEF IsoProgress
    <2> QED
      BY <2>1, <2>3, <2>4
  <1> QED
    BY <1>4, <1>5

\* Behind them the first track begins with its pregap.
LEMMA TracksBegin ==
    ASSUME LaidOutWell, UNCHANGED frozen, pc' = "tracks", i' = 1, sectors_written' = iso_size
    PROVE  TracksWritten'
  <1>1. ShapeInv /\ TracksInv
    BY DEF LaidOutWell, IsoLaidOut
  <1>2. UNCHANGED <<prm, sequences, iso_size>>
    BY FrozenParts
  <1>3. StartOf(1)' = StartOf(1) /\ Len(sequences') = Len(sequences)
    BY <1>2 DEF StartOf
  <1>4. StartOf(i)' = prm.track_pregap
    <2>1. StartOf(1) = prm.track_pregap
      BY <1>1, Starts
    <2> QED
      BY <1>2, <2>1 DEF StartOf
  <1>5. i' <= Len(sequences') + 1
    BY <1>1, <1>3, Starts
  <1> QED
    BY <1>2, <1>4, <1>5 DEF TracksWritten

\* Where track k begins is fixed.
LEMMA StartsKept ==
    ASSUME UNCHANGED frozen, NEW k, NEW m, i = k, i' = m
    PROVE  /\ StartOf(i)' = StartOf(m) /\ StartOf(i) = StartOf(k)
           /\ UNCHANGED <<prm, sequences, iso_size, relative_end_extent>>
  <1>1. UNCHANGED <<prm, sequences, iso_size, relative_end_extent>>
    BY FrozenParts
  <1> QED
    BY <1>1 DEF StartOf, SequenceLength

\* A track begins or ends, and so do the tracks.
LEMMA TracksProgress ==
    ASSUME LaidOutWell, Progress, ~cancelled', ~aborted',
           \/ \E answer \in BOOLEAN : StartTrack(answer)
           \/ EndTracks
    PROVE  Progress'
  <1>1. ShapeInv /\ TracksInv
    BY DEF LaidOutWell, IsoLaidOut
  <1>2. pc = "tracks" /\ ~aborted
    BY DEF StartTrack, EndTracks, Running
  <1>3. /\ i \in Nat /\ i >= 1 /\ sectors_written \in Nat /\ iso_size \in Nat
        /\ prm.track_pregap \in Nat /\ prm.leadout_pregap \in Nat
        /\ relative_end_extent \in Nat /\ Len(sequences) \in Nat
    BY <1>1, <1>2, ImageTypes, Starts DEF ShapeInv, Counting, Started, WritePhases
  <1>4. CASE \E answer \in BOOLEAN : StartTrack(answer)
    <2>1. PICK answer \in BOOLEAN : StartTrack(answer)
      BY <1>4
    <2>2. /\ i <= Len(sequences) /\ Callback(sectors_written, TRUE, answer)
          /\ UNCHANGED <<frozen, i, sectors_written>>
      BY <2>1 DEF StartTrack
    <2>3. ~answer /\ ~cancelled
      BY <2>2 DEF Callback
    <2>4. pc' = "sequence" /\ n' = 0
      BY <2>1, <2>3 DEF StartTrack
    <2>5. PICK k : k = i
      OBVIOUS
    <2>6. /\ StartOf(i)' = StartOf(k)
          /\ UNCHANGED <<prm, sequences, iso_size>>
      BY <2>2, <2>5, StartsKept
    <2>7. /\ sectors_written + prm.track_pregap = iso_size + StartOf(k)
          /\ k \in 1 .. Len(sequences) /\ StartOf(k) \in Nat
      BY <1>1, <1>2, <1>3, <2>2, <2>3, <2>5, Starts DEF Progress, IsoProgress, TrackProgress, TracksWritten
    <2>8. sectors_written' + prm'.track_pregap = (iso_size' + StartOf(i)') + n'
      BY <1>3, <2>2, <2>4, <2>6, <2>7
    <2>9. 0 <= prm.track_pregap + prm.track_front_margin + sequences[k].source.packets
                 + prm.track_rear_margin
      <3>1. ObjTypeOK /\ k \in DOMAIN sequences
        BY <1>1, <2>7, Starts DEF ShapeInv
      <3>2. /\ sequences[k].source.packets \in Nat /\ prm.track_pregap \in Nat
            /\ prm.track_front_margin \in Nat /\ prm.track_rear_margin \in Nat
        BY <3>1, TrackNumbers, ParamTypes
      <3> QED
        BY <3>2
    <2>10. n' <= SequenceEnd'
      BY <2>2, <2>4, <2>5, <2>6, <2>9 DEF SequenceEnd, RearAt, PacketsAt, FrontAt
    <2>11. SequenceWritten'
      BY <2>8, <2>10 DEF SequenceWritten
    <2> QED
      BY <2>4, <2>11, Elsewhere DEF Progress, IsoProgress, TrackProgress
  <1>5. CASE EndTracks
    <2>1. /\ pc' = "leadout" /\ n' = 0 /\ i > Len(sequences)
          /\ UNCHANGED <<frozen, sectors_written, cancelled>>
      BY <1>5 DEF EndTracks, MoveTo, Goto, writerVars
    <2>2. /\ i <= Len(sequences) + 1
          /\ sectors_written + prm.track_pregap = iso_size + StartOf(i)
      BY <1>2, <2>1 DEF Progress, IsoProgress, TrackProgress, TracksWritten
    <2>3. i = Len(sequences) + 1
      BY <1>3, <2>1, <2>2
    <2>4. StartOf(i) = prm.track_pregap + relative_end_extent
      BY <1>1, <2>3, Starts
    <2>5. sectors_written = iso_size + relative_end_extent
      BY <1>3, <2>2, <2>4
    <2>6. UNCHANGED <<prm, iso_size, relative_end_extent>>
      BY <2>1, FrozenParts
    <2>7. /\ n' <= prm'.leadout_pregap
          /\ sectors_written' = (iso_size' + relative_end_extent') + n'
      BY <1>3, <2>1, <2>5, <2>6
    <2>8. LeadoutWritten'
      BY <2>7 DEF LeadoutWritten
    <2> QED
      BY <2>1, <2>8, Elsewhere DEF Progress, IsoProgress, TrackProgress
  <1> QED
    BY <1>4, <1>5

\* The parts of the track that is being written follow one another.
LEMMA TrackParts ==
    ASSUME ShapeInv, TracksInv, pc = "sequence"
    PROVE  /\ i \in 1 .. Len(sequences)
           /\ FrontAt \in Nat /\ PacketsAt \in Nat /\ RearAt \in Nat /\ SequenceEnd \in Nat
           /\ FrontAt <= PacketsAt /\ PacketsAt <= RearAt /\ RearAt <= SequenceEnd
           /\ SequenceEnd = prm.track_pregap + SequenceLength(i)
  <1>1. i \in 1 .. Len(sequences)
    BY ImageTypes, Starts DEF ShapeInv, Counting, InTrack, Started, WritePhases
  <1>2. ObjTypeOK /\ i \in DOMAIN sequences
    BY <1>1, Starts DEF ShapeInv
  <1>3. PICK pregap, front, rear, packets :
           /\ pregap = prm.track_pregap /\ front = prm.track_front_margin
           /\ rear = prm.track_rear_margin /\ packets = sequences[i].source.packets
    OBVIOUS
  <1>4. pregap \in Nat /\ front \in Nat /\ rear \in Nat /\ packets \in Nat
    BY <1>2, <1>3, TrackNumbers, ParamTypes
  <1>5. /\ FrontAt = pregap /\ PacketsAt = pregap + front
        /\ RearAt = (pregap + front) + packets
        /\ SequenceEnd = ((pregap + front) + packets) + rear
    BY <1>3 DEF SequenceEnd, RearAt, PacketsAt, FrontAt
  <1>6. SequenceLength(i) = (front + packets) + rear
    BY <1>3, <1>4 DEF SequenceLength
  <1>7. /\ FrontAt \in Nat /\ PacketsAt \in Nat /\ RearAt \in Nat /\ SequenceEnd \in Nat
        /\ FrontAt <= PacketsAt /\ PacketsAt <= RearAt /\ RearAt <= SequenceEnd
    BY <1>4, <1>5
  <1>8. SequenceEnd = pregap + SequenceLength(i)
    BY <1>4, <1>5, <1>6
  <1> QED
    BY <1>1, <1>3, <1>7, <1>8

\* One more sector of the track.
LEMMA OneMoreOfTrack ==
    ASSUME ShapeInv, TracksInv, Progress, ~cancelled, ~aborted, pc = "sequence",
           n < SequenceEnd, Stay(i, n + 1), sectors_written' = sectors_written + 1
    PROVE  Progress'
  <1>1. /\ sectors_written + prm.track_pregap = (iso_size + StartOf(i)) + n
    BY DEF Progress, IsoProgress, TrackProgress, SequenceWritten
  <1>2. pc' = "sequence" /\ i' = i /\ n' = n + 1 /\ UNCHANGED frozen
    BY DEF Stay
  <1>3. /\ UNCHANGED <<prm, sequences, iso_size>> /\ StartOf(i)' = StartOf(i)
    BY <1>2, StartsKept
  <1>4. SequenceEnd' = SequenceEnd
    BY <1>2, <1>3 DEF SequenceEnd, RearAt, PacketsAt, FrontAt
  <1>5. /\ i \in 1 .. Len(sequences) /\ SequenceEnd \in Nat
    BY TrackParts
  <1>6. /\ sectors_written \in Nat /\ n \in Nat /\ iso_size \in Nat
        /\ prm.track_pregap \in Nat /\ Len(sequences) \in Nat
    BY ImageTypes, Starts
  <1>7. StartOf(i) \in Nat
    BY <1>5, <1>6, Starts
  <1>8. n' <= SequenceEnd'
    <2>1. n + 1 <= SequenceEnd
      BY <1>5, <1>6
    <2> QED
      BY <1>2, <1>4, <2>1
  <1>9. sectors_written' + prm'.track_pregap = (iso_size' + StartOf(i)') + n'
    <2>1. (sectors_written + 1) + prm.track_pregap = (iso_size + StartOf(i)) + (n + 1)
      <3>1. PICK w \in Nat : w = sectors_written
        BY <1>6
      <3>2. PICK p \in Nat : p = prm.track_pregap
        BY <1>6
      <3>3. PICK x \in Nat : x = iso_size + StartOf(i)
        BY <1>6, <1>7
      <3>4. n \in Nat /\ w + p = x + n
        BY <1>1, <1>6, <3>1, <3>2, <3>3
      <3>5. (w + 1) + p = x + (n + 1)
        BY <3>4
      <3> QED
        BY <3>1, <3>2, <3>3, <3>5
    <2> QED
      BY <1>2, <1>3, <2>1
  <1>10. SequenceWritten'
    BY <1>8, <1>9 DEF SequenceWritten
  <1> QED
    BY <1>2, <1>10, Elsewhere DEF Progress, IsoProgress, TrackProgress

\* A track: its pregap, its margins and its packets.
LEMMA SequenceProgress ==
    ASSUME LaidOutWell, Progress, ~cancelled', ~aborted',
           \/ WritePregap \/ WriteFrontMargin \/ WritePacket \/ WriteRearMargin
           \/ EndSequence
    PROVE  Progress'
  <1>1. ShapeInv /\ TracksInv
    BY DEF LaidOutWell, IsoLaidOut
  <1>2. pc = "sequence" /\ ~aborted
    BY DEF WritePregap, WriteFrontMargin, WritePacket, WriteRearMargin, EndSequence, WriteGap,
           Running
  <1>3. /\ i \in 1 .. Len(sequences)
        /\ FrontAt \in Nat /\ PacketsAt \in Nat /\ RearAt \in Nat /\ SequenceEnd \in Nat
        /\ FrontAt <= PacketsAt /\ PacketsAt <= RearAt /\ RearAt <= SequenceEnd
        /\ n \in Nat
    BY <1>1, <1>2, TrackParts, ImageTypes
  <1>4. ASSUME NEW kind, NEW from \in Nat, NEW to \in Nat, to <= SequenceEnd,
               WriteGap(kind, from, to)
        PROVE  Progress'
    <2>1. /\ \E answer \in BOOLEAN :
                WriteSector(sectors_written, kind, i, n - from, answer)
          /\ n \in from .. to - 1 /\ Stay(i, n + 1)
      BY <1>4 DEF WriteGap
    <2>2. sectors_written' = sectors_written + 1 /\ ~cancelled
      BY <1>1, <2>1, SectorWritten
    <2>3. n < SequenceEnd
      BY <1>3, <1>4, <2>1
    <2> QED
      BY <1>1, <1>2, <2>1, <2>2, <2>3, OneMoreOfTrack
  <1>5. CASE WritePregap
    <2>1. WriteGap("pregap", 0, FrontAt) /\ FrontAt <= SequenceEnd
      BY <1>3, <1>5 DEF WritePregap
    <2> QED
      BY <1>3, <1>4, <2>1
  <1>6. CASE WriteFrontMargin
    <2>1. WriteGap("front", FrontAt, PacketsAt) /\ PacketsAt <= SequenceEnd
      BY <1>3, <1>6 DEF WriteFrontMargin
    <2> QED
      BY <1>3, <1>4, <2>1
  <1>7. CASE WriteRearMargin
    <2>1. WriteGap("rear", RearAt, SequenceEnd)
      BY <1>7 DEF WriteRearMargin
    <2> QED
      BY <1>3, <1>4, <2>1
  <1>8. CASE WritePacket
    <2>1. CASE sequences[i].source.invalid = n - PacketsAt + 1
      <3>1. pc' = "exited"
        BY <1>8, <2>1 DEF WritePacket
      <3> QED
        BY <3>1, Elsewhere DEF Progress, IsoProgress, TrackProgress
    <2>2. CASE sequences[i].source.invalid # n - PacketsAt + 1
      <3>1. PICK answer \in BOOLEAN :
               /\ WriteSector(sectors_written, "packet", i, n - PacketsAt, answer)
               /\ IF answer THEN Stay(i, RearAt) ELSE Stay(i, n + 1)
        BY <1>8, <2>2 DEF WritePacket
      <3>2. sectors_written' = sectors_written + 1 /\ ~cancelled /\ ~answer
        BY <1>1, <3>1, SectorWritten
      <3>3. Stay(i, n + 1)
        BY <3>1, <3>2
      <3>4. n \in PacketsAt .. RearAt - 1
        BY <1>8 DEF WritePacket
      <3>5. n < SequenceEnd
        BY <1>3, <3>4
      <3> QED
        BY <1>1, <1>2, <3>2, <3>3, <3>5, OneMoreOfTrack
    <2> QED
      BY <2>1, <2>2
  <1>9. CASE EndSequence
    <2>1. /\ n >= SequenceEnd /\ pc' = "tracks" /\ i' = i + 1
          /\ UNCHANGED <<frozen, sectors_written, cancelled>>
      BY <1>9 DEF EndSequence, writerVars
    <2>2. /\ n <= SequenceEnd
          /\ sectors_written + prm.track_pregap = (iso_size + StartOf(i)) + n
      BY <1>2, <2>1 DEF Progress, IsoProgress, TrackProgress, SequenceWritten
    <2>3. PICK k, m : k = i /\ m = i + 1
      OBVIOUS
    <2>4. /\ StartOf(i)' = StartOf(m) /\ StartOf(i) = StartOf(k)
          /\ UNCHANGED <<prm, sequences, iso_size>>
      BY <2>1, <2>3, StartsKept
    <2>5. /\ StartOf(m) = prm.track_pregap + (StartOf(k) + SequenceLength(k))
          /\ SequenceLength(k) \in Nat /\ StartOf(k) \in Nat
          /\ sectors_written \in Nat /\ iso_size \in Nat /\ prm.track_pregap \in Nat
          /\ Len(sequences) \in Nat
      BY <1>1, <1>3, <2>3, Starts, ImageTypes
    <2>6. n = prm.track_pregap + SequenceLength(k)
      BY <1>1, <1>2, <1>3, <2>1, <2>2, <2>3, TrackParts
    <2>7. sectors_written' + prm'.track_pregap = iso_size' + StartOf(i)'
      BY <2>1, <2>2, <2>3, <2>4, <2>5, <2>6
    <2>8. i' <= Len(sequences') + 1
      BY <1>3, <2>1, <2>4, <2>5
    <2>9. TracksWritten'
      BY <2>7, <2>8 DEF TracksWritten
    <2> QED
      BY <2>1, <2>9, Elsewhere DEF Progress, IsoProgress, TrackProgress
  <1> QED
    BY <1>5, <1>6, <1>7, <1>8, <1>9

\* The lead-out, and the end.
LEMMA LeadoutProgress ==
    ASSUME LaidOutWell, Progress, ~cancelled', ~aborted',
           WriteLeadout \/ \E answer \in BOOLEAN : Finish(answer)
    PROVE  Progress'
  <1>1. ShapeInv
    BY DEF LaidOutWell, IsoLaidOut
  <1>2. CASE WriteLeadout
    <2>1. PICK answer \in BOOLEAN : WriteSector(sectors_written, "leadout", 0, n, answer)
      BY <1>2 DEF WriteLeadout
    <2>2. /\ pc = "leadout" /\ pc' = "leadout" /\ n' = n + 1 /\ n < prm.leadout_pregap
          /\ UNCHANGED frozen
      BY <1>2 DEF WriteLeadout, Running, Stay
    <2>3. sectors_written' = sectors_written + 1 /\ ~cancelled /\ ~aborted
      BY <1>1, <2>1, SectorWritten
    <2>4. sectors_written = (iso_size + relative_end_extent) + n
      BY <2>2, <2>3 DEF Progress, IsoProgress, TrackProgress, LeadoutWritten
    <2>5. UNCHANGED <<prm, iso_size, relative_end_extent>>
      BY <2>2, FrozenParts
    <2>6. /\ n' <= prm'.leadout_pregap
          /\ sectors_written' = (iso_size' + relative_end_extent') + n'
      BY <1>1, <2>2, <2>3, <2>4, <2>5, ImageTypes
    <2>7. LeadoutWritten'
      BY <2>6 DEF LeadoutWritten
    <2> QED
      BY <2>2, <2>7, Elsewhere DEF Progress, IsoProgress, TrackProgress
  <1>3. CASE \E answer \in BOOLEAN : Finish(answer)
    <2>1. pc' = "output"
      BY <1>3 DEF Finish, Return
    <2> QED
      BY <2>1, Elsewhere DEF Progress, IsoProgress, TrackProgress
  <1> QED
    BY <1>2, <1>3

-----------------------------------------------------------------------------
(* What write_image returns, and when.                                     *)

\* A step of begin_output: its result counts at its last one.
LEMMA LayoutAnswers ==
    ASSUME Layout
    PROVE  /\ pc \in LayoutPhases /\ UNCHANGED writerVars
           /\ pc' \in LayoutPhases \cup {"idle", "exited", "output"}
           /\ pc' = "output" =>
                 image_size' = relative_end_extent' + iso_size' + prm'.leadout_pregap
           /\ pc' = "idle" => ~in_output'
  <1>1. UNCHANGED writerVars
    BY DEF Layout
  <1>2. CASE ReturnSize
    <2>1. /\ pc = "entries" /\ pc' \in {"exited", "idle", "output"}
          /\ image_size' = relative_end_extent + iso_size + prm.leadout_pregap
          /\ UNCHANGED <<relative_end_extent, iso_size, prm>>
          /\ pc' = "idle" => ~in_output'
      BY <1>2 DEF ReturnSize, Running, objVars, ReleaseOutput
    <2> QED
      BY <1>1, <2>1 DEF LayoutPhases
  <1>3. CASE ~ReturnSize
    <2>1. /\ pc \in LayoutPhases
          /\ Fails => pc' = pc
      BY <1>3 DEF Layout, LayoutNext, ReserveFixed, ReserveSearch, FillToAlignment, PlaceSegment,
           EndSegments, PlaceExt, EndExt, PlaceFile, EndFiles, MakeFilesystem, UpdateEntry,
           NextSequence, Running, LayoutPhases, Fails, layoutVars
    <2>2. CASE ReserveFixed \/ ReserveSearch \/ FillToAlignment
      BY <2>1, <2>2, <1>1 DEF ReserveFixed, ReserveSearch, FillToAlignment, Goto, LayoutPhases
    <2>3. CASE PlaceSegment \/ EndSegments \/ PlaceExt \/ EndExt \/ PlaceFile \/ EndFiles
      BY <2>1, <2>3, <1>1 DEF PlaceSegment, EndSegments, PlaceExt, EndExt, PlaceFile, EndFiles,
         Goto, LayoutPhases
    <2>4. CASE UpdateEntry \/ NextSequence
      BY <2>1, <2>4, <1>1 DEF UpdateEntry, NextSequence, LayoutPhases
    <2>5. CASE \E d \in DirBlocks : MakeFilesystem(d)
      <3>1. PICK d \in DirBlocks : MakeFilesystem(d)
        BY <2>5
      <3>2. Fails \/ pc' \in {"exited", "entries"}
        BY <3>1 DEF MakeFilesystem, Goto
      <3> QED
        BY <1>1, <2>1, <3>2 DEF LayoutPhases
    <2> QED
      BY <1>3, <2>2, <2>3, <2>4, <2>5 DEF Layout, LayoutNext
  <1> QED
    BY <1>2, <1>3

\* A sector of write_image answers nothing.
LEMMA WriteAnswers ==
    ASSUME ShapeInv, WriterNext
    PROVE  \/ result' = result
           \/ result' = 1 /\ pc' = "output"
           \/ /\ result' \in {0, 1} /\ pc' = "output" /\ pc = "leadout"
              /\ n >= prm.leadout_pregap /\ UNCHANGED sectors_written
              /\ ~aborted /\ (~cancelled' => ~cancelled)
  <1>1. CASE \E answer \in BOOLEAN : Finish(answer)
    BY <1>1 DEF Finish, Running, Return, Callback
  <1>2. CASE \E answer \in BOOLEAN : StartTrack(answer)
    BY <1>2 DEF StartTrack, Return
  <1>3. CASE \/ MakeContents \/ EndHead \/ NextSegment \/ EndWriteSegments \/ EndWriteExt
             \/ NextFile \/ EndWriteFiles \/ EndSequence \/ EndTracks
    BY <1>3 DEF MakeContents, EndHead, NextSegment, EndWriteSegments, EndWriteExt, NextFile,
       EndWriteFiles, EndSequence, EndTracks, writerVars
  <1>4. CASE WriteHead \/ WriteSegment \/ WriteExt \/ WriteFile \/ WriteLeadout
    BY <1>4 DEF WriteHead, WriteSegment, WriteExt, WriteFile, WriteLeadout, WriteSector
  <1>5. CASE WriteBlank
    BY <1>5 DEF WriteBlank, WriteSector, writerVars
  <1>6. CASE WritePregap \/ WriteFrontMargin \/ WriteRearMargin \/ WritePacket
    BY <1>6 DEF WritePregap, WriteFrontMargin, WriteRearMargin, WritePacket, WriteGap,
       WriteSector, writerVars
  <1> QED
    BY <1>1, <1>2, <1>3, <1>4, <1>5, <1>6 DEF WriterNext

\* The steps that write the ISO 9660 track, but for the blanks at its end.
IsoSteps ==
    \/ MakeContents \/ WriteHead \/ EndHead
    \/ WriteSegment \/ NextSegment \/ EndWriteSegments
    \/ WriteExt \/ EndWriteExt
    \/ WriteFile \/ NextFile \/ EndWriteFiles

\* The steps that write the tracks.
TrackSteps ==
    \/ \E answer \in BOOLEAN : StartTrack(answer)
    \/ WritePregap \/ WriteFrontMargin \/ WritePacket \/ WriteRearMargin
    \/ EndSequence \/ EndTracks
    \/ WriteLeadout
    \/ \E answer \in BOOLEAN : Finish(answer)

LEMMA IsoStays ==
    ASSUME IsoSteps
    PROVE  pc' \in {"contents", "head", "write_segments", "write_ext", "write_files", "blank"}
  <1>1. ASSUME MakeContents \/ WriteHead \/ EndHead
        PROVE  pc' \in {"contents", "head", "write_segments"}
    BY <1>1 DEF MakeContents, WriteHead, EndHead, Running, MoveTo, Goto, Stay, Fails, layoutVars
  <1>2. ASSUME WriteSegment \/ NextSegment \/ EndWriteSegments
        PROVE  pc' \in {"write_segments", "write_ext"}
    BY <1>2 DEF WriteSegment, NextSegment, EndWriteSegments, Running, MoveTo, Goto, Stay,
                Fails, layoutVars
  <1>3. ASSUME WriteExt \/ EndWriteExt PROVE pc' \in {"write_ext", "write_files"}
    BY <1>3 DEF WriteExt, EndWriteExt, Running, MoveTo, Goto, Stay, Fails, layoutVars
  <1>4. ASSUME WriteFile \/ NextFile \/ EndWriteFiles PROVE pc' \in {"write_files", "blank"}
    BY <1>4 DEF WriteFile, NextFile, EndWriteFiles, Running, MoveTo, Goto, Stay
  <1> QED
    BY <1>1, <1>2, <1>3, <1>4 DEF IsoSteps

LEMMA TrackStays ==
    ASSUME TrackSteps
    PROVE  /\ pc' \in {"tracks", "sequence", "leadout", "output", "exited"}
           /\ pc \in {"tracks", "sequence", "leadout"}
  <1>1. ASSUME \/ \E answer \in BOOLEAN : StartTrack(answer)
               \/ EndTracks
        PROVE  pc = "tracks" /\ pc' \in {"sequence", "leadout", "output"}
    BY <1>1 DEF StartTrack, EndTracks, Running, MoveTo, Goto, Return
  <1>2. ASSUME WritePregap \/ WriteFrontMargin \/ WritePacket \/ WriteRearMargin \/ EndSequence
        PROVE  pc = "sequence" /\ pc' \in {"sequence", "tracks", "exited"}
    BY <1>2 DEF WritePregap, WriteFrontMargin, WritePacket, WriteRearMargin, WriteGap,
                EndSequence, Running, Stay
  <1>3. ASSUME \/ WriteLeadout
               \/ \E answer \in BOOLEAN : Finish(answer)
        PROVE  pc = "leadout" /\ pc' \in {"leadout", "output"}
    BY <1>3 DEF WriteLeadout, Finish, Running, Stay, Return
  <1> QED
    BY <1>1, <1>2, <1>3 DEF TrackSteps

LEMMA WriterSteps == WriterNext <=> IsoSteps \/ WriteBlank \/ TrackSteps
  BY DEF WriterNext, IsoSteps, TrackSteps

\* Every step of the writer takes the ISO 9660 track on.
LEMMA IsoWriter ==
    ASSUME IsoLaidOut, IsoProgress, WriterNext
    PROVE  IsoProgress'
  <1>1. CASE cancelled' \/ aborted'
    BY <1>1 DEF IsoProgress
  <1>2. CASE ~cancelled' /\ ~aborted'
    <2>1. CASE IsoSteps
      BY <1>2, <2>1, HeadProgress, SegmentsProgress, ExtProgress, FilesProgress DEF IsoSteps
    <2>2. CASE WriteBlank
      BY <1>2, <2>2, BlankProgress
    <2>3. CASE TrackSteps
      <3>1. pc' \in {"tracks", "sequence", "leadout", "output", "exited"}
        BY <2>3, TrackStays
      <3> QED
        BY <3>1, Elsewhere DEF IsoProgress
    <2> QED
      BY <2>1, <2>2, <2>3, WriterSteps
  <1> QED
    BY <1>1, <1>2

LEMMA TrackWriter ==
    ASSUME LaidOutWell, Progress, WriterNext, ~cancelled', ~aborted'
    PROVE  TrackProgress'
  <1>1. CASE IsoSteps
    <2>1. pc' \notin {"tracks", "sequence", "leadout"}
      BY <1>1, IsoStays
    <2> QED
      BY <2>1, Elsewhere DEF TrackProgress
  <1>2. CASE WriteBlank
    <2>1. /\ pc' = "blank" \/ (pc' = "tracks" /\ sectors_written' = iso_size /\ i' = 1)
          /\ UNCHANGED frozen
      BY <1>2, BlankProgress DEF LaidOutWell, Progress
    <2>2. TracksWritten'
      BY <2>1, TracksBegin, Elsewhere
    <2> QED
      BY <2>1, <2>2, Elsewhere DEF TrackProgress
  <1>3. CASE TrackSteps
    BY <1>3, TracksProgress, SequenceProgress, LeadoutProgress DEF TrackSteps, Progress
  <1> QED
    BY <1>1, <1>2, <1>3, WriterSteps

\* The steps of write_image keep the invariant.
LEMMA WriterImage ==
    ASSUME LaidOutWell, ImageInv, WriterNext
    PROVE  ImageInv'
  <1>1. ShapeInv /\ Progress /\ Unanswered /\ SizeKnown
    BY DEF LaidOutWell, IsoLaidOut, ImageInv
  <1>2. /\ UNCHANGED frozen
        /\ pc \in WritePhases /\ pc' \in WritePhases \cup {"output", "exited"}
    BY <1>1, WriterMoves
  <1>3. result = -1
    BY <1>1, <1>2 DEF Unanswered
  <1>4. UNCHANGED <<relative_end_extent, iso_size, prm, image_size>>
    BY <1>2, FrozenParts
  <1>5. image_size = relative_end_extent + iso_size + prm.leadout_pregap
    BY <1>1, <1>2 DEF SizeKnown
  <1>6. Progress'
    <2>1. CASE cancelled' \/ aborted'
      BY <2>1 DEF Progress, IsoProgress, TrackProgress
    <2>2. CASE ~cancelled' /\ ~aborted'
      BY <1>1, <2>2, IsoWriter, TrackWriter DEF LaidOutWell, Progress
    <2> QED
      BY <2>1, <2>2
  <1>7. Unanswered'
    <2>1. pc' \notin {"output", "exited"} => result' = result
      BY <1>1, WriteAnswers
    <2>2. pc' \in LayoutPhases \cup WritePhases => pc' \notin {"output", "exited"}
      BY DEF LayoutPhases, WritePhases
    <2> QED
      BY <1>3, <2>1, <2>2 DEF Unanswered
  <1>8. SizeKnown'
    BY <1>4, <1>5 DEF SizeKnown
  <1>9. ImageSizeExact'
    <2> SUFFICES ASSUME result' = 0, ~cancelled' PROVE sectors_written' = image_size'
      BY DEF ImageSizeExact
    <2>1. /\ pc = "leadout" /\ n >= prm.leadout_pregap /\ sectors_written' = sectors_written
          /\ ~aborted /\ ~cancelled
      BY <1>1, <1>3, WriteAnswers
    <2>2. /\ n <= prm.leadout_pregap
          /\ sectors_written = (iso_size + relative_end_extent) + n
      BY <1>1, <2>1 DEF Progress, IsoProgress, TrackProgress, LeadoutWritten
    <2> QED
      BY <1>1, <1>4, <1>5, <2>1, <2>2, ImageTypes
  <1> QED
    BY <1>6, <1>7, <1>8, <1>9 DEF ImageInv

\* What a client calls keeps it.
LEMMA ClientImage ==
    ASSUME ImageInv,
           \/ Build
           \/ \E for_query \in BOOLEAN : StartOutput(for_query)
           \/ Layout
           \/ \E answer \in BOOLEAN : WriteImage(answer)
           \/ EndOutput
           \/ Destroy
    PROVE  ImageInv'
  <1>1. Progress /\ Unanswered /\ SizeKnown /\ ImageSizeExact
    BY DEF ImageInv
  <1>2. ASSUME pc' \notin WritePhases PROVE Progress'
    BY <1>2, Elsewhere DEF Progress, IsoProgress, TrackProgress, WritePhases
  <1>3. ASSUME result' = -1 PROVE Unanswered' /\ ImageSizeExact'
    BY <1>3 DEF Unanswered, ImageSizeExact
  <1>4. CASE Build
    <2>1. result' = -1 /\ pc' = "idle"
      BY <1>4 DEF Build, writerVars
    <2>2. SizeKnown' /\ pc' \notin WritePhases
      BY <2>1 DEF SizeKnown, WritePhases
    <2> QED
      BY <1>2, <1>3, <2>1, <2>2 DEF ImageInv
  <1>5. CASE \E for_query \in BOOLEAN : StartOutput(for_query)
    <2>1. result' = -1 /\ pc' = "reserve"
      BY <1>5 DEF StartOutput, BeginOutput, Goto
    <2>2. SizeKnown' /\ pc' \notin WritePhases
      BY <2>1 DEF SizeKnown, WritePhases
    <2> QED
      BY <1>2, <1>3, <2>1, <2>2 DEF ImageInv
  <1>6. CASE Layout
    <2>1. /\ pc \in LayoutPhases /\ UNCHANGED writerVars
          /\ pc' \in LayoutPhases \cup {"idle", "exited", "output"}
          /\ pc' = "output" =>
                image_size' = relative_end_extent' + iso_size' + prm'.leadout_pregap
      BY <1>6, LayoutAnswers
    <2>2. result' = -1
      BY <1>1, <2>1 DEF Unanswered, writerVars
    <2>3. pc' \notin WritePhases
      BY <2>1 DEF WritePhases, LayoutPhases
    <2>4. SizeKnown'
      BY <2>1, <2>3 DEF SizeKnown
    <2> QED
      BY <1>2, <1>3, <2>2, <2>3, <2>4 DEF ImageInv
  <1>7. CASE \E answer \in BOOLEAN : WriteImage(answer)
    <2>1. PICK answer \in BOOLEAN : WriteImage(answer)
      BY <1>7
    <2>2. pc = "output" /\ result = -1
      BY <2>1 DEF WriteImage, Running
    <2>3. /\ UNCHANGED <<frozen, sectors_written>>
          /\ \/ pc' = "contents" /\ result' = result /\ sectors_written = 0
             \/ pc' = "output" /\ result' \in {-1, 1}
      <3>1. CASE sectors_written = 0
        BY <2>1, <3>1 DEF WriteImage, Return, MoveTo, Goto
      <3>2. CASE sectors_written # 0
        BY <2>1, <2>2, <3>2 DEF WriteImage, Fails, layoutVars, frozen
      <3> QED
        BY <3>1, <3>2
    <2>4. UNCHANGED <<relative_end_extent, iso_size, prm, image_size>>
      BY <2>3, FrozenParts
    <2>5. SizeKnown'
      BY <1>1, <2>2, <2>4 DEF SizeKnown
    <2>6. Progress'
      <3>1. CASE pc' = "contents"
        <4>1. ContentsWritten'
          BY <2>3, <3>1 DEF ContentsWritten
        <4> QED
          BY <3>1, <4>1, Elsewhere DEF Progress, IsoProgress, TrackProgress
      <3>2. CASE pc' = "output"
        BY <3>2, <1>2 DEF WritePhases
      <3> QED
        BY <2>3, <3>1, <3>2
    <2>7. Unanswered'
      BY <2>2, <2>3 DEF Unanswered, LayoutPhases, WritePhases
    <2>8. ImageSizeExact'
      BY <2>2, <2>3 DEF ImageSizeExact
    <2> QED
      BY <2>5, <2>6, <2>7, <2>8 DEF ImageInv
  <1>8. CASE EndOutput \/ Destroy
    <2>1. pc' \in {"idle", "destroyed"} /\ UNCHANGED <<writerVars, extents>>
      BY <1>8 DEF EndOutput, Destroy
    <2>2. /\ SizeKnown' /\ Unanswered' /\ pc' \notin WritePhases
      BY <2>1 DEF SizeKnown, Unanswered, LayoutPhases, WritePhases
    <2>3. ImageSizeExact'
      BY <1>1, <2>1 DEF ImageSizeExact, writerVars, extents
    <2> QED
      BY <1>2, <2>2, <2>3 DEF ImageInv
  <1> QED
    BY <1>4, <1>5, <1>6, <1>7, <1>8

LEMMA ImageInit == Init => ImageInv
  <1> SUFFICES ASSUME Init PROVE ImageInv
    OBVIOUS
  <1>1. pc = "idle" /\ result = -1
    BY DEF Init, LayoutInit, WriterInit
  <1>2. Progress
    BY <1>1 DEF Progress, IsoProgress, TrackProgress, ContentsWritten, HeadWritten, SegmentsWritten, ExtWritten,
       FilesWritten, BlanksWritten, TracksWritten, SequenceWritten, LeadoutWritten
  <1>3. Unanswered /\ SizeKnown /\ ImageSizeExact
    BY <1>1 DEF Unanswered, SizeKnown, ImageSizeExact, WritePhases, LayoutPhases
  <1> QED
    BY <1>2, <1>3 DEF ImageInv

LEMMA IsoStutter == ASSUME IsoProgress, UNCHANGED vars PROVE IsoProgress'
  <1>1. /\ UNCHANGED <<type, prm, sequences, segments, files, iso_bitmap, relative_end_extent>>
        /\ UNCHANGED <<pc, i, n, sectors_written, cancelled, aborted, iso_size>>
        /\ UNCHANGED <<mpeg_segment_start_extent, ext_file_start_extent,
                       custom_file_start_extent>>
    BY DEF vars, objVars, layoutVars, extents, writerVars
  <1>2. (HeadWritten => HeadWritten') /\ (ContentsWritten => ContentsWritten')
    BY <1>1 DEF HeadWritten, ContentsWritten
  <1>3. SegmentsWritten => SegmentsWritten'
    BY <1>1 DEF SegmentsWritten, SegmentFrom, SegmentEnd, SegmentSize
  <1>4. FilesWritten => FilesWritten'
    BY <1>1 DEF FilesWritten, FilesUpTo, FileEnd
  <1>5. (ExtWritten => ExtWritten') /\ (BlanksWritten => BlanksWritten')
    BY <1>1 DEF ExtWritten, BlanksWritten, End
  <1> QED
    BY <1>1, <1>2, <1>3, <1>4, <1>5 DEF IsoProgress

LEMMA ImageStep == LaidOutWell /\ ImageInv /\ [Next]_vars => ImageInv'
  <1> SUFFICES ASSUME LaidOutWell, ImageInv, [Next]_vars PROVE ImageInv'
    OBVIOUS
  <1>1. CASE UNCHANGED vars
    <2>1. Progress'
      <3>1. IsoProgress'
        BY <1>1, IsoStutter DEF ImageInv, Progress
      <3>2. /\ UNCHANGED <<prm, sequences, relative_end_extent, iso_size>>
            /\ UNCHANGED <<pc, i, n, sectors_written, cancelled, aborted>>
        BY <1>1 DEF vars, objVars, layoutVars, extents, writerVars
      <3>3. TrackProgress'
        BY <3>2 DEF ImageInv, Progress, TrackProgress, TracksWritten, SequenceWritten,
           LeadoutWritten, StartOf, SequenceLength, SequenceEnd, RearAt, PacketsAt, FrontAt
      <3> QED
        BY <3>1, <3>3 DEF Progress
    <2>2. Unanswered' /\ SizeKnown' /\ ImageSizeExact'
      BY <1>1 DEF vars, objVars, layoutVars, extents, writerVars, ImageInv, Unanswered,
         SizeKnown, ImageSizeExact
    <2> QED
      BY <2>1, <2>2 DEF ImageInv
  <1> QED
    BY <1>1, ClientImage, WriterImage DEF Next

\* Of every disc whose parameters are set before its sequences: an image that is written
\* without a cancel has exactly the sectors that begin_output returned.
THEOREM ImageSizeExactCorrect ==
    ASSUME ParamsFirst
    PROVE  Spec => []ImageSizeExact
  <1> DEFINE Inv == LaidOutWell /\ ImageInv
  <1>1. Init => Inv
    BY ShapeInit, PlaceInit, TracksInit, ImageInit DEF LaidOutWell, IsoLaidOut
  <1>2. Inv /\ [Next]_vars => Inv'
    BY ShapeStep, PlaceStep, TracksStep, ImageStep DEF LaidOutWell, IsoLaidOut
  <1>3. Inv => ImageSizeExact
    BY DEF ImageInv
  <1> QED
    BY <1>1, <1>2, <1>3, PTL DEF Spec

-----------------------------------------------------------------------------
(* What the sink gets, and where it belongs.                               *)

Here(s) == {a \in Recorded : s \in Extent(a.at, a.length)}

RecordKind(w) == IF w.kind \in TrackKinds THEN "track" ELSE w.kind

\* Sector w, as the sink got it, is what the descriptors and the directory promise.
InPlace(w) ==
    IF w.kind \in FillKinds THEN Here(w.lsn) = {}
    ELSE \E a \in Here(w.lsn) :
            /\ a.kind = RecordKind(w)
            /\ a.no = w.no
            /\ RecordKind(w) \in {"segment", "file"} => w.lsn = a.at + w.at

\* And what the cue sheet promises.
OnCue(w) ==
    /\ w.kind = "pregap" => w.lsn = CueSheet.tracks[w.no].pregap + w.at
    /\ w.kind = "front" => w.lsn = CueSheet.tracks[w.no].start + w.at
    /\ w.kind = "packet" =>
          \A e \in DOMAIN sequences[w.no].entries :
             sequences[w.no].entries[e].aps.packet_no = w.at
                 <=> CueSheet.tracks[w.no].subindex[e] = w.lsn
    /\ w.lsn < CueSheet.end

Closed == pc = "idle" => ~in_output

NothingYet == pc \in LayoutPhases => wrote = Nothing

CuesSent == in_output /\ (pc \in WritePhases \/ wrote # Nothing) => cues = CueSheet

Sent == in_output /\ wrote # Nothing /\ ~cancelled => InPlace(wrote) /\ OnCue(wrote)

SentInv == Closed /\ NothingYet /\ CuesSent /\ Sent

\* A sector outside of all that is recorded.
LEMMA OutsideAll ==
    ASSUME LaidOutWell, LaidOut, NEW s \in Nat,
           \A e \in dict : s \notin SectorsOf(e),
           \A k \in DOMAIN segments : s < segments[k].start_extent \/ SegmentEnd(k) <= s,
           \A k \in DOMAIN files : s < files[k].start_extent \/ FileEnd(k) <= s,
           \A k \in DOMAIN sequences :
              s < TrackStart(k) \/ TrackStart(k) + SequenceLength(k) <= s
    PROVE  Here(s) = {}
  <1>1. /\ \A k \in DOMAIN segments : segments[k].start_extent \in Nat /\ SegmentSize(k) \in Nat
        /\ \A k \in DOMAIN files : files[k].start_extent \in Nat /\ files[k].sectors \in Nat
        /\ \A k \in DOMAIN sequences : TrackStart(k) \in Nat /\ SequenceLength(k) \in Nat
    BY RecordedBorders DEF LaidOutWell, IsoLaidOut
  <1>2. ASSUME NEW a \in Recorded PROVE s \notin Extent(a.at, a.length)
    <2>1. ASSUME NEW e \in dict, a = BufferRecord(e) PROVE s \notin Extent(a.at, a.length)
      BY <2>1 DEF BufferRecord, SectorsOf
    <2>2. ASSUME NEW k \in DOMAIN segments, a = SegmentRecord(k)
          PROVE  s \notin Extent(a.at, a.length)
      <3>1. a.at = segments[k].start_extent /\ a.length = SegmentSize(k)
        BY <2>2 DEF SegmentRecord, SegmentSize
      <3> QED
        BY <1>1, <2>2, <3>1 DEF Extent, SegmentEnd
    <2>3. ASSUME NEW k \in DOMAIN files, a = FileRecord(k)
          PROVE  s \notin Extent(a.at, a.length)
      <3>1. a.at = files[k].start_extent /\ a.length = files[k].sectors
        BY <2>3 DEF FileRecord
      <3> QED
        BY <1>1, <2>3, <3>1 DEF Extent, FileEnd
    <2>4. ASSUME NEW k \in DOMAIN sequences, a = TrackRecord(k)
          PROVE  s \notin Extent(a.at, a.length)
      <3>1. a.at = TrackStart(k) /\ a.length = SequenceLength(k)
        BY <2>4 DEF TrackRecord, SequenceLength
      <3> QED
        BY <1>1, <2>4, <3>1 DEF Extent
    <2> QED
      BY <2>1, <2>2, <2>3, <2>4, RecordedKinds
  <1> QED
    BY <1>2 DEF Here

\* A sector before the segments, or of the EXT area.
LEMMA BufferInPlace ==
    ASSUME LaidOutWell, LaidOut, NEW s \in Nat, NEW w,
           w = [lsn |-> s, kind |-> BufferAt(s), no |-> 0, at |-> 0],
           \/ s < mpeg_segment_start_extent
           \/ ext_file_start_extent <= s /\ s < custom_file_start_extent
    PROVE  InPlace(w) /\ s < iso_size
  <1>1. PICK from, ext, to :
           /\ from = mpeg_segment_start_extent /\ ext = ext_file_start_extent
           /\ to = custom_file_start_extent
    OBVIOUS
  <1>2. /\ from \in Nat /\ ext \in Nat /\ to \in Nat /\ iso_size \in Nat
        /\ from <= ext /\ ext <= to /\ to <= iso_size
    BY <1>1, RecordedBorders DEF LaidOutWell, IsoLaidOut
  <1>3. s < iso_size
    BY <1>1, <1>2
  <1>4. CASE \E e \in dict : s \in SectorsOf(e)
    <2>1. PICK e : e = CHOOSE d \in dict : s \in SectorsOf(d)
      OBVIOUS
    <2>2. e \in dict /\ s \in SectorsOf(e)
      BY <1>4, <2>1
    <2>3. BufferAt(s) = e.key
      BY <1>4, <2>1 DEF BufferAt
    <2>4. e.key \in BufferKeys
      BY <2>2, ExtentTypes DEF LaidOutWell, IsoLaidOut, BufferType
    <2>5. e.key \notin FillKinds /\ e.key \notin TrackKinds /\ e.key \notin {"segment", "file"}
      BY <2>4 DEF BufferKeys, FillKinds, TrackKinds
    <2>6. PICK a : a = BufferRecord(e)
      OBVIOUS
    <2>7. a \in Recorded /\ a.at = e.sector /\ a.length = e.length /\ a.kind = e.key /\ a.no = 0
      BY <2>2, <2>6 DEF Recorded, BufferRecord
    <2>8. a \in Here(s)
      BY <2>2, <2>7 DEF Here, SectorsOf
    <2>9. w.kind = e.key /\ w.no = 0 /\ w.lsn = s
      BY <2>3
    <2>10. RecordKind(w) = e.key
      BY <2>5, <2>9 DEF RecordKind
    <2> QED
      BY <1>3, <2>5, <2>7, <2>8, <2>9, <2>10 DEF InPlace
  <1>5. CASE ~ \E e \in dict : s \in SectorsOf(e)
    <2>1. BufferAt(s) = "blank"
      BY <1>5 DEF BufferAt
    <2>2. w.kind \in FillKinds /\ w.lsn = s
      BY <2>1 DEF FillKinds
    <2>3. /\ \A k \in DOMAIN segments :
                /\ segments[k].start_extent \in Nat /\ SegmentSize(k) \in Nat
                /\ from <= segments[k].start_extent
                /\ segments[k].start_extent + SegmentSize(k) <= ext
          /\ \A k \in DOMAIN files :
                /\ files[k].start_extent \in Nat
                /\ to <= files[k].start_extent
          /\ \A k \in DOMAIN sequences : TrackStart(k) \in Nat /\ iso_size <= TrackStart(k)
      BY <1>1, RecordedBorders DEF LaidOutWell, IsoLaidOut
    <2>4. \A k \in DOMAIN segments : s < segments[k].start_extent \/ SegmentEnd(k) <= s
      BY <1>1, <1>2, <2>3 DEF SegmentEnd
    <2>5. \A k \in DOMAIN files : s < files[k].start_extent
      BY <1>1, <1>2, <2>3
    <2>6. \A k \in DOMAIN sequences : s < TrackStart(k)
      BY <1>2, <1>3, <2>3
    <2>7. Here(s) = {}
      BY <1>5, <2>4, <2>5, <2>6, OutsideAll
    <2> QED
      BY <1>3, <2>2, <2>7 DEF InPlace
  <1> QED
    BY <1>4, <1>5

\* A sector of a segment, of a file, of a track.
LEMMA ItemInPlace ==
    ASSUME LaidOutWell, LaidOut, NEW s \in Nat, NEW k, NEW at \in Nat, NEW w
    PROVE  /\ /\ k \in DOMAIN segments /\ at < SegmentSize(k)
              /\ s = segments[k].start_extent + at
              /\ w = [lsn |-> s, kind |-> "segment", no |-> k, at |-> at]
              => InPlace(w) /\ s < iso_size
           /\ /\ k \in DOMAIN files /\ at < files[k].sectors
              /\ s = files[k].start_extent + at
              /\ w = [lsn |-> s, kind |-> "file", no |-> k, at |-> at]
              => InPlace(w) /\ s < iso_size
           /\ \A kind \in TrackKinds :
                 /\ k \in DOMAIN sequences
                 /\ s \in TrackStart(k) .. (TrackStart(k) + SequenceLength(k)) - 1
                 /\ w = [lsn |-> s, kind |-> kind, no |-> k, at |-> at]
                 => InPlace(w)
  <1>1. ASSUME k \in DOMAIN segments, at < SegmentSize(k), s = segments[k].start_extent + at,
               w = [lsn |-> s, kind |-> "segment", no |-> k, at |-> at]
        PROVE  InPlace(w) /\ s < iso_size
    <2>1. PICK a : a = SegmentRecord(k)
      OBVIOUS
    <2>2. /\ a \in Recorded /\ a.at = segments[k].start_extent /\ a.length = SegmentSize(k)
          /\ a.kind = "segment" /\ a.no = k
      BY <1>1, <2>1 DEF Recorded, SegmentRecord, SegmentSize
    <2>3. /\ segments[k].start_extent \in Nat /\ SegmentSize(k) \in Nat
          /\ segments[k].start_extent + SegmentSize(k) <= ext_file_start_extent
          /\ ext_file_start_extent <= custom_file_start_extent
          /\ custom_file_start_extent <= iso_size
          /\ ext_file_start_extent \in Nat /\ custom_file_start_extent \in Nat
          /\ iso_size \in Nat
      BY <1>1, RecordedBorders DEF LaidOutWell, IsoLaidOut
    <2>4. a \in Here(s) /\ s < iso_size
      BY <1>1, <2>2, <2>3 DEF Here, Extent
    <2>5. w.kind = "segment" /\ RecordKind(w) = "segment" /\ w.kind \notin FillKinds
          /\ w.no = k /\ w.lsn = s /\ w.at = at
      BY <1>1 DEF RecordKind, TrackKinds, FillKinds
    <2> QED
      BY <1>1, <2>2, <2>4, <2>5 DEF InPlace
  <1>2. ASSUME k \in DOMAIN files, at < files[k].sectors, s = files[k].start_extent + at,
               w = [lsn |-> s, kind |-> "file", no |-> k, at |-> at]
        PROVE  InPlace(w) /\ s < iso_size
    <2>1. PICK a : a = FileRecord(k)
      OBVIOUS
    <2>2. /\ a \in Recorded /\ a.at = files[k].start_extent /\ a.length = files[k].sectors
          /\ a.kind = "file" /\ a.no = k
      BY <1>2, <2>1 DEF Recorded, FileRecord
    <2>3. /\ files[k].start_extent \in Nat /\ files[k].sectors \in Nat
          /\ files[k].start_extent + files[k].sectors <= iso_size /\ iso_size \in Nat
      BY <1>2, RecordedBorders DEF LaidOutWell, IsoLaidOut
    <2>4. a \in Here(s) /\ s < iso_size
      BY <1>2, <2>2, <2>3 DEF Here, Extent
    <2>5. w.kind = "file" /\ RecordKind(w) = "file" /\ w.kind \notin FillKinds
          /\ w.no = k /\ w.lsn = s /\ w.at = at
      BY <1>2 DEF RecordKind, TrackKinds, FillKinds
    <2> QED
      BY <1>2, <2>2, <2>4, <2>5 DEF InPlace
  <1>3. ASSUME NEW kind \in TrackKinds, k \in DOMAIN sequences,
               s \in TrackStart(k) .. (TrackStart(k) + SequenceLength(k)) - 1,
               w = [lsn |-> s, kind |-> kind, no |-> k, at |-> at]
        PROVE  InPlace(w)
    <2>1. PICK a : a = TrackRecord(k)
      OBVIOUS
    <2>2. /\ a \in Recorded /\ a.at = TrackStart(k) /\ a.length = SequenceLength(k)
          /\ a.kind = "track" /\ a.no = k
      BY <1>3, <2>1 DEF Recorded, TrackRecord, SequenceLength
    <2>3. TrackStart(k) \in Nat /\ SequenceLength(k) \in Nat
      BY <1>3, RecordedBorders DEF LaidOutWell, IsoLaidOut
    <2>4. a \in Here(s)
      BY <1>3, <2>2, <2>3 DEF Here, Extent
    <2>5. w.kind = kind /\ RecordKind(w) = "track" /\ w.kind \notin FillKinds
          /\ w.no = k /\ w.lsn = s
      BY <1>3 DEF RecordKind, TrackKinds, FillKinds
    <2> QED
      BY <2>2, <2>4, <2>5 DEF InPlace
  <1> QED
    BY <1>1, <1>2, <1>3

\* The cue sheet of the ISO 9660 track says only where the image ends.
LEMMA OffCue ==
    ASSUME ShapeInv, NEW w, w.kind \notin {"pregap", "front", "packet"},
           w.lsn \in Nat, w.lsn < iso_size + (relative_end_extent + prm.leadout_pregap)
    PROVE  OnCue(w)
  <1>1. CueSheet.end = relative_end_extent + iso_size + prm.leadout_pregap
    BY DEF CueSheet
  <1>2. w.lsn < CueSheet.end
    BY <1>1, ImageTypes
  <1> QED
    BY <1>2 DEF OnCue

\* The sectors of the ISO 9660 track.
LEMMA IsoSectors ==
    ASSUME LaidOutWell, Progress, ~cancelled', ~aborted', NEW w, w = wrote',
           WriteHead \/ WriteSegment \/ WriteExt \/ WriteFile \/ (WriteBlank /\ wrote' # wrote)
    PROVE  InPlace(w) /\ OnCue(w)
  <1>1. ShapeInv /\ TracksInv
    BY DEF LaidOutWell, IsoLaidOut
  <1>2. LaidOut /\ ~aborted
    BY DEF WriteHead, WriteSegment, WriteExt, WriteFile, WriteBlank, Running, LaidOut,
       WritePhases
  <1>3. /\ sectors_written \in Nat /\ n \in Nat /\ i \in Nat /\ iso_size \in Nat
        /\ mpeg_segment_start_extent \in Nat /\ ext_file_start_extent \in Nat
        /\ custom_file_start_extent \in Nat
        /\ relative_end_extent + prm.leadout_pregap \in Nat
    BY <1>1, ImageTypes
  <1>4. /\ DOMAIN segments = 1 .. Len(segments) /\ Len(segments) \in Nat
        /\ DOMAIN files = 1 .. Len(files) /\ Len(files) \in Nat
    BY <1>1, ListLengths DEF ShapeInv
  <1>5. ASSUME w.lsn \in Nat, w.lsn < iso_size, w.kind \notin {"pregap", "front", "packet"}
        PROVE  OnCue(w)
    <2>1. w.lsn < iso_size + (relative_end_extent + prm.leadout_pregap)
      BY <1>3, <1>5
    <2> QED
      BY <1>1, <1>5, <2>1, OffCue
  <1>6. \A s \in Nat : BufferAt(s) \notin {"pregap", "front", "packet"}
    <2>1. ASSUME NEW s \in Nat, \E e \in dict : s \in SectorsOf(e)
          PROVE  BufferAt(s) \in BufferKeys
      <3>1. PICK e : e = CHOOSE d \in dict : s \in SectorsOf(d)
        OBVIOUS
      <3>2. e \in dict /\ BufferAt(s) = e.key
        BY <2>1, <3>1 DEF BufferAt
      <3> QED
        BY <1>1, <3>2, ExtentTypes DEF BufferType
    <2>2. ASSUME NEW s \in Nat, ~ \E e \in dict : s \in SectorsOf(e)
          PROVE  BufferAt(s) = "blank"
      BY <2>2 DEF BufferAt
    <2> QED
      BY <2>1, <2>2 DEF BufferKeys
  <1>7. CASE WriteHead
    <2>1. PICK answer \in BOOLEAN : WriteSector(n, BufferAt(n), 0, 0, answer)
      BY <1>7 DEF WriteHead
    <2>2. w = [lsn |-> n, kind |-> BufferAt(n), no |-> 0, at |-> 0]
      BY <1>1, <2>1, SectorWritten
    <2>3. n < mpeg_segment_start_extent
      BY <1>7 DEF WriteHead
    <2>4. InPlace(w) /\ n < iso_size
      BY <1>2, <1>3, <2>2, <2>3, BufferInPlace
    <2> QED
      BY <1>3, <1>5, <1>6, <2>2, <2>4
  <1>8. CASE WriteExt
    <2>1. PICK answer \in BOOLEAN :
             WriteSector(sectors_written, BufferAt(sectors_written), 0, 0, answer)
      BY <1>8 DEF WriteExt
    <2>2. /\ w = [lsn |-> sectors_written, kind |-> BufferAt(sectors_written), no |-> 0,
                  at |-> 0]
          /\ ~cancelled
      BY <1>1, <2>1, SectorWritten
    <2>3. /\ pc = "write_ext" /\ sectors_written < custom_file_start_extent
      BY <1>8 DEF WriteExt, Running
    <2>4. ext_file_start_extent <= sectors_written
      BY <1>2, <2>2, <2>3 DEF Progress, IsoProgress, TrackProgress, ExtWritten
    <2>5. InPlace(w) /\ sectors_written < iso_size
      BY <1>2, <1>3, <2>2, <2>3, <2>4, BufferInPlace
    <2> QED
      BY <1>3, <1>5, <1>6, <2>2, <2>5
  <1>9. CASE WriteSegment
    <2>1. PICK s : s = IF n = 0 THEN segments[i].start_extent ELSE sectors_written
      OBVIOUS
    <2>2. PICK answer \in BOOLEAN : WriteSector(s, "segment", i, n, answer)
      BY <1>9, <2>1 DEF WriteSegment
    <2>3. /\ pc = "write_segments" /\ i <= Len(segments)
          /\ n < SegmentSize(i)
      BY <1>9 DEF WriteSegment, Running, SegmentSize
    <2>4. w = [lsn |-> s, kind |-> "segment", no |-> i, at |-> n] /\ s = sectors_written
          /\ ~cancelled
      BY <1>1, <2>2, SectorWritten
    <2>5. i \in DOMAIN segments
      BY <1>1, <1>3, <1>4, <2>3 DEF ShapeInv, Counting, Started, WritePhases
    <2>6. s = segments[i].start_extent + n
      <3>1. CASE n = 0
        <4>1. segments[i].start_extent \in Nat
          BY <1>2, <2>5, RecordedBorders DEF LaidOutWell, IsoLaidOut
        <4> QED
          BY <2>1, <3>1, <4>1
      <3>2. CASE n # 0
        <4>1. n > 0
          BY <1>3, <3>2
        <4> QED
          BY <1>2, <2>3, <2>4, <4>1 DEF Progress, IsoProgress, TrackProgress, SegmentsWritten
      <3> QED
        BY <3>1, <3>2
    <2>7. InPlace(w) /\ s < iso_size
      BY <1>2, <1>3, <2>3, <2>4, <2>5, <2>6, ItemInPlace
    <2> QED
      BY <1>3, <1>5, <2>4, <2>7
  <1>10. CASE WriteFile
    <2>1. PICK s : s = files[i].start_extent + n
      OBVIOUS
    <2>2. PICK answer \in BOOLEAN : WriteSector(s, "file", i, n, answer)
      BY <1>10, <2>1 DEF WriteFile
    <2>3. pc = "write_files" /\ i <= Len(files) /\ n < files[i].sectors
      BY <1>10 DEF WriteFile, Running
    <2>4. w = [lsn |-> s, kind |-> "file", no |-> i, at |-> n] /\ s = sectors_written
      BY <1>1, <2>2, SectorWritten
    <2>5. i \in DOMAIN files
      BY <1>1, <1>3, <1>4, <2>3 DEF ShapeInv, Counting, Started, WritePhases
    <2>6. InPlace(w) /\ s < iso_size
      BY <1>2, <1>3, <2>1, <2>3, <2>4, <2>5, ItemInPlace
    <2> QED
      BY <1>3, <1>5, <2>4, <2>6
  <1>11. CASE WriteBlank /\ wrote' # wrote
    <2>1. pc = "blank" /\ End \in Nat /\ FirstFit(iso_bitmap, 1) = End
      BY <1>1, <1>11, BlankGrows DEF WriteBlank, Running
    <2>2. PICK s : s = End
      OBVIOUS
    <2>3. s < iso_size /\ \E answer \in BOOLEAN : WriteSector(s, "blank", 0, 0, answer)
      BY <1>11, <2>1, <2>2 DEF WriteBlank, writerVars
    <2>4. w = [lsn |-> s, kind |-> "blank", no |-> 0, at |-> 0]
      BY <1>1, <2>3, SectorWritten
    <2>5. /\ custom_file_start_extent <= End
          /\ \A k \in DOMAIN files : FileEnd(k) <= End
      <3>1. /\ pc \in Started /\ FilesFrom = custom_file_start_extent
            /\ \A k : FilePlaced(k)
        BY <2>1 DEF Started, WritePhases, BeforeSegments, BeforeExt, BeforeFiles, FilesFrom,
                    FilePlaced
      <3> QED
        BY <3>1 DEF LaidOutWell, IsoLaidOut, PlaceInv, Borders, FilesPlaced
    <2>6. /\ \A e \in dict :
                /\ e.sector \in Nat /\ e.length \in Nat
                /\ \/ e.sector + e.length <= mpeg_segment_start_extent
                   \/ e.sector + e.length <= custom_file_start_extent
          /\ mpeg_segment_start_extent <= ext_file_start_extent
          /\ ext_file_start_extent <= custom_file_start_extent
          /\ \A k \in DOMAIN segments :
                /\ segments[k].start_extent \in Nat /\ SegmentSize(k) \in Nat
                /\ segments[k].start_extent + SegmentSize(k) <= ext_file_start_extent
          /\ \A k \in DOMAIN sequences : TrackStart(k) \in Nat /\ iso_size <= TrackStart(k)
      BY <1>2, RecordedBorders DEF LaidOutWell, IsoLaidOut
    <2>7. \A e \in dict : s \notin SectorsOf(e)
      BY <1>3, <2>1, <2>2, <2>5, <2>6 DEF SectorsOf, Extent
    <2>8. \A k \in DOMAIN segments : SegmentEnd(k) <= s
      BY <1>3, <2>1, <2>2, <2>5, <2>6 DEF SegmentEnd
    <2>9. \A k \in DOMAIN files : FileEnd(k) <= s
      BY <2>2, <2>5
    <2>10. \A k \in DOMAIN sequences : s < TrackStart(k)
      BY <1>3, <2>1, <2>2, <2>3, <2>6
    <2>11. Here(s) = {}
      BY <1>2, <2>1, <2>2, <2>7, <2>8, <2>9, <2>10, OutsideAll
    <2>12. InPlace(w)
      BY <2>4, <2>11 DEF InPlace, FillKinds
    <2> QED
      BY <1>5, <2>1, <2>2, <2>3, <2>4, <2>12
  <1> QED
    BY <1>7, <1>8, <1>9, <1>10, <1>11

\* Where in its track the next sector is.
LEMMA TrackAt ==
    ASSUME LaidOutWell, Progress, ~cancelled, ~aborted, pc = "sequence"
    PROVE  /\ i \in DOMAIN sequences
           /\ TrackStart(i) \in Nat /\ SequenceLength(i) \in Nat
           /\ prm.track_pregap \in Nat /\ sectors_written \in Nat /\ n \in Nat
           /\ sectors_written + prm.track_pregap = TrackStart(i) + n
           /\ SequenceEnd = prm.track_pregap + SequenceLength(i)
           /\ TrackStart(i) + SequenceLength(i) <= iso_size + relative_end_extent
           /\ iso_size \in Nat /\ relative_end_extent \in Nat
  <1>1. ShapeInv /\ TracksInv
    BY DEF LaidOutWell, IsoLaidOut
  <1>2. /\ prm.track_pregap \in Nat /\ sectors_written \in Nat /\ n \in Nat
        /\ iso_size \in Nat /\ relative_end_extent \in Nat
    BY <1>1, ImageTypes
  <1>3. i \in 1 .. Len(sequences) /\ SequenceEnd = prm.track_pregap + SequenceLength(i)
    BY <1>1, TrackParts
  <1>4. /\ i \in DOMAIN sequences /\ sequences[i].relative_start_extent = StartOf(i)
        /\ StartOf(i) \in Nat /\ SequenceLength(i) \in Nat
    BY <1>1, <1>3, Starts
  <1>5. TrackStart(i) = iso_size + StartOf(i)
    BY <1>4 DEF TrackStart
  <1>6. sectors_written + prm.track_pregap = (iso_size + StartOf(i)) + n
    BY DEF Progress, IsoProgress, TrackProgress, SequenceWritten
  <1>7. StartOf(i) + SequenceLength(i) <= relative_end_extent
    BY <1>1, <1>4 DEF TracksInv, TracksApart
  <1>8. TrackStart(i) \in Nat
    BY <1>2, <1>4, <1>5
  <1>9. sectors_written + prm.track_pregap = TrackStart(i) + n
    BY <1>5, <1>6
  <1>10. (iso_size + StartOf(i)) + SequenceLength(i) <= iso_size + relative_end_extent
    BY <1>2, <1>4, <1>7
  <1>11. TrackStart(i) + SequenceLength(i) <= iso_size + relative_end_extent
    BY <1>5, <1>10
  <1> QED
    BY <1>2, <1>3, <1>4, <1>8, <1>9, <1>11

\* What the cue sheet says of a track.
LEMMA CueOfTrack ==
    ASSUME ShapeInv, NEW k \in DOMAIN sequences
    PROVE  /\ CueSheet.tracks[k].pregap = TrackStart(k) - prm.track_pregap
           /\ CueSheet.tracks[k].start = TrackStart(k)
           /\ \A e \in DOMAIN sequences[k].entries :
                 /\ CueSheet.tracks[k].subindex[e] =
                       (TrackStart(k) + prm.track_front_margin)
                          + sequences[k].entries[e].aps.packet_no
                 /\ sequences[k].entries[e].aps.packet_no \in Nat
           /\ CueSheet.end = relative_end_extent + iso_size + prm.leadout_pregap
  <1>1. PICK t : t = CueSheet.tracks[k]
    OBVIOUS
  <1>2. t = [pregap   |-> TrackStart(k) - prm.track_pregap,
             start    |-> TrackStart(k),
             subindex |-> [e \in DOMAIN sequences[k].entries |->
                TrackStart(k) + prm.track_front_margin
                   + sequences[k].entries[e].aps.packet_no]]
    BY <1>1 DEF CueSheet
  <1>3. /\ t.pregap = TrackStart(k) - prm.track_pregap /\ t.start = TrackStart(k)
        /\ t.subindex = [e \in DOMAIN sequences[k].entries |->
              TrackStart(k) + prm.track_front_margin
                 + sequences[k].entries[e].aps.packet_no]
    BY <1>2
  <1>4. CueSheet.end = relative_end_extent + iso_size + prm.leadout_pregap
    BY DEF CueSheet
  <1>5. ASSUME NEW e \in DOMAIN sequences[k].entries
        PROVE  /\ t.subindex[e] = (TrackStart(k) + prm.track_front_margin)
                                     + sequences[k].entries[e].aps.packet_no
               /\ sequences[k].entries[e].aps.packet_no \in Nat
    <2>1. t.subindex[e] = TrackStart(k) + prm.track_front_margin
                            + sequences[k].entries[e].aps.packet_no
      BY <1>3
    <2>2. sequences[k].entries \in Seq(EntryType(AllIds))
      BY SequenceTypes DEF ShapeInv
    <2>3. sequences[k].entries[e] \in EntryType(AllIds)
      BY <2>2, LenProperties
    <2>4. sequences[k].entries[e].aps \in ApsData
      BY <2>3 DEF EntryType
    <2>5. sequences[k].entries[e].aps.packet_no \in Nat
      BY <2>4 DEF ApsData
    <2> QED
      BY <2>1, <2>5
  <1> QED
    BY <1>1, <1>3, <1>4, <1>5

\* The sectors of a track.
LEMMA TrackSectors ==
    ASSUME LaidOutWell, Progress, ~cancelled', ~aborted', NEW w, w = wrote',
           \/ WritePregap \/ WriteFrontMargin \/ WriteRearMargin
           \/ WritePacket /\ wrote' # wrote
    PROVE  InPlace(w) /\ OnCue(w)
  <1>1. ShapeInv /\ TracksInv
    BY DEF LaidOutWell, IsoLaidOut
  <1>2. pc = "sequence" /\ ~aborted /\ LaidOut
    BY DEF WritePregap, WriteFrontMargin, WritePacket, WriteRearMargin, WriteGap, Running,
           LaidOut, WritePhases
  <1>3. PICK kind, from, s :
           /\ s = sectors_written
           /\ kind \in {"pregap", "front", "packet", "rear"}
           /\ \E answer \in BOOLEAN : WriteSector(s, kind, i, n - from, answer)
           /\ kind = "pregap" => from = 0 /\ n \in 0 .. FrontAt - 1
           /\ kind = "front" => from = FrontAt /\ n \in FrontAt .. PacketsAt - 1
           /\ kind = "packet" => from = PacketsAt /\ n \in PacketsAt .. RearAt - 1
           /\ kind = "rear" => from = RearAt /\ n \in RearAt .. SequenceEnd - 1
    <2>1. CASE WritePregap
      BY <2>1 DEF WritePregap, WriteGap
    <2>2. CASE WriteFrontMargin
      BY <2>2 DEF WriteFrontMargin, WriteGap
    <2>3. CASE WriteRearMargin
      BY <2>3 DEF WriteRearMargin, WriteGap
    <2>4. CASE WritePacket /\ wrote' # wrote
      BY <2>4 DEF WritePacket, writerVars
    <2> QED
      BY <2>1, <2>2, <2>3, <2>4
  <1>4. PICK at : at = n - from
    OBVIOUS
  <1>5. w = [lsn |-> s, kind |-> kind, no |-> i, at |-> at] /\ ~cancelled
    BY <1>1, <1>3, <1>4, SectorWritten
  <1>6. PICK k, pregap, front, start, length :
           /\ k = i /\ pregap = prm.track_pregap /\ front = prm.track_front_margin
           /\ start = TrackStart(i) /\ length = SequenceLength(i)
    OBVIOUS
  <1>7. /\ k \in DOMAIN sequences /\ start \in Nat /\ length \in Nat /\ pregap \in Nat
        /\ s \in Nat /\ n \in Nat /\ s + pregap = start + n
        /\ SequenceEnd = pregap + length
        /\ start + length <= iso_size + relative_end_extent
        /\ iso_size \in Nat /\ relative_end_extent \in Nat
    BY <1>2, <1>3, <1>5, <1>6, TrackAt
  <1>8. front \in Nat /\ prm.leadout_pregap \in Nat
    BY <1>1, <1>6, ParamTypes DEF ShapeInv
  <1>9. /\ FrontAt = pregap /\ PacketsAt = pregap + front
        /\ PacketsAt <= RearAt /\ RearAt <= SequenceEnd /\ RearAt \in Nat
        /\ FrontAt <= PacketsAt
    <2>1. FrontAt = pregap /\ PacketsAt = pregap + front
      BY <1>6 DEF FrontAt, PacketsAt
    <2> QED
      BY <1>1, <1>2, <2>1, TrackParts
  <1>10. /\ at \in Nat /\ n < pregap + length
         /\ kind = "pregap" <=> n < pregap
    BY <1>3, <1>4, <1>7, <1>8, <1>9
  <1>11. InPlace(w)
    <2>1. CASE kind = "pregap"
      <3>1. /\ \A e \in dict :
                  /\ e.sector \in Nat /\ e.length \in Nat
                  /\ \/ e.sector + e.length <= mpeg_segment_start_extent
                     \/ e.sector + e.length <= custom_file_start_extent
            /\ mpeg_segment_start_extent \in Nat /\ ext_file_start_extent \in Nat
            /\ custom_file_start_extent \in Nat
            /\ mpeg_segment_start_extent <= ext_file_start_extent
            /\ ext_file_start_extent <= custom_file_start_extent
            /\ custom_file_start_extent <= iso_size
            /\ \A j \in DOMAIN segments :
                  /\ segments[j].start_extent \in Nat /\ SegmentSize(j) \in Nat
                  /\ segments[j].start_extent + SegmentSize(j) <= ext_file_start_extent
            /\ \A j \in DOMAIN files :
                  /\ files[j].start_extent \in Nat /\ files[j].sectors \in Nat
                  /\ files[j].start_extent + files[j].sectors <= iso_size
        BY <1>2, RecordedBorders DEF LaidOutWell, IsoLaidOut
      <3>2. iso_size + pregap <= start
        BY <1>2, <1>6, <1>7, RecordedBorders DEF LaidOutWell, IsoLaidOut
      <3>3. iso_size <= s /\ s < start
        BY <1>7, <1>10, <2>1, <3>2
      <3>4. \A e \in dict : s \notin SectorsOf(e)
        BY <1>7, <3>1, <3>3 DEF SectorsOf, Extent
      <3>5. \A j \in DOMAIN segments : SegmentEnd(j) <= s
        BY <1>7, <3>1, <3>3 DEF SegmentEnd
      <3>6. \A j \in DOMAIN files : FileEnd(j) <= s
        BY <1>7, <3>1, <3>3 DEF FileEnd
      <3>7. ASSUME NEW j \in DOMAIN sequences
            PROVE  s < TrackStart(j) \/ TrackStart(j) + SequenceLength(j) <= s
        <4>1. /\ j \in 1 .. Len(sequences) /\ k \in 1 .. Len(sequences)
              /\ Len(sequences) \in Nat
          BY <1>1, <1>7, Starts
        <4>2. TrackStart(j) \in Nat /\ SequenceLength(j) \in Nat
          BY <1>2, RecordedBorders DEF LaidOutWell, IsoLaidOut
        <4>3. CASE j = k
          BY <1>6, <3>3, <4>3
        <4>4. CASE k < j
          <5>1. k \in 1 .. j - 1
            BY <4>1, <4>4
          <5>2. start + length <= TrackStart(j)
            BY <1>2, <1>6, <5>1, RecordedBorders DEF LaidOutWell, IsoLaidOut
          <5> QED
            BY <1>7, <3>3, <4>2, <5>2
        <4>5. CASE j < k
          <5>1. k - 1 \in 1 .. Len(sequences) /\ (k - 1) + 1 = k /\ (j = k - 1 \/ j \in 1 .. (k - 1) - 1)
            BY <4>1, <4>5
          <5>2. /\ StartOf((k - 1) + 1) = pregap + (StartOf(k - 1) + SequenceLength(k - 1))
                /\ sequences[k - 1].relative_start_extent = StartOf(k - 1)
                /\ sequences[k].relative_start_extent = StartOf(k)
                /\ k - 1 \in DOMAIN sequences
                /\ SequenceLength(k - 1) \in Nat /\ StartOf(k - 1) \in Nat
            BY <1>1, <1>6, <4>1, <5>1, Starts
          <5>3. /\ start = iso_size + StartOf(k)
                /\ TrackStart(k - 1) = iso_size + StartOf(k - 1)
            BY <1>6, <5>2 DEF TrackStart
          <5>4. start = pregap + (TrackStart(k - 1) + SequenceLength(k - 1))
            <6>1. PICK a, b : a = StartOf(k - 1) /\ b = SequenceLength(k - 1)
              OBVIOUS
            <6>2. StartOf(k) = pregap + (a + b)
              BY <5>1, <5>2, <6>1
            <6>3. a \in Nat /\ b \in Nat /\ iso_size \in Nat /\ pregap \in Nat
              BY <1>7, <5>2, <6>1
            <6>4. iso_size + (pregap + (a + b)) = pregap + ((iso_size + a) + b)
              BY <6>3
            <6> QED
              BY <5>3, <6>1, <6>2, <6>4
          <5>5. TrackStart(k - 1) + SequenceLength(k - 1) <= s
            BY <1>7, <5>2, <5>3, <5>4
          <5>6. CASE j = k - 1
            BY <5>5, <5>6
          <5>7. CASE j \in 1 .. (k - 1) - 1
            <6>1. /\ TrackStart(j) + SequenceLength(j) <= TrackStart(k - 1)
                  /\ TrackStart(k - 1) \in Nat
              BY <1>2, <5>2, <5>7, RecordedBorders DEF LaidOutWell, IsoLaidOut
            <6> QED
              BY <1>7, <4>2, <5>2, <5>5, <6>1
          <5> QED
            BY <5>1, <5>6, <5>7
        <4> QED
          BY <4>1, <4>3, <4>4, <4>5
      <3>8. Here(s) = {}
        BY <1>2, <1>7, <3>4, <3>5, <3>6, <3>7, OutsideAll
      <3> QED
        BY <1>5, <2>1, <3>8 DEF InPlace, FillKinds
    <2>2. CASE kind # "pregap"
      <3>1. ~(n < pregap)
        BY <1>10, <2>2
      <3>2. s \in start .. (start + length) - 1
        BY <1>7, <1>10, <3>1
      <3>3. kind \in TrackKinds
        BY <1>3, <2>2 DEF TrackKinds
      <3> QED
        BY <1>2, <1>5, <1>6, <1>7, <1>10, <3>2, <3>3, ItemInPlace
    <2> QED
      BY <2>1, <2>2
  <1>12. OnCue(w)
    <2>1. PICK t : t = CueSheet.tracks[k]
      OBVIOUS
    <2>2. /\ t.pregap = start - pregap /\ t.start = start
          /\ \A e \in DOMAIN sequences[k].entries :
                /\ t.subindex[e] = (start + front) + sequences[k].entries[e].aps.packet_no
                /\ sequences[k].entries[e].aps.packet_no \in Nat
          /\ CueSheet.end = relative_end_extent + iso_size + prm.leadout_pregap
      BY <1>1, <1>6, <1>7, <2>1, CueOfTrack
    <2>3. s < CueSheet.end
      BY <1>7, <1>8, <1>10, <2>2
    <2>4. kind = "pregap" => s = t.pregap + at
      BY <1>3, <1>4, <1>7, <2>2
    <2>5. kind = "front" => s = t.start + at
      BY <1>3, <1>4, <1>7, <1>9, <2>2
    <2>6. kind = "packet" => s = (start + front) + at
      BY <1>3, <1>4, <1>7, <1>8, <1>9
    <2>7. kind = "packet" =>
             \A e \in DOMAIN sequences[k].entries :
                sequences[k].entries[e].aps.packet_no = at <=> t.subindex[e] = s
      BY <1>7, <1>8, <1>10, <2>2, <2>6
    <2> QED
      BY <1>5, <1>6, <2>1, <2>3, <2>4, <2>5, <2>7 DEF OnCue
  <1> QED
    BY <1>11, <1>12

\* The sectors of the lead-out.
LEMMA LeadoutSectors ==
    ASSUME LaidOutWell, Progress, ~cancelled', ~aborted', NEW w, w = wrote', WriteLeadout
    PROVE  InPlace(w) /\ OnCue(w)
  <1>1. ShapeInv /\ TracksInv
    BY DEF LaidOutWell, IsoLaidOut
  <1>2. pc = "leadout" /\ LaidOut /\ n < prm.leadout_pregap
    BY DEF WriteLeadout, Running, LaidOut, WritePhases
  <1>3. PICK s : s = sectors_written
    OBVIOUS
  <1>4. PICK answer \in BOOLEAN : WriteSector(s, "leadout", 0, n, answer)
    BY <1>3 DEF WriteLeadout
  <1>5. w = [lsn |-> s, kind |-> "leadout", no |-> 0, at |-> n] /\ ~cancelled /\ ~aborted
    BY <1>1, <1>4, SectorWritten
  <1>6. s = (iso_size + relative_end_extent) + n
    BY <1>2, <1>3, <1>5 DEF Progress, IsoProgress, TrackProgress, LeadoutWritten
  <1>7. /\ s \in Nat /\ iso_size \in Nat /\ relative_end_extent \in Nat /\ n \in Nat
        /\ prm.leadout_pregap \in Nat
    BY <1>1, <1>3, ImageTypes
  <1>8. /\ \A e \in dict :
              /\ e.sector \in Nat /\ e.length \in Nat
              /\ \/ e.sector + e.length <= mpeg_segment_start_extent
                 \/ e.sector + e.length <= custom_file_start_extent
        /\ mpeg_segment_start_extent \in Nat /\ ext_file_start_extent \in Nat
        /\ custom_file_start_extent \in Nat
        /\ mpeg_segment_start_extent <= ext_file_start_extent
        /\ ext_file_start_extent <= custom_file_start_extent
        /\ custom_file_start_extent <= iso_size
        /\ \A j \in DOMAIN segments :
              /\ segments[j].start_extent \in Nat /\ SegmentSize(j) \in Nat
              /\ segments[j].start_extent + SegmentSize(j) <= ext_file_start_extent
        /\ \A j \in DOMAIN files :
              /\ files[j].start_extent \in Nat /\ files[j].sectors \in Nat
              /\ files[j].start_extent + files[j].sectors <= iso_size
        /\ \A j \in DOMAIN sequences : SequenceLength(j) \in Nat
    BY <1>2, RecordedBorders DEF LaidOutWell, IsoLaidOut
  <1>9. iso_size <= s
    BY <1>6, <1>7
  <1>10. \A e \in dict : s \notin SectorsOf(e)
    BY <1>7, <1>8, <1>9 DEF SectorsOf, Extent
  <1>11. \A j \in DOMAIN segments : SegmentEnd(j) <= s
    BY <1>7, <1>8, <1>9 DEF SegmentEnd
  <1>12. \A j \in DOMAIN files : FileEnd(j) <= s
    BY <1>7, <1>8, <1>9 DEF FileEnd
  <1>13. ASSUME NEW j \in DOMAIN sequences PROVE TrackStart(j) + SequenceLength(j) <= s
    <2>1. /\ sequences[j].relative_start_extent + SequenceLength(j) <= relative_end_extent
          /\ sequences[j].relative_start_extent \in Nat
      BY <1>1, TrackNumbers DEF TracksInv, TracksApart, ShapeInv
    <2>2. TrackStart(j) = iso_size + sequences[j].relative_start_extent
      BY DEF TrackStart
    <2> QED
      BY <1>6, <1>7, <1>8, <2>1, <2>2
  <1>14. Here(s) = {}
    BY <1>2, <1>7, <1>10, <1>11, <1>12, <1>13, OutsideAll
  <1>15. InPlace(w)
    BY <1>5, <1>14 DEF InPlace, FillKinds
  <1>16. s < iso_size + (relative_end_extent + prm.leadout_pregap)
    BY <1>2, <1>6, <1>7
  <1>17. OnCue(w)
    BY <1>1, <1>5, <1>7, <1>16, OffCue
  <1> QED
    BY <1>15, <1>17

\* What a step of write_image does to the sector written last and to the cue sheet.
LEMMA WriterKeeps ==
    ASSUME WriterNext
    PROVE  /\ UNCHANGED cues /\ (~cancelled' => ~cancelled)
           /\ aborted' => wrote' = wrote
  <1>1. CASE \/ \E answer \in BOOLEAN : Finish(answer)
             \/ \E answer \in BOOLEAN : StartTrack(answer)
    BY <1>1 DEF Finish, StartTrack, Callback
  <1>2. CASE \/ MakeContents \/ EndHead \/ NextSegment \/ EndWriteSegments \/ EndWriteExt
             \/ NextFile \/ EndWriteFiles \/ EndSequence \/ EndTracks
    BY <1>2 DEF MakeContents, EndHead, NextSegment, EndWriteSegments, EndWriteExt, NextFile,
       EndWriteFiles, EndSequence, EndTracks, writerVars
  <1>3. CASE WriteHead \/ WriteSegment \/ WriteExt \/ WriteFile \/ WriteLeadout
    BY <1>3 DEF WriteHead, WriteSegment, WriteExt, WriteFile, WriteLeadout, WriteSector,
       Callback, Running
  <1>4. CASE WriteBlank
    BY <1>4 DEF WriteBlank, WriteSector, Callback, Running, writerVars
  <1>5. CASE WritePregap \/ WriteFrontMargin \/ WriteRearMargin
    BY <1>5 DEF WritePregap, WriteFrontMargin, WriteRearMargin, WriteGap, WriteSector, Callback,
       Running
  <1>6. CASE WritePacket
    BY <1>6 DEF WritePacket, WriteSector, Callback, Running, writerVars
  <1> QED
    BY <1>1, <1>2, <1>3, <1>4, <1>5, <1>6 DEF WriterNext

\* A step that writes no sector.
LEMMA QuietSteps ==
    ASSUME \/ MakeContents \/ EndHead \/ NextSegment \/ EndWriteSegments \/ EndWriteExt
           \/ NextFile \/ EndWriteFiles \/ EndSequence \/ EndTracks
           \/ \E answer \in BOOLEAN : StartTrack(answer)
           \/ \E answer \in BOOLEAN : Finish(answer)
    PROVE  wrote' = wrote
  BY DEF MakeContents, EndHead, NextSegment, EndWriteSegments, EndWriteExt, NextFile,
     EndWriteFiles, EndSequence, EndTracks, StartTrack, Finish, writerVars

\* What the descriptors and the cue sheet promise is fixed while the image is written.
LEMMA PromisesKept ==
    ASSUME UNCHANGED frozen, NEW w
    PROVE  /\ InPlace(w)' = InPlace(w) /\ OnCue(w)' = OnCue(w)
           /\ CueSheet' = CueSheet /\ in_output' = in_output
  <1>1. /\ UNCHANGED <<prm, sequences, segments, files, iso_size, relative_end_extent, dict>>
        /\ in_output' = in_output
    BY FrozenParts
  <1>2. CueSheet' = CueSheet
    BY <1>1 DEF CueSheet, TrackStart
  <1>3. Recorded' = Recorded
    BY <1>1 DEF Recorded, TrackStart
  <1>4. InPlace(w)' = InPlace(w)
    BY <1>3 DEF InPlace, Here, RecordKind
  <1>5. OnCue(w)' = OnCue(w)
    BY <1>1, <1>2 DEF OnCue
  <1> QED
    BY <1>1, <1>2, <1>4, <1>5

LEMMA WriterSent ==
    ASSUME LaidOutWell, ImageInv, SentInv, WriterNext
    PROVE  SentInv'
  <1>1. ShapeInv /\ Progress
    BY DEF LaidOutWell, IsoLaidOut, ImageInv
  <1>2. /\ UNCHANGED frozen
        /\ pc \in WritePhases /\ pc' \in WritePhases \cup {"output", "exited"}
    BY <1>1, WriterMoves
  <1>3. /\ UNCHANGED cues /\ (~cancelled' => ~cancelled)
        /\ aborted' => wrote' = wrote
    BY WriterKeeps
  <1>4. Closed' /\ NothingYet'
    BY <1>2 DEF Closed, NothingYet, WritePhases, LayoutPhases
  <1>5. CueSheet' = CueSheet /\ in_output' = in_output
    BY <1>2, PromisesKept
  <1>6. CuesSent'
    BY <1>2, <1>3, <1>5 DEF SentInv, CuesSent
  <1>7. Sent'
    <2> SUFFICES ASSUME in_output', wrote' # Nothing, ~cancelled'
                 PROVE  InPlace(wrote)' /\ OnCue(wrote)'
      BY DEF Sent
    <2>1. PICK w : w = wrote'
      OBVIOUS
    <2>2. InPlace(w) /\ OnCue(w)
      <3>1. CASE wrote' = wrote
        BY <1>3, <1>5, <2>1, <3>1 DEF SentInv, Sent
      <3>2. CASE wrote' # wrote
        <4>1. ~aborted'
          BY <1>3, <3>2
        <4>2. \/ WriteHead \/ WriteSegment \/ WriteExt \/ WriteFile
              \/ WriteBlank /\ wrote' # wrote
              \/ WritePregap \/ WriteFrontMargin \/ WriteRearMargin
              \/ WritePacket /\ wrote' # wrote
              \/ WriteLeadout
          BY <3>2, QuietSteps DEF WriterNext
        <4> QED
          BY <1>1, <2>1, <4>1, <4>2, IsoSectors, TrackSectors, LeadoutSectors
      <3> QED
        BY <3>1, <3>2
    <2>3. InPlace(w)' /\ OnCue(w)'
      BY <1>2, <2>2, PromisesKept
    <2> QED
      BY <2>1, <2>3 DEF InPlace, OnCue, Here, RecordKind
  <1> QED
    BY <1>4, <1>6, <1>7 DEF SentInv

LEMMA ClientSent ==
    ASSUME ImageInv, SentInv,
           \/ Build
           \/ \E for_query \in BOOLEAN : StartOutput(for_query)
           \/ Layout
           \/ \E answer \in BOOLEAN : WriteImage(answer)
           \/ EndOutput
           \/ Destroy
    PROVE  SentInv'
  <1>1. ASSUME ~in_output', pc' \notin LayoutPhases PROVE SentInv'
    BY <1>1 DEF SentInv, Closed, NothingYet, CuesSent, Sent
  <1>2. CASE Build
    <2>1. ~in_output /\ pc' = "idle"
      BY <1>2 DEF Build, SentInv, Closed
    <2>2. in_output' = in_output
      BY <1>2 DEF Build, BuildNext, SetParam, AppendSequence, AddSequenceEntry, AppendSegment,
         AddFile, AppendPbcNode, LookupFails
    <2> QED
      BY <1>1, <2>1, <2>2 DEF LayoutPhases
  <1>3. CASE \E for_query \in BOOLEAN : StartOutput(for_query)
    <2>1. wrote' = Nothing /\ pc' = "reserve"
      BY <1>3 DEF StartOutput, BeginOutput, Goto
    <2> QED
      BY <2>1 DEF SentInv, Closed, NothingYet, CuesSent, Sent, WritePhases
  <1>4. CASE Layout
    <2>1. /\ pc \in LayoutPhases /\ UNCHANGED writerVars
          /\ pc' \in LayoutPhases \cup {"idle", "exited", "output"}
      BY <1>4, LayoutAnswers
    <2>2. wrote' = Nothing
      BY <2>1 DEF SentInv, NothingYet, writerVars
    <2>3. Closed'
      BY <1>4, LayoutAnswers DEF Closed
    <2>4. pc' \notin WritePhases
      BY <2>1 DEF WritePhases, LayoutPhases
    <2> QED
      BY <2>2, <2>3, <2>4 DEF SentInv, NothingYet, CuesSent, Sent
  <1>5. CASE \E answer \in BOOLEAN : WriteImage(answer)
    <2>1. PICK answer \in BOOLEAN : WriteImage(answer)
      BY <1>5
    <2>2. pc = "output" /\ cues' = CueSheet /\ wrote' = wrote
      BY <2>1 DEF WriteImage, Running
    <2>3. UNCHANGED frozen /\ pc' \in {"contents", "output"} /\ (~cancelled' => ~cancelled)
      <3>1. CASE sectors_written = 0
        BY <2>1, <2>2, <3>1 DEF WriteImage, Return, MoveTo, Goto, Callback
      <3>2. CASE sectors_written # 0
        BY <2>1, <2>2, <3>2 DEF WriteImage, Fails, layoutVars, frozen
      <3> QED
        BY <3>1, <3>2
    <2>4. CueSheet' = CueSheet /\ in_output' = in_output
      BY <2>3, PromisesKept
    <2>5. Closed' /\ NothingYet' /\ CuesSent'
      BY <2>2, <2>3, <2>4 DEF Closed, NothingYet, CuesSent, LayoutPhases
    <2>6. Sent'
      <3> SUFFICES ASSUME in_output', wrote' # Nothing, ~cancelled'
                   PROVE  InPlace(wrote)' /\ OnCue(wrote)'
        BY DEF Sent
      <3>1. PICK w : w = wrote
        OBVIOUS
      <3>2. InPlace(w) /\ OnCue(w)
        BY <2>2, <2>3, <2>4, <3>1 DEF SentInv, Sent
      <3>3. InPlace(w)' /\ OnCue(w)' /\ w = wrote'
        BY <2>2, <2>3, <3>1, <3>2, PromisesKept
      <3> QED
        BY <3>3 DEF InPlace, OnCue, Here, RecordKind
    <2> QED
      BY <2>5, <2>6 DEF SentInv
  <1>6. CASE EndOutput
    BY <1>1, <1>6 DEF EndOutput, ReleaseOutput, LayoutPhases
  <1>7. CASE Destroy
    BY <1>1, <1>7 DEF Destroy, LayoutPhases
  <1> QED
    BY <1>2, <1>3, <1>4, <1>5, <1>6, <1>7

LEMMA SentInit == Init => SentInv
  BY DEF Init, ObjInit, LayoutInit, WriterInit, SentInv, Closed, NothingYet, CuesSent, Sent,
         LayoutPhases

LEMMA SentStep == LaidOutWell /\ ImageInv /\ SentInv /\ [Next]_vars => SentInv'
  <1> SUFFICES ASSUME LaidOutWell, ImageInv, SentInv, [Next]_vars PROVE SentInv'
    OBVIOUS
  <1>1. CASE UNCHANGED vars
    <2>1. UNCHANGED <<frozen, writerVars, pc>>
      BY <1>1 DEF vars, frozen, layoutVars, extents
    <2>2. PICK w : w = wrote
      OBVIOUS
    <2>3. /\ InPlace(w)' = InPlace(w) /\ OnCue(w)' = OnCue(w)
          /\ CueSheet' = CueSheet /\ in_output' = in_output
      BY <2>1, PromisesKept
    <2>4. Closed' /\ NothingYet' /\ CuesSent'
      BY <2>1, <2>3 DEF SentInv, Closed, NothingYet, CuesSent, writerVars
    <2>5. wrote' = w /\ (in_output' /\ w # Nothing /\ ~cancelled' => InPlace(w)' /\ OnCue(w)')
      BY <2>1, <2>2, <2>3 DEF SentInv, Sent, writerVars
    <2>6. Sent'
      <3> SUFFICES ASSUME in_output', wrote' # Nothing, ~cancelled'
                   PROVE  InPlace(wrote)' /\ OnCue(wrote)'
        BY DEF Sent
      <3> QED
        BY <2>5 DEF InPlace, OnCue, Here, RecordKind
    <2> QED
      BY <2>4, <2>6 DEF SentInv
  <1> QED
    BY <1>1, ClientSent, WriterSent DEF Next

LEMMA SentIsPromised == SentInv => SectorsInPlace /\ CueSheetKept
  <1> SUFFICES ASSUME SentInv PROVE SectorsInPlace /\ CueSheetKept
    OBVIOUS
  <1>1. SectorsInPlace
    <2> SUFFICES ASSUME in_output, wrote # Nothing, ~cancelled PROVE InPlace(wrote)
      BY DEF SectorsInPlace, InPlace, Here, RecordKind
    <2> QED
      BY DEF SentInv, Sent
  <1>2. CueSheetKept
    <2> SUFFICES ASSUME in_output, wrote # Nothing, ~cancelled
                 PROVE  OnCue(wrote) /\ cues = CueSheet
      BY DEF CueSheetKept, OnCue
    <2> QED
      BY DEF SentInv, Sent, CuesSent
  <1> QED
    BY <1>1, <1>2

\* The invariant behind both.
LEMMA AlwaysSent ==
    ASSUME ParamsFirst
    PROVE  Spec => []SentInv
  <1> DEFINE Inv == LaidOutWell /\ ImageInv /\ SentInv
  <1>1. Init => Inv
    BY ShapeInit, PlaceInit, TracksInit, ImageInit, SentInit DEF LaidOutWell, IsoLaidOut
  <1>2. Inv /\ [Next]_vars => Inv'
    BY ShapeStep, PlaceStep, TracksStep, ImageStep, SentStep DEF LaidOutWell, IsoLaidOut
  <1> QED
    BY <1>1, <1>2, PTL DEF Spec

\* Of every disc whose parameters are set before its sequences: a sector that the sink
\* gets belongs to the extent that the descriptors, INFO, ENTRIES or the directory record
\* for it, at its place in it, and a filler sector to none.
THEOREM SectorsInPlaceCorrect ==
    ASSUME ParamsFirst
    PROVE  Spec => []SectorsInPlace
  BY AlwaysSent, SentIsPromised, PTL

\* Of every such disc: the sectors of a track fall where the cue sheet said before the
\* first of them was written, a subindex on the packet of its entry point's access point,
\* and none behind the end of the disc.
THEOREM CueSheetKeptCorrect ==
    ASSUME ParamsFirst
    PROVE  Spec => []CueSheetKept
  BY AlwaysSent, SentIsPromised, PTL

-----------------------------------------------------------------------------
(* The progress callback.                                                  *)

\* The counters are naturals, and while an image is written the last callback was less
\* than CB_FREQUENCY sectors ago.
CallbackInv ==
    /\ sectors_written \in Nat
    /\ last_cb_call \in Nat
    /\ pc \in WritePhases => sectors_written - last_cb_call \in 0 .. CB_FREQUENCY - 1

\* A sector that is written, with its callback, or an assertion that fails.
LEMMA SectorTells ==
    ASSUME CallbackInv, pc \in WritePhases, NEW extent, NEW kind, NEW no, NEW at, NEW answer,
           WriteSector(extent, kind, no, at, answer)
    PROVE  CallbackInv'
  <1>1. CB_FREQUENCY \in Nat \ {0}
    BY WriterAssumption
  <1>2. CASE extent = sectors_written
    <2>1. /\ sectors_written' = sectors_written + 1
          /\ Callback(sectors_written + 1, FALSE, answer)
      BY <1>2 DEF WriteSector
    <2>2. CASE last_cb_call + CB_FREQUENCY > sectors_written + 1
      <3>1. last_cb_call' = last_cb_call
        BY <2>1, <2>2 DEF Callback
      <3> QED
        BY <1>1, <2>1, <2>2, <3>1 DEF CallbackInv
    <2>3. CASE ~(last_cb_call + CB_FREQUENCY > sectors_written + 1)
      <3>1. last_cb_call' = sectors_written + 1
        BY <2>1, <2>3 DEF Callback
      <3> QED
        BY <1>1, <2>1, <3>1 DEF CallbackInv
    <2> QED
      BY <2>2, <2>3
  <1>3. CASE extent # sectors_written
    <2>1. UNCHANGED <<sectors_written, last_cb_call>>
      BY <1>3 DEF WriteSector
    <2> QED
      BY <2>1 DEF CallbackInv
  <1> QED
    BY <1>2, <1>3

\* A callback that is forced, at the start of the image, of a track, or at the end.
LEMMA ForcedTells ==
    ASSUME CallbackInv, sectors_written' = sectors_written, NEW answer,
           Callback(sectors_written, TRUE, answer)
    PROVE  CallbackInv'
  <1>1. last_cb_call' = sectors_written
    BY DEF Callback
  <1>2. CB_FREQUENCY \in Nat \ {0}
    BY WriterAssumption
  <1> QED
    BY <1>1, <1>2 DEF CallbackInv

\* A step without a sector that does not begin to write.
LEMMA NothingTold ==
    ASSUME CallbackInv, UNCHANGED <<sectors_written, last_cb_call>>,
           pc' \in WritePhases => pc \in WritePhases
    PROVE  CallbackInv'
  BY DEF CallbackInv

\* Nothing is written of an object that is new.
LEMMA CallbackInit == Init => CallbackInv
  BY DEF Init, LayoutInit, WriterInit, CallbackInv, WritePhases

\* Laying the image out tells nothing and does not begin to write.
LEMMA CallbackLayout == ASSUME CallbackInv, Layout PROVE CallbackInv'
  <1>1. UNCHANGED <<sectors_written, last_cb_call>>
    BY DEF Layout, writerVars
  <1>2. pc' \notin WritePhases
    <2>1. ASSUME ReserveFixed PROVE pc' \notin WritePhases
      BY <2>1 DEF ReserveFixed, Running, Fails, Goto, layoutVars, WritePhases
    <2>2. ASSUME ReserveSearch PROVE pc' \notin WritePhases
      BY <2>2 DEF ReserveSearch, Running, Fails, Goto, layoutVars, WritePhases
    <2>3. ASSUME FillToAlignment PROVE pc' \notin WritePhases
      BY <2>3 DEF FillToAlignment, Running, Fails, Goto, layoutVars, WritePhases
    <2>4. ASSUME PlaceSegment PROVE pc' \notin WritePhases
      BY <2>4 DEF PlaceSegment, Running, Fails, layoutVars, WritePhases
    <2>5. ASSUME EndSegments PROVE pc' \notin WritePhases
      BY <2>5 DEF EndSegments, Running, Fails, Goto, layoutVars, WritePhases
    <2>6. ASSUME PlaceExt \/ EndExt PROVE pc' \notin WritePhases
      BY <2>6 DEF PlaceExt, EndExt, Running, Goto, WritePhases
    <2>7. ASSUME PlaceFile \/ EndFiles PROVE pc' \notin WritePhases
      BY <2>7 DEF PlaceFile, EndFiles, Running, Goto, WritePhases
    <2>8. ASSUME NEW d \in DirBlocks, MakeFilesystem(d) PROVE pc' \notin WritePhases
      <3>1. pc = "filesystem" /\ (pc' \in {"exited", "entries"} \/ pc' = pc)
        BY <2>8 DEF MakeFilesystem, Running, Fails, Goto, layoutVars
      <3> QED
        BY <3>1 DEF WritePhases
    <2>9. ASSUME UpdateEntry \/ NextSequence PROVE pc' \notin WritePhases
      BY <2>9 DEF UpdateEntry, NextSequence, Running, Fails, layoutVars, WritePhases
    <2>10. ASSUME ReturnSize PROVE pc' \notin WritePhases
      BY <2>10 DEF ReturnSize, Running, WritePhases
    <2> QED
      BY <2>1, <2>2, <2>3, <2>4, <2>5, <2>6, <2>7, <2>8, <2>9, <2>10 DEF Layout, LayoutNext
  <1> QED
    BY <1>1, <1>2, NothingTold

\* The steps that write a sector.
LEMMA CallbackSectors ==
    ASSUME CallbackInv,
           \/ WriteHead \/ WriteSegment \/ WriteExt \/ WriteFile \/ WriteBlank
           \/ WritePregap \/ WriteFrontMargin \/ WritePacket \/ WriteRearMargin
           \/ WriteLeadout
    PROVE  CallbackInv'
  <1>1. ASSUME WriteHead PROVE CallbackInv'
    <2>1. PICK answer \in BOOLEAN : WriteSector(n, BufferAt(n), 0, 0, answer)
      BY <1>1 DEF WriteHead
    <2>2. pc \in WritePhases
      BY <1>1 DEF WriteHead, Running, WritePhases
    <2> QED
      BY <2>1, <2>2, SectorTells
  <1>2. ASSUME WriteSegment PROVE CallbackInv'
    <2>1. PICK answer \in BOOLEAN :
             WriteSector(IF n = 0 THEN segments[i].start_extent ELSE sectors_written,
                         "segment", i, n, answer)
      BY <1>2 DEF WriteSegment
    <2>2. pc \in WritePhases
      BY <1>2 DEF WriteSegment, Running, WritePhases
    <2> QED
      BY <2>1, <2>2, SectorTells
  <1>3. ASSUME WriteExt PROVE CallbackInv'
    <2>1. PICK answer \in BOOLEAN :
             WriteSector(sectors_written, BufferAt(sectors_written), 0, 0, answer)
      BY <1>3 DEF WriteExt
    <2>2. pc \in WritePhases
      BY <1>3 DEF WriteExt, Running, WritePhases
    <2> QED
      BY <2>1, <2>2, SectorTells
  <1>4. ASSUME WriteFile PROVE CallbackInv'
    <2>1. PICK answer \in BOOLEAN :
             WriteSector(files[i].start_extent + n, "file", i, n, answer)
      BY <1>4 DEF WriteFile
    <2>2. pc \in WritePhases
      BY <1>4 DEF WriteFile, Running, WritePhases
    <2> QED
      BY <2>1, <2>2, SectorTells
  <1>5. ASSUME WriteBlank PROVE CallbackInv'
    <2>1. pc \in WritePhases
      BY <1>5 DEF WriteBlank, Running, WritePhases
    <2>2. \/ \E answer \in BOOLEAN :
                WriteSector(FirstFit(iso_bitmap, 1), "blank", 0, 0, answer)
          \/ UNCHANGED <<sectors_written, last_cb_call>>
      BY <1>5 DEF WriteBlank, writerVars
    <2> QED
      BY <2>1, <2>2, SectorTells, NothingTold
  <1>6. ASSUME NEW kind, NEW from, NEW to, WriteGap(kind, from, to) PROVE CallbackInv'
    <2>1. PICK answer \in BOOLEAN :
             WriteSector(sectors_written, kind, i, n - from, answer)
      BY <1>6 DEF WriteGap
    <2>2. pc \in WritePhases
      BY <1>6 DEF WriteGap, Running, WritePhases
    <2> QED
      BY <2>1, <2>2, SectorTells
  <1>7. ASSUME WritePacket PROVE CallbackInv'
    <2>1. pc \in WritePhases
      BY <1>7 DEF WritePacket, Running, WritePhases
    <2>2. \/ \E answer \in BOOLEAN :
                WriteSector(sectors_written, "packet", i, n - PacketsAt, answer)
          \/ UNCHANGED <<sectors_written, last_cb_call>>
      BY <1>7 DEF WritePacket, writerVars
    <2> QED
      BY <2>1, <2>2, SectorTells, NothingTold
  <1>8. ASSUME WriteLeadout PROVE CallbackInv'
    <2>1. PICK answer \in BOOLEAN :
             WriteSector(sectors_written, "leadout", 0, n, answer)
      BY <1>8 DEF WriteLeadout
    <2>2. pc \in WritePhases
      BY <1>8 DEF WriteLeadout, Running, WritePhases
    <2> QED
      BY <2>1, <2>2, SectorTells
  <1> QED
    BY <1>1, <1>2, <1>3, <1>4, <1>5, <1>6, <1>7, <1>8
    DEF WritePregap, WriteFrontMargin, WriteRearMargin

\* The steps between two parts of the image.
LEMMA CallbackMoves ==
    ASSUME CallbackInv,
           \/ MakeContents \/ EndHead \/ NextSegment \/ EndWriteSegments \/ EndWriteExt
           \/ NextFile \/ EndWriteFiles \/ EndSequence \/ EndTracks
    PROVE  CallbackInv'
  <1>1. pc \in WritePhases
    BY DEF MakeContents, EndHead, NextSegment, EndWriteSegments, EndWriteExt, NextFile,
           EndWriteFiles, EndSequence, EndTracks, Running, WritePhases
  <1>2. UNCHANGED <<sectors_written, last_cb_call>>
    BY DEF MakeContents, EndHead, NextSegment, EndWriteSegments, EndWriteExt, NextFile,
           EndWriteFiles, EndSequence, EndTracks, writerVars
  <1> QED
    BY <1>1, <1>2, NothingTold

\* The steps that call back whatever has been written since the last call.
LEMMA CallbackForced ==
    ASSUME CallbackInv,
           \E answer \in BOOLEAN :
               WriteImage(answer) \/ StartTrack(answer) \/ Finish(answer)
    PROVE  CallbackInv'
  <1>1. PICK answer \in BOOLEAN :
           WriteImage(answer) \/ StartTrack(answer) \/ Finish(answer)
    OBVIOUS
  <1>2. sectors_written' = sectors_written
    BY <1>1 DEF WriteImage, StartTrack, Finish
  <1>3. CASE WriteImage(answer)
    <2>1. CASE sectors_written = 0
      <3>1. Callback(sectors_written, TRUE, answer)
        BY <1>3, <2>1 DEF WriteImage
      <3> QED
        BY <1>2, <3>1, ForcedTells
    <2>2. CASE sectors_written # 0
      <3>1. last_cb_call' = last_cb_call /\ pc' = pc
        BY <1>3, <2>2 DEF WriteImage, Fails, layoutVars
      <3> QED
        BY <1>2, <3>1, NothingTold
    <2> QED
      BY <2>1, <2>2
  <1>4. CASE StartTrack(answer) \/ Finish(answer)
    <2>1. Callback(sectors_written, TRUE, answer)
      BY <1>4 DEF StartTrack, Finish
    <2> QED
      BY <1>2, <2>1, ForcedTells
  <1> QED
    BY <1>1, <1>3, <1>4

\* Whatever the client or the code does next.
LEMMA CallbackStep == CallbackInv /\ [Next]_vars => CallbackInv'
  <1> SUFFICES ASSUME CallbackInv, [Next]_vars PROVE CallbackInv'
    OBVIOUS
  <1>1. CASE Build
    BY <1>1, NothingTold DEF Build, writerVars
  <1>2. ASSUME NEW for_query \in BOOLEAN, StartOutput(for_query) PROVE CallbackInv'
    <2>1. sectors_written' = 0 /\ last_cb_call' = last_cb_call
      BY <1>2 DEF StartOutput
    <2>2. pc' \notin WritePhases
      BY <1>2 DEF StartOutput, BeginOutput, Running, Fails, Goto, layoutVars, WritePhases
    <2> QED
      BY <2>1, <2>2 DEF CallbackInv
  <1>3. CASE Layout
    BY <1>3, CallbackLayout
  <1>4. CASE \E answer \in BOOLEAN : WriteImage(answer)
    BY <1>4, CallbackForced
  <1>5. CASE WriterNext
    BY <1>5, CallbackSectors, CallbackMoves, CallbackForced DEF WriterNext
  <1>6. CASE EndOutput
    <2>1. pc' \notin WritePhases /\ UNCHANGED <<sectors_written, last_cb_call>>
      BY <1>6 DEF EndOutput, writerVars, WritePhases
    <2> QED
      BY <2>1, NothingTold
  <1>7. CASE Destroy
    <2>1. pc' \notin WritePhases /\ UNCHANGED <<sectors_written, last_cb_call>>
      BY <1>7 DEF Destroy, writerVars, WritePhases
    <2> QED
      BY <2>1, NothingTold
  <1>8. CASE UNCHANGED vars
    BY <1>8, NothingTold DEF vars, writerVars, layoutVars
  <1> QED
    BY <1>1, <1>2, <1>3, <1>4, <1>5, <1>6, <1>7, <1>8 DEF Next

\* A client that shows progress hears of every CB_FREQUENCY sectors, at the latest,
\* whatever it masters and however often: _callback_wrapper keeps last_cb_call from
\* one image of an object to the next, and the forced call at its start resets it.
THEOREM CallbackOftenCorrect == Spec => []CallbackOften
  <1>1. CallbackInv => CallbackOften
    BY DEF CallbackInv, CallbackOften
  <1> QED
    BY <1>1, CallbackInit, CallbackStep, PTL DEF Spec

-----------------------------------------------------------------------------
(* The places of the ISO 9660 track, each computed from the ones before    *)
(* it.  They are known once they are placed; and, while the object is as   *)
(* get_image_size saw it, from the last time.                              *)

Remembered == queried # -1

StartKnown == Remembered \/ pc \in Started \ BeforeSegments
ExtKnown == Remembered \/ pc \in Started \ BeforeExt
CustomKnown == Remembered \/ pc \in Started \ BeforeFiles
IsoSizeKnown == Remembered \/ pc \in Started \ BeforeSize
SegmentKnown(k) ==
    Remembered \/ (pc \in Started \ BeforeSegments /\ (pc = "segments" => k < i))
FileKnown(k) ==
    Remembered \/ (pc \in Started \ BeforeFiles /\ (pc = "files" => k < i))

\* The end of the primary information area, and where segments may start behind it.
InfoEnd == IF Has4C_SVCD THEN (FixedEnd + 1) + SearchBlocks(Len(sequences)) ELSE FixedEnd
FirstSegment == Ceil2Block(InfoEnd, ALIGNMENT)

\* The sizes of the files of the EXT area before file k.
ExtSize(k) ==
    IF k <= 1 THEN 0
    ELSE IF k = 2 THEN ExtFiles[1].length
    ELSE IF k = 3 THEN ExtFiles[1].length + ExtFiles[2].length
    ELSE (ExtFiles[1].length + ExtFiles[2].length) + ExtFiles[3].length

AtLeastMin(x) == IF MIN_ISO_SIZE > x THEN MIN_ISO_SIZE ELSE x

StartFixed == StartKnown => mpeg_segment_start_extent = FirstSegment

SegmentsAdjoin ==
    \A k \in DOMAIN segments :
        SegmentKnown(k) => segments[k].start_extent = SegmentFrom(k)

ExtFixed == ExtKnown => ext_file_start_extent = SegmentFrom(Len(segments) + 1)

CustomFixed ==
    CustomKnown =>
        custom_file_start_extent = ext_file_start_extent + ExtSize(Len(ExtFiles) + 1)

FilesAdjoin ==
    \A k \in DOMAIN files :
        FileKnown(k) =>
            IF files[k].sectors = 0 THEN files[k].start_extent = custom_file_start_extent
            ELSE FilesUpTo(k, files[k].start_extent)

SizeFixed ==
    IsoSizeKnown =>
        \E x \in 0 .. iso_size : FilesUpTo(Len(files) + 1, x) /\ iso_size = AtLeastMin(x)

\* What is reserved so far ends where the next place will be.
EndReached ==
    /\ pc = "svcd" => End = FixedEnd
    /\ pc = "fill" => End = InfoEnd
    /\ pc = "segments" =>
          i <= Len(segments) + 1 /\ End = SegmentFrom(i) /\ End % ALIGNMENT = 0
    /\ pc = "ext" =>
          i <= Len(ExtFiles) + 1 /\ End = ext_file_start_extent + ExtSize(i)
    /\ pc = "files" => i <= Len(files) + 1 /\ FilesUpTo(i, End)

\* What get_image_size said is what the places say.
QueriedRight ==
    Remembered => queried = relative_end_extent + iso_size + prm.leadout_pregap

AdjoinInv ==
    /\ StartFixed /\ SegmentsAdjoin /\ ExtFixed /\ CustomFixed /\ FilesAdjoin /\ SizeFixed
    /\ EndReached /\ QueriedRight

\* The files end in one place only.
LEMMA FilesUpToUnique ==
    ASSUME NEW k \in Nat \ {0}, NEW x, NEW y, FilesUpTo(k, x), FilesUpTo(k, y)
    PROVE  x = y
  <1>1. CASE \A j \in 1 .. k - 1 : files[j].sectors = 0
    BY <1>1 DEF FilesUpTo
  <1>2. CASE ~\A j \in 1 .. k - 1 : files[j].sectors = 0
    <2>1. PICK j \in 1 .. k - 1 :
             /\ files[j].sectors # 0
             /\ \A h \in j + 1 .. k - 1 : files[h].sectors = 0
             /\ x = FileEnd(j)
      BY <1>2 DEF FilesUpTo
    <2>2. PICK g \in 1 .. k - 1 :
             /\ files[g].sectors # 0
             /\ \A h \in g + 1 .. k - 1 : files[h].sectors = 0
             /\ y = FileEnd(g)
      BY <1>2 DEF FilesUpTo
    <2>3. ~(j < g) /\ ~(g < j)
      BY <2>1, <2>2
    <2>4. j = g
      BY <2>3
    <2> QED
      BY <2>1, <2>2, <2>4
  <1> QED
    BY <1>1, <1>2

\* What is computed from the items alone.
LEMMA SameAreas ==
    ASSUME UNCHANGED <<type, pbc_list>>, Len(sequences') = Len(sequences)
    PROVE  /\ UNCHANGED <<FixedEnd, InfoEnd, FirstSegment, ExtFiles>>
           /\ \A k : ExtSize(k)' = ExtSize(k)
  <1>1. UNCHANGED <<HasPBC, HasPBC_X, Has4C_SVCD, pbc_available>>
    BY DEF HasPBC, HasPBC_X, Has4C_SVCD, pbc_available
  <1>2. UNCHANGED <<FixedEnd, ExtFiles>>
    BY <1>1 DEF FixedEnd, ExtFiles
  <1>3. UNCHANGED <<InfoEnd>>
    BY <1>1, <1>2 DEF InfoEnd
  <1>4. UNCHANGED <<FirstSegment>>
    BY <1>3 DEF FirstSegment
  <1>5. \A k : ExtSize(k)' = ExtSize(k)
    BY <1>2 DEF ExtSize
  <1> QED
    BY <1>2, <1>3, <1>4, <1>5

LEMMA SamePlaces ==
    ASSUME UNCHANGED <<segments, files, mpeg_segment_start_extent, custom_file_start_extent>>
    PROVE  /\ \A k : SegmentFrom(k)' = SegmentFrom(k)
           /\ \A k, x : FilesUpTo(k, x)' <=> FilesUpTo(k, x)
  <1>1. \A k : SegmentFrom(k)' = SegmentFrom(k)
    BY DEF SegmentFrom, SegmentEnd, SegmentSize
  <1>2. \A k, x : FilesUpTo(k, x)' <=> FilesUpTo(k, x)
    BY DEF FilesUpTo, FileEnd
  <1> QED
    BY <1>1, <1>2

\* A step after which no more is known.
NoMoreKnown ==
    /\ StartKnown' => StartKnown
    /\ ExtKnown' => ExtKnown
    /\ CustomKnown' => CustomKnown
    /\ IsoSizeKnown' => IsoSizeKnown
    /\ \A k : (SegmentKnown(k)' => SegmentKnown(k)) /\ (FileKnown(k)' => FileKnown(k))

LEMMA KnownBefore ==
    ASSUME \/ queried' = queried /\ pc' \notin Started \ BeforeSegments
           \/ pc \in Started \ BeforeSize
           \/ queried # -1
    PROVE  NoMoreKnown
  <1>1. CASE queried' = queried /\ pc' \notin Started \ BeforeSegments
    BY <1>1 DEF NoMoreKnown, StartKnown, ExtKnown, CustomKnown, IsoSizeKnown, SegmentKnown,
       FileKnown, Remembered, BeforeSize, BeforeFiles, BeforeExt
  <1>2. CASE pc \in Started \ BeforeSize
    <2>1. /\ pc \in Started \ BeforeSegments /\ pc \in Started \ BeforeExt
          /\ pc \in Started \ BeforeFiles /\ pc # "segments" /\ pc # "files"
      BY <1>2 DEF BeforeSize, BeforeFiles, BeforeExt
    <2> QED
      BY <1>2, <2>1 DEF NoMoreKnown, StartKnown, ExtKnown, CustomKnown, IsoSizeKnown,
         SegmentKnown, FileKnown
  <1>3. CASE queried # -1
    BY <1>3 DEF NoMoreKnown, StartKnown, ExtKnown, CustomKnown, IsoSizeKnown, SegmentKnown,
       FileKnown, Remembered
  <1> QED
    BY <1>1, <1>2, <1>3

\* A step that moves nothing, and after which no more is known.
LEMMA AdjoinKept ==
    ASSUME AdjoinInv, UNCHANGED <<type, pbc_list, segments, files>>,
           Len(sequences') = Len(sequences),
           UNCHANGED <<mpeg_segment_start_extent, ext_file_start_extent>>,
           UNCHANGED <<custom_file_start_extent, iso_size>>,
           NoMoreKnown, EndReached', QueriedRight'
    PROVE  AdjoinInv'
  <1>1. /\ UNCHANGED <<FirstSegment, ExtFiles>>
        /\ \A k : ExtSize(k)' = ExtSize(k)
    BY SameAreas
  <1>2. /\ \A k : SegmentFrom(k)' = SegmentFrom(k)
        /\ \A k, x : FilesUpTo(k, x)' <=> FilesUpTo(k, x)
    BY SamePlaces
  <1>3. StartFixed'
    BY <1>1 DEF NoMoreKnown, AdjoinInv, StartFixed
  <1>4. SegmentsAdjoin'
    BY <1>2 DEF NoMoreKnown, AdjoinInv, SegmentsAdjoin
  <1>5. ExtFixed'
    BY <1>2 DEF NoMoreKnown, AdjoinInv, ExtFixed, SegmentFrom, SegmentEnd, SegmentSize
  <1>6. CustomFixed'
    BY <1>1 DEF NoMoreKnown, AdjoinInv, CustomFixed, ExtSize
  <1>7. FilesAdjoin'
    BY <1>2 DEF NoMoreKnown, AdjoinInv, FilesAdjoin, FilesUpTo, FileEnd
  <1>8. SizeFixed'
    BY <1>2 DEF NoMoreKnown, AdjoinInv, SizeFixed, AtLeastMin, FilesUpTo, FileEnd
  <1> QED
    BY <1>3, <1>4, <1>5, <1>6, <1>7, <1>8 DEF AdjoinInv

\* The sizes of the EXT area's files add up.
LEMMA ExtSizes ==
    ASSUME ShapeInv
    PROVE  /\ Len(ExtFiles) \in Nat
           /\ \A k \in 1 .. Len(ExtFiles) + 1 : ExtSize(k) \in Nat
           /\ ExtSize(1) = 0
           /\ \A k \in 1 .. Len(ExtFiles) : ExtSize(k + 1) = ExtSize(k) + ExtFiles[k].length
  <1>1. /\ Len(ExtFiles) \in Nat
        /\ \A k \in 1 .. Len(ExtFiles) : ExtFiles[k].length \in Nat \ {0}
    BY ExtFilesType
  <1>2. Len(ExtFiles) <= 3
    <2> DEFINE scan == [key |-> "scandata", length |-> ScandataBlocks(Len(sequences))]
               lot == [key |-> "lot_x", length |-> LOT_VCD_SIZE]
               psd == [key |-> "psd_x", length |-> PsdBlocks(Len(pbc_list))]
               first == IF Has4C_SVCD THEN <<scan>> ELSE <<>>
               second == IF HasPBC_X /\ pbc_available THEN <<lot, psd>> ELSE <<>>
    <2>1. ExtFiles = first \o second
      BY DEF ExtFiles
    <2>2. scan \in ExtFileType /\ lot \in ExtFileType /\ psd \in ExtFileType
      BY AreaSizes, LayoutAssumption DEF ExtFileType
    <2> HIDE DEF scan, lot, psd
    <2>3. first \in Seq(ExtFileType) /\ Len(first) <= 1
      BY <2>2
    <2>4. second \in Seq(ExtFileType) /\ Len(second) <= 2
      BY <2>2
    <2> HIDE DEF first, second
    <2>5. Len(first \o second) = Len(first) + Len(second)
      BY <2>3, <2>4, ConcatProperties
    <2>6. Len(first) \in Nat /\ Len(second) \in Nat
      BY <2>3, <2>4, LenProperties
    <2> QED
      BY <2>1, <2>3, <2>4, <2>5, <2>6
  <1>3. PICK m : m = Len(ExtFiles)
    OBVIOUS
  <1>4. PICK a, b, c : a = ExtFiles[1].length /\ b = ExtFiles[2].length /\ c = ExtFiles[3].length
    OBVIOUS
  <1>5. \A k : ExtSize(k) = IF k <= 1 THEN 0 ELSE IF k = 2 THEN a ELSE IF k = 3 THEN a + b
                            ELSE (a + b) + c
    BY <1>4 DEF ExtSize
  <1>6. /\ m \in Nat /\ m <= 3
        /\ (m >= 1 => a \in Nat) /\ (m >= 2 => b \in Nat) /\ (m >= 3 => c \in Nat)
    BY <1>1, <1>2, <1>3, <1>4
  <1>7. \A k \in 1 .. m + 1 : ExtSize(k) \in Nat
    BY <1>5, <1>6
  <1>8. ASSUME NEW k \in 1 .. m PROVE ExtSize(k + 1) = ExtSize(k) + ExtFiles[k].length
    <2>1. k = 1 \/ k = 2 \/ k = 3
      BY <1>6
    <2>2. CASE k = 1
      BY <1>4, <1>5, <1>6, <2>2
    <2>3. CASE k = 2
      BY <1>4, <1>5, <1>6, <2>3
    <2>4. CASE k = 3
      BY <1>4, <1>5, <1>6, <2>4
    <2> QED
      BY <2>1, <2>2, <2>3, <2>4
  <1>9. ExtSize(1) = 0
    BY <1>5
  <1> QED
    BY <1>1, <1>3, <1>7, <1>8, <1>9

\* The primary information area ends behind ENTRIES.VCD, and segments may start there or
\* up to a unit later.
LEMMA InformationEnds ==
    ASSUME ShapeInv
    PROVE  /\ FixedEnd \in Nat /\ FixedEnd > INFO_VCD_SECTOR
           /\ InfoEnd \in Nat \ {0} /\ InfoEnd >= FixedEnd
           /\ FirstSegment \in Nat \ {0} /\ FirstSegment >= InfoEnd
           /\ FirstSegment % ALIGNMENT = 0
  <1>1. PICK f, p, s : f = FixedEnd /\ p = PsdBlocks(Len(pbc_list))
                       /\ s = SearchBlocks(Len(sequences))
    OBVIOUS
  <1>2. p \in Nat \ {0} /\ s \in Nat \ {0} /\ f \in Nat \ {0}
    BY <1>1, AreaSizes, FixedAreas
  <1>3. f = PSD_VCD_SECTOR + p \/ f = LOT_VCD_SECTOR
    BY <1>1 DEF FixedEnd
  <1>4. f > INFO_VCD_SECTOR
    BY <1>2, <1>3, LayoutAssumption
  <1>5. InfoEnd = (f + 1) + s \/ InfoEnd = f
    BY <1>1 DEF InfoEnd
  <1>6. InfoEnd \in Nat \ {0} /\ InfoEnd >= f
    BY <1>2, <1>5
  <1>7. ALIGNMENT \in Nat \ {0}
    BY LayoutAssumption
  <1>8. /\ FirstSegment \in Nat /\ FirstSegment >= InfoEnd
        /\ FirstSegment % ALIGNMENT = 0
    BY <1>6, <1>7, Ceil2BlockBounds DEF FirstSegment
  <1>9. FirstSegment # 0
    BY <1>6, <1>8
  <1> QED
    BY <1>1, <1>2, <1>4, <1>6, <1>8, <1>9

\* An area behind all others.
LEMMA OneMoreApart ==
    ASSUME NEW D, Disjoint(D), NEW t \in Nat,
           \A e \in D : e.sector \in Nat /\ e.length \in Nat /\ e.sector + e.length <= t,
           NEW f, f.sector \in Nat, f.length \in Nat, f.sector >= t
    PROVE  /\ Disjoint(D \cup {f})
           /\ \A e \in D \cup {f} :
                 /\ e.sector \in Nat /\ e.length \in Nat
                 /\ e.sector + e.length <= f.sector + f.length
  <1>1. ASSUME NEW e \in D
        PROVE  /\ SectorsOf(e) \cap SectorsOf(f) = {} /\ SectorsOf(f) \cap SectorsOf(e) = {}
               /\ e.sector + e.length <= f.sector + f.length
    <2>1. PICK a, m, b, l : a = e.sector /\ m = e.length /\ b = f.sector /\ l = f.length
      OBVIOUS
    <2>2. a \in Nat /\ m \in Nat /\ b \in Nat /\ l \in Nat /\ a + m <= b
      BY <2>1
    <2>3. Extent(a, m) \cap Extent(b, l) = {} /\ Extent(b, l) \cap Extent(a, m) = {}
      BY <2>2, ApartIsDisjoint
    <2>4. a + m <= b + l
      BY <2>2
    <2> QED
      BY <2>1, <2>3, <2>4 DEF SectorsOf
  <1>2. \A d, e \in D : d # e => SectorsOf(d) \cap SectorsOf(e) = {}
    BY DEF Disjoint
  <1>3. Disjoint(D \cup {f})
    BY <1>1, <1>2 DEF Disjoint
  <1>4. f.sector + f.length <= f.sector + f.length
    OBVIOUS
  <1> QED
    BY <1>1, <1>3, <1>4

\* The areas with a place of their own lie one behind the other.
LEMMA FixedAreasApart ==
    ASSUME ShapeInv
    PROVE  Disjoint(Blank \cup Buffers \cup PbcBuffers)
  <1> DEFINE silence == Entry("silence", 0, SILENCE)
             pvd == Entry("pvd", ISO_PVD_SECTOR, 1)
             evd == Entry("evd", ISO_EVD_SECTOR, 1)
             dir == Entry("dir_area", DIR_SECTOR, KARAOKE_SECTOR - DIR_SECTOR)
             karaoke == Entry("karaoke", KARAOKE_SECTOR, KARAOKE_SIZE)
             info == Entry("info", INFO_VCD_SECTOR, 1)
             entries == Entry("entries", ENTRIES_VCD_SECTOR, 1)
             lot == Entry("lot", LOT_VCD_SECTOR, LOT_VCD_SIZE)
             psd == Entry("psd", PSD_VCD_SECTOR, PsdBlocks(Len(pbc_list)))
             Behind(D, t) ==
                /\ Disjoint(D) /\ t \in Nat
                /\ \A e \in D :
                      e.sector \in Nat /\ e.length \in Nat /\ e.sector + e.length <= t
  <1>1. ASSUME NEW D, NEW t, Behind(D, t), NEW f, f.sector \in Nat, f.length \in Nat,
               f.sector >= t
        PROVE  Behind(D \cup {f}, f.sector + f.length)
    <2>1. f.sector + f.length \in Nat
      BY <1>1
    <2> QED
      BY <1>1, <2>1, OneMoreApart
  <1>2. /\ silence.sector = 0 /\ silence.length = SILENCE
        /\ pvd.sector = ISO_PVD_SECTOR /\ pvd.length = 1
        /\ evd.sector = ISO_EVD_SECTOR /\ evd.length = 1
        /\ dir.sector = DIR_SECTOR /\ dir.length = KARAOKE_SECTOR - DIR_SECTOR
        /\ karaoke.sector = KARAOKE_SECTOR /\ karaoke.length = KARAOKE_SIZE
        /\ info.sector = INFO_VCD_SECTOR /\ info.length = 1
        /\ entries.sector = ENTRIES_VCD_SECTOR /\ entries.length = 1
        /\ lot.sector = LOT_VCD_SECTOR /\ lot.length = LOT_VCD_SIZE
        /\ psd.sector = PSD_VCD_SECTOR /\ psd.length = PsdBlocks(Len(pbc_list))
    BY DEF Entry
  <1>3. PsdBlocks(Len(pbc_list)) \in Nat
    BY AreaSizes
  <1>4. Blank \cup Buffers = {silence, karaoke, dir, pvd, evd, info, entries}
    BY DEF Blank, Buffers
  <1>5. PbcBuffers \subseteq {lot, psd}
    BY DEF PbcBuffers
  <1> HIDE DEF silence, pvd, evd, dir, karaoke, info, entries, lot, psd
  <1>6. Behind({}, 0)
    BY DEF Disjoint
  <1> HIDE DEF Behind
  <1>7. Behind({silence}, SILENCE)
    <2>1. /\ silence.sector + silence.length = SILENCE
          /\ silence.sector \in Nat /\ silence.length \in Nat /\ silence.sector >= 0
      BY <1>2, LayoutAssumption
    <2>2. {} \cup {silence} = {silence}
      OBVIOUS
    <2>3. Behind({} \cup {silence}, silence.sector + silence.length)
      BY <1>1, <1>6, <2>1
    <2> QED
      BY <2>1, <2>2, <2>3
  <1>8. Behind({silence} \cup {pvd}, ISO_EVD_SECTOR)
    <2>1. /\ pvd.sector + pvd.length = ISO_EVD_SECTOR
          /\ pvd.sector \in Nat /\ pvd.length \in Nat /\ pvd.sector >= SILENCE
      BY <1>2, LayoutAssumption
    <2> QED
      BY <1>1, <1>7, <2>1
  <1>9. Behind({silence} \cup {pvd} \cup {evd}, DIR_SECTOR)
    <2>1. /\ evd.sector + evd.length = DIR_SECTOR
          /\ evd.sector \in Nat /\ evd.length \in Nat /\ evd.sector >= ISO_EVD_SECTOR
      BY <1>2, LayoutAssumption
    <2> QED
      BY <1>1, <1>8, <2>1
  <1>10. Behind({silence} \cup {pvd} \cup {evd} \cup {dir}, KARAOKE_SECTOR)
    <2>1. /\ dir.sector + dir.length = KARAOKE_SECTOR /\ dir.sector \in Nat /\ dir.length \in Nat
          /\ dir.sector >= DIR_SECTOR
      BY <1>2, LayoutAssumption
    <2> QED
      BY <1>1, <1>9, <2>1
  <1>11. Behind({silence} \cup {pvd} \cup {evd} \cup {dir} \cup {karaoke}, INFO_VCD_SECTOR)
    <2>1. /\ karaoke.sector + karaoke.length = INFO_VCD_SECTOR
          /\ karaoke.sector \in Nat /\ karaoke.length \in Nat
          /\ karaoke.sector >= KARAOKE_SECTOR
      BY <1>2, LayoutAssumption
    <2> QED
      BY <1>1, <1>10, <2>1
  <1>12. Behind({silence} \cup {pvd} \cup {evd} \cup {dir} \cup {karaoke} \cup {info},
                ENTRIES_VCD_SECTOR)
    <2>1. /\ info.sector + info.length = ENTRIES_VCD_SECTOR
          /\ info.sector \in Nat /\ info.length \in Nat
          /\ info.sector >= INFO_VCD_SECTOR
      BY <1>2, LayoutAssumption
    <2> QED
      BY <1>1, <1>11, <2>1
  <1>13. PICK D : D = Blank \cup Buffers
    OBVIOUS
  <1>14. Behind(D, LOT_VCD_SECTOR)
    <2>1. /\ entries.sector + entries.length = LOT_VCD_SECTOR
          /\ entries.sector \in Nat /\ entries.length \in Nat
          /\ entries.sector >= ENTRIES_VCD_SECTOR
      BY <1>2, LayoutAssumption
    <2>2. Behind({silence} \cup {pvd} \cup {evd} \cup {dir} \cup {karaoke} \cup {info}
                   \cup {entries}, LOT_VCD_SECTOR)
      BY <1>1, <1>12, <2>1
    <2>3. D = {silence} \cup {pvd} \cup {evd} \cup {dir} \cup {karaoke} \cup {info}
                   \cup {entries}
      BY <1>4, <1>13
    <2> QED
      BY <2>2, <2>3
  <1>15. Behind(D \cup {lot}, PSD_VCD_SECTOR)
    <2>1. /\ lot.sector + lot.length = PSD_VCD_SECTOR
          /\ lot.sector \in Nat /\ lot.length \in Nat
          /\ lot.sector >= LOT_VCD_SECTOR
      BY <1>2, LayoutAssumption
    <2> QED
      BY <1>1, <1>14, <2>1
  <1>16. Behind(D \cup {lot} \cup {psd}, psd.sector + psd.length)
    <2>1. psd.sector \in Nat /\ psd.length \in Nat /\ psd.sector >= PSD_VCD_SECTOR
      BY <1>2, <1>3, LayoutAssumption
    <2> QED
      BY <1>1, <1>15, <2>1
  <1>17. Disjoint(D \cup {lot} \cup {psd})
    BY <1>16 DEF Behind
  <1>18. Blank \cup Buffers \cup PbcBuffers \subseteq D \cup {lot} \cup {psd}
    BY <1>5, <1>13
  <1> QED
    BY <1>17, <1>18 DEF Disjoint

\* And so do the directory and its path tables.
LEMMA DirEntriesApart ==
    ASSUME NEW d \in Nat \ {0}
    PROVE  Disjoint(DirEntries(d))
  <1> DEFINE dir == Entry("dir", DIR_SECTOR, d)
             ptl == Entry("ptl", DIR_SECTOR + d, 1)
             ptm == Entry("ptm", DIR_SECTOR + d + 1, 1)
  <1>1. /\ dir.sector = DIR_SECTOR /\ dir.length = d
        /\ ptl.sector = DIR_SECTOR + d /\ ptl.length = 1
        /\ ptm.sector = DIR_SECTOR + d + 1 /\ ptm.length = 1
    BY DEF Entry
  <1>2. DirEntries(d) = {dir} \cup {ptl} \cup {ptm}
    BY DEF DirEntries
  <1>3. DIR_SECTOR \in Nat
    BY LayoutAssumption
  <1> HIDE DEF dir, ptl, ptm
  <1>4. /\ Disjoint({dir})
        /\ \A e \in {dir} :
              e.sector \in Nat /\ e.length \in Nat /\ e.sector + e.length <= DIR_SECTOR + d
    BY <1>1, <1>3 DEF Disjoint
  <1>5. PICK t : t = DIR_SECTOR + d
    OBVIOUS
  <1>6. /\ t \in Nat /\ t + 1 \in Nat /\ ptl.sector = t /\ ptl.length = 1
        /\ ptm.sector = t + 1 /\ ptm.length = 1
    BY <1>1, <1>3, <1>5
  <1>7. ptl.sector + ptl.length = t + 1 /\ t >= t /\ t + 1 >= t + 1
    BY <1>6
  <1>8. /\ Disjoint({dir} \cup {ptl})
        /\ \A e \in {dir} \cup {ptl} :
              e.sector \in Nat /\ e.length \in Nat /\ e.sector + e.length <= t + 1
    BY <1>4, <1>5, <1>6, <1>7, OneMoreApart
  <1>9. Disjoint({dir} \cup {ptl} \cup {ptm})
    BY <1>6, <1>7, <1>8, OneMoreApart
  <1> QED
    BY <1>2, <1>9

-----------------------------------------------------------------------------
(* The steps of begin_output: each goes where the items before it end, and *)
(* no assertion fails.                                                     *)

LEMMA QueriedKept ==
    ASSUME QueriedRight, UNCHANGED <<queried, relative_end_extent, iso_size, prm>>
    PROVE  QueriedRight'
  BY DEF QueriedRight, Remembered

LEMMA ReserveFixedAdjoin ==
    ASSUME ShapeInv, AdjoinInv, ReserveFixed
    PROVE  AdjoinInv' /\ ~aborted'
  <1>1. /\ iso_bitmap' = AllSectorsOf(Blank \cup Buffers \cup PbcBuffers)
        /\ pc' = "svcd" /\ ~aborted'
        /\ UNCHANGED <<objVars, queried, extents>>
    BY FixedAreasApart DEF ReserveFixed, Running, Goto
  <1>2. PICK e : e = FixedEnd
    OBVIOUS
  <1>3. End' = e
    BY <1>1, <1>2, FixedAreas, NewRun
  <1>4. /\ UNCHANGED <<type, prm, sequences, segments, files, pbc_list, relative_end_extent>>
        /\ UNCHANGED <<mpeg_segment_start_extent, ext_file_start_extent>>
        /\ UNCHANGED <<custom_file_start_extent, iso_size>>
    BY <1>1 DEF objVars, extents
  <1>5. FixedEnd' = e
    BY <1>2, <1>4, SameAreas
  <1>6. EndReached'
    BY <1>1, <1>3, <1>5 DEF EndReached
  <1>7. QueriedRight'
    BY <1>1, <1>4, QueriedKept DEF AdjoinInv
  <1>8. NoMoreKnown
    BY <1>1, KnownBefore DEF BeforeSegments
  <1> QED
    BY <1>1, <1>4, <1>6, <1>7, <1>8, AdjoinKept

LEMMA ReserveSearchAdjoin ==
    ASSUME ShapeInv, AdjoinInv, ReserveSearch
    PROVE  AdjoinInv' /\ ~aborted'
  <1> DEFINE size == SearchBlocks(Len(sequences))
             tracks == Entry("tracks", FirstFit(iso_bitmap, 1), 1)
             used == iso_bitmap \cup SectorsOf(tracks)
             search == Entry("search", FirstFit(used, size), size)
  <1>1. pc = "svcd" /\ ~aborted
    BY DEF ReserveSearch, Running
  <1>2. PICK e : e = End
    OBVIOUS
  <1>3. e \in Nat \ {0} /\ iso_bitmap = 0 .. e - 1 /\ e = FixedEnd
    BY <1>1, <1>2 DEF ShapeInv, Packed, Started, Growing, AdjoinInv, EndReached
  <1>4. size \in Nat \ {0}
    BY AreaSizes
  <1>5. FirstFit(iso_bitmap, 1) = e
    BY <1>3, FirstFitOfRun
  <1>6. used = 0 .. (e + 1) - 1
    <2>1. SectorsOf(Entry("tracks", e, 1)) = Extent(e, 1)
      BY <1>3, EntryIsBuffer DEF BufferKeys
    <2>2. (0 .. e - 1) \cup Extent(e, 1) = 0 .. e + 1 - 1
      BY <1>3, RunGrows
    <2> QED
      BY <1>3, <1>5, <2>1, <2>2
  <1>7. e + 1 \in Nat \ {0}
    BY <1>3
  <1>8. FirstFit(used, size) = e + 1
    BY <1>4, <1>6, <1>7, FirstFitOfRun
  <1>9. e > INFO_VCD_SECTOR /\ e + 1 > INFO_VCD_SECTOR
    BY <1>3, InformationEnds, LayoutAssumption
  <1>10. tracks.sector > INFO_VCD_SECTOR /\ search.sector > INFO_VCD_SECTOR
    BY <1>5, <1>8, <1>9 DEF Entry
  <1>11. /\ pc' = "fill" /\ ~aborted'
         /\ UNCHANGED <<objVars, queried, extents>>
         /\ ~Has4C_SVCD => UNCHANGED <<iso_bitmap>>
         /\ Has4C_SVCD => iso_bitmap' = used \cup SectorsOf(search)
    <2> HIDE DEF size
    <2> QED
      BY <1>1, <1>10 DEF ReserveSearch, Goto, size
  <1>12. /\ UNCHANGED <<type, prm, sequences, segments, files, pbc_list, relative_end_extent>>
         /\ UNCHANGED <<mpeg_segment_start_extent, ext_file_start_extent>>
         /\ UNCHANGED <<custom_file_start_extent, iso_size>>
    BY <1>11 DEF objVars, extents
  <1>13. End' = InfoEnd
    <2>1. CASE ~Has4C_SVCD
      BY <1>2, <1>3, <1>11, <2>1 DEF InfoEnd, End
    <2>2. CASE Has4C_SVCD
      <3>1. SectorsOf(Entry("search", e + 1, size)) = Extent(e + 1, size)
        BY <1>4, <1>7, EntryIsBuffer DEF BufferKeys
      <3>2. iso_bitmap' = (0 .. (e + 1) - 1) \cup Extent(e + 1, size)
        BY <1>6, <1>8, <1>11, <2>2, <3>1
      <3>3. iso_bitmap' = 0 .. (e + 1) + size - 1
        BY <1>4, <1>7, <3>2, RunGrows
      <3>4. PICK f : f = (e + 1) + size
        OBVIOUS
      <3>5. f \in Nat \ {0} /\ iso_bitmap' = 0 .. f - 1
        BY <1>4, <1>7, <3>3, <3>4
      <3>6. End' = f
        BY <3>5, NewRun
      <3> QED
        BY <1>3, <2>2, <3>4, <3>6 DEF InfoEnd
    <2> QED
      BY <2>1, <2>2
  <1>14. EndReached'
    <2>1. InfoEnd' = InfoEnd
      BY <1>12, SameAreas
    <2> QED
      BY <1>11, <1>13, <2>1 DEF EndReached
  <1>15. QueriedRight'
    BY <1>11, <1>12, QueriedKept DEF AdjoinInv
  <1>16. NoMoreKnown
    BY <1>11, KnownBefore DEF BeforeSegments
  <1> QED
    BY <1>11, <1>12, <1>14, <1>15, <1>16, AdjoinKept

LEMMA FillToAlignmentAdjoin ==
    ASSUME ShapeInv, AdjoinInv, FillToAlignment
    PROVE  AdjoinInv' /\ ~aborted'
  <1>1. pc = "fill" /\ ~aborted
    BY DEF FillToAlignment, Running
  <1>2. PICK e, start : e = End /\ start = FirstSegment
    OBVIOUS
  <1>3. e \in Nat \ {0} /\ iso_bitmap = 0 .. e - 1 /\ e = InfoEnd
    BY <1>1, <1>2 DEF ShapeInv, Packed, Started, Growing, AdjoinInv, EndReached
  <1>4. start = Len2Blocks(End, ALIGNMENT) * ALIGNMENT
    BY <1>2, <1>3 DEF FirstSegment, Ceil2Block
  <1>5. start \in Nat \ {0} /\ start >= e /\ start % ALIGNMENT = 0
    BY <1>2, <1>3, InformationEnds
  <1>6. iso_bitmap \cup (0 .. start - 1) = 0 .. start - 1
    BY <1>3, <1>5
  <1>7. Highest(0 .. start - 1) + 1 = start
    BY <1>5, HighestOfRun
  <1>8. /\ mpeg_segment_start_extent' = start /\ iso_bitmap' = 0 .. start - 1
        /\ pc' = "segments" /\ i' = 1 /\ ~aborted'
        /\ UNCHANGED <<objVars, queried>>
        /\ UNCHANGED <<ext_file_start_extent, custom_file_start_extent, iso_size>>
    BY <1>1, <1>4, <1>6, <1>7 DEF FillToAlignment, Goto
  <1>9. UNCHANGED <<type, prm, sequences, segments, files, pbc_list, relative_end_extent>>
    BY <1>8 DEF objVars
  <1>10. End' = start
    BY <1>5, <1>8, NewRun
  <1>11. SegmentFrom(1)' = start
    BY <1>8 DEF SegmentFrom
  <1>12. EndReached'
    <2>1. SegmentFrom(i)' = start
      BY <1>8, <1>11 DEF SegmentFrom
    <2>2. 1 <= Len(segments') + 1
      BY <1>9, ListLengths DEF ShapeInv
    <2> QED
      BY <1>5, <1>8, <1>10, <2>1, <2>2 DEF EndReached
  <1>13. QueriedRight'
    BY <1>8, <1>9, QueriedKept DEF AdjoinInv
  <1>14. CASE Remembered
    <2>1. mpeg_segment_start_extent' = mpeg_segment_start_extent
      BY <1>2, <1>8, <1>14 DEF AdjoinInv, StartFixed, StartKnown
    <2>2. NoMoreKnown
      BY <1>14, KnownBefore DEF Remembered
    <2> QED
      BY <1>8, <1>9, <1>12, <1>13, <2>1, <2>2, AdjoinKept
  <1>15. CASE ~Remembered
    <2>1. /\ ~Remembered' /\ ~ExtKnown' /\ ~CustomKnown' /\ ~IsoSizeKnown'
          /\ \A k : ~FileKnown(k)'
          /\ \A k : SegmentKnown(k)' => k < 1
      BY <1>8, <1>15 DEF Remembered, ExtKnown, CustomKnown, IsoSizeKnown, FileKnown,
         SegmentKnown, BeforeSize, BeforeFiles, BeforeExt
    <2>2. \A k \in DOMAIN segments' : ~(k < 1)
      BY <1>9, ListLengths DEF ShapeInv
    <2>3. StartFixed'
      <3>1. FirstSegment' = start
        BY <1>2, <1>9, SameAreas
      <3> QED
        BY <1>8, <3>1 DEF StartFixed
    <2>4. SegmentsAdjoin'
      BY <2>1, <2>2 DEF SegmentsAdjoin
    <2>5. ExtFixed' /\ CustomFixed' /\ SizeFixed'
      BY <2>1 DEF ExtFixed, CustomFixed, SizeFixed
    <2>6. FilesAdjoin'
      BY <2>1 DEF FilesAdjoin
    <2> QED
      BY <1>8, <1>12, <1>13, <2>3, <2>4, <2>5, <2>6 DEF AdjoinInv
  <1> QED
    BY <1>8, <1>14, <1>15

\* Where segments begin depends on the ones before them.
LEMMA PlaceSegmentAdjoin ==
    ASSUME ShapeInv, AdjoinInv, PlaceSegment
    PROVE  AdjoinInv' /\ ~aborted'
  <1>1. pc = "segments" /\ ~aborted /\ i <= Len(segments)
    BY DEF PlaceSegment, Running
  <1>2. PICK e, h, size : e = End /\ h = i /\ size = SegmentSize(i)
    OBVIOUS
  <1>3. /\ e \in Nat \ {0} /\ iso_bitmap = 0 .. e - 1 /\ e = SegmentFrom(h)
        /\ e % ALIGNMENT = 0
    BY <1>1, <1>2 DEF ShapeInv, Packed, Started, Growing, AdjoinInv, EndReached
  <1>4. h \in 1 .. Len(segments) /\ Len(segments) \in Nat
    BY <1>1, <1>2, ListLengths DEF ShapeInv, Counting, LayoutTypeOK, Started, Growing
  <1>5. size \in Nat \ {0} /\ size = segments[h].segment_count * SEGMENT_SECTOR_SIZE
    BY <1>2, <1>4, ItemTypes DEF ShapeInv, SegmentSize
  <1>6. FirstFit(iso_bitmap, size) = e
    BY <1>3, <1>5, FirstFitOfRun
  <1>7. PICK f : f = e + size
    OBVIOUS
  <1>8. f \in Nat \ {0} /\ iso_bitmap \cup Extent(e, size) = 0 .. f - 1
    <2>1. (0 .. e - 1) \cup Extent(e, size) = 0 .. e + size - 1
      BY <1>3, <1>5, RunGrows
    <2>2. f \in Nat \ {0} /\ e + size - 1 = f - 1
      BY <1>3, <1>5, <1>7
    <2>3. iso_bitmap = 0 .. e - 1
      BY <1>3
    <2> QED
      BY <2>1, <2>2, <2>3
  <1>9. Highest(0 .. f - 1) + 1 = f
    <2>1. Highest(0 .. f - 1) = f - 1
      BY <1>8, HighestOfRun
    <2> QED
      BY <1>8, <2>1
  <1>10. /\ segments' = [segments EXCEPT ![h].start_extent = e]
         /\ iso_bitmap' = 0 .. f - 1 /\ i' = h + 1 /\ pc' = "segments" /\ ~aborted'
         /\ UNCHANGED <<type, prm, sequences, files, pbc_list, relative_end_extent>>
         /\ UNCHANGED <<queried, extents>>
    BY <1>1, <1>2, <1>3, <1>5, <1>6, <1>7, <1>8, <1>9 DEF PlaceSegment
  <1>11. /\ UNCHANGED <<mpeg_segment_start_extent, ext_file_start_extent>>
         /\ UNCHANGED <<custom_file_start_extent, iso_size>>
    BY <1>10 DEF extents
  <1>12. /\ Len(segments') = Len(segments) /\ DOMAIN segments' = 1 .. Len(segments)
         /\ \A j \in 1 .. Len(segments) :
              /\ SegmentSize(j)' = SegmentSize(j)
              /\ segments'[j].start_extent = IF j = h THEN e ELSE segments[j].start_extent
    BY <1>3, <1>4, <1>10, SegmentGetsPlace DEF ShapeInv, SegmentSize
  <1>13. End' = f
    BY <1>8, <1>10, NewRun
  <1>14. \A k \in 1 .. h : SegmentFrom(k)' = SegmentFrom(k)
    <2>1. ASSUME NEW k \in 1 .. h PROVE SegmentFrom(k)' = SegmentFrom(k)
      <3>1. CASE k = 1
        BY <1>11, <3>1 DEF SegmentFrom
      <3>2. CASE k # 1
        <4>1. k - 1 \in 1 .. Len(segments) /\ k - 1 # h
          BY <1>4, <3>2
        <4>2. SegmentEnd(k - 1)' = SegmentEnd(k - 1)
          BY <1>12, <4>1 DEF SegmentEnd
        <4> QED
          BY <3>2, <4>2 DEF SegmentFrom
      <3> QED
        BY <3>1, <3>2
    <2> QED
      BY <2>1
  <1>15. SegmentFrom(h + 1)' = f
    <2>1. h + 1 # 1 /\ (h + 1) - 1 = h
      BY <1>4
    <2>2. SegmentEnd(h)' = segments'[h].start_extent + SegmentSize(h)'
      BY DEF SegmentEnd
    <2>3. SegmentEnd(h)' = e + size
      BY <1>2, <1>4, <1>12, <2>2
    <2> QED
      BY <1>7, <2>1, <2>3 DEF SegmentFrom
  <1>16. f % ALIGNMENT = 0
    <2>1. PICK c : c = segments[h].segment_count
      OBVIOUS
    <2>2. c \in Nat \ {0}
      BY <1>4, <2>1, ItemTypes DEF ShapeInv
    <2>3. SEGMENT_SECTOR_SIZE \in Nat \ {0} /\ ALIGNMENT \in Nat \ {0}
          /\ SEGMENT_SECTOR_SIZE % ALIGNMENT = 0
      BY LayoutAssumption, ObjAssumption
    <2>4. size = SEGMENT_SECTOR_SIZE * c
      BY <1>5, <2>1, <2>2, <2>3
    <2>5. size % SEGMENT_SECTOR_SIZE = 0
      BY <1>5, <2>2, <2>3, <2>4, MultipleIff
    <2>6. size % ALIGNMENT = 0
      BY <1>5, <2>3, <2>5, MultiplesNest
    <2> QED
      BY <1>3, <1>5, <1>7, <2>3, <2>6, MultiplesAdd
  <1>17. EndReached'
    <2>1. SegmentFrom(i)' = f
      BY <1>10, <1>15 DEF SegmentFrom
    <2>2. h + 1 <= Len(segments') + 1
      BY <1>4, <1>12
    <2> QED
      BY <1>10, <1>13, <1>16, <2>1, <2>2 DEF EndReached
  <1>18. QueriedRight'
    BY <1>10, <1>11, QueriedKept DEF AdjoinInv
  <1>19. CASE Remembered
    <2>1. segments[h].start_extent = e
      BY <1>3, <1>4, <1>19, ListLengths DEF AdjoinInv, SegmentsAdjoin, SegmentKnown, ShapeInv
    <2>2. segments' = segments
      <3>1. segments[h] \in SegmentType(AllIds) /\ segments \in Seq(SegmentType(AllIds))
        BY <1>4, ItemTypes DEF ShapeInv, ObjTypeOK
      <3>2. [segments[h] EXCEPT !.start_extent = e] = segments[h]
        BY <2>1, <3>1 DEF SegmentType
      <3> QED
        BY <1>10, <3>1, <3>2
    <2>3. NoMoreKnown
      BY <1>19, KnownBefore DEF Remembered
    <2> QED
      BY <1>10, <1>11, <1>17, <1>18, <2>2, <2>3, AdjoinKept
  <1>20. CASE ~Remembered
    <2>1. /\ ~ExtKnown' /\ ~CustomKnown' /\ ~IsoSizeKnown'
          /\ \A k : ~FileKnown(k)'
          /\ \A k : SegmentKnown(k)' => k < h + 1
      BY <1>10, <1>20 DEF Remembered, ExtKnown, CustomKnown, IsoSizeKnown, FileKnown,
         SegmentKnown, BeforeSize, BeforeFiles, BeforeExt
    <2>2. StartFixed'
      <3>1. FirstSegment' = FirstSegment
        BY <1>10, SameAreas
      <3>2. StartKnown
        BY <1>1 DEF StartKnown, Started, Growing, BeforeSegments
      <3> QED
        BY <1>11, <3>1, <3>2 DEF AdjoinInv, StartFixed
    <2>3. SegmentsAdjoin'
      <3>1. ASSUME NEW k \in DOMAIN segments', SegmentKnown(k)'
            PROVE  segments'[k].start_extent = SegmentFrom(k)'
        <4>1. k \in 1 .. Len(segments) /\ k \in 1 .. h
          BY <1>4, <1>12, <2>1, <3>1
        <4>2. SegmentFrom(k)' = SegmentFrom(k)
          BY <1>14, <4>1
        <4>3. CASE k = h
          BY <1>3, <1>12, <4>1, <4>2, <4>3
        <4>4. CASE k # h
          <5>1. k < h
            BY <1>4, <4>1, <4>4
          <5>2. SegmentKnown(k)
            BY <1>1, <1>2, <5>1 DEF SegmentKnown, Started, Growing, BeforeSegments
          <5>3. segments[k].start_extent = SegmentFrom(k)
            BY <4>1, <5>2, ListLengths DEF AdjoinInv, SegmentsAdjoin, ShapeInv
          <5> QED
            BY <1>12, <4>1, <4>2, <4>4, <5>3
        <4> QED
          BY <4>3, <4>4
      <3> QED
        BY <3>1 DEF SegmentsAdjoin
    <2>4. ExtFixed' /\ CustomFixed' /\ SizeFixed'
      BY <2>1 DEF ExtFixed, CustomFixed, SizeFixed
    <2>5. FilesAdjoin'
      BY <2>1 DEF FilesAdjoin
    <2> QED
      BY <1>10, <1>17, <1>18, <2>2, <2>3, <2>4, <2>5 DEF AdjoinInv
  <1> QED
    BY <1>10, <1>19, <1>20

LEMMA EndSegmentsAdjoin ==
    ASSUME ShapeInv, AdjoinInv, EndSegments
    PROVE  AdjoinInv' /\ ~aborted'
  <1>1. pc = "segments" /\ ~aborted /\ i > Len(segments)
    BY DEF EndSegments, Running
  <1>2. /\ End = SegmentFrom(i) /\ End % ALIGNMENT = 0 /\ i <= Len(segments) + 1
    BY <1>1 DEF AdjoinInv, EndReached
  <1>3. i = Len(segments) + 1
    BY <1>1, <1>2, ListLengths, ExtentTypes DEF ShapeInv
  <1>4. PICK e, last : e = End /\ last = Len(segments) + 1
    OBVIOUS
  <1>5. e = SegmentFrom(last) /\ e \in Nat
    BY <1>1, <1>2, <1>3, <1>4 DEF ShapeInv, Packed, Started, Growing
  <1>6. /\ ext_file_start_extent' = e /\ pc' = "ext" /\ i' = 1 /\ ~aborted'
        /\ UNCHANGED <<objVars, queried, iso_bitmap>>
        /\ UNCHANGED <<mpeg_segment_start_extent, custom_file_start_extent, iso_size>>
    BY <1>1, <1>2, <1>4 DEF EndSegments, Goto
  <1>7. UNCHANGED <<type, prm, sequences, segments, files, pbc_list, relative_end_extent>>
    BY <1>6 DEF objVars
  <1>8. /\ \A k : SegmentFrom(k)' = SegmentFrom(k)
        /\ UNCHANGED <<ExtFiles, FirstSegment>>
    BY <1>6, <1>7, SamePlaces, SameAreas
  <1>9. EndReached'
    <2>1. End' = e
      BY <1>4, <1>6 DEF End
    <2>2. ExtSize(1) = 0 /\ 1 <= Len(ExtFiles) + 1
      BY ExtSizes
    <2>3. ExtSize(1)' = 0
      BY DEF ExtSize
    <2>4. ExtSize(i)' = 0
      BY <1>6 DEF ExtSize
    <2> QED
      BY <1>5, <1>6, <1>8, <2>1, <2>2, <2>4 DEF EndReached
  <1>10. QueriedRight'
    BY <1>6, <1>7, QueriedKept DEF AdjoinInv
  <1>11. CASE Remembered
    <2>1. ext_file_start_extent' = ext_file_start_extent
      BY <1>4, <1>5, <1>6, <1>11 DEF AdjoinInv, ExtFixed, ExtKnown
    <2>2. NoMoreKnown
      BY <1>11, KnownBefore DEF Remembered
    <2> QED
      BY <1>6, <1>7, <1>9, <1>10, <2>1, <2>2, AdjoinKept
  <1>12. CASE ~Remembered
    <2>1. /\ ~CustomKnown' /\ ~IsoSizeKnown' /\ \A k : ~FileKnown(k)'
      BY <1>6, <1>12 DEF Remembered, CustomKnown, IsoSizeKnown, FileKnown, BeforeSize,
         BeforeFiles
    <2>2. StartKnown /\ \A k \in DOMAIN segments : SegmentKnown(k)
      <3>1. \A k \in DOMAIN segments : k < i
        BY <1>3, ListLengths DEF ShapeInv
      <3> QED
        BY <1>1, <3>1 DEF StartKnown, SegmentKnown, Started, Growing, BeforeSegments
    <2>3. StartFixed'
      BY <1>6, <1>8, <2>2 DEF AdjoinInv, StartFixed
    <2>4. SegmentsAdjoin'
      BY <1>7, <1>8, <2>2 DEF AdjoinInv, SegmentsAdjoin
    <2>5. ExtFixed'
      <3>1. SegmentFrom(last)' = e
        BY <1>5, <1>8
      <3>2. Len(segments') + 1 = last
        BY <1>4, <1>7
      <3> QED
        BY <1>6, <3>1, <3>2 DEF ExtFixed, SegmentFrom
    <2>6. CustomFixed' /\ SizeFixed' /\ FilesAdjoin'
      BY <2>1 DEF CustomFixed, SizeFixed, FilesAdjoin
    <2> QED
      BY <1>6, <1>9, <1>10, <2>3, <2>4, <2>5, <2>6 DEF AdjoinInv
  <1> QED
    BY <1>6, <1>11, <1>12

LEMMA PlaceExtAdjoin ==
    ASSUME ShapeInv, AdjoinInv, PlaceExt
    PROVE  AdjoinInv' /\ ~aborted'
  <1>1. /\ pc = "ext" /\ pc' = "ext" /\ ~aborted' /\ i <= Len(ExtFiles) /\ i' = i + 1
        /\ UNCHANGED <<objVars, queried, extents>>
    BY DEF PlaceExt, Running
  <1>2. PICK h, size, e : h = i /\ size = ExtFiles[i].length /\ e = End
    OBVIOUS
  <1>3. h \in 1 .. Len(ExtFiles) /\ Len(ExtFiles) \in Nat
    BY <1>1, <1>2, ExtFilesType DEF ShapeInv, Counting, LayoutTypeOK, Started, Growing
  <1>4. size \in Nat \ {0} /\ e \in Nat \ {0} /\ End' = e + size
    BY <1>2, PlaceExtPlaces
  <1>5. /\ UNCHANGED <<type, prm, sequences, segments, files, pbc_list, relative_end_extent>>
        /\ UNCHANGED <<mpeg_segment_start_extent, ext_file_start_extent>>
        /\ UNCHANGED <<custom_file_start_extent, iso_size>>
    BY <1>1 DEF objVars, extents
  <1>6. e = ext_file_start_extent + ExtSize(h)
    BY <1>1, <1>2 DEF AdjoinInv, EndReached
  <1>7. ExtSize(h + 1) = ExtSize(h) + size /\ ExtSize(h) \in Nat
    BY <1>2, <1>3, ExtSizes
  <1>8. e + size = ext_file_start_extent + ExtSize(h + 1)
    <2>1. PICK x, s, t : x = ext_file_start_extent /\ s = ExtSize(h) /\ t = ExtSize(h + 1)
      OBVIOUS
    <2>2. x \in Nat /\ s \in Nat /\ t = s + size /\ e = x + s
      BY <1>6, <1>7, <2>1, ExtentTypes
    <2>3. e + size = x + t
      BY <1>4, <2>2
    <2> QED
      BY <2>1, <2>3
  <1>9. ExtSize(i)' = ExtSize(h + 1) /\ Len(ExtFiles)' = Len(ExtFiles)
    <2>1. UNCHANGED <<ExtFiles>>
      BY <1>5, SameAreas
    <2> QED
      BY <1>1, <1>2, <2>1 DEF ExtSize
  <1>10. EndReached'
    <2>1. i' <= Len(ExtFiles)' + 1
      BY <1>1, <1>2, <1>3, <1>9
    <2> QED
      BY <1>1, <1>4, <1>5, <1>8, <1>9, <2>1 DEF EndReached
  <1>11. QueriedRight'
    BY <1>1, <1>5, QueriedKept DEF AdjoinInv
  <1>12. NoMoreKnown
    <2>1. /\ pc \in Started \ BeforeSegments /\ pc \in Started \ BeforeExt
          /\ pc' \in BeforeFiles /\ pc' \in BeforeSize /\ pc # "segments"
      BY <1>1 DEF Started, Growing, BeforeSegments, BeforeExt, BeforeFiles, BeforeSize
    <2> QED
      BY <1>1, <2>1 DEF NoMoreKnown, StartKnown, ExtKnown, CustomKnown, IsoSizeKnown,
         SegmentKnown, FileKnown, Remembered
  <1> QED
    BY <1>1, <1>5, <1>10, <1>11, <1>12, AdjoinKept

LEMMA EndExtAdjoin ==
    ASSUME ShapeInv, AdjoinInv, EndExt
    PROVE  AdjoinInv' /\ ~aborted'
  <1>1. /\ pc = "ext" /\ ~aborted' /\ i > Len(ExtFiles)
        /\ custom_file_start_extent' = End /\ pc' = "files" /\ i' = 1
        /\ UNCHANGED <<objVars, queried, iso_bitmap>>
        /\ UNCHANGED <<mpeg_segment_start_extent, ext_file_start_extent, iso_size>>
    BY DEF EndExt, Running, Goto
  <1>2. UNCHANGED <<type, prm, sequences, segments, files, pbc_list, relative_end_extent>>
    BY <1>1 DEF objVars
  <1>3. PICK e, last : e = End /\ last = Len(ExtFiles) + 1
    OBVIOUS
  <1>4. i <= Len(ExtFiles) + 1 /\ e = ext_file_start_extent + ExtSize(i)
    BY <1>1, <1>3 DEF AdjoinInv, EndReached
  <1>5. i = last
    BY <1>1, <1>3, <1>4, ExtSizes, ExtentTypes
  <1>6. e = ext_file_start_extent + ExtSize(last)
    BY <1>4, <1>5
  <1>7. \A k : ExtSize(k)' = ExtSize(k)
    BY <1>2, SameAreas
  <1>8. UNCHANGED <<ExtFiles, FirstSegment>>
    BY <1>2, SameAreas
  <1>9. EndReached'
    <2>1. End' = e
      BY <1>1, <1>3 DEF End
    <2>2. custom_file_start_extent' = e
      BY <1>1, <1>3
    <2>3. FilesUpTo(1, e)'
      BY <2>2 DEF FilesUpTo
    <2>4. FilesUpTo(i, End)'
      BY <1>1, <2>1, <2>3 DEF FilesUpTo
    <2>5. 1 <= Len(files') + 1
      BY <1>2, ListLengths DEF ShapeInv
    <2> QED
      BY <1>1, <2>4, <2>5 DEF EndReached
  <1>10. QueriedRight'
    BY <1>1, <1>2, QueriedKept DEF AdjoinInv
  <1>11. CASE Remembered
    <2>1. custom_file_start_extent' = custom_file_start_extent
      BY <1>1, <1>3, <1>6, <1>11 DEF AdjoinInv, CustomFixed, CustomKnown
    <2>2. NoMoreKnown
      BY <1>11, KnownBefore DEF Remembered
    <2> QED
      BY <1>1, <1>2, <1>9, <1>10, <2>1, <2>2, AdjoinKept
  <1>12. CASE ~Remembered
    <2>1. ~IsoSizeKnown' /\ \A k : FileKnown(k)' => k < 1
      BY <1>1, <1>12 DEF Remembered, IsoSizeKnown, FileKnown, BeforeSize
    <2>2. StartKnown /\ ExtKnown /\ \A k : SegmentKnown(k)
      BY <1>1 DEF StartKnown, ExtKnown, SegmentKnown, Started, Growing, BeforeSegments,
         BeforeExt
    <2>3. \A k : SegmentFrom(k)' = SegmentFrom(k)
      BY <1>1, <1>2 DEF SegmentFrom, SegmentEnd, SegmentSize
    <2>4. StartFixed'
      BY <1>1, <1>8, <2>2 DEF AdjoinInv, StartFixed
    <2>5. SegmentsAdjoin'
      BY <1>2, <2>2, <2>3 DEF AdjoinInv, SegmentsAdjoin
    <2>6. ExtFixed'
      <3>1. ext_file_start_extent = SegmentFrom(Len(segments) + 1)
        BY <2>2 DEF AdjoinInv, ExtFixed
      <3> QED
        BY <1>1, <1>2, <3>1 DEF ExtFixed, SegmentFrom, SegmentEnd, SegmentSize
    <2>7. CustomFixed'
      <3>1. ExtSize(last)' = ExtSize(last)
        BY <1>7
      <3>2. Len(ExtFiles)' + 1 = last
        BY <1>3, <1>8
      <3> QED
        BY <1>1, <1>3, <1>6, <3>1, <3>2 DEF CustomFixed, ExtSize
    <2>8. FilesAdjoin'
      <3>1. \A k \in DOMAIN files' : ~(k < 1)
        BY <1>2, ListLengths DEF ShapeInv
      <3> QED
        BY <2>1, <3>1 DEF FilesAdjoin
    <2>9. SizeFixed'
      BY <2>1 DEF SizeFixed
    <2> QED
      BY <1>1, <1>9, <1>10, <2>4, <2>5, <2>6, <2>7, <2>8, <2>9 DEF AdjoinInv
  <1> QED
    BY <1>1, <1>11, <1>12

LEMMA PlaceFileAdjoin ==
    ASSUME ShapeInv, AdjoinInv, PlaceFile
    PROVE  AdjoinInv' /\ ~aborted'
  <1>1. /\ pc = "files" /\ pc' = "files" /\ ~aborted' /\ i <= Len(files) /\ i' = i + 1
        /\ UNCHANGED <<type, prm, sequences, segments, pbc_list, relative_end_extent>>
        /\ UNCHANGED <<queried, extents>>
    BY DEF PlaceFile, Running
  <1>2. PICK h, size, e : h = i /\ size = files[i].sectors /\ e = End
    OBVIOUS
  <1>3. PICK start : start = IF size = 0 THEN custom_file_start_extent ELSE e
    OBVIOUS
  <1>4. /\ h \in 1 .. Len(files) /\ size \in Nat /\ e \in Nat \ {0}
        /\ files' = [files EXCEPT ![h].start_extent = start]
        /\ End' = e + size
    BY <1>2, <1>3, PlaceFilePlaces
  <1>5. UNCHANGED <<mpeg_segment_start_extent, ext_file_start_extent>>
        /\ UNCHANGED <<custom_file_start_extent, iso_size>>
    BY <1>1 DEF extents
  <1>6. FilesUpTo(h, e) /\ Len(files) \in Nat /\ DOMAIN files = 1 .. Len(files)
    BY <1>1, <1>2, ListLengths DEF AdjoinInv, EndReached, ShapeInv
  <1>7. start \in Nat
    BY <1>3, <1>4, ExtentTypes
  <1>8. /\ Len(files') = Len(files) /\ DOMAIN files' = 1 .. Len(files)
        /\ \A j \in 1 .. Len(files) :
              /\ files'[j].sectors = files[j].sectors
              /\ files'[j].start_extent = IF j = h THEN start ELSE files[j].start_extent
    BY <1>4, <1>7, FileGetsPlace DEF ShapeInv
  <1>9. \A j \in 1 .. h - 1 : FileEnd(j)' = FileEnd(j) /\ files'[j].sectors = files[j].sectors
    <2>1. \A j \in 1 .. h - 1 : j \in 1 .. Len(files) /\ j # h
      BY <1>4, <1>6
    <2> QED
      BY <1>8, <2>1 DEF FileEnd
  <1>10. ASSUME NEW k \in 1 .. h, NEW x, FilesUpTo(k, x) PROVE FilesUpTo(k, x)'
    <2>1. \A j \in 1 .. k - 1 : j \in 1 .. h - 1
      BY <1>4
    <2>2. CASE \A j \in 1 .. k - 1 : files[j].sectors = 0
      <3>1. x = custom_file_start_extent
        BY <1>10, <2>2 DEF FilesUpTo
      <3>2. \A j \in 1 .. k - 1 : files'[j].sectors = 0
        BY <1>9, <2>1, <2>2
      <3> QED
        BY <1>5, <3>1, <3>2 DEF FilesUpTo
    <2>3. CASE ~\A j \in 1 .. k - 1 : files[j].sectors = 0
      <3>1. PICK j \in 1 .. k - 1 :
               /\ files[j].sectors # 0
               /\ \A g \in j + 1 .. k - 1 : files[g].sectors = 0
               /\ x = FileEnd(j)
        BY <1>10, <2>3 DEF FilesUpTo
      <3>2. \A g \in j + 1 .. k - 1 : g \in 1 .. k - 1
        OBVIOUS
      <3>3. \A g \in j + 1 .. k - 1 : files'[g].sectors = 0
        BY <1>9, <2>1, <3>1, <3>2
      <3>4. files'[j].sectors # 0 /\ x = FileEnd(j)'
        BY <1>9, <2>1, <3>1
      <3> QED
        BY <3>3, <3>4 DEF FilesUpTo
    <2> QED
      BY <2>2, <2>3
  <1>11. FilesUpTo(h + 1, e + size)'
    <2>1. (h + 1) - 1 = h /\ 1 .. h = (1 .. h - 1) \cup {h}
      BY <1>4
    <2>2. files'[h].sectors = size
      BY <1>2, <1>4, <1>8
    <2>3. CASE size # 0
      <3>1. FileEnd(h)' = e + size
        BY <1>3, <1>4, <1>8, <2>2, <2>3 DEF FileEnd
      <3>2. \A g \in h + 1 .. h : files'[g].sectors = 0
        BY <1>4
      <3>3. h \in 1 .. h
        BY <1>4
      <3> QED
        BY <2>1, <2>2, <2>3, <3>1, <3>2, <3>3 DEF FilesUpTo
    <2>4. CASE size = 0
      <3>1. e + size = e /\ h \in 1 .. h
        BY <1>4, <2>4
      <3>2. FilesUpTo(h, e)'
        BY <1>6, <1>10, <3>1
      <3>3. CASE \A j \in 1 .. h - 1 : files'[j].sectors = 0
        <4>1. \A j \in 1 .. h : files'[j].sectors = 0
          BY <2>1, <2>2, <2>4, <3>3
        <4>2. e = custom_file_start_extent'
          BY <3>2, <3>3 DEF FilesUpTo
        <4> QED
          BY <2>1, <3>1, <4>1, <4>2 DEF FilesUpTo
      <3>4. CASE ~\A j \in 1 .. h - 1 : files'[j].sectors = 0
        <4>1. PICK j \in 1 .. h - 1 :
                 /\ files'[j].sectors # 0
                 /\ \A g \in j + 1 .. h - 1 : files'[g].sectors = 0
                 /\ e = FileEnd(j)'
          BY <3>2, <3>4 DEF FilesUpTo
        <4>2. \A g \in j + 1 .. h : g \in j + 1 .. h - 1 \/ g = h
          BY <1>4
        <4>3. \A g \in j + 1 .. h : files'[g].sectors = 0
          BY <2>2, <2>4, <4>1, <4>2
        <4>4. j \in 1 .. h
          BY <1>4
        <4> QED
          BY <2>1, <3>1, <4>1, <4>3, <4>4 DEF FilesUpTo
      <3> QED
        BY <3>3, <3>4
    <2> QED
      BY <2>3, <2>4
  <1>12. EndReached'
    <2>1. i' = h + 1 /\ h + 1 <= Len(files') + 1
      BY <1>1, <1>2, <1>4, <1>8
    <2>2. FilesUpTo(i, End)'
      BY <1>4, <1>11, <2>1 DEF FilesUpTo
    <2> QED
      BY <1>1, <2>1, <2>2 DEF EndReached
  <1>13. QueriedRight'
    BY <1>1, <1>5, QueriedKept DEF AdjoinInv
  <1>14. CASE Remembered
    <2>1. files[h].start_extent = start
      <3>1. IF files[h].sectors = 0 THEN files[h].start_extent = custom_file_start_extent
            ELSE FilesUpTo(h, files[h].start_extent)
        BY <1>4, <1>6, <1>14 DEF AdjoinInv, FilesAdjoin, FileKnown
      <3> QED
        BY <1>2, <1>3, <1>4, <1>6, <3>1, FilesUpToUnique
    <2>2. files' = files
      <3>1. files[h] \in FileType /\ files \in Seq(FileType)
        BY <1>4, ItemTypes DEF ShapeInv, ObjTypeOK
      <3>2. [files[h] EXCEPT !.start_extent = start] = files[h]
        BY <2>1, <3>1 DEF FileType
      <3> QED
        BY <1>4, <3>1, <3>2
    <2>3. NoMoreKnown
      BY <1>14, KnownBefore DEF Remembered
    <2> QED
      BY <1>1, <1>5, <1>12, <1>13, <2>2, <2>3, AdjoinKept
  <1>15. CASE ~Remembered
    <2>1. /\ ~IsoSizeKnown' /\ \A k : FileKnown(k)' => k < h + 1
      BY <1>1, <1>2, <1>15 DEF Remembered, IsoSizeKnown, FileKnown, BeforeSize
    <2>2. StartKnown /\ ExtKnown /\ CustomKnown /\ \A k : SegmentKnown(k)
      BY <1>1 DEF StartKnown, ExtKnown, CustomKnown, SegmentKnown, Started, Growing,
         BeforeSegments, BeforeExt, BeforeFiles
    <2>3. StartFixed'
      <3>1. FirstSegment' = FirstSegment
        BY <1>1, SameAreas
      <3> QED
        BY <1>5, <2>2, <3>1 DEF AdjoinInv, StartFixed
    <2>4. \A k : SegmentFrom(k)' = SegmentFrom(k)
      BY <1>1, <1>5 DEF SegmentFrom, SegmentEnd, SegmentSize
    <2>5. SegmentsAdjoin'
      BY <1>1, <2>2, <2>4 DEF AdjoinInv, SegmentsAdjoin
    <2>6. ExtFixed'
      <3>1. ext_file_start_extent = SegmentFrom(Len(segments) + 1)
        BY <2>2 DEF AdjoinInv, ExtFixed
      <3> QED
        BY <1>1, <1>5, <3>1 DEF ExtFixed, SegmentFrom, SegmentEnd, SegmentSize
    <2>7. CustomFixed'
      <3>1. UNCHANGED <<ExtFiles>>
        BY <1>1, SameAreas
      <3> QED
        BY <1>5, <2>2, <3>1 DEF AdjoinInv, CustomFixed, ExtSize
    <2>8. FilesAdjoin'
      <3>1. ASSUME NEW k \in DOMAIN files', FileKnown(k)'
            PROVE  IF files'[k].sectors = 0
                   THEN files'[k].start_extent = custom_file_start_extent'
                   ELSE \E x : x = files'[k].start_extent /\ FilesUpTo(k, x)'
        <4>1. k \in 1 .. Len(files) /\ k \in 1 .. h
          BY <1>4, <1>8, <2>1, <3>1
        <4>2. CASE k = h
          <5>1. CASE size = 0
            BY <1>2, <1>3, <1>5, <1>8, <4>1, <4>2, <5>1
          <5>2. CASE size # 0
            <6>1. files'[k].start_extent = e /\ files'[k].sectors # 0
              BY <1>2, <1>3, <1>8, <4>1, <4>2, <5>2
            <6>2. FilesUpTo(k, e)'
              BY <1>6, <1>10, <4>1, <4>2
            <6> QED
              BY <6>1, <6>2
          <5> QED
            BY <5>1, <5>2
        <4>3. CASE k # h
          <5>1. FileKnown(k)
            <6>1. k < h
              BY <1>4, <4>1, <4>3
            <6> QED
              BY <1>1, <1>2, <6>1 DEF FileKnown, Started, Growing, BeforeFiles, BeforeExt,
                 BeforeSegments
          <5>2. /\ files'[k].sectors = files[k].sectors
                /\ files'[k].start_extent = files[k].start_extent
            BY <1>8, <4>1, <4>3
          <5>3. PICK x : x = files[k].start_extent
            OBVIOUS
          <5>4. IF files[k].sectors = 0 THEN x = custom_file_start_extent ELSE FilesUpTo(k, x)
            BY <1>6, <4>1, <5>1, <5>3 DEF AdjoinInv, FilesAdjoin
          <5>5. FilesUpTo(k, x) => FilesUpTo(k, x)'
            BY <1>10, <4>1
          <5> QED
            BY <1>5, <5>2, <5>3, <5>4, <5>5
        <4> QED
          BY <4>2, <4>3
      <3>2. ASSUME NEW k \in DOMAIN files', NEW x, x = files'[k].start_extent, FilesUpTo(k, x)'
            PROVE  FilesUpTo(k, files[k].start_extent)'
        BY <3>2 DEF FilesUpTo
      <3> QED
        BY <3>1, <3>2 DEF FilesAdjoin
    <2>9. SizeFixed'
      BY <2>1 DEF SizeFixed
    <2> QED
      BY <1>1, <1>12, <1>13, <2>3, <2>5, <2>6, <2>7, <2>8, <2>9 DEF AdjoinInv
  <1> QED
    BY <1>1, <1>14, <1>15

LEMMA EndFilesAdjoin ==
    ASSUME ShapeInv, AdjoinInv, EndFiles
    PROVE  AdjoinInv' /\ ~aborted'
  <1>1. /\ pc = "files" /\ ~aborted' /\ i > Len(files)
        /\ iso_size' = AtLeastMin(End) /\ pc' = "filesystem"
        /\ UNCHANGED <<objVars, queried>>
        /\ UNCHANGED <<mpeg_segment_start_extent, ext_file_start_extent>>
        /\ UNCHANGED <<custom_file_start_extent>>
    BY DEF EndFiles, Running, Goto, AtLeastMin
  <1>2. UNCHANGED <<type, prm, sequences, segments, files, pbc_list, relative_end_extent>>
    BY <1>1 DEF objVars
  <1>3. PICK e, last : e = End /\ last = Len(files) + 1
    OBVIOUS
  <1>4. e \in Nat \ {0} /\ i \in Nat /\ Len(files) \in Nat
    BY <1>1, <1>3, ListLengths, ExtentTypes DEF ShapeInv, Packed, Started, Growing
  <1>5. i = last /\ FilesUpTo(last, e)
    <2>1. i <= Len(files) + 1 /\ FilesUpTo(i, End)
      BY <1>1 DEF AdjoinInv, EndReached
    <2>2. i = last
      BY <1>1, <1>3, <1>4, <2>1
    <2> QED
      BY <1>3, <2>1, <2>2
  <1>6. /\ \A k, x : FilesUpTo(k, x)' <=> FilesUpTo(k, x)
        /\ \A k : SegmentFrom(k)' = SegmentFrom(k)
    BY <1>1, <1>2, SamePlaces
  <1>7. /\ UNCHANGED <<FirstSegment, ExtFiles>> /\ \A k : ExtSize(k)' = ExtSize(k)
    BY <1>2, SameAreas
  <1>8. EndReached'
    BY <1>1 DEF EndReached
  <1>9. e <= AtLeastMin(e) /\ AtLeastMin(e) \in Nat
    BY <1>4, LayoutAssumption DEF AtLeastMin
  <1>10. SizeFixed'
    <2>1. iso_size' = AtLeastMin(e) /\ e \in 0 .. iso_size'
      BY <1>1, <1>3, <1>4, <1>9 DEF AtLeastMin
    <2>2. Len(files') + 1 = last /\ FilesUpTo(last, e)'
      BY <1>2, <1>3, <1>5, <1>6
    <2>3. FilesUpTo(Len(files) + 1, e)'
      BY <2>2 DEF FilesUpTo
    <2> QED
      BY <2>1, <2>3 DEF SizeFixed, AtLeastMin
  <1>11. CASE Remembered
    <2>1. iso_size' = iso_size
      <3>1. PICK x \in 0 .. iso_size :
               FilesUpTo(Len(files) + 1, x) /\ iso_size = AtLeastMin(x)
        BY <1>11 DEF AdjoinInv, SizeFixed, IsoSizeKnown
      <3>2. last \in Nat \ {0}
        BY <1>3, <1>4
      <3>3. x = e
        BY <1>3, <1>5, <3>1, <3>2, FilesUpToUnique
      <3> QED
        BY <1>1, <1>3, <3>1, <3>3
    <2>2. QueriedRight'
      BY <1>1, <1>2, <2>1, QueriedKept DEF AdjoinInv
    <2>3. NoMoreKnown
      BY <1>11, KnownBefore DEF Remembered
    <2> QED
      BY <1>1, <1>2, <1>8, <2>1, <2>2, <2>3, AdjoinKept
  <1>12. CASE ~Remembered
    <2>1. QueriedRight'
      BY <1>1, <1>12 DEF QueriedRight, Remembered
    <2>2. StartKnown /\ ExtKnown /\ CustomKnown /\ \A k : SegmentKnown(k)
      BY <1>1 DEF StartKnown, ExtKnown, CustomKnown, SegmentKnown, Started, Growing,
         BeforeSegments, BeforeExt, BeforeFiles
    <2>3. \A k \in DOMAIN files : FileKnown(k)
      <3>1. \A k \in DOMAIN files : k < i
        BY <1>3, <1>4, <1>5, ListLengths DEF ShapeInv
      <3> QED
        BY <1>1, <3>1 DEF FileKnown, Started, Growing, BeforeSegments, BeforeExt,
           BeforeFiles
    <2>4. StartFixed'
      BY <1>1, <1>7, <2>2 DEF AdjoinInv, StartFixed
    <2>5. SegmentsAdjoin'
      BY <1>2, <1>6, <2>2 DEF AdjoinInv, SegmentsAdjoin
    <2>6. ExtFixed'
      <3>1. ext_file_start_extent = SegmentFrom(Len(segments) + 1)
        BY <2>2 DEF AdjoinInv, ExtFixed
      <3> QED
        BY <1>1, <1>2, <3>1 DEF ExtFixed, SegmentFrom, SegmentEnd, SegmentSize
    <2>7. CustomFixed'
      BY <1>1, <1>7, <2>2 DEF AdjoinInv, CustomFixed, ExtSize
    <2>8. FilesAdjoin'
      <3>1. \A k \in DOMAIN files :
               IF files[k].sectors = 0 THEN files[k].start_extent = custom_file_start_extent
               ELSE FilesUpTo(k, files[k].start_extent)
        BY <2>3 DEF AdjoinInv, FilesAdjoin
      <3> QED
        BY <1>1, <1>2, <3>1 DEF FilesAdjoin, FilesUpTo, FileEnd
    <2> QED
      BY <1>1, <1>8, <1>10, <2>1, <2>4, <2>5, <2>6, <2>7, <2>8 DEF AdjoinInv
  <1> QED
    BY <1>1, <1>11, <1>12

\* The directory fits in the area reserved for it, or begin_output says that it does not.
LEMMA MakeFilesystemAdjoin ==
    ASSUME ShapeInv, PlaceInv, AdjoinInv, NEW d \in DirBlocks, MakeFilesystem(d)
    PROVE  AdjoinInv' /\ (aborted' => TooManyItems /\ UNCHANGED objVars)
  <1>1. pc = "filesystem" /\ ~aborted
    BY DEF MakeFilesystem, Running
  <1>2. d \in Nat \ {0}
    BY LayoutAssumption
  <1>3. ~TooBig(d) => Extent(DIR_SECTOR, d + 2) \subseteq iso_bitmap
    <2>1. SUFFICES ASSUME ~TooBig(d) PROVE Extent(DIR_SECTOR, d + 2) \subseteq iso_bitmap
      OBVIOUS
    <2>2. PICK e : e = End
      OBVIOUS
    <2>3. e \in Nat \ {0} /\ iso_bitmap = 0 .. e - 1 /\ INFO_VCD_SECTOR <= e
      <3>1. e \in Nat \ {0} /\ iso_bitmap = 0 .. e - 1
        BY <1>1, <2>2 DEF ShapeInv, Packed, Started, Growing
      <3>2. PICK a, b, c : a = SegmentsFrom /\ b = ExtFrom /\ c = FilesFrom
        OBVIOUS
      <3>3. INFO_VCD_SECTOR <= a /\ a <= b /\ b <= c /\ c <= e
        BY <1>1, <2>2, <3>2 DEF PlaceInv, Borders, Started, Growing
      <3>4. a \in Nat /\ b \in Nat /\ c \in Nat /\ INFO_VCD_SECTOR \in Nat
        BY <1>1, <3>2, ExtentTypes, LayoutAssumption
           DEF SegmentsFrom, ExtFrom, FilesFrom, BeforeSegments, BeforeExt, BeforeFiles
      <3> QED
        BY <3>1, <3>3, <3>4
    <2>4. /\ DIR_SECTOR \in Nat /\ KARAOKE_SECTOR \in Nat /\ INFO_VCD_SECTOR \in Nat
          /\ KARAOKE_SECTOR <= INFO_VCD_SECTOR
      BY LayoutAssumption
    <2>5. DIR_SECTOR + d + 2 < INFO_VCD_SECTOR
      BY <1>2, <2>1, <2>4 DEF TooBig
    <2>6. ASSUME NEW s \in Extent(DIR_SECTOR, d + 2) PROVE s \in 0 .. e - 1
      BY <1>2, <2>3, <2>4, <2>5 DEF Extent
    <2> QED
      BY <2>3, <2>6
  <1>4. Disjoint(DirEntries(d))
    BY <1>2, DirEntriesApart
  <1>5. /\ UNCHANGED <<objVars, queried, extents>> /\ pc' \in {"filesystem", "exited", "entries"}
        /\ aborted' => TooManyItems
    BY <1>1, <1>3, <1>4 DEF MakeFilesystem, Fails, Goto, layoutVars
  <1>6. /\ UNCHANGED <<type, prm, sequences, segments, files, pbc_list, relative_end_extent>>
        /\ UNCHANGED <<mpeg_segment_start_extent, ext_file_start_extent>>
        /\ UNCHANGED <<custom_file_start_extent, iso_size>>
    BY <1>5 DEF objVars, extents
  <1>7. EndReached'
    BY <1>5 DEF EndReached
  <1>8. QueriedRight'
    BY <1>5, <1>6, QueriedKept DEF AdjoinInv
  <1>9. NoMoreKnown
    BY <1>1, KnownBefore DEF Started, Growing, BeforeSize, BeforeFiles, BeforeExt,
       BeforeSegments
  <1> QED
    BY <1>5, <1>6, <1>7, <1>8, <1>9, AdjoinKept

\* A step that places nothing and moves nothing.
LEMMA AdjoinElsewhere ==
    ASSUME AdjoinInv, UNCHANGED <<type, prm, pbc_list, segments, files>>,
           UNCHANGED <<relative_end_extent, queried>>,
           Len(sequences') = Len(sequences),
           UNCHANGED <<mpeg_segment_start_extent, ext_file_start_extent>>,
           UNCHANGED <<custom_file_start_extent, iso_size>>,
           pc' \notin Growing,
           pc \in Started \ BeforeSize \/ pc' \notin Started
    PROVE  AdjoinInv'
  <1>1. EndReached'
    BY DEF EndReached, Growing
  <1>2. QueriedRight'
    BY QueriedKept DEF AdjoinInv
  <1>3. NoMoreKnown
    BY KnownBefore
  <1> QED
    BY <1>1, <1>2, <1>3, AdjoinKept

\* What a client can see of the disc that its calls are going to make an assertion fail
\* of: too many items, or streams that a disc of this type cannot do with.
Cause ==
    \/ Len(sequences) > MAX_TRACKS
    \/ \E k \in DOMAIN segments : SegmentsBefore(k) >= MAX_SEGMENTS
    \/ SegmentsBefore(Len(segments) + 1) > MAX_SEGMENTS
    \/ \E k \in DOMAIN EntrySlots : EntrySlots[k].additional /\ k > MAX_ENTRIES
    \/ \E k \in DOMAIN sequences :
          sequences[k].source.aps = <<>> /\ (sequences[k].entries # <<>> \/ Has4C_SVCD)
    \/ Has4C_SVCD /\ \E k \in DOMAIN sequences : ~sequences[k].source.plays

\* It is there as long as the items are.
LEMMA CauseKept ==
    ASSUME UNCHANGED objVars
    PROVE  Cause' <=> Cause
  <1>1. UNCHANGED <<type, sequences, segments>>
    BY DEF objVars
  <1>2. EntrySlots' = EntrySlots
    BY <1>1 DEF EntrySlots
  <1>3. ASSUME NEW k PROVE SegmentsBefore(k)' = SegmentsBefore(k)
    BY <1>1 DEF SegmentsBefore, FoldLeft, MapThenFoldSet
  <1>4. Has4C_SVCD' = Has4C_SVCD
    BY <1>1 DEF Has4C_SVCD
  <1>5. SegmentsBefore(Len(segments) + 1)' = SegmentsBefore(Len(segments) + 1)
    BY <1>1 DEF SegmentsBefore, FoldLeft, MapThenFoldSet
  <1> QED
    BY <1>1, <1>2, <1>3, <1>4, <1>5 DEF Cause

LEMMA UpdateEntryAdjoin ==
    ASSUME ShapeInv, AdjoinInv, UpdateEntry
    PROVE  AdjoinInv' /\ (aborted' => Cause /\ UNCHANGED objVars)
  <1>1. /\ pc = "entries" /\ ~aborted /\ i <= Len(sequences)
        /\ n < Len(sequences[i].entries)
    BY DEF UpdateEntry, Running
  <1>2. pc \in Started \ BeforeSize /\ pc \notin Growing
    BY <1>1 DEF Started, Growing, BeforeSize, BeforeFiles, BeforeExt, BeforeSegments
  <1>3. CASE Fails
    <2>1. i \in DOMAIN sequences /\ sequences[i].entries # <<>>
      <3>1. i \in DOMAIN sequences
        BY <1>1, <1>2, ListLengths, ExtentTypes DEF ShapeInv, Counting
      <3>2. sequences[i].entries \in Seq(EntryType(AllIds))
        BY <3>1, SequenceTypes DEF ShapeInv
      <3> QED
        BY <1>1, <3>1, <3>2, ExtentTypes
    <2>2. sequences[i].source.aps = <<>>
      BY <1>1, <1>3 DEF UpdateEntry, Fails
    <2>3. Cause
      BY <2>1, <2>2 DEF Cause
    <2>4. UNCHANGED <<objVars, pc, queried, extents>>
      BY <1>3 DEF Fails, layoutVars
    <2>5. AdjoinInv'
      BY <1>2, <2>4, AdjoinElsewhere DEF objVars, extents
    <2> QED
      BY <2>3, <2>4, <2>5
  <1>4. CASE ~Fails
    <2>1. /\ UNCHANGED <<type, prm, segments, files, pbc_list, relative_end_extent>>
          /\ UNCHANGED <<aborted, pc, queried, extents>>
          /\ Len(sequences') = Len(sequences)
      BY <1>4, UpdateEntryPlaces
    <2>2. AdjoinInv'
      BY <1>2, <2>1, AdjoinElsewhere DEF extents
    <2> QED
      BY <1>1, <2>1, <2>2
  <1> QED
    BY <1>3, <1>4

LEMMA NextSequenceAdjoin ==
    ASSUME ShapeInv, AdjoinInv, NextSequence
    PROVE  AdjoinInv' /\ ~aborted'
  <1>1. /\ pc = "entries" /\ ~aborted'
        /\ UNCHANGED <<objVars, pc, queried, extents>>
    BY DEF NextSequence, Running
  <1>2. pc \in Started \ BeforeSize /\ pc' \notin Growing
    BY <1>1 DEF Started, Growing, BeforeSize, BeforeFiles, BeforeExt, BeforeSegments
  <1> QED
    BY <1>1, <1>2, AdjoinElsewhere DEF objVars, extents

\* get_image_size remembers what it said; whatever is laid out again adds up to the same.
LEMMA ReturnSizeAdjoin ==
    ASSUME ShapeInv, AdjoinInv, ReturnSize
    PROVE  AdjoinInv' /\ ~aborted'
  <1>1. /\ pc = "entries" /\ ~aborted'
        /\ UNCHANGED objVars
        /\ UNCHANGED <<mpeg_segment_start_extent, ext_file_start_extent>>
        /\ UNCHANGED <<custom_file_start_extent, iso_size>>
        /\ pc' \in {"exited", "idle", "output"}
        /\ \/ queried' = queried
           \/ queried' = relative_end_extent + iso_size + prm.leadout_pregap
    BY DEF ReturnSize, Running
  <1>2. UNCHANGED <<type, prm, sequences, segments, files, pbc_list, relative_end_extent>>
    BY <1>1 DEF objVars
  <1>3. EndReached'
    BY <1>1 DEF EndReached
  <1>4. QueriedRight'
    BY <1>1, <1>2 DEF AdjoinInv, QueriedRight, Remembered
  <1>5. NoMoreKnown
    BY <1>1, KnownBefore DEF Started, Growing, BeforeSize, BeforeFiles, BeforeExt,
       BeforeSegments
  <1> QED
    BY <1>1, <1>2, <1>3, <1>4, <1>5, AdjoinKept

\* A step of begin_output, whichever.
LEMMA LayoutAdjoin ==
    ASSUME ShapeInv, PlaceInv, AdjoinInv, Layout
    PROVE  AdjoinInv' /\ (aborted' => Cause /\ UNCHANGED objVars)
  <1>1. CASE \/ ReserveFixed \/ ReserveSearch \/ FillToAlignment
             \/ PlaceSegment \/ EndSegments \/ PlaceExt \/ EndExt
             \/ PlaceFile \/ EndFiles \/ NextSequence \/ ReturnSize
    BY <1>1, ReserveFixedAdjoin, ReserveSearchAdjoin, FillToAlignmentAdjoin,
       PlaceSegmentAdjoin, EndSegmentsAdjoin, PlaceExtAdjoin, EndExtAdjoin,
       PlaceFileAdjoin, EndFilesAdjoin, NextSequenceAdjoin, ReturnSizeAdjoin
  <1>2. CASE UpdateEntry
    BY <1>2, UpdateEntryAdjoin
  <1>3. ASSUME NEW d \in DirBlocks, MakeFilesystem(d)
        PROVE  AdjoinInv' /\ (aborted' => Cause /\ UNCHANGED objVars)
    <2>1. TooManyItems => Cause
      BY DEF TooManyItems, Cause
    <2> QED
      BY <1>3, <2>1, MakeFilesystemAdjoin
  <1> QED
    BY <1>1, <1>2, <1>3 DEF Layout, LayoutNext

LEMMA AdjoinInit == Init => AdjoinInv
  <1> SUFFICES ASSUME Init PROVE AdjoinInv
    OBVIOUS
  <1>1. pc = "idle" /\ queried = -1
    BY DEF Init, LayoutInit
  <1>2. /\ ~Remembered /\ ~StartKnown /\ ~ExtKnown /\ ~CustomKnown /\ ~IsoSizeKnown
        /\ \A k : ~SegmentKnown(k) /\ ~FileKnown(k)
    BY <1>1 DEF Remembered, StartKnown, ExtKnown, CustomKnown, IsoSizeKnown, SegmentKnown,
       FileKnown, Started, Growing, WritePhases
  <1>3. EndReached
    BY <1>1 DEF EndReached
  <1> QED
    BY <1>2, <1>3 DEF AdjoinInv, StartFixed, SegmentsAdjoin, ExtFixed, CustomFixed,
       FilesAdjoin, SizeFixed, QueriedRight

\* A client that goes on building has get_image_size forgotten; no other step but those of
\* begin_output changes what is known.
LEMMA AdjoinStep == ShapeInv /\ PlaceInv /\ AdjoinInv /\ [Next]_vars => AdjoinInv'
  <1> SUFFICES ASSUME ShapeInv, PlaceInv, AdjoinInv, [Next]_vars PROVE AdjoinInv'
    OBVIOUS
  <1>1. ASSUME UNCHANGED <<objVars, queried, extents>>, pc' \notin Growing,
               pc \in Started \ BeforeSize \/ pc' \notin Started
        PROVE  AdjoinInv'
    <2>1. /\ UNCHANGED <<type, prm, pbc_list, segments, files, sequences>>
          /\ UNCHANGED <<relative_end_extent, queried>>
          /\ UNCHANGED <<mpeg_segment_start_extent, ext_file_start_extent>>
          /\ UNCHANGED <<custom_file_start_extent, iso_size>>
      BY <1>1 DEF objVars, extents
    <2> QED
      BY <1>1, <2>1, AdjoinElsewhere
  <1>2. \A p \in {"output"} \cup WritePhases : p \in Started \ BeforeSize /\ p \notin Growing
    BY DEF Started, Growing, BeforeSize, BeforeFiles, BeforeExt, BeforeSegments, WritePhases
  <1>3. \A p \in {"idle", "reserve", "exited", "destroyed"} : p \notin Started /\ p \notin Growing
    BY DEF Started, Growing, WritePhases
  <1>4. CASE Build
    <2>1. pc' = "idle" /\ queried' = -1
      BY <1>4 DEF Build
    <2>2. /\ ~Remembered' /\ ~StartKnown' /\ ~ExtKnown' /\ ~CustomKnown' /\ ~IsoSizeKnown'
          /\ \A k : ~SegmentKnown(k)' /\ ~FileKnown(k)'
      BY <1>3, <2>1 DEF Remembered, StartKnown, ExtKnown, CustomKnown, IsoSizeKnown,
         SegmentKnown, FileKnown
    <2>3. EndReached'
      BY <2>1 DEF EndReached
    <2> QED
      BY <2>2, <2>3 DEF AdjoinInv, StartFixed, SegmentsAdjoin, ExtFixed, CustomFixed,
         FilesAdjoin, SizeFixed, QueriedRight
  <1>5. CASE \E for_query \in BOOLEAN : StartOutput(for_query)
    BY <1>1, <1>3, <1>5 DEF StartOutput, BeginOutput, Goto
  <1>6. CASE Layout
    BY <1>6, LayoutAdjoin
  <1>7. CASE \E answer \in BOOLEAN : WriteImage(answer)
    <2>1. PICK answer \in BOOLEAN : WriteImage(answer)
      BY <1>7
    <2>2. pc = "output" /\ pc' \in {"output", "contents"} /\ UNCHANGED <<objVars, queried, extents>>
      BY <2>1 DEF WriteImage, Running, Return, MoveTo, Goto, Fails, frozen, layoutVars
    <2>3. pc' \in {"output"} \cup WritePhases
      BY <2>2 DEF WritePhases
    <2> QED
      BY <1>1, <1>2, <2>2, <2>3
  <1>8. CASE WriterNext
    <2>1. /\ UNCHANGED frozen /\ pc \in WritePhases
          /\ pc' \in WritePhases \cup {"output", "exited"}
      BY <1>8, WriterMoves
    <2>2. UNCHANGED <<objVars, queried, extents>>
      BY <2>1 DEF frozen
    <2> QED
      BY <1>1, <1>2, <1>3, <2>1, <2>2
  <1>9. CASE EndOutput
    BY <1>1, <1>3, <1>9 DEF EndOutput
  <1>10. CASE Destroy
    BY <1>1, <1>3, <1>10 DEF Destroy
  <1>11. CASE UNCHANGED vars
    <2>1. UNCHANGED <<objVars, queried, extents, pc, i, iso_bitmap>>
      BY <1>11 DEF vars, layoutVars
    <2>2. /\ UNCHANGED <<type, prm, pbc_list, segments, files, sequences>>
          /\ UNCHANGED <<relative_end_extent, queried>>
          /\ UNCHANGED <<mpeg_segment_start_extent, ext_file_start_extent>>
          /\ UNCHANGED <<custom_file_start_extent, iso_size>>
      BY <2>1 DEF objVars, extents
    <2>3. NoMoreKnown
      BY <2>1 DEF NoMoreKnown, StartKnown, ExtKnown, CustomKnown, IsoSizeKnown, SegmentKnown,
         FileKnown, Remembered
    <2>4. QueriedRight'
      BY <2>2, QueriedKept DEF AdjoinInv
    <2>5. EndReached'
      <3>1. /\ UNCHANGED <<FixedEnd, InfoEnd, ExtFiles>> /\ \A k : ExtSize(k)' = ExtSize(k)
        BY <2>2, SameAreas
      <3>2. /\ \A k, x : FilesUpTo(k, x)' <=> FilesUpTo(k, x)
            /\ \A k : SegmentFrom(k)' = SegmentFrom(k)
        BY <2>2, SamePlaces
      <3>3. End' = End
        BY <2>1 DEF End
      <3>4. SegmentFrom(i)' = SegmentFrom(i) /\ ExtSize(i)' = ExtSize(i)
        BY <2>1, <2>2 DEF SegmentFrom, SegmentEnd, SegmentSize, ExtSize, ExtFiles,
           Has4C_SVCD, HasPBC_X, pbc_available, HasPBC
      <3>5. FilesUpTo(i, End)' <=> FilesUpTo(i, End)
        BY <2>1, <2>2, <3>3 DEF FilesUpTo, FileEnd
      <3> QED
        BY <2>1, <2>2, <3>1, <3>3, <3>4, <3>5 DEF AdjoinInv, EndReached
    <2> QED
      BY <2>2, <2>3, <2>4, <2>5, AdjoinKept
  <1> QED
    BY <1>4, <1>5, <1>6, <1>7, <1>8, <1>9, <1>10, <1>11 DEF Next

\* What begin_output returned is what the places say, while the image is written.
LEMMA SizeKnownStep == ShapeInv /\ SizeKnown /\ [Next]_vars => SizeKnown'
  <1> SUFFICES ASSUME ShapeInv, SizeKnown, [Next]_vars PROVE SizeKnown'
    OBVIOUS
  <1>1. ASSUME pc' \notin {"output"} \cup WritePhases PROVE SizeKnown'
    BY <1>1 DEF SizeKnown
  <1>2. ASSUME pc \in {"output"} \cup WritePhases, UNCHANGED <<objVars, extents>>
        PROVE  SizeKnown'
    BY <1>2 DEF SizeKnown, objVars, extents
  <1>3. {"idle", "reserve", "exited", "destroyed"} \cap ({"output"} \cup WritePhases) = {}
    BY DEF WritePhases
  <1>4. CASE Build
    BY <1>1, <1>3, <1>4 DEF Build
  <1>5. CASE \E for_query \in BOOLEAN : StartOutput(for_query)
    BY <1>1, <1>3, <1>5 DEF StartOutput, BeginOutput, Goto
  <1>6. CASE Layout
    <2>1. /\ pc' \in LayoutPhases \cup {"idle", "exited", "output"}
          /\ pc' = "output" =>
                image_size' = relative_end_extent' + iso_size' + prm'.leadout_pregap
      BY <1>6, LayoutAnswers
    <2>2. pc' \notin WritePhases
      BY <2>1 DEF LayoutPhases, WritePhases
    <2> QED
      BY <2>1, <2>2 DEF SizeKnown
  <1>7. CASE \E answer \in BOOLEAN : WriteImage(answer)
    <2>1. PICK answer \in BOOLEAN : WriteImage(answer)
      BY <1>7
    <2>2. pc = "output" /\ UNCHANGED <<objVars, extents>>
      BY <2>1 DEF WriteImage, Running, Return, MoveTo, Goto, Fails, frozen, layoutVars
    <2> QED
      BY <1>2, <2>2
  <1>8. CASE WriterNext
    <2>1. UNCHANGED frozen /\ pc \in WritePhases
      BY <1>8, WriterMoves
    <2> QED
      BY <1>2, <2>1 DEF frozen
  <1>9. CASE EndOutput \/ Destroy
    BY <1>1, <1>3, <1>9 DEF EndOutput, Destroy
  <1>10. CASE UNCHANGED vars
    <2>1. UNCHANGED <<objVars, extents, pc>>
      BY <1>10 DEF vars, layoutVars
    <2> QED
      BY <1>1, <1>2, <2>1
  <1> QED
    BY <1>4, <1>5, <1>6, <1>7, <1>8, <1>9, <1>10 DEF Next

\* However often a disc is laid out, and whatever a client asks in between, as long as it
\* does not go on building: begin_output finds the size that get_image_size told.  The
\* items are placed from the items alone, and an empty file, that keeps the dummy extent
\* of the last time, moves nothing.
THEOREM SizeStaysTrueCorrect == Spec => []SizeStaysTrue
  <1> DEFINE Inv == ShapeInv /\ PlaceInv /\ AdjoinInv /\ SizeKnown
  <1>1. Init => Inv
    <2>1. Init => SizeKnown
      BY DEF Init, LayoutInit, SizeKnown, WritePhases
    <2> QED
      BY <2>1, ShapeInit, PlaceInit, AdjoinInit
  <1>2. Inv /\ [Next]_vars => Inv'
    BY ShapeStep, PlaceStep, AdjoinStep, SizeKnownStep
  <1>3. Inv => SizeStaysTrue
    BY DEF SizeKnown, AdjoinInv, QueriedRight, Remembered, SizeStaysTrue
  <1> QED
    BY <1>1, <1>2, <1>3, PTL DEF Spec

-----------------------------------------------------------------------------
(* Why the process ends.                                                   *)

\* The first sector is written after write_image was called, and not before.
Unwritten ==
    pc \in LayoutPhases \/ (pc = "output" /\ result = -1) => sectors_written = 0 \/ aborted

LEMMA UnwrittenInit == Init => Unwritten
  BY DEF Init, LayoutInit, Unwritten, LayoutPhases

LEMMA UnwrittenStep == ShapeInv /\ Unwritten /\ [Next]_vars => Unwritten'
  <1> SUFFICES ASSUME ShapeInv, Unwritten, [Next]_vars PROVE Unwritten'
    OBVIOUS
  <1>1. ASSUME pc' \notin LayoutPhases, pc' # "output" \/ result' # -1 PROVE Unwritten'
    BY <1>1 DEF Unwritten
  <1>2. \A p \in {"idle", "output", "exited", "destroyed"} \cup WritePhases : p \notin LayoutPhases
    BY DEF LayoutPhases, WritePhases
  <1>3. CASE Build \/ EndOutput \/ Destroy
    <2>1. pc' \in {"idle", "destroyed"}
      BY <1>3 DEF Build, EndOutput, Destroy
    <2> QED
      BY <1>1, <1>2, <2>1
  <1>4. CASE \E for_query \in BOOLEAN : StartOutput(for_query)
    BY <1>4 DEF StartOutput, Unwritten
  <1>5. CASE Layout
    <2>1. pc \in LayoutPhases /\ UNCHANGED writerVars /\ ~aborted
      BY <1>5, LayoutAnswers DEF Layout, LayoutNext, ReserveFixed, ReserveSearch, FillToAlignment,
         PlaceSegment, EndSegments, PlaceExt, EndExt, PlaceFile, EndFiles, MakeFilesystem,
         UpdateEntry, NextSequence, ReturnSize, Running
    <2> QED
      BY <2>1 DEF Unwritten, writerVars
  <1>6. CASE \E answer \in BOOLEAN : WriteImage(answer)
    <2>1. PICK answer \in BOOLEAN : WriteImage(answer)
      BY <1>6
    <2>2. CASE sectors_written = 0
      <3>1. pc' = "contents" \/ (pc' = "output" /\ result' = 1)
        BY <2>1, <2>2 DEF WriteImage, Return, MoveTo, Goto
      <3>2. "contents" \notin LayoutPhases /\ "output" \notin LayoutPhases
        BY DEF LayoutPhases
      <3> QED
        BY <1>1, <3>1, <3>2
    <2>3. CASE sectors_written # 0
      <3>1. aborted'
        BY <2>1, <2>3 DEF WriteImage, Fails
      <3> QED
        BY <3>1 DEF Unwritten
    <2> QED
      BY <2>2, <2>3
  <1>7. CASE WriterNext
    <2>1. pc' \in WritePhases \cup {"output", "exited"}
      BY <1>7, WriterMoves
    <2>2. ASSUME pc' = "output" PROVE result' # -1
      <3>1. ~IsoSteps /\ ~WriteBlank
        <4>1. ~IsoSteps
          BY <2>2, IsoStays
        <4>2. ~WriteBlank
          BY <2>2 DEF WriteBlank, Running, Stay, Goto
        <4> QED
          BY <4>1, <4>2
      <3>2. TrackSteps
        BY <1>7, <3>1, WriterSteps
      <3>3. ASSUME NEW answer \in BOOLEAN, StartTrack(answer) \/ Finish(answer)
            PROVE  result' # -1
        <4>1. CASE StartTrack(answer)
          <5>1. answer /\ result' = 1
            BY <2>2, <4>1 DEF StartTrack, Return
          <5> QED
            BY <5>1
        <4>2. CASE Finish(answer)
          <5>1. result' \in {0, 1}
            BY <4>2 DEF Finish, Return
          <5> QED
            BY <5>1
        <4> QED
          BY <3>3, <4>1, <4>2
      <3>4. pc # "output"
        BY <1>7, WriterMoves DEF WritePhases
      <3>5. CASE \/ WritePregap \/ WriteFrontMargin \/ WriteRearMargin \/ WriteLeadout
        BY <2>2, <3>4, <3>5 DEF WritePregap, WriteFrontMargin, WriteRearMargin, WriteGap,
           WriteLeadout, Stay
      <3>6. CASE WritePacket
        BY <2>2, <3>4, <3>6 DEF WritePacket, Stay
      <3>7. CASE EndSequence \/ EndTracks
        BY <2>2, <3>7 DEF EndSequence, EndTracks, MoveTo, Goto
      <3> QED
        BY <3>2, <3>3, <3>5, <3>6, <3>7 DEF TrackSteps
    <2> QED
      BY <1>1, <1>2, <2>1, <2>2
  <1>8. CASE UNCHANGED vars
    BY <1>8 DEF vars, layoutVars, writerVars, Unwritten
  <1> QED
    BY <1>3, <1>4, <1>5, <1>6, <1>7, <1>8 DEF Next

\* While the image is written every place is known.
LEMMA PlacesWritten ==
    ASSUME ShapeInv, AdjoinInv, pc \in WritePhases
    PROVE  /\ \A k \in DOMAIN segments : segments[k].start_extent = SegmentFrom(k)
           /\ ext_file_start_extent = SegmentFrom(Len(segments) + 1)
           /\ \A k \in DOMAIN files :
                 files[k].sectors # 0 => FilesUpTo(k, files[k].start_extent)
  <1>1. /\ pc \in Started \ BeforeSegments /\ pc \in Started \ BeforeExt
        /\ pc \in Started \ BeforeFiles /\ pc # "segments" /\ pc # "files"
    BY DEF Started, BeforeFiles, BeforeExt, BeforeSegments, WritePhases
  <1>2. /\ \A k : SegmentKnown(k) /\ FileKnown(k)
        /\ ExtKnown
    BY <1>1 DEF SegmentKnown, FileKnown, ExtKnown
  <1> QED
    BY <1>2 DEF AdjoinInv, SegmentsAdjoin, ExtFixed, FilesAdjoin

\* A sector is written where the image has come to.
LEMMA SectorFails ==
    ASSUME NEW extent, NEW kind, NEW no, NEW at, NEW answer,
           WriteSector(extent, kind, no, at, answer), extent = sectors_written, ~aborted
    PROVE  ~aborted'
  BY DEF WriteSector

\* The image has come to each segment and file where it was placed: no sector is written
\* elsewhere.  The callback's answer does not count before it has cancelled.
LEMMA PlacedSectors ==
    ASSUME ShapeInv, PlaceInv, AdjoinInv, IsoProgress, ~cancelled, ~aborted,
           WriteHead \/ WriteSegment \/ WriteExt \/ WriteFile \/ WriteBlank
    PROVE  ~aborted'
  <1>1. /\ HeadWritten /\ SegmentsWritten /\ FilesWritten /\ BlanksWritten
        /\ sectors_written \in Nat /\ n \in Nat /\ i \in Nat
    BY ImageTypes DEF IsoProgress
  <1>2. CASE WriteHead
    BY <1>1, <1>2, SectorFails DEF WriteHead, Running, HeadWritten
  <1>3. CASE WriteSegment
    <2>1. /\ pc = "write_segments" /\ i \in DOMAIN segments
      <3>1. pc = "write_segments" /\ i <= Len(segments) /\ pc \in Started
        BY <1>3 DEF WriteSegment, Running, Started, WritePhases
      <3> QED
        BY <1>1, <3>1, ListLengths DEF ShapeInv, Counting
    <2>2. n = 0 => segments[i].start_extent = sectors_written
      BY <1>1, <2>1, PlacesWritten DEF SegmentsWritten, WritePhases
    <2>3. PICK answer \in BOOLEAN :
             WriteSector(IF n = 0 THEN segments[i].start_extent ELSE sectors_written,
                         "segment", i, n, answer)
      BY <1>3 DEF WriteSegment
    <2>4. (IF n = 0 THEN segments[i].start_extent ELSE sectors_written) = sectors_written
      BY <2>2
    <2> QED
      BY <2>3, <2>4, SectorFails
  <1>4. CASE WriteExt
    BY <1>4, SectorFails DEF WriteExt
  <1>5. CASE WriteFile
    <2>1. pc = "write_files" /\ i \in DOMAIN files /\ files[i].sectors # 0 /\ i \in Nat \ {0}
      <3>1. pc = "write_files" /\ i <= Len(files) /\ n < files[i].sectors /\ pc \in Started
        BY <1>5 DEF WriteFile, Running, Started, WritePhases
      <3>2. i \in DOMAIN files /\ i \in Nat \ {0}
        BY <1>1, <3>1, ListLengths DEF ShapeInv, Counting
      <3> QED
        BY <1>1, <3>1, <3>2
    <2>2. PICK start : start = files[i].start_extent
      OBVIOUS
    <2>3. start \in Nat
      BY <2>1, <2>2, ItemTypes, ListLengths DEF ShapeInv
    <2>4. start + n = sectors_written
      <3>1. CASE n > 0
        BY <1>1, <2>1, <2>2, <3>1 DEF FilesWritten
      <3>2. CASE ~(n > 0)
        <4>1. FilesUpTo(i, sectors_written)
          BY <1>1, <2>1, <3>2 DEF FilesWritten
        <4>2. FilesUpTo(i, start)
          BY <2>1, <2>2, PlacesWritten DEF WritePhases
        <4>3. start = sectors_written
          BY <2>1, <4>1, <4>2, FilesUpToUnique
        <4> QED
          BY <1>1, <2>3, <3>2, <4>3
      <3> QED
        BY <3>1, <3>2
    <2>5. PICK answer \in BOOLEAN : WriteSector(start + n, "file", i, n, answer)
      BY <1>5, <2>2 DEF WriteFile
    <2> QED
      BY <2>4, <2>5, SectorFails
  <1>6. CASE WriteBlank
    <2>1. FirstFit(iso_bitmap, 1) = End
      BY <1>6, BlankGrows
    <2>2. End = sectors_written
      BY <1>1, <1>6 DEF WriteBlank, Running, BlanksWritten
    <2>3. \/ UNCHANGED aborted
          \/ \E answer \in BOOLEAN : WriteSector(End, "blank", 0, 0, answer)
      BY <1>6, <2>1 DEF WriteBlank
    <2> QED
      BY <2>2, <2>3, SectorFails
  <1> QED
    BY <1>2, <1>3, <1>4, <1>5, <1>6

\* The assertions between two parts of the image.
LEMMA PlacedParts ==
    ASSUME ShapeInv, PlaceInv, AdjoinInv, IsoProgress, ~cancelled, ~aborted,
           EndWriteSegments \/ EndWriteExt
    PROVE  ~aborted'
  <1>1. /\ SegmentsWritten /\ ExtWritten
        /\ sectors_written \in Nat /\ n \in Nat /\ i \in Nat
    BY ImageTypes DEF IsoProgress
  <1>2. CASE EndWriteSegments
    <2>1. pc = "write_segments" /\ i > Len(segments)
      BY <1>2 DEF EndWriteSegments, Running
    <2>2. Len(segments) \in Nat /\ DOMAIN segments = 1 .. Len(segments)
      BY ListLengths DEF ShapeInv
    <2>3. i \notin DOMAIN segments
      BY <1>1, <2>1, <2>2
    <2>4. i <= Len(segments) + 1 /\ sectors_written = SegmentFrom(i)
      BY <1>1, <2>1, <2>3 DEF SegmentsWritten
    <2>5. i = Len(segments) + 1
      BY <1>1, <2>1, <2>2, <2>4
    <2>6. sectors_written = ext_file_start_extent
      BY <2>1, <2>4, <2>5, PlacesWritten DEF WritePhases
    <2> QED
      BY <1>2, <2>6 DEF EndWriteSegments
  <1>3. CASE EndWriteExt
    <2>1. pc = "write_ext" /\ sectors_written >= custom_file_start_extent
      BY <1>3 DEF EndWriteExt, Running
    <2>2. sectors_written <= custom_file_start_extent
      BY <1>1, <2>1 DEF ExtWritten
    <2>3. sectors_written = custom_file_start_extent
      BY <1>1, <2>1, <2>2, ImageTypes
    <2> QED
      BY <1>3, <2>3 DEF EndWriteExt
  <1> QED
    BY <1>2, <1>3

\* What the assertions of set_info_vcd, set_entries_vcd, set_search_dat and
\* set_scandata_dat are about.
LEMMA ContentsCause == ContentsAbort => Cause
  BY DEF ContentsAbort, Cause

\* write_image, as long as it is not cancelled.
LEMMA WriterAborts ==
    ASSUME ShapeInv, PlaceInv, AdjoinInv, IsoProgress, WriterNext, ~cancelled', aborted'
    PROVE  Cause
  <1>1. ~cancelled
    BY WriterKeeps
  <1>2. ~aborted
    BY DEF WriterNext, MakeContents, WriteHead, EndHead, WriteSegment, NextSegment,
       EndWriteSegments, WriteExt, EndWriteExt, WriteFile, NextFile, EndWriteFiles, WriteBlank,
       StartTrack, WritePregap, WriteFrontMargin, WritePacket, WriteRearMargin, WriteGap,
       EndSequence, EndTracks, WriteLeadout, Finish, Running
  <1>3. CASE MakeContents
    <2>1. ContentsAbort
      BY <1>2, <1>3 DEF MakeContents
    <2> QED
      BY <2>1, ContentsCause
  <1>4. CASE WriteHead \/ WriteSegment \/ WriteExt \/ WriteFile \/ WriteBlank
    BY <1>1, <1>2, <1>4, PlacedSectors
  <1>5. CASE EndWriteSegments \/ EndWriteExt
    BY <1>1, <1>2, <1>5, PlacedParts
  <1>6. CASE EndHead \/ NextSegment \/ NextFile \/ EndWriteFiles \/ EndSequence \/ EndTracks
    BY <1>2, <1>6 DEF EndHead, NextSegment, NextFile, EndWriteFiles, EndSequence, EndTracks
  <1>7. CASE WritePregap \/ WriteFrontMargin \/ WriteRearMargin \/ WriteLeadout
    BY <1>2, <1>7, SectorFails DEF WritePregap, WriteFrontMargin, WriteRearMargin, WriteGap,
       WriteLeadout
  <1>8. CASE WritePacket
    BY <1>2, <1>8, SectorFails DEF WritePacket
  <1>9. ASSUME NEW answer \in BOOLEAN, StartTrack(answer) \/ Finish(answer) PROVE ~aborted'
    BY <1>2, <1>9 DEF StartTrack, Finish
  <1> QED
    BY <1>3, <1>4, <1>5, <1>6, <1>7, <1>8, <1>9 DEF WriterNext

\* _vcd_pbc_lookup meets an item number beyond the limit.
LEMMA LookupCause == ASSUME NEW id, LookupAborts(id) PROVE Cause
  BY DEF LookupAborts, Cause

\* A call that fills the object.
LEMMA BuildAborts ==
    ASSUME BuildNext
    PROVE  ~aborted /\ (aborted' => Cause /\ UNCHANGED objVars)
  <1>1. ASSUME NEW ids, LookupFails(ids)
        PROVE  ~aborted /\ Cause /\ UNCHANGED objVars
    <2>1. Crashes(ids) /\ ~aborted /\ UNCHANGED objVars
      BY <1>1 DEF LookupFails, Building
    <2> QED
      BY <2>1, LookupCause DEF Crashes
  <1>2. ASSUME Building, UNCHANGED aborted PROVE ~aborted /\ ~aborted'
    BY <1>2 DEF Building
  <1>3. CASE \E a \in Arguments : SetParam(a[1], a[2])
    BY <1>2, <1>3 DEF SetParam
  <1>4. CASE \E s \in Sources, k \in Ids.sequence, d \in Ids.default : AppendSequence(s, k, d)
    BY <1>2, <1>4 DEF AppendSequence
  <1>5. CASE \E k \in DOMAIN sequences, t \in EntryTimes, j \in Ids.entry :
                \E q \in Ids.sequence \cup {NoId} : AddSequenceEntry(k, q, t, j)
    BY <1>2, <1>5 DEF AddSequenceEntry
  <1>6. CASE \E s \in Sources, k \in Ids.segment : AppendSegment(s, k)
    BY <1>2, <1>6 DEF AppendSegment
  <1>7. CASE \E size \in FileSectors : AddFile(size)
    BY <1>2, <1>7 DEF AddFile
  <1>8. CASE \E k \in Ids.node, p \in Ids.played : AppendPbcNode(k, p)
    BY <1>2, <1>8 DEF AppendPbcNode
  <1>9. CASE \/ \E k \in Ids.sequence, d \in Ids.default : LookupFails(<<k, d>>)
             \/ \E k \in Ids.entry \cup Ids.segment \cup Ids.played : LookupFails(<<k>>)
    BY <1>1, <1>9
  <1> QED
    BY <1>3, <1>4, <1>5, <1>6, <1>7, <1>8, <1>9 DEF BuildNext

\* The process ends for a cause, or in a write that is cancelled.
AbortsKnown == aborted => cancelled \/ Cause

LEMMA AbortsStep ==
    /\ ShapeInv /\ PlaceInv /\ AdjoinInv /\ IsoProgress /\ Unwritten /\ AbortsKnown
    /\ [Next]_vars
    => AbortsKnown'
  <1> SUFFICES ASSUME ShapeInv, PlaceInv, AdjoinInv, IsoProgress, Unwritten, AbortsKnown,
                      [Next]_vars
               PROVE  AbortsKnown'
    OBVIOUS
  <1>1. ASSUME ~aborted' PROVE AbortsKnown'
    BY <1>1 DEF AbortsKnown
  <1>2. ASSUME Cause, UNCHANGED objVars PROVE AbortsKnown'
    BY <1>2, CauseKept DEF AbortsKnown
  <1>3. CASE Build
    BY <1>1, <1>2, <1>3, BuildAborts DEF Build
  <1>4. CASE \E for_query \in BOOLEAN : StartOutput(for_query)
    BY <1>1, <1>4 DEF StartOutput, BeginOutput, Running
  <1>5. CASE Layout
    BY <1>1, <1>2, <1>5, LayoutAdjoin
  <1>6. CASE \E answer \in BOOLEAN : WriteImage(answer)
    <2>1. PICK answer \in BOOLEAN : WriteImage(answer)
      BY <1>6
    <2>2. pc = "output" /\ result = -1 /\ ~aborted
      BY <2>1 DEF WriteImage, Running
    <2>3. sectors_written = 0
      BY <2>2 DEF Unwritten
    <2>4. ~aborted'
      BY <2>1, <2>2, <2>3 DEF WriteImage
    <2> QED
      BY <1>1, <2>4
  <1>7. CASE WriterNext
    <2>1. UNCHANGED objVars
      BY <1>7, WriterMoves DEF frozen
    <2>2. ASSUME ~cancelled', aborted' PROVE Cause
      BY <1>7, <2>2, WriterAborts
    <2>3. ASSUME cancelled' PROVE AbortsKnown'
      BY <2>3 DEF AbortsKnown
    <2> QED
      BY <1>1, <1>2, <2>1, <2>2, <2>3
  <1>8. CASE EndOutput \/ Destroy
    BY <1>1, <1>8 DEF EndOutput, Destroy, Running
  <1>9. CASE UNCHANGED vars
    <2>1. UNCHANGED <<objVars, aborted, cancelled>>
      BY <1>9 DEF vars, writerVars
    <2> QED
      BY <1>2, <2>1 DEF AbortsKnown
  <1> QED
    BY <1>3, <1>4, <1>5, <1>6, <1>7, <1>8, <1>9 DEF Next

\* How far the ISO 9660 track has come does not depend on where the tracks are.
LEMMA IsoProgressStep ==
    ShapeInv /\ PlaceInv /\ Unwritten /\ IsoProgress /\ [Next]_vars => IsoProgress'
  <1> SUFFICES ASSUME ShapeInv, PlaceInv, Unwritten, IsoProgress, [Next]_vars
               PROVE  IsoProgress'
    OBVIOUS
  <1>1. ASSUME pc' \notin WritePhases PROVE IsoProgress'
    BY <1>1, Elsewhere DEF IsoProgress, WritePhases
  <1>2. {"idle", "reserve", "output", "destroyed", "exited"} \cap WritePhases = {}
    BY DEF WritePhases
  <1>3. CASE Build \/ EndOutput \/ Destroy
    BY <1>1, <1>2, <1>3 DEF Build, EndOutput, Destroy
  <1>4. CASE \E for_query \in BOOLEAN : StartOutput(for_query)
    BY <1>1, <1>2, <1>4 DEF StartOutput, BeginOutput, Goto
  <1>5. CASE Layout
    <2>1. pc' \in LayoutPhases \cup {"idle", "exited", "output"}
      BY <1>5, LayoutAnswers
    <2>2. pc' \notin WritePhases
      BY <2>1 DEF LayoutPhases, WritePhases
    <2> QED
      BY <1>1, <2>2
  <1>6. CASE \E answer \in BOOLEAN : WriteImage(answer)
    <2>1. PICK answer \in BOOLEAN : WriteImage(answer)
      BY <1>6
    <2>2. pc' \in {"output", "contents"} /\ sectors_written' = sectors_written
      BY <2>1 DEF WriteImage, Running, Return, MoveTo, Goto, Fails, layoutVars
    <2>3. CASE pc' = "output"
      BY <1>1, <1>2, <2>3
    <2>4. CASE pc' = "contents"
      <3>1. sectors_written = 0
        <4>1. pc = "output" /\ result = -1 /\ ~aborted
          BY <2>1 DEF WriteImage, Running
        <4> QED
          BY <4>1 DEF Unwritten
      <3>2. ContentsWritten'
        BY <2>2, <3>1 DEF ContentsWritten
      <3> QED
        BY <2>4, <3>2, Elsewhere DEF IsoProgress
    <2> QED
      BY <2>2, <2>3, <2>4
  <1>7. CASE WriterNext
    BY <1>7, IsoWriter DEF IsoLaidOut
  <1>8. CASE UNCHANGED vars
    BY <1>8, IsoStutter
  <1> QED
    BY <1>3, <1>4, <1>5, <1>6, <1>7, <1>8 DEF Next

\* Of every disc, whatever a client calls and the callback answers: an assertion of vcd.c
\* and files.c that fails is the fault of a call the client can see, or of a write
\* it cancelled.  begin_output never finds a sector taken that it has to have, and
\* write_image never comes to an item elsewhere than where it was placed.
THEOREM OnlyKnownAbortsCorrect == Spec => []OnlyKnownAborts
  <1> DEFINE Inv == /\ ShapeInv /\ PlaceInv /\ AdjoinInv
                    /\ Unwritten /\ IsoProgress /\ AbortsKnown
  <1>1. Init => Inv
    <2>1. Init => AbortsKnown
      BY DEF Init, ObjInit, AbortsKnown
    <2>2. Init => IsoProgress
      BY DEF Init, LayoutInit, IsoProgress, ContentsWritten, HeadWritten, SegmentsWritten,
         ExtWritten, FilesWritten, BlanksWritten
    <2> QED
      BY <2>1, <2>2, ShapeInit, PlaceInit, AdjoinInit, UnwrittenInit
  <1>2. Inv /\ [Next]_vars => Inv'
    BY ShapeStep, PlaceStep, AdjoinStep, UnwrittenStep, IsoProgressStep, AbortsStep
  <1>3. Inv => OnlyKnownAborts
    BY DEF AbortsKnown, Cause, OnlyKnownAborts
  <1> QED
    BY <1>1, <1>2, <1>3, PTL DEF Spec

-----------------------------------------------------------------------------
(* The access points of entry points.                                      *)

\* The streams of a disc are ones that clients have.
SourcesKnown == \A j \in DOMAIN sequences : sequences[j].source \in Sources

\* Entry point e of sequence j has the access point that _get_closest_aps finds.
EntryFound(j, e) ==
    \E k \in DOMAIN sequences[j].source.aps :
        /\ StopsAt(sequences[j].source.aps, sequences[j].entries[e].time, k)
        /\ sequences[j].entries[e].aps = sequences[j].source.aps[k]

EntriesFound ==
    \A j \in DOMAIN sequences : \A e \in DOMAIN sequences[j].entries :
        \/ pc = "entries" /\ (j < i \/ (j = i /\ e <= n))
        \/ pc \in {"output"} \cup WritePhases
        => EntryFound(j, e)

EntriesInv == SourcesKnown /\ EntriesOrdered /\ EntriesFound /\ SubindexesInOrder

\* Later times have access points that are no earlier: the search stops at the first that
\* is no closer, and access points are in order.
LEMMA LaterIsNoEarlier ==
    ASSUME NEW s \in Sources, NEW t \in Int, NEW u \in Int, t <= u,
           NEW j \in DOMAIN s.aps, StopsAt(s.aps, t, j),
           NEW k \in DOMAIN s.aps, StopsAt(s.aps, u, k)
    PROVE  j <= k
  <1>1. s.aps \in Seq(ApsData)
    BY ObjAssumption DEF SourceType
  <1>2. DOMAIN s.aps = 1 .. Len(s.aps) /\ Len(s.aps) \in Nat
    BY <1>1, LenProperties
  <1>3. SUFFICES ASSUME k < j PROVE FALSE
    BY <1>2
  <1>4. k + 1 \in DOMAIN s.aps /\ k + 1 \in 2 .. j /\ k < Len(s.aps) /\ (k + 1) - 1 = k
    BY <1>2, <1>3
  <1>5. PICK a, b : a = s.aps[k].timestamp /\ b = s.aps[k + 1].timestamp
    OBVIOUS
  <1>6. a \in Int /\ b \in Int
    <2>1. s.aps[k] \in ApsData /\ s.aps[k + 1] \in ApsData
      BY <1>1, <1>2, <1>4, ElementOfSeq
    <2> QED
      BY <1>5, <2>1 DEF ApsData
  <1>7. a <= b
    BY <1>2, <1>4, <1>5, SourcesAssumption
  <1>8. Distance(b, t) < Distance(a, t)
    BY <1>4, <1>5 DEF StopsAt
  <1>9. ~(Distance(b, u) < Distance(a, u))
    BY <1>4, <1>5 DEF StopsAt
  <1> QED
    BY <1>6, <1>7, <1>8, <1>9 DEF Distance

\* So the subindexes of the cue sheet are in order.
LEMMA CueSheetInOrder ==
    ASSUME ShapeInv, EntriesInv, pc = "output", NEW k \in DOMAIN sequences,
           NEW e \in 2 .. Len(sequences[k].entries)
    PROVE  CueSheet.tracks[k].subindex[e - 1] <= CueSheet.tracks[k].subindex[e]
  <1>1. PICK list : list = sequences[k].entries
    OBVIOUS
  <1>2. list \in Seq(EntryType(AllIds)) /\ DOMAIN list = 1 .. Len(list) /\ Len(list) \in Nat
    BY <1>1, SequenceTypes, LenProperties DEF ShapeInv
  <1>3. e \in DOMAIN list /\ e - 1 \in DOMAIN list /\ e - 1 <= e
    BY <1>1, <1>2
  <1>4. list[e - 1].time <= list[e].time
    BY <1>1, <1>3 DEF EntriesInv, EntriesOrdered, Ordered
  <1>5. list[e - 1].time \in Int /\ list[e].time \in Int
    BY <1>2, <1>3, EntryTimesAreInt
  <1>6. PICK s : s = sequences[k].source
    OBVIOUS
  <1>7. s \in Sources
    BY <1>6 DEF EntriesInv, SourcesKnown
  <1>8. EntryFound(k, e - 1) /\ EntryFound(k, e)
    BY <1>1, <1>3 DEF EntriesInv, EntriesFound
  <1>9. PICK g \in DOMAIN s.aps :
           StopsAt(s.aps, list[e - 1].time, g) /\ list[e - 1].aps = s.aps[g]
    BY <1>1, <1>6, <1>8 DEF EntryFound
  <1>10. PICK h \in DOMAIN s.aps :
           StopsAt(s.aps, list[e].time, h) /\ list[e].aps = s.aps[h]
    BY <1>1, <1>6, <1>8 DEF EntryFound
  <1>11. g <= h
    BY <1>4, <1>5, <1>7, <1>9, <1>10, LaterIsNoEarlier
  <1>12. list[e - 1].aps.packet_no <= list[e].aps.packet_no
    <2>1. s.aps \in Seq(ApsData)
      BY <1>7, ObjAssumption DEF SourceType
    <2>2. DOMAIN s.aps = 1 .. Len(s.aps) /\ Len(s.aps) \in Nat
      BY <2>1, LenProperties
    <2>3. s.aps[g].packet_no \in Nat
      <3>1. s.aps[g] \in ApsData
        BY <2>1, <2>2, ElementOfSeq
      <3> QED
        BY <3>1 DEF ApsData
    <2>4. CASE g = h
      BY <1>9, <1>10, <2>3, <2>4
    <2>5. CASE g < h
      BY <1>7, <1>9, <1>10, <2>5, SourcesAssumption
    <2> QED
      BY <1>11, <2>2, <2>4, <2>5
  <1>13. PICK x : x = TrackStart(k) + prm.track_front_margin
    OBVIOUS
  <1>14. /\ CueSheet.tracks[k].subindex[e - 1] = x + list[e - 1].aps.packet_no
         /\ CueSheet.tracks[k].subindex[e] = x + list[e].aps.packet_no
         /\ list[e - 1].aps.packet_no \in Nat /\ list[e].aps.packet_no \in Nat
    BY <1>1, <1>3, <1>13, CueOfTrack DEF ShapeInv
  <1>15. x \in Int
    <2>1. /\ sequences[k].relative_start_extent \in Nat /\ iso_size \in Nat
          /\ prm.track_front_margin \in Nat
      BY SequenceTypes, ParamTypes, ExtentTypes DEF ShapeInv
    <2> QED
      BY <1>13, <2>1 DEF TrackStart
  <1> QED
    BY <1>12, <1>14, <1>15

\* One more entry point has its access point, and the others have theirs.
LEMMA UpdateEntryFinds ==
    ASSUME ShapeInv, UpdateEntry, ~Fails
    PROVE  /\ pc = "entries" /\ pc' = pc /\ i' = i /\ n' = n + 1
           /\ DOMAIN sequences' = DOMAIN sequences
           /\ \A j \in DOMAIN sequences :
                 /\ sequences'[j].source = sequences[j].source
                 /\ DOMAIN sequences'[j].entries = DOMAIN sequences[j].entries
                 /\ \A e \in DOMAIN sequences[j].entries :
                       /\ sequences'[j].entries[e].time = sequences[j].entries[e].time
                       /\ IF j = i /\ e = n + 1
                          THEN \E k \in DOMAIN sequences[j].source.aps :
                                  /\ StopsAt(sequences[j].source.aps,
                                             sequences[j].entries[e].time, k)
                                  /\ sequences'[j].entries[e].aps
                                        = sequences[j].source.aps[k]
                          ELSE sequences'[j].entries[e].aps = sequences[j].entries[e].aps
  <1>1. /\ pc = "entries" /\ pc' = pc /\ i' = i /\ n' = n + 1 /\ i <= Len(sequences)
        /\ n < Len(sequences[i].entries)
    BY DEF UpdateEntry, Running
  <1>2. i \in DOMAIN sequences
    BY <1>1, ListLengths DEF ShapeInv, Counting, LayoutTypeOK, Started, Growing
  <1>3. PICK k \in DOMAIN sequences[i].source.aps :
           /\ StopsAt(sequences[i].source.aps, sequences[i].entries[n + 1].time, k)
           /\ sequences' = [sequences EXCEPT ![i].entries[n + 1].aps =
                                sequences[i].source.aps[k]]
    BY DEF UpdateEntry
  <1>4. PICK old, entry, new :
           /\ old = sequences[i].entries
           /\ entry = [old[n + 1] EXCEPT !.aps = sequences[i].source.aps[k]]
           /\ new = [old EXCEPT ![n + 1] = entry]
    OBVIOUS
  <1>5. old \in Seq(EntryType(AllIds)) /\ sequences[i] \in SequenceType(AllIds)
    BY <1>2, <1>4, SequenceTypes DEF ShapeInv
  <1>6. n + 1 \in DOMAIN old /\ DOMAIN old = 1 .. Len(old)
    BY <1>1, <1>4, <1>5, LenProperties, ExtentTypes
  <1>7. old[n + 1] \in EntryType(AllIds)
    BY <1>5, <1>6, ElementOfSeq
  <1>8. entry.time = old[n + 1].time /\ entry.aps = sequences[i].source.aps[k]
    BY <1>4, <1>7 DEF EntryType
  <1>9. /\ DOMAIN new = DOMAIN old
        /\ \A e \in DOMAIN old : new[e] = IF e = n + 1 THEN entry ELSE old[e]
    BY <1>4
  <1>10. sequences' = [sequences EXCEPT ![i] = [sequences[i] EXCEPT !.entries = new]]
    BY <1>3, <1>4
  <1>11. /\ DOMAIN sequences' = DOMAIN sequences
         /\ \A j \in DOMAIN sequences :
               /\ sequences'[j].source = sequences[j].source
               /\ sequences'[j].entries = IF j = i THEN new ELSE sequences[j].entries
    BY <1>2, <1>5, <1>10 DEF SequenceType
  <1>12. ASSUME NEW j \in DOMAIN sequences, NEW e \in DOMAIN sequences[j].entries
         PROVE  /\ sequences'[j].entries[e].time = sequences[j].entries[e].time
                /\ IF j = i /\ e = n + 1
                   THEN \E g \in DOMAIN sequences[j].source.aps :
                           /\ StopsAt(sequences[j].source.aps,
                                      sequences[j].entries[e].time, g)
                           /\ sequences'[j].entries[e].aps = sequences[j].source.aps[g]
                   ELSE sequences'[j].entries[e].aps = sequences[j].entries[e].aps
    <2>1. CASE j = i /\ e = n + 1
      <3>1. sequences'[j].entries[e] = entry
        BY <1>4, <1>6, <1>9, <1>11, <2>1
      <3> QED
        BY <1>3, <1>4, <1>8, <2>1, <3>1
    <2>2. CASE j = i /\ e # n + 1
      BY <1>4, <1>9, <1>11, <2>2
    <2>3. CASE j # i
      BY <1>11, <2>3
    <2> QED
      BY <2>1, <2>2, <2>3
  <1>13. \A j \in DOMAIN sequences : DOMAIN sequences'[j].entries = DOMAIN sequences[j].entries
    BY <1>4, <1>9, <1>11
  <1> QED
    BY <1>1, <1>11, <1>12, <1>13

LEMMA UpdateEntryEntries ==
    ASSUME ShapeInv, EntriesInv, UpdateEntry, UNCHANGED writerVars
    PROVE  EntriesInv'
  <1>1. pc = "entries"
    BY DEF UpdateEntry, Running
  <1>2. SubindexesInOrder'
    BY DEF EntriesInv, SubindexesInOrder, writerVars
  <1>3. CASE Fails
    <2>1. UNCHANGED <<sequences, pc, i, n>>
      BY <1>3 DEF Fails, objVars, layoutVars
    <2> QED
      BY <1>2, <2>1 DEF EntriesInv, SourcesKnown, EntriesOrdered, Ordered, EntriesFound, EntryFound
  <1>4. CASE ~Fails
    <2>1. /\ pc' = pc /\ i' = i /\ n' = n + 1
          /\ DOMAIN sequences' = DOMAIN sequences
          /\ \A j \in DOMAIN sequences :
                /\ sequences'[j].source = sequences[j].source
                /\ DOMAIN sequences'[j].entries = DOMAIN sequences[j].entries
                /\ \A e \in DOMAIN sequences[j].entries :
                      sequences'[j].entries[e].time = sequences[j].entries[e].time
      BY <1>4, UpdateEntryFinds
    <2>2. SourcesKnown'
      BY <2>1 DEF EntriesInv, SourcesKnown
    <2>3. EntriesOrdered'
      BY <2>1 DEF EntriesInv, EntriesOrdered, Ordered
    <2>4. ASSUME NEW j \in DOMAIN sequences, NEW e \in DOMAIN sequences[j].entries,
                 j < i \/ (j = i /\ e <= n + 1)
          PROVE  \E k \in DOMAIN sequences[j].source.aps :
                    /\ StopsAt(sequences[j].source.aps, sequences[j].entries[e].time, k)
                    /\ sequences'[j].entries[e].aps = sequences[j].source.aps[k]
      <3>1. CASE j = i /\ e = n + 1
        BY <1>4, <3>1, UpdateEntryFinds
      <3>2. CASE ~(j = i /\ e = n + 1)
        <4>1. j < i \/ (j = i /\ e <= n)
          <5>1. e \in Nat /\ n \in Nat
            BY SequenceTypes, ExtentTypes, LenProperties DEF ShapeInv
          <5> QED
            BY <2>4, <3>2, <5>1
        <4>2. EntryFound(j, e)
          BY <1>1, <4>1 DEF EntriesInv, EntriesFound
        <4>3. sequences'[j].entries[e].aps = sequences[j].entries[e].aps
          BY <1>4, <3>2, UpdateEntryFinds
        <4> QED
          BY <4>2, <4>3 DEF EntryFound
      <3> QED
        BY <3>1, <3>2
    <2>5. EntriesFound'
      <3>1. ASSUME NEW j \in DOMAIN sequences, NEW e \in DOMAIN sequences[j].entries,
                   j < i' \/ (j = i' /\ e <= n')
            PROVE  \E k \in DOMAIN sequences'[j].source.aps :
                      /\ StopsAt(sequences'[j].source.aps, sequences'[j].entries[e].time, k)
                      /\ sequences'[j].entries[e].aps = sequences'[j].source.aps[k]
        BY <2>1, <2>4, <3>1
      <3>2. pc' \notin {"output"} \cup WritePhases
        BY <1>1, <2>1 DEF WritePhases
      <3> QED
        BY <2>1, <3>1, <3>2 DEF EntriesFound, EntryFound
    <2> QED
      BY <1>2, <2>2, <2>3, <2>5 DEF EntriesInv
  <1> QED
    BY <1>3, <1>4

\* Any other step that leaves the sequences as they are.
LEMMA EntriesKept ==
    ASSUME EntriesInv, UNCHANGED sequences, SubindexesInOrder',
           pc' = "entries" =>
              \A j \in DOMAIN sequences : \A e \in DOMAIN sequences[j].entries :
                 j < i' \/ (j = i' /\ e <= n') => EntryFound(j, e),
           pc' \in {"output"} \cup WritePhases =>
              \A j \in DOMAIN sequences : \A e \in DOMAIN sequences[j].entries :
                 EntryFound(j, e)
    PROVE  EntriesInv'
  <1>1. SourcesKnown' /\ EntriesOrdered'
    BY DEF EntriesInv, SourcesKnown, EntriesOrdered, Ordered
  <1>2. \A j, e : EntryFound(j, e)' <=> EntryFound(j, e)
    BY DEF EntryFound
  <1>3. EntriesFound'
    BY <1>2 DEF EntriesFound
  <1> QED
    BY <1>1, <1>3 DEF EntriesInv

LEMMA BuildEntries ==
    ASSUME ShapeInv, EntriesInv, Build
    PROVE  EntriesInv'
  <1>1. BuildNext /\ pc' = "idle" /\ cues' = cues
    BY DEF Build, writerVars
  <1>2. EntriesOrdered'
    BY <1>1, BuildNextOrdered DEF EntriesInv, ShapeInv
  <1>3. EntriesFound'
    BY <1>1 DEF EntriesFound, WritePhases
  <1>4. SubindexesInOrder'
    BY <1>1 DEF EntriesInv, SubindexesInOrder
  <1>5. sequences \in Seq(SequenceType(AllIds)) /\ SourcesKnown
    BY DEF EntriesInv, ShapeInv, ObjTypeOK
  <1>6. ASSUME UNCHANGED sequences
        PROVE  SourcesKnown'
    BY <1>5, <1>6 DEF SourcesKnown
  <1>7. ASSUME NEW s \in Sources, NEW id \in Ids.sequence, NEW d \in Ids.default,
               AppendSequence(s, id, d)
        PROVE  SourcesKnown'
    <2>1. sequences' = Append(sequences, NewSequence(s, id, d))
      BY <1>7 DEF AppendSequence, NewSequence
    <2>2. ASSUME NEW j \in DOMAIN sequences'
          PROVE  sequences'[j] = NewSequence(s, id, d)
                    \/ (j \in DOMAIN sequences /\ sequences'[j] = sequences[j])
      BY <1>5, <2>1, LenProperties
    <2>3. NewSequence(s, id, d).source = s
      BY DEF NewSequence
    <2> QED
      BY <1>5, <2>2, <2>3 DEF SourcesKnown
  <1>8. ASSUME NEW k \in DOMAIN sequences, NEW t \in EntryTimes, NEW id \in Ids.entry, NEW q,
               AddSequenceEntry(k, q, t, id)
        PROVE  SourcesKnown'
    <2>1. PICK list : sequences' = [sequences EXCEPT ![k].entries = list]
      BY <1>8 DEF AddSequenceEntry
    <2>2. \A j \in DOMAIN sequences : sequences[j] \in SequenceType(AllIds)
      BY <1>5, ElementOfSeq, LenProperties
    <2>3. /\ DOMAIN sequences' = DOMAIN sequences
          /\ \A j \in DOMAIN sequences : sequences'[j].source = sequences[j].source
      BY <2>1, <2>2 DEF SequenceType
    <2> QED
      BY <1>5, <2>3 DEF SourcesKnown
  <1>9. SourcesKnown'
    BY <1>1, <1>6, <1>7, <1>8
    DEF BuildNext, SetParam, AppendSegment, AddFile, AppendPbcNode, LookupFails, objVars
  <1> QED
    BY <1>2, <1>3, <1>4, <1>9 DEF EntriesInv

\* A step of begin_output: all entry points have their access points when it returns.
LEMMA LayoutEntries ==
    ASSUME ShapeInv, EntriesInv, Layout
    PROVE  EntriesInv'
  <1>1. UNCHANGED writerVars /\ SubindexesInOrder'
    BY DEF Layout, EntriesInv, SubindexesInOrder, writerVars
  <1>2. CASE UpdateEntry
    BY <1>1, <1>2, UpdateEntryEntries
  <1>3. \A j \in DOMAIN sequences : \A e \in DOMAIN sequences[j].entries :
           /\ j \in 1 .. Len(sequences) /\ Len(sequences) \in Nat
           /\ e \in 1 .. Len(sequences[j].entries)
    BY SequenceTypes, ListLengths, LenProperties DEF ShapeInv
  <1>4. CASE NextSequence
    <2>1. /\ pc = "entries" /\ pc' = pc /\ i <= Len(sequences)
          /\ n = Len(sequences[i].entries) /\ i' = i + 1 /\ n' = 0 /\ UNCHANGED sequences
      BY <1>4 DEF NextSequence, Running, objVars
    <2>2. i \in Nat
      BY ExtentTypes
    <2>3. ASSUME NEW j \in DOMAIN sequences, NEW e \in DOMAIN sequences[j].entries,
                 j < i' \/ (j = i' /\ e <= n')
          PROVE  EntryFound(j, e)
      <3>1. j < i + 1
        BY <1>3, <2>1, <2>2, <2>3
      <3>2. j < i \/ (j = i /\ e <= n)
        BY <1>3, <2>1, <2>2, <3>1
      <3> QED
        BY <2>1, <3>2 DEF EntriesInv, EntriesFound
    <2>4. pc' \notin {"output"} \cup WritePhases
      BY <2>1 DEF WritePhases
    <2> QED
      BY <1>1, <2>1, <2>3, <2>4, EntriesKept
  <1>5. CASE ReturnSize
    <2>1. /\ pc = "entries" /\ pc' # "entries" /\ i > Len(sequences) /\ UNCHANGED sequences
      BY <1>5 DEF ReturnSize, Running, objVars
    <2>2. ASSUME NEW j \in DOMAIN sequences, NEW e \in DOMAIN sequences[j].entries
          PROVE  EntryFound(j, e)
      <3>1. j < i
        BY <1>3, <2>1, ExtentTypes
      <3> QED
        BY <2>1, <3>1 DEF EntriesInv, EntriesFound
    <2> QED
      BY <1>1, <2>1, <2>2, EntriesKept
  <1>6. CASE \E d \in DirBlocks : MakeFilesystem(d)
    <2>1. PICK d \in DirBlocks : MakeFilesystem(d)
      BY <1>6
    <2>2. /\ UNCHANGED sequences /\ pc' \in {"filesystem", "exited", "entries"}
          /\ pc' = "entries" => i' = 1 /\ n' = 0
      BY <2>1 DEF MakeFilesystem, Running, Fails, Goto, objVars, layoutVars
    <2>3. \A j \in DOMAIN sequences : \A e \in DOMAIN sequences[j].entries :
             ~(j < 1) /\ ~(e <= 0)
      BY <1>3
    <2>4. pc' \notin {"output"} \cup WritePhases
      BY <2>2 DEF WritePhases
    <2> QED
      BY <1>1, <2>2, <2>3, <2>4, EntriesKept
  <1>7. CASE \/ ReserveFixed \/ ReserveSearch \/ FillToAlignment \/ PlaceSegment
             \/ EndSegments \/ PlaceExt \/ EndExt \/ PlaceFile \/ EndFiles
    <2>1. UNCHANGED sequences
      BY <1>7 DEF ReserveFixed, ReserveSearch, FillToAlignment, PlaceSegment, EndSegments,
         PlaceExt, EndExt, PlaceFile, EndFiles, Fails, objVars
    <2>2. pc' \in {"reserve", "filesystem"} \cup BeforeSize
      BY <1>7 DEF ReserveFixed, ReserveSearch, FillToAlignment, PlaceSegment, EndSegments,
         PlaceExt, EndExt, PlaceFile, EndFiles, Fails, layoutVars, Running, Goto,
         BeforeSize, BeforeFiles, BeforeExt, BeforeSegments
    <2>3. pc' # "entries" /\ pc' \notin {"output"} \cup WritePhases
      BY <2>2 DEF WritePhases, BeforeSize, BeforeFiles, BeforeExt, BeforeSegments
    <2> QED
      BY <1>1, <2>1, <2>3, EntriesKept
  <1> QED
    BY <1>2, <1>4, <1>5, <1>6, <1>7 DEF Layout, LayoutNext

LEMMA EntriesStep == ShapeInv /\ EntriesInv /\ [Next]_vars => EntriesInv'
  <1> SUFFICES ASSUME ShapeInv, EntriesInv, [Next]_vars PROVE EntriesInv'
    OBVIOUS
  <1>1. ASSUME pc' \notin {"entries", "output"} \cup WritePhases, UNCHANGED sequences,
               SubindexesInOrder'
        PROVE  EntriesInv'
    BY <1>1, EntriesKept
  <1>2. ASSUME pc \in {"output"} \cup WritePhases,
               pc' # "entries", UNCHANGED sequences, SubindexesInOrder'
        PROVE  EntriesInv'
    <2>1. \A j \in DOMAIN sequences : \A e \in DOMAIN sequences[j].entries : EntryFound(j, e)
      BY <1>2 DEF EntriesInv, EntriesFound
    <2> QED
      BY <1>2, <2>1, EntriesKept
  <1>3. ASSUME UNCHANGED cues PROVE SubindexesInOrder'
    BY <1>3 DEF EntriesInv, SubindexesInOrder
  <1>4. CASE Build
    BY <1>4, BuildEntries
  <1>5. CASE \E for_query \in BOOLEAN : StartOutput(for_query)
    <2>1. pc' = "reserve" /\ UNCHANGED sequences /\ cues' = NoCues
      BY <1>5 DEF StartOutput, BeginOutput, Goto, objVars
    <2>2. SubindexesInOrder'
      BY <2>1 DEF SubindexesInOrder, NoCues
    <2> QED
      BY <1>1, <2>1, <2>2 DEF WritePhases
  <1>6. CASE Layout
    BY <1>6, LayoutEntries
  <1>7. CASE \E answer \in BOOLEAN : WriteImage(answer)
    <2>1. PICK answer \in BOOLEAN : WriteImage(answer)
      BY <1>7
    <2>2. pc = "output" /\ pc' \in {"output", "contents"} /\ UNCHANGED sequences /\ cues' = CueSheet
      BY <2>1 DEF WriteImage, Running, Return, MoveTo, Goto, Fails, frozen, layoutVars, objVars
    <2>3. SubindexesInOrder'
      <3>1. PICK tracks : tracks = CueSheet.tracks
        OBVIOUS
      <3>2. /\ DOMAIN tracks = DOMAIN sequences
            /\ \A k \in DOMAIN sequences :
                  Len(tracks[k].subindex) = Len(sequences[k].entries)
        <4>1. ASSUME NEW k \in DOMAIN sequences
              PROVE  Len(tracks[k].subindex) = Len(sequences[k].entries)
          <5>1. PICK list : list = sequences[k].entries
            OBVIOUS
          <5>2. list \in Seq(EntryType(AllIds)) /\ DOMAIN list = 1 .. Len(list)
                /\ Len(list) \in Nat
            BY <5>1, SequenceTypes, LenProperties DEF ShapeInv
          <5>3. DOMAIN tracks[k].subindex = 1 .. Len(list)
            BY <3>1, <5>1, <5>2 DEF CueSheet
          <5> QED
            <6>1. PICK sub : sub = tracks[k].subindex
              OBVIOUS
            <6>2. sub = [e \in 1 .. Len(list) |->
                            TrackStart(k) + prm.track_front_margin + list[e].aps.packet_no]
              BY <3>1, <5>1, <5>2, <6>1 DEF CueSheet
            <6>3. Len(sub) = Len(list)
              BY <5>2, <6>2
            <6> QED
              BY <5>1, <6>1, <6>3
        <4>2. DOMAIN tracks = DOMAIN sequences
          BY <3>1 DEF CueSheet
        <4> QED
          BY <4>1, <4>2
      <3>3. \A k \in DOMAIN sequences : \A e \in 2 .. Len(sequences[k].entries) :
               tracks[k].subindex[e - 1] <= tracks[k].subindex[e]
        BY <2>2, <3>1, CueSheetInOrder
      <3>4. cues'.tracks = tracks
        BY <2>2, <3>1
      <3> QED
        BY <3>2, <3>3, <3>4 DEF SubindexesInOrder
    <2> QED
      BY <1>2, <2>2, <2>3
  <1>8. CASE WriterNext
    <2>1. /\ UNCHANGED frozen /\ pc \in WritePhases
          /\ pc' \in WritePhases \cup {"output", "exited"} /\ UNCHANGED cues
      BY <1>8, WriterMoves, WriterKeeps
    <2>2. UNCHANGED sequences /\ pc' # "entries"
      BY <2>1, FrozenParts DEF WritePhases
    <2> QED
      BY <1>2, <1>3, <2>1, <2>2
  <1>9. CASE EndOutput \/ Destroy
    <2>1. pc' \in {"idle", "destroyed"} /\ UNCHANGED <<sequences, cues>>
      BY <1>9 DEF EndOutput, Destroy, objVars, writerVars
    <2> QED
      BY <1>1, <1>3, <2>1 DEF WritePhases
  <1>10. CASE UNCHANGED vars
    <2>1. UNCHANGED <<sequences, pc, i, n, cues>>
      BY <1>10 DEF vars, objVars, layoutVars, writerVars
    <2> QED
      BY <1>3, <2>1, EntriesKept DEF EntriesInv, EntriesFound
  <1> QED
    BY <1>4, <1>5, <1>6, <1>7, <1>8, <1>9, <1>10 DEF Next

\* In whatever order of time a client adds its entry points: the subindexes that the sink
\* gets of a track are in the order of the disc.
THEOREM SubindexesInOrderCorrect == Spec => []SubindexesInOrder
  <1>1. Init => EntriesInv
    BY DEF Init, ObjInit, LayoutInit, WriterInit, NoCues, EntriesInv, SourcesKnown,
       EntriesOrdered, EntriesFound, SubindexesInOrder
  <1>2. EntriesInv => SubindexesInOrder
    BY DEF EntriesInv
  <1> QED
    BY <1>1, <1>2, ShapeInit, ShapeStep, EntriesStep, PTL DEF Spec

=============================================================================
