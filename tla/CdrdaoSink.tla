------------------------------ MODULE CdrdaoSink ------------------------------
(***************************************************************************)
(* image_cdrdao.c: a file per track and per pregap, and a table of         *)
(* contents that names them.  One file is open at a time.                  *)
(***************************************************************************)
EXTENDS BinCueSink

TocFile == <<"toc", 0, FALSE>>

\* "%s_%.2d%s.img"
ImageFile(no, pregap) == <<"img", no, pregap>>

\* vcd_image_sink_new_cdrdao, _img_cdrdao_snk_t
CdrdaoNew ==
    [sector_2336_flag |-> FALSE, last_bin_snk |-> NoSink, last_snk_idx |-> 0,
     last_pause |-> FALSE, vcd_cue_list |-> <<>>]

DataFile(no, pregap) == [line |-> "DATAFILE", no |-> no, at |-> 0, pregap |-> pregap]

TocIndexLine(at) == [line |-> "INDEX", no |-> 0, at |-> at]

CdrdaoLines(s, cue, size) ==
    LET pregap == IF s.last.type = "pregap" THEN <<DataFile(s.track_no + 1, TRUE)>> ELSE <<>>
        next == CASE cue.type = "track" ->
                       [s EXCEPT !.track_no = @ + 1, !.last_track_lsn = cue.lsn,
                                 !.text = @ \o <<TrackLine(s.track_no + 1, size)>> \o pregap
                                            \o <<DataFile(s.track_no + 1, FALSE)>>]
                  [] cue.type = "subindex" ->
                       [s EXCEPT !.text = Append(@, TocIndexLine(cue.lsn - s.last_track_lsn))]
                  [] cue.type = "end" -> [s EXCEPT !.done = TRUE]
                  [] OTHER -> s
    IN  IF s.done THEN s ELSE [next EXCEPT !.last = cue]

\* _set_cuesheet: the sink keeps a copy of the cue sheet.
CdrdaoSetCuesheet(obj, disk, cue_list) ==
    LET s == FoldLeft(LAMBDA t, cue : CdrdaoLines(t, cue, SectorSize(obj)),
                      [text |-> <<>>, track_no |-> 0, last_track_lsn |-> 0, last |-> NoCue,
                       done |-> FALSE], cue_list)
        out == SinkDestroy(FoldLeft(SinkPrintf, [disk |-> disk, sink |-> Sink(TocFile)], s.text))
    IN  [obj |-> [obj EXCEPT !.vcd_cue_list = cue_list], disk |-> out.disk, ok |-> s.done]

\* Mutant: the part behind the sector's is taken for its own.
Part_shifted(s, cue, lsn) ==
    LET here == cue.lsn # 0 /\ lsn \in s.last + 1 .. cue.lsn
        found == IF here
                 THEN [s EXCEPT !.ok = @ /\ s.in_track = 0, !.in_track = s.num,
                                !.ofs = s.last, !.pregap = s.lpregap]
                 ELSE s
    IN  IF cue.type = "subindex" THEN s
        ELSE [found EXCEPT !.last = cue.lsn, !.lpregap = cue.type = "pregap",
                           !.num = IF cue.type = "track" THEN @ + 1 ELSE @]

\* One cue of the walk that looks for the part of the disc sector lsn is in.
Part(s, cue, lsn) ==
    LET here == cue.lsn # 0 /\ lsn \in s.last .. cue.lsn - 1
        found == IF here
                 THEN [s EXCEPT !.ok = @ /\ s.in_track = 0, !.in_track = s.num,
                                !.ofs = s.last, !.pregap = s.lpregap]
                 ELSE s
    IN  IF cue.type = "subindex" THEN s
        ELSE [found EXCEPT !.last = cue.lsn, !.lpregap = cue.type = "pregap",
                           !.num = IF cue.type = "track" THEN @ + 1 ELSE @]

\* The file of the part found: another than the last one is opened anew.
CdrdaoSwitch(obj, disk, part) ==
    IF obj.last_snk_idx # part.in_track \/ obj.last_pause # part.pregap
    THEN [obj EXCEPT !.last_bin_snk = Sink(ImageFile(IF part.pregap THEN part.in_track + 1
                                                     ELSE part.in_track, part.pregap)),
                     !.last_snk_idx = part.in_track, !.last_pause = part.pregap]
    ELSE obj

\* _vcd_image_cdrdao_write
CdrdaoWrite(obj, disk, lsn) ==
    LET part == FoldLeft(LAMBDA s, cue : Part(s, cue, lsn),
                         [last |-> 0, ofs |-> 0, lpregap |-> FALSE, pregap |-> FALSE, num |-> 0,
                          in_track |-> 0, ok |-> TRUE], obj.vcd_cue_list)
        ok == part.ok /\ part.in_track # 0 /\ obj.last_snk_idx <= part.in_track
                /\ lsn >= part.ofs
        o == CdrdaoSwitch(obj, disk, part)
        to == SinkSeek([disk |-> disk, sink |-> o.last_bin_snk], (lsn - part.ofs) * SectorSize(o))
        out == SinkWrite(to, Stored(o, lsn), SectorSize(o))
    IN  IF ok
        THEN [obj |-> [o EXCEPT !.last_bin_snk = out.sink], disk |-> out.disk, ok |-> TRUE]
        ELSE [obj |-> obj, disk |-> disk, ok |-> FALSE]

\* _sink_free: there is no file to close before the first sector.
CdrdaoFree(obj, disk) ==
    [obj |-> [obj EXCEPT !.last_bin_snk = SinkDestroy([disk |-> disk, sink |-> @]).sink],
     disk |-> disk, ok |-> obj.last_bin_snk # NoSink]

-----------------------------------------------------------------------------
(* What a burner finds: the data files one behind the other.               *)

\* The file with a DATAFILE line, in sectors; one that is not there is empty.
FileLength(disk, l) ==
    LET file == ImageFile(l.no, l.pregap)
    IN  IF file \in DOMAIN disk THEN Cardinality(DOMAIN disk[file]) ELSE 0

\* The sector of the disc line k's data begins at.
DataAt(disk, text, k) ==
    FoldLeft(LAMBDA sum, l : sum + (IF l.line = "DATAFILE" THEN FileLength(disk, l) ELSE 0),
             0, SubSeq(text, 1, k - 1))

\* The start of the track line k belongs to: behind its pregap.
TocTrackAt(disk, text, k) ==
    LET j == CHOOSE j \in 1 .. k : /\ text[j].line = "DATAFILE"
                                   /\ ~text[j].pregap
                                   /\ TrackOf(text, j) = TrackOf(text, k)
    IN  DataAt(disk, text, j)

\* The number of index line k: they count from 2 in each track.
TocIndexNo(text, k) ==
    1 + Cardinality({j \in 1 .. k : /\ text[j].line = "INDEX"
                                    /\ TrackOf(text, j) = TrackOf(text, k)})

CdrdaoIndexes(disk) ==
    LET text == Lines(disk, TocFile)
    IN  {<<TrackOf(text, k), IF text[k].pregap THEN 0 ELSE 1, DataAt(disk, text, k)>>
           : k \in {j \in DOMAIN text : text[j].line = "DATAFILE"}}
          \cup {<<TrackOf(text, k), TocIndexNo(text, k), TocTrackAt(disk, text, k) + text[k].at>>
                  : k \in {j \in DOMAIN text : text[j].line = "INDEX"}}

CdrdaoSectors(disk) ==
    LET text == Lines(disk, TocFile)
        size == text[1].at
    IN  UNION {LET from == DataAt(disk, text, k)
                   file == ImageFile(text[k].no, text[k].pregap)
                   data == disk[file]
               IN  IF file \in DOMAIN disk
                   THEN {from + n : n \in {m \in 0 .. Cardinality(DOMAIN data) - 1 :
                           /\ m * size \in DOMAIN data
                           /\ data[m * size] = [lsn |-> from + m, size |-> size]}}
                   ELSE {}
               : k \in {j \in DOMAIN text : text[j].line = "DATAFILE"}}

=============================================================================
