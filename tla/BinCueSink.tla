------------------------------ MODULE BinCueSink ------------------------------
(***************************************************************************)
(* image_bincue.c: one file of sectors, one of text.  An operation gives   *)
(* the sink's struct, the disk, and whether all assertions held.           *)
(***************************************************************************)
EXTENDS CueSheets, DataStreams

BinFile == <<"bin", 0, FALSE>>
CueFile == <<"cue", 0, FALSE>>

SectorSize(obj) == IF obj.sector_2336_flag THEN M2RAW_SIZE ELSE FRAMESIZE_RAW

\* The sector of the image as it is stored.
Stored(obj, lsn) == [lsn |-> lsn, size |-> SectorSize(obj)]

\* vcd_image_sink_new_bincue, _img_bincue_snk_t
BinCueNew == [sector_2336_flag |-> FALSE, init |-> FALSE, bin_snk |-> NoSink, cue_snk |-> NoSink]

\* Mutant: the files are set up again at every call.
BinCueInit_again(obj) ==
    [obj EXCEPT !.init = TRUE, !.bin_snk = Sink(BinFile), !.cue_snk = Sink(CueFile)]

\* _sink_init
BinCueInit(obj) ==
    IF obj.init THEN obj
    ELSE [obj EXCEPT !.init = TRUE, !.bin_snk = Sink(BinFile), !.cue_snk = Sink(CueFile)]

TrackLine(no, size) == [line |-> "TRACK", no |-> no, at |-> size]
IndexLine(no, lsn) == [line |-> "INDEX", no |-> no, at |-> lsn]

\* One cue: the text so far, the numbers of the track and of the index.
BinCueLines(s, cue, size) ==
    LET pregap == IF s.last.type = "pregap" THEN <<IndexLine(0, s.last.lsn)>> ELSE <<>>
        next == CASE cue.type = "track" ->
                       [s EXCEPT !.track_no = @ + 1, !.index_no = 1,
                                 !.text = @ \o <<TrackLine(s.track_no + 1, size)>> \o pregap
                                            \o <<IndexLine(1, cue.lsn)>>]
                  [] cue.type = "subindex" ->
                       [s EXCEPT !.index_no = @ + 1,
                                 !.ok = @ /\ s.last # NoCue /\ s.index_no + 1 <= CD_MAX_TRACKS,
                                 !.text = Append(@, IndexLine(s.index_no + 1, cue.lsn))]
                  [] cue.type = "end" -> [s EXCEPT !.done = TRUE]
                  [] OTHER -> s
    IN  IF s.done \/ ~s.ok THEN s ELSE [next EXCEPT !.last = cue]

\* _set_cuesheet: the cue file is complete and closed before the first sector.
BinCueSetCuesheet(obj, disk, cue_list) ==
    LET o == BinCueInit(obj)
        s == FoldLeft(LAMBDA t, cue : BinCueLines(t, cue, SectorSize(o)),
                      [text |-> <<[line |-> "FILE", no |-> 0, at |-> 0]>>, track_no |-> 0,
                       index_no |-> 0, last |-> NoCue, done |-> FALSE, ok |-> TRUE],
                      cue_list)
        out == SinkClose(FoldLeft(SinkPrintf, [disk |-> disk, sink |-> o.cue_snk], s.text))
    IN  [obj |-> [o EXCEPT !.cue_snk = out.sink], disk |-> out.disk, ok |-> s.done /\ s.ok]

\* _vcd_image_bincue_write
BinCueWrite(obj, disk, lsn) ==
    LET o == BinCueInit(obj)
        to == SinkSeek([disk |-> disk, sink |-> o.bin_snk], lsn * SectorSize(o))
        out == SinkWrite(to, Stored(o, lsn), SectorSize(o))
    IN  [obj |-> [o EXCEPT !.bin_snk = out.sink], disk |-> out.disk, ok |-> TRUE]

\* _sink_free
BinCueFree(obj, disk) ==
    [obj |-> [obj EXCEPT !.bin_snk = SinkDestroy([disk |-> disk, sink |-> obj.bin_snk]).sink,
                         !.cue_snk = SinkDestroy([disk |-> disk, sink |-> obj.cue_snk]).sink],
     disk |-> disk, ok |-> obj.init]

-----------------------------------------------------------------------------
(* What a burner finds in the two files.                                   *)

\* The lines of a text file.
Lines(disk, file) == [k \in 1 .. Cardinality(DOMAIN disk[file]) |-> disk[file][k - 1]]

TrackOf(text, k) == Cardinality({j \in 1 .. k : text[j].line = "TRACK"})

BinCueIndexes(disk) ==
    LET text == Lines(disk, CueFile)
    IN  {<<TrackOf(text, k), text[k].no, text[k].at>>
           : k \in {j \in DOMAIN text : text[j].line = "INDEX"}}

\* The sectors that are where the track's mode says, and nothing is elsewhere.
BinCueSectors(disk) ==
    LET text == Lines(disk, CueFile)
        size == text[2].at
        bin == disk[BinFile]
    IN  {l \in {bin[o].lsn : o \in DOMAIN bin} :
           /\ l * size \in DOMAIN bin
           /\ bin[l * size] = [lsn |-> l, size |-> size]}

=============================================================================
