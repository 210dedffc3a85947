--------------------------------- MODULE MCDisc ---------------------------------
(***************************************************************************)
(* Model checking VcdDisc.  One disc carries triples of lists from a small *)
(* set of shapes: of all kinds, rejected or not, leading to each other in  *)
(* circles, or nowhere.  Many discs carry no list, or a single one: with   *)
(* pregaps, margins, entries and segments of several lengths, with access  *)
(* points in and out of order; and with streams whose first packets belong *)
(* to nobody, or whose times do not begin with the lowest, with pauses.    *)
(* Two or three descriptors fill a block, and the third extended selection *)
(* has an offset that is special.                                          *)
(***************************************************************************)
EXTENDS VcdDisc

MCListSize == [kind \in ListKinds |->
                 IF kind = "playlist" THEN 14 ELSE IF kind = "selection" THEN 20 ELSE 8]

-----------------------------------------------------------------------------
(* Lists *)

Playlist(id, rejected, items) ==
    [NewPbc("playlist") EXCEPT !.id = id, !.rejected = rejected, !.items = items]

\* A selection list: the k-th of its selections has an area of its own.
Selection(id, rejected, item, selects) ==
    [NewPbc("selection") EXCEPT
        !.id = id, !.rejected = rejected, !.items = <<item>>, !.bsn = 1, !.loop_count = 1,
        !.selects = selects,
        !.areas = [@ EXCEPT !.selects = [k \in DOMAIN selects |-> <<k, 1, k + 1, 2>>],
                            !.next = <<3, 3, 9, 9>>, !.default = <<0, 0, 255, 255>>]]

End(id, rejected, items, next_disc) ==
    [NewPbc("end") EXCEPT !.id = id, !.rejected = rejected, !.items = items, !.next_disc = next_disc]

\* The lists with an id that lead to two others, or one of them.
ListsOf(id, o1, o2) ==
    {[Playlist(id, FALSE, <<"s1">>) EXCEPT !.next = o1, !.wait_time = 60, !.playing_time = 7],
     [Playlist(id, TRUE, <<"e1", "g2">>) EXCEPT
        !.prev = o1, !.next = o2, !.retn = o1, !.wait_time = 65, !.auto_pause_time = 75,
        !.playing_time = 30],
     [Playlist(id, FALSE, <<"g3", NoId, "s2">>) EXCEPT
        !.prev = o2, !.retn = id, !.wait_time = -1, !.auto_pause_time = 61],
     [Selection(id, FALSE, "g1", <<o1, NoId, o2>>) EXCEPT
        !.default = o1, !.next = o2, !.timeout = o2, !.wait_time = 75, !.bsn = 3, !.loop_count = 130],
     [Selection(id, TRUE, "s2", <<o2>>) EXCEPT
        !.retn = o1, !.wait_time = 2001, !.jump_delayed = TRUE, !.loop_count = 0],
     [Selection(id, FALSE, "d1", <<o2, id>>) EXCEPT
        !.selection_type = "multi", !.default = o1, !.wait_time = 2000],
     [Selection(id, TRUE, "s2", <<o1>>) EXCEPT !.selection_type = "multi_no_num", !.timeout = id],
     End(id, FALSE, <<>>, 2),
     End(id, TRUE, <<"g2">>, 0)}

Triples ==
    {<<a, b, c>> : a \in ListsOf("a", "b", "c"), b \in ListsOf("b", "c", "a"),
                   c \in ListsOf("c", "a", "b")}

\* Lists that end the writer, or the reader, or vcdxbuild, and two of the same id.
OddLists ==
    {<<[Playlist("a", FALSE, <<>>) EXCEPT !.next = "x"]>>,
     <<Playlist("a", FALSE, <<>>)>>,
     <<Playlist("a", FALSE, <<"x">>)>>,
     <<Playlist("s1", FALSE, <<>>)>>,
     <<End("a", FALSE, <<>>, 0), Selection("b", FALSE, "a", <<>>)>>,
     <<[Selection("a", FALSE, "s1", <<"a">>) EXCEPT !.selection_type = "multi_no_num"]>>,
     <<[Selection("a", FALSE, "s2", <<"a">>) EXCEPT !.selection_type = "multi_no_num"]>>,
     <<[Selection("a", FALSE, NoId, <<"a">>) EXCEPT !.bsn = 99]>>,
     <<[Selection("a", FALSE, "s2", <<"a">>) EXCEPT !.bsn = 100]>>,
     <<[Selection("a", FALSE, "s2", <<"a">>) EXCEPT !.areas.selects = <<<<2, 1, 1, 2>>>>]>>,
     <<[Playlist("a", FALSE, <<"s1">>) EXCEPT !.next = "b"],
       End("b", TRUE, <<>>, 0), [Playlist("b", FALSE, <<"g1">>) EXCEPT !.retn = "a"]>>}

-----------------------------------------------------------------------------
(* Streams *)

Packet(kind, pts, ap) == [kind |-> kind, pts |-> pts, ap |-> ap]

Video(pts) == Packet("video", pts, FALSE)
VideoAp(pts) == Packet("video", pts, TRUE)

Ap(at, time) == [packet_no |-> at, timestamp |-> time]

\* A stream with these access points, that is as long as it says; the sound at its end
\* has the first and the last time.
Stream(packets, time, aps) ==
    [k \in 1 .. packets |->
        IF \E ap \in ToSet(aps) : ap.packet_no = k - 1
        THEN VideoAp((CHOOSE ap \in ToSet(aps) : ap.packet_no = k - 1).timestamp)
        ELSE IF k = packets - 1 THEN Packet("audio", 0, FALSE)
        ELSE IF k = packets THEN Packet("audio", time, FALSE)
        ELSE Video(NoPts)]

Zero == ZeroPacket
Empty == Packet("empty", NoPts, FALSE)

\* Streams that begin, and end, with packets that belong to no stream; that begin with a
\* time other than the lowest, or than 0.
MCStreams ==
    {<<Empty, VideoAp(8), Video(12), Packet("audio", 0, FALSE), Video(NoPts), VideoAp(16), Video(20)>>,
     <<Zero, Empty, VideoAp(0), Video(8), Packet("audio", 4, FALSE), Zero, Video(NoPts),
       VideoAp(12), Empty, Zero, Zero>>,
     <<VideoAp(4), Packet("audio2", 4, FALSE), Packet("ogt", 8, FALSE), VideoAp(16), Video(12), Video(28)>>}

\* A still, and what is said to it.
SegmentStream(packets) ==
    [k \in 1 .. packets |->
        IF k = 1 THEN Packet("still", 4, FALSE)
        ELSE IF k = 2 THEN Packet("audio", 4 * k, FALSE) ELSE Packet("still2", 4 * k, FALSE)]

-----------------------------------------------------------------------------
(* Discs *)

Sequence(id, default, entries, pauses, stream) ==
    [id |-> id, default_entry_id |-> default, entries |-> entries, pauses |-> pauses, stream |-> stream]

Segment(id, pauses, packets) == [id |-> id, pauses |-> pauses, stream |-> SegmentStream(packets)]

Entry(id, time) == [id |-> id, time |-> time]

Disc(type, sequences, segments, pregap, margin, mpegav) ==
    [type |-> type, iso_size |-> 100, mpeg_segment_start_extent |-> 75,
     svcd_vcd3_mpegav |-> mpegav,
     track_pregap |-> pregap, track_front_margin |-> margin, track_rear_margin |-> margin,
     sequences |-> sequences, segments |-> segments]

PbcDisc(type) ==
    Disc(type, <<Sequence("s1", "d1", <<Entry("e1", 8)>>, <<>>, Stream(6, 16, <<Ap(0, 0), Ap(3, 8)>>)),
                 Sequence("s2", NoId, <<>>, <<>>, Stream(4, 4, <<Ap(1, 0)>>))>>,
         <<Segment("g1", <<>>, 4), Segment("g2", <<>>, 7), Segment("g3", <<>>, 3)>>, 2, 1, FALSE)

\* Access points of a track of up to three half seconds, ascending or not.
MCAps == {<<>>, <<Ap(1, 0)>>, <<Ap(1, 0), Ap(2, 8)>>, <<Ap(0, 4), Ap(1, 8), Ap(3, 16)>>,
          <<Ap(0, 0), Ap(1, 12), Ap(2, 16), Ap(3, 28)>>, <<Ap(0, 8), Ap(1, 8), Ap(2, 12)>>}

\* Discs with scan points.
ScanDiscs ==
    {Disc(type, <<Sequence("s1", NoId, <<Entry("e1", 8), Entry("e2", 12)>>, <<>>, Stream(7, time1, aps1)),
                  Sequence("s2", "d2", <<>>, <<>>, Stream(6, 20, aps2))>>, <<>>, 2, 1, FALSE) :
        type \in {"SVCD", "HQVCD"}, time1 \in {4, 8, 12, 16, 20}, aps1 \in MCAps, aps2 \in MCAps}

\* Discs with entries.
EntryDiscs ==
    {Disc(type, <<Sequence("s1", default, SubSeq(<<Entry("e1", 12), Entry("e2", 8)>>, 1, entries), <<>>,
                           Stream(6, 12, <<Ap(0, 0), Ap(2, 8), Ap(3, 12)>>)),
                  Sequence("s2", "d2", SubSeq(<<Entry("e3", 0), Entry("e4", 9)>>, 1, more), <<>>,
                           Stream(5, 12, <<Ap(0, 0), Ap(2, 8)>>)),
                  Sequence("s3", NoId, <<>>, <<>>, Stream(4, 12, <<Ap(0, 0)>>))>>,
          <<>>, pregap, margin, FALSE) :
        type \in {"VCD", "VCD11", "SVCD"}, default \in {NoId, "d1"}, entries \in 0 .. 2,
        more \in 0 .. 2, pregap \in 1 .. 2, margin \in 0 .. 2}

\* Discs with segments.
SegmentDiscs ==
    {Disc(type, <<Sequence("s1", "d1", <<Entry("e1", 8)>>, <<>>, Stream(6, 16, <<Ap(0, 0), Ap(2, 8)>>))>>,
          <<Segment("g1", pauses, first), Segment("g2", <<>>, second), Segment("g3", pauses, third)>>,
          2, 0, FALSE) :
        type \in {"VCD2", "HQVCD"}, pauses \in {<<>>, <<8, 4>>},
        first \in 2 .. 4, second \in {3, 6, 7}, third \in 1 .. 4}

Pauses == {<<>>} \cup {<<t>> : t \in {3, 5, 8, 12}} \cup {<<t, u>> : t \in {3, 5, 8, 12}, u \in {0, 5, 12}}

\* Discs with pauses.
PauseDiscs ==
    {Disc(type, <<Sequence("s1", NoId, entries, pauses, stream)>>, <<>>, 2, margin, margin = 1) :
        type \in {"VCD", "SVCD"}, margin \in 0 .. 1, stream \in MCStreams, pauses \in Pauses,
        entries \in {<<>>, <<Entry("e2", 9), Entry("e1", 3)>>}}

PlainDiscs == ScanDiscs \cup EntryDiscs \cup SegmentDiscs \cup PauseDiscs

OneList == <<Playlist("a", FALSE, <<"e1">>)>>

MCInputs ==
    {[disc |-> PbcDisc(type), pbc |-> pbc] : type \in {"VCD2", "SVCD"}, pbc \in Triples}
      \cup {[disc |-> PbcDisc(type), pbc |-> pbc] : type \in {"VCD2", "HQVCD", "VCD11"}, pbc \in OddLists}
      \cup {[disc |-> d, pbc |-> <<>>] : d \in PlainDiscs}
      \cup {[disc |-> d, pbc |-> OneList] : d \in SegmentDiscs}
=============================================================================
