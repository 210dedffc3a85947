------------------------------ MODULE TrackImage ------------------------------
(***************************************************************************)
(* The sectors that vcd.c makes of MPEG streams: _write_sequence and       *)
(* _write_segment.  A player, or vcdxrip, knows of a packet only what its  *)
(* sector says in its subheader.                                           *)
(*                                                                         *)
(* A packet is a record [kind, pts, ap]: the time it is to be shown, if    *)
(* any, and whether it is an access point.  A sector is a record           *)
(* [fn, cn, sm, data]: the file and channel numbers, the marks of the      *)
(* submode, the packet.  (The coding information depends on the kind only, *)
(* and nothing reads it again.)                                            *)
(***************************************************************************)
EXTENDS VcdFiles

NoPts == -1
ZeroPacket == [kind |-> "zero", pts |-> NoPts, ap |-> FALSE]

-----------------------------------------------------------------------------
(* What the scan of a stream finds, mpeg_stream.c *)

Times(stream) == {stream[k].pts : k \in DOMAIN stream} \ {NoPts}
MinPts(stream) == IF Times(stream) = {} THEN 0 ELSE Min(Times(stream))
MaxPts(stream) == IF Times(stream) = {} THEN 0 ELSE Max(Times(stream))
PlayingTime(stream) == MaxPts(stream) - MinPts(stream)

\* The access points, packets counting from 0, times from the first time of the stream.
AccessPoints(stream) ==
    LET Numbered(k) == [packet_no |-> k - 1, timestamp |-> stream[k].pts - MinPts(stream)]
        at == SelectSeq([k \in DOMAIN stream |-> k], LAMBDA k : stream[k].ap)
    IN  [n \in DOMAIN at |-> Numbered(at[n])]

\* _get_closest_aps, of a stream that has access points.
ClosestAps(aps, time) == aps[Walk(aps, 1, time)].packet_no

-----------------------------------------------------------------------------
(* Pauses *)

\* vcd_obj_add_sequence_pause, vcd_obj_add_segment_pause, for all of them.
SortedPauses(pauses) == SortSeq(pauses, <)

\* Behind which pause the writer is after each packet: it goes on while the next pause is
\* not later than the packet.
PauseNodes(stream, pause_list) ==
    LET Due(from, time) ==
            Max({m \in from .. Len(pause_list) : \A i \in from + 1 .. m : pause_list[i] <= time})
        node[k \in 0 .. Len(stream)] ==
            IF k = 0 THEN 0
            ELSE LET before == node[k - 1]
                 IN  IF stream[k].pts = NoPts THEN before
                     ELSE Due(before, stream[k].pts - MinPts(stream))
    IN  node

\* The packets, from 1, that a player is to pause at: set_trigger.
Triggers(stream, pause_list) ==
    LET node == PauseNodes(stream, pause_list)
    IN  {k \in DOMAIN stream : node[k] > node[k - 1]}

-----------------------------------------------------------------------------
(* Sectors *)

KindMarks(kind) ==
    IF kind \in {"video", "still", "still2", "ogt"} THEN {"VIDEO"}
    ELSE IF kind \in {"audio", "audio2"} THEN {"AUDIO"} ELSE {}

If(condition, mark) == IF condition THEN {mark} ELSE {}

\* Sectors without a packet.
Blank(count, fn, marks) ==
    [k \in 1 .. count |-> [fn |-> fn, cn |-> 0, sm |-> {"FORM2"} \cup marks, data |-> ZeroPacket]]

\* Stills in a track are video.
TrackChannel(kind) ==
    IF kind \in {"video", "still", "still2", "audio"} THEN 1
    ELSE IF kind \in {"audio2", "ogt"} THEN 2 ELSE 0

\* A packet of a track; fn is 1 in a track of a simple subheader.
TrackSector(disc, n, k, triggers) ==
    LET stream == disc.sequences[n].stream
        last == k = Len(stream)
    IN  [fn |-> IF Has4CSvcd(disc.type) /\ ~disc.svcd_vcd3_mpegav THEN 1 ELSE n,
         cn |-> TrackChannel(stream[k].kind),
         sm |-> {"FORM2", "REALT"} \cup KindMarks(stream[k].kind) \cup If(last, "EOR")
                  \cup If(last /\ disc.track_rear_margin = 0, "EOF") \cup If(k \in triggers, "TRIG"),
         data |-> stream[k]]

\* The rear margin, the last sector of which ends the file.
RearMargin(disc, n) ==
    [k \in 1 .. disc.track_rear_margin |->
        [Blank(1, n, {"REALT"})[1] EXCEPT !.sm = @ \cup If(k = disc.track_rear_margin, "EOF")]]

\* _write_sequence
TrackSectors(disc, n) ==
    LET sequence == disc.sequences[n]
        triggers == Triggers(sequence.stream, sequence.pause_list)
    IN  Blank(disc.track_pregap, 0, {})
          \o Blank(disc.track_front_margin, n, {"REALT"})
          \o [k \in DOMAIN sequence.stream |-> TrackSector(disc, n, k, triggers)]
          \o RearMargin(disc, n)

SegmentChannel(kind) ==
    IF kind = "still2" THEN 3 ELSE IF kind = "still" THEN 2
    ELSE IF kind \in {"video", "audio", "audio2"} THEN 1 ELSE 0

\* A packet of a segment.  (The record that ends behind a sequence end code is not marked.)
SegmentSector(disc, segment, k, triggers) ==
    LET kind == segment.stream[k].kind
        svcd == Has4CSvcd(disc.type)
    IN  [fn |-> 1, cn |-> IF svcd THEN 1 ELSE SegmentChannel(kind),
         sm |-> {"FORM2", "REALT"} \cup (IF svcd THEN {"VIDEO"} ELSE KindMarks(kind) \ If(kind = "ogt", "VIDEO"))
                  \cup If(k = Len(segment.stream), "EOF") \cup If(k \in triggers, "TRIG"),
         data |-> segment.stream[k]]

\* _write_segment: the packets, and what is missing in the last segment.
SegmentSectors(disc, segment) ==
    LET triggers == Triggers(segment.stream, segment.pause_list)
        rest == (segment.segment_count * SEGMENT_SECTORS) - Len(segment.stream)
    IN  [k \in DOMAIN segment.stream |-> SegmentSector(disc, segment, k, triggers)]
          \o (IF Has4CSvcd(disc.type) THEN Blank(rest, 0, {}) ELSE Blank(rest, 1, {"REALT"}))
=============================================================================
