------------------------------ MODULE MpegPackets ------------------------------
(***************************************************************************)
(* mpeg.c: what vcd_mpeg_parse_packet makes of a buffer.  A stream is a    *)
(* sequence of elements, each a start code with all that belongs to it, or *)
(* bytes that are none; lengths and offsets are in units of two bytes.     *)
(* An element, besides the offset at which it begins, is                   *)
(*   [code |-> "pack", len, version]        the header of a pack           *)
(*   [code |-> "pes", len, id, pts, heads]  a packet of stream id, with or *)
(*                                          without (-1) a timestamp       *)
(*   [code |-> "system", len, ids]          a system header                *)
(*   [code |-> "end" | "zero" | "junk", len]                               *)
(* and heads the start codes in a video packet, in their order.            *)
(***************************************************************************)
EXTENDS Integers, Sequences, FiniteSets, SequencesExt, TLC

CONSTANTS
    PACKET_SIZE,    \* the sizeof buf of mpeg_stream.c: what a sector holds
    CODE_SIZE       \* a start code

ASSUME PacketAssumption ==
    /\ CODE_SIZE \in Nat \ {0}
    /\ PACKET_SIZE \in Nat
    /\ PACKET_SIZE > CODE_SIZE

VideoIds == {"e0", "e1", "e2"}
AudioIds == {"c0", "c1", "c2"}
OgtIds == {"ogt0", "ogt1", "ogt2", "ogt3"}

\* _vid_streamid_idx
VidIdx(id) == CASE id = "e0" -> 0 [] id = "e1" -> 1 [] id = "e2" -> 2

NoPts == -1

\* struct vcd_mpeg_packet_info, cleared
NoPacket ==
    [streams |-> {}, ogt |-> {}, padding |-> FALSE, pem |-> FALSE, zero |-> FALSE,
     system_header |-> FALSE, scan_data |-> FALSE, aps |-> "none", aps_pts |-> 0, aps_idx |-> 0,
     has_pts |-> FALSE, pts |-> 0, gop |-> FALSE]

\* struct vcd_mpeg_stream_info, cleared: the headers seen, access points by stream.
NoStream ==
    [packets |-> 0, version |-> 0, seen |-> {}, ogt |-> {}, seen_pts |-> FALSE, min_pts |-> 0,
     max_pts |-> 0, playing_time |-> 0, scan_data |-> 0, last_aps_pts |-> [v \in 0 .. 2 |-> 0],
     aps_list |-> [v \in 0 .. 2 |-> <<>>]]

\* Where a stream ends.
EndOf(e) == e.at + e.len
Length(file) == IF file = <<>> THEN 0 ELSE EndOf(file[Len(file)])

\* The elements.  Whatever begins with a start code holds all of it.
Codes == {n \in Nat : n >= CODE_SIZE}

Elements ==
    [at : Nat, code : {"pack"}, len : Codes, version : Nat]
      \cup [at : Nat, code : {"pes"}, len : Codes, pts : Nat \cup {NoPts},
            id : VideoIds \cup AudioIds \cup OgtIds \cup {"be"}, heads : Seq(STRING)]
      \cup [at : Nat, code : {"system"}, len : Codes, ids : SUBSET STRING]
      \cup [at : Nat, code : {"end"}, len : Codes]
      \cup [at : Nat, code : {"zero", "junk"}, len : Nat \ {0}]

\* A stream is made of elements one behind the other.
IsStream(file) ==
    /\ file \in Seq(Elements)
    /\ \A k \in DOMAIN file : file[k].at = IF k = 1 THEN 0 ELSE EndOf(file[k - 1])

\* The stream of the elements.
Stream(elements) ==
    FoldLeft(LAMBDA file, e :
                 Append(file, e @@ [at |-> Length(file)]),
             <<>>, elements)

\* The element that begins at pos, or none: 0.
ElementAt(file, pos) ==
    LET here == {k \in DOMAIN file : file[k].at = pos}
    IN  IF here = {} THEN 0 ELSE CHOOSE k \in here : TRUE

-----------------------------------------------------------------------------
(* A packet of a video, audio, private or padding stream.                  *)

\* _analyze_pes_header: the timestamps of all streams count.
WithPts(ctx, pts) ==
    IF pts = NoPts THEN ctx
    ELSE [stream |-> [ctx.stream EXCEPT
              !.seen_pts = TRUE,
              !.min_pts = IF ctx.stream.seen_pts /\ @ < pts THEN @ ELSE pts,
              !.max_pts = IF ctx.stream.seen_pts /\ @ > pts THEN @ ELSE pts],
          packet |-> [ctx.packet EXCEPT !.has_pts = TRUE, !.pts = pts]]

\* The last place of a start code among heads, or -1.
LastHead(heads, code) ==
    LET places == {k \in DOMAIN heads : heads[k] = code}
    IN  IF places = {} THEN -1 ELSE CHOOSE k \in places : \A j \in places : j <= k

\* What kind of access point a video packet is.  The code compares the place of
\* the GOP header with 1 where no header is -1: an I picture without one is "GI".
ApsType(ctx, heads) ==
    LET sequence == LastHead(heads, "sequence")
        gop == LastHead(heads, "gop")
        ipicture == LastHead(heads, "I")
    IN  CASE ~ctx.packet.has_pts \/ ipicture = -1 \/ ctx.stream.version = 0 -> "none"
          [] ctx.packet.has_pts /\ ipicture # -1 /\ ctx.stream.version # 0 ->
               IF sequence # -1 /\ sequence < gop /\ gop < ipicture
               THEN IF sequence = 1 THEN "ASGI" ELSE "SGI"
               ELSE IF gop < ipicture THEN "GI" ELSE "I"

\* Mutant: access points may go back in time.
WithAps_unordered(ctx, type, v) ==
    IF type = "none"
    THEN [ctx EXCEPT !.packet.aps = "none"]
    ELSE [stream |-> [ctx.stream EXCEPT !.last_aps_pts[v] = ctx.packet.pts],
          packet |-> [ctx.packet EXCEPT !.aps = type, !.aps_idx = v, !.aps_pts = ctx.packet.pts]]

\* An access point before the last one of its stream, in time, is none.
WithAps(ctx, type, v) ==
    IF type = "none" \/ ctx.stream.last_aps_pts[v] > ctx.packet.pts
    THEN [ctx EXCEPT !.packet.aps = "none"]
    ELSE [stream |-> [ctx.stream EXCEPT !.last_aps_pts[v] = ctx.packet.pts],
          packet |-> [ctx.packet EXCEPT !.aps = type, !.aps_idx = v, !.aps_pts = ctx.packet.pts]]

\* The codes of a video packet that leave something behind: _parse_sequence_header,
\* _parse_gop_header, _parse_user_data.
WithHeads(ctx, id, heads) ==
    [stream |-> [ctx.stream EXCEPT
         !.seen = IF LastHead(heads, "sequence") # -1 THEN @ \cup {id} ELSE @,
         !.scan_data = @ + Cardinality({k \in DOMAIN heads : heads[k] = "scan"})],
     packet |-> [ctx.packet EXCEPT
         !.gop = @ \/ LastHead(heads, "gop") # -1,
         !.scan_data = @ \/ LastHead(heads, "scan") # -1]]

\* _analyze_video_pes
VideoPes(ctx, e, only_pts) ==
    LET timed == WithPts(ctx, e.pts)
        read == WithHeads(timed, e.id, e.heads)
    IN  IF only_pts THEN timed ELSE WithAps(read, ApsType(read, e.heads), VidIdx(e.id))

\* _analyze_audio_pes
AudioPes(ctx, e, only_pts) ==
    LET timed == WithPts(ctx, e.pts)
    IN  IF only_pts THEN timed ELSE [timed EXCEPT !.stream.seen = @ \cup {e.id}]

\* _analyze_private_1_stream
PrivatePes(ctx, e) ==
    LET timed == WithPts(ctx, e.pts)
    IN  [timed EXCEPT !.stream.ogt = @ \cup {e.id}, !.packet.ogt = @ \cup {e.id}]

\* _register_streamid
Registered(packet, ids) ==
    [packet EXCEPT !.streams = @ \cup (ids \cap (VideoIds \cup AudioIds)),
                   !.padding = @ \/ "be" \in ids]

Pes(ctx, e, parse_pes) ==
    LET known == [ctx EXCEPT !.packet = Registered(@, {e.id})]
    IN  CASE e.id \in VideoIds -> VideoPes(known, e, ~parse_pes)
          [] e.id \in AudioIds -> AudioPes(known, e, ~parse_pes)
          [] e.id \in OgtIds -> PrivatePes(known, e)
          [] e.id = "be" -> known

\* Mutant: a bad packet stays counted.
Uncounted_kept(ctx) == ctx

\* A bad packet does not count.
Uncounted(ctx) == [ctx EXCEPT !.stream.packets = @ - 1]

-----------------------------------------------------------------------------
(* The whole buffer: buflen units from pos on.                             *)

\* The header of the pack the buffer begins with.
PackHeader(ctx, e) ==
    [ctx EXCEPT !.stream.version = IF @ = 0 THEN e.version ELSE @]

\* The loop needs a whole start code to see one.
CodeSeen(at, buflen) == at + CODE_SIZE <= buflen

\* What an element of the packet, in the buffer as a whole, leaves behind.
Walk(ctx, e, parse_pes) ==
    CASE e.code = "pack" -> PackHeader(ctx, e)
      [] e.code = "pes" -> Pes(ctx, e, parse_pes)
      [] e.code = "system" ->
           [ctx EXCEPT !.packet = [Registered(@, e.ids) EXCEPT !.system_header = TRUE]]
      [] e.code = "end" -> [ctx EXCEPT !.packet.pem = TRUE]
      [] e.code \in {"zero", "junk"} -> ctx

\* What all of them leave behind, one after the other.
Walked(ctx, elements, parse_pes) ==
    FoldLeft(LAMBDA c, e : Walk(c, e, parse_pes), ctx, elements)

\* The elements that reach into the buffer.
Within(file, pos, buflen) ==
    {k \in DOMAIN file : file[k].at < pos + buflen /\ EndOf(file[k]) > pos}

\* Where the walk through the buffer stops: at the header of the next pack, or at
\* an element whose length does not fit; or behind the last one it sees.
Stops(file, pos, buflen) ==
    LET seen == {k \in DOMAIN file : file[k].at >= pos /\ CodeSeen(file[k].at - pos, buflen)}
        stops == {k \in seen : \/ file[k].code = "pack" /\ file[k].at # pos
                               \/ file[k].code \in {"pes", "system"} /\ EndOf(file[k]) > pos + buflen}
    IN  IF stops = {} THEN Max(seen) + 1 ELSE Min(stops)

\* vcd_mpeg_parse_packet: 0 for a bad packet, or the length of the packet, up to
\* the next pack header; and the context.
ParsePacket(file, pos, buflen, parse_pes, ctx) ==
    LET counted == [stream |-> [ctx.stream EXCEPT !.packets = @ + 1], packet |-> NoPacket]
        first == ElementAt(file, pos)
        stop == Stops(file, pos, buflen)
        all_seen == stop > Len(file) \/ ~CodeSeen(file[stop].at - pos, buflen)
        walked == Walked(counted, SubSeq(file, first, stop - 1), parse_pes)
    IN  IF \A k \in Within(file, pos, buflen) : file[k].code = "zero"
        THEN [ret |-> buflen, ctx |-> [counted EXCEPT !.packet.zero = TRUE]]
        ELSE IF first = 0 \/ file[first].code # "pack"
        THEN [ret |-> 0, ctx |-> Uncounted(counted)]
        ELSE IF all_seen
        THEN [ret |-> buflen, ctx |-> walked]
        ELSE IF file[stop].code = "pack"
        THEN [ret |-> file[stop].at - pos, ctx |-> walked]
        ELSE [ret |-> 0, ctx |-> Uncounted(walked)]

\* vcd_mpeg_packet_get_type
PacketType(p) ==
    CASE p.streams \cap VideoIds # {} -> "video"
      [] p.streams \cap VideoIds = {} /\ p.streams # {} -> "audio"
      [] p.streams = {} /\ p.zero -> "zero"
      [] p.streams = {} /\ ~p.zero /\ p.ogt # {} -> "ogt"
      [] p.streams = {} /\ ~p.zero /\ p.ogt = {} /\ (p.system_header \/ p.padding) -> "empty"
      [] OTHER -> "invalid"

=============================================================================
