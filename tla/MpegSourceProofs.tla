--------------------------- MODULE MpegSourceProofs ---------------------------
(***************************************************************************)
(* What a scan and the fetching of packets promise, for every stream and   *)
(* every order of the calls.                                               *)
(***************************************************************************)
EXTENDS MpegSource, CommonProofs, FiniteSetTheorems

-----------------------------------------------------------------------------
(* What is always so.                                                      *)

\* The types of the records that a parser context is made of.
StreamInfo ==
    [packets : Int, version : Nat, seen : SUBSET (VideoIds \cup AudioIds), ogt : SUBSET OgtIds,
     seen_pts : BOOLEAN, min_pts : Nat, max_pts : Nat, playing_time : Int, scan_data : Nat,
     last_aps_pts : [0 .. 2 -> Nat],
     aps_list : [0 .. 2 -> Seq([packet_no : Nat, timestamp : Int])]]

PacketInfo ==
    [streams : SUBSET (VideoIds \cup AudioIds), ogt : SUBSET OgtIds, padding : BOOLEAN,
     pem : BOOLEAN, zero : BOOLEAN, system_header : BOOLEAN, scan_data : BOOLEAN,
     aps : {"none", "I", "GI", "SGI", "ASGI"}, aps_pts : Nat, aps_idx : 0 .. 2,
     has_pts : BOOLEAN, pts : Nat, gop : BOOLEAN]

Contexts == [stream : StreamInfo, packet : PacketInfo]

\* How much of the stream the loops read at a place, and what length the packet
\* there is found to have, whatever the context and whatever else is parsed.
BufLen(f, at) == IF PACKET_SIZE < Length(f) - at THEN PACKET_SIZE ELSE Length(f) - at

FoundLength(f, at, buflen) ==
    LET first == ElementAt(f, at)
        stop == Stops(f, at, buflen)
    IN  IF \A k \in Within(f, at, buflen) : f[k].code = "zero" THEN buflen
        ELSE IF first = 0 \/ f[first].code # "pack" THEN 0
        ELSE IF stop > Len(f) \/ ~CodeSeen(f[stop].at - at, buflen) THEN buflen
        ELSE IF f[stop].code = "pack" THEN f[stop].at - at
        ELSE 0

LengthAt(f, at) == FoundLength(f, at, BufLen(f, at))

\* Where the first n packets of a split end.
SplitEnd(parts, n) == IF n = 0 THEN 0 ELSE parts[n].from + parts[n].length

\* Packets one behind the other, each as long as it is found to be at its place.
IsChained(f, parts) ==
    /\ parts \in Seq([from : Nat, length : Nat \ {0}])
    /\ \A k \in 1 .. Len(parts) :
          /\ parts[k].from = SplitEnd(parts, k - 1)
          /\ parts[k].from < Length(f)
          /\ parts[k].length = LengthAt(f, parts[k].from)

\* The scan has found such packets.
Chained == IsChained(file, split)

\* A data source that is where it believes it is.
Sources == [is_open : BOOLEAN, position : Nat, at : Nat]

InStep(source) == source \in Sources /\ source.position = source.at

\* The source is where the loops believe it is, and the loops are where a packet
\* of the scan begins.
InPlace ==
    /\ InStep(data_source)
    /\ pc \in {"scan", "get"} /\ pos < Stat => data_source.is_open /\ data_source.at = pos
    /\ pos \in Nat
    /\ pos <= Stat
    /\ pno \in Nat
    /\ pc = "scan" => pno = Len(split) /\ (pos < Stat => pos = SplitEnd(split, pno))
    /\ pc = "get" => pno <= want.no /\ want.no < Len(split) /\ pos = SplitEnd(split, pno)
    /\ read_pkt \in [pos : Nat, no : Nat]
    /\ read_pkt.no <= Len(split)
    /\ read_pkt.pos = SplitEnd(split, read_pkt.no)

\* A scan is done at most once, and packets are fetched only behind it.
Phases ==
    /\ pc \in {"idle", "scan", "get", "exited", "crashed"}
    /\ scanned \in BOOLEAN
    /\ file \in Files
    /\ want \in [no : Nat, fix : BOOLEAN, strict : BOOLEAN]
    /\ pc = "scan" => ~scanned
    /\ pc = "get" => scanned
    /\ ~scanned => read_pkt.no = 0 /\ got.no = -1 /\ got.scan = <<>>
    /\ ~scanned /\ pc = "idle" => split = <<>>

\* What the last call left is a packet of the scan.
GotInv ==
    got.no # -1 =>
        /\ got.no \in Nat
        /\ got.no < Len(split)
        /\ split[got.no + 1] = [from |-> got.from, length |-> got.length]

\* The access points that a list collects from the first packets, in order, up to
\* the last timestamp of one, and within the times that were seen.
InOrder(list) ==
    \A k \in 1 .. Len(list) - 1 :
        /\ list[k].packet_no < list[k + 1].packet_no
        /\ list[k].timestamp <= list[k + 1].timestamp

Collects(stream, packets) ==
    /\ stream.seen_pts => stream.min_pts <= stream.max_pts
    /\ \A v \in 0 .. 2 :
          /\ InOrder(stream.aps_list[v])
          /\ \A k \in 1 .. Len(stream.aps_list[v]) :
                LET point == stream.aps_list[v][k]
                IN  /\ point.packet_no < packets
                    /\ stream.seen_pts
                    /\ stream.min_pts <= point.timestamp
                    /\ point.timestamp <= stream.max_pts
                    /\ point.timestamp <= stream.last_aps_pts[v]

Tells(stream, packets) ==
    \A v \in 0 .. 2 :
        /\ InOrder(stream.aps_list[v])
        /\ \A k \in 1 .. Len(stream.aps_list[v]) :
              /\ stream.aps_list[v][k].packet_no < packets
              /\ stream.aps_list[v][k].timestamp \in 0 .. stream.playing_time

ContextInv ==
    /\ ctx \in Contexts
    /\ info \in StreamInfo
    /\ pc = "scan" => ctx.stream.packets = pno /\ Collects(ctx.stream, pno)
    /\ scanned => info.packets = Len(split) /\ Tells(info, Len(split))

\* A crash is one of _fix_scan_info, whose list is not there, or of _approx_pts,
\* whose access point is not there.
CrashInv ==
    pc = "crashed" =>
        LET packet == ctx.packet
            list == info.aps_list[VidOf(packet)]
        IN  /\ want.fix /\ info.version = 2 /\ packet.scan_data
            /\ \/ list = <<>>
               \/ ~packet.has_pts /\ \A k \in DOMAIN list : list[k].packet_no >= want.no

SourceInv == Phases /\ Chained /\ InPlace /\ GotInv /\ ContextInv /\ CrashInv

\* The scan of a regular stream has counted the packs it has passed, and stands
\* at the next.
PacksBefore(at) == {k \in Packs : file[k].at < at}

PacksInv ==
    Regular =>
        /\ pc = "scan" =>
              /\ pno = Cardinality(PacksBefore(pos))
              /\ pos < Stat => \E k \in Packs : file[k].at = pos
        /\ scanned => info.packets = Cardinality(Packs)

-----------------------------------------------------------------------------
(* The walk over the elements of a packet.                                 *)

\* The function of the walk.
WalkIter(iter, base, elements, parse_pes, n) ==
    iter = [s \in SUBSET (1 .. n) |->
              IF s = {} THEN base
              ELSE Walk(iter[s \ {Max(s)}], elements[Max(s)], parse_pes)]

\* What holds of the context before the walk and is kept by every element holds
\* behind it.
LEMMA WalkKeeps ==
    ASSUME NEW E, NEW elements \in Seq(E), NEW parse_pes, NEW G, NEW base \in G,
           \A c \in G : \A e \in E : Walk(c, e, parse_pes) \in G
    PROVE  Walked(base, elements, parse_pes) \in G
  <1> DEFINE n == Len(elements)
             step == [k \in 1 .. n |-> [c \in G |-> Walk(c, elements[k], parse_pes)]]
             iter == CHOOSE f : WalkIter(f, base, elements, parse_pes, n)
  <1>1. n \in Nat /\ DOMAIN elements = 1 .. n /\ \A k \in 1 .. n : elements[k] \in E
    BY LenProperties, ElementOfSeq
  <1>2. Walked(base, elements, parse_pes) = iter[1 .. n]
    BY <1>1 DEF Walked, FoldLeft, MapThenFoldSet, WalkIter
  <1>3. \E f : WalkIter(f, base, elements, parse_pes, n)
    <2>1. step \in [1 .. n -> [G -> G]]
      BY <1>1
    <2>2. \A k \in 1 .. n : \A c \in G : step[k][c] = Walk(c, elements[k], parse_pes)
      OBVIOUS
    <2> HIDE DEF step, n, iter
    <2>3. PICK f \in [SUBSET (1 .. n) -> G] : Folds(f, base, step, n)
      BY <1>1, <2>1, FoldExists DEF HasFold
    <2>4. ASSUME NEW s \in SUBSET (1 .. n)
          PROVE  f[s] = IF s = {} THEN base
                        ELSE Walk(f[s \ {Max(s)}], elements[Max(s)], parse_pes)
      <3>1. f[s] = IF s = {} THEN base ELSE step[Max(s)][f[s \ {Max(s)}]]
        BY <2>3 DEF Folds
      <3>2. CASE s # {}
        <4>1. Max(s) \in 1 .. n
          BY <1>1, <3>2, LastPlace
        <4>2. f[s \ {Max(s)}] \in G
          BY <2>3
        <4> QED
          BY <2>2, <3>1, <3>2, <4>1, <4>2
      <3> QED
        BY <3>1, <3>2
    <2>5. f = [s \in SUBSET (1 .. n) |-> f[s]]
      BY <2>3
    <2>6. WalkIter(f, base, elements, parse_pes, n)
      BY <2>4, <2>5 DEF WalkIter
    <2> QED
      BY <2>6
  <1>4. WalkIter(iter, base, elements, parse_pes, n)
    BY <1>3
  <1> HIDE DEF iter, n, step
  <1> DEFINE T == {k \in Nat : k <= n => iter[1 .. k] \in G}
  <1>5. 0 \in T
    <2>1. 1 .. 0 \in SUBSET (1 .. n) /\ 1 .. 0 = {}
      OBVIOUS
    <2>2. iter[1 .. 0] = base
      BY <1>4, <2>1 DEF WalkIter
    <2> QED
      BY <2>2
  <1>6. ASSUME NEW k \in Nat, k \in T PROVE k + 1 \in T
    <2> SUFFICES ASSUME k + 1 <= n PROVE iter[1 .. k + 1] \in G
      OBVIOUS
    <2>1. iter[1 .. k + 1] = Walk(iter[1 .. k], elements[k + 1], parse_pes)
      <3>1. /\ 1 .. k + 1 \in SUBSET (1 .. n)
            /\ 1 .. k + 1 # {}
            /\ Max(1 .. k + 1) = k + 1
            /\ (1 .. k + 1) \ {Max(1 .. k + 1)} = 1 .. k
        BY <1>1, FirstPlaces
      <3> QED
        BY <1>4, <3>1 DEF WalkIter
    <2>2. iter[1 .. k] \in G /\ elements[k + 1] \in E
      BY <1>1, <1>6
    <2> QED
      BY <2>1, <2>2
  <1> HIDE DEF T
  <1>7. n \in T
    BY <1>1, <1>5, <1>6, NatSetInduction
  <1>8. iter[1 .. n] \in G
    BY <1>1, <1>7 DEF T
  <1> QED
    BY <1>2, <1>8 DEF iter, n

-----------------------------------------------------------------------------
(* Streams, and what vcd_mpeg_parse_packet finds at a place.               *)

\* Every element is one of the six kinds.
LEMMA ElementTypes ==
    ASSUME NEW e \in Elements
    PROVE  /\ e.at \in Nat
           /\ e.len \in Nat \ {0}
           /\ e.code \in {"pack", "pes", "system", "end", "zero", "junk"}
           /\ e.code \in {"pack", "pes", "system", "end"} => e.len >= CODE_SIZE
           /\ e.code = "pack" => e.version \in Nat
           /\ e.code = "pes" => /\ e.pts \in Nat \cup {NoPts}
                                /\ e.id \in VideoIds \cup AudioIds \cup OgtIds \cup {"be"}
                                /\ e.heads \in Seq(STRING)
           /\ e.code = "system" => e.ids \in SUBSET STRING
  <1>1. \A n \in Codes : n \in Nat \ {0} /\ n >= CODE_SIZE
    BY PacketAssumption DEF Codes
  <1>2. CASE e \in [at : Nat, code : {"pack"}, len : Codes, version : Nat]
    BY <1>1, <1>2
  <1>3. CASE e \in [at : Nat, code : {"pes"}, len : Codes, pts : Nat \cup {NoPts},
                    id : VideoIds \cup AudioIds \cup OgtIds \cup {"be"}, heads : Seq(STRING)]
    BY <1>1, <1>3
  <1>4. CASE e \in [at : Nat, code : {"system"}, len : Codes, ids : SUBSET STRING]
    BY <1>1, <1>4
  <1>5. CASE e \in [at : Nat, code : {"end"}, len : Codes]
    BY <1>1, <1>5
  <1>6. CASE e \in [at : Nat, code : {"zero", "junk"}, len : Nat \ {0}]
    BY <1>6
  <1> QED
    BY <1>2, <1>3, <1>4, <1>5, <1>6 DEF Elements

\* The elements lie one behind the other, from the start of the stream to its end.
LEMMA StreamPlaces ==
    ASSUME NEW f, IsStream(f)
    PROVE  /\ Len(f) \in Nat
           /\ DOMAIN f = 1 .. Len(f)
           /\ \A k \in 1 .. Len(f) :
                 /\ f[k] \in Elements
                 /\ f[k].at \in Nat
                 /\ f[k].len \in Nat \ {0}
                 /\ EndOf(f[k]) = f[k].at + f[k].len
                 /\ EndOf(f[k]) <= Length(f)
                 /\ k < Len(f) => f[k + 1].at = EndOf(f[k])
                 /\ k = 1 => f[k].at = 0
           /\ \A j, k \in 1 .. Len(f) : j < k => EndOf(f[j]) <= f[k].at
           /\ Length(f) \in Nat
           /\ Len(f) # 0 => Length(f) = EndOf(f[Len(f)])
           /\ Len(f) = 0 => Length(f) = 0
  <1>1. f \in Seq(Elements)
    BY DEF IsStream
  <1>2. Len(f) \in Nat /\ DOMAIN f = 1 .. Len(f) /\ \A k \in 1 .. Len(f) : f[k] \in Elements
    BY <1>1, LenProperties, ElementOfSeq
  <1>3. \A k \in 1 .. Len(f) :
            f[k].at \in Nat /\ f[k].len \in Nat \ {0} /\ EndOf(f[k]) = f[k].at + f[k].len
    BY <1>2, ElementTypes DEF EndOf
  <1>10. ASSUME NEW k \in 1 .. Len(f)
         PROVE  f[k].at \in Nat /\ EndOf(f[k]) \in Nat /\ EndOf(f[k]) >= f[k].at
    <2>1. f[k].at \in Nat /\ f[k].len \in Nat /\ EndOf(f[k]) = f[k].at + f[k].len
      BY <1>3
    <2> QED
      BY <2>1
  <1>11. Len(f) \in Nat
    BY <1>2
  <1>4. \A k \in 1 .. Len(f) : f[k].at = IF k = 1 THEN 0 ELSE EndOf(f[k - 1])
    BY <1>2 DEF IsStream
  <1>5. ASSUME NEW j \in 1 .. Len(f), NEW k \in 1 .. Len(f), j < k
        PROVE  EndOf(f[j]) <= f[k].at
    <2> DEFINE T == {m \in Nat : j + 1 + m <= Len(f) => EndOf(f[j]) <= f[j + 1 + m].at}
    <2>1. 0 \in T
      <3>1. j + 1 \in 1 .. Len(f) /\ j + 1 # 1 /\ j + 1 - 1 = j /\ j + 1 + 0 = j + 1
        BY <1>2, <1>5
      <3>2. PICK i \in 1 .. Len(f) : i = j + 1
        BY <3>1
      <3>3. f[i].at = EndOf(f[j])
        BY <1>4, <3>1, <3>2
      <3>4. EndOf(f[j]) <= f[j + 1 + 0].at
        BY <1>3, <3>1, <3>2, <3>3
      <3> QED
        BY <3>4
    <2>2. ASSUME NEW m \in Nat, m \in T PROVE m + 1 \in T
      <3> SUFFICES ASSUME j + 1 + (m + 1) <= Len(f)
                   PROVE  EndOf(f[j]) <= f[j + 1 + (m + 1)].at
        OBVIOUS
      <3>1. PICK i \in 1 .. Len(f) : i = j + 1 + m
        BY <1>2
      <3>2. PICK l \in 1 .. Len(f) : l = j + 1 + (m + 1) /\ l # 1 /\ l - 1 = i
        BY <1>2, <3>1
      <3>3. f[l].at = EndOf(f[i])
        BY <1>4, <3>2
      <3>4. j + 1 + m <= Len(f)
        BY <1>2
      <3>5. EndOf(f[j]) <= f[i].at
        BY <2>2, <3>1, <3>4
      <3>6. /\ EndOf(f[j]) \in Nat /\ f[i].at \in Nat /\ EndOf(f[i]) \in Nat
            /\ EndOf(f[i]) >= f[i].at
        BY <1>10
      <3>7. EndOf(f[j]) <= f[l].at
        BY <3>3, <3>5, <3>6
      <3> QED
        BY <3>2, <3>7
    <2> HIDE DEF T
    <2>3. k - (j + 1) \in Nat /\ j + 1 + (k - (j + 1)) = k
      BY <1>2, <1>5
    <2>4. PICK m \in Nat : m = k - (j + 1) /\ j + 1 + m = k
      BY <2>3
    <2>5. m \in T
      BY <2>1, <2>2, <2>4, NatSetInduction
    <2> QED
      BY <1>2, <2>4, <2>5 DEF T
  <1>6. ASSUME NEW k \in 1 .. Len(f), k < Len(f) PROVE f[k + 1].at = EndOf(f[k])
    <2>1. PICK i \in 1 .. Len(f) : i = k + 1 /\ i # 1 /\ i - 1 = k
      BY <1>2, <1>6
    <2> QED
      BY <1>4, <2>1
  <1>7. /\ Len(f) # 0 => Length(f) = EndOf(f[Len(f)])
        /\ Len(f) = 0 => Length(f) = 0
    BY <1>1, <1>2, EmptySeq DEF Length
  <1>8. Length(f) \in Nat
    <2>1. CASE Len(f) = 0
      BY <1>7, <2>1
    <2>2. CASE Len(f) # 0
      <3>1. Len(f) \in 1 .. Len(f)
        BY <1>2, <2>2
      <3> QED
        BY <1>3, <1>7, <3>1
    <2> QED
      BY <2>1, <2>2
  <1>9. ASSUME NEW k \in 1 .. Len(f) PROVE EndOf(f[k]) <= Length(f)
    <2>1. Len(f) \in 1 .. Len(f) /\ Len(f) # 0
      BY <1>2
    <2>2. CASE k = Len(f)
      BY <1>3, <1>7, <1>8, <2>1, <2>2
    <2>3. CASE k < Len(f)
      <3>1. EndOf(f[k]) <= f[Len(f)].at
        BY <1>5, <2>1, <2>3
      <3> QED
        BY <1>3, <1>7, <2>1, <3>1
    <2>4. k = Len(f) \/ k < Len(f)
      BY <1>11
    <2> QED
      BY <2>2, <2>3, <2>4
  <1> QED
    BY <1>2, <1>3, <1>4, <1>5, <1>6, <1>7, <1>8, <1>9

\* A set of places that is not empty has a first one.
LEMMA FirstPlace ==
    ASSUME NEW n \in Nat, NEW s \in SUBSET (1 .. n), s # {}
    PROVE  Min(s) \in s /\ \A y \in s : Min(s) <= y
  <1>1. s \subseteq Nat
    OBVIOUS
  <1>2. \E x \in s : \A y \in s : x <= y
    BY <1>1, LeastNat
  <1> QED
    BY <1>2 DEF Min

\* An element that begins at the place: the only one.
LEMMA ElementFound ==
    ASSUME NEW f, IsStream(f), NEW at \in Nat
    PROVE  \/ /\ ElementAt(f, at) \in 1 .. Len(f)
              /\ f[ElementAt(f, at)].at = at
           \/ /\ ElementAt(f, at) = 0
              /\ \A k \in 1 .. Len(f) : f[k].at # at
  <1>1. DOMAIN f = 1 .. Len(f)
    BY StreamPlaces
  <1> DEFINE here == {k \in 1 .. Len(f) : f[k].at = at}
  <1>2. ElementAt(f, at) = IF here = {} THEN 0 ELSE CHOOSE k \in here : TRUE
    BY <1>1 DEF ElementAt
  <1>3. CASE here = {}
    BY <1>2, <1>3
  <1>4. CASE here # {}
    <2>1. ElementAt(f, at) \in here
      BY <1>2, <1>4
    <2> QED
      BY <2>1
  <1> QED
    BY <1>3, <1>4

\* What is before a start code that is seen would be seen, and is in the buffer.
LEMMA SeenBefore ==
    ASSUME NEW x \in Int, NEW b \in Nat, CodeSeen(x, b)
    PROVE  /\ x <= b
           /\ \A y \in Int : y <= x => CodeSeen(y, b)
  BY PacketAssumption DEF CodeSeen

\* The loop of the walk stops behind the pack it begins with: where it sees no start
\* code any more, at the header of another pack, or at an element that does not fit.
LEMMA WalkStops ==
    ASSUME NEW f, IsStream(f), NEW at \in Nat, at < Length(f), NEW buflen,
           buflen = BufLen(f, at), NEW first \in 1 .. Len(f), f[first].at = at,
           f[first].code = "pack", NEW stop, stop = Stops(f, at, buflen)
    PROVE  /\ stop \in first + 1 .. Len(f) + 1
           /\ stop <= Len(f) =>
                 \/ ~CodeSeen(f[stop].at - at, buflen)
                 \/ f[stop].code = "pack"
                 \/ f[stop].code \in {"pes", "system"} /\ EndOf(f[stop]) > at + buflen
           /\ \A k \in first + 1 .. stop - 1 :
                 /\ f[k].code # "pack"
                 /\ f[k].code \in {"pes", "system"} => EndOf(f[k]) <= at + buflen
  <1>1. /\ Len(f) \in Nat
        /\ DOMAIN f = 1 .. Len(f)
        /\ Length(f) \in Nat
        /\ \A k \in 1 .. Len(f) :
              /\ f[k] \in Elements /\ f[k].at \in Nat /\ EndOf(f[k]) \in Nat
              /\ EndOf(f[k]) > f[k].at /\ EndOf(f[k]) <= Length(f)
        /\ \A j, k \in 1 .. Len(f) : j < k => EndOf(f[j]) <= f[k].at
    <2>1. \A k \in 1 .. Len(f) :
              f[k].at \in Nat /\ f[k].len \in Nat \ {0} /\ EndOf(f[k]) = f[k].at + f[k].len
      BY StreamPlaces
    <2>2. \A k \in 1 .. Len(f) : EndOf(f[k]) \in Nat /\ EndOf(f[k]) > f[k].at
      BY <2>1
    <2> QED
      BY <2>1, <2>2, StreamPlaces
  <1>2. f[first].len >= CODE_SIZE /\ f[first].len \in Nat /\ CODE_SIZE \in Nat /\ PACKET_SIZE \in Nat
        /\ PACKET_SIZE > CODE_SIZE
    BY <1>1, ElementTypes, PacketAssumption
  <1>3. buflen \in Nat /\ CODE_SIZE <= buflen /\ at + buflen <= Length(f)
    <2>1. at + f[first].len <= Length(f)
      BY <1>1 DEF EndOf
    <2> QED
      BY <1>1, <1>2, <2>1 DEF BufLen
  <1> DEFINE seen == {k \in 1 .. Len(f) : f[k].at >= at /\ CodeSeen(f[k].at - at, buflen)}
             stops == {k \in seen :
                         \/ f[k].code = "pack" /\ f[k].at # at
                         \/ f[k].code \in {"pes", "system"} /\ EndOf(f[k]) > at + buflen}
  <1>4. stop = IF stops = {} THEN Max(seen) + 1 ELSE Min(stops)
    BY <1>1 DEF Stops
  <1>5. first \in seen /\ first \notin stops
    BY <1>1, <1>2, <1>3 DEF CodeSeen
  <1>6. \A k \in seen : k >= first
    <2> SUFFICES ASSUME NEW k \in seen, k < first PROVE FALSE
      BY <1>1
    <2>1. EndOf(f[k]) <= f[first].at /\ EndOf(f[k]) > f[k].at /\ f[k].at >= at
      BY <1>1
    <2> QED
      BY <1>1, <2>1
  <1>7. \A k \in 1 .. Len(f) : k > first => f[k].at > at
    BY <1>1
  <1>8. ASSUME NEW k \in 1 .. Len(f), NEW j \in seen, first < k, k <= j PROVE k \in seen
    <2>1. f[k].at <= f[j].at
      BY <1>1, <1>8
    <2>2. f[k].at \in Nat /\ f[j].at \in Nat /\ CodeSeen(f[j].at - at, buflen) /\ f[k].at >= at
      BY <1>1, <1>7, <1>8
    <2>3. f[k].at - at \in Int /\ f[j].at - at \in Int /\ f[k].at - at <= f[j].at - at
      BY <2>1, <2>2
    <2>4. CodeSeen(f[k].at - at, buflen)
      BY <1>3, <2>2, <2>3, SeenBefore
    <2> QED
      BY <2>2, <2>4
  <1>9. CASE stops = {}
    <2> DEFINE last == Max(seen)
    <2>1. last \in seen /\ \A k \in seen : last >= k
      BY <1>1, <1>5, LastPlace
    <2>2. stop = last + 1 /\ last \in 1 .. Len(f) /\ last >= first
      BY <1>4, <1>6, <1>9, <2>1
    <2> HIDE DEF last
    <2>3. stop \in first + 1 .. Len(f) + 1
      BY <1>1, <2>2
    <2>4. ASSUME stop <= Len(f) PROVE ~CodeSeen(f[stop].at - at, buflen)
      <3>1. stop \in 1 .. Len(f) /\ stop > first
        BY <2>3, <2>4
      <3>2. f[stop].at > at /\ f[stop].at \in Nat
        BY <1>1, <1>7, <3>1
      <3>3. stop \notin seen
        BY <1>1, <2>1, <2>2
      <3> QED
        BY <3>1, <3>2, <3>3
    <2>5. ASSUME NEW k \in first + 1 .. stop - 1
          PROVE  /\ f[k].code # "pack"
                 /\ f[k].code \in {"pes", "system"} => EndOf(f[k]) <= at + buflen
      <3>1. k \in 1 .. Len(f) /\ first < k /\ k <= last
        BY <1>1, <2>2
      <3>2. k \in seen /\ k \notin stops
        BY <1>8, <1>9, <2>1, <3>1
      <3>3. f[k].at # at /\ f[k].at \in Nat /\ EndOf(f[k]) \in Nat
        BY <1>1, <1>7, <3>1
      <3> QED
        BY <1>3, <3>2, <3>3
    <2> QED
      BY <2>3, <2>4, <2>5
  <1>10. CASE stops # {}
    <2>1. stops \in SUBSET (1 .. Len(f))
      OBVIOUS
    <2>6. stop = Min(stops)
      BY <1>4, <1>10
    <2>7. Len(f) \in Nat
      BY <1>1
    <2> HIDE DEF stops
    <2>8. Min(stops) \in stops /\ \A k \in stops : Min(stops) <= k
      BY <1>10, <2>1, <2>7, FirstPlace
    <2>2. stop \in stops /\ \A k \in stops : stop <= k
      BY <2>6, <2>8
    <2> USE DEF stops
    <2>3. stop \in seen /\ stop \in 1 .. Len(f) /\ stop # first /\ stop >= first
      BY <1>5, <1>6, <2>2
    <2>4. stop \in first + 1 .. Len(f) + 1
      BY <1>1, <2>3
    <2>5. ASSUME NEW k \in first + 1 .. stop - 1
          PROVE  /\ f[k].code # "pack"
                 /\ f[k].code \in {"pes", "system"} => EndOf(f[k]) <= at + buflen
      <3>1. k \in 1 .. Len(f) /\ first < k /\ k <= stop
        BY <1>1, <2>3
      <3>2. k \in seen /\ k \notin stops
        BY <1>8, <2>2, <2>3, <3>1
      <3>3. f[k].at # at /\ f[k].at \in Nat /\ EndOf(f[k]) \in Nat
        BY <1>1, <1>7, <3>1
      <3> QED
        BY <1>3, <3>2, <3>3
    <2> QED
      BY <2>2, <2>4, <2>5
  <1> QED
    BY <1>9, <1>10

\* A packet is not longer than what was read of it; the elements that the walk
\* goes through are elements.
LEMMA LengthFits ==
    ASSUME NEW f, IsStream(f), NEW at \in Nat, at < Length(f)
    PROVE  /\ BufLen(f, at) \in Nat \ {0}
           /\ at + BufLen(f, at) <= Length(f)
           /\ FoundLength(f, at, BufLen(f, at)) \in 0 .. BufLen(f, at)
  <1>1. Length(f) \in Nat /\ PACKET_SIZE \in Nat \ {0}
    BY StreamPlaces, PacketAssumption
  <1> DEFINE buflen == BufLen(f, at)
             first == ElementAt(f, at)
             stop == Stops(f, at, buflen)
             found == FoundLength(f, at, buflen)
  <1>2. buflen \in Nat \ {0} /\ at + buflen <= Length(f)
    BY <1>1 DEF BufLen
  <1>3. found = IF \A k \in Within(f, at, buflen) : f[k].code = "zero" THEN buflen
                ELSE IF first = 0 \/ f[first].code # "pack" THEN 0
                ELSE IF stop > Len(f) \/ ~CodeSeen(f[stop].at - at, buflen) THEN buflen
                ELSE IF f[stop].code = "pack" THEN f[stop].at - at
                ELSE 0
    BY DEF FoundLength
  <1>4. CASE first # 0 /\ f[first].code = "pack" /\ ~(stop > Len(f))
             /\ CodeSeen(f[stop].at - at, buflen)
    <2>1. first \in 1 .. Len(f) /\ f[first].at = at
      BY <1>4, ElementFound
    <2>2. stop \in first + 1 .. Len(f) + 1
      <3> HIDE DEF first, stop
      <3>1. stop = Stops(f, at, buflen) /\ buflen = BufLen(f, at)
        BY DEF stop
      <3> HIDE DEF buflen
      <3> QED
        BY <1>4, <2>1, <3>1, WalkStops
    <2> HIDE DEF first, stop, found, buflen
    <2>3. stop \in 1 .. Len(f) /\ first < stop
      BY <1>4, <2>1, <2>2, StreamPlaces
    <2>4. f[stop].at \in Nat /\ f[first].len \in Nat /\ at + f[first].len <= f[stop].at
      <3>1. f[stop].at \in Nat /\ f[first].len \in Nat /\ EndOf(f[first]) <= f[stop].at
        BY <2>1, <2>3, StreamPlaces
      <3> QED
        BY <2>1, <3>1 DEF EndOf
    <2>5. f[stop].at - at \in 0 .. buflen
      <3>1. f[stop].at - at \in Nat
        BY <2>4
      <3>2. f[stop].at - at <= buflen
        BY <1>2, <1>4, <3>1, SeenBefore
      <3> QED
        BY <1>2, <3>1, <3>2
    <2> QED
      BY <1>2, <1>3, <2>5 DEF found, buflen
  <1>5. CASE ~(first # 0 /\ f[first].code = "pack" /\ ~(stop > Len(f))
               /\ CodeSeen(f[stop].at - at, buflen))
    <2> HIDE DEF first, stop, found, buflen
    <2>1. found \in {0, buflen}
      BY <1>3, <1>5
    <2> QED
      BY <1>2, <2>1 DEF found, buflen
  <1> QED
    BY <1>2, <1>4, <1>5

-----------------------------------------------------------------------------
(* What the elements of a packet do to the context.                        *)

\* c is what the packet makes of base: the lists are as they were, the times only
\* reach farther, an access point of the packet is the last of its stream.
Follows(c, base) ==
    /\ c.stream.aps_list = base.stream.aps_list
    /\ base.stream.seen_pts =>
          /\ c.stream.seen_pts
          /\ c.stream.min_pts <= base.stream.min_pts
          /\ base.stream.max_pts <= c.stream.max_pts
    /\ c.stream.seen_pts => c.stream.min_pts <= c.stream.max_pts
    /\ \A v \in 0 .. 2 : base.stream.last_aps_pts[v] <= c.stream.last_aps_pts[v]
    /\ c.packet.has_pts =>
          /\ c.stream.seen_pts
          /\ c.stream.min_pts <= c.packet.pts
          /\ c.packet.pts <= c.stream.max_pts
    /\ c.packet.aps # "none" =>
          /\ c.stream.seen_pts
          /\ c.stream.min_pts <= c.packet.aps_pts
          /\ c.packet.aps_pts <= c.stream.max_pts
          /\ c.packet.aps_pts = c.stream.last_aps_pts[c.packet.aps_idx]

\* A step of the walk from c to d keeps that, whatever it began with.
Advances(d, c) ==
    /\ d \in Contexts
    /\ d.stream.packets = c.stream.packets
    /\ \A base \in Contexts : Follows(c, base) => Follows(d, base)

\* Steps one after the other.
LEMMA AdvancesOn ==
    ASSUME NEW c, NEW d, NEW e, Advances(d, c), Advances(e, d)
    PROVE  Advances(e, c)
  BY DEF Advances

\* A step that leaves alone what Follows speaks of.
LEMMA AdvancesAside ==
    ASSUME NEW c \in Contexts, NEW d \in Contexts,
           d.stream.packets = c.stream.packets,
           d.stream.aps_list = c.stream.aps_list,
           d.stream.seen_pts = c.stream.seen_pts,
           d.stream.min_pts = c.stream.min_pts,
           d.stream.max_pts = c.stream.max_pts,
           d.stream.last_aps_pts = c.stream.last_aps_pts,
           d.packet.has_pts = c.packet.has_pts,
           d.packet.pts = c.packet.pts,
           d.packet.aps = c.packet.aps,
           d.packet.aps_idx = c.packet.aps_idx,
           d.packet.aps_pts = c.packet.aps_pts
    PROVE  Advances(d, c)
  BY DEF Advances, Follows

\* The parts of a context.
LEMMA ContextTypes ==
    ASSUME NEW c \in Contexts
    PROVE  /\ c.stream \in StreamInfo
           /\ c.packet \in PacketInfo
           /\ c = [stream |-> c.stream, packet |-> c.packet]
  BY DEF Contexts

\* One part replaced.
LEMMA PacketReplaced ==
    ASSUME NEW c \in Contexts, NEW p
    PROVE  [c EXCEPT !.packet = p] = [stream |-> c.stream, packet |-> p]
  BY DEF Contexts

LEMMA StreamReplaced ==
    ASSUME NEW c \in Contexts, NEW s
    PROVE  [c EXCEPT !.stream = s] = [stream |-> s, packet |-> c.packet]
  BY DEF Contexts

LEMMA PacketsReplaced ==
    ASSUME NEW s \in StreamInfo, NEW n \in Int
    PROVE  LET t == [s EXCEPT !.packets = n]
           IN  /\ t \in StreamInfo
               /\ t.packets = n
               /\ t.aps_list = s.aps_list
               /\ t.seen_pts = s.seen_pts
               /\ t.min_pts = s.min_pts
               /\ t.max_pts = s.max_pts
               /\ t.last_aps_pts = s.last_aps_pts
  BY DEF StreamInfo

\* PackHeader
LEMMA PackHeaderAdvances ==
    ASSUME NEW c \in Contexts, NEW e \in Elements, e.code = "pack"
    PROVE  Advances(PackHeader(c, e), c)
  <1> DEFINE d == PackHeader(c, e)
             version == IF c.stream.version = 0 THEN e.version ELSE c.stream.version
  <1>1. c.stream \in StreamInfo /\ c.packet \in PacketInfo
    BY ContextTypes
  <1>2. d = [stream |-> [c.stream EXCEPT !.version = version], packet |-> c.packet]
    BY DEF PackHeader, Contexts
  <1>3. version \in Nat
    BY <1>1, ElementTypes DEF StreamInfo
  <1> HIDE DEF d, version
  <1>4. [c.stream EXCEPT !.version = version] \in StreamInfo
    BY <1>1, <1>3 DEF StreamInfo
  <1>5. d \in Contexts
    BY <1>1, <1>2, <1>4 DEF Contexts
  <1>6. Advances(d, c)
    BY <1>1, <1>2, <1>5, AdvancesAside DEF StreamInfo
  <1> QED
    BY <1>6 DEF d

\* Registered
LEMMA RegisteredKeeps ==
    ASSUME NEW p \in PacketInfo, NEW ids, NEW q, q = Registered(p, ids)
    PROVE  /\ q \in PacketInfo
           /\ q.has_pts = p.has_pts /\ q.pts = p.pts
           /\ q.aps = p.aps /\ q.aps_idx = p.aps_idx /\ q.aps_pts = p.aps_pts
  <1>1. p.streams \cup (ids \cap (VideoIds \cup AudioIds)) \in SUBSET (VideoIds \cup AudioIds)
    BY DEF PacketInfo
  <1>2. (p.padding \/ "be" \in ids) \in BOOLEAN
    OBVIOUS
  <1> QED
    BY <1>1, <1>2 DEF PacketInfo, Registered

\* The system header.
LEMMA SystemAdvances ==
    ASSUME NEW c \in Contexts, NEW ids
    PROVE  Advances([c EXCEPT !.packet = [Registered(@, ids) EXCEPT !.system_header = TRUE]], c)
  <1> DEFINE d == [c EXCEPT !.packet = [Registered(@, ids) EXCEPT !.system_header = TRUE]]
  <1>1. c.stream \in StreamInfo /\ c.packet \in PacketInfo
    BY ContextTypes
  <1>2. PICK q \in PacketInfo :
            /\ q = Registered(c.packet, ids)
            /\ q.has_pts = c.packet.has_pts /\ q.pts = c.packet.pts
            /\ q.aps = c.packet.aps /\ q.aps_idx = c.packet.aps_idx
            /\ q.aps_pts = c.packet.aps_pts
    BY <1>1, RegisteredKeeps
  <1>3. d = [stream |-> c.stream, packet |-> [q EXCEPT !.system_header = TRUE]]
    <2> DEFINE p == [q EXCEPT !.system_header = TRUE]
    <2>1. d = [c EXCEPT !.packet = p]
      BY <1>2 DEF Contexts
    <2> HIDE DEF p, d
    <2>2. d = [stream |-> c.stream, packet |-> p]
      BY <2>1, PacketReplaced
    <2> QED
      BY <2>2 DEF p
  <1> HIDE DEF d
  <1>4. [q EXCEPT !.system_header = TRUE] \in PacketInfo
    BY DEF PacketInfo
  <1>5. d \in Contexts
    BY <1>1, <1>3, <1>4 DEF Contexts
  <1>6. Advances(d, c)
    BY <1>1, <1>2, <1>3, <1>5, AdvancesAside DEF PacketInfo
  <1> QED
    BY <1>6 DEF d

\* The program end.
LEMMA EndAdvances ==
    ASSUME NEW c \in Contexts
    PROVE  Advances([c EXCEPT !.packet.pem = TRUE], c)
  <1> DEFINE d == [c EXCEPT !.packet.pem = TRUE]
  <1>1. c.stream \in StreamInfo /\ c.packet \in PacketInfo
    BY ContextTypes
  <1>2. d = [stream |-> c.stream, packet |-> [c.packet EXCEPT !.pem = TRUE]]
    <2> DEFINE p == [c.packet EXCEPT !.pem = TRUE]
    <2>1. d = [c EXCEPT !.packet = p]
      BY DEF Contexts
    <2> HIDE DEF p, d
    <2>2. d = [stream |-> c.stream, packet |-> p]
      BY <2>1, PacketReplaced
    <2> QED
      BY <2>2 DEF p
  <1> HIDE DEF d
  <1>3. [c.packet EXCEPT !.pem = TRUE] \in PacketInfo
    BY <1>1 DEF PacketInfo
  <1>4. d \in Contexts
    BY <1>1, <1>2, <1>3 DEF Contexts
  <1>5. Advances(d, c)
    BY <1>1, <1>2, <1>4, AdvancesAside DEF PacketInfo
  <1> QED
    BY <1>5 DEF d

\* WithPts
LEMMA WithPtsAdvances ==
    ASSUME NEW c \in Contexts, NEW pts \in Nat \cup {NoPts}
    PROVE  Advances(WithPts(c, pts), c)
  <1>1. c.stream \in StreamInfo /\ c.packet \in PacketInfo
    BY ContextTypes
  <1>2. CASE pts = NoPts
    <2>1. WithPts(c, pts) = c
      BY <1>2 DEF WithPts
    <2> QED
      BY <2>1 DEF Advances
  <1>3. CASE pts # NoPts
    <2> DEFINE d == WithPts(c, pts)
               s == c.stream
               low == IF s.seen_pts /\ s.min_pts < pts THEN s.min_pts ELSE pts
               high == IF s.seen_pts /\ s.max_pts > pts THEN s.max_pts ELSE pts
    <2>1. pts \in Nat
      BY <1>3
    <2>2. d = [stream |-> [s EXCEPT !.seen_pts = TRUE, !.min_pts = low, !.max_pts = high],
               packet |-> [c.packet EXCEPT !.has_pts = TRUE, !.pts = pts]]
      BY <1>3 DEF WithPts
    <2>3. /\ s.min_pts \in Nat /\ s.max_pts \in Nat /\ s.seen_pts \in BOOLEAN
          /\ low \in Nat /\ high \in Nat /\ low <= pts /\ pts <= high
          /\ s.seen_pts => low <= s.min_pts /\ s.max_pts <= high
      <3>1. s.min_pts \in Nat /\ s.max_pts \in Nat /\ s.seen_pts \in BOOLEAN
        BY <1>1 DEF StreamInfo
      <3>2. low \in Nat /\ low <= pts /\ (s.seen_pts => low <= s.min_pts)
        BY <2>1, <3>1
      <3>3. high \in Nat /\ pts <= high /\ (s.seen_pts => s.max_pts <= high)
        BY <2>1, <3>1
      <3> QED
        BY <3>1, <3>2, <3>3
    <2> HIDE DEF low, high, d
    <2>4. /\ [s EXCEPT !.seen_pts = TRUE, !.min_pts = low, !.max_pts = high] \in StreamInfo
          /\ [c.packet EXCEPT !.has_pts = TRUE, !.pts = pts] \in PacketInfo
      BY <1>1, <2>1, <2>3 DEF StreamInfo, PacketInfo
    <2>5. d \in Contexts
      BY <2>2, <2>4 DEF Contexts
    <2>6. /\ d.stream.packets = s.packets
          /\ d.stream.aps_list = s.aps_list
          /\ d.stream.seen_pts
          /\ d.stream.min_pts = low
          /\ d.stream.max_pts = high
          /\ d.stream.last_aps_pts = s.last_aps_pts
          /\ d.packet.has_pts
          /\ d.packet.pts = pts
          /\ d.packet.aps = c.packet.aps
          /\ d.packet.aps_idx = c.packet.aps_idx
          /\ d.packet.aps_pts = c.packet.aps_pts
      BY <1>1, <2>2 DEF StreamInfo, PacketInfo
    <2>7. ASSUME NEW base \in Contexts, Follows(c, base) PROVE Follows(d, base)
      <3>1. base.stream.min_pts \in Nat /\ base.stream.max_pts \in Nat /\ c.packet.aps_pts \in Nat
        BY <1>1, ContextTypes DEF StreamInfo, PacketInfo
      <3>2. base.stream.seen_pts =>
                low <= base.stream.min_pts /\ base.stream.max_pts <= high
        BY <2>3, <2>7, <3>1 DEF Follows
      <3>3. c.packet.aps # "none" =>
                low <= c.packet.aps_pts /\ c.packet.aps_pts <= high
        BY <2>3, <2>7, <3>1 DEF Follows
      <3>4. low <= high
        BY <2>1, <2>3
      <3> QED
        BY <2>3, <2>6, <2>7, <3>2, <3>3, <3>4 DEF Follows
    <2>8. Advances(d, c)
      BY <2>5, <2>6, <2>7 DEF Advances
    <2> QED
      BY <2>8 DEF d
  <1> QED
    BY <1>2, <1>3

\* WithHeads
LEMMA WithHeadsAdvances ==
    ASSUME NEW c \in Contexts, NEW id \in VideoIds, NEW heads \in Seq(STRING)
    PROVE  Advances(WithHeads(c, id, heads), c)
  <1> DEFINE d == WithHeads(c, id, heads)
             places == {k \in DOMAIN heads : heads[k] = "scan"}
             seen == IF LastHead(heads, "sequence") # -1 THEN c.stream.seen \cup {id}
                     ELSE c.stream.seen
             scans == c.stream.scan_data + Cardinality(places)
             gop == c.packet.gop \/ LastHead(heads, "gop") # -1
             scan == c.packet.scan_data \/ LastHead(heads, "scan") # -1
  <1>1. c.stream \in StreamInfo /\ c.packet \in PacketInfo
    BY ContextTypes
  <1>2. d = [stream |-> [c.stream EXCEPT !.seen = seen, !.scan_data = scans],
             packet |-> [c.packet EXCEPT !.gop = gop, !.scan_data = scan]]
    BY DEF WithHeads
  <1>3. Cardinality(places) \in Nat
    <2>1. DOMAIN heads = 1 .. Len(heads) /\ Len(heads) \in Nat
      BY LenProperties
    <2>2. IsFiniteSet(1 .. Len(heads))
      BY <2>1, FS_Interval
    <2>3. IsFiniteSet(places)
      BY <2>1, <2>2, FS_Subset
    <2> QED
      BY <2>3, FS_CardinalityType
  <1>4. scans \in Nat /\ seen \in SUBSET (VideoIds \cup AudioIds)
    <2>1. c.stream.scan_data \in Nat /\ c.stream.seen \in SUBSET (VideoIds \cup AudioIds)
      BY <1>1 DEF StreamInfo
    <2> HIDE DEF places
    <2>2. scans \in Nat
      BY <1>3, <2>1
    <2>3. seen \in SUBSET (VideoIds \cup AudioIds)
      BY <2>1
    <2> QED
      BY <2>2, <2>3
  <1>5. gop \in BOOLEAN /\ scan \in BOOLEAN
    BY <1>1 DEF PacketInfo
  <1> HIDE DEF d, places, seen, scans, gop, scan
  <1>6. /\ [c.stream EXCEPT !.seen = seen, !.scan_data = scans] \in StreamInfo
        /\ [c.packet EXCEPT !.gop = gop, !.scan_data = scan] \in PacketInfo
    BY <1>1, <1>4, <1>5 DEF StreamInfo, PacketInfo
  <1>7. d \in Contexts
    BY <1>2, <1>6 DEF Contexts
  <1>8. Advances(d, c)
    BY <1>1, <1>2, <1>7, AdvancesAside DEF StreamInfo, PacketInfo
  <1> QED
    BY <1>8 DEF d

\* ApsType
LEMMA ApsTypes ==
    ASSUME NEW c \in Contexts, NEW heads
    PROVE  /\ ApsType(c, heads) \in {"none", "I", "GI", "SGI", "ASGI"}
           /\ ApsType(c, heads) # "none" => c.packet.has_pts
  BY DEF ApsType

\* WithAps
LEMMA WithApsAdvances ==
    ASSUME NEW c \in Contexts, NEW type \in {"none", "I", "GI", "SGI", "ASGI"}, NEW v \in 0 .. 2,
           type # "none" => c.packet.has_pts
    PROVE  Advances(WithAps(c, type, v), c)
  <1> DEFINE d == WithAps(c, type, v)
             s == c.stream
             p == c.packet
             last == [s.last_aps_pts EXCEPT ![v] = p.pts]
  <1>1. s \in StreamInfo /\ p \in PacketInfo
    BY ContextTypes
  <1>2. /\ s.last_aps_pts \in [0 .. 2 -> Nat] /\ p.pts \in Nat
        /\ s.min_pts \in Nat /\ s.max_pts \in Nat
    BY <1>1 DEF StreamInfo, PacketInfo
  <1>3. CASE type = "none" \/ s.last_aps_pts[v] > p.pts
    <2>1. d = [stream |-> s, packet |-> [p EXCEPT !.aps = "none"]]
      <3> DEFINE q == [p EXCEPT !.aps = "none"]
      <3>1. d = [c EXCEPT !.packet = q]
        BY <1>3 DEF WithAps, Contexts
      <3> HIDE DEF q, d
      <3>2. d = [stream |-> s, packet |-> q]
        BY <3>1, PacketReplaced
      <3> QED
        BY <3>2 DEF q
    <2> HIDE DEF d
    <2>2. [p EXCEPT !.aps = "none"] \in PacketInfo
      BY <1>1 DEF PacketInfo
    <2>3. d \in Contexts
      BY <1>1, <2>1, <2>2 DEF Contexts
    <2>4. /\ d.stream = s
          /\ d.packet.has_pts = p.has_pts
          /\ d.packet.pts = p.pts
          /\ d.packet.aps = "none"
      BY <1>1, <2>1 DEF PacketInfo
    <2>5. Advances(d, c)
      BY <2>3, <2>4 DEF Advances, Follows
    <2> QED
      BY <2>5 DEF d
  <1>4. CASE type # "none" /\ ~(s.last_aps_pts[v] > p.pts)
    <2>1. d = [stream |-> [s EXCEPT !.last_aps_pts = last],
               packet |-> [p EXCEPT !.aps = type, !.aps_idx = v, !.aps_pts = p.pts]]
      BY <1>1, <1>4 DEF WithAps, StreamInfo
    <2>2. /\ last \in [0 .. 2 -> Nat]
          /\ last[v] = p.pts
          /\ \A w \in 0 .. 2 : s.last_aps_pts[w] <= last[w]
      BY <1>2, <1>4
    <2> HIDE DEF d, last
    <2>3. /\ [s EXCEPT !.last_aps_pts = last] \in StreamInfo
          /\ [p EXCEPT !.aps = type, !.aps_idx = v, !.aps_pts = p.pts] \in PacketInfo
      BY <1>1, <1>2, <2>2 DEF StreamInfo, PacketInfo
    <2>4. d \in Contexts
      BY <2>1, <2>3 DEF Contexts
    <2>5. /\ d.stream.packets = s.packets
          /\ d.stream.aps_list = s.aps_list
          /\ d.stream.seen_pts = s.seen_pts
          /\ d.stream.min_pts = s.min_pts
          /\ d.stream.max_pts = s.max_pts
          /\ d.stream.last_aps_pts = last
          /\ d.packet.has_pts = p.has_pts
          /\ d.packet.pts = p.pts
          /\ d.packet.aps_idx = v
          /\ d.packet.aps_pts = p.pts
      BY <1>1, <2>1 DEF StreamInfo, PacketInfo
    <2>6. ASSUME NEW base \in Contexts, Follows(c, base) PROVE Follows(d, base)
      <3>1. base.stream.last_aps_pts \in [0 .. 2 -> Nat]
        BY ContextTypes DEF StreamInfo
      <3>2. \A w \in 0 .. 2 : base.stream.last_aps_pts[w] <= last[w]
        <4> SUFFICES ASSUME NEW w \in 0 .. 2 PROVE base.stream.last_aps_pts[w] <= last[w]
          OBVIOUS
        <4>1. base.stream.last_aps_pts[w] <= s.last_aps_pts[w] /\ s.last_aps_pts[w] <= last[w]
          BY <2>2, <2>6 DEF Follows
        <4>2. base.stream.last_aps_pts[w] \in Nat /\ s.last_aps_pts[w] \in Nat /\ last[w] \in Nat
          BY <1>2, <2>2, <3>1
        <4> QED
          BY <4>1, <4>2
      <3> QED
        BY <1>4, <2>2, <2>5, <2>6, <3>2 DEF Follows
    <2>7. Advances(d, c)
      BY <2>4, <2>5, <2>6 DEF Advances
    <2> QED
      BY <2>7 DEF d
  <1> QED
    BY <1>3, <1>4

\* Pes, of every kind.
LEMMA VideoAdvances ==
    ASSUME NEW c \in Contexts, NEW e \in Elements, e.code = "pes", e.id \in VideoIds,
           NEW only_pts \in BOOLEAN
    PROVE  Advances(VideoPes(c, e, only_pts), c)
  <1> DEFINE timed == WithPts(c, e.pts)
             read == WithHeads(timed, e.id, e.heads)
             point == WithAps(read, ApsType(read, e.heads), VidIdx(e.id))
  <1>1. e.pts \in Nat \cup {NoPts} /\ e.heads \in Seq(STRING)
    BY ElementTypes
  <1>2. Advances(timed, c) /\ timed \in Contexts
    BY <1>1, WithPtsAdvances DEF Advances
  <1>3. VidIdx(e.id) \in 0 .. 2
    BY DEF VidIdx, VideoIds
  <1>4. VideoPes(c, e, only_pts) = IF only_pts THEN timed ELSE point
    BY DEF VideoPes
  <1> HIDE DEF timed
  <1>5. Advances(read, timed) /\ read \in Contexts
    BY <1>1, <1>2, WithHeadsAdvances DEF Advances
  <1> HIDE DEF read
  <1>6. Advances(point, read)
    <2>1. /\ ApsType(read, e.heads) \in {"none", "I", "GI", "SGI", "ASGI"}
          /\ ApsType(read, e.heads) # "none" => read.packet.has_pts
      BY <1>5, ApsTypes
    <2> QED
      BY <1>3, <1>5, <2>1, WithApsAdvances
  <1> HIDE DEF point
  <1>7. Advances(point, c)
    BY <1>2, <1>5, <1>6, AdvancesOn
  <1> QED
    BY <1>2, <1>4, <1>7

LEMMA AudioAdvances ==
    ASSUME NEW c \in Contexts, NEW e \in Elements, e.code = "pes", e.id \in AudioIds,
           NEW only_pts \in BOOLEAN
    PROVE  Advances(AudioPes(c, e, only_pts), c)
  <1> DEFINE timed == WithPts(c, e.pts)
             d == [timed EXCEPT !.stream.seen = @ \cup {e.id}]
  <1>1. Advances(timed, c) /\ timed \in Contexts
    BY ElementTypes, WithPtsAdvances DEF Advances
  <1>2. AudioPes(c, e, only_pts) = IF only_pts THEN timed ELSE d
    BY DEF AudioPes
  <1> HIDE DEF timed
  <1>3. timed.stream \in StreamInfo /\ timed.packet \in PacketInfo
    BY <1>1, ContextTypes
  <1>4. d = [stream |-> [timed.stream EXCEPT !.seen = timed.stream.seen \cup {e.id}],
             packet |-> timed.packet]
    <2> DEFINE s == [timed.stream EXCEPT !.seen = timed.stream.seen \cup {e.id}]
    <2>1. d = [timed EXCEPT !.stream = s]
      BY <1>1 DEF Contexts
    <2> HIDE DEF s, d
    <2>2. d = [stream |-> s, packet |-> timed.packet]
      BY <1>1, <2>1, StreamReplaced
    <2> QED
      BY <2>2 DEF s
  <1> HIDE DEF d
  <1>5. [timed.stream EXCEPT !.seen = timed.stream.seen \cup {e.id}] \in StreamInfo
    <2>1. timed.stream.seen \cup {e.id} \in SUBSET (VideoIds \cup AudioIds)
      BY <1>3 DEF StreamInfo
    <2> QED
      BY <1>3, <2>1 DEF StreamInfo
  <1>6. d \in Contexts
    BY <1>3, <1>4, <1>5 DEF Contexts
  <1>7. Advances(d, timed)
    BY <1>1, <1>3, <1>4, <1>6, AdvancesAside DEF StreamInfo
  <1>8. Advances(d, c)
    BY <1>1, <1>7, AdvancesOn
  <1> QED
    BY <1>1, <1>2, <1>8

LEMMA PrivateAdvances ==
    ASSUME NEW c \in Contexts, NEW e \in Elements, e.code = "pes", e.id \in OgtIds
    PROVE  Advances(PrivatePes(c, e), c)
  <1> DEFINE timed == WithPts(c, e.pts)
             s == [timed.stream EXCEPT !.ogt = timed.stream.ogt \cup {e.id}]
             p == [timed.packet EXCEPT !.ogt = timed.packet.ogt \cup {e.id}]
             d == PrivatePes(c, e)
  <1>1. Advances(timed, c) /\ timed \in Contexts
    BY ElementTypes, WithPtsAdvances DEF Advances
  <1>2. d = [timed EXCEPT !.stream.ogt = @ \cup {e.id}, !.packet.ogt = @ \cup {e.id}]
    BY DEF PrivatePes
  <1> HIDE DEF timed, d
  <1>3. timed.stream \in StreamInfo /\ timed.packet \in PacketInfo
    BY <1>1, ContextTypes
  <1>4. d = [stream |-> s, packet |-> p]
    <2>1. d = [[timed EXCEPT !.stream = s] EXCEPT !.packet = p]
      BY <1>1, <1>2 DEF Contexts
    <2> HIDE DEF s, p
    <2> QED
      BY <1>1, <2>1 DEF Contexts
  <1>5. s \in StreamInfo /\ p \in PacketInfo
    <2>1. timed.stream.ogt \cup {e.id} \in SUBSET OgtIds
      BY <1>3 DEF StreamInfo
    <2>2. timed.packet.ogt \cup {e.id} \in SUBSET OgtIds
      BY <1>3 DEF PacketInfo
    <2> QED
      BY <1>3, <2>1, <2>2 DEF StreamInfo, PacketInfo
  <1>6. d \in Contexts
    BY <1>4, <1>5 DEF Contexts
  <1>7. Advances(d, timed)
    BY <1>1, <1>3, <1>4, <1>6, AdvancesAside DEF StreamInfo, PacketInfo
  <1>8. Advances(d, c)
    BY <1>1, <1>7, AdvancesOn
  <1> QED
    BY <1>8 DEF d

LEMMA PesAdvances ==
    ASSUME NEW c \in Contexts, NEW e \in Elements, e.code = "pes", NEW parse_pes \in BOOLEAN
    PROVE  Advances(Pes(c, e, parse_pes), c)
  <1> DEFINE known == [c EXCEPT !.packet = Registered(@, {e.id})]
  <1>1. Advances(known, c) /\ known \in Contexts
    <2>1. c.stream \in StreamInfo /\ c.packet \in PacketInfo
      BY ContextTypes
    <2>2. PICK q \in PacketInfo :
              /\ q = Registered(c.packet, {e.id})
              /\ q.has_pts = c.packet.has_pts /\ q.pts = c.packet.pts
              /\ q.aps = c.packet.aps /\ q.aps_idx = c.packet.aps_idx
              /\ q.aps_pts = c.packet.aps_pts
      BY <2>1, RegisteredKeeps
    <2>3. known = [c EXCEPT !.packet = q]
      BY <2>2 DEF Contexts
    <2> HIDE DEF known
    <2>4. known = [stream |-> c.stream, packet |-> q]
      BY <2>3, PacketReplaced
    <2>5. known \in Contexts
      BY <2>1, <2>4 DEF Contexts
    <2>6. Advances(known, c)
      BY <2>2, <2>4, <2>5, AdvancesAside
    <2> QED
      BY <2>5, <2>6
  <1>2. Pes(c, e, parse_pes) =
          CASE e.id \in VideoIds -> VideoPes(known, e, ~parse_pes)
            [] e.id \in AudioIds -> AudioPes(known, e, ~parse_pes)
            [] e.id \in OgtIds -> PrivatePes(known, e)
            [] e.id = "be" -> known
    BY DEF Pes
  <1> HIDE DEF known
  <1>3. e.id \in VideoIds \cup AudioIds \cup OgtIds \cup {"be"}
    BY ElementTypes
  <1>4. PICK only_pts \in BOOLEAN : only_pts = ~parse_pes
    OBVIOUS
  <1>5. CASE e.id \in VideoIds
    <2>1. Pes(c, e, parse_pes) = VideoPes(known, e, only_pts)
      BY <1>2, <1>4, <1>5 DEF VideoIds, AudioIds, OgtIds
    <2>2. Advances(VideoPes(known, e, only_pts), known)
      BY <1>1, <1>5, VideoAdvances
    <2> QED
      BY <1>1, <2>1, <2>2, AdvancesOn
  <1>6. CASE e.id \in AudioIds
    <2>1. Pes(c, e, parse_pes) = AudioPes(known, e, only_pts)
      BY <1>2, <1>4, <1>6 DEF VideoIds, AudioIds, OgtIds
    <2>2. Advances(AudioPes(known, e, only_pts), known)
      BY <1>1, <1>6, AudioAdvances
    <2> QED
      BY <1>1, <2>1, <2>2, AdvancesOn
  <1>7. CASE e.id \in OgtIds
    <2>1. Pes(c, e, parse_pes) = PrivatePes(known, e)
      BY <1>2, <1>7 DEF VideoIds, AudioIds, OgtIds
    <2> QED
      BY <1>1, <1>7, <2>1, PrivateAdvances, AdvancesOn
  <1>8. CASE e.id = "be"
    <2>1. Pes(c, e, parse_pes) = known
      BY <1>2, <1>8 DEF VideoIds, AudioIds, OgtIds
    <2> QED
      BY <1>1, <2>1
  <1> QED
    BY <1>3, <1>5, <1>6, <1>7, <1>8

\* Every element.
LEMMA WalkAdvances ==
    ASSUME NEW c \in Contexts, NEW e \in Elements, NEW parse_pes \in BOOLEAN
    PROVE  Advances(Walk(c, e, parse_pes), c)
  <1>1. e.code \in {"pack", "pes", "system", "end", "zero", "junk"}
    BY ElementTypes
  <1>2. CASE e.code = "pack"
    <2>1. Walk(c, e, parse_pes) = PackHeader(c, e)
      BY <1>2 DEF Walk
    <2> QED
      BY <1>2, <2>1, PackHeaderAdvances
  <1>3. CASE e.code = "pes"
    <2>1. Walk(c, e, parse_pes) = Pes(c, e, parse_pes)
      BY <1>3 DEF Walk
    <2> QED
      BY <1>3, <2>1, PesAdvances
  <1>4. CASE e.code = "system"
    <2>1. Walk(c, e, parse_pes) =
            [c EXCEPT !.packet = [Registered(@, e.ids) EXCEPT !.system_header = TRUE]]
      BY <1>4 DEF Walk
    <2> QED
      BY <2>1, SystemAdvances
  <1>5. CASE e.code = "end"
    <2>1. Walk(c, e, parse_pes) = [c EXCEPT !.packet.pem = TRUE]
      BY <1>5 DEF Walk
    <2> QED
      BY <2>1, EndAdvances
  <1>6. CASE e.code \in {"zero", "junk"}
    <2>1. Walk(c, e, parse_pes) = c
      BY <1>6 DEF Walk
    <2> QED
      BY <2>1 DEF Advances
  <1> QED
    BY <1>1, <1>2, <1>3, <1>4, <1>5, <1>6

\* All elements: a walk from a context gives one that advances from it.
LEMMA WalkedAdvances ==
    ASSUME NEW c \in Contexts, NEW elements \in Seq(Elements), NEW parse_pes \in BOOLEAN
    PROVE  Advances(Walked(c, elements, parse_pes), c)
  <1> DEFINE G == {d \in Contexts : Advances(d, c)}
  <1>1. c \in G
    BY DEF Advances
  <1>2. ASSUME NEW d \in G, NEW e \in Elements PROVE Walk(d, e, parse_pes) \in G
    <2>1. Advances(Walk(d, e, parse_pes), d)
      BY WalkAdvances
    <2>2. Advances(Walk(d, e, parse_pes), c)
      BY <2>1, AdvancesOn
    <2> QED
      BY <2>2 DEF Advances
  <1> HIDE DEF G
  <1>3. Walked(c, elements, parse_pes) \in G
    BY <1>1, <1>2, WalkKeeps
  <1> QED
    BY <1>3 DEF G

\* vcd_mpeg_parse_packet: the length does not depend on the context or on what is
\* parsed; a good packet is counted, a bad one is not.
LEMMA PacketParsed ==
    ASSUME NEW f, IsStream(f), NEW at \in Nat, at < Length(f), NEW parse_pes \in BOOLEAN,
           NEW c \in Contexts, NEW p,
           p = ParsePacket(f, at, BufLen(f, at), parse_pes, c)
    PROVE  /\ p.ret = FoundLength(f, at, BufLen(f, at))
           /\ p.ctx \in Contexts
           /\ p.ctx.stream.packets = c.stream.packets + (IF p.ret = 0 THEN 0 ELSE 1)
           /\ (c.stream.seen_pts => c.stream.min_pts <= c.stream.max_pts) => Follows(p.ctx, c)
  <1> DEFINE buflen == BufLen(f, at)
             counted == [stream |-> [c.stream EXCEPT !.packets = @ + 1], packet |-> NoPacket]
             first == ElementAt(f, at)
             stop == Stops(f, at, buflen)
             all_seen == stop > Len(f) \/ ~CodeSeen(f[stop].at - at, buflen)
             walked == Walked(counted, SubSeq(f, first, stop - 1), parse_pes)
             zeros == \A k \in Within(f, at, buflen) : f[k].code = "zero"
             zero == [counted EXCEPT !.packet.zero = TRUE]
             found == FoundLength(f, at, buflen)
             ordered == c.stream.seen_pts => c.stream.min_pts <= c.stream.max_pts
  <1>1. p = IF zeros THEN [ret |-> buflen, ctx |-> zero]
            ELSE IF first = 0 \/ f[first].code # "pack"
            THEN [ret |-> 0, ctx |-> Uncounted(counted)]
            ELSE IF all_seen THEN [ret |-> buflen, ctx |-> walked]
            ELSE IF f[stop].code = "pack"
            THEN [ret |-> f[stop].at - at, ctx |-> walked]
            ELSE [ret |-> 0, ctx |-> Uncounted(walked)]
    BY DEF ParsePacket
  <1>2. found = IF zeros THEN buflen
                ELSE IF first = 0 \/ f[first].code # "pack" THEN 0
                ELSE IF all_seen THEN buflen
                ELSE IF f[stop].code = "pack" THEN f[stop].at - at
                ELSE 0
    BY DEF FoundLength
  <1>3. buflen \in Nat \ {0}
    BY LengthFits
  <1>4. c.stream \in StreamInfo /\ c.stream.packets \in Int
    BY ContextTypes DEF StreamInfo
  <1>5. NoPacket \in PacketInfo /\ NoPacket.has_pts = FALSE /\ NoPacket.aps = "none"
    BY DEF NoPacket, PacketInfo
  <1>6. /\ counted \in Contexts
        /\ counted.stream.packets = c.stream.packets + 1
        /\ counted.stream.aps_list = c.stream.aps_list
        /\ counted.stream.seen_pts = c.stream.seen_pts
        /\ counted.stream.min_pts = c.stream.min_pts
        /\ counted.stream.max_pts = c.stream.max_pts
        /\ counted.stream.last_aps_pts = c.stream.last_aps_pts
        /\ counted.packet = NoPacket
    <2>1. PICK t \in StreamInfo :
              /\ t = [c.stream EXCEPT !.packets = c.stream.packets + 1]
              /\ t.packets = c.stream.packets + 1
              /\ t.aps_list = c.stream.aps_list
              /\ t.seen_pts = c.stream.seen_pts
              /\ t.min_pts = c.stream.min_pts
              /\ t.max_pts = c.stream.max_pts
              /\ t.last_aps_pts = c.stream.last_aps_pts
      <3>1. c.stream.packets + 1 \in Int
        BY <1>4
      <3>2. PICK n \in Int : n = c.stream.packets + 1
        BY <3>1
      <3>3. PICK r \in StreamInfo : r = c.stream
        BY <1>4
      <3>4. /\ [r EXCEPT !.packets = n] \in StreamInfo
            /\ [r EXCEPT !.packets = n].packets = n
            /\ [r EXCEPT !.packets = n].aps_list = r.aps_list
            /\ [r EXCEPT !.packets = n].seen_pts = r.seen_pts
            /\ [r EXCEPT !.packets = n].min_pts = r.min_pts
            /\ [r EXCEPT !.packets = n].max_pts = r.max_pts
            /\ [r EXCEPT !.packets = n].last_aps_pts = r.last_aps_pts
        BY PacketsReplaced
      <3>5. [r EXCEPT !.packets = n] = [c.stream EXCEPT !.packets = c.stream.packets + 1]
        BY <3>2, <3>3
      <3> QED
        BY <3>2, <3>3, <3>4, <3>5
    <2>2. counted = [stream |-> t, packet |-> NoPacket]
      BY <2>1
    <2> HIDE DEF counted
    <2>3. counted \in Contexts
      BY <1>5, <2>2 DEF Contexts
    <2> QED
      BY <2>1, <2>2, <2>3
  <1> HIDE DEF counted
  <1>7. ordered => Follows(counted, c)
    <2>1. \A v \in 0 .. 2 : c.stream.last_aps_pts[v] <= c.stream.last_aps_pts[v]
      <3>1. c.stream.last_aps_pts \in [0 .. 2 -> Nat]
        BY <1>4 DEF StreamInfo
      <3>2. \A v \in 0 .. 2 : c.stream.last_aps_pts[v] \in Nat
        BY <3>1
      <3> QED
        BY <3>2
    <2>2. c.stream.min_pts \in Nat /\ c.stream.max_pts \in Nat
      BY <1>4 DEF StreamInfo
    <2> QED
      BY <1>5, <1>6, <2>1, <2>2 DEF Follows
  <1>8. /\ zero \in Contexts
        /\ zero.stream = counted.stream
        /\ ordered => Follows(zero, c)
    <2> DEFINE q == [NoPacket EXCEPT !.zero = TRUE]
    <2>1. zero = [counted EXCEPT !.packet = q]
      BY <1>6 DEF Contexts
    <2>2. q \in PacketInfo /\ q.has_pts = FALSE /\ q.aps = "none"
      BY <1>5 DEF PacketInfo
    <2> HIDE DEF zero, q
    <2>3. zero = [stream |-> counted.stream, packet |-> q]
      BY <1>6, <2>1, PacketReplaced
    <2>4. zero \in Contexts
      BY <1>6, <2>2, <2>3, ContextTypes DEF Contexts
    <2>5. ordered => Follows(zero, c)
      BY <1>7, <2>2, <2>3 DEF Follows
    <2> QED
      BY <2>3, <2>4, <2>5
  <1>9. ASSUME NEW d \in Contexts, ordered => Follows(d, c)
        PROVE  /\ Uncounted(d) \in Contexts
               /\ Uncounted(d).stream.packets = d.stream.packets - 1
               /\ ordered => Follows(Uncounted(d), c)
    <2> DEFINE s == [d.stream EXCEPT !.packets = @ - 1]
               u == Uncounted(d)
    <2>1. u = [d EXCEPT !.stream = s]
      BY DEF Uncounted, Contexts
    <2>2. d.stream \in StreamInfo /\ d.packet \in PacketInfo
      BY ContextTypes
    <2>3. /\ s \in StreamInfo
          /\ s.packets = d.stream.packets - 1
          /\ s.aps_list = d.stream.aps_list
          /\ s.seen_pts = d.stream.seen_pts
          /\ s.min_pts = d.stream.min_pts
          /\ s.max_pts = d.stream.max_pts
          /\ s.last_aps_pts = d.stream.last_aps_pts
      <3>1. d.stream.packets - 1 \in Int
        BY <2>2 DEF StreamInfo
      <3>2. PICK m \in Int : m = d.stream.packets - 1
        BY <3>1
      <3>3. PICK r \in StreamInfo : r = d.stream
        BY <2>2
      <3>4. s = [r EXCEPT !.packets = m]
        BY <3>2, <3>3
      <3> HIDE DEF s
      <3>5. s \in StreamInfo /\ s.packets = m /\ s.aps_list = r.aps_list /\ s.seen_pts = r.seen_pts
        BY <3>4, PacketsReplaced
      <3>6. s.min_pts = r.min_pts /\ s.max_pts = r.max_pts /\ s.last_aps_pts = r.last_aps_pts
        BY <3>4, PacketsReplaced
      <3> QED
        BY <3>2, <3>3, <3>5, <3>6
    <2> HIDE DEF s, u
    <2>4. u = [stream |-> s, packet |-> d.packet]
      BY <2>1, StreamReplaced
    <2>5. u \in Contexts
      BY <2>2, <2>3, <2>4 DEF Contexts
    <2>6. ordered => Follows(u, c)
      BY <1>9, <2>3, <2>4 DEF Follows
    <2> QED
      BY <2>3, <2>4, <2>5, <2>6 DEF u
  <1>10. first # 0 /\ f[first].code = "pack" =>
            /\ walked \in Contexts
            /\ walked.stream.packets = c.stream.packets + 1
            /\ ordered => Follows(walked, c)
    <2> SUFFICES ASSUME first # 0, f[first].code = "pack"
                 PROVE  /\ walked \in Contexts
                        /\ walked.stream.packets = c.stream.packets + 1
                        /\ ordered => Follows(walked, c)
      OBVIOUS
    <2>1. first \in 1 .. Len(f) /\ f[first].at = at
      BY ElementFound
    <2>2. stop = Stops(f, at, buflen) /\ buflen = BufLen(f, at)
      OBVIOUS
    <2> HIDE DEF first, stop, buflen
    <2>3. stop \in first + 1 .. Len(f) + 1
      BY <2>1, <2>2, WalkStops
    <2>4. SubSeq(f, first, stop - 1) \in Seq(Elements)
      <3>1. f \in Seq(Elements) /\ Len(f) \in Nat /\ DOMAIN f = 1 .. Len(f)
        BY StreamPlaces DEF IsStream
      <3>2. \A k \in first .. stop - 1 : f[k] \in Elements
        <4>1. \A k \in first .. stop - 1 : k \in 1 .. Len(f)
          BY <2>1, <2>3, <3>1
        <4> QED
          BY <4>1, StreamPlaces
      <3>3. first \in Int /\ stop - 1 \in Int
        BY <2>1, <2>3, <3>1
      <3> QED
        BY <3>1, <3>2, <3>3, SubSeqProperties
    <2>5. Advances(walked, counted)
      BY <1>6, <2>4, WalkedAdvances
    <2> HIDE DEF walked
    <2> QED
      BY <1>6, <1>7, <2>5 DEF Advances
  <1> HIDE DEF zero, walked, found
  <1>11. Uncounted(counted) \in Contexts
         /\ Uncounted(counted).stream.packets = c.stream.packets
         /\ (ordered => Follows(Uncounted(counted), c))
    BY <1>4, <1>6, <1>7, <1>9
  <1>12. CASE zeros
    <2>1. p = [ret |-> buflen, ctx |-> zero] /\ found = buflen
      BY <1>1, <1>2, <1>12
    <2> QED
      BY <1>3, <1>6, <1>8, <2>1 DEF found
  <1>13. CASE ~zeros /\ (first = 0 \/ f[first].code # "pack")
    <2>1. p = [ret |-> 0, ctx |-> Uncounted(counted)] /\ found = 0
      BY <1>1, <1>2, <1>13
    <2> QED
      BY <1>4, <1>11, <2>1 DEF found
  <1>14. CASE ~zeros /\ ~(first = 0 \/ f[first].code # "pack") /\ all_seen
    <2>1. p = [ret |-> buflen, ctx |-> walked] /\ found = buflen
      BY <1>1, <1>2, <1>14
    <2> QED
      BY <1>3, <1>10, <1>14, <2>1 DEF found
  <1>15. CASE ~zeros /\ ~(first = 0 \/ f[first].code # "pack") /\ ~all_seen
    <2>1. CASE f[stop].code = "pack"
      <3>1. p = [ret |-> f[stop].at - at, ctx |-> walked] /\ found = f[stop].at - at
        BY <1>1, <1>2, <1>15, <2>1
      <3>2. found # 0
        <4>1. first \in 1 .. Len(f) /\ f[first].at = at
          BY <1>15, ElementFound
        <4>2. stop \in first + 1 .. Len(f) + 1 /\ ~(stop > Len(f))
          <5>1. stop = Stops(f, at, buflen) /\ buflen = BufLen(f, at) /\ f[first].code = "pack"
            BY <1>15
          <5>2. ~(stop > Len(f))
            BY <1>15
          <5> HIDE DEF first, stop, buflen
          <5> QED
            BY <4>1, <5>1, <5>2, WalkStops
        <4> HIDE DEF first, stop
        <4>3. stop \in 1 .. Len(f) /\ first < stop
          BY <4>1, <4>2, StreamPlaces
        <4>4. /\ f[stop].at \in Nat /\ EndOf(f[first]) = at + f[first].len
              /\ f[first].len \in Nat \ {0} /\ EndOf(f[first]) <= f[stop].at
          BY <4>1, <4>3, StreamPlaces
        <4> QED
          BY <3>1, <4>4
      <3> QED
        BY <1>10, <1>15, <3>1, <3>2 DEF found
    <2>2. CASE f[stop].code # "pack"
      <3>1. p = [ret |-> 0, ctx |-> Uncounted(walked)] /\ found = 0
        BY <1>1, <1>2, <1>15, <2>2
      <3>2. /\ walked \in Contexts
            /\ walked.stream.packets = c.stream.packets + 1
            /\ ordered => Follows(walked, c)
        BY <1>10, <1>15
      <3>3. Uncounted(walked) \in Contexts
            /\ Uncounted(walked).stream.packets = c.stream.packets
            /\ (ordered => Follows(Uncounted(walked), c))
        BY <1>4, <1>9, <3>2
      <3> QED
        BY <1>4, <3>1, <3>3 DEF found
    <2> QED
      BY <2>1, <2>2
  <1> QED
    BY <1>12, <1>13, <1>14, <1>15

-----------------------------------------------------------------------------
(* The split of a stream into packets.                                     *)

\* Packets end within the stream.
LEMMA ChainEnds ==
    ASSUME NEW f, IsStream(f), NEW parts, IsChained(f, parts), NEW n \in Nat, n <= Len(parts)
    PROVE  SplitEnd(parts, n) \in Nat /\ SplitEnd(parts, n) <= Length(f)
  <1>1. Length(f) \in Nat
    BY StreamPlaces
  <1>2. CASE n = 0
    BY <1>1, <1>2 DEF SplitEnd
  <1>3. CASE n # 0
    <2>1. parts \in Seq([from : Nat, length : Nat \ {0}]) /\ Len(parts) \in Nat
      BY LenProperties DEF IsChained
    <2>2. n \in 1 .. Len(parts)
      BY <1>3, <2>1
    <2>6. parts[n] \in [from : Nat, length : Nat \ {0}]
      BY <2>1, <2>2, ElementOfSeq
    <2>3. parts[n].from \in Nat /\ parts[n].length \in Nat
      BY <2>6
    <2>4. parts[n].from < Length(f) /\ parts[n].length = LengthAt(f, parts[n].from)
      BY <2>2 DEF IsChained
    <2>5. /\ BufLen(f, parts[n].from) \in Nat
          /\ parts[n].from + BufLen(f, parts[n].from) <= Length(f)
          /\ parts[n].length <= BufLen(f, parts[n].from)
      BY <2>3, <2>4, LengthFits DEF LengthAt
    <2> QED
      BY <1>1, <1>3, <2>3, <2>5 DEF SplitEnd
  <1> QED
    BY <1>2, <1>3

\* The place behind them, when it is not the last, is that of the next packet.
LEMMA ChainNext ==
    ASSUME NEW f, IsStream(f), NEW parts, IsChained(f, parts), NEW n \in Nat, n < Len(parts)
    PROVE  /\ parts[n + 1] = [from |-> SplitEnd(parts, n), length |-> LengthAt(f, SplitEnd(parts, n))]
           /\ SplitEnd(parts, n) < Length(f)
           /\ LengthAt(f, SplitEnd(parts, n)) \in Nat \ {0}
           /\ SplitEnd(parts, n + 1) = SplitEnd(parts, n) + LengthAt(f, SplitEnd(parts, n))
  <1>1. parts \in Seq([from : Nat, length : Nat \ {0}]) /\ Len(parts) \in Nat
    BY LenProperties DEF IsChained
  <1>2. PICK k \in 1 .. Len(parts) : k = n + 1 /\ k - 1 = n
    BY <1>1
  <1>3. parts[k] \in [from : Nat, length : Nat \ {0}]
    BY <1>1, ElementOfSeq
  <1>4. /\ parts[k].from = SplitEnd(parts, n)
        /\ parts[k].from < Length(f)
        /\ parts[k].length = LengthAt(f, SplitEnd(parts, n))
    BY <1>2 DEF IsChained
  <1>5. parts[k] = [from |-> SplitEnd(parts, n), length |-> LengthAt(f, SplitEnd(parts, n))]
    BY <1>3, <1>4
  <1>6. SplitEnd(parts, k) = SplitEnd(parts, n) + LengthAt(f, SplitEnd(parts, n))
    BY <1>2, <1>4 DEF SplitEnd
  <1> QED
    BY <1>2, <1>3, <1>4, <1>5, <1>6

\* The scan appends the packet behind the last.
LEMMA ChainGrows ==
    ASSUME NEW f, IsStream(f), NEW parts, IsChained(f, parts), NEW at,
           at = SplitEnd(parts, Len(parts)), at < Length(f), LengthAt(f, at) # 0, NEW next,
           next = Append(parts, [from |-> at, length |-> LengthAt(f, at)])
    PROVE  /\ IsChained(f, next)
           /\ Len(next) = Len(parts) + 1
           /\ SplitEnd(next, Len(parts) + 1) = at + LengthAt(f, at)
           /\ \A n \in Nat : n <= Len(parts) => SplitEnd(next, n) = SplitEnd(parts, n)
  <1> DEFINE P == [from : Nat, length : Nat \ {0}]
             p == [from |-> at, length |-> LengthAt(f, at)]
  <1>1. parts \in Seq(P) /\ Len(parts) \in Nat
    BY LenProperties DEF IsChained
  <1>2. at \in Nat
    BY <1>1, ChainEnds
  <1>3. LengthAt(f, at) \in Nat \ {0}
    BY <1>2, LengthFits DEF LengthAt
  <1>4. p \in P
    BY <1>2, <1>3
  <1>5. /\ next \in Seq(P)
        /\ Len(next) = Len(parts) + 1
        /\ \A k \in 1 .. Len(parts) : next[k] = parts[k]
        /\ next[Len(parts) + 1] = p
    BY <1>1, <1>4, AppendProperties
  <1> HIDE DEF P
  <1>6. ASSUME NEW n \in Nat, n <= Len(parts) PROVE SplitEnd(next, n) = SplitEnd(parts, n)
    <2>1. CASE n = 0
      BY <2>1 DEF SplitEnd
    <2>2. CASE n # 0
      <3>1. n \in 1 .. Len(parts)
        BY <1>1, <1>6, <2>2
      <3> QED
        BY <1>5, <3>1 DEF SplitEnd
    <2> QED
      BY <2>1, <2>2
  <1>7. SplitEnd(next, Len(parts) + 1) = at + LengthAt(f, at)
    BY <1>1, <1>5 DEF SplitEnd
  <1>8. ASSUME NEW k \in 1 .. Len(next)
        PROVE  /\ next[k].from = SplitEnd(next, k - 1)
               /\ next[k].from < Length(f)
               /\ next[k].length = LengthAt(f, next[k].from)
    <2>1. k - 1 \in Nat /\ k - 1 <= Len(parts)
      BY <1>1, <1>5
    <2>2. SplitEnd(next, k - 1) = SplitEnd(parts, k - 1)
      BY <1>6, <2>1
    <2>3. CASE k = Len(parts) + 1
      <3>1. next[k] = p /\ k - 1 = Len(parts)
        BY <1>1, <1>5, <2>3
      <3> QED
        BY <2>2, <3>1
    <2>4. CASE k # Len(parts) + 1
      <3>1. k \in 1 .. Len(parts)
        BY <1>1, <1>5, <2>4
      <3> QED
        BY <1>5, <2>2, <3>1 DEF IsChained
    <2> QED
      BY <2>3, <2>4
  <1> QED
    BY <1>5, <1>6, <1>7, <1>8 DEF IsChained, P

-----------------------------------------------------------------------------
(* The source.                                                             *)

\* A seek opens the source and takes it to the place, a close leaves it at 0.
LEMMA SoughtInStep ==
    ASSUME NEW source, InStep(source), NEW offset \in Nat
    PROVE  SourceSought(source, offset) = [is_open |-> TRUE, position |-> offset, at |-> offset]
  <1> DEFINE o == SourceOpened(source)
  <1>1. o \in Sources /\ o.is_open = TRUE /\ o.position = o.at
    BY DEF SourceOpened, InStep, Sources
  <1>2. SourceSought(source, offset) =
            IF o.position = offset THEN o ELSE [o EXCEPT !.position = offset, !.at = offset]
    BY DEF SourceSought
  <1> HIDE DEF o
  <1> QED
    BY <1>1, <1>2 DEF Sources

LEMMA ClosedInStep ==
    ASSUME NEW source
    PROVE  InStep(SourceClosed(source))
  BY DEF SourceClosed, InStep, Sources

\* A read takes what is there, and moves the source behind it; the source is then
\* sought back to the end of a packet that is shorter.
LEMMA NextInStep ==
    ASSUME NEW source, InStep(source), source.is_open, NEW read \in Nat, NEW length \in Nat,
           NEW at \in Nat, source.at = at
    PROVE  /\ InStep(SourceAdvanced(source, read))
           /\ NextPacket(source, read, length, at) =
                [is_open |-> TRUE, position |-> at + length, at |-> at + length]
  <1> DEFINE after == SourceAdvanced(source, read)
  <1>1. source \in Sources /\ source.position = at
    BY DEF InStep
  <1>2. SourceOpened(source) = source
    BY DEF SourceOpened
  <1>8. source.is_open = TRUE
    BY <1>1 DEF Sources
  <1>3. after = [is_open |-> TRUE, position |-> at + read, at |-> at + read]
    <2>1. after = [source EXCEPT !.position = source.position + read, !.at = source.at + read]
      BY <1>2 DEF SourceAdvanced
    <2> HIDE DEF after
    <2>2. PICK q \in Nat : q = at + read
      OBVIOUS
    <2>3. after = [source EXCEPT !.position = q, !.at = q]
      BY <1>1, <2>1, <2>2
    <2>4. after = [is_open |-> TRUE, position |-> q, at |-> q]
      BY <1>1, <1>8, <2>3 DEF Sources
    <2> QED
      BY <2>2, <2>4
  <1>4. NextPacket(source, read, length, at) =
            IF length # read THEN SourceSought(after, at + length) ELSE after
    BY DEF NextPacket
  <1> HIDE DEF after
  <1>5. InStep(after)
    BY <1>3 DEF InStep, Sources
  <1>6. length # read =>
            SourceSought(after, at + length) =
                [is_open |-> TRUE, position |-> at + length, at |-> at + length]
    <2>1. at + length \in Nat
      OBVIOUS
    <2> QED
      BY <1>5, <2>1, SoughtInStep
  <1>7. NextPacket(source, read, length, at) =
            [is_open |-> TRUE, position |-> at + length, at |-> at + length]
    BY <1>3, <1>4, <1>6
  <1> QED
    BY <1>5, <1>7 DEF after

\* Within the stream, a loop reads what there is, up to a packet.
LEMMA ReadsBuffer ==
    ASSUME IsStream(file), InStep(data_source), data_source.is_open, data_source.at = pos,
           pos \in Nat, pos < Stat
    PROVE  ReadLength = BufLen(file, pos)
  <1>1. SourceOpened(data_source) = data_source
    BY DEF SourceOpened
  <1>2. /\ BufLen(file, pos) \in Nat /\ BufLen(file, pos) <= Stat - pos
        /\ Stat \in Nat /\ PACKET_SIZE \in Nat
    BY LengthFits, StreamPlaces, PacketAssumption DEF Stat
  <1>3. ReadLength = SourceRead(data_source, BufLen(file, pos), Stat)
    BY DEF ReadLength, BufLen, Stat
  <1>4. SourceRead(data_source, BufLen(file, pos), Stat) =
            IF Stat - pos <= 0 THEN 0
            ELSE IF BufLen(file, pos) < Stat - pos THEN BufLen(file, pos) ELSE Stat - pos
    BY <1>1 DEF SourceRead
  <1> QED
    BY <1>2, <1>3, <1>4

-----------------------------------------------------------------------------
(* The lists of access points.                                             *)

Points == [packet_no : Nat, timestamp : Int]

\* The lists of a stream are sequences of points.
LEMMA ListTypes ==
    ASSUME NEW s \in StreamInfo, NEW v \in 0 .. 2
    PROVE  /\ s.aps_list \in [0 .. 2 -> Seq(Points)]
           /\ s.aps_list[v] \in Seq(Points)
           /\ Len(s.aps_list[v]) \in Nat
           /\ DOMAIN s.aps_list[v] = 1 .. Len(s.aps_list[v])
           /\ \A k \in 1 .. Len(s.aps_list[v]) :
                 /\ s.aps_list[v][k] \in Points
                 /\ s.aps_list[v][k].packet_no \in Nat
                 /\ s.aps_list[v][k].timestamp \in Int
           /\ s.last_aps_pts[v] \in Nat
           /\ s.min_pts \in Nat
           /\ s.max_pts \in Nat
  <1>1. /\ s.aps_list \in [0 .. 2 -> Seq(Points)]
        /\ s.last_aps_pts \in [0 .. 2 -> Nat]
        /\ s.min_pts \in Nat
        /\ s.max_pts \in Nat
    BY DEF StreamInfo, Points
  <1> DEFINE list == s.aps_list[v]
  <1>2. list \in Seq(Points)
    BY <1>1
  <1> HIDE DEF list
  <1>3. /\ Len(list) \in Nat
        /\ DOMAIN list = 1 .. Len(list)
        /\ \A k \in 1 .. Len(list) : list[k] \in Points
    BY <1>2, LenProperties, ElementOfSeq
  <1>4. \A k \in 1 .. Len(list) : list[k].packet_no \in Nat /\ list[k].timestamp \in Int
    BY <1>3 DEF Points
  <1> QED
    BY <1>1, <1>2, <1>3, <1>4 DEF list

\* A packet does not disturb what was collected.
LEMMA CollectsOn ==
    ASSUME NEW c \in Contexts, NEW d \in Contexts, Follows(d, c), NEW n \in Nat,
           Collects(c.stream, n)
    PROVE  Collects(d.stream, n)
  <1>1. c.stream \in StreamInfo /\ d.stream \in StreamInfo
    BY ContextTypes
  <1>2. d.stream.aps_list = c.stream.aps_list
    BY DEF Follows
  <1>3. d.stream.seen_pts => d.stream.min_pts <= d.stream.max_pts
    BY DEF Follows
  <1>4. ASSUME NEW v \in 0 .. 2, NEW k \in 1 .. Len(c.stream.aps_list[v]), NEW point,
               point = c.stream.aps_list[v][k]
        PROVE  /\ point.packet_no < n
               /\ d.stream.seen_pts
               /\ d.stream.min_pts <= point.timestamp
               /\ point.timestamp <= d.stream.max_pts
               /\ point.timestamp <= d.stream.last_aps_pts[v]
    <2>1. /\ point.packet_no < n
          /\ c.stream.seen_pts
          /\ c.stream.min_pts <= point.timestamp
          /\ point.timestamp <= c.stream.max_pts
          /\ point.timestamp <= c.stream.last_aps_pts[v]
      BY <1>4 DEF Collects
    <2>2. /\ d.stream.seen_pts
          /\ d.stream.min_pts <= c.stream.min_pts
          /\ c.stream.max_pts <= d.stream.max_pts
          /\ c.stream.last_aps_pts[v] <= d.stream.last_aps_pts[v]
      BY <2>1 DEF Follows
    <2>3. /\ point.timestamp \in Int
          /\ c.stream.min_pts \in Nat /\ c.stream.max_pts \in Nat /\ c.stream.last_aps_pts[v] \in Nat
          /\ d.stream.min_pts \in Nat /\ d.stream.max_pts \in Nat /\ d.stream.last_aps_pts[v] \in Nat
      BY <1>1, <1>4, ListTypes
    <2>4. d.stream.min_pts <= point.timestamp
      BY <2>1, <2>2, <2>3
    <2>5. point.timestamp <= d.stream.max_pts
      BY <2>1, <2>2, <2>3
    <2>6. point.timestamp <= d.stream.last_aps_pts[v]
      BY <2>1, <2>2, <2>3
    <2> QED
      BY <2>1, <2>2, <2>4, <2>5, <2>6
  <1>5. \A v \in 0 .. 2 : InOrder(c.stream.aps_list[v])
    BY DEF Collects
  <1> QED
    BY <1>2, <1>3, <1>4, <1>5 DEF Collects

\* A point more at the end of a list.
LEMMA InOrderAppend ==
    ASSUME NEW list \in Seq(Points), InOrder(list), NEW p \in Points,
           \A k \in 1 .. Len(list) : list[k].packet_no < p.packet_no /\ list[k].timestamp <= p.timestamp
    PROVE  InOrder(Append(list, p))
  <1>1. /\ Len(list) \in Nat
        /\ Len(Append(list, p)) = Len(list) + 1
        /\ \A k \in 1 .. Len(list) : Append(list, p)[k] = list[k]
        /\ Append(list, p)[Len(list) + 1] = p
    BY LenProperties, AppendProperties
  <1> DEFINE more == Append(list, p)
  <1>2. ASSUME NEW k \in 1 .. Len(more) - 1
        PROVE  /\ more[k].packet_no < more[k + 1].packet_no
               /\ more[k].timestamp <= more[k + 1].timestamp
    <2>1. k \in 1 .. Len(list) /\ more[k] = list[k]
      BY <1>1
    <2>2. CASE k = Len(list)
      BY <1>1, <2>1, <2>2
    <2>3. CASE k # Len(list)
      <3>1. k \in 1 .. Len(list) - 1 /\ k + 1 \in 1 .. Len(list)
        BY <1>1, <2>1, <2>3
      <3>2. PICK l \in 1 .. Len(list) : l = k + 1
        BY <3>1
      <3>3. more[l] = list[l]
        BY <1>1
      <3> HIDE DEF more
      <3> QED
        BY <2>1, <3>1, <3>2, <3>3 DEF InOrder
    <2> QED
      BY <2>2, <2>3
  <1> HIDE DEF more
  <1>3. InOrder(more)
    BY <1>2 DEF InOrder
  <1> QED
    BY <1>3 DEF more

\* The access point of the packet goes to its list.
LEMMA CollectedKeeps ==
    ASSUME NEW c \in Contexts, NEW d \in Contexts, Follows(d, c), NEW n \in Nat,
           Collects(c.stream, n), NEW strict \in BOOLEAN, NEW e, e = Collected(d, n, strict)
    PROVE  /\ e \in Contexts
           /\ e.stream.packets = d.stream.packets
           /\ Collects(e.stream, n + 1)
  <1>1. Collects(d.stream, n) /\ d.stream \in StreamInfo /\ d.packet \in PacketInfo
    BY CollectsOn, ContextTypes
  <1>2. CASE ~IsAccessPoint(d.packet, strict)
    <2>1. e = d
      BY <1>2 DEF Collected
    <2>2. ASSUME NEW v \in 0 .. 2, NEW k \in 1 .. Len(d.stream.aps_list[v])
          PROVE  d.stream.aps_list[v][k].packet_no < n + 1
      <3>1. d.stream.aps_list[v][k].packet_no < n /\ d.stream.aps_list[v][k].packet_no \in Nat
        BY <1>1, ListTypes DEF Collects
      <3> QED
        BY <3>1
    <2>3. Collects(d.stream, n + 1)
      BY <1>1, <2>2 DEF Collects
    <2> QED
      BY <2>1, <2>3
  <1>3. CASE IsAccessPoint(d.packet, strict)
    <2> DEFINE s == d.stream
               w == d.packet.aps_idx
               p == [packet_no |-> n, timestamp |-> d.packet.aps_pts]
               list == Append(s.aps_list[w], p)
               lists == [s.aps_list EXCEPT ![w] = list]
               t == [s EXCEPT !.aps_list = lists]
    <2>1. d.packet.aps # "none"
      BY <1>3 DEF IsAccessPoint
    <2>2. /\ s.seen_pts
          /\ s.min_pts <= p.timestamp
          /\ p.timestamp <= s.max_pts
          /\ p.timestamp = s.last_aps_pts[w]
      BY <2>1 DEF Follows
    <2>3. w \in 0 .. 2 /\ d.packet.aps_pts \in Nat
      BY <1>1 DEF PacketInfo
    <2>4. p \in Points
      BY <2>3 DEF Points
    <2>5. e = [d EXCEPT !.stream = t]
      BY <1>1, <1>3 DEF Collected, Contexts, StreamInfo
    <2>6. s.aps_list \in [0 .. 2 -> Seq(Points)] /\ s.aps_list[w] \in Seq(Points)
      BY <1>1, <2>3, ListTypes
    <2> HIDE DEF p, w, s
    <2>7. list \in Seq(Points)
      BY <2>4, <2>6, AppendProperties
    <2>8. InOrder(list)
      <3>1. ASSUME NEW k \in 1 .. Len(s.aps_list[w])
            PROVE  /\ s.aps_list[w][k].packet_no < p.packet_no
                   /\ s.aps_list[w][k].timestamp <= p.timestamp
        BY <1>1, <2>2, <2>3 DEF s, p, Collects
      <3>2. InOrder(s.aps_list[w])
        BY <1>1, <2>3 DEF s, Collects
      <3> QED
        BY <2>4, <2>6, <3>1, <3>2, InOrderAppend
    <2>9. ASSUME NEW k \in 1 .. Len(list)
          PROVE  /\ list[k].packet_no < n + 1
                 /\ s.min_pts <= list[k].timestamp
                 /\ list[k].timestamp <= s.max_pts
                 /\ list[k].timestamp <= s.last_aps_pts[w]
      <3>1. /\ Len(s.aps_list[w]) \in Nat
            /\ Len(list) = Len(s.aps_list[w]) + 1
            /\ \A j \in 1 .. Len(s.aps_list[w]) : list[j] = s.aps_list[w][j]
            /\ list[Len(s.aps_list[w]) + 1] = p
        BY <2>4, <2>6, LenProperties, AppendProperties
      <3>2. CASE k = Len(s.aps_list[w]) + 1
        <4>1. list[k] = p /\ p.packet_no = n /\ p.timestamp \in Nat
          BY <2>3, <3>1, <3>2 DEF p
        <4>2. s.last_aps_pts[w] = p.timestamp
          BY <2>2
        <4> HIDE DEF list
        <4> QED
          BY <2>2, <4>1, <4>2
      <3>3. CASE k # Len(s.aps_list[w]) + 1
        <4>1. k \in 1 .. Len(s.aps_list[w]) /\ list[k] = s.aps_list[w][k]
          BY <3>1, <3>3
        <4>2. /\ s.aps_list[w][k].packet_no < n
              /\ s.aps_list[w][k].packet_no \in Nat
              /\ s.min_pts <= s.aps_list[w][k].timestamp
              /\ s.aps_list[w][k].timestamp <= s.max_pts
              /\ s.aps_list[w][k].timestamp <= s.last_aps_pts[w]
          BY <1>1, <2>3, <4>1, ListTypes DEF s, Collects
        <4> HIDE DEF list
        <4> QED
          BY <4>1, <4>2
      <3> QED
        BY <3>2, <3>3
    <2>10. lists \in [0 .. 2 -> Seq(Points)] /\ lists[w] = list
           /\ \A v \in 0 .. 2 : v # w => lists[v] = s.aps_list[v]
      BY <2>3, <2>6, <2>7
    <2> HIDE DEF list, lists
    <2>11. /\ t \in StreamInfo
           /\ t.packets = s.packets
           /\ t.aps_list = lists
           /\ t.seen_pts = s.seen_pts
           /\ t.min_pts = s.min_pts
           /\ t.max_pts = s.max_pts
           /\ t.last_aps_pts = s.last_aps_pts
      BY <1>1, <2>10 DEF s, StreamInfo, Points
    <2> HIDE DEF t
    <2>12. e = [stream |-> t, packet |-> d.packet]
      BY <2>5, StreamReplaced
    <2>13. e \in Contexts
      BY <1>1, <2>11, <2>12 DEF Contexts
    <2>14. ASSUME NEW v \in 0 .. 2
           PROVE  /\ InOrder(lists[v])
                  /\ \A k \in 1 .. Len(lists[v]) :
                        /\ lists[v][k].packet_no < n + 1
                        /\ s.seen_pts
                        /\ s.min_pts <= lists[v][k].timestamp
                        /\ lists[v][k].timestamp <= s.max_pts
                        /\ lists[v][k].timestamp <= s.last_aps_pts[v]
      <3>1. CASE v = w
        BY <2>2, <2>8, <2>9, <2>10, <3>1
      <3>2. CASE v # w
        <4>1. lists[v] = s.aps_list[v]
          BY <2>10, <3>2
        <4>2. InOrder(s.aps_list[v])
          BY <1>1 DEF s, Collects
        <4>3. \A k \in 1 .. Len(s.aps_list[v]) :
                  /\ s.aps_list[v][k].packet_no < n
                  /\ s.aps_list[v][k].packet_no \in Nat
                  /\ s.seen_pts
                  /\ s.min_pts <= s.aps_list[v][k].timestamp
                  /\ s.aps_list[v][k].timestamp <= s.max_pts
                  /\ s.aps_list[v][k].timestamp <= s.last_aps_pts[v]
          BY <1>1, ListTypes DEF s, Collects
        <4> QED
          BY <4>1, <4>2, <4>3
      <3> QED
        BY <3>1, <3>2
    <2>15. s.seen_pts => s.min_pts <= s.max_pts
      BY <1>1 DEF s, Collects
    <2>16. Collects(t, n + 1)
      BY <2>11, <2>14, <2>15 DEF Collects
    <2> QED
      BY <2>11, <2>12, <2>13, <2>16 DEF s
  <1> QED
    BY <1>2, <1>3

\* The end of a scan: what is kept of a stream that collected access points tells
\* where they are, in order and within the playing time.
LEMMA ConcludedTells ==
    ASSUME NEW s \in StreamInfo, NEW n, Collects(s, n), NEW t, t = Concluded(s)
    PROVE  /\ t \in StreamInfo
           /\ t.packets = s.packets
           /\ Tells(t, n)
  <1> DEFINE time == s.max_pts - s.min_pts
             lists == [v \in 0 .. 2 |-> [k \in DOMAIN s.aps_list[v] |->
                         [s.aps_list[v][k] EXCEPT !.timestamp = @ - s.min_pts]]]
  <1>1. t = [s EXCEPT !.playing_time = time, !.aps_list = lists]
    BY DEF Concluded
  <1>2. s.min_pts \in Nat /\ s.max_pts \in Nat /\ time \in Int
    BY DEF StreamInfo
  <1>3. ASSUME NEW v \in 0 .. 2
        PROVE  /\ lists[v] \in Seq(Points)
               /\ Len(lists[v]) = Len(s.aps_list[v])
               /\ \A k \in 1 .. Len(s.aps_list[v]) :
                     /\ lists[v][k].packet_no = s.aps_list[v][k].packet_no
                     /\ lists[v][k].timestamp = s.aps_list[v][k].timestamp - s.min_pts
    <2> DEFINE old == s.aps_list[v]
               list == [k \in DOMAIN old |-> [old[k] EXCEPT !.timestamp = @ - s.min_pts]]
    <2>1. lists[v] = list
      OBVIOUS
    <2>2. /\ Len(old) \in Nat
          /\ DOMAIN old = 1 .. Len(old)
          /\ \A k \in 1 .. Len(old) : old[k] \in Points
      BY ListTypes
    <2> HIDE DEF old
    <2>3. ASSUME NEW k \in 1 .. Len(old)
          PROVE  /\ list[k] \in Points
                 /\ list[k].packet_no = old[k].packet_no
                 /\ list[k].timestamp = old[k].timestamp - s.min_pts
      <3>1. old[k] \in [packet_no : Nat, timestamp : Int]
        BY <2>2 DEF Points
      <3>2. old[k].timestamp - s.min_pts \in Int
        BY <1>2, <3>1
      <3>3. list[k] = [old[k] EXCEPT !.timestamp = old[k].timestamp - s.min_pts]
        BY <2>2
      <3> HIDE DEF list
      <3> QED
        BY <3>1, <3>2, <3>3 DEF Points
    <2>4. list = [k \in 1 .. Len(old) |-> list[k]]
      BY <2>2
    <2> HIDE DEF list
    <2>5. list \in [1 .. Len(old) -> Points]
      BY <2>3, <2>4
    <2>6. list \in Seq(Points) /\ Len(list) = Len(old)
      BY <2>2, <2>5, SeqDef, LenProperties
    <2> QED
      BY <2>1, <2>3, <2>6 DEF old
  <1>4. lists \in [0 .. 2 -> Seq(Points)]
    <2>1. lists = [v \in 0 .. 2 |-> lists[v]]
      OBVIOUS
    <2> HIDE DEF lists
    <2> QED
      BY <1>3, <2>1
  <1> HIDE DEF lists
  <1>5. /\ t \in StreamInfo
        /\ t.packets = s.packets
        /\ t.aps_list = lists
        /\ t.playing_time = time
    BY <1>1, <1>2, <1>4 DEF StreamInfo, Points
  <1> HIDE DEF time
  <1>6. ASSUME NEW v \in 0 .. 2, NEW k \in 1 .. Len(lists[v])
        PROVE  /\ lists[v][k].packet_no < n
               /\ lists[v][k].timestamp \in 0 .. time
    <2>1. k \in 1 .. Len(s.aps_list[v])
      BY <1>3
    <2>2. /\ s.aps_list[v][k].packet_no < n
          /\ s.min_pts <= s.aps_list[v][k].timestamp
          /\ s.aps_list[v][k].timestamp <= s.max_pts
          /\ s.aps_list[v][k].timestamp \in Int
      BY <2>1, ListTypes DEF Collects
    <2>3. /\ lists[v][k].packet_no = s.aps_list[v][k].packet_no
          /\ lists[v][k].timestamp = s.aps_list[v][k].timestamp - s.min_pts
      BY <1>3, <2>1
    <2> QED
      BY <1>2, <2>2, <2>3 DEF time
  <1>7. ASSUME NEW v \in 0 .. 2 PROVE InOrder(lists[v])
    <2> SUFFICES ASSUME NEW k \in 1 .. Len(lists[v]) - 1
                 PROVE  /\ lists[v][k].packet_no < lists[v][k + 1].packet_no
                        /\ lists[v][k].timestamp <= lists[v][k + 1].timestamp
      BY DEF InOrder
    <2>1. Len(lists[v]) = Len(s.aps_list[v]) /\ Len(s.aps_list[v]) \in Nat
      BY <1>3, ListTypes
    <2>2. k \in 1 .. Len(s.aps_list[v]) /\ k \in 1 .. Len(s.aps_list[v]) - 1
      BY <2>1
    <2>3. PICK l \in 1 .. Len(s.aps_list[v]) : l = k + 1
      BY <2>1
    <2>4. /\ s.aps_list[v][k].packet_no < s.aps_list[v][l].packet_no
          /\ s.aps_list[v][k].timestamp <= s.aps_list[v][l].timestamp
      BY <2>2, <2>3 DEF Collects, InOrder
    <2>5. s.aps_list[v][k].timestamp \in Int /\ s.aps_list[v][l].timestamp \in Int
      BY <2>2, ListTypes
    <2>6. /\ lists[v][k].packet_no < lists[v][l].packet_no
          /\ lists[v][k].timestamp <= lists[v][l].timestamp
      <3>1. /\ lists[v][k].packet_no = s.aps_list[v][k].packet_no
            /\ lists[v][k].timestamp = s.aps_list[v][k].timestamp - s.min_pts
        BY <1>3, <2>2
      <3>2. /\ lists[v][l].packet_no = s.aps_list[v][l].packet_no
            /\ lists[v][l].timestamp = s.aps_list[v][l].timestamp - s.min_pts
        BY <1>3
      <3>3. s.aps_list[v][k].timestamp - s.min_pts <= s.aps_list[v][l].timestamp - s.min_pts
        <4>1. PICK x \in Int : x = s.aps_list[v][k].timestamp
          BY <2>5
        <4>2. PICK y \in Int : y = s.aps_list[v][l].timestamp
          BY <2>5
        <4>3. x <= y /\ s.min_pts \in Int
          BY <1>2, <2>4, <4>1, <4>2
        <4>4. x - s.min_pts <= y - s.min_pts
          BY <4>3
        <4> QED
          BY <4>1, <4>2, <4>4
      <3> QED
        BY <2>4, <3>1, <3>2, <3>3, Zenon
    <2> QED
      BY <2>3, <2>6
  <1> QED
    BY <1>5, <1>6, <1>7 DEF Tells

-----------------------------------------------------------------------------
(* Every step keeps the invariant.                                         *)

\* The stream that is scanned is one.
LEMMA FileIsStream ==
    ASSUME Phases
    PROVE  IsStream(file) /\ Stat = Length(file) /\ Stat \in Nat
  BY FilesAssumption, StreamPlaces DEF Phases, Stat

\* The cleared records.
LEMMA ClearedTypes ==
    /\ NoStream \in StreamInfo
    /\ NoPacket \in PacketInfo
    /\ \A v \in 0 .. 2 : NoStream.aps_list[v] = <<>>
    /\ NoStream.packets = 0
    /\ NoStream.seen_pts = FALSE
  <1>1. <<>> \in Seq([packet_no : Nat, timestamp : Int])
    BY EmptySeq
  <1>2. [v \in 0 .. 2 |-> <<>>] \in [0 .. 2 -> Seq([packet_no : Nat, timestamp : Int])]
    BY <1>1
  <1>3. [v \in 0 .. 2 |-> 0] \in [0 .. 2 -> Nat]
    OBVIOUS
  <1>4. NoStream \in StreamInfo
    BY <1>2, <1>3 DEF NoStream, StreamInfo
  <1>5. NoStream.aps_list = [v \in 0 .. 2 |-> <<>>]
    BY DEF NoStream
  <1>6. NoPacket \in PacketInfo
    BY DEF NoPacket, PacketInfo
  <1>7. NoStream.packets = 0 /\ NoStream.seen_pts = FALSE
    BY DEF NoStream
  <1> QED
    BY <1>4, <1>5, <1>6, <1>7

\* vcd_mpeg_source_new
LEMMA InitSourceInv ==
    ASSUME Init
    PROVE  SourceInv
  <1> USE DEF Init
  <1>1. got.no = -1 /\ got.scan = <<>>
    BY DEF NothingGot
  <1>2. Phases
    BY <1>1 DEF Phases
  <1>3. Len(split) = 0 /\ split \in Seq([from : Nat, length : Nat \ {0}])
    BY EmptySeq
  <1>4. Chained
    BY <1>3 DEF Chained, IsChained
  <1>5. Stat \in Nat
    BY <1>2, FileIsStream
  <1>6. InStep(data_source)
    BY DEF Source, InStep, Sources
  <1>7. InPlace
    BY <1>3, <1>5, <1>6 DEF InPlace, SplitEnd
  <1>8. GotInv
    BY <1>1 DEF GotInv
  <1>9. ContextInv
    BY ClearedTypes DEF ContextInv, Contexts
  <1>10. CrashInv
    BY DEF CrashInv
  <1> QED
    BY <1>2, <1>4, <1>7, <1>8, <1>9, <1>10 DEF SourceInv

\* The start of a scan.
LEMMA ScanKeepsInv ==
    ASSUME SourceInv, NEW strict_aps \in BOOLEAN, Scan(strict_aps)
    PROVE  SourceInv'
  <1> USE DEF Scan
  <1>1. Phases /\ Chained /\ InPlace /\ GotInv /\ ContextInv
    BY DEF SourceInv
  <1>2. split = <<>> /\ Len(split) = 0 /\ Stat \in Nat /\ ~scanned
    BY <1>1, EmptySeq, FileIsStream DEF Phases
  <1>3. Phases'
    BY <1>1 DEF Phases
  <1>4. Chained'
    BY <1>1 DEF Chained
  <1>5. data_source' = [is_open |-> TRUE, position |-> 0, at |-> 0]
    BY <1>1, SoughtInStep DEF InPlace
  <1>6. InStep(data_source)' /\ data_source'.is_open = TRUE /\ data_source'.at = 0
    <2> HIDE DEF Scan
    <2> QED
      BY <1>5 DEF InStep, Sources
  <1>7. InPlace'
    <2>1. Stat' = Stat
      BY DEF Stat
    <2>2. read_pkt.no = 0 /\ read_pkt \in [pos : Nat, no : Nat] /\ read_pkt.pos = 0
      BY <1>1, <1>2 DEF Phases, InPlace, SplitEnd
    <2> QED
      BY <1>2, <1>6, <2>1, <2>2 DEF InPlace, SplitEnd
  <1>8. GotInv'
    BY <1>1 DEF GotInv
  <1>9. ContextInv'
    <2>1. ctx' \in Contexts
      BY ClearedTypes DEF Contexts
    <2>2. Collects(NoStream, 0)
      <3>1. \A v \in 0 .. 2 : Len(NoStream.aps_list[v]) = 0
        BY ClearedTypes, EmptySeq
      <3> QED
        BY <3>1, ClearedTypes DEF Collects, InOrder
    <2> QED
      BY <1>1, <1>2, <2>1, <2>2, ClearedTypes DEF ContextInv
  <1>10. CrashInv'
    BY DEF CrashInv
  <1> QED
    BY <1>3, <1>4, <1>7, <1>8, <1>9, <1>10 DEF SourceInv

\* A turn of the loop of the scan.
LEMMA ScanPacketKeepsInv ==
    ASSUME SourceInv, ScanPacket
    PROVE  SourceInv'
  <1>1. Phases /\ Chained /\ InPlace /\ GotInv /\ ContextInv
    BY DEF SourceInv
  <1>2. /\ pc = "scan" /\ pos < Stat /\ ~scanned
        /\ pos \in Nat /\ pno \in Nat /\ pno = Len(split) /\ pos = SplitEnd(split, pno)
        /\ InStep(data_source) /\ data_source.is_open /\ data_source.at = pos
        /\ ctx \in Contexts /\ ctx.stream.packets = pno /\ Collects(ctx.stream, pno)
        /\ want.strict \in BOOLEAN
    BY <1>1 DEF ScanPacket, Phases, InPlace, ContextInv
  <1>3. IsStream(file) /\ Stat = Length(file) /\ Stat \in Nat
    BY <1>1, FileIsStream
  <1>4. ReadLength = BufLen(file, pos)
    BY <1>2, <1>3, ReadsBuffer
  <1>5. /\ BufLen(file, pos) \in Nat
        /\ pos + BufLen(file, pos) <= Stat
        /\ LengthAt(file, pos) \in 0 .. BufLen(file, pos)
    BY <1>2, <1>3, LengthFits DEF LengthAt
  <1>6. PICK p :
            /\ p = ParsePacket(file, pos, BufLen(file, pos), TRUE, ctx)
            /\ IF p.ret = 0
               THEN /\ pc' = IF pno = 0 THEN "exited" ELSE pc
                    /\ pos' = Stat
                    /\ ctx' = p.ctx
                    /\ data_source' = SourceAdvanced(data_source, BufLen(file, pos))
                    /\ UNCHANGED <<pno, split>>
               ELSE /\ ctx' = Collected(p.ctx, pno, want.strict)
                    /\ pos' = pos + p.ret
                    /\ pno' = pno + 1
                    /\ data_source' = NextPacket(data_source, BufLen(file, pos), p.ret, pos)
                    /\ split' = Append(split, [from |-> pos, length |-> p.ret])
                    /\ UNCHANGED pc
    BY <1>2, <1>4 DEF ScanPacket
  <1>7. UNCHANGED <<file, scanned, info, read_pkt, want, got>>
    BY DEF ScanPacket
  <1>8. /\ p.ret = LengthAt(file, pos)
        /\ p.ctx \in Contexts
        /\ p.ctx.stream.packets = pno + (IF p.ret = 0 THEN 0 ELSE 1)
        /\ Follows(p.ctx, ctx)
    <2>1. ctx.stream.seen_pts => ctx.stream.min_pts <= ctx.stream.max_pts
      BY <1>2 DEF Collects
    <2>2. pos < Length(file) /\ pos \in Nat
      BY <1>2, <1>3
    <2>3. PICK parse_pes \in BOOLEAN :
              p = ParsePacket(file, pos, BufLen(file, pos), parse_pes, ctx)
      BY <1>6, Zenon
    <2>4. p.ret = FoundLength(file, pos, BufLen(file, pos)) /\ p.ctx \in Contexts
      BY <1>2, <1>3, <2>2, <2>3, PacketParsed
    <2>5. p.ctx.stream.packets = ctx.stream.packets + (IF p.ret = 0 THEN 0 ELSE 1)
      BY <1>2, <1>3, <2>2, <2>3, PacketParsed
    <2>6. Follows(p.ctx, ctx)
      BY <1>2, <1>3, <2>1, <2>2, <2>3, PacketParsed
    <2> QED
      BY <1>2, <2>4, <2>5, <2>6 DEF LengthAt
  <1>9. Stat' = Stat
    BY <1>7 DEF Stat
  <1>10. read_pkt.no = 0 /\ read_pkt \in [pos : Nat, no : Nat] /\ read_pkt.pos = 0 /\ got.no = -1
         /\ got.scan = <<>>
    BY <1>1, <1>2 DEF Phases, InPlace, SplitEnd
  <1>11. CASE p.ret = 0
    <2>1. /\ pc' = (IF pno = 0 THEN "exited" ELSE pc)
          /\ pos' = Stat
          /\ ctx' = p.ctx
          /\ data_source' = SourceAdvanced(data_source, BufLen(file, pos))
          /\ UNCHANGED <<pno, split>>
      BY <1>6, <1>11
    <2>2. Phases'
      BY <1>1, <1>2, <1>7, <2>1 DEF Phases
    <2>3. Chained'
      BY <1>1, <1>7, <2>1 DEF Chained
    <2>4. InStep(data_source)'
      <3>1. InStep(SourceAdvanced(data_source, BufLen(file, pos)))
        BY <1>2, <1>5, NextInStep
      <3> QED
        BY <2>1, <3>1 DEF InStep
    <2>5. InPlace'
      BY <1>2, <1>3, <1>7, <1>9, <1>10, <2>1, <2>4 DEF InPlace, SplitEnd
    <2>6. GotInv'
      BY <1>7, <1>10 DEF GotInv
    <2>7. ContextInv'
      <3>1. Collects(p.ctx.stream, pno)
        BY <1>2, <1>8, CollectsOn
      <3>2. p.ctx.stream.packets = pno
        BY <1>2, <1>8, <1>11
      <3> QED
        BY <1>1, <1>2, <1>7, <1>8, <2>1, <3>1, <3>2 DEF ContextInv
    <2>8. CrashInv'
      BY <1>2, <2>1 DEF CrashInv
    <2> QED
      BY <2>2, <2>3, <2>5, <2>6, <2>7, <2>8 DEF SourceInv
  <1>12. CASE p.ret # 0
    <2> DEFINE length == LengthAt(file, pos)
    <2>1. /\ ctx' = Collected(p.ctx, pno, want.strict)
          /\ pos' = pos + length
          /\ pno' = pno + 1
          /\ data_source' = NextPacket(data_source, BufLen(file, pos), length, pos)
          /\ split' = Append(split, [from |-> pos, length |-> length])
          /\ pc' = pc
      BY <1>6, <1>8, <1>12
    <2>2. length \in Nat \ {0} /\ pos + length <= Stat
      BY <1>2, <1>3, <1>5, <1>8, <1>12
    <2>3. Phases'
      BY <1>1, <1>2, <1>7, <2>1 DEF Phases
    <2>4. /\ IsChained(file, split')
          /\ Len(split') = pno + 1
          /\ SplitEnd(split', pno + 1) = pos + length
          /\ SplitEnd(split', 0) = 0
      <3>1. IsChained(file, split) /\ Len(split) \in Nat
        BY <1>1, LenProperties DEF Chained, IsChained
      <3>2. /\ IsChained(file, split')
            /\ Len(split') = Len(split) + 1
            /\ SplitEnd(split', Len(split) + 1) = pos + length
        <4>1. pos = SplitEnd(split, Len(split)) /\ pos < Length(file) /\ length # 0
          BY <1>2, <1>3, <2>2
        <4>2. split' = Append(split, [from |-> pos, length |-> LengthAt(file, pos)])
          BY <2>1
        <4>3. IsChained(file, split')
          BY <1>3, <3>1, <4>1, <4>2, ChainGrows
        <4>4. Len(split') = Len(split) + 1
          BY <1>3, <3>1, <4>1, <4>2, ChainGrows
        <4>5. SplitEnd(split', Len(split) + 1) = pos + LengthAt(file, pos)
          <5> DEFINE P == [from : Nat, length : Nat \ {0}]
                     packet == [from |-> pos, length |-> LengthAt(file, pos)]
          <5>1. split \in Seq(P) /\ packet \in P
            BY <1>2, <2>2, <3>1 DEF IsChained
          <5>2. split' = Append(split, packet)
            BY <4>2
          <5> HIDE DEF P, packet
          <5>3. split'[Len(split) + 1] = packet
            BY <5>1, <5>2, AppendProperties
          <5>4. split'[Len(split) + 1].from = pos
            BY <5>3 DEF packet
          <5>5. split'[Len(split) + 1].length = LengthAt(file, pos)
            BY <5>3 DEF packet
          <5>6. Len(split) + 1 # 0
            BY <3>1
          <5> QED
            BY <5>4, <5>5, <5>6 DEF SplitEnd
        <4> QED
          BY <4>3, <4>4, <4>5
      <3> QED
        BY <1>2, <3>2 DEF SplitEnd
    <2>5. Chained'
      BY <1>7, <2>4 DEF Chained
    <2>6. data_source' = [is_open |-> TRUE, position |-> pos + length, at |-> pos + length]
      BY <1>2, <1>5, <2>1, <2>2, NextInStep
    <2>7. InStep(data_source)' /\ data_source'.is_open = TRUE /\ data_source'.at = pos + length
      BY <1>2, <2>2, <2>6 DEF InStep, Sources
    <2>8. InPlace'
      <3>1. pos + length \in Nat /\ pno + 1 \in Nat
        BY <1>2, <2>2
      <3> HIDE DEF length
      <3> QED
        BY <1>2, <1>7, <1>9, <1>10, <2>1, <2>2, <2>4, <2>7, <3>1 DEF InPlace
    <2>9. GotInv'
      BY <1>7, <1>10 DEF GotInv
    <2>10. ContextInv'
      <3>1. /\ ctx' \in Contexts
            /\ ctx'.stream.packets = p.ctx.stream.packets
            /\ Collects(ctx'.stream, pno + 1)
        BY <1>2, <1>8, <2>1, CollectedKeeps
      <3>2. p.ctx.stream.packets = pno + 1
        BY <1>8, <1>12
      <3>3. pc' = "scan" /\ pno' = pno + 1 /\ ~scanned' /\ info' = info /\ info \in StreamInfo
        BY <1>1, <1>2, <1>7, <2>1 DEF ContextInv
      <3> QED
        BY <3>1, <3>2, <3>3 DEF ContextInv
    <2>11. CrashInv'
      BY <1>2, <2>1 DEF CrashInv
    <2> QED
      BY <2>3, <2>5, <2>8, <2>9, <2>10, <2>11 DEF SourceInv
  <1> QED
    BY <1>11, <1>12

\* The end of the scan: it has always come to the end of the stream.
LEMMA ScanEndKeepsInv ==
    ASSUME SourceInv, ScanEnd
    PROVE  SourceInv'
  <1>1. Phases /\ Chained /\ InPlace /\ GotInv /\ ContextInv
    BY DEF SourceInv
  <1>2. Stat \in Nat /\ pos \in Nat /\ pos <= Stat /\ pos >= Stat /\ pc = "scan"
    BY <1>1, FileIsStream DEF ScanEnd, InPlace
  <1>3. pos = Stat
    BY <1>2
  <1>4. /\ data_source' = SourceClosed(data_source)
        /\ info' = Concluded(ctx.stream)
        /\ scanned' = TRUE
        /\ pc' = "idle"
        /\ UNCHANGED <<file, read_pkt, pos, pno, ctx, want, got, split>>
    BY <1>3 DEF ScanEnd
  <1>5. Phases'
    BY <1>1, <1>4 DEF Phases
  <1>6. Chained'
    BY <1>1, <1>4 DEF Chained
  <1>7. InPlace'
    <2>1. InStep(data_source)'
      BY <1>4, ClosedInStep DEF InStep
    <2>2. Stat' = Stat
      BY <1>4 DEF Stat
    <2> QED
      BY <1>1, <1>4, <2>1, <2>2 DEF InPlace
  <1>8. GotInv'
    BY <1>1, <1>4 DEF GotInv
  <1>9. ContextInv'
    <2>1. /\ ctx \in Contexts /\ ctx.stream \in StreamInfo
          /\ ctx.stream.packets = Len(split) /\ Collects(ctx.stream, Len(split))
      BY <1>1, <1>2, ContextTypes DEF ContextInv, InPlace
    <2>2. info' \in StreamInfo /\ info'.packets = Len(split) /\ Tells(info', Len(split))
      BY <1>4, <2>1, ConcludedTells
    <2> QED
      BY <1>4, <2>1, <2>2 DEF ContextInv
  <1>10. CrashInv'
    BY <1>4 DEF CrashInv
  <1> QED
    BY <1>5, <1>6, <1>7, <1>8, <1>9, <1>10 DEF SourceInv

\* The call for a packet.
LEMMA GetPacketKeepsInv ==
    ASSUME SourceInv, NEW no \in Nat, NEW fix \in BOOLEAN, GetPacket(no, fix)
    PROVE  SourceInv'
  <1> DEFINE from == StartFor(no)
  <1>1. Phases /\ Chained /\ InPlace /\ GotInv /\ ContextInv
    BY DEF SourceInv
  <1>2. /\ pc = "idle" /\ scanned /\ no < info.packets /\ info.packets = Len(split)
        /\ read_pkt' = from
        /\ want' = [want EXCEPT !.no = no, !.fix = fix]
        /\ ctx' = [stream |-> [NoStream EXCEPT !.seen_pts = TRUE, !.min_pts = info.min_pts],
                   packet |-> NoPacket]
        /\ pos' = from.pos
        /\ pno' = from.no
        /\ data_source' = SourceSought(data_source, from.pos)
        /\ pc' = "get"
        /\ UNCHANGED <<file, scanned, info, got, split>>
    BY <1>1 DEF GetPacket, ContextInv
  <1>3. Len(split) \in Nat
    BY <1>1, LenProperties DEF Chained, IsChained
  <1>4. /\ from \in [pos : Nat, no : Nat]
        /\ from.no <= Len(split) /\ from.no <= no
        /\ from.pos = SplitEnd(split, from.no)
    <2>1. /\ read_pkt \in [pos : Nat, no : Nat]
          /\ read_pkt.no <= Len(split)
          /\ read_pkt.pos = SplitEnd(split, read_pkt.no)
      BY <1>1 DEF InPlace
    <2>2. CASE no < read_pkt.no
      BY <1>3, <2>2 DEF StartFor, SplitEnd
    <2>3. CASE ~(no < read_pkt.no)
      <3>1. from = read_pkt
        BY <2>3 DEF StartFor
      <3> HIDE DEF from
      <3> QED
        BY <2>1, <2>3, <3>1
    <2> QED
      BY <2>2, <2>3
  <1> HIDE DEF from
  <1>5. from.pos \in Nat /\ from.no \in Nat /\ from.pos <= Stat
    <2>1. SplitEnd(split, from.no) <= Length(file)
      BY <1>1, <1>4, FileIsStream, ChainEnds DEF Chained
    <2> QED
      BY <1>1, <1>4, <2>1, FileIsStream
  <1>6. Phases'
    <2>1. want \in [no : Nat, fix : BOOLEAN, strict : BOOLEAN]
      BY <1>1 DEF Phases
    <2>2. want' \in [no : Nat, fix : BOOLEAN, strict : BOOLEAN]
      BY <1>2, <2>1
    <2> QED
      BY <1>1, <1>2, <2>2 DEF Phases
  <1>7. Chained'
    BY <1>1, <1>2 DEF Chained
  <1>8. data_source' = [is_open |-> TRUE, position |-> from.pos, at |-> from.pos]
    BY <1>1, <1>2, <1>5, SoughtInStep DEF InPlace
  <1>9. InStep(data_source)' /\ data_source'.is_open = TRUE /\ data_source'.at = from.pos
    BY <1>5, <1>8 DEF InStep, Sources
  <1>10. InPlace'
    <2>1. Stat' = Stat /\ want'.no = no
      BY <1>1, <1>2 DEF Stat, Phases
    <2> QED
      BY <1>2, <1>4, <1>5, <1>9, <2>1 DEF InPlace
  <1>11. GotInv'
    BY <1>1, <1>2 DEF GotInv
  <1>12. ContextInv'
    <2>1. info.min_pts \in Nat
      BY <1>1 DEF ContextInv, StreamInfo
    <2>2. [NoStream EXCEPT !.seen_pts = TRUE, !.min_pts = info.min_pts] \in StreamInfo
      BY <2>1, ClearedTypes DEF StreamInfo
    <2>3. ctx' \in Contexts
      BY <1>2, <2>2, ClearedTypes DEF Contexts
    <2> QED
      BY <1>1, <1>2, <2>3 DEF ContextInv
  <1>13. CrashInv'
    BY <1>2 DEF CrashInv
  <1> QED
    BY <1>6, <1>7, <1>10, <1>11, <1>12, <1>13 DEF SourceInv

\* What a turn of the loop of a call does with the packet that it parses.
GetsNext(p) ==
    /\ IF pno = want.no
       THEN /\ read_pkt' = Behind(pos, p.ret, pno)
            /\ data_source' = SourceAdvanced(data_source, BufLen(file, pos))
            /\ IF CannotFix(p.ctx.packet)
               THEN pc' = "crashed" /\ UNCHANGED got
               ELSE /\ pc' = "idle"
                    /\ got' = [no |-> pno, from |-> pos, length |-> p.ret,
                               packet |-> [p.ctx.packet EXCEPT !.pts = @ - info.min_pts],
                               scan |-> Fixed(p.ctx.packet)]
            /\ UNCHANGED <<pos, pno>>
       ELSE /\ pos' = pos + p.ret
            /\ pno' = pno + 1
            /\ data_source' = NextPacket(data_source, BufLen(file, pos), p.ret, pos)
            /\ UNCHANGED <<pc, read_pkt, got>>
    /\ ctx' = p.ctx
    /\ UNCHANGED <<file, scanned, info, want, split>>

\* It is never at the end of the packets: the scan has found one here.
LEMMA GetNextGets ==
    ASSUME SourceInv, GetNext
    PROVE  /\ pc = "get" /\ scanned /\ pos \in Nat /\ pos < Stat /\ pno \in Nat
           /\ pno < Len(split) /\ pno <= want.no /\ want.no < Len(split)
           /\ pos = SplitEnd(split, pno)
           /\ InStep(data_source) /\ data_source.is_open /\ data_source.at = pos
           /\ BufLen(file, pos) \in Nat
           /\ LengthAt(file, pos) \in Nat \ {0}
           /\ split[pno + 1] = [from |-> pos, length |-> LengthAt(file, pos)]
           /\ SplitEnd(split, pno + 1) = pos + LengthAt(file, pos)
           /\ pos + LengthAt(file, pos) <= Stat
           /\ \E p : /\ p.ret = LengthAt(file, pos)
                     /\ p.ctx \in Contexts
                     /\ GetsNext(p)
  <1>1. Phases /\ Chained /\ InPlace /\ ContextInv
    BY DEF SourceInv
  <1>2. /\ pc = "get" /\ scanned /\ pos \in Nat /\ pno \in Nat /\ pno <= want.no
        /\ want.no < Len(split) /\ pos = SplitEnd(split, pno) /\ InStep(data_source)
        /\ ctx \in Contexts /\ want.no \in Nat /\ want.fix \in BOOLEAN
    BY <1>1 DEF GetNext, Phases, InPlace, ContextInv
  <1>3. IsStream(file) /\ Stat = Length(file) /\ Stat \in Nat
    BY <1>1, FileIsStream
  <1>4. IsChained(file, split) /\ Len(split) \in Nat
    BY <1>1, LenProperties DEF Chained, IsChained
  <1>5. pno < Len(split)
    BY <1>2, <1>4
  <1>6. /\ split[pno + 1] = [from |-> pos, length |-> LengthAt(file, pos)]
        /\ pos < Stat
        /\ LengthAt(file, pos) \in Nat \ {0}
    <2>1. split[pno + 1]
            = [from |-> SplitEnd(split, pno), length |-> LengthAt(file, SplitEnd(split, pno))]
      BY <1>2, <1>3, <1>4, <1>5, ChainNext
    <2>2. SplitEnd(split, pno) < Length(file)
      BY <1>2, <1>3, <1>4, <1>5, ChainNext
    <2>3. LengthAt(file, SplitEnd(split, pno)) \in Nat \ {0}
      BY <1>2, <1>3, <1>4, <1>5, ChainNext
    <2> QED
      BY <1>2, <1>3, <2>1, <2>2, <2>3
  <1>7. SplitEnd(split, pno + 1) = pos + LengthAt(file, pos)
    <2>1. /\ split[pno + 1].from = pos
          /\ split[pno + 1].length = LengthAt(file, pos)
          /\ pno + 1 # 0
      BY <1>2, <1>6
    <2> QED
      BY <2>1 DEF SplitEnd
  <1>8. data_source.is_open /\ data_source.at = pos
    BY <1>1, <1>2, <1>6 DEF InPlace
  <1>9. ReadLength = BufLen(file, pos)
    BY <1>2, <1>3, <1>6, <1>8, ReadsBuffer
  <1>10. /\ BufLen(file, pos) \in Nat
         /\ pos + BufLen(file, pos) <= Stat
         /\ LengthAt(file, pos) \in 0 .. BufLen(file, pos)
    BY <1>2, <1>3, <1>6, LengthFits DEF LengthAt
  <1>11. pos + LengthAt(file, pos) <= Stat
    BY <1>2, <1>3, <1>10
  <1> DEFINE p == ParsePacket(file, pos, BufLen(file, pos), want.fix, ctx)
  <1>12. p.ret = LengthAt(file, pos) /\ p.ctx \in Contexts
    <2>1. pos < Length(file) /\ pos \in Nat
      BY <1>2, <1>3, <1>6
    <2>2. PICK q : q = p
      OBVIOUS
    <2>3. q = ParsePacket(file, pos, BufLen(file, pos), want.fix, ctx)
      BY <2>2
    <2> HIDE DEF p
    <2>4. q.ret = FoundLength(file, pos, BufLen(file, pos))
      BY <1>2, <1>3, <2>1, <2>3, PacketParsed
    <2>5. q.ctx \in Contexts
      BY <1>2, <1>3, <2>1, <2>3, PacketParsed
    <2> QED
      BY <2>2, <2>4, <2>5 DEF LengthAt
  <1>13. GetsNext(p)
    <2>1. ParsePacket(file, data_source.at, ReadLength, want.fix, ctx) = p
      BY <1>8, <1>9
    <2> HIDE DEF p
    <2>2. ~(pos >= Stat \/ p.ret = 0) /\ (pos < Stat /\ p.ret # 0)
      BY <1>2, <1>3, <1>6, <1>12
    <2>3. CASE pno = want.no
      BY <1>9, <2>1, <2>2, <2>3 DEF GetNext, GetsNext
    <2>4. CASE pno # want.no
      BY <1>9, <2>1, <2>2, <2>4 DEF GetNext, GetsNext
    <2> QED
      BY <2>3, <2>4
  <1> HIDE DEF p
  <1>14. \E q : q.ret = LengthAt(file, pos) /\ q.ctx \in Contexts /\ GetsNext(q)
    BY <1>12, <1>13
  <1> QED
    BY <1>2, <1>5, <1>6, <1>7, <1>8, <1>10, <1>11, <1>14

\* One turn of the loop of a call.
LEMMA GetNextKeepsInv ==
    ASSUME SourceInv, GetNext
    PROVE  SourceInv'
  <1> DEFINE length == LengthAt(file, pos)
  <1>1. Phases /\ Chained /\ InPlace /\ GotInv /\ ContextInv
    BY DEF SourceInv
  <1>2. /\ pc = "get" /\ scanned /\ pos \in Nat /\ pos < Stat /\ pno \in Nat
        /\ pno < Len(split) /\ pno <= want.no /\ want.no < Len(split)
        /\ pos = SplitEnd(split, pno)
        /\ InStep(data_source) /\ data_source.is_open /\ data_source.at = pos
        /\ BufLen(file, pos) \in Nat
        /\ length \in Nat \ {0}
        /\ split[pno + 1] = [from |-> pos, length |-> length]
        /\ SplitEnd(split, pno + 1) = pos + length
        /\ pos + length <= Stat
    BY GetNextGets
  <1>3. PICK p : p.ret = length /\ p.ctx \in Contexts /\ GetsNext(p)
    BY GetNextGets
  <1> HIDE DEF length
  <1>4. ctx' = p.ctx /\ UNCHANGED <<file, scanned, info, want, split>>
    BY <1>3 DEF GetsNext
  <1>5. Stat' = Stat /\ Stat \in Nat
    BY <1>1, <1>4, FileIsStream DEF Stat
  <1>6. Len(split) \in Nat /\ want.no \in Nat /\ info \in StreamInfo
    BY <1>1, LenProperties DEF Chained, IsChained, Phases, ContextInv
  <1>7. Chained'
    BY <1>1, <1>4 DEF Chained
  <1>8. ContextInv' <=> (pc' = "scan" => ctx'.stream.packets = pno' /\ Collects(ctx'.stream, pno'))
    BY <1>1, <1>2, <1>3, <1>4 DEF ContextInv
  <1>9. CASE pno = want.no
    <2>1. /\ read_pkt' = Behind(pos, length, pno)
          /\ data_source' = SourceAdvanced(data_source, BufLen(file, pos))
          /\ UNCHANGED <<pos, pno>>
          /\ IF CannotFix(p.ctx.packet)
             THEN pc' = "crashed" /\ UNCHANGED got
             ELSE /\ pc' = "idle"
                  /\ got' = [no |-> pno, from |-> pos, length |-> length,
                             packet |-> [p.ctx.packet EXCEPT !.pts = @ - info.min_pts],
                             scan |-> Fixed(p.ctx.packet)]
      BY <1>3, <1>9 DEF GetsNext
    <2>2. pc' \in {"crashed", "idle"}
      BY <2>1
    <2>3. Phases'
      BY <1>1, <1>2, <1>4, <2>2 DEF Phases
    <2>4. InStep(data_source)'
      <3>1. InStep(SourceAdvanced(data_source, BufLen(file, pos)))
        BY <1>2, NextInStep
      <3> QED
        BY <2>1, <3>1 DEF InStep
    <2>5. /\ read_pkt' \in [pos : Nat, no : Nat]
          /\ read_pkt'.no = pno + 1
          /\ read_pkt'.pos = pos + length
      BY <1>2, <2>1 DEF Behind
    <2>6. SplitEnd(split', read_pkt'.no) = pos + length
      BY <1>2, <1>4, <2>5
    <2>7. InPlace'
      <3>1. read_pkt'.no <= Len(split')
        BY <1>2, <1>4, <1>6, <2>5
      <3>2. pos' \in Nat /\ pos' <= Stat' /\ pno' \in Nat
        BY <1>2, <1>5, <2>1
      <3> QED
        BY <2>2, <2>4, <2>5, <2>6, <3>1, <3>2 DEF InPlace
    <2>8. GotInv'
      <3>1. CASE UNCHANGED got
        BY <1>1, <1>4, <3>1 DEF GotInv
      <3>2. CASE got' # got
        <4>1. got'.no = pno /\ got'.from = pos /\ got'.length = length
          BY <2>1, <3>2
        <4> QED
          BY <1>2, <1>4, <4>1 DEF GotInv
      <3> QED
        BY <3>1, <3>2
    <2>9. CrashInv'
      <3> SUFFICES ASSUME pc' = "crashed" PROVE CrashInv'
        BY DEF CrashInv
      <3> DEFINE packet == p.ctx.packet
                 v == VidOf(packet)
                 list == info.aps_list[v]
      <3>1. CannotFix(packet)
        BY <2>1
      <3>2. want.fix /\ info.version = 2 /\ packet.scan_data
        BY <3>1 DEF CannotFix, Fixes
      <3>3. v \in 0 .. 2
        BY DEF VidOf
      <3>4. list = <<>> \/ (~packet.has_pts /\ ~\E k \in DOMAIN list : list[k].packet_no < pno)
        BY <3>1 DEF CannotFix, NoList, NoBase
      <3>5. ASSUME NEW k \in DOMAIN list PROVE list[k].packet_no \in Nat
        BY <1>6, <3>3, <3>5, ListTypes
      <3>6. list = <<>> \/ (~packet.has_pts /\ \A k \in DOMAIN list : list[k].packet_no >= want.no)
        BY <1>2, <1>9, <3>4, <3>5
      <3>7. ctx'.packet = packet /\ info'.aps_list[VidOf(ctx'.packet)] = list
        BY <1>4
      <3> QED
        BY <1>4, <3>2, <3>6, <3>7 DEF CrashInv
    <2> QED
      BY <1>7, <1>8, <2>2, <2>3, <2>7, <2>8, <2>9 DEF SourceInv
  <1>10. CASE pno # want.no
    <2>1. /\ pos' = pos + length
          /\ pno' = pno + 1
          /\ data_source' = NextPacket(data_source, BufLen(file, pos), length, pos)
          /\ UNCHANGED <<pc, read_pkt, got>>
      BY <1>3, <1>10 DEF GetsNext
    <2>2. Phases'
      BY <1>1, <1>4, <2>1 DEF Phases
    <2>3. data_source' = [is_open |-> TRUE, position |-> pos + length, at |-> pos + length]
      BY <1>2, <2>1, NextInStep
    <2>4. InStep(data_source)' /\ data_source'.is_open = TRUE /\ data_source'.at = pos + length
      BY <1>2, <2>3 DEF InStep, Sources
    <2>5. InPlace'
      <3>1. /\ pos' \in Nat /\ pos' <= Stat' /\ pno' \in Nat
            /\ pno' <= want'.no /\ want'.no < Len(split')
        BY <1>2, <1>4, <1>5, <1>6, <1>10, <2>1
      <3>2. pos' = SplitEnd(split', pno')
        BY <1>2, <1>4, <2>1
      <3>3. /\ read_pkt' \in [pos : Nat, no : Nat]
            /\ read_pkt'.no <= Len(split')
            /\ read_pkt'.pos = SplitEnd(split', read_pkt'.no)
        BY <1>1, <1>4, <2>1 DEF InPlace
      <3>4. pc' = "get" /\ data_source'.is_open /\ data_source'.at = pos'
        BY <1>2, <2>1, <2>4
      <3> QED
        BY <2>4, <3>1, <3>2, <3>3, <3>4 DEF InPlace
    <2>6. GotInv'
      BY <1>1, <1>4, <2>1 DEF GotInv
    <2>7. CrashInv'
      BY <1>2, <2>1 DEF CrashInv
    <2> QED
      BY <1>2, <1>7, <1>8, <2>1, <2>2, <2>5, <2>6, <2>7 DEF SourceInv
  <1> QED
    BY <1>9, <1>10

\* The end of the calls.
LEMMA CloseKeepsInv ==
    ASSUME SourceInv, Close
    PROVE  SourceInv'
  <1>1. Phases /\ Chained /\ InPlace /\ GotInv /\ ContextInv /\ CrashInv
    BY DEF SourceInv
  <1>2. /\ data_source' = SourceClosed(data_source)
        /\ pc = "idle"
        /\ UNCHANGED <<file, scanned, info, read_pkt, pc, pos, pno, ctx, want, got, split>>
    BY DEF Close
  <1>3. InStep(data_source)'
    BY <1>2, ClosedInStep DEF InStep
  <1>4. Stat' = Stat
    BY <1>2 DEF Stat
  <1>5. InPlace'
    BY <1>1, <1>2, <1>3, <1>4 DEF InPlace
  <1>6. Phases' /\ GotInv'
    BY <1>1, <1>2 DEF Phases, GotInv
  <1>7. Chained'
    BY <1>1, <1>2 DEF Chained
  <1>8. ContextInv'
    BY <1>1, <1>2 DEF ContextInv
  <1>9. CrashInv'
    BY <1>2 DEF CrashInv
  <1> QED
    BY <1>5, <1>6, <1>7, <1>8, <1>9 DEF SourceInv

\* Whatever happens.
LEMMA NextKeepsInv ==
    ASSUME SourceInv, [Next]_vars
    PROVE  SourceInv'
  <1>1. ASSUME NEW strict_aps \in BOOLEAN, Scan(strict_aps) PROVE SourceInv'
    BY <1>1, ScanKeepsInv
  <1>2. CASE ScanPacket
    BY <1>2, ScanPacketKeepsInv
  <1>3. CASE ScanEnd
    BY <1>3, ScanEndKeepsInv
  <1>4. CASE GetNext
    BY <1>4, GetNextKeepsInv
  <1>5. ASSUME NEW no \in 0 .. Len(file) - 1, NEW fix \in BOOLEAN, GetPacket(no, fix)
        PROVE  SourceInv'
    <2>1. file \in Seq(Elements)
      BY FileIsStream DEF SourceInv, Phases, IsStream
    <2>2. no \in Nat
      BY <1>5, <2>1, LenProperties
    <2> QED
      BY <1>5, <2>2, GetPacketKeepsInv
  <1>6. CASE Close
    BY <1>6, CloseKeepsInv
  <1>7. CASE UNCHANGED vars
    <2>1. UNCHANGED <<file, data_source, scanned, info, read_pkt, pc, pos, pno, ctx, want, got, split>>
      BY <1>7 DEF vars
    <2>2. Phases' /\ GotInv' /\ Chained'
      BY <2>1 DEF SourceInv, Phases, GotInv, Chained
    <2>3. Stat' = Stat
      BY <2>1 DEF Stat
    <2>4. InStep(data_source)'
      BY <2>1 DEF SourceInv, InPlace, InStep
    <2>5. InPlace'
      BY <2>1, <2>3, <2>4 DEF SourceInv, InPlace
    <2>6. ContextInv' /\ CrashInv'
      BY <2>1 DEF SourceInv, ContextInv, CrashInv, VidOf
    <2> QED
      BY <2>2, <2>5, <2>6 DEF SourceInv
  <1> QED
    BY <1>1, <1>2, <1>3, <1>4, <1>5, <1>6, <1>7 DEF Next

-----------------------------------------------------------------------------
(* What the runs check.                                                    *)

\* The invariant of a scan and of the calls behind it holds in every state.
THEOREM SourceInvCorrect == Spec => []SourceInv
  <1>1. Init => SourceInv
    BY InitSourceInv
  <1>2. SourceInv /\ [Next]_vars => SourceInv'
    BY NextKeepsInv
  <1> QED
    BY <1>1, <1>2, PTL DEF Spec

\* Every call is at a place of the stream, the source stands where its position
\* says, and the scan has counted the packets it has passed.
THEOREM MpegTypeOKCorrect == Spec => []MpegTypeOK
  <1>1. SourceInv => MpegTypeOK
    <2> SUFFICES ASSUME SourceInv PROVE MpegTypeOK
      OBVIOUS
    <2>1. Phases /\ InPlace /\ ContextInv
      BY DEF SourceInv
    <2>2. pc \in {"idle", "scan", "get", "exited", "aborted", "crashed"}
      BY <2>1 DEF Phases
    <2>3. /\ pos \in Nat /\ pno \in Nat
          /\ data_source \in Sources /\ data_source.position = data_source.at
          /\ pc = "scan" => pno = Len(split)
      BY <2>1 DEF InPlace, InStep
    <2>4. /\ pc = "scan" => ctx.stream.packets = pno
          /\ scanned => info.packets = Len(split)
      BY <2>1 DEF ContextInv
    <2> QED
      BY <2>2, <2>3, <2>4 DEF MpegTypeOK, Sources
  <1> QED
    BY <1>1, SourceInvCorrect, PTL

\* A packet that vcd_mpeg_source_get_packet leaves in the caller's buffer is the
\* packet of that number of the scan, after any other calls.
THEOREM FetchedAsScannedCorrect == Spec => []FetchedAsScanned
  <1>1. SourceInv => FetchedAsScanned
    BY DEF SourceInv, GotInv, FetchedAsScanned
  <1> QED
    BY <1>1, SourceInvCorrect, PTL

\* vcd_mpeg_source_get_packet never runs beyond the packets of the scan, and
\* crashes only where it is to write scan offsets into a packet of a stream that
\* has no access point, or into one without a timestamp that no access point of
\* its stream comes before.
THEOREM FetchSucceedsCorrect == Spec => []FetchSucceeds
  <1>1. SourceInv => FetchSucceeds
    <2> SUFFICES ASSUME SourceInv PROVE FetchSucceeds
      OBVIOUS
    <2>1. pc # "aborted"
      BY DEF SourceInv, Phases
    <2>2. CrashInv
      BY DEF SourceInv
    <2> QED
      BY <2>1, <2>2 DEF FetchSucceeds, CrashInv
  <1> QED
    BY <1>1, SourceInvCorrect, PTL

\* The lists of access points that the scan leaves are in the order of the disc
\* and of time, and within the playing time.
THEOREM AccessPointsOrderedCorrect == Spec => []AccessPointsOrdered
  <1>1. SourceInv => AccessPointsOrdered
    <2> SUFFICES ASSUME SourceInv, scanned, NEW v \in 0 .. 2
                 PROVE  LET list == info.aps_list[v]
                        IN  /\ \A k \in 2 .. Len(list) :
                                  /\ list[k - 1].packet_no < list[k].packet_no
                                  /\ list[k - 1].timestamp <= list[k].timestamp
                            /\ \A k \in DOMAIN list :
                                  /\ list[k].packet_no < info.packets
                                  /\ list[k].timestamp \in 0 .. info.playing_time
      BY DEF AccessPointsOrdered
    <2> DEFINE list == info.aps_list[v]
    <2>1. info \in StreamInfo /\ info.packets = Len(split) /\ Tells(info, Len(split))
      BY DEF SourceInv, ContextInv
    <2>2. Len(list) \in Nat /\ DOMAIN list = 1 .. Len(list)
      BY <2>1, ListTypes
    <2>3. /\ InOrder(list)
          /\ \A k \in 1 .. Len(list) :
                /\ list[k].packet_no < info.packets
                /\ list[k].timestamp \in 0 .. info.playing_time
      BY <2>1 DEF Tells
    <2> HIDE DEF list
    <2>4. ASSUME NEW k \in 2 .. Len(list)
          PROVE  /\ list[k - 1].packet_no < list[k].packet_no
                 /\ list[k - 1].timestamp <= list[k].timestamp
      <3>1. PICK j \in 1 .. Len(list) - 1 : j = k - 1 /\ j + 1 = k
        BY <2>2
      <3>2. /\ list[j].packet_no < list[j + 1].packet_no
            /\ list[j].timestamp <= list[j + 1].timestamp
        BY <2>3, <3>1 DEF InOrder
      <3>3. list[j] = list[k - 1] /\ list[j + 1] = list[k]
        BY <3>1
      <3> QED
        BY <3>2, <3>3
    <2> QED
      BY <2>2, <2>3, <2>4 DEF list
  <1> QED
    BY <1>1, SourceInvCorrect, PTL

-----------------------------------------------------------------------------
(* The scan offsets of a packet.                                           *)

\* The first and the last number of a list at the places J.
FirstOf(x, list, J) ==
    IF J = {} THEN x = -1
    ELSE \E j \in J : x = list[j].packet_no /\ \A i \in J : x <= list[i].packet_no

LastOf(x, list, J) ==
    IF J = {} THEN x = -1
    ELSE \E j \in J : x = list[j].packet_no /\ \A i \in J : x >= list[i].packet_no

NumbersAt(list, J) == {list[j].packet_no : j \in J}

\* Which of the first k access points are before the packet, behind it, and near
\* it, and the offsets that they make.
Before(list, no, k) == {j \in 1 .. k : list[j].packet_no < no}

After(list, no, k) == {j \in 1 .. k : list[j].packet_no > no}

NearPlaces(list, no, time, k) ==
    {j \in 1 .. k : IF list[j].packet_no < no
                    THEN time - list[j].timestamp < SCAN_WINDOW
                    ELSE list[j].timestamp - time < SCAN_WINDOW}

OffsetsOf(s, list, no, time, k) ==
    /\ LastOf(s.prev, list, Before(list, no, k))
    /\ FirstOf(s.next, list, After(list, no, k))
    /\ FirstOf(s.back, list, Before(list, no, k) \cap NearPlaces(list, no, time, k))
    /\ LastOf(s.forw, list, After(list, no, k) \cap NearPlaces(list, no, time, k))

Offsets == [prev : Int, next : Int, back : Int, forw : Int]

\* The numbers of an ordered list grow.
LEMMA NumbersGrow ==
    ASSUME NEW list \in Seq(Points), InOrder(list), NEW i \in 1 .. Len(list),
           NEW j \in 1 .. Len(list), i < j
    PROVE  list[i].packet_no < list[j].packet_no
  <1>1. Len(list) \in Nat /\ \A k \in 1 .. Len(list) : list[k].packet_no \in Nat
    <2>1. \A k \in 1 .. Len(list) : list[k] \in Points
      BY ElementOfSeq
    <2> QED
      BY <2>1, LenProperties DEF Points
  <1> DEFINE T == {d \in Nat : i + d + 1 <= Len(list) =>
                                 list[i].packet_no < list[i + d + 1].packet_no}
  <1>2. 0 \in T
    <2> SUFFICES ASSUME i + 0 + 1 <= Len(list)
                 PROVE  list[i].packet_no < list[i + 0 + 1].packet_no
      OBVIOUS
    <2>1. i \in 1 .. Len(list) - 1 /\ i + 0 + 1 = i + 1
      BY <1>1
    <2> QED
      BY <2>1 DEF InOrder
  <1>3. ASSUME NEW d \in Nat, d \in T PROVE d + 1 \in T
    <2> SUFFICES ASSUME i + (d + 1) + 1 <= Len(list)
                 PROVE  list[i].packet_no < list[i + (d + 1) + 1].packet_no
      OBVIOUS
    <2>1. list[i].packet_no < list[i + d + 1].packet_no
      BY <1>1, <1>3
    <2>2. PICK m \in 1 .. Len(list) - 1 : m = i + d + 1 /\ m + 1 = i + (d + 1) + 1
      BY <1>1
    <2>3. list[m].packet_no < list[m + 1].packet_no
      BY <2>2 DEF InOrder
    <2>4. m \in 1 .. Len(list) /\ m + 1 \in 1 .. Len(list)
      BY <1>1, <2>2
    <2>5. list[i].packet_no < list[m].packet_no
      BY <2>1, <2>2
    <2>6. list[i].packet_no < list[m + 1].packet_no
      BY <1>1, <2>3, <2>4, <2>5
    <2> QED
      BY <2>2, <2>6
  <1> HIDE DEF T
  <1>6. Nat \subseteq T
    BY <1>2, <1>3, NatSetInduction
  <1>4. j - i - 1 \in T
    BY <1>1, <1>6
  <1>5. i + (j - i - 1) + 1 = j
    BY <1>1
  <1> QED
    BY <1>1, <1>4, <1>5 DEF T

\* One more place, behind the others: its number is the last of them, and the first
\* only if there were none.
LEMMA OneMoreLast ==
    ASSUME NEW list \in Seq(Points), InOrder(list), NEW k \in Nat, k + 1 <= Len(list),
           NEW J \in SUBSET (1 .. k), NEW y, y = list[k + 1].packet_no
    PROVE  LastOf(y, list, J \cup {k + 1}) /\ y \in Nat
           /\ \A i \in J : list[i].packet_no \in Nat /\ list[i].packet_no < y
  <1>1. \A i \in 1 .. Len(list) : list[i].packet_no \in Nat
    <2>1. \A i \in 1 .. Len(list) : list[i] \in Points
      BY ElementOfSeq
    <2> QED
      BY <2>1 DEF Points
  <1>2. k + 1 \in 1 .. Len(list) /\ \A i \in J : i \in 1 .. Len(list) /\ i < k + 1
    BY LenProperties
  <1>3. \A i \in J : list[i].packet_no < y
    BY <1>2, NumbersGrow
  <1>4. \A i \in J : list[i].packet_no \in Nat
    BY <1>1, <1>2
  <1>5. y \in Nat
    BY <1>1, <1>2
  <1>6. /\ J \cup {k + 1} # {}
        /\ k + 1 \in J \cup {k + 1}
        /\ \A i \in J \cup {k + 1} : y >= list[i].packet_no
    BY <1>3, <1>4, <1>5
  <1> QED
    BY <1>3, <1>4, <1>5, <1>6 DEF LastOf

LEMMA OneMoreFirst ==
    ASSUME NEW list \in Seq(Points), InOrder(list), NEW k \in Nat, k + 1 <= Len(list),
           NEW J \in SUBSET (1 .. k), NEW x \in Int, FirstOf(x, list, J),
           NEW y, y = IF x = -1 THEN list[k + 1].packet_no ELSE x
    PROVE  FirstOf(y, list, J \cup {k + 1})
  <1> DEFINE z == list[k + 1].packet_no
  <1>1. z \in Nat /\ \A i \in J : list[i].packet_no \in Nat /\ list[i].packet_no < z
    BY OneMoreLast
  <1>2. CASE J = {}
    <2>1. y = z
      BY <1>2 DEF FirstOf
    <2> QED
      BY <1>1, <1>2, <2>1 DEF FirstOf
  <1>3. CASE J # {}
    <2>1. PICK j \in J : x = list[j].packet_no /\ \A i \in J : x <= list[i].packet_no
      BY <1>3 DEF FirstOf
    <2>2. x # -1 /\ x <= z
      BY <1>1, <2>1
    <2>3. y = x
      BY <2>2
    <2> QED
      BY <2>1, <2>2, <2>3 DEF FirstOf
  <1> QED
    BY <1>2, <1>3

\* Passing an access point keeps the offsets those of the points passed.
LEMMA PassedKeeps ==
    ASSUME NEW list \in Seq(Points), InOrder(list), NEW no \in Nat, NEW time \in Int,
           NEW k \in Nat, k + 1 <= Len(list), NEW t \in Offsets,
           OffsetsOf(t, list, no, time, k)
    PROVE  OffsetsOf(Passed(t, list[k + 1], no, <<time, 1>>), list, no, time, k + 1)
  <1> DEFINE a == list[k + 1]
             u == Passed(t, a, no, <<time, 1>>)
  <1>1. Len(list) \in Nat /\ k + 1 \in 1 .. Len(list)
    BY LenProperties
  <1>2. a \in Points
    BY <1>1, ElementOfSeq
  <1>3. a.packet_no \in Nat /\ a.timestamp \in Int
    BY <1>2 DEF Points
  <1>4. 1 .. k + 1 = (1 .. k) \cup {k + 1} /\ k + 1 \notin 1 .. k
    OBVIOUS
  <1>5. SCAN_WINDOW \in Nat
    BY FilesAssumption
  <1>6. /\ Before(list, no, k) \in SUBSET (1 .. k)
        /\ After(list, no, k) \in SUBSET (1 .. k)
        /\ Before(list, no, k) \cap NearPlaces(list, no, time, k) \in SUBSET (1 .. k)
        /\ After(list, no, k) \cap NearPlaces(list, no, time, k) \in SUBSET (1 .. k)
    BY DEF Before, After
  <1>7. t.prev \in Int /\ t.next \in Int /\ t.back \in Int /\ t.forw \in Int
    BY DEF Offsets
  <1>11. /\ LastOf(t.prev, list, Before(list, no, k))
         /\ FirstOf(t.next, list, After(list, no, k))
         /\ FirstOf(t.back, list, Before(list, no, k) \cap NearPlaces(list, no, time, k))
         /\ LastOf(t.forw, list, After(list, no, k) \cap NearPlaces(list, no, time, k))
    BY DEF OffsetsOf
  <1>12. k + 1 \notin NearPlaces(list, no, time, k)
    BY <1>4 DEF NearPlaces
  <1>8. CASE a.packet_no = no
    <2>1. u = t
      BY <1>8 DEF Passed
    <2>2. /\ Before(list, no, k + 1) = Before(list, no, k)
          /\ After(list, no, k + 1) = After(list, no, k)
      BY <1>3, <1>4, <1>8 DEF Before, After
    <2>3. /\ Before(list, no, k) \cap NearPlaces(list, no, time, k + 1)
               = Before(list, no, k) \cap NearPlaces(list, no, time, k)
          /\ After(list, no, k) \cap NearPlaces(list, no, time, k + 1)
               = After(list, no, k) \cap NearPlaces(list, no, time, k)
      BY <1>4 DEF NearPlaces, Before, After
    <2> HIDE DEF u, a
    <2> QED
      BY <2>1, <2>2, <2>3 DEF OffsetsOf, u, a
  <1>9. CASE a.packet_no < no
    <2>1. u = [t EXCEPT !.prev = a.packet_no,
                        !.back = IF @ = -1 /\ time - a.timestamp < SCAN_WINDOW
                                 THEN a.packet_no ELSE @]
      <3> DEFINE pts == <<time, 1>>
      <3>1. pts[1] = time /\ pts[2] = 1
        OBVIOUS
      <3>2. u = Passed(t, a, no, pts)
        OBVIOUS
      <3> HIDE DEF pts, u, a
      <3>3. IsNear(pts[1] - a.timestamp * pts[2], pts[2]) <=> time - a.timestamp < SCAN_WINDOW
        BY <1>3, <1>5, <3>1 DEF IsNear
      <3>4. u = [t EXCEPT !.prev = a.packet_no,
                            !.back = IF @ = -1 /\ IsNear(pts[1] - a.timestamp * pts[2], pts[2])
                                     THEN a.packet_no ELSE @]
        BY <1>3, <1>9, <3>2 DEF Passed
      <3>5. CASE time - a.timestamp < SCAN_WINDOW
        BY <3>3, <3>4, <3>5
      <3>6. CASE ~(time - a.timestamp < SCAN_WINDOW)
        BY <3>3, <3>4, <3>6
      <3> QED
        BY <3>5, <3>6
    <2>2. /\ u.prev = a.packet_no
          /\ u.back = IF t.back = -1 /\ time - a.timestamp < SCAN_WINDOW
                      THEN a.packet_no ELSE t.back
          /\ u.next = t.next /\ u.forw = t.forw
      BY <2>1 DEF Offsets
    <2>3. /\ Before(list, no, k + 1) = Before(list, no, k) \cup {k + 1}
          /\ After(list, no, k + 1) = After(list, no, k)
      BY <1>3, <1>4, <1>9 DEF Before, After
    <2>4. NearPlaces(list, no, time, k + 1)
            = NearPlaces(list, no, time, k)
                \cup (IF time - a.timestamp < SCAN_WINDOW THEN {k + 1} ELSE {})
      BY <1>4, <1>9 DEF NearPlaces
    <2> HIDE DEF u, a
    <2>5. After(list, no, k + 1) \cap NearPlaces(list, no, time, k + 1)
            = After(list, no, k) \cap NearPlaces(list, no, time, k)
      BY <1>4, <1>6, <2>3, <2>4
    <2>6. LastOf(u.prev, list, Before(list, no, k + 1))
      <3> DEFINE J == Before(list, no, k)
      <3>1. J \in SUBSET (1 .. k)
        BY <1>6
      <3> HIDE DEF J
      <3>2. PICK y : y = list[k + 1].packet_no
        OBVIOUS
      <3>3. LastOf(y, list, J \cup {k + 1})
        BY <3>1, <3>2, OneMoreLast
      <3>4. u.prev = y
        BY <2>2, <3>2 DEF a
      <3> QED
        BY <2>3, <3>3, <3>4 DEF J
    <2>7. FirstOf(u.back, list, Before(list, no, k + 1) \cap NearPlaces(list, no, time, k + 1))
      <3> DEFINE J == Before(list, no, k) \cap NearPlaces(list, no, time, k)
      <3>1. CASE time - a.timestamp < SCAN_WINDOW
        <4>8. NearPlaces(list, no, time, k + 1) = NearPlaces(list, no, time, k) \cup {k + 1}
          BY <2>4, <3>1
        <4>1. Before(list, no, k + 1) \cap NearPlaces(list, no, time, k + 1) = J \cup {k + 1}
          BY <2>3, <4>8
        <4>2. u.back = IF t.back = -1 THEN a.packet_no ELSE t.back
          BY <2>2, <3>1
        <4>3. FirstOf(t.back, list, J) /\ J \in SUBSET (1 .. k)
          BY <1>6, <1>11
        <4> HIDE DEF J
        <4>4. PICK x \in Int : x = t.back
          BY <1>7
        <4>5. PICK y : y = IF x = -1 THEN list[k + 1].packet_no ELSE x
          OBVIOUS
        <4>6. FirstOf(y, list, J \cup {k + 1})
          BY <4>3, <4>4, <4>5, OneMoreFirst
        <4>7. u.back = y
          BY <4>2, <4>4, <4>5 DEF a
        <4> QED
          BY <4>1, <4>6, <4>7
      <3>2. CASE ~(time - a.timestamp < SCAN_WINDOW)
        <4>3. NearPlaces(list, no, time, k + 1) = NearPlaces(list, no, time, k)
          BY <2>4, <3>2
        <4>1. Before(list, no, k + 1) \cap NearPlaces(list, no, time, k + 1) = J
          BY <1>12, <2>3, <4>3
        <4>2. FirstOf(t.back, list, J) /\ u.back = t.back
          BY <1>11, <2>2, <3>2
        <4> QED
          BY <4>1, <4>2
      <3> QED
        BY <3>1, <3>2
    <2> QED
      BY <2>2, <2>3, <2>5, <2>6, <2>7 DEF OffsetsOf, u, a
  <1>10. CASE a.packet_no > no
    <2>1. u = [t EXCEPT !.next = IF @ = -1 THEN a.packet_no ELSE @,
                        !.forw = IF a.timestamp - time < SCAN_WINDOW THEN a.packet_no ELSE @]
      <3> DEFINE pts == <<time, 1>>
      <3>1. pts[1] = time /\ pts[2] = 1
        OBVIOUS
      <3>2. u = Passed(t, a, no, pts)
        OBVIOUS
      <3> HIDE DEF pts, u, a
      <3>3. IsNear(a.timestamp * pts[2] - pts[1], pts[2]) <=> a.timestamp - time < SCAN_WINDOW
        BY <1>3, <1>5, <3>1 DEF IsNear
      <3>4. u = [t EXCEPT !.next = IF @ = -1 THEN a.packet_no ELSE @,
                            !.forw = IF IsNear(a.timestamp * pts[2] - pts[1], pts[2])
                                     THEN a.packet_no ELSE @]
        BY <1>3, <1>10, <3>2 DEF Passed
      <3>5. CASE a.timestamp - time < SCAN_WINDOW
        BY <3>3, <3>4, <3>5
      <3>6. CASE ~(a.timestamp - time < SCAN_WINDOW)
        BY <3>3, <3>4, <3>6
      <3> QED
        BY <3>5, <3>6
    <2>2. /\ u.next = IF t.next = -1 THEN a.packet_no ELSE t.next
          /\ u.forw = IF a.timestamp - time < SCAN_WINDOW THEN a.packet_no ELSE t.forw
          /\ u.prev = t.prev /\ u.back = t.back
      BY <2>1 DEF Offsets
    <2>3. /\ After(list, no, k + 1) = After(list, no, k) \cup {k + 1}
          /\ Before(list, no, k + 1) = Before(list, no, k)
      BY <1>3, <1>4, <1>10 DEF Before, After
    <2>4. NearPlaces(list, no, time, k + 1)
            = NearPlaces(list, no, time, k)
                \cup (IF a.timestamp - time < SCAN_WINDOW THEN {k + 1} ELSE {})
      <3>1. ~(list[k + 1].packet_no < no)
        BY <1>3, <1>10
      <3> QED
        BY <1>4, <3>1 DEF NearPlaces
    <2> HIDE DEF u, a
    <2>5. Before(list, no, k + 1) \cap NearPlaces(list, no, time, k + 1)
            = Before(list, no, k) \cap NearPlaces(list, no, time, k)
      BY <1>4, <1>6, <2>3, <2>4
    <2>6. FirstOf(u.next, list, After(list, no, k + 1))
      <3>1. FirstOf(t.next, list, After(list, no, k))
        BY <1>11
      <3> DEFINE J == After(list, no, k)
      <3>2. J \in SUBSET (1 .. k) /\ FirstOf(t.next, list, J)
        BY <1>6, <3>1
      <3> HIDE DEF J
      <3>4. PICK x \in Int : x = t.next
        BY <1>7
      <3>5. PICK y : y = IF x = -1 THEN list[k + 1].packet_no ELSE x
        OBVIOUS
      <3>6. FirstOf(y, list, J \cup {k + 1})
        BY <3>2, <3>4, <3>5, OneMoreFirst
      <3>7. u.next = y
        BY <2>2, <3>4, <3>5 DEF a
      <3> QED
        BY <2>3, <3>6, <3>7 DEF J
    <2>7. LastOf(u.forw, list, After(list, no, k + 1) \cap NearPlaces(list, no, time, k + 1))
      <3> DEFINE J == After(list, no, k) \cap NearPlaces(list, no, time, k)
      <3>1. CASE a.timestamp - time < SCAN_WINDOW
        <4>8. NearPlaces(list, no, time, k + 1) = NearPlaces(list, no, time, k) \cup {k + 1}
          BY <2>4, <3>1
        <4>1. After(list, no, k + 1) \cap NearPlaces(list, no, time, k + 1) = J \cup {k + 1}
          BY <2>3, <4>8
        <4>2. u.forw = a.packet_no /\ J \in SUBSET (1 .. k)
          BY <1>6, <2>2, <3>1
        <4> HIDE DEF J
        <4>4. PICK y : y = list[k + 1].packet_no
          OBVIOUS
        <4>5. LastOf(y, list, J \cup {k + 1})
          BY <4>2, <4>4, OneMoreLast
        <4>6. u.forw = y
          BY <4>2, <4>4 DEF a
        <4> QED
          BY <4>1, <4>5, <4>6
      <3>2. CASE ~(a.timestamp - time < SCAN_WINDOW)
        <4>3. NearPlaces(list, no, time, k + 1) = NearPlaces(list, no, time, k)
          BY <2>4, <3>2
        <4>1. After(list, no, k + 1) \cap NearPlaces(list, no, time, k + 1) = J
          BY <1>12, <2>3, <4>3
        <4>2. LastOf(t.forw, list, J) /\ u.forw = t.forw
          BY <1>11, <2>2, <3>2
        <4> QED
          BY <4>1, <4>2
      <3> QED
        BY <3>1, <3>2
    <2> QED
      BY <2>2, <2>3, <2>5, <2>6, <2>7 DEF OffsetsOf, u, a
  <1> QED
    BY <1>3, <1>8, <1>9, <1>10

\* Passing an access point yields offsets.
LEMMA PassedTypes ==
    ASSUME NEW t \in Offsets, NEW a \in Points, NEW no \in Nat, NEW pts
    PROVE  Passed(t, a, no, pts) \in Offsets
  <1>1. a.packet_no \in Nat
    BY DEF Points
  <1>2. t.prev \in Int /\ t.next \in Int /\ t.back \in Int /\ t.forw \in Int
    BY DEF Offsets
  <1>3. CASE a.packet_no = no
    BY <1>3 DEF Passed
  <1>4. CASE a.packet_no < no
    <2> DEFINE isNear == IsNear(pts[1] - a.timestamp * pts[2], pts[2])
    <2>1. Passed(t, a, no, pts)
            = [t EXCEPT !.prev = a.packet_no, !.back = IF @ = -1 /\ isNear THEN a.packet_no ELSE @]
      BY <1>1, <1>4 DEF Passed
    <2> HIDE DEF isNear
    <2>2. PICK m \in Int : m = IF t.back = -1 /\ isNear THEN a.packet_no ELSE t.back
      BY <1>1, <1>2
    <2>3. PICK l \in Int : l = a.packet_no
      BY <1>1
    <2>4. Passed(t, a, no, pts) = [t EXCEPT !.prev = l, !.back = m]
      BY <2>1, <2>2, <2>3
    <2> QED
      BY <2>4 DEF Offsets
  <1>5. CASE a.packet_no > no
    <2> DEFINE isNear == IsNear(a.timestamp * pts[2] - pts[1], pts[2])
    <2>1. Passed(t, a, no, pts)
            = [t EXCEPT !.next = IF @ = -1 THEN a.packet_no ELSE @,
                        !.forw = IF isNear THEN a.packet_no ELSE @]
      BY <1>1, <1>5 DEF Passed
    <2> HIDE DEF isNear
    <2>2. PICK m \in Int : m = IF t.next = -1 THEN a.packet_no ELSE t.next
      BY <1>1, <1>2
    <2>3. PICK l \in Int : l = IF isNear THEN a.packet_no ELSE t.forw
      BY <1>1, <1>2
    <2>4. Passed(t, a, no, pts) = [t EXCEPT !.next = m, !.forw = l]
      BY <2>1, <2>2, <2>3
    <2> QED
      BY <2>4 DEF Offsets
  <1> QED
    BY <1>1, <1>3, <1>4, <1>5

\* The function of the loop over the access points.
PassIter(iter, list, no, pts) ==
    iter = [s \in SUBSET (1 .. Len(list)) |->
              IF s = {} THEN NoOffsets
              ELSE Passed(iter[s \ {Max(s)}], list[Max(s)], no, pts)]

\* Behind the loop they are those of the whole list.
LEMMA AllPassed ==
    ASSUME NEW list \in Seq(Points), InOrder(list), NEW no \in Nat, NEW time \in Int
    PROVE  /\ FoldLeft(LAMBDA t, a : Passed(t, a, no, <<time, 1>>), NoOffsets, list) \in Offsets
           /\ OffsetsOf(FoldLeft(LAMBDA t, a : Passed(t, a, no, <<time, 1>>), NoOffsets, list),
                        list, no, time, Len(list))
  <1> DEFINE n == Len(list)
             pts == <<time, 1>>
             step == [k \in 1 .. n |-> [t \in Offsets |-> Passed(t, list[k], no, pts)]]
             iter == CHOOSE f : PassIter(f, list, no, pts)
  <1>1. n \in Nat /\ DOMAIN list = 1 .. n /\ \A k \in 1 .. n : list[k] \in Points
    BY LenProperties, ElementOfSeq
  <1>2. FoldLeft(LAMBDA t, a : Passed(t, a, no, pts), NoOffsets, list) = iter[1 .. n]
    BY <1>1 DEF FoldLeft, MapThenFoldSet, PassIter
  <1> HIDE DEF pts
  <1>3. NoOffsets \in Offsets
    BY DEF NoOffsets, Offsets
  <1>4. \A t \in Offsets, k \in 1 .. n : Passed(t, list[k], no, pts) \in Offsets
    <2> SUFFICES ASSUME NEW t \in Offsets, NEW k \in 1 .. n
                 PROVE  Passed(t, list[k], no, pts) \in Offsets
      OBVIOUS
    <2> QED
      BY <1>1, PassedTypes
  <1>5. \E f : PassIter(f, list, no, pts)
    <2>1. step \in [1 .. n -> [Offsets -> Offsets]]
      BY <1>4
    <2>2. \A k \in 1 .. n : \A t \in Offsets : step[k][t] = Passed(t, list[k], no, pts)
      OBVIOUS
    <2> HIDE DEF step, iter
    <2>3. PICK f \in [SUBSET (1 .. n) -> Offsets] : Folds(f, NoOffsets, step, n)
      BY <1>1, <1>3, <2>1, FoldExists DEF HasFold
    <2>4. ASSUME NEW s \in SUBSET (1 .. n)
          PROVE  f[s] = IF s = {} THEN NoOffsets
                        ELSE Passed(f[s \ {Max(s)}], list[Max(s)], no, pts)
      <3>1. f[s] = IF s = {} THEN NoOffsets ELSE step[Max(s)][f[s \ {Max(s)}]]
        BY <2>3 DEF Folds
      <3>2. CASE s # {}
        <4>1. Max(s) \in 1 .. n
          BY <1>1, <3>2, LastPlace
        <4>2. f[s \ {Max(s)}] \in Offsets
          BY <2>3
        <4> QED
          BY <2>2, <3>1, <3>2, <4>1, <4>2
      <3> QED
        BY <3>1, <3>2
    <2>5. f = [s \in SUBSET (1 .. n) |-> f[s]]
      BY <2>3
    <2>6. PassIter(f, list, no, pts)
      BY <2>4, <2>5 DEF PassIter
    <2> QED
      BY <2>6
  <1>6. PassIter(iter, list, no, pts)
    BY <1>5
  <1> HIDE DEF iter, n, step
  <1> DEFINE T == {k \in Nat : k <= n => /\ iter[1 .. k] \in Offsets
                                         /\ OffsetsOf(iter[1 .. k], list, no, time, k)}
  <1>7. 0 \in T
    <2>1. 1 .. 0 \in SUBSET (1 .. n) /\ 1 .. 0 = {}
      OBVIOUS
    <2>2. iter[1 .. 0] = NoOffsets
      BY <1>6, <2>1 DEF PassIter, n
    <2>3. Before(list, no, 0) = {} /\ After(list, no, 0) = {}
      BY DEF Before, After
    <2>4. OffsetsOf(NoOffsets, list, no, time, 0)
      BY <2>3 DEF OffsetsOf, FirstOf, LastOf, NoOffsets
    <2> QED
      BY <1>3, <2>2, <2>4
  <1>8. ASSUME NEW k \in Nat, k \in T PROVE k + 1 \in T
    <2> SUFFICES ASSUME k + 1 <= n
                 PROVE  /\ iter[1 .. k + 1] \in Offsets
                        /\ OffsetsOf(iter[1 .. k + 1], list, no, time, k + 1)
      OBVIOUS
    <2>1. iter[1 .. k + 1] = Passed(iter[1 .. k], list[k + 1], no, pts)
      <3>1. /\ 1 .. k + 1 \in SUBSET (1 .. n)
            /\ 1 .. k + 1 # {}
            /\ Max(1 .. k + 1) = k + 1
            /\ (1 .. k + 1) \ {Max(1 .. k + 1)} = 1 .. k
        BY <1>1, FirstPlaces
      <3> QED
        BY <1>6, <3>1 DEF PassIter, n
    <2>2. iter[1 .. k] \in Offsets /\ OffsetsOf(iter[1 .. k], list, no, time, k)
      BY <1>1, <1>8
    <2>3. k + 1 \in 1 .. n
      BY <1>1
    <2>4. OffsetsOf(Passed(iter[1 .. k], list[k + 1], no, pts), list, no, time, k + 1)
      BY <2>2, PassedKeeps DEF n, pts
    <2> QED
      BY <1>4, <2>1, <2>2, <2>3, <2>4
  <1> HIDE DEF T
  <1>9. n \in T
    BY <1>1, <1>7, <1>8, NatSetInduction
  <1>10. iter[1 .. n] \in Offsets /\ OffsetsOf(iter[1 .. n], list, no, time, n)
    BY <1>1, <1>9 DEF T
  <1> QED
    BY <1>2, <1>10 DEF n, pts

\* The first number of some places is the lowest, the last the highest.
LEMMA FirstIsLowest ==
    ASSUME NEW list \in Seq(Points), NEW J \in SUBSET (1 .. Len(list)), NEW S,
           S = NumbersAt(list, J), NEW x \in Int, FirstOf(x, list, J), NEW d
    PROVE  (IF x = -1 THEN d ELSE x) = Lowest(S, d)
  <1>1. S \subseteq Nat
    <2>1. \A j \in J : list[j] \in Points
      BY ElementOfSeq
    <2> QED
      BY <2>1 DEF Points, NumbersAt
  <1>2. CASE J = {}
    BY <1>2 DEF FirstOf, Lowest, NumbersAt
  <1>3. CASE J # {}
    <2>1. S # {} /\ x \in S /\ \A y \in S : x <= y
      BY <1>3 DEF FirstOf, NumbersAt
    <2>2. \A z \in S : (\A y \in S : z <= y) => z = x
      BY <1>1, <2>1
    <2>3. Lowest(S, d) = x
      BY <2>1, <2>2 DEF Lowest
    <2>4. x # -1
      BY <1>1, <2>1
    <2> QED
      BY <2>3, <2>4
  <1> QED
    BY <1>2, <1>3

LEMMA LastIsHighest ==
    ASSUME NEW list \in Seq(Points), NEW J \in SUBSET (1 .. Len(list)), NEW S,
           S = NumbersAt(list, J), NEW x \in Int, LastOf(x, list, J), NEW d
    PROVE  (IF x = -1 THEN d ELSE x) = Highest(S, d)
  <1>1. S \subseteq Nat
    <2>1. \A j \in J : list[j] \in Points
      BY ElementOfSeq
    <2> QED
      BY <2>1 DEF Points, NumbersAt
  <1>2. CASE J = {}
    BY <1>2 DEF LastOf, Highest, NumbersAt
  <1>3. CASE J # {}
    <2>1. S # {} /\ x \in S /\ \A y \in S : x >= y
      BY <1>3 DEF LastOf, NumbersAt
    <2>2. \A z \in S : (\A y \in S : z >= y) => z = x
      BY <1>1, <2>1
    <2>3. Highest(S, d) = x
      BY <2>1, <2>2 DEF Highest
    <2>4. x # -1
      BY <1>1, <2>1
    <2> QED
      BY <2>3, <2>4
  <1> QED
    BY <1>2, <1>3

\* The offsets of a packet whose time is known are the right ones.
LEMMA OffsetsRight ==
    ASSUME NEW list \in Seq(Points), InOrder(list), NEW no \in Nat, NEW time \in Int,
           NEW s, s = ScanOffsets(list, no, <<time, 1>>)
    PROVE  RightOffsets(s, list, no, time)
  <1> DEFINE near == NearNumbers(list, no, time)
             pts == <<time, 1>>
             t == FoldLeft(LAMBDA u, a : Passed(u, a, no, pts), NoOffsets, list)
             B == Before(list, no, Len(list))
             A == After(list, no, Len(list))
             N == NearPlaces(list, no, time, Len(list))
  <1>1. t \in Offsets /\ OffsetsOf(t, list, no, time, Len(list))
    BY AllPassed
  <1>2. s = [t EXCEPT !.back = IF @ = -1 THEN no ELSE @, !.forw = IF @ = -1 THEN no ELSE @]
    BY DEF ScanOffsets
  <1> HIDE DEF t, pts
  <1>3. /\ s.prev = IF t.prev = -1 THEN -1 ELSE t.prev
        /\ s.next = IF t.next = -1 THEN -1 ELSE t.next
        /\ s.back = IF t.back = -1 THEN no ELSE t.back
        /\ s.forw = IF t.forw = -1 THEN no ELSE t.forw
    BY <1>1, <1>2 DEF Offsets
  <1>4. t.prev \in Int /\ t.next \in Int /\ t.back \in Int /\ t.forw \in Int
    BY <1>1 DEF Offsets
  <1>5. /\ LastOf(t.prev, list, B)
        /\ FirstOf(t.next, list, A)
        /\ FirstOf(t.back, list, B \cap N)
        /\ LastOf(t.forw, list, A \cap N)
    BY <1>1 DEF OffsetsOf
  <1>6. DOMAIN list = 1 .. Len(list)
    BY LenProperties
  <1>7. /\ {n \in NumbersOf(list) : n < no} = NumbersAt(list, B)
        /\ {n \in NumbersOf(list) : n > no} = NumbersAt(list, A)
    BY <1>6 DEF NumbersOf, Before, After, NumbersAt
  <1>8. near = NumbersAt(list, N)
    BY <1>6 DEF NearPlaces, NearNumbers, NumbersAt
  <1> HIDE DEF near
  <1>9. /\ {n \in near : n < no} = NumbersAt(list, B \cap N)
        /\ {n \in near : n > no} = NumbersAt(list, A \cap N)
    BY <1>8 DEF Before, After, NearPlaces, NumbersAt
  <1>10. /\ B \in SUBSET (1 .. Len(list))
         /\ A \in SUBSET (1 .. Len(list))
         /\ B \cap N \in SUBSET (1 .. Len(list))
         /\ A \cap N \in SUBSET (1 .. Len(list))
    BY DEF Before, After
  <1> HIDE DEF B, A, N
  <1>11. (IF t.prev = -1 THEN -1 ELSE t.prev) = Highest(NumbersAt(list, B), -1)
    BY <1>4, <1>5, <1>10, LastIsHighest
  <1>12. (IF t.next = -1 THEN -1 ELSE t.next) = Lowest(NumbersAt(list, A), -1)
    BY <1>4, <1>5, <1>10, FirstIsLowest
  <1>13. (IF t.back = -1 THEN no ELSE t.back) = Lowest(NumbersAt(list, B \cap N), no)
    BY <1>4, <1>5, <1>10, FirstIsLowest
  <1>14. (IF t.forw = -1 THEN no ELSE t.forw) = Highest(NumbersAt(list, A \cap N), no)
    BY <1>4, <1>5, <1>10, LastIsHighest
  <1>15. /\ s.prev = Highest({n \in NumbersOf(list) : n < no}, -1)
         /\ s.next = Lowest({n \in NumbersOf(list) : n > no}, -1)
         /\ s.back = Lowest({n \in near : n < no}, no)
         /\ s.forw = Highest({n \in near : n > no}, no)
    BY <1>3, <1>7, <1>9, <1>11, <1>12, <1>13, <1>14, Zenon
  <1> QED
    BY <1>15 DEF RightOffsets, near

\* What they say is of the stream that was scanned.
LEMMA FetchOffsetsRight ==
    ASSUME SourceInv, ScanOffsetsRight, GetNext
    PROVE  ScanOffsetsRight'
  <1>1. /\ scanned /\ pno \in Nat
        /\ \E p : p.ret = LengthAt(file, pos) /\ p.ctx \in Contexts /\ GetsNext(p)
    BY GetNextGets
  <1>2. PICK p : p.ret = LengthAt(file, pos) /\ p.ctx \in Contexts /\ GetsNext(p)
    BY <1>1
  <1>3. info' = info
    BY <1>2 DEF GetsNext
  <1>4. CASE got' = got
    BY <1>3, <1>4 DEF ScanOffsetsRight, VidOf
  <1>5. CASE got' # got
    <2> DEFINE packet == p.ctx.packet
               v == VidOf(packet)
               list == info.aps_list[v]
    <2>1. got' = [no |-> pno, from |-> pos, length |-> p.ret,
                  packet |-> [packet EXCEPT !.pts = @ - info.min_pts], scan |-> Fixed(packet)]
      BY <1>2, <1>5 DEF GetsNext
    <2>2. packet \in PacketInfo
      BY <1>2 DEF Contexts
    <2>3. info \in StreamInfo /\ Tells(info, Len(split))
      BY <1>1 DEF SourceInv, ContextInv
    <2>4. v \in 0 .. 2
      BY DEF VidOf
    <2> HIDE DEF packet
    <2>5. /\ packet.pts \in Nat /\ packet.has_pts \in BOOLEAN /\ info.min_pts \in Nat
      BY <2>2, <2>3 DEF PacketInfo, StreamInfo
    <2>6. /\ [packet EXCEPT !.pts = @ - info.min_pts].pts = packet.pts - info.min_pts
          /\ [packet EXCEPT !.pts = @ - info.min_pts].has_pts = packet.has_pts
          /\ [packet EXCEPT !.pts = @ - info.min_pts].streams = packet.streams
      BY <2>2 DEF PacketInfo
    <2>7. /\ got'.no = pno
          /\ got'.scan = Fixed(packet)
          /\ got'.packet.pts = packet.pts - info.min_pts
          /\ got'.packet.has_pts = packet.has_pts
          /\ got'.packet.streams = packet.streams
      BY <2>1, <2>6
    <2> SUFFICES ASSUME got'.scan # <<>>, got'.packet.has_pts PROVE ScanOffsetsRight'
      BY DEF ScanOffsetsRight
    <2>8. list \in Seq(Points) /\ InOrder(list)
      BY <2>3, <2>4, ListTypes DEF Tells
    <2> DEFINE time == packet.pts - info.min_pts
               s == ScanOffsets(list, pno, <<time, 1>>)
    <2>9. got'.scan = <<s>>
      BY <2>7 DEF Fixed
    <2>10. time \in Int
      BY <2>5
    <2>16. s = ScanOffsets(list, pno, <<time, 1>>)
      OBVIOUS
    <2>12. got'.scan[1] = s
      BY <2>9
    <2>13. VidOf(got'.packet) = v
      BY <2>7 DEF VidOf
    <2>14. info'.aps_list[VidOf(got'.packet)] = list
      BY <1>3, <2>13
    <2>15. got'.packet.pts = time /\ got'.no = pno
      BY <2>7
    <2> HIDE DEF s, list, time, v
    <2>11. RightOffsets(s, list, pno, time)
      BY <1>1, <2>8, <2>10, <2>16, OffsetsRight
    <2> QED
      BY <2>11, <2>12, <2>14, <2>15 DEF ScanOffsetsRight
  <1> QED
    BY <1>4, <1>5

\* The scan offsets that are written into a packet with a time are the access
\* points next to it, and the farthest that are less than SCAN_WINDOW away.
THEOREM ScanOffsetsRightCorrect == Spec => []ScanOffsetsRight
  <1>1. Init => ScanOffsetsRight
    BY DEF Init, NothingGot, ScanOffsetsRight
  <1>2. SourceInv /\ ScanOffsetsRight /\ [Next]_vars => ScanOffsetsRight'
    <2> SUFFICES ASSUME SourceInv, ScanOffsetsRight, [Next]_vars PROVE ScanOffsetsRight'
      OBVIOUS
    <2>1. CASE GetNext
      BY <2>1, FetchOffsetsRight
    <2>2. CASE UNCHANGED <<info, got>>
      BY <2>2 DEF ScanOffsetsRight, VidOf
    <2>3. CASE ScanEnd
      <3>1. got' = got /\ ~scanned
        BY <2>3 DEF ScanEnd, SourceInv, Phases
      <3>2. got.scan = <<>>
        BY <3>1 DEF SourceInv, Phases
      <3> QED
        BY <3>1, <3>2 DEF ScanOffsetsRight
    <2>4. ASSUME NEW strict_aps, Scan(strict_aps) PROVE UNCHANGED <<info, got>>
      BY <2>4 DEF Scan
    <2>5. ASSUME ScanPacket PROVE UNCHANGED <<info, got>>
      BY <2>5 DEF ScanPacket
    <2>6. ASSUME NEW no, NEW fix, GetPacket(no, fix) PROVE UNCHANGED <<info, got>>
      BY <2>6 DEF GetPacket
    <2>7. ASSUME Close \/ UNCHANGED vars PROVE UNCHANGED <<info, got>>
      BY <2>7 DEF Close, vars
    <2> QED
      BY <2>1, <2>2, <2>3, <2>4, <2>5, <2>6, <2>7 DEF Next
  <1> QED
    BY <1>1, <1>2, SourceInvCorrect, PTL DEF Spec

-----------------------------------------------------------------------------
(* The packs of a regular stream.                                          *)

\* Where a pack ends: no other begins before that, and if it is not the end of the
\* stream another begins there.
LEMMA PackEnds ==
    ASSUME IsStream(file), NEW k \in Packs
    PROVE  /\ k \in 1 .. Len(file) /\ file[k].code = "pack"
           /\ file[k].at \in Nat /\ PackEnd(k) \in Nat
           /\ EndOf(file[k]) \in Nat /\ file[k].at + CODE_SIZE <= EndOf(file[k])
           /\ EndOf(file[k]) <= PackEnd(k) /\ PackEnd(k) <= Length(file)
           /\ \A i \in 1 .. Len(file) : i > k /\ file[i].code = "pack" => PackEnd(k) <= file[i].at
           /\ PackEnd(k) < Length(file) =>
                 \E j \in Packs : j > k /\ file[j].at = PackEnd(k)
  <1> DEFINE later == {j \in Packs : j > k}
  <1>1. Len(file) \in Nat /\ Length(file) \in Nat /\ DOMAIN file = 1 .. Len(file)
    BY StreamPlaces
  <1>2. \A i \in 1 .. Len(file) :
            /\ file[i] \in Elements /\ file[i].at \in Nat /\ file[i].len \in Nat \ {0}
            /\ EndOf(file[i]) = file[i].at + file[i].len /\ EndOf(file[i]) <= Length(file)
    BY StreamPlaces
  <1>3. \A i, j \in 1 .. Len(file) : i < j => EndOf(file[i]) <= file[j].at
    BY StreamPlaces
  <1>4. k \in 1 .. Len(file) /\ file[k].code = "pack"
    BY <1>1 DEF Packs
  <1>5. file[k].at \in Nat /\ EndOf(file[k]) \in Nat /\ file[k].at + CODE_SIZE <= EndOf(file[k])
    <2>1. file[k].len \in Nat /\ file[k].len >= CODE_SIZE /\ CODE_SIZE \in Nat
      BY <1>2, <1>4, ElementTypes, PacketAssumption
    <2> QED
      BY <1>2, <1>4, <2>1
  <1>6. CASE later = {}
    <2>1. PackEnd(k) = Length(file)
      BY <1>6 DEF PackEnd, Stat
    <2>2. \A i \in 1 .. Len(file) : i > k => file[i].code # "pack"
      BY <1>1, <1>6 DEF Packs
    <2> QED
      BY <1>1, <1>2, <1>4, <1>5, <2>1, <2>2
  <1>7. CASE later # {}
    <2> DEFINE j == CHOOSE i \in later : \A l \in later : i <= l
    <2>1. later \subseteq Nat
      BY <1>1 DEF Packs
    <2>2. \E i \in later : \A l \in later : i <= l
      BY <1>7, <2>1, LeastNat
    <2>3. j \in later /\ \A l \in later : j <= l
      BY <2>2
    <2>4. PackEnd(k) = file[j].at
      BY <1>7 DEF PackEnd
    <2> HIDE DEF j
    <2>5. j \in Packs /\ j > k /\ j \in 1 .. Len(file)
      BY <1>1, <2>3 DEF Packs
    <2>6. EndOf(file[k]) <= PackEnd(k) /\ PackEnd(k) <= Length(file) /\ PackEnd(k) \in Nat
      <3>1. EndOf(file[k]) <= file[j].at
        BY <1>3, <1>4, <2>5
      <3>2. file[j].at \in Nat /\ EndOf(file[j]) = file[j].at + file[j].len
            /\ file[j].len \in Nat /\ EndOf(file[j]) <= Length(file)
        BY <1>2, <2>5
      <3> QED
        BY <1>1, <2>4, <3>1, <3>2
    <2>7. ASSUME NEW i \in 1 .. Len(file), i > k, file[i].code = "pack"
          PROVE  PackEnd(k) <= file[i].at
      <3>1. j <= i
        BY <1>1, <2>3, <2>7 DEF Packs
      <3>2. CASE j = i
        BY <1>2, <2>4, <2>5, <3>2
      <3>3. CASE j < i
        <4>1. EndOf(file[j]) <= file[i].at
          BY <1>3, <2>5, <3>3
        <4>2. /\ file[j].at \in Nat /\ file[j].len \in Nat /\ file[i].at \in Nat
              /\ EndOf(file[j]) = file[j].at + file[j].len
          BY <1>2, <2>5
        <4> QED
          BY <2>4, <4>1, <4>2
      <3> QED
        BY <1>1, <2>5, <3>1, <3>2, <3>3
    <2> QED
      BY <1>4, <1>5, <2>4, <2>5, <2>6, <2>7
  <1> QED
    BY <1>6, <1>7

\* The packet found at a pack of a regular stream is the pack.
LEMMA PackFound ==
    ASSUME IsStream(file), Regular, NEW k \in Packs, NEW at, at = file[k].at
    PROVE  /\ at \in Nat /\ at < Length(file)
           /\ LengthAt(file, at) = PackLength(k)
           /\ PackLength(k) \in Nat \ {0}
           /\ at + PackLength(k) = PackEnd(k)
  <1> DEFINE end == PackEnd(k)
             buflen == BufLen(file, at)
             stop == Stops(file, at, buflen)
  <1>1. Len(file) \in Nat /\ Length(file) \in Nat /\ DOMAIN file = 1 .. Len(file)
    BY StreamPlaces
  <1>2. \A i \in 1 .. Len(file) :
            /\ file[i].at \in Nat /\ EndOf(file[i]) \in Nat /\ file[i].at < EndOf(file[i])
            /\ EndOf(file[i]) <= Length(file)
    <2>1. \A i \in 1 .. Len(file) :
            /\ file[i].at \in Nat /\ file[i].len \in Nat \ {0}
            /\ EndOf(file[i]) = file[i].at + file[i].len /\ EndOf(file[i]) <= Length(file)
      BY StreamPlaces
    <2> QED
      BY <2>1
  <1>3. \A i, j \in 1 .. Len(file) : i < j => EndOf(file[i]) <= file[j].at
    BY StreamPlaces
  <1>4. CODE_SIZE \in Nat \ {0} /\ PACKET_SIZE \in Nat /\ PACKET_SIZE > CODE_SIZE
    BY PacketAssumption
  <1>5. /\ k \in 1 .. Len(file) /\ file[k].code = "pack"
        /\ at \in Nat /\ end \in Nat
        /\ EndOf(file[k]) \in Nat /\ at + CODE_SIZE <= EndOf(file[k])
        /\ EndOf(file[k]) <= end /\ end <= Length(file)
    BY PackEnds
  <1>6. \A i \in 1 .. Len(file) : i > k /\ file[i].code = "pack" => end <= file[i].at
    BY PackEnds
  <1>7. end < Length(file) => \E j \in Packs : j > k /\ file[j].at = end
    BY PackEnds
  <1>8. /\ PackLength(k) = end - at
        /\ PackLength(k) <= PACKET_SIZE
        /\ end < Length(file) =>
              PackLength(k) \notin PACKET_SIZE - CODE_SIZE + 1 .. PACKET_SIZE - 1
    BY DEF PackLength, Regular, Stat
  <1> HIDE DEF end
  <1>9. at < Length(file) /\ PackLength(k) \in Nat \ {0} /\ at + PackLength(k) = end
    <2>1. at < end
      <3>1. PICK after \in Nat : after = EndOf(file[k])
        BY <1>5
      <3>2. at + CODE_SIZE <= after /\ after <= end
        BY <1>5, <3>1
      <3> QED
        BY <1>4, <1>5, <3>2
    <2>2. end - at \in Nat \ {0} /\ at + (end - at) = end
      BY <1>5, <2>1
    <2> QED
      BY <1>1, <1>5, <1>8, <2>1, <2>2
  <1>10. buflen = (IF PACKET_SIZE < Length(file) - at THEN PACKET_SIZE ELSE Length(file) - at)
    BY DEF BufLen
  <1>11. buflen \in Nat /\ end <= at + buflen /\ CODE_SIZE <= buflen /\ at + buflen <= Length(file)
    <2>1. PICK length \in Nat : length = PackLength(k)
      BY <1>9
    <2>2. at + length = end /\ length <= PACKET_SIZE
      BY <1>8, <1>9, <2>1
    <2>3. PICK size \in Nat : size = Length(file)
      BY <1>1
    <2>4. at + CODE_SIZE <= end /\ end <= size
      BY <1>1, <1>4, <1>5, <2>3
    <2>5. buflen = IF PACKET_SIZE < size - at THEN PACKET_SIZE ELSE size - at
      BY <1>10, <2>3
    <2> HIDE DEF buflen
    <2>6. CASE PACKET_SIZE < size - at
      <3>1. buflen = PACKET_SIZE
        BY <2>5, <2>6
      <3>2. end <= at + PACKET_SIZE /\ CODE_SIZE <= PACKET_SIZE
        BY <1>4, <1>5, <2>1, <2>2
      <3>3. at + PACKET_SIZE <= size
        BY <1>4, <1>5, <2>3, <2>6
      <3> QED
        BY <1>4, <2>3, <3>1, <3>2, <3>3
    <2>7. CASE ~(PACKET_SIZE < size - at)
      <3>1. buflen = size - at
        BY <2>5, <2>7
      <3>2. end \in Nat /\ CODE_SIZE \in Nat
        BY <1>4, <1>5
      <3>3. size - at \in Nat /\ at + (size - at) = size /\ CODE_SIZE <= size - at
        BY <1>5, <2>3, <2>4, <3>2
      <3> QED
        BY <2>3, <2>4, <3>1, <3>3
    <2> QED
      BY <2>6, <2>7
  <1>12. k \in Within(file, at, buflen)
    BY <1>1, <1>2, <1>4, <1>5, <1>11 DEF Within
  <1>13. ElementAt(file, at) = k
    <2>1. ElementAt(file, at) \in 1 .. Len(file) /\ file[ElementAt(file, at)].at = at
      BY <1>5, ElementFound
    <2>2. PICK i \in 1 .. Len(file) : i = ElementAt(file, at) /\ file[i].at = at
      BY <2>1
    <2>3. ~(i < k)
      BY <1>2, <1>3, <1>5, <2>2
    <2>4. ~(k < i)
      BY <1>2, <1>3, <1>5, <2>2
    <2> QED
      BY <1>1, <1>5, <2>2, <2>3, <2>4
  <1>14. stop \in k + 1 .. Len(file) + 1
    <2> HIDE DEF buflen
    <2>1. buflen = BufLen(file, at)
      BY DEF buflen
    <2> QED
      BY <1>5, <1>9, <2>1, WalkStops
  <1>15. stop <= Len(file) =>
            \/ ~CodeSeen(file[stop].at - at, buflen)
            \/ file[stop].code = "pack"
            \/ file[stop].code \in {"pes", "system"} /\ EndOf(file[stop]) > at + buflen
    <2> HIDE DEF buflen
    <2>1. buflen = BufLen(file, at)
      BY DEF buflen
    <2> QED
      BY <1>5, <1>9, <2>1, WalkStops
  <1>16. \A i \in k + 1 .. stop - 1 : file[i].code # "pack"
    <2> HIDE DEF buflen
    <2>1. buflen = BufLen(file, at)
      BY DEF buflen
    <2> QED
      BY <1>5, <1>9, <2>1, WalkStops
  <1>17. LengthAt(file, at) =
            IF stop > Len(file) \/ ~CodeSeen(file[stop].at - at, buflen) THEN buflen
            ELSE IF file[stop].code = "pack" THEN file[stop].at - at
            ELSE 0
    <2>1. ~(\A i \in Within(file, at, buflen) : file[i].code = "zero")
      BY <1>5, <1>12
    <2>2. ~(k = 0 \/ file[k].code # "pack")
      BY <1>5
    <2> QED
      BY <1>13, <2>1, <2>2 DEF LengthAt, FoundLength
  <1> HIDE DEF stop, buflen
  \* An element before the end of the pack ends there at the latest.
  <1>18. \A i \in 1 .. Len(file) : i > k /\ file[i].at < end => EndOf(file[i]) <= end /\ file[i].code # "pack"
    <2> SUFFICES ASSUME NEW i \in 1 .. Len(file), i > k, file[i].at < end
                 PROVE  EndOf(file[i]) <= end /\ file[i].code # "pack"
      OBVIOUS
    <2>1. file[i].code # "pack"
      BY <1>2, <1>5, <1>6
    <2>2. CASE end = Length(file)
      BY <1>2, <2>1, <2>2
    <2>3. CASE end < Length(file)
      <3>1. PICK j \in Packs : j > k /\ file[j].at = end
        BY <1>7, <2>3
      <3>2. j \in 1 .. Len(file)
        BY <1>1 DEF Packs
      <3>3. i < j
        <4>1. ~(j < i)
          BY <1>2, <1>3, <1>5, <3>1, <3>2
        <4>2. i # j
          BY <1>2, <1>5, <3>1, <3>2
        <4> QED
          BY <1>1, <3>2, <4>1, <4>2
      <3> QED
        BY <1>3, <2>1, <3>1, <3>2, <3>3
    <2> QED
      BY <1>1, <1>5, <2>1, <2>2, <2>3
  \* The walk does not stop at one.
  <1>19. ASSUME stop <= Len(file), CodeSeen(file[stop].at - at, buflen)
         PROVE  file[stop].at >= end
    <2>1. stop \in 1 .. Len(file) /\ stop > k
      BY <1>1, <1>5, <1>14, <1>19
    <2> SUFFICES ASSUME file[stop].at < end PROVE FALSE
      BY <1>2, <1>5, <2>1
    <2>2. EndOf(file[stop]) <= end /\ file[stop].code # "pack"
      BY <1>18, <2>1
    <2>3. EndOf(file[stop]) > at + buflen
      BY <1>15, <1>19, <2>2
    <2> QED
      BY <1>2, <1>5, <1>11, <2>1, <2>2, <2>3
  <1>20. CASE end = at + buflen
    <2>1. ASSUME stop <= Len(file), CodeSeen(file[stop].at - at, buflen) PROVE FALSE
      <3>1. file[stop].at >= end /\ stop \in 1 .. Len(file)
        BY <1>1, <1>5, <1>14, <1>19, <2>1
      <3>2. file[stop].at - at + CODE_SIZE <= buflen
        BY <2>1 DEF CodeSeen
      <3>3. PICK x \in Nat : x = file[stop].at
        BY <1>2, <3>1
      <3>4. x >= end /\ x - at + CODE_SIZE <= buflen
        BY <3>1, <3>2, <3>3
      <3>5. at \in Nat /\ end \in Nat /\ buflen \in Nat /\ CODE_SIZE \in Nat \ {0}
        BY <1>4, <1>5, <1>11
      <3> QED
        BY <1>20, <3>4, <3>5
    <2>2. stop > Len(file) \/ ~CodeSeen(file[stop].at - at, buflen)
      BY <1>1, <1>14, <2>1
    <2>3. LengthAt(file, at) = buflen
      BY <1>17, <2>2
    <2>4. buflen = PackLength(k)
      BY <1>5, <1>8, <1>11, <1>20
    <2> QED
      BY <1>5, <1>9, <2>3, <2>4 DEF end
  <1>21. CASE end # at + buflen
    <2>1. end < Length(file)
      BY <1>1, <1>5, <1>11, <1>21
    <2>2. PICK j \in Packs : j > k /\ file[j].at = end
      BY <1>7, <2>1
    <2>3. j \in 1 .. Len(file) /\ file[j].code = "pack"
      BY <1>1 DEF Packs
    <2>4. end + CODE_SIZE <= Length(file)
      BY <2>2, PackEnds, <1>1, <1>4, <1>5
    <2>5. end + CODE_SIZE <= at + buflen
      <3>1. CASE PACKET_SIZE < Length(file) - at
        <4>1. buflen = PACKET_SIZE
          BY <1>10, <3>1
        <4>2. end - at # PACKET_SIZE
          BY <1>5, <1>4, <1>21, <4>1
        <4>3. end - at <= PACKET_SIZE /\ end - at \notin PACKET_SIZE - CODE_SIZE + 1 .. PACKET_SIZE - 1
          BY <1>8, <2>1
        <4>4. end - at <= PACKET_SIZE - CODE_SIZE
          <5> DEFINE m == end - at
          <5>1. m \in Int
            BY <1>5
          <5>2. m # PACKET_SIZE /\ m <= PACKET_SIZE
            BY <4>2, <4>3
          <5>3. m \notin PACKET_SIZE - CODE_SIZE + 1 .. PACKET_SIZE - 1
            BY <4>3
          <5> HIDE DEF m
          <5>4. m <= PACKET_SIZE - CODE_SIZE
            BY <1>4, <5>1, <5>2, <5>3
          <5> QED
            BY <5>4 DEF m
        <4>5. PICK m \in Nat : m = end - at /\ at + m = end
          BY <1>5, <1>9, <1>8
        <4>6. m + CODE_SIZE <= buflen
          BY <1>4, <4>1, <4>4, <4>5
        <4>7. at \in Nat /\ buflen \in Nat /\ CODE_SIZE \in Nat
          BY <1>4, <1>5, <1>11
        <4>8. (at + m) + CODE_SIZE <= at + buflen
          BY <4>5, <4>6, <4>7
        <4> QED
          BY <4>5, <4>8
      <3>2. CASE ~(PACKET_SIZE < Length(file) - at)
        BY <1>1, <1>5, <1>10, <2>4, <3>2
      <3> QED
        BY <3>1, <3>2
    <2>6. CodeSeen(file[j].at - at, buflen)
      <3>1. end - at + CODE_SIZE <= buflen
        <4>1. /\ end \in Nat /\ at \in Nat /\ CODE_SIZE \in Nat /\ buflen \in Nat
              /\ end + CODE_SIZE <= at + buflen
          BY <1>4, <1>5, <1>11, <2>5
        <4> QED
          BY <4>1
      <3> QED
        BY <2>2, <3>1 DEF CodeSeen
    <2>7. ~(stop > j)
      BY <1>1, <1>5, <1>14, <1>16, <2>2, <2>3
    <2>8. stop \in 1 .. Len(file) /\ stop <= j
      BY <1>1, <1>5, <1>14, <2>3, <2>7
    <2>9. file[stop].at <= file[j].at
      <3>1. CASE stop = j
        BY <1>2, <2>3, <3>1
      <3>2. CASE stop < j
        BY <1>2, <1>3, <2>3, <2>8, <3>2
      <3> QED
        BY <2>3, <2>8, <3>1, <3>2
    <2>10. CodeSeen(file[stop].at - at, buflen)
      <3>1. PICK x \in Nat : x = file[stop].at
        BY <1>2, <2>8
      <3>2. PICK y \in Nat : y = file[j].at
        BY <1>2, <2>3
      <3>3. x <= y /\ CodeSeen(y - at, buflen) /\ at \in Nat
        BY <1>5, <2>6, <2>9, <3>1, <3>2
      <3>4. x - at \in Int /\ y - at \in Int /\ x - at <= y - at
        BY <3>3
      <3>5. CodeSeen(x - at, buflen)
        BY <1>11, <3>3, <3>4, SeenBefore
      <3> QED
        BY <3>1, <3>5
    <2>11. file[stop].at >= end
      BY <1>1, <1>19, <2>8, <2>10
    <2>12. stop = j
      <3>1. ~(stop < j)
        BY <1>2, <1>3, <1>5, <2>2, <2>3, <2>8, <2>11
      <3> QED
        BY <2>3, <2>8, <3>1
    <2>13. LengthAt(file, at) = end - at
      <3>1. ~(stop > Len(file) \/ ~CodeSeen(file[stop].at - at, buflen))
        BY <1>1, <2>8, <2>10
      <3>2. file[stop].code = "pack" /\ file[stop].at = end
        BY <2>2, <2>3, <2>12
      <3> QED
        BY <1>17, <3>1, <3>2
    <2> QED
      BY <1>5, <1>8, <1>9, <2>13 DEF end
  <1> QED
    BY <1>20, <1>21

\* The first n packets of the packs: as many as there are packs before.
LEMMA PackCounted ==
    ASSUME IsStream(file), NEW k \in Packs
    PROVE  /\ IsFiniteSet(PacksBefore(file[k].at)) /\ IsFiniteSet(PacksBefore(PackEnd(k)))
           /\ Cardinality(PacksBefore(PackEnd(k))) = Cardinality(PacksBefore(file[k].at)) + 1
  <1>1. Len(file) \in Nat /\ Packs \subseteq 1 .. Len(file)
    BY StreamPlaces DEF Packs
  <1>2. \A i \in 1 .. Len(file) :
            /\ file[i].at \in Nat /\ EndOf(file[i]) \in Nat /\ file[i].at < EndOf(file[i])
    <2>1. \A i \in 1 .. Len(file) :
            /\ file[i].at \in Nat /\ file[i].len \in Nat \ {0}
            /\ EndOf(file[i]) = file[i].at + file[i].len
      BY StreamPlaces
    <2> QED
      BY <2>1
  <1>3. \A i, j \in 1 .. Len(file) : i < j => EndOf(file[i]) <= file[j].at
    BY StreamPlaces
  <1>4. /\ k \in 1 .. Len(file) /\ file[k].at \in Nat /\ PackEnd(k) \in Nat
        /\ EndOf(file[k]) <= PackEnd(k)
    BY PackEnds
  <1>5. \A i \in 1 .. Len(file) : i > k /\ file[i].code = "pack" => PackEnd(k) <= file[i].at
    BY PackEnds
  <1>6. IsFiniteSet(Packs)
    <2>1. IsFiniteSet(1 .. Len(file))
      BY <1>1, FS_Interval
    <2> QED
      BY <1>1, <2>1, FS_Subset
  <1>7. IsFiniteSet(PacksBefore(file[k].at))
    BY <1>6, FS_Subset DEF PacksBefore
  <1>8. PacksBefore(PackEnd(k)) = PacksBefore(file[k].at) \cup {k}
    <2>1. ASSUME NEW i \in Packs
          PROVE  file[i].at < PackEnd(k) <=> file[i].at < file[k].at \/ i = k
      <3>1. i \in 1 .. Len(file) /\ file[i].code = "pack"
        BY <1>1 DEF Packs
      <3>2. CASE i = k
        BY <1>2, <1>4, <3>2
      <3>3. CASE i > k
        <4>1. PackEnd(k) <= file[i].at
          BY <1>5, <3>1, <3>3
        <4>2. file[i].at \in Nat /\ file[k].at < PackEnd(k)
          BY <1>2, <1>4, <3>1
        <4> QED
          BY <1>1, <1>4, <3>3, <4>1, <4>2
      <3>4. CASE i < k
        <4>1. EndOf(file[i]) <= file[k].at
          BY <1>3, <1>4, <3>1, <3>4
        <4>2. file[i].at < file[k].at /\ file[i].at < PackEnd(k)
          BY <1>2, <1>4, <3>1, <4>1
        <4> QED
          BY <4>2
      <3> QED
        BY <1>1, <1>4, <3>1, <3>2, <3>3, <3>4
    <2> QED
      BY <2>1 DEF PacksBefore
  <1>9. k \notin PacksBefore(file[k].at)
    BY <1>4 DEF PacksBefore
  <1> QED
    BY <1>7, <1>8, <1>9, FS_AddElement

\* The turn of the loop of the scan: the packet found goes to the split, or the scan
\* ends.
LEMMA ScanPacketGets ==
    ASSUME SourceInv, ScanPacket
    PROVE  /\ IsStream(file) /\ pc = "scan" /\ pos \in Nat /\ pos < Stat /\ pno \in Nat /\ ~scanned
           /\ UNCHANGED <<file, scanned, info>>
           /\ LengthAt(file, pos) # 0 => pos' = pos + LengthAt(file, pos) /\ pno' = pno + 1
  <1>1. Phases /\ InPlace /\ ContextInv
    BY DEF SourceInv
  <1>2. /\ pc = "scan" /\ pos < Stat /\ ~scanned /\ pos \in Nat /\ pno \in Nat
        /\ InStep(data_source) /\ data_source.is_open /\ data_source.at = pos /\ ctx \in Contexts
    BY <1>1 DEF ScanPacket, Phases, InPlace, ContextInv
  <1>3. IsStream(file) /\ Stat = Length(file) /\ Stat \in Nat
    BY <1>1, FileIsStream
  <1>4. ReadLength = BufLen(file, pos)
    BY <1>2, <1>3, ReadsBuffer
  <1>5. PICK p :
            /\ p = ParsePacket(file, pos, BufLen(file, pos), TRUE, ctx)
            /\ p.ret # 0 => pos' = pos + p.ret /\ pno' = pno + 1
    BY <1>2, <1>4 DEF ScanPacket
  <1>6. p.ret = LengthAt(file, pos)
    <2>1. PICK parse_pes \in BOOLEAN :
              p = ParsePacket(file, pos, BufLen(file, pos), parse_pes, ctx)
      BY <1>5, Zenon
    <2>2. p.ret = FoundLength(file, pos, BufLen(file, pos))
      BY <1>2, <1>3, <2>1, PacketParsed
    <2> QED
      BY <2>2 DEF LengthAt
  <1>7. UNCHANGED <<file, scanned, info>>
    BY DEF ScanPacket
  <1> QED
    BY <1>2, <1>3, <1>5, <1>6, <1>7

\* The scan of a regular stream counts the packs it passes.
LEMMA NextKeepsPacks ==
    ASSUME SourceInv, PacksInv, [Next]_vars
    PROVE  PacksInv'
  <1> USE DEF PacksInv
  <1>1. file' = file
    BY DEF Next, Scan, ScanPacket, ScanEnd, GetNext, GetPacket, Close, vars
  <1>2. Packs' = Packs /\ (Regular <=> Regular')
    BY <1>1 DEF Packs, Regular, PackLength, PackEnd, Stat
  <1> SUFFICES ASSUME Regular PROVE PacksInv'
    BY <1>2
  <1>3. IsStream(file) /\ Stat = Length(file) /\ Stat \in Nat
    BY FileIsStream DEF SourceInv
  <1>4. ASSUME NEW strict_aps \in BOOLEAN, Scan(strict_aps) PROVE PacksInv'
    <2>1. pc' = "scan" /\ pos' = 0 /\ pno' = 0 /\ UNCHANGED <<scanned, info>>
      BY <1>4 DEF Scan
    <2>2. 1 \in Packs /\ file[1].at = 0
      <3>1. Len(file) # 0 /\ Len(file) \in Nat
        BY <1>3, EmptySeq DEF Regular, IsStream
      <3>2. 1 \in 1 .. Len(file)
        BY <3>1
      <3> QED
        BY <1>3, <3>2, StreamPlaces DEF Packs, Regular
    <2>3. PacksBefore(0) = {}
      <3>1. \A k \in Packs : file[k].at \in Nat
        BY <1>3, StreamPlaces DEF Packs
      <3> QED
        BY <3>1 DEF PacksBefore
    <2>4. PacksBefore(pos)' = {}
      BY <1>1, <1>2, <2>1, <2>3 DEF PacksBefore
    <2> QED
      BY <1>1, <1>2, <2>1, <2>2, <2>4, FS_EmptySet
  <1>5. CASE ScanPacket
    <2>1. /\ pc = "scan" /\ pos \in Nat /\ pos < Stat /\ pno \in Nat /\ ~scanned
          /\ UNCHANGED <<file, scanned, info>>
          /\ LengthAt(file, pos) # 0 => pos' = pos + LengthAt(file, pos) /\ pno' = pno + 1
      BY <1>5, ScanPacketGets
    <2>2. PICK k \in Packs : file[k].at = pos
      BY <2>1
    <2>3. /\ LengthAt(file, pos) = PackLength(k)
          /\ PackLength(k) \in Nat \ {0}
          /\ pos + PackLength(k) = PackEnd(k)
      BY <1>3, <2>2, PackFound
    <2>4. pos' = PackEnd(k) /\ pno' = pno + 1
      BY <2>1, <2>3
    <2>5. Cardinality(PacksBefore(PackEnd(k))) = Cardinality(PacksBefore(file[k].at)) + 1
      BY <1>3, PackCounted
    <2>6. pno' = Cardinality(PacksBefore(PackEnd(k)))
      BY <2>1, <2>2, <2>4, <2>5
    <2>7. PacksBefore(pos)' = PacksBefore(PackEnd(k))
      BY <1>1, <1>2, <2>4 DEF PacksBefore
    <2>8. PackEnd(k) < Length(file) => \E j \in Packs : j > k /\ file[j].at = PackEnd(k)
      BY <1>3, PackEnds
    <2>9. Stat' = Stat
      BY <1>1 DEF Stat
    <2> QED
      BY <1>1, <1>2, <1>3, <2>1, <2>4, <2>6, <2>7, <2>8, <2>9
  <1>6. CASE ScanEnd
    <2>1. pc = "scan" /\ pos \in Nat /\ pos <= Stat /\ pos >= Stat
      BY <1>6 DEF ScanEnd, SourceInv, InPlace
    <2>2. pos = Stat /\ pc' = "idle" /\ info' = Concluded(ctx.stream)
      BY <1>3, <1>6, <2>1 DEF ScanEnd
    <2>3. ctx.stream.packets = pno /\ ctx.stream \in StreamInfo
      BY <2>1, ContextTypes DEF SourceInv, ContextInv
    <2>4. info'.packets = pno
      BY <2>2, <2>3 DEF Concluded, StreamInfo
    <2>5. PacksBefore(pos) = Packs
      <3>1. \A k \in Packs : file[k].at < Length(file)
        <4> SUFFICES ASSUME NEW k \in Packs PROVE file[k].at < Length(file)
          OBVIOUS
        <4>1. k \in 1 .. Len(file)
          BY <1>3, StreamPlaces DEF Packs
        <4>2. /\ file[k].at \in Nat /\ file[k].len \in Nat \ {0}
              /\ EndOf(file[k]) = file[k].at + file[k].len /\ EndOf(file[k]) <= Length(file)
          BY <1>3, <4>1, StreamPlaces
        <4> QED
          BY <1>3, <4>2
      <3> QED
        BY <1>3, <2>2, <3>1 DEF PacksBefore
    <2> QED
      BY <1>2, <2>1, <2>2, <2>4, <2>5
  <1>7. ASSUME NEW no, NEW fix, GetPacket(no, fix) PROVE PacksInv'
    <2>1. pc' = "get" /\ scanned /\ info' = info /\ scanned' = scanned
      BY <1>7 DEF GetPacket
    <2> QED
      BY <1>2, <2>1
  <1>8. CASE GetNext
    <2>1. PICK p : GetsNext(p)
      BY <1>8, GetNextGets
    <2>2. pc = "get" /\ scanned
      BY <1>8, GetNextGets
    <2>3. UNCHANGED <<scanned, info>> /\ pc' # "scan"
      BY <2>1, <2>2 DEF GetsNext
    <2> QED
      BY <1>2, <2>2, <2>3
  <1>9. CASE Close \/ UNCHANGED vars
    <2>1. UNCHANGED <<file, pc, pos, pno, scanned, info>>
      BY <1>9 DEF Close, vars
    <2>2. PacksBefore(pos)' = PacksBefore(pos) /\ Stat' = Stat
      BY <1>2, <2>1 DEF PacksBefore, Stat
    <2> QED
      BY <1>2, <2>1, <2>2
  <1> QED
    BY <1>4, <1>5, <1>6, <1>7, <1>8, <1>9 DEF Next

\* A stream of packs that fit is scanned to its end: vcd_mpeg_source_scan counts one
\* packet for every pack.
THEOREM AllPacksCountedCorrect == Spec => []AllPacksCounted
  <1>1. Init => PacksInv
    BY DEF Init, PacksInv
  <1>2. SourceInv /\ PacksInv /\ [Next]_vars => PacksInv'
    BY NextKeepsPacks
  <1>3. PacksInv => AllPacksCounted
    BY DEF PacksInv, AllPacksCounted
  <1> QED
    BY <1>1, <1>2, <1>3, SourceInvCorrect, PTL DEF Spec

=============================================================================
