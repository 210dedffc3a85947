------------------------------- MODULE NrgSink -------------------------------
(***************************************************************************)
(* image_nrg.c: one file of the tracks' sectors, without the pregaps, and  *)
(* behind them the chunks that describe it.                                *)
(***************************************************************************)
EXTENDS CdrdaoSink

NrgFile == <<"nrg", 0, FALSE>>

\* The structs of the tail, in bytes: _chunk_t, _etnf_array_t, uint32_t.
CHUNK_SIZE == 8
ETNF_SIZE == 20
WORD_SIZE == 4

\* vcd_image_sink_new_nrg, _img_nrg_snk_t
NrgNew == [nrg_snk |-> NoSink, vcd_cue_list |-> <<>>, tracks |-> 0, cue_end_lsn |-> 0,
           init |-> FALSE]

\* _sink_init
NrgInit(obj) == IF obj.init THEN obj ELSE [obj EXCEPT !.init = TRUE, !.nrg_snk = Sink(NrgFile)]

IsTrack(cue) == cue.type = "track"

\* _set_cuesheet
NrgSetCuesheet(obj, disk, cue_list) ==
    LET tracks == Cardinality({k \in DOMAIN cue_list : IsTrack(cue_list[k])})
        o == NrgInit(obj)
    IN  [obj |-> [o EXCEPT !.vcd_cue_list = cue_list, !.tracks = tracks,
                           !.cue_end_lsn = Last(cue_list).lsn],
         disk |-> disk, ok |-> tracks <= CD_MAX_TRACKS]

\* One cue of the loop of _map, which breaks at the first cue behind the sector.
Mapped(s, cue, lsn) ==
    IF s.broken \/ lsn < cue.lsn
    THEN [s EXCEPT !.broken = TRUE]
    ELSE [s EXCEPT !.last = cue.type,
                   !.result = CASE cue.type = "track" -> @ - cue.lsn
                                [] cue.type = "pregap" -> @ + cue.lsn
                                [] OTHER -> @]

\* _map: the sector of the file for sector lsn of the disc, -1 in a pregap.  A
\* sector behind a subindex is in no part that has a place.
NrgMap(obj, lsn) ==
    LET s == FoldLeft(LAMBDA t, cue : Mapped(t, cue, lsn),
                      [result |-> lsn, last |-> "none", broken |-> FALSE], obj.vcd_cue_list)
    IN  [ok |-> lsn < obj.cue_end_lsn /\ s.broken /\ s.last \in {"track", "pregap"},
         to |-> IF s.last = "pregap" THEN -1 ELSE s.result]

\* Mutant: the last track's length without the lead-out behind it.
Etnf_short(obj, k) ==
    LET at == NrgMap(obj, obj.vcd_cue_list[k].lsn).to
    IN  [start_lsn |-> at, start |-> at * M2RAW_SIZE,
         length |-> (obj.vcd_cue_list[k + 1].lsn - obj.vcd_cue_list[k].lsn - 1) * M2RAW_SIZE]

\* The description of the track that starts at cue k: it ends at the next cue.
Etnf(obj, k) ==
    LET at == NrgMap(obj, obj.vcd_cue_list[k].lsn).to
    IN  [start_lsn |-> at, start |-> at * M2RAW_SIZE,
         length |-> (obj.vcd_cue_list[k + 1].lsn - obj.vcd_cue_list[k].lsn) * M2RAW_SIZE]

Chunk(id, len) == [chunk |-> id, len |-> len]

\* _write_tail
NrgTail(obj, s, offset) ==
    LET head == SinkWrite(SinkSeek(s, offset), Chunk("ETNF", obj.tracks * ETNF_SIZE), CHUNK_SIZE)
        etnf == FoldLeftDomain(LAMBDA t, k : IF IsTrack(obj.vcd_cue_list[k])
                                             THEN SinkWrite(t, Etnf(obj, k), ETNF_SIZE) ELSE t,
                               head, obj.vcd_cue_list)
        sinf == SinkWrite(etnf, Chunk("SINF", WORD_SIZE), CHUNK_SIZE)
        count == SinkWrite(sinf, Chunk("tracks", obj.tracks), WORD_SIZE)
        end1 == SinkWrite(count, Chunk("END1", 0), CHUNK_SIZE)
    IN  SinkWrite(end1, Chunk("NERO", offset), CHUNK_SIZE)

\* _vcd_image_nrg_write: the tail follows the last sector of the disc.
NrgWrite(obj, disk, lsn) ==
    LET map == NrgMap(obj, lsn)
        o == NrgInit(obj)
        to == SinkSeek([disk |-> disk, sink |-> o.nrg_snk], map.to * M2RAW_SIZE)
        sector == SinkWrite(to, [lsn |-> lsn, size |-> M2RAW_SIZE], M2RAW_SIZE)
        out == IF lsn = o.cue_end_lsn - 1 THEN NrgTail(o, sector, (map.to + 1) * M2RAW_SIZE)
               ELSE sector
    IN  IF map.ok /\ map.to # -1
        THEN [obj |-> [o EXCEPT !.nrg_snk = out.sink], disk |-> out.disk, ok |-> TRUE]
        ELSE [obj |-> o, disk |-> disk, ok |-> map.ok]

\* _sink_free
NrgFree(obj, disk) ==
    [obj |-> [obj EXCEPT !.nrg_snk = SinkDestroy([disk |-> disk, sink |-> @]).sink],
     disk |-> disk, ok |-> obj.init]

-----------------------------------------------------------------------------
(* What a burner finds: it starts at the last chunk, at the end of the     *)
(* file, which says where the first one is.                                *)

NrgTracks(disk) ==
    LET file == disk[NrgFile]
        footer == Max(DOMAIN file)
        from == file[footer].len
        number == file[from].len \div ETNF_SIZE
    IN  [k \in 1 .. number |-> file[from + CHUNK_SIZE + (k - 1) * ETNF_SIZE]]

\* The sectors of the tracks, each where the track says, given where the track
\* starts on the disc.
NrgSectors(disk, starts) ==
    LET file == disk[NrgFile]
        tracks == NrgTracks(disk)
    IN  UNION {{starts[k] + n : n \in {m \in 0 .. tracks[k].length \div M2RAW_SIZE - 1 :
                  LET at == tracks[k].start + m * M2RAW_SIZE
                  IN  at \in DOMAIN file /\ file[at] = [lsn |-> starts[k] + m, size |-> M2RAW_SIZE]}}
               : k \in DOMAIN tracks}

=============================================================================
