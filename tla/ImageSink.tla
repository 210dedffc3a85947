------------------------------- MODULE ImageSink -------------------------------
(***************************************************************************)
(* image.c: the three image sinks behind one interface, and a client that  *)
(* uses them as vcdxbuild and vcd_obj_write_image do: it sets arguments,   *)
(* hands over the cue sheet, then the sectors of the disc in order (which  *)
(* ImageWriter's invariants show), and destroys the sink.  It may stop     *)
(* anywhere: cancelled, or at an output error.                             *)
(***************************************************************************)
EXTENDS NrgSink

CONSTANTS Discs, NoSheet

\* track_pregap is clamped to 1 .. 300; an entry point is on a packet of its track.  An
\* empty stream between margins of no sectors, which vcd.c only warns of, is left out.
TrackType == [pregap : Nat \ {0}, length : Nat \ {0}, entries : Seq(Nat)]

ASSUME DiscsAssumption ==
    /\ Discs \subseteq [iso : Nat \ {0}, leadout : Nat, tracks : Seq(TrackType)]
    /\ \A d \in Discs : \A k \in DOMAIN d.tracks : \A e \in DOMAIN d.tracks[k].entries :
          d.tracks[k].entries[e] < d.tracks[k].length

VARIABLES
    kind,       \* the sink the client has made
    disc,       \* the disc being written
    user_data,  \* the sink's struct
    disk,       \* the files
    next,       \* the sector to be written next
    phase

vars == <<kind, disc, user_data, disk, next, phase>>

Kinds == {"bincue", "cdrdao", "nrg"}

\* vcd_image_sink_new, as _create_sink of vcdxbuild calls it
New(k) ==
    CASE k = "bincue" -> BinCueNew
      [] k = "cdrdao" -> CdrdaoNew
      [] k = "nrg" -> NrgNew

Init ==
    /\ kind \in Kinds
    /\ disc \in Discs
    /\ user_data = New(kind)
    /\ disk = [file \in {} |-> EmptyFile]
    /\ next = 0
    /\ phase = "new"

\* The call changes the sink and the disk, or an assertion ends the process.
Does(r, then) ==
    /\ user_data' = r.obj
    /\ disk' = r.disk
    /\ phase' = IF r.ok THEN then ELSE "failed"
    /\ UNCHANGED <<kind, disc>>

\* vcd_image_sink_set_arg of "sector": _sink_set_arg.  The client exits when the
\* sink knows no such key or value.
SetArg(value) ==
    /\ phase = "new"
    /\ IF kind # "nrg" /\ value \in {"2336", "2352"}
       THEN user_data' = [user_data EXCEPT !.sector_2336_flag = value = "2336"] /\ phase' = phase
       ELSE phase' = "refused" /\ UNCHANGED user_data
    /\ UNCHANGED <<kind, disc, disk, next>>

\* vcd_image_sink_set_cuesheet
SetCuesheet ==
    /\ phase = "new"
    /\ Does(CASE kind = "bincue" -> BinCueSetCuesheet(user_data, disk, CueList(disc))
              [] kind = "cdrdao" -> CdrdaoSetCuesheet(user_data, disk, CueList(disc))
              [] kind = "nrg" -> NrgSetCuesheet(user_data, disk, CueList(disc)),
            "writing")
    /\ UNCHANGED next

\* vcd_image_sink_write
Write ==
    /\ phase = "writing"
    /\ next < DiscEnd(disc)
    /\ Does(CASE kind = "bincue" -> BinCueWrite(user_data, disk, next)
              [] kind = "cdrdao" -> CdrdaoWrite(user_data, disk, next)
              [] kind = "nrg" -> NrgWrite(user_data, disk, next),
            "writing")
    /\ next' = next + 1

\* vcd_image_sink_destroy
Destroy ==
    /\ phase = "writing"
    /\ next = DiscEnd(disc)
    /\ Does(CASE kind = "bincue" -> BinCueFree(user_data, disk)
              [] kind = "cdrdao" -> CdrdaoFree(user_data, disk)
              [] kind = "nrg" -> NrgFree(user_data, disk),
            "done")
    /\ UNCHANGED next

\* write_image returns 1 without destroying the sink, or a file cannot be opened
\* or written: vcd_error, and the client exits.
GiveUp ==
    /\ phase = "writing"
    /\ phase' = "exited"
    /\ UNCHANGED <<kind, disc, user_data, disk, next>>

Next ==
    \/ \E value \in {"2336", "2352", "other"} : SetArg(value)
    \/ SetCuesheet
    \/ Write
    \/ Destroy
    \/ GiveUp

Spec == Init /\ [][Next]_vars

-----------------------------------------------------------------------------
(* Properties.                                                             *)

Sinks == {user_data[f] : f \in {"bin_snk", "cue_snk", "last_bin_snk", "nrg_snk"}
                                  \cap DOMAIN user_data}

\* The client's phase and sector, and the open files: each is on the disk, and a
\* sink's position is where its FILE stands, so that no seek is left out or made
\* in vain.
SinkTypeOK ==
    /\ phase \in {"new", "refused", "writing", "exited", "failed", "done"}
    /\ next \in 0 .. DiscEnd(disc)
    /\ \A s \in Sinks :
          /\ s.is_open \in BOOLEAN
          /\ s.position \in Nat
          /\ s.is_open => s.pathname \in DOMAIN disk /\ s.at = s.position

\* No assertion of the three sinks fails on a disc vcd.c accepts, but these: a
\* track of as many entry points as it may have, whose last index BIN/CUE cannot
\* number; a disc with entry points, or with one track more than the ISO track
\* leaves room for, in an NRG image.
OnlyKnownFailures ==
    phase = "failed" =>
        \/ /\ kind = "bincue"
           /\ \E k \in DOMAIN disc.tracks : Len(disc.tracks[k].entries) >= CD_MAX_TRACKS
        \/ kind = "nrg" /\ HasEntries(disc)
        \/ kind = "nrg" /\ Len(disc.tracks) >= CD_MAX_TRACKS

\* The sectors of the disc an image of this kind has a place for.
Wanted(k, d) == IF k = "nrg" THEN AllSectors(d) \ Pregaps(d) ELSE AllSectors(d)

\* NoSheet, which stands for the cue sheet that is not there yet, is none of a disc.
ASSUME SheetAssumption == \A d \in Discs, k \in Kinds : NoSheet # Wanted(k, d)

TrackStarts == <<0>> \o [k \in DOMAIN disc.tracks |-> StartAt(disc, k)]

\* The sectors that are on the disk where a burner looks for them; in an NRG image
\* nothing says where that is before the tail is there.
Found ==
    CASE kind = "bincue" /\ BinFile \in DOMAIN disk -> BinCueSectors(disk)
      [] kind = "cdrdao" /\ TocFile \in DOMAIN disk -> CdrdaoSectors(disk)
      [] kind = "nrg" /\ NrgFile \in DOMAIN disk ->
           IF next = DiscEnd(disc) /\ phase # "failed" THEN NrgSectors(disk, TrackStarts)
           ELSE {disk[NrgFile][at].lsn : at \in DOMAIN disk[NrgFile]}
      [] OTHER -> {}

\* A finished image holds what the writer sent: every sector is where the cue
\* sheet, the table of contents or the NRG tail makes a burner look for it, each
\* exactly once, and every track and entry point starts where the writer said.
BurnsAsSent ==
    phase = "done" =>
        /\ Found = Wanted(kind, disc)
        /\ kind = "bincue" => BinCueIndexes(disk) = Indexes(disc)
        /\ kind = "cdrdao" => CdrdaoIndexes(disk) = Indexes(disc)
        /\ kind = "nrg" =>
              /\ Len(NrgTracks(disk)) = Len(disc.tracks) + 1
              /\ \A k \in DOMAIN NrgTracks(disk) :
                    NrgTracks(disk)[k].start_lsn * M2RAW_SIZE = NrgTracks(disk)[k].start

Image == INSTANCE DiscImage WITH
    sheet <- IF phase \in {"new", "refused"} THEN NoSheet ELSE Wanted(kind, disc),
    kept <- Found,
    sealed <- phase = "done"

\* Every sink implements DiscImage: no sector that was stored is ever lost, to a
\* file opened a second time or to a sector written over it, and an image that is
\* destroyed after its last sector is complete.
ImplementsDiscImage == Image!ImageSpec

=============================================================================
