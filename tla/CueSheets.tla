------------------------------ MODULE CueSheets ------------------------------
(***************************************************************************)
(* The cue sheet vcd_obj_write_image hands to an image sink, and what an   *)
(* image of that disc has to hold.                                         *)
(***************************************************************************)
EXTENDS Integers, Sequences, SequencesExt

CONSTANTS
    CD_MAX_TRACKS,    \* CDIO_CD_MAX_TRACKS: tracks of a CD, indexes of a track
    MAX_SEQ_ENTRIES,  \* entry points of a track
    FRAMESIZE_RAW,    \* CDIO_CD_FRAMESIZE_RAW: bytes of a whole sector
    M2RAW_SIZE        \* M2RAW_SECTOR_SIZE: bytes of a sector without its header

ASSUME CueAssumption ==
    /\ CD_MAX_TRACKS \in Nat \ {0}
    /\ MAX_SEQ_ENTRIES \in Nat
    /\ M2RAW_SIZE \in Nat \ {0}
    /\ FRAMESIZE_RAW \in Nat
    /\ FRAMESIZE_RAW > M2RAW_SIZE

\* vcd_cue_t
Cue(type, lsn) == [type |-> type, lsn |-> lsn]

NoCue == Cue("none", 0)

\* A disc as far as a sink can see it: the ISO track's sectors, the sectors of
\* each further track and of its pregap, its entry points from its start, and the
\* lead-out's sectors.
PregapAt(disc, k) ==
    disc.iso + FoldLeft(LAMBDA sum, t : sum + t.pregap + t.length, 0,
                        SubSeq(disc.tracks, 1, k - 1))

DiscEnd(disc) == PregapAt(disc, Len(disc.tracks) + 1) + disc.leadout

StartAt(disc, k) == PregapAt(disc, k) + disc.tracks[k].pregap

TrackCues(disc, k) ==
    <<Cue("pregap", PregapAt(disc, k)), Cue("track", StartAt(disc, k))>>
      \o [e \in DOMAIN disc.tracks[k].entries |->
            Cue("subindex", StartAt(disc, k) + disc.tracks[k].entries[e])]

\* p_cue_list
CueList(disc) ==
    <<Cue("track", 0)>>
      \o FlattenSeq([k \in DOMAIN disc.tracks |-> TrackCues(disc, k)])
      \o <<Cue("end", DiscEnd(disc))>>

HasEntries(disc) == \E k \in DOMAIN disc.tracks : disc.tracks[k].entries # <<>>

-----------------------------------------------------------------------------
(* What a burner is to find: the sectors in the order of the disc and the  *)
(* index points <<track, index, sector>>.                                  *)

Pregaps(disc) ==
    UNION {PregapAt(disc, k) .. StartAt(disc, k) - 1 : k \in DOMAIN disc.tracks}

AllSectors(disc) == 0 .. DiscEnd(disc) - 1

Indexes(disc) ==
    {<<1, 1, 0>>}
      \cup UNION {{<<k + 1, 0, PregapAt(disc, k)>>, <<k + 1, 1, StartAt(disc, k)>>}
                    \cup {<<k + 1, e + 1, StartAt(disc, k) + disc.tracks[k].entries[e]>>
                            : e \in DOMAIN disc.tracks[k].entries}
                  : k \in DOMAIN disc.tracks}

=============================================================================
