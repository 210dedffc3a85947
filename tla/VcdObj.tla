-------------------------------- MODULE VcdObj --------------------------------
(***************************************************************************)
(* The disc under construction: struct _VcdObj (lib/obj.h) and the calls   *)
(* of lib/vcd.c that fill it.  A call the code answers with vcd_error has  *)
(* no effect on the object, and the default log handler ends the process   *)
(* there: it is no step.  A failed vcd_assert sets aborted.                *)
(***************************************************************************)
EXTENDS Integers, Blocks, SequencesExt

CONSTANTS
    NoId,             \* a NULL id
    Types,            \* the disc types clients make
    Arguments,        \* the <<parameter, argument>> pairs clients set
    Sources,          \* the MPEG streams clients have, as scanned
    EntryTimes,       \* the times clients ask entry points at
    FileSectors,      \* the sizes of the files clients add, in sectors
    Ids               \* per kind of item, the ids clients give

CONSTANTS             \* limits of the code
    PREGAP_SECTORS,   \* CDIO_PREGAP_SECTORS
    POSTGAP_SECTORS,  \* CDIO_POSTGAP_SECTORS
    GAP_MAX,          \* the upper limit of both pregap parameters
    FRONT_MARGIN,     \* the margins of a new object, where its type has them
    REAR_MARGIN,
    SEGMENT_SECTOR_SIZE,   \* VCDINFO_SEGMENT_SECTOR_SIZE
    MAX_TRACKS,       \* 98
    MAX_SEQ_ENTRIES,
    MAX_ENTRIES,
    MAX_SEGMENTS

CONSTANTS             \* bounds of the model
    ParamsFirst,      \* clients set no parameter once there is a sequence
    MaxItems          \* [sequences, entries, segments, files, pbc_list, all]

DiscTypes == {"VCD", "VCD11", "VCD2", "SVCD", "HQVCD"}

ParamLimits ==
    [volume_count       |-> <<1, 65535>>,
     volume_number      |-> <<0, 65534>>,
     restriction        |-> <<0, 65534>>,
     leadout_pregap     |-> <<0, GAP_MAX>>,
     track_pregap       |-> <<1, GAP_MAX>>,
     track_front_margin |-> <<0, PREGAP_SECTORS>>,
     track_rear_margin  |-> <<0, POSTGAP_SECTORS>>]

Params == DOMAIN ParamLimits

\* An access point: its packet and its time.
ApsData == [packet_no : Nat, timestamp : Int]

\* A scanned stream: its packets, its access points, whether it plays for any
\* time at all, and the first packet (from 1) that is no valid one, or 0.
SourceType == [packets : Nat, aps : Seq(ApsData), plays : BOOLEAN, invalid : Nat]

ItemKinds == {"sequence", "default", "entry", "segment", "node", "played"}

ASSUME ObjAssumption ==
    /\ Types \subseteq DiscTypes
    /\ Arguments \subseteq Params \X Nat
    /\ Sources \subseteq SourceType
    /\ EntryTimes \subseteq Int
    /\ FileSectors \subseteq Nat
    /\ ItemKinds \subseteq DOMAIN Ids
    /\ {PREGAP_SECTORS, POSTGAP_SECTORS, FRONT_MARGIN, REAR_MARGIN,
        MAX_TRACKS, MAX_SEQ_ENTRIES, MAX_ENTRIES, MAX_SEGMENTS} \subseteq Nat
    /\ GAP_MAX \in Nat \ {0}
    /\ SEGMENT_SECTOR_SIZE \in Nat \ {0}
    /\ ParamsFirst \in BOOLEAN

\* A scan lists access points in the order of the disc, and ignores one that is
\* earlier than the last (AccessPointsOrdered of module MpegSource).
ASSUME SourcesAssumption ==
    \A s \in Sources : \A j, k \in DOMAIN s.aps :
        j < k => /\ s.aps[j].packet_no <= s.aps[k].packet_no
                 /\ s.aps[j].timestamp <= s.aps[k].timestamp

VARIABLES
    type,                  \* the disc type
    prm,                   \* the parameters
    sequences,             \* mpeg_sequence_list
    segments,              \* mpeg_segment_list
    files,                 \* custom_file_list
    pbc_list,              \* the play items of playback control
    relative_end_extent,   \* end of the last sequence, relative to the ISO data
    in_output,             \* between begin_output and end_output
    aborted                \* a vcd_assert failed: the process is gone

objVars == <<type, prm, sequences, segments, files, pbc_list, relative_end_extent>>

-----------------------------------------------------------------------------
(* _vcd_obj_has_cap_p                                                      *)

HasPBC == type \in {"VCD2", "SVCD", "HQVCD"}
HasPBC_X == type = "VCD2"
Has4C_SVCD == type \in {"SVCD", "HQVCD"}
HasTrackMargins(t) == t \in {"VCD", "VCD11", "VCD2"}

pbc_available == pbc_list # <<>> /\ HasPBC

\* vcd_obj_new
ObjInit ==
    /\ type \in Types
    /\ prm = [volume_count       |-> 1,
              volume_number      |-> 1,
              restriction        |-> 0,
              leadout_pregap     |-> POSTGAP_SECTORS,
              track_pregap       |-> PREGAP_SECTORS,
              track_front_margin |-> IF HasTrackMargins(type) THEN FRONT_MARGIN ELSE 0,
              track_rear_margin  |-> IF HasTrackMargins(type) THEN REAR_MARGIN ELSE 0]
    /\ sequences = <<>>
    /\ segments = <<>>
    /\ files = <<>>
    /\ pbc_list = <<>>
    /\ relative_end_extent = 0
    /\ in_output = FALSE
    /\ aborted = FALSE

\* Every client builds the object first, then outputs it; see MaxItems.
Building == ~in_output /\ ~aborted

Room(list, kind) ==
    /\ Len(list) < MaxItems[kind]
    /\ Len(sequences) + Len(segments) + Len(files) + Len(pbc_list) < MaxItems.all

Clamp(value, limits) ==
    IF value < limits[1] THEN limits[1]
    ELSE IF value > limits[2] THEN limits[2] ELSE value

SetParam(param, arg) ==
    /\ Building
    /\ ParamsFirst => sequences = <<>>
    /\ prm' = [prm EXCEPT ![param] = Clamp(arg, ParamLimits[param])]
    /\ UNCHANGED <<type, sequences, segments, files, pbc_list, relative_end_extent>>
    /\ UNCHANGED <<in_output, aborted>>

-----------------------------------------------------------------------------
(* Ids: _vcd_pbc_lookup and what it looks through, in its order.           *)

\* The entry points of the disc as ENTRIES.VCD numbers them: each sequence's
\* default one, then its additional ones.
EntrySlots ==
    FlattenSeq([k \in DOMAIN sequences |->
        <<[id |-> sequences[k].default_entry_id, additional |-> FALSE]>>
          \o [e \in DOMAIN sequences[k].entries |->
                [id |-> sequences[k].entries[e].id, additional |-> TRUE]]])

SegmentsBefore(k) ==
    FoldLeft(LAMBDA n, s : n + s.segment_count, 0, SubSeq(segments, 1, k - 1))

SequenceIds == {sequences[k].id : k \in DOMAIN sequences}
EntryIds == {EntrySlots[n].id : n \in DOMAIN EntrySlots}
SegmentIds == {segments[k].id : k \in DOMAIN segments}
NodeIds == {pbc_list[k].id : k \in DOMAIN pbc_list}

ItemIds == (SequenceIds \cup EntryIds \cup SegmentIds \cup NodeIds) \ {NoId}

\* The assertions on the item numbers met before the id is found.
LookupAborts(id) ==
    \/ /\ Len(sequences) > MAX_TRACKS
       /\ \A k \in 1 .. MAX_TRACKS : sequences[k].id # id
    \/ /\ id \notin SequenceIds
       /\ \E n \in DOMAIN EntrySlots :
             /\ EntrySlots[n].additional
             /\ n > MAX_ENTRIES
             /\ \A m \in 1 .. (n - 1) : EntrySlots[m].id # id
    \/ /\ id \notin SequenceIds \cup EntryIds
       /\ \E k \in DOMAIN segments :
             /\ SegmentsBefore(k) >= MAX_SEGMENTS
             /\ \A j \in 1 .. (k - 1) : segments[j].id # id

\* A call looks up the ids it is given in turn, up to one that exists already.
Crashes(ids) ==
    \E k \in DOMAIN ids :
        /\ ids[k] # NoId
        /\ LookupAborts(ids[k])
        /\ \A j \in 1 .. (k - 1) : ids[j] \notin ItemIds

\* Mutant: only the first id is looked up.
Unknown_first(ids) == ~Crashes(ids) /\ ids[1] \notin ItemIds

Unknown(ids) == ~Crashes(ids) /\ \A k \in DOMAIN ids : ids[k] \notin ItemIds

LookupFails(ids) ==
    /\ Building
    /\ Crashes(ids)
    /\ aborted' = TRUE
    /\ UNCHANGED <<objVars, in_output>>

-----------------------------------------------------------------------------
(* The items.                                                              *)

\* Mutant: the rear margin is left out of relative_end_extent.
AppendSequence_norear(source, item_id, default_entry_id) ==
    LET start == relative_end_extent + prm.track_pregap
    IN  /\ Building
        /\ Room(sequences, "sequences")
        /\ Unknown(<<item_id, default_entry_id>>)
        /\ item_id = default_entry_id => item_id = NoId
        /\ sequences' = Append(sequences,
                [source |-> source, id |-> item_id,
                 default_entry_id |-> default_entry_id, entries |-> <<>>,
                 relative_start_extent |-> start])
        /\ relative_end_extent' = start + prm.track_front_margin + source.packets
        /\ UNCHANGED <<type, prm, segments, files, pbc_list, in_output, aborted>>

AppendSequence(source, item_id, default_entry_id) ==
    LET start == relative_end_extent + prm.track_pregap
    IN  /\ Building
        /\ Room(sequences, "sequences")
        /\ Unknown(<<item_id, default_entry_id>>)
        /\ item_id = default_entry_id => item_id = NoId
        /\ sequences' = Append(sequences,
                [source |-> source, id |-> item_id,
                 default_entry_id |-> default_entry_id, entries |-> <<>>,
                 relative_start_extent |-> start])
        /\ relative_end_extent' =
                start + prm.track_front_margin + source.packets + prm.track_rear_margin
        /\ UNCHANGED <<type, prm, segments, files, pbc_list, in_output, aborted>>

\* Mutant: appended, not sorted.
WithEntry_unsorted(entries, entry) == Append(entries, entry)

\* Appended, then sorted by time; the sort is stable.
WithEntry(entries, entry) ==
    InsertAt(entries,
             Cardinality({e \in DOMAIN entries : entries[e].time <= entry.time}) + 1,
             entry)

\* Without a sequence id, the last sequence gets the entry point.
Target(k, sequence_id) ==
    IF sequence_id = NoId THEN k = Len(sequences)
    ELSE /\ sequences[k].id = sequence_id
         /\ \A j \in 1 .. (k - 1) : sequences[j].id # sequence_id

AddSequenceEntry(k, sequence_id, time, id) ==
    /\ Building
    /\ Target(k, sequence_id)
    /\ Len(sequences[k].entries) < MaxItems["entries"]
    /\ Len(sequences[k].entries) < MAX_SEQ_ENTRIES
    /\ Unknown(<<id>>)
    /\ sequences' = [sequences EXCEPT ![k].entries =
            WithEntry(@, [time |-> time, id |-> id,
                          aps |-> [packet_no |-> 0, timestamp |-> 0]])]
    /\ UNCHANGED <<type, prm, segments, files, pbc_list, relative_end_extent>>
    /\ UNCHANGED <<in_output, aborted>>

AppendSegment(source, item_id) ==
    /\ Building
    /\ Room(segments, "segments")
    /\ HasPBC
    /\ item_id # NoId
    /\ Unknown(<<item_id>>)
    /\ source.packets # 0
    /\ segments' = Append(segments,
            [source |-> source, id |-> item_id, start_extent |-> 0,
             segment_count |-> Len2Blocks(source.packets, SEGMENT_SECTOR_SIZE)])
    /\ UNCHANGED <<type, prm, sequences, files, pbc_list, relative_end_extent>>
    /\ UNCHANGED <<in_output, aborted>>

AddFile(sectors) ==
    /\ Building
    /\ Room(files, "files")
    /\ files' = Append(files, [sectors |-> sectors, start_extent |-> 0])
    /\ UNCHANGED <<type, prm, sequences, segments, pbc_list, relative_end_extent>>
    /\ UNCHANGED <<in_output, aborted>>

\* The id that is looked up is the one of the item the node plays.
AppendPbcNode(id, item_id) ==
    /\ Building
    /\ Room(pbc_list, "pbc_list")
    /\ HasPBC
    /\ Unknown(<<item_id>>)
    /\ pbc_list' = Append(pbc_list, [id |-> id, item_id |-> item_id])
    /\ UNCHANGED <<type, prm, sequences, segments, files, relative_end_extent>>
    /\ UNCHANGED <<in_output, aborted>>

BuildNext ==
    \/ \E a \in Arguments : SetParam(a[1], a[2])
    \/ \E s \in Sources, i \in Ids.sequence, d \in Ids.default : AppendSequence(s, i, d)
    \/ \E k \in DOMAIN sequences, t \in EntryTimes, i \in Ids.entry :
          \E q \in Ids.sequence \cup {NoId} : AddSequenceEntry(k, q, t, i)
    \/ \E s \in Sources, i \in Ids.segment : AppendSegment(s, i)
    \/ \E n \in FileSectors : AddFile(n)
    \/ \E i \in Ids.node, p \in Ids.played : AppendPbcNode(i, p)
    \/ \E i \in Ids.sequence, d \in Ids.default : LookupFails(<<i, d>>)
    \/ \E i \in Ids.entry \cup Ids.segment \cup Ids.played : LookupFails(<<i>>)

ObjSpec == ObjInit /\ [][BuildNext]_<<objVars, in_output, aborted>>

-----------------------------------------------------------------------------
(* Types.                                                                  *)

EntryType(ids) == [time : Int, id : ids, aps : ApsData]

SequenceType(ids) ==
    [source : SourceType, id : ids, default_entry_id : ids,
     entries : Seq(EntryType(ids)), relative_start_extent : Nat]

SegmentType(ids) ==
    [source : SourceType, id : ids, segment_count : Nat \ {0}, start_extent : Nat]

FileType == [sectors : Nat, start_extent : Nat]

AllIds == {NoId} \cup UNION {Ids[k] : k \in ItemKinds}

\* The object has the shape of struct _VcdObj.
ObjTypeOK ==
    /\ type \in Types
    /\ prm \in [Params -> Nat]
    /\ sequences \in Seq(SequenceType(AllIds))
    /\ segments \in Seq(SegmentType(AllIds))
    /\ files \in Seq(FileType)
    /\ pbc_list \in Seq([id : AllIds, item_id : AllIds])
    /\ relative_end_extent \in Nat
    /\ in_output \in BOOLEAN
    /\ aborted \in BOOLEAN

-----------------------------------------------------------------------------
(* Properties.                                                             *)

\* The items that bear an id; those but the pbc nodes.
Bearers(id) ==
    {<<"sequence", k>> : k \in {k \in DOMAIN sequences : sequences[k].id = id}}
      \cup {<<"entry", k>> : k \in {k \in DOMAIN EntrySlots : EntrySlots[k].id = id}}
      \cup {<<"segment", k>> : k \in {k \in DOMAIN segments : segments[k].id = id}}

Nodes(id) == {k \in DOMAIN pbc_list : pbc_list[k].id = id}

\* Whatever the order of the calls, an id names at most one sequence, entry point
\* or segment: what playback control plays by that id is one thing.
ItemsHaveOwnIds ==
    \A id \in AllIds \ {NoId} : Cardinality(Bearers(id)) <= 1

\* Entry points may be added in any order: a list of them is in order of time, as
\* the search for access points and the numbering in ENTRIES.VCD expect.
EntriesSorted ==
    \A k \in DOMAIN sequences :
        \A e \in 2 .. Len(sequences[k].entries) :
            sequences[k].entries[e - 1].time <= sequences[k].entries[e].time

SequenceLength(k) ==
    prm.track_front_margin + sequences[k].source.packets + prm.track_rear_margin

\* Where sequence k begins: one pregap after the end of the one before it.
StartOf(k) ==
    prm.track_pregap
      + (IF k = 1 THEN 0
         ELSE sequences[k - 1].relative_start_extent + SequenceLength(k - 1))

\* The sequences adjoin: each begins a pregap after the end of the one before it,
\* and relative_end_extent is the end of the last.  write_image writes them so,
\* whatever append_sequence computed.
SequencesAdjoin ==
    /\ \A k \in DOMAIN sequences : sequences[k].relative_start_extent = StartOf(k)
    /\ relative_end_extent =
         (IF sequences = <<>> THEN 0 ELSE StartOf(Len(sequences) + 1) - prm.track_pregap)

-----------------------------------------------------------------------------
(* What the documentation says, and the code does not.                     *)

\* vcd.c refuses an item "(%s) exists already", and videocd.dtd declares the ids of
\* sequences, entry points, segments and lists alike to be unique in a document:
\* every id names one thing, pbc nodes included.
EveryIdOnce ==
    \A id \in AllIds \ {NoId} : Cardinality(Bearers(id)) + Cardinality(Nodes(id)) <= 1

=============================================================================
