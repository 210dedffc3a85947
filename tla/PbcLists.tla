------------------------------- MODULE PbcLists -------------------------------
(***************************************************************************)
(* pbc.c: the lists of playback control and what becomes of them in a PSD, *)
(* where a list is found by an offset of 16 bits, in units of eight bytes, *)
(* and an item by a number (its PIN).                                      *)
(*                                                                         *)
(* A list is a record with the ids it was given and the places it was      *)
(* laid out at.  A disc is a record [type, sequences, segments, ...].      *)
(***************************************************************************)
EXTENDS Integers, Blocks, SequencesExt, FiniteSetsExt

CONSTANTS
    NoId,                \* a NULL id
    ISO_BLOCKSIZE,
    INFO_OFFSET_MULT,    \* the unit of offsets
    OFS_SIZE,            \* how many offsets there are: 2^16, the highest ones special
    LIST_SIZE,           \* the bytes of a descriptor, by kind of list
    LINK_SIZE,           \* and what each of its items, or selections, adds
    AREA_SIZE            \* the area of a selection

ListKinds == {"playlist", "selection", "end"}

ASSUME PbcAssumption ==
    /\ ISO_BLOCKSIZE \in Nat \ {0}
    /\ INFO_OFFSET_MULT \in Nat \ {0}
    /\ ISO_BLOCKSIZE % INFO_OFFSET_MULT = 0
    /\ OFS_SIZE \in Nat
    /\ OFS_SIZE > 3
    /\ LIST_SIZE \in [ListKinds -> Nat \ {0}]
    /\ LINK_SIZE \in Nat
    /\ AREA_SIZE \in Nat

PSD_OFS_DISABLED == OFS_SIZE - 1
PSD_OFS_MULTI_DEF == OFS_SIZE - 2
PSD_OFS_MULTI_DEF_NO_NUM == OFS_SIZE - 3

MIN_ENCODED_TRACK_NUM == 100
MIN_ENCODED_SEGMENT_NUM == 1000
MAX_ENCODED_SEGMENT_NUM == 2979

\* _vcd_obj_has_cap_p, the capabilities playback control asks about.
HasPbc(type) == type \in {"VCD2", "SVCD", "HQVCD"}
HasPbcX(type) == type = "VCD2"
Has4CSvcd(type) == type \in {"SVCD", "HQVCD"}

-----------------------------------------------------------------------------
(* Lists *)

\* The area <<x1, y1, x2, y2>> of a list that has none, a NULL pointer included.
NoArea == <<0, 0, 0, 0>>

\* vcd_pbc_new, of a list without selections: the fields of all kinds in one record.  What
\* a selection or an end list plays is an item, too.  Playing times are in thirtieths of a
\* second.
NewPbc(kind) ==
    [kind |-> kind, id |-> NoId, rejected |-> FALSE,
     prev |-> NoId, next |-> NoId, retn |-> NoId, default |-> NoId, timeout |-> NoId,
     items |-> <<>>, playing_time |-> 0, wait_time |-> 0, auto_pause_time |-> 0,
     bsn |-> 0, loop_count |-> 0, jump_delayed |-> FALSE, selection_type |-> "normal",
     selects |-> <<>>,
     areas |-> [prev |-> NoArea, next |-> NoArea, retn |-> NoArea, default |-> NoArea, selects |-> <<>>],
     next_disc |-> 0]

-----------------------------------------------------------------------------
(* Ids *)

\* _vcd_pbc_lid_lookup: the place of the first list with the id, or 0.
LidLookup(pbc_list, id) == SelectInSeq(pbc_list, LAMBDA pbc : pbc.id = id)

\* The ids of the entry points in the order of the disc, the default ones included.
EntryIds(sequences) ==
    FlattenSeq([n \in DOMAIN sequences |->
        <<sequences[n].default_entry_id>>
            \o [k \in DOMAIN sequences[n].entry_list |-> sequences[n].entry_list[k].id]])

\* The segments of fixed size that the first n segment items take.
SegmentsUpTo(segments, n) ==
    FoldLeft(LAMBDA sum, segment : sum + segment.segment_count, 0, SubSeq(segments, 1, n))

\* Mutant: a segment item counts as one segment.
SegmentPin_flat(segments, n) == n - 1 + MIN_ENCODED_SEGMENT_NUM

SegmentPin(segments, n) == SegmentsUpTo(segments, n - 1) + MIN_ENCODED_SEGMENT_NUM

\* _vcd_pbc_pin_lookup: 0 when no item has the id.
PinLookup(disc, id) ==
    LET sequence == SelectInSeq(disc.sequences, LAMBDA item : item.id = id)
        entry == SelectInSeq(EntryIds(disc.sequences), LAMBDA own : own = id)
        segment == SelectInSeq(disc.segments, LAMBDA item : item.id = id)
    IN  IF id = NoId THEN 0
        ELSE IF sequence # 0 THEN sequence + 1
        ELSE IF entry # 0 THEN entry - 1 + MIN_ENCODED_TRACK_NUM
        ELSE IF segment # 0 THEN SegmentPin(disc.segments, segment)
        ELSE 0

\* _vcd_pbc_lookup: whether anything has the id.
Taken(disc, pbc_list, id) == PinLookup(disc, id) # 0 \/ LidLookup(pbc_list, id) # 0

-----------------------------------------------------------------------------
(* Layout *)

\* _vcd_pbc_available
PbcAvailable(type, pbc_list) == pbc_list # <<>> /\ HasPbc(type)

\* _vcd_pbc_max_lid
MaxLid(type, pbc_list) == IF PbcAvailable(type, pbc_list) THEN Len(pbc_list) ELSE 0

\* _vcd_pbc_node_length
NodeLength(type, pbc, extended) ==
    LET links == IF pbc.kind = "playlist" THEN Len(pbc.items) ELSE Len(pbc.selects)
        areas == IF pbc.kind = "selection" /\ (extended \/ Has4CSvcd(type))
                 THEN (4 + Len(pbc.selects)) * AREA_SIZE ELSE 0
    IN  IF pbc.kind = "end" THEN LIST_SIZE["end"]
        ELSE LIST_SIZE[pbc.kind] + (links * LINK_SIZE) + areas

\* What a list takes in the PSD: its length in whole units.
RoundedLength(type, pbc, extended) ==
    Ceil2Block(NodeLength(type, pbc, extended), INFO_OFFSET_MULT)

\* _lookup_psd_offset, of a list that is there or of none.
LookupPsdOffset(pbc_list, id, extended) ==
    LET pbc == pbc_list[LidLookup(pbc_list, id)]
    IN  IF id = NoId THEN PSD_OFS_DISABLED
        ELSE ((IF extended THEN pbc.offset_ext ELSE pbc.offset) \div INFO_OFFSET_MULT) % OFS_SIZE

-----------------------------------------------------------------------------
(* What the lists refer to *)

\* The lists a player can go to from a list, by id.
ListLinks(pbc) ==
    (IF pbc.kind = "end" THEN {} ELSE {pbc.prev, pbc.next, pbc.retn})
      \cup (IF pbc.kind = "selection" THEN {pbc.timeout} \cup ToSet(pbc.selects) ELSE {})
      \cup (IF pbc.kind = "selection" /\ pbc.selection_type = "normal" THEN {pbc.default} ELSE {})

\* The lists that _vcd_pbc_mark_id gets to from the ids in one more step.
Follow(pbc_list, ids) ==
    ids \cup UNION {ListLinks(pbc_list[LidLookup(pbc_list, id)]) :
                    id \in {i \in ids : LidLookup(pbc_list, i) # 0}}

\* Mutant: lists that are rejected are starting points too.
NotRejected_all(pbc_list) == {pbc_list[n].id : n \in DOMAIN pbc_list}

NotRejected(pbc_list) == {pbc_list[n].id : n \in {m \in DOMAIN pbc_list : ~pbc_list[m].rejected}}

\* _vcd_pbc_mark_id: the ids that are marked, from the lists that are not rejected on.
MarkedIds(pbc_list) ==
    LET reached[n \in 0 .. Len(pbc_list)] ==
            IF n = 0 THEN NotRejected(pbc_list) ELSE Follow(pbc_list, reached[n - 1])
    IN  reached[Len(pbc_list)]

\* The lists that are marked as referenced: the first that has a marked id.
Referenced(pbc_list) ==
    {LidLookup(pbc_list, id) : id \in MarkedIds(pbc_list) \ {NoId}} \ {0}

\* _vcd_pin_mark_id, of all items of the marked lists: sequences and segments, no entries.
ReferencedItems(disc, pbc_list) ==
    {id \in UNION {ToSet(pbc_list[n].items) : n \in Referenced(pbc_list)} :
        \/ \E n \in DOMAIN disc.sequences : disc.sequences[n].id = id
        \/ \E n \in DOMAIN disc.segments : disc.segments[n].id = id}

\* _vcd_pbc_check_unreferenced: the places of the lists that are warned about.
Unreachable(pbc_list) == DOMAIN pbc_list \ Referenced(pbc_list)

-----------------------------------------------------------------------------
(* Descriptors *)

\* _wtime: seconds in a byte.  Tens of seconds beyond a minute, rounded to even.
Wtime(seconds) ==
    LET over == seconds - 60
        tens == over \div 10
        up == over % 10 > 5 \/ (over % 10 = 5 /\ tens % 2 = 1)
    IN  IF seconds < 0 THEN 255
        ELSE IF seconds <= 60 THEN seconds
        ELSE IF seconds > 2000 THEN 254
        ELSE 60 + tens + (IF up THEN 1 ELSE 0)

\* The sequence a multi default selection plays: _vcd_obj_get_sequence_by_id or by_entry_id.
PlayedSequences(disc, id) ==
    {n \in DOMAIN disc.sequences :
        \/ disc.sequences[n].id = id
        \/ disc.sequences[n].default_entry_id = id
        \/ \E k \in DOMAIN disc.sequences[n].entry_list : disc.sequences[n].entry_list[k].id = id}

\* A playing time, in thirtieths of a second, in fifteenths: rint rounds to even.
PlayTime(time) == (time \div 2) + (IF time % 4 = 3 THEN 1 ELSE 0)

\* _set_area_helper ends the program over an area that is upside down.
BadArea(area) == area # NoArea /\ (area[1] >= area[3] \/ area[2] >= area[4])

\* Whether a selection list is written with its areas.
HasAreas(type, extended) == extended \/ Has4CSvcd(type)

Areas(pbc) ==
    {pbc.areas.prev, pbc.areas.next, pbc.areas.retn, pbc.areas.default} \cup ToSet(pbc.areas.selects)

\* A multi default selection starts at 1, plays a sequence and has one selection per entry.
BadMultiDefault(disc, pbc) ==
    \/ pbc.bsn # 1
    \/ NoId \in ToSet(pbc.items)
    \/ PlayedSequences(disc, pbc.items[1]) = {}
    \/ Len(pbc.selects) # 1 + Len(disc.sequences[Min(PlayedSequences(disc, pbc.items[1]))].entry_list)

\* The numbers of selections are 1 to 99.
BadNumbers(pbc) == pbc.bsn \notin 1 .. 99 \/ Len(pbc.selects) > 99 \/ Len(pbc.selects) + pbc.bsn > 100

\* What _vcd_pbc_node_write ends the program over: a list or an item that is not there,
\* a selection that no player can show.  An end list that is no SVCD's plays nothing.
Unwritable(disc, pbc_list, pbc) ==
    \/ \E id \in ListLinks(pbc) \ {NoId} : LidLookup(pbc_list, id) = 0
    \/ /\ pbc.kind # "end" \/ Has4CSvcd(disc.type)
       /\ \E id \in ToSet(pbc.items) \ {NoId} : PinLookup(disc, id) = 0
    \/ /\ pbc.kind = "selection"
       /\ \/ BadNumbers(pbc)
          \/ pbc.selection_type # "normal" /\ BadMultiDefault(disc, pbc)
          \/ \E extended \in {x \in BOOLEAN : x => HasPbcX(disc.type)} :
                HasAreas(disc.type, extended) /\ \E area \in Areas(pbc) : BadArea(area)

\* The default of a selection list.
DefaultOffset(pbc_list, pbc, extended) ==
    IF pbc.selection_type = "multi" THEN PSD_OFS_MULTI_DEF
    ELSE IF pbc.selection_type = "multi_no_num" THEN PSD_OFS_MULTI_DEF_NO_NUM
    ELSE LookupPsdOffset(pbc_list, pbc.default, extended)

\* What a list plays, as numbers.
ItemNumbers(disc, pbc) == [k \in DOMAIN pbc.items |-> PinLookup(disc, pbc.items[k])]

\* The descriptors _vcd_pbc_node_write puts into the PSD.
PlaylistDescriptor(disc, pbc_list, pbc, extended) ==
    [type |-> "playlist", lid |-> pbc.lid, rejected |-> pbc.rejected,
     prev_ofs |-> LookupPsdOffset(pbc_list, pbc.prev, extended),
     next_ofs |-> LookupPsdOffset(pbc_list, pbc.next, extended),
     return_ofs |-> LookupPsdOffset(pbc_list, pbc.retn, extended),
     ptime |-> PlayTime(pbc.playing_time),
     wtime |-> Wtime(pbc.wait_time),
     atime |-> Wtime(pbc.auto_pause_time),
     itemid |-> ItemNumbers(disc, pbc)]

SelectionDescriptor(disc, pbc_list, pbc, extended) ==
    [type |-> IF extended THEN "ext_selection" ELSE "selection",
     bsn |-> pbc.bsn, lid |-> pbc.lid, rejected |-> pbc.rejected,
     has_areas |-> HasAreas(disc.type, extended),
     prev_ofs |-> LookupPsdOffset(pbc_list, pbc.prev, extended),
     next_ofs |-> LookupPsdOffset(pbc_list, pbc.next, extended),
     return_ofs |-> LookupPsdOffset(pbc_list, pbc.retn, extended),
     default_ofs |-> DefaultOffset(pbc_list, pbc, extended),
     timeout_ofs |-> LookupPsdOffset(pbc_list, pbc.timeout, extended),
     wtime |-> Wtime(pbc.wait_time),
     loop |-> [count |-> Min({pbc.loop_count, 127}), delayed |-> pbc.jump_delayed],
     itemid |-> ItemNumbers(disc, pbc),
     ofs |-> [k \in DOMAIN pbc.selects |-> LookupPsdOffset(pbc_list, pbc.selects[k], extended)],
     areas |-> pbc.areas]

\* An end list has no LID, and but for an SVCD nothing else.
EndDescriptor(disc, pbc) ==
    [type |-> "end",
     next_disc |-> IF Has4CSvcd(disc.type) THEN pbc.next_disc % 256 ELSE 0,
     itemid |-> IF Has4CSvcd(disc.type) THEN ItemNumbers(disc, pbc) ELSE <<>>]

Descriptor(disc, pbc_list, pbc, extended) ==
    IF pbc.kind = "playlist" THEN PlaylistDescriptor(disc, pbc_list, pbc, extended)
    ELSE IF pbc.kind = "selection" THEN SelectionDescriptor(disc, pbc_list, pbc, extended)
    ELSE EndDescriptor(disc, pbc)
=============================================================================
