-------------------------------- MODULE PbcRip --------------------------------
(***************************************************************************)
(* The part of frontends/xml/vcd_xml_rip.c that turns the PSD of a disc    *)
(* back into lists with ids: vcdxrip.  Ids are made of the kind of a list  *)
(* and of its number among those of its kind; here they are pairs.         *)
(***************************************************************************)
EXTENDS PbcVisit

KindOf(type) == IF type = "ext_selection" THEN "selection" ELSE type

\* _ofs2id: the id of the list at an offset; one that was not found has an id that no
\* list has.
OfsId(list, offset) ==
    LET at == SelectInSeq(list, LAMBDA ofs : ofs.offset = offset)
        kind == KindOf(list[at].type)
        number == Cardinality({k \in 1 .. at : KindOf(list[k].type) = kind})
    IN  IF offset = PSD_OFS_DISABLED THEN NoId
        ELSE IF at = 0 THEN <<"unknown-offset", offset>>
        ELSE <<kind, number>>

\* vcdinfo_classify_itemid: what an item number means, counted from 0, a track from 1.
ClassifyItemid(itemid) ==
    IF itemid < 2 THEN [type |-> "notfound", num |-> itemid]
    ELSE IF itemid < MIN_ENCODED_TRACK_NUM THEN [type |-> "track", num |-> itemid - 1]
    ELSE IF itemid < 600 THEN [type |-> "entry", num |-> itemid - MIN_ENCODED_TRACK_NUM]
    ELSE IF itemid < MIN_ENCODED_SEGMENT_NUM THEN [type |-> "lid", num |-> itemid]
    ELSE IF itemid <= MAX_ENCODED_SEGMENT_NUM
    THEN [type |-> "segment", num |-> itemid - MIN_ENCODED_SEGMENT_NUM]
    ELSE [type |-> "spareid2", num |-> itemid]

\* _pin2id
PinId(itemid) ==
    LET item == ClassifyItemid(itemid)
    IN  IF item.type = "track" THEN <<"sequence", item.num - 1>>
        ELSE IF item.type \in {"entry", "segment"} THEN <<item.type, item.num>>
        ELSE NoId

SelectionType(d) ==
    IF d.default_ofs = PSD_OFS_MULTI_DEF THEN "multi"
    ELSE IF d.default_ofs = PSD_OFS_MULTI_DEF_NO_NUM THEN "multi_no_num"
    ELSE "normal"

\* The areas of a selection list that was written without.
NoAreas(d) ==
    [prev |-> NoArea, next |-> NoArea, retn |-> NoArea, default |-> NoArea,
     selects |-> [k \in DOMAIN d.ofs |-> NoArea]]

\* _pbc_node_read, by kind of list.  An end list plays the picture it has, or none.
PlaylistRead(d, list) ==
    [prev |-> OfsId(list, d.prev_ofs), next |-> OfsId(list, d.next_ofs),
     retn |-> OfsId(list, d.return_ofs),
     playing_time |-> d.ptime * 2,
     wait_time |-> WaitTime(d.wtime), auto_pause_time |-> WaitTime(d.atime)]

SelectionRead(d, list) ==
    [bsn |-> d.bsn,
     prev |-> OfsId(list, d.prev_ofs), next |-> OfsId(list, d.next_ofs),
     retn |-> OfsId(list, d.return_ofs),
     selection_type |-> SelectionType(d),
     default |-> IF SelectionType(d) = "normal" THEN OfsId(list, d.default_ofs) ELSE NoId,
     timeout |-> OfsId(list, d.timeout_ofs), wait_time |-> WaitTime(d.wtime),
     jump_delayed |-> d.loop.delayed, loop_count |-> d.loop.count,
     selects |-> [k \in DOMAIN d.ofs |-> OfsId(list, d.ofs[k])],
     areas |-> IF d.has_areas THEN d.areas ELSE NoAreas(d)]

EndRead(d) == [next_disc |-> d.next_disc]

\* _pbc_node_read: the list at ofs.
PbcNodeRead(psd, list, ofs) ==
    LET d == psd[ofs.offset * INFO_OFFSET_MULT]
        head == [id |-> OfsId(list, ofs.offset), kind |-> KindOf(d.type), rejected |-> ~ofs.in_lot,
                 items |-> [k \in DOMAIN d.itemid |-> PinId(d.itemid[k])]]
        read == IF head.kind = "playlist" THEN PlaylistRead(d, list)
                ELSE IF head.kind = "selection" THEN SelectionRead(d, list)
                ELSE EndRead(d)
    IN  head @@ read @@ NewPbc(head.kind)

\* _parse_pbc, at its end: the lists of the disc, in the order of their LIDs.
RippedLists(psd, list) == [k \in DOMAIN list |-> PbcNodeRead(psd, list, list[k])]
=============================================================================
