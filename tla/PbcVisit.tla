------------------------------- MODULE PbcVisit -------------------------------
(***************************************************************************)
(* info_private.c and inf.c: how a reader finds the lists of a PSD.  It    *)
(* starts from the offsets in the LOT and follows the offsets in the       *)
(* descriptors, depth first; what it has found it keeps in an offset list, *)
(* which is sorted by LID at the end.  vcd_xml_rip.c holds a copy of the   *)
(* same code.                                                              *)
(*                                                                         *)
(* A visit has a context [psd, psd_size, lot, extended]; a call of         *)
(* vcdinf_visit_pbc is a record [lid, offset, in_lot], LID 0 being unknown.*)
(***************************************************************************)
EXTENDS PbcLists

Special(offset) == offset \in {PSD_OFS_DISABLED, PSD_OFS_MULTI_DEF, PSD_OFS_MULTI_DEF_NO_NUM}

\* The calls a descriptor makes, in their order.
CallsOf(d) ==
    LET offsets ==
            IF d.type = "end" THEN <<>>
            ELSE IF d.type = "playlist" THEN <<d.prev_ofs, d.next_ofs, d.return_ofs>>
            ELSE <<d.prev_ofs, d.next_ofs, d.return_ofs, d.default_ofs, d.timeout_ofs>> \o d.ofs
    IN  [k \in DOMAIN offsets |-> [lid |-> 0, offset |-> offsets[k], in_lot |-> FALSE]]

\* A list that was visited before: what the caller knows of it is added.
SeenAgain(ofs, call) ==
    [ofs EXCEPT !.in_lot = @ \/ call.in_lot,
                !.lid = IF call.lid # 0 THEN call.lid ELSE @]

\* A list that is new.  The descriptor of an end list has no LID.
FoundList(ctx, call, d) ==
    [lid |-> IF call.lid # 0 \/ d.type = "end" THEN call.lid ELSE d.lid,
     offset |-> call.offset, in_lot |-> call.in_lot, ext |-> ctx.extended, type |-> d.type]

\* vcdinf_visit_pbc: the offset list after a call, the calls it makes, and whether it
\* went well.
VisitPbc(ctx, list, call) ==
    LET at == call.offset * INFO_OFFSET_MULT
        seen == SelectInSeq(list, LAMBDA ofs : ofs.offset = call.offset)
    IN  IF Special(call.offset) THEN [list |-> list, calls |-> <<>>, ok |-> TRUE]
        ELSE IF at >= ctx.psd_size \/ at \notin DOMAIN ctx.psd
        THEN [list |-> list, calls |-> <<>>, ok |-> FALSE]
        ELSE IF seen # 0
        THEN [list |-> [list EXCEPT ![seen] = SeenAgain(@, call)], calls |-> <<>>, ok |-> TRUE]
        ELSE [list |-> Append(list, FoundList(ctx, call, ctx.psd[at])),
              calls |-> CallsOf(ctx.psd[at]), ok |-> TRUE]

\* vcdinf_lid_t_cmp: by LID, the lists without one last; then by offset.
LidBefore(a, b) ==
    IF a.lid # b.lid THEN a.lid # 0 /\ (b.lid = 0 \/ a.lid < b.lid) ELSE a.offset < b.offset

\* _vcd_list_sort by it.
SortedByLid(list) == SortSeq(list, LidBefore)

\* vcdinf_update_offset_list, of a sorted list: the lists without a LID get the LIDs
\* behind the last.  The pool of LIDs that were skipped is asked before it is filled.
WithAllLids(list) ==
    LET known == {list[k].lid : k \in DOMAIN list}
        max_seen_lid == IF list = <<>> THEN 0 ELSE Max(known)
        without == {k \in DOMAIN list : list[k].lid = 0}
    IN  [k \in DOMAIN list |->
            IF k \in without
            THEN [list[k] EXCEPT !.lid = max_seen_lid + 1 + k - Min(without)]
            ELSE list[k]]

\* vcdinfo_get_wait_time: the seconds that a byte stands for, or -1 for no end.
WaitTime(wtime) ==
    IF wtime < 61 THEN wtime ELSE IF wtime < 255 THEN ((wtime - 60) * 10) + 60 ELSE -1
=============================================================================
