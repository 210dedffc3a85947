------------------------------- MODULE VideocdXml -------------------------------
(***************************************************************************)
(* The description of a disc, videocd.xml: written by vcdxrip              *)
(* (frontends/xml/vcd_xml_dump.c), checked against videocd.dtd and read    *)
(* by vcdxbuild (vcd_xml_parse.c).                                         *)
(*                                                                         *)
(* A description is a record [type, segment_list, sequence_list, pbc_list].*)
(* The document is made of elements [name, props, text, children]: props   *)
(* are the attributes that are there, a text is a number.  The streams,    *)
(* which are files, stay with the elements that name them.                 *)
(***************************************************************************)
EXTENDS PbcLists

CONSTANT PRINT_UNIT     \* the millionth of a second that "%f" rounds to

ASSUME PrintAssumption == PRINT_UNIT \in Nat \ {0}

Printed(time) == ((time + (PRINT_UNIT \div 2)) \div PRINT_UNIT) * PRINT_UNIT

Element(name, props, text, children) ==
    [name |-> name, props |-> props, text |-> text, children |-> children]

Tag(name, props) == Element(name, props, 0, <<>>)
Text(name, text) == Element(name, <<>>, text, <<>>)

-----------------------------------------------------------------------------
(* vcd_xml_dump.c *)

\* _ref_area_helper
RefArea(name, id, area) ==
    IF id = NoId THEN <<>>
    ELSE <<Tag(name, [ref |-> id, x1 |-> area[1], y1 |-> area[2], x2 |-> area[3], y2 |-> area[4]])>>

RefOnly(name, id) == IF id = NoId THEN <<>> ELSE <<Tag(name, [ref |-> id])>>

\* An element that is there even if it leads nowhere.
RefOrEmpty(name, id) == Tag(name, IF id = NoId THEN <<>> ELSE [ref |-> id])

Optional(name, number) == IF number = 0 THEN <<>> ELSE <<Text(name, number)>>

\* A playlist.  A playing time is a number of fifteenths of a second, on which the six
\* digits it is printed with agree; the areas of a playlist are not set.
DumpedPlaylist(pbc) ==
    RefOnly("prev", pbc.prev) \o RefOnly("next", pbc.next) \o RefOnly("return", pbc.retn)
      \o Optional("playtime", pbc.playing_time)
      \o <<Text("wait", pbc.wait_time), Text("autowait", pbc.auto_pause_time)>>
      \o [k \in DOMAIN pbc.items |-> RefOrEmpty("play-item", pbc.items[k])]

DumpedDefault(pbc) ==
    IF pbc.selection_type = "normal" THEN RefArea("default", pbc.default, pbc.areas.default)
    ELSE <<Tag("multi-default",
               [numeric |-> IF pbc.selection_type = "multi" THEN "enabled" ELSE "disabled"])>>

DumpedSelect(id, area) ==
    IF id = NoId THEN Tag("select", <<>>) ELSE RefArea("select", id, area)[1]

DumpedSelection(pbc) ==
    <<Text("bsn", pbc.bsn)>>
      \o RefArea("prev", pbc.prev, pbc.areas.prev)
      \o RefArea("next", pbc.next, pbc.areas.next)
      \o RefArea("return", pbc.retn, pbc.areas.retn)
      \o DumpedDefault(pbc)
      \o RefOnly("timeout", pbc.timeout)
      \o <<Text("wait", pbc.wait_time),
           Element("loop", [jump_timing |-> IF pbc.jump_delayed THEN "delayed" ELSE "immediate"],
                   pbc.loop_count, <<>>)>>
      \o RefOnly("play-item", pbc.items[1])
      \o [k \in DOMAIN pbc.selects |-> DumpedSelect(pbc.selects[k], pbc.areas.selects[k])]

DumpedEnd(pbc) ==
    Optional("next-volume", pbc.next_disc)
      \o (IF pbc.items = <<>> THEN <<>> ELSE RefOnly("play-item", pbc.items[1]))

DumpedList(pbc) ==
    LET props == [id |-> pbc.id] @@ (IF pbc.rejected THEN [rejected |-> "true"] ELSE <<>>)
    IN  IF pbc.kind = "playlist" THEN Element("playlist", props, 0, DumpedPlaylist(pbc))
        ELSE IF pbc.kind = "selection" THEN Element("selection", props, 0, DumpedSelection(pbc))
        ELSE Element("endlist", props, 0, DumpedEnd(pbc))

DumpedPauses(pauses) == [k \in DOMAIN pauses |-> Text("auto-pause", Printed(pauses[k]))]

DumpedSegment(segment) ==
    Element("segment-item", [id |-> segment.id, src |-> segment.stream], 0,
            DumpedPauses(segment.autopause_list))

DumpedSequence(sequence) ==
    LET entries == sequence.entry_point_list
        default == IF sequence.default_entry_id = NoId THEN <<>>
                   ELSE <<Tag("default-entry", [id |-> sequence.default_entry_id])>>
    IN  Element("sequence-item", [id |-> sequence.id, src |-> sequence.stream], 0,
                default
                  \o [k \in DOMAIN entries |->
                        Element("entry", [id |-> entries[k].id], Printed(entries[k].timestamp), <<>>)]
                  \o DumpedPauses(sequence.autopause_list))

ClassVersion(type) ==
    [class |-> IF type = "SVCD" THEN "svcd" ELSE IF type = "HQVCD" THEN "hqvcd" ELSE "vcd",
     version |-> IF type = "VCD2" THEN "2.0" ELSE IF type = "VCD11" THEN "1.1" ELSE "1.0"]

\* _make_xml.  (Of options, the album, the volume and the file system nothing is said here.)
Dumped(description) ==
    LET section(name, list, Dump(_)) ==
            IF list = <<>> THEN <<>>
            ELSE <<Element(name, <<>>, 0, [k \in DOMAIN list |-> Dump(list[k])])>>
    IN  Element("videocd", ClassVersion(description.type), 0,
                section("segment-items", description.segment_list, DumpedSegment)
                  \o <<Element("sequence-items", <<>>, 0,
                               [k \in DOMAIN description.sequence_list |->
                                   DumpedSequence(description.sequence_list[k])])>>
                  \o section("pbc", description.pbc_list, DumpedList))

-----------------------------------------------------------------------------
(* videocd.dtd *)

\* All elements of a document: it is three levels deep.
AllElements(document) ==
    LET level1 == ToSet(document.children)
        level2 == UNION {ToSet(element.children) : element \in level1}
    IN  level1 \cup level2 \cup UNION {ToSet(element.children) : element \in level2}

IdsOf(element) == IF "id" \in DOMAIN element.props THEN {element.props.id} ELSE {}

\* The elements that have an id, in their order.
Items(document) == FlattenSeq([k \in DOMAIN document.children |-> document.children[k].children])

\* What the parser of libxml checks: an ID is the only one of its name, an IDREF has its
\* ID, and elements have the children they need.
Valid(document) ==
    LET elements == AllElements(document)
        items == FlattenSeq([k \in DOMAIN Items(document) |->
                                <<Items(document)[k]>> \o Items(document)[k].children])
        ids == UNION {IdsOf(element) : element \in elements}
    IN  /\ Cardinality({k \in DOMAIN items : IdsOf(items[k]) # {}}) = Cardinality(ids)
        /\ \A element \in elements :
              /\ "ref" \in DOMAIN element.props => element.props.ref \in ids
              /\ element.name = "playlist" => \E item \in ToSet(element.children) : item.name = "play-item"
              /\ element.name = "sequence-items" => element.children # <<>>

-----------------------------------------------------------------------------
(* vcd_xml_parse.c *)

Named(children, name) == SelectSeq(children, LAMBDA element : element.name = name)

\* GET_PROP_STR, of the last element of a name.
PropOf(element, prop, none) == IF prop \in DOMAIN element.props THEN element.props[prop] ELSE none

Ref(children, name) ==
    LET elements == Named(children, name)
    IN  IF elements = <<>> THEN NoId ELSE PropOf(Last(elements), "ref", NoId)

\* _get_elem_long, _get_elem_double
Number(children, name, default) ==
    LET elements == Named(children, name)
    IN  IF elements = <<>> THEN default ELSE Last(elements).text

\* _get_area_props
AreaProps(element) ==
    [k \in 1 .. 4 |-> PropOf(element, <<"x1", "y1", "x2", "y2">>[k], 0)]

AreaOf(children, name) ==
    LET elements == Named(children, name)
    IN  IF elements = <<>> THEN NoArea ELSE AreaProps(Last(elements))

\* _parse_common_pbcattrs, of a list that is new.
ParsedAttrs(element, kind) ==
    [NewPbc(kind) EXCEPT !.id = PropOf(element, "id", NoId),
                         !.rejected = PropOf(element, "rejected", "false") = "true"]

\* _parse_pbc_playlist
ParsedPlaylist(element) ==
    LET children == element.children
        items == Named(children, "play-item")
    IN  [ParsedAttrs(element, "playlist") EXCEPT
            !.prev = Ref(children, "prev"), !.next = Ref(children, "next"),
            !.retn = Ref(children, "return"),
            !.playing_time = Number(children, "playtime", 0),
            !.wait_time = Number(children, "wait", 0),
            !.auto_pause_time = Number(children, "autowait", 0),
            !.items = [k \in DOMAIN items |-> PropOf(items[k], "ref", NoId)]]

ParsedSelectionType(children) ==
    LET multi == Named(children, "multi-default")
    IN  IF multi = <<>> THEN "normal"
        ELSE IF PropOf(Last(multi), "numeric", "enabled") = "disabled" THEN "multi_no_num"
        ELSE "multi"

\* The areas of a selection: that of the default is not read.
ParsedAreas(children) ==
    LET selects == Named(children, "select")
    IN  [prev |-> AreaOf(children, "prev"), next |-> AreaOf(children, "next"),
         retn |-> AreaOf(children, "return"), default |-> NoArea,
         selects |-> [k \in DOMAIN selects |-> AreaProps(selects[k])]]

\* _parse_pbc_selection
ParsedSelection(element) ==
    LET children == element.children
        selects == Named(children, "select")
        loop == Named(children, "loop")
    IN  [ParsedAttrs(element, "selection") EXCEPT
            !.bsn = Number(children, "bsn", 1),
            !.prev = Ref(children, "prev"), !.next = Ref(children, "next"),
            !.retn = Ref(children, "return"), !.default = Ref(children, "default"),
            !.timeout = Ref(children, "timeout"), !.wait_time = Number(children, "wait", 0),
            !.loop_count = Number(children, "loop", 1),
            !.jump_delayed = loop # <<>> /\ PropOf(Last(loop), "jump_timing", "immediate") = "delayed",
            !.selection_type = ParsedSelectionType(children),
            !.items = <<Ref(children, "play-item")>>,
            !.selects = [k \in DOMAIN selects |-> PropOf(selects[k], "ref", NoId)],
            !.areas = ParsedAreas(children)]

\* _parse_pbc_endlist
ParsedEnd(element) ==
    LET image == Ref(element.children, "play-item")
    IN  [ParsedAttrs(element, "end") EXCEPT
            !.next_disc = Number(element.children, "next-volume", 0),
            !.items = IF image = NoId THEN <<>> ELSE <<image>>]

\* _parse_pbc
ParsedList(element) ==
    IF element.name = "playlist" THEN ParsedPlaylist(element)
    ELSE IF element.name = "selection" THEN ParsedSelection(element)
    ELSE ParsedEnd(element)

Texts(children, name) ==
    LET elements == Named(children, name) IN [k \in DOMAIN elements |-> elements[k].text]

\* _parse_mpeg_segment
ParsedSegment(element) ==
    [id |-> element.props.id, stream |-> element.props.src,
     autopause_list |-> Texts(element.children, "auto-pause")]

\* _parse_mpeg_sequence
ParsedSequence(element) ==
    LET default == Named(element.children, "default-entry")
        entries == Named(element.children, "entry")
    IN  [id |-> element.props.id, stream |-> element.props.src,
         default_entry_id |-> IF default = <<>> THEN NoId ELSE Last(default).props.id,
         entry_point_list |-> [k \in DOMAIN entries |->
                                  [id |-> entries[k].props.id, timestamp |-> entries[k].text]],
         autopause_list |-> Texts(element.children, "auto-pause")]

\* _type_id_by_str
TypeIdByStr(class, version) ==
    IF <<class, version>> = <<"vcd", "1.0">> THEN "VCD"
    ELSE IF <<class, version>> = <<"vcd", "1.1">> THEN "VCD11"
    ELSE IF <<class, version>> = <<"vcd", "2.0">> THEN "VCD2"
    ELSE IF <<class, version>> = <<"svcd", "1.0">> THEN "SVCD"
    ELSE IF <<class, version>> = <<"hqvcd", "1.0">> THEN "HQVCD"
    ELSE "invalid"

\* _parse_videocd
ParsedXml(document) ==
    LET section(name, Parse(_)) ==
            LET elements == FlattenSeq([k \in DOMAIN Named(document.children, name) |->
                                           Named(document.children, name)[k].children])
            IN  [k \in DOMAIN elements |-> Parse(elements[k])]
    IN  [type |-> TypeIdByStr(document.props.class, document.props.version),
         segment_list |-> section("segment-items", ParsedSegment),
         sequence_list |-> section("sequence-items", ParsedSequence),
         pbc_list |-> section("pbc", ParsedList)]
=============================================================================
