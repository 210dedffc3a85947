------------------------------- MODULE Directory -------------------------------
(***************************************************************************)
(* directory.c: the tree of the ISO 9660 filesystem, and what is dumped of *)
(* it into the directory extents and the path tables.  A node is a number, *)
(* the root is 1; children hang on linked lists that a bubble sort keeps   *)
(* in the order of their names.                                            *)
(***************************************************************************)
EXTENDS LinkedLists, Blocks, FiniteSets, SequencesExt

CONSTANTS
    NameOrder,      \* the names, in the order of strcmp
    ISO_BLOCKSIZE,
    DotSize,        \* the size of the records "." and ".."
    RecordSize      \* a function: the size of the record of a directory by its name

VERSION_SIZE == 1   \* what iso9660_pathname_isofy adds to the name of a file: ";1"

ASSUME DirectoryAssumption ==
    /\ NameOrder \in Seq(STRING)
    /\ IsInjective(NameOrder)
    /\ DotSize \in Nat \ {0}
    /\ ISO_BLOCKSIZE \in Nat \ {0}
    /\ \A k \in DOMAIN NameOrder :
          RecordSize[NameOrder[k]] \in 1 .. ISO_BLOCKSIZE - VERSION_SIZE

VARIABLES
    nodes,          \* the tree: data_t and the links of data_structures.c
    dirbuf,         \* by extent: the records of the directory that begins there
    ptl             \* the entries of the path tables

tree == <<nodes, dirbuf, ptl>>

Root == 1

NewNode(parent, is_dir, name, extent, size) ==
    [parent |-> parent, is_dir |-> is_dir, name |-> name, extent |-> extent, size |-> size,
     pt_id |-> 0, children |-> NewList]

\* _vcd_directory_new
DirectoryInit ==
    /\ nodes = [n \in {Root} |-> NewNode(NULL, TRUE, "", 0, 0)]
    /\ dirbuf = <<>>
    /\ ptl = <<>>

Children(t, n) == Elements(t[n].children)

\* lookup_child: the node, or NULL.
LookupChild(t, n, name) ==
    LET found == {c \in DOMAIN t : t[c].parent = n /\ t[c].name = name}
    IN  IF n = NULL \/ found = {} THEN NULL ELSE Min(found)

\* The node at a path, by its lookups from the root on.
Lookup(t, path) ==
    FoldLeft(LAMBDA n, name : LookupChild(t, n, name), Root, path)

Rank(name) == CHOOSE k \in DOMAIN NameOrder : NameOrder[k] = name

\* _vcd_tree_node_append_child, and _vcd_tree_node_sort_children with _iso_dir_cmp.
AddChild(t, n, node) ==
    LET c == Cardinality(DOMAIN t) + 1
        with == [k \in DOMAIN t \cup {c} |-> IF k = c THEN node ELSE t[k]]
        rank == [k \in DOMAIN with \ {1} |-> Rank(with[k].name)]
    IN  [with EXCEPT ![n].children = SortList(ListAppend(@, c), rank)]

-----------------------------------------------------------------------------
(* The tree.                                                               *)

\* _vcd_directory_mkdir: any node will do as the parent, a file too.
CanMkdir(t, path) == Lookup(t, Front(path)) # NULL /\ Lookup(t, path) = NULL

Mkdir(t, path) == AddChild(t, Lookup(t, Front(path)), NewNode(Lookup(t, Front(path)), TRUE, Last(path), 0, 0))

\* Mutant: a file may be a directory.
Blocked_never(t, path) == FALSE

\* _vcd_directory_mkfile refuses a path through a file.
Blocked(t, path) ==
    \E k \in 1 .. Len(path) - 1 :
        LET n == Lookup(t, SubSeq(path, 1, k)) IN n # NULL /\ ~t[n].is_dir

\* The directories that are missing are made, the ones above first.
WithParent(t, up) == IF CanMkdir(t, up) THEN Mkdir(t, up) ELSE t

WithParents(t, path) == FoldLeft(WithParent, t, [k \in 1 .. Len(path) - 1 |-> SubSeq(path, 1, k)])

\* _vcd_directory_mkfile: what it made is kept when it fails.
Mkfile(t, path, start, size) ==
    LET u == WithParents(t, path)
        pdir == Lookup(u, Front(path))
    IN  IF Blocked(t, path) THEN t
        ELSE IF Lookup(u, path) # NULL THEN u
        ELSE AddChild(u, pdir, NewNode(pdir, FALSE, Last(path), start, size))

-----------------------------------------------------------------------------
(* Its layout.                                                             *)

\* _vcd_tree_node_traverse: the nodes from n on, a parent before its children.
Traverse(t, n) ==
    LET below[m \in DOMAIN t] ==
          <<m>> \o FlattenSeq([k \in DOMAIN Children(t, m) |-> below[Children(t, m)[k]]])
    IN  below[n]

\* The size of the record of a node: iso9660_dir_calc_record_size.
RecLen(node) == RecordSize[node.name] + IF node.is_dir THEN 0 ELSE VERSION_SIZE

\* traverse_update_sizes
SizeOf(t, n) ==
    Ceil2Block(FoldLeft(LAMBDA offset, c : OfsAdd(offset, RecLen(t[c]), ISO_BLOCKSIZE),
                        DotSize + DotSize, Children(t, n)),
               ISO_BLOCKSIZE)

\* update_sizes
WithSizes(t) == [n \in DOMAIN t |-> IF t[n].is_dir THEN [t[n] EXCEPT !.size = SizeOf(t, n)] ELSE t[n]]

\* get_dirsizes: the blocks of the directories from n on.
DirBlocks(node) == IF node.is_dir THEN node.size \div ISO_BLOCKSIZE ELSE 0

DirSizes(t, n) == FoldLeft(LAMBDA sum, m : sum + DirBlocks(t[m]), 0, Traverse(t, n))

\* _vcd_directory_get_size
GetSize(t) == DirSizes(WithSizes(t), Root)

\* Mutant: a directory is given room for itself, not for the ones in it.
RoomFor_itself(t, n) == t[n].size \div ISO_BLOCKSIZE

\* What follows a directory begins behind all that is below it.
RoomFor(t, n) == DirSizes(t, n)

\* traverse_update_dirextents: the directories in n follow n, one behind the other.
WithExtent(s, c) ==
    IF s.t[c].is_dir THEN [t |-> [s.t EXCEPT ![c].extent = s.at], at |-> s.at + RoomFor(s.t, c)] ELSE s

WithExtentsIn(t, n) ==
    IF t[n].is_dir
    THEN FoldLeft(WithExtent, [t |-> t, at |-> t[n].extent + t[n].size \div ISO_BLOCKSIZE], Children(t, n)).t
    ELSE t

\* update_dirextents
WithExtents(t, extent) ==
    FoldLeft(WithExtentsIn, [t EXCEPT ![Root].extent = extent], Traverse(t, Root))

-----------------------------------------------------------------------------
(* What is dumped.                                                         *)

\* A child of what is no directory: its record goes to a place that is none.
Outside(t) == \E n \in DOMAIN t \ {Root} : ~t[t[n].parent].is_dir

\* iso9660_dir_init_new_su: an empty directory with "." and "..".
EmptyDir(size, parent_extent) ==
    [size |-> size, parent |-> parent_extent, used |-> 2 * DotSize, records |-> <<>>]

\* iso9660_dir_add_entry_su: behind the last record, in one block.
WithEntry(dir, node) ==
    LET end == OfsAdd(dir.used, RecLen(node), ISO_BLOCKSIZE)
    IN  [dir EXCEPT !.used = end,
                    !.records = Append(@, [name |-> node.name, is_dir |-> node.is_dir,
                                           extent |-> node.extent, size |-> node.size,
                                           at |-> end - RecLen(node), end |-> end])]

\* traverse_vcd_directory_dump_entries: a record in the parent, and a directory to
\* put the children's records into.
DumpedNode(t, buf, n) ==
    LET up == IF n = Root THEN Root ELSE t[n].parent
        named == IF n = Root THEN buf
                 ELSE [e \in DOMAIN buf |-> IF e = t[up].extent THEN WithEntry(buf[e], t[n])
                                            ELSE buf[e]]
        empty == EmptyDir(t[n].size, t[up].extent)
    IN  IF t[n].is_dir
        THEN [e \in DOMAIN buf \cup {t[n].extent} |-> IF e = t[n].extent THEN empty ELSE named[e]]
        ELSE named

\* _vcd_directory_dump_entries
DumpEntries(extent) ==
    /\ nodes' = WithExtents(WithSizes(nodes), extent)
    /\ dirbuf' = FoldLeft(LAMBDA buf, n : DumpedNode(nodes', buf, n), <<>>, Traverse(nodes', Root))
    /\ UNCHANGED ptl

\* Mutant: the last child that was put into the queue is taken first.
TraverseBf_stack(t) ==
    LET turn[k \in 0 .. Cardinality(DOMAIN t)] ==
          IF k = 0 THEN [queue |-> <<Root>>, order |-> <<>>]
          ELSE LET s == turn[k - 1]
                   n == Head(s.queue)
               IN  [queue |-> Reverse(Children(t, n)) \o Tail(s.queue), order |-> Append(s.order, n)]
    IN  turn[Cardinality(DOMAIN t)].order

\* A turn of the loop: taken from the end of the queue, children put before its
\* beginning, until the queue is empty.
TurnBf(t, s) ==
    IF s.queue = <<>> THEN s
    ELSE [queue |-> Reverse(Children(t, Last(s.queue))) \o Front(s.queue),
          order |-> Append(s.order, Last(s.queue))]

\* _vcd_tree_node_traverse_bf, which comes to every node once.
TraverseBf(t) ==
    LET turn[k \in 0 .. Cardinality(DOMAIN t)] ==
          IF k = 0 THEN [queue |-> <<Root>>, order |-> <<>>] ELSE TurnBf(t, turn[k - 1])
    IN  turn[Cardinality(DOMAIN t)].order

\* _dump_pathtables_helper: the entry's number is the directory's.
WithTableEntry(s, n) ==
    IF s.t[n].is_dir
    THEN [table |-> Append(s.table, [name |-> s.t[n].name, extent |-> s.t[n].extent,
                                     parent |-> IF n = Root THEN 1 ELSE s.t[s.t[n].parent].pt_id]),
          t |-> [s.t EXCEPT ![n].pt_id = Len(s.table) + 1]]
    ELSE s

\* _vcd_directory_dump_pathtables
DumpPathtables ==
    LET s == FoldLeft(WithTableEntry, [table |-> <<>>, t |-> nodes],
                      TraverseBf(nodes))
    IN  /\ ptl' = s.table
        /\ nodes' = s.t
        /\ UNCHANGED dirbuf

-----------------------------------------------------------------------------
(* What a reader of the disc finds.                                        *)

\* The path of a node.
PathOf(t, n) ==
    LET path[k \in 0 .. Cardinality(DOMAIN t), m \in DOMAIN t] ==
          IF m = Root \/ k = 0 THEN <<>> ELSE Append(path[k - 1, t[m].parent], t[m].name)
    IN  path[Cardinality(DOMAIN t), n]

Tree(t) == {[path |-> PathOf(t, n), is_dir |-> t[n].is_dir] : n \in DOMAIN t \ {Root}}

\* All that is found from the directory at root on, one level after the other.
ReadBack(buf, root) ==
    LET found[k \in 0 .. Cardinality(DOMAIN buf)] ==
          IF k = 0
          THEN {[path |-> <<>>, is_dir |-> TRUE, extent |-> root]}
          ELSE UNION {{[path |-> Append(d.path, r.name), is_dir |-> r.is_dir, extent |-> r.extent] :
                          r \in ToSet(buf[d.extent].records)} :
                      d \in {e \in found[k - 1] : e.is_dir /\ e.extent \in DOMAIN buf}}
    IN  {[path |-> e.path, is_dir |-> e.is_dir] :
            e \in UNION {found[k] : k \in 1 .. Cardinality(DOMAIN buf)}}
=============================================================================
