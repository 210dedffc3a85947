------------------------------- MODULE DiscTree -------------------------------
(***************************************************************************)
(* The filesystem of a disc: the directories and files vcd.c enters for a  *)
(* type of disc, those the user adds, the sizes it asks for and what it    *)
(* dumps.  One step is one call into directory.c.                          *)
(***************************************************************************)
EXTENDS Directory, TLC

CONSTANTS
    Discs,          \* what is mastered: the type ("svcd30" has the directory MPEGAV),
                    \* playback control, segments, sequences
    CustomDirs,     \* the paths the user may add
    CustomFiles,
    MaxCustom,      \* how many
    SegmentNames,   \* of the segment items and of the sequences
    SequenceNames,
    DIR_SECTOR      \* ISO_DIR_SECTOR

\* A VCD 1.1 has neither playback control nor segments.
ASSUME DiscsAssumption ==
    /\ DIR_SECTOR \in Nat
    /\ Discs \subseteq [type : {"vcd", "vcd2", "svcd", "svcd30"}, pbc : BOOLEAN,
                       segments : 0 .. Len(SegmentNames), sequences : 1 .. Len(SequenceNames)]
    /\ \A d \in Discs : d.type = "vcd" => ~d.pbc /\ d.segments = 0

\* The order of names covers the names that are used.
ASSUME PathsAssumption ==
    /\ SegmentNames \in Seq(ToSet(NameOrder))
    /\ SequenceNames \in Seq(ToSet(NameOrder))
    /\ CustomDirs \cup CustomFiles \subseteq Seq(ToSet(NameOrder)) \ {<<>>}
    /\ {"ENTRIES", "EXT", "INFO", "LOT", "LOT_X", "MPEG2", "MPEGAV", "PSD", "PSD_X", "SCANDATA",
        "SEARCH", "SEGMENT", "SVCD", "TRACKS", "VCD"} \subseteq ToSet(NameOrder)

VARIABLES
    disc,
    custom_dir_list, custom_file_list,
    calls,          \* what is left of _finalize_vcd_iso_track_filesystem
    dirs_size,      \* what _vcd_directory_get_size has returned
    phase

treeVars == <<nodes, dirbuf, ptl, disc, custom_dir_list, custom_file_list, calls, dirs_size, phase>>

TreeInit ==
    /\ DirectoryInit
    /\ disc \in Discs
    /\ custom_dir_list = <<>>
    /\ custom_file_list = <<>>
    /\ calls = <<>>
    /\ dirs_size = 0
    /\ phase = "build"

\* strcmp of two paths: a directory comes before what is in it.
Before(p, q) ==
    \/ IsStrictPrefix(p, q)
    \/ \E k \in DOMAIN p \cap DOMAIN q :
          /\ SubSeq(p, 1, k - 1) = SubSeq(q, 1, k - 1)
          /\ Rank(p[k]) < Rank(q[k])

\* Mutant: custom directories stay in the order in which they were added.
Sorted_not(paths) == paths

\* The list of the nodes 1 to n.
ListOf(n) ==
    [length |-> n, begin |-> IF n = 0 THEN NULL ELSE 1, end |-> n,
     next |-> [k \in 1 .. n |-> IF k = n THEN NULL ELSE k + 1]]

\* _vcd_list_sort with strcmp: the rank of a path is the number of those before it.
Sorted(paths) ==
    LET rank == [k \in DOMAIN paths |->
                   Cardinality({j \in DOMAIN paths : Before(paths[j], paths[k])})]
        order == Elements(SortList(ListOf(Len(paths)), rank))
    IN  [k \in DOMAIN paths |-> paths[order[k]]]

\* vcd_obj_add_dir
AddDir(path) ==
    /\ phase = "build"
    /\ Len(custom_dir_list) + Len(custom_file_list) < MaxCustom
    /\ custom_dir_list' = Sorted(Append(custom_dir_list, path))
    /\ UNCHANGED <<tree, disc, custom_file_list, calls, dirs_size, phase>>

\* vcd_obj_add_file
AddFile(path) ==
    /\ phase = "build"
    /\ Len(custom_dir_list) + Len(custom_file_list) < MaxCustom
    /\ custom_file_list' = Append(custom_file_list, path)
    /\ UNCHANGED <<tree, disc, custom_dir_list, calls, dirs_size, phase>>

Mkdirs(paths) == [k \in DOMAIN paths |-> [op |-> "mkdir", path |-> paths[k]]]
Mkfiles(paths) == [k \in DOMAIN paths |-> [op |-> "mkfile", path |-> paths[k]]]

When(condition, paths) == IF condition THEN paths ELSE <<>>

In(dir, names) == [k \in DOMAIN names |-> <<dir, names[k]>>]

Svcd(d) == d.type \in {"svcd", "svcd30"}
InfoDir(d) == IF Svcd(d) THEN "SVCD" ELSE "VCD"
MpegDir(d) == IF d.type = "svcd" THEN "MPEG2" ELSE "MPEGAV"

\* The directories of a type.
TypeDirs(d) ==
    LET segment == When(d.segments > 0, <<<<"SEGMENT">>>>)
    IN  IF Svcd(d) THEN <<<<"EXT">>, <<MpegDir(d)>>>> \o segment \o <<<<"SVCD">>>>
        ELSE <<<<"EXT">>, <<"MPEGAV">>, <<"VCD">>>> \o segment

\* The information files of a type.
TypeFiles(d) ==
    In(InfoDir(d), <<"ENTRIES", "INFO">> \o When(d.pbc, <<"LOT", "PSD">>)
                     \o When(Svcd(d), <<"SEARCH", "TRACKS">>))

SegmentFiles(d) == In("SEGMENT", SubSeq(SegmentNames, 1, d.segments))

\* The extended playback control of a VCD 2.0, the scan data of an SVCD.
ExtFiles(d) ==
    In("EXT", When(d.type = "vcd2" /\ d.pbc, <<"PSD_X", "LOT_X">>) \o When(Svcd(d), <<"SCANDATA">>))

SequenceFiles(d) == In(MpegDir(d), SubSeq(SequenceNames, 1, d.sequences))

\* What is there before the user's directories.
Fixed(d) == TypeDirs(d) \o TypeFiles(d) \o SegmentFiles(d) \o ExtFiles(d)

\* _finalize_vcd_iso_track_filesystem is entered, with a new directory.
BeginOutput ==
    /\ phase = "build"
    /\ calls' = Mkdirs(TypeDirs(disc))
                  \o Mkfiles(TypeFiles(disc) \o SegmentFiles(disc) \o ExtFiles(disc))
                  \o Mkdirs(custom_dir_list)
                  \o Mkfiles(custom_file_list \o SequenceFiles(disc))
    /\ phase' = "make"
    /\ UNCHANGED <<tree, disc, custom_dir_list, custom_file_list, dirs_size>>

Abort == phase' = "aborted" /\ UNCHANGED <<tree, calls>>

\* What is left once a call is done.
Called == calls' = Tail(calls) /\ UNCHANGED <<dirbuf, ptl, phase>>

\* mkdir makes the process abort where it cannot make the directory.
MkdirCall ==
    /\ phase = "make"
    /\ calls # <<>>
    /\ Head(calls).op = "mkdir"
    /\ LET path == Head(calls).path
       IN  \/ CanMkdir(nodes, path) /\ nodes' = Mkdir(nodes, path) /\ Called
           \/ ~CanMkdir(nodes, path) /\ Abort
    /\ UNCHANGED <<disc, custom_dir_list, custom_file_list, dirs_size>>

\* mkfile says that it failed, which nobody hears if the log handler returns; the
\* default one does not.  The file's extent stands for its place on the disc.
MkfileCall ==
    /\ phase = "make"
    /\ calls # <<>>
    /\ Head(calls).op = "mkfile"
    /\ LET path == Head(calls).path
           refused == Blocked(nodes, path) \/ Lookup(nodes, path) # NULL
       IN  \/ nodes' = Mkfile(nodes, path, 0, 1) /\ Called
           \/ refused /\ phase' = "exited" /\ UNCHANGED <<tree, calls>>
    /\ UNCHANGED <<disc, custom_dir_list, custom_file_list, dirs_size>>

\* The size of the directory area is asked for: update_sizes writes the sizes.
AskSize ==
    /\ phase = "make"
    /\ calls = <<>>
    /\ dirs_size' = GetSize(nodes)
    /\ nodes' = WithSizes(nodes)
    /\ phase' = "sized"
    /\ UNCHANGED <<dirbuf, ptl, disc, custom_dir_list, custom_file_list, calls>>

\* _write_vcd_iso_track: a record of what is below a file is written outside of the
\* directory area; what then happens is open.
WriteDirectory ==
    /\ phase = "sized"
    /\ \/ ~Outside(nodes) /\ DumpEntries(DIR_SECTOR) /\ phase' = "dumped"
       \/ Outside(nodes) /\ phase' = "lost" /\ UNCHANGED tree
    /\ UNCHANGED <<disc, custom_dir_list, custom_file_list, calls, dirs_size>>

WritePathtables ==
    /\ phase = "dumped"
    /\ DumpPathtables
    /\ phase' = "written"
    /\ UNCHANGED <<disc, custom_dir_list, custom_file_list, calls, dirs_size>>

TreeNext ==
    \/ \E path \in CustomDirs : AddDir(path)
    \/ \E path \in CustomFiles : AddFile(path)
    \/ BeginOutput
    \/ MkdirCall
    \/ MkfileCall
    \/ AskSize
    \/ WriteDirectory
    \/ WritePathtables

TreeSpec == TreeInit /\ [][TreeNext]_treeVars

-----------------------------------------------------------------------------
(* Properties.                                                             *)

\* The tree is a tree: every list of children is one a walk and an append may
\* trust, holds the nodes that have it for parent, and is in the order of names.
TreeTypeOK ==
    /\ phase \in {"build", "make", "sized", "dumped", "written", "aborted", "exited", "lost"}
    /\ dirs_size \in Nat
    /\ \A n \in DOMAIN nodes :
          /\ Sound(nodes[n].children)
          /\ ToSet(Children(nodes, n)) = {c \in DOMAIN nodes : nodes[c].parent = n}
          /\ \A k \in 2 .. nodes[n].children.length :
                Rank(nodes[Children(nodes, n)[k - 1]].name) < Rank(nodes[Children(nodes, n)[k]].name)

\* The order in which directories are added does not matter: begin_output aborts
\* only for one that is there already, is there twice, or is in one nobody adds.
OrderOfDirsFree ==
    phase = "aborted" =>
        LET path == Head(calls).path
        IN  \/ path \in ToSet(Fixed(disc))
            \/ \E j, k \in DOMAIN custom_dir_list : j # k /\ custom_dir_list[j] = custom_dir_list[k]
            \/ Front(path) \notin ToSet(custom_dir_list) \cup ToSet(Fixed(disc)) \cup {<<>>}

DirExtent(n) == nodes[n].extent .. nodes[n].extent + nodes[n].size \div ISO_BLOCKSIZE - 1

\* The extents of the directories are disjoint and fill exactly the area whose size
\* was asked for when the image was laid out.
DirectoriesPacked ==
    phase \in {"dumped", "written"} =>
        LET dirs == {n \in DOMAIN nodes : nodes[n].is_dir}
        IN  /\ UNION {DirExtent(n) : n \in dirs} = DIR_SECTOR .. DIR_SECTOR + dirs_size - 1
            /\ \A m, n \in dirs : m # n => DirExtent(m) \cap DirExtent(n) = {}

\* Every directory has room for its records, and none goes across a block: libcdio
\* aborts on the first, and a reader loses what is behind the second.
RecordsFit ==
    phase \in {"dumped", "written"} =>
        \A e \in DOMAIN dirbuf : \A k \in DOMAIN dirbuf[e].records :
            LET r == dirbuf[e].records[k]
            IN  /\ r.end <= dirbuf[e].size
                /\ r.at \div ISO_BLOCKSIZE = (r.end - 1) \div ISO_BLOCKSIZE

Level(n) == Len(PathOf(nodes, n))

\* The path tables are as ISO 9660 wants them: a directory for an entry, in the
\* order of levels, of parents and of names; the entry says where it is.
PathTablesOrdered ==
    phase = "written" =>
        LET at(k) == CHOOSE n \in DOMAIN nodes : nodes[n].is_dir /\ nodes[n].pt_id = k
        IN  /\ Len(ptl) = Cardinality({n \in DOMAIN nodes : nodes[n].is_dir})
            /\ \A k \in DOMAIN ptl :
                  /\ ptl[k].extent = nodes[at(k)].extent
                  /\ at(k) # Root => nodes[nodes[at(k)].parent].pt_id = ptl[k].parent
            /\ \A j, k \in DOMAIN ptl : 1 < j /\ j < k =>
                  \/ Level(at(j)) < Level(at(k))
                  \/ Level(at(j)) = Level(at(k)) /\ ptl[j].parent < ptl[k].parent
                  \/ /\ ptl[j].parent = ptl[k].parent
                     /\ Rank(ptl[j].name) < Rank(ptl[k].name)

\* The tree is a set of paths, and the reader who starts at the root's extent finds
\* that set.
Disc == INSTANCE PathSet WITH
    Paths <- CustomDirs \cup CustomFiles
               \cup UNION {ToSet(Fixed(d) \o SequenceFiles(d)) : d \in Discs},
    entries <- Tree(nodes),
    listing <- ReadBack(dirbuf, DIR_SECTOR)

ImplementsPathSet == Disc!Spec
=============================================================================
