----------------------------- MODULE MCMastering -----------------------------
(***************************************************************************)
(* Model checking Mastering on two discs.  On a small one every area is    *)
(* there and has neighbours, an extent crosses none of them, and a         *)
(* callback falls in the middle of every phase.  A real one has the        *)
(* numbers of the code: the places of libvcd/files_private.h and of        *)
(* lib/vcd.c, the gaps of libcdio, one or two items on a disc of each      *)
(* kind, and directories on both sides of the sizes at which a disc has no *)
(* room for them.                                                          *)
(***************************************************************************)
EXTENDS Mastering

CONSTANTS s1, s2

-----------------------------------------------------------------------------
(* The small disc.                                                         *)

\* A stream with access points, one without them.
Moving == [packets |-> 3, plays |-> TRUE, invalid |-> 0,
           aps |-> <<[packet_no |-> 0, timestamp |-> 0], [packet_no |-> 2, timestamp |-> 4]>>]
Still == [packets |-> 1, plays |-> FALSE, invalid |-> 0, aps |-> <<>>]
MCSources == {Moving, Still}

MCArguments ==
    {<<"track_pregap", 0>>, <<"leadout_pregap", 9>>}

MCIds ==
    [sequence |-> {NoId}, default |-> {NoId}, entry |-> {NoId},
     segment |-> {s1, s2}, node |-> {NoId}, played |-> {NoId}]

MCMaxItems ==
    [sequences |-> 2, entries |-> 1, segments |-> 2, files |-> 2, pbc_list |-> 1, all |-> 3]

\* One sequence is enough to disagree with the documentation.
MCOneItem ==
    [sequences |-> 1, entries |-> 0, segments |-> 0, files |-> 0, pbc_list |-> 0, all |-> 1]

SegmentIdSymmetry == Permutations({s1, s2})

MCPsdBlocks(nodes) == 2
MCSearchBlocks(tracks) == tracks + 1
MCScandataBlocks(tracks) == tracks + 1

-----------------------------------------------------------------------------
(* The real disc.                                                          *)

\* A song, and a menu picture.
Song == [packets |-> 160, plays |-> TRUE, invalid |-> 0,
         aps |-> <<[packet_no |-> 0, timestamp |-> 0], [packet_no |-> 90, timestamp |-> 1]>>]
Picture == [packets |-> 20, plays |-> FALSE, invalid |-> 0, aps |-> <<>>]
RealSources == {Song, Picture}

RealIds ==
    [sequence |-> {NoId}, default |-> {NoId}, entry |-> {NoId},
     segment |-> {s1}, node |-> {NoId}, played |-> {NoId}]

RealMaxItems ==
    [sequences |-> 1, entries |-> 1, segments |-> 1, files |-> 1, pbc_list |-> 1, all |-> 3]

RealPsdBlocks(nodes) == 1
RealSearchBlocks(tracks) == 1
RealScandataBlocks(tracks) == 1

=============================================================================
