----------------------------- MODULE MCLimits -----------------------------
(***************************************************************************)
(* Model checking Mastering at the limits of the code: one item of a kind  *)
(* more than it accepts, a broken stream, the smallest and the largest     *)
(* directory, an image too big for a disc, a second image of an object.    *)
(***************************************************************************)
EXTENDS Mastering

CONSTANTS a, b      \* ids

\* A stream with access points, and one that is broken behind its first packet.
Moving == [packets |-> 4, plays |-> TRUE, invalid |-> 0,
           aps |-> <<[packet_no |-> 0, timestamp |-> 0], [packet_no |-> 1, timestamp |-> 3],
                     [packet_no |-> 3, timestamp |-> 9]>>]
Broken == [packets |-> 2, plays |-> TRUE, invalid |-> 2,
           aps |-> <<[packet_no |-> 0, timestamp |-> 1]>>]
MCSources == {Moving, Broken}

MCIds ==
    [sequence |-> {NoId}, default |-> {NoId}, entry |-> {NoId},
     segment |-> {a, b}, node |-> {a}, played |-> {NoId}]

MCMaxItems ==
    [sequences |-> 2, entries |-> 2, segments |-> 2, files |-> 0, pbc_list |-> 1, all |-> 2]

MCPsdBlocks(nodes) == 2
MCSearchBlocks(tracks) == tracks + 1
MCScandataBlocks(tracks) == tracks + 1

=============================================================================
