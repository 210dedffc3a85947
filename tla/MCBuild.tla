-------------------------------- MODULE MCBuild --------------------------------
(***************************************************************************)
(* Model checking the calls that fill the object: ids given twice, in      *)
(* every order of the calls, to a disc with one track more than the lookup *)
(* of ids accepts, and entry points added out of order.                    *)
(***************************************************************************)
EXTENDS VcdObj

CONSTANTS a, b      \* ids

Moving == [packets |-> 3, plays |-> TRUE, invalid |-> 0,
           aps |-> <<[packet_no |-> 0, timestamp |-> 0]>>]

MCSources == {Moving}

MCArguments ==
    {<<"track_pregap", 0>>, <<"track_rear_margin", 1>>}

MCIds ==
    [sequence |-> {NoId, a}, default |-> {NoId, b}, entry |-> {NoId, a},
     segment |-> {a, b}, node |-> {a}, played |-> {NoId, b}]

MCMaxItems ==
    [sequences |-> 3, entries |-> 2, segments |-> 1, files |-> 1, pbc_list |-> 1, all |-> 3]

=============================================================================
