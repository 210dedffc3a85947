-------------------------------- MODULE MCSinks --------------------------------
(***************************************************************************)
(* Model checking ImageSink: all three sinks on discs of one to three      *)
(* tracks behind the ISO track, with and without entry points, margins     *)
(* between them of different length.                                       *)
(***************************************************************************)
EXTENDS ImageSink

MCTracks ==
    [pregap : {1, 2}, length : {3}, entries : {<<>>, <<0>>, <<1, 2>>}]

Track(entries) == [pregap |-> 1, length |-> 2, entries |-> entries]

\* Discs of all shapes, one of three tracks, one with all the entry points a track
\* may have, two of them at one access point.
MCDiscs ==
    [iso : {2, 3}, leadout : {0, 2}, tracks : SeqOf(MCTracks, 2) \ {<<>>}]
      \cup {[iso |-> 2, leadout |-> 0, tracks |-> <<Track(<<>>), Track(<<>>), Track(<<1>>)>>],
            [iso |-> 2, leadout |-> 1, tracks |-> <<Track(<<0, 1, 1>>)>>],
            [iso |-> 2, leadout |-> 1, tracks |-> <<Track(<<>>), Track(<<>>), Track(<<>>)>>]}

=============================================================================
