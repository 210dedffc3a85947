-------------------------------- MODULE MCTree --------------------------------
(***************************************************************************)
(* Model checking DiscTree: all types of disc, and up to three directories *)
(* and files of the user, which may be in each other, missing a            *)
(* parent, or be there already.  Names stand for names with an extension;  *)
(* three or four records fill a block.                                     *)
(***************************************************************************)
EXTENDS DiscTree

MCDiscs ==
    {[type |-> "vcd", pbc |-> FALSE, segments |-> 0, sequences |-> 2],
     [type |-> "vcd2", pbc |-> TRUE, segments |-> 1, sequences |-> 1],
     [type |-> "svcd", pbc |-> FALSE, segments |-> 0, sequences |-> 1],
     [type |-> "svcd30", pbc |-> TRUE, segments |-> 1, sequences |-> 1]}

MCNameOrder ==
    <<"A", "AVSEQ01", "AVSEQ02", "ENTRIES", "EXT", "INFO", "ITEM0001", "LOT", "LOT_X", "MPEG2",
      "MPEGAV", "PSD", "PSD_X", "SCANDATA", "SEARCH", "SEGMENT", "SVCD", "TRACKS", "VCD", "Z">>

MCRecordSize == [name \in ToSet(MCNameOrder) |-> IF name \in {"A", "Z", "INFO"} THEN 2 ELSE 3]

MCSegmentNames == <<"ITEM0001">>
MCSequenceNames == <<"AVSEQ01", "AVSEQ02">>

MCCustomDirs ==
    {<<"A">>, <<"A", "Z">>, <<"Z">>, <<"VCD", "A">>, <<"EXT">>, <<"VCD", "INFO">>, <<"VCD", "INFO", "Z">>}

MCCustomFiles ==
    {<<"A">>, <<"A", "A">>, <<"Z", "A", "A">>, <<"SVCD", "INFO">>, <<"VCD", "INFO", "A">>,
     <<"MPEGAV", "AVSEQ01">>}
=============================================================================
