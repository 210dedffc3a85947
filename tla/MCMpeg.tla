-------------------------------- MODULE MCMpeg --------------------------------
(***************************************************************************)
(* Model checking MpegSource: all streams of up to three packs, and some   *)
(* longer ones.  A sector is 6 units and a start code 2, so that a pack of *)
(* 4 units is padded, and one of 5 has the start code of the next cut off. *)
(***************************************************************************)
EXTENDS MpegSource

Pack == [code |-> "pack", len |-> 2, version |-> 2]
Pack1 == [code |-> "pack", len |-> 2, version |-> 1]
System == [code |-> "system", len |-> 2, ids |-> {"e1"}]
ProgramEnd == [code |-> "end", len |-> 2]
Zero(len) == [code |-> "zero", len |-> len]
Junk == [code |-> "junk", len |-> 2]

Video(id, len, pts, heads) == [code |-> "pes", len |-> len, id |-> id, pts |-> pts, heads |-> heads]
Audio(len, pts) == Video("c0", len, pts, <<>>)

Point(pts) == <<Pack, Video("e0", 4, pts, <<"sequence", "scan", "gop", "I">>)>>
Picture(pts) == <<Pack, Video("e0", 2, pts, <<"scan", "P">>)>>

\* Packs with access points and between them, in and out of order of time; audio;
\* short ones, one that is cut off, zeros, and what is no pack.
MCPacks ==
    {Point(0), Point(4), Point(8),
     <<Pack, Video("e0", 4, 4, <<"I">>)>>,
     Picture(6), Picture(NoPts),
     <<Pack, Audio(2, 2), Video("e0", 2, NoPts, <<"gop", "I">>)>>,
     <<Pack, Audio(3, 9)>>,
     <<Pack, System>>,
     <<Zero(6)>>,
     <<Junk>>}

MCStreams ==
    {FlattenSeq(packs) : packs \in SeqOf(MCPacks, 3)}
      \cup {FlattenSeq(<<Point(0), Picture(NoPts), Point(4), Picture(6), Point(8)>>),
            FlattenSeq(<<Point(2), Point(4), Point(6), Picture(NoPts), Picture(7)>>),
            <<Pack1, Video("e1", 4, 3, <<"sequence", "gop", "I">>), ProgramEnd, Zero(4)>>,
            <<Pack, Video("e2", 4, 3, <<"stuffing", "sequence", "gop", "I", "scan">>), Pack,
              Video("ogt0", 4, 3, <<>>), Pack, Video("be", 4, NoPts, <<>>)>>,
            <<Pack, Video("e0", 6, 3, <<"sequence", "gop", "I">>)>>}

MCFiles == {Stream(elements) : elements \in MCStreams}

=============================================================================
