# Verification of vcdimager

VCDImager turns MPEG streams into Video CD and Super Video CD images and reads
them back.  This directory holds TLA+ models of its library and of its XML
frontends, and the properties that make them correct: TLC checks them on small
instances, TLAPS proves some of them for every instance.  File names below are
relative to `src/`.

Run in this directory, with the community modules and the TLAPS library on the
path:

    tlc -workers 2 -config MCMastering.cfg MCMastering
    tlapm IsoProofs.tla

## 1. Inventory

| component | code | state | operations | interacts with |
|---|---|---|---|---|
| sector allocator | `lib/salloc.c` | the bitmap: bytes, length, chunks | reserve at a place or anywhere, release, highest sector | called by the layout and, for blanks, by the writer |
| disc object | `lib/vcd.c` 261-1088, `lib/obj.h` | parameters, lists of sequences, entry points, pauses, segments, files, directories, playback nodes | `vcd_obj_new`, `set_param_*`, `append_*`, `add_*`, `destroy` | looks ids up through `lib/pbc.c`; scans streams |
| ISO track layout | `lib/vcd.c` 1090-1493, 1985-2250, `lib/dict.h` | bitmap, buffers by sector, the extents of every area, `iso_size` | `vcd_obj_begin_output`, `vcd_obj_get_image_size`, `vcd_obj_end_output` | allocator, directory, object |
| image writer | `lib/vcd.c` 1495-1983, 2052-2186, 2290-2423 | `sectors_written`, `in_track`, `last_cb_call` | `vcd_obj_write_image` | sink, progress callback, MPEG sources, the layout |
| VCD files | `lib/files.c` | none of their own | fill INFO, ENTRIES, LOT, PSD, TRACKS, SEARCH, SCANDATA | called in the middle of a write |
| playback control | `lib/pbc.c` | LIDs and offsets of the nodes | lookup of ids, `_vcd_pbc_finalize`, descriptors | object, files |
| MPEG source | `lib/mpeg_stream.c` | scanned info, position cache | scan, get packet, close | parser, data source |
| MPEG parser | `lib/mpeg.c` | a stream context | one packet | source |
| ISO directory | `lib/directory.c` | a sorted tree | mkdir, mkfile, sizes, dump | layout and writer |
| image sinks | `lib/image*.c` | the cue sheet, open files | set cue sheet, write a sector | writer, data streams |
| data streams | `lib/stream*.c` | open flag, position | lazy open, seek, read, write, close | sinks and sources |
| lists, trees, utilities | `lib/data_structures.c`, `lib/util.c` | containers | append, sort, traverse | everyone |
| sector encoding | `lib/sector.c` | none | EDC and ECC of a sector | writer |
| disc reader | `lib/info.c`, `lib/inf.c`, `lib/info_private.c` | an open disc, its offset lists | accessors, the walk of playback control | tools |
| XML frontends | `frontends/xml/` | a description of a disc | `vcdxrip` makes one of a disc, `vcdxbuild` a disc of one | library |
| logging | `lib/logging.c`, `lib/vcd_assert.h` | the handler | an error or a failed assertion ends the process | everyone |
| command line tools | `frontends/cli/` | none that lasts | build an object, master it, print a disc | library |

The library is sequential: one thread, no shared memory, nothing persistent.
What is hard is elsewhere:

* **Several passes must agree.**  The layout computes every extent, the cue sheet
  computes track starts again, `begin_output` sums up a size, ENTRIES and the
  directory record places, and the writer then sends sectors one after the
  other from other loops.  Nothing ties these together but assertions.  The
  directory is walked for its size, for its extents, for its records and for its
  path tables; the lists of playback control are laid out by one loop and filled
  in by another, for two PSDs; a reader numbers items by rules of its own.
* **Long legal call sequences.**  Ids are checked call by call; parameters may
  change between calls; an object may be output twice; entry points come in any
  order; packets of a source are fetched in any order past a cache.
* **Limits met late.**  A disc is accepted and the write aborts halfway.
* **Callbacks.**  The client may cancel at any callback, most of whose callers
  ignore the answer.
* **There and back.**  What is written must mean the same to a player, and to
  `vcdxrip`, whose description is the input of the next `vcdxbuild`.

The properties that make the components correct:

| component | correct when |
|---|---|
| allocator | it behaves as a set of sectors, each call in one step |
| object | an id names one item; entry points are in order; sequences adjoin |
| layout | no two areas share a sector, all lie inside the frozen size, the same object gets the same size again |
| writer | every sector lands in the extent that records it, the cue sheet is kept, the returned size is exact, callbacks keep coming, the write ends, only known misuse aborts |
| playback control | no descriptor crosses a block or another, and a reader finds the lists, with their LIDs and targets, along any path |
| VCD files | the tables agree with the numbers `pbc.c` counts, and scan points are the nearest access points |
| sinks | every sector between the cues is stored once, where the descriptor file says, and none that was stored is lost |
| MPEG source | a packet fetched in any order is the packet scanned; access points are in order |
| directory | all four walks agree block by block, what is listed is what was added, path tables have parents first |
| reader, `vcdxrip` | a disc that is ripped and built again plays as the first one |

## 2. Modules

`A <- B`: B extends A.

    Sectors <- SectorSpace          the allocator's promise, over sets
    Sectors <- Salloc <- MCSalloc   the bitmap; implements SectorSpace
    VcdObj <- MCBuild               the object under construction
    VcdObj, Sectors <- IsoTrack <- ImageWriter <- Mastering
        <- MCMastering, MCLimits

    LinkedLists, Blocks <- Directory <- DiscTree <- MCTree
                                    the file system; implements PathSet
    CueSheets, DataStreams <- BinCueSink <- CdrdaoSink <- NrgSink <- ImageSink
        <- MCSinks                  the sinks; implement DiscImage
    MpegPackets, DataStreams <- MpegSource <- MCMpeg

    Blocks <- PbcLists <- VcdFiles <- TrackImage          what is written
    PbcLists <- PbcVisit <- PbcRip                        what is found of it
    VcdFiles, PbcRip <- VcdInfo                           by a player
    TrackImage, PbcRip <- DiscRip; PbcLists <- VideocdXml by vcdxrip, and back
    VcdInfo, DiscRip, VideocdXml <- VcdDisc <- MCDisc

Proofs: `IsoProofs` on Salloc and DiscTree; `MpegSourceProofs` and `VcdDiscProofs`,
each on the module it is named for; `LayoutProofs <- WriterProofs` on Mastering, hence on VcdObj,
IsoTrack and ImageWriter; `SinkProofs <- BurnProofs` on ImageSink, hence on the three
sinks; `CommonProofs` on the operators they share.

**Salloc** (`lib/salloc.c`).  `data`, `len` and `alloced_chunks` are the C
fields; a byte is the set of its bits that are 1.  A step is one iteration of a
loop (`ProbeFree`, `ProbeSet`, `Fill`, `Free`), a call is `Call` followed by
these.  **SectorSpace** has a set `used` and serves a call in one step.  The
refinement: a reservation takes effect with its first bit, a release when it
ends; `reach` is the end of the bitmap, on which alone `get_highest` depends.

**VcdObj** (`lib/vcd.c`, lookup in `lib/pbc.c`).  The variables are the fields of
`struct _VcdObj` that the properties tell apart.  A stream is a record of what
the scan found: packets, access points, whether it plays for any time, and the
packet at which it turns out to be broken.  One action per call.  A call that
the code answers with `vcd_error` has no effect and, with the default log
handler, ends the process: it is not a step.  A failed `vcd_assert` sets
`aborted`, after which nothing happens.  `LookupAborts` has the three assertions
of `_vcd_pbc_pin_lookup` with the items searched before them.

**IsoTrack** (`_finalize_vcd_iso_track_allocation`, `_filesystem`,
`_update_entry_points`, `vcd_obj_begin_output`).  One action per statement or
loop iteration, in the code's order; `pc` says which part runs, `i` and `n` are
its loop variables.  It uses the allocator through `FirstFit` and `Highest` of
Sectors, which run `salloc` justifies.  The bitmap is the set `iso_bitmap`,
`dict` is the list of buffers.  The sizes of PSD, SEARCH and SCANDATA are any
function of the number of items, the size of the directory any of `DirBlocks`:
what they contain is the matter of `VcdDisc` and `DiscTree`.

**ImageWriter** (`vcd_obj_write_image` and below).  One step is one sector given
to the sink, with the callback after it; `wrote` is what the sink got last,
`cues` the cue sheet.  The callback's answer is chosen at every call.  Which
callers look at the answer is exactly as in the code: forced callbacks return
from `write_image`, a custom file or a track is left, everyone else ignores it.
A NULL callback is one that never cancels.

**Mastering** (`frontends/xml/vcd_xml_master.c`, `vcdimager.c`).  The order of
calls every client uses: build, perhaps ask for the size, `begin_output`,
`write_image`, `end_output`, `destroy`.

**LinkedLists** (libcdio's lists, `lib/data_structures.c`).  Nodes, pointers and
`end`, since `_vcd_list_sort` writes pointers and an append goes where `end`
points.  **Directory** (`lib/directory.c`): the tree on these lists, the depth
first and breadth first traversals, sizes in bytes and blocks, extents, records
and path tables as they are dumped.  **DiscTree** (`lib/vcd.c` 1120-1180,
1370-1490, 860-960): the directories and files of each type of disc and those of
the user, one step per call into `directory.c`.  **PathSet** is what it promises:
a set of paths, a listing that is that set.

**DataStreams** (`lib/stream.c`, `lib/stream_stdio.c`).  A file is a function from
offsets to what was written there, so that a sector that is overwritten, or a
file truncated by a second open, is seen to be lost.  **BinCueSink**,
**CdrdaoSink**, **NrgSink** (`lib/image_*.c`) are the three sinks as operators on
their struct and the disk, with every assertion; **ImageSink** (`lib/image.c`)
runs one of them as `vcd_obj_write_image` does.  **CueSheets** has the cue sheet
and what a burner is to find.  **DiscImage** is the promise: what was stored
stays stored, a destroyed image is complete.

**MpegPackets** (`lib/mpeg.c`).  A stream is a sequence of elements, each a start
code with what belongs to it; a buffer cuts it anywhere.  **MpegSource**
(`lib/mpeg_stream.c`) scans it, one packet a step, and serves
`vcd_mpeg_source_get_packet` from the cached position, one packet passed over a
step; scan offsets are computed from the access points.

**PbcLists** (`lib/pbc.c`), **VcdFiles** (`lib/files.c`), **TrackImage**
(`_write_sequence`, `_write_segment`) say what is written: descriptors field by
field, INFO, ENTRIES, LOT, SEARCH, SCANDATA, and per sector the subheader with its
triggers.  **PbcVisit** (`lib/info_private.c`, `lib/inf.c`), **VcdInfo**
(`lib/info.c`), **PbcRip** and **DiscRip** (`frontends/xml/vcd_xml_rip.c`) say what
is found.  **VideocdXml** (`vcd_xml_dump.c`, `vcd_xml_parse.c`, `videocd.dtd`)
writes, validates and parses the description.  **VcdDisc** is the whole way: the
author appends lists and items, `_vcd_pbc_finalize` lays out a list a step, the
files are written; then a player opens the disc, visits its PSDs (one call of
`vcdinf_visit_pbc` a step, as often as it likes) and asks; or `vcdxrip` visits,
rips and dumps; or `vcdxbuild` makes another disc of that, and all begins again.

## 3. Runs

| run | module, cfg | states | question |
|---|---|---|---|
| `salloc` | MCSalloc | 330 k | does the bitmap implement a set of sectors? |
| `build` | MCBuild | 95 k | ids, order of entry points and places, over all orders of calls |
| `mastering` | MCMastering | 568 k | layout, placement, cue sheet and sizes of small discs, with cancels |
| `limits` | MCLimits | 131 k | one item too many, broken streams, large directories, second images; termination |
| `real_disc` | MCMastering, MCRealDisc | 344 k | the layout with the numbers of the code |
| `sinks` | MCSinks | 23 k | do the three sinks keep every sector where their descriptor says? |
| `mpeg` | MCMpeg | 176 k | scan and fetch of streams, good, odd and broken, in any order |
| `tree` | MCTree | 53 k | is the file system what was added, in every order, block by block? |
| `disc` | MCDisc | 253 k | from author to player, to description, to the next disc |
| `cancel` | MCMastering, MCCancel | | violation: a cancel does not stop the writing |
| `late_param` | MCMastering, MCLateParam | | violation: a late parameter makes the returned size wrong |
| `pbc_ids` | MCBuild, MCPbcIds | | violation: two items with one id |

### What they show

* `ImplementsSectorSpace`: reservations are all or nothing, take the lowest
  place that fits, and `get_highest` aborts exactly when the last octet was
  emptied.  `NothingBeyondLen`: growth never brings a sector into use.
* `ItemsHaveOwnIds`, `EntriesSorted`, `SequencesAdjoin`: hold in every order of
  the calls.
* `LayoutDisjoint`: areas, segments, files and buffers are pairwise disjoint and
  inside `iso_size`.
* `SectorsInPlace`, `CueSheetKept`, `SubindexesInOrder`: what the sink gets is
  where the layout and the cue sheet say.
* `ImageSizeExact`, `SizeStaysTrue`: the size returned is the number of sectors
  written, and asking for it first changes nothing.
* `OnlyKnownAborts`: assertions fail only after a cancel, too many items, entry
  points in a stream without access points, or an SVCD of streams without
  access points or playing time.
* `CallbackOften`: also in a second image, although `last_cb_call` is not reset:
  the forced callback at the start resets it.
* `OutputReturns`: `begin_output` and `write_image` end.
* `ImplementsDiscImage`, `BurnsAsSent`: for all three sinks, whenever the writer
  stops, what was stored is stored; a finished image has every sector once at
  the place its cue file, table of contents or NRG tail tells, and every index.
  `OnlyKnownFailures`: three kinds of disc abort a sink (section 5).
* `FetchedAsScanned`, `FetchSucceeds`: the position cache never gives another
  packet, and every packet that was counted can be fetched, but for two kinds
  (section 5).
  `AccessPointsOrdered` is what the searches of `vcd.c` and `files.c` rely on, and
  what VcdObj assumes of its streams (`SourcesAssumption`); `ScanOffsetsRight` says
  without a search which access points a packet is told.  `AllPacksCounted`: a
  regular stream is not cut short.
* `OrderOfDirsFree`: parents come first whatever the order of the calls, thanks
  to the sort; `TreeTypeOK` includes that the lists stay lists under it.
  `DirectoriesPacked`, `RecordsFit`, `PathTablesOrdered`: the walk that sizes, the
  walk that places and the walks that dump agree.  `ImplementsPathSet`: what a
  reader of the sectors lists is what was added.
* `DescriptorsApart`, `ListsReadBack`: both PSDs, along every path a reader may
  take through the lists; a list is found exactly if it can be reached, with its
  LID, its targets and its items, and the ripped description says the same.
* `ItemsFound`: the numbers `pbc.c` gives to items lead a player to the track,
  entry or segment they stand for, and its length.  `ScanPointsNearest`: every half
  second of SEARCH and SCANDATA has the nearest access point.
* `RebuiltAlike`: rip and build again: the same packets, entries and pauses at the
  same packets, for streams whose first time is the lowest and pauses whose
  printed time is not rounded up.  Both provisos are needed: without either TLC
  finds a disc that comes back different (section 5).

### Bounds, and why they are enough

* `MCSalloc`: three bytes in chunks of two, so that the bitmap grows inside a
  chunk and across one; requests of 0, 1, 3 and 12 sectors on both sides of a
  byte boundary, at places that are free, taken and partly taken.
* `MCBuild`: three items; two ids that every kind of item may take; a limit of
  two tracks so that the third reaches the assertion; two entry times.
* `MCMastering`: three items of any kind, on a VCD 2.0 and an SVCD; streams with
  and without access points; an empty and a non-empty file; sector numbers
  shrunk but kept in the code's order and with the code's adjacencies
  (`ReserveFixed` has the same neighbours); a callback every 3 sectors falls
  anywhere in every phase.  Segment ids are interchangeable, hence the symmetry.
* `MCLimits`: every limit is 1 or 2 and can be passed by one; directories one
  block, as large as fits, and too large; `CD_MAX_SECTORS` falls between the
  images.
* `MCRealDisc.cfg`: the numbers of `lib/vcd.c` and `libvcd/files.h`, directories of
  54 and 55, 129 and 130 blocks (the last that fit and the first that do not).
* `MCSinks`: up to two tracks in all shapes, three where the limit is three;
  pregaps of one and two sectors, entry points at the first, middle and last
  packet, two at one packet; sectors of 2336 and 2352 bytes at their real sizes,
  since offsets are multiples of them.
* `MCMpeg`: all streams of up to three packs from eleven kinds, and five longer
  ones; a sector is three start codes long, so that a pack may be short, full, or
  end with the next start code cut off; the window of the scan offsets reaches
  over one access point but not over two.
* `MCTree`: four types of disc, three user calls of thirteen, parents missing,
  doubled, or files; blocks of nine units and records of two and three, so that a
  directory of the disc takes more than one block and padding occurs.
* `MCDisc`: triples of lists of nine shapes that lead to each other in circles, or
  nowhere; eleven odd sets of lists; 216 discs with scan points, 162 with entries,
  72 with segments, and those with pauses.  A block of 64 has two or three
  descriptors; offsets end at 18 units, so that the third extended selection
  meets the special values; half a second is 8 ticks; `PRINT_UNIT` 3 makes
  printed times round both ways; `PSD_MAX` 88 is exceeded by three selections.

Constants named bounds in the modules: `MaxBytes` (Salloc), `MaxItems`,
`ParamsFirst` (VcdObj), `Again` (Mastering), `MaxCustom` (DiscTree),
`SearchRounds` (VcdInfo).  `ParamsFirst` is also the discipline that
`begin_output` relies on; run `late_param` drops it.

Deadlock is not checked: an object may be finished, destroyed, exited or
aborted.

### Fairness

`FairSpec` has weak fairness of `Layout` and of `WriterNext`: `begin_output` and
`write_image` are plain function calls that one thread runs to the end.  Nothing
is assumed of the client: it may never call, never end the output, and answer
callbacks as it likes.  The other runs state safety only.

## 4. Proofs

The first part of `IsoProofs` is about `Spec` of Salloc.  It proves for every set of requests, every chunk size and every
`MaxBytes` (`SallocAssumption`):

* `BitmapTypeCorrect`: `Spec => []TypeOK`, and `NothingBeyondLenCorrect`:
  `Spec => []NothingBeyondLen`.  The two are inductive together (`BitmapShape`): when
  the bitmap grows inside its chunks, the new bytes are zero only because no bit
  beyond the length was ever set (`SetKeepsShape`), and the chunks asked for
  hold the bytes asked for (`ChunksEnough`, nonlinear in the chunk size).
* `SallocImplementsSectorSpace`: `Spec => ImplementsSectorSpace`, the refinement
  that run `salloc` checks on three bytes.  The mapping alone is not enough: a
  step in the middle of a loop is right only because of what the loop did
  before.  `LoopInv` says so: what was probed is free and every place passed
  over is not (`Searched`), the first bit set, the highest, gave the bitmap its
  final length (`Reached`), what was released is free (`Released`), and the loop
  that runs tells the call (`CallServed`).  Then the first bit set is the grant
  (`FirstBitGrants`), of the lowest place that fits (`LowestPlace`: the sector
  before it is in use), the other bits stutter, and a release shows when it ends.
  `LastByte` shows that the last byte alone tells the highest sector, or that it
  is not known.

The rest of `IsoProofs` is about `TreeSpec` of DiscTree: every set of discs, segment
and sequence names, paths a user may add and how many of them (`DiscsAssumption`,
`PathsAssumption`: the order of names covers the names in use; `DirectoryAssumption`: a
record fits a block).

* `TreeInvCorrect`: `TreeSpec => []TreeInv`.  `Shape` says that the nodes are
  numbered as they came, a parent before its children, that no two children of a node
  have one name, and of each child list (`Hangs`) that it is `Linked` to a sequence
  which holds exactly the node's children, in the order of their names.  `Linked`
  relates the pointers, the beginning, the end and the length of a list to a
  sequence.  It has to survive the bubble sort, which exchanges two
  nodes by writing three pointers and perhaps the end: one exchange swaps
  two places of the sequence, a pass carries the greatest of the rest to its
  end, and enough passes sort (`PassExists`, `SortExists`, `SortListIs`).  A lookup
  walks these lists (`LookupRuns`, `LookupApart`), and a call of mkdir or mkfile adds
  one leaf and the path of it, and no other (`GrownLookup`, `GrownHas`).  The walks
  that lay out and dump the tree come to every node once, parents first, and write
  only sizes, extents and table numbers.
* `TreeTypeOKCorrect`: `TreeSpec => []TreeTypeOK`, from `Shape`.
* `OrderOfDirsFreeCorrect`: `TreeSpec => []OrderOfDirsFree`.  The list of directories
  is sorted with every insertion, and in a sorted list a directory is behind the one it
  is in (`SortedAboveFirst`).  While the calls are made, the tree has exactly the paths
  of those already made (`Making`), up to the user's files, which may add directories
  of their own.  So a mkdir that aborts finds its path there, from another call, or
  finds no parent, which then none of the calls makes (`AbortKnown`).

`LayoutProofs` proves of VcdObj, for every set of streams, ids, times, parameters and
files, and every value of the limits (`ObjAssumption`):

* `ObjTypeCorrect`: `ObjSpec => []ObjTypeOK`.  Inductive as it stands, one lemma
  per call.  The part that is not bookkeeping: a segment has a unit of play
  (`Len2BlocksEnough`: the least number of blocks that hold a length), and
  clamped parameters stay naturals (`ClampBounds`).
* `EntriesSortedCorrect`: `ObjSpec => []EntriesSorted`.  `EntriesSorted` compares
  neighbours; the invariant `EntriesOrdered` compares any two entry points of a
  sequence, which is what shows that counting the entry points no later than the
  new one (`NoLaterIsPrefix`) counts a first part of the list, so that the
  stable sort is an insertion there (`WithEntryOrdered`).
* `SequencesAdjoinCorrect`: if `ParamsFirst`, `ObjSpec => []SequencesAdjoin`.
  Inductive together with `ObjTypeOK`: an append puts the new sequence at
  `relative_end_extent` plus a pregap; no other call touches the parameters once
  there is a sequence, or a place.
* `ItemsHaveOwnIdsCorrect`: `ObjSpec => []ItemsHaveOwnIds`.  The property counts
  positions in a list that flattens the entry points of all sequences, and a call
  shifts them.  The invariant `IdsApart` is on the holders themselves (a sequence,
  its default entry, an entry point, a segment), which a call renames but for the
  new one (`HoldersAdded`); `EntrySlotsPlaces` shows that the flattened list has
  each entry point once, from `FlattenSeqPlaces`.

The rest of `LayoutProofs`, and `WriterProofs`, are about `Spec` of module Mastering,
hence about every disc a client can build, every limit, and all answers of its
callback.

* `TypeCorrect`: `Spec => []TypeOK`.  Not inductive: a place is looked for with
  `FirstFit`, which is a number only where something fits.  `ShapeInv` adds that
  from the end of `ReserveFixed` on the bitmap is a run without gaps
  (`Packed`), so that the first place that fits is its end (`FirstFitOfRun`), for
  any size; and that counters are inside their lists where these are read.
* `LayoutDisjointCorrect`: if `ParamsFirst`, `Spec => []LayoutDisjoint`.
  `PlaceInv` says where the borders of the areas are in each phase
  (`Borders`: the part that is laid out ends at the end of the run, a border that
  is not known yet stands there too), and that every buffer, segment and file lies
  between its borders and behind those before it.  The directory released and
  given out again by `MakeFilesystem` is the one place where the order of
  the allocation is not that of the sectors (`MakeFilesystemPlaces`).
  `TracksInv`: `SequencesAdjoin`, hence the tracks lie one behind the other.
* `ImageSizeExactCorrect`: if `ParamsFirst`, `Spec => []ImageSizeExact`.  `Progress`
  has one part for each phase of write_image and says which sector comes next; one
  lemma for each phase (`HeadProgress` to `LeadoutProgress`).  The size is exact
  because the blanks end at `iso_size` (`BlankProgress`) and each track ends where
  the next one's pregap starts (`SequenceProgress`, from `SequencesAdjoin`).
* `SectorsInPlaceCorrect`, `CueSheetKeptCorrect`: if `ParamsFirst`,
  `Spec => []SectorsInPlace` and `Spec => []CueSheetKept`.  `Sent`: the sector
  the sink got last is the one that was promised.  `Progress` says where the next one
  is and `PlaceInv` what lies there (`IsoSectors`, `TrackSectors`,
  `LeadoutSectors`); a filler is shown to lie outside of everything that is
  recorded (`OutsideAll`).  `PromisesKept`: no step of write_image moves what
  it is measured by.

`ParamsFirst` says that no parameter is set once there is a sequence.  Both clients
keep to it; without it `ImageSizeExact` is false (run `late_param`, section 5).

Four more invariants of `Spec` of module Mastering, for every disc, every limit and
all answers of the callback, whether or not `ParamsFirst`:

* `CallbackOftenCorrect`: `CallbackInv` adds that both counters are naturals.  A
  step that writes keeps the distance or calls back (`SectorTells`); every forced
  call closes it (`ForcedTells`), and one of them comes before the first sector of
  every image, which is why `last_cb_call` of the image before does no harm.
* `SizeStaysTrueCorrect`: asking for the size first changes nothing.  `AdjoinInv`
  gives every extent as an expression of the items alone, with the equations that
  hold in a phase of the layout kept afterwards (`StartKnown` to `IsoSizeKnown`):
  the segments begin at the first multiple of the alignment behind the fixed
  areas and follow one another, then the extension files, then the files that are
  not empty.  Since `get_image_size` runs the same layout on the same items, a
  size it remembers (`QueriedRight`) is the one the second layout comes to.
* `OnlyKnownAbortsCorrect`: no assertion of `vcd.c` and `files.c` fails without a
  cancel or one of the causes that `OnlyKnownAborts` lists.  Hardest are the
  assertions that the sector written is the one expected: `IsoProgress` with `AdjoinInv` shows that every loop of the writer starts where
  the one before stopped; `Unwritten` that a first sector is sector 0.
* `SubindexesInOrderCorrect`: entry points are kept in the order of their times,
  each is moved to the first access point after which none is closer, and so a
  later time is never moved before an earlier one (`LaterIsNoEarlier`); `EntriesInv`.
  This needs the access points of every stream to be in order,
  `SourcesAssumption`, which is `AccessPointsOrdered` of the scan, proved below.

`MpegSourceProofs` proves every invariant that run `mpeg` checks, for every stream
of elements that follow one another without gaps (`FilesAssumption`: bytes that are
nothing else are junk, an element of its own), every packet size larger than a
start code (`PacketAssumption`), all calls and numbers.

* `SourceInv` has six parts: the phase of the source (`Phases`); the packets that
  were scanned follow one another, each as long as a parse there finds it
  (`Chained`); the loops, the data source and the cached position stand where one
  of them begins (`InPlace`); what a fetch returned is one of them (`GotInv`); the
  access points collected are in order and inside the times seen (`ContextInv`);
  why a fetch fails: of the packet it has parsed, in its own stream (`CrashInv`).
* `FetchedAsScannedCorrect`, `FetchSucceedsCorrect`: the length of a packet does not
  depend on the context it is parsed in nor on whether its contents are parsed
  (`LengthAt`), so that any later fetch, from any cached place, passes over the
  packets of the scan.  The walk of the parser over the elements of a packet is a
  fold; what one element may do to the context (`Follows`, `Advances`) is
  reflexive and transitive, and hence holds of the whole walk.
* `AccessPointsOrderedCorrect`: `mpeg_stream.c` adds a point only if its time is no
  earlier than the last; that all times lie between the lowest and the highest
  seen needs `Follows`, that they are not negative the conclusion of the scan.
* `ScanOffsetsRightCorrect`: one pass over the points computes four searches at
  once.  `OffsetsOf` says of each offset what it is of the points passed so far
  (`PassedKeeps`), `AllPassed` what it is at the end.
* `AllPacksCountedCorrect`: `PacksInv` counts the packs behind the scan; one packet
  passes over exactly one pack (`PackFound`), as no pack of a regular stream ends
  in the last bytes of a sector, where the next start code would be cut off.
* `MpegTypeOKCorrect`: the records that the parser fills stay such records.

`SinkProofs` and `BurnProofs` are about `Spec` of ImageSink: every set of discs that
`vcd.c` can hand over (`DiscsAssumption`: a stream and its margins are not empty, an
entry point is on a packet of its track), all three sinks, all arguments, and a writer
that may stop at any sector.  `SheetAssumption` only says that the value `NoSheet`,
which stands for a sheet that is not there, is not a set of sectors.

* `SinkInvInductive`: `SinkInv` says, for the sink at hand (`BinCueInv`, `CdrdaoInv`,
  `NrgInv`), what the sink's files hold when the next sector is `next`: the sectors
  before it, each at its place, and the descriptor of the whole cue sheet; and which
  of the streams are open and where they stand.  For this the cue list, which is a
  flattened list of lists, is laid out in rows and columns (`CuesLaidOut`: the cue
  at a place of the list is the pregap, the start or an entry point of a certain
  track), the folds that print a descriptor are unrolled line by line (`PrintText`,
  `SheetGoes`, `TocGoes`), and the place where a sector falls is computed from the
  tracks: `Part` for cdrdao, which opens a new file for each part, and `NrgMap` for
  NRG, which must not send two sectors to one place, or one behind the tail
  (`BasesRise`, `SpotsDiffer`).
* `SinkTypeOKCorrect`, `OnlyKnownFailuresCorrect`: the assertions of the sinks are
  evaluated on the cue sheet of any disc; those that can fail are of the three
  kinds of disc that section 5 names.
* `BurnsAsSentCorrect`: the descriptors are read back.  The offsets of a table of
  contents are relative to data files, whose lengths are what was written to them
  (`TocSays`, `TocKnown`), those of a cue sheet are absolute (`SheetReads`); in an NRG
  tail an entry a track tells the start in the file and on the disc (`NrgSays`).
* `SinksImplementDiscImage`: `Spec => ImplementsDiscImage`.  `FoundIs` gives the
  refinement mapping a form without the files: what is kept is the sectors before
  `next` that this kind of image stores.  So a step of a sink stores one sector or
  stutters (at a pregap in an NRG image), and nothing that was kept is lost, however
  often a file is opened and closed.

`CommonProofs` proves what the block arithmetic of `util.h` returns, for every
block size: `Ceil2BlockBounds` (the least multiple that is no less) and
`OfsAddFits`, `OfsAddAligned` (what `_vcd_ofs_add` places lies in one block, at or
behind the offset, in whole units if all is in whole units).  It also has what
replaces induction over an operator, which the provers cannot instantiate:
`NatSetInduction` is induction over a set of naturals, from `LeastNat`.  A fold is
the value of a function on the sets of places, which `FlattenSeqExists` and
`FoldExists` construct by that induction, and what it yields
is proved place by place (`FlattenSeqPlaces`, `AllPassed`).

`VcdDiscProofs` uses the block arithmetic for `DescriptorsApartCorrect`: `Spec => []DescriptorsApart`, for every block
size, every offset unit that divides it, and all discs and lists.  `LayoutInv`: the
descriptors laid out so far end at or before `psd_end`, and each lies where
`_vcd_ofs_add` put it (`NextDescriptor`, one turn of the loop for one PSD,
instantiated for both).  The theorem keeps the proviso of the property: no list
is longer than a block.

Stays with TLC: liveness under fairness (`OutputReturns`), which is out of the
prover's reach; `DirectoriesPacked`, `RecordsFit` and `PathTablesOrdered` of `DiscTree`,
which sum sizes and numbers over whole walks of the tree, and its refinement
`ImplementsPathSet`, whose mapping reads the tree back; `ListsReadBack`, `ItemsFound`, `ScanPointsNearest` and `RebuiltAlike`
of `VcdDisc`, which relate whole walks of a reader to what was written.  These are checked on the instances above.

## 5. Disagreements with the documentation

Shown by a run:

* `cancel`: `lib/vcd.h:134-135` says a callback's value other than 0 aborts the
  writing; areas, margins, lead-out and later tracks are still written, unless a
  forced callback (start, each track, end) is also answered so.
* `late_param`: `lib/vcd.h:129-130` says `begin_output` is called when every
  parameter has been set and returns the sectors to be written; a margin set
  after an append is not in that number.
* `pbc_ids`: `lib/vcd.c:2279` looks up the id of the item a node plays instead
  of the node's own; `frontends/xml/videocd.dtd` (21, 88, 93, 98, 108) wants ids
  to be unique.

Met while modelling; the models behave as the code does, and the properties name
these as their exceptions:

* **Sinks.**  `image_bincue.c:152` allows 99 indexes, `vcd.c:681` accepts 99 entry
  points beside the track's own index 1: the last aborts.  `image_nrg.c:219` aborts
  on any disc with entry points, and the NRG tail on one track more than fits.
  (`vcd.c:794` clamps `track_pregap` to 1, without which cdrdao would fail too.)
* **MPEG.**  `mpeg.c:735` compares with 1 instead of -1: every I picture without a
  GOP header is taken for one with (`mpeg.h:69-70`).  A pack one to three bytes
  shorter than a sector has the next start code cut off.  With
  `update_scan_offsets`, two kinds of packets with scan data cannot be fetched.
  `mpeg_stream.c:444` hands on the list of access points of the packet's stream,
  which is NULL if the scan saw none (it is made at line 195), and line 330 walks
  it without the question that lines 83 and 252 ask.  Line 301 extrapolates from
  an access point that is not there when a packet without a timestamp comes
  before the first one.  `FetchSucceeds` names exactly these.
* **Directory.**  `directory.c:275` accepts a file as the parent of a directory; the
  failure of `mkfile` is ignored by `vcd.c`; a user's directory that exists
  already, or has no parent, aborts `begin_output`.
* **Playback control.**  Offsets have 16 bits whose highest values are special, and
  `pbc.c:320` does not check; nor is a list ever checked to fit a block; a playlist
  of more than 255 items has its number truncated.  The playback of an end list
  with a missing image is reported with another id, which may be NULL.
* **Files.**  `files.c:760` and `:810` assign in an assertion instead of comparing.
  Default entries are not counted against the size of ENTRIES (`files.c:217`).
* **Reader.**  `info.c:768`: the binary search for the entry of a sector counts an
  unsigned index down from 0: `vcdinfo_track_get_entry(1)` never returns, although
  `info.h:839` says it is the entry of the track.  `info_private.c:78` asks the pool
  of skipped LIDs for its first node while it is empty: a rejected end list gets a
  LID behind the last, against the comment at line 89; and when all lists are
  rejected, the list that is sorted is NULL.  `info.h:573-575` says that the
  segments which continue an item have 0 sectors; they are given 150.
  `vcdinfo_get_entry_sect_count` takes a constant for `track_pregap`.
* **Description.**  Areas of a default selection and of targets that lead nowhere are
  lost; the DTD and the parser disagree on `start-time-offset`; a playlist without
  items is dumped although the DTD wants one, and `vcdxbuild` refuses it.  Options,
  margins and pregaps are not ripped.  Times are counted from the lowest met so
  far and printed with six digits: hence the provisos of `RebuiltAlike`.

## 6. Not modelled

Sector encoding (EDC and ECC of bytes, tables), the bytes of ISO 9660 and MPEG
headers, volume descriptors and string parameters, TRACKS.SVD, the command line
tools (they parse options and print), `vcdxgen` and `vcdxminfo`, the file system
of a disc as `vcdxrip` copies it, the unfinished GNOME frontend.  Of logging, the
end of the process is modelled, not the text.  In Mastering `update_scan_offsets`
is off, as `vcd_obj_new` leaves it; what it does to a packet is in MpegSource.  `PROJECT.json` lists each with its
reason.

## 7. What is left

More could be proved: the order of the path tables and the packing of the
directories, on the invariant that `IsoProofs` has of the tree; that a player finds a list of which the descriptor
was written (`ItemsFound` of `VcdDisc`), from `DescriptorsApart`.  More
could be modelled: the options, the volume information and the sequence infos in
the description of a disc, and the runs of the reader on the discs on which it does
not return or aborts (section 5).
