------------------------------ MODULE DataStreams ------------------------------
(***************************************************************************)
(* The data sinks and sources of stream.c over the stdio files of          *)
(* stream_stdio.c.  A file is a function from the offset where something   *)
(* was written to what was written there.  An operation takes the disk and *)
(* the stream it is called on, and gives both as the call leaves them.     *)
(***************************************************************************)
EXTENDS Integers, Sequences, FiniteSets

EmptyFile == [offset \in {} |-> 0]

\* A file with what is written at an offset, a disk with a file under a name.
Put(file, offset, what) ==
    [o \in DOMAIN file \cup {offset} |-> IF o = offset THEN what ELSE file[o]]

\* _VcdDataSink over the _UserData of stdio: position is what the sink believes,
\* at is where the FILE stands.
Sink(pathname) ==
    [pathname |-> pathname, is_open |-> FALSE, position |-> 0, at |-> 0]

NoSink == Sink(<<"none", 0, FALSE>>)

\* _vcd_data_sink_open_if_necessary, _stdio_open_sink ("wb"): the file is empty.
OpenIfNecessary(s) ==
    IF s.sink.is_open THEN s
    ELSE [disk |-> Put(s.disk, s.sink.pathname, EmptyFile),
          sink |-> [s.sink EXCEPT !.is_open = TRUE, !.position = 0, !.at = 0]]

\* vcd_data_sink_seek
SinkSeek(s, offset) ==
    LET o == OpenIfNecessary(s)
    IN  IF o.sink.position = offset THEN o
        ELSE [o EXCEPT !.sink.position = offset, !.sink.at = offset]

\* Mutant: the position of the sink is not moved.
SinkWrite_still(s, what, size) ==
    LET o == OpenIfNecessary(s)
    IN  [disk |-> [o.disk EXCEPT ![o.sink.pathname] = Put(@, o.sink.at, what)],
         sink |-> [o.sink EXCEPT !.at = @ + size]]

\* vcd_data_sink_write: what takes size bytes.
SinkWrite(s, what, size) ==
    LET o == OpenIfNecessary(s)
    IN  [disk |-> [o.disk EXCEPT ![o.sink.pathname] = Put(@, o.sink.at, what)],
         sink |-> [o.sink EXCEPT !.position = @ + size, !.at = @ + size]]

\* vcd_data_sink_printf: a line of text, whatever its length, is one unit.
SinkPrintf(s, line) == SinkWrite(s, line, 1)

\* vcd_data_sink_close, _stdio_close
SinkClose(s) ==
    [s EXCEPT !.sink.is_open = FALSE, !.sink.position = 0, !.sink.at = 0]

\* vcd_data_sink_destroy, _stdio_free
SinkDestroy(s) == [SinkClose(s) EXCEPT !.sink = NoSink]

-----------------------------------------------------------------------------
(* Sources: a file that is only read.                                      *)

\* _VcdDataSource; at is where the FILE stands.
Source == [is_open |-> FALSE, position |-> 0, at |-> 0]

\* _vcd_data_source_open_if_necessary, _stdio_open_source
SourceOpened(source) ==
    IF source.is_open THEN source ELSE [is_open |-> TRUE, position |-> 0, at |-> 0]

\* vcd_data_source_close
SourceClosed(source) == [is_open |-> FALSE, position |-> 0, at |-> 0]

\* vcd_data_source_seek, _stdio_seek
SourceSought(source, offset) ==
    LET o == SourceOpened(source)
    IN  IF o.position = offset THEN o
        ELSE [o EXCEPT !.position = offset, !.at = offset]

\* What vcd_data_source_read finds: count bytes, or those before the end.
SourceRead(source, count, length) ==
    LET left == length - SourceOpened(source).at
    IN  IF left <= 0 THEN 0 ELSE IF count < left THEN count ELSE left

\* The source after it has read so many bytes.
SourceAdvanced(source, read) ==
    LET o == SourceOpened(source)
    IN  [o EXCEPT !.position = @ + read, !.at = @ + read]

=============================================================================
