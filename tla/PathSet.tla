-------------------------------- MODULE PathSet --------------------------------
(***************************************************************************)
(* What the directory of a disc promises: a set of paths to which          *)
(* directories and files are added, and a listing that is that set.        *)
(***************************************************************************)
EXTENDS Sequences, SequencesExt

CONSTANT Paths      \* sequences of names

VARIABLES
    entries,        \* the paths that were added, directories or files
    listing         \* what is found on the disc

vars == <<entries, listing>>

Dir(path) == [path |-> path, is_dir |-> TRUE]
File(path) == [path |-> path, is_dir |-> FALSE]

Known(path) == path = <<>> \/ Dir(path) \in entries \/ File(path) \in entries

Above(path) == {SubSeq(path, 1, k) : k \in 1 .. Len(path) - 1}

Init ==
    /\ entries = {}
    /\ listing = {}

\* A directory goes where there is something.
AddDir(path) ==
    /\ ~Known(path)
    /\ Known(Front(path))
    /\ entries' = entries \cup {Dir(path)}
    /\ UNCHANGED listing

\* A file brings the directories it needs.
AddFile(path) ==
    /\ ~Known(path)
    /\ \A up \in Above(path) : File(up) \notin entries
    /\ entries' = entries \cup {File(path)} \cup {Dir(up) : up \in Above(path)}
    /\ UNCHANGED listing

\* Nothing is below a file in what is listed.
List ==
    /\ \A e \in entries : \A up \in Above(e.path) : Dir(up) \in entries
    /\ listing' = entries
    /\ UNCHANGED entries

Next ==
    \/ \E path \in Paths : AddDir(path) \/ AddFile(path)
    \/ List

Spec == Init /\ [][Next]_vars
=============================================================================
