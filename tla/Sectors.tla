------------------------------- MODULE Sectors -------------------------------
(***************************************************************************)
(* The vocabulary of disc sectors: an extent is a run of logical sector    *)
(* numbers, and the sectors in use are a set.  What lib/salloc.c promises  *)
(* is stated over these sets; module Salloc has the bitmap itself.         *)
(***************************************************************************)
EXTENDS Integers

\* What _vcd_salloc takes for "anywhere" and returns for "not possible".
SECTOR_NIL == -1

Extent(start, size) == start .. (start + size - 1)

IsFree(used, start, size) == \A s \in Extent(start, size) : s \notin used

\* A request of no sectors is served as a request of one.
Granted(size) == IF size = 0 THEN 1 ELSE size

\* The lowest place for size sectors is sector 0 or follows a used sector.
Candidates(used) == {0} \cup {s + 1 : s \in used}

FirstFit(used, size) ==
    CHOOSE h \in Candidates(used) :
        /\ IsFree(used, h, size)
        /\ \A g \in Candidates(used) : IsFree(used, g, size) => h <= g

Highest(used) == CHOOSE h \in used : \A s \in used : s <= h

=============================================================================
