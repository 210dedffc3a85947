----------------------------- MODULE SectorSpace -----------------------------
(***************************************************************************)
(* What the sector allocator promises to the image builder, with no bitmap *)
(* in sight: a set of used sectors, one call at a time, every call served  *)
(* in one step.  Module Salloc implements it.                              *)
(***************************************************************************)
EXTENDS Sectors

CONSTANT Requests   \* the calls clients make: records [op, sec, size]

VARIABLES
    used,      \* the sectors in use
    reach,     \* the end of the space used so far, in whole octets of sectors
    call,      \* the call being served
    ret,       \* what the last call that ended returned
    aborted    \* a vcd_assert failed: the process is gone

spaceVars == <<used, reach, call, ret, aborted>>

NoCall == [op |-> "none", sec |-> 0, size |-> 0]

SpaceInit ==
    /\ used = {}
    /\ reach = 0
    /\ call = NoCall
    /\ ret = 0
    /\ aborted = FALSE

Request(c) ==
    /\ ~aborted
    /\ call = NoCall
    /\ call' = c
    /\ UNCHANGED <<used, reach, ret, aborted>>

OctetEnd(sector) == 8 * (sector \div 8) + 8

Further(a, b) == IF a >= b THEN a ELSE b

\* The call ends with extent (start, size) in use.
Grant(start, size) ==
    /\ used' = used \cup Extent(start, size)
    /\ reach' = Further(reach, OctetEnd(start + size - 1))
    /\ ret' = start

\* A place was asked for: all of it is granted, or none.
ReserveAt ==
    /\ call.op = "alloc"
    /\ call.sec # SECTOR_NIL
    /\ IF IsFree(used, call.sec, Granted(call.size))
       THEN Grant(call.sec, Granted(call.size))
       ELSE /\ ret' = SECTOR_NIL
            /\ UNCHANGED <<used, reach>>
    /\ call' = NoCall
    /\ UNCHANGED aborted

\* No place was asked for: the lowest one that fits is granted.
ReserveLowest ==
    /\ call.op = "alloc"
    /\ call.sec = SECTOR_NIL
    /\ Grant(FirstFit(used, Granted(call.size)), Granted(call.size))
    /\ call' = NoCall
    /\ UNCHANGED aborted

\* Only sectors in use can be released.
Release ==
    /\ call.op = "free"
    /\ IF Extent(call.sec, call.size) \subseteq used
       THEN /\ used' = used \ Extent(call.sec, call.size)
            /\ call' = NoCall
            /\ UNCHANGED aborted
       ELSE /\ aborted' = TRUE
            /\ UNCHANGED <<used, call>>
    /\ UNCHANGED <<reach, ret>>

\* The highest sector in use: known only while the last octet the space ever
\* reached still has a sector in use.
ReportHighest ==
    /\ call.op = "highest"
    /\ IF \E s \in used : s >= reach - 8
       THEN /\ ret' = Highest(used)
            /\ call' = NoCall
            /\ UNCHANGED aborted
       ELSE /\ aborted' = TRUE
            /\ UNCHANGED <<ret, call>>
    /\ UNCHANGED <<used, reach>>

SpaceNext ==
    \/ \E c \in Requests : Request(c)
    \/ ReserveAt
    \/ ReserveLowest
    \/ Release
    \/ ReportHighest

SpaceSpec == SpaceInit /\ [][SpaceNext]_spaceVars

=============================================================================
