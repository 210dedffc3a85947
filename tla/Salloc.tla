-------------------------------- MODULE Salloc --------------------------------
(***************************************************************************)
(* lib/salloc.c: the bitmap of used sectors.  One step is one iteration of *)
(* the loops of _vcd_salloc and _vcd_salloc_free; a byte of the bitmap is  *)
(* the set of its bits that are 1.                                         *)
(***************************************************************************)
EXTENDS Sectors

CONSTANTS
    Requests,       \* the calls clients make: records [op, sec, size]
    CHUNK_SIZE,     \* VCD_SALLOC_CHUNK_SIZE: bytes come in such chunks
    MaxBytes        \* bound: no call is made that could need more bytes

ASSUME SallocAssumption ==
    /\ CHUNK_SIZE \in Nat \ {0}
    /\ MaxBytes \in Nat
    /\ Requests \subseteq
         [op : {"alloc"}, sec : Nat \cup {SECTOR_NIL}, size : Nat]
           \cup [op : {"free"}, sec : Nat, size : Nat]
           \cup [op : {"highest"}, sec : {0}, size : {0}]

VARIABLES
    data,             \* the bytes
    len,              \* bytes in use
    alloced_chunks,   \* chunks allocated
    pc,               \* the loop that runs
    call,             \* the call being served
    hint, i,          \* the loops' variables
    ret,              \* what the last call that ended returned
    aborted           \* a vcd_assert failed

bitmap == <<data, len, alloced_chunks>>
vars == <<data, len, alloced_chunks, pc, call, hint, i, ret, aborted>>

NoCall == [op |-> "none", sec |-> 0, size |-> 0]

Init ==
    /\ data = [b \in {} |-> {}]
    /\ len = 0
    /\ alloced_chunks = 0
    /\ pc = "idle"
    /\ call = NoCall
    /\ hint = 0
    /\ i = 0
    /\ ret = 0
    /\ aborted = FALSE

IsSet(s) == s \div 8 < len /\ s % 8 \in data[s \div 8]

\* The bitmap's sectors, as a set.
SetSectors == {s \in 0 .. (8 * len - 1) : IsSet(s)}

\* Mutant: a last chunk that is not full is forgotten.
Chunks_floor(bytes) == bytes \div CHUNK_SIZE

Chunks(bytes) ==
    bytes \div CHUNK_SIZE + (IF bytes % CHUNK_SIZE = 0 THEN 0 ELSE 1)

ChunksFor(bytes) ==
    IF alloced_chunks < Chunks(bytes) THEN Chunks(bytes) ELSE alloced_chunks

\* Mutant: new bytes are not zeroed.
Resized_dirty(newlen) ==
    [b \in 0 .. (CHUNK_SIZE * ChunksFor(newlen) - 1) |->
        IF b \in DOMAIN data THEN data[b] ELSE 0 .. 7]

\* The bytes after _vcd_salloc_set_size(newlen): old ones kept, new ones 0.
Resized(newlen) ==
    [b \in 0 .. (CHUNK_SIZE * ChunksFor(newlen) - 1) |->
        IF b \in DOMAIN data THEN data[b] ELSE {}]

\* _vcd_salloc_set: the byte is appended first when the bitmap is too short.
Set(s) ==
    IF s \div 8 < len
    THEN /\ data' = [data EXCEPT ![s \div 8] = @ \cup {s % 8}]
         /\ UNCHANGED <<len, alloced_chunks>>
    ELSE /\ data' = [b \in DOMAIN Resized(s \div 8 + 1) |->
                       IF b = s \div 8 THEN {s % 8}
                       ELSE IF b >= len /\ b < s \div 8 THEN {}
                       ELSE Resized(s \div 8 + 1)[b]]
         /\ len' = s \div 8 + 1
         /\ alloced_chunks' = ChunksFor(s \div 8 + 1)

\* _vcd_salloc_unset
Unset(s) ==
    /\ data' = [data EXCEPT ![s \div 8] = @ \ {s % 8}]
    /\ UNCHANGED <<len, alloced_chunks>>

Finish(value) ==
    /\ ret' = value
    /\ pc' = "idle"
    /\ call' = NoCall
    /\ UNCHANGED <<hint, i, aborted>>

\* vcd_assert fails: the process aborts in the middle of the call.
AssertFails ==
    /\ aborted' = TRUE
    /\ UNCHANGED <<bitmap, pc, call, hint, i, ret>>

-----------------------------------------------------------------------------
(* The calls.                                                              *)

\* The bound on the model: see MaxBytes.
Bounded(c) ==
    c.op = "alloc" =>
        (IF c.sec = SECTOR_NIL THEN 8 * len ELSE c.sec) + c.size <= 8 * MaxBytes

Call(c) ==
    /\ pc = "idle"
    /\ ~aborted
    /\ Bounded(c)
    /\ call' = c
    /\ pc' = IF c.op = "alloc" THEN "probe" ELSE c.op
    /\ hint' = IF c.sec = SECTOR_NIL THEN 0 ELSE c.sec
    /\ i' = 0
    /\ UNCHANGED <<bitmap, ret, aborted>>

Size == Granted(call.size)

\* The probed sector is free, or all of them were.
ProbeFree ==
    /\ pc = "probe"
    /\ IF i < Size
       THEN /\ ~IsSet(hint + i)
            /\ i' = i + 1
            /\ UNCHANGED pc
       ELSE /\ pc' = "fill"
            /\ UNCHANGED i
    /\ UNCHANGED <<bitmap, call, hint, ret, aborted>>

\* Mutant: the search goes on a whole extent further on.
ProbeSet_skips ==
    /\ pc = "probe"
    /\ i < Size
    /\ IsSet(hint + i)
    /\ UNCHANGED bitmap
    /\ IF call.sec = SECTOR_NIL
       THEN /\ hint' = hint + Size
            /\ i' = 0
            /\ UNCHANGED <<pc, call, ret, aborted>>
       ELSE Finish(SECTOR_NIL)

\* The probed sector is in use: give up, or try one sector further on.
ProbeSet ==
    /\ pc = "probe"
    /\ i < Size
    /\ IsSet(hint + i)
    /\ UNCHANGED bitmap
    /\ IF call.sec = SECTOR_NIL
       THEN /\ hint' = hint + 1
            /\ i' = 0
            /\ UNCHANGED <<pc, call, ret, aborted>>
       ELSE Finish(SECTOR_NIL)

\* Bits are set from the highest down, so that the bitmap grows once.
Fill ==
    /\ pc = "fill"
    /\ IF i > 0
       THEN /\ Set(hint + i - 1)
            /\ i' = i - 1
            /\ UNCHANGED <<pc, call, hint, ret, aborted>>
       ELSE /\ Finish(hint)
            /\ UNCHANGED bitmap

Free ==
    /\ pc = "free"
    /\ ~aborted
    /\ IF i < call.size
       THEN IF IsSet(hint + i)
            THEN /\ Unset(hint + i)
                 /\ i' = i + 1
                 /\ UNCHANGED <<pc, call, hint, ret, aborted>>
            ELSE AssertFails
       ELSE /\ Finish(ret)
            /\ UNCHANGED bitmap

\* Looks at the last byte only.
GetHighest ==
    /\ pc = "highest"
    /\ ~aborted
    /\ IF len > 0 /\ data[len - 1] # {}
       THEN /\ Finish((len - 1) * 8 + Highest(data[len - 1]))
            /\ UNCHANGED bitmap
       ELSE AssertFails

Next ==
    \/ \E c \in Requests : Call(c)
    \/ ProbeFree
    \/ ProbeSet
    \/ Fill
    \/ Free
    \/ GetHighest

Spec == Init /\ [][Next]_vars

-----------------------------------------------------------------------------
(* Properties.                                                             *)

\* The bitmap has the shape salloc.c relies on: len bytes are in use, they fit
\* the allocated chunks, and every byte is 8 bits.
TypeOK ==
    /\ alloced_chunks \in Nat
    /\ len \in 0 .. CHUNK_SIZE * alloced_chunks
    /\ data \in [0 .. (CHUNK_SIZE * alloced_chunks - 1) -> SUBSET (0 .. 7)]
    /\ pc \in {"idle", "probe", "fill", "free", "highest"}
    /\ call \in Requests \cup {NoCall}
    /\ hint \in Nat
    /\ i \in Nat
    /\ ret \in Nat \cup {SECTOR_NIL}
    /\ aborted \in BOOLEAN

\* A reservation takes effect with its first bit: the bits still to be set count
\* as used and the call as answered.  A release takes effect when it ends.
Granting == pc = "fill" /\ i < Size

UsedByClients ==
    SetSectors \cup (IF Granting \/ pc = "free" THEN Extent(hint, i) ELSE {})

Space == INSTANCE SectorSpace WITH
            used <- UsedByClients,
            reach <- 8 * len,
            call <- IF Granting THEN NoCall ELSE call,
            ret <- IF Granting THEN hint ELSE ret

\* salloc.c implements the allocator of sets: every call answers, and changes
\* the set of used sectors, as if it were served in one step; a reservation is
\* all or nothing, takes only free sectors and the lowest ones that fit.
ImplementsSectorSpace == Space!SpaceSpec

\* _vcd_salloc_set_size zeroes what it adds: a bit beyond len is never 1, so
\* growing the bitmap never brings a sector into use.
NothingBeyondLen ==
    \A b \in DOMAIN data : b >= len => data[b] = {}

=============================================================================
