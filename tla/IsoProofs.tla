------------------------------ MODULE IsoProofs ------------------------------
(***************************************************************************)
(* What the ISO 9660 track is made from.  The allocator, for every chunk   *)
(* size and every sequence of calls: the bitmap keeps its shape, what lies *)
(* beyond its length is zero, and it implements the set of sectors of      *)
(* module SectorSpace.  The directory, for every type of disc and whatever *)
(* the user adds in whatever order: it stays a tree on lists that may be   *)
(* walked, and begin_output aborts only for directories that nobody could  *)
(* make.                                                                   *)
(***************************************************************************)
EXTENDS Salloc, DiscTree, CommonProofs, FiniteSetTheorems

-----------------------------------------------------------------------------
(* The bitmap.                                                             *)

\* _vcd_salloc_set_size asks for chunks enough for the bytes it is given.
LEMMA ChunksEnough ==
    ASSUME NEW bytes \in Nat
    PROVE  /\ Chunks(bytes) \in Nat
           /\ CHUNK_SIZE * Chunks(bytes) >= bytes
  <1> DEFINE q == bytes \div CHUNK_SIZE
             r == bytes % CHUNK_SIZE
  <1>1. /\ CHUNK_SIZE \in Nat \ {0}
        /\ q \in Nat
        /\ r \in 0 .. CHUNK_SIZE - 1
        /\ bytes = CHUNK_SIZE * q + r
    BY SallocAssumption
  <1> HIDE DEF q, r
  <1>2. Chunks(bytes) = q + (IF r = 0 THEN 0 ELSE 1)
    BY DEF Chunks, q, r
  <1>3. CHUNK_SIZE * (q + 1) = CHUNK_SIZE * q + CHUNK_SIZE
    BY <1>1
  <1>4. CASE r = 0
    BY <1>1, <1>2, <1>4
  <1>5. CASE r # 0
    <2>1. Chunks(bytes) = q + 1
      BY <1>2, <1>5
    <2> QED
      BY <1>1, <1>3, <2>1
  <1> QED
    BY <1>4, <1>5

\* The allocated chunks never get fewer, and hold the bytes asked for.
LEMMA ChunksForEnough ==
    ASSUME TypeOK, NEW bytes \in Nat
    PROVE  /\ ChunksFor(bytes) \in Nat
           /\ CHUNK_SIZE * ChunksFor(bytes) >= bytes
           /\ CHUNK_SIZE * ChunksFor(bytes) >= CHUNK_SIZE * alloced_chunks
  <1>1. alloced_chunks \in Nat /\ CHUNK_SIZE \in Nat \ {0}
    BY SallocAssumption DEF TypeOK
  <1>2. Chunks(bytes) \in Nat /\ CHUNK_SIZE * Chunks(bytes) >= bytes
    BY ChunksEnough
  <1> DEFINE c == Chunks(bytes)
  <1>3. c \in Nat /\ CHUNK_SIZE * c >= bytes
    BY <1>2
  <1>4. ChunksFor(bytes) = IF alloced_chunks < c THEN c ELSE alloced_chunks
    BY DEF ChunksFor
  <1> HIDE DEF c
  <1>5. CASE alloced_chunks < c
    <2>1. CHUNK_SIZE * c >= CHUNK_SIZE * alloced_chunks
      BY <1>1, <1>3, <1>5
    <2> QED
      BY <1>1, <1>3, <1>4, <1>5, <2>1
  <1>6. CASE ~(alloced_chunks < c)
    <2>1. CHUNK_SIZE * alloced_chunks >= CHUNK_SIZE * c
      BY <1>1, <1>3, <1>6
    <2>2. CHUNK_SIZE * c \in Nat /\ CHUNK_SIZE * alloced_chunks \in Nat
      BY <1>1, <1>3
    <2> QED
      BY <1>1, <1>3, <1>4, <1>6, <2>1, <2>2
  <1> QED
    BY <1>5, <1>6


\* The sectors of the bitmap are those _vcd_salloc_is_set tells.
LEMMA SetSectorsMembers ==
    ASSUME TypeOK
    PROVE  /\ SetSectors \subseteq Nat
           /\ \A s \in Nat : s \in SetSectors <=> IsSet(s)
           /\ \A s \in SetSectors : s < 8 * len
  BY SallocAssumption DEF TypeOK, SetSectors, IsSet

\* The bytes a longer bitmap has: the old ones, and zeroes.
LEMMA ResizedBytes ==
    ASSUME TypeOK, NEW bytes \in Nat
    PROVE  /\ Resized(bytes) \in [0 .. (CHUNK_SIZE * ChunksFor(bytes) - 1) -> SUBSET (0 .. 7)]
           /\ \A b \in 0 .. (CHUNK_SIZE * ChunksFor(bytes) - 1) :
                Resized(bytes)[b] = IF b \in DOMAIN data THEN data[b] ELSE {}
  <1> DEFINE top == CHUNK_SIZE * ChunksFor(bytes) - 1
             old == CHUNK_SIZE * alloced_chunks - 1
  <1>1. data \in [0 .. old -> SUBSET (0 .. 7)]
    BY DEF TypeOK
  <1>2. Resized(bytes) = [b \in 0 .. top |-> IF b \in DOMAIN data THEN data[b] ELSE {}]
    BY DEF Resized
  <1> HIDE DEF top, old
  <1>3. Resized(bytes) \in [0 .. top -> SUBSET (0 .. 7)]
    BY <1>1, <1>2
  <1> QED
    BY <1>2, <1>3 DEF top

\* _vcd_salloc_set keeps the shape of the bitmap, and zeroes beyond its length.
LEMMA SetKeepsShape ==
    ASSUME TypeOK, NothingBeyondLen, NEW s \in Nat, Set(s)
    PROVE  /\ alloced_chunks' \in Nat
           /\ len' = IF s \div 8 < len THEN len ELSE s \div 8 + 1
           /\ len' \in 0 .. CHUNK_SIZE * alloced_chunks'
           /\ data' \in [0 .. (CHUNK_SIZE * alloced_chunks' - 1) -> SUBSET (0 .. 7)]
           /\ NothingBeyondLen'
           /\ \A b \in 0 .. len' - 1 :
                data'[b] = (IF b < len THEN data[b] ELSE {})
                             \cup (IF b = s \div 8 THEN {s % 8} ELSE {})
  <1> DEFINE at == s \div 8
             bit == s % 8
             old == CHUNK_SIZE * alloced_chunks
  <1>1. at \in Nat /\ bit \in 0 .. 7
    OBVIOUS
  <1>2. /\ alloced_chunks \in Nat
        /\ len \in 0 .. old
        /\ data \in [0 .. old - 1 -> SUBSET (0 .. 7)]
        /\ old \in Nat
    BY SallocAssumption DEF TypeOK
  <1>3. \A b \in DOMAIN data : b >= len => data[b] = {}
    BY DEF NothingBeyondLen
  <1>4. CASE at < len
    <2>1. /\ data' = [data EXCEPT ![at] = @ \cup {bit}]
          /\ len' = len
          /\ alloced_chunks' = alloced_chunks
      BY <1>4 DEF Set
    <2> HIDE DEF at, bit
    <2>2. DOMAIN data' = DOMAIN data
      BY <2>1
    <2>3. data' \in [0 .. old - 1 -> SUBSET (0 .. 7)]
      BY <1>1, <1>2, <2>1
    <2>4. NothingBeyondLen'
      BY <1>1, <1>2, <1>3, <1>4, <2>1, <2>2 DEF NothingBeyondLen
    <2>5. \A b \in 0 .. len' - 1 :
             data'[b] = (IF b < len THEN data[b] ELSE {})
                          \cup (IF b = at THEN {bit} ELSE {})
      BY <1>1, <1>2, <1>4, <2>1
    <2> QED
      BY <1>2, <1>4, <2>1, <2>3, <2>4, <2>5 DEF at, bit
  <1>5. CASE ~(at < len)
    <2> DEFINE new == CHUNK_SIZE * ChunksFor(at + 1)
               r == Resized(at + 1)
    <2>1. /\ data' = [b \in DOMAIN r |->
                       IF b = at THEN {bit}
                       ELSE IF b >= len /\ b < at THEN {}
                       ELSE r[b]]
          /\ len' = at + 1
          /\ alloced_chunks' = ChunksFor(at + 1)
      BY <1>5 DEF Set
    <2>2. /\ ChunksFor(at + 1) \in Nat
          /\ new >= at + 1
          /\ new >= old
      BY <1>1, ChunksForEnough
    <2>3. /\ r \in [0 .. new - 1 -> SUBSET (0 .. 7)]
          /\ \A b \in 0 .. new - 1 : r[b] = IF b \in DOMAIN data THEN data[b] ELSE {}
      BY <1>1, ResizedBytes
    <2>4. new \in Nat
      BY <2>2, SallocAssumption
    <2>5. CHUNK_SIZE * alloced_chunks' = new
      BY <2>1
    <2> HIDE DEF at, bit, old, new, r
    <2>6. DOMAIN data' = 0 .. new - 1
      BY <2>1, <2>3
    <2>7. data' \in [0 .. new - 1 -> SUBSET (0 .. 7)]
      BY <1>1, <2>1, <2>3
    <2>8. NothingBeyondLen'
      <3> SUFFICES ASSUME NEW b \in 0 .. new - 1, b >= at + 1
                   PROVE  data'[b] = {}
        BY <2>1, <2>6 DEF NothingBeyondLen
      <3>1. data'[b] = r[b]
        BY <1>1, <2>1, <2>3
      <3>2. r[b] = IF b \in DOMAIN data THEN data[b] ELSE {}
        BY <2>3
      <3>3. b >= len
        BY <1>1, <1>2, <1>5, <2>4
      <3> QED
        BY <1>3, <3>1, <3>2, <3>3
    <2>9. \A b \in 0 .. len' - 1 :
             data'[b] = (IF b < len THEN data[b] ELSE {})
                          \cup (IF b = at THEN {bit} ELSE {})
      <3> SUFFICES ASSUME NEW b \in 0 .. at
                   PROVE  data'[b] = (IF b < len THEN data[b] ELSE {})
                                       \cup (IF b = at THEN {bit} ELSE {})
        BY <1>1, <2>1
      <3>1. b \in 0 .. new - 1
        BY <1>1, <2>2, <2>4
      <3>2. CASE b = at
        BY <1>1, <1>2, <1>5, <2>1, <2>3, <3>1, <3>2
      <3>3. CASE b # at /\ b >= len
        BY <1>1, <1>2, <1>5, <2>1, <2>3, <3>1, <3>3
      <3>4. CASE b < len
        <4>1. data'[b] = r[b]
          BY <1>1, <1>2, <1>5, <2>1, <2>3, <3>1, <3>4
        <4>2. b \in DOMAIN data
          BY <1>2, <3>4
        <4> QED
          BY <1>1, <1>2, <1>5, <2>3, <3>1, <3>4, <4>1, <4>2
      <3> QED
        BY <1>1, <1>2, <3>2, <3>3, <3>4
    <2>10. len' \in 0 .. CHUNK_SIZE * alloced_chunks'
      BY <1>1, <2>1, <2>2, <2>4, <2>5
    <2>11. data' \in [0 .. (CHUNK_SIZE * alloced_chunks' - 1) -> SUBSET (0 .. 7)]
      BY <2>5, <2>7
    <2>12. alloced_chunks' \in Nat /\ len' = IF at < len THEN len ELSE at + 1
      BY <1>5, <2>1, <2>2
    <2> QED
      BY <2>8, <2>9, <2>10, <2>11, <2>12 DEF at, bit
  <1> QED
    BY <1>4, <1>5

\* _vcd_salloc_set adds one sector, and makes the bitmap reach it.
LEMMA SetAddsSector ==
    ASSUME TypeOK, NothingBeyondLen, NEW s \in Nat, Set(s)
    PROVE  SetSectors' = SetSectors \cup {s}
  <1>1. /\ len \in Nat
        /\ len' = IF s \div 8 < len THEN len ELSE s \div 8 + 1
        /\ \A b \in 0 .. len' - 1 :
              data'[b] = (IF b < len THEN data[b] ELSE {})
                           \cup (IF b = s \div 8 THEN {s % 8} ELSE {})
    BY SetKeepsShape, SallocAssumption DEF TypeOK
  <1>2. SetSectors' = {t \in 0 .. (8 * len' - 1) : t \div 8 < len' /\ t % 8 \in data'[t \div 8]}
    BY DEF SetSectors, IsSet
  <1>3. SetSectors = {t \in 0 .. (8 * len - 1) : t \div 8 < len /\ t % 8 \in data[t \div 8]}
    BY DEF SetSectors, IsSet
  <1>4. \A t \in Nat : t \in SetSectors' <=> t \in SetSectors \/ t = s
    <2> SUFFICES ASSUME NEW t \in Nat
                 PROVE  t \in SetSectors' <=> t \in SetSectors \/ t = s
      OBVIOUS
    <2> DEFINE b == t \div 8
               x == t % 8
    <2>1. b \in Nat /\ x \in 0 .. 7 /\ t = 8 * b + x
      OBVIOUS
    <2>2. s \div 8 \in Nat /\ s % 8 \in 0 .. 7 /\ s = 8 * (s \div 8) + (s % 8)
      OBVIOUS
    <2>3. t = s <=> b = s \div 8 /\ x = s % 8
      BY <2>1, <2>2
    <2>4. t \in SetSectors' <=> b < len' /\ x \in data'[b]
      BY <1>1, <1>2, <2>1
    <2>5. t \in SetSectors <=> b < len /\ x \in data[b]
      BY <1>1, <1>3, <2>1
    <2> HIDE DEF b, x
    <2>6. CASE b < len'
      <3>1. data'[b] = (IF b < len THEN data[b] ELSE {})
                           \cup (IF b = s \div 8 THEN {s % 8} ELSE {})
        BY <1>1, <2>1, <2>2, <2>6
      <3> QED
        BY <2>3, <2>4, <2>5, <2>6, <3>1
    <2>7. CASE ~(b < len')
      BY <1>1, <2>1, <2>2, <2>3, <2>4, <2>5, <2>7
    <2> QED
      BY <2>6, <2>7
  <1> QED
    BY <1>1, <1>2, <1>3, <1>4

\* _vcd_salloc_unset takes one sector away, and nothing else.
LEMMA UnsetTakesSector ==
    ASSUME TypeOK, NothingBeyondLen, NEW s \in Nat, IsSet(s), Unset(s)
    PROVE  /\ SetSectors' = SetSectors \ {s}
           /\ data' \in [0 .. (CHUNK_SIZE * alloced_chunks - 1) -> SUBSET (0 .. 7)]
           /\ NothingBeyondLen'
  <1> DEFINE at == s \div 8
             bit == s % 8
             old == CHUNK_SIZE * alloced_chunks
  <1>1. at \in Nat /\ bit \in 0 .. 7 /\ s = 8 * at + bit
    OBVIOUS
  <1>2. /\ len \in 0 .. old
        /\ data \in [0 .. old - 1 -> SUBSET (0 .. 7)]
        /\ old \in Nat
        /\ at < len
    BY SallocAssumption DEF TypeOK, IsSet
  <1>3. data' = [data EXCEPT ![at] = @ \ {bit}] /\ len' = len
    BY DEF Unset
  <1>4. SetSectors' = {t \in 0 .. (8 * len' - 1) : t \div 8 < len' /\ t % 8 \in data'[t \div 8]}
    BY DEF SetSectors, IsSet
  <1>5. SetSectors = {t \in 0 .. (8 * len - 1) : t \div 8 < len /\ t % 8 \in data[t \div 8]}
    BY DEF SetSectors, IsSet
  <1> HIDE DEF at, bit, old
  <1>6. data' \in [0 .. old - 1 -> SUBSET (0 .. 7)]
    BY <1>1, <1>2, <1>3
  <1>7. NothingBeyondLen'
    BY <1>1, <1>2, <1>3 DEF NothingBeyondLen
  <1>8. \A t \in 0 .. (8 * len - 1) : t \in SetSectors' <=> t \in SetSectors /\ t # s
    <2> SUFFICES ASSUME NEW t \in 0 .. (8 * len - 1)
                 PROVE  t \in SetSectors' <=> t \in SetSectors /\ t # s
      OBVIOUS
    <2> DEFINE b == t \div 8
               x == t % 8
    <2>1. b \in 0 .. len - 1 /\ x \in 0 .. 7 /\ t = 8 * b + x
      BY <1>2
    <2>2. t \in SetSectors' <=> b < len' /\ x \in data'[b]
      BY <1>3, <1>4
    <2>3. t \in SetSectors <=> b < len /\ x \in data[b]
      BY <1>5
    <2> HIDE DEF b, x
    <2>4. t = s <=> b = at /\ x = bit
      BY <1>1, <2>1
    <2>5. data'[b] = IF b = at THEN data[b] \ {bit} ELSE data[b]
      <3>1. b \in DOMAIN data
        BY <1>2, <2>1
      <3> QED
        BY <1>3, <3>1
    <2> QED
      BY <1>3, <2>2, <2>3, <2>4, <2>5
  <1>9. SetSectors' = SetSectors \ {s}
    BY <1>3, <1>4, <1>5, <1>8
  <1> QED
    BY <1>6, <1>7, <1>9 DEF old

-----------------------------------------------------------------------------
(* The shape of the bitmap.                                                *)

\* Every call has a size; a place too, but for an allocation anywhere.
LEMMA CallTypes ==
    ASSUME TypeOK
    PROVE  /\ call.size \in Nat
           /\ call.sec \in Nat \cup {SECTOR_NIL}
           /\ Size \in Nat \ {0}
           /\ call.op = "free" => call.sec \in Nat
  <1>1. SECTOR_NIL = -1
    BY DEF SECTOR_NIL
  <1>2. /\ call.size \in Nat
        /\ call.sec \in Nat \cup {SECTOR_NIL}
        /\ call.op = "free" => call.sec \in Nat
    BY <1>1, SallocAssumption DEF TypeOK, NoCall
  <1> QED
    BY <1>2 DEF Size, Granted

\* The highest bit of a byte that is not zero, which _vcd_salloc_get_highest
\* looks for, is one of its bits, and none of them is higher.
LEMMA HighestBit ==
    ASSUME NEW byte \in SUBSET (0 .. 7), byte # {}
    PROVE  /\ Highest(byte) \in byte
           /\ \A x \in byte : x <= Highest(byte)
  <1>1. \E h \in byte : \A x \in byte : x <= h
    <2>1. CASE 7 \in byte
      BY <2>1
    <2>2. CASE 7 \notin byte /\ 6 \in byte
      BY <2>2
    <2>3. CASE 7 \notin byte /\ 6 \notin byte /\ 5 \in byte
      BY <2>3
    <2>4. CASE {5, 6, 7} \cap byte = {} /\ 4 \in byte
      BY <2>4
    <2>5. CASE {4, 5, 6, 7} \cap byte = {} /\ 3 \in byte
      BY <2>5
    <2>6. CASE {3, 4, 5, 6, 7} \cap byte = {} /\ 2 \in byte
      BY <2>6
    <2>7. CASE {2, 3, 4, 5, 6, 7} \cap byte = {} /\ 1 \in byte
      BY <2>7
    <2>8. CASE {1, 2, 3, 4, 5, 6, 7} \cap byte = {}
      <3>1. \A x \in byte : x = 0
        <4> SUFFICES ASSUME NEW x \in byte PROVE x = 0
          OBVIOUS
        <4>1. x \in 0 .. 7 /\ x \notin {1, 2, 3, 4, 5, 6, 7}
          BY <2>8
        <4> QED
          BY <4>1
      <3>2. PICK h \in byte : TRUE
        OBVIOUS
      <3>3. \A x \in byte : x <= h
        BY <3>1, <3>2
      <3> QED
        BY <3>2, <3>3
    <2> QED
      BY <2>1, <2>2, <2>3, <2>4, <2>5, <2>6, <2>7, <2>8
  <1> QED
    BY <1>1 DEF Highest

BitmapShape == TypeOK /\ NothingBeyondLen

\* A new bitmap is empty.
LEMMA InitShape == Init => BitmapShape
  <1> SUFFICES ASSUME Init PROVE BitmapShape
    OBVIOUS
  <1>1. CHUNK_SIZE * alloced_chunks = 0
    BY SallocAssumption DEF Init
  <1>2. DOMAIN data = {} /\ data = [b \in {} |-> {}]
    BY DEF Init
  <1>3. 0 .. (CHUNK_SIZE * alloced_chunks - 1) = {}
    BY <1>1
  <1>4. data \in [0 .. (CHUNK_SIZE * alloced_chunks - 1) -> SUBSET (0 .. 7)]
    BY <1>2, <1>3
  <1>5. NothingBeyondLen
    BY <1>2 DEF NothingBeyondLen
  <1>6. /\ alloced_chunks = 0
        /\ len \in 0 .. CHUNK_SIZE * alloced_chunks
    BY <1>1 DEF Init
  <1>7. /\ pc \in {"idle", "probe", "fill", "free", "highest"}
        /\ call \in Requests \cup {NoCall}
        /\ hint \in Nat
        /\ i \in Nat
        /\ ret \in Nat \cup {SECTOR_NIL}
        /\ aborted \in BOOLEAN
    BY DEF Init
  <1> QED
    BY <1>4, <1>5, <1>6, <1>7 DEF BitmapShape, TypeOK

\* A call leaves the bitmap to its loops.
LEMMA CallShape ==
    ASSUME BitmapShape, NEW c \in Requests, Call(c)
    PROVE  BitmapShape'
  <1>1. c.op \in {"alloc", "free", "highest"} /\ c.sec \in Nat \cup {SECTOR_NIL}
    BY SallocAssumption
  <1>2. /\ pc' \in {"idle", "probe", "fill", "free", "highest"}
        /\ call' \in Requests \cup {NoCall}
        /\ hint' \in Nat
        /\ i' \in Nat
    BY <1>1 DEF Call
  <1>3. UNCHANGED <<data, len, alloced_chunks, ret, aborted>>
    BY DEF Call, bitmap
  <1> QED
    BY <1>2, <1>3 DEF BitmapShape, TypeOK, NothingBeyondLen

\* Looking for a place changes no bit.
LEMMA ProbeShape ==
    ASSUME BitmapShape, ProbeFree \/ ProbeSet
    PROVE  BitmapShape'
  <1>1. UNCHANGED <<data, len, alloced_chunks, aborted>>
    BY DEF ProbeFree, ProbeSet, Finish, bitmap
  <1>2. /\ hint \in Nat
        /\ i \in Nat
        /\ ret \in Nat \cup {SECTOR_NIL}
        /\ call \in Requests \cup {NoCall}
        /\ pc \in {"idle", "probe", "fill", "free", "highest"}
    BY DEF BitmapShape, TypeOK
  <1>3. /\ hint' \in Nat
        /\ i' \in Nat
        /\ ret' \in Nat \cup {SECTOR_NIL}
        /\ call' \in Requests \cup {NoCall}
        /\ pc' \in {"idle", "probe", "fill", "free", "highest"}
    <2>1. CASE ProbeFree
      BY <1>2, <2>1 DEF ProbeFree
    <2>2. CASE ProbeSet
      BY <1>2, <2>2 DEF ProbeSet, Finish
    <2> QED
      BY <2>1, <2>2
  <1> QED
    BY <1>1, <1>3 DEF BitmapShape, TypeOK, NothingBeyondLen

\* Setting the bits of a reservation keeps the shape.
LEMMA FillShape ==
    ASSUME BitmapShape, Fill
    PROVE  BitmapShape'
  <1>1. CASE i > 0
    <2>1. hint + i - 1 \in Nat /\ i - 1 \in Nat
      BY <1>1 DEF BitmapShape, TypeOK
    <2>2. Set(hint + i - 1) /\ i' = i - 1 /\ UNCHANGED <<pc, call, hint, ret, aborted>>
      BY <1>1 DEF Fill
    <2> DEFINE s == hint + i - 1
    <2>3. s \in Nat /\ Set(s)
      BY <2>1, <2>2
    <2> HIDE DEF s
    <2>4. /\ alloced_chunks' \in Nat
          /\ len' \in 0 .. CHUNK_SIZE * alloced_chunks'
          /\ data' \in [0 .. (CHUNK_SIZE * alloced_chunks' - 1) -> SUBSET (0 .. 7)]
          /\ NothingBeyondLen'
      BY <2>3, SetKeepsShape DEF BitmapShape
    <2> QED
      BY <2>1, <2>2, <2>4 DEF BitmapShape, TypeOK
  <1>2. CASE ~(i > 0)
    BY <1>2 DEF Fill, Finish, bitmap, BitmapShape, TypeOK, NothingBeyondLen
  <1> QED
    BY <1>1, <1>2

\* So does taking the bits of a release away.
LEMMA FreeShape ==
    ASSUME BitmapShape, Free
    PROVE  BitmapShape'
  <1>1. CASE i < call.size /\ IsSet(hint + i)
    <2>1. hint + i \in Nat /\ i + 1 \in Nat
      BY DEF BitmapShape, TypeOK
    <2>2. Unset(hint + i) /\ i' = i + 1 /\ UNCHANGED <<pc, call, hint, ret, aborted>>
      BY <1>1 DEF Free
    <2> DEFINE s == hint + i
    <2>3. s \in Nat /\ IsSet(s) /\ Unset(s)
      BY <1>1, <2>1, <2>2
    <2> HIDE DEF s
    <2>4. /\ data' \in [0 .. (CHUNK_SIZE * alloced_chunks - 1) -> SUBSET (0 .. 7)]
          /\ NothingBeyondLen'
      BY <2>3, UnsetTakesSector DEF BitmapShape
    <2>5. UNCHANGED <<len, alloced_chunks>>
      BY <2>3 DEF Unset
    <2> QED
      BY <2>1, <2>2, <2>4, <2>5 DEF BitmapShape, TypeOK
  <1>2. CASE ~(i < call.size /\ IsSet(hint + i))
    BY <1>2 DEF Free, Finish, AssertFails, bitmap, BitmapShape, TypeOK, NothingBeyondLen
  <1> QED
    BY <1>1, <1>2

\* What _vcd_salloc_get_highest returns is a sector.
LEMMA GetHighestShape ==
    ASSUME BitmapShape, GetHighest
    PROVE  BitmapShape'
  <1>1. CASE len > 0 /\ data[len - 1] # {}
    <2>1. data[len - 1] \in SUBSET (0 .. 7) /\ len - 1 \in Nat
      BY <1>1, SallocAssumption DEF BitmapShape, TypeOK
    <2>2. Highest(data[len - 1]) \in Nat
      BY <1>1, <2>1, HighestBit
    <2>3. (len - 1) * 8 + Highest(data[len - 1]) \in Nat
      BY <2>1, <2>2
    <2>4. Finish((len - 1) * 8 + Highest(data[len - 1])) /\ UNCHANGED bitmap
      BY <1>1 DEF GetHighest
    <2> QED
      BY <2>3, <2>4 DEF Finish, bitmap, BitmapShape, TypeOK, NothingBeyondLen
  <1>2. CASE ~(len > 0 /\ data[len - 1] # {})
    BY <1>2 DEF GetHighest, AssertFails, bitmap, BitmapShape, TypeOK, NothingBeyondLen
  <1> QED
    BY <1>1, <1>2

\* Every step of every loop keeps the bitmap's shape and the zeroes beyond it.
LEMMA NextShape == BitmapShape /\ [Next]_vars => BitmapShape'
  <1> SUFFICES ASSUME BitmapShape, [Next]_vars PROVE BitmapShape'
    OBVIOUS
  <1>1. CASE \E c \in Requests : Call(c)
    BY <1>1, CallShape
  <1>2. CASE ProbeFree \/ ProbeSet
    BY <1>2, ProbeShape
  <1>3. CASE Fill
    BY <1>3, FillShape
  <1>4. CASE Free
    BY <1>4, FreeShape
  <1>5. CASE GetHighest
    BY <1>5, GetHighestShape
  <1>6. CASE UNCHANGED vars
    BY <1>6 DEF vars, BitmapShape, TypeOK, NothingBeyondLen
  <1> QED
    BY <1>1, <1>2, <1>3, <1>4, <1>5, <1>6 DEF Next

\* Whatever calls are made, in whatever chunks the bitmap grows, it keeps the shape
\* salloc.c relies on: no bit is ever looked for outside the allocated bytes.
THEOREM BitmapTypeCorrect == Spec => []TypeOK
  BY InitShape, NextShape, PTL DEF Spec, BitmapShape

\* No bit beyond the length is ever 1: the bytes realloc adds are zeroed, and the
\* bytes a longer bitmap takes in were never set.
THEOREM NothingBeyondLenCorrect == Spec => []NothingBeyondLen
  BY InitShape, NextShape, PTL DEF Spec, BitmapShape

-----------------------------------------------------------------------------
(* The promise.                                                            *)

\* Which loop runs tells which call is served.
CallServed ==
    /\ pc = "idle" => call = NoCall
    /\ pc \in {"probe", "fill"} => call.op = "alloc"
    /\ pc = "free" => call.op = "free"
    /\ pc = "highest" => call.op = "highest"

\* No bit of the extent is set yet.
Searching == pc = "probe" \/ (pc = "fill" /\ i = Size)

\* What was probed is free, and the places passed over are not.
Searched ==
    /\ pc \in {"probe", "fill"} => i <= Size
    /\ Searching =>
         /\ IsFree(SetSectors, hint, i)
         /\ IF call.sec = SECTOR_NIL
            THEN \A g \in 0 .. hint - 1 : ~IsFree(SetSectors, g, Size)
            ELSE hint = call.sec

\* The first bit set is the highest: the bitmap is as long as it will be.
Reached == Granting => hint + Size <= 8 * len

\* What was released is free.
Released ==
    pc = "free" =>
      /\ hint = call.sec
      /\ i <= call.size
      /\ IsFree(SetSectors, hint, i)

LoopInv == BitmapShape /\ CallServed /\ Searched /\ Reached /\ Released

\* An extent grows by its last sector.
LEMMA ExtentGrows ==
    ASSUME NEW start \in Nat, NEW size \in Nat
    PROVE  /\ Extent(start, 0) = {}
           /\ Extent(start, size + 1) = Extent(start, size) \cup {start + size}
           /\ start + size \notin Extent(start, size)
           /\ Extent(start, size) \subseteq Nat
  BY DEF Extent

\* In the beginning nothing is served.
LEMMA InitServed == Init => LoopInv
  <1> SUFFICES ASSUME Init PROVE LoopInv
    OBVIOUS
  <1>1. BitmapShape
    BY InitShape
  <1>2. pc = "idle" /\ call = NoCall
    BY DEF Init
  <1> QED
    BY <1>1, <1>2 DEF LoopInv, CallServed, Searched, Searching, Reached, Granting, Released

\* A call starts its loop with nothing probed and nothing released.
LEMMA CallKeeps ==
    ASSUME LoopInv, NEW c \in Requests, Call(c)
    PROVE  LoopInv'
  <1>1. BitmapShape'
    BY CallShape DEF LoopInv
  <1>2. /\ call' = c
        /\ pc' = IF c.op = "alloc" THEN "probe" ELSE c.op
        /\ hint' = IF c.sec = SECTOR_NIL THEN 0 ELSE c.sec
        /\ i' = 0
    BY DEF Call
  <1>3. /\ c.op \in {"alloc", "free", "highest"}
        /\ c.sec \in Nat \cup {SECTOR_NIL}
        /\ c.size \in Nat
        /\ c.op = "free" => c.sec \in Nat
        /\ SECTOR_NIL = -1
    BY SallocAssumption DEF SECTOR_NIL
  <1>4. hint' \in Nat /\ Size' \in Nat \ {0}
    BY <1>1, <1>2, <1>3 DEF BitmapShape, TypeOK, Size, Granted
  <1>5. IsFree(SetSectors', hint', i')
    BY <1>2, <1>4 DEF IsFree, Extent
  <1>6. CallServed'
    BY <1>2, <1>3 DEF CallServed
  <1>7. (pc \in {"probe", "fill"} => i <= Size)'
    BY <1>2, <1>4
  <1>8. c.sec = SECTOR_NIL => hint' = 0 /\ 0 .. hint' - 1 = {}
    BY <1>2
  <1>9. Searched'
    BY <1>2, <1>5, <1>7, <1>8 DEF Searched
  <1>10. pc' # "fill"
    BY <1>2, <1>3
  <1>11. Reached'
    BY <1>10 DEF Reached, Granting
  <1>12. Released'
    <2> SUFFICES ASSUME pc' = "free" PROVE (hint = call.sec /\ i <= call.size)'
      BY <1>5 DEF Released
    <2>1. c.op = "free"
      BY <1>2, <1>3
    <2>2. c.sec # SECTOR_NIL
      BY <2>1, <1>3
    <2> QED
      BY <1>2, <1>3, <2>2
  <1> QED
    BY <1>1, <1>6, <1>9, <1>11, <1>12 DEF LoopInv

\* A probe that finds the sector free adds it to what was probed.
LEMMA ProbeFreeKeeps ==
    ASSUME LoopInv, ProbeFree
    PROVE  LoopInv'
  <1>1. BitmapShape'
    BY ProbeShape DEF LoopInv
  <1>2. /\ pc = "probe"
        /\ call' = call
        /\ hint' = hint
        /\ data' = data
        /\ len' = len
    BY DEF ProbeFree, bitmap
  <1>3. SetSectors' = SetSectors /\ Size' = Size
    BY <1>2 DEF SetSectors, IsSet, Size
  <1>4. Size \in Nat \ {0} /\ i \in Nat /\ hint \in Nat
    BY CallTypes DEF LoopInv, BitmapShape, TypeOK
  <1>5. /\ call.op = "alloc"
        /\ i <= Size
        /\ IsFree(SetSectors, hint, i)
        /\ IF call.sec = SECTOR_NIL
           THEN \A g \in 0 .. hint - 1 : ~IsFree(SetSectors, g, Size)
           ELSE hint = call.sec
    BY <1>2 DEF LoopInv, CallServed, Searched, Searching
  <1>6. CASE i < Size
    <2>1. pc' = "probe" /\ i' = i + 1 /\ ~IsSet(hint + i)
      BY <1>2, <1>6 DEF ProbeFree
    <2>2. hint + i \notin SetSectors
      BY <1>4, <2>1, SetSectorsMembers DEF LoopInv, BitmapShape
    <2>3. IsFree(SetSectors, hint, i + 1)
      BY <1>4, <1>5, <2>2, ExtentGrows DEF IsFree
    <2>4. Searched'
      <3>1. i' <= Size
        BY <1>4, <1>6, <2>1
      <3> QED
        BY <1>2, <1>3, <1>5, <2>1, <2>3, <3>1 DEF Searched
    <2> QED
      BY <1>1, <1>2, <1>5, <2>1, <2>4
      DEF LoopInv, CallServed, Reached, Granting, Released
  <1>7. CASE ~(i < Size)
    <2>1. pc' = "fill" /\ i' = i /\ i = Size
      BY <1>2, <1>4, <1>5, <1>7 DEF ProbeFree
    <2>2. Searched'
      BY <1>2, <1>3, <1>5, <2>1 DEF Searched
    <2>3. ~Granting'
      BY <1>3, <1>4, <2>1 DEF Granting
    <2> QED
      BY <1>1, <1>2, <1>5, <2>1, <2>2, <2>3
      DEF LoopInv, CallServed, Reached, Released
  <1> QED
    BY <1>6, <1>7

\* When a call ends, no loop runs.
LEMMA FinishKeeps ==
    ASSUME BitmapShape', NEW value, Finish(value)
    PROVE  LoopInv'
  BY DEF Finish, LoopInv, CallServed, Searched, Searching, Reached, Granting, Released

\* A probe that finds the sector in use passes the place over.
LEMMA ProbeSetKeeps ==
    ASSUME LoopInv, ProbeSet
    PROVE  LoopInv'
  <1>1. BitmapShape'
    BY ProbeShape DEF LoopInv
  <1>2. /\ pc = "probe"
        /\ i < Size
        /\ IsSet(hint + i)
        /\ data' = data
        /\ len' = len
    BY DEF ProbeSet, bitmap
  <1>3. Size \in Nat \ {0} /\ i \in Nat /\ hint \in Nat
    BY CallTypes DEF LoopInv, BitmapShape, TypeOK
  <1>4. CASE call.sec = SECTOR_NIL
    <2>1. hint' = hint + 1 /\ i' = 0 /\ pc' = pc /\ call' = call
      BY <1>4 DEF ProbeSet
    <2>2. SetSectors' = SetSectors /\ Size' = Size
      BY <1>2, <2>1 DEF SetSectors, IsSet, Size
    <2>3. /\ call.op = "alloc"
          /\ \A g \in 0 .. hint - 1 : ~IsFree(SetSectors, g, Size)
      BY <1>2, <1>4 DEF LoopInv, CallServed, Searched, Searching
    <2>4. ~IsFree(SetSectors, hint, Size)
      <3>1. hint + i \in SetSectors
        BY <1>2, <1>3, SetSectorsMembers DEF LoopInv, BitmapShape
      <3>2. hint + i \in Extent(hint, Size)
        BY <1>2, <1>3 DEF Extent
      <3> QED
        BY <3>1, <3>2 DEF IsFree
    <2>5. \A g \in 0 .. hint' - 1 : ~IsFree(SetSectors, g, Size)
      <3> SUFFICES ASSUME NEW g \in 0 .. hint PROVE ~IsFree(SetSectors, g, Size)
        BY <1>3, <2>1
      <3>1. CASE g = hint
        BY <2>4, <3>1
      <3>2. CASE g # hint
        BY <1>3, <2>3, <3>2
      <3> QED
        BY <3>1, <3>2
    <2>6. IsFree(SetSectors, hint', 0)
      BY <1>3, <2>1 DEF IsFree, Extent
    <2>7. i' <= Size
      BY <1>3, <2>1
    <2>8. Searched'
      BY <1>2, <1>4, <2>1, <2>2, <2>5, <2>6, <2>7 DEF Searched
    <2> QED
      BY <1>1, <1>2, <2>1, <2>3, <2>8
      DEF LoopInv, CallServed, Reached, Granting, Released
  <1>5. CASE call.sec # SECTOR_NIL
    <2>1. Finish(SECTOR_NIL)
      BY <1>5 DEF ProbeSet
    <2> QED
      BY <1>1, <2>1, FinishKeeps
  <1> QED
    BY <1>4, <1>5

\* The first bit set makes the bitmap long enough for the others.
LEMMA FillKeeps ==
    ASSUME LoopInv, Fill
    PROVE  LoopInv'
  <1>1. BitmapShape'
    BY FillShape DEF LoopInv
  <1>2. CASE i > 0
    <2> DEFINE s == hint + i - 1
    <2>1. /\ pc = "fill"
          /\ Set(s)
          /\ i' = i - 1
          /\ pc' = pc
          /\ call' = call
          /\ hint' = hint
      BY <1>2 DEF Fill
    <2>2. /\ Size \in Nat \ {0}
          /\ i \in Nat
          /\ hint \in Nat
          /\ len \in Nat
      BY CallTypes, SallocAssumption DEF LoopInv, BitmapShape, TypeOK
    <2>3. s \in Nat
      BY <1>2, <2>2
    <2>4. i <= Size /\ call.op = "alloc"
      BY <2>1 DEF LoopInv, Searched, CallServed
    <2>5. Size' = Size
      BY <2>1 DEF Size
    <2>6. ~Searching' /\ i' < Size /\ i' <= Size
      BY <1>2, <2>1, <2>2, <2>4, <2>5 DEF Searching
    <2>7. len' = IF s \div 8 < len THEN len ELSE s \div 8 + 1
      BY <2>1, <2>3, SetKeepsShape DEF LoopInv, BitmapShape
    <2>8. /\ s \div 8 \in Nat
          /\ s < 8 * (s \div 8) + 8
      BY <2>3
    <2>9. hint + Size <= 8 * len'
      <3> DEFINE at == s \div 8
                 newlen == len'
      <3>1. /\ newlen \in Nat
            /\ len <= newlen
            /\ at + 1 <= newlen
        <4>1. newlen = IF at < len THEN len ELSE at + 1
          BY <2>7
        <4>2. at \in Nat
          BY <2>8
        <4> HIDE DEF at, newlen
        <4> QED
          BY <2>2, <4>1, <4>2
      <3>2. at \in Nat /\ s + 1 <= 8 * at + 8
        BY <2>3, <2>8
      <3>3. CASE i = Size
        <4>1. s + 1 = hint + Size
          BY <2>2, <3>3
        <4> HIDE DEF s, at, newlen
        <4>2. 8 * at + 8 <= 8 * newlen
          BY <3>1, <3>2
        <4>3. hint + Size <= 8 * newlen
          BY <2>2, <3>1, <3>2, <4>1, <4>2
        <4> QED
          BY <4>3 DEF newlen
      <3>4. CASE i < Size
        <4>1. hint + Size <= 8 * len
          BY <2>1, <3>4 DEF LoopInv, Reached, Granting
        <4> HIDE DEF s, at, newlen
        <4>2. hint + Size <= 8 * newlen
          BY <2>2, <3>1, <4>1
        <4> QED
          BY <4>2 DEF newlen
      <3> QED
        BY <2>2, <2>4, <3>3, <3>4
    <2>10. Searched'
      BY <2>5, <2>6 DEF Searched
    <2>11. Reached'
      BY <2>1, <2>5, <2>9 DEF Reached
    <2> QED
      BY <1>1, <2>1, <2>4, <2>10, <2>11 DEF LoopInv, CallServed, Released
  <1>3. CASE ~(i > 0)
    <2>1. Finish(hint)
      BY <1>3 DEF Fill
    <2> QED
      BY <1>1, <2>1, FinishKeeps
  <1> QED
    BY <1>2, <1>3

\* A failed assertion leaves everything as it was.
LEMMA AssertFailsKeeps ==
    ASSUME LoopInv, BitmapShape', AssertFails
    PROVE  LoopInv'
  <1>1. /\ data' = data
        /\ len' = len
        /\ pc' = pc
        /\ call' = call
        /\ hint' = hint
        /\ i' = i
    BY DEF AssertFails, bitmap
  <1>2. SetSectors' = SetSectors /\ Size' = Size
    BY <1>1 DEF SetSectors, IsSet, Size
  <1>3. Searched' /\ Reached' /\ Released' /\ CallServed'
    BY <1>1, <1>2
    DEF LoopInv, CallServed, Searched, Searching, Reached, Granting, Released
  <1> QED
    BY <1>3 DEF LoopInv

\* A sector released is free.
LEMMA FreeKeeps ==
    ASSUME LoopInv, Free
    PROVE  LoopInv'
  <1>1. BitmapShape'
    BY FreeShape DEF LoopInv
  <1>2. pc = "free" /\ call.op = "free"
    BY DEF Free, LoopInv, CallServed
  <1>3. CASE i < call.size /\ IsSet(hint + i)
    <2> DEFINE s == hint + i
    <2>1. /\ IsSet(s)
          /\ Unset(s)
          /\ i' = i + 1
          /\ pc' = pc
          /\ call' = call
          /\ hint' = hint
      BY <1>3 DEF Free
    <2>2. i \in Nat /\ hint \in Nat /\ call.size \in Nat
      BY CallTypes DEF LoopInv, BitmapShape, TypeOK
    <2>3. s \in Nat
      BY <2>2
    <2>4. SetSectors' = SetSectors \ {s}
      <3> HIDE DEF s
      <3> QED
        BY <2>1, <2>3, UnsetTakesSector DEF LoopInv, BitmapShape
    <2>5. hint = call.sec /\ IsFree(SetSectors, hint, i)
      BY <1>2 DEF LoopInv, Released
    <2>6. IsFree(SetSectors', hint, i + 1)
      <3> SUFFICES ASSUME NEW t \in Extent(hint, i + 1) PROVE t \notin SetSectors'
        BY DEF IsFree
      <3>1. t \in Extent(hint, i) \/ t = s
        BY <2>2, ExtentGrows
      <3> QED
        BY <2>4, <2>5, <3>1 DEF IsFree
    <2>7. i + 1 <= call.size
      BY <1>3, <2>2
    <2>8. Released'
      BY <2>1, <2>5, <2>6, <2>7 DEF Released
    <2> QED
      BY <1>1, <1>2, <2>1, <2>8
      DEF LoopInv, CallServed, Searched, Searching, Reached, Granting
  <1>4. CASE i < call.size /\ ~IsSet(hint + i)
    <2>1. AssertFails
      BY <1>4 DEF Free
    <2> QED
      BY <1>1, <2>1, AssertFailsKeeps
  <1>5. CASE ~(i < call.size)
    <2>1. Finish(ret)
      BY <1>5 DEF Free
    <2> QED
      BY <1>1, <2>1, FinishKeeps
  <1> QED
    BY <1>3, <1>4, <1>5

\* Looking at the last byte changes no bit.
LEMMA GetHighestKeeps ==
    ASSUME LoopInv, GetHighest
    PROVE  LoopInv'
  <1>1. BitmapShape'
    BY GetHighestShape DEF LoopInv
  <1>2. CASE AssertFails
    BY <1>1, <1>2, AssertFailsKeeps
  <1>3. CASE Finish((len - 1) * 8 + Highest(data[len - 1]))
    BY <1>1, <1>3, FinishKeeps
  <1> QED
    BY <1>2, <1>3 DEF GetHighest

\* Every step of every loop keeps what the loops rely on.
LEMMA NextKeeps == LoopInv /\ [Next]_vars => LoopInv'
  <1> SUFFICES ASSUME LoopInv, [Next]_vars PROVE LoopInv'
    OBVIOUS
  <1>1. CASE \E c \in Requests : Call(c)
    BY <1>1, CallKeeps
  <1>2. CASE ProbeFree
    BY <1>2, ProbeFreeKeeps
  <1>3. CASE ProbeSet
    BY <1>3, ProbeSetKeeps
  <1>4. CASE Fill
    BY <1>4, FillKeeps
  <1>5. CASE Free
    BY <1>5, FreeKeeps
  <1>6. CASE GetHighest
    BY <1>6, GetHighestKeeps
  <1>7. CASE UNCHANGED vars
    <2>1. /\ data' = data
          /\ len' = len
          /\ pc' = pc
          /\ call' = call
          /\ hint' = hint
          /\ i' = i
      BY <1>7 DEF vars
    <2>2. BitmapShape'
      BY NextShape DEF LoopInv
    <2>3. SetSectors' = SetSectors /\ Size' = Size
      BY <2>1 DEF SetSectors, IsSet, Size
    <2> QED
      BY <2>1, <2>2, <2>3
      DEF LoopInv, CallServed, Searched, Searching, Reached, Granting, Released
  <1> QED
    BY <1>1, <1>2, <1>3, <1>4, <1>5, <1>6, <1>7 DEF Next

-----------------------------------------------------------------------------
(* Every step of a loop is a step of SectorSpace, or none.                 *)

CallNow == IF Granting THEN NoCall ELSE call
RetNow == IF Granting THEN hint ELSE ret

\* SectorSpace speaks of the same extents.
LEMMA SameWords ==
    /\ Space!SECTOR_NIL = SECTOR_NIL
    /\ Space!NoCall = NoCall
    /\ \A n : Space!Granted(n) = Granted(n)
    /\ \A start, size : Space!Extent(start, size) = Extent(start, size)
    /\ \A used, start, size : Space!IsFree(used, start, size) = IsFree(used, start, size)
    /\ \A used, size : Space!FirstFit(used, size) = FirstFit(used, size)
    /\ \A used : Space!Highest(used) = Highest(used)
  BY DEF Space!SECTOR_NIL, SECTOR_NIL, Space!NoCall, NoCall, Space!Granted, Granted,
         Space!Extent, Extent, Space!IsFree, IsFree, Space!FirstFit, FirstFit,
         Space!Candidates, Candidates, Space!Highest, Highest

\* What SectorSpace sees did not change.
LEMMA Stutters ==
    ASSUME UsedByClients' = UsedByClients,
           len' = len,
           CallNow' = CallNow,
           RetNow' = RetNow,
           aborted' = aborted
    PROVE  UNCHANGED Space!spaceVars
  BY DEF Space!spaceVars, CallNow, RetNow

\* A call that starts is a request.
LEMMA CallRequests ==
    ASSUME LoopInv, NEW c \in Requests, Call(c)
    PROVE  Space!Request(c)
  <1>1. /\ ~aborted
        /\ pc = "idle"
        /\ call = NoCall
        /\ ~Granting
        /\ UsedByClients = SetSectors
    BY DEF Call, LoopInv, CallServed, Granting, UsedByClients
  <1>2. /\ data' = data
        /\ len' = len
        /\ ret' = ret
        /\ aborted' = aborted
        /\ call' = c
        /\ i' = 0
        /\ pc' = IF c.op = "alloc" THEN "probe" ELSE c.op
    BY DEF Call, bitmap
  <1>3. c.op \in {"alloc", "free", "highest"}
    BY SallocAssumption
  <1>4. ~Granting'
    BY <1>2, <1>3 DEF Granting
  <1>5. SetSectors' = SetSectors
    BY <1>2 DEF SetSectors, IsSet
  <1>6. hint' \in Nat
    BY CallShape DEF LoopInv, BitmapShape, TypeOK
  <1>7. Extent(hint', i') = {}
    BY <1>2, <1>6, ExtentGrows
  <1>8. UsedByClients' = UsedByClients
    BY <1>1, <1>4, <1>5, <1>7 DEF UsedByClients
  <1> QED
    BY <1>1, <1>2, <1>4, <1>8, SameWords DEF Space!Request

\* Probing a free sector shows nothing.
LEMMA ProbeFreeStutters ==
    ASSUME LoopInv, ProbeFree
    PROVE  UNCHANGED Space!spaceVars
  <1>1. /\ pc = "probe"
        /\ pc' = "probe" \/ (pc' = "fill" /\ i' = i /\ ~(i < Size))
        /\ data' = data
        /\ len' = len
        /\ call' = call
        /\ hint' = hint
        /\ ret' = ret
        /\ aborted' = aborted
    BY DEF ProbeFree, bitmap
  <1>2. SetSectors' = SetSectors /\ Size' = Size
    BY <1>1 DEF SetSectors, IsSet, Size
  <1>3. ~Granting /\ ~Granting' /\ pc # "free" /\ pc' # "free"
    BY <1>1, <1>2 DEF Granting
  <1>4. UsedByClients' = UsedByClients /\ CallNow' = CallNow /\ RetNow' = RetNow
    BY <1>1, <1>2, <1>3 DEF UsedByClients, CallNow, RetNow
  <1> QED
    BY <1>1, <1>4, Stutters

\* A place that is not free is refused when it was asked for; when none was, the
\* next one is tried, which shows nothing.
LEMMA ProbeSetRefuses ==
    ASSUME LoopInv, ProbeSet
    PROVE  Space!ReserveAt \/ UNCHANGED Space!spaceVars
  <1>1. /\ pc = "probe"
        /\ i < Size
        /\ IsSet(hint + i)
        /\ data' = data
        /\ len' = len
        /\ aborted' = aborted
        /\ pc' \in {"probe", "idle"}
    BY DEF ProbeSet, bitmap, Finish
  <1>2. SetSectors' = SetSectors
    BY <1>1 DEF SetSectors, IsSet
  <1>3. ~Granting /\ ~Granting' /\ pc # "free" /\ pc' # "free"
    BY <1>1 DEF Granting
  <1>4. UsedByClients' = UsedByClients /\ UsedByClients = SetSectors
    BY <1>2, <1>3 DEF UsedByClients
  <1>5. CASE call.sec = SECTOR_NIL
    <2>1. call' = call /\ ret' = ret
      BY <1>5 DEF ProbeSet
    <2> QED
      BY <1>1, <1>3, <1>4, <2>1, Stutters DEF CallNow, RetNow
  <1>6. CASE call.sec # SECTOR_NIL
    <2>1. ret' = SECTOR_NIL /\ call' = NoCall
      BY <1>6 DEF ProbeSet, Finish
    <2>2. call.op = "alloc" /\ hint = call.sec
      BY <1>1, <1>6 DEF LoopInv, CallServed, Searched, Searching
    <2>3. Size \in Nat \ {0} /\ i \in Nat /\ hint \in Nat
      BY CallTypes DEF LoopInv, BitmapShape, TypeOK
    <2>4. hint + i \in SetSectors
      BY <1>1, <2>3, SetSectorsMembers DEF LoopInv, BitmapShape
    <2>5. hint + i \in Extent(hint, Size)
      BY <1>1, <2>3 DEF Extent
    <2>6. ~IsFree(UsedByClients, call.sec, Granted(call.size))
      BY <1>4, <2>2, <2>4, <2>5 DEF IsFree, Size
    <2> QED
      BY <1>1, <1>3, <1>4, <1>6, <2>1, <2>2, <2>6, SameWords DEF Space!ReserveAt
  <1> QED
    BY <1>5, <1>6

\* The place found is the lowest one that fits: a lower one would have been taken,
\* and the sector before it is in use, or it could start there.
LEMMA LowestPlace ==
    ASSUME LoopInv, Searching, i = Size, call.sec = SECTOR_NIL
    PROVE  FirstFit(SetSectors, Size) = hint
  <1>1. /\ IsFree(SetSectors, hint, Size)
        /\ \A g \in 0 .. hint - 1 : ~IsFree(SetSectors, g, Size)
    BY DEF LoopInv, Searched
  <1>2. Size \in Nat \ {0} /\ hint \in Nat /\ SetSectors \subseteq Nat
    BY CallTypes, SetSectorsMembers DEF LoopInv, BitmapShape, TypeOK
  <1>3. Candidates(SetSectors) \subseteq Nat
    BY <1>2 DEF Candidates
  <1>4. \A g \in Candidates(SetSectors) : IsFree(SetSectors, g, Size) => hint <= g
    <2> SUFFICES ASSUME NEW g \in Candidates(SetSectors), IsFree(SetSectors, g, Size)
                 PROVE  hint <= g
      OBVIOUS
    <2>1. g \in Nat /\ ~(g \in 0 .. hint - 1)
      BY <1>1, <1>3
    <2> QED
      BY <1>2, <2>1
  <1>5. hint \in Candidates(SetSectors)
    <2>1. CASE hint = 0
      BY <2>1 DEF Candidates
    <2>2. CASE hint # 0
      <3> DEFINE before == hint - 1
      <3>1. before \in 0 .. hint - 1 /\ before + 1 = hint
        BY <1>2, <2>2
      <3>2. ~IsFree(SetSectors, before, Size)
        BY <1>1, <3>1
      <3>3. PICK t \in Extent(before, Size) : t \in SetSectors
        BY <3>2 DEF IsFree
      <3>4. t \notin Extent(hint, Size)
        BY <1>1, <3>3 DEF IsFree
      <3>5. t = before
        BY <1>2, <3>1, <3>3, <3>4 DEF Extent
      <3> QED
        BY <3>1, <3>3, <3>5 DEF Candidates
    <2> QED
      BY <2>1, <2>2
  <1> DEFINE Fits(h) == /\ IsFree(SetSectors, h, Size)
                        /\ \A g \in Candidates(SetSectors) :
                              IsFree(SetSectors, g, Size) => h <= g
  <1>6. \A h \in Candidates(SetSectors) : Fits(h) => h = hint
    <2> SUFFICES ASSUME NEW h \in Candidates(SetSectors), Fits(h) PROVE h = hint
      OBVIOUS
    <2>1. hint <= h /\ h <= hint
      BY <1>1, <1>4, <1>5
    <2>2. h \in Nat
      BY <1>3
    <2> QED
      BY <1>2, <2>1, <2>2
  <1>7. Fits(hint)
    BY <1>1, <1>4
  <1>8. FirstFit(SetSectors, Size) = CHOOSE h \in Candidates(SetSectors) : Fits(h)
    BY DEF FirstFit
  <1> HIDE DEF Fits
  <1> QED
    BY <1>5, <1>6, <1>7, <1>8

\* Setting the first bit, the highest, grants the whole extent: the place is the
\* one asked for or the lowest one, and the bitmap gets its final length.
LEMMA FirstBitGrants ==
    ASSUME LoopInv, Fill, i = Size
    PROVE  Space!ReserveAt \/ Space!ReserveLowest
  <1> DEFINE s == hint + i - 1
  <1>1. /\ Size \in Nat \ {0}
        /\ i \in Nat
        /\ i > 0
        /\ hint \in Nat
        /\ len \in Nat
    BY CallTypes, SallocAssumption DEF LoopInv, BitmapShape, TypeOK
  <1>2. /\ pc = "fill"
        /\ Set(s)
        /\ i' = i - 1
        /\ pc' = pc
        /\ call' = call
        /\ hint' = hint
        /\ aborted' = aborted
    BY <1>1 DEF Fill
  <1>3. Searching /\ call.op = "alloc"
    BY <1>2 DEF Searching, LoopInv, CallServed
  <1>4. Size' = Size /\ ~Granting /\ Granting'
    BY <1>1, <1>2 DEF Granting, Size
  <1>5. UsedByClients = SetSectors /\ CallNow = call
    BY <1>2, <1>4 DEF UsedByClients, CallNow
  <1>6. CallNow' = NoCall /\ RetNow' = hint
    BY <1>2, <1>4 DEF CallNow, RetNow
  <1>7. s \in Nat
    BY <1>1
  <1>8. SetSectors' = SetSectors \cup {s}
    <2> HIDE DEF s
    <2> QED
      BY <1>2, <1>7, SetAddsSector DEF LoopInv, BitmapShape
  <1>9. Extent(hint, Size) = Extent(hint, i') \cup {s}
    BY <1>1, <1>2 DEF Extent
  <1>10. UsedByClients' = UsedByClients \cup Extent(hint, Size)
    <2>1. UsedByClients' = SetSectors' \cup Extent(hint, i')
      BY <1>2, <1>4 DEF UsedByClients
    <2> QED
      BY <1>5, <1>8, <1>9, <2>1
  <1>11. 8 * len' = Space!Further(8 * len, Space!OctetEnd(hint + Size - 1))
    <2> DEFINE at == s \div 8
               newlen == len'
    <2>1. at \in Nat
      BY <1>7
    <2>2. newlen = IF at < len THEN len ELSE at + 1
      <3>1. Set(s) /\ s \in Nat
        BY <1>2, <1>7
      <3> HIDE DEF s
      <3> QED
        BY <3>1, SetKeepsShape DEF LoopInv, BitmapShape
    <2>3. Space!OctetEnd(hint + Size - 1) = 8 * at + 8
      BY DEF Space!OctetEnd
    <2> HIDE DEF at, newlen
    <2>4. 8 * newlen = IF 8 * len >= 8 * at + 8 THEN 8 * len ELSE 8 * at + 8
      BY <1>1, <2>1, <2>2
    <2> QED
      BY <2>3, <2>4 DEF Space!Further, newlen
  <1>12. Space!Grant(hint, Size)
    BY <1>6, <1>10, <1>11, SameWords DEF Space!Grant, RetNow
  <1>13. CASE call.sec = SECTOR_NIL
    <2>1. FirstFit(UsedByClients, Granted(call.size)) = hint
      BY <1>3, <1>5, <1>13, LowestPlace DEF Size
    <2> QED
      BY <1>2, <1>3, <1>4, <1>6, <1>12, <1>13, <2>1, SameWords
      DEF Space!ReserveLowest, CallNow, Size
  <1>14. CASE call.sec # SECTOR_NIL
    <2>1. hint = call.sec /\ IsFree(UsedByClients, call.sec, Granted(call.size))
      BY <1>3, <1>5, <1>14 DEF LoopInv, Searched, Size
    <2> QED
      BY <1>2, <1>3, <1>4, <1>6, <1>12, <1>14, <2>1, SameWords
      DEF Space!ReserveAt, CallNow, Size
  <1> QED
    BY <1>13, <1>14

\* The other bits were promised with the first.
LEMMA OtherBitsStutter ==
    ASSUME LoopInv, Fill, i # Size
    PROVE  UNCHANGED Space!spaceVars
  <1>1. /\ Size \in Nat \ {0}
        /\ i \in Nat
        /\ hint \in Nat
        /\ len \in Nat
    BY CallTypes, SallocAssumption DEF LoopInv, BitmapShape, TypeOK
  <1>2. pc = "fill" /\ i < Size
    BY <1>1 DEF Fill, LoopInv, Searched
  <1>3. /\ Granting
        /\ CallNow = NoCall
        /\ RetNow = hint
        /\ UsedByClients = SetSectors \cup Extent(hint, i)
        /\ hint + Size <= 8 * len
    BY <1>2 DEF Granting, CallNow, RetNow, UsedByClients, LoopInv, Reached
  <1>4. CASE i > 0
    <2> DEFINE s == hint + i - 1
    <2>1. /\ Set(s)
          /\ i' = i - 1
          /\ pc' = pc
          /\ call' = call
          /\ hint' = hint
          /\ aborted' = aborted
      BY <1>4 DEF Fill
    <2>2. s \in Nat /\ s < 8 * len
      BY <1>1, <1>2, <1>3, <1>4
    <2>3. s \div 8 < len
      BY <1>1, <2>2
    <2>4. len' = len
      BY <2>1, <2>3 DEF Set
    <2>5. SetSectors' = SetSectors \cup {s}
      <3> HIDE DEF s
      <3> QED
        BY <2>1, <2>2, SetAddsSector DEF LoopInv, BitmapShape
    <2>6. Granting'
      BY <1>1, <1>2, <1>4, <2>1 DEF Granting, Size
    <2>7. Extent(hint, i) = Extent(hint, i') \cup {s}
      BY <1>1, <1>4, <2>1 DEF Extent
    <2>8. UsedByClients' = UsedByClients
      <3>1. UsedByClients' = SetSectors' \cup Extent(hint, i')
        BY <2>1, <2>6 DEF UsedByClients
      <3> QED
        BY <1>3, <2>5, <2>7, <3>1
    <2>9. CallNow' = CallNow /\ RetNow' = RetNow
      BY <1>3, <2>1, <2>6 DEF CallNow, RetNow
    <2> QED
      BY <2>1, <2>4, <2>8, <2>9, Stutters
  <1>5. CASE ~(i > 0)
    <2>1. /\ i = 0
          /\ ret' = hint
          /\ pc' = "idle"
          /\ call' = NoCall
          /\ data' = data
          /\ len' = len
          /\ aborted' = aborted
      BY <1>1, <1>5 DEF Fill, Finish, bitmap
    <2>2. SetSectors' = SetSectors
      BY <2>1 DEF SetSectors, IsSet
    <2>3. ~Granting' /\ pc' # "free"
      BY <2>1 DEF Granting
    <2>4. UsedByClients' = UsedByClients
      <3>1. Extent(hint, i) = {}
        BY <1>1, <2>1, ExtentGrows
      <3> QED
        BY <1>3, <2>2, <2>3, <3>1 DEF UsedByClients
    <2>5. CallNow' = CallNow /\ RetNow' = RetNow
      BY <1>3, <2>1, <2>3 DEF CallNow, RetNow
    <2> QED
      BY <2>1, <2>4, <2>5, Stutters
  <1> QED
    BY <1>4, <1>5

\* A release shows when it ends, or when it comes upon a sector that is free.
LEMMA FreeReleases ==
    ASSUME LoopInv, Free
    PROVE  Space!Release \/ UNCHANGED Space!spaceVars
  <1>1. /\ i \in Nat
        /\ hint \in Nat
        /\ call.size \in Nat
        /\ SetSectors \subseteq Nat
    BY CallTypes, SetSectorsMembers DEF LoopInv, BitmapShape, TypeOK
  <1>2. /\ pc = "free"
        /\ call.op = "free"
        /\ hint = call.sec
        /\ i <= call.size
        /\ IsFree(SetSectors, hint, i)
    BY DEF Free, LoopInv, CallServed, Released
  <1>3. /\ ~Granting
        /\ CallNow = call
        /\ RetNow = ret
        /\ UsedByClients = SetSectors \cup Extent(hint, i)
    BY <1>2 DEF Granting, CallNow, RetNow, UsedByClients
  <1>4. CASE i < call.size /\ IsSet(hint + i)
    <2> DEFINE s == hint + i
    <2>1. /\ IsSet(s)
          /\ Unset(s)
          /\ i' = i + 1
          /\ pc' = pc
          /\ call' = call
          /\ hint' = hint
          /\ ret' = ret
          /\ aborted' = aborted
      BY <1>4 DEF Free
    <2>2. s \in Nat
      BY <1>1
    <2>3. s \in SetSectors
      BY <2>1, <2>2, SetSectorsMembers DEF LoopInv, BitmapShape
    <2>4. SetSectors' = SetSectors \ {s} /\ len' = len
      <3> HIDE DEF s
      <3> QED
        BY <2>1, <2>2, UnsetTakesSector DEF Unset, LoopInv, BitmapShape
    <2>5. Extent(hint, i') = Extent(hint, i) \cup {s}
      BY <1>1, <2>1, ExtentGrows
    <2>6. ~Granting' /\ pc' = "free"
      BY <1>2, <2>1 DEF Granting
    <2>7. UsedByClients' = UsedByClients
      <3>1. UsedByClients' = SetSectors' \cup Extent(hint, i')
        BY <2>1, <2>6 DEF UsedByClients
      <3> HIDE DEF s
      <3> QED
        BY <1>3, <2>3, <2>4, <2>5, <3>1
    <2> QED
      BY <1>3, <2>1, <2>4, <2>6, <2>7, Stutters DEF CallNow, RetNow
  <1>5. CASE i < call.size /\ ~IsSet(hint + i)
    <2>1. /\ aborted' = TRUE
          /\ data' = data
          /\ len' = len
          /\ pc' = pc
          /\ call' = call
          /\ hint' = hint
          /\ i' = i
          /\ ret' = ret
      BY <1>5 DEF Free, AssertFails, bitmap
    <2>2. SetSectors' = SetSectors /\ Size' = Size
      BY <2>1 DEF SetSectors, IsSet, Size
    <2>3. /\ UsedByClients' = UsedByClients
          /\ CallNow' = CallNow
          /\ RetNow' = RetNow
      BY <2>1, <2>2 DEF UsedByClients, CallNow, RetNow, Granting
    <2>4. ~(Extent(call.sec, call.size) \subseteq UsedByClients)
      <3>1. hint + i \in Extent(call.sec, call.size)
        BY <1>1, <1>2, <1>5 DEF Extent
      <3>2. hint + i \notin Extent(hint, i)
        BY <1>1, ExtentGrows
      <3>3. hint + i \notin SetSectors
        BY <1>1, <1>5, SetSectorsMembers DEF LoopInv, BitmapShape
      <3> QED
        BY <1>3, <3>1, <3>2, <3>3
    <2> QED
      BY <1>2, <1>3, <2>1, <2>3, <2>4, SameWords DEF Space!Release, CallNow, RetNow
  <1>6. CASE ~(i < call.size)
    <2>1. /\ i = call.size
          /\ ret' = ret
          /\ pc' = "idle"
          /\ call' = NoCall
          /\ data' = data
          /\ len' = len
          /\ aborted' = aborted
      BY <1>1, <1>2, <1>6 DEF Free, Finish, bitmap
    <2>2. SetSectors' = SetSectors
      BY <2>1 DEF SetSectors, IsSet
    <2>3. ~Granting' /\ pc' # "free"
      BY <2>1 DEF Granting
    <2>4. UsedByClients' = SetSectors /\ CallNow' = NoCall /\ RetNow' = RetNow
      BY <1>3, <2>1, <2>2, <2>3 DEF UsedByClients, CallNow, RetNow
    <2>5. Extent(call.sec, call.size) \subseteq UsedByClients
      BY <1>2, <1>3, <2>1
    <2>6. UsedByClients' = UsedByClients \ Extent(call.sec, call.size)
      BY <1>2, <1>3, <2>1, <2>4 DEF IsFree
    <2> QED
      BY <1>2, <1>3, <2>1, <2>4, <2>5, <2>6, SameWords DEF Space!Release, CallNow, RetNow
  <1> QED
    BY <1>4, <1>5, <1>6

\* The last byte has the highest sector, unless it is zero.
LEMMA LastByte ==
    ASSUME BitmapShape
    PROVE  LET known == len > 0 /\ data[len - 1] # {}
               highest == (len - 1) * 8 + Highest(data[len - 1])
           IN  /\ known <=> \E s \in SetSectors : s >= 8 * len - 8
               /\ known => highest = Highest(SetSectors)
  <1> DEFINE last == len - 1
             byte == data[last]
             top == Highest(byte)
  <1>1. len \in Nat /\ data \in [DOMAIN data -> SUBSET (0 .. 7)]
    BY SallocAssumption DEF BitmapShape, TypeOK
  <1>2. len > 0 => last \in DOMAIN data
    BY SallocAssumption DEF BitmapShape, TypeOK
  <1>3. SetSectors \subseteq Nat /\ \A s \in SetSectors : s < 8 * len
    BY SetSectorsMembers DEF BitmapShape
  <1>4. \A s \in Nat : s \in SetSectors <=> s \div 8 < len /\ s % 8 \in data[s \div 8]
    BY SetSectorsMembers DEF BitmapShape, IsSet
  <1>5. ASSUME NEW s \in SetSectors, s >= 8 * len - 8
        PROVE  /\ len > 0
               /\ s % 8 \in byte
               /\ s = 8 * last + (s % 8)
    <2>1. s \in Nat /\ s < 8 * len
      BY <1>3
    <2>2. len > 0
      BY <1>1, <2>1
    <2>3. s \div 8 = last
      BY <1>1, <1>5, <2>1
    <2>4. s = 8 * (s \div 8) + (s % 8)
      BY <2>1
    <2>5. s % 8 \in data[s \div 8]
      BY <1>4, <2>1
    <2>6. s % 8 \in data[last]
      BY <2>3, <2>5
    <2>7. s = 8 * last + (s % 8)
      <3> HIDE DEF last
      <3> QED
        BY <2>3, <2>4
    <2> QED
      BY <2>2, <2>6, <2>7
  <1>6. ASSUME len > 0, byte # {}
        PROVE  /\ last * 8 + top \in SetSectors
               /\ last * 8 + top >= 8 * len - 8
               /\ last * 8 + top = Highest(SetSectors)
    <2>1. byte \in SUBSET (0 .. 7)
      BY <1>1, <1>2, <1>6
    <2>2. top \in byte /\ \A x \in byte : x <= top
      <3> HIDE DEF byte
      <3> QED
        BY <1>6, <2>1, HighestBit
    <2> DEFINE h == last * 8 + top
    <2>3. last \in Nat /\ top \in 0 .. 7
      BY <1>1, <1>6, <2>1, <2>2
    <2> HIDE DEF last, byte, top
    <2>4. h \in Nat /\ h \div 8 = last /\ h % 8 = top
      BY <2>3
    <2>5. h \in SetSectors
      BY <1>1, <1>4, <1>6, <2>2, <2>4 DEF last, byte
    <2>6. \A s \in SetSectors : s <= h
      <3> SUFFICES ASSUME NEW s \in SetSectors PROVE s <= h
        OBVIOUS
      <3>1. CASE s >= 8 * len - 8
        <4> DEFINE x == s % 8
        <4>1. x \in byte /\ s = 8 * last + x
          BY <1>5, <3>1
        <4> HIDE DEF x
        <4>2. x \in 0 .. 7 /\ x <= top
          BY <2>1, <2>2, <4>1
        <4> QED
          BY <2>3, <4>1, <4>2
      <3>2. CASE ~(s >= 8 * len - 8)
        BY <1>1, <1>3, <2>3, <3>2 DEF last
      <3> QED
        BY <3>1, <3>2
    <2> HIDE DEF h
    <2>7. \A g \in SetSectors : (\A s \in SetSectors : s <= g) => g = h
      <3> SUFFICES ASSUME NEW g \in SetSectors, \A s \in SetSectors : s <= g
                   PROVE  g = h
        OBVIOUS
      <3>1. h <= g /\ g <= h
        BY <2>5, <2>6
      <3> QED
        BY <1>3, <2>5, <3>1
    <2>8. h = Highest(SetSectors)
      BY <2>5, <2>6, <2>7 DEF Highest
    <2>9. h >= 8 * len - 8
      BY <1>1, <2>3 DEF h, last
    <2> QED
      BY <2>5, <2>8, <2>9 DEF h
  <1> HIDE DEF top
  <1>7. (len > 0 /\ byte # {}) <=> \E s \in SetSectors : s >= 8 * len - 8
    BY <1>5, <1>6
  <1> QED
    BY <1>6, <1>7 DEF top

\* The last byte is all ReportHighest looks at.
LEMMA GetHighestReports ==
    ASSUME LoopInv, GetHighest
    PROVE  Space!ReportHighest
  <1> DEFINE known == len > 0 /\ data[len - 1] # {}
             highest == (len - 1) * 8 + Highest(data[len - 1])
  <1>1. /\ known <=> \E s \in SetSectors : s >= 8 * len - 8
        /\ known => highest = Highest(SetSectors)
    BY LastByte DEF LoopInv
  <1>2. /\ pc = "highest"
        /\ call.op = "highest"
        /\ data' = data
        /\ len' = len
        /\ pc' \in {"idle", "highest"}
    BY DEF GetHighest, Finish, AssertFails, bitmap, LoopInv, CallServed
  <1>3. ~Granting /\ ~Granting' /\ pc' # "free"
    BY <1>2 DEF Granting
  <1>4. SetSectors' = SetSectors
    BY <1>2 DEF SetSectors, IsSet
  <1>5. /\ UsedByClients = SetSectors
        /\ UsedByClients' = SetSectors
        /\ CallNow = call
        /\ RetNow = ret
        /\ CallNow' = call'
        /\ RetNow' = ret'
    BY <1>2, <1>3, <1>4 DEF UsedByClients, CallNow, RetNow
  <1>6. IF known
        THEN ret' = highest /\ call' = NoCall /\ aborted' = aborted
        ELSE aborted' = TRUE /\ call' = call /\ ret' = ret
    BY DEF GetHighest, Finish, AssertFails
  <1> HIDE DEF known, highest
  <1> QED
    BY <1>1, <1>2, <1>3, <1>5, <1>6, SameWords DEF Space!ReportHighest, CallNow, RetNow

\* An empty bitmap is an empty set.
LEMMA InitIsSpaceInit == Init => Space!SpaceInit
  <1> SUFFICES ASSUME Init PROVE Space!SpaceInit
    OBVIOUS
  <1>1. /\ pc = "idle"
        /\ call = NoCall
        /\ ret = 0
        /\ aborted = FALSE
        /\ len = 0
    BY DEF Init
  <1>2. ~Granting
    BY <1>1 DEF Granting
  <1>3. SetSectors = {}
    BY <1>1 DEF SetSectors
  <1>4. UsedByClients = {}
    BY <1>1, <1>2, <1>3 DEF UsedByClients
  <1> QED
    BY <1>1, <1>2, <1>4, SameWords DEF Space!SpaceInit

\* Every step of the bitmap is a step of the set, or shows nothing.
LEMMA NextIsSpaceNext ==
    LoopInv /\ [Next]_vars => [Space!SpaceNext]_(Space!spaceVars)
  <1> SUFFICES ASSUME LoopInv, [Next]_vars
               PROVE  Space!SpaceNext \/ UNCHANGED Space!spaceVars
    OBVIOUS
  <1>1. CASE \E c \in Requests : Call(c)
    BY <1>1, CallRequests DEF Space!SpaceNext
  <1>2. CASE ProbeFree
    BY <1>2, ProbeFreeStutters
  <1>3. CASE ProbeSet
    BY <1>3, ProbeSetRefuses DEF Space!SpaceNext
  <1>4. CASE Fill /\ i = Size
    BY <1>4, FirstBitGrants DEF Space!SpaceNext
  <1>5. CASE Fill /\ i # Size
    BY <1>5, OtherBitsStutter
  <1>6. CASE Free
    BY <1>6, FreeReleases DEF Space!SpaceNext
  <1>7. CASE GetHighest
    BY <1>7, GetHighestReports DEF Space!SpaceNext
  <1>8. CASE UNCHANGED vars
    <2>1. /\ data' = data
          /\ len' = len
          /\ pc' = pc
          /\ call' = call
          /\ hint' = hint
          /\ i' = i
          /\ ret' = ret
          /\ aborted' = aborted
      BY <1>8 DEF vars
    <2>2. SetSectors' = SetSectors /\ Size' = Size
      BY <2>1 DEF SetSectors, IsSet, Size
    <2>3. UsedByClients' = UsedByClients /\ CallNow' = CallNow /\ RetNow' = RetNow
      BY <2>1, <2>2 DEF UsedByClients, CallNow, RetNow, Granting
    <2> QED
      BY <2>1, <2>3, Stutters
  <1> QED
    BY <1>1, <1>2, <1>3, <1>4, <1>5, <1>6, <1>7, <1>8 DEF Next

\* Whatever calls are made, in whatever chunks the bitmap grows, salloc.c serves them
\* as the set of sectors would: a reservation takes all of a free extent or
\* nothing, the lowest one when no place is asked for; a release frees what
\* was in use, or aborts; the highest sector is known or the call aborts.
THEOREM SallocImplementsSectorSpace == Spec => ImplementsSectorSpace
  BY InitServed, NextKeeps, InitIsSpaceInit, NextIsSpaceNext, PTL
  DEF Spec, ImplementsSectorSpace, Space!SpaceSpec

-----------------------------------------------------------------------------
(* The linked lists: what a list says of the sequence it stands for.       *)

\* The pointers of nodes.
Links == UNION {[D -> Nat] : D \in SUBSET Nat}

ListType == [length : Nat, begin : Nat, end : Nat, next : Links]

Distinct(q) == \A j, k \in 1 .. Len(q) : q[j] = q[k] => j = k

\* A list links the nodes of q, in their order, and no others.
Linked(list, q) ==
    /\ list \in ListType
    /\ q \in Seq(Nat \ {0})
    /\ Distinct(q)
    /\ list.length = Len(q)
    /\ \A x : x \in DOMAIN list.next <=> \E k \in 1 .. Len(q) : x = q[k]
    /\ Len(q) = 0 => list.begin = 0 /\ list.end = 0
    /\ Len(q) > 0 => list.begin = q[1] /\ list.end = q[Len(q)] /\ list.next[q[Len(q)]] = 0
    /\ \A k \in 1 .. Len(q) - 1 : list.next[q[k]] = q[k + 1]

\* What pointers are.
LEMMA LinksAre ==
    ASSUME NEW D, D \subseteq Nat, NEW f \in [D -> Nat]
    PROVE  f \in Links
  BY DEF Links

\* What pointers are, the other way.
LEMMA LinksType ==
    ASSUME NEW f \in Links
    PROVE  f \in [DOMAIN f -> Nat] /\ DOMAIN f \subseteq Nat
  BY DEF Links

\* The places of a sequence.
LEMMA PlacesOfSeq ==
    ASSUME NEW S, NEW q \in Seq(S)
    PROVE  /\ Len(q) \in Nat
           /\ DOMAIN q = 1 .. Len(q)
           /\ \A k \in 1 .. Len(q) : q[k] \in S
  BY LenProperties, ElementOfSeq

\* A new list.
LEMMA NewListLinked == Linked(NewList, <<>>)
  <1> DEFINE none == <<>>
  <1>1. none \in Seq(Nat) /\ Len(none) = 0 /\ none \in Seq(Nat \ {0})
    OBVIOUS
  <1>2. none \in [1 .. 0 -> Nat]
    BY <1>1, PlacesOfSeq, SeqDef
  <1>3. none \in Links
    <2>1. 1 .. 0 \in SUBSET Nat
      OBVIOUS
    <2> QED
      BY <1>2, <2>1 DEF Links
  <1>4. \A x : x \notin DOMAIN none
    BY <1>2
  <1> HIDE DEF none
  <1>5. /\ NewList \in ListType /\ NewList.length = 0 /\ NewList.begin = 0 /\ NewList.end = 0
        /\ NewList.next = none
    BY <1>3 DEF NewList, ListType, NULL, none
  <1>6. Linked(NewList, none)
    BY <1>1, <1>4, <1>5 DEF Linked, Distinct
  <1> QED
    BY <1>6 DEF none

\* A walk from the beginning meets the nodes of the sequence, in its order.
LEMMA ElementsAre ==
    ASSUME NEW list, NEW q, Linked(list, q)
    PROVE  Elements(list) = q
  <1> DEFINE n == list.length
             Nth(f) == f = [k \in 1 .. n |-> IF k = 1 THEN list.begin ELSE list.next[f[k - 1]]]
             nth == CHOOSE f : Nth(f)
  <1>1. /\ n \in Nat /\ n = Len(q) /\ q \in Seq(Nat \ {0})
        /\ n > 0 => list.begin = q[1]
        /\ \A k \in 1 .. n - 1 : list.next[q[k]] = q[k + 1]
    <2>1. q \in Seq(Nat \ {0}) /\ list.length = Len(q) /\ Len(q) \in Nat
      BY PlacesOfSeq DEF Linked
    <2>2. /\ Len(q) > 0 => list.begin = q[1]
          /\ \A k \in 1 .. Len(q) - 1 : list.next[q[k]] = q[k + 1]
      BY DEF Linked
    <2> QED
      BY <2>1, <2>2
  <1>2. q = [k \in 1 .. n |-> q[k]]
    BY <1>1, PlacesOfSeq
  <1>3. Elements(list) = [k \in 1 .. n |-> nth[k]]
    BY DEF Elements
  <1> HIDE DEF n
  <1>4. \A k \in 1 .. n : q[k] = IF k = 1 THEN list.begin ELSE list.next[q[k - 1]]
    <2> SUFFICES ASSUME NEW k \in 1 .. n PROVE q[k] = IF k = 1 THEN list.begin ELSE list.next[q[k - 1]]
      OBVIOUS
    <2>1. CASE k = 1
      BY <1>1, <2>1
    <2>2. CASE k # 1
      <3>1. k - 1 \in 1 .. n - 1 /\ k - 1 + 1 = k
        BY <1>1, <2>2
      <3> QED
        BY <1>1, <2>2, <3>1
    <2> QED
      BY <2>1, <2>2
  <1>5. Nth(q)
    BY <1>2, <1>4
  <1>6. Nth(nth)
    BY <1>5
  <1>7. \A k \in 1 .. n : nth[k] = IF k = 1 THEN list.begin ELSE list.next[nth[k - 1]]
    BY <1>6
  <1> HIDE DEF nth, Nth
  <1> DEFINE T == {k \in Nat : k + 1 <= n => nth[k + 1] = q[k + 1]}
  <1>8. 0 \in T
    BY <1>1, <1>4, <1>7
  <1>9. ASSUME NEW k \in Nat, k \in T PROVE k + 1 \in T
    <2> SUFFICES ASSUME k + 1 + 1 <= n PROVE nth[k + 1 + 1] = q[k + 1 + 1]
      OBVIOUS
    <2>1. nth[k + 1] = q[k + 1]
      BY <1>1, <1>9
    <2>2. k + 1 + 1 \in 1 .. n /\ k + 1 + 1 # 1 /\ k + 1 + 1 - 1 = k + 1
      BY <1>1
    <2> QED
      BY <1>4, <1>7, <2>1, <2>2
  <1> HIDE DEF T
  <1>10. Nat \subseteq T
    BY <1>8, <1>9, NatSetInduction
  <1>11. \A k \in 1 .. n : nth[k] = q[k]
    <2> SUFFICES ASSUME NEW k \in 1 .. n PROVE nth[k] = q[k]
      OBVIOUS
    <2>1. k - 1 \in T /\ k - 1 + 1 = k /\ k <= n
      BY <1>1, <1>10
    <2> QED
      BY <2>1 DEF T
  <1> QED
    BY <1>2, <1>3, <1>11

\* What is linked may be trusted.
LEMMA LinkedIsSound ==
    ASSUME NEW list, NEW q, Linked(list, q)
    PROVE  Sound(list) /\ Elements(list) = q
  <1>1. Elements(list) = q
    BY ElementsAre
  <1>2. list.length = Len(q) /\ Len(q) \in Nat
    BY PlacesOfSeq DEF Linked
  <1>3. {Elements(list)[k] : k \in 1 .. list.length} = DOMAIN list.next
    BY <1>1, <1>2 DEF Linked
  <1> QED
    BY <1>1, <1>2, <1>3 DEF Linked, Sound, NULL

\* _cdio_list_append, of a node that is not there.
LEMMA AppendLinked ==
    ASSUME NEW list, NEW q, Linked(list, q), NEW node \in Nat \ {0},
           \A k \in 1 .. Len(q) : q[k] # node
    PROVE  Linked(ListAppend(list, node), Append(q, node))
  <1> DEFINE n == Len(q)
             r == Append(q, node)
             new == ListAppend(list, node)
  <1>1. /\ list \in ListType /\ q \in Seq(Nat \ {0}) /\ Distinct(q) /\ list.length = n
        /\ \A x : x \in DOMAIN list.next <=> \E k \in 1 .. n : x = q[k]
        /\ n = 0 => list.begin = 0 /\ list.end = 0
        /\ n > 0 => list.begin = q[1] /\ list.end = q[n] /\ list.next[q[n]] = 0
        /\ \A k \in 1 .. n - 1 : list.next[q[k]] = q[k + 1]
    BY DEF Linked
  <1>2. n \in Nat /\ \A k \in 1 .. n : q[k] \in Nat \ {0}
    BY <1>1, PlacesOfSeq
  <1>3. /\ r \in Seq(Nat \ {0}) /\ Len(r) = n + 1 /\ r[n + 1] = node
        /\ \A k \in 1 .. n : r[k] = q[k]
    BY <1>1, AppendProperties
  <1>4. /\ list.next \in Links /\ list.begin \in Nat /\ list.end \in Nat
    BY <1>1 DEF ListType
  <1>5. list.next \in [DOMAIN list.next -> Nat] /\ DOMAIN list.next \subseteq Nat
    BY <1>4, LinksType
  <1> DEFINE D == DOMAIN list.next \cup {node}
             next == [x \in D |-> IF x = node THEN 0 ELSE IF x = list.end THEN node ELSE list.next[x]]
  <1>6. next \in Links
    <2>1. D \subseteq Nat /\ next \in [D -> Nat]
      BY <1>5
    <2> QED
      BY <2>1, LinksAre
  <1>7. /\ DOMAIN next = D
        /\ \A x \in D : next[x] = IF x = node THEN 0 ELSE IF x = list.end THEN node ELSE list.next[x]
    OBVIOUS
  <1>8. new = [length |-> list.length + 1, begin |-> IF list.length = 0 THEN node ELSE list.begin,
               end |-> node, next |-> next]
    BY DEF ListAppend, NULL
  <1> HIDE DEF next, new, r
  <1>9. /\ new \in ListType /\ new.length = n + 1 /\ new.end = node /\ new.next = next
        /\ new.begin = IF n = 0 THEN node ELSE list.begin
    BY <1>1, <1>2, <1>4, <1>6, <1>8 DEF ListType
  <1> HIDE DEF n
  <1>10. Distinct(r)
    <2> SUFFICES ASSUME NEW j \in 1 .. n + 1, NEW k \in 1 .. n + 1, r[j] = r[k] PROVE j = k
      BY <1>3 DEF Distinct
    <2>1. CASE j \in 1 .. n /\ k \in 1 .. n
      BY <1>1, <1>3, <2>1 DEF Distinct, n
    <2>2. CASE j = n + 1 /\ k \in 1 .. n
      BY <1>3, <2>2 DEF n
    <2>3. CASE k = n + 1 /\ j \in 1 .. n
      BY <1>3, <2>3 DEF n
    <2> QED
      BY <1>2, <2>1, <2>2, <2>3
  <1>11. \A x : x \in DOMAIN new.next <=> \E k \in 1 .. n + 1 : x = r[k]
    <2>1. ASSUME NEW x, x \in D PROVE \E k \in 1 .. n + 1 : x = r[k]
      <3>1. CASE x = node
        BY <1>2, <1>3, <3>1
      <3>2. CASE x \in DOMAIN list.next
        <4>1. PICK k \in 1 .. n : x = q[k]
          BY <1>1, <3>2
        <4>2. k \in 1 .. n + 1
          BY <1>2
        <4> QED
          BY <1>3, <4>1, <4>2
      <3> QED
        BY <2>1, <3>1, <3>2
    <2>2. ASSUME NEW k \in 1 .. n + 1 PROVE r[k] \in D
      <3>1. CASE k = n + 1
        BY <1>3, <3>1
      <3>2. CASE k \in 1 .. n
        BY <1>1, <1>3, <3>2
      <3> QED
        BY <1>2, <3>1, <3>2
    <2> QED
      BY <1>7, <1>9, <2>1, <2>2
  <1>12. n > 0 => list.begin = r[1] /\ 1 \in 1 .. n
    BY <1>1, <1>2, <1>3
  <1>13. new.begin = r[1] /\ new.end = r[n + 1] /\ new.next[r[n + 1]] = 0
    BY <1>2, <1>3, <1>7, <1>9, <1>12
  <1>14. ASSUME NEW k \in 1 .. n PROVE new.next[r[k]] = r[k + 1]
    <2>1. q[k] \in D /\ q[k] # node /\ r[k] = q[k]
      BY <1>1, <1>3 DEF n
    <2>2. new.next[r[k]] = IF q[k] = list.end THEN node ELSE list.next[q[k]]
      BY <1>7, <1>9, <2>1
    <2>3. CASE k = n
      BY <1>1, <1>2, <1>3, <2>2, <2>3
    <2>4. CASE k # n
      <3>1. k \in 1 .. n - 1 /\ n \in 1 .. n /\ k + 1 \in 1 .. n
        BY <1>2, <2>4
      <3>2. q[k] # q[n]
        BY <1>1, <2>4, <3>1 DEF Distinct, n
      <3> QED
        BY <1>1, <1>2, <1>3, <2>2, <3>1, <3>2
    <2> QED
      BY <2>3, <2>4
  <1>15. Len(r) - 1 = n /\ Len(r) > 0 /\ Len(r) # 0
    BY <1>2, <1>3
  <1>16. Linked(new, r)
    BY <1>3, <1>9, <1>10, <1>11, <1>13, <1>14, <1>15 DEF Linked
  <1> QED
    BY <1>16 DEF new, r

-----------------------------------------------------------------------------
(* _vcd_list_sort: the bubble sort.                                        *)

\* Two neighbours change places.
Swapped(q, k) ==
    [j \in 1 .. Len(q) |-> IF j = k THEN q[k + 1] ELSE IF j = k + 1 THEN q[k] ELSE q[j]]

\* What an exchange does to the places of a sequence.
LEMMA SwappedIs ==
    ASSUME NEW S, NEW q \in Seq(S), NEW k \in 1 .. Len(q) - 1
    PROVE  /\ Swapped(q, k) \in Seq(S)
           /\ Len(Swapped(q, k)) = Len(q)
           /\ k \in 1 .. Len(q) /\ k + 1 \in 1 .. Len(q)
           /\ Swapped(q, k)[k] = q[k + 1]
           /\ Swapped(q, k)[k + 1] = q[k]
           /\ \A j \in 1 .. Len(q) : j # k /\ j # k + 1 => Swapped(q, k)[j] = q[j]
  <1> DEFINE n == Len(q)
             r == Swapped(q, k)
  <1>1. n \in Nat /\ \A j \in 1 .. n : q[j] \in S
    BY PlacesOfSeq
  <1>2. k \in 1 .. n /\ k + 1 \in 1 .. n /\ k # k + 1
    BY <1>1
  <1>3. r = [j \in 1 .. n |-> IF j = k THEN q[k + 1] ELSE IF j = k + 1 THEN q[k] ELSE q[j]]
    BY DEF Swapped
  <1> HIDE DEF n, r
  <1>4. r \in [1 .. n -> S]
    BY <1>1, <1>2, <1>3
  <1>5. r \in Seq(S)
    BY <1>1, <1>4, SeqDef
  <1>6. Len(r) = n
    BY <1>1, <1>3, <1>5, LenProperties
  <1> QED
    BY <1>2, <1>3, <1>5, <1>6 DEF n, r

\* The slot that points at the k-th node.
SlotOf(q, k) == IF k = 1 THEN NULL ELSE q[k - 1]

\* What becomes of a list when node and behind, which slot points at, change places.
ExchangedNodes(list, slot, node, behind, last) ==
    [list EXCEPT
       !.begin = IF slot = NULL THEN behind ELSE @,
       !.next = [n \in DOMAIN @ |-> CASE n = slot -> behind
                                      [] n = node -> last
                                      [] n = behind -> node
                                      [] n \notin {slot, node, behind} -> @[n]],
       !.end = IF last = NULL THEN node ELSE @]

\* The definition of the code, with the nodes that it follows pointers to.
LEMMA ExchangedIs ==
    ASSUME NEW list, NEW slot, NEW node, NEW behind, NEW last,
           node = Deref(list, slot), behind = list.next[node], last = list.next[behind]
    PROVE  Exchanged(list, slot) = ExchangedNodes(list, slot, node, behind, last)
  <1>1. Exchanged(list, slot) =
          ExchangedNodes(list, slot, Deref(list, slot), list.next[Deref(list, slot)],
                         list.next[list.next[Deref(list, slot)]])
    BY DEF Exchanged, ExchangedNodes
  <1> QED
    BY <1>1

\* Nodes that change places stay linked, and `end` is right.
LEMMA ExchangedLinked ==
    ASSUME NEW list, NEW q, Linked(list, q), NEW k \in 1 .. Len(q) - 1
    PROVE  Linked(Exchanged(list, SlotOf(q, k)), Swapped(q, k))
  <1> DEFINE n == Len(q)
             r == Swapped(q, k)
             slot == SlotOf(q, k)
             new == Exchanged(list, slot)
             node == q[k]
             behind == q[k + 1]
             D == DOMAIN list.next
             last == list.next[behind]
  <1>1. /\ list \in ListType /\ q \in Seq(Nat \ {0}) /\ Distinct(q) /\ list.length = n
        /\ \A x : x \in D <=> \E j \in 1 .. n : x = q[j]
        /\ n > 0 => list.begin = q[1] /\ list.end = q[n] /\ list.next[q[n]] = 0
        /\ \A j \in 1 .. n - 1 : list.next[q[j]] = q[j + 1]
    BY DEF Linked
  <1>2. n \in Nat /\ \A j \in 1 .. n : q[j] \in Nat \ {0}
    BY <1>1, PlacesOfSeq
  <1>3. /\ r \in Seq(Nat \ {0}) /\ Len(r) = n
        /\ k \in 1 .. n /\ k + 1 \in 1 .. n
        /\ r[k] = behind /\ r[k + 1] = node
        /\ \A j \in 1 .. n : j # k /\ j # k + 1 => r[j] = q[j]
    BY <1>1, SwappedIs
  <1>4. /\ list.next \in Links /\ list.begin \in Nat /\ list.end \in Nat /\ list.length \in Nat
        /\ list = [length |-> list.length, begin |-> list.begin, end |-> list.end, next |-> list.next]
    BY <1>1 DEF ListType
  <1>5. list.next \in [D -> Nat] /\ D \subseteq Nat
    BY <1>4, LinksType
  <1>6. /\ node \in D /\ behind \in D /\ node # behind /\ node # 0 /\ behind # 0
        /\ list.next[node] = behind
    BY <1>1, <1>2, <1>3, SMTT(20) DEF Distinct
  <1>7. /\ k = 1 => slot = 0 /\ list.begin = node
        /\ k # 1 => /\ slot = q[k - 1] /\ slot \in D /\ slot # 0 /\ slot # node /\ slot # behind
                    /\ list.next[slot] = node
    <2>1. CASE k = 1
      BY <1>1, <1>3, <2>1 DEF SlotOf, NULL
    <2>2. CASE k # 1
      <3>1. k - 1 \in 1 .. n - 1 /\ k - 1 \in 1 .. n /\ k - 1 + 1 = k /\ k - 1 # k /\ k - 1 # k + 1
        BY <1>2, <2>2
      <3>2. slot = q[k - 1]
        BY <2>2 DEF SlotOf
      <3>3. slot # 0 /\ slot # node /\ slot # behind
        <4>1. q[k - 1] # 0
          BY <1>2, <3>1
        <4>2. \A a, b \in 1 .. n : q[a] = q[b] => a = b
          BY <1>1 DEF Distinct
        <4>3. q[k - 1] # q[k]
          BY <4>2, <3>1, <1>3
        <4>4. q[k - 1] # q[k + 1]
          BY <4>2, <3>1, <1>3
        <4> QED
          BY <4>1, <4>3, <4>4, <3>2
      <3>4. slot \in D
        BY <1>1, <1>3, <1>2, <3>1, <3>2
      <3>5. list.next[q[k - 1]] = q[k - 1 + 1]
        BY <1>1, <3>1
      <3> QED
        BY <2>2, <3>1, <3>2, <3>3, <3>4, <3>5
    <2> QED
      BY <2>1, <2>2
  <1>8. Deref(list, slot) = node
    BY <1>7 DEF Deref, NULL
  <1> DEFINE next == [x \in D |-> CASE x = slot -> behind
                                    [] x = node -> last
                                    [] x = behind -> node
                                    [] x \notin {slot, node, behind} -> list.next[x]]
  <1>9. new = [length |-> list.length, begin |-> IF slot = 0 THEN behind ELSE list.begin,
               end |-> IF last = 0 THEN node ELSE list.end, next |-> next]
    <2>1. new = [list EXCEPT !.begin = IF slot = 0 THEN behind ELSE @, !.next = next,
                             !.end = IF last = 0 THEN node ELSE @]
      <3>1. new = ExchangedNodes(list, slot, node, behind, last)
        BY <1>6, <1>8, ExchangedIs
      <3> QED
        BY <3>1 DEF ExchangedNodes, NULL
    <2> HIDE DEF next, new, last
    <2> QED
      BY <1>4, <2>1
  <1> HIDE DEF new, r, slot
  <1>10. /\ DOMAIN next = D
         /\ \A x \in D : x # slot /\ x # node /\ x # behind => next[x] = list.next[x]
         /\ next[node] = last
         /\ next[behind] = node
         /\ slot \in D => next[slot] = behind
    <2>1. DOMAIN next = D
      OBVIOUS
    <2>2. \A x \in D : x # slot /\ x # node /\ x # behind => next[x] = list.next[x]
      OBVIOUS
    <2>3. node # slot /\ behind # slot
      BY <1>6, <1>7
    <2>4. next[node] = last
      BY <1>6, <2>3
    <2>5. next[behind] = node
      BY <1>6, <2>3
    <2>6. slot \in D => next[slot] = behind
      BY <1>6, <2>3
    <2> QED
      BY <2>1, <2>2, <2>4, <2>5, <2>6
  <1>11. next \in Links
    <2>1. node \in Nat /\ behind \in Nat /\ last \in Nat
      BY <1>5, <1>6
    <2>2. ASSUME NEW x \in D PROVE next[x] \in Nat
      <3> HIDE DEF next
      <3>1. CASE x = slot
        BY <1>10, <2>1, <3>1
      <3>2. CASE x = node
        BY <1>10, <2>1, <3>2
      <3>3. CASE x = behind
        BY <1>10, <2>1, <3>3
      <3>4. CASE x # slot /\ x # node /\ x # behind
        BY <1>5, <1>10, <3>4
      <3> QED
        BY <3>1, <3>2, <3>3, <3>4
    <2>3. next = [x \in D |-> next[x]]
      OBVIOUS
    <2> HIDE DEF next
    <2>4. next \in [D -> Nat]
      BY <2>2, <2>3
    <2> QED
      BY <1>5, <2>4, LinksAre
  <1> HIDE DEF next
  <1>12. /\ new \in ListType /\ new.length = n /\ new.next = next
         /\ new.begin = (IF slot = 0 THEN behind ELSE list.begin)
         /\ new.end = (IF last = 0 THEN node ELSE list.end)
    <2>1. node \in Nat /\ behind \in Nat
      BY <1>5, <1>6
    <2> HIDE DEF node, behind, last, n
    <2> QED
      BY <1>1, <1>4, <1>9, <1>11, <2>1 DEF ListType
  <1>13. Distinct(r)
    <2> SUFFICES ASSUME NEW h \in 1 .. n, NEW j \in 1 .. n, r[h] = r[j] PROVE h = j
      BY <1>3 DEF Distinct
    <2> DEFINE Old(x) == IF x = k THEN k + 1 ELSE IF x = k + 1 THEN k ELSE x
    <2>1. PICK a \in 1 .. n : a = Old(h) /\ r[h] = q[a]
      BY <1>3
    <2>3. PICK b \in 1 .. n : b = Old(j) /\ r[j] = q[b]
      BY <1>3
    <2>4. a = b
      <3>1. \A x, y \in 1 .. n : q[x] = q[y] => x = y
        BY <1>1 DEF Distinct
      <3> HIDE DEF Old, n
      <3>2. q[a] = q[b]
        BY <2>1, <2>3
      <3> QED
        BY <3>1, <3>2
    <2>2. Old(h) = Old(j)
      BY <2>1, <2>3, <2>4
    <2> QED
      BY <1>3, <2>2
  <1>14. \A x : x \in DOMAIN new.next <=> \E j \in 1 .. n : x = r[j]
    <2>1. ASSUME NEW x \in D PROVE \E j \in 1 .. n : x = r[j]
      <3>1. PICK j \in 1 .. n : x = q[j]
        BY <1>1
      <3>2. CASE j = k
        BY <1>3, <3>1, <3>2
      <3>3. CASE j = k + 1
        BY <1>3, <3>1, <3>3
      <3>4. CASE j # k /\ j # k + 1
        BY <1>3, <3>1, <3>4
      <3> QED
        BY <3>2, <3>3, <3>4
    <2>2. ASSUME NEW j \in 1 .. n PROVE r[j] \in D
      <3>1. CASE j = k
        BY <1>3, <1>6, <3>1
      <3>2. CASE j = k + 1
        BY <1>3, <1>6, <3>2
      <3>3. CASE j # k /\ j # k + 1
        BY <1>1, <1>3, <3>3
      <3> QED
        BY <3>1, <3>2, <3>3
    <2> QED
      BY <1>10, <1>12, <2>1, <2>2
  <1>15. new.begin = r[1]
    <2>1. CASE k = 1
      BY <1>3, <1>7, <1>12, <2>1
    <2>2. CASE k # 1
      <3>1. 1 \in 1 .. n /\ 1 # k /\ 1 # k + 1
        BY <1>2, <1>3, <2>2
      <3>2. n > 0
        BY <1>2, <3>1
      <3> QED
        BY <1>1, <1>3, <1>7, <1>12, <2>2, <3>1, <3>2
    <2> QED
      BY <2>1, <2>2
  <1>16. n > 0 /\ n \in 1 .. n
    BY <1>2, <1>3
  <1>17. last = IF k + 1 = n THEN 0 ELSE q[k + 2]
    <2>1. CASE k + 1 = n
      BY <1>1, <1>16, <2>1
    <2>2. CASE k + 1 # n
      <3>1. k + 1 \in 1 .. n - 1 /\ k + 1 + 1 = k + 2
        BY <1>2, <1>3, <2>2
      <3> QED
        BY <1>1, <2>2, <3>1
    <2> QED
      BY <2>1, <2>2
  <1>18. new.end = r[n] /\ new.next[r[n]] = 0
    <2>1. CASE k + 1 = n
      <3>1. last = 0
        BY <1>17, <2>1
      <3> QED
        BY <1>3, <1>10, <1>12, <2>1, <3>1
    <2>2. CASE k + 1 # n
      <3>1. k + 2 \in 1 .. n /\ n # k /\ n # k + 1
        BY <1>2, <1>3, <2>2
      <3>2. last # 0
        BY <1>2, <1>17, <2>2, <3>1
      <3>3. r[n] = q[n] /\ q[n] \in D /\ q[n] # node /\ q[n] # behind
        BY <1>1, <1>3, <1>16, <3>1 DEF Distinct
      <3>4. q[n] # slot
        <4>1. CASE k = 1
          BY <1>2, <1>7, <1>16, <4>1
        <4>2. CASE k # 1
          <5>1. k - 1 \in 1 .. n /\ k - 1 # n
            BY <1>2, <4>2
          <5> QED
            BY <1>1, <1>7, <1>16, <4>2, <5>1 DEF Distinct
        <4> QED
          BY <4>1, <4>2
      <3> QED
        BY <1>1, <1>10, <1>12, <1>16, <3>2, <3>3, <3>4
    <2> QED
      BY <2>1, <2>2
  <1>19. ASSUME NEW j \in 1 .. n - 1 PROVE new.next[r[j]] = r[j + 1]
    <2>1. j \in 1 .. n /\ j + 1 \in 1 .. n
      BY <1>2
    <2>2. CASE j = k
      BY <1>3, <1>10, <1>12, <2>2
    <2>3. CASE j = k + 1
      <3>1. k + 1 # n /\ j + 1 = k + 2 /\ k + 2 # k /\ k + 2 # k + 1
        BY <1>2, <2>3
      <3> QED
        BY <1>3, <1>10, <1>12, <1>17, <2>1, <2>3, <3>1
    <2>4. CASE j + 1 = k
      <3>1. k # 1 /\ k - 1 = j /\ j # k /\ j # k + 1
        BY <1>2, <2>4
      <3>2. slot = q[j] /\ slot \in D
        BY <1>7, <3>1
      <3> QED
        BY <1>3, <1>10, <1>12, <2>1, <2>4, <3>1, <3>2
    <2>5. CASE j # k /\ j # k + 1 /\ j + 1 # k
      <3>1. j + 1 # k + 1
        BY <1>2, <2>5
      <3>2. q[j] # node /\ q[j] # behind /\ q[j] \in D
        BY <1>1, <1>3, <2>1, <2>5 DEF Distinct
      <3>3. q[j] # slot
        <4>1. CASE k = 1
          BY <1>2, <1>7, <2>1, <4>1
        <4>2. CASE k # 1
          <5>1. k - 1 \in 1 .. n /\ k - 1 # j
            BY <1>2, <2>5, <4>2
          <5> QED
            BY <1>1, <1>7, <2>1, <4>2, <5>1 DEF Distinct
        <4> QED
          BY <4>1, <4>2
      <3> QED
        BY <1>1, <1>3, <1>10, <1>12, <2>1, <2>5, <3>1, <3>2, <3>3
    <2> QED
      BY <2>2, <2>3, <2>4, <2>5
  <1>20. Len(r) # 0 /\ Len(r) > 0
    BY <1>3, <1>16
  <1>21. /\ \A x : x \in DOMAIN new.next <=> \E j \in 1 .. Len(r) : x = r[j]
         /\ \A j \in 1 .. Len(r) - 1 : new.next[r[j]] = r[j + 1]
         /\ new.begin = r[1] /\ new.end = r[Len(r)] /\ new.next[r[Len(r)]] = 0
         /\ new.length = Len(r) /\ new \in ListType /\ r \in Seq(Nat \ {0})
    BY <1>3, <1>12, <1>14, <1>15, <1>18, <1>19
  <1>22. Linked(new, r)
    BY <1>13, <1>20, <1>21 DEF Linked
  <1> QED
    BY <1>22 DEF new, r, slot

\* The nodes behind the m-th are where they belong: none before them has a higher rank.
PlacedFrom(q, rank, m) ==
    \A k \in m + 1 .. Len(q) : \A j \in 1 .. k : rank[q[j]] <= rank[q[k]]

\* Of the first m nodes, the last has the highest rank.
HighestLast(q, rank, m) == \A j \in 1 .. m : rank[q[j]] <= rank[q[m]]

\* A turn of the loop of _bubble_sort_iteration.
BubbleTurn(s, rank) ==
    LET node == Deref(s.list, s.slot)
    IN  IF node = NULL \/ s.list.next[node] = NULL THEN s
        ELSE IF rank[node] <= rank[s.list.next[node]] THEN [s EXCEPT !.slot = node]
        ELSE [list |-> Exchanged(s.list, s.slot), slot |-> s.list.next[node]]

\* After p turns: the highest of the first nodes is the one behind them, and those behind
\* the m-th still are where they belong, at the end one more.
PassAt(s, p, rank, m, D, n) ==
    \E q : /\ Linked(s.list, q)
           /\ Len(q) = n
           /\ \A x : x \in DOMAIN s.list.next <=> x \in D
           /\ s = [list |-> s.list, slot |-> s.slot]
           /\ s.slot = SlotOf(q, p + 1)
           /\ PlacedFrom(q, rank, m)
           /\ HighestLast(q, rank, p + 1)
           /\ p + 1 >= m => PlacedFrom(q, rank, m - 1)

\* From one turn to the next.
LEMMA BubbleTurnIs ==
    ASSUME NEW s, NEW rank, NEW D, NEW n \in Nat, NEW m \in 1 .. n, NEW p \in 0 .. n - 2,
           \A x \in D : rank[x] \in Int,
           PassAt(s, p, rank, m, D, n)
    PROVE  PassAt(BubbleTurn(s, rank), p + 1, rank, m, D, n)
  <1>1. PICK q : /\ Linked(s.list, q)
                 /\ Len(q) = n
                 /\ \A x : x \in DOMAIN s.list.next <=> x \in D
                 /\ s = [list |-> s.list, slot |-> s.slot]
                 /\ s.slot = SlotOf(q, p + 1)
                 /\ PlacedFrom(q, rank, m)
                 /\ HighestLast(q, rank, p + 1)
                 /\ p + 1 >= m => PlacedFrom(q, rank, m - 1)
    BY DEF PassAt
  <1>2. PICK k \in 1 .. n - 1 : k = p + 1 /\ k \in 1 .. n /\ k + 1 \in 1 .. n
    <2>1. p + 1 \in 1 .. n - 1 /\ p + 1 \in 1 .. n /\ p + 1 + 1 \in 1 .. n
      OBVIOUS
    <2> QED
      BY <2>1
  <1> DEFINE list == s.list
             node == q[k]
             behind == q[k + 1]
             t == BubbleTurn(s, rank)
  <1>3. /\ list \in ListType /\ q \in Seq(Nat \ {0}) /\ Distinct(q) /\ list.length = n
        /\ \A x : x \in DOMAIN list.next <=> \E j \in 1 .. n : x = q[j]
        /\ list.begin = q[1]
        /\ \A j \in 1 .. n - 1 : list.next[q[j]] = q[j + 1]
    BY <1>1, <1>2 DEF Linked
  <1>4. \A j \in 1 .. n : q[j] \in Nat \ {0} /\ q[j] \in D /\ rank[q[j]] \in Int
    BY <1>1, <1>3, PlacesOfSeq
  <1>5. node # 0 /\ behind # 0 /\ list.next[node] = behind
    BY <1>2, <1>3, <1>4
  <1>6. Deref(list, s.slot) = node
    <2>1. CASE k = 1
      BY <1>1, <1>2, <1>3, <2>1 DEF Deref, SlotOf, NULL
    <2>2. CASE k # 1
      <3>1. k - 1 \in 1 .. n - 1 /\ k - 1 \in 1 .. n /\ k - 1 + 1 = k
        BY <2>2
      <3>2. s.slot = q[k - 1] /\ q[k - 1] # 0
        BY <1>1, <1>2, <1>4, <2>2, <3>1 DEF SlotOf
      <3> QED
        BY <1>3, <3>1, <3>2 DEF Deref, NULL
    <2> QED
      BY <2>1, <2>2
  <1>7. \A j \in 1 .. k : rank[q[j]] <= rank[node]
    BY <1>1, <1>2 DEF HighestLast
  <1>8. \A h \in m + 1 .. n : \A j \in 1 .. h : rank[q[j]] <= rank[q[h]]
    BY <1>1 DEF PlacedFrom
  <1>9. k >= m => \A h \in m .. n : \A j \in 1 .. h : rank[q[j]] <= rank[q[h]]
    <2>1. m - 1 + 1 = m
      OBVIOUS
    <2> QED
      BY <1>1, <1>2, <2>1 DEF PlacedFrom
  <1>10. t = IF rank[node] <= rank[behind] THEN [list |-> list, slot |-> node]
             ELSE [list |-> Exchanged(list, s.slot), slot |-> behind]
    <2>1. t = IF rank[node] <= rank[behind] THEN [s EXCEPT !.slot = node]
              ELSE [list |-> Exchanged(list, s.slot), slot |-> behind]
      BY <1>5, <1>6 DEF BubbleTurn, NULL
    <2>2. [s EXCEPT !.slot = node] = [list |-> list, slot |-> node]
      BY <1>1
    <2> QED
      BY <2>1, <2>2
  <1>11. k + 1 # 1 /\ k + 1 - 1 = k
    BY <1>2
  <1> HIDE DEF t
  <1>12. CASE rank[node] <= rank[behind]
    <2>1. t.list = list /\ t.slot = node /\ t = [list |-> t.list, slot |-> t.slot]
      BY <1>10, <1>12
    <2>2. t.slot = SlotOf(q, k + 1)
      BY <1>11, <2>1 DEF SlotOf
    <2>3. \A j \in 1 .. k + 1 : rank[q[j]] <= rank[behind]
      <3> SUFFICES ASSUME NEW j \in 1 .. k + 1 PROVE rank[q[j]] <= rank[behind]
        OBVIOUS
      <3>1. j \in 1 .. n /\ (j = k + 1 \/ j \in 1 .. k)
        BY <1>2
      <3>2. CASE j = k + 1
        BY <1>2, <1>4, <3>2
      <3>3. CASE j \in 1 .. k
        BY <1>2, <1>4, <1>7, <1>12, <3>1, <3>3
      <3> QED
        BY <3>1, <3>2, <3>3
    <2>4. HighestLast(q, rank, k + 1)
      BY <2>3 DEF HighestLast
    <2>5. k + 1 >= m => PlacedFrom(q, rank, m - 1)
      <3>1. CASE k >= m
        BY <1>1, <1>2, <3>1
      <3>2. CASE k + 1 = m
        <4>1. \A h \in m .. n : \A j \in 1 .. h : rank[q[j]] <= rank[q[h]]
          <5> SUFFICES ASSUME NEW h \in m .. n, NEW j \in 1 .. h PROVE rank[q[j]] <= rank[q[h]]
            OBVIOUS
          <5>1. CASE h = m
            BY <2>3, <3>2, <5>1
          <5>2. CASE h # m
            <6>1. h \in m + 1 .. n
              BY <5>2
            <6> QED
              BY <1>8, <6>1
          <5> QED
            BY <5>1, <5>2
        <4>2. m - 1 + 1 = m
          OBVIOUS
        <4> QED
          BY <1>1, <4>1, <4>2 DEF PlacedFrom
      <3> QED
        BY <1>2, <3>1, <3>2
    <2> HIDE DEF node, behind, list
    <2>6. /\ Linked(t.list, q)
          /\ Len(q) = n
          /\ \A x : x \in DOMAIN t.list.next <=> x \in D
      BY <1>1, <2>1 DEF list
    <2>7. PassAt(t, k, rank, m, D, n)
      BY <1>1, <2>1, <2>2, <2>4, <2>5, <2>6 DEF PassAt
    <2> QED
      BY <1>2, <2>7 DEF t
  <1>13. CASE ~(rank[node] <= rank[behind])
    <2> DEFINE r == Swapped(q, k)
    <2>1. t.list = Exchanged(list, s.slot) /\ t.slot = behind /\ t = [list |-> t.list, slot |-> t.slot]
      BY <1>10, <1>13
    <2>2. s.slot = SlotOf(q, k)
      BY <1>1, <1>2
    <2>3. Linked(t.list, r)
      BY <1>1, <1>2, <2>1, <2>2, ExchangedLinked
    <2>4. /\ r \in Seq(Nat \ {0}) /\ Len(r) = n
          /\ r[k] = behind /\ r[k + 1] = node
          /\ \A j \in 1 .. n : j # k /\ j # k + 1 => r[j] = q[j]
      <3> DEFINE P == Nat \ {0}
      <3>1. q \in Seq(P) /\ k \in 1 .. Len(q) - 1
        BY <1>1, <1>2, <1>3
      <3> HIDE DEF r, node, behind, list, P
      <3>2. /\ Swapped(q, k) \in Seq(P)
            /\ Len(Swapped(q, k)) = Len(q)
            /\ k \in 1 .. Len(q) /\ k + 1 \in 1 .. Len(q)
            /\ Swapped(q, k)[k] = q[k + 1]
            /\ Swapped(q, k)[k + 1] = q[k]
            /\ \A j \in 1 .. Len(q) : j # k /\ j # k + 1 => Swapped(q, k)[j] = q[j]
        BY <3>1, SwappedIs
      <3>3. /\ r \in Seq(Nat \ {0}) /\ Len(r) = Len(q)
            /\ r[k] = behind /\ r[k + 1] = node
            /\ \A j \in 1 .. Len(q) : j # k /\ j # k + 1 => r[j] = q[j]
        BY <3>2 DEF r, node, behind, P
      <3> QED
        BY <1>1, <3>3
    <2> HIDE DEF r
    <2>5. t.slot = SlotOf(r, k + 1)
      BY <1>11, <2>1, <2>4, SMTT(20) DEF SlotOf
    <2>6. k + 1 < m \/ k + 1 = m
      <3>1. CASE k + 1 > m
        <4>1. k + 1 \in m + 1 .. n /\ k \in 1 .. k + 1
          BY <1>2, <3>1
        <4>2. rank[node] <= rank[behind]
          BY <1>8, <4>1
        <4> QED
          BY <1>13, <4>2
      <3> QED
        BY <1>2, <3>1
    <2>7. ASSUME NEW h \in m + 1 .. n, NEW j \in 1 .. h PROVE rank[r[j]] <= rank[r[h]]
      <3>1. h \in 1 .. n /\ h # k /\ h # k + 1 /\ r[h] = q[h] /\ k \in 1 .. h /\ k + 1 \in 1 .. h
        BY <1>2, <2>4, <2>6
      <3>2. CASE j = k
        BY <1>8, <2>4, <3>1, <3>2
      <3>3. CASE j = k + 1
        BY <1>8, <2>4, <3>1, <3>3
      <3>4. CASE j # k /\ j # k + 1
        <4>1. j \in 1 .. n
          BY <3>1
        <4> QED
          BY <1>8, <2>4, <3>1, <3>4, <4>1
      <3> QED
        BY <3>2, <3>3, <3>4
    <2>8. \A j \in 1 .. k + 1 : rank[r[j]] <= rank[r[k + 1]]
      <3> SUFFICES ASSUME NEW j \in 1 .. k + 1 PROVE rank[r[j]] <= rank[node]
        BY <2>4
      <3>1. j \in 1 .. n /\ (j = k + 1 \/ j = k \/ j \in 1 .. k - 1)
        BY <1>2
      <3>2. CASE j = k + 1
        BY <1>2, <1>4, <2>4, <3>2
      <3>3. CASE j = k
        BY <1>2, <1>4, <1>13, <2>4, <3>3
      <3>4. CASE j \in 1 .. k - 1
        BY <1>2, <1>7, <2>4, <3>1, <3>4
      <3> QED
        BY <3>1, <3>2, <3>3, <3>4
    <2>9. PlacedFrom(r, rank, m)
      BY <2>4, <2>7 DEF PlacedFrom
    <2>10. HighestLast(r, rank, k + 1)
      BY <2>8 DEF HighestLast
    <2>11. k + 1 >= m => PlacedFrom(r, rank, m - 1)
      <3> SUFFICES ASSUME k + 1 = m PROVE PlacedFrom(r, rank, m - 1)
        BY <1>2, <2>6
      <3>1. \A h \in m .. n : \A j \in 1 .. h : rank[r[j]] <= rank[r[h]]
        <4> SUFFICES ASSUME NEW h \in m .. n, NEW j \in 1 .. h PROVE rank[r[j]] <= rank[r[h]]
          OBVIOUS
        <4>1. CASE h = m
          BY <2>8, <4>1
        <4>2. CASE h # m
          <5>1. h \in m + 1 .. n
            BY <4>2
          <5> QED
            BY <2>7, <5>1
        <4> QED
          BY <4>1, <4>2
      <3>2. m - 1 + 1 = m
        OBVIOUS
      <3> QED
        BY <2>4, <3>1, <3>2 DEF PlacedFrom
    <2>12. \A x : x \in DOMAIN t.list.next <=> x \in D
      <3>1. \A x : x \in DOMAIN t.list.next <=> \E j \in 1 .. n : x = r[j]
        BY <2>3, <2>4 DEF Linked
      <3>2. ASSUME NEW j \in 1 .. n PROVE r[j] \in D
        BY <1>2, <1>4, <2>4
      <3>3. ASSUME NEW j \in 1 .. n PROVE \E h \in 1 .. n : q[j] = r[h]
        <4>1. CASE j = k
          BY <1>2, <2>4, <4>1
        <4>2. CASE j = k + 1
          BY <1>2, <2>4, <4>2
        <4>3. CASE j # k /\ j # k + 1
          BY <2>4, <4>3
        <4> QED
          BY <4>1, <4>2, <4>3
      <3>4. \A x : x \in D <=> \E j \in 1 .. n : x = q[j]
        BY <1>1, <1>3
      <3> QED
        BY <3>1, <3>2, <3>3, <3>4
    <2>13. PassAt(t, k, rank, m, D, n)
      BY <2>1, <2>3, <2>4, <2>5, <2>9, <2>10, <2>11, <2>12 DEF PassAt
    <2> QED
      BY <1>2, <2>13 DEF t
  <1> QED
    BY <1>12, <1>13

\* The function that _bubble_sort_iteration computes with.
PassRun(f, list, rank) ==
    f = [k \in 0 .. list.length |->
           IF k = 0 THEN [list |-> list, slot |-> NULL] ELSE BubbleTurn(f[k - 1], rank)]

\* It exists, up to any turn.
LEMMA PassExists ==
    ASSUME NEW list, NEW rank, list.length \in Nat
    PROVE  \E f : PassRun(f, list, rank)
  <1> DEFINE base == [list |-> list, slot |-> NULL]
             Run(f, n) == f = [k \in 0 .. n |-> IF k = 0 THEN base ELSE BubbleTurn(f[k - 1], rank)]
             T == {n \in Nat : \E f : Run(f, n)}
  <1>1. 0 \in T
    <2> DEFINE f == [k \in 0 .. 0 |-> base]
    <2>1. f = [k \in 0 .. 0 |-> IF k = 0 THEN base ELSE BubbleTurn(f[k - 1], rank)]
      OBVIOUS
    <2> QED
      BY <2>1
  <1>2. ASSUME NEW n \in Nat, n \in T PROVE n + 1 \in T
    <2>1. PICK f : Run(f, n)
      BY <1>2
    <2>2. \A k \in 0 .. n : f[k] = IF k = 0 THEN base ELSE BubbleTurn(f[k - 1], rank)
      BY <2>1
    <2> HIDE DEF base
    <2> DEFINE g == [k \in 0 .. n + 1 |-> IF k <= n THEN f[k] ELSE BubbleTurn(f[n], rank)]
    <2>3. ASSUME NEW k \in 0 .. n + 1
          PROVE  g[k] = IF k = 0 THEN base ELSE BubbleTurn(g[k - 1], rank)
      <3>1. CASE k = 0
        BY <2>2, <3>1
      <3>2. CASE k # 0 /\ k <= n
        <4>1. k - 1 \in 0 .. n + 1 /\ k - 1 <= n /\ k \in 0 .. n
          BY <3>2
        <4>2. g[k] = f[k] /\ g[k - 1] = f[k - 1]
          BY <3>2, <4>1
        <4> HIDE DEF g
        <4> QED
          BY <2>2, <3>2, <4>1, <4>2
      <3>3. CASE k = n + 1
        <4>1. k - 1 = n /\ n \in 0 .. n + 1 /\ ~(k <= n) /\ k # 0
          BY <3>3
        <4>2. g[k] = BubbleTurn(f[n], rank) /\ g[n] = f[n]
          BY <4>1
        <4> HIDE DEF g
        <4> QED
          BY <4>1, <4>2
      <3> QED
        BY <3>1, <3>2, <3>3
    <2>4. g = [k \in 0 .. n + 1 |-> g[k]]
      OBVIOUS
    <2> HIDE DEF g
    <2>5. Run(g, n + 1)
      BY <2>3, <2>4
    <2> QED
      BY <2>5
  <1> HIDE DEF T
  <1>3. list.length \in T
    BY <1>1, <1>2, NatSetInduction
  <1>4. \E f : Run(f, list.length)
    BY <1>3 DEF T
  <1> QED
    BY <1>4 DEF PassRun

\* An iteration: one node more is where it belongs.
LEMMA IterationIs ==
    ASSUME NEW list, NEW q, Linked(list, q), NEW rank, NEW D,
           \A x : x \in DOMAIN list.next <=> x \in D,
           \A x \in D : rank[x] \in Int,
           NEW m \in 1 .. Len(q), PlacedFrom(q, rank, m)
    PROVE  \E r : /\ Linked(BubbleSortIteration(list, rank), r)
                  /\ Len(r) = Len(q)
                  /\ \A x : x \in DOMAIN BubbleSortIteration(list, rank).next <=> x \in D
                  /\ PlacedFrom(r, rank, m - 1)
  <1> DEFINE n == Len(q)
             turn == CHOOSE f : PassRun(f, list, rank)
  <1>1. n \in Nat /\ m \in 1 .. n /\ list.length = n /\ n >= 1 /\ q \in Seq(Nat \ {0}) /\ Distinct(q)
    BY PlacesOfSeq DEF Linked
  <1>2. BubbleSortIteration(list, rank) = turn[n].list
    BY <1>1 DEF BubbleSortIteration, PassRun, BubbleTurn
  <1>3. PassRun(turn, list, rank)
    <2>1. \E f : PassRun(f, list, rank)
      BY <1>1, PassExists
    <2> QED
      BY <2>1
  <1> HIDE DEF turn
  <1>4. \A k \in 0 .. n : turn[k] = IF k = 0 THEN [list |-> list, slot |-> NULL]
                                    ELSE BubbleTurn(turn[k - 1], rank)
    BY <1>1, <1>3 DEF PassRun
  <1>5. turn[0].list = list /\ turn[0].slot = NULL /\ turn[0] = [list |-> turn[0].list, slot |-> turn[0].slot]
    BY <1>1, <1>4
  <1>6. \A x : x \in D <=> \E k \in 1 .. n : x = q[k]
    BY DEF Linked
  <1> HIDE DEF n
  <1>7. PassAt(turn[0], 0, rank, m, D, n)
    <2>1. q[1] \in D
      BY <1>1, <1>6
    <2>2. HighestLast(q, rank, 1)
      <3> SUFFICES ASSUME NEW j \in 1 .. 1 PROVE rank[q[j]] <= rank[q[1]]
        BY DEF HighestLast
      <3>1. j = 1 /\ rank[q[1]] \in Int
        BY <2>1
      <3> QED
        BY <3>1
    <2>3. 0 + 1 >= m => PlacedFrom(q, rank, m - 1)
      <3> SUFFICES ASSUME m = 1 PROVE PlacedFrom(q, rank, m - 1)
        BY <1>1
      <3> SUFFICES ASSUME NEW k \in 1 .. n, NEW j \in 1 .. k PROVE rank[q[j]] <= rank[q[k]]
        BY DEF PlacedFrom, n
      <3>1. CASE k = 1
        BY <2>2, <3>1 DEF HighestLast
      <3>2. CASE k # 1
        <4>1. k \in m + 1 .. n
          BY <3>2
        <4> QED
          BY <4>1 DEF PlacedFrom, n
      <3> QED
        BY <3>1, <3>2
    <2>4. turn[0].slot = SlotOf(q, 0 + 1) /\ HighestLast(q, rank, 0 + 1)
      BY <1>5, <2>2 DEF SlotOf
    <2>5. Linked(turn[0].list, q) /\ Len(q) = n /\ \A x : x \in DOMAIN turn[0].list.next <=> x \in D
      BY <1>5 DEF n
    <2> QED
      BY <1>5, <2>3, <2>4, <2>5 DEF PassAt
  <1> DEFINE T == {p \in Nat : p <= n - 1 => PassAt(turn[p], p, rank, m, D, n)}
  <1>8. 0 \in T
    BY <1>7
  <1>9. ASSUME NEW p \in Nat, p \in T PROVE p + 1 \in T
    <2> SUFFICES ASSUME p + 1 <= n - 1 PROVE PassAt(turn[p + 1], p + 1, rank, m, D, n)
      OBVIOUS
    <2>1. p \in 0 .. n - 2 /\ p + 1 \in 0 .. n /\ p + 1 # 0 /\ p + 1 - 1 = p
      BY <1>1
    <2>2. PassAt(turn[p], p, rank, m, D, n)
      BY <1>1, <1>9
    <2>3. turn[p + 1] = BubbleTurn(turn[p], rank)
      BY <1>4, <2>1
    <2>4. PassAt(BubbleTurn(turn[p], rank), p + 1, rank, m, D, n)
      BY <1>1, <2>1, <2>2, BubbleTurnIs
    <2> QED
      BY <2>3, <2>4
  <1> HIDE DEF T
  <1>10. n - 1 \in T /\ n - 1 \in Nat
    <2>1. n - 1 \in Nat
      BY <1>1
    <2>2. Nat \subseteq T
      BY <1>8, <1>9, NatSetInduction
    <2> QED
      BY <2>1, <2>2
  <1>11. PassAt(turn[n - 1], n - 1, rank, m, D, n)
    BY <1>10 DEF T
  <1> DEFINE s == turn[n - 1]
  <1>12. PICK r : /\ Linked(s.list, r)
                  /\ Len(r) = n
                  /\ \A x : x \in DOMAIN s.list.next <=> x \in D
                  /\ s.slot = SlotOf(r, n - 1 + 1)
                  /\ n - 1 + 1 >= m => PlacedFrom(r, rank, m - 1)
    BY <1>11 DEF PassAt
  <1>13. turn[n] = BubbleTurn(s, rank)
    BY <1>1, <1>4
  <1> HIDE DEF s
  <1>14. PlacedFrom(r, rank, m - 1) /\ s.slot = SlotOf(r, n)
    BY <1>1, <1>12
  <1>15. Deref(s.list, s.slot) = r[n] /\ s.list.next[r[n]] = NULL
    <2>1. /\ s.list.begin = r[1] /\ s.list.next[r[n]] = 0
          /\ \A j \in 1 .. n - 1 : s.list.next[r[j]] = r[j + 1]
          /\ \A j \in 1 .. n : r[j] \in Nat \ {0}
      <3>1. r \in Seq(Nat \ {0}) /\ Len(r) > 0
        BY <1>1, <1>12 DEF Linked
      <3>2. \A j \in 1 .. n : r[j] \in Nat \ {0}
        BY <1>12, <3>1, PlacesOfSeq
      <3> QED
        BY <1>12, <3>1, <3>2 DEF Linked
    <2>2. CASE n = 1
      BY <1>14, <2>1, <2>2 DEF Deref, SlotOf, NULL
    <2>3. CASE n # 1
      <3>1. n - 1 \in 1 .. n - 1 /\ n - 1 \in 1 .. n /\ n - 1 + 1 = n
        BY <1>1, <2>3
      <3>2. s.slot = r[n - 1] /\ r[n - 1] # 0
        BY <1>14, <2>1, <2>3, <3>1 DEF SlotOf
      <3> QED
        BY <2>1, <3>1, <3>2 DEF Deref, NULL
    <2> QED
      BY <2>2, <2>3
  <1>16. turn[n] = s
    BY <1>13, <1>15 DEF BubbleTurn
  <1> QED
    BY <1>2, <1>12, <1>14, <1>16 DEF n

\* The function that _vcd_list_sort computes with.
SortRun(f, list, rank) ==
    f = [k \in 0 .. list.length |-> IF k = 0 THEN list ELSE BubbleSortIteration(f[k - 1], rank)]

\* The passes of the sort are a function of their number.
LEMMA SortExists ==
    ASSUME NEW list, NEW rank, list.length \in Nat
    PROVE  \E f : SortRun(f, list, rank)
  <1> DEFINE Run(f, n) == f = [k \in 0 .. n |-> IF k = 0 THEN list ELSE BubbleSortIteration(f[k - 1], rank)]
             T == {n \in Nat : \E f : Run(f, n)}
  <1>1. 0 \in T
    <2> DEFINE f == [k \in 0 .. 0 |-> list]
    <2>1. f = [k \in 0 .. 0 |-> IF k = 0 THEN list ELSE BubbleSortIteration(f[k - 1], rank)]
      OBVIOUS
    <2> QED
      BY <2>1
  <1>2. ASSUME NEW n \in Nat, n \in T PROVE n + 1 \in T
    <2>1. PICK f : Run(f, n)
      BY <1>2
    <2>2. \A k \in 0 .. n : f[k] = IF k = 0 THEN list ELSE BubbleSortIteration(f[k - 1], rank)
      BY <2>1
    <2> DEFINE g == [k \in 0 .. n + 1 |-> IF k <= n THEN f[k] ELSE BubbleSortIteration(f[n], rank)]
    <2>3. ASSUME NEW k \in 0 .. n + 1
          PROVE  g[k] = IF k = 0 THEN list ELSE BubbleSortIteration(g[k - 1], rank)
      <3>1. CASE k = 0
        BY <2>2, <3>1
      <3>2. CASE k # 0 /\ k <= n
        <4>1. k - 1 \in 0 .. n + 1 /\ k - 1 <= n /\ k \in 0 .. n
          BY <3>2
        <4>2. g[k] = f[k] /\ g[k - 1] = f[k - 1]
          BY <3>2, <4>1
        <4> HIDE DEF g
        <4> QED
          BY <2>2, <3>2, <4>1, <4>2
      <3>3. CASE k = n + 1
        <4>1. k - 1 = n /\ n \in 0 .. n + 1 /\ ~(k <= n) /\ k # 0
          BY <3>3
        <4>2. g[k] = BubbleSortIteration(f[n], rank) /\ g[n] = f[n]
          BY <4>1
        <4> HIDE DEF g
        <4> QED
          BY <4>1, <4>2
      <3> QED
        BY <3>1, <3>2, <3>3
    <2>4. g = [k \in 0 .. n + 1 |-> g[k]]
      OBVIOUS
    <2> HIDE DEF g
    <2>5. Run(g, n + 1)
      BY <2>3, <2>4
    <2> QED
      BY <2>5
  <1> HIDE DEF T
  <1>3. list.length \in T
    BY <1>1, <1>2, NatSetInduction
  <1>4. \E f : Run(f, list.length)
    BY <1>3 DEF T
  <1> QED
    BY <1>4 DEF SortRun

\* The nodes of q, in the order of their ranks.
SortedOf(r, D, rank, n) ==
    /\ Len(r) = n
    /\ \A x : x \in D <=> \E k \in 1 .. n : x = r[k]
    /\ \A k \in 1 .. n : \A j \in 1 .. k : rank[r[j]] <= rank[r[k]]

\* The sort leaves a list of the same nodes, in the order of their ranks, linked.
LEMMA SortListIs ==
    ASSUME NEW list, NEW q, Linked(list, q), NEW rank, NEW D,
           \A x : x \in DOMAIN list.next <=> x \in D,
           \A x \in D : rank[x] \in Int
    PROVE  \E r : Linked(SortList(list, rank), r) /\ SortedOf(r, D, rank, Len(q))
  <1> DEFINE n == Len(q)
             sorted == CHOOSE f : SortRun(f, list, rank)
             At(k) == \E r : /\ Linked(sorted[k], r)
                             /\ Len(r) = n
                             /\ \A x : x \in DOMAIN sorted[k].next <=> x \in D
                             /\ PlacedFrom(r, rank, n - k)
  <1>1. n \in Nat /\ list.length = n
    BY PlacesOfSeq DEF Linked
  <1>2. SortList(list, rank) = sorted[n]
    BY <1>1 DEF SortList, SortRun
  <1>3. SortRun(sorted, list, rank)
    <2>1. \E f : SortRun(f, list, rank)
      BY <1>1, SortExists
    <2> QED
      BY <2>1
  <1> HIDE DEF sorted
  <1>4. \A k \in 0 .. n : sorted[k] = IF k = 0 THEN list ELSE BubbleSortIteration(sorted[k - 1], rank)
    BY <1>1, <1>3 DEF SortRun
  <1> DEFINE T == {k \in Nat : k <= n => At(k)}
  <1>5. 0 \in T
    <2>1. sorted[0] = list
      BY <1>1, <1>4
    <2>2. PlacedFrom(q, rank, n - 0)
      BY <1>1 DEF PlacedFrom
    <2> QED
      BY <2>1, <2>2
  <1>6. ASSUME NEW k \in Nat, k \in T PROVE k + 1 \in T
    <2> SUFFICES ASSUME k + 1 <= n PROVE At(k + 1)
      OBVIOUS
    <2>1. At(k)
      BY <1>1, <1>6
    <2>2. PICK r : /\ Linked(sorted[k], r)
                   /\ Len(r) = n
                   /\ \A x : x \in DOMAIN sorted[k].next <=> x \in D
                   /\ PlacedFrom(r, rank, n - k)
      BY <2>1
    <2>3. PICK m \in 1 .. Len(r) : m = n - k
      <3>1. n - k \in 1 .. n
        BY <1>1
      <3> QED
        BY <2>2, <3>1
    <2>4. sorted[k + 1] = BubbleSortIteration(sorted[k], rank)
      <3>1. k + 1 \in 0 .. n /\ k + 1 # 0 /\ k + 1 - 1 = k
        BY <1>1
      <3> QED
        BY <1>4, <3>1
    <2>5. n - (k + 1) = m - 1
      BY <1>1, <2>3
    <2>6. PlacedFrom(r, rank, m)
      BY <2>2, <2>3
    <2>7. PICK t : /\ Linked(BubbleSortIteration(sorted[k], rank), t)
                   /\ Len(t) = Len(r)
                   /\ \A x : x \in DOMAIN BubbleSortIteration(sorted[k], rank).next <=> x \in D
                   /\ PlacedFrom(t, rank, m - 1)
      BY <2>2, <2>6, IterationIs
    <2> QED
      BY <2>2, <2>4, <2>5, <2>7
  <1> HIDE DEF T
  <1>7. n \in T
    BY <1>1, <1>5, <1>6, NatSetInduction
  <1>8. PICK r : /\ Linked(sorted[n], r)
                 /\ Len(r) = n
                 /\ \A x : x \in DOMAIN sorted[n].next <=> x \in D
                 /\ PlacedFrom(r, rank, n - n)
    BY <1>1, <1>7 DEF T
  <1>9. \A k \in 1 .. n : \A j \in 1 .. k : rank[r[j]] <= rank[r[k]]
    <2>1. n - n + 1 = 1
      BY <1>1
    <2> QED
      BY <1>8, <2>1 DEF PlacedFrom
  <1>10. \A x : x \in D <=> \E k \in 1 .. n : x = r[k]
    BY <1>8 DEF Linked
  <1>11. SortedOf(r, D, rank, n)
    BY <1>8, <1>9, <1>10 DEF SortedOf
  <1> QED
    BY <1>2, <1>8, <1>11 DEF n

-----------------------------------------------------------------------------
(* Folds over sequences, from element to element.                          *)

\* What a fold computes with goes from place to place, and stays in G.
Steps(run, base, step, n) == run[0] = base /\ \A k \in 1 .. n : run[k] = step[k][run[k - 1]]

\* The function a fold computes with, where it is in G.
Stepwise(iter, G, base, step, n) ==
    /\ iter[{}] = base
    /\ \A s \in SUBSET (1 .. n) : s # {} /\ iter[s \ {Max(s)}] \in G
                                     => iter[s] = step[Max(s)][iter[s \ {Max(s)}]]

\* A fold goes through its values one after the other.
LEMMA FoldSteps ==
    ASSUME NEW G, NEW base \in G, NEW n \in Nat, NEW step \in [1 .. n -> [G -> G]], NEW iter,
           Stepwise(iter, G, base, step, n)
    PROVE  \E run \in [0 .. n -> G] : Steps(run, base, step, n) /\ run[n] = iter[1 .. n]
  <1> DEFINE run == [k \in 0 .. n |-> iter[1 .. k]]
             T == {k \in Nat : k <= n => iter[1 .. k] \in G}
  <1>1. iter[1 .. 0] = base
    <2>1. 1 .. 0 = {}
      OBVIOUS
    <2> QED
      BY <2>1 DEF Stepwise
  <1>2. ASSUME NEW k \in Nat, k + 1 <= n, iter[1 .. k] \in G
        PROVE  iter[1 .. k + 1] = step[k + 1][iter[1 .. k]]
    <2>1. /\ 1 .. k + 1 \in SUBSET (1 .. n)
          /\ 1 .. k + 1 # {}
          /\ Max(1 .. k + 1) = k + 1
          /\ (1 .. k + 1) \ {Max(1 .. k + 1)} = 1 .. k
      BY <1>2, FirstPlaces
    <2> QED
      BY <1>2, <2>1 DEF Stepwise
  <1>3. 0 \in T
    BY <1>1
  <1>4. ASSUME NEW k \in Nat, k \in T PROVE k + 1 \in T
    <2> SUFFICES ASSUME k + 1 <= n PROVE iter[1 .. k + 1] \in G
      OBVIOUS
    <2>1. iter[1 .. k] \in G /\ k + 1 \in 1 .. n
      BY <1>4
    <2>2. iter[1 .. k + 1] = step[k + 1][iter[1 .. k]]
      BY <1>2, <2>1
    <2> QED
      BY <2>1, <2>2
  <1> HIDE DEF T
  <1>5. Nat \subseteq T
    BY <1>3, <1>4, NatSetInduction
  <1>6. \A k \in 0 .. n : iter[1 .. k] \in G
    <2> SUFFICES ASSUME NEW k \in 0 .. n PROVE iter[1 .. k] \in G
      OBVIOUS
    <2>1. k \in Nat /\ k <= n
      OBVIOUS
    <2>2. k \in T
      BY <1>5, <2>1
    <2> QED
      BY <2>1, <2>2 DEF T
  <1>7. \A k \in 0 .. n : run[k] = iter[1 .. k]
    OBVIOUS
  <1>8. run \in [0 .. n -> G]
    BY <1>6
  <1> HIDE DEF run
  <1>9. ASSUME NEW k \in 1 .. n PROVE run[k] = step[k][run[k - 1]]
    <2>1. PICK l \in Nat : k = l + 1
      <3>1. k - 1 \in Nat /\ k = k - 1 + 1
        OBVIOUS
      <3> QED
        BY <3>1
    <2>2. k - 1 = l /\ l + 1 <= n /\ l \in 0 .. n /\ k \in 0 .. n
      BY <2>1
    <2>3. iter[1 .. l + 1] = step[l + 1][iter[1 .. l]]
      BY <1>2, <1>6, <2>2
    <2> QED
      BY <1>7, <2>1, <2>2, <2>3
  <1>10. run[0] = base /\ run[n] = iter[1 .. n]
    BY <1>1, <1>7
  <1> QED
    BY <1>8, <1>9, <1>10 DEF Steps

-----------------------------------------------------------------------------
(* The tree: its shape, and what is found in it.                           *)

Names == ToSet(NameOrder)

RootName == ""

NodeType == [parent : Nat, is_dir : BOOLEAN, name : Names \cup {RootName}, extent : Nat, size : Nat,
             pt_id : Nat, children : ListType]

\* The list of n links its children, in the order of their names.
Hangs(t, N, n) ==
    \E q : /\ Linked(t[n].children, q)
           /\ \A c : (c \in 1 .. N /\ t[c].parent = n) <=> \E k \in 1 .. Len(q) : c = q[k]
           /\ \A k \in 1 .. Len(q) : \A j \in 1 .. k - 1 : Rank(t[q[j]].name) < Rank(t[q[k]].name)

\* A tree of N nodes: a parent is older than its children, no name is there twice.
Shape(t, N) ==
    /\ N \in Nat \ {0}
    /\ t \in [1 .. N -> NodeType]
    /\ t[1].parent = 0
    /\ \A n \in 2 .. N : t[n].parent \in 1 .. n - 1 /\ t[n].name \in Names
    /\ \A m, n \in 2 .. N : t[m].parent = t[n].parent /\ t[m].name = t[n].name => m = n
    /\ \A n \in 1 .. N : Hangs(t, N, n)

\* The rank of a name is its place.
LEMMA RankIs ==
    ASSUME NEW name \in Names
    PROVE  Rank(name) \in Nat /\ Rank(name) \in DOMAIN NameOrder /\ NameOrder[Rank(name)] = name
  <1>1. NameOrder \in Seq(STRING)
    BY DirectoryAssumption
  <1>2. DOMAIN NameOrder = 1 .. Len(NameOrder) /\ Len(NameOrder) \in Nat
    BY <1>1, LenProperties
  <1>3. \E k \in DOMAIN NameOrder : NameOrder[k] = name
    BY DEF Names, ToSet
  <1>4. Rank(name) \in DOMAIN NameOrder /\ NameOrder[Rank(name)] = name
    BY <1>3 DEF Rank
  <1> QED
    BY <1>2, <1>4

\* Names of the same rank are the same.
LEMMA RankDiffers ==
    ASSUME NEW a \in Names, NEW b \in Names, Rank(a) = Rank(b)
    PROVE  a = b
  BY RankIs

\* The node of a number.
LEMMA NodeIs ==
    ASSUME NEW t, NEW N, Shape(t, N), NEW n \in 1 .. N
    PROVE  /\ t[n] \in NodeType
           /\ n # 1 => t[n].parent \in 1 .. N /\ t[n].parent < n /\ t[n].name \in Names
           /\ t[n].parent \in 0 .. N
  <1>1. N \in Nat \ {0} /\ t \in [1 .. N -> NodeType] /\ t[1].parent = 0
    BY DEF Shape
  <1>2. CASE n = 1
    BY <1>1, <1>2
  <1>3. CASE n # 1
    <2>1. n \in 2 .. N
      BY <1>1, <1>3
    <2>2. t[n].parent \in 1 .. n - 1 /\ t[n].name \in Names
      BY <2>1 DEF Shape
    <2> QED
      BY <1>1, <2>1, <2>2
  <1> QED
    BY <1>2, <1>3

\* At most one child has a name.
LEMMA LookupChildIs ==
    ASSUME NEW t, NEW N, Shape(t, N), NEW n \in 0 .. N, NEW name
    PROVE  /\ LookupChild(t, n, name) \in 0 .. N
           /\ LookupChild(t, n, name) # 0 =>
                /\ n # 0
                /\ LookupChild(t, n, name) \in 2 .. N
                /\ t[LookupChild(t, n, name)].parent = n
                /\ t[LookupChild(t, n, name)].name = name
           /\ \A c \in 1 .. N : n # 0 /\ t[c].parent = n /\ t[c].name = name
                                  => LookupChild(t, n, name) = c
  <1> DEFINE found == {c \in DOMAIN t : t[c].parent = n /\ t[c].name = name}
             x == LookupChild(t, n, name)
  <1>1. N \in Nat \ {0} /\ DOMAIN t = 1 .. N
    BY DEF Shape
  <1>2. x = IF n = 0 \/ found = {} THEN 0 ELSE Min(found)
    BY DEF LookupChild, NULL
  <1>3. ASSUME n # 0, NEW c \in found PROVE found = {c} /\ c \in 2 .. N /\ t[c].parent = n /\ t[c].name = name
    <2>1. \A d \in found : d \in 2 .. N /\ t[d].parent = n /\ t[d].name = name
      <3> SUFFICES ASSUME NEW d \in found PROVE d \in 2 .. N
        OBVIOUS
      <3>1. d \in 1 .. N /\ t[d].parent # 0
        BY <1>1, <1>3
      <3>2. d # 1
        BY <3>1 DEF Shape
      <3> QED
        BY <1>1, <3>1, <3>2
    <2>2. \A d \in found : d = c
      <3> SUFFICES ASSUME NEW d \in found PROVE d = c
        OBVIOUS
      <3>1. c \in 2 .. N /\ d \in 2 .. N /\ t[c].parent = t[d].parent /\ t[c].name = t[d].name
        BY <2>1, <1>3
      <3> QED
        BY <3>1 DEF Shape
    <2> QED
      BY <1>3, <2>1, <2>2
  <1>4. ASSUME NEW c \in 2 .. N, found = {c} PROVE Min(found) = c
    <2>1. c \in found /\ \A d \in found : c <= d
      BY <1>1, <1>4
    <2>2. Min(found) \in found
      BY <2>1 DEF Min
    <2> QED
      BY <1>4, <2>2
  <1>5. ASSUME NEW c \in 1 .. N, n # 0, t[c].parent = n, t[c].name = name PROVE c \in found
    BY <1>1, <1>5
  <1> HIDE DEF found, x
  <1>6. ASSUME NEW c \in 1 .. N, n # 0, t[c].parent = n, t[c].name = name PROVE x = c
    <2>1. c \in found
      BY <1>5, <1>6
    <2>2. found = {c} /\ c \in 2 .. N
      BY <1>3, <1>6, <2>1
    <2>3. Min(found) = c
      BY <1>4, <2>2
    <2> QED
      BY <1>2, <1>6, <2>1, <2>3
  <1>7. CASE n = 0 \/ found = {}
    BY <1>1, <1>2, <1>6, <1>7 DEF x
  <1>8. CASE n # 0 /\ found # {}
    <2>1. PICK c : c \in found
      BY <1>8
    <2>2. found = {c} /\ c \in 2 .. N /\ t[c].parent = n /\ t[c].name = name
      BY <1>3, <1>8, <2>1
    <2>3. Min(found) = c
      BY <1>4, <2>2
    <2>4. x = c
      BY <1>2, <1>8, <2>3
    <2>5. x \in 0 .. N /\ n # 0 /\ x \in 2 .. N /\ t[x].parent = n /\ t[x].name = name
      BY <1>1, <1>8, <2>2, <2>4
    <2> QED
      BY <1>6, <2>5 DEF x
  <1> QED
    BY <1>7, <1>8

\* The function that the fold over a path computes with.
LookupIter(iter, t, path, n) ==
    iter = [s \in SUBSET (1 .. n) |->
              IF s = {} THEN Root ELSE LookupChild(t, iter[s \ {Max(s)}], path[Max(s)])]

LookupRun(run, t, path) ==
    /\ run[0] = Root
    /\ \A k \in 1 .. Len(path) : run[k] = LookupChild(t, run[k - 1], path[k])
    /\ Lookup(t, path) = run[Len(path)]

\* A lookup goes from name to name.
LEMMA LookupRuns ==
    ASSUME NEW t, NEW N, Shape(t, N), NEW E, NEW path \in Seq(E)
    PROVE  \E run \in [0 .. Len(path) -> 0 .. N] : LookupRun(run, t, path)
  <1> DEFINE n == Len(path)
             G == 0 .. N
             step == [k \in 1 .. n |-> [s \in G |-> LookupChild(t, s, path[k])]]
             iter == CHOOSE f : LookupIter(f, t, path, n)
  <1>1. n \in Nat /\ DOMAIN path = 1 .. n /\ Root \in G
    BY LenProperties DEF Root, Shape
  <1>2. Lookup(t, path) = iter[1 .. n]
    BY <1>1 DEF Lookup, FoldLeft, MapThenFoldSet, LookupIter
  <1>3. \A k \in 1 .. n : \A s \in G : LookupChild(t, s, path[k]) \in G
    BY LookupChildIs
  <1>4. step \in [1 .. n -> [G -> G]] /\ \A k \in 1 .. n : \A s \in G : step[k][s] = LookupChild(t, s, path[k])
    BY <1>3
  <1> HIDE DEF n, G, step, iter
  <1>5. LookupIter(iter, t, path, n)
    <2>1. PICK f \in [SUBSET (1 .. n) -> G] : Folds(f, Root, step, n)
      BY <1>1, <1>4, FoldExists DEF HasFold
    <2>2. ASSUME NEW s \in SUBSET (1 .. n)
          PROVE  f[s] = IF s = {} THEN Root ELSE LookupChild(t, f[s \ {Max(s)}], path[Max(s)])
      <3>1. f[s] = IF s = {} THEN Root ELSE step[Max(s)][f[s \ {Max(s)}]]
        BY <2>1 DEF Folds
      <3>2. s # {} => Max(s) \in 1 .. n /\ f[s \ {Max(s)}] \in G
        BY <1>1, <2>1, LastPlace
      <3> QED
        BY <1>4, <3>1, <3>2
    <2>3. f = [s \in SUBSET (1 .. n) |-> f[s]]
      BY <2>1
    <2>4. LookupIter(f, t, path, n)
      BY <2>2, <2>3 DEF LookupIter
    <2> QED
      BY <2>4 DEF iter
  <1>6. \A s \in SUBSET (1 .. n) :
           iter[s] = IF s = {} THEN Root ELSE LookupChild(t, iter[s \ {Max(s)}], path[Max(s)])
    BY <1>5 DEF LookupIter
  <1>7. iter[{}] = Root
    BY <1>6
  <1>8. Stepwise(iter, G, Root, step, n)
    BY <1>1, <1>4, <1>6, <1>7, LastPlace DEF Stepwise
  <1>9. PICK run \in [0 .. n -> G] : Steps(run, Root, step, n) /\ run[n] = iter[1 .. n]
    BY <1>1, <1>4, <1>8, FoldSteps
  <1>10. ASSUME NEW k \in 1 .. n PROVE run[k] = LookupChild(t, run[k - 1], path[k])
    <2>1. run[k] = step[k][run[k - 1]]
      BY <1>9 DEF Steps
    <2>2. k - 1 \in 0 .. n
      BY <1>1
    <2>3. run[k - 1] \in G
      BY <1>9, <2>2
    <2> QED
      BY <1>4, <2>1, <2>3
  <1> QED
    BY <1>2, <1>9, <1>10 DEF LookupRun, Steps, n, G

\* The walk finds the root first.
LEMMA LookupRoot ==
    ASSUME NEW t, NEW N, Shape(t, N)
    PROVE  Lookup(t, <<>>) = 1
  <1> DEFINE none == <<>>
  <1>1. none \in Seq(Nat) /\ Len(none) = 0
    OBVIOUS
  <1> HIDE DEF none
  <1>2. PICK run \in [0 .. Len(none) -> 0 .. N] : LookupRun(run, t, none)
    BY <1>1, LookupRuns
  <1>3. Lookup(t, none) = 1
    BY <1>1, <1>2 DEF LookupRun, Root
  <1> QED
    BY <1>3 DEF none

\* A path is what is before its last name, and that.
LEMMA FrontAndLast ==
    ASSUME NEW E, NEW path \in Seq(E), path # <<>>
    PROVE  /\ Front(path) \in Seq(E)
           /\ Last(path) \in E
           /\ Len(Front(path)) = Len(path) - 1
           /\ Len(path) \in Nat \ {0}
           /\ path = Append(Front(path), Last(path))
           /\ \A k \in 1 .. Len(path) - 1 : Front(path)[k] = path[k]
           /\ Last(path) = path[Len(path)]
  <1> DEFINE n == Len(path)
             f == SubSeq(path, 1, n - 1)
  <1>1. n \in Nat \ {0} /\ \A k \in 1 .. n : path[k] \in E
    BY EmptySeq, PlacesOfSeq
  <1>2. /\ f \in Seq(E) /\ Len(f) = n - 1 /\ \A k \in 1 .. n - 1 : f[k] = path[k]
    <2>1. 1 \in 1 .. n + 1 /\ n - 1 \in 1 - 1 .. n /\ n - 1 - 1 + 1 = n - 1
      BY <1>1
    <2>2. \A k \in 1 .. n : path[k] \in E
      BY <1>1
    <2>3. f \in Seq(E)
      BY <1>1, <2>1, <2>2, SubSeqProperties
    <2>4. Len(f) = n - 1
      BY <1>1, <2>1, SubSeqProperties
    <2>5. ASSUME NEW k \in 1 .. n - 1 PROVE f[k] = path[k]
      <3>1. 1 + k - 1 = k
        OBVIOUS
      <3> QED
        BY <1>1, <2>1, <2>4, <3>1, SubSeqProperties
    <2> QED
      BY <2>3, <2>4, <2>5
  <1>3. Front(path) = f /\ Last(path) = path[n] /\ path[n] \in E
    BY <1>1 DEF Front, Last
  <1> HIDE DEF f, n
  <1> DEFINE r == Append(f, path[n])
  <1>4. /\ r \in Seq(E) /\ Len(r) = n - 1 + 1 /\ r[n - 1 + 1] = path[n]
        /\ \A k \in 1 .. n - 1 : r[k] = f[k]
    BY <1>2, <1>3, AppendProperties
  <1>5. n - 1 + 1 = n
    BY <1>1
  <1> HIDE DEF r
  <1>6. \A k \in 1 .. n : r[k] = path[k]
    BY <1>1, <1>2, <1>4, <1>5
  <1>7. Len(r) = n
    BY <1>4, <1>5
  <1>8. r = path
    BY <1>4, <1>6, <1>7, SeqEqual DEF n
  <1> QED
    BY <1>1, <1>2, <1>3, <1>8 DEF n, r

\* A lookup comes to a node, or to none.
LEMMA LookupIn ==
    ASSUME NEW t, NEW N, Shape(t, N), NEW E, NEW path \in Seq(E)
    PROVE  Lookup(t, path) \in 0 .. N
  <1>1. PICK run \in [0 .. Len(path) -> 0 .. N] : LookupRun(run, t, path)
    BY LookupRuns
  <1>2. Len(path) \in 0 .. Len(path)
    BY LenProperties
  <1> QED
    BY <1>1, <1>2 DEF LookupRun

\* A name more is a lookup among the children more.
LEMMA LookupAppend ==
    ASSUME NEW t, NEW N, Shape(t, N), NEW E, NEW path \in Seq(E), NEW name \in E
    PROVE  Lookup(t, Append(path, name)) = LookupChild(t, Lookup(t, path), name)
  <1> DEFINE n == Len(path)
             q == Append(path, name)
  <1>1. n \in Nat /\ q \in Seq(E) /\ Len(q) = n + 1 /\ q[n + 1] = name /\ \A k \in 1 .. n : q[k] = path[k]
    BY LenProperties, AppendProperties
  <1> HIDE DEF q
  <1>2. PICK f \in [0 .. Len(path) -> 0 .. N] : LookupRun(f, t, path)
    BY LookupRuns
  <1>3. PICK g \in [0 .. Len(q) -> 0 .. N] : LookupRun(g, t, q)
    BY <1>1, LookupRuns
  <1>4. f[0] = Root /\ g[0] = Root /\ Lookup(t, path) = f[n] /\ Lookup(t, q) = g[n + 1]
    BY <1>1, <1>2, <1>3 DEF LookupRun
  <1>5. \A k \in 1 .. n : f[k] = LookupChild(t, f[k - 1], path[k]) /\ g[k] = LookupChild(t, g[k - 1], path[k])
    BY <1>1, <1>2, <1>3 DEF LookupRun
  <1>6. g[n + 1] = LookupChild(t, g[n], name)
    <2>1. n + 1 \in 1 .. Len(q) /\ n + 1 - 1 = n
      BY <1>1
    <2> QED
      BY <1>1, <1>3, <2>1 DEF LookupRun
  <1> DEFINE T == {k \in Nat : k <= n => f[k] = g[k]}
  <1> HIDE DEF n
  <1>7. 0 \in T
    BY <1>4
  <1>8. ASSUME NEW k \in Nat, k \in T PROVE k + 1 \in T
    <2> SUFFICES ASSUME k + 1 <= n PROVE f[k + 1] = g[k + 1]
      OBVIOUS
    <2>1. k + 1 \in 1 .. n /\ k + 1 - 1 = k /\ f[k] = g[k]
      BY <1>1, <1>8
    <2> QED
      BY <1>5, <2>1
  <1> HIDE DEF T
  <1>9. n \in T
    BY <1>1, <1>7, <1>8, NatSetInduction
  <1>10. f[n] = g[n]
    BY <1>1, <1>9 DEF T
  <1> QED
    BY <1>4, <1>6, <1>10 DEF q

\* The node at a path is the child at its last name.
LEMMA LookupLast ==
    ASSUME NEW t, NEW N, Shape(t, N), NEW E, NEW path \in Seq(E), path # <<>>
    PROVE  /\ Lookup(t, Front(path)) \in 0 .. N
           /\ Lookup(t, path) = LookupChild(t, Lookup(t, Front(path)), Last(path))
  <1>1. Front(path) \in Seq(E) /\ Last(path) \in E /\ path = Append(Front(path), Last(path))
    BY FrontAndLast
  <1> DEFINE f == Front(path)
             l == Last(path)
  <1> HIDE DEF f, l
  <1>2. Lookup(t, Append(f, l)) = LookupChild(t, Lookup(t, f), l)
    BY <1>1, LookupAppend DEF f, l
  <1>3. Lookup(t, f) \in 0 .. N
    BY <1>1, LookupIn DEF f
  <1> QED
    BY <1>1, <1>2, <1>3 DEF f, l

-----------------------------------------------------------------------------
(* The tree grows by one node at a time, and keeps its shape.              *)

\* What is where it was: all but extents, sizes and numbers.
SameNode(a, b) ==
    a.parent = b.parent /\ a.is_dir = b.is_dir /\ a.name = b.name

\* The tree u is t and one node more, in n.
Grown(u, t, N, n, is_dir, name) ==
    /\ Shape(u, N + 1)
    /\ \A m \in 1 .. N : SameNode(u[m], t[m])
    /\ u[N + 1].parent = n /\ u[N + 1].is_dir = is_dir /\ u[N + 1].name = name

\* A node that may be added to n.
Fresh(t, N, n, node) ==
    /\ node \in NodeType
    /\ node.parent = n
    /\ node.name \in Names
    /\ node.children = NewList
    /\ \A c \in 2 .. N : t[c].parent = n => t[c].name # node.name

\* The tree with the node, before the list of the parent is the new one.
WithNode(t, N, node) == [k \in 1 .. N + 1 |-> IF k = N + 1 THEN node ELSE t[k]]

RankOf(with, N) == [k \in 2 .. N + 1 |-> Rank(with[k].name)]

WithList(with, n, list) == [with EXCEPT ![n].children = list]

\* The definition of the code, step by step.
LEMMA AddChildSteps ==
    ASSUME NEW t, NEW N, Shape(t, N), NEW n, NEW node
    PROVE  AddChild(t, n, node) =
           WithList(WithNode(t, N, node), n,
                    SortList(ListAppend(WithNode(t, N, node)[n].children, N + 1),
                             RankOf(WithNode(t, N, node), N)))
  <1>1. N \in Nat \ {0} /\ DOMAIN t = 1 .. N
    BY DEF Shape
  <1>2. Cardinality(1 .. N) = N
    <2>1. Cardinality(1 .. N) = IF 1 > N THEN 0 ELSE N - 1 + 1
      BY <1>1, FS_Interval
    <2> QED
      BY <1>1, <2>1
  <1>3. (1 .. N) \cup {N + 1} = 1 .. N + 1 /\ (1 .. N + 1) \ {1} = 2 .. N + 1
    BY <1>1
  <1> DEFINE c == Cardinality(DOMAIN t) + 1
             with == [k \in DOMAIN t \cup {c} |-> IF k = c THEN node ELSE t[k]]
             rank == [k \in DOMAIN with \ {1} |-> Rank(with[k].name)]
             list == SortList(ListAppend(with[n].children, c), rank)
  <1>4. AddChild(t, n, node) = [with EXCEPT ![n].children = list]
    BY DEF AddChild
  <1>5. c = N + 1 /\ DOMAIN t \cup {c} = 1 .. N + 1
    BY <1>1, <1>2, <1>3
  <1> HIDE DEF c
  <1>6. with = WithNode(t, N, node)
    BY <1>5 DEF WithNode
  <1>7. DOMAIN with = 1 .. N + 1
    BY <1>5
  <1> HIDE DEF with
  <1>8. rank = RankOf(with, N)
    BY <1>3, <1>7 DEF RankOf
  <1> QED
    BY <1>4, <1>5, <1>6, <1>8 DEF WithList

\* The list of the children of n, with a node more.
LEMMA ListGrows ==
    ASSUME NEW t, NEW N, Shape(t, N), NEW n \in 1 .. N, NEW node, Fresh(t, N, n, node),
           NEW with, with = WithNode(t, N, node)
    PROVE  \E r : /\ Linked(SortList(ListAppend(with[n].children, N + 1), RankOf(with, N)), r)
                  /\ \A c : (c \in 1 .. N + 1 /\ with[c].parent = n) <=> \E k \in 1 .. Len(r) : c = r[k]
                  /\ \A k \in 1 .. Len(r) : \A j \in 1 .. k - 1 :
                        Rank(with[r[j]].name) < Rank(with[r[k]].name)
  <1> DEFINE D == {c \in 1 .. N + 1 : with[c].parent = n}
             rank == RankOf(with, N)
             list == ListAppend(with[n].children, N + 1)
  <1>1. /\ N \in Nat \ {0} /\ n \in 1 .. N + 1 /\ N + 1 \in 1 .. N + 1 /\ n # N + 1
        /\ \A k \in 1 .. N : k \in 1 .. N + 1 /\ k # N + 1
    BY DEF Shape
  <1>2. /\ with[N + 1] = node /\ \A k \in 1 .. N : with[k] = t[k]
    BY <1>1 DEF WithNode
  <1>3. PICK q : /\ Linked(t[n].children, q)
                 /\ \A c : (c \in 1 .. N /\ t[c].parent = n) <=> \E k \in 1 .. Len(q) : c = q[k]
    BY DEF Shape, Hangs
  <1>4. /\ node \in NodeType /\ node.parent = n /\ node.name \in Names
        /\ \A c \in 2 .. N : t[c].parent = n => t[c].name # node.name
    BY DEF Fresh
  <1> DEFINE p == Append(q, N + 1)
             new == N + 1
  <1>5. \A k \in 1 .. Len(q) : q[k] \in 1 .. N /\ q[k] # new
    BY <1>1, <1>3
  <1>6. q \in Seq(Nat \ {0}) /\ Len(q) \in Nat /\ new \in Nat \ {0}
    BY <1>1, <1>3, PlacesOfSeq DEF Linked
  <1> HIDE DEF p, list, new
  <1>7. Linked(list, p)
    <2>1. Linked(ListAppend(t[n].children, new), Append(q, new))
      BY <1>3, <1>5, <1>6, AppendLinked
    <2> QED
      BY <1>2, <2>1 DEF list, p, new
  <1>8. /\ Len(p) = Len(q) + 1 /\ p[Len(q) + 1] = new
        /\ \A k \in 1 .. Len(q) : p[k] = q[k]
    BY <1>6, AppendProperties DEF p, new
  <1>9. D \subseteq 2 .. N + 1
    <2> SUFFICES ASSUME NEW c \in D PROVE c # 1
      BY <1>1
    <2>1. c \in 1 .. N => with[c].parent = t[c].parent
      BY <1>2
    <2> QED
      BY <1>1, <2>1 DEF Shape
  <1>10. \A c \in D : with[c].name \in Names /\ rank[c] = Rank(with[c].name) /\ rank[c] \in Int
    <2> SUFFICES ASSUME NEW c \in D PROVE with[c].name \in Names /\ rank[c] = Rank(with[c].name) /\ rank[c] \in Int
      OBVIOUS
    <2>1. c \in 2 .. N + 1
      BY <1>9
    <2>2. with[c].name \in Names
      <3>1. CASE c = N + 1
        BY <1>2, <1>4, <3>1
      <3>2. CASE c # N + 1
        <4>1. c \in 2 .. N /\ c \in 1 .. N
          BY <1>1, <2>1, <3>2
        <4> QED
          BY <1>2, <4>1 DEF Shape
      <3> QED
        BY <3>1, <3>2
    <2>3. rank[c] = Rank(with[c].name)
      BY <2>1 DEF RankOf
    <2>4. Rank(with[c].name) \in Nat
      BY <2>2, RankIs
    <2> QED
      BY <2>2, <2>3, <2>4
  <1>11. \A c \in D : \A d \in D : with[c].name = with[d].name => c = d
    <2> SUFFICES ASSUME NEW c \in D, NEW d \in D, with[c].name = with[d].name PROVE c = d
      OBVIOUS
    <2>1. c \in 2 .. N + 1 /\ d \in 2 .. N + 1
      BY <1>9
    <2>2. \A e \in D : e \in 2 .. N => with[e] = t[e] /\ t[e].parent = n /\ t[e].name # node.name
      BY <1>1, <1>2, <1>4
    <2>3. CASE c \in 2 .. N /\ d \in 2 .. N
      BY <2>2, <2>3 DEF Shape
    <2>4. CASE c = N + 1 /\ d \in 2 .. N
      BY <1>2, <2>2, <2>4
    <2>5. CASE d = N + 1 /\ c \in 2 .. N
      BY <1>2, <2>2, <2>5
    <2> QED
      BY <1>1, <2>1, <2>3, <2>4, <2>5
  <1>12. \A c : c \in D <=> \E k \in 1 .. Len(p) : c = p[k]
    <2>1. ASSUME NEW c \in D PROVE \E k \in 1 .. Len(p) : c = p[k]
      <3>1. CASE c = N + 1
        <4>1. Len(q) + 1 \in 1 .. Len(p)
          BY <1>6, <1>8
        <4> QED
          BY <1>8, <3>1, <4>1 DEF new
      <3>2. CASE c # N + 1
        <4>1. c \in 1 .. N /\ t[c].parent = n
          BY <1>1, <1>2, <3>2
        <4>2. PICK k \in 1 .. Len(q) : c = q[k]
          BY <1>3, <4>1
        <4>3. k \in 1 .. Len(p)
          BY <1>6, <1>8
        <4> QED
          BY <1>8, <4>2, <4>3
      <3> QED
        BY <3>1, <3>2
    <2>2. ASSUME NEW k \in 1 .. Len(p) PROVE p[k] \in D
      <3>1. CASE k = Len(q) + 1
        BY <1>1, <1>2, <1>4, <1>8, <3>1 DEF new
      <3>2. CASE k \in 1 .. Len(q)
        <4>1. q[k] \in 1 .. N /\ t[q[k]].parent = n
          BY <1>3, <3>2
        <4> QED
          BY <1>1, <1>2, <1>8, <3>2, <4>1
      <3> QED
        BY <1>6, <1>8, <3>1, <3>2
    <2> QED
      BY <2>1, <2>2
  <1>13. \A c : c \in DOMAIN list.next <=> c \in D
    <2>1. \A c : c \in DOMAIN list.next <=> \E k \in 1 .. Len(p) : c = p[k]
      BY <1>7 DEF Linked
    <2> QED
      BY <1>12, <2>1
  <1> HIDE DEF D, rank
  <1>14. \A c \in D : rank[c] \in Int
    BY <1>10
  <1>15. PICK r : Linked(SortList(list, rank), r) /\ SortedOf(r, D, rank, Len(p))
    BY <1>7, <1>13, <1>14, SortListIs
  <1>16. /\ Len(r) = Len(p) /\ \A c : c \in D <=> \E k \in 1 .. Len(r) : c = r[k]
         /\ \A k \in 1 .. Len(r) : \A j \in 1 .. k : rank[r[j]] <= rank[r[k]]
    BY <1>15 DEF SortedOf
  <1>17. ASSUME NEW k \in 1 .. Len(r), NEW j \in 1 .. k - 1
         PROVE  Rank(with[r[j]].name) < Rank(with[r[k]].name)
    <2>1. Len(r) \in Nat
      BY <1>6, <1>8, <1>16
    <2>2. j \in 1 .. Len(r) /\ j \in 1 .. k /\ j # k
      BY <2>1
    <2>3. r[j] \in D /\ r[k] \in D /\ rank[r[j]] <= rank[r[k]]
      BY <1>16, <2>2
    <2>4. r[j] # r[k]
      BY <1>15, <2>2 DEF Linked, Distinct
    <2>5. with[r[j]].name # with[r[k]].name
      BY <1>11, <2>3, <2>4
    <2>6. Rank(with[r[j]].name) # Rank(with[r[k]].name)
      BY <1>10, <2>3, <2>5, RankDiffers
    <2> QED
      BY <1>10, <2>3, <2>6
  <1> QED
    BY <1>15, <1>16, <1>17 DEF D, rank, list

\* The tree has grown by the node, and is a tree.
LEMMA AddChildGrows ==
    ASSUME NEW t, NEW N, Shape(t, N), NEW n \in 1 .. N, NEW node, Fresh(t, N, n, node)
    PROVE  Grown(AddChild(t, n, node), t, N, n, node.is_dir, node.name)
  <1> DEFINE with == WithNode(t, N, node)
             list == SortList(ListAppend(with[n].children, N + 1), RankOf(with, N))
             u == AddChild(t, n, node)
  <1>1. u = WithList(with, n, list)
    BY AddChildSteps
  <1>2. with = WithNode(t, N, node)
    OBVIOUS
  <1>3. with = [k \in 1 .. N + 1 |-> IF k = N + 1 THEN node ELSE t[k]]
    BY DEF WithNode
  <1> HIDE DEF with
  <1>4. PICK r : /\ Linked(list, r)
                 /\ \A c : (c \in 1 .. N + 1 /\ with[c].parent = n) <=> \E k \in 1 .. Len(r) : c = r[k]
                 /\ \A k \in 1 .. Len(r) : \A j \in 1 .. k - 1 :
                       Rank(with[r[j]].name) < Rank(with[r[k]].name)
    BY <1>2, ListGrows
  <1> HIDE DEF list, u
  <1>5. /\ N \in Nat \ {0} /\ n \in 1 .. N + 1 /\ N + 1 \in 1 .. N + 1 /\ n # N + 1
        /\ N + 1 \in Nat \ {0} /\ \A k \in 1 .. N : k \in 1 .. N + 1 /\ k # N + 1
        /\ \A k \in 1 .. N + 1 : k = N + 1 \/ k \in 1 .. N
    BY DEF Shape
  <1>6. /\ node \in NodeType /\ node.parent = n /\ node.name \in Names /\ node.children = NewList
        /\ \A c \in 2 .. N : t[c].parent = n => t[c].name # node.name
    BY DEF Fresh
  <1>7. /\ with[N + 1] = node /\ \A k \in 1 .. N : with[k] = t[k]
        /\ with \in [1 .. N + 1 -> NodeType]
    <2>1. t \in [1 .. N -> NodeType]
      BY DEF Shape
    <2> QED
      BY <1>3, <1>5, <1>6, <2>1
  <1>8. list \in ListType
    BY <1>4 DEF Linked
  <1>9. /\ u \in [1 .. N + 1 -> NodeType]
        /\ u[n].children = list
        /\ \A k \in 1 .. N + 1 : /\ u[k].parent = with[k].parent
                                 /\ u[k].is_dir = with[k].is_dir
                                 /\ u[k].name = with[k].name
        /\ \A k \in 1 .. N + 1 : k # n => u[k].children = with[k].children
    <2>1. u = [with EXCEPT ![n].children = list]
      BY <1>1 DEF WithList
    <2>2. with[n] \in NodeType
      BY <1>5, <1>7
    <2>3. [with[n] EXCEPT !.children = list] \in NodeType
      BY <1>8, <2>2 DEF NodeType
    <2>4. u \in [1 .. N + 1 -> NodeType]
      BY <1>5, <1>7, <2>1, <2>3
    <2>5. u[n] = [with[n] EXCEPT !.children = list]
      BY <1>5, <1>7, <2>1
    <2>6. /\ u[n].parent = with[n].parent /\ u[n].is_dir = with[n].is_dir /\ u[n].name = with[n].name
          /\ u[n].children = list
      BY <2>2, <2>5 DEF NodeType
    <2>7. \A k \in 1 .. N + 1 : k # n => u[k] = with[k]
      BY <1>7, <2>1
    <2> QED
      BY <2>4, <2>6, <2>7
  <1>10. \A m \in 1 .. N : SameNode(u[m], t[m])
    BY <1>5, <1>7, <1>9 DEF SameNode
  <1>11. u[N + 1].parent = n /\ u[N + 1].is_dir = node.is_dir /\ u[N + 1].name = node.name
    BY <1>5, <1>6, <1>7, <1>9
  <1>12. \A m \in 1 .. N : u[m].parent = t[m].parent /\ u[m].name = t[m].name
    BY <1>10 DEF SameNode
  <1>13. u[1].parent = 0
    <2>1. 1 \in 1 .. N /\ t[1].parent = 0
      BY <1>5 DEF Shape
    <2> QED
      BY <1>12, <2>1
  <1>14. ASSUME NEW m \in 2 .. N + 1 PROVE u[m].parent \in 1 .. m - 1 /\ u[m].name \in Names
    <2>1. CASE m = N + 1
      <3>1. n \in 1 .. N + 1 - 1
        BY <1>5
      <3>2. u[N + 1].parent \in 1 .. N + 1 - 1 /\ u[N + 1].name \in Names
        BY <1>6, <1>11, <3>1
      <3> QED
        BY <1>5, <2>1, <3>2
    <2>2. CASE m # N + 1
      <3>1. m \in 2 .. N /\ m \in 1 .. N
        BY <1>5, <2>2
      <3>2. t[m].parent \in 1 .. m - 1 /\ t[m].name \in Names
        BY <3>1 DEF Shape
      <3> QED
        BY <1>12, <3>1, <3>2
    <2> QED
      BY <2>1, <2>2
  <1>15. ASSUME NEW l \in 2 .. N + 1, NEW m \in 2 .. N + 1, u[l].parent = u[m].parent, u[l].name = u[m].name
         PROVE  l = m
    <2>1. \A k \in 2 .. N : k \in 1 .. N
      OBVIOUS
    <2>2. \A k \in 2 .. N : t[k].parent = n => t[k].name # node.name
      BY <1>6
    <2>3. CASE l \in 2 .. N /\ m \in 2 .. N
      BY <1>12, <1>15, <2>1, <2>3 DEF Shape
    <2>4. CASE l = N + 1 /\ m \in 2 .. N
      BY <1>11, <1>12, <1>15, <2>1, <2>2, <2>4
    <2>5. CASE m = N + 1 /\ l \in 2 .. N
      BY <1>11, <1>12, <1>15, <2>1, <2>2, <2>5
    <2>6. \A k \in 2 .. N + 1 : k = N + 1 \/ k \in 2 .. N
      BY <1>5
    <2> QED
      BY <2>3, <2>4, <2>5, <2>6
  <1>16. ASSUME NEW m \in 1 .. N + 1 PROVE Hangs(u, N + 1, m)
    <2>1. CASE m = n
      <3>1. \A c : (c \in 1 .. N + 1 /\ u[c].parent = n) <=> \E k \in 1 .. Len(r) : c = r[k]
        BY <1>4, <1>9
      <3>2. \A k \in 1 .. Len(r) : r[k] \in 1 .. N + 1
        BY <1>4
      <3>3. ASSUME NEW k \in 1 .. Len(r), NEW j \in 1 .. k - 1 PROVE Rank(u[r[j]].name) < Rank(u[r[k]].name)
        <4>1. r \in Seq(Nat \ {0})
          BY <1>4 DEF Linked
        <4>2. Len(r) \in Nat
          BY <4>1, LenProperties
        <4>3. j \in 1 .. Len(r)
          BY <4>2
        <4>4. u[r[j]].name = with[r[j]].name /\ u[r[k]].name = with[r[k]].name
          BY <1>9, <3>2, <4>3
        <4>5. Rank(with[r[j]].name) < Rank(with[r[k]].name)
          BY <1>4
        <4> QED
          BY <4>4, <4>5
      <3> QED
        BY <1>4, <1>9, <2>1, <3>1, <3>3 DEF Hangs
    <2>2. CASE m = N + 1
      <3>1. ASSUME NEW c \in 1 .. N + 1 PROVE u[c].parent # N + 1
        <4>1. CASE c = 1
          BY <1>5, <1>13, <4>1
        <4>2. CASE c # 1
          <5>1. c \in 2 .. N + 1
            BY <1>5, <4>2
          <5>2. u[c].parent \in 1 .. c - 1
            BY <1>14, <5>1
          <5> QED
            BY <1>5, <5>2
        <4> QED
          BY <4>1, <4>2
      <3>2. u[m].children = NewList
        BY <1>5, <1>6, <1>7, <1>9, <2>2
      <3> DEFINE none == <<>>
      <3>3. Linked(NewList, none)
        BY NewListLinked
      <3>4. Len(none) = 0
        OBVIOUS
      <3> HIDE DEF none
      <3>5. \A c : (c \in 1 .. N + 1 /\ u[c].parent = m) <=> \E k \in 1 .. Len(none) : c = none[k]
        BY <2>2, <3>1, <3>4
      <3>6. \A k \in 1 .. Len(none) : \A j \in 1 .. k - 1 : Rank(u[none[j]].name) < Rank(u[none[k]].name)
        BY <3>4
      <3> QED
        BY <3>2, <3>3, <3>5, <3>6 DEF Hangs
    <2>3. CASE m # n /\ m \in 1 .. N
      <3>1. PICK q : /\ Linked(t[m].children, q)
                     /\ \A c : (c \in 1 .. N /\ t[c].parent = m) <=> \E k \in 1 .. Len(q) : c = q[k]
                     /\ \A k \in 1 .. Len(q) : \A j \in 1 .. k - 1 : Rank(t[q[j]].name) < Rank(t[q[k]].name)
        BY <2>3 DEF Shape, Hangs
      <3>2. u[m].children = t[m].children
        BY <1>5, <1>7, <1>9, <2>3
      <3>3. \A c : (c \in 1 .. N + 1 /\ u[c].parent = m) <=> (c \in 1 .. N /\ t[c].parent = m)
        BY <1>5, <1>11, <1>12, <2>3
      <3>4. \A c : (c \in 1 .. N + 1 /\ u[c].parent = m) <=> \E k \in 1 .. Len(q) : c = q[k]
        BY <3>1, <3>3
      <3>5. ASSUME NEW k \in 1 .. Len(q), NEW j \in 1 .. k - 1 PROVE Rank(u[q[j]].name) < Rank(u[q[k]].name)
        <4>1. q \in Seq(Nat \ {0})
          BY <3>1 DEF Linked
        <4>2. Len(q) \in Nat
          BY <4>1, LenProperties
        <4>3. j \in 1 .. Len(q)
          BY <4>2
        <4>4. q[j] \in 1 .. N /\ q[k] \in 1 .. N
          BY <3>1, <4>3
        <4>5. u[q[j]].name = t[q[j]].name /\ u[q[k]].name = t[q[k]].name
          BY <1>12, <4>4
        <4>6. Rank(t[q[j]].name) < Rank(t[q[k]].name)
          BY <3>1
        <4> QED
          BY <4>5, <4>6
      <3> QED
        BY <3>1, <3>2, <3>4, <3>5 DEF Hangs
    <2> QED
      BY <1>5, <2>1, <2>2, <2>3
  <1>18. Shape(u, N + 1)
    BY <1>5, <1>9, <1>13, <1>14, <1>15, <1>16 DEF Shape
  <1> QED
    BY <1>10, <1>11, <1>18 DEF Grown, u

NamePaths == Seq(Names) \ {<<>>}

\* A node that is not there yet may be added.
LEMMA NewNodeIs ==
    ASSUME NEW t, NEW N, Shape(t, N), NEW n \in 1 .. N, NEW is_dir \in BOOLEAN, NEW name \in Names,
           NEW extent \in Nat, NEW size \in Nat, LookupChild(t, n, name) = 0
    PROVE  /\ Fresh(t, N, n, NewNode(n, is_dir, name, extent, size))
           /\ NewNode(n, is_dir, name, extent, size).is_dir = is_dir
           /\ NewNode(n, is_dir, name, extent, size).name = name
  <1> DEFINE node == NewNode(n, is_dir, name, extent, size)
  <1>1. N \in Nat \ {0} /\ n \in 0 .. N
    BY DEF Shape
  <1>2. NewList \in ListType
    BY NewListLinked DEF Linked
  <1>3. node \in NodeType
    <2>1. n \in Nat /\ name \in Names \cup {RootName} /\ 0 \in Nat
      BY <1>1
    <2>2. node = [parent |-> n, is_dir |-> is_dir, name |-> name, extent |-> extent, size |-> size,
                  pt_id |-> 0, children |-> NewList]
      BY DEF NewNode
    <2> DEFINE zero == 0
    <2>3. zero \in Nat
      BY <2>1
    <2> HIDE DEF node, zero
    <2>4. node = [parent |-> n, is_dir |-> is_dir, name |-> name, extent |-> extent, size |-> size,
                  pt_id |-> zero, children |-> NewList]
      BY <2>2 DEF zero
    <2> QED
      BY <1>2, <2>1, <2>3, <2>4, Zenon DEF NodeType
  <1>4. node.parent = n /\ node.is_dir = is_dir /\ node.name = name /\ node.children = NewList
    BY DEF NewNode
  <1>5. ASSUME NEW c \in 2 .. N, t[c].parent = n PROVE t[c].name # name
    <2>1. c \in 1 .. N /\ c # 0 /\ n # 0
      BY <1>1
    <2>2. t[c].name = name => LookupChild(t, n, name) = c
      BY <1>1, <1>5, <2>1, LookupChildIs
    <2> QED
      BY <2>1, <2>2
  <1> HIDE DEF node
  <1>6. Fresh(t, N, n, node)
    BY <1>3, <1>4, <1>5 DEF Fresh
  <1> QED
    BY <1>4, <1>6 DEF node

\* What is found at a path in a tree that has grown.
LEMMA GrownChild ==
    ASSUME NEW u, NEW t, NEW N, Shape(t, N), NEW n \in 1 .. N, NEW is_dir, NEW name,
           Grown(u, t, N, n, is_dir, name), NEW m \in 0 .. N, NEW a
    PROVE  LookupChild(u, m, a) = IF LookupChild(t, m, a) # 0 THEN LookupChild(t, m, a)
                                  ELSE IF m = n /\ a = name THEN N + 1 ELSE 0
  <1>1. /\ Shape(u, N + 1)
        /\ \A k \in 1 .. N : u[k].parent = t[k].parent /\ u[k].name = t[k].name
        /\ u[N + 1].parent = n /\ u[N + 1].name = name
    BY DEF Grown, SameNode
  <1>2. N \in Nat \ {0} /\ N + 1 \in 1 .. N + 1 /\ m \in 0 .. N + 1
    BY DEF Shape
  <1> DEFINE M == N + 1
             x == LookupChild(t, m, a)
             y == LookupChild(u, m, a)
  <1>3. /\ x \in 0 .. N
        /\ x # 0 => m # 0 /\ x \in 2 .. N /\ t[x].parent = m /\ t[x].name = a
        /\ \A c \in 1 .. N : m # 0 /\ t[c].parent = m /\ t[c].name = a => x = c
    BY LookupChildIs
  <1> HIDE DEF x, y, M
  <1>4. /\ y \in 0 .. M
        /\ y # 0 => m # 0 /\ y \in 2 .. M /\ u[y].parent = m /\ u[y].name = a
        /\ \A c \in 1 .. M : m # 0 /\ u[c].parent = m /\ u[c].name = a => y = c
    <2>1. Shape(u, M) /\ m \in 0 .. M
      BY <1>1, <1>2 DEF M
    <2> QED
      BY <2>1, LookupChildIs DEF y
  <1>5. CASE x # 0
    <2>1. x \in 1 .. N /\ x \in 1 .. M
      BY <1>2, <1>3, <1>5 DEF M
    <2>2. y = x
      BY <1>1, <1>3, <1>4, <1>5, <2>1
    <2> QED
      BY <1>5, <2>2 DEF x, y
  <1>6. CASE x = 0 /\ m = n /\ a = name
    <2>1. M \in 1 .. M /\ u[M].parent = m /\ u[M].name = a /\ m # 0
      BY <1>1, <1>2, <1>6 DEF M
    <2>2. y = M
      BY <1>4, <2>1
    <2> QED
      BY <1>6, <2>2 DEF x, y, M
  <1>7. CASE x = 0 /\ ~(m = n /\ a = name)
    <2>1. y # N + 1
      BY <1>1, <1>2, <1>4, <1>7
    <2>2. y # 0 => y \in 1 .. N
      BY <1>2, <1>4, <2>1 DEF M
    <2>3. y = 0
      BY <1>1, <1>3, <1>4, <1>7, <2>2
    <2> QED
      BY <1>7, <2>3 DEF x, y
  <1> QED
    BY <1>5, <1>6, <1>7

\* The node that is new has no children.
LEMMA GrownLeaf ==
    ASSUME NEW u, NEW t, NEW N, Shape(t, N), NEW n \in 1 .. N, NEW is_dir, NEW name,
           Grown(u, t, N, n, is_dir, name), NEW a
    PROVE  LookupChild(u, N + 1, a) = 0
  <1> DEFINE M == N + 1
             y == LookupChild(u, M, a)
  <1>1. Shape(u, M) /\ M \in 0 .. M /\ N \in Nat \ {0}
    BY DEF Grown, Shape
  <1> HIDE DEF M
  <1>2. y # 0 => y \in 2 .. M /\ u[y].parent = M
    BY <1>1, LookupChildIs
  <1> HIDE DEF y
  <1>3. \A c \in 2 .. M : u[c].parent \in 1 .. c - 1
    BY <1>1 DEF Shape
  <1>4. M \in Nat
    BY <1>1 DEF M
  <1>5. y = 0
    BY <1>2, <1>3, <1>4
  <1> QED
    BY <1>5 DEF M, y

\* What was found is found, and nothing new but the node.
LEMMA GrownLookup ==
    ASSUME NEW u, NEW t, NEW N, Shape(t, N), NEW n \in 1 .. N, NEW is_dir, NEW name,
           Grown(u, t, N, n, is_dir, name), NEW E
    PROVE  \A path \in Seq(E) :
              /\ Lookup(t, path) # 0 => Lookup(u, path) = Lookup(t, path)
              /\ Lookup(t, path) = 0 => (Lookup(u, path) # 0 <=>
                    path # <<>> /\ Lookup(t, Front(path)) = n /\ Last(path) = name)
  <1> DEFINE Holds(path) ==
               /\ Lookup(t, path) # 0 => Lookup(u, path) = Lookup(t, path)
               /\ Lookup(t, path) = 0 => (Lookup(u, path) # 0 <=>
                     path # <<>> /\ Lookup(t, Front(path)) = n /\ Last(path) = name)
             \* What comes from an induction on the lengths of paths.
             T == {l \in Nat : \A path \in Seq(E) : Len(path) = l =>
                      /\ Holds(path)
                      /\ Lookup(u, path) \in {Lookup(t, path), N + 1}}
  <1>1. Shape(u, N + 1) /\ N \in Nat \ {0}
    BY DEF Grown, Shape
  <1>2. 0 \in T
    <2> SUFFICES ASSUME NEW path \in Seq(E), Len(path) = 0
                 PROVE  Holds(path) /\ Lookup(u, path) \in {Lookup(t, path), N + 1}
      OBVIOUS
    <2>1. path = <<>>
      BY EmptySeq
    <2>2. Lookup(t, <<>>) = 1
      BY LookupRoot
    <2> DEFINE M == N + 1
    <2>3. Shape(u, M)
      BY <1>1
    <2> HIDE DEF M
    <2>4. Lookup(u, <<>>) = 1
      BY <2>3, LookupRoot
    <2> QED
      BY <2>1, <2>2, <2>4
  <1>3. ASSUME NEW l \in Nat, l \in T PROVE l + 1 \in T
    <2> SUFFICES ASSUME NEW path \in Seq(E), Len(path) = l + 1
                 PROVE  Holds(path) /\ Lookup(u, path) \in {Lookup(t, path), N + 1}
      OBVIOUS
    <2> DEFINE f == Front(path)
               a == Last(path)
               M == N + 1
    <2>1. path # <<>>
      BY EmptySeq
    <2>2. f \in Seq(E) /\ Len(f) = l
      BY <2>1, FrontAndLast
    <2> HIDE DEF f, a, M
    <2>3. /\ Lookup(t, f) # 0 => Lookup(u, f) = Lookup(t, f)
          /\ Lookup(u, f) \in {Lookup(t, f), M}
      BY <1>3, <2>2 DEF M
    <2>4. Lookup(t, path) = LookupChild(t, Lookup(t, f), a) /\ Lookup(t, f) \in 0 .. N
      BY <2>1, LookupLast DEF f, a
    <2>5. Shape(u, M)
      BY <1>1 DEF M
    <2>6. Lookup(u, path) = LookupChild(u, Lookup(u, f), a) /\ Lookup(u, f) \in 0 .. M
      BY <2>1, <2>5, LookupLast DEF f, a
    <2> DEFINE x == Lookup(t, f)
               y == Lookup(u, f)
    <2> HIDE DEF x, y
    <2>7. CASE y = M /\ x = 0
      <3>1. LookupChild(u, N + 1, a) = 0
        BY GrownLeaf
      <3>2. LookupChild(t, x, a) = 0
        BY <2>4, <2>7, LookupChildIs DEF x
      <3>3. Lookup(u, path) = 0 /\ Lookup(t, path) = 0 /\ Lookup(t, f) # n
        BY <1>1, <2>4, <2>6, <2>7, <3>1, <3>2 DEF x, y, M
      <3> QED
        BY <3>3 DEF f, a
    <2>8. CASE y = x
      <3>1. LookupChild(u, x, a) = IF LookupChild(t, x, a) # 0 THEN LookupChild(t, x, a)
                                   ELSE IF x = n /\ a = name THEN N + 1 ELSE 0
        BY <2>4, GrownChild DEF x
      <3>2. Lookup(u, path) = IF Lookup(t, path) # 0 THEN Lookup(t, path)
                              ELSE IF Lookup(t, f) = n /\ a = name THEN N + 1 ELSE 0
        BY <2>4, <2>6, <2>8, <3>1 DEF x, y
      <3>3. N + 1 # 0
        BY <1>1
      <3> QED
        BY <2>1, <3>2, <3>3 DEF f, a
    <2>9. y = x \/ (y = M /\ x = 0)
      BY <2>3 DEF x, y
    <2> QED
      BY <2>7, <2>8, <2>9
  <1> HIDE DEF T
  <1>4. Nat \subseteq T
    BY <1>2, <1>3, NatSetInduction
  <1> SUFFICES ASSUME NEW path \in Seq(E) PROVE Holds(path)
    OBVIOUS
  <1>5. Len(path) \in T
    BY <1>4, LenProperties
  <1> QED
    BY <1>5 DEF T

-----------------------------------------------------------------------------
(* The calls: _vcd_directory_mkdir and _vcd_directory_mkfile.              *)

\* A call of mkdir that can make the directory adds it.
LEMMA MkdirGrows ==
    ASSUME NEW t, NEW N, Shape(t, N), NEW path \in NamePaths, CanMkdir(t, path)
    PROVE  /\ Lookup(t, Front(path)) \in 1 .. N
           /\ Grown(Mkdir(t, path), t, N, Lookup(t, Front(path)), TRUE, Last(path))
  <1> DEFINE n == Lookup(t, Front(path))
             a == Last(path)
  <1>1. path \in Seq(Names) /\ path # <<>>
    BY DEF NamePaths
  <1>2. a \in Names
    BY <1>1, FrontAndLast
  <1>3. n \in 0 .. N /\ Lookup(t, path) = LookupChild(t, n, a)
    BY <1>1, LookupLast
  <1>4. n # 0 /\ Lookup(t, path) = 0
    BY DEF CanMkdir, NULL
  <1>5. n \in 1 .. N
    <2>1. N \in Nat
      BY DEF Shape
    <2> QED
      BY <1>3, <1>4, <2>1
  <1>6. Mkdir(t, path) = AddChild(t, n, NewNode(n, TRUE, a, 0, 0))
    BY DEF Mkdir
  <1> DEFINE zero == 0
             d == TRUE
             node == NewNode(n, d, a, zero, zero)
  <1>7. zero \in Nat /\ d \in BOOLEAN /\ LookupChild(t, n, a) = 0
    BY <1>3, <1>4
  <1> HIDE DEF n, a, zero, d
  <1>8. Fresh(t, N, n, NewNode(n, d, a, zero, zero)) /\ NewNode(n, d, a, zero, zero).is_dir = d
        /\ NewNode(n, d, a, zero, zero).name = a
    BY <1>2, <1>5, <1>7, NewNodeIs
  <1> HIDE DEF node
  <1>9. Fresh(t, N, n, node) /\ node.is_dir = d /\ node.name = a
    BY <1>8 DEF node
  <1>10. Grown(AddChild(t, n, node), t, N, n, node.is_dir, node.name)
    BY <1>5, <1>9, AddChildGrows
  <1>11. Mkdir(t, path) = AddChild(t, n, node)
    BY <1>6 DEF node, d, zero
  <1>12. Grown(Mkdir(t, path), t, N, n, d, a)
    BY <1>9, <1>10, <1>11
  <1> QED
    BY <1>5, <1>12 DEF n, a, d

\* What has the shape of a tree, as a set.
Trees == {t \in UNION {[1 .. N -> NodeType] : N \in Nat} : \E N : Shape(t, N)}

\* The trees of any size.
LEMMA TreesAre == \A t : t \in Trees <=> \E N : Shape(t, N)
  <1> SUFFICES ASSUME NEW t, NEW N, Shape(t, N) PROVE t \in UNION {[1 .. M -> NodeType] : M \in Nat}
    BY DEF Trees
  <1> QED
    BY DEF Shape

\* A directory is made where it can be: the tree stays a tree.
LEMMA WithParentIs ==
    ASSUME NEW t, NEW N, Shape(t, N), NEW up \in NamePaths
    PROVE  /\ \E M : Shape(WithParent(t, up), M)
           /\ Lookup(t, Front(up)) # 0 => Lookup(WithParent(t, up), up) # 0
           /\ Lookup(t, up) # 0 => WithParent(t, up) = t
  <1>1. CASE ~CanMkdir(t, up)
    <2>1. WithParent(t, up) = t
      BY <1>1 DEF WithParent
    <2>2. Lookup(t, Front(up)) # 0 => Lookup(t, up) # 0
      BY <1>1 DEF CanMkdir, NULL
    <2> QED
      BY <2>1, <2>2
  <1>2. CASE CanMkdir(t, up)
    <2> DEFINE n == Lookup(t, Front(up))
               a == Last(up)
               u == Mkdir(t, up)
               d == TRUE
    <2>1. WithParent(t, up) = u
      BY <1>2 DEF WithParent
    <2>2. n \in 1 .. N /\ Grown(u, t, N, n, d, a)
      BY <1>2, MkdirGrows
    <2>3. Lookup(t, up) = 0
      BY <1>2 DEF CanMkdir, NULL
    <2>4. up \in Seq(Names) /\ up # <<>>
      BY DEF NamePaths
    <2> HIDE DEF u, d, n, a
    <2>5. \A path \in Seq(Names) :
             /\ Lookup(t, path) # 0 => Lookup(u, path) = Lookup(t, path)
             /\ Lookup(t, path) = 0 => (Lookup(u, path) # 0 <=>
                   path # <<>> /\ Lookup(t, Front(path)) = n /\ Last(path) = a)
      BY <2>2, GrownLookup
    <2>6. Lookup(u, up) # 0
      BY <2>3, <2>4, <2>5 DEF n, a
    <2>7. Shape(u, N + 1)
      BY <2>2 DEF Grown
    <2> QED
      BY <2>1, <2>3, <2>6, <2>7
  <1> QED
    BY <1>1, <1>2

\* The paths above a path.
AboveSeq(path) == [k \in 1 .. Len(path) - 1 |-> SubSeq(path, 1, k)]

\* The paths above a path, the shortest first.
LEMMA AboveIs ==
    ASSUME NEW path \in NamePaths
    PROVE  /\ AboveSeq(path) \in Seq(NamePaths)
           /\ Len(AboveSeq(path)) = Len(path) - 1
           /\ Len(path) \in Nat \ {0}
           /\ \A k \in 1 .. Len(path) - 1 :
                /\ AboveSeq(path)[k] = SubSeq(path, 1, k)
                /\ Len(AboveSeq(path)[k]) = k
                /\ k = 1 => Front(AboveSeq(path)[k]) = <<>>
                /\ k > 1 => Front(AboveSeq(path)[k]) = AboveSeq(path)[k - 1]
           /\ Len(path) = 1 => Front(path) = <<>>
           /\ Len(path) > 1 => Front(path) = AboveSeq(path)[Len(path) - 1]
  <1> DEFINE n == Len(path)
             s == AboveSeq(path)
  <1>1. path \in Seq(Names) /\ path # <<>>
    BY DEF NamePaths
  <1>2. n \in Nat \ {0} /\ \A k \in 1 .. n : path[k] \in Names
    BY <1>1, EmptySeq, PlacesOfSeq
  <1>3. ASSUME NEW k \in 1 .. n
        PROVE  /\ SubSeq(path, 1, k) \in Seq(Names)
               /\ Len(SubSeq(path, 1, k)) = k
               /\ \A j \in 1 .. k : SubSeq(path, 1, k)[j] = path[j]
               /\ SubSeq(path, 1, k) # <<>>
    <2>1. \A j \in 1 .. k : path[j] \in Names
      BY <1>2
    <2> DEFINE p == SubSeq(path, 1, k)
    <2>2. p \in Seq(Names) /\ Len(p) = IF 1 <= k THEN k - 1 + 1 ELSE 0
      BY <2>1, SubSeqProperties
    <2>3. Len(p) = k
      BY <2>2
    <2>4. \A j \in 1 .. k - 1 + 1 : p[j] = path[1 + j - 1]
      BY <2>1, SubSeqProperties
    <2>5. ASSUME NEW j \in 1 .. k PROVE p[j] = path[j]
      <3>1. j \in 1 .. k - 1 + 1 /\ 1 + j - 1 = j
        OBVIOUS
      <3> QED
        BY <2>4, <3>1
    <2>6. p # <<>>
      BY <2>2, <2>3, EmptySeq
    <2> QED
      BY <2>2, <2>3, <2>5, <2>6
  <1>4. s = [k \in 1 .. n - 1 |-> SubSeq(path, 1, k)]
    BY DEF AboveSeq
  <1> HIDE DEF s
  <1>5. \A k \in 1 .. n - 1 : s[k] = SubSeq(path, 1, k) /\ s[k] \in NamePaths /\ Len(s[k]) = k
    <2> SUFFICES ASSUME NEW k \in 1 .. n - 1
                 PROVE  s[k] = SubSeq(path, 1, k) /\ s[k] \in NamePaths /\ Len(s[k]) = k
      OBVIOUS
    <2>1. k \in 1 .. n
      BY <1>2
    <2>2. s[k] = SubSeq(path, 1, k)
      BY <1>4
    <2> QED
      BY <1>3, <2>1, <2>2 DEF NamePaths
  <1>6. s \in Seq(NamePaths) /\ Len(s) = n - 1
    <2>1. n - 1 \in Nat
      BY <1>2
    <2>2. s \in [1 .. n - 1 -> NamePaths]
      BY <1>4, <1>5
    <2>3. s \in Seq(NamePaths)
      BY <2>1, <2>2, SeqDef
    <2>4. DOMAIN s = 1 .. n - 1
      BY <2>2
    <2> QED
      BY <2>1, <2>3, <2>4, LenProperties
  <1>7. ASSUME NEW k \in 2 .. n
        PROVE  \A q : q \in Seq(Names) /\ Len(q) = k /\ (\A j \in 1 .. k : q[j] = path[j])
                        => Front(q) = SubSeq(path, 1, k - 1)
    <2> SUFFICES ASSUME NEW q \in Seq(Names), Len(q) = k, \A j \in 1 .. k : q[j] = path[j]
                 PROVE  Front(q) = SubSeq(path, 1, k - 1)
      OBVIOUS
    <2> DEFINE f == Front(q)
               l == k - 1
               p == SubSeq(path, 1, l)
    <2>1. q # <<>> /\ l \in 1 .. n /\ \A j \in 1 .. l : j \in 1 .. k
      BY <1>2, EmptySeq
    <2> HIDE DEF l
    <2>2. p \in Seq(Names) /\ Len(p) = l /\ \A j \in 1 .. l : p[j] = path[j]
      BY <1>3, <2>1
    <2>3. f \in Seq(Names) /\ Len(f) = l /\ \A j \in 1 .. l : f[j] = q[j]
      BY <2>1, FrontAndLast DEF l
    <2> HIDE DEF f, p
    <2>4. f = p
      BY <2>1, <2>2, <2>3, SeqEqual
    <2> QED
      BY <2>4 DEF f, p, l
  <1>8. \A q : q \in Seq(Names) /\ Len(q) = 1 => Front(q) = <<>>
    <2> SUFFICES ASSUME NEW q \in Seq(Names), Len(q) = 1 PROVE Front(q) = <<>>
      OBVIOUS
    <2>1. q # <<>>
      BY EmptySeq
    <2>2. Front(q) \in Seq(Names) /\ Len(Front(q)) = 0
      BY <2>1, FrontAndLast
    <2> QED
      BY <2>2, EmptySeq
  <1>9. ASSUME NEW k \in 1 .. n - 1
        PROVE  /\ k = 1 => Front(s[k]) = <<>>
               /\ k > 1 => Front(s[k]) = s[k - 1]
    <2>1. k \in 1 .. n /\ s[k] \in Seq(Names) /\ Len(s[k]) = k /\ s[k] = SubSeq(path, 1, k)
      BY <1>2, <1>5 DEF NamePaths
    <2>2. k = 1 => Front(s[k]) = <<>>
      BY <1>8, <2>1
    <2>3. CASE k > 1
      <3>1. k \in 2 .. n /\ k - 1 \in 1 .. n - 1
        BY <2>1, <2>3
      <3>2. \A j \in 1 .. k : s[k][j] = path[j]
        BY <1>3, <2>1
      <3>3. Front(s[k]) = SubSeq(path, 1, k - 1)
        BY <1>7, <2>1, <3>1, <3>2
      <3> QED
        BY <1>5, <2>2, <3>1, <3>3
    <2> QED
      BY <2>2, <2>3
  <1>10. n > 1 => Front(path) = s[n - 1]
    <2> SUFFICES ASSUME n > 1 PROVE Front(path) = s[n - 1]
      OBVIOUS
    <2>1. n \in 2 .. n /\ n - 1 \in 1 .. n - 1
      BY <1>2
    <2> QED
      BY <1>1, <1>5, <1>7, <2>1
  <1>11. n = 1 => Front(path) = <<>>
    BY <1>1, <1>8
  <1> QED
    BY <1>2, <1>5, <1>6, <1>9, <1>10, <1>11 DEF s

\* The function that the fold over the paths above computes with.
ParentsIter(iter, t, seq, n) ==
    iter = [s \in SUBSET (1 .. n) |->
              IF s = {} THEN t ELSE WithParent(iter[s \ {Max(s)}], seq[Max(s)])]

ParentsRun(run, t, path) ==
    /\ run[0] = t
    /\ \A k \in 1 .. Len(path) - 1 : run[k] = WithParent(run[k - 1], AboveSeq(path)[k])
    /\ WithParents(t, path) = run[Len(path) - 1]

\* The directories above are made one after the other.
LEMMA ParentsRuns ==
    ASSUME NEW t \in Trees, NEW path \in NamePaths
    PROVE  \E run \in [0 .. Len(path) - 1 -> Trees] : ParentsRun(run, t, path)
  <1> DEFINE seq == AboveSeq(path)
             n == Len(path) - 1
             G == Trees
             step == [k \in 1 .. n |-> [s \in G |-> WithParent(s, seq[k])]]
             iter == CHOOSE f : ParentsIter(f, t, seq, n)
  <1>1. /\ n \in Nat /\ Len(seq) = n /\ seq \in Seq(NamePaths)
        /\ DOMAIN seq = 1 .. n /\ \A k \in 1 .. n : seq[k] \in NamePaths
    <2>1. n \in Nat /\ Len(seq) = n /\ seq \in Seq(NamePaths)
      BY AboveIs
    <2> HIDE DEF seq, n
    <2> QED
      BY <2>1, PlacesOfSeq
  <1>2. WithParents(t, path) = iter[1 .. n]
    <2>1. WithParents(t, path) = FoldLeft(WithParent, t, seq)
      BY DEF WithParents, AboveSeq
    <2> HIDE DEF n, seq
    <2> QED
      BY <1>1, <2>1 DEF FoldLeft, MapThenFoldSet, ParentsIter
  <1>3. \A k \in 1 .. n : \A s \in G : WithParent(s, seq[k]) \in G
    <2> SUFFICES ASSUME NEW k \in 1 .. n, NEW s \in G PROVE WithParent(s, seq[k]) \in G
      OBVIOUS
    <2> HIDE DEF n, seq
    <2>1. seq[k] \in NamePaths
      BY <1>1
    <2>2. PICK M : Shape(s, M)
      BY TreesAre
    <2>3. \E L : Shape(WithParent(s, seq[k]), L)
      BY <2>1, <2>2, WithParentIs
    <2> QED
      BY <2>3, TreesAre
  <1>4. step \in [1 .. n -> [G -> G]] /\ \A k \in 1 .. n : \A s \in G : step[k][s] = WithParent(s, seq[k])
    BY <1>3
  <1>start. t \in G /\ n \in Nat
    BY <1>1
  <1> HIDE DEF n, G, step, iter, seq
  <1>5. ParentsIter(iter, t, seq, n)
    <2>1. PICK f \in [SUBSET (1 .. n) -> G] : Folds(f, t, step, n)
      BY <1>1, <1>4, FoldExists DEF HasFold, G
    <2>2. ASSUME NEW s \in SUBSET (1 .. n)
          PROVE  f[s] = IF s = {} THEN t ELSE WithParent(f[s \ {Max(s)}], seq[Max(s)])
      <3>1. f[s] = IF s = {} THEN t ELSE step[Max(s)][f[s \ {Max(s)}]]
        BY <2>1 DEF Folds
      <3>2. s # {} => Max(s) \in 1 .. n /\ f[s \ {Max(s)}] \in G
        BY <1>1, <2>1, LastPlace
      <3> QED
        BY <1>4, <3>1, <3>2
    <2>3. f = [s \in SUBSET (1 .. n) |-> f[s]]
      BY <2>1
    <2>4. ParentsIter(f, t, seq, n)
      BY <2>2, <2>3 DEF ParentsIter
    <2> QED
      BY <2>4 DEF iter
  <1>6. \A s \in SUBSET (1 .. n) :
           iter[s] = IF s = {} THEN t ELSE WithParent(iter[s \ {Max(s)}], seq[Max(s)])
    BY <1>5 DEF ParentsIter
  <1>7. iter[{}] = t
    BY <1>6
  <1>8. Stepwise(iter, G, t, step, n)
    BY <1>1, <1>4, <1>6, <1>7, LastPlace DEF Stepwise
  <1>9. PICK run \in [0 .. n -> G] : Steps(run, t, step, n) /\ run[n] = iter[1 .. n]
    BY <1>4, <1>8, <1>start, FoldSteps
  <1>10. ASSUME NEW k \in 1 .. n PROVE run[k] = WithParent(run[k - 1], seq[k])
    <2>1. run[k] = step[k][run[k - 1]]
      BY <1>9 DEF Steps
    <2>2. k - 1 \in 0 .. n
      BY <1>1
    <2>3. run[k - 1] \in G
      BY <1>9, <2>2
    <2> QED
      BY <1>4, <2>1, <2>3
  <1> QED
    BY <1>2, <1>9, <1>10 DEF ParentsRun, Steps, n, G, seq

\* Then the parent is there; nothing is made where all are there already.
LEMMA WithParentsIs ==
    ASSUME NEW t, NEW N, Shape(t, N), NEW path \in NamePaths
    PROVE  /\ \E M : Shape(WithParents(t, path), M)
           /\ Lookup(WithParents(t, path), Front(path)) # 0
           /\ (\A k \in 1 .. Len(path) - 1 : Lookup(t, AboveSeq(path)[k]) # 0)
                 => WithParents(t, path) = t
  <1> DEFINE seq == AboveSeq(path)
             n == Len(path) - 1
             u == WithParents(t, path)
  <1>1. /\ n \in Nat
        /\ \A k \in 1 .. n : /\ k = 1 => Front(seq[k]) = <<>>
                             /\ k > 1 => Front(seq[k]) = seq[k - 1]
        /\ n = 0 => Front(path) = <<>>
        /\ n > 0 => Front(path) = seq[n]
        /\ seq \in Seq(NamePaths) /\ Len(seq) = n
    BY AboveIs
  <1>2. t \in Trees
    BY TreesAre
  <1>3. PICK run \in [0 .. Len(path) - 1 -> Trees] : ParentsRun(run, t, path)
    BY <1>2, ParentsRuns
  <1>4. run \in [0 .. n -> Trees] /\ run[0] = t /\ u = run[n]
        /\ \A k \in 1 .. n : run[k] = WithParent(run[k - 1], seq[k])
    BY <1>3 DEF ParentsRun
  <1> HIDE DEF seq, n, u
  <1>5. \A k \in 1 .. n : seq[k] \in NamePaths
    BY <1>1, PlacesOfSeq
  <1>6. \A k \in 0 .. n : \E M : Shape(run[k], M)
    BY <1>4, TreesAre
  <1>7. ASSUME NEW k \in 1 .. n
        PROVE  /\ Lookup(run[k - 1], Front(seq[k])) # 0 => Lookup(run[k], seq[k]) # 0
               /\ Lookup(run[k - 1], seq[k]) # 0 => run[k] = run[k - 1]
    <2>1. k - 1 \in 0 .. n
      BY <1>1
    <2>2. PICK M : Shape(run[k - 1], M)
      BY <1>6, <2>1
    <2> DEFINE v == run[k - 1]
               up == seq[k]
    <2>3. up \in NamePaths /\ run[k] = WithParent(v, up)
      BY <1>4, <1>5
    <2> HIDE DEF v, up
    <2>4. /\ Lookup(v, Front(up)) # 0 => Lookup(WithParent(v, up), up) # 0
          /\ Lookup(v, up) # 0 => WithParent(v, up) = v
      BY <2>2, <2>3, WithParentIs DEF v
    <2> QED
      BY <2>3, <2>4 DEF v, up
  <1>8. \A k \in 0 .. n : Lookup(run[k], <<>>) = 1
    BY <1>6, LookupRoot
  <1> DEFINE S == {k \in Nat : k <= n /\ k > 0 => Lookup(run[k], seq[k]) # 0}
  <1>9. 0 \in S
    OBVIOUS
  <1>10. ASSUME NEW k \in Nat, k \in S PROVE k + 1 \in S
    <2> SUFFICES ASSUME k + 1 <= n PROVE Lookup(run[k + 1], seq[k + 1]) # 0
      OBVIOUS
    <2>1. PICK l \in 1 .. n : l = k + 1 /\ l - 1 = k
      BY <1>1
    <2>2. Lookup(run[k], Front(seq[l])) # 0
      <3>1. CASE k = 0
        BY <1>1, <1>8, <2>1, <3>1
      <3>2. CASE k # 0
        <4>1. Front(seq[l]) = seq[k] /\ Lookup(run[k], seq[k]) # 0
          BY <1>1, <1>10, <2>1, <3>2
        <4> QED
          BY <4>1
      <3> QED
        BY <3>1, <3>2
    <2>3. Lookup(run[l], seq[l]) # 0
      BY <1>7, <2>1, <2>2
    <2> QED
      BY <2>1, <2>3
  <1> HIDE DEF S
  <1>11. n \in S
    BY <1>1, <1>9, <1>10, NatSetInduction
  <1>12. Lookup(u, Front(path)) # 0
    <2>1. CASE n = 0
      BY <1>1, <1>4, <1>8, <2>1
    <2>2. CASE n # 0
      <3>1. n > 0
        BY <1>1, <2>2
      <3> QED
        BY <1>1, <1>4, <1>11, <3>1 DEF S
    <2> QED
      BY <2>1, <2>2
  <1>13. ASSUME \A k \in 1 .. n : Lookup(t, seq[k]) # 0 PROVE u = t
    <2> DEFINE R == {k \in Nat : k <= n => run[k] = t}
    <2>1. 0 \in R
      BY <1>4
    <2>2. ASSUME NEW k \in Nat, k \in R PROVE k + 1 \in R
      <3> SUFFICES ASSUME k + 1 <= n PROVE run[k + 1] = t
        OBVIOUS
      <3>1. PICK l \in 1 .. n : l = k + 1 /\ l - 1 = k
        BY <1>1
      <3>2. run[k] = t
        BY <1>1, <2>2
      <3>3. run[l] = t
        BY <1>7, <1>13, <3>1, <3>2
      <3> QED
        BY <3>1, <3>3
    <2> HIDE DEF R
    <2>3. n \in R
      BY <1>1, <2>1, <2>2, NatSetInduction
    <2> QED
      BY <1>1, <1>4, <2>3 DEF R
  <1>14. \E M : Shape(u, M)
    BY <1>1, <1>4, <1>6
  <1> QED
    BY <1>12, <1>13, <1>14 DEF n, seq, u

\* A file is added to its parent.
LEMMA FileGrows ==
    ASSUME NEW u, NEW N, Shape(u, N), NEW path \in NamePaths,
           Lookup(u, Front(path)) # 0, Lookup(u, path) = 0
    PROVE  /\ Lookup(u, Front(path)) \in 1 .. N
           /\ Grown(AddChild(u, Lookup(u, Front(path)),
                             NewNode(Lookup(u, Front(path)), FALSE, Last(path), 0, 1)),
                    u, N, Lookup(u, Front(path)), FALSE, Last(path))
  <1> DEFINE n == Lookup(u, Front(path))
             a == Last(path)
  <1>1. path \in Seq(Names) /\ path # <<>>
    BY DEF NamePaths
  <1>2. a \in Names
    BY <1>1, FrontAndLast
  <1>3. n \in 0 .. N /\ Lookup(u, path) = LookupChild(u, n, a)
    BY <1>1, LookupLast
  <1>4. n \in 1 .. N
    <2>1. N \in Nat
      BY DEF Shape
    <2> QED
      BY <1>3, <2>1
  <1> DEFINE zero == 0
             one == 1
             d == FALSE
             node == NewNode(n, d, a, zero, one)
  <1>5. zero \in Nat /\ one \in Nat /\ d \in BOOLEAN /\ LookupChild(u, n, a) = 0
    BY <1>3
  <1> HIDE DEF n, a, zero, d, one
  <1>6. Fresh(u, N, n, NewNode(n, d, a, zero, one)) /\ NewNode(n, d, a, zero, one).is_dir = d
        /\ NewNode(n, d, a, zero, one).name = a
    BY <1>2, <1>4, <1>5, NewNodeIs
  <1> HIDE DEF node
  <1>7. Fresh(u, N, n, node) /\ node.is_dir = d /\ node.name = a
    BY <1>6 DEF node
  <1>8. Grown(AddChild(u, n, node), u, N, n, node.is_dir, node.name)
    BY <1>4, <1>7, AddChildGrows
  <1>9. Grown(AddChild(u, n, node), u, N, n, d, a)
    BY <1>7, <1>8
  <1> QED
    BY <1>4, <1>9 DEF n, a, d, node, zero, one

\* A call of mkfile leaves a tree, whether it fails or not.
LEMMA MkfileIs ==
    ASSUME NEW t, NEW N, Shape(t, N), NEW path \in NamePaths
    PROVE  \E M : Shape(Mkfile(t, path, 0, 1), M)
  <1> DEFINE u == WithParents(t, path)
             pdir == Lookup(u, Front(path))
             v == AddChild(u, pdir, NewNode(pdir, FALSE, Last(path), 0, 1))
  <1>1. Mkfile(t, path, 0, 1) = IF Blocked(t, path) THEN t ELSE IF Lookup(u, path) # 0 THEN u ELSE v
    BY DEF Mkfile, NULL
  <1>2. (\E M : Shape(u, M)) /\ pdir # 0
    BY WithParentsIs
  <1>3. PICK M : Shape(u, M)
    BY <1>2
  <1> HIDE DEF u
  <1>4. Lookup(u, path) = 0 => \E L : Shape(v, L)
    <2> SUFFICES ASSUME Lookup(u, path) = 0 PROVE \E L : Shape(v, L)
      OBVIOUS
    <2>1. Grown(v, u, M, pdir, FALSE, Last(path))
      BY <1>2, <1>3, FileGrows
    <2> QED
      BY <2>1 DEF Grown
  <1> HIDE DEF v
  <1> QED
    BY <1>1, <1>3, <1>4

\* Where everything above is there, a file is all that is added.
LEMMA MkfileGrows ==
    ASSUME NEW t, NEW N, Shape(t, N), NEW path \in NamePaths,
           \A k \in 1 .. Len(path) - 1 : Lookup(t, AboveSeq(path)[k]) # 0
    PROVE  \/ Mkfile(t, path, 0, 1) = t /\ (Blocked(t, path) \/ Lookup(t, path) # 0)
           \/ /\ Lookup(t, path) = 0
              /\ Lookup(t, Front(path)) \in 1 .. N
              /\ Grown(Mkfile(t, path, 0, 1), t, N, Lookup(t, Front(path)), FALSE, Last(path))
  <1> DEFINE pdir == Lookup(t, Front(path))
             v == AddChild(t, pdir, NewNode(pdir, FALSE, Last(path), 0, 1))
  <1>1. WithParents(t, path) = t /\ pdir # 0
    BY WithParentsIs
  <1>2. Mkfile(t, path, 0, 1) = IF Blocked(t, path) THEN t ELSE IF Lookup(t, path) # 0 THEN t ELSE v
    BY <1>1 DEF Mkfile, NULL
  <1>3. Lookup(t, path) = 0 => pdir \in 1 .. N /\ Grown(v, t, N, pdir, FALSE, Last(path))
    BY <1>1, FileGrows
  <1> HIDE DEF v, pdir
  <1>4. CASE Blocked(t, path) \/ Lookup(t, path) # 0
    BY <1>2, <1>4
  <1>5. CASE ~(Blocked(t, path) \/ Lookup(t, path) # 0)
    BY <1>2, <1>3, <1>5 DEF pdir
  <1> QED
    BY <1>4, <1>5

-----------------------------------------------------------------------------
(* The layout: sizes and extents are written, the tree stays the same.     *)

\* The trees whose nodes are those of t, but for extents, sizes and numbers.
Sames(t, N) ==
    {u \in [1 .. N -> NodeType] :
        \A n \in 1 .. N : SameNode(u[n], t[n]) /\ u[n].children = t[n].children}

\* What stays the same.
LEMMA SamesAre ==
    ASSUME NEW t, NEW N, NEW u \in Sames(t, N)
    PROVE  /\ u \in [1 .. N -> NodeType]
           /\ \A n \in 1 .. N : /\ u[n].parent = t[n].parent /\ u[n].is_dir = t[n].is_dir
                                /\ u[n].name = t[n].name /\ u[n].children = t[n].children
  BY DEF Sames, SameNode

\* A tree stays one when sizes, extents and numbers are written into it.
LEMMA SamesShape ==
    ASSUME NEW t, NEW N, Shape(t, N), NEW u \in Sames(t, N)
    PROVE  Shape(u, N)
  <1>1. /\ u \in [1 .. N -> NodeType]
        /\ \A n \in 1 .. N : /\ u[n].parent = t[n].parent
                             /\ u[n].name = t[n].name /\ u[n].children = t[n].children
    BY SamesAre
  <1>2. N \in Nat \ {0} /\ 1 \in 1 .. N /\ \A n \in 2 .. N : n \in 1 .. N
    BY DEF Shape
  <1>3. ASSUME NEW n \in 1 .. N PROVE Hangs(u, N, n)
    <2>1. PICK q : /\ Linked(t[n].children, q)
                   /\ \A c : (c \in 1 .. N /\ t[c].parent = n) <=> \E k \in 1 .. Len(q) : c = q[k]
                   /\ \A k \in 1 .. Len(q) : \A j \in 1 .. k - 1 : Rank(t[q[j]].name) < Rank(t[q[k]].name)
      BY DEF Shape, Hangs
    <2>2. \A c : (c \in 1 .. N /\ u[c].parent = n) <=> \E k \in 1 .. Len(q) : c = q[k]
      BY <1>1, <2>1
    <2>3. ASSUME NEW k \in 1 .. Len(q), NEW j \in 1 .. k - 1 PROVE Rank(u[q[j]].name) < Rank(u[q[k]].name)
      <3>1. q \in Seq(Nat \ {0})
        BY <2>1 DEF Linked
      <3>2. Len(q) \in Nat
        BY <3>1, LenProperties
      <3>3. j \in 1 .. Len(q)
        BY <3>2
      <3>4. u[q[j]].name = t[q[j]].name /\ u[q[k]].name = t[q[k]].name
        BY <1>1, <2>1, <3>3
      <3>5. Rank(t[q[j]].name) < Rank(t[q[k]].name)
        BY <2>1
      <3> QED
        BY <3>4, <3>5
    <2> QED
      BY <1>1, <2>1, <2>2, <2>3 DEF Hangs
  <1>4. u[1].parent = 0
    BY <1>1, <1>2 DEF Shape
  <1>5. \A n \in 2 .. N : u[n].parent \in 1 .. n - 1 /\ u[n].name \in Names
    BY <1>1, <1>2 DEF Shape
  <1>6. \A m, n \in 2 .. N : u[m].parent = u[n].parent /\ u[m].name = u[n].name => m = n
    BY <1>1, <1>2 DEF Shape
  <1> QED
    BY <1>1, <1>2, <1>3, <1>4, <1>5, <1>6 DEF Shape

\* Sameness carries over.
LEMMA SamesOfSame ==
    ASSUME NEW t, NEW N, NEW u \in Sames(t, N)
    PROVE  Sames(u, N) = Sames(t, N)
  BY SamesAre DEF Sames, SameNode

\* A walk over the children meets nodes that are younger.
LEMMA ChildrenAre ==
    ASSUME NEW t, NEW N, Shape(t, N), NEW n \in 1 .. N
    PROVE  /\ Children(t, n) \in Seq(2 .. N)
           /\ Linked(t[n].children, Children(t, n))
           /\ \A c : (c \in 1 .. N /\ t[c].parent = n) <=> \E k \in 1 .. Len(Children(t, n)) : c = Children(t, n)[k]
           /\ \A k \in 1 .. Len(Children(t, n)) :
                 /\ Children(t, n)[k] \in 2 .. N
                 /\ Children(t, n)[k] > n
                 /\ t[Children(t, n)[k]].parent = n
           /\ \A k \in 1 .. Len(Children(t, n)) : \A j \in 1 .. k - 1 :
                 Rank(t[Children(t, n)[j]].name) < Rank(t[Children(t, n)[k]].name)
  <1>1. PICK q : /\ Linked(t[n].children, q)
                 /\ \A c : (c \in 1 .. N /\ t[c].parent = n) <=> \E k \in 1 .. Len(q) : c = q[k]
                 /\ \A k \in 1 .. Len(q) : \A j \in 1 .. k - 1 : Rank(t[q[j]].name) < Rank(t[q[k]].name)
    BY DEF Shape, Hangs
  <1>2. Children(t, n) = q
    <2>1. Elements(t[n].children) = q
      BY <1>1, ElementsAre
    <2> QED
      BY <2>1 DEF Children
  <1>3. N \in Nat \ {0} /\ t[1].parent = 0 /\ \A c \in 2 .. N : t[c].parent \in 1 .. c - 1
    BY DEF Shape
  <1>4. ASSUME NEW k \in 1 .. Len(q) PROVE q[k] \in 2 .. N /\ q[k] > n /\ t[q[k]].parent = n
    <2> DEFINE c == q[k]
    <2>1. c \in 1 .. N /\ t[c].parent = n
      BY <1>1
    <2> HIDE DEF c
    <2>2. c # 1 /\ n \in Nat
      BY <1>3, <2>1
    <2>3. c \in 2 .. N
      BY <1>3, <2>1, <2>2
    <2>4. c > n
      BY <1>3, <2>1, <2>2, <2>3
    <2> QED
      BY <2>1, <2>3, <2>4 DEF c
  <1>5. q \in Seq(2 .. N)
    <2>1. q \in Seq(Nat \ {0})
      BY <1>1 DEF Linked
    <2>2. Len(q) \in Nat /\ DOMAIN q = 1 .. Len(q) /\ q \in [1 .. Len(q) -> Nat \ {0}]
      BY <2>1, LenProperties
    <2>3. q \in [1 .. Len(q) -> 2 .. N]
      BY <1>4, <2>2
    <2> QED
      BY <2>2, <2>3, SeqDef
  <1> QED
    BY <1>1, <1>2, <1>4, <1>5

\* A record fits in a block.
LEMMA RecLenIs ==
    ASSUME NEW node \in NodeType, node.name \in Names
    PROVE  RecLen(node) \in 1 .. ISO_BLOCKSIZE
  <1> DEFINE k == Rank(node.name)
             size == RecordSize[node.name]
  <1>1. k \in DOMAIN NameOrder /\ NameOrder[k] = node.name
    BY RankIs
  <1>2. size \in 1 .. ISO_BLOCKSIZE - VERSION_SIZE /\ ISO_BLOCKSIZE \in Nat \ {0}
    BY <1>1, DirectoryAssumption
  <1> HIDE DEF size
  <1>3. CASE node.is_dir
    <2>1. RecLen(node) = size + 0
      BY <1>3 DEF RecLen, size
    <2> QED
      BY <1>2, <2>1 DEF VERSION_SIZE
  <1>4. CASE ~node.is_dir
    <2>1. RecLen(node) = size + VERSION_SIZE
      BY <1>4 DEF RecLen, size
    <2> QED
      BY <1>2, <2>1 DEF VERSION_SIZE
  <1> QED
    BY <1>3, <1>4

\* The function that the fold over the records of a directory computes with.
SizeIter(iter, t, seq, n) ==
    iter = [s \in SUBSET (1 .. n) |->
              IF s = {} THEN DotSize + DotSize
              ELSE OfsAdd(iter[s \ {Max(s)}], RecLen(t[seq[Max(s)]]), ISO_BLOCKSIZE)]

SizeRun(run, t, n) ==
    /\ run[0] = DotSize + DotSize
    /\ \A k \in 1 .. Len(Children(t, n)) :
          run[k] = OfsAdd(run[k - 1], RecLen(t[Children(t, n)[k]]), ISO_BLOCKSIZE)
    /\ SizeOf(t, n) = Ceil2Block(run[Len(Children(t, n))], ISO_BLOCKSIZE)

\* The size of a directory: record after record.
LEMMA SizeRuns ==
    ASSUME NEW t, NEW N, Shape(t, N), NEW d \in 1 .. N
    PROVE  \E run \in [0 .. Len(Children(t, d)) -> Nat] : SizeRun(run, t, d)
  <1> DEFINE seq == Children(t, d)
             n == Len(seq)
             G == Nat
             base == DotSize + DotSize
             step == [k \in 1 .. n |-> [s \in G |-> OfsAdd(s, RecLen(t[seq[k]]), ISO_BLOCKSIZE)]]
             iter == CHOOSE f : SizeIter(f, t, seq, n)
             last == FoldLeft(LAMBDA offset, c : OfsAdd(offset, RecLen(t[c]), ISO_BLOCKSIZE),
                              DotSize + DotSize, seq)
  <1>1. seq \in Seq(2 .. N) /\ base \in Nat
    BY ChildrenAre, DirectoryAssumption
  <1>2. SizeOf(t, d) = Ceil2Block(last, ISO_BLOCKSIZE)
    BY DEF SizeOf
  <1> HIDE DEF seq
  <1>3. n \in Nat /\ DOMAIN seq = 1 .. n /\ \A k \in 1 .. n : seq[k] \in 2 .. N
    BY <1>1, PlacesOfSeq
  <1>4. last = iter[1 .. n]
    BY <1>3 DEF FoldLeft, MapThenFoldSet, SizeIter
  <1>5. \A k \in 1 .. n : \A s \in Nat : OfsAdd(s, RecLen(t[seq[k]]), ISO_BLOCKSIZE) \in Nat
    <2> SUFFICES ASSUME NEW k \in 1 .. n, NEW s \in Nat
                 PROVE  OfsAdd(s, RecLen(t[seq[k]]), ISO_BLOCKSIZE) \in Nat
      OBVIOUS
    <2> DEFINE node == t[seq[k]]
               length == RecLen(node)
    <2>1. seq[k] \in 2 .. N /\ seq[k] \in 1 .. N /\ N \in Nat
      BY <1>3 DEF Shape
    <2>2. node \in NodeType /\ node.name \in Names
      BY <2>1 DEF Shape
    <2>3. length \in 1 .. ISO_BLOCKSIZE
      BY <2>2, RecLenIs
    <2> HIDE DEF length, node
    <2>4. ISO_BLOCKSIZE \in Nat \ {0}
      BY DirectoryAssumption
    <2>5. OfsAdd(s, length, ISO_BLOCKSIZE) \in Nat
      BY <2>3, <2>4, OfsAddFits
    <2> QED
      BY <2>5 DEF length, node
  <1>6. /\ step \in [1 .. n -> [G -> G]]
        /\ \A k \in 1 .. n : \A s \in G : step[k][s] = OfsAdd(s, RecLen(t[seq[k]]), ISO_BLOCKSIZE)
    BY <1>5
  <1>start. base \in G /\ n \in Nat
    BY <1>1, <1>3
  <1> HIDE DEF n, G, base, step, iter, last
  <1>7. SizeIter(iter, t, seq, n)
    <2>1. PICK f \in [SUBSET (1 .. n) -> G] : Folds(f, base, step, n)
      BY <1>start, <1>6, FoldExists DEF HasFold
    <2>2. ASSUME NEW s \in SUBSET (1 .. n)
          PROVE  f[s] = IF s = {} THEN base
                        ELSE OfsAdd(f[s \ {Max(s)}], RecLen(t[seq[Max(s)]]), ISO_BLOCKSIZE)
      <3>1. f[s] = IF s = {} THEN base ELSE step[Max(s)][f[s \ {Max(s)}]]
        BY <2>1 DEF Folds
      <3>2. s # {} => Max(s) \in 1 .. n /\ f[s \ {Max(s)}] \in G
        BY <1>3, <2>1, LastPlace
      <3> QED
        BY <1>6, <3>1, <3>2
    <2>3. f = [s \in SUBSET (1 .. n) |-> f[s]]
      BY <2>1
    <2>4. SizeIter(f, t, seq, n)
      BY <2>2, <2>3 DEF SizeIter, base
    <2> QED
      BY <2>4 DEF iter
  <1>8. \A s \in SUBSET (1 .. n) :
           iter[s] = IF s = {} THEN base ELSE OfsAdd(iter[s \ {Max(s)}], RecLen(t[seq[Max(s)]]), ISO_BLOCKSIZE)
    BY <1>7 DEF SizeIter, base
  <1>9. iter[{}] = base
    BY <1>8
  <1>10. Stepwise(iter, G, base, step, n)
    BY <1>3, <1>6, <1>8, <1>9, LastPlace DEF Stepwise
  <1>11. PICK run \in [0 .. n -> G] : Steps(run, base, step, n) /\ run[n] = iter[1 .. n]
    BY <1>start, <1>6, <1>10, FoldSteps
  <1>12. ASSUME NEW k \in 1 .. n PROVE run[k] = OfsAdd(run[k - 1], RecLen(t[seq[k]]), ISO_BLOCKSIZE)
    <2>1. run[k] = step[k][run[k - 1]]
      BY <1>11 DEF Steps
    <2>2. k - 1 \in 0 .. n
      BY <1>3
    <2>3. run[k - 1] \in G
      BY <1>11, <2>2
    <2> QED
      BY <1>6, <2>1, <2>3
  <1> QED
    BY <1>2, <1>4, <1>11, <1>12 DEF SizeRun, Steps, n, seq, base, G

\* The size of a directory is a number of whole blocks.
LEMMA SizeOfIs ==
    ASSUME NEW t, NEW N, Shape(t, N), NEW n \in 1 .. N
    PROVE  SizeOf(t, n) \in Nat /\ SizeOf(t, n) % ISO_BLOCKSIZE = 0
  <1> DEFINE l == Len(Children(t, n))
  <1>1. PICK run \in [0 .. l -> Nat] : SizeRun(run, t, n)
    BY SizeRuns
  <1>2. l \in 0 .. l
    <2>1. Children(t, n) \in Seq(2 .. N)
      BY ChildrenAre
    <2>2. Len(Children(t, n)) \in Nat
      BY <2>1, LenProperties
    <2> QED
      BY <2>2
  <1> DEFINE x == run[l]
             b == ISO_BLOCKSIZE
  <1>3. x \in Nat /\ b \in Nat \ {0}
    BY <1>1, <1>2, DirectoryAssumption
  <1>4. SizeOf(t, n) = Ceil2Block(x, b)
    BY <1>1 DEF SizeRun
  <1> HIDE DEF x, b
  <1>5. Ceil2Block(x, b) \in Nat /\ Ceil2Block(x, b) % b = 0
    BY <1>3, Ceil2BlockBounds
  <1> QED
    BY <1>4, <1>5 DEF b

\* update_sizes leaves the tree as it is, but for the sizes.
LEMMA WithSizesIs ==
    ASSUME NEW t, NEW N, Shape(t, N)
    PROVE  WithSizes(t) \in Sames(t, N)
  <1> DEFINE u == WithSizes(t)
  <1>1. t \in [1 .. N -> NodeType]
    BY DEF Shape
  <1>2. u = [n \in 1 .. N |-> IF t[n].is_dir THEN [t[n] EXCEPT !.size = SizeOf(t, n)] ELSE t[n]]
    BY <1>1 DEF WithSizes
  <1> HIDE DEF u
  <1>3. ASSUME NEW n \in 1 .. N
        PROVE  u[n] \in NodeType /\ SameNode(u[n], t[n]) /\ u[n].children = t[n].children
    <2>1. t[n] \in NodeType /\ SizeOf(t, n) \in Nat
      BY <1>1, SizeOfIs
    <2> DEFINE node == t[n]
               size == SizeOf(t, n)
    <2>2. u[n] = IF node.is_dir THEN [node EXCEPT !.size = size] ELSE node
      BY <1>2
    <2> HIDE DEF node, size
    <2>3. node \in NodeType /\ size \in Nat
      BY <2>1 DEF node, size
    <2>4. [node EXCEPT !.size = size] \in NodeType
      BY <2>3 DEF NodeType
    <2>5. /\ [node EXCEPT !.size = size].parent = node.parent
          /\ [node EXCEPT !.size = size].is_dir = node.is_dir
          /\ [node EXCEPT !.size = size].name = node.name
          /\ [node EXCEPT !.size = size].children = node.children
      BY <2>3 DEF NodeType
    <2>6. CASE node.is_dir
      <3>1. u[n] = [node EXCEPT !.size = size]
        BY <2>2, <2>6
      <3> QED
        BY <2>4, <2>5, <3>1 DEF SameNode, node
    <2>7. CASE ~node.is_dir
      <3>1. u[n] = node
        BY <2>2, <2>7
      <3> QED
        BY <2>3, <3>1 DEF SameNode, node
    <2> QED
      BY <2>6, <2>7
  <1>4. u \in [1 .. N -> NodeType]
    BY <1>2, <1>3
  <1> QED
    BY <1>3, <1>4 DEF Sames, u

-----------------------------------------------------------------------------
(* The walk: what is below a node, a parent before its children.           *)

\* The rows that a node's walk is made of.
Rows(below, t, m) == [k \in DOMAIN Children(t, m) |-> below[Children(t, m)[k]]]

WalkFrom(below, t, m) == <<m>> \o FlattenSeq(Rows(below, t, m))

Walks(below, t) == below = [m \in DOMAIN t |-> WalkFrom(below, t, m)]

\* What is known of the nodes younger than m.
Younger(below, N, m) == \A c \in 1 .. N : c > m => below[c] \in Seq(1 .. N)

Agree(f, below, N, m) == \A c \in 1 .. N : c > m => f[c] = below[c]

\* It needs only that.
LEMMA WalkFromIs ==
    ASSUME NEW t, NEW N, Shape(t, N), NEW m \in 1 .. N, NEW below,
           Younger(below, N, m)
    PROVE  /\ WalkFrom(below, t, m) \in Seq(1 .. N)
           /\ \A f : Agree(f, below, N, m) => WalkFrom(f, t, m) = WalkFrom(below, t, m)
  <1> DEFINE q == Children(t, m)
             rows == Rows(below, t, m)
             S == 1 .. N
  <1>1. q \in Seq(2 .. N) /\ \A k \in 1 .. Len(q) : q[k] \in 2 .. N /\ q[k] > m
    BY ChildrenAre
  <1> HIDE DEF q
  <1>2. Len(q) \in Nat /\ DOMAIN q = 1 .. Len(q) /\ \A k \in DOMAIN q : q[k] \in 1 .. N /\ q[k] > m
    <2>1. Len(q) \in Nat /\ DOMAIN q = 1 .. Len(q)
      BY <1>1, LenProperties
    <2>2. N \in Nat
      BY DEF Shape
    <2> QED
      BY <1>1, <2>1, <2>2
  <1>3. rows = [k \in DOMAIN q |-> below[q[k]]]
    BY DEF Rows, q
  <1> HIDE DEF rows
  <1>4. rows \in Seq(Seq(S))
    <2>1. rows \in [1 .. Len(q) -> Seq(1 .. N)]
      BY <1>2, <1>3 DEF Younger
    <2> QED
      BY <1>2, <2>1, SeqDef
  <1>5. m \in S
    OBVIOUS
  <1> HIDE DEF S
  <1>6. FlattenSeq(rows) \in Seq(S)
    BY <1>4, FlattenSeqPlaces
  <1>7. <<m>> \o FlattenSeq(rows) \in Seq(S)
    <2>1. <<m>> \in Seq(S)
      BY <1>5
    <2> DEFINE one == <<m>>
               rest == FlattenSeq(rows)
    <2>2. one \in Seq(S) /\ rest \in Seq(S)
      BY <1>6, <2>1
    <2> HIDE DEF one, rest
    <2>3. one \o rest \in Seq(S)
      BY <2>2, ConcatProperties
    <2> QED
      BY <2>3 DEF one, rest
  <1>8. ASSUME NEW f, Agree(f, below, N, m)
        PROVE  WalkFrom(f, t, m) = WalkFrom(below, t, m)
    <2>1. \A k \in DOMAIN q : f[q[k]] = below[q[k]]
      BY <1>2, <1>8 DEF Agree
    <2>2. [k \in DOMAIN q |-> f[q[k]]] = [k \in DOMAIN q |-> below[q[k]]]
      BY <2>1
    <2>3. Rows(f, t, m) = Rows(below, t, m)
      BY <2>2 DEF Rows, q
    <2> QED
      BY <2>3 DEF WalkFrom
  <1> QED
    BY <1>7, <1>8 DEF WalkFrom, rows, S

\* The walks from the youngest nodes on.
Walked(f, t, N, j) ==
    f \in [1 .. N -> Seq(1 .. N)] /\ \A m \in 1 .. N : m > N - j => f[m] = WalkFrom(f, t, m)

HasWalked(t, N, j) == \E f : Walked(f, t, N, j)

\* The walks exist: those of the youngest nodes first.
LEMMA WalksExist ==
    ASSUME NEW t, NEW N, Shape(t, N)
    PROVE  \E below \in [1 .. N -> Seq(1 .. N)] : Walks(below, t)
  <1> DEFINE W == Seq(1 .. N)
             T == {j \in Nat : j <= N => HasWalked(t, N, j)}
  <1>1. N \in Nat \ {0} /\ DOMAIN t = 1 .. N
    BY DEF Shape
  <1>2. 0 \in T
    <2> DEFINE none == <<>>
               f == [m \in 1 .. N |-> none]
    <2>1. none \in W
      OBVIOUS
    <2> HIDE DEF none
    <2>2. f \in [1 .. N -> W]
      BY <2>1
    <2>3. \A m \in 1 .. N : ~(m > N - 0)
      BY <1>1
    <2>4. Walked(f, t, N, 0)
      BY <2>2, <2>3 DEF Walked
    <2> QED
      BY <2>4 DEF HasWalked
  <1>3. ASSUME NEW j \in Nat, j \in T PROVE j + 1 \in T
    <2> SUFFICES ASSUME j + 1 <= N PROVE HasWalked(t, N, j + 1)
      OBVIOUS
    <2>0. HasWalked(t, N, j)
      BY <1>1, <1>3
    <2>1. PICK f \in [1 .. N -> W] : \A m \in 1 .. N : m > N - j => f[m] = WalkFrom(f, t, m)
      BY <2>0 DEF HasWalked, Walked
    <2>2. PICK l \in 1 .. N : l = N - j
      <3>1. N - j \in 1 .. N
        BY <1>1
      <3> QED
        BY <3>1
    <2>3. l \in 1 .. N /\ Younger(f, N, l)
      BY <2>1, <2>2 DEF Younger
    <2>4. /\ WalkFrom(f, t, l) \in Seq(1 .. N)
          /\ \A g : Agree(g, f, N, l) => WalkFrom(g, t, l) = WalkFrom(f, t, l)
      BY <2>3, WalkFromIs
    <2> DEFINE w == WalkFrom(f, t, l)
    <2> HIDE DEF w
    <2> DEFINE g == [m \in 1 .. N |-> IF m = l THEN w ELSE f[m]]
    <2>5. g \in [1 .. N -> W]
      BY <2>1, <2>4 DEF w
    <2>6. g[l] = w /\ \A m \in 1 .. N : m # l => g[m] = f[m]
      OBVIOUS
    <2> HIDE DEF g
    <2>7. ASSUME NEW m \in 1 .. N, m > N - (j + 1) PROVE g[m] = WalkFrom(g, t, m)
      <3>1. m = l \/ m > l
        BY <1>1, <2>2, <2>7
      <3>2. Agree(g, f, N, m)
        <4> SUFFICES ASSUME NEW c \in 1 .. N, c > m PROVE g[c] = f[c]
          BY DEF Agree
        <4>1. c # l
          BY <2>2, <3>1
        <4> QED
          BY <2>6, <4>1
      <3>3. CASE m = l
        BY <2>4, <2>6, <3>2, <3>3 DEF w
      <3>4. CASE m > l
        <4>1. Younger(f, N, m)
          BY <2>1 DEF Younger
        <4>2. \A h : Agree(h, f, N, m) => WalkFrom(h, t, m) = WalkFrom(f, t, m)
          BY <4>1, WalkFromIs
        <4>3. WalkFrom(g, t, m) = WalkFrom(f, t, m)
          BY <3>2, <4>2
        <4>4. f[m] = WalkFrom(f, t, m) /\ m # l
          BY <2>1, <2>2, <3>4
        <4> QED
          BY <2>6, <4>3, <4>4
      <3> QED
        BY <3>1, <3>3, <3>4
    <2>8. Walked(g, t, N, j + 1)
      BY <2>5, <2>7 DEF Walked
    <2> QED
      BY <2>8 DEF HasWalked
  <1> HIDE DEF T
  <1>4. N \in T
    BY <1>1, <1>2, <1>3, NatSetInduction
  <1>5. PICK f \in [1 .. N -> W] : \A m \in 1 .. N : m > N - N => f[m] = WalkFrom(f, t, m)
    BY <1>1, <1>4 DEF T, HasWalked, Walked
  <1>6. \A m \in 1 .. N : f[m] = WalkFrom(f, t, m)
    BY <1>1, <1>5
  <1>7. f = [m \in 1 .. N |-> f[m]]
    BY <1>5
  <1>8. f = [m \in DOMAIN t |-> WalkFrom(f, t, m)]
    BY <1>1, <1>6, <1>7
  <1> QED
    BY <1>5, <1>8 DEF Walks

\* Any is made of nodes.
LEMMA WalksType ==
    ASSUME NEW t, NEW N, Shape(t, N), NEW below, Walks(below, t)
    PROVE  below \in [1 .. N -> Seq(1 .. N)] /\ \A m \in 1 .. N : below[m] = WalkFrom(below, t, m)
  <1>1. N \in Nat \ {0} /\ DOMAIN t = 1 .. N
    BY DEF Shape
  <1>2. below = [m \in 1 .. N |-> below[m]] /\ \A m \in 1 .. N : below[m] = WalkFrom(below, t, m)
    BY <1>1 DEF Walks
  <1> DEFINE T == {j \in Nat : \A m \in 1 .. N : m > N - j => below[m] \in Seq(1 .. N)}
  <1>3. 0 \in T
    <2>1. \A m \in 1 .. N : ~(m > N - 0)
      BY <1>1
    <2> QED
      BY <2>1
  <1>4. ASSUME NEW j \in Nat, j \in T PROVE j + 1 \in T
    <2> SUFFICES ASSUME NEW m \in 1 .. N, m > N - (j + 1) PROVE below[m] \in Seq(1 .. N)
      OBVIOUS
    <2>1. Younger(below, N, m)
      <3> SUFFICES ASSUME NEW c \in 1 .. N, c > m PROVE below[c] \in Seq(1 .. N)
        BY DEF Younger
      <3>1. c > N - j
        BY <1>1
      <3> QED
        BY <1>4, <3>1
    <2> HIDE DEF T
    <2>2. WalkFrom(below, t, m) \in Seq(1 .. N)
      BY <2>1, WalkFromIs
    <2> QED
      BY <1>2, <2>2
  <1> HIDE DEF T
  <1>5. N \in T
    BY <1>1, <1>3, <1>4, NatSetInduction
  <1>6. \A m \in 1 .. N : below[m] \in Seq(1 .. N)
    <2> SUFFICES ASSUME NEW m \in 1 .. N PROVE below[m] \in Seq(1 .. N)
      OBVIOUS
    <2>1. m > N - N
      BY <1>1
    <2> QED
      BY <1>5, <2>1 DEF T
  <1> QED
    BY <1>2, <1>6

\* A walk over a tree meets nodes of it.
LEMMA TraverseIs ==
    ASSUME NEW t, NEW N, Shape(t, N), NEW n \in 1 .. N
    PROVE  Traverse(t, n) \in Seq(1 .. N)
  <1> DEFINE below == CHOOSE f : Walks(f, t)
  <1>1. Traverse(t, n) = below[n]
    BY DEF Traverse, Walks, WalkFrom, Rows
  <1>2. Walks(below, t)
    <2>1. \E f : Walks(f, t)
      BY WalksExist
    <2> QED
      BY <2>1
  <1> HIDE DEF below
  <1>3. below \in [1 .. N -> Seq(1 .. N)]
    BY <1>2, WalksType
  <1> QED
    BY <1>1, <1>3

\* The blocks of a directory.
LEMMA DirBlocksIs ==
    ASSUME NEW node \in NodeType
    PROVE  DirBlocks(node) \in Nat
  <1>1. node.size \in Nat /\ ISO_BLOCKSIZE \in Nat \ {0}
    BY DirectoryAssumption DEF NodeType
  <1> DEFINE x == node.size \div ISO_BLOCKSIZE
  <1>2. x \in Nat
    BY <1>1, DivMod
  <1> HIDE DEF x
  <1> QED
    BY <1>2 DEF DirBlocks, x

\* The function that the fold over the nodes below one computes with.
BlocksIter(iter, t, seq, n) ==
    iter = [s \in SUBSET (1 .. n) |->
              IF s = {} THEN 0 ELSE iter[s \ {Max(s)}] + DirBlocks(t[seq[Max(s)]])]

BlocksRun(run, t, d) ==
    /\ run[0] = 0
    /\ \A k \in 1 .. Len(Traverse(t, d)) : run[k] = run[k - 1] + DirBlocks(t[Traverse(t, d)[k]])
    /\ DirSizes(t, d) = run[Len(Traverse(t, d))]

\* The blocks of the directories from d on: one after the other.
LEMMA BlocksRuns ==
    ASSUME NEW t, NEW N, Shape(t, N), NEW d \in 1 .. N
    PROVE  \E run \in [0 .. Len(Traverse(t, d)) -> Nat] : BlocksRun(run, t, d)
  <1> DEFINE seq == Traverse(t, d)
             n == Len(seq)
             G == Nat
             base == 0
             step == [k \in 1 .. n |-> [s \in G |-> s + DirBlocks(t[seq[k]])]]
             iter == CHOOSE f : BlocksIter(f, t, seq, n)
  <1>1. seq \in Seq(1 .. N)
    BY TraverseIs
  <1>2. DirSizes(t, d) = FoldLeft(LAMBDA sum, m : sum + DirBlocks(t[m]), 0, seq)
    BY DEF DirSizes
  <1> HIDE DEF seq
  <1>3. n \in Nat /\ DOMAIN seq = 1 .. n /\ \A k \in 1 .. n : seq[k] \in 1 .. N
    BY <1>1, PlacesOfSeq
  <1>4. DirSizes(t, d) = iter[1 .. n]
    BY <1>2, <1>3 DEF FoldLeft, MapThenFoldSet, BlocksIter
  <1>5. \A k \in 1 .. n : \A s \in G : s + DirBlocks(t[seq[k]]) \in G
    <2> SUFFICES ASSUME NEW k \in 1 .. n, NEW s \in G PROVE s + DirBlocks(t[seq[k]]) \in G
      OBVIOUS
    <2>1. t[seq[k]] \in NodeType
      BY <1>3 DEF Shape
    <2>2. DirBlocks(t[seq[k]]) \in Nat
      BY <2>1, DirBlocksIs
    <2> QED
      BY <2>2
  <1>6. step \in [1 .. n -> [G -> G]] /\ \A k \in 1 .. n : \A s \in G : step[k][s] = s + DirBlocks(t[seq[k]])
    BY <1>5
  <1>start. base \in G /\ n \in Nat
    BY <1>3
  <1> HIDE DEF n, G, base, step, iter
  <1>7. BlocksIter(iter, t, seq, n)
    <2>1. PICK f \in [SUBSET (1 .. n) -> G] : Folds(f, base, step, n)
      BY <1>start, <1>6, FoldExists DEF HasFold
    <2>2. ASSUME NEW s \in SUBSET (1 .. n)
          PROVE  f[s] = IF s = {} THEN base ELSE f[s \ {Max(s)}] + DirBlocks(t[seq[Max(s)]])
      <3>1. f[s] = IF s = {} THEN base ELSE step[Max(s)][f[s \ {Max(s)}]]
        BY <2>1 DEF Folds
      <3>2. s # {} => Max(s) \in 1 .. n /\ f[s \ {Max(s)}] \in G
        BY <1>3, <2>1, LastPlace
      <3> QED
        BY <1>6, <3>1, <3>2
    <2>3. f = [s \in SUBSET (1 .. n) |-> f[s]]
      BY <2>1
    <2>4. BlocksIter(f, t, seq, n)
      BY <2>2, <2>3 DEF BlocksIter, base
    <2> QED
      BY <2>4 DEF iter
  <1>8. \A s \in SUBSET (1 .. n) :
           iter[s] = IF s = {} THEN base ELSE iter[s \ {Max(s)}] + DirBlocks(t[seq[Max(s)]])
    BY <1>7 DEF BlocksIter, base
  <1>9. iter[{}] = base
    BY <1>8
  <1>10. Stepwise(iter, G, base, step, n)
    BY <1>3, <1>6, <1>8, <1>9, LastPlace DEF Stepwise
  <1>11. PICK run \in [0 .. n -> G] : Steps(run, base, step, n) /\ run[n] = iter[1 .. n]
    BY <1>start, <1>6, <1>10, FoldSteps
  <1>12. ASSUME NEW k \in 1 .. n PROVE run[k] = run[k - 1] + DirBlocks(t[seq[k]])
    <2>1. run[k] = step[k][run[k - 1]]
      BY <1>11 DEF Steps
    <2>2. k - 1 \in 0 .. n
      BY <1>3
    <2>3. run[k - 1] \in G
      BY <1>11, <2>2
    <2> QED
      BY <1>6, <2>1, <2>3
  <1> QED
    BY <1>4, <1>11, <1>12 DEF BlocksRun, Steps, n, seq, base, G

\* The blocks below a node are a number.
LEMMA DirSizesIs ==
    ASSUME NEW t, NEW N, Shape(t, N), NEW d \in 1 .. N
    PROVE  DirSizes(t, d) \in Nat
  <1>1. PICK run \in [0 .. Len(Traverse(t, d)) -> Nat] : BlocksRun(run, t, d)
    BY BlocksRuns
  <1>2. Traverse(t, d) \in Seq(1 .. N)
    BY TraverseIs
  <1>3. Len(Traverse(t, d)) \in 0 .. Len(Traverse(t, d))
    BY <1>2, LenProperties
  <1> QED
    BY <1>1, <1>3 DEF BlocksRun

\* An extent, or a number, is written.
WithExtentAt(u, c, at) == [u EXCEPT ![c].extent = at]

WithNumber(u, c, id) == [u EXCEPT ![c].pt_id = id]

\* An extent or a number that is written leaves the rest the same.
LEMMA WrittenSame ==
    ASSUME NEW t, NEW N, NEW u \in Sames(t, N), NEW c \in 1 .. N, NEW x \in Nat
    PROVE  WithExtentAt(u, c, x) \in Sames(t, N) /\ WithNumber(u, c, x) \in Sames(t, N)
  <1> DEFINE node == u[c]
             a == [node EXCEPT !.extent = x]
             b == [node EXCEPT !.pt_id = x]
             v == WithExtentAt(u, c, x)
             w == WithNumber(u, c, x)
  <1>1. u \in [1 .. N -> NodeType] /\ \A n \in 1 .. N : SameNode(u[n], t[n]) /\ u[n].children = t[n].children
    BY DEF Sames
  <1>2. v = [u EXCEPT ![c] = a] /\ w = [u EXCEPT ![c] = b] /\ node \in NodeType
    BY <1>1 DEF WithExtentAt, WithNumber
  <1> HIDE DEF node
  <1>3. /\ a \in NodeType /\ a.parent = node.parent /\ a.is_dir = node.is_dir /\ a.name = node.name
        /\ a.children = node.children
        /\ b \in NodeType /\ b.parent = node.parent /\ b.is_dir = node.is_dir /\ b.name = node.name
        /\ b.children = node.children
    BY <1>2 DEF NodeType
  <1> HIDE DEF a, b, v, w
  <1>4. SameNode(a, t[c]) /\ a.children = t[c].children /\ SameNode(b, t[c]) /\ b.children = t[c].children
    BY <1>1, <1>3 DEF SameNode, node
  <1>5. v \in [1 .. N -> NodeType] /\ v[c] = a /\ \A n \in 1 .. N : n # c => v[n] = u[n]
    BY <1>1, <1>2, <1>3
  <1>6. w \in [1 .. N -> NodeType] /\ w[c] = b /\ \A n \in 1 .. N : n # c => w[n] = u[n]
    BY <1>1, <1>2, <1>3
  <1>7. \A n \in 1 .. N : SameNode(v[n], t[n]) /\ v[n].children = t[n].children
    BY <1>1, <1>4, <1>5
  <1>8. \A n \in 1 .. N : SameNode(w[n], t[n]) /\ w[n].children = t[n].children
    BY <1>1, <1>4, <1>6
  <1> QED
    BY <1>5, <1>6, <1>7, <1>8 DEF Sames, v, w

Extending(t, N) == [t : Sames(t, N), at : Nat]

\* One turn of traverse_update_dirextents leaves the rest the same.
LEMMA WithExtentIs ==
    ASSUME NEW t, NEW N, Shape(t, N), NEW s \in Extending(t, N), NEW c \in 1 .. N
    PROVE  WithExtent(s, c) \in Extending(t, N)
  <1> DEFINE u == s.t
             at == s.at
             room == RoomFor(u, c)
             v == WithExtentAt(u, c, at)
  <1>1. u \in Sames(t, N) /\ at \in Nat
    BY DEF Extending
  <1>2. WithExtent(s, c) = IF u[c].is_dir THEN [t |-> v, at |-> at + room] ELSE s
    BY DEF WithExtent, WithExtentAt
  <1> HIDE DEF u, at, v
  <1>3. Shape(u, N)
    BY <1>1, SamesShape
  <1>4. room \in Nat
    BY <1>3, DirSizesIs DEF RoomFor
  <1>5. v \in Sames(t, N)
    BY <1>1, WrittenSame DEF v
  <1> HIDE DEF room
  <1>6. at + room \in Nat
    BY <1>1, <1>4
  <1>7. [t |-> v, at |-> at + room] \in Extending(t, N)
    BY <1>5, <1>6 DEF Extending
  <1> QED
    BY <1>2, <1>7

\* The function that the fold over the children of a directory computes with.
ExtentIter(iter, base, seq, n) ==
    iter = [s \in SUBSET (1 .. n) |->
              IF s = {} THEN base ELSE WithExtent(iter[s \ {Max(s)}], seq[Max(s)])]

ExtentRun(run, base, seq) ==
    /\ run[0] = base
    /\ \A k \in 1 .. Len(seq) : run[k] = WithExtent(run[k - 1], seq[k])
    /\ FoldLeft(WithExtent, base, seq) = run[Len(seq)]

\* Extents are written from child to child.
LEMMA ExtentRuns ==
    ASSUME NEW t, NEW N, Shape(t, N), NEW base \in Extending(t, N), NEW seq \in Seq(1 .. N)
    PROVE  \E run \in [0 .. Len(seq) -> Extending(t, N)] : ExtentRun(run, base, seq)
  <1> DEFINE n == Len(seq)
             G == Extending(t, N)
             step == [k \in 1 .. n |-> [s \in G |-> WithExtent(s, seq[k])]]
             iter == CHOOSE f : ExtentIter(f, base, seq, n)
  <1>1. n \in Nat /\ DOMAIN seq = 1 .. n /\ \A k \in 1 .. n : seq[k] \in 1 .. N
    BY PlacesOfSeq
  <1>2. FoldLeft(WithExtent, base, seq) = iter[1 .. n]
    BY <1>1 DEF FoldLeft, MapThenFoldSet, ExtentIter
  <1>3. \A k \in 1 .. n : \A s \in G : WithExtent(s, seq[k]) \in G
    BY <1>1, WithExtentIs
  <1>4. step \in [1 .. n -> [G -> G]] /\ \A k \in 1 .. n : \A s \in G : step[k][s] = WithExtent(s, seq[k])
    BY <1>3
  <1>start. base \in G /\ n \in Nat
    BY <1>1
  <1> HIDE DEF n, G, step, iter
  <1>5. ExtentIter(iter, base, seq, n)
    <2>1. PICK f \in [SUBSET (1 .. n) -> G] : Folds(f, base, step, n)
      BY <1>start, <1>4, FoldExists DEF HasFold
    <2>2. ASSUME NEW s \in SUBSET (1 .. n)
          PROVE  f[s] = IF s = {} THEN base ELSE WithExtent(f[s \ {Max(s)}], seq[Max(s)])
      <3>1. f[s] = IF s = {} THEN base ELSE step[Max(s)][f[s \ {Max(s)}]]
        BY <2>1 DEF Folds
      <3>2. s # {} => Max(s) \in 1 .. n /\ f[s \ {Max(s)}] \in G
        BY <1>1, <2>1, LastPlace
      <3> QED
        BY <1>4, <3>1, <3>2
    <2>3. f = [s \in SUBSET (1 .. n) |-> f[s]]
      BY <2>1
    <2>4. ExtentIter(f, base, seq, n)
      BY <2>2, <2>3 DEF ExtentIter
    <2> QED
      BY <2>4 DEF iter
  <1>6. \A s \in SUBSET (1 .. n) :
           iter[s] = IF s = {} THEN base ELSE WithExtent(iter[s \ {Max(s)}], seq[Max(s)])
    BY <1>5 DEF ExtentIter
  <1>7. iter[{}] = base
    BY <1>6
  <1>8. Stepwise(iter, G, base, step, n)
    BY <1>1, <1>4, <1>6, <1>7, LastPlace DEF Stepwise
  <1>9. PICK run \in [0 .. n -> G] : Steps(run, base, step, n) /\ run[n] = iter[1 .. n]
    BY <1>start, <1>4, <1>8, FoldSteps
  <1>10. ASSUME NEW k \in 1 .. n PROVE run[k] = WithExtent(run[k - 1], seq[k])
    <2>1. run[k] = step[k][run[k - 1]]
      BY <1>9 DEF Steps
    <2>2. k - 1 \in 0 .. n
      BY <1>1
    <2>3. run[k - 1] \in G
      BY <1>9, <2>2
    <2> QED
      BY <1>4, <2>1, <2>3
  <1> QED
    BY <1>2, <1>9, <1>10 DEF ExtentRun, Steps, n, G

\* One directory's turn leaves the rest the same.
LEMMA WithExtentsInIs ==
    ASSUME NEW t, NEW N, Shape(t, N), NEW d \in 1 .. N
    PROVE  WithExtentsIn(t, d) \in Sames(t, N)
  <1>1. t \in Sames(t, N) /\ t[d] \in NodeType
    BY DEF Shape, Sames, SameNode
  <1> DEFINE seq == Children(t, d)
             at == t[d].extent + t[d].size \div ISO_BLOCKSIZE
             base == [t |-> t, at |-> at]
             last == FoldLeft(WithExtent, base, seq)
  <1>2. CASE t[d].is_dir
    <2>1. WithExtentsIn(t, d) = last.t
      BY <1>2 DEF WithExtentsIn
    <2>2. at \in Nat
      <3>1. t[d].extent \in Nat /\ t[d].size \in Nat /\ ISO_BLOCKSIZE \in Nat \ {0}
        BY <1>1, DirectoryAssumption DEF NodeType
      <3>2. t[d].size \div ISO_BLOCKSIZE \in Nat
        BY <3>1, DivMod
      <3> QED
        BY <3>1, <3>2
    <2> HIDE DEF at
    <2>3. base \in Extending(t, N)
      BY <1>1, <2>2 DEF Extending
    <2>4. seq \in Seq(1 .. N)
      <3>1. seq \in Seq(2 .. N)
        BY ChildrenAre
      <3>2. 2 .. N \subseteq 1 .. N
        BY DEF Shape
      <3> QED
        BY <3>1, <3>2, SeqMonotonic
    <2> HIDE DEF base, seq
    <2>5. PICK run \in [0 .. Len(seq) -> Extending(t, N)] : ExtentRun(run, base, seq)
      BY <2>3, <2>4, ExtentRuns
    <2>6. Len(seq) \in 0 .. Len(seq)
      BY <2>4, LenProperties
    <2>7. last \in Extending(t, N)
      BY <2>5, <2>6 DEF ExtentRun
    <2> HIDE DEF last
    <2> QED
      BY <2>1, <2>7 DEF Extending
  <1>3. CASE ~t[d].is_dir
    BY <1>1, <1>3 DEF WithExtentsIn
  <1> QED
    BY <1>2, <1>3

\* The function that the fold over all nodes computes with.
UpdateIter(iter, base, seq, n) ==
    iter = [s \in SUBSET (1 .. n) |->
              IF s = {} THEN base ELSE WithExtentsIn(iter[s \ {Max(s)}], seq[Max(s)])]

UpdateRun(run, base, seq) ==
    /\ run[0] = base
    /\ \A k \in 1 .. Len(seq) : run[k] = WithExtentsIn(run[k - 1], seq[k])
    /\ FoldLeft(WithExtentsIn, base, seq) = run[Len(seq)]

\* The extents are updated from node to node.
LEMMA UpdateRuns ==
    ASSUME NEW t, NEW N, Shape(t, N), NEW base \in Sames(t, N), NEW seq \in Seq(1 .. N)
    PROVE  \E run \in [0 .. Len(seq) -> Sames(t, N)] : UpdateRun(run, base, seq)
  <1> DEFINE n == Len(seq)
             G == Sames(t, N)
             step == [k \in 1 .. n |-> [s \in G |-> WithExtentsIn(s, seq[k])]]
             iter == CHOOSE f : UpdateIter(f, base, seq, n)
  <1>1. n \in Nat /\ DOMAIN seq = 1 .. n /\ \A k \in 1 .. n : seq[k] \in 1 .. N
    BY PlacesOfSeq
  <1>2. FoldLeft(WithExtentsIn, base, seq) = iter[1 .. n]
    BY <1>1 DEF FoldLeft, MapThenFoldSet, UpdateIter
  <1>3. \A k \in 1 .. n : \A s \in G : WithExtentsIn(s, seq[k]) \in G
    <2> SUFFICES ASSUME NEW k \in 1 .. n, NEW s \in G PROVE WithExtentsIn(s, seq[k]) \in G
      OBVIOUS
    <2>1. Shape(s, N) /\ seq[k] \in 1 .. N
      BY <1>1, SamesShape
    <2>2. WithExtentsIn(s, seq[k]) \in Sames(s, N)
      BY <2>1, WithExtentsInIs
    <2>3. Sames(s, N) = Sames(t, N)
      BY SamesOfSame
    <2> QED
      BY <2>2, <2>3
  <1>4. step \in [1 .. n -> [G -> G]] /\ \A k \in 1 .. n : \A s \in G : step[k][s] = WithExtentsIn(s, seq[k])
    BY <1>3
  <1>start. base \in G /\ n \in Nat
    BY <1>1
  <1> HIDE DEF n, G, step, iter
  <1>5. UpdateIter(iter, base, seq, n)
    <2>1. PICK f \in [SUBSET (1 .. n) -> G] : Folds(f, base, step, n)
      BY <1>start, <1>4, FoldExists DEF HasFold
    <2>2. ASSUME NEW s \in SUBSET (1 .. n)
          PROVE  f[s] = IF s = {} THEN base ELSE WithExtentsIn(f[s \ {Max(s)}], seq[Max(s)])
      <3>1. f[s] = IF s = {} THEN base ELSE step[Max(s)][f[s \ {Max(s)}]]
        BY <2>1 DEF Folds
      <3>2. s # {} => Max(s) \in 1 .. n /\ f[s \ {Max(s)}] \in G
        BY <1>1, <2>1, LastPlace
      <3> QED
        BY <1>4, <3>1, <3>2
    <2>3. f = [s \in SUBSET (1 .. n) |-> f[s]]
      BY <2>1
    <2>4. UpdateIter(f, base, seq, n)
      BY <2>2, <2>3 DEF UpdateIter
    <2> QED
      BY <2>4 DEF iter
  <1>6. \A s \in SUBSET (1 .. n) :
           iter[s] = IF s = {} THEN base ELSE WithExtentsIn(iter[s \ {Max(s)}], seq[Max(s)])
    BY <1>5 DEF UpdateIter
  <1>7. iter[{}] = base
    BY <1>6
  <1>8. Stepwise(iter, G, base, step, n)
    BY <1>1, <1>4, <1>6, <1>7, LastPlace DEF Stepwise
  <1>9. PICK run \in [0 .. n -> G] : Steps(run, base, step, n) /\ run[n] = iter[1 .. n]
    BY <1>start, <1>4, <1>8, FoldSteps
  <1>10. ASSUME NEW k \in 1 .. n PROVE run[k] = WithExtentsIn(run[k - 1], seq[k])
    <2>1. run[k] = step[k][run[k - 1]]
      BY <1>9 DEF Steps
    <2>2. k - 1 \in 0 .. n
      BY <1>1
    <2>3. run[k - 1] \in G
      BY <1>9, <2>2
    <2> QED
      BY <1>4, <2>1, <2>3
  <1> QED
    BY <1>2, <1>9, <1>10 DEF UpdateRun, Steps, n, G

\* update_dirextents leaves the tree as it is, but for the extents.
LEMMA WithExtentsIs ==
    ASSUME NEW t, NEW N, Shape(t, N), NEW extent \in Nat
    PROVE  WithExtents(t, extent) \in Sames(t, N)
  <1> DEFINE base == WithExtentAt(t, Root, extent)
             seq == Traverse(t, Root)
             last == FoldLeft(WithExtentsIn, base, seq)
  <1>1. t \in Sames(t, N)
    BY DEF Shape, Sames, SameNode
  <1>2. Root \in 1 .. N
    BY DEF Shape, Root
  <1>3. WithExtents(t, extent) = last
    BY DEF WithExtents, WithExtentAt
  <1>4. base \in Sames(t, N)
    BY <1>1, <1>2, WrittenSame
  <1>5. seq \in Seq(1 .. N)
    BY <1>2, TraverseIs
  <1> HIDE DEF base, seq
  <1>6. PICK run \in [0 .. Len(seq) -> Sames(t, N)] : UpdateRun(run, base, seq)
    BY <1>4, <1>5, UpdateRuns
  <1>7. Len(seq) \in 0 .. Len(seq)
    BY <1>5, LenProperties
  <1>8. last \in Sames(t, N)
    BY <1>6, <1>7 DEF UpdateRun
  <1> QED
    BY <1>3, <1>8

-----------------------------------------------------------------------------
(* The path tables: what _dump_pathtables_helper writes.                   *)

BfStart == [queue |-> <<Root>>, order |-> <<>>]

\* The function that _vcd_tree_node_traverse_bf computes with.
BfRun(f, t, n) == f = [k \in 0 .. n |-> IF k = 0 THEN BfStart ELSE TurnBf(t, f[k - 1])]

HasBf(t, n) == \E f : BfRun(f, t, n)

\* It exists, up to any turn.
LEMMA BfExists ==
    ASSUME NEW t, NEW m \in Nat
    PROVE  HasBf(t, m)
  <1> DEFINE T == {n \in Nat : HasBf(t, n)}
  <1>1. 0 \in T
    <2> DEFINE f == [k \in 0 .. 0 |-> BfStart]
    <2>1. f = [k \in 0 .. 0 |-> IF k = 0 THEN BfStart ELSE TurnBf(t, f[k - 1])]
      OBVIOUS
    <2>2. BfRun(f, t, 0)
      BY <2>1 DEF BfRun
    <2> QED
      BY <2>2 DEF HasBf
  <1>2. ASSUME NEW n \in Nat, n \in T PROVE n + 1 \in T
    <2>1. PICK f : BfRun(f, t, n)
      BY <1>2 DEF HasBf
    <2>2. \A k \in 0 .. n : f[k] = IF k = 0 THEN BfStart ELSE TurnBf(t, f[k - 1])
      BY <2>1 DEF BfRun
    <2> DEFINE g == [k \in 0 .. n + 1 |-> IF k <= n THEN f[k] ELSE TurnBf(t, f[n])]
    <2>3. ASSUME NEW k \in 0 .. n + 1
          PROVE  g[k] = IF k = 0 THEN BfStart ELSE TurnBf(t, g[k - 1])
      <3>1. CASE k = 0
        BY <2>2, <3>1
      <3>2. CASE k # 0 /\ k <= n
        <4>1. k - 1 \in 0 .. n + 1 /\ k - 1 <= n /\ k \in 0 .. n
          BY <3>2
        <4>2. g[k] = f[k] /\ g[k - 1] = f[k - 1]
          BY <3>2, <4>1
        <4> HIDE DEF g
        <4> QED
          BY <2>2, <3>2, <4>1, <4>2
      <3>3. CASE k = n + 1
        <4>1. k - 1 = n /\ n \in 0 .. n + 1 /\ ~(k <= n) /\ k # 0
          BY <3>3
        <4>2. g[k] = TurnBf(t, f[n]) /\ g[n] = f[n]
          BY <4>1
        <4> HIDE DEF g
        <4> QED
          BY <4>1, <4>2
      <3> QED
        BY <3>1, <3>2, <3>3
    <2>4. g = [k \in 0 .. n + 1 |-> g[k]]
      OBVIOUS
    <2> HIDE DEF g
    <2>5. BfRun(g, t, n + 1)
      BY <2>3, <2>4 DEF BfRun
    <2> QED
      BY <2>5 DEF HasBf
  <1> HIDE DEF T
  <1>3. m \in T
    BY <1>1, <1>2, NatSetInduction
  <1> QED
    BY <1>3 DEF T

\* A sequence turned round.
LEMMA ReverseIs ==
    ASSUME NEW S, NEW q \in Seq(S)
    PROVE  Reverse(q) \in Seq(S)
  <1> DEFINE n == Len(q)
  <1>1. n \in Nat /\ \A k \in 1 .. n : q[k] \in S
    BY PlacesOfSeq
  <1>2. \A k \in 1 .. n : n - k + 1 \in 1 .. n
    BY <1>1
  <1>3. Reverse(q) \in [1 .. n -> S]
    BY <1>1, <1>2 DEF Reverse
  <1> QED
    BY <1>1, <1>3, SeqDef

BfStates(N) == [queue : Seq(1 .. N), order : Seq(1 .. N)]

\* What is in the queue and what was taken from it are nodes.
LEMMA TurnBfIs ==
    ASSUME NEW t, NEW N, Shape(t, N), NEW s \in BfStates(N)
    PROVE  TurnBf(t, s) \in BfStates(N)
  <1> DEFINE queue == s.queue
             order == s.order
             S == 1 .. N
             n == Last(queue)
             new == Reverse(Children(t, n))
             rest == Front(queue)
  <1>1. queue \in Seq(S) /\ order \in Seq(S)
    BY DEF BfStates
  <1>2. TurnBf(t, s) = IF queue = <<>> THEN s ELSE [queue |-> new \o rest, order |-> Append(order, n)]
    BY DEF TurnBf
  <1> HIDE DEF queue, order
  <1>3. CASE queue = <<>>
    BY <1>2, <1>3
  <1>4. CASE queue # <<>>
    <2>1. n \in S /\ rest \in Seq(S)
      BY <1>1, <1>4, FrontAndLast
    <2>2. Children(t, n) \in Seq(S)
      <3> HIDE DEF n
      <3>1. Children(t, n) \in Seq(2 .. N)
        BY <2>1, ChildrenAre
      <3>2. 2 .. N \subseteq S
        BY DEF Shape
      <3> QED
        BY <3>1, <3>2, SeqMonotonic
    <2>3. new \in Seq(S)
      BY <2>2, ReverseIs
    <2> HIDE DEF new, rest, n, S
    <2>4. new \o rest \in Seq(S) /\ Append(order, n) \in Seq(S)
      BY <1>1, <2>1, <2>3, ConcatProperties, AppendProperties
    <2> QED
      BY <1>2, <1>4, <2>4 DEF BfStates, S
  <1> QED
    BY <1>3, <1>4

\* The walk level by level meets nodes of the tree.
LEMMA TraverseBfIs ==
    ASSUME NEW t, NEW N, Shape(t, N)
    PROVE  TraverseBf(t) \in Seq(1 .. N)
  <1> DEFINE n == Cardinality(DOMAIN t)
             turn == CHOOSE f : BfRun(f, t, n)
  <1>1. N \in Nat \ {0} /\ DOMAIN t = 1 .. N
    BY DEF Shape
  <1>2. n \in Nat
    BY <1>1, FS_Interval
  <1>3. TraverseBf(t) = turn[n].order
    BY DEF TraverseBf, BfRun, BfStart
  <1> HIDE DEF n
  <1>4. BfRun(turn, t, n)
    <2>1. HasBf(t, n)
      BY <1>2, BfExists
    <2> QED
      BY <2>1 DEF HasBf
  <1> HIDE DEF turn
  <1>5. \A k \in 0 .. n : turn[k] = IF k = 0 THEN BfStart ELSE TurnBf(t, turn[k - 1])
    BY <1>4 DEF BfRun
  <1> DEFINE T == {k \in Nat : k <= n => turn[k] \in BfStates(N)}
  <1>6. 0 \in T
    <2> DEFINE none == <<>>
               one == <<Root>>
    <2>1. none \in Seq(1 .. N) /\ one \in Seq(1 .. N)
      BY <1>1 DEF Root
    <2>2. turn[0] = [queue |-> one, order |-> none]
      BY <1>2, <1>5 DEF BfStart
    <2> HIDE DEF none, one
    <2> QED
      BY <2>1, <2>2 DEF BfStates
  <1>7. ASSUME NEW k \in Nat, k \in T PROVE k + 1 \in T
    <2> SUFFICES ASSUME k + 1 <= n PROVE turn[k + 1] \in BfStates(N)
      OBVIOUS
    <2>1. k + 1 \in 0 .. n /\ k + 1 # 0 /\ k + 1 - 1 = k /\ turn[k] \in BfStates(N)
      BY <1>2, <1>7
    <2>2. turn[k + 1] = TurnBf(t, turn[k])
      BY <1>5, <2>1
    <2> QED
      BY <2>1, <2>2, TurnBfIs
  <1> HIDE DEF T
  <1>8. n \in T
    BY <1>2, <1>6, <1>7, NatSetInduction
  <1>9. turn[n] \in BfStates(N)
    BY <1>2, <1>8 DEF T
  <1> QED
    BY <1>3, <1>9 DEF BfStates

Entries == [name : Names \cup {RootName}, extent : Nat, parent : Nat]

Dumping(t, N) == [table : Seq(Entries), t : Sames(t, N)]

\* An entry is written, and its number.
LEMMA WithTableEntryIs ==
    ASSUME NEW t, NEW N, Shape(t, N), NEW s \in Dumping(t, N), NEW c \in 1 .. N
    PROVE  WithTableEntry(s, c) \in Dumping(t, N)
  <1> DEFINE u == s.t
             table == s.table
             up == IF c = Root THEN 1 ELSE u[u[c].parent].pt_id
             entry == [name |-> u[c].name, extent |-> u[c].extent, parent |-> up]
             id == Len(table) + 1
             v == WithNumber(u, c, id)
  <1>1. u \in Sames(t, N) /\ table \in Seq(Entries)
    BY DEF Dumping
  <1>2. WithTableEntry(s, c) = IF u[c].is_dir THEN [table |-> Append(table, entry), t |-> v] ELSE s
    BY DEF WithTableEntry, WithNumber
  <1> HIDE DEF u, table
  <1>3. Shape(u, N)
    BY <1>1, SamesShape
  <1>4. up \in Nat
    <2>1. CASE c = Root
      BY <2>1
    <2>2. CASE c # Root
      <3>1. u[c].parent \in 1 .. N
        BY <1>3, <2>2, NodeIs DEF Root
      <3>2. u[u[c].parent] \in NodeType
        BY <1>3, <3>1, NodeIs
      <3> QED
        BY <2>2, <3>2 DEF NodeType
    <2> QED
      BY <2>1, <2>2
  <1> HIDE DEF up
  <1>5. entry \in Entries
    <2>1. u[c] \in NodeType
      BY <1>3, NodeIs
    <2>2. u[c].name \in Names \cup {RootName} /\ u[c].extent \in Nat
      BY <2>1, Zenon DEF NodeType
    <2> QED
      BY <1>4, <2>2, Zenon DEF Entries
  <1>6. id \in Nat
    BY <1>1, LenProperties
  <1> HIDE DEF id, entry
  <1>7. v \in Sames(t, N)
    BY <1>1, <1>6, WrittenSame
  <1>8. Append(table, entry) \in Seq(Entries)
    BY <1>1, <1>5, AppendProperties
  <1> HIDE DEF v
  <1>9. [table |-> Append(table, entry), t |-> v] \in Dumping(t, N)
    BY <1>7, <1>8 DEF Dumping
  <1> QED
    BY <1>2, <1>9

\* The function that the fold over the directories computes with.
TableIter(iter, base, seq, n) ==
    iter = [s \in SUBSET (1 .. n) |->
              IF s = {} THEN base ELSE WithTableEntry(iter[s \ {Max(s)}], seq[Max(s)])]

TableRun(run, base, seq) ==
    /\ run[0] = base
    /\ \A k \in 1 .. Len(seq) : run[k] = WithTableEntry(run[k - 1], seq[k])
    /\ FoldLeft(WithTableEntry, base, seq) = run[Len(seq)]

\* Entries are written from directory to directory.
LEMMA TableRuns ==
    ASSUME NEW t, NEW N, Shape(t, N), NEW base \in Dumping(t, N), NEW seq \in Seq(1 .. N)
    PROVE  \E run \in [0 .. Len(seq) -> Dumping(t, N)] : TableRun(run, base, seq)
  <1> DEFINE n == Len(seq)
             G == Dumping(t, N)
             step == [k \in 1 .. n |-> [s \in G |-> WithTableEntry(s, seq[k])]]
             iter == CHOOSE f : TableIter(f, base, seq, n)
  <1>1. n \in Nat /\ DOMAIN seq = 1 .. n /\ \A k \in 1 .. n : seq[k] \in 1 .. N
    BY PlacesOfSeq
  <1>2. FoldLeft(WithTableEntry, base, seq) = iter[1 .. n]
    BY <1>1 DEF FoldLeft, MapThenFoldSet, TableIter
  <1>3. \A k \in 1 .. n : \A s \in G : WithTableEntry(s, seq[k]) \in G
    BY <1>1, WithTableEntryIs
  <1>4. step \in [1 .. n -> [G -> G]] /\ \A k \in 1 .. n : \A s \in G : step[k][s] = WithTableEntry(s, seq[k])
    BY <1>3
  <1>start. base \in G /\ n \in Nat
    BY <1>1
  <1> HIDE DEF n, G, step, iter
  <1>5. TableIter(iter, base, seq, n)
    <2>1. PICK f \in [SUBSET (1 .. n) -> G] : Folds(f, base, step, n)
      BY <1>start, <1>4, FoldExists DEF HasFold
    <2>2. ASSUME NEW s \in SUBSET (1 .. n)
          PROVE  f[s] = IF s = {} THEN base ELSE WithTableEntry(f[s \ {Max(s)}], seq[Max(s)])
      <3>1. f[s] = IF s = {} THEN base ELSE step[Max(s)][f[s \ {Max(s)}]]
        BY <2>1 DEF Folds
      <3>2. s # {} => Max(s) \in 1 .. n /\ f[s \ {Max(s)}] \in G
        BY <1>1, <2>1, LastPlace
      <3> QED
        BY <1>4, <3>1, <3>2
    <2>3. f = [s \in SUBSET (1 .. n) |-> f[s]]
      BY <2>1
    <2>4. TableIter(f, base, seq, n)
      BY <2>2, <2>3 DEF TableIter
    <2> QED
      BY <2>4 DEF iter
  <1>6. \A s \in SUBSET (1 .. n) :
           iter[s] = IF s = {} THEN base ELSE WithTableEntry(iter[s \ {Max(s)}], seq[Max(s)])
    BY <1>5 DEF TableIter
  <1>7. iter[{}] = base
    BY <1>6
  <1>8. Stepwise(iter, G, base, step, n)
    BY <1>1, <1>4, <1>6, <1>7, LastPlace DEF Stepwise
  <1>9. PICK run \in [0 .. n -> G] : Steps(run, base, step, n) /\ run[n] = iter[1 .. n]
    BY <1>start, <1>4, <1>8, FoldSteps
  <1>10. ASSUME NEW k \in 1 .. n PROVE run[k] = WithTableEntry(run[k - 1], seq[k])
    <2>1. run[k] = step[k][run[k - 1]]
      BY <1>9 DEF Steps
    <2>2. k - 1 \in 0 .. n
      BY <1>1
    <2>3. run[k - 1] \in G
      BY <1>9, <2>2
    <2> QED
      BY <1>4, <2>1, <2>3
  <1> QED
    BY <1>2, <1>9, <1>10 DEF TableRun, Steps, n, G

\* What is left of the tables: the path tables, and a tree that is the same but for
\* its numbers.
LEMMA PathtablesAre ==
    ASSUME NEW N, Shape(nodes, N), DumpPathtables
    PROVE  nodes' \in Sames(nodes, N) /\ ptl' \in Seq(Entries)
  <1> DEFINE none == <<>>
             base == [table |-> none, t |-> nodes]
             seq == TraverseBf(nodes)
             last == FoldLeft(WithTableEntry, base, seq)
  <1>1. nodes' = last.t /\ ptl' = last.table
    BY DEF DumpPathtables
  <1>2. none \in Seq(Entries) /\ nodes \in Sames(nodes, N)
    BY DEF Shape, Sames, SameNode
  <1> HIDE DEF none
  <1>3. base \in Dumping(nodes, N)
    BY <1>2 DEF Dumping
  <1>4. seq \in Seq(1 .. N)
    BY TraverseBfIs
  <1> HIDE DEF base, seq
  <1>5. PICK run \in [0 .. Len(seq) -> Dumping(nodes, N)] : TableRun(run, base, seq)
    BY <1>3, <1>4, TableRuns
  <1>6. Len(seq) \in 0 .. Len(seq)
    BY <1>4, LenProperties
  <1>7. last \in Dumping(nodes, N)
    BY <1>5, <1>6 DEF TableRun
  <1> HIDE DEF last
  <1> QED
    BY <1>1, <1>7 DEF Dumping

-----------------------------------------------------------------------------
(* The directories that are added: their list stays sorted.                *)

\* The list of the nodes 1 to n is linked.
LEMMA ListOfLinked ==
    ASSUME NEW n \in Nat
    PROVE  Linked(ListOf(n), [k \in 1 .. n |-> k])
  <1> DEFINE q == [k \in 1 .. n |-> k]
             next == [k \in 1 .. n |-> IF k = n THEN NULL ELSE k + 1]
             begin == IF n = 0 THEN NULL ELSE 1
             list == ListOf(n)
  <1>1. q \in [1 .. n -> Nat \ {0}] /\ \A k \in 1 .. n : q[k] = k
    OBVIOUS
  <1>2. next \in [1 .. n -> Nat] /\ \A k \in 1 .. n : next[k] = IF k = n THEN 0 ELSE k + 1
    BY DEF NULL
  <1>3. begin \in Nat /\ (n = 0 => begin = 0) /\ (n > 0 => begin = 1)
    BY DEF NULL
  <1>4. list.length = n /\ list.begin = begin /\ list.end = n /\ list.next = next
        /\ list = [length |-> n, begin |-> begin, end |-> n, next |-> next]
    BY DEF ListOf
  <1> HIDE DEF q, next, begin, list
  <1>5. q \in Seq(Nat \ {0}) /\ Len(q) = n
    <2>1. q \in Seq(Nat \ {0})
      BY <1>1, SeqDef
    <2>2. DOMAIN q = 1 .. n
      BY <1>1
    <2> QED
      BY <2>1, <2>2, LenProperties
  <1>6. next \in Links /\ DOMAIN next = 1 .. n
    <2>1. 1 .. n \subseteq Nat
      OBVIOUS
    <2> QED
      BY <1>2, <2>1, LinksAre
  <1>7. list \in ListType
    BY <1>3, <1>4, <1>6 DEF ListType
  <1>8. Distinct(q)
    BY <1>1, <1>5 DEF Distinct
  <1>9. \A x : x \in DOMAIN list.next <=> \E k \in 1 .. n : x = q[k]
    BY <1>1, <1>4, <1>6
  <1>10. \A k \in 1 .. n - 1 : list.next[q[k]] = q[k + 1]
    BY <1>1, <1>2, <1>4
  <1>11. n > 0 => list.begin = q[1] /\ list.end = q[n] /\ list.next[q[n]] = 0
    BY <1>1, <1>2, <1>3, <1>4
  <1> QED
    BY <1>3, <1>4, <1>5, <1>7, <1>8, <1>9, <1>10, <1>11 DEF Linked, list, q

\* How many of the paths come before the one at k.
RankAmong(paths, k) == Cardinality({j \in DOMAIN paths : Before(paths[j], paths[k])})

\* The rank of a path is a number.
LEMMA RankAmongIs ==
    ASSUME NEW E, NEW paths \in Seq(E), NEW k \in 1 .. Len(paths)
    PROVE  RankAmong(paths, k) \in Int
  <1> DEFINE n == Len(paths)
             s == {j \in DOMAIN paths : Before(paths[j], paths[k])}
  <1>1. n \in Nat /\ DOMAIN paths = 1 .. n
    BY PlacesOfSeq
  <1>2. IsFiniteSet(1 .. n)
    BY <1>1, FS_Interval
  <1>3. s \subseteq 1 .. n
    BY <1>1
  <1> HIDE DEF s
  <1>4. IsFiniteSet(s)
    BY <1>2, <1>3, FS_Subset
  <1>5. Cardinality(s) \in Nat
    BY <1>4, FS_CardinalityType
  <1> QED
    BY <1>5 DEF RankAmong, s

\* A sorted list is the same paths, in another order.
Permutes(order, paths, n) ==
    /\ order \in [1 .. n -> 1 .. n]
    /\ \A m \in 1 .. n : \E k \in 1 .. n : order[k] = m
    /\ \A j, k \in 1 .. n : order[j] = order[k] => j = k
    /\ \A k \in 1 .. n : \A j \in 1 .. k : RankAmong(paths, order[j]) <= RankAmong(paths, order[k])

\* The sorted list has the paths of the list, each in the place of its rank.
LEMMA SortedIs ==
    ASSUME NEW E, NEW paths \in Seq(E)
    PROVE  /\ Sorted(paths) \in Seq(E)
           /\ Len(Sorted(paths)) = Len(paths)
           /\ Len(paths) \in Nat
           /\ \E order : /\ Permutes(order, paths, Len(paths))
                         /\ \A k \in 1 .. Len(paths) : Sorted(paths)[k] = paths[order[k]]
  <1> DEFINE n == Len(paths)
             D == 1 .. n
             rank == [k \in DOMAIN paths |-> RankAmong(paths, k)]
             list == ListOf(n)
             q == [k \in 1 .. n |-> k]
             order == Elements(SortList(list, rank))
             r == Sorted(paths)
  <1>1. n \in Nat /\ DOMAIN paths = D /\ \A k \in D : paths[k] \in E
    BY PlacesOfSeq
  <1>2. r = [k \in DOMAIN paths |-> paths[order[k]]]
    BY DEF Sorted, RankAmong
  <1>3. \A k \in D : rank[k] = RankAmong(paths, k) /\ rank[k] \in Int
    BY <1>1, RankAmongIs
  <1>4. Linked(list, q)
    BY <1>1, ListOfLinked
  <1>5. \A x : x \in DOMAIN list.next <=> x \in D
    BY DEF ListOf
  <1>6. Len(q) = n
    <2>1. q \in Seq(Nat)
      BY <1>1
    <2>2. DOMAIN q = 1 .. n
      OBVIOUS
    <2> HIDE DEF q
    <2> QED
      BY <1>1, <2>1, <2>2, LenProperties
  <1> HIDE DEF list, q, rank, D
  <1>7. \A x \in D : rank[x] \in Int
    BY <1>3
  <1>8. PICK s : Linked(SortList(list, rank), s) /\ SortedOf(s, D, rank, Len(q))
    BY <1>4, <1>5, <1>7, SortListIs
  <1>9. order = s
    BY <1>8, ElementsAre
  <1>10. s \in Seq(Nat \ {0}) /\ Distinct(s) /\ Len(s) = n /\ DOMAIN s = 1 .. n
    <2>1. s \in Seq(Nat \ {0}) /\ Distinct(s)
      BY <1>8 DEF Linked
    <2>2. Len(s) = n
      BY <1>6, <1>8 DEF SortedOf
    <2> QED
      BY <2>1, <2>2, LenProperties
  <1>11. /\ \A x : x \in D <=> \E k \in 1 .. n : x = s[k]
         /\ \A k \in 1 .. n : \A j \in 1 .. k : rank[s[j]] <= rank[s[k]]
    BY <1>6, <1>8 DEF SortedOf
  <1>12. \A k \in 1 .. n : s[k] \in D
    BY <1>11
  <1>13. Permutes(s, paths, n)
    <2>1. s \in [1 .. n -> 1 .. n]
      <3>1. s = [k \in 1 .. n |-> s[k]]
        BY <1>10
      <3> QED
        BY <1>12, <3>1 DEF D
    <2>2. \A m \in 1 .. n : \E k \in 1 .. n : s[k] = m
      BY <1>11 DEF D
    <2>3. \A j, k \in 1 .. n : s[j] = s[k] => j = k
      BY <1>10 DEF Distinct
    <2>4. \A k \in 1 .. n : \A j \in 1 .. k : RankAmong(paths, s[j]) <= RankAmong(paths, s[k])
      <3> SUFFICES ASSUME NEW k \in 1 .. n, NEW j \in 1 .. k
                   PROVE  RankAmong(paths, s[j]) <= RankAmong(paths, s[k])
        OBVIOUS
      <3>1. j \in 1 .. n
        BY <1>1
      <3> QED
        BY <1>3, <1>11, <1>12, <3>1
    <2> QED
      BY <2>1, <2>2, <2>3, <2>4 DEF Permutes
  <1>14. r = [k \in 1 .. n |-> paths[s[k]]]
    BY <1>1, <1>2, <1>9 DEF D
  <1>15. r \in [1 .. n -> E]
    BY <1>1, <1>12, <1>14
  <1>16. r \in Seq(E) /\ Len(r) = n
    <2> HIDE DEF r, n
    <2>1. r \in Seq(E)
      BY <1>1, <1>15, SeqDef
    <2>2. DOMAIN r = 1 .. n
      BY <1>15
    <2> QED
      BY <1>1, <2>1, <2>2, LenProperties
  <1>17. \A k \in 1 .. n : r[k] = paths[s[k]]
    BY <1>14
  <1> QED
    BY <1>1, <1>13, <1>16, <1>17

\* The first names of a path.
LEMMA FirstNames ==
    ASSUME NEW E, NEW q \in Seq(E), NEW m \in 0 .. Len(q)
    PROVE  /\ SubSeq(q, 1, m) \in Seq(E)
           /\ Len(SubSeq(q, 1, m)) = m
           /\ \A k \in 1 .. m : SubSeq(q, 1, m)[k] = q[k]
  <1> DEFINE r == SubSeq(q, 1, m)
  <1>1. Len(q) \in Nat /\ \A k \in 1 .. Len(q) : q[k] \in E
    BY PlacesOfSeq
  <1>2. \A k \in 1 .. m : q[k] \in E
    BY <1>1
  <1>3. m \in Nat
    BY <1>1
  <1>4. r \in Seq(E) /\ Len(r) = IF 1 <= m THEN m - 1 + 1 ELSE 0
    BY <1>2, <1>3, SubSeqProperties
  <1>5. Len(r) = m
    BY <1>3, <1>4
  <1>6. \A k \in 1 .. m - 1 + 1 : r[k] = q[1 + k - 1]
    BY <1>2, <1>3, SubSeqProperties
  <1>7. ASSUME NEW k \in 1 .. m PROVE r[k] = q[k]
    <2>1. k \in 1 .. m - 1 + 1 /\ 1 + k - 1 = k
      BY <1>3
    <2> QED
      BY <1>6, <2>1
  <1> QED
    BY <1>4, <1>5, <1>7

\* What is before the directory above is before the directory; nothing is before itself.
LEMMA BeforeFront ==
    ASSUME NEW p \in NamePaths, NEW q \in NamePaths
    PROVE  ~Before(p, p) /\ Before(Front(p), p) /\ (Before(q, Front(p)) => Before(q, p))
  <1> DEFINE f == Front(p)
             n == Len(p)
             l == n - 1
  <1>1. p \in Seq(Names) /\ p # <<>> /\ q \in Seq(Names)
    BY DEF NamePaths
  <1>2. f \in Seq(Names) /\ n \in Nat \ {0} /\ Len(f) = l /\ l \in Nat /\ \A k \in 1 .. l : f[k] = p[k]
    BY <1>1, FrontAndLast
  <1>3. DOMAIN f = 1 .. l /\ DOMAIN p = 1 .. n /\ Len(q) \in Nat /\ DOMAIN q = 1 .. Len(q)
        /\ \A k \in 1 .. n : p[k] \in Names
    BY <1>1, <1>2, PlacesOfSeq
  <1>4. ~Before(p, p)
    <2>1. \A k \in 1 .. n : Rank(p[k]) \in Nat
      BY <1>3, RankIs
    <2>2. ~IsStrictPrefix(p, p)
      BY DEF IsStrictPrefix
    <2> QED
      BY <1>3, <2>1, <2>2 DEF Before
  <1>5. l <= n /\ l # n /\ l \in 0 .. l /\ \A m \in 0 .. l : m \in 0 .. n
    BY <1>2
  <1> HIDE DEF f, l
  <1>6. ASSUME NEW m \in 0 .. l PROVE SubSeq(f, 1, m) = SubSeq(p, 1, m)
    <2> DEFINE a == SubSeq(f, 1, m)
               b == SubSeq(p, 1, m)
    <2>1. m \in 0 .. Len(f) /\ m \in 0 .. Len(p) /\ \A k \in 1 .. m : k \in 1 .. l
      BY <1>2, <1>5
    <2>2. a \in Seq(Names) /\ Len(a) = m /\ \A k \in 1 .. m : a[k] = f[k]
      BY <1>2, <2>1, FirstNames
    <2>3. b \in Seq(Names) /\ Len(b) = m /\ \A k \in 1 .. m : b[k] = p[k]
      BY <1>1, <2>1, FirstNames
    <2>4. \A k \in 1 .. m : a[k] = b[k]
      BY <1>2, <2>1, <2>2, <2>3
    <2> HIDE DEF a, b
    <2>5. a = b
      BY <2>2, <2>3, <2>4, SeqEqual
    <2> QED
      BY <2>5 DEF a, b
  <1>7. f # p
    BY <1>2, <1>5 DEF n
  <1>8. IsStrictPrefix(f, p)
    <2>1. SubSeq(f, 1, l) = SubSeq(p, 1, l)
      BY <1>5, <1>6
    <2> QED
      BY <1>2, <1>5, <1>7, <2>1 DEF IsStrictPrefix, IsPrefix, n
  <1>9. ASSUME Before(q, f) PROVE Before(q, p)
    <2>1. CASE IsStrictPrefix(q, f)
      <3> DEFINE m == Len(q)
      <3>1. m \in 0 .. l /\ SubSeq(q, 1, m) = SubSeq(f, 1, m)
        BY <1>2, <1>3, <2>1 DEF IsStrictPrefix, IsPrefix
      <3>2. SubSeq(q, 1, m) = SubSeq(p, 1, m)
        BY <1>6, <3>1
      <3>3. m <= n /\ m # n
        BY <1>2, <1>5, <3>1 DEF l
      <3>4. q # p
        BY <3>3 DEF n
      <3>5. IsStrictPrefix(q, p)
        BY <3>2, <3>3, <3>4 DEF IsStrictPrefix, IsPrefix, n
      <3> QED
        BY <3>5 DEF Before
    <2>2. CASE ~IsStrictPrefix(q, f)
      <3>1. PICK k \in DOMAIN q \cap DOMAIN f :
               SubSeq(q, 1, k - 1) = SubSeq(f, 1, k - 1) /\ Rank(q[k]) < Rank(f[k])
        BY <1>9, <2>2 DEF Before
      <3>2. k \in 1 .. l /\ k - 1 \in 0 .. l /\ k \in DOMAIN q \cap DOMAIN p
        <4>1. k \in 1 .. l /\ k \in DOMAIN q
          BY <1>3, <3>1
        <4>2. k \in 1 .. n /\ k - 1 \in 0 .. l
          BY <1>2, <4>1 DEF l
        <4> QED
          BY <1>3, <4>1, <4>2
      <3>3. SubSeq(f, 1, k - 1) = SubSeq(p, 1, k - 1) /\ f[k] = p[k]
        BY <1>2, <1>6, <3>2
      <3> QED
        BY <3>1, <3>2, <3>3 DEF Before
    <2> QED
      BY <2>1, <2>2
  <1>10. Before(f, p)
    BY <1>8 DEF Before
  <1> QED
    BY <1>4, <1>9, <1>10 DEF f

\* A directory comes behind the one it is in.
AboveFirst(paths) ==
    \A j, k \in 1 .. Len(paths) : Front(paths[k]) = paths[j] => j < k

\* In the sorted list a directory comes before what is in it.
LEMMA SortedAboveFirst ==
    ASSUME NEW paths \in Seq(NamePaths)
    PROVE  AboveFirst(Sorted(paths))
  <1> DEFINE n == Len(paths)
             r == Sorted(paths)
  <1>1. n \in Nat /\ Len(r) = n /\ DOMAIN paths = 1 .. n /\ \A k \in 1 .. n : paths[k] \in NamePaths
    BY SortedIs, PlacesOfSeq
  <1>2. PICK order : Permutes(order, paths, n) /\ \A k \in 1 .. n : r[k] = paths[order[k]]
    BY SortedIs
  <1> HIDE DEF r, n
  <1>3. \A k \in 1 .. n : order[k] \in 1 .. n
    BY <1>2 DEF Permutes
  <1>4. ASSUME NEW x \in 1 .. n, NEW y \in 1 .. n, Front(paths[x]) = paths[y]
        PROVE  RankAmong(paths, y) < RankAmong(paths, x)
    <2> DEFINE a == {j \in DOMAIN paths : Before(paths[j], paths[y])}
               b == {j \in DOMAIN paths : Before(paths[j], paths[x])}
    <2>1. \A j \in 1 .. n : Before(paths[j], paths[y]) => Before(paths[j], paths[x])
      BY <1>1, <1>4, BeforeFront
    <2>2. Before(paths[y], paths[x]) /\ ~Before(paths[y], paths[y])
      BY <1>1, <1>4, BeforeFront
    <2>3. a \subseteq b /\ y \in b /\ y \notin a /\ b \subseteq 1 .. n
      BY <1>1, <2>1, <2>2
    <2> HIDE DEF a, b
    <2>4. IsFiniteSet(1 .. n)
      BY <1>1, FS_Interval
    <2>5. IsFiniteSet(b)
      BY <2>3, <2>4, FS_Subset
    <2>6. IsFiniteSet(a) /\ Cardinality(a) <= Cardinality(b) /\ (Cardinality(a) = Cardinality(b) => a = b)
      BY <2>3, <2>5, FS_Subset
    <2>7. Cardinality(a) \in Nat /\ Cardinality(b) \in Nat
      BY <2>5, <2>6, FS_CardinalityType
    <2>8. Cardinality(a) < Cardinality(b)
      BY <2>3, <2>6, <2>7
    <2> QED
      BY <2>8 DEF RankAmong, a, b
  <1>5. ASSUME NEW j \in 1 .. n, NEW k \in 1 .. n, Front(r[k]) = r[j]
        PROVE  j < k
    <2>1. RankAmong(paths, order[j]) < RankAmong(paths, order[k])
      BY <1>2, <1>3, <1>4, <1>5
    <2>2. CASE k <= j
      <3>1. k \in 1 .. j
        BY <2>2
      <3>2. RankAmong(paths, order[k]) <= RankAmong(paths, order[j])
        BY <1>2, <3>1 DEF Permutes
      <3>3. RankAmong(paths, order[k]) \in Int /\ RankAmong(paths, order[j]) \in Int
        BY <1>1, <1>3, RankAmongIs DEF n
      <3> QED
        BY <2>1, <3>2, <3>3
    <2>3. CASE j < k
      BY <2>3
    <2> QED
      BY <1>1, <2>2, <2>3
  <1> QED
    BY <1>1, <1>5 DEF AboveFirst, r

-----------------------------------------------------------------------------
(* What is fixed by the type of disc.                                      *)

\* Two sequences, one behind the other.
LEMMA ConcatIs ==
    ASSUME NEW S, NEW a \in Seq(S), NEW b \in Seq(S)
    PROVE  /\ a \o b \in Seq(S)
           /\ Len(a) \in Nat /\ Len(b) \in Nat
           /\ Len(a \o b) = Len(a) + Len(b)
           /\ \A k \in 1 .. Len(a) : (a \o b)[k] = a[k]
           /\ \A k \in 1 .. Len(b) : (a \o b)[Len(a) + k] = b[k]
           /\ ToSet(a \o b) = ToSet(a) \cup ToSet(b)
  <1> DEFINE m == Len(a)
             n == Len(b)
             c == a \o b
  <1>1. /\ m \in Nat /\ n \in Nat /\ DOMAIN a = 1 .. m /\ DOMAIN b = 1 .. n
        /\ c \in Seq(S) /\ Len(c) = m + n /\ DOMAIN c = 1 .. m + n
        /\ \A k \in 1 .. m + n : c[k] = IF k <= m THEN a[k] ELSE b[k - m]
    <2>1. m \in Nat /\ n \in Nat /\ DOMAIN a = 1 .. m /\ DOMAIN b = 1 .. n
      BY PlacesOfSeq
    <2>2. c \in Seq(S) /\ Len(c) = m + n /\ \A k \in 1 .. m + n : c[k] = IF k <= m THEN a[k] ELSE b[k - m]
      BY ConcatProperties
    <2> HIDE DEF c
    <2>3. DOMAIN c = 1 .. m + n
      BY <2>2, LenProperties
    <2> QED
      BY <2>1, <2>2, <2>3
  <1> HIDE DEF m, n, c
  <1>2. \A k \in 1 .. m : k \in 1 .. m + n /\ c[k] = a[k]
    BY <1>1
  <1>3. ASSUME NEW k \in 1 .. n PROVE m + k \in 1 .. m + n /\ c[m + k] = b[k]
    <2>1. m + k \in 1 .. m + n /\ ~(m + k <= m) /\ m + k - m = k
      BY <1>1
    <2> QED
      BY <1>1, <2>1
  <1>4. ToSet(c) = ToSet(a) \cup ToSet(b)
    <2>1. ASSUME NEW x \in ToSet(c) PROVE x \in ToSet(a) \cup ToSet(b)
      <3>1. PICK k \in 1 .. m + n : x = c[k]
        BY <1>1 DEF ToSet
      <3>2. CASE k <= m
        <4>1. k \in 1 .. m /\ x = a[k]
          BY <1>1, <3>1, <3>2
        <4> QED
          BY <1>1, <4>1 DEF ToSet
      <3>3. CASE ~(k <= m)
        <4>1. k - m \in 1 .. n /\ x = b[k - m]
          BY <1>1, <3>1, <3>3
        <4> QED
          BY <1>1, <4>1 DEF ToSet
      <3> QED
        BY <3>2, <3>3
    <2>2. ASSUME NEW x \in ToSet(a) PROVE x \in ToSet(c)
      <3>1. PICK k \in 1 .. m : x = a[k]
        BY <1>1 DEF ToSet
      <3> QED
        BY <1>1, <1>2, <3>1 DEF ToSet
    <2>3. ASSUME NEW x \in ToSet(b) PROVE x \in ToSet(c)
      <3>1. PICK k \in 1 .. n : x = b[k]
        BY <1>1 DEF ToSet
      <3> QED
        BY <1>1, <1>3, <3>1 DEF ToSet
    <2> QED
      BY <2>1, <2>2, <2>3
  <1> QED
    BY <1>1, <1>2, <1>3, <1>4 DEF m, n, c

\* What is in a directory.
PairsIn(dir) == {<<dir, name>> : name \in Names}

\* The files of a directory have paths of two names.
LEMMA InIs ==
    ASSUME NEW dir \in Names, NEW names \in Seq(Names)
    PROVE  In(dir, names) \in Seq(PairsIn(dir))
  <1>1. Len(names) \in Nat /\ DOMAIN names = 1 .. Len(names) /\ \A k \in 1 .. Len(names) : names[k] \in Names
    BY PlacesOfSeq
  <1>2. In(dir, names) \in [1 .. Len(names) -> PairsIn(dir)]
    BY <1>1 DEF In, PairsIn
  <1> QED
    BY <1>1, <1>2, SeqDef

Singles(d) == {name \in Names : <<name>> \in ToSet(TypeDirs(d))}

\* The paths in the fixed directories.
PairsOf(d) == UNION {PairsIn(name) : name \in Singles(d)}

\* Such paths are in a directory of the type.
LEMMA PairsArePaths ==
    ASSUME NEW d
    PROVE  /\ PairsOf(d) \subseteq NamePaths
           /\ \A name \in Singles(d) : PairsIn(name) \subseteq PairsOf(d)
           /\ \A path \in PairsOf(d) : Len(path) = 2 /\ <<path[1]>> \in ToSet(TypeDirs(d)) /\ path[1] \in Names
  <1>1. \A a, b \in Names : <<a, b>> \in NamePaths
    BY DEF NamePaths
  <1>2. ASSUME NEW path \in PairsOf(d)
        PROVE  path \in NamePaths /\ Len(path) = 2 /\ <<path[1]>> \in ToSet(TypeDirs(d)) /\ path[1] \in Names
    <2>1. PICK a \in Singles(d) : path \in PairsIn(a)
      BY DEF PairsOf
    <2>2. PICK b \in Names : path = <<a, b>>
      BY <2>1 DEF PairsIn
    <2>3. a \in Names /\ <<a>> \in ToSet(TypeDirs(d))
      BY DEF Singles
    <2> QED
      BY <1>1, <2>2, <2>3
  <1>3. \A name \in Singles(d) : PairsIn(name) \subseteq PairsOf(d)
    BY DEF PairsOf
  <1> QED
    BY <1>2, <1>3

\* The names that are used have their place in the order.
LEMMA NamesUsed ==
    /\ {"ENTRIES", "EXT", "INFO", "LOT", "LOT_X", "MPEG2", "MPEGAV", "PSD", "PSD_X", "SCANDATA",
        "SEARCH", "SEGMENT", "SVCD", "TRACKS", "VCD"} \subseteq Names
    /\ SegmentNames \in Seq(Names) /\ SequenceNames \in Seq(Names)
    /\ CustomDirs \cup CustomFiles \subseteq NamePaths
  BY PathsAssumption DEF Names, NamePaths

\* The directories of a type, and the names of its information files.
LEMMA TypeDirsAre ==
    ASSUME NEW d \in Discs
    PROVE  /\ TypeDirs(d) \in Seq(NamePaths)
           /\ InfoDir(d) \in Singles(d) /\ MpegDir(d) \in Singles(d) /\ "EXT" \in Singles(d)
           /\ d.segments > 0 => "SEGMENT" \in Singles(d)
  <1> DEFINE one(name) == <<<<name>>>>
             P == NamePaths
             segment == When(d.segments > 0, one("SEGMENT"))
  <1>1. "EXT" \in Names /\ "SEGMENT" \in Names /\ "SVCD" \in Names /\ "VCD" \in Names
        /\ "MPEG2" \in Names /\ "MPEGAV" \in Names
    BY NamesUsed
  <1>2. MpegDir(d) \in Names /\ InfoDir(d) \in Names
    BY <1>1 DEF MpegDir, InfoDir
  <1>3. \A a \in Names : one(a) \in Seq(P) /\ ToSet(one(a)) = {<<a>>}
    <2> SUFFICES ASSUME NEW a \in Names PROVE one(a) \in Seq(P) /\ ToSet(one(a)) = {<<a>>}
      OBVIOUS
    <2>1. <<a>> \in P
      BY DEF NamePaths
    <2> HIDE DEF P
    <2>2. one(a) \in Seq(P)
      BY <2>1
    <2> QED
      BY <2>2 DEF ToSet
  <1>4. \A a, b \in Names : <<<<a>>, <<b>>>> \in Seq(P) /\ ToSet(<<<<a>>, <<b>>>>) = {<<a>>, <<b>>}
    <2> SUFFICES ASSUME NEW a \in Names, NEW b \in Names
                 PROVE  <<<<a>>, <<b>>>> \in Seq(P) /\ ToSet(<<<<a>>, <<b>>>>) = {<<a>>, <<b>>}
      OBVIOUS
    <2>1. <<a>> \in P /\ <<b>> \in P
      BY DEF NamePaths
    <2> HIDE DEF P
    <2> DEFINE x == <<a>>
               y == <<b>>
    <2> HIDE DEF x, y
    <2>2. <<x, y>> \in Seq(P) /\ ToSet(<<x, y>>) = {x, y}
      BY <2>1 DEF ToSet, x, y
    <2> QED
      BY <2>2 DEF x, y
  <1>triple. \A a, b, c \in Names : /\ <<<<a>>, <<b>>, <<c>>>> \in Seq(P)
                                    /\ ToSet(<<<<a>>, <<b>>, <<c>>>>) = {<<a>>, <<b>>, <<c>>}
    <2> SUFFICES ASSUME NEW a \in Names, NEW b \in Names, NEW c \in Names
                 PROVE  /\ <<<<a>>, <<b>>, <<c>>>> \in Seq(P)
                        /\ ToSet(<<<<a>>, <<b>>, <<c>>>>) = {<<a>>, <<b>>, <<c>>}
      OBVIOUS
    <2>1. <<a>> \in P /\ <<b>> \in P /\ <<c>> \in P
      BY DEF NamePaths
    <2> HIDE DEF P
    <2> DEFINE x == <<a>>
               y == <<b>>
               z == <<c>>
    <2> HIDE DEF x, y, z
    <2>2. <<x, y, z>> \in Seq(P) /\ ToSet(<<x, y, z>>) = {x, y, z}
      BY <2>1 DEF ToSet, x, y, z
    <2> QED
      BY <2>2 DEF x, y, z
  <1>5. segment \in Seq(P) /\ (d.segments > 0 => ToSet(segment) = {<<"SEGMENT">>})
    <2>1. <<>> \in Seq(P)
      OBVIOUS
    <2> QED
      BY <1>1, <1>3, <2>1 DEF When
  <1> HIDE DEF one, P, segment
  <1>6. CASE Svcd(d)
    <2> DEFINE a == <<<<"EXT">>, <<MpegDir(d)>>>>
               b == <<<<"SVCD">>>>
               ab == a \o segment
    <2>1. TypeDirs(d) = ab \o b
      BY <1>6 DEF TypeDirs, segment, one
    <2>2. a \in Seq(P) /\ ToSet(a) = {<<"EXT">>, <<MpegDir(d)>>}
      BY <1>1, <1>2, <1>4
    <2>3. b \in Seq(P) /\ ToSet(b) = {<<"SVCD">>}
      BY <1>1, <1>3 DEF one
    <2> HIDE DEF a, b, ab
    <2>4. ab \in Seq(P) /\ ToSet(ab) = ToSet(a) \cup ToSet(segment)
      BY <1>5, <2>2, ConcatIs DEF ab
    <2>5. TypeDirs(d) \in Seq(P) /\ ToSet(TypeDirs(d)) = ToSet(ab) \cup ToSet(b)
      BY <2>1, <2>3, <2>4, ConcatIs
    <2>6. InfoDir(d) = "SVCD"
      BY <1>6 DEF InfoDir
    <2> QED
      BY <1>1, <1>2, <1>5, <2>2, <2>3, <2>4, <2>5, <2>6 DEF Singles, P
  <1>7. CASE ~Svcd(d)
    <2> DEFINE a == <<<<"EXT">>, <<"MPEGAV">>, <<"VCD">>>>
    <2>1. TypeDirs(d) = a \o segment
      BY <1>7 DEF TypeDirs, segment, one
    <2>2. a \in Seq(P) /\ ToSet(a) = {<<"EXT">>, <<"MPEGAV">>, <<"VCD">>}
      BY <1>1, <1>triple
    <2> HIDE DEF a
    <2>5. TypeDirs(d) \in Seq(P) /\ ToSet(TypeDirs(d)) = ToSet(a) \cup ToSet(segment)
      BY <1>5, <2>1, <2>2, ConcatIs
    <2>6. InfoDir(d) = "VCD" /\ MpegDir(d) = "MPEGAV"
      BY <1>7 DEF InfoDir, MpegDir, Svcd
    <2> QED
      BY <1>1, <1>5, <2>2, <2>5, <2>6 DEF Singles, P
  <1> QED
    BY <1>6, <1>7

FixedFiles(d) == TypeFiles(d) \o SegmentFiles(d) \o ExtFiles(d)

\* A fixed file is in one of these directories.
LEMMA FixedFilesAre ==
    ASSUME NEW d \in Discs
    PROVE  /\ FixedFiles(d) \in Seq(PairsOf(d))
           /\ SequenceFiles(d) \in Seq(NamePaths)
           /\ ToSet(Fixed(d)) = ToSet(TypeDirs(d)) \cup ToSet(FixedFiles(d))
  <1> DEFINE P == PairsOf(d)
             N == Names
             none == <<>>
  <1>1. /\ TypeDirs(d) \in Seq(NamePaths)
        /\ InfoDir(d) \in Singles(d) /\ MpegDir(d) \in Singles(d) /\ "EXT" \in Singles(d)
        /\ d.segments > 0 => "SEGMENT" \in Singles(d)
    BY TypeDirsAre
  <1>2. Singles(d) \subseteq N
    BY DEF Singles
  <1>3. none \in Seq(N)
    OBVIOUS
  <1>4. "EXT" \in N /\ "SEGMENT" \in N /\ "ENTRIES" \in N /\ "INFO" \in N /\ "LOT" \in N /\ "PSD" \in N
        /\ "SEARCH" \in N /\ "TRACKS" \in N /\ "PSD_X" \in N /\ "LOT_X" \in N /\ "SCANDATA" \in N
    BY NamesUsed
  <1> HIDE DEF N, none
  <1>5. \A a, b \in N : <<a, b>> \in Seq(N) /\ <<a>> \in Seq(N)
    OBVIOUS
  <1>6. ASSUME NEW dir \in Singles(d), NEW names \in Seq(N) PROVE In(dir, names) \in Seq(P)
    <2>1. In(dir, names) \in Seq(PairsIn(dir))
      BY <1>2, InIs DEF N
    <2>2. PairsIn(dir) \subseteq P
      BY PairsArePaths
    <2> QED
      BY <2>1, <2>2, SeqMonotonic
  <1> DEFINE info == <<"ENTRIES", "INFO">>
             lot == When(d.pbc, <<"LOT", "PSD">>)
             search == When(Svcd(d), <<"SEARCH", "TRACKS">>)
             psdx == When(d.type = "vcd2" /\ d.pbc, <<"PSD_X", "LOT_X">>)
             scan == When(Svcd(d), <<"SCANDATA">>)
  <1>7. info \in Seq(N) /\ lot \in Seq(N) /\ search \in Seq(N) /\ psdx \in Seq(N) /\ scan \in Seq(N)
    BY <1>3, <1>4, <1>5 DEF When, none
  <1>8. TypeFiles(d) = In(InfoDir(d), info \o lot \o search) /\ ExtFiles(d) = In("EXT", psdx \o scan)
    BY DEF TypeFiles, ExtFiles
  <1> HIDE DEF info, lot, search, psdx, scan
  <1>9. TypeFiles(d) \in Seq(P)
    <2>1. info \o lot \in Seq(N)
      BY <1>7, ConcatProperties
    <2> DEFINE il == info \o lot
    <2> HIDE DEF il
    <2>2. il \in Seq(N)
      BY <2>1 DEF il
    <2>3. il \o search \in Seq(N)
      BY <1>7, <2>2, ConcatProperties
    <2>4. In(InfoDir(d), il \o search) \in Seq(P)
      BY <1>1, <1>6, <2>3
    <2> QED
      BY <1>8, <2>4 DEF il
  <1>10. ExtFiles(d) \in Seq(P)
    <2>1. psdx \o scan \in Seq(N)
      BY <1>7, ConcatProperties
    <2> QED
      BY <1>1, <1>6, <1>8, <2>1
  <1>11. d.segments \in 0 .. Len(SegmentNames) /\ d.sequences \in 0 .. Len(SequenceNames)
         /\ SegmentNames \in Seq(N) /\ SequenceNames \in Seq(N)
    BY DiscsAssumption, NamesUsed DEF N
  <1>12. SubSeq(SegmentNames, 1, d.segments) \in Seq(N) /\ Len(SubSeq(SegmentNames, 1, d.segments)) = d.segments
    BY <1>11, FirstNames
  <1>13. SubSeq(SequenceNames, 1, d.sequences) \in Seq(N)
    BY <1>11, FirstNames
  <1>14. SegmentFiles(d) \in Seq(P)
    <2>1. CASE d.segments > 0
      BY <1>1, <1>6, <1>12, <2>1 DEF SegmentFiles
    <2>2. CASE ~(d.segments > 0)
      <3>1. Len(SubSeq(SegmentNames, 1, d.segments)) = 0
        BY <1>11, <1>12, <2>2
      <3>2. SubSeq(SegmentNames, 1, d.segments) = <<>>
        BY <1>12, <3>1, EmptySeq
      <3> DEFINE names == SubSeq(SegmentNames, 1, d.segments)
                 files == In("SEGMENT", names)
      <3>5. files \in Seq(PairsIn("SEGMENT")) /\ DOMAIN files = DOMAIN names
        BY <1>4, <1>12, InIs DEF In, N
      <3>6. DOMAIN names = 1 .. 0
        BY <1>12, <3>1, LenProperties
      <3> HIDE DEF files
      <3>7. Len(files) = 0
        <4> DEFINE Q == PairsIn("SEGMENT")
        <4>1. files \in Seq(Q)
          BY <3>5
        <4> HIDE DEF Q
        <4>2. Len(files) \in Nat /\ DOMAIN files = 1 .. Len(files)
          BY <4>1, LenProperties
        <4>3. 1 .. Len(files) = 1 .. 0
          BY <3>5, <3>6, <4>2
        <4> QED
          BY <4>2, <4>3
      <3>3. SegmentFiles(d) = <<>>
        BY <3>5, <3>7, EmptySeq DEF SegmentFiles, files
      <3>4. <<>> \in Seq(P)
        OBVIOUS
      <3> QED
        BY <3>3, <3>4
    <2> QED
      BY <2>1, <2>2
  <1>15. SequenceFiles(d) \in Seq(NamePaths)
    <2>1. SequenceFiles(d) \in Seq(P)
      BY <1>1, <1>6, <1>13 DEF SequenceFiles
    <2>2. P \subseteq NamePaths
      BY PairsArePaths
    <2> QED
      BY <2>1, <2>2, SeqMonotonic
  <1> DEFINE a == TypeDirs(d)
             b == TypeFiles(d)
             c == SegmentFiles(d)
             e == ExtFiles(d)
  <1>16. Fixed(d) = a \o b \o c \o e /\ FixedFiles(d) = b \o c \o e
    BY DEF Fixed, FixedFiles
  <1> DEFINE S == NamePaths
  <1>17. P \subseteq S
    BY PairsArePaths
  <1> HIDE DEF P, S
  <1>18. a \in Seq(S) /\ b \in Seq(P) /\ c \in Seq(P) /\ e \in Seq(P)
         /\ b \in Seq(S) /\ c \in Seq(S) /\ e \in Seq(S)
    BY <1>1, <1>9, <1>10, <1>14, <1>17, SeqMonotonic DEF S
  <1> HIDE DEF a, b, c, e
  <1> DEFINE ab == a \o b
             abc == ab \o c
             bc == b \o c
  <1>19. ab \in Seq(S) /\ ToSet(ab) = ToSet(a) \cup ToSet(b)
    BY <1>18, ConcatIs
  <1>20. bc \in Seq(P) /\ ToSet(bc) = ToSet(b) \cup ToSet(c)
    BY <1>18, ConcatIs
  <1> HIDE DEF ab, bc
  <1>21. abc \in Seq(S) /\ ToSet(abc) = ToSet(ab) \cup ToSet(c)
    BY <1>18, <1>19, ConcatIs
  <1> HIDE DEF abc
  <1>22. ToSet(abc \o e) = ToSet(abc) \cup ToSet(e)
    BY <1>18, <1>21, ConcatIs
  <1>23. bc \o e \in Seq(P) /\ ToSet(bc \o e) = ToSet(bc) \cup ToSet(e)
    BY <1>18, <1>20, ConcatIs
  <1>24. Fixed(d) = abc \o e /\ FixedFiles(d) = bc \o e
    BY <1>16 DEF abc, ab, bc
  <1>25. ToSet(Fixed(d)) = ToSet(TypeDirs(d)) \cup ToSet(FixedFiles(d))
    BY <1>19, <1>20, <1>21, <1>22, <1>23, <1>24 DEF a
  <1> QED
    BY <1>15, <1>23, <1>24, <1>25 DEF P

-----------------------------------------------------------------------------
(* Which paths a tree has.                                                 *)

\* A node has one path.
LEMMA LookupApart ==
    ASSUME NEW t, NEW N, Shape(t, N)
    PROVE  \A a, b \in Seq(Names) : Lookup(t, a) # 0 /\ Lookup(t, b) = Lookup(t, a) => a = b
  <1> DEFINE E == Names
             none == <<>>
  <1>0. none \in Seq(E) /\ Len(none) = 0 /\ \A q \in Seq(E) : Len(q) = 0 => q = none
    BY EmptySeq
  <1>1. Lookup(t, none) = 1 /\ N \in Nat \ {0}
    BY LookupRoot DEF Shape
  <1> HIDE DEF E
  <1>2. ASSUME NEW q \in Seq(E), q # none, Lookup(t, q) # 0
        PROVE  /\ Lookup(t, Front(q)) # 0 /\ Lookup(t, q) # 1
               /\ t[Lookup(t, q)].parent = Lookup(t, Front(q))
               /\ t[Lookup(t, q)].name = Last(q)
               /\ Front(q) \in Seq(E) /\ Len(Front(q)) = Len(q) - 1 /\ q = Append(Front(q), Last(q))
    <2> DEFINE n == Lookup(t, Front(q))
               a == Last(q)
               x == Lookup(t, q)
    <2>1. n \in 0 .. N /\ x = LookupChild(t, n, a)
      BY <1>2, LookupLast
    <2> HIDE DEF n, a, x
    <2>2. LookupChild(t, n, a) # 0 =>
             /\ n # 0
             /\ LookupChild(t, n, a) \in 2 .. N
             /\ t[LookupChild(t, n, a)].parent = n
             /\ t[LookupChild(t, n, a)].name = a
      BY <2>1, LookupChildIs
    <2>3. n # 0 /\ x \in 2 .. N /\ t[x].parent = n /\ t[x].name = a
      BY <1>2, <2>1, <2>2 DEF x
    <2>4. Front(q) \in Seq(E) /\ Len(Front(q)) = Len(q) - 1 /\ q = Append(Front(q), Last(q))
      BY <1>2, FrontAndLast
    <2> QED
      BY <2>3, <2>4 DEF n, a, x
  <1> DEFINE Same(a) == \A b \in Seq(E) : Lookup(t, a) # 0 /\ Lookup(t, b) = Lookup(t, a) => a = b
             S == {k \in Nat : \A a \in Seq(E) : Len(a) = k => Same(a)}
  <1> HIDE DEF none
  <1>3. 0 \in S
    <2> SUFFICES ASSUME NEW a \in Seq(E), Len(a) = 0, NEW b \in Seq(E), Lookup(t, b) = Lookup(t, a)
                 PROVE  a = b
      OBVIOUS
    <2>1. a = none /\ Lookup(t, b) = 1
      BY <1>0, <1>1
    <2> QED
      BY <1>2, <2>1
  <1>4. ASSUME NEW k \in Nat, k \in S PROVE k + 1 \in S
    <2> SUFFICES ASSUME NEW a \in Seq(E), Len(a) = k + 1, NEW b \in Seq(E),
                        Lookup(t, a) # 0, Lookup(t, b) = Lookup(t, a)
                 PROVE  a = b
      OBVIOUS
    <2>1. a # none
      BY <1>0
    <2>2. b # none
      BY <1>1, <1>2, <2>1
    <2>3. /\ Lookup(t, Front(a)) # 0 /\ Lookup(t, Front(b)) = Lookup(t, Front(a)) /\ Last(a) = Last(b)
          /\ Front(a) \in Seq(E) /\ Front(b) \in Seq(E) /\ Len(Front(a)) = k
          /\ a = Append(Front(a), Last(a)) /\ b = Append(Front(b), Last(b))
      <3>1. /\ Lookup(t, Front(a)) # 0
            /\ t[Lookup(t, a)].parent = Lookup(t, Front(a))
            /\ t[Lookup(t, a)].name = Last(a)
            /\ Front(a) \in Seq(E) /\ Len(Front(a)) = Len(a) - 1 /\ a = Append(Front(a), Last(a))
        BY <1>2, <2>1
      <3>2. /\ t[Lookup(t, b)].parent = Lookup(t, Front(b))
            /\ t[Lookup(t, b)].name = Last(b)
            /\ Front(b) \in Seq(E) /\ b = Append(Front(b), Last(b))
        BY <1>2, <2>2
      <3> QED
        BY <3>1, <3>2
    <2>4. Same(Front(a))
      BY <1>4, <2>3
    <2>5. Front(a) = Front(b)
      BY <2>3, <2>4
    <2> QED
      BY <2>3, <2>5
  <1> HIDE DEF S, Same
  <1>5. \A k \in Nat : k \in S
    BY <1>3, <1>4, NatSetInduction
  <1>6. \A a \in Seq(E) : Same(a)
    BY <1>5, LenProperties DEF S
  <1> QED
    BY <1>6 DEF Same, E

\* The paths of a tree are those of a set, and the root's.
Has(t, P) == \A path \in Seq(Names) : Lookup(t, path) # 0 <=> path = <<>> \/ path \in P

\* A set of paths lead to directories.
DirsAt(t, D) ==
    \A path \in D : path \in Seq(Names) /\ Lookup(t, path) # 0 /\ t[Lookup(t, path)].is_dir = TRUE

\* A set of one path more.
With(Q, P, path) == \A x : x \in Q <=> x \in P \/ x = path

\* One more, if it is a directory.
WithDir(Q, D, path, is_dir) == \A x \in Q : x \in D \/ (x = path /\ is_dir = TRUE)

\* A tree that has grown has the path of the new node more.
LEMMA GrownHas ==
    ASSUME NEW t, NEW N, Shape(t, N), NEW p \in NamePaths, Lookup(t, Front(p)) \in 1 .. N,
           NEW is_dir, NEW u, Grown(u, t, N, Lookup(t, Front(p)), is_dir, Last(p)),
           NEW P, Has(t, P), NEW Q, With(Q, P, p)
    PROVE  Has(u, Q)
  <1> DEFINE n == Lookup(t, Front(p))
             name == Last(p)
             E == Names
  <1>1. p \in Seq(E) /\ p # <<>> /\ Front(p) \in Seq(E) /\ p = Append(Front(p), name)
    BY FrontAndLast DEF NamePaths
  <1>2. n \in 1 .. N /\ n # 0 /\ Grown(u, t, N, n, is_dir, name)
    BY DEF Shape
  <1> HIDE DEF n, name, E
  <1>3. \A path \in Seq(E) :
           /\ Lookup(t, path) # 0 => Lookup(u, path) = Lookup(t, path)
           /\ Lookup(t, path) = 0 => (Lookup(u, path) # 0 <=>
                 path # <<>> /\ Lookup(t, Front(path)) = n /\ Last(path) = name)
    BY <1>2, GrownLookup
  <1>4. ASSUME NEW path \in Seq(E), path # <<>>, Lookup(t, Front(path)) = n, Last(path) = name
        PROVE  path = p
    <2>1. Front(path) \in Seq(E) /\ path = Append(Front(path), Last(path))
      BY <1>4, FrontAndLast
    <2>2. Front(path) = Front(p)
      BY <1>1, <1>2, <1>4, <2>1, LookupApart DEF n, E
    <2> QED
      BY <1>1, <1>4, <2>1, <2>2
  <1>5. ASSUME NEW path \in Seq(E)
        PROVE  Lookup(u, path) # 0 <=> path = <<>> \/ path \in Q
    <2>1. Lookup(t, path) # 0 <=> path = <<>> \/ path \in P
      BY DEF Has, E
    <2>2. path \in Q <=> path \in P \/ path = p
      BY DEF With
    <2>3. Lookup(t, Front(p)) = n /\ Last(p) = name
      BY DEF n, name
    <2>4. CASE Lookup(t, path) # 0
      BY <1>3, <2>1, <2>2, <2>4
    <2>5. CASE Lookup(t, path) = 0
      <3>1. Lookup(u, path) # 0 <=> path # <<>> /\ Lookup(t, Front(path)) = n /\ Last(path) = name
        BY <1>3, <2>5
      <3>2. Lookup(u, path) # 0 <=> path = p
        BY <1>1, <1>4, <2>3, <3>1
      <3> QED
        BY <2>1, <2>2, <2>5, <3>2
    <2> QED
      BY <2>4, <2>5
  <1> QED
    BY <1>5 DEF Has, E

\* Directories stay directories, and one that is added is one.
LEMMA GrownDirs ==
    ASSUME NEW t, NEW N, Shape(t, N), NEW p \in NamePaths, Lookup(t, Front(p)) \in 1 .. N,
           Lookup(t, p) = 0,
           NEW is_dir, NEW u, Grown(u, t, N, Lookup(t, Front(p)), is_dir, Last(p)),
           NEW D, DirsAt(t, D), NEW Q, WithDir(Q, D, p, is_dir)
    PROVE  DirsAt(u, Q)
  <1> DEFINE n == Lookup(t, Front(p))
             name == Last(p)
             E == Names
  <1>1. p \in Seq(E) /\ p # <<>> /\ Front(p) \in Seq(E)
    BY FrontAndLast DEF NamePaths
  <1>2. n \in 1 .. N /\ n # 0 /\ N \in Nat /\ Grown(u, t, N, n, is_dir, name)
    BY DEF Shape
  <1>3. Lookup(t, p) = LookupChild(t, n, name)
    BY <1>1, LookupLast
  <1> HIDE DEF n, name, E
  <1>4. \A path \in Seq(E) : Lookup(t, path) # 0 => Lookup(u, path) = Lookup(t, path)
    BY <1>2, GrownLookup
  <1>5. /\ Shape(u, N + 1) /\ u[N + 1].is_dir = is_dir
        /\ \A m \in 1 .. N : u[m].is_dir = t[m].is_dir
    BY <1>2 DEF Grown, SameNode
  <1>6. ASSUME NEW x \in Q
        PROVE  x \in Seq(E) /\ Lookup(u, x) # 0 /\ u[Lookup(u, x)].is_dir = TRUE
    <2>1. CASE x \in D
      <3>1. x \in Seq(E) /\ Lookup(t, x) # 0 /\ t[Lookup(t, x)].is_dir = TRUE
        BY <2>1 DEF DirsAt, E
      <3>2. Lookup(t, x) \in 0 .. N
        BY <3>1, LookupIn
      <3>3. Lookup(t, x) \in 1 .. N
        BY <1>2, <3>1, <3>2
      <3> QED
        BY <1>4, <1>5, <3>1, <3>3
    <2>2. CASE x = p /\ is_dir = TRUE
      <3>1. Lookup(u, Front(p)) = n
        BY <1>1, <1>2, <1>4 DEF n
      <3> DEFINE M == N + 1
      <3>2. Shape(u, M)
        BY <1>5
      <3> HIDE DEF M
      <3>3. Lookup(u, p) = LookupChild(u, n, name)
        BY <1>1, <3>1, <3>2, LookupLast DEF name
      <3>4. n \in 0 .. N
        BY <1>2
      <3>5. LookupChild(u, n, name) = IF LookupChild(t, n, name) # 0 THEN LookupChild(t, n, name)
                                      ELSE IF n = n /\ name = name THEN N + 1 ELSE 0
        BY <1>2, <3>4, GrownChild
      <3>6. Lookup(u, p) = N + 1
        BY <1>3, <3>3, <3>5
      <3>7. u[N + 1].is_dir = TRUE /\ N + 1 # 0
        BY <1>2, <1>5, <2>2
      <3> QED
        BY <1>1, <2>2, <3>6, <3>7
    <2> QED
      BY <1>6, <2>1, <2>2 DEF WithDir
  <1> QED
    BY <1>6 DEF DirsAt, E

\* A call of mkdir that is not an abort.
LEMMA MkdirHas ==
    ASSUME NEW t, NEW N, Shape(t, N), NEW p \in NamePaths, CanMkdir(t, p),
           NEW P, Has(t, P), NEW Q, With(Q, P, p), NEW D, DirsAt(t, D),
           NEW F, \A x \in F : x \in D \/ x = p
    PROVE  Has(Mkdir(t, p), Q) /\ DirsAt(Mkdir(t, p), F)
  <1> DEFINE d == TRUE
             u == Mkdir(t, p)
  <1>1. /\ Lookup(t, Front(p)) \in 1 .. N
        /\ Grown(u, t, N, Lookup(t, Front(p)), d, Last(p))
    BY MkdirGrows
  <1>2. Lookup(t, p) = 0
    BY DEF CanMkdir, NULL
  <1>3. d = TRUE
    OBVIOUS
  <1> HIDE DEF d, u
  <1>4. Has(u, Q)
    BY <1>1, GrownHas
  <1>5. WithDir(F, D, p, d)
    BY <1>3 DEF WithDir
  <1>6. DirsAt(u, F)
    BY <1>1, <1>2, <1>5, GrownDirs
  <1> QED
    BY <1>4, <1>6 DEF u

\* A call of mkfile in a directory that is there.
LEMMA MkfileHas ==
    ASSUME NEW t, NEW N, Shape(t, N), NEW p \in NamePaths, Len(p) = 2,
           NEW P, Has(t, P), NEW Q, With(Q, P, p), NEW D, DirsAt(t, D), <<p[1]>> \in D
    PROVE  Has(Mkfile(t, p, 0, 1), Q) /\ DirsAt(Mkfile(t, p, 0, 1), D)
  <1> DEFINE up == <<p[1]>>
             u == Mkfile(t, p, 0, 1)
  <1>1. up \in Seq(Names) /\ Lookup(t, up) # 0 /\ t[Lookup(t, up)].is_dir = TRUE
    BY DEF DirsAt
  <1>2. SubSeq(p, 1, 1) = up /\ p \in Seq(Names) /\ p # <<>>
    <2>1. p \in Seq(Names) /\ p # <<>>
      BY DEF NamePaths
    <2> DEFINE l == 1
               f == SubSeq(p, 1, l)
    <2>2. l \in 0 .. Len(p)
      OBVIOUS
    <2> HIDE DEF l
    <2>3. f \in Seq(Names) /\ Len(f) = l /\ \A k \in 1 .. l : f[k] = p[k]
      BY <2>1, <2>2, FirstNames
    <2> HIDE DEF f
    <2>4. Len(f) = Len(up) /\ f[1] = up[1] /\ Len(f) = 1
      BY <2>3 DEF l
    <2>5. \A k \in 1 .. Len(f) : f[k] = up[k]
      BY <2>4
    <2>6. f = up
      BY <1>1, <2>3, <2>4, <2>5, SeqEqual
    <2> QED
      BY <2>1, <2>6 DEF f, l
  <1>3. AboveSeq(p)[1] = SubSeq(p, 1, 1)
    <2>1. \A k \in 1 .. Len(p) - 1 : AboveSeq(p)[k] = SubSeq(p, 1, k)
      BY AboveIs
    <2> QED
      BY <2>1
  <1> HIDE DEF up
  <1>4. \A k \in 1 .. Len(p) - 1 : k = 1
    OBVIOUS
  <1>5. \A k \in 1 .. Len(p) - 1 : Lookup(t, AboveSeq(p)[k]) # 0
    BY <1>1, <1>2, <1>3, <1>4
  <1>6. ~Blocked(t, p)
    BY <1>1, <1>2, <1>4 DEF Blocked, NULL
  <1>7. \/ u = t /\ (Blocked(t, p) \/ Lookup(t, p) # 0)
        \/ /\ Lookup(t, p) = 0
           /\ Lookup(t, Front(p)) \in 1 .. N
           /\ Grown(u, t, N, Lookup(t, Front(p)), FALSE, Last(p))
    BY <1>5, MkfileGrows
  <1>8. CASE u = t /\ Lookup(t, p) # 0
    <2>1. p \in P
      BY <1>2, <1>8 DEF Has
    <2>2. \A x : x \in Q <=> x \in P
      BY <2>1 DEF With
    <2>3. Has(t, Q)
      BY <2>2 DEF Has
    <2> QED
      BY <1>8, <2>3
  <1> DEFINE d == FALSE
  <1>9. CASE /\ Lookup(t, p) = 0
             /\ Lookup(t, Front(p)) \in 1 .. N
             /\ Grown(u, t, N, Lookup(t, Front(p)), d, Last(p))
    <2> HIDE DEF d, u
    <2>1. Has(u, Q)
      BY <1>9, GrownHas
    <2>2. WithDir(D, D, p, d)
      BY DEF WithDir
    <2>3. DirsAt(u, D)
      BY <1>9, <2>2, GrownDirs
    <2> QED
      BY <2>1, <2>3 DEF u
  <1> QED
    BY <1>6, <1>7, <1>8, <1>9

-----------------------------------------------------------------------------
(* The calls of begin_output.                                              *)

Ops == {"mkdir", "mkfile"}
Calls == [op : Ops, path : NamePaths]

\* All of them, of four lists of paths: the directories and the files of the type,
\* the directories and the files that are left.
AllCalls(a, b, c, e) == Mkdirs(a) \o Mkfiles(b) \o Mkdirs(c) \o Mkfiles(e)

Asks(x, op, path) == x.op = op /\ x.path = path

\* Where each is.
CallsLaidOut(all, a, b, c, e) ==
    /\ \A k \in 1 .. Len(a) : Asks(all[k], "mkdir", a[k])
    /\ \A k \in 1 .. Len(b) : Asks(all[Len(a) + k], "mkfile", b[k])
    /\ \A k \in 1 .. Len(c) : Asks(all[Len(a) + Len(b) + k], "mkdir", c[k])
    /\ \A k \in 1 .. Len(e) : Asks(all[Len(a) + Len(b) + Len(c) + k], "mkfile", e[k])

\* The calls for a list of paths.
LEMMA MkdirsAre ==
    ASSUME NEW q \in Seq(NamePaths)
    PROVE  /\ Mkdirs(q) \in Seq(Calls) /\ Len(Mkdirs(q)) = Len(q)
           /\ Mkfiles(q) \in Seq(Calls) /\ Len(Mkfiles(q)) = Len(q)
           /\ \A k \in 1 .. Len(q) : Asks(Mkdirs(q)[k], "mkdir", q[k]) /\ Asks(Mkfiles(q)[k], "mkfile", q[k])
  <1>1. Len(q) \in Nat /\ DOMAIN q = 1 .. Len(q) /\ \A k \in 1 .. Len(q) : q[k] \in NamePaths
    BY PlacesOfSeq
  <1> DEFINE n == Len(q)
             u == [k \in 1 .. n |-> [op |-> "mkdir", path |-> q[k]]]
             v == [k \in 1 .. n |-> [op |-> "mkfile", path |-> q[k]]]
  <1>2. Mkdirs(q) = u /\ Mkfiles(q) = v
    BY <1>1 DEF Mkdirs, Mkfiles
  <1>3. \A k \in 1 .. n : [op |-> "mkdir", path |-> q[k]] \in Calls /\ [op |-> "mkfile", path |-> q[k]] \in Calls
    BY <1>1 DEF Calls, Ops
  <1>4. u \in [1 .. n -> Calls] /\ v \in [1 .. n -> Calls]
    BY <1>3
  <1>5. \A k \in 1 .. n : Asks(u[k], "mkdir", q[k]) /\ Asks(v[k], "mkfile", q[k])
    BY DEF Asks
  <1>6. n \in Nat /\ DOMAIN u = 1 .. n /\ DOMAIN v = 1 .. n
    BY <1>1
  <1> HIDE DEF u, v, n
  <1>7. u \in Seq(Calls) /\ v \in Seq(Calls)
    BY <1>4, <1>6, SeqDef
  <1>8. Len(u) = n /\ Len(v) = n
    BY <1>6, <1>7, LenProperties
  <1> QED
    BY <1>2, <1>5, <1>7, <1>8 DEF n

\* The calls are laid out list by list.
LEMMA AllCallsAre ==
    ASSUME NEW a \in Seq(NamePaths), NEW b \in Seq(NamePaths), NEW c \in Seq(NamePaths),
           NEW e \in Seq(NamePaths)
    PROVE  /\ AllCalls(a, b, c, e) \in Seq(Calls)
           /\ Len(a) \in Nat /\ Len(b) \in Nat /\ Len(c) \in Nat /\ Len(e) \in Nat
           /\ Len(AllCalls(a, b, c, e)) = Len(a) + Len(b) + Len(c) + Len(e)
           /\ CallsLaidOut(AllCalls(a, b, c, e), a, b, c, e)
  <1> DEFINE A == Mkdirs(a)
             B == Mkfiles(b)
             C == Mkdirs(c)
             F == Mkfiles(e)
             ab == A \o B
             abc == ab \o C
             all == abc \o F
             S == Calls
  <1>1. AllCalls(a, b, c, e) = all
    BY DEF AllCalls
  <1>2. /\ A \in Seq(S) /\ Len(A) = Len(a) /\ \A k \in 1 .. Len(a) : Asks(A[k], "mkdir", a[k])
        /\ C \in Seq(S) /\ Len(C) = Len(c) /\ \A k \in 1 .. Len(c) : Asks(C[k], "mkdir", c[k])
    BY MkdirsAre
  <1>3. /\ B \in Seq(S) /\ Len(B) = Len(b) /\ \A k \in 1 .. Len(b) : Asks(B[k], "mkfile", b[k])
        /\ F \in Seq(S) /\ Len(F) = Len(e) /\ \A k \in 1 .. Len(e) : Asks(F[k], "mkfile", e[k])
    BY MkdirsAre
  <1>4. Len(a) \in Nat /\ Len(b) \in Nat /\ Len(c) \in Nat /\ Len(e) \in Nat
    BY LenProperties
  <1> HIDE DEF A, B, C, F, S
  <1>5. /\ ab \in Seq(S) /\ Len(ab) = Len(A) + Len(B)
        /\ \A k \in 1 .. Len(A) : ab[k] = A[k]
        /\ \A k \in 1 .. Len(B) : ab[Len(A) + k] = B[k]
    <2>1. A \in Seq(S) /\ B \in Seq(S) /\ ab = A \o B
      BY <1>2, <1>3
    <2> HIDE DEF ab
    <2>2. /\ A \o B \in Seq(S) /\ Len(A \o B) = Len(A) + Len(B)
          /\ \A k \in 1 .. Len(A) : (A \o B)[k] = A[k]
          /\ \A k \in 1 .. Len(B) : (A \o B)[Len(A) + k] = B[k]
      BY <2>1, ConcatIs
    <2> QED
      BY <2>1, <2>2
  <1> HIDE DEF ab
  <1>6. /\ abc \in Seq(S) /\ Len(abc) = Len(ab) + Len(C)
        /\ \A k \in 1 .. Len(ab) : abc[k] = ab[k]
        /\ \A k \in 1 .. Len(C) : abc[Len(ab) + k] = C[k]
    <2>1. ab \in Seq(S) /\ C \in Seq(S) /\ abc = ab \o C
      BY <1>2, <1>5
    <2> HIDE DEF abc
    <2>2. /\ ab \o C \in Seq(S) /\ Len(ab \o C) = Len(ab) + Len(C)
          /\ \A k \in 1 .. Len(ab) : (ab \o C)[k] = ab[k]
          /\ \A k \in 1 .. Len(C) : (ab \o C)[Len(ab) + k] = C[k]
      BY <2>1, ConcatIs
    <2> QED
      BY <2>1, <2>2
  <1> HIDE DEF abc
  <1>7. /\ all \in Seq(S) /\ Len(all) = Len(abc) + Len(F)
        /\ \A k \in 1 .. Len(abc) : all[k] = abc[k]
        /\ \A k \in 1 .. Len(F) : all[Len(abc) + k] = F[k]
    <2>1. abc \in Seq(S) /\ F \in Seq(S) /\ all = abc \o F
      BY <1>3, <1>6
    <2> HIDE DEF all
    <2>2. /\ abc \o F \in Seq(S) /\ Len(abc \o F) = Len(abc) + Len(F)
          /\ \A k \in 1 .. Len(abc) : (abc \o F)[k] = abc[k]
          /\ \A k \in 1 .. Len(F) : (abc \o F)[Len(abc) + k] = F[k]
      BY <2>1, ConcatIs
    <2> QED
      BY <2>1, <2>2
  <1> HIDE DEF all
  <1>8. /\ Len(ab) = Len(a) + Len(b) /\ Len(abc) = Len(a) + Len(b) + Len(c)
        /\ Len(all) = Len(a) + Len(b) + Len(c) + Len(e)
    BY <1>2, <1>3, <1>4, <1>5, <1>6, <1>7
  <1>9. ASSUME NEW k \in 1 .. Len(a) PROVE Asks(all[k], "mkdir", a[k])
    <2>1. k \in 1 .. Len(ab) /\ k \in 1 .. Len(abc)
      BY <1>4, <1>8
    <2>2. all[k] = A[k]
      BY <1>2, <1>5, <1>6, <1>7, <2>1
    <2> QED
      BY <1>2, <2>2
  <1>10. ASSUME NEW k \in 1 .. Len(b) PROVE Asks(all[Len(a) + k], "mkfile", b[k])
    <2>1. Len(a) + k \in 1 .. Len(ab) /\ Len(a) + k \in 1 .. Len(abc)
      BY <1>4, <1>8
    <2>2. all[Len(a) + k] = ab[Len(a) + k]
      BY <1>6, <1>7, <2>1
    <2>3. ab[Len(a) + k] = B[k]
      BY <1>2, <1>3, <1>5
    <2> QED
      BY <1>3, <2>2, <2>3
  <1>11. ASSUME NEW k \in 1 .. Len(c) PROVE Asks(all[Len(a) + Len(b) + k], "mkdir", c[k])
    <2>1. Len(a) + Len(b) + k \in 1 .. Len(abc)
      BY <1>4, <1>8
    <2>2. all[Len(a) + Len(b) + k] = abc[Len(a) + Len(b) + k]
      BY <1>7, <2>1
    <2>3. abc[Len(a) + Len(b) + k] = C[k]
      BY <1>2, <1>6, <1>8
    <2> QED
      BY <1>2, <2>2, <2>3
  <1>12. ASSUME NEW k \in 1 .. Len(e) PROVE Asks(all[Len(a) + Len(b) + Len(c) + k], "mkfile", e[k])
    <2>1. all[Len(a) + Len(b) + Len(c) + k] = F[k]
      BY <1>3, <1>7, <1>8
    <2> QED
      BY <1>3, <2>1
  <1>13. CallsLaidOut(all, a, b, c, e)
    BY <1>9, <1>10, <1>11, <1>12 DEF CallsLaidOut
  <1> QED
    BY <1>1, <1>4, <1>7, <1>8, <1>13 DEF S

\* What is left when m calls are done.
Left(cs, all, m) ==
    /\ m \in Nat
    /\ cs \in Seq(Calls)
    /\ Len(cs) = Len(all) - m
    /\ \A k \in 1 .. Len(cs) : cs[k] = all[m + k]

\* Done with one more.
LEMMA LeftNext ==
    ASSUME NEW all \in Seq(Calls), NEW cs, NEW m, Left(cs, all, m), cs # <<>>
    PROVE  /\ Head(cs) = all[m + 1] /\ m + 1 \in 1 .. Len(all)
           /\ Head(cs) \in Calls
           /\ Left(Tail(cs), all, m + 1)
  <1>1. /\ m \in Nat /\ cs \in Seq(Calls) /\ Len(cs) = Len(all) - m
        /\ \A k \in 1 .. Len(cs) : cs[k] = all[m + k]
    BY DEF Left
  <1>2. Len(cs) \in Nat \ {0} /\ Len(all) \in Nat /\ \A k \in 1 .. Len(cs) : cs[k] \in Calls
    BY <1>1, EmptySeq, PlacesOfSeq
  <1>3. Head(cs) = cs[1] /\ 1 \in 1 .. Len(cs)
    BY <1>1, <1>2, HeadTailProperties
  <1>4. /\ Tail(cs) \in Seq(Calls) /\ Len(Tail(cs)) = Len(cs) - 1
        /\ \A k \in 1 .. Len(Tail(cs)) : Tail(cs)[k] = cs[k + 1]
    BY <1>1, HeadTailProperties
  <1>5. ASSUME NEW k \in 1 .. Len(Tail(cs)) PROVE Tail(cs)[k] = all[m + 1 + k]
    <2>1. k + 1 \in 1 .. Len(cs) /\ m + (k + 1) = m + 1 + k
      BY <1>1, <1>2, <1>4
    <2> QED
      BY <1>1, <1>4, <2>1
  <1>6. Left(Tail(cs), all, m + 1)
    BY <1>1, <1>2, <1>4, <1>5 DEF Left
  <1> QED
    BY <1>1, <1>2, <1>3, <1>6

\* The paths of the calls that are done.
Done(all, m) == {all[j].path : j \in 1 .. m}

\* One more call is done.
LEMMA DoneNext ==
    ASSUME NEW all, NEW m \in Nat
    PROVE  With(Done(all, m + 1), Done(all, m), all[m + 1].path)
  <1>1. \A x : x \in Done(all, m + 1) <=> \E j \in 1 .. m + 1 : x = all[j].path
    BY DEF Done
  <1>2. \A x : x \in Done(all, m) <=> \E j \in 1 .. m : x = all[j].path
    BY DEF Done
  <1>3. \A j : j \in 1 .. m + 1 <=> j \in 1 .. m \/ j = m + 1
    OBVIOUS
  <1> QED
    BY <1>1, <1>2, <1>3 DEF With

\* The directories of a list that are made when m calls are done.
DirsDone(a, m) == {a[j] : j \in {k \in 1 .. Len(a) : k <= m}}

\* The files of b are in the directories of a.
FilesIn(a, b) == \A k \in 1 .. Len(b) : Len(b[k]) = 2 /\ \E j \in 1 .. Len(a) : a[j] = <<b[k][1]>>

\* Until the last list is begun, a tree has the paths of the calls that are done.
Making(t, cs, a, b, c, e, m) ==
    /\ Left(cs, AllCalls(a, b, c, e), m)
    /\ m <= Len(a) + Len(b) + Len(c) => Has(t, Done(AllCalls(a, b, c, e), m)) /\ DirsAt(t, DirsDone(a, m))

\* A call of mkdir that does not abort.
LEMMA MkdirMakes ==
    ASSUME NEW t, NEW N, Shape(t, N), NEW a \in Seq(NamePaths), NEW b \in Seq(NamePaths),
           NEW c \in Seq(NamePaths), NEW e \in Seq(NamePaths), NEW cs, NEW m,
           Making(t, cs, a, b, c, e, m), cs # <<>>, CanMkdir(t, Head(cs).path)
    PROVE  Making(Mkdir(t, Head(cs).path), Tail(cs), a, b, c, e, m + 1)
  <1> DEFINE all == AllCalls(a, b, c, e)
             p == Head(cs).path
             top == Len(a) + Len(b) + Len(c)
             M == m + 1
  <1>1. /\ all \in Seq(Calls) /\ Len(a) \in Nat /\ top \in Nat
        /\ \A k \in 1 .. Len(a) : Asks(all[k], "mkdir", a[k])
    <2>1. /\ AllCalls(a, b, c, e) \in Seq(Calls)
          /\ Len(a) \in Nat /\ Len(b) \in Nat /\ Len(c) \in Nat /\ Len(e) \in Nat
          /\ Len(AllCalls(a, b, c, e)) = Len(a) + Len(b) + Len(c) + Len(e)
          /\ CallsLaidOut(AllCalls(a, b, c, e), a, b, c, e)
      BY AllCallsAre
    <2> QED
      BY <2>1 DEF CallsLaidOut
  <1>2. Left(cs, all, m) /\ m \in Nat
        /\ (m <= top => Has(t, Done(all, m)) /\ DirsAt(t, DirsDone(a, m)))
    BY DEF Making, Left
  <1>3. CanMkdir(t, p)
    OBVIOUS
  <1> HIDE DEF all, p, top
  <1>4. Head(cs) = all[m + 1] /\ Head(cs) \in Calls /\ Left(Tail(cs), all, m + 1)
    BY <1>1, <1>2, LeftNext
  <1>5. p \in NamePaths /\ p = all[M].path
    BY <1>4 DEF Calls, p
  <1>6. With(Done(all, M), Done(all, m), p)
    BY <1>2, <1>5, DoneNext
  <1>7. \A x \in DirsDone(a, M) : x \in DirsDone(a, m) \/ x = p
    <2> SUFFICES ASSUME NEW k \in 1 .. Len(a), k <= m + 1, ~(k <= m) PROVE a[k] = p
      BY <1>1, <1>2 DEF DirsDone
    <2>1. k = M
      BY <1>1, <1>2
    <2> QED
      BY <1>1, <1>5, <2>1 DEF Asks
  <1>8. ASSUME M <= top
        PROVE  Has(Mkdir(t, p), Done(all, M)) /\ DirsAt(Mkdir(t, p), DirsDone(a, M))
    <2>1. m <= top
      BY <1>1, <1>2, <1>8
    <2>2. Has(t, Done(all, m)) /\ DirsAt(t, DirsDone(a, m))
      BY <1>2, <2>1
    <2> DEFINE F == DirsDone(a, M)
               D == DirsDone(a, m)
               Q == Done(all, M)
               P == Done(all, m)
    <2>3. With(Q, P, p) /\ Has(t, P) /\ DirsAt(t, D) /\ \A x \in F : x \in D \/ x = p
      BY <1>6, <1>7, <2>2
    <2> HIDE DEF F, D, Q, P, M
    <2>4. Has(Mkdir(t, p), Q) /\ DirsAt(Mkdir(t, p), F)
      BY <1>3, <1>5, <2>3, MkdirHas
    <2> QED
      BY <2>4 DEF F, Q
  <1> QED
    BY <1>4, <1>8 DEF Making, all, p, top

\* A call of mkfile.
LEMMA MkfileMakes ==
    ASSUME NEW t, NEW N, Shape(t, N), NEW a \in Seq(NamePaths), NEW b \in Seq(NamePaths),
           NEW c \in Seq(NamePaths), NEW e \in Seq(NamePaths), FilesIn(a, b), NEW cs, NEW m,
           Making(t, cs, a, b, c, e, m), cs # <<>>, Head(cs).op = "mkfile"
    PROVE  Making(Mkfile(t, Head(cs).path, 0, 1), Tail(cs), a, b, c, e, m + 1)
  <1> DEFINE all == AllCalls(a, b, c, e)
             p == Head(cs).path
             top == Len(a) + Len(b) + Len(c)
             M == m + 1
  <1>1. /\ all \in Seq(Calls) /\ Len(a) \in Nat /\ Len(b) \in Nat /\ Len(c) \in Nat /\ top \in Nat
        /\ \A k \in 1 .. Len(a) : Asks(all[k], "mkdir", a[k])
        /\ \A k \in 1 .. Len(b) : Asks(all[Len(a) + k], "mkfile", b[k])
        /\ \A k \in 1 .. Len(c) : Asks(all[Len(a) + Len(b) + k], "mkdir", c[k])
    <2>1. /\ AllCalls(a, b, c, e) \in Seq(Calls)
          /\ Len(a) \in Nat /\ Len(b) \in Nat /\ Len(c) \in Nat /\ Len(e) \in Nat
          /\ Len(AllCalls(a, b, c, e)) = Len(a) + Len(b) + Len(c) + Len(e)
          /\ CallsLaidOut(AllCalls(a, b, c, e), a, b, c, e)
      BY AllCallsAre
    <2> QED
      BY <2>1 DEF CallsLaidOut
  <1>2. Left(cs, all, m) /\ m \in Nat
        /\ (m <= top => Has(t, Done(all, m)) /\ DirsAt(t, DirsDone(a, m)))
    BY DEF Making, Left
  <1>3. top = Len(a) + Len(b) + Len(c) /\ Head(cs).op = "mkfile"
    OBVIOUS
  <1> HIDE DEF all, p, top
  <1>4. Head(cs) = all[m + 1] /\ Head(cs) \in Calls /\ Left(Tail(cs), all, m + 1)
    BY <1>1, <1>2, LeftNext
  <1>5. p \in NamePaths /\ p = all[M].path /\ all[M].op = "mkfile"
    BY <1>3, <1>4 DEF Calls, p
  <1>6. With(Done(all, M), Done(all, m), p)
    BY <1>2, <1>5, DoneNext
  <1>8. ASSUME M <= top
        PROVE  Has(Mkfile(t, p, 0, 1), Done(all, M)) /\ DirsAt(Mkfile(t, p, 0, 1), DirsDone(a, M))
    <2>1. m <= top
      BY <1>1, <1>2, <1>8
    <2>2. Has(t, Done(all, m)) /\ DirsAt(t, DirsDone(a, m))
      BY <1>2, <2>1
    <2>3. ~(M <= Len(a))
      <3> SUFFICES ASSUME M <= Len(a) PROVE FALSE
        OBVIOUS
      <3>1. M \in 1 .. Len(a)
        BY <1>1, <1>2
      <3>2. all[M].op = "mkdir"
        BY <1>1, <3>1 DEF Asks
      <3> QED
        BY <1>5, <3>2
    <2>4. ~(M > Len(a) + Len(b))
      <3> SUFFICES ASSUME M > Len(a) + Len(b) PROVE FALSE
        OBVIOUS
      <3>1. PICK k \in 1 .. Len(c) : M = Len(a) + Len(b) + k
        <4> DEFINE k == M - Len(a) - Len(b)
        <4>1. k \in 1 .. Len(c) /\ M = Len(a) + Len(b) + k
          BY <1>1, <1>2, <1>3, <1>8
        <4> QED
          BY <4>1
      <3>2. Asks(all[Len(a) + Len(b) + k], "mkdir", c[k])
        BY <1>1
      <3>3. all[M].op = "mkdir"
        BY <3>1, <3>2 DEF Asks
      <3> QED
        BY <1>5, <3>3
    <2>5. PICK k \in 1 .. Len(b) : M = Len(a) + k
      <3> DEFINE k == M - Len(a)
      <3>1. k \in 1 .. Len(b) /\ M = Len(a) + k
        BY <1>1, <1>2, <2>3, <2>4
      <3> QED
        BY <3>1
    <2>6. p = b[k]
      BY <1>1, <1>5, <2>5 DEF Asks
    <2>7. Len(p) = 2 /\ <<p[1]>> \in DirsDone(a, m)
      <3>1. Len(p) = 2 /\ \E j \in 1 .. Len(a) : a[j] = <<p[1]>>
        BY <2>6 DEF FilesIn
      <3>2. \A j \in 1 .. Len(a) : j <= m
        BY <1>1, <1>2, <2>3
      <3> QED
        BY <3>1, <3>2 DEF DirsDone
    <2>8. DirsDone(a, M) = DirsDone(a, m)
      <3>1. \A j \in 1 .. Len(a) : j <= m /\ j <= M
        BY <1>1, <1>2, <2>3
      <3> QED
        BY <3>1 DEF DirsDone
    <2> DEFINE D == DirsDone(a, m)
               Q == Done(all, M)
               P == Done(all, m)
    <2>9. With(Q, P, p) /\ Has(t, P) /\ DirsAt(t, D) /\ <<p[1]>> \in D
      BY <1>6, <2>2, <2>7
    <2> HIDE DEF D, Q, P, M
    <2>10. Has(Mkfile(t, p, 0, 1), Q) /\ DirsAt(Mkfile(t, p, 0, 1), D)
      BY <1>5, <2>7, <2>9, MkfileHas
    <2> QED
      BY <2>8, <2>10 DEF D, Q
  <1> QED
    BY <1>4, <1>8 DEF Making, all, p, top

\* What a call of mkdir that aborts was for.
LEMMA AbortKnown ==
    ASSUME NEW t, NEW N, Shape(t, N), NEW a \in Seq(NamePaths), NEW b \in Seq(NamePaths),
           NEW c \in Seq(NamePaths), NEW e \in Seq(NamePaths), AboveFirst(c), NEW cs, NEW m,
           Making(t, cs, a, b, c, e, m), cs # <<>>, Head(cs).op = "mkdir",
           ~CanMkdir(t, Head(cs).path)
    PROVE  \/ Head(cs).path \in ToSet(a) \cup ToSet(b)
           \/ \E j, k \in 1 .. Len(c) : j # k /\ c[j] = c[k]
           \/ Front(Head(cs).path) \notin ToSet(c) \cup ToSet(a) \cup ToSet(b) \cup {<<>>}
  <1> DEFINE all == AllCalls(a, b, c, e)
             p == Head(cs).path
             la == Len(a)
             lb == Len(b)
             lc == Len(c)
             le == Len(e)
             top == la + lb + lc
             M == m + 1
  <1>1. /\ all \in Seq(Calls) /\ la \in Nat /\ lb \in Nat /\ lc \in Nat /\ le \in Nat
        /\ Len(all) = top + le
        /\ \A k \in 1 .. la : Asks(all[k], "mkdir", a[k])
        /\ \A k \in 1 .. lb : Asks(all[la + k], "mkfile", b[k])
        /\ \A k \in 1 .. lc : Asks(all[la + lb + k], "mkdir", c[k])
        /\ \A k \in 1 .. le : Asks(all[la + lb + lc + k], "mkfile", e[k])
    <2>1. /\ AllCalls(a, b, c, e) \in Seq(Calls)
          /\ Len(a) \in Nat /\ Len(b) \in Nat /\ Len(c) \in Nat /\ Len(e) \in Nat
          /\ Len(AllCalls(a, b, c, e)) = Len(a) + Len(b) + Len(c) + Len(e)
          /\ CallsLaidOut(AllCalls(a, b, c, e), a, b, c, e)
      BY AllCallsAre
    <2> QED
      BY <2>1 DEF CallsLaidOut
  <1>2. Left(cs, all, m) /\ m \in Nat /\ (m <= top => Has(t, Done(all, m)))
    BY DEF Making, Left
  <1>3. /\ Head(cs).op = "mkdir" /\ ~CanMkdir(t, p)
        /\ top = la + lb + lc
    OBVIOUS
  <1>4. /\ \A x : x \in ToSet(a) <=> \E j \in 1 .. la : x = a[j]
        /\ \A x : x \in ToSet(b) <=> \E j \in 1 .. lb : x = b[j]
        /\ \A x : x \in ToSet(c) <=> \E j \in 1 .. lc : x = c[j]
    BY LenProperties DEF ToSet
  <1> HIDE DEF all, p, top, la, lb, lc, le
  <1>5. Head(cs) = all[m + 1] /\ m + 1 \in 1 .. Len(all) /\ Head(cs) \in Calls
    BY <1>1, <1>2, LeftNext
  <1>6. p \in NamePaths /\ p = all[M].path /\ all[M].op = "mkdir"
    BY <1>3, <1>5 DEF Calls, p
  <1>7. ASSUME M > la PROVE M > la + lb
    <2> SUFFICES ASSUME ~(M > la + lb) PROVE FALSE
      OBVIOUS
    <2>1. PICK k \in 1 .. lb : M = la + k
      <3> DEFINE k == M - la
      <3>1. k \in 1 .. lb /\ M = la + k
        BY <1>1, <1>2, <1>7
      <3> QED
        BY <3>1
    <2>2. Asks(all[la + k], "mkfile", b[k])
      BY <1>1
    <2>3. all[M].op = "mkfile"
      BY <2>1, <2>2 DEF Asks
    <2> QED
      BY <1>6, <2>3
  <1>8. M <= top
    <2> SUFFICES ASSUME M > top PROVE FALSE
      BY <1>1, <1>2, <1>3
    <2>1. PICK k \in 1 .. le : M = la + lb + lc + k
      <3> DEFINE k == M - la - lb - lc
      <3>1. k \in 1 .. le /\ M = la + lb + lc + k
        BY <1>1, <1>2, <1>3, <1>5
      <3> QED
        BY <3>1
    <2>2. Asks(all[la + lb + lc + k], "mkfile", e[k])
      BY <1>1
    <2>3. all[M].op = "mkfile"
      BY <2>1, <2>2 DEF Asks
    <2> QED
      BY <1>6, <2>3
  <1>9. CASE M <= la
    <2>1. M \in 1 .. la
      BY <1>1, <1>2, <1>9
    <2>2. p = a[M]
      BY <1>1, <1>6, <2>1 DEF Asks
    <2> QED
      BY <1>4, <2>1, <2>2 DEF p
  <1>10. CASE ~(M <= la)
    <2>1. PICK k \in 1 .. lc : M = la + lb + k
      <3> DEFINE k == M - la - lb
      <3>0. M > la + lb
        BY <1>1, <1>2, <1>7, <1>10
      <3>1. k \in 1 .. lc /\ M = la + lb + k
        BY <1>1, <1>2, <1>3, <1>8, <3>0
      <3> QED
        BY <3>1
    <2>2. p = c[k]
      BY <1>1, <1>6, <2>1 DEF Asks
    <2>3. Has(t, Done(all, m))
      BY <1>1, <1>2, <1>3, <2>1
    <2>4. ASSUME NEW q \in ToSet(a) \cup ToSet(b) PROVE q \in Done(all, m)
      <3>1. ASSUME NEW j \in 1 .. la, q = a[j] PROVE q \in Done(all, m)
        <4>1. all[j].path = q /\ j \in 1 .. m
          BY <1>1, <1>2, <2>1, <3>1 DEF Asks
        <4> QED
          BY <4>1 DEF Done
      <3>2. ASSUME NEW j \in 1 .. lb, q = b[j] PROVE q \in Done(all, m)
        <4>1. all[la + j].path = q
          BY <1>1, <3>2 DEF Asks
        <4>2. la + j \in 1 .. m
          BY <1>1, <1>2, <2>1
        <4> QED
          BY <4>1, <4>2 DEF Done
      <3> QED
        BY <1>4, <2>4, <3>1, <3>2
    <2>5. ASSUME NEW j \in 1 .. lc, j < k PROVE c[j] \in Done(all, m)
      <3>1. all[la + lb + j].path = c[j]
        BY <1>1 DEF Asks
      <3>2. la + lb + j \in 1 .. m
        BY <1>1, <1>2, <2>1, <2>5
      <3> QED
        BY <3>1, <3>2 DEF Done
    <2>6. p \in Seq(Names) /\ p # <<>> /\ Front(p) \in Seq(Names)
      BY <1>6, FrontAndLast DEF NamePaths
    <2>7. CASE Lookup(t, p) # 0
      <3>1. p \in Done(all, m)
        BY <2>3, <2>6, <2>7 DEF Has
      <3>2. PICK n \in 1 .. m : p = all[n].path
        BY <3>1 DEF Done
      <3>3. CASE n <= la
        <4>1. n \in 1 .. la
          BY <1>1, <1>2, <3>3
        <4>2. p = a[n]
          BY <1>1, <3>2, <4>1 DEF Asks
        <4> QED
          BY <1>4, <4>1, <4>2 DEF p
      <3>4. CASE n > la /\ n <= la + lb
        <4>1. PICK j \in 1 .. lb : n = la + j
          <5> DEFINE j == n - la
          <5>1. j \in 1 .. lb /\ n = la + j
            BY <1>1, <1>2, <3>4
          <5> QED
            BY <5>1
        <4>2. p = b[j]
          BY <1>1, <3>2, <4>1 DEF Asks
        <4> QED
          BY <1>4, <4>1, <4>2 DEF p
      <3>5. CASE n > la + lb
        <4>1. PICK j \in 1 .. lc : n = la + lb + j /\ j # k
          <5> DEFINE j == n - la - lb
          <5>1. j \in 1 .. lc /\ n = la + lb + j /\ j # k
            BY <1>1, <1>2, <2>1, <3>5
          <5> QED
            BY <5>1
        <4>2. p = c[j]
          BY <1>1, <3>2, <4>1 DEF Asks
        <4>3. j # k /\ c[j] = c[k] /\ j \in 1 .. Len(c) /\ k \in 1 .. Len(c)
          BY <2>1, <2>2, <4>1, <4>2 DEF lc
        <4> QED
          BY <4>3
      <3> QED
        BY <1>1, <1>2, <3>3, <3>4, <3>5
    <2>8. CASE Lookup(t, p) = 0
      <3>1. Lookup(t, Front(p)) = 0
        BY <1>3, <2>8 DEF CanMkdir, NULL
      <3>2. Front(p) # <<>> /\ Front(p) \notin Done(all, m)
        BY <2>3, <2>6, <3>1 DEF Has
      <3>3. Front(p) \notin ToSet(c)
        <4> SUFFICES ASSUME NEW j \in 1 .. lc, Front(p) = c[j] PROVE FALSE
          BY <1>4
        <4>1. j < k
          BY <2>2 DEF AboveFirst, lc
        <4> QED
          BY <2>5, <3>2, <4>1
      <3>4. Front(p) \notin ToSet(a) \cup ToSet(b)
        BY <2>4, <3>2
      <3> QED
        BY <3>2, <3>3, <3>4 DEF p
    <2> QED
      BY <2>7, <2>8
  <1> QED
    BY <1>9, <1>10

-----------------------------------------------------------------------------
(* The invariant.                                                          *)

\* The paths begin_output hands over.
FilesLeft == custom_file_list \o SequenceFiles(disc)

TreeShape ==
    /\ phase \in {"build", "make", "sized", "dumped", "written", "aborted", "exited", "lost"}
    /\ disc \in Discs
    /\ dirs_size \in Nat
    /\ \E N : Shape(nodes, N)

ListsShape ==
    /\ custom_dir_list \in Seq(NamePaths)
    /\ AboveFirst(custom_dir_list)
    /\ custom_file_list \in Seq(NamePaths)

\* How far begin_output has come.
CallsInv ==
    /\ phase = "build" => Has(nodes, {})
    /\ phase = "make" =>
          \E m : Making(nodes, calls, TypeDirs(disc), FixedFiles(disc), custom_dir_list, FilesLeft, m)

TreeInv == TreeShape /\ ListsShape /\ CallsInv /\ OrderOfDirsFree

\* What begin_output hands over are lists of paths.
LEMMA ListsAre ==
    ASSUME TreeShape, ListsShape
    PROVE  /\ TypeDirs(disc) \in Seq(NamePaths) /\ FixedFiles(disc) \in Seq(NamePaths)
           /\ FilesIn(TypeDirs(disc), FixedFiles(disc))
           /\ FilesLeft \in Seq(NamePaths)
           /\ ToSet(Fixed(disc)) = ToSet(TypeDirs(disc)) \cup ToSet(FixedFiles(disc))
  <1>1. disc \in Discs /\ custom_file_list \in Seq(NamePaths)
    BY DEF TreeShape, ListsShape
  <1>2. /\ FixedFiles(disc) \in Seq(PairsOf(disc)) /\ SequenceFiles(disc) \in Seq(NamePaths)
        /\ ToSet(Fixed(disc)) = ToSet(TypeDirs(disc)) \cup ToSet(FixedFiles(disc))
    BY <1>1, FixedFilesAre
  <1>3. TypeDirs(disc) \in Seq(NamePaths)
    BY <1>1, TypeDirsAre
  <1>4. /\ PairsOf(disc) \subseteq NamePaths
        /\ \A path \in PairsOf(disc) : Len(path) = 2 /\ <<path[1]>> \in ToSet(TypeDirs(disc))
    BY PairsArePaths
  <1>5. FixedFiles(disc) \in Seq(NamePaths)
    BY <1>2, <1>4, SeqMonotonic
  <1>6. FilesLeft \in Seq(NamePaths)
    BY <1>1, <1>2, ConcatProperties DEF FilesLeft
  <1>7. FilesIn(TypeDirs(disc), FixedFiles(disc))
    <2> SUFFICES ASSUME NEW k \in 1 .. Len(FixedFiles(disc))
                 PROVE  /\ Len(FixedFiles(disc)[k]) = 2
                        /\ \E j \in 1 .. Len(TypeDirs(disc)) : TypeDirs(disc)[j] = <<FixedFiles(disc)[k][1]>>
      BY DEF FilesIn
    <2> DEFINE a == TypeDirs(disc)
               b == FixedFiles(disc)
               P == PairsOf(disc)
    <2>1. b \in Seq(P) /\ k \in 1 .. Len(b)
      BY <1>2
    <2> HIDE DEF a, b, P
    <2>2. b[k] \in P
      BY <2>1, PlacesOfSeq
    <2>3. Len(b[k]) = 2 /\ <<b[k][1]>> \in ToSet(a)
      BY <1>4, <2>2 DEF a, P
    <2>4. \E j \in 1 .. Len(a) : a[j] = <<b[k][1]>>
      BY <1>3, <2>3, LenProperties DEF ToSet, a
    <2> QED
      BY <2>3, <2>4 DEF a, b
  <1> QED
    BY <1>2, <1>3, <1>5, <1>6, <1>7

\* The tree of a new directory is its root.
LEMMA InitTreeInv ==
    ASSUME TreeInit
    PROVE  TreeInv
  <1> DEFINE node == NewNode(NULL, TRUE, RootName, 0, 0)
             N == 1
  <1>1. nodes = [n \in {Root} |-> node]
    BY Zenon DEF TreeInit, DirectoryInit, RootName
  <1>2. /\ node.parent = 0 /\ node.children = NewList
        /\ Linked(NewList, <<>>) /\ NewList \in ListType
    BY NewListLinked DEF NewNode, NULL, Linked
  <1>3. node \in NodeType
    <2> DEFINE up == 0
               x == 0
               s == 0
               id == 0
               d == TRUE
               l == NewList
    <2>1. node = [parent |-> up, is_dir |-> d, name |-> RootName, extent |-> x, size |-> s,
                  pt_id |-> id, children |-> l]
      BY DEF NewNode, NULL
    <2>2. up \in Nat /\ x \in Nat /\ s \in Nat /\ id \in Nat /\ d \in BOOLEAN
          /\ RootName \in Names \cup {RootName}
      OBVIOUS
    <2>3. l \in ListType
      BY <1>2
    <2> HIDE DEF up, x, s, id, d, l, node
    <2> QED
      BY <2>1, <2>2, <2>3, Zenon DEF NodeType
  <1>4. DOMAIN nodes = 1 .. N /\ nodes[1] = node /\ nodes \in [1 .. N -> NodeType]
    <2> HIDE DEF node
    <2>1. nodes = [k \in {1} |-> node]
      BY <1>1 DEF Root
    <2>2. 1 .. N = {1}
      OBVIOUS
    <2> QED
      BY <1>3, <2>1, <2>2
  <1> HIDE DEF node
  <1>5. Hangs(nodes, N, 1)
    <2> DEFINE q == <<>>
    <2>1. Linked(nodes[1].children, q) /\ Len(q) = 0
      BY <1>2, <1>4
    <2>2. \A c : ~(c \in 1 .. N /\ nodes[c].parent = 1)
      BY <1>2, <1>4
    <2> HIDE DEF q
    <2>3. \A k \in 1 .. Len(q) : FALSE
      BY <2>1
    <2> QED
      BY <2>1, <2>2, <2>3 DEF Hangs
  <1>6. Shape(nodes, N)
    <2>1. N \in Nat \ {0} /\ nodes[1].parent = 0
      BY <1>2, <1>4
    <2>2. \A n \in 2 .. N : FALSE
      OBVIOUS
    <2>3. \A n \in 1 .. N : n = 1
      OBVIOUS
    <2> QED
      BY <1>4, <1>5, <2>1, <2>2, <2>3 DEF Shape
  <1> HIDE DEF N
  <1>7. TreeShape
    BY <1>6 DEF TreeInit, TreeShape
  <1>8. ListsShape
    <2>1. custom_dir_list = <<>> /\ custom_file_list = <<>>
      BY DEF TreeInit
    <2>2. custom_dir_list \in Seq(NamePaths) /\ custom_file_list \in Seq(NamePaths)
      BY <2>1
    <2>3. \A j \in 1 .. Len(custom_dir_list) : FALSE
      BY <2>1
    <2>4. AboveFirst(custom_dir_list)
      BY <2>3 DEF AboveFirst
    <2> QED
      BY <2>2, <2>4 DEF ListsShape
  <1>9. Has(nodes, {})
    <2> SUFFICES ASSUME NEW path \in Seq(Names)
                 PROVE  Lookup(nodes, path) # 0 <=> path = <<>>
      BY DEF Has
    <2>1. Lookup(nodes, <<>>) = 1
      BY <1>6, LookupRoot
    <2>2. CASE path # <<>>
      <3> DEFINE n == Lookup(nodes, Front(path))
                 a == Last(path)
      <3>1. n \in 0 .. N /\ Lookup(nodes, path) = LookupChild(nodes, n, a)
        BY <1>6, <2>2, LookupLast
      <3> HIDE DEF n, a
      <3>2. LookupChild(nodes, n, a) # 0 => LookupChild(nodes, n, a) \in 2 .. N
        BY <1>6, <3>1, LookupChildIs
      <3>3. LookupChild(nodes, n, a) = 0
        BY <3>2 DEF N
      <3> QED
        BY <2>2, <3>1, <3>3
    <2> QED
      BY <2>1, <2>2
  <1>10. phase = "build"
    BY DEF TreeInit
  <1> QED
    BY <1>7, <1>8, <1>9, <1>10 DEF TreeInv, CallsInv, OrderOfDirsFree

-----------------------------------------------------------------------------
(* The steps.                                                              *)

\* A custom directory is added.
LEMMA AddDirKeepsInv ==
    ASSUME TreeInv, NEW path \in CustomDirs, AddDir(path)
    PROVE  TreeInv'
  <1>1. /\ phase = "build"
        /\ custom_dir_list' = Sorted(Append(custom_dir_list, path))
        /\ nodes' = nodes
        /\ UNCHANGED <<disc, custom_file_list, calls, dirs_size, phase>>
    BY DEF AddDir, tree
  <1>2. path \in NamePaths
    BY NamesUsed
  <1>3. custom_dir_list \in Seq(NamePaths)
    BY DEF TreeInv, ListsShape
  <1> DEFINE paths == Append(custom_dir_list, path)
             E == NamePaths
  <1>4. paths \in Seq(E)
    BY <1>2, <1>3, AppendProperties
  <1> HIDE DEF paths
  <1>5. AboveFirst(Sorted(paths))
    BY <1>4, SortedAboveFirst
  <1> HIDE DEF E
  <1>6. Sorted(paths) \in Seq(E)
    BY <1>4, SortedIs
  <1>7. ListsShape'
    BY <1>1, <1>5, <1>6 DEF TreeInv, ListsShape, paths, E
  <1>8. TreeShape'
    BY <1>1 DEF TreeInv, TreeShape
  <1>9. CallsInv' /\ OrderOfDirsFree'
    BY <1>1 DEF TreeInv, CallsInv, Has, OrderOfDirsFree
  <1> QED
    BY <1>7, <1>8, <1>9 DEF TreeInv

\* A custom file is added.
LEMMA AddFileKeepsInv ==
    ASSUME TreeInv, NEW path \in CustomFiles, AddFile(path)
    PROVE  TreeInv'
  <1>1. /\ phase = "build"
        /\ custom_file_list' = Append(custom_file_list, path)
        /\ nodes' = nodes
        /\ UNCHANGED <<disc, custom_dir_list, calls, dirs_size, phase>>
    BY DEF AddFile, tree
  <1>2. path \in NamePaths
    BY NamesUsed
  <1>3. custom_file_list' \in Seq(NamePaths)
    BY <1>1, <1>2, AppendProperties DEF TreeInv, ListsShape
  <1>4. ListsShape'
    BY <1>1, <1>3 DEF TreeInv, ListsShape
  <1>5. TreeShape'
    BY <1>1 DEF TreeInv, TreeShape
  <1>6. CallsInv' /\ OrderOfDirsFree'
    BY <1>1 DEF TreeInv, CallsInv, Has, OrderOfDirsFree
  <1> QED
    BY <1>4, <1>5, <1>6 DEF TreeInv

\* begin_output is entered: no call is done.
LEMMA BeginOutputKeepsInv ==
    ASSUME TreeInv, BeginOutput
    PROVE  TreeInv'
  <1> DEFINE a == TypeDirs(disc)
             b == FixedFiles(disc)
             c == custom_dir_list
             e == FilesLeft
             all == AllCalls(a, b, c, e)
             zero == 0
  <1>1. /\ phase = "build" /\ phase' = "make" /\ calls' = all /\ nodes' = nodes
        /\ UNCHANGED <<disc, custom_dir_list, custom_file_list, dirs_size>>
    BY DEF BeginOutput, tree, AllCalls, FixedFiles, FilesLeft
  <1>2. TreeShape /\ ListsShape /\ Has(nodes, {})
    BY <1>1 DEF TreeInv, CallsInv
  <1>3. a \in Seq(NamePaths) /\ b \in Seq(NamePaths) /\ c \in Seq(NamePaths) /\ e \in Seq(NamePaths)
    BY <1>2, ListsAre DEF ListsShape
  <1>4. FilesLeft' = e /\ TypeDirs(disc)' = a /\ FixedFiles(disc)' = b
    BY <1>1 DEF FilesLeft
  <1> HIDE DEF a, b, c, e
  <1>5. all \in Seq(Calls)
    BY <1>3, AllCallsAre
  <1>6. Left(all, all, zero)
    <2> HIDE DEF all
    <2>1. Len(all) \in Nat
      BY <1>5, LenProperties
    <2>2. zero \in Nat /\ Len(all) = Len(all) - zero
      BY <2>1
    <2>3. \A k \in 1 .. Len(all) : zero + k = k
      OBVIOUS
    <2> QED
      BY <1>5, <2>2, <2>3 DEF Left
  <1>7. Has(nodes, Done(all, zero)) /\ DirsAt(nodes, DirsDone(a, zero))
    <2>1. Done(all, zero) = {}
      BY DEF Done
    <2>2. DirsDone(a, zero) = {}
      BY DEF DirsDone
    <2> QED
      BY <1>2, <2>1, <2>2 DEF DirsAt
  <1>8. Making(nodes, all, a, b, c, e, zero)
    BY <1>6, <1>7 DEF Making
  <1> HIDE DEF all, zero
  <1>9. \E m : Making(nodes, all, a, b, c, e, m)
    BY <1>8
  <1>10. CallsInv'
    BY <1>1, <1>4, <1>9 DEF CallsInv, c
  <1>11. TreeShape' /\ ListsShape'
    BY <1>1, <1>2 DEF TreeShape, ListsShape
  <1>12. OrderOfDirsFree'
    BY <1>1 DEF OrderOfDirsFree
  <1> QED
    BY <1>10, <1>11, <1>12 DEF TreeInv

\* A call of mkdir.
LEMMA MkdirCallKeepsInv ==
    ASSUME TreeInv, MkdirCall
    PROVE  TreeInv'
  <1> DEFINE a == TypeDirs(disc)
             b == FixedFiles(disc)
             c == custom_dir_list
             e == FilesLeft
             p == Head(calls).path
  <1>1. /\ phase = "make" /\ calls # <<>> /\ Head(calls).op = "mkdir"
        /\ UNCHANGED <<disc, custom_dir_list, custom_file_list, dirs_size>>
        /\ \/ /\ CanMkdir(nodes, p) /\ nodes' = Mkdir(nodes, p)
              /\ calls' = Tail(calls) /\ phase' = phase
           \/ ~CanMkdir(nodes, p) /\ phase' = "aborted" /\ nodes' = nodes /\ calls' = calls
    BY DEF MkdirCall, Called, Abort, tree
  <1>2. TreeShape /\ ListsShape
    BY DEF TreeInv
  <1>3. a \in Seq(NamePaths) /\ b \in Seq(NamePaths) /\ c \in Seq(NamePaths) /\ e \in Seq(NamePaths)
        /\ ToSet(Fixed(disc)) = ToSet(a) \cup ToSet(b) /\ AboveFirst(c)
    BY <1>2, ListsAre DEF ListsShape
  <1>4. FilesLeft' = e /\ TypeDirs(disc)' = a /\ FixedFiles(disc)' = b /\ custom_dir_list' = c
    BY <1>1 DEF FilesLeft
  <1>5. PICK m : Making(nodes, calls, a, b, c, e, m)
    BY <1>1 DEF TreeInv, CallsInv
  <1>6. PICK N : Shape(nodes, N)
    BY <1>2 DEF TreeShape
  <1>7. ListsShape'
    BY <1>1, <1>2 DEF ListsShape
  <1>8. p \in NamePaths
    <2>1. calls \in Seq(Calls)
      BY <1>5 DEF Making, Left
    <2>2. Head(calls) \in Calls
      BY <1>1, <2>1, HeadTailProperties
    <2> QED
      BY <2>2 DEF Calls
  <1> HIDE DEF a, b, c, e
  <1>9. CASE CanMkdir(nodes, p)
    <2>1. nodes' = Mkdir(nodes, p) /\ calls' = Tail(calls) /\ phase' = "make"
      BY <1>1, <1>9
    <2>2. Making(Mkdir(nodes, p), Tail(calls), a, b, c, e, m + 1)
      BY <1>1, <1>3, <1>5, <1>6, <1>9, MkdirMakes
    <2>3. \E n : Making(nodes', calls', a, b, c, e, n)
      BY <2>1, <2>2
    <2>4. CallsInv'
      BY <1>4, <2>1, <2>3 DEF CallsInv
    <2>5. \E M : Shape(nodes', M)
      <3> HIDE DEF p
      <3>1. Grown(Mkdir(nodes, p), nodes, N, Lookup(nodes, Front(p)), TRUE, Last(p))
        BY <1>6, <1>8, <1>9, MkdirGrows
      <3> QED
        BY <2>1, <3>1 DEF Grown
    <2>6. TreeShape'
      BY <1>1, <1>2, <2>1, <2>5 DEF TreeShape
    <2>7. OrderOfDirsFree'
      BY <2>1 DEF OrderOfDirsFree
    <2> QED
      BY <1>7, <2>4, <2>6, <2>7 DEF TreeInv
  <1>10. CASE ~CanMkdir(nodes, p)
    <2>1. nodes' = nodes /\ calls' = calls /\ phase' = "aborted"
      BY <1>1, <1>10
    <2>2. \/ p \in ToSet(a) \cup ToSet(b)
          \/ \E j, k \in 1 .. Len(c) : j # k /\ c[j] = c[k]
          \/ Front(p) \notin ToSet(c) \cup ToSet(a) \cup ToSet(b) \cup {<<>>}
      BY <1>1, <1>3, <1>5, <1>6, <1>10, AbortKnown
    <2>3. DOMAIN c = 1 .. Len(c)
      BY <1>3, LenProperties
    <2>4. OrderOfDirsFree'
      BY <1>1, <1>3, <1>4, <2>1, <2>2, <2>3 DEF OrderOfDirsFree
    <2>5. TreeShape' /\ CallsInv'
      BY <1>1, <1>2, <2>1 DEF TreeShape, CallsInv
    <2> QED
      BY <1>7, <2>4, <2>5 DEF TreeInv
  <1> QED
    BY <1>9, <1>10

\* A call of mkfile.
LEMMA MkfileCallKeepsInv ==
    ASSUME TreeInv, MkfileCall
    PROVE  TreeInv'
  <1> DEFINE a == TypeDirs(disc)
             b == FixedFiles(disc)
             c == custom_dir_list
             e == FilesLeft
             p == Head(calls).path
  <1>1. /\ phase = "make" /\ calls # <<>> /\ Head(calls).op = "mkfile"
        /\ UNCHANGED <<disc, custom_dir_list, custom_file_list, dirs_size>>
        /\ \/ nodes' = Mkfile(nodes, p, 0, 1) /\ calls' = Tail(calls) /\ phase' = phase
           \/ phase' = "exited" /\ nodes' = nodes /\ calls' = calls
    BY DEF MkfileCall, Called, tree
  <1>2. TreeShape /\ ListsShape
    BY DEF TreeInv
  <1>3. a \in Seq(NamePaths) /\ b \in Seq(NamePaths) /\ c \in Seq(NamePaths) /\ e \in Seq(NamePaths)
        /\ FilesIn(a, b)
    BY <1>2, ListsAre DEF ListsShape
  <1>4. FilesLeft' = e /\ TypeDirs(disc)' = a /\ FixedFiles(disc)' = b /\ custom_dir_list' = c
    BY <1>1 DEF FilesLeft
  <1>5. PICK m : Making(nodes, calls, a, b, c, e, m)
    BY <1>1 DEF TreeInv, CallsInv
  <1>6. PICK N : Shape(nodes, N)
    BY <1>2 DEF TreeShape
  <1>7. ListsShape'
    BY <1>1, <1>2 DEF ListsShape
  <1>8. p \in NamePaths
    <2>1. calls \in Seq(Calls)
      BY <1>5 DEF Making, Left
    <2>2. Head(calls) \in Calls
      BY <1>1, <2>1, HeadTailProperties
    <2> QED
      BY <2>2 DEF Calls
  <1> HIDE DEF a, b, c, e
  <1>9. CASE nodes' = Mkfile(nodes, p, 0, 1) /\ calls' = Tail(calls) /\ phase' = phase
    <2>2. Making(Mkfile(nodes, p, 0, 1), Tail(calls), a, b, c, e, m + 1)
      BY <1>1, <1>3, <1>5, <1>6, MkfileMakes
    <2>3. \E n : Making(nodes', calls', a, b, c, e, n)
      BY <1>9, <2>2
    <2>4. CallsInv'
      BY <1>1, <1>4, <1>9, <2>3 DEF CallsInv
    <2>5. \E M : Shape(nodes', M)
      <3> HIDE DEF p
      <3>1. \E M : Shape(Mkfile(nodes, p, 0, 1), M)
        BY <1>6, <1>8, MkfileIs
      <3> QED
        BY <1>9, <3>1
    <2>6. TreeShape'
      BY <1>1, <1>2, <1>9, <2>5 DEF TreeShape
    <2>7. OrderOfDirsFree'
      BY <1>1, <1>9 DEF OrderOfDirsFree
    <2> QED
      BY <1>7, <2>4, <2>6, <2>7 DEF TreeInv
  <1>10. CASE phase' = "exited" /\ nodes' = nodes /\ calls' = calls
    <2>1. TreeShape' /\ CallsInv' /\ OrderOfDirsFree'
      BY <1>1, <1>2, <1>10 DEF TreeShape, CallsInv, OrderOfDirsFree
    <2> QED
      BY <1>7, <2>1 DEF TreeInv
  <1> QED
    BY <1>1, <1>9, <1>10

\* The steps behind the calls keep the tree but for what is written into its nodes.
LEMMA WrittenKeepsInv ==
    ASSUME TreeInv, NEW N, Shape(nodes, N), nodes' \in Sames(nodes, N),
           phase' \in {"sized", "dumped", "written"}, dirs_size' \in Nat,
           UNCHANGED <<disc, custom_dir_list, custom_file_list>>
    PROVE  TreeInv'
  <1>1. Shape(nodes', N)
    <2> DEFINE u == nodes'
    <2>1. u \in Sames(nodes, N)
      OBVIOUS
    <2> HIDE DEF u
    <2>2. Shape(u, N)
      BY <2>1, SamesShape
    <2> QED
      BY <2>2 DEF u
  <1>2. TreeShape'
    BY <1>1 DEF TreeInv, TreeShape
  <1>3. ListsShape' /\ CallsInv' /\ OrderOfDirsFree'
    BY DEF TreeInv, ListsShape, CallsInv, OrderOfDirsFree
  <1> QED
    BY <1>2, <1>3 DEF TreeInv

\* The sizes are asked for.
LEMMA AskSizeKeepsInv ==
    ASSUME TreeInv, AskSize
    PROVE  TreeInv'
  <1>1. /\ dirs_size' = GetSize(nodes) /\ nodes' = WithSizes(nodes) /\ phase' = "sized"
        /\ UNCHANGED <<disc, custom_dir_list, custom_file_list>>
    BY DEF AskSize
  <1>2. PICK N : Shape(nodes, N)
    BY DEF TreeInv, TreeShape
  <1> DEFINE u == WithSizes(nodes)
             d == Root
  <1>3. u \in Sames(nodes, N)
    BY <1>2, WithSizesIs
  <1>4. d \in 1 .. N /\ GetSize(nodes) = DirSizes(u, d)
    BY <1>2 DEF Shape, Root, GetSize
  <1> HIDE DEF u, d
  <1>5. Shape(u, N)
    BY <1>2, <1>3, SamesShape
  <1>6. DirSizes(u, d) \in Nat
    BY <1>4, <1>5, DirSizesIs
  <1>7. nodes' \in Sames(nodes, N) /\ dirs_size' \in Nat
    BY <1>1, <1>3, <1>4, <1>6 DEF u
  <1> QED
    BY <1>1, <1>2, <1>7, WrittenKeepsInv

\* The directory is written.
LEMMA WriteDirectoryKeepsInv ==
    ASSUME TreeInv, WriteDirectory
    PROVE  TreeInv'
  <1>1. UNCHANGED <<disc, custom_dir_list, custom_file_list, calls, dirs_size>> /\ phase = "sized"
    BY DEF WriteDirectory
  <1>2. PICK N : Shape(nodes, N)
    BY DEF TreeInv, TreeShape
  <1>3. CASE DumpEntries(DIR_SECTOR) /\ phase' = "dumped"
    <2> DEFINE u == WithSizes(nodes)
               v == WithExtents(u, DIR_SECTOR)
    <2>1. nodes' = v
      BY <1>3 DEF DumpEntries
    <2>2. u \in Sames(nodes, N)
      BY <1>2, WithSizesIs
    <2> HIDE DEF u
    <2>3. Shape(u, N) /\ Sames(u, N) = Sames(nodes, N)
      BY <1>2, <2>2, SamesShape, SamesOfSame
    <2>4. DIR_SECTOR \in Nat
      BY DiscsAssumption
    <2>5. v \in Sames(u, N)
      BY <2>3, <2>4, WithExtentsIs
    <2>6. nodes' \in Sames(nodes, N) /\ dirs_size' \in Nat
      BY <1>1, <2>1, <2>3, <2>5 DEF TreeInv, TreeShape
    <2> QED
      BY <1>1, <1>2, <1>3, <2>6, WrittenKeepsInv
  <1>4. CASE phase' = "lost" /\ UNCHANGED tree
    <2>1. nodes' = nodes
      BY <1>4 DEF tree
    <2>2. TreeShape' /\ ListsShape' /\ CallsInv' /\ OrderOfDirsFree'
      BY <1>1, <1>4, <2>1 DEF TreeInv, TreeShape, ListsShape, CallsInv, OrderOfDirsFree
    <2> QED
      BY <2>2 DEF TreeInv
  <1> QED
    BY <1>3, <1>4 DEF WriteDirectory

\* The path tables are written.
LEMMA WritePathtablesKeepsInv ==
    ASSUME TreeInv, WritePathtables
    PROVE  TreeInv'
  <1>1. /\ DumpPathtables /\ phase' = "written"
        /\ UNCHANGED <<disc, custom_dir_list, custom_file_list, calls, dirs_size>>
    BY DEF WritePathtables
  <1>2. PICK N : Shape(nodes, N)
    BY DEF TreeInv, TreeShape
  <1>3. nodes' \in Sames(nodes, N)
    BY <1>1, <1>2, PathtablesAre
  <1>4. dirs_size' \in Nat
    BY <1>1 DEF TreeInv, TreeShape
  <1> QED
    BY <1>1, <1>2, <1>3, <1>4, WrittenKeepsInv

\* Whatever happens.
LEMMA TreeNextKeepsInv ==
    ASSUME TreeInv, [TreeNext]_treeVars
    PROVE  TreeInv'
  <1>1. ASSUME NEW path \in CustomDirs, AddDir(path) PROVE TreeInv'
    BY <1>1, AddDirKeepsInv
  <1>2. ASSUME NEW path \in CustomFiles, AddFile(path) PROVE TreeInv'
    BY <1>2, AddFileKeepsInv
  <1>3. CASE BeginOutput
    BY <1>3, BeginOutputKeepsInv
  <1>4. CASE MkdirCall
    BY <1>4, MkdirCallKeepsInv
  <1>5. CASE MkfileCall
    BY <1>5, MkfileCallKeepsInv
  <1>6. CASE AskSize
    BY <1>6, AskSizeKeepsInv
  <1>7. CASE WriteDirectory
    BY <1>7, WriteDirectoryKeepsInv
  <1>8. CASE WritePathtables
    BY <1>8, WritePathtablesKeepsInv
  <1>9. CASE UNCHANGED treeVars
    <2>1. UNCHANGED <<nodes, disc, custom_dir_list, custom_file_list, calls, dirs_size, phase>>
      BY <1>9 DEF treeVars
    <2>2. FilesLeft' = FilesLeft
      BY <2>1 DEF FilesLeft
    <2>3. TreeShape' /\ ListsShape' /\ OrderOfDirsFree'
      BY <2>1 DEF TreeInv, TreeShape, ListsShape, OrderOfDirsFree
    <2>4. CallsInv'
      BY <2>1, <2>2 DEF TreeInv, CallsInv
    <2> QED
      BY <2>3, <2>4 DEF TreeInv
  <1> QED
    BY <1>1, <1>2, <1>3, <1>4, <1>5, <1>6, <1>7, <1>8, <1>9 DEF TreeNext

-----------------------------------------------------------------------------
(* What run tree checks.                                                   *)

\* The invariant of the tree, the lists and the calls holds in every state.
THEOREM TreeInvCorrect == TreeSpec => []TreeInv
  <1>1. TreeInit => TreeInv
    BY InitTreeInv
  <1>2. TreeInv /\ [TreeNext]_treeVars => TreeInv'
    BY TreeNextKeepsInv
  <1> QED
    BY <1>1, <1>2, PTL DEF TreeSpec

\* Every list of children is one that a walk and an append may trust, holds the
\* nodes that have it for parent, and is in the order of names, whatever is added.
THEOREM TreeTypeOKCorrect == TreeSpec => []TreeTypeOK
  <1>1. TreeInv => TreeTypeOK
    <2> SUFFICES ASSUME TreeInv PROVE TreeTypeOK
      OBVIOUS
    <2>1. /\ phase \in {"build", "make", "sized", "dumped", "written", "aborted", "exited", "lost"}
          /\ dirs_size \in Nat
      BY DEF TreeInv, TreeShape
    <2>2. PICK N : Shape(nodes, N)
      BY DEF TreeInv, TreeShape
    <2>3. DOMAIN nodes = 1 .. N
      BY <2>2 DEF Shape
    <2>4. ASSUME NEW n \in 1 .. N
          PROVE  /\ Sound(nodes[n].children)
                 /\ ToSet(Children(nodes, n)) = {c \in DOMAIN nodes : nodes[c].parent = n}
                 /\ \A k \in 2 .. nodes[n].children.length :
                       Rank(nodes[Children(nodes, n)[k - 1]].name) < Rank(nodes[Children(nodes, n)[k]].name)
      <3> DEFINE q == Children(nodes, n)
                 list == nodes[n].children
      <3>1. /\ Children(nodes, n) \in Seq(2 .. N)
            /\ Linked(nodes[n].children, Children(nodes, n))
            /\ \A c : (c \in 1 .. N /\ nodes[c].parent = n)
                         <=> \E k \in 1 .. Len(Children(nodes, n)) : c = Children(nodes, n)[k]
            /\ \A k \in 1 .. Len(Children(nodes, n)) : \A j \in 1 .. k - 1 :
                  Rank(nodes[Children(nodes, n)[j]].name) < Rank(nodes[Children(nodes, n)[k]].name)
        BY <2>2, ChildrenAre
      <3> HIDE DEF q, list
      <3>2. Linked(list, q)
        BY <3>1 DEF q, list
      <3>3. Sound(list)
        BY <3>2, LinkedIsSound
      <3>4. list.length = Len(q) /\ Len(q) \in Nat /\ DOMAIN q = 1 .. Len(q)
        BY <3>2, LenProperties DEF Linked
      <3>5. ToSet(q) = {c \in DOMAIN nodes : nodes[c].parent = n}
        BY <2>3, <3>1, <3>4 DEF ToSet, q
      <3>6. ASSUME NEW k \in 2 .. list.length
            PROVE  Rank(nodes[q[k - 1]].name) < Rank(nodes[q[k]].name)
        <4>1. k \in 1 .. Len(q) /\ k - 1 \in 1 .. k - 1
          BY <3>4
        <4> QED
          BY <3>1, <4>1 DEF q
      <3> QED
        BY <3>3, <3>5, <3>6 DEF q, list
    <2> QED
      BY <2>1, <2>3, <2>4 DEF TreeTypeOK
  <1> QED
    BY <1>1, TreeInvCorrect, PTL

\* begin_output aborts only for a directory that is there already, was added twice,
\* or is in one that nobody adds, whatever order they were added in.
THEOREM OrderOfDirsFreeCorrect == TreeSpec => []OrderOfDirsFree
  <1>1. TreeInv => OrderOfDirsFree
    BY DEF TreeInv
  <1> QED
    BY <1>1, TreeInvCorrect, PTL

=============================================================================
