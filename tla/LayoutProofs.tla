----------------------------- MODULE LayoutProofs -----------------------------
(***************************************************************************)
(* What the calls that build a disc preserve, for every disc type, every   *)
(* stream and every order of the calls; and the layout of an image, for    *)
(* every disc, every size of an area and every place of the ISO 9660 track *)
(* that module IsoTrack assumes.                                           *)
(***************************************************************************)
EXTENDS Mastering, CommonProofs, FiniteSets, SequenceTheorems, FiniteSetTheorems, TLAPS

buildVars == <<objVars, in_output, aborted>>

-----------------------------------------------------------------------------
(* Lemmas on the operators.                                                *)

\* vcd_obj_set_param clamps: the value stays between the limits.
LEMMA ClampBounds ==
    ASSUME NEW value \in Int, NEW low \in Int, NEW high \in Int, low <= high
    PROVE  /\ Clamp(value, <<low, high>>) \in low .. high
           /\ value \in low .. high => Clamp(value, <<low, high>>) = value
  BY DEF Clamp

\* Every parameter's limits are naturals.
LEMMA LimitsAreNat ==
    ASSUME NEW param \in Params
    PROVE  /\ ParamLimits[param][1] \in Nat
           /\ ParamLimits[param][2] \in Nat
  BY ObjAssumption DEF Params, ParamLimits

\* _vcd_len2blocks returns the least number of blocks that hold len.
LEMMA Len2BlocksEnough ==
    ASSUME NEW len \in Nat, NEW blocksize \in Nat \ {0}
    PROVE  /\ Len2Blocks(len, blocksize) \in Nat
           /\ Len2Blocks(len, blocksize) * blocksize >= len
           /\ Len2Blocks(len, blocksize) * blocksize < len + blocksize
           /\ len # 0 => Len2Blocks(len, blocksize) # 0
  <1> DEFINE q == len \div blocksize
             r == len % blocksize
  <1>1. q \in Nat /\ r \in 0 .. blocksize - 1 /\ len = blocksize * q + r
    OBVIOUS
  <1> HIDE DEF q, r
  <1>2. Len2Blocks(len, blocksize) = q + (IF r = 0 THEN 0 ELSE 1)
    BY DEF Len2Blocks, q, r
  <1>3. CASE r = 0
    BY <1>1, <1>2, <1>3
  <1>4. CASE r # 0
    <2>1. Len2Blocks(len, blocksize) = q + 1
      BY <1>2, <1>4
    <2>2. (q + 1) * blocksize = blocksize * q + blocksize
      BY <1>1
    <2> QED
      BY <1>1, <1>4, <2>1, <2>2
  <1> QED
    BY <1>3, <1>4

\* The list insertion of _vcd_list_sort's result: the new element at position at,
\* the others in their order around it.
LEMMA InsertAtProperties ==
    ASSUME NEW S, NEW s \in Seq(S), NEW at \in 1 .. Len(s) + 1, NEW elt \in S
    PROVE  /\ InsertAt(s, at, elt) \in Seq(S)
           /\ Len(InsertAt(s, at, elt)) = Len(s) + 1
           /\ \A j \in 1 .. Len(s) + 1 :
                InsertAt(s, at, elt)[j] =
                    (IF j < at THEN s[j] ELSE IF j = at THEN elt ELSE s[j - 1])
  <1> DEFINE front == SubSeq(s, 1, at - 1)
             back == SubSeq(s, at, Len(s))
             head == front \o <<elt>>
  <1>1. Len(s) \in Nat /\ at \in Nat /\ at >= 1 /\ at <= Len(s) + 1
    BY LenProperties
  <1>2. /\ front \in Seq(S)
        /\ Len(front) = at - 1
        /\ \A j \in 1 .. at - 1 : front[j] = s[j]
    <2>1. \A j \in 1 .. at - 1 : s[j] \in S
      BY <1>1, ElementOfSeq
    <2> QED
      BY <1>1, <2>1, SubSeqProperties
  <1>3. /\ back \in Seq(S)
        /\ Len(back) = Len(s) - at + 1
        /\ \A j \in 1 .. Len(s) - at + 1 : back[j] = s[at + j - 1]
    <2>1. \A j \in at .. Len(s) : s[j] \in S
      BY <1>1, ElementOfSeq
    <2> QED
      BY <1>1, <2>1, SubSeqProperties
  <1>4. <<elt>> \in Seq(S) /\ Len(<<elt>>) = 1 /\ <<elt>>[1] = elt
    OBVIOUS
  <1> HIDE DEF front, back
  <1>5. /\ head \in Seq(S)
        /\ Len(head) = at
        /\ \A j \in 1 .. at : head[j] = (IF j < at THEN s[j] ELSE elt)
    <2>1. /\ head \in Seq(S)
          /\ Len(head) = Len(front) + Len(<<elt>>)
          /\ \A j \in 1 .. Len(front) + Len(<<elt>>) :
                head[j] = IF j <= Len(front) THEN front[j] ELSE <<elt>>[j - Len(front)]
      BY <1>2, <1>4, ConcatProperties
    <2>2. Len(front) = at - 1 /\ Len(front) + Len(<<elt>>) = at
      BY <1>1, <1>2, <1>4
    <2>3. ASSUME NEW j \in 1 .. at PROVE head[j] = (IF j < at THEN s[j] ELSE elt)
      <3>1. CASE j < at
        <4>1. j \in 1 .. at - 1 /\ j <= Len(front) /\ j \in 1 .. Len(front) + Len(<<elt>>)
          BY <1>1, <2>2, <3>1
        <4> QED
          BY <1>2, <2>1, <3>1, <4>1
      <3>2. CASE ~(j < at)
        <4>1. /\ j \in 1 .. Len(front) + Len(<<elt>>)
              /\ ~(j <= Len(front))
              /\ j - Len(front) = 1
          BY <1>1, <2>2, <3>2
        <4>2. head[j] = <<elt>>[j - Len(front)]
          BY <2>1, <4>1
        <4> QED
          BY <1>4, <3>2, <4>1, <4>2
      <3> QED
        BY <3>1, <3>2
    <2> QED
      BY <2>1, <2>2, <2>3
  <1> HIDE DEF head
  <1>6. /\ head \o back \in Seq(S)
        /\ Len(head \o back) = Len(head) + Len(back)
        /\ \A j \in 1 .. Len(head) + Len(back) :
              (head \o back)[j] = IF j <= Len(head) THEN head[j] ELSE back[j - Len(head)]
    BY <1>3, <1>5, ConcatProperties
  <1>7. InsertAt(s, at, elt) = head \o back
    BY DEF InsertAt, head, front, back
  <1>8. Len(InsertAt(s, at, elt)) = Len(s) + 1
    BY <1>1, <1>3, <1>5, <1>6, <1>7
  <1>9. ASSUME NEW j \in 1 .. Len(s) + 1
        PROVE  InsertAt(s, at, elt)[j] =
                    (IF j < at THEN s[j] ELSE IF j = at THEN elt ELSE s[j - 1])
    <2>1. CASE j <= at
      BY <1>1, <1>3, <1>5, <1>6, <1>7, <2>1
    <2>2. CASE j > at
      <3>1. j - at \in 1 .. Len(s) - at + 1 /\ at + (j - at) - 1 = j - 1
        BY <1>1, <2>2
      <3>5. Len(head) = at /\ Len(back) = Len(s) - at + 1
        BY <1>3, <1>5
      <3>6. j \in 1 .. Len(head) + Len(back) /\ ~(j <= Len(head))
        BY <1>1, <2>2, <3>5
      <3>2. (head \o back)[j] = back[j - at]
        BY <1>6, <3>5, <3>6
      <3>3. back[j - at] = s[at + (j - at) - 1]
        BY <1>3, <3>1
      <3>4. InsertAt(s, at, elt)[j] = s[j - 1]
        BY <1>7, <3>1, <3>2, <3>3
      <3> QED
        BY <1>1, <2>2, <3>4
    <2> QED
      BY <1>1, <2>1, <2>2
  <1> QED
    BY <1>6, <1>7, <1>8, <1>9

\* The entry points of a list in order of time: of any two, the earlier in the
\* list is no later in time.
Ordered(entries) ==
    \A d, e \in DOMAIN entries : d <= e => entries[d].time <= entries[e].time

NoLater(entries, time) == {e \in DOMAIN entries : entries[e].time <= time}

\* The times of a list of entry points.
LEMMA EntryTimesAreInt ==
    ASSUME NEW ids, NEW entries \in Seq(EntryType(ids))
    PROVE  \A e \in DOMAIN entries : entries[e].time \in Int
  <1>1. TAKE e \in DOMAIN entries
  <1>2. entries[e] \in EntryType(ids)
    BY ElementOfSeq, LenProperties
  <1> QED
    BY <1>2 DEF EntryType

\* vcd_obj_add_sequence_entry's sort has a place for the new entry point.
LEMMA PlaceInList ==
    ASSUME NEW ids, NEW entries \in Seq(EntryType(ids)), NEW time \in Int
    PROVE  /\ NoLater(entries, time) \subseteq 1 .. Len(entries)
           /\ IsFiniteSet(NoLater(entries, time))
           /\ Cardinality(NoLater(entries, time)) \in 0 .. Len(entries)
  <1>1. Len(entries) \in Nat /\ DOMAIN entries = 1 .. Len(entries)
    BY LenProperties
  <1>2. /\ IsFiniteSet(1 .. Len(entries))
        /\ Cardinality(1 .. Len(entries)) = Len(entries)
    BY <1>1, FS_Interval
  <1>3. NoLater(entries, time) \subseteq 1 .. Len(entries)
    BY <1>1 DEF NoLater
  <1>4. /\ IsFiniteSet(NoLater(entries, time))
        /\ Cardinality(NoLater(entries, time)) <= Len(entries)
    BY <1>2, <1>3, FS_Subset
  <1>5. Cardinality(NoLater(entries, time)) \in Nat
    BY <1>4, FS_CardinalityType
  <1> QED
    BY <1>1, <1>3, <1>4, <1>5

\* In a list in order the entry points no later than time are its first ones.
LEMMA NoLaterIsPrefix ==
    ASSUME NEW ids, NEW entries \in Seq(EntryType(ids)), NEW time \in Int,
           Ordered(entries)
    PROVE  NoLater(entries, time) = 1 .. Cardinality(NoLater(entries, time))
  <1> DEFINE S == NoLater(entries, time)
             c == Cardinality(S)
  <1>1. S \subseteq 1 .. Len(entries) /\ IsFiniteSet(S) /\ c \in 0 .. Len(entries)
    BY PlaceInList
  <1>2. Len(entries) \in Nat /\ DOMAIN entries = 1 .. Len(entries)
    BY LenProperties
  <1>3. \A e \in DOMAIN entries : entries[e].time \in Int
    BY EntryTimesAreInt
  <1>4. ASSUME NEW e \in S PROVE e <= c
    <2>1. 1 .. e \subseteq S
      BY <1>1, <1>2, <1>3 DEF NoLater, Ordered
    <2>2. Cardinality(1 .. e) = e
      BY <1>1, FS_Interval
    <2> HIDE DEF S
    <2>3. Cardinality(1 .. e) <= Cardinality(S)
      BY <1>1, <2>1, FS_Subset
    <2> QED
      BY <2>2, <2>3
  <1>5. S \subseteq 1 .. c
    BY <1>1, <1>4
  <1>6. IsFiniteSet(1 .. c) /\ Cardinality(1 .. c) = c
    BY <1>1, FS_Interval
  <1> HIDE DEF S
  <1>7. S = 1 .. c
    BY <1>5, <1>6, FS_Subset
  <1> QED
    BY <1>7 DEF S

\* The list with a new entry point holds entry points, one more.
LEMMA WithEntryType ==
    ASSUME NEW ids, NEW entries \in Seq(EntryType(ids)), NEW entry \in EntryType(ids)
    PROVE  WithEntry(entries, entry) \in Seq(EntryType(ids))
  <1>1. entry.time \in Int
    BY DEF EntryType
  <1> DEFINE c == Cardinality(NoLater(entries, entry.time))
  <1>2. c \in 0 .. Len(entries)
    BY <1>1, PlaceInList
  <1>3. WithEntry(entries, entry) = InsertAt(entries, c + 1, entry)
    BY DEF WithEntry, NoLater
  <1>4. Len(entries) \in Nat
    BY LenProperties
  <1> DEFINE at == c + 1
  <1>5. at \in 1 .. Len(entries) + 1
    BY <1>2, <1>4
  <1>6. WithEntry(entries, entry) = InsertAt(entries, at, entry)
    BY <1>3
  <1> HIDE DEF c, at
  <1>7. InsertAt(entries, at, entry) \in Seq(EntryType(ids))
    BY <1>5, InsertAtProperties
  <1> QED
    BY <1>6, <1>7

\* Appending, then sorting by time keeps a list in order.
LEMMA WithEntryOrdered ==
    ASSUME NEW ids, NEW entries \in Seq(EntryType(ids)), NEW entry \in EntryType(ids),
           Ordered(entries)
    PROVE  Ordered(WithEntry(entries, entry))
  <1> DEFINE c == Cardinality(NoLater(entries, entry.time))
             new == InsertAt(entries, c + 1, entry)
  <1>1. entry.time \in Int
    BY DEF EntryType
  <1>2. NoLater(entries, entry.time) = 1 .. c
    BY <1>1, NoLaterIsPrefix
  <1>3. c \in 0 .. Len(entries)
    BY <1>1, PlaceInList
  <1>4. Len(entries) \in Nat /\ DOMAIN entries = 1 .. Len(entries)
    BY LenProperties
  <1>5. \A e \in DOMAIN entries : entries[e].time \in Int
    BY EntryTimesAreInt
  <1>6. \A e \in 1 .. Len(entries) : e <= c <=> entries[e].time <= entry.time
    BY <1>2, <1>3, <1>4 DEF NoLater
  <1>7. WithEntry(entries, entry) = new
    BY DEF WithEntry, NoLater
  <1> HIDE DEF c
  <1>8. c + 1 \in 1 .. Len(entries) + 1
    BY <1>3, <1>4
  <1>9. /\ new \in Seq(EntryType(ids))
        /\ Len(new) = Len(entries) + 1
        /\ \A j \in 1 .. Len(entries) + 1 :
              new[j] = IF j < c + 1 THEN entries[j]
                       ELSE IF j = c + 1 THEN entry ELSE entries[j - 1]
    <2> DEFINE at == c + 1
    <2>1. at \in 1 .. Len(entries) + 1
      BY <1>8
    <2> HIDE DEF at
    <2>2. InsertAt(entries, at, entry) \in Seq(EntryType(ids))
      BY <2>1, InsertAtProperties
    <2>3. Len(InsertAt(entries, at, entry)) = Len(entries) + 1
      BY <2>1, InsertAtProperties
    <2>4. \A j \in 1 .. Len(entries) + 1 :
             InsertAt(entries, at, entry)[j] =
                (IF j < at THEN entries[j]
                 ELSE IF j = at THEN entry ELSE entries[j - 1])
      BY <2>1, InsertAtProperties
    <2> QED
      BY <2>2, <2>3, <2>4 DEF at
  <1>10. DOMAIN new = 1 .. Len(entries) + 1
    BY <1>9, LenProperties
  <1> HIDE DEF new
  <1>11. ASSUME NEW d \in DOMAIN new, NEW e \in DOMAIN new, d <= e
         PROVE  new[d].time <= new[e].time
    <2>1. CASE e <= c
      BY <1>3, <1>4, <1>9, <1>10, <1>11, <2>1 DEF Ordered
    <2>2. CASE e = c + 1
      <3>1. CASE d <= c
        BY <1>3, <1>4, <1>6, <1>9, <1>10, <2>2, <3>1
      <3>2. CASE d = c + 1
        BY <1>1, <1>3, <1>4, <1>9, <1>10, <2>2, <3>2
      <3> QED
        BY <1>3, <1>4, <1>10, <1>11, <2>2, <3>1, <3>2
    <2>3. CASE e > c + 1
      <3>1. new[e] = entries[e - 1] /\ e - 1 \in 1 .. Len(entries) /\ e - 1 > c
        BY <1>3, <1>4, <1>9, <1>10, <2>3
      <3>2. entry.time <= entries[e - 1].time
        BY <1>1, <1>3, <1>4, <1>5, <1>6, <3>1
      <3>3. CASE d <= c
        BY <1>3, <1>4, <1>9, <1>10, <3>1, <3>3 DEF Ordered
      <3>4. CASE d = c + 1
        BY <1>3, <1>4, <1>9, <1>10, <3>1, <3>2, <3>4
      <3>5. CASE d > c + 1
        <4>1. new[d] = entries[d - 1] /\ d - 1 \in 1 .. Len(entries)
          BY <1>3, <1>4, <1>9, <1>10, <3>5
        <4> QED
          BY <1>4, <1>10, <1>11, <3>1, <4>1 DEF Ordered
      <3> QED
        BY <1>3, <1>4, <1>10, <3>3, <3>4, <3>5
    <2> QED
      BY <1>3, <1>4, <1>10, <2>1, <2>2, <2>3
  <1> QED
    BY <1>7, <1>11 DEF Ordered

-----------------------------------------------------------------------------
(* The shape of the object.                                                *)

\* Every id a client gives is one of AllIds.
LEMMA IdsInAllIds ==
    /\ \A kind \in ItemKinds : Ids[kind] \subseteq AllIds
    /\ NoId \in AllIds
  <1>1. ASSUME NEW kind \in ItemKinds, NEW id \in Ids[kind]
        PROVE  id \in AllIds
    <2>1. Ids[kind] \in {Ids[k] : k \in ItemKinds}
      OBVIOUS
    <2>2. id \in UNION {Ids[k] : k \in ItemKinds}
      BY <2>1, Zenon
    <2> QED
      BY <2>2 DEF AllIds
  <1>2. NoId \in AllIds
    BY DEF AllIds
  <1> QED
    BY <1>1, <1>2, Zenon

\* vcd_obj_new makes a well-formed object.
LEMMA InitType == ObjInit => ObjTypeOK
  <1> SUFFICES ASSUME ObjInit PROVE ObjTypeOK
    OBVIOUS
  <1>1. prm \in [Params -> Nat]
    BY ObjAssumption DEF ObjInit, Params, ParamLimits
  <1>2. /\ sequences \in Seq(SequenceType(AllIds))
        /\ segments \in Seq(SegmentType(AllIds))
        /\ files \in Seq(FileType)
        /\ pbc_list \in Seq([id : AllIds, item_id : AllIds])
    BY EmptySeq DEF ObjInit
  <1> QED
    BY <1>1, <1>2 DEF ObjInit, ObjTypeOK

\* vcd_obj_set_param keeps the shape of the object.
LEMMA SetParamType ==
    ASSUME ObjTypeOK, NEW a \in Arguments, SetParam(a[1], a[2])
    PROVE  ObjTypeOK'
  <1>1. a[1] \in Params /\ a[2] \in Nat
    BY ObjAssumption
  <1>2. ParamLimits[a[1]][1] \in Nat /\ ParamLimits[a[1]][2] \in Nat
    BY <1>1, LimitsAreNat
  <1>3. Clamp(a[2], ParamLimits[a[1]]) \in Nat
    BY <1>1, <1>2 DEF Clamp
  <1>4. prm' \in [Params -> Nat]
    BY <1>1, <1>3 DEF SetParam, ObjTypeOK
  <1> QED
    BY <1>4 DEF SetParam, ObjTypeOK

\* The sequence that append_sequence appends.
NewSequence(source, item_id, default_entry_id) ==
    [source |-> source, id |-> item_id,
     default_entry_id |-> default_entry_id, entries |-> <<>>,
     relative_start_extent |-> relative_end_extent + prm.track_pregap]

\* The parameters that append_sequence adds up are naturals.
LEMMA ParamTypes ==
    ASSUME ObjTypeOK
    PROVE  /\ prm.track_pregap \in Nat
           /\ prm.track_front_margin \in Nat
           /\ prm.track_rear_margin \in Nat
           /\ prm.leadout_pregap \in Nat
  BY DEF ObjTypeOK, Params, ParamLimits

\* vcd_obj_append_sequence_play_item keeps the shape of the object.
LEMMA AppendSequenceType ==
    ASSUME ObjTypeOK, NEW s \in Sources, NEW id \in Ids.sequence, NEW d \in Ids.default,
           AppendSequence(s, id, d)
    PROVE  ObjTypeOK'
  <1>1. s \in SourceType /\ s.packets \in Nat
    BY ObjAssumption DEF SourceType
  <1>2. id \in AllIds /\ d \in AllIds
    BY IdsInAllIds DEF ItemKinds
  <1>3. <<>> \in Seq(EntryType(AllIds))
    BY EmptySeq
  <1>4. relative_end_extent \in Nat
    BY DEF ObjTypeOK
  <1>5. NewSequence(s, id, d) \in SequenceType(AllIds)
    BY <1>1, <1>2, <1>3, <1>4, ParamTypes DEF NewSequence, SequenceType
  <1>6. sequences' = Append(sequences, NewSequence(s, id, d))
    BY DEF AppendSequence, NewSequence
  <1>7. sequences' \in Seq(SequenceType(AllIds))
    BY <1>5, <1>6, AppendProperties DEF ObjTypeOK
  <1>8. relative_end_extent' \in Nat
    <2>1. relative_end_extent' = relative_end_extent + prm.track_pregap + prm.track_front_margin
                                   + s.packets + prm.track_rear_margin
      BY DEF AppendSequence
    <2> QED
      BY <1>1, <1>4, <2>1, ParamTypes
  <1> QED
    BY <1>7, <1>8 DEF AppendSequence, ObjTypeOK

\* Replacing the entry points of a sequence, or of it one field.
LEMMA EntriesOfSequence ==
    ASSUME NEW ids, NEW seqs \in Seq(SequenceType(ids)), NEW k \in DOMAIN seqs,
           NEW entries \in Seq(EntryType(ids))
    PROVE  /\ [seqs EXCEPT ![k].entries = entries] \in Seq(SequenceType(ids))
           /\ Len([seqs EXCEPT ![k].entries = entries]) = Len(seqs)
           /\ \A j \in DOMAIN seqs :
                 [seqs EXCEPT ![k].entries = entries][j] =
                    (IF j = k THEN [seqs[k] EXCEPT !.entries = entries] ELSE seqs[j])
  <1> DEFINE new == [seqs[k] EXCEPT !.entries = entries]
  <1>1. k \in 1 .. Len(seqs) /\ DOMAIN seqs = 1 .. Len(seqs)
    BY LenProperties
  <1>2. seqs[k] \in SequenceType(ids)
    BY <1>1, ElementOfSeq
  <1>3. new \in SequenceType(ids)
    BY <1>2 DEF SequenceType
  <1>4. [seqs EXCEPT ![k].entries = entries] = [seqs EXCEPT ![k] = new]
    OBVIOUS
  <1> HIDE DEF new
  <1>5. /\ [seqs EXCEPT ![k] = new] \in Seq(SequenceType(ids))
        /\ Len([seqs EXCEPT ![k] = new]) = Len(seqs)
        /\ \A j \in 1 .. Len(seqs) :
              [seqs EXCEPT ![k] = new][j] = IF j = k THEN new ELSE seqs[j]
    BY <1>1, <1>3, ExceptSeq
  <1> QED
    BY <1>1, <1>4, <1>5 DEF new

\* The entry point that add_sequence_entry adds.
NewEntry(time, id) ==
    [time |-> time, id |-> id, aps |-> [packet_no |-> 0, timestamp |-> 0]]

\* What vcd_obj_add_sequence_entry makes is an entry point.
LEMMA NewEntryType ==
    ASSUME NEW time \in EntryTimes, NEW id \in Ids.entry
    PROVE  NewEntry(time, id) \in EntryType(AllIds)
  <1>1. time \in Int
    BY ObjAssumption
  <1>2. id \in AllIds
    BY IdsInAllIds DEF ItemKinds
  <1>3. [packet_no |-> 0, timestamp |-> 0] \in ApsData
    BY DEF ApsData
  <1> QED
    BY <1>1, <1>2, <1>3 DEF NewEntry, EntryType

\* What a list of entry points and a sequence of a well-formed object hold.
LEMMA SequenceTypes ==
    ASSUME ObjTypeOK, NEW k \in DOMAIN sequences
    PROVE  /\ k \in 1 .. Len(sequences)
           /\ sequences[k] \in SequenceType(AllIds)
           /\ sequences[k].entries \in Seq(EntryType(AllIds))
           /\ sequences[k].source \in SourceType
           /\ sequences[k].source.packets \in Nat
           /\ sequences[k].relative_start_extent \in Nat
  <1>1. sequences \in Seq(SequenceType(AllIds))
    BY DEF ObjTypeOK
  <1>2. k \in 1 .. Len(sequences)
    BY <1>1, LenProperties
  <1>3. sequences[k] \in SequenceType(AllIds)
    BY <1>1, <1>2, ElementOfSeq
  <1> QED
    BY <1>2, <1>3 DEF SequenceType, SourceType

\* vcd_obj_add_sequence_entry keeps the shape of the object.
LEMMA AddSequenceEntryType ==
    ASSUME ObjTypeOK, NEW k \in DOMAIN sequences, NEW t \in EntryTimes,
           NEW id \in Ids.entry, NEW q, AddSequenceEntry(k, q, t, id)
    PROVE  /\ ObjTypeOK'
           /\ sequences' = [sequences EXCEPT ![k].entries =
                                WithEntry(sequences[k].entries, NewEntry(t, id))]
  <1> DEFINE new == WithEntry(sequences[k].entries, NewEntry(t, id))
  <1>1. new \in Seq(EntryType(AllIds))
    BY SequenceTypes, NewEntryType, WithEntryType
  <1>2. sequences' = [sequences EXCEPT ![k].entries = new]
    BY DEF AddSequenceEntry, NewEntry
  <1> HIDE DEF new
  <1>3. sequences \in Seq(SequenceType(AllIds))
    BY DEF ObjTypeOK
  <1>4. sequences' \in Seq(SequenceType(AllIds))
    BY <1>1, <1>2, <1>3, EntriesOfSequence
  <1>5. ObjTypeOK'
    BY <1>4 DEF AddSequenceEntry, ObjTypeOK
  <1> QED
    BY <1>2, <1>5 DEF new

\* vcd_obj_append_segment_play_item keeps the shape: a segment has packets, so
\* it has a unit of play.
LEMMA AppendSegmentType ==
    ASSUME ObjTypeOK, NEW s \in Sources, NEW id \in Ids.segment, AppendSegment(s, id)
    PROVE  ObjTypeOK'
  <1> DEFINE new == [source |-> s, id |-> id, start_extent |-> 0,
                     segment_count |-> Len2Blocks(s.packets, SEGMENT_SECTOR_SIZE)]
  <1>1. s \in SourceType /\ s.packets \in Nat
    BY ObjAssumption DEF SourceType
  <1>2. id \in AllIds
    BY IdsInAllIds DEF ItemKinds
  <1>3. s.packets # 0
    BY DEF AppendSegment
  <1>4. Len2Blocks(s.packets, SEGMENT_SECTOR_SIZE) \in Nat \ {0}
    BY <1>1, <1>3, ObjAssumption, Len2BlocksEnough
  <1>5. new \in SegmentType(AllIds)
    BY <1>1, <1>2, <1>4 DEF SegmentType
  <1>6. segments' = Append(segments, new)
    BY DEF AppendSegment
  <1> HIDE DEF new
  <1>7. segments' \in Seq(SegmentType(AllIds))
    BY <1>5, <1>6, AppendProperties DEF ObjTypeOK
  <1> QED
    BY <1>7 DEF AppendSegment, ObjTypeOK

\* vcd_obj_add_file keeps the shape of the object.
LEMMA AddFileType ==
    ASSUME ObjTypeOK, NEW size \in FileSectors, AddFile(size)
    PROVE  ObjTypeOK'
  <1>1. [sectors |-> size, start_extent |-> 0] \in FileType
    BY ObjAssumption DEF FileType
  <1>2. files' \in Seq(FileType)
    BY <1>1, AppendProperties DEF AddFile, ObjTypeOK
  <1> QED
    BY <1>2 DEF AddFile, ObjTypeOK

\* vcd_obj_append_pbc_node keeps the shape of the object.
LEMMA AppendPbcNodeType ==
    ASSUME ObjTypeOK, NEW id \in Ids.node, NEW p \in Ids.played, AppendPbcNode(id, p)
    PROVE  ObjTypeOK'
  <1>1. id \in AllIds /\ p \in AllIds
    BY IdsInAllIds DEF ItemKinds
  <1>2. [id |-> id, item_id |-> p] \in [id : AllIds, item_id : AllIds]
    BY <1>1
  <1>3. pbc_list' \in Seq([id : AllIds, item_id : AllIds])
    BY <1>2, AppendProperties DEF AppendPbcNode, ObjTypeOK
  <1> QED
    BY <1>3 DEF AppendPbcNode, ObjTypeOK

\* Every call that fills the object keeps its shape.
LEMMA BuildNextType == ObjTypeOK /\ BuildNext => ObjTypeOK'
  <1> SUFFICES ASSUME ObjTypeOK, BuildNext PROVE ObjTypeOK'
    OBVIOUS
  <1>1. CASE \E a \in Arguments : SetParam(a[1], a[2])
    BY <1>1, SetParamType
  <1>2. CASE \E s \in Sources, u \in Ids.sequence, d \in Ids.default :
                AppendSequence(s, u, d)
    BY <1>2, AppendSequenceType
  <1>3. CASE \E k \in DOMAIN sequences, t \in EntryTimes, u \in Ids.entry :
                \E q \in Ids.sequence \cup {NoId} : AddSequenceEntry(k, q, t, u)
    BY <1>3, AddSequenceEntryType
  <1>4. CASE \E s \in Sources, u \in Ids.segment : AppendSegment(s, u)
    BY <1>4, AppendSegmentType
  <1>5. CASE \E v \in FileSectors : AddFile(v)
    BY <1>5, AddFileType
  <1>6. CASE \E u \in Ids.node, p \in Ids.played : AppendPbcNode(u, p)
    BY <1>6, AppendPbcNodeType
  <1>7. CASE \/ \E u \in Ids.sequence, d \in Ids.default : LookupFails(<<u, d>>)
             \/ \E u \in Ids.entry \cup Ids.segment \cup Ids.played : LookupFails(<<u>>)
    BY <1>7 DEF LookupFails, objVars, ObjTypeOK
  <1> QED
    BY <1>1, <1>2, <1>3, <1>4, <1>5, <1>6, <1>7 DEF BuildNext

\* The object has the shape of struct _VcdObj after any calls in any order: every
\* parameter is a natural, every sequence starts at a sector, every segment has at
\* least one unit of play, whatever streams, ids and times the client gives.
THEOREM ObjTypeCorrect == ObjSpec => []ObjTypeOK
  <1>1. ObjTypeOK /\ UNCHANGED buildVars => ObjTypeOK'
    BY DEF buildVars, objVars, ObjTypeOK
  <1> QED
    BY <1>1, InitType, BuildNextType, PTL DEF ObjSpec, buildVars

-----------------------------------------------------------------------------
(* Entry points are in order of time.                                      *)

\* EntriesSorted compares neighbours; the insertion needs the order of any two.
EntriesOrdered == \A k \in DOMAIN sequences : Ordered(sequences[k].entries)

\* Entry points in order two by two are in order one after the other.
LEMMA OrderedIsSorted ==
    ASSUME ObjTypeOK, EntriesOrdered
    PROVE  EntriesSorted
  <1> SUFFICES ASSUME NEW k \in DOMAIN sequences,
                      NEW e \in 2 .. Len(sequences[k].entries)
               PROVE  sequences[k].entries[e - 1].time <= sequences[k].entries[e].time
    BY DEF EntriesSorted
  <1>1. /\ Len(sequences[k].entries) \in Nat
        /\ DOMAIN sequences[k].entries = 1 .. Len(sequences[k].entries)
    BY SequenceTypes, LenProperties
  <1>2. e \in DOMAIN sequences[k].entries /\ e - 1 \in DOMAIN sequences[k].entries
    BY <1>1
  <1> QED
    BY <1>2 DEF EntriesOrdered, Ordered

\* A sequence starts without entry points.
LEMMA AppendSequenceOrdered ==
    ASSUME ObjTypeOK, EntriesOrdered, NEW s \in Sources, NEW id \in Ids.sequence,
           NEW d \in Ids.default, AppendSequence(s, id, d)
    PROVE  EntriesOrdered'
  <1>1. sequences' = Append(sequences, NewSequence(s, id, d))
    BY DEF AppendSequence, NewSequence
  <1>2. sequences \in Seq(SequenceType(AllIds))
    BY DEF ObjTypeOK
  <1>3. Len(sequences) \in Nat /\ DOMAIN sequences = 1 .. Len(sequences)
    BY <1>2, LenProperties
  <1>4. DOMAIN sequences' = 1 .. Len(sequences) + 1
    BY <1>1, <1>2, <1>3
  <1>5. \A k \in 1 .. Len(sequences) : sequences'[k] = sequences[k]
    BY <1>1, <1>2, <1>3
  <1>6. sequences'[Len(sequences) + 1].entries = <<>>
    BY <1>1, <1>2, <1>3 DEF NewSequence
  <1>7. ASSUME NEW k \in DOMAIN sequences' PROVE Ordered(sequences'[k].entries)
    <2>1. CASE k \in 1 .. Len(sequences)
      BY <1>3, <1>5, <2>1 DEF EntriesOrdered
    <2>2. CASE k = Len(sequences) + 1
      BY <1>6, <2>2 DEF Ordered
    <2> QED
      BY <1>3, <1>4, <2>1, <2>2
  <1> QED
    BY <1>7 DEF EntriesOrdered, Ordered

\* A new entry point leaves every list in order.
LEMMA AddSequenceEntryOrdered ==
    ASSUME ObjTypeOK, EntriesOrdered, NEW k \in DOMAIN sequences, NEW t \in EntryTimes,
           NEW id \in Ids.entry, NEW q, AddSequenceEntry(k, q, t, id)
    PROVE  EntriesOrdered'
  <1> DEFINE new == WithEntry(sequences[k].entries, NewEntry(t, id))
  <1>1. new \in Seq(EntryType(AllIds))
    BY SequenceTypes, NewEntryType, WithEntryType
  <1>2. Ordered(new)
    <2>1. Ordered(sequences[k].entries)
      BY DEF EntriesOrdered
    <2> QED
      BY <2>1, SequenceTypes, NewEntryType, WithEntryOrdered
  <1>3. sequences' = [sequences EXCEPT ![k].entries = new]
    BY AddSequenceEntryType
  <1> HIDE DEF new
  <1>4. sequences \in Seq(SequenceType(AllIds))
    BY DEF ObjTypeOK
  <1>5. DOMAIN sequences' = DOMAIN sequences
    BY <1>3
  <1>6. \A j \in DOMAIN sequences :
           sequences'[j] = (IF j = k THEN [sequences[k] EXCEPT !.entries = new]
                            ELSE sequences[j])
    BY <1>1, <1>3, <1>4, EntriesOfSequence
  <1>7. [sequences[k] EXCEPT !.entries = new].entries = new
    BY SequenceTypes DEF SequenceType
  <1>8. ASSUME NEW j \in DOMAIN sequences' PROVE Ordered(sequences'[j].entries)
    BY <1>2, <1>5, <1>6, <1>7 DEF EntriesOrdered
  <1> QED
    BY <1>8 DEF EntriesOrdered, Ordered

\* No call that fills the object disturbs the order of entry points.
LEMMA BuildNextOrdered == ObjTypeOK /\ EntriesOrdered /\ BuildNext => EntriesOrdered'
  <1> SUFFICES ASSUME ObjTypeOK, EntriesOrdered, BuildNext PROVE EntriesOrdered'
    OBVIOUS
  <1>1. CASE \E s \in Sources, u \in Ids.sequence, d \in Ids.default :
                AppendSequence(s, u, d)
    BY <1>1, AppendSequenceOrdered
  <1>2. CASE \E k \in DOMAIN sequences, t \in EntryTimes, u \in Ids.entry :
                \E q \in Ids.sequence \cup {NoId} : AddSequenceEntry(k, q, t, u)
    BY <1>2, AddSequenceEntryOrdered
  <1>3. CASE UNCHANGED sequences
    BY <1>3 DEF EntriesOrdered, Ordered
  <1> QED
    BY <1>1, <1>2, <1>3
    DEF BuildNext, SetParam, AppendSegment, AddFile, AppendPbcNode, LookupFails, objVars

\* However many entry points a client adds, in whatever order of time, every list of
\* them is in order of time.
THEOREM EntriesSortedCorrect == ObjSpec => []EntriesSorted
  <1> DEFINE Inv == ObjTypeOK /\ EntriesOrdered
  <1>1. ObjInit => Inv
    <2>1. ObjInit => EntriesOrdered
      BY DEF ObjInit, EntriesOrdered
    <2> QED
      BY <2>1, InitType
  <1>2. Inv /\ [BuildNext]_buildVars => Inv'
    <2>1. Inv /\ BuildNext => Inv'
      BY BuildNextType, BuildNextOrdered
    <2>2. Inv /\ UNCHANGED buildVars => Inv'
      BY DEF buildVars, objVars, ObjTypeOK, EntriesOrdered, Ordered
    <2> QED
      BY <2>1, <2>2
  <1>3. Inv => EntriesSorted
    BY OrderedIsSorted
  <1> QED
    BY <1>1, <1>2, <1>3, PTL DEF ObjSpec, buildVars

-----------------------------------------------------------------------------
(* The sequences adjoin.                                                   *)

\* A new sequence begins a pregap after the end of the last one.
LEMMA AppendSequenceAdjoins ==
    ASSUME ObjTypeOK, SequencesAdjoin, NEW s \in Sources, NEW id \in Ids.sequence,
           NEW d \in Ids.default, AppendSequence(s, id, d)
    PROVE  SequencesAdjoin'
  <1> DEFINE new == NewSequence(s, id, d)
             last == Len(sequences)
             start == relative_end_extent + prm.track_pregap
  <1>1. sequences' = Append(sequences, new) /\ prm' = prm
    BY DEF AppendSequence, NewSequence
  <1>2. sequences \in Seq(SequenceType(AllIds))
    BY DEF ObjTypeOK
  <1>3. last \in Nat /\ DOMAIN sequences = 1 .. last
    BY <1>2, LenProperties
  <1>4. /\ Len(sequences') = last + 1
        /\ DOMAIN sequences' = 1 .. last + 1
        /\ sequences' # <<>>
        /\ \A k \in 1 .. last : sequences'[k] = sequences[k]
        /\ sequences'[last + 1] = new
    BY <1>1, <1>2, <1>3
  <1>5. new.relative_start_extent = start /\ new.source = s
    BY DEF NewSequence
  <1>6. relative_end_extent' =
            start + prm.track_front_margin + s.packets + prm.track_rear_margin
    BY DEF AppendSequence
  <1>7. s.packets \in Nat /\ relative_end_extent \in Nat
    BY ObjAssumption DEF SourceType, ObjTypeOK
  <1>12. start \in Nat
    BY <1>7, ParamTypes
  <1> HIDE DEF new
  \* The new sequence begins where SequencesAdjoin says.
  <1>8. start = prm.track_pregap +
            (IF last + 1 = 1 THEN 0
             ELSE sequences[last].relative_start_extent + SequenceLength(last))
    <2>1. CASE last = 0
      <3>1. sequences = <<>>
        BY <1>2, <2>1, EmptySeq
      <3> QED
        BY <2>1, <3>1, ParamTypes DEF SequencesAdjoin
    <2>2. CASE last # 0
      <3>1. sequences # <<>> /\ last + 1 # 1 /\ (last + 1) - 1 = last
        BY <1>3, <2>2
      <3>2. relative_end_extent = StartOf(last + 1) - prm.track_pregap
        BY <3>1 DEF SequencesAdjoin
      <3>3. StartOf(last + 1) = prm.track_pregap +
                (sequences[last].relative_start_extent + SequenceLength(last))
        BY <3>1 DEF StartOf
      <3>4. /\ sequences[last].relative_start_extent \in Nat
            /\ SequenceLength(last) \in Nat
        BY <1>3, <2>2, SequenceTypes, ParamTypes DEF SequenceLength
      <3> QED
        BY <1>7, <3>1, <3>2, <3>3, <3>4, ParamTypes
    <2> QED
      BY <2>1, <2>2
  <1>9. ASSUME NEW k \in DOMAIN sequences'
        PROVE  sequences'[k].relative_start_extent = StartOf(k)'
    <2>1. k \in 1 .. last + 1
      BY <1>4
    <2>2. k # 1 => sequences'[k - 1] = sequences[k - 1]
      BY <1>3, <1>4, <2>1
    <2>3. StartOf(k)' = StartOf(k)
      BY <1>1, <2>1, <2>2 DEF StartOf, SequenceLength
    <2>4. CASE k \in 1 .. last
      BY <1>3, <1>4, <2>3, <2>4 DEF SequencesAdjoin
    <2>5. CASE k = last + 1
      <3>1. StartOf(k) = start
        BY <1>3, <1>8, <2>5 DEF StartOf
      <3> QED
        BY <1>4, <1>5, <2>3, <2>5, <3>1
    <2> QED
      BY <1>3, <2>1, <2>4, <2>5
  <1>10. relative_end_extent' = StartOf(Len(sequences) + 1)' - prm'.track_pregap
    <2>1. (last + 2) - 1 = last + 1 /\ last + 2 # 1 /\ Len(sequences') + 1 = last + 2
      BY <1>3, <1>4
    <2>2. StartOf(Len(sequences) + 1)' = prm.track_pregap +
            (start + (prm.track_front_margin + s.packets + prm.track_rear_margin))
      BY <1>1, <1>4, <1>5, <2>1 DEF StartOf, SequenceLength
    <2>3. PICK a \in Nat : a = prm.track_pregap
      BY ParamTypes
    <2>4. PICK x \in Int : x = relative_end_extent'
      BY <1>6, <1>7, <1>12, ParamTypes
    <2>5. x = start + (prm.track_front_margin + s.packets + prm.track_rear_margin)
      BY <1>6, <1>7, <1>12, <2>4, ParamTypes
    <2>6. StartOf(Len(sequences) + 1)' = a + x
      BY <2>2, <2>3, <2>5
    <2>7. prm'.track_pregap = a
      BY <1>1, <2>3
    <2> QED
      BY <2>4, <2>6, <2>7
  <1> QED
    BY <1>4, <1>9, <1>10 DEF SequencesAdjoin

\* Entry points move no sequence.
LEMMA AddSequenceEntryAdjoins ==
    ASSUME ObjTypeOK, SequencesAdjoin, NEW k \in DOMAIN sequences, NEW t \in EntryTimes,
           NEW id \in Ids.entry, NEW q, AddSequenceEntry(k, q, t, id)
    PROVE  SequencesAdjoin'
  <1> DEFINE new == WithEntry(sequences[k].entries, NewEntry(t, id))
  <1>1. new \in Seq(EntryType(AllIds))
    BY SequenceTypes, NewEntryType, WithEntryType
  <1>2. sequences' = [sequences EXCEPT ![k].entries = new]
    BY AddSequenceEntryType
  <1> HIDE DEF new
  <1>3. sequences \in Seq(SequenceType(AllIds))
    BY DEF ObjTypeOK
  <1>4. /\ Len(sequences') = Len(sequences)
        /\ \A j \in DOMAIN sequences :
              sequences'[j] = (IF j = k THEN [sequences[k] EXCEPT !.entries = new]
                               ELSE sequences[j])
    BY <1>1, <1>2, <1>3, EntriesOfSequence
  <1>5. \A j \in DOMAIN sequences :
           /\ sequences'[j].source = sequences[j].source
           /\ sequences'[j].relative_start_extent = sequences[j].relative_start_extent
    BY <1>4, SequenceTypes DEF SequenceType
  <1>6. /\ DOMAIN sequences = 1 .. Len(sequences)
        /\ DOMAIN sequences' = DOMAIN sequences
        /\ Len(sequences) \in Nat
        /\ sequences # <<>> /\ sequences' # <<>>
    BY <1>2, <1>3, LenProperties
  <1>7. prm' = prm /\ relative_end_extent' = relative_end_extent
    BY DEF AddSequenceEntry
  <1>8. \A j \in 1 .. Len(sequences) + 1 : StartOf(j)' = StartOf(j)
    <2>1. TAKE j \in 1 .. Len(sequences) + 1
    <2>2. j # 1 => j - 1 \in DOMAIN sequences
      BY <1>6
    <2> QED
      BY <1>5, <1>7, <2>2 DEF StartOf, SequenceLength
  <1>9. \A j \in DOMAIN sequences' : sequences'[j].relative_start_extent = StartOf(j)'
    BY <1>5, <1>6, <1>8 DEF SequencesAdjoin
  <1>10. relative_end_extent' = StartOf(Len(sequences) + 1)' - prm'.track_pregap
    BY <1>4, <1>6, <1>7, <1>8 DEF SequencesAdjoin
  <1> QED
    BY <1>6, <1>9, <1>10 DEF SequencesAdjoin

\* No call that fills the object parts its sequences, while no parameter changes
\* once there is one.
LEMMA BuildNextAdjoins ==
    ASSUME ParamsFirst, ObjTypeOK, SequencesAdjoin, BuildNext
    PROVE  SequencesAdjoin'
  <1>1. CASE \E a \in Arguments : SetParam(a[1], a[2])
    BY <1>1 DEF SetParam, SequencesAdjoin
  <1>2. CASE \E s \in Sources, u \in Ids.sequence, d \in Ids.default :
                AppendSequence(s, u, d)
    BY <1>2, AppendSequenceAdjoins
  <1>3. CASE \E k \in DOMAIN sequences, t \in EntryTimes, u \in Ids.entry :
                \E q \in Ids.sequence \cup {NoId} : AddSequenceEntry(k, q, t, u)
    BY <1>3, AddSequenceEntryAdjoins
  <1>4. CASE UNCHANGED <<prm, sequences, relative_end_extent>>
    BY <1>4 DEF SequencesAdjoin, StartOf, SequenceLength
  <1> QED
    BY <1>1, <1>2, <1>3, <1>4
    DEF BuildNext, AppendSegment, AddFile, AppendPbcNode, LookupFails, objVars

\* A client that sets its parameters before it appends a sequence gets sequences
\* that adjoin: where append_sequence says each begins is where write_image, which
\* never looks at it, will have come to.
THEOREM SequencesAdjoinCorrect ==
    ASSUME ParamsFirst
    PROVE  ObjSpec => []SequencesAdjoin
  <1> DEFINE Inv == ObjTypeOK /\ SequencesAdjoin
  <1>1. ObjInit => Inv
    <2>1. ObjInit => SequencesAdjoin
      BY DEF ObjInit, SequencesAdjoin
    <2> QED
      BY <2>1, InitType
  <1>2. Inv /\ [BuildNext]_buildVars => Inv'
    <2>1. Inv /\ BuildNext => Inv'
      BY BuildNextType, BuildNextAdjoins
    <2>2. Inv /\ UNCHANGED buildVars => Inv'
      BY DEF buildVars, objVars, ObjTypeOK, SequencesAdjoin, StartOf, SequenceLength
    <2> QED
      BY <2>1, <2>2
  <1> QED
    BY <1>1, <1>2, PTL DEF ObjSpec, buildVars
-----------------------------------------------------------------------------
(* Every item has an id of its own.                                        *)

\* The entry points of a sequence as EntrySlots lists them: 0 is the default one.
SlotsOf(q) ==
    <<[id |-> q.default_entry_id, additional |-> FALSE]>>
      \o [e \in DOMAIN q.entries |-> [id |-> q.entries[e].id, additional |-> TRUE]]

SlotType == [id : AllIds, additional : BOOLEAN]

Slots(k) == 0 .. Len(sequences[k].entries)

SlotId(k, e) ==
    IF e = 0 THEN sequences[k].default_entry_id ELSE sequences[k].entries[e].id

\* Their number, and their ids.
LEMMA SlotsOfSequence ==
    ASSUME NEW q \in SequenceType(AllIds)
    PROVE  /\ SlotsOf(q) \in Seq(SlotType)
           /\ Len(SlotsOf(q)) = Len(q.entries) + 1
           /\ Len(q.entries) \in Nat
           /\ \A v \in 1 .. Len(q.entries) + 1 :
                 SlotsOf(q)[v].id = IF v = 1 THEN q.default_entry_id ELSE q.entries[v - 1].id
  <1> DEFINE first == <<[id |-> q.default_entry_id, additional |-> FALSE]>>
             others == [e \in DOMAIN q.entries |-> [id |-> q.entries[e].id, additional |-> TRUE]]
             l == Len(q.entries)
  <1>1. q.entries \in Seq(EntryType(AllIds)) /\ q.default_entry_id \in AllIds
    BY DEF SequenceType
  <1>2. l \in Nat /\ DOMAIN q.entries = 1 .. l
    BY <1>1, LenProperties
  <1>3. \A e \in 1 .. l : q.entries[e] \in EntryType(AllIds)
    BY <1>1, ElementOfSeq
  <1>4. \A e \in 1 .. l : q.entries[e].id \in AllIds
    BY <1>3 DEF EntryType
  <1>5. others \in [1 .. l -> SlotType]
    BY <1>2, <1>4 DEF SlotType
  <1>6. others \in Seq(SlotType) /\ Len(others) = l
    BY <1>2, <1>5, SeqDef
  <1>7. first \in Seq(SlotType) /\ Len(first) = 1
    BY <1>1 DEF SlotType
  <1>8. first[1].id = q.default_entry_id /\ \A e \in 1 .. l : others[e].id = q.entries[e].id
    BY <1>2
  <1>9. SlotsOf(q) = first \o others
    BY DEF SlotsOf
  <1> HIDE DEF first, others, l
  <1>10. /\ first \o others \in Seq(SlotType)
         /\ Len(first \o others) = 1 + l
         /\ \A v \in 1 .. 1 + l :
               (first \o others)[v] = IF v <= 1 THEN first[v] ELSE others[v - 1]
    <2>1. /\ first \o others \in Seq(SlotType)
          /\ Len(first \o others) = Len(first) + Len(others)
          /\ \A v \in 1 .. Len(first) + Len(others) :
               (first \o others)[v] = IF v <= Len(first) THEN first[v]
                                      ELSE others[v - Len(first)]
      BY <1>6, <1>7, ConcatProperties
    <2>2. Len(first) = 1 /\ Len(others) = l
      BY <1>6, <1>7
    <2> QED
      BY <2>1, <2>2
  <1>11. ASSUME NEW v \in 1 .. l + 1
         PROVE  (first \o others)[v].id =
                    IF v = 1 THEN q.default_entry_id ELSE q.entries[v - 1].id
    <2>1. CASE v = 1
      BY <1>2, <1>8, <1>10, <2>1
    <2>2. CASE v # 1
      <3>1. v - 1 \in 1 .. l /\ v \in 1 .. 1 + l /\ ~(v <= 1)
        BY <1>2, <2>2
      <3> QED
        BY <1>8, <1>10, <2>2, <3>1
    <2> QED
      BY <2>1, <2>2
  <1>12. SlotsOf(q) \in Seq(SlotType) /\ Len(SlotsOf(q)) = l + 1 /\ l \in Nat
    BY <1>2, <1>9, <1>10
  <1>13. \A v \in 1 .. l + 1 :
            SlotsOf(q)[v].id = IF v = 1 THEN q.default_entry_id ELSE q.entries[v - 1].id
    BY <1>9, <1>11
  <1> QED
    BY <1>12, <1>13 DEF l

\* Where an entry point of EntrySlots is from, row and column: all are in it, once.
SlotPlaces(row, col) ==
    /\ \A v \in DOMAIN EntrySlots :
          /\ row[v] \in DOMAIN sequences
          /\ col[v] \in Slots(row[v])
          /\ EntrySlots[v].id = SlotId(row[v], col[v])
    /\ \A k \in DOMAIN sequences : \A e \in Slots(k) :
          \E v \in DOMAIN EntrySlots : row[v] = k /\ col[v] = e
    /\ \A m, v \in DOMAIN EntrySlots :
          row[m] = row[v] /\ col[m] = col[v] => m = v

\* EntrySlots has every entry point once.
LEMMA EntrySlotsPlaces == ObjTypeOK => \E row, col : SlotPlaces(row, col)
  <1> SUFFICES ASSUME ObjTypeOK PROVE \E row, col : SlotPlaces(row, col)
    OBVIOUS
  <1> DEFINE seqs == [k \in DOMAIN sequences |-> SlotsOf(sequences[k])]
             flat == FlattenSeq(seqs)
             N == Len(sequences)
  <1>1. N \in Nat /\ DOMAIN sequences = 1 .. N
    BY LenProperties DEF ObjTypeOK
  <1>2. \A k \in 1 .. N : sequences[k] \in SequenceType(AllIds)
    BY <1>1, SequenceTypes
  <1>3. seqs \in [1 .. N -> Seq(SlotType)]
    BY <1>1, <1>2, SlotsOfSequence
  <1>4. seqs \in Seq(Seq(SlotType)) /\ Len(seqs) = N
    BY <1>1, <1>3, SeqDef
  <1>5. \A k \in 1 .. N : seqs[k] = SlotsOf(sequences[k])
    BY <1>1
  <1>6. EntrySlots = flat
    BY DEF EntrySlots, SlotsOf
  <1> HIDE DEF seqs, N
  <1>7. flat \in Seq(SlotType) /\ \E row, col : Flat(flat, seqs, Len(seqs), row, col)
    BY <1>4, FlattenSeqPlaces
  <1> HIDE DEF flat
  <1>8. PICK row, col : Flat(flat, seqs, N, row, col)
    BY <1>4, <1>7
  <1>9. Len(flat) \in Nat /\ DOMAIN flat = 1 .. Len(flat)
    BY <1>7, LenProperties
  <1> DEFINE col0 == [v \in 1 .. Len(flat) |-> col[v] - 1]
  <1>10. \A k \in 1 .. N :
            /\ DOMAIN seqs[k] = 1 .. Len(sequences[k].entries) + 1
            /\ Len(sequences[k].entries) \in Nat
            /\ \A v \in 1 .. Len(sequences[k].entries) + 1 :
                  seqs[k][v].id = SlotId(k, v - 1)
    <2> TAKE k \in 1 .. N
    <2>1. seqs[k] = SlotsOf(sequences[k]) /\ sequences[k] \in SequenceType(AllIds)
      BY <1>2, <1>5
    <2>2. /\ SlotsOf(sequences[k]) \in Seq(SlotType)
          /\ Len(SlotsOf(sequences[k])) = Len(sequences[k].entries) + 1
          /\ Len(sequences[k].entries) \in Nat
          /\ \A v \in 1 .. Len(sequences[k].entries) + 1 :
                SlotsOf(sequences[k])[v].id =
                    IF v = 1 THEN sequences[k].default_entry_id
                    ELSE sequences[k].entries[v - 1].id
      BY <2>1, SlotsOfSequence
    <2>3. DOMAIN seqs[k] = 1 .. Len(sequences[k].entries) + 1
      BY <2>1, <2>2, LenProperties
    <2>4. ASSUME NEW v \in 1 .. Len(sequences[k].entries) + 1
          PROVE  seqs[k][v].id = SlotId(k, v - 1)
      <3>1. v = 1 <=> v - 1 = 0
        BY <2>2
      <3> QED
        BY <2>1, <2>2, <3>1 DEF SlotId
    <2> QED
      BY <2>2, <2>3, <2>4
  <1>11. /\ row \in [1 .. Len(flat) -> Nat]
         /\ col \in [1 .. Len(flat) -> Nat]
         /\ \A v \in 1 .. Len(flat) :
               /\ row[v] \in 1 .. N
               /\ col[v] \in DOMAIN seqs[row[v]]
               /\ flat[v] = seqs[row[v]][col[v]]
         /\ \A k \in 1 .. N : \A e \in DOMAIN seqs[k] :
               \E v \in 1 .. Len(flat) : row[v] = k /\ col[v] = e
         /\ \A j, v \in 1 .. Len(flat) : row[j] = row[v] /\ col[j] = col[v] => j = v
    BY <1>8 DEF Flat
  <1>12. \A v \in 1 .. Len(flat) : col0[v] = col[v] - 1
    OBVIOUS
  <1> HIDE DEF col0
  <1>13. ASSUME NEW v \in DOMAIN EntrySlots
         PROVE  /\ row[v] \in DOMAIN sequences
                /\ col0[v] \in Slots(row[v])
                /\ EntrySlots[v].id = SlotId(row[v], col0[v])
    <2>1. v \in 1 .. Len(flat)
      BY <1>6, <1>9
    <2>2. row[v] \in 1 .. N /\ col[v] \in DOMAIN seqs[row[v]] /\ flat[v] = seqs[row[v]][col[v]]
      BY <1>11, <2>1
    <2>3. col[v] \in 1 .. Len(sequences[row[v]].entries) + 1
      BY <1>10, <2>2
    <2>4. Len(sequences[row[v]].entries) \in Nat
      BY <1>10, <2>2
    <2>5. col0[v] \in 0 .. Len(sequences[row[v]].entries)
      BY <1>12, <2>1, <2>3, <2>4
    <2>6. flat[v].id = SlotId(row[v], col[v] - 1)
      BY <1>10, <2>2, <2>3
    <2> QED
      BY <1>1, <1>6, <1>12, <2>1, <2>2, <2>5, <2>6 DEF Slots
  <1>14. ASSUME NEW k \in DOMAIN sequences, NEW e \in Slots(k)
         PROVE  \E v \in DOMAIN EntrySlots : row[v] = k /\ col0[v] = e
    <2>1. k \in 1 .. N /\ Len(sequences[k].entries) \in Nat
      BY <1>1, <1>10
    <2>2. e \in 0 .. Len(sequences[k].entries)
      BY DEF Slots
    <2>3. e + 1 \in DOMAIN seqs[k]
      BY <1>10, <2>1, <2>2
    <2>4. PICK v \in 1 .. Len(flat) : row[v] = k /\ col[v] = e + 1
      BY <1>11, <2>1, <2>3
    <2>5. col0[v] = e
      BY <1>12, <2>1, <2>2, <2>4
    <2> QED
      BY <1>6, <1>9, <2>4, <2>5
  <1>15. ASSUME NEW m \in DOMAIN EntrySlots, NEW v \in DOMAIN EntrySlots,
                row[m] = row[v], col0[m] = col0[v]
         PROVE  m = v
    <2>1. m \in 1 .. Len(flat) /\ v \in 1 .. Len(flat)
      BY <1>6, <1>9
    <2>2. col[m] \in Nat /\ col[v] \in Nat /\ col[m] - 1 = col[v] - 1
      BY <1>11, <1>12, <1>15, <2>1
    <2>3. col[m] = col[v]
      BY <2>2
    <2> QED
      BY <1>11, <1>15, <2>1, <2>3
  <1> HIDE DEF col0
  <1>16. SlotPlaces(row, col0)
    BY <1>13, <1>14, <1>15 DEF SlotPlaces
  <1> QED
    BY <1>16

\* What bears an id, and the id it bears.
Holders ==
    {<<"sequence", k, 0>> : k \in DOMAIN sequences}
      \cup {<<"segment", k, 0>> : k \in DOMAIN segments}
      \cup UNION {{<<"entry", k, e>> : e \in Slots(k)} : k \in DOMAIN sequences}

IdOf(h) ==
    CASE h[1] = "sequence" -> sequences[h[2]].id
      [] h[1] = "entry" -> SlotId(h[2], h[3])
      [] h[1] = "segment" -> segments[h[2]].id

IdsApart == \A g, h \in Holders : IdOf(g) = IdOf(h) => g = h \/ IdOf(g) = NoId

\* A holder is a sequence, an entry point or a segment.
LEMMA HolderKinds ==
    ASSUME NEW h
    PROVE  h \in Holders <=>
              \/ \E k \in DOMAIN sequences : h = <<"sequence", k, 0>>
              \/ \E k \in DOMAIN sequences : \E e \in Slots(k) : h = <<"entry", k, e>>
              \/ \E k \in DOMAIN segments : h = <<"segment", k, 0>>
  BY DEF Holders

\* The id of each kind.
LEMMA IdOfKinds ==
    ASSUME NEW k, NEW e
    PROVE  /\ IdOf(<<"sequence", k, e>>) = sequences[k].id
           /\ IdOf(<<"entry", k, e>>) = SlotId(k, e)
           /\ IdOf(<<"segment", k, e>>) = segments[k].id
  BY DEF IdOf

\* An id that _vcd_pbc_lookup does not know is borne by nothing.
LEMMA UnknownIsFree ==
    ASSUME ObjTypeOK, NEW id, id \notin ItemIds, NEW h \in Holders, IdOf(h) = id
    PROVE  id = NoId
  <1> SUFFICES ASSUME id # NoId PROVE FALSE
    OBVIOUS
  <1>1. id \notin SequenceIds /\ id \notin EntryIds /\ id \notin SegmentIds
    BY DEF ItemIds
  <1>2. ASSUME NEW k \in DOMAIN sequences, h = <<"sequence", k, 0>> PROVE FALSE
    BY <1>1, <1>2, IdOfKinds DEF SequenceIds
  <1>3. ASSUME NEW k \in DOMAIN sequences, NEW e \in Slots(k), h = <<"entry", k, e>>
        PROVE  FALSE
    <2>1. SlotId(k, e) = id
      BY <1>3, IdOfKinds
    <2>2. PICK v \in DOMAIN EntrySlots : EntrySlots[v].id = SlotId(k, e)
      <3>1. PICK row, col : SlotPlaces(row, col)
        BY EntrySlotsPlaces
      <3>2. PICK v \in DOMAIN EntrySlots : row[v] = k /\ col[v] = e
        BY <1>3, <3>1 DEF SlotPlaces
      <3>3. EntrySlots[v].id = SlotId(row[v], col[v])
        BY <3>1 DEF SlotPlaces
      <3> QED
        BY <3>2, <3>3
    <2>3. id \in EntryIds
      BY <2>1, <2>2 DEF EntryIds
    <2> QED
      BY <1>1, <2>3
  <1>4. ASSUME NEW k \in DOMAIN segments, h = <<"segment", k, 0>> PROVE FALSE
    BY <1>1, <1>4, IdOfKinds DEF SegmentIds
  <1> QED
    BY <1>2, <1>3, <1>4, HolderKinds

\* A call leaves the holders their ids, and adds new ones, whose ids are unknown and
\* differ: old says where a holder that is not new was before.
Added(old, new) ==
    /\ \A h \in Holders' \ new : old[h] \in Holders /\ IdOf(h)' = IdOf(old[h])
    /\ \A g, h \in Holders' \ new : old[g] = old[h] => g = h
    /\ \A h \in new : IdOf(h)' \notin ItemIds
    /\ \A g, h \in new : IdOf(g)' = IdOf(h)' => g = h \/ IdOf(g)' = NoId

\* Such a call keeps the ids apart.
LEMMA HoldersAdded ==
    ASSUME ObjTypeOK, IdsApart, NEW old, NEW new, Added(old, new)
    PROVE  IdsApart'
  <1>1. ASSUME NEW g \in Holders', NEW h \in Holders', IdOf(g)' = IdOf(h)'
        PROVE  g = h \/ IdOf(g)' = NoId
    <2>1. CASE g \in new /\ h \in new
      BY <1>1, <2>1 DEF Added
    <2>2. CASE g \in new /\ h \notin new
      BY <1>1, <2>2, UnknownIsFree DEF Added
    <2>3. CASE g \notin new /\ h \in new
      BY <1>1, <2>3, UnknownIsFree DEF Added
    <2>4. CASE g \notin new /\ h \notin new
      <3>1. IdOf(old[g]) = IdOf(old[h]) /\ old[g] \in Holders /\ old[h] \in Holders
        BY <1>1, <2>4 DEF Added
      <3>2. old[g] = old[h] \/ IdOf(old[g]) = NoId
        BY <3>1 DEF IdsApart
      <3> QED
        BY <1>1, <2>4, <3>2 DEF Added
    <2> QED
      BY <2>1, <2>2, <2>3, <2>4
  <1> QED
    BY <1>1 DEF IdsApart

\* As long as the ids are apart an id names one item at most.
LEMMA ApartIsOwn ==
    ASSUME ObjTypeOK, IdsApart
    PROVE  ItemsHaveOwnIds
  <1> SUFFICES ASSUME NEW id \in AllIds \ {NoId} PROVE Cardinality(Bearers(id)) <= 1
    BY DEF ItemsHaveOwnIds
  <1>0. PICK row, col : SlotPlaces(row, col)
    BY EntrySlotsPlaces
  <1>1. /\ \A v \in DOMAIN EntrySlots :
              /\ row[v] \in DOMAIN sequences
              /\ col[v] \in Slots(row[v])
              /\ EntrySlots[v].id = SlotId(row[v], col[v])
        /\ \A m, v \in DOMAIN EntrySlots : row[m] = row[v] /\ col[m] = col[v] => m = v
    BY <1>0 DEF SlotPlaces
  <1> DEFINE holder(b) == IF b[1] = "entry" THEN <<"entry", row[b[2]], col[b[2]]>>
                          ELSE <<b[1], b[2], 0>>
  <1>2. ASSUME NEW b \in Bearers(id)
        PROVE  /\ holder(b) \in Holders
               /\ IdOf(holder(b)) = id
               /\ \/ b = <<"sequence", b[2]>> /\ b[2] \in DOMAIN sequences
                  \/ b = <<"entry", b[2]>> /\ b[2] \in DOMAIN EntrySlots
                  \/ b = <<"segment", b[2]>> /\ b[2] \in DOMAIN segments
    <2>1. ASSUME NEW k \in DOMAIN sequences, sequences[k].id = id, b = <<"sequence", k>>
          PROVE  holder(b) = <<"sequence", k, 0>>
      BY <2>1
    <2>2. ASSUME NEW v \in DOMAIN EntrySlots, EntrySlots[v].id = id, b = <<"entry", v>>
          PROVE  holder(b) = <<"entry", row[v], col[v]>>
      BY <2>2
    <2>3. ASSUME NEW k \in DOMAIN segments, segments[k].id = id, b = <<"segment", k>>
          PROVE  holder(b) = <<"segment", k, 0>>
      BY <2>3
    <2>4. \/ \E k \in DOMAIN sequences : sequences[k].id = id /\ b = <<"sequence", k>>
          \/ \E v \in DOMAIN EntrySlots : EntrySlots[v].id = id /\ b = <<"entry", v>>
          \/ \E k \in DOMAIN segments : segments[k].id = id /\ b = <<"segment", k>>
      BY DEF Bearers
    <2> HIDE DEF holder
    <2>5. ASSUME NEW k \in DOMAIN sequences, sequences[k].id = id, b = <<"sequence", k>>
          PROVE  /\ holder(b) \in Holders
                 /\ IdOf(holder(b)) = id
                 /\ b = <<"sequence", b[2]>> /\ b[2] \in DOMAIN sequences
      <3>1. <<"sequence", k, 0>> \in Holders
        BY HolderKinds
      <3>2. b[2] = k
        BY <2>5
      <3> QED
        BY <2>1, <2>5, <3>1, <3>2, IdOfKinds
    <2>6. ASSUME NEW v \in DOMAIN EntrySlots, EntrySlots[v].id = id, b = <<"entry", v>>
          PROVE  /\ holder(b) \in Holders
                 /\ IdOf(holder(b)) = id
                 /\ b = <<"entry", b[2]>> /\ b[2] \in DOMAIN EntrySlots
      <3>1. <<"entry", row[v], col[v]>> \in Holders
        BY <1>1, HolderKinds
      <3>2. b[2] = v
        BY <2>6
      <3>3. IdOf(<<"entry", row[v], col[v]>>) = SlotId(row[v], col[v])
        BY IdOfKinds
      <3>4. SlotId(row[v], col[v]) = id
        BY <1>1, <2>6
      <3> QED
        BY <2>2, <2>6, <3>1, <3>2, <3>3, <3>4
    <2>7. ASSUME NEW k \in DOMAIN segments, segments[k].id = id, b = <<"segment", k>>
          PROVE  /\ holder(b) \in Holders
                 /\ IdOf(holder(b)) = id
                 /\ b = <<"segment", b[2]>> /\ b[2] \in DOMAIN segments
      <3>1. <<"segment", k, 0>> \in Holders
        BY HolderKinds
      <3>2. b[2] = k
        BY <2>7
      <3> QED
        BY <2>3, <2>7, <3>1, <3>2, IdOfKinds
    <2> QED
      BY <2>4, <2>5, <2>6, <2>7
  <1>3. ASSUME NEW a \in Bearers(id), NEW b \in Bearers(id) PROVE a = b
    <2>1. holder(a) = holder(b)
      <3> HIDE DEF holder
      <3>1. holder(a) \in Holders /\ holder(b) \in Holders
        BY <1>2
      <3>2. IdOf(holder(a)) = id /\ IdOf(holder(b)) = id
        BY <1>2
      <3> QED
        BY <3>1, <3>2 DEF IdsApart
    <2>5. a = <<a[1], a[2]>> /\ b = <<b[1], b[2]>>
      <3>1. \A c \in Bearers(id) : c = <<c[1], c[2]>>
        <4> HIDE DEF holder
        <4> TAKE c \in Bearers(id)
        <4>1. PICK kind : c = <<kind, c[2]>>
          BY <1>2
        <4>2. c[1] = kind
          BY <4>1
        <4> QED
          BY <4>1, <4>2
      <3> QED
        BY <3>1
    <2>6. /\ a[1] = "entry" => a[2] \in DOMAIN EntrySlots
          /\ b[1] = "entry" => b[2] \in DOMAIN EntrySlots
      BY <1>2
    <2>2. a[1] = b[1]
      BY <2>1
    <2>3. a[1] = "entry" => row[a[2]] = row[b[2]] /\ col[a[2]] = col[b[2]]
      BY <2>1, <2>2
    <2>4. a[1] # "entry" => a[2] = b[2]
      BY <2>1, <2>2
    <2> QED
      BY <1>1, <2>2, <2>3, <2>4, <2>5, <2>6
  <1>4. CASE Bearers(id) = {}
    BY <1>4, FS_EmptySet
  <1>5. CASE Bearers(id) # {}
    <2>1. PICK b : Bearers(id) = {b}
      BY <1>3, <1>5
    <2>2. Cardinality({b}) = 1
      BY FS_Singleton
    <2> QED
      BY <2>1, <2>2
  <1> QED
    BY <1>4, <1>5


\* An unknown id is none of those that exist.
LEMMA UnknownIds ==
    ASSUME NEW ids, Unknown(ids), NEW k \in DOMAIN ids
    PROVE  ids[k] \notin ItemIds
  BY DEF Unknown

\* vcd_obj_append_sequence_play_item looks both of its ids up.
LEMMA AppendSequenceApart ==
    ASSUME ObjTypeOK, IdsApart, NEW s \in Sources, NEW id \in Ids.sequence,
           NEW d \in Ids.default, AppendSequence(s, id, d)
    PROVE  IdsApart'
  <1>1. PICK q : /\ sequences' = Append(sequences, q)
                 /\ q.id = id /\ q.default_entry_id = d /\ q.entries = <<>>
    BY DEF AppendSequence
  <1>2. id \notin ItemIds /\ d \notin ItemIds
    <2> DEFINE ids == <<id, d>>
    <2>1. Unknown(ids) /\ 1 \in DOMAIN ids /\ 2 \in DOMAIN ids
      BY DEF AppendSequence
    <2>2. ids[1] = id /\ ids[2] = d
      OBVIOUS
    <2> HIDE DEF ids
    <2> QED
      BY <2>1, <2>2, UnknownIds
  <1>3. id = d => id = NoId
    BY DEF AppendSequence
  <1>4. PICK v \in Nat :
          /\ v \notin DOMAIN sequences
          /\ DOMAIN sequences' = DOMAIN sequences \cup {v}
          /\ sequences'[v] = q
          /\ \A k \in DOMAIN sequences : sequences'[k] = sequences[k]
    <2>1. sequences \in Seq(SequenceType(AllIds))
      BY DEF ObjTypeOK
    <2>2. Len(sequences) \in Nat /\ DOMAIN sequences = 1 .. Len(sequences)
      BY <2>1, LenProperties
    <2>3. /\ DOMAIN sequences' = 1 .. Len(sequences) + 1
          /\ sequences'[Len(sequences) + 1] = q
          /\ \A k \in 1 .. Len(sequences) : sequences'[k] = sequences[k]
      BY <1>1, <2>1, <2>2
    <2> QED
      BY <2>2, <2>3
  <1>5. segments' = segments
    BY DEF AppendSequence
  <1> PICK new : new = {<<"sequence", v, 0>>, <<"entry", v, 0>>}
    OBVIOUS
  <1> PICK old : old = [h \in Holders' |-> h]
    OBVIOUS
  <1>6. Len(<<>>) = 0
    OBVIOUS
  <1>7. ASSUME NEW h \in Holders' \ new
        PROVE  h \in Holders /\ IdOf(h)' = IdOf(h)
    <2>1. ASSUME NEW k \in DOMAIN sequences', h = <<"sequence", k, 0>>
          PROVE  h \in Holders /\ IdOf(h)' = IdOf(h)
      <3>1. k \in DOMAIN sequences
        BY <1>4, <2>1
      <3> QED
        BY <1>4, <2>1, <3>1, HolderKinds DEF IdOf
    <2>2. ASSUME NEW k \in DOMAIN sequences', NEW e \in 0 .. Len(sequences'[k].entries),
                 h = <<"entry", k, e>>
          PROVE  h \in Holders /\ IdOf(h)' = IdOf(h)
      <3>1. k \in DOMAIN sequences
        <4>1. k = v => e = 0
          BY <1>1, <1>4, <1>6, <2>2
        <4> QED
          BY <1>4, <2>2, <4>1
      <3>2. e \in Slots(k) /\ sequences'[k] = sequences[k]
        BY <1>4, <3>1 DEF Slots
      <3> QED
        BY <2>2, <3>1, <3>2, HolderKinds DEF IdOf, SlotId
    <2>3. ASSUME NEW k \in DOMAIN segments, h = <<"segment", k, 0>>
          PROVE  h \in Holders /\ IdOf(h)' = IdOf(h)
      BY <1>5, <2>3, HolderKinds DEF IdOf
    <2> QED
      BY <1>5, <2>1, <2>2, <2>3 DEF Holders, Slots
  <1>8. \A h \in Holders' \ new : old[h] = h
    OBVIOUS
  <1>9. /\ IdOf(<<"sequence", v, 0>>)' = id
        /\ IdOf(<<"entry", v, 0>>)' = d
    BY <1>1, <1>4 DEF IdOf, SlotId
  <1>10. \A h \in new : IdOf(h)' \notin ItemIds
    BY <1>2, <1>9
  <1>11. \A g, h \in new : IdOf(g)' = IdOf(h)' => g = h \/ IdOf(g)' = NoId
    BY <1>3, <1>9
  <1>12. Added(old, new)
    BY <1>7, <1>8, <1>10, <1>11 DEF Added
  <1> QED
    BY <1>12, HoldersAdded

\* vcd_obj_append_segment_play_item looks its id up.
LEMMA AppendSegmentApart ==
    ASSUME ObjTypeOK, IdsApart, NEW s \in Sources, NEW id \in Ids.segment, AppendSegment(s, id)
    PROVE  IdsApart'
  <1>1. PICK q : segments' = Append(segments, q) /\ q.id = id
    BY DEF AppendSegment
  <1>2. id \notin ItemIds
    <2> DEFINE ids == <<id>>
    <2>1. Unknown(ids) /\ 1 \in DOMAIN ids
      BY DEF AppendSegment
    <2>2. ids[1] = id
      OBVIOUS
    <2> HIDE DEF ids
    <2> QED
      BY <2>1, <2>2, UnknownIds
  <1>3. PICK v \in Nat :
          /\ DOMAIN segments' = DOMAIN segments \cup {v}
          /\ segments'[v] = q
          /\ \A k \in DOMAIN segments : segments'[k] = segments[k]
    <2>1. segments \in Seq(SegmentType(AllIds))
      BY DEF ObjTypeOK
    <2>2. Len(segments) \in Nat /\ DOMAIN segments = 1 .. Len(segments)
      BY <2>1, LenProperties
    <2>3. /\ DOMAIN segments' = 1 .. Len(segments) + 1
          /\ segments'[Len(segments) + 1] = q
          /\ \A k \in 1 .. Len(segments) : segments'[k] = segments[k]
      BY <1>1, <2>1, <2>2
    <2> QED
      BY <2>2, <2>3
  <1>4. sequences' = sequences
    BY DEF AppendSegment
  <1> PICK new : new = {<<"segment", v, 0>>}
    OBVIOUS
  <1> PICK old : old = [h \in Holders' |-> h]
    OBVIOUS
  <1>5. ASSUME NEW h \in Holders' \ new
        PROVE  h \in Holders /\ IdOf(h)' = IdOf(h)
    <2>1. ASSUME NEW k \in DOMAIN segments', h = <<"segment", k, 0>>
          PROVE  h \in Holders /\ IdOf(h)' = IdOf(h)
      <3>1. k \in DOMAIN segments
        BY <1>3, <2>1
      <3> QED
        BY <1>3, <2>1, <3>1, HolderKinds DEF IdOf
    <2>2. ASSUME NEW k \in DOMAIN sequences, h = <<"sequence", k, 0>>
          PROVE  h \in Holders /\ IdOf(h)' = IdOf(h)
      BY <1>4, <2>2, HolderKinds DEF IdOf
    <2>3. ASSUME NEW k \in DOMAIN sequences, NEW e \in Slots(k), h = <<"entry", k, e>>
          PROVE  h \in Holders /\ IdOf(h)' = IdOf(h)
      BY <1>4, <2>3, HolderKinds DEF IdOf, SlotId
    <2> QED
      BY <1>4, <2>1, <2>2, <2>3 DEF Holders, Slots
  <1>6. \A h \in Holders' \ new : old[h] = h
    OBVIOUS
  <1>7. IdOf(<<"segment", v, 0>>)' = id
    BY <1>1, <1>3 DEF IdOf
  <1>8. \A h \in new : IdOf(h)' \notin ItemIds
    BY <1>2, <1>7
  <1>9. Added(old, new)
    BY <1>5, <1>6, <1>8 DEF Added
  <1> QED
    BY <1>9, HoldersAdded


\* list is entries with a new one at that place.
PutAt(list, entries, at, entry) ==
    /\ Len(list) = Len(entries) + 1
    /\ \A j \in 1 .. Len(entries) + 1 :
          list[j] = (IF j < at THEN entries[j] ELSE IF j = at THEN entry ELSE entries[j - 1])

\* The list that add_sequence_entry makes: the new entry point has a place in it, the
\* others are before and behind it.
LEMMA WithEntryPlaces ==
    ASSUME NEW ids, NEW entries \in Seq(EntryType(ids)), NEW entry \in EntryType(ids)
    PROVE  \E at \in 1 .. Len(entries) + 1 : PutAt(WithEntry(entries, entry), entries, at, entry)
  <1>1. entry.time \in Int
    BY DEF EntryType
  <1> DEFINE at == Cardinality(NoLater(entries, entry.time)) + 1
  <1>2. Cardinality(NoLater(entries, entry.time)) \in 0 .. Len(entries)
    BY <1>1, PlaceInList
  <1>3. at \in 1 .. Len(entries) + 1
    BY <1>2, LenProperties
  <1>4. WithEntry(entries, entry) = InsertAt(entries, at, entry)
    BY DEF WithEntry, NoLater
  <1> HIDE DEF at
  <1>5. /\ Len(InsertAt(entries, at, entry)) = Len(entries) + 1
        /\ \A j \in 1 .. Len(entries) + 1 :
              InsertAt(entries, at, entry)[j] =
                  (IF j < at THEN entries[j] ELSE IF j = at THEN entry ELSE entries[j - 1])
    BY <1>3, InsertAtProperties
  <1> QED
    BY <1>3, <1>4, <1>5 DEF PutAt

\* vcd_obj_add_sequence_entry looks the id up, and moves what is later in the list.
LEMMA AddSequenceEntryApart ==
    ASSUME ObjTypeOK, IdsApart, NEW c \in DOMAIN sequences, NEW t \in EntryTimes,
           NEW id \in Ids.entry, NEW q, AddSequenceEntry(c, q, t, id)
    PROVE  IdsApart'
  <1> PICK list : list = sequences[c].entries
    OBVIOUS
  <1> PICK entry : entry = NewEntry(t, id)
    OBVIOUS
  <1> PICK with : with = WithEntry(list, entry)
    OBVIOUS
  <1>1. list \in Seq(EntryType(AllIds)) /\ entry \in EntryType(AllIds)
    BY SequenceTypes, NewEntryType
  <1>2. PICK at \in 1 .. Len(list) + 1 :
          /\ Len(with) = Len(list) + 1
          /\ \A j \in 1 .. Len(list) + 1 :
                with[j] = (IF j < at THEN list[j] ELSE IF j = at THEN entry ELSE list[j - 1])
    <2>1. PICK at \in 1 .. Len(list) + 1 : PutAt(WithEntry(list, entry), list, at, entry)
      BY <1>1, WithEntryPlaces
    <2>2. PutAt(with, list, at, entry)
      BY <2>1
    <2> QED
      BY <2>2 DEF PutAt
  <1>3. Len(list) \in Nat /\ at \in Nat /\ at >= 1
    BY <1>1, LenProperties
  <1>4. id \notin ItemIds
    <2> DEFINE ids == <<id>>
    <2>1. Unknown(ids) /\ 1 \in DOMAIN ids
      BY DEF AddSequenceEntry
    <2>2. ids[1] = id
      OBVIOUS
    <2> HIDE DEF ids
    <2> QED
      BY <2>1, <2>2, UnknownIds
  <1>5. segments' = segments
    BY DEF AddSequenceEntry
  <1>6. /\ DOMAIN sequences' = DOMAIN sequences
        /\ sequences'[c].entries = with
        /\ sequences'[c].default_entry_id = sequences[c].default_entry_id
        /\ \A k \in DOMAIN sequences : sequences'[k].id = sequences[k].id
        /\ \A k \in DOMAIN sequences : k # c => sequences'[k] = sequences[k]
    <2>1. sequences' = [sequences EXCEPT ![c].entries = with]
      BY AddSequenceEntryType
    <2>2. sequences[c] \in SequenceType(AllIds)
      BY SequenceTypes
    <2>3. sequences'[c] = [sequences[c] EXCEPT !.entries = with]
      BY <2>1
    <2>4. /\ sequences'[c].entries = with
          /\ sequences'[c].default_entry_id = sequences[c].default_entry_id
          /\ sequences'[c].id = sequences[c].id
      BY <2>2, <2>3 DEF SequenceType
    <2>5. DOMAIN sequences' = DOMAIN sequences
      BY <2>1
    <2>6. \A k \in DOMAIN sequences : k # c => sequences'[k] = sequences[k]
      BY <2>1
    <2> QED
      BY <2>4, <2>5, <2>6
  <1> PICK new : new = {<<"entry", c, at>>}
    OBVIOUS
  <1> DEFINE moved(h) == h[1] = "entry" /\ h[2] = c /\ h[3] > at
  <1> PICK old : \A h \in Holders' :
                    old[h] = IF moved(h) THEN <<"entry", c, h[3] - 1>> ELSE h
    <2> DEFINE f == [h \in Holders' |-> IF moved(h) THEN <<"entry", c, h[3] - 1>> ELSE h]
    <2>1. \A h \in Holders' : f[h] = IF moved(h) THEN <<"entry", c, h[3] - 1>> ELSE h
      OBVIOUS
    <2> HIDE DEF f
    <2> QED
      BY <2>1
  <1>7. ASSUME NEW h \in Holders' \ new
        PROVE  /\ old[h] \in Holders
               /\ IdOf(h)' = IdOf(old[h])
               /\ moved(h) => /\ h = <<"entry", c, h[3]>>
                              /\ h[3] \in Nat
                              /\ old[h] = <<"entry", c, h[3] - 1>>
                              /\ h[3] - 1 >= at
               /\ ~moved(h) => old[h] = h
    <2>1. ASSUME NEW k \in DOMAIN sequences, h = <<"sequence", k, 0>>
          PROVE  ~moved(h) /\ old[h] = h /\ h \in Holders /\ IdOf(h)' = IdOf(h)
      <3>1. ~moved(h)
        BY <2>1
      <3>2. old[h] = h
        BY <3>1
      <3> QED
        BY <1>6, <2>1, <3>1, <3>2, HolderKinds DEF IdOf
    <2>2. ASSUME NEW k \in DOMAIN segments, h = <<"segment", k, 0>>
          PROVE  ~moved(h) /\ old[h] = h /\ h \in Holders /\ IdOf(h)' = IdOf(h)
      <3>1. ~moved(h)
        BY <2>2
      <3>2. old[h] = h
        BY <3>1
      <3> QED
        BY <1>5, <2>2, <3>1, <3>2, HolderKinds DEF IdOf
    <2>3. ASSUME NEW k \in DOMAIN sequences, NEW e \in Slots(k), k # c, h = <<"entry", k, e>>
          PROVE  ~moved(h) /\ old[h] = h /\ h \in Holders /\ IdOf(h)' = IdOf(h)
      <3>1. ~moved(h)
        BY <2>3
      <3>2. old[h] = h
        BY <3>1
      <3> QED
        BY <1>6, <2>3, <3>1, <3>2, HolderKinds DEF IdOf, SlotId
    <2>4. ASSUME NEW e \in 0 .. Len(list) + 1, e < at, h = <<"entry", c, e>>
          PROVE  ~moved(h) /\ old[h] = h /\ h \in Holders /\ IdOf(h)' = IdOf(h)
      <3>1. ~moved(h) /\ e \in 0 .. Len(list)
        BY <1>3, <2>4
      <3>2. old[h] = h
        BY <3>1
      <3>3. h \in Holders
        BY <2>4, <3>1, HolderKinds DEF Slots
      <3>4. e # 0 => with[e] = list[e]
        BY <1>2, <1>3, <2>4
      <3>5. IdOf(h)' = IdOf(h)
        BY <1>6, <2>4, <3>4 DEF IdOf, SlotId
      <3> QED
        BY <3>1, <3>2, <3>3, <3>5
    <2>5. ASSUME NEW e \in 0 .. Len(list) + 1, e > at, h = <<"entry", c, e>>
          PROVE  /\ moved(h) /\ h[3] = e /\ old[h] = <<"entry", c, e - 1>>
                 /\ old[h] \in Holders /\ IdOf(h)' = IdOf(old[h])
      <3>1. moved(h) /\ h[3] = e /\ e - 1 \in 1 .. Len(list) /\ e \in 1 .. Len(list) + 1
        BY <1>3, <2>5
      <3>2. old[h] = <<"entry", c, e - 1>>
        BY <3>1
      <3>3. <<"entry", c, e - 1>> \in Holders
        <4>1. e - 1 \in Slots(c)
          BY <1>3, <3>1 DEF Slots
        <4> QED
          BY <4>1, HolderKinds
      <3>4. with[e] = list[e - 1]
        BY <1>2, <1>3, <2>5, <3>1
      <3>5. IdOf(h)' = list[e - 1].id
        <4>1. e # 0
          BY <3>1
        <4> QED
          BY <1>6, <2>5, <3>4, <4>1 DEF IdOf, SlotId
      <3>6. IdOf(<<"entry", c, e - 1>>) = list[e - 1].id
        <4>1. e - 1 # 0
          BY <3>1
        <4>2. SlotId(c, e - 1) = list[e - 1].id
          BY <4>1 DEF SlotId
        <4> QED
          BY <4>2, IdOfKinds
      <3> QED
        BY <3>1, <3>2, <3>3, <3>5, <3>6
    <2>6. \/ \E k \in DOMAIN sequences : h = <<"sequence", k, 0>>
          \/ \E k \in DOMAIN segments : h = <<"segment", k, 0>>
          \/ \E k \in DOMAIN sequences : k # c /\ \E e \in Slots(k) : h = <<"entry", k, e>>
          \/ \E e \in 0 .. Len(list) + 1 : h = <<"entry", c, e>>
      <3>1. \/ \E k \in DOMAIN sequences : h = <<"sequence", k, 0>>
            \/ \E k \in DOMAIN segments : h = <<"segment", k, 0>>
            \/ \E k \in DOMAIN sequences : \E e \in 0 .. Len(sequences'[k].entries) :
                  h = <<"entry", k, e>>
        BY <1>5, <1>6 DEF Holders, Slots
      <3> QED
        BY <1>2, <1>6, <3>1 DEF Slots
    <2>7. ASSUME NEW e \in 0 .. Len(list) + 1, h = <<"entry", c, e>>
          PROVE  e < at \/ e > at
      BY <1>3, <2>7
    <2>8. CASE \E e \in 0 .. Len(list) + 1 : h = <<"entry", c, e>>
      <3>1. PICK e \in 0 .. Len(list) + 1 : h = <<"entry", c, e>>
        BY <2>8
      <3>2. CASE e < at
        BY <2>4, <3>1, <3>2
      <3>3. CASE e > at
        <4>1. /\ moved(h) /\ h[3] = e /\ old[h] = <<"entry", c, e - 1>>
              /\ old[h] \in Holders /\ IdOf(h)' = IdOf(old[h])
          BY <2>5, <3>1, <3>3
        <4>2. e \in Nat /\ e - 1 >= at
          BY <1>3, <3>3
        <4> HIDE DEF moved
        <4> QED
          BY <3>1, <4>1, <4>2
      <3> QED
        BY <2>7, <3>1, <3>2, <3>3
    <2> HIDE DEF moved
    <2> QED
      BY <2>1, <2>2, <2>3, <2>6, <2>8
  <1>8. ASSUME NEW g \in Holders' \ new, NEW h \in Holders' \ new, old[g] = old[h]
        PROVE  g = h
    <2>1. ASSUME NEW x \in Holders' \ new, NEW y \in Holders' \ new, old[x] = old[y],
                 moved(x), ~moved(y)
          PROVE  FALSE
      <3>1. /\ y = <<"entry", c, x[3] - 1>> /\ x[3] - 1 >= at /\ x[3] \in Nat
        BY <1>7, <2>1
      <3>2. y[1] = "entry" /\ y[2] = c /\ y[3] = x[3] - 1
        BY <3>1
      <3>3. x[3] - 1 = at
        BY <1>3, <2>1, <3>1, <3>2
      <3> QED
        BY <3>1, <3>3
    <2>2. CASE moved(g) /\ moved(h)
      <3>1. /\ g = <<"entry", c, g[3]>> /\ h = <<"entry", c, h[3]>>
            /\ <<"entry", c, g[3] - 1>> = <<"entry", c, h[3] - 1>>
            /\ g[3] \in Nat /\ h[3] \in Nat
        BY <1>7, <1>8, <2>2
      <3>2. g[3] - 1 = h[3] - 1
        BY <3>1
      <3>3. g[3] = h[3]
        BY <3>1, <3>2
      <3> QED
        BY <3>1, <3>3
    <2>3. CASE ~moved(g) /\ ~moved(h)
      BY <1>7, <1>8, <2>3
    <2> HIDE DEF moved
    <2> QED
      BY <1>8, <2>1, <2>2, <2>3
  <1>9. IdOf(<<"entry", c, at>>)' = id
    <2>1. with[at] = entry /\ at # 0
      BY <1>2, <1>3
    <2>2. SlotId(c, at)' = with[at].id
      BY <1>6, <2>1 DEF SlotId
    <2> QED
      BY <2>1, <2>2 DEF IdOf, NewEntry
  <1>10. \A h \in new : IdOf(h)' \notin ItemIds
    BY <1>4, <1>9
  <1>11. /\ \A h \in Holders' \ new : old[h] \in Holders
         /\ \A h \in Holders' \ new : IdOf(h)' = IdOf(old[h])
    BY <1>7
  <1>12. \A g, h \in Holders' \ new : old[g] = old[h] => g = h
    BY <1>8
  <1>13. \A g, h \in new : IdOf(g)' = IdOf(h)' => g = h \/ IdOf(g)' = NoId
    OBVIOUS
  <1> HIDE DEF moved
  <1>14. Added(old, new)
    BY <1>10, <1>11, <1>12, <1>13 DEF Added
  <1> QED
    BY <1>14, HoldersAdded

\* A call that leaves the items as they are.
LEMMA ApartKept ==
    ASSUME IdsApart, UNCHANGED <<sequences, segments>>
    PROVE  IdsApart'
  <1>1. Holders' = Holders
    BY DEF Holders, Slots
  <1>2. \A h : IdOf(h)' = IdOf(h)
    BY DEF IdOf, SlotId
  <1> QED
    BY <1>1, <1>2 DEF IdsApart

\* No call that fills the object gives an id to two items.
LEMMA BuildNextApart == ObjTypeOK /\ IdsApart /\ BuildNext => IdsApart'
  <1> SUFFICES ASSUME ObjTypeOK, IdsApart, BuildNext PROVE IdsApart'
    OBVIOUS
  <1>1. CASE \E s \in Sources, u \in Ids.sequence, d \in Ids.default :
                AppendSequence(s, u, d)
    BY <1>1, AppendSequenceApart
  <1>2. CASE \E k \in DOMAIN sequences, t \in EntryTimes, u \in Ids.entry :
                \E q \in Ids.sequence \cup {NoId} : AddSequenceEntry(k, q, t, u)
    BY <1>2, AddSequenceEntryApart
  <1>3. CASE \E s \in Sources, u \in Ids.segment : AppendSegment(s, u)
    BY <1>3, AppendSegmentApart
  <1>4. CASE UNCHANGED <<sequences, segments>>
    BY <1>4, ApartKept
  <1> QED
    BY <1>1, <1>2, <1>3, <1>4 DEF BuildNext, SetParam, AddFile, AppendPbcNode, LookupFails, objVars

\* Whatever sequences, entry points and segments a client adds, in whatever order and
\* under whatever ids, an id names one of them: what a play list plays is one thing.
THEOREM ItemsHaveOwnIdsCorrect == ObjSpec => []ItemsHaveOwnIds
  <1> DEFINE Inv == ObjTypeOK /\ IdsApart
  <1>1. ObjInit => Inv
    <2>1. ObjInit => IdsApart
      BY DEF ObjInit, IdsApart, Holders
    <2> QED
      BY <2>1, InitType
  <1>2. Inv /\ [BuildNext]_<<objVars, in_output, aborted>> => Inv'
    <2>1. ASSUME Inv, UNCHANGED buildVars PROVE Inv'
      <3>1. ObjTypeOK'
        BY <2>1 DEF buildVars, objVars, ObjTypeOK
      <3>2. IdsApart'
        BY <2>1, ApartKept DEF buildVars, objVars
      <3> QED
        BY <3>1, <3>2
    <2> QED
      BY <2>1, BuildNextType, BuildNextApart DEF buildVars
  <1>3. Inv => ItemsHaveOwnIds
    BY ApartIsOwn
  <1> QED
    BY <1>1, <1>2, <1>3, PTL DEF ObjSpec


-----------------------------------------------------------------------------
(* The allocator, while there is no gap.                                   *)

\* The highest sector of a run is its last.
LEMMA HighestOfRun ==
    ASSUME NEW e \in Nat \ {0}
    PROVE  Highest(0 .. e - 1) = e - 1
  <1>1. \E h \in 0 .. e - 1 : \A s \in 0 .. e - 1 : s <= h
    <2>1. e - 1 \in 0 .. e - 1 /\ \A s \in 0 .. e - 1 : s <= e - 1
      OBVIOUS
    <2> QED
      BY <2>1
  <1>2. /\ Highest(0 .. e - 1) \in 0 .. e - 1
        /\ \A s \in 0 .. e - 1 : s <= Highest(0 .. e - 1)
    BY <1>1 DEF Highest
  <1> DEFINE h == Highest(0 .. e - 1)
  <1>3. h \in 0 .. e - 1 /\ e - 1 <= h
    BY <1>2
  <1> HIDE DEF h
  <1> QED
    BY <1>3 DEF h

\* The first place behind a run is its end.
LEMMA FirstFitOfRun ==
    ASSUME NEW e \in Nat \ {0}, NEW size \in Nat \ {0}
    PROVE  FirstFit(0 .. e - 1, size) = e
  <1> DEFINE used == 0 .. e - 1
             Fits(h) == /\ IsFree(used, h, size)
                        /\ \A g \in Candidates(used) : IsFree(used, g, size) => h <= g
  <1>1. Candidates(used) = 0 .. e
    <2>1. \A s : s \in Candidates(used) <=> s \in 0 .. e
      <3>1. \A s : s \in Candidates(used) <=> s = 0 \/ \E u \in 0 .. e - 1 : s = u + 1
        BY DEF Candidates
      <3>2. \A s \in 1 .. e : s - 1 \in 0 .. e - 1 /\ s = (s - 1) + 1
        OBVIOUS
      <3>3. \A u \in 0 .. e - 1 : u + 1 \in 1 .. e
        OBVIOUS
      <3>4. \A s : s \in 0 .. e <=> s = 0 \/ s \in 1 .. e
        OBVIOUS
      <3> QED
        BY <3>1, <3>2, <3>3, <3>4
    <2> QED
      BY <2>1
  <1>2. \A g \in 0 .. e : IsFree(used, g, size) <=> g = e
    <2>1. IsFree(used, e, size)
      BY DEF IsFree, Extent
    <2>2. ASSUME NEW g \in 0 .. e, g # e PROVE ~IsFree(used, g, size)
      <3>1. g \in Extent(g, size) /\ g \in used
        BY <2>2 DEF Extent
      <3> QED
        BY <3>1 DEF IsFree
    <2> QED
      BY <2>1, <2>2
  <1>3. e \in Candidates(used) /\ Fits(e)
    BY <1>1, <1>2
  <1>4. \A h \in Candidates(used) : Fits(h) => h = e
    BY <1>1, <1>2
  <1>5. FirstFit(used, size) = CHOOSE h \in Candidates(used) : Fits(h)
    BY DEF FirstFit
  <1> HIDE DEF Fits
  <1> QED
    BY <1>3, <1>4, <1>5

\* What is reserved there makes the run longer.
LEMMA RunGrows ==
    ASSUME NEW e \in Nat, NEW size \in Nat
    PROVE  (0 .. e - 1) \cup Extent(e, size) = 0 .. e + size - 1
  BY DEF Extent

\* Two extents one after the other share no sector.
LEMMA ApartIsDisjoint ==
    ASSUME NEW a \in Int, NEW b \in Int, NEW la \in Int, NEW lb \in Int, a + la <= b
    PROVE  Extent(a, la) \cap Extent(b, lb) = {} /\ Extent(b, lb) \cap Extent(a, la) = {}
  BY DEF Extent

-----------------------------------------------------------------------------
(* The shape of the state: types, numbers of items, and a bitmap without   *)
(* gaps from the end of ReserveFixed on.                                   *)

Growing == {"svcd", "fill", "segments", "ext", "files", "filesystem"}

Started == Growing \cup {"entries", "output"} \cup WritePhases

BufferType == [key : BufferKeys, sector : Nat, length : Nat \ {0}]

LayoutTypeOK ==
    /\ pc \in Phases
    /\ i \in Nat
    /\ n \in Nat
    /\ query \in BOOLEAN
    /\ queried \in Nat \cup {-1}
    /\ iso_bitmap \subseteq Nat
    /\ dict \subseteq BufferType
    /\ mpeg_segment_start_extent \in Nat
    /\ ext_file_start_extent \in Nat
    /\ custom_file_start_extent \in Nat
    /\ iso_size \in Nat
    /\ image_size \in Nat

WriterTypeOK ==
    /\ sectors_written \in Nat
    /\ in_track \in Nat
    /\ last_cb_call \in Nat
    /\ cancelled \in BOOLEAN
    /\ result \in {-1, 0, 1}

Counts ==
    /\ Len(pbc_list) <= MaxItems.pbc_list
    /\ Len(sequences) <= MaxItems.sequences

Counting == pc \in Started => i >= 1

InTrack == pc = "sequence" => i <= Len(sequences)

Packed == pc \in Started => End \in Nat \ {0} /\ iso_bitmap = 0 .. End - 1

ShapeInv ==
    /\ ObjTypeOK /\ LayoutTypeOK /\ WriterTypeOK
    /\ Counts /\ Counting /\ InTrack /\ Packed

\* The type invariant of Mastering is that of the object, the layout and the writer.
LEMMA TypeParts == TypeOK <=> ObjTypeOK /\ LayoutTypeOK /\ WriterTypeOK
  BY DEF TypeOK, LayoutTypeOK, WriterTypeOK, BufferType

\* The phases, in one place.
LEMMA PhaseSets ==
    /\ Started \subseteq Phases
    /\ LayoutPhases = {"reserve", "entries"} \cup Growing
    /\ {"idle", "exited", "destroyed", "reserve"} \cap Started = {}
  BY DEF Started, Growing, Phases, LayoutPhases, WritePhases

\* The numbers of items of a well-formed object.
LEMMA ListLengths ==
    ASSUME ObjTypeOK
    PROVE  /\ Len(sequences) \in Nat /\ DOMAIN sequences = 1 .. Len(sequences)
           /\ Len(segments) \in Nat /\ DOMAIN segments = 1 .. Len(segments)
           /\ Len(files) \in Nat /\ DOMAIN files = 1 .. Len(files)
           /\ Len(pbc_list) \in Nat
  BY LenProperties DEF ObjTypeOK

\* What other components generate has a size.
LEMMA AreaSizes ==
    ASSUME ShapeInv
    PROVE  /\ PsdBlocks(Len(pbc_list)) \in Nat \ {0}
           /\ SearchBlocks(Len(sequences)) \in Nat \ {0}
           /\ ScandataBlocks(Len(sequences)) \in Nat \ {0}
  <1>1. /\ Len(pbc_list) \in 0 .. MaxItems.pbc_list
        /\ Len(sequences) \in 0 .. MaxItems.sequences
    BY ListLengths, BlocksAssumption DEF ShapeInv, Counts
  <1> QED
    BY <1>1, BlocksAssumption

\* A bitmap that is a run ends where the run does.
LEMMA NewRun ==
    ASSUME NEW e \in Nat \ {0}, iso_bitmap' = 0 .. e - 1
    PROVE  End' = e /\ Packed' /\ iso_bitmap' \subseteq Nat
  <1>1. End' = e
    BY HighestOfRun DEF End
  <1> QED
    BY <1>1 DEF Packed

\* The next place that is free, while the bitmap is a run.
LEMMA NextPlace ==
    ASSUME ShapeInv, pc \in Started, NEW size \in Nat \ {0}
    PROVE  FirstFit(iso_bitmap, size) = End
  BY FirstFitOfRun DEF ShapeInv, Packed

\* A step that changes neither the object nor the bitmap, and fails or moves on.
LEMMA ShapeKept ==
    ASSUME ShapeInv, UNCHANGED <<objVars, iso_bitmap>>, in_output' \in BOOLEAN,
           aborted' \in BOOLEAN, LayoutTypeOK', WriterTypeOK',
           pc' \in Started => pc \in Started, i' = i \/ i' >= 1,
           pc' = "sequence" => i' <= Len(sequences)
    PROVE  ShapeInv'
  <1>1. ObjTypeOK' /\ Counts'
    BY DEF ShapeInv, ObjTypeOK, Counts, objVars
  <1>2. Packed' /\ Counting' /\ InTrack'
    BY DEF ShapeInv, Packed, End, Counting, InTrack, objVars
  <1> QED
    BY <1>1, <1>2 DEF ShapeInv

\* A step of the layout that makes the bitmap a run, or a longer one.
LEMMA ShapeRuns ==
    ASSUME ShapeInv, ObjTypeOK', UNCHANGED <<sequences, pbc_list, writerVars>>,
           UNCHANGED <<query, queried, image_size>>, pc' \in LayoutPhases, i' \in Nat \ {0}, n' \in Nat,
           mpeg_segment_start_extent' \in Nat, ext_file_start_extent' \in Nat,
           custom_file_start_extent' \in Nat, iso_size' \in Nat,
           dict' \subseteq BufferType, NEW e \in Nat \ {0}, iso_bitmap' = 0 .. e - 1
    PROVE  ShapeInv' /\ End' = e
  <1>1. End' = e /\ Packed' /\ iso_bitmap' \subseteq Nat
    BY NewRun
  <1>2. LayoutTypeOK'
    BY <1>1 DEF ShapeInv, LayoutTypeOK, Phases
  <1>3. WriterTypeOK' /\ Counts' /\ Counting' /\ InTrack'
    BY DEF ShapeInv, WriterTypeOK, writerVars, Counts, Counting, InTrack, LayoutPhases
  <1> QED
    BY <1>1, <1>2, <1>3 DEF ShapeInv

\* The places of the areas, where a step does not compute them.
LEMMA ExtentTypes ==
    ASSUME ShapeInv
    PROVE  /\ mpeg_segment_start_extent \in Nat /\ ext_file_start_extent \in Nat
           /\ custom_file_start_extent \in Nat /\ iso_size \in Nat
           /\ dict \subseteq BufferType /\ i \in Nat /\ n \in Nat
  BY DEF ShapeInv, LayoutTypeOK

\* A failed assertion.
LEMMA ShapeFails == ASSUME ShapeInv, Fails, UNCHANGED writerVars PROVE ShapeInv'
  <1>1. LayoutTypeOK'
    BY DEF Fails, ShapeInv, LayoutTypeOK, layoutVars, extents
  <1>2. WriterTypeOK'
    BY DEF ShapeInv, WriterTypeOK, writerVars
  <1>3. /\ UNCHANGED <<objVars, iso_bitmap, pc, i>>
        /\ in_output' \in BOOLEAN /\ aborted' \in BOOLEAN
        /\ pc' = "sequence" => i' <= Len(sequences)
    BY DEF Fails, layoutVars, ShapeInv, ObjTypeOK, InTrack
  <1> QED
    BY <1>1, <1>2, <1>3, ShapeKept

\* The end of the areas with a place of their own.
FixedEnd ==
    IF pbc_available THEN PSD_VCD_SECTOR + PsdBlocks(Len(pbc_list)) ELSE LOT_VCD_SECTOR

\* What _dict_insert records.
LEMMA EntryIsBuffer ==
    ASSUME NEW key \in BufferKeys, NEW sector \in Nat, NEW length \in Nat \ {0}
    PROVE  /\ Entry(key, sector, length) \in BufferType
           /\ SectorsOf(Entry(key, sector, length)) = Extent(sector, length)
  BY DEF Entry, BufferType, SectorsOf

\* They leave no gap: each begins where another one ends, or within it.
LEMMA FixedAreas ==
    ASSUME ShapeInv
    PROVE  /\ FixedEnd \in Nat \ {0}
           /\ AllSectorsOf(Blank \cup Buffers \cup PbcBuffers) = 0 .. FixedEnd - 1
           /\ Buffers \cup PbcBuffers \subseteq BufferType
  <1> DEFINE areas == Blank \cup Buffers \cup PbcBuffers
             p == PsdBlocks(Len(pbc_list))
             has == pbc_available
  <1>1. p \in Nat \ {0}
    BY AreaSizes
  <1>2. \A s : s \in AllSectorsOf(areas) <=> \E e \in areas : s \in SectorsOf(e)
    BY DEF AllSectorsOf
  <1>3. \A s : s \in AllSectorsOf(areas) <=>
            \/ s \in 0 .. SILENCE - 1
            \/ s \in KARAOKE_SECTOR .. KARAOKE_SECTOR + KARAOKE_SIZE - 1
            \/ s \in DIR_SECTOR .. DIR_SECTOR + (KARAOKE_SECTOR - DIR_SECTOR) - 1
            \/ s \in ISO_PVD_SECTOR .. ISO_PVD_SECTOR + 1 - 1
            \/ s \in ISO_EVD_SECTOR .. ISO_EVD_SECTOR + 1 - 1
            \/ s \in INFO_VCD_SECTOR .. INFO_VCD_SECTOR + 1 - 1
            \/ s \in ENTRIES_VCD_SECTOR .. ENTRIES_VCD_SECTOR + 1 - 1
            \/ has /\ s \in LOT_VCD_SECTOR .. LOT_VCD_SECTOR + LOT_VCD_SIZE - 1
            \/ has /\ s \in PSD_VCD_SECTOR .. PSD_VCD_SECTOR + p - 1
    <2>1. TAKE s
    <2>2. (\E e \in Blank : s \in SectorsOf(e)) <=>
            \/ s \in 0 .. 0 + SILENCE - 1
            \/ s \in KARAOKE_SECTOR .. KARAOKE_SECTOR + KARAOKE_SIZE - 1
            \/ s \in DIR_SECTOR .. DIR_SECTOR + (KARAOKE_SECTOR - DIR_SECTOR) - 1
      BY DEF Blank, Entry, SectorsOf, Extent
    <2>3. (\E e \in Buffers : s \in SectorsOf(e)) <=>
            \/ s \in ISO_PVD_SECTOR .. ISO_PVD_SECTOR + 1 - 1
            \/ s \in ISO_EVD_SECTOR .. ISO_EVD_SECTOR + 1 - 1
            \/ s \in INFO_VCD_SECTOR .. INFO_VCD_SECTOR + 1 - 1
            \/ s \in ENTRIES_VCD_SECTOR .. ENTRIES_VCD_SECTOR + 1 - 1
      BY DEF Buffers, Entry, SectorsOf, Extent
    <2>4. (\E e \in PbcBuffers : s \in SectorsOf(e)) <=>
            \/ has /\ s \in LOT_VCD_SECTOR .. LOT_VCD_SECTOR + LOT_VCD_SIZE - 1
            \/ has /\ s \in PSD_VCD_SECTOR .. PSD_VCD_SECTOR + p - 1
      <3>1. CASE has
        <4>1. PbcBuffers = {Entry("lot", LOT_VCD_SECTOR, LOT_VCD_SIZE),
                            Entry("psd", PSD_VCD_SECTOR, p)}
          BY <3>1 DEF PbcBuffers
        <4> HIDE DEF p, has
        <4> QED
          BY <3>1, <4>1 DEF Entry, SectorsOf, Extent
      <3>2. CASE ~has
        <4>1. PbcBuffers = {}
          BY <3>2 DEF PbcBuffers
        <4> HIDE DEF p, has
        <4> QED
          BY <3>2, <4>1
      <3> QED
        BY <3>1, <3>2
    <2>5. 0 + SILENCE - 1 = SILENCE - 1
      BY LayoutAssumption
    <2>6. (\E e \in areas : s \in SectorsOf(e)) <=>
            \/ \E e \in Blank : s \in SectorsOf(e)
            \/ \E e \in Buffers : s \in SectorsOf(e)
            \/ \E e \in PbcBuffers : s \in SectorsOf(e)
      OBVIOUS
    <2> QED
      BY <1>2, <2>2, <2>3, <2>4, <2>5, <2>6
  <1>4. FixedEnd = IF has THEN PSD_VCD_SECTOR + p ELSE LOT_VCD_SECTOR
    BY DEF FixedEnd
  <1>5. FixedEnd \in Nat \ {0}
    BY <1>1, <1>4, LayoutAssumption
  <1> HIDE DEF p, has, areas
  <1>6. \A s : s \in AllSectorsOf(areas) <=> s \in 0 .. FixedEnd - 1
    BY <1>1, <1>3, <1>4, <1>5, LayoutAssumption
  <1>7. Buffers \cup PbcBuffers \subseteq BufferType
    <2>1. Buffers \subseteq BufferType
      <3>1. /\ ISO_PVD_SECTOR \in Nat /\ ISO_EVD_SECTOR \in Nat
            /\ INFO_VCD_SECTOR \in Nat /\ ENTRIES_VCD_SECTOR \in Nat
            /\ 1 \in Nat \ {0}
        BY LayoutAssumption
      <3>2. /\ Entry("pvd", ISO_PVD_SECTOR, 1) \in BufferType
            /\ Entry("evd", ISO_EVD_SECTOR, 1) \in BufferType
            /\ Entry("info", INFO_VCD_SECTOR, 1) \in BufferType
            /\ Entry("entries", ENTRIES_VCD_SECTOR, 1) \in BufferType
        BY <3>1, EntryIsBuffer DEF BufferKeys
      <3> QED
        BY <3>2 DEF Buffers
    <2>2. PbcBuffers \subseteq BufferType
      <3>1. /\ LOT_VCD_SECTOR \in Nat /\ PSD_VCD_SECTOR \in Nat
            /\ LOT_VCD_SIZE \in Nat \ {0} /\ PsdBlocks(Len(pbc_list)) \in Nat \ {0}
        BY <1>1, LayoutAssumption DEF p
      <3>2. /\ Entry("lot", LOT_VCD_SECTOR, LOT_VCD_SIZE) \in BufferType
            /\ Entry("psd", PSD_VCD_SECTOR, PsdBlocks(Len(pbc_list))) \in BufferType
        BY <3>1, EntryIsBuffer DEF BufferKeys
      <3> QED
        BY <3>2 DEF PbcBuffers
    <2> QED
      BY <2>1, <2>2
  <1> QED
    BY <1>5, <1>6, <1>7 DEF areas

\* The areas with a place of their own.
LEMMA ReserveFixedShape ==
    ASSUME ShapeInv, ReserveFixed, UNCHANGED writerVars
    PROVE  ShapeInv'
  <1>1. CASE Fails
    BY <1>1, ShapeFails
  <1>2. CASE ~Fails
    <2>1. /\ iso_bitmap' = AllSectorsOf(Blank \cup Buffers \cup PbcBuffers)
          /\ dict' = Buffers \cup PbcBuffers
          /\ pc' = "svcd" /\ i' = 1 /\ n' = 0
          /\ UNCHANGED <<objVars, in_output, aborted, query, queried, extents>>
      BY <1>2 DEF ReserveFixed, Goto
    <2>2. PICK e : e = FixedEnd
      OBVIOUS
    <2>3. /\ e \in Nat \ {0} /\ iso_bitmap' = 0 .. e - 1
          /\ dict' \subseteq BufferType
      BY <2>1, <2>2, FixedAreas
    <2>4. ObjTypeOK'
      BY <2>1 DEF ShapeInv, ObjTypeOK, objVars
    <2>5. pc' \in LayoutPhases
      BY <2>1 DEF LayoutPhases
    <2>6. /\ UNCHANGED <<sequences, pbc_list, query, queried>>
          /\ UNCHANGED <<mpeg_segment_start_extent, ext_file_start_extent>>
          /\ UNCHANGED <<custom_file_start_extent, iso_size, image_size>>
      BY <2>1 DEF objVars, extents
    <2>7. i' \in Nat \ {0} /\ n' \in Nat
      BY <2>1
    <2>8. dict' \subseteq BufferType
      BY <2>3
    <2> QED
      BY <2>3, <2>4, <2>5, <2>6, <2>7, <2>8, ExtentTypes, ShapeRuns
  <1> QED
    BY <1>1, <1>2

\* A new buffer, with a place of its own, and the bitmap after it.
LEMMA OneMoreBuffer ==
    ASSUME ShapeInv, NEW key \in BufferKeys, NEW e \in Nat, NEW size \in Nat \ {0}
    PROVE  /\ dict \cup {Entry(key, e, size)} \subseteq BufferType
           /\ (0 .. e - 1) \cup Extent(e, size) = 0 .. e + size - 1
           /\ SectorsOf(Entry(key, e, size)) = Extent(e, size)
           /\ e + size \in Nat \ {0}
  <1>1. Entry(key, e, size) \in BufferType
    BY EntryIsBuffer
  <1>2. dict \subseteq BufferType
    BY DEF ShapeInv, LayoutTypeOK
  <1> QED
    BY <1>1, <1>2, RunGrows, EntryIsBuffer

\* The search files of an SVCD, where they go.
LEMMA ReserveSearchPlaces ==
    ASSUME ShapeInv, ReserveSearch, ~Fails
    PROVE  \/ /\ UNCHANGED <<iso_bitmap, dict>>
           \/ /\ dict' = dict \cup {Entry("tracks", End, 1),
                                    Entry("search", End + 1, SearchBlocks(Len(sequences)))}
              /\ iso_bitmap' = 0 .. End + 1 + SearchBlocks(Len(sequences)) - 1
              /\ SearchBlocks(Len(sequences)) \in Nat \ {0}
  <1> DEFINE size == SearchBlocks(Len(sequences))
             tracks == Entry("tracks", FirstFit(iso_bitmap, 1), 1)
             used == iso_bitmap \cup SectorsOf(tracks)
             search == Entry("search", FirstFit(used, size), size)
  <1>1. size \in Nat \ {0}
    BY AreaSizes
  <1>2. pc = "svcd"
    BY DEF ReserveSearch, Running
  <1>3. End \in Nat \ {0} /\ iso_bitmap = 0 .. End - 1
    BY <1>2 DEF ShapeInv, Packed, Started, Growing
  <1>4. tracks = Entry("tracks", End, 1)
    BY <1>3, FirstFitOfRun
  <1>5. SectorsOf(Entry("tracks", End, 1)) = Extent(End, 1)
    BY <1>3, EntryIsBuffer DEF BufferKeys
  <1>6. used = 0 .. (End + 1) - 1 /\ End + 1 \in Nat \ {0}
    BY <1>3, <1>4, <1>5, RunGrows
  <1>7. FirstFit(used, size) = End + 1
    BY <1>1, <1>6, FirstFitOfRun
  <1>8. SectorsOf(Entry("search", End + 1, size)) = Extent(End + 1, size)
    BY <1>1, <1>6, EntryIsBuffer DEF BufferKeys
  <1>9. used \cup SectorsOf(search) = 0 .. End + 1 + size - 1
    BY <1>1, <1>6, <1>7, <1>8, RunGrows
  <1>10. \/ UNCHANGED <<iso_bitmap, dict>>
         \/ /\ iso_bitmap' = used \cup SectorsOf(search)
            /\ dict' = dict \cup {tracks, search}
    BY DEF ReserveSearch
  <1> QED
    BY <1>1, <1>4, <1>7, <1>9, <1>10

LEMMA ReserveSearchShape ==
    ASSUME ShapeInv, ReserveSearch, UNCHANGED writerVars
    PROVE  ShapeInv'
  <1>1. CASE Fails
    BY <1>1, ShapeFails
  <1>2. CASE ~Fails
    <2>1. /\ pc = "svcd" /\ pc' = "fill" /\ i' = 1 /\ n' = 0
          /\ UNCHANGED <<objVars, in_output, aborted, query, queried, extents>>
      BY <1>2 DEF ReserveSearch, Goto, Running
    <2>2. ObjTypeOK'
      BY <2>1 DEF ShapeInv, ObjTypeOK, objVars
    <2>3. pc' \in LayoutPhases
      BY <2>1 DEF LayoutPhases
    <2>4. End \in Nat \ {0} /\ iso_bitmap = 0 .. End - 1 /\ dict \subseteq BufferType
      BY <2>1 DEF ShapeInv, LayoutTypeOK, Packed, Started, Growing
    <2>5. \E e \in Nat \ {0} : iso_bitmap' = 0 .. e - 1
      <3>1. CASE UNCHANGED <<iso_bitmap, dict>>
        BY <2>4, <3>1
      <3>2. CASE ~UNCHANGED <<iso_bitmap, dict>>
        <4>1. PICK size : size = SearchBlocks(Len(sequences))
          OBVIOUS
        <4>2. iso_bitmap' = 0 .. End + 1 + size - 1 /\ size \in Nat \ {0}
          BY <1>2, <3>2, <4>1, ReserveSearchPlaces
        <4>3. End + 1 + size \in Nat \ {0}
          BY <2>4, <4>2
        <4>4. iso_bitmap' = 0 .. (End + 1 + size) - 1
          BY <2>4, <4>2
        <4> QED
          BY <4>3, <4>4
      <3> QED
        BY <3>1, <3>2
    <2>6. dict' \subseteq BufferType
      <3>1. CASE UNCHANGED <<iso_bitmap, dict>>
        BY <2>4, <3>1
      <3>2. CASE ~UNCHANGED <<iso_bitmap, dict>>
        <4>1. /\ dict' = dict \cup {Entry("tracks", End, 1),
                                    Entry("search", End + 1, SearchBlocks(Len(sequences)))}
              /\ SearchBlocks(Len(sequences)) \in Nat \ {0}
          BY <1>2, <3>2, ReserveSearchPlaces
        <4>2. /\ Entry("tracks", End, 1) \in BufferType
              /\ Entry("search", End + 1, SearchBlocks(Len(sequences))) \in BufferType
          BY <2>4, <4>1, EntryIsBuffer DEF BufferKeys
        <4> QED
          BY <2>4, <4>1, <4>2
      <3> QED
        BY <3>1, <3>2
    <2> QED
      BY <2>1, <2>2, <2>3, <2>5, <2>6, ExtentTypes, ShapeRuns DEF objVars, extents
  <1> QED
    BY <1>1, <1>2

\* The place where segments may start, at or behind the end of the information area.
LEMMA FillToAlignmentPlaces ==
    ASSUME ShapeInv, FillToAlignment, ~Fails
    PROVE  /\ mpeg_segment_start_extent' \in Nat \ {0}
           /\ mpeg_segment_start_extent' >= End
           /\ iso_bitmap' = 0 .. mpeg_segment_start_extent' - 1
           /\ End' = mpeg_segment_start_extent'
           /\ UNCHANGED dict
  <1>1. PICK start : start = Len2Blocks(End, ALIGNMENT) * ALIGNMENT
    OBVIOUS
  <1>2. pc = "fill"
    BY DEF FillToAlignment, Running
  <1>3. End \in Nat \ {0} /\ iso_bitmap = 0 .. End - 1
    BY <1>2 DEF ShapeInv, Packed, Started, Growing
  <1>4. start \in Nat /\ start >= End
    <2>1. ALIGNMENT \in Nat \ {0}
      BY LayoutAssumption
    <2>2. /\ Len2Blocks(End, ALIGNMENT) \in Nat
          /\ Len2Blocks(End, ALIGNMENT) * ALIGNMENT >= End
      BY <1>3, <2>1, Len2BlocksEnough
    <2> QED
      BY <1>1, <2>1, <2>2
  <1>5. /\ mpeg_segment_start_extent' = start
        /\ iso_bitmap' = iso_bitmap \cup (0 .. start - 1)
        /\ UNCHANGED dict
    BY <1>1 DEF FillToAlignment
  <1>6. iso_bitmap' = 0 .. start - 1
    BY <1>3, <1>4, <1>5
  <1>7. start \in Nat \ {0}
    BY <1>3, <1>4
  <1>8. End' = start
    BY <1>6, <1>7, NewRun
  <1> QED
    BY <1>4, <1>5, <1>6, <1>7, <1>8

LEMMA FillToAlignmentShape ==
    ASSUME ShapeInv, FillToAlignment, UNCHANGED writerVars
    PROVE  ShapeInv'
  <1>1. CASE Fails
    BY <1>1, ShapeFails
  <1>2. CASE ~Fails
    <2>1. /\ pc' = "segments" /\ i' = 1 /\ n' = 0
          /\ UNCHANGED <<objVars, in_output, aborted, query, queried, dict>>
          /\ UNCHANGED <<ext_file_start_extent, custom_file_start_extent, iso_size,
                         image_size>>
      BY <1>2 DEF FillToAlignment, Goto
    <2>2. PICK e : e = mpeg_segment_start_extent'
      OBVIOUS
    <2>3. e \in Nat \ {0} /\ iso_bitmap' = 0 .. e - 1
      BY <1>2, <2>2, FillToAlignmentPlaces
    <2>4. ObjTypeOK'
      BY <2>1 DEF ShapeInv, ObjTypeOK, objVars
    <2>5. pc' \in LayoutPhases
      BY <2>1 DEF LayoutPhases
    <2> QED
      BY <2>1, <2>2, <2>3, <2>4, <2>5, ExtentTypes, ShapeRuns DEF objVars
  <1> QED
    BY <1>1, <1>2

-----------------------------------------------------------------------------
(* Segments, the EXT area, files.                                          *)

SegmentSize(k) == segments[k].segment_count * SEGMENT_SECTOR_SIZE

\* A segment or a file of a well-formed object.
LEMMA ItemTypes ==
    ASSUME ObjTypeOK
    PROVE  /\ \A k \in 1 .. Len(segments) :
                /\ segments[k] \in SegmentType(AllIds)
                /\ segments[k].start_extent \in Nat
                /\ segments[k].segment_count \in Nat \ {0}
                /\ SegmentSize(k) \in Nat \ {0}
           /\ \A k \in 1 .. Len(files) :
                /\ files[k] \in FileType
                /\ files[k].start_extent \in Nat /\ files[k].sectors \in Nat
  <1>1. ASSUME NEW k \in 1 .. Len(segments)
        PROVE  /\ segments[k] \in SegmentType(AllIds)
               /\ segments[k].start_extent \in Nat
               /\ segments[k].segment_count \in Nat \ {0}
    <2>1. segments[k] \in SegmentType(AllIds)
      BY ElementOfSeq DEF ObjTypeOK
    <2> QED
      BY <2>1 DEF SegmentType
  <1>2. ASSUME NEW k \in 1 .. Len(segments) PROVE SegmentSize(k) \in Nat \ {0}
    <2>1. PICK a : a = segments[k].segment_count
      OBVIOUS
    <2>2. a \in Nat \ {0} /\ SEGMENT_SECTOR_SIZE \in Nat \ {0}
      BY <1>1, <2>1, ObjAssumption
    <2>3. a * SEGMENT_SECTOR_SIZE \in Nat \ {0}
      BY <2>2
    <2> QED
      BY <2>1, <2>3 DEF SegmentSize
  <1>3. ASSUME NEW k \in 1 .. Len(files)
        PROVE  /\ files[k] \in FileType
               /\ files[k].start_extent \in Nat /\ files[k].sectors \in Nat
    <2>1. files[k] \in FileType
      BY ElementOfSeq DEF ObjTypeOK
    <2> QED
      BY <2>1 DEF FileType
  <1> QED
    BY <1>1, <1>2, <1>3

\* A segment that gets its place.
LEMMA SegmentGetsPlace ==
    ASSUME ObjTypeOK, NEW k \in 1 .. Len(segments), NEW start \in Nat,
           segments' = [segments EXCEPT ![k].start_extent = start]
    PROVE  /\ segments' \in Seq(SegmentType(AllIds))
           /\ Len(segments') = Len(segments)
           /\ DOMAIN segments' = 1 .. Len(segments)
           /\ \A j \in 1 .. Len(segments) :
                /\ segments'[j].segment_count = segments[j].segment_count
                /\ segments'[j].start_extent =
                     (IF j = k THEN start ELSE segments[j].start_extent)
  <1> DEFINE new == [segments[k] EXCEPT !.start_extent = start]
  <1>1. segments \in Seq(SegmentType(AllIds)) /\ segments[k] \in SegmentType(AllIds)
    BY ItemTypes DEF ObjTypeOK
  <1>2. /\ new \in SegmentType(AllIds)
        /\ new.segment_count = segments[k].segment_count
        /\ new.start_extent = start
    BY <1>1 DEF SegmentType
  <1>3. segments' = [segments EXCEPT ![k] = new]
    OBVIOUS
  <1> HIDE DEF new
  <1>4. /\ segments' \in Seq(SegmentType(AllIds))
        /\ Len(segments') = Len(segments)
        /\ \A j \in 1 .. Len(segments) :
              segments'[j] = IF j = k THEN new ELSE segments[j]
    BY <1>1, <1>2, <1>3, ExceptSeq
  <1>5. DOMAIN segments' = 1 .. Len(segments)
    BY <1>4, LenProperties
  <1> QED
    BY <1>2, <1>4, <1>5

\* A file that gets its place.
LEMMA FileGetsPlace ==
    ASSUME ObjTypeOK, NEW k \in 1 .. Len(files), NEW start \in Nat,
           files' = [files EXCEPT ![k].start_extent = start]
    PROVE  /\ files' \in Seq(FileType)
           /\ Len(files') = Len(files)
           /\ DOMAIN files' = 1 .. Len(files)
           /\ \A j \in 1 .. Len(files) :
                /\ files'[j].sectors = files[j].sectors
                /\ files'[j].start_extent =
                     (IF j = k THEN start ELSE files[j].start_extent)
  <1> DEFINE new == [files[k] EXCEPT !.start_extent = start]
  <1>1. files \in Seq(FileType) /\ files[k] \in FileType
    BY ItemTypes DEF ObjTypeOK
  <1>2. new \in FileType /\ new.sectors = files[k].sectors /\ new.start_extent = start
    BY <1>1 DEF FileType
  <1>3. files' = [files EXCEPT ![k] = new]
    OBVIOUS
  <1> HIDE DEF new
  <1>4. /\ files' \in Seq(FileType)
        /\ Len(files') = Len(files)
        /\ \A j \in 1 .. Len(files) : files'[j] = IF j = k THEN new ELSE files[j]
    BY <1>1, <1>2, <1>3, ExceptSeq
  <1>5. DOMAIN files' = 1 .. Len(files)
    BY <1>4, LenProperties
  <1> QED
    BY <1>2, <1>4, <1>5

\* A segment goes to the end of what is reserved.
LEMMA PlaceSegmentPlaces ==
    ASSUME ShapeInv, PlaceSegment, ~Fails
    PROVE  /\ i \in 1 .. Len(segments)
           /\ segments' = [segments EXCEPT ![i].start_extent = End]
           /\ iso_bitmap' = 0 .. End + SegmentSize(i) - 1
           /\ End \in Nat \ {0} /\ SegmentSize(i) \in Nat \ {0}
           /\ End' = End + SegmentSize(i)
  <1> DEFINE size == SegmentSize(i)
  <1>1. pc = "segments" /\ i <= Len(segments)
    BY DEF PlaceSegment, Running
  <1>2. i \in 1 .. Len(segments)
    BY <1>1, ListLengths DEF ShapeInv, Counting, LayoutTypeOK, Started, Growing
  <1>3. size \in Nat \ {0}
    BY <1>2, ItemTypes DEF ShapeInv
  <1>4. End \in Nat \ {0} /\ iso_bitmap = 0 .. End - 1
    BY <1>1 DEF ShapeInv, Packed, Started, Growing
  <1>5. FirstFit(iso_bitmap, size) = End
    BY <1>3, <1>4, FirstFitOfRun
  <1>6. /\ segments' = [segments EXCEPT ![i].start_extent = FirstFit(iso_bitmap, size)]
        /\ iso_bitmap' = iso_bitmap \cup Extent(FirstFit(iso_bitmap, size), size)
    BY DEF PlaceSegment, SegmentSize
  <1>7. iso_bitmap' = 0 .. End + size - 1
    BY <1>3, <1>4, <1>5, <1>6, RunGrows
  <1> HIDE DEF size
  <1>8. End + size \in Nat \ {0}
    BY <1>3, <1>4
  <1>9. End' = End + size
    <2>1. PICK e : e = End + size
      OBVIOUS
    <2>2. e \in Nat \ {0} /\ iso_bitmap' = 0 .. e - 1
      BY <1>3, <1>4, <1>7, <1>8, <2>1
    <2> QED
      BY <2>1, <2>2, NewRun
  <1> QED
    BY <1>2, <1>3, <1>4, <1>5, <1>6, <1>7, <1>9 DEF size

LEMMA PlaceSegmentShape ==
    ASSUME ShapeInv, PlaceSegment, UNCHANGED writerVars
    PROVE  ShapeInv'
  <1>1. CASE Fails
    BY <1>1, ShapeFails
  <1>2. CASE ~Fails
    <2>1. /\ pc = "segments" /\ i' = i + 1
          /\ UNCHANGED <<type, prm, sequences, files, pbc_list, relative_end_extent>>
          /\ UNCHANGED <<in_output, aborted, pc, n, query, queried, dict, extents>>
      BY <1>2 DEF PlaceSegment, Running
    <2>2. PICK e : e = End + SegmentSize(i)
      OBVIOUS
    <2>3. /\ e \in Nat \ {0} /\ iso_bitmap' = 0 .. e - 1
          /\ i \in 1 .. Len(segments) /\ End \in Nat \ {0}
          /\ segments' = [segments EXCEPT ![i].start_extent = End]
      BY <1>2, <2>2, PlaceSegmentPlaces
    <2>4. segments' \in Seq(SegmentType(AllIds))
      BY <2>3, SegmentGetsPlace DEF ShapeInv
    <2>5. ObjTypeOK'
      BY <2>1, <2>4 DEF ShapeInv, ObjTypeOK
    <2>6. pc' \in LayoutPhases /\ i' \in Nat \ {0} /\ n' \in Nat
      BY <2>1, ExtentTypes DEF LayoutPhases
    <2>7. /\ UNCHANGED <<sequences, pbc_list, query, queried, dict>>
          /\ UNCHANGED <<mpeg_segment_start_extent, ext_file_start_extent>>
          /\ UNCHANGED <<custom_file_start_extent, iso_size, image_size>>
      BY <2>1 DEF extents
    <2> QED
      BY <2>3, <2>5, <2>6, <2>7, ExtentTypes, ShapeRuns
  <1> QED
    BY <1>1, <1>2

\* A phase of the layout ends: the bitmap is what it was.
LEMMA PhaseEndShape ==
    ASSUME ShapeInv, UNCHANGED <<objVars, in_output, aborted, query, queried>>,
           UNCHANGED <<iso_bitmap, dict, image_size, writerVars>>,
           i' \in Nat \ {0}, n' \in Nat, pc' \in LayoutPhases, pc \in Started,
           mpeg_segment_start_extent' \in Nat, ext_file_start_extent' \in Nat,
           custom_file_start_extent' \in Nat, iso_size' \in Nat
    PROVE  ShapeInv' /\ End' = End
  <1>1. LayoutTypeOK' /\ WriterTypeOK'
    BY DEF ShapeInv, LayoutTypeOK, WriterTypeOK, writerVars, Phases
  <1>2. in_output' \in BOOLEAN /\ aborted' \in BOOLEAN /\ pc' # "sequence"
    BY DEF ShapeInv, ObjTypeOK, LayoutPhases
  <1>3. ShapeInv'
    BY <1>1, <1>2, ShapeKept
  <1> QED
    BY <1>3 DEF End

LEMMA EndsShape ==
    ASSUME ShapeInv, UNCHANGED writerVars, EndSegments \/ EndExt \/ EndFiles
    PROVE  ShapeInv'
  <1>1. CASE Fails
    BY <1>1, ShapeFails
  <1>2. CASE ~Fails
    <2>1. pc \in {"segments", "ext", "files"}
      BY <1>2 DEF EndSegments, EndExt, EndFiles, Running
    <2>2. pc \in Started
      BY <2>1 DEF Started, Growing
    <2>3. End \in Nat
      BY <2>2 DEF ShapeInv, Packed
    <2>4. MIN_ISO_SIZE \in Nat
      BY LayoutAssumption
    <2>5. /\ UNCHANGED <<objVars, in_output, aborted, query, queried, iso_bitmap, dict>>
          /\ UNCHANGED <<mpeg_segment_start_extent, image_size>>
          /\ i' = 1 /\ n' = 0 /\ pc' \in {"ext", "files", "filesystem"}
          /\ ext_file_start_extent' \in {ext_file_start_extent, End}
          /\ custom_file_start_extent' \in {custom_file_start_extent, End}
          /\ iso_size' \in {iso_size, End, MIN_ISO_SIZE}
      BY <1>2 DEF EndSegments, EndExt, EndFiles, Goto
    <2>6. pc' \in LayoutPhases
      BY <2>5 DEF LayoutPhases
    <2>7. /\ mpeg_segment_start_extent' \in Nat /\ ext_file_start_extent' \in Nat
          /\ custom_file_start_extent' \in Nat /\ iso_size' \in Nat
      BY <2>3, <2>4, <2>5, ExtentTypes
    <2>8. i' \in Nat \ {0} /\ n' \in Nat
      BY <2>5
    <2> QED
      BY <2>2, <2>5, <2>6, <2>7, <2>8, PhaseEndShape
  <1> QED
    BY <1>1, <1>2

ExtFileType == [key : {"scandata", "lot_x", "psd_x"}, length : Nat \ {0}]

\* What goes to the EXT area.
LEMMA ExtFilesType ==
    ASSUME ShapeInv
    PROVE  /\ ExtFiles \in Seq(ExtFileType)
           /\ Len(ExtFiles) \in Nat
           /\ \A k \in 1 .. Len(ExtFiles) :
                /\ ExtFiles[k].key \in BufferKeys
                /\ ExtFiles[k].length \in Nat \ {0}
  <1> DEFINE scan == [key |-> "scandata", length |-> ScandataBlocks(Len(sequences))]
             lot == [key |-> "lot_x", length |-> LOT_VCD_SIZE]
             psd == [key |-> "psd_x", length |-> PsdBlocks(Len(pbc_list))]
             first == IF Has4C_SVCD THEN <<scan>> ELSE <<>>
             second == IF HasPBC_X /\ pbc_available THEN <<lot, psd>> ELSE <<>>
  <1>1. scan \in ExtFileType /\ lot \in ExtFileType /\ psd \in ExtFileType
    BY AreaSizes, LayoutAssumption DEF ExtFileType
  <1>2. ExtFiles = first \o second
    BY DEF ExtFiles
  <1> HIDE DEF scan, lot, psd
  <1>3. first \in Seq(ExtFileType)
    BY <1>1
  <1>4. second \in Seq(ExtFileType)
    BY <1>1
  <1> HIDE DEF first, second
  <1>5. ExtFiles \in Seq(ExtFileType)
    BY <1>2, <1>3, <1>4, ConcatProperties
  <1>6. Len(ExtFiles) \in Nat
    BY <1>5, LenProperties
  <1>7. ASSUME NEW k \in 1 .. Len(ExtFiles)
        PROVE  ExtFiles[k].key \in BufferKeys /\ ExtFiles[k].length \in Nat \ {0}
    <2>1. ExtFiles[k] \in ExtFileType
      BY <1>5, ElementOfSeq
    <2> QED
      BY <2>1 DEF ExtFileType, BufferKeys
  <1> QED
    BY <1>5, <1>6, <1>7

\* A file of the EXT area goes to the end of what is reserved.
LEMMA PlaceExtPlaces ==
    ASSUME ShapeInv, PlaceExt, NEW size, size = ExtFiles[i].length
    PROVE  /\ dict' = dict \cup {Entry(ExtFiles[i].key, End, size)}
           /\ ExtFiles[i].key \in BufferKeys
           /\ size \in Nat \ {0} /\ End \in Nat \ {0} /\ End + size \in Nat \ {0}
           /\ iso_bitmap' = 0 .. (End + size) - 1
           /\ End' = End + size
  <1>1. pc = "ext" /\ i <= Len(ExtFiles)
    BY DEF PlaceExt, Running
  <1>2. i \in 1 .. Len(ExtFiles)
    BY <1>1, ExtFilesType DEF ShapeInv, Counting, LayoutTypeOK, Started, Growing
  <1>3. size \in Nat \ {0} /\ ExtFiles[i].key \in BufferKeys
    BY <1>2, ExtFilesType
  <1>4. End \in Nat \ {0} /\ iso_bitmap = 0 .. End - 1
    BY <1>1 DEF ShapeInv, Packed, Started, Growing
  <1>5. FirstFit(iso_bitmap, size) = End
    BY <1>3, <1>4, FirstFitOfRun
  <1>6. /\ dict' = dict \cup {Entry(ExtFiles[i].key, FirstFit(iso_bitmap, size), size)}
        /\ iso_bitmap' = iso_bitmap \cup Extent(FirstFit(iso_bitmap, size), size)
    BY DEF PlaceExt
  <1>7. iso_bitmap' = 0 .. (End + size) - 1
    <2>1. PICK e : e = End
      OBVIOUS
    <2>2. e \in Nat /\ iso_bitmap' = (0 .. e - 1) \cup Extent(e, size)
      BY <1>4, <1>5, <1>6, <2>1
    <2>3. iso_bitmap' = 0 .. e + size - 1
      BY <1>3, <2>2, RunGrows
    <2> QED
      BY <1>3, <2>1, <2>2, <2>3
  <1>8. End + size \in Nat \ {0}
    BY <1>3, <1>4
  <1>9. End' = End + size
    <2>1. PICK e : e = End + size
      OBVIOUS
    <2> QED
      BY <1>7, <1>8, <2>1, NewRun
  <1> QED
    BY <1>3, <1>4, <1>5, <1>6, <1>7, <1>8, <1>9

LEMMA PlaceExtShape == ASSUME ShapeInv, PlaceExt, UNCHANGED writerVars PROVE ShapeInv'
  <1>1. /\ pc = "ext" /\ i' = i + 1
        /\ UNCHANGED <<objVars, in_output, aborted, pc, n, query, queried, extents>>
    BY DEF PlaceExt, Running
  <1>2. PICK size : size = ExtFiles[i].length
    OBVIOUS
  <1>3. /\ dict' = dict \cup {Entry(ExtFiles[i].key, End, size)}
        /\ ExtFiles[i].key \in BufferKeys
        /\ size \in Nat \ {0} /\ End \in Nat \ {0} /\ End + size \in Nat \ {0}
        /\ iso_bitmap' = 0 .. (End + size) - 1
    BY <1>2, PlaceExtPlaces
  <1>4. dict' \subseteq BufferType
    BY <1>3, OneMoreBuffer
  <1>5. ObjTypeOK'
    BY <1>1 DEF ShapeInv, ObjTypeOK, objVars
  <1>6. pc' \in LayoutPhases /\ i' \in Nat \ {0} /\ n' \in Nat
    BY <1>1, ExtentTypes DEF LayoutPhases
  <1>7. /\ UNCHANGED <<sequences, pbc_list, query, queried>>
        /\ UNCHANGED <<mpeg_segment_start_extent, ext_file_start_extent>>
        /\ UNCHANGED <<custom_file_start_extent, iso_size, image_size>>
    BY <1>1 DEF objVars, extents
  <1>8. \E e \in Nat \ {0} : iso_bitmap' = 0 .. e - 1
    BY <1>3
  <1> QED
    BY <1>4, <1>5, <1>6, <1>7, <1>8, ExtentTypes, ShapeRuns

\* A file goes to the end of what is reserved, but for one without a sector.
LEMMA PlaceFilePlaces ==
    ASSUME ShapeInv, PlaceFile, NEW size, size = files[i].sectors
    PROVE  /\ i \in 1 .. Len(files) /\ size \in Nat /\ End \in Nat \ {0}
           /\ files' = [files EXCEPT ![i].start_extent =
                            IF size = 0 THEN custom_file_start_extent ELSE End]
           /\ iso_bitmap' = 0 .. (End + size) - 1
           /\ End + size \in Nat \ {0}
           /\ End' = End + size
  <1>1. pc = "files" /\ i <= Len(files)
    BY DEF PlaceFile, Running
  <1>2. i \in 1 .. Len(files)
    BY <1>1, ListLengths DEF ShapeInv, Counting, LayoutTypeOK, Started, Growing
  <1>3. size \in Nat
    BY <1>2, ItemTypes DEF ShapeInv
  <1>4. End \in Nat \ {0} /\ iso_bitmap = 0 .. End - 1
    BY <1>1 DEF ShapeInv, Packed, Started, Growing
  <1>5. PICK start : start = IF size # 0 THEN FirstFit(iso_bitmap, size)
                             ELSE custom_file_start_extent
    OBVIOUS
  <1>6. /\ files' = [files EXCEPT ![i].start_extent = start]
        /\ iso_bitmap' = iso_bitmap \cup Extent(start, size)
    BY <1>5 DEF PlaceFile
  <1>7. start = IF size = 0 THEN custom_file_start_extent ELSE End
    BY <1>3, <1>4, <1>5, FirstFitOfRun
  <1>8. iso_bitmap' = 0 .. (End + size) - 1
    <2>1. CASE size = 0
      <3>1. Extent(start, size) = {}
        BY <1>7, <2>1, ExtentTypes DEF Extent
      <3> QED
        BY <1>4, <1>6, <2>1, <3>1
    <2>2. CASE size # 0
      BY <1>3, <1>4, <1>6, <1>7, <2>2, RunGrows
    <2> QED
      BY <2>1, <2>2
  <1>9. End + size \in Nat \ {0}
    BY <1>3, <1>4
  <1>10. End' = End + size
    <2>1. PICK e : e = End + size
      OBVIOUS
    <2> QED
      BY <1>8, <1>9, <2>1, NewRun
  <1> QED
    BY <1>2, <1>3, <1>4, <1>6, <1>7, <1>8, <1>9, <1>10

LEMMA PlaceFileShape == ASSUME ShapeInv, PlaceFile, UNCHANGED writerVars PROVE ShapeInv'
  <1>1. /\ pc = "files" /\ i' = i + 1
        /\ UNCHANGED <<type, prm, sequences, segments, pbc_list, relative_end_extent>>
        /\ UNCHANGED <<in_output, aborted, pc, n, query, queried, dict, extents>>
    BY DEF PlaceFile, Running
  <1>2. PICK size : size = files[i].sectors
    OBVIOUS
  <1>3. PICK start : start = IF size = 0 THEN custom_file_start_extent ELSE End
    OBVIOUS
  <1>4. /\ i \in 1 .. Len(files) /\ End \in Nat \ {0} /\ End + size \in Nat \ {0}
        /\ files' = [files EXCEPT ![i].start_extent = start]
        /\ iso_bitmap' = 0 .. (End + size) - 1
    BY <1>2, <1>3, PlaceFilePlaces
  <1>5. start \in Nat
    BY <1>3, <1>4, ExtentTypes
  <1>6. files' \in Seq(FileType)
    BY <1>4, <1>5, FileGetsPlace DEF ShapeInv
  <1>7. ObjTypeOK'
    BY <1>1, <1>6 DEF ShapeInv, ObjTypeOK
  <1>8. pc' \in LayoutPhases /\ i' \in Nat \ {0} /\ n' \in Nat
    BY <1>1, <1>4, ExtentTypes DEF LayoutPhases
  <1>9. /\ UNCHANGED <<sequences, pbc_list, query, queried, dict>>
        /\ UNCHANGED <<mpeg_segment_start_extent, ext_file_start_extent>>
        /\ UNCHANGED <<custom_file_start_extent, iso_size, image_size>>
    BY <1>1 DEF extents
  <1>10. \E e \in Nat \ {0} : iso_bitmap' = 0 .. e - 1
    BY <1>4
  <1> QED
    BY <1>7, <1>8, <1>9, <1>10, ExtentTypes, ShapeRuns

-----------------------------------------------------------------------------
(* The directory, the entry points, the size.                              *)

\* The directory and the path tables fill the area they are given.
LEMMA DirArea ==
    ASSUME NEW d \in Nat \ {0}
    PROVE  /\ DirEntries(d) \subseteq BufferType
           /\ AllSectorsOf(DirEntries(d)) = Extent(DIR_SECTOR, d + 2)
           /\ \A e \in DirEntries(d) :
                /\ e.sector \in Nat /\ e.length \in Nat \ {0}
                /\ DIR_SECTOR <= e.sector /\ e.sector + e.length <= DIR_SECTOR + d + 2
  <1>1. DIR_SECTOR \in Nat
    BY LayoutAssumption
  <1>2. /\ DIR_SECTOR + d \in Nat /\ DIR_SECTOR + d + 1 \in Nat
        /\ 1 \in Nat \ {0}
    BY <1>1
  <1>3. /\ Entry("dir", DIR_SECTOR, d) \in BufferType
        /\ Entry("ptl", DIR_SECTOR + d, 1) \in BufferType
        /\ Entry("ptm", DIR_SECTOR + d + 1, 1) \in BufferType
    BY <1>1, <1>2, EntryIsBuffer DEF BufferKeys
  <1>4. DirEntries(d) \subseteq BufferType
    BY <1>3 DEF DirEntries
  <1>5. \A s : s \in AllSectorsOf(DirEntries(d)) <=>
            \E e \in DirEntries(d) : s \in SectorsOf(e)
    BY DEF AllSectorsOf
  <1>6. \A s : (\E e \in DirEntries(d) : s \in SectorsOf(e)) <=>
            \/ s \in Extent(DIR_SECTOR, d)
            \/ s \in Extent(DIR_SECTOR + d, 1)
            \/ s \in Extent(DIR_SECTOR + d + 1, 1)
    BY DEF DirEntries, Entry, SectorsOf
  <1>7. \A s : s \in AllSectorsOf(DirEntries(d)) <=> s \in Extent(DIR_SECTOR, d + 2)
    BY <1>1, <1>5, <1>6 DEF Extent
  <1>8. AllSectorsOf(DirEntries(d)) = Extent(DIR_SECTOR, d + 2)
    BY <1>7
  <1>9. \A e \in DirEntries(d) :
            /\ e.sector \in Nat /\ e.length \in Nat \ {0}
            /\ DIR_SECTOR <= e.sector /\ e.sector + e.length <= DIR_SECTOR + d + 2
    BY <1>1, <1>2 DEF DirEntries, Entry
  <1> QED
    BY <1>4, <1>8, <1>9

\* The directory takes sectors that are reserved already, and no other.
LEMMA MakeFilesystemPlaces ==
    ASSUME ShapeInv, NEW d \in DirBlocks, MakeFilesystem(d), ~Fails
    PROVE  /\ pc = "filesystem"
           /\ \/ /\ pc' = "exited"
                 /\ UNCHANGED <<objVars, in_output, aborted, i, n, query, queried>>
                 /\ UNCHANGED <<iso_bitmap, dict, extents>>
              \/ /\ pc' = "entries" /\ i' = 1 /\ n' = 0
                 /\ ~TooBig(d)
                 /\ Disjoint(DirEntries(d))
                 /\ dict' = dict \cup DirEntries(d)
                 /\ UNCHANGED <<objVars, in_output, aborted, query, queried>>
                 /\ UNCHANGED <<iso_bitmap, extents>>
  <1>1. d \in Nat \ {0}
    BY LayoutAssumption
  <1>2. pc = "filesystem"
    BY DEF MakeFilesystem, Running
  <1>3. CASE TooManyItems
    BY <1>3 DEF MakeFilesystem
  <1>4. CASE ~TooManyItems /\ TooBig(d)
    BY <1>2, <1>4 DEF MakeFilesystem
  <1>5. CASE ~TooManyItems /\ ~TooBig(d)
    <2>1. /\ Extent(DIR_SECTOR, d + 2) \subseteq iso_bitmap
          /\ Disjoint(DirEntries(d))
          /\ iso_bitmap' = (iso_bitmap \ Extent(DIR_SECTOR, d + 2))
                               \cup AllSectorsOf(DirEntries(d))
          /\ dict' = dict \cup DirEntries(d)
          /\ pc' = "entries" /\ i' = 1 /\ n' = 0
          /\ UNCHANGED <<objVars, in_output, aborted, query, queried, extents>>
      BY <1>5 DEF MakeFilesystem, Goto
    <2>2. iso_bitmap' = iso_bitmap
      BY <1>1, <2>1, DirArea
    <2> QED
      BY <1>2, <1>5, <2>1, <2>2
  <1> QED
    BY <1>3, <1>4, <1>5

LEMMA MakeFilesystemShape ==
    ASSUME ShapeInv, NEW d \in DirBlocks, MakeFilesystem(d), UNCHANGED writerVars
    PROVE  ShapeInv'
  <1>1. CASE Fails
    BY <1>1, ShapeFails
  <1>2. CASE ~Fails
    <2>1. /\ pc = "filesystem"
          /\ pc' \in {"exited", "entries"}
          /\ UNCHANGED <<objVars, in_output, aborted, query, queried>>
          /\ UNCHANGED <<iso_bitmap, extents>>
          /\ \/ UNCHANGED <<i, n>>
             \/ i' = 1 /\ n' = 0
          /\ dict' \in {dict, dict \cup DirEntries(d)}
      BY <1>2, MakeFilesystemPlaces
    <2>2. dict' \subseteq BufferType
      BY <2>1, DirArea, ExtentTypes, LayoutAssumption
    <2>3. pc' \in Phases /\ pc' # "sequence"
      BY <2>1 DEF Phases, LayoutPhases
    <2>4. LayoutTypeOK'
      BY <2>1, <2>2, <2>3 DEF ShapeInv, LayoutTypeOK, extents
    <2>5. WriterTypeOK'
      BY DEF ShapeInv, WriterTypeOK, writerVars
    <2>6. in_output' \in BOOLEAN /\ aborted' \in BOOLEAN
      BY <2>1 DEF ShapeInv, ObjTypeOK
    <2>7. pc \in Started
      BY <2>1 DEF Started, Growing
    <2>8. i' = i \/ i' >= 1
      BY <2>1
    <2> QED
      BY <2>1, <2>3, <2>4, <2>5, <2>6, <2>7, <2>8, ShapeKept
  <1> QED
    BY <1>1, <1>2

\* The access point an entry point gets is one of its stream.
LEMMA UpdateEntryPlaces ==
    ASSUME ShapeInv, UpdateEntry, ~Fails
    PROVE  /\ pc = "entries" /\ pc' = pc /\ n' = n + 1
           /\ UNCHANGED <<type, prm, segments, files, pbc_list, relative_end_extent>>
           /\ UNCHANGED <<in_output, aborted, i, query, queried>>
           /\ UNCHANGED <<iso_bitmap, dict, extents>>
           /\ sequences' \in Seq(SequenceType(AllIds))
           /\ Len(sequences') = Len(sequences)
           /\ \A j \in DOMAIN sequences :
                /\ sequences'[j].source = sequences[j].source
                /\ sequences'[j].relative_start_extent = sequences[j].relative_start_extent
  <1>1. /\ pc = "entries" /\ pc' = pc /\ n' = n + 1 /\ i <= Len(sequences)
        /\ n < Len(sequences[i].entries)
        /\ UNCHANGED <<type, prm, segments, files, pbc_list, relative_end_extent>>
        /\ UNCHANGED <<in_output, aborted, i, query, queried>>
        /\ UNCHANGED <<iso_bitmap, dict, extents>>
    BY DEF UpdateEntry, Running
  <1>2. i \in DOMAIN sequences
    BY <1>1, ListLengths DEF ShapeInv, Counting, LayoutTypeOK, Started, Growing
  <1>3. PICK k \in DOMAIN sequences[i].source.aps :
           sequences' = [sequences EXCEPT ![i].entries[n + 1].aps =
                             sequences[i].source.aps[k]]
    BY DEF UpdateEntry
  <1> DEFINE old == sequences[i].entries
             entry == [old[n + 1] EXCEPT !.aps = sequences[i].source.aps[k]]
             new == [old EXCEPT ![n + 1] = entry]
  <1>4. old \in Seq(EntryType(AllIds)) /\ sequences[i].source \in SourceType
    BY <1>2, SequenceTypes DEF ShapeInv
  <1>5. n + 1 \in 1 .. Len(old)
    BY <1>1, <1>4, LenProperties, ExtentTypes
  <1>6. sequences[i].source.aps[k] \in ApsData
    BY <1>4, ElementOfSeq, LenProperties DEF SourceType
  <1>7. entry \in EntryType(AllIds)
    <2>1. old[n + 1] \in EntryType(AllIds)
      BY <1>4, <1>5, ElementOfSeq
    <2> QED
      BY <1>6, <2>1 DEF EntryType
  <1>8. new \in Seq(EntryType(AllIds))
    <2> HIDE DEF entry, old
    <2> QED
      BY <1>4, <1>5, <1>7, ExceptSeq
  <1>9. sequences' = [sequences EXCEPT ![i].entries = new]
    BY <1>3
  <1> HIDE DEF new
  <1>10. sequences \in Seq(SequenceType(AllIds))
    BY DEF ShapeInv, ObjTypeOK
  <1>11. /\ sequences' \in Seq(SequenceType(AllIds))
         /\ Len(sequences') = Len(sequences)
         /\ \A j \in DOMAIN sequences :
               sequences'[j] = (IF j = i THEN [sequences[i] EXCEPT !.entries = new]
                                ELSE sequences[j])
    BY <1>2, <1>8, <1>9, <1>10, EntriesOfSequence
  <1>12. \A j \in DOMAIN sequences :
            /\ sequences'[j].source = sequences[j].source
            /\ sequences'[j].relative_start_extent = sequences[j].relative_start_extent
    BY <1>11, SequenceTypes DEF ShapeInv, SequenceType
  <1> QED
    BY <1>1, <1>11, <1>12

LEMMA UpdateEntryShape ==
    ASSUME ShapeInv, UpdateEntry, UNCHANGED writerVars
    PROVE  ShapeInv'
  <1>1. CASE Fails
    BY <1>1, ShapeFails
  <1>2. CASE ~Fails
    <2>1. /\ pc = "entries" /\ pc' = pc /\ n' = n + 1
          /\ UNCHANGED <<type, prm, segments, files, pbc_list, relative_end_extent>>
          /\ UNCHANGED <<in_output, aborted, i, query, queried>>
          /\ UNCHANGED <<iso_bitmap, dict, extents>>
          /\ sequences' \in Seq(SequenceType(AllIds))
          /\ Len(sequences') = Len(sequences)
      BY <1>2, UpdateEntryPlaces
    <2>2. ObjTypeOK'
      BY <2>1 DEF ShapeInv, ObjTypeOK
    <2>3. LayoutTypeOK'
      BY <2>1, ExtentTypes DEF ShapeInv, LayoutTypeOK, extents
    <2>4. WriterTypeOK' /\ Counts' /\ Counting' /\ InTrack'
      BY <2>1 DEF ShapeInv, WriterTypeOK, writerVars, Counts, Counting, InTrack
    <2>5. Packed'
      BY <2>1 DEF ShapeInv, Packed, End
    <2> QED
      BY <2>2, <2>3, <2>4, <2>5 DEF ShapeInv
  <1> QED
    BY <1>1, <1>2

LEMMA NextSequenceShape ==
    ASSUME ShapeInv, NextSequence, UNCHANGED writerVars
    PROVE  ShapeInv'
  <1>1. /\ pc = "entries" /\ pc' = pc /\ i' = i + 1 /\ n' = 0
        /\ UNCHANGED <<objVars, in_output, aborted, query, queried>>
        /\ UNCHANGED <<iso_bitmap, dict, extents>>
    BY DEF NextSequence, Running
  <1>2. i' \in Nat \ {0} /\ n' \in Nat
    BY <1>1, ExtentTypes
  <1>3. pc' \in LayoutPhases /\ pc \in Started
    BY <1>1 DEF LayoutPhases, Started
  <1>4. /\ UNCHANGED <<mpeg_segment_start_extent, ext_file_start_extent>>
        /\ UNCHANGED <<custom_file_start_extent, iso_size, image_size>>
    BY <1>1 DEF extents
  <1> QED
    BY <1>1, <1>2, <1>3, <1>4, ExtentTypes, PhaseEndShape

\* The size of the image, and what is released when it was only asked for.
LEMMA ReturnSizePlaces ==
    ASSUME ShapeInv, ReturnSize
    PROVE  /\ pc = "entries" /\ pc' \in {"exited", "idle", "output"}
           /\ image_size' = relative_end_extent + iso_size + prm.leadout_pregap
           /\ image_size' \in Nat
           /\ UNCHANGED <<objVars, aborted, i, n, query>>
           /\ UNCHANGED <<mpeg_segment_start_extent, ext_file_start_extent>>
           /\ UNCHANGED <<custom_file_start_extent, iso_size>>
           /\ IF pc' = "idle"
              THEN in_output' = FALSE /\ iso_bitmap' = {} /\ dict' = {}
                   /\ queried' = image_size'
              ELSE UNCHANGED <<in_output, iso_bitmap, dict, queried>>
  <1> DEFINE size == relative_end_extent + iso_size + prm.leadout_pregap
  <1>1. size \in Nat
    <2>1. prm.leadout_pregap \in Nat
      BY ParamTypes DEF ShapeInv
    <2>2. relative_end_extent \in Nat /\ iso_size \in Nat
      BY DEF ShapeInv, ObjTypeOK, LayoutTypeOK
    <2> QED
      BY <2>1, <2>2
  <1>2. /\ pc = "entries"
        /\ image_size' = size
        /\ UNCHANGED <<objVars, aborted, i, n, query>>
        /\ UNCHANGED <<mpeg_segment_start_extent, ext_file_start_extent>>
        /\ UNCHANGED <<custom_file_start_extent, iso_size>>
    BY DEF ReturnSize, Running
  <1>3. pc' \in {"exited", "idle", "output"}
    BY DEF ReturnSize
  <1>4. IF pc' = "idle"
        THEN in_output' = FALSE /\ iso_bitmap' = {} /\ dict' = {} /\ queried' = image_size'
        ELSE UNCHANGED <<in_output, iso_bitmap, dict, queried>>
    BY DEF ReturnSize, ReleaseOutput
  <1> QED
    BY <1>1, <1>2, <1>3, <1>4

LEMMA ReturnSizeShape ==
    ASSUME ShapeInv, ReturnSize, UNCHANGED writerVars
    PROVE  ShapeInv'
  <1>1. /\ pc = "entries" /\ pc' \in {"exited", "idle", "output"}
        /\ image_size' \in Nat
        /\ UNCHANGED <<objVars, aborted, i, n, query>>
        /\ UNCHANGED <<mpeg_segment_start_extent, ext_file_start_extent>>
        /\ UNCHANGED <<custom_file_start_extent, iso_size>>
        /\ IF pc' = "idle"
           THEN in_output' = FALSE /\ iso_bitmap' = {} /\ dict' = {}
                /\ queried' = image_size'
           ELSE UNCHANGED <<in_output, iso_bitmap, dict, queried>>
    BY ReturnSizePlaces
  <1>2. pc' \in Phases /\ pc' # "sequence" /\ pc \in Started
    BY <1>1 DEF Phases, Started
  <1>3. LayoutTypeOK'
    BY <1>1, <1>2 DEF ShapeInv, LayoutTypeOK
  <1>4. WriterTypeOK'
    BY DEF ShapeInv, WriterTypeOK, writerVars
  <1>5. in_output' \in BOOLEAN
    BY <1>1 DEF ShapeInv, ObjTypeOK
  <1>6. ObjTypeOK' /\ Counts'
    BY <1>1, <1>5 DEF ShapeInv, ObjTypeOK, Counts, objVars
  <1>7. Counting' /\ InTrack'
    BY <1>1, <1>2 DEF ShapeInv, Counting, InTrack
  <1>8. Packed'
    <2>1. CASE pc' = "idle"
      BY <2>1, PhaseSets DEF Packed
    <2>2. CASE pc' # "idle"
      BY <1>1, <1>2, <2>2 DEF ShapeInv, Packed, End
    <2> QED
      BY <2>1, <2>2
  <1> QED
    BY <1>3, <1>4, <1>6, <1>7, <1>8 DEF ShapeInv

\* begin_output keeps the shape of the state.
LEMMA LayoutShape == ASSUME ShapeInv, Layout PROVE ShapeInv'
  <1>1. UNCHANGED writerVars
    BY DEF Layout
  <1> QED
    BY <1>1, ReserveFixedShape, ReserveSearchShape, FillToAlignmentShape, PlaceSegmentShape,
       EndsShape, PlaceExtShape, PlaceFileShape, MakeFilesystemShape, UpdateEntryShape,
       NextSequenceShape, ReturnSizeShape
    DEF Layout, LayoutNext

-----------------------------------------------------------------------------
(* The writer and the client.                                              *)

\* A sector that is written, or not, keeps the types of the writer.
LEMMA SectorTypes ==
    ASSUME WriterTypeOK, aborted \in BOOLEAN, NEW extent, NEW kind, NEW no, NEW at,
           NEW answer \in BOOLEAN, WriteSector(extent, kind, no, at, answer)
    PROVE  WriterTypeOK' /\ aborted' \in BOOLEAN
  <1>1. CASE extent = sectors_written
    <2>1. /\ sectors_written' = sectors_written + 1
          /\ Callback(sectors_written + 1, FALSE, answer)
          /\ UNCHANGED <<in_track, result, aborted>>
      BY <1>1 DEF WriteSector
    <2>2. /\ last_cb_call' \in {last_cb_call, sectors_written + 1}
          /\ cancelled' \in {cancelled, cancelled \/ answer}
      BY <2>1 DEF Callback
    <2> QED
      BY <2>1, <2>2 DEF WriterTypeOK
  <1>2. CASE extent # sectors_written
    BY <1>2 DEF WriteSector, WriterTypeOK
  <1> QED
    BY <1>1, <1>2

\* A step of the writer that reserves nothing.
LEMMA WriterShape ==
    ASSUME ShapeInv, UNCHANGED <<frozen, iso_bitmap>>, pc \in Started, pc' \in Phases,
           i' \in Nat \ {0}, n' \in Nat, pc' = "sequence" => i' <= Len(sequences),
           WriterTypeOK', aborted' \in BOOLEAN
    PROVE  ShapeInv'
  <1>1. /\ UNCHANGED <<objVars, in_output, query, queried, dict, extents>>
    BY DEF frozen
  <1>2. LayoutTypeOK'
    BY <1>1 DEF ShapeInv, LayoutTypeOK, extents
  <1>3. in_output' \in BOOLEAN
    BY <1>1 DEF ShapeInv, ObjTypeOK
  <1> QED
    BY <1>1, <1>2, <1>3, ShapeKept

\* The steps of the writer that write no sector.
LEMMA MovesShape ==
    ASSUME ShapeInv,
           \/ MakeContents \/ EndHead \/ NextSegment \/ EndWriteSegments \/ EndWriteExt
           \/ NextFile \/ EndWriteFiles \/ EndSequence \/ EndTracks
    PROVE  ShapeInv'
  <1>1. CASE Fails
    <2>1. UNCHANGED writerVars
      BY DEF MakeContents, EndHead, NextSegment, EndWriteSegments, EndWriteExt, NextFile,
             EndWriteFiles, EndSequence, EndTracks
    <2> QED
      BY <1>1, <2>1, ShapeFails
  <1>2. CASE ~Fails
    <2>1. pc \in WritePhases
      BY DEF MakeContents, EndHead, NextSegment, EndWriteSegments, EndWriteExt, NextFile,
             EndWriteFiles, EndSequence, EndTracks, Running, WritePhases
    <2>2. UNCHANGED <<frozen, iso_bitmap, aborted, writerVars>>
      BY <1>2 DEF MakeContents, EndHead, NextSegment, EndWriteSegments, EndWriteExt, NextFile,
             EndWriteFiles, EndSequence, EndTracks, MoveTo, Stay
    <2>3. /\ pc' \in WritePhases /\ pc' # "sequence"
          /\ i' \in {1, i + 1} /\ n' \in {0, n}
      BY <1>2 DEF MakeContents, EndHead, NextSegment, EndWriteSegments, EndWriteExt, NextFile,
             EndWriteFiles, EndSequence, EndTracks, MoveTo, Stay, Goto, Running, WritePhases
    <2>4. i' \in Nat \ {0} /\ n' \in Nat
      BY <2>3, ExtentTypes
    <2>5. WriterTypeOK' /\ aborted' \in BOOLEAN
      BY <2>2 DEF ShapeInv, WriterTypeOK, writerVars, ObjTypeOK
    <2>6. pc \in Started /\ pc' \in Phases
      BY <2>1, <2>3 DEF Started, Phases
    <2> QED
      BY <2>2, <2>3, <2>4, <2>5, <2>6, WriterShape
  <1> QED
    BY <1>1, <1>2

\* Where the parts of the track that is written begin and end.
LEMMA TrackTypes ==
    ASSUME ShapeInv, pc = "sequence"
    PROVE  /\ i \in DOMAIN sequences
           /\ sequences[i].source.packets \in Nat
           /\ {FrontAt, PacketsAt, RearAt, SequenceEnd} \subseteq Nat
  <1>1. i \in DOMAIN sequences
    BY ListLengths, ExtentTypes DEF ShapeInv, Counting, InTrack, Started, WritePhases
  <1>2. sequences[i].source.packets \in Nat
    BY <1>1, SequenceTypes DEF ShapeInv
  <1> QED
    BY <1>1, <1>2, ParamTypes DEF ShapeInv, FrontAt, PacketsAt, RearAt, SequenceEnd

\* Every step that writes a sector is one of these: where, which, and what comes next.
SectorStep(answer) ==
    /\ \E extent, kind, no, at : WriteSector(extent, kind, no, at, answer)
    /\ UNCHANGED <<frozen, pc>>

LEMMA SectorsShape ==
    ASSUME ShapeInv,
           \/ WriteHead \/ WriteSegment \/ WriteExt \/ WriteFile
           \/ WritePregap \/ WriteFrontMargin \/ WritePacket \/ WriteRearMargin
           \/ WriteLeadout
    PROVE  ShapeInv'
  <1>1. pc \in WritePhases /\ UNCHANGED iso_bitmap
    BY DEF WriteHead, WriteSegment, WriteExt, WriteFile, WritePregap, WriteFrontMargin,
           WritePacket, WriteRearMargin, WriteLeadout, WriteGap, Running, WritePhases
  <1>2. WriterTypeOK /\ aborted \in BOOLEAN /\ i \in Nat \ {0} /\ n \in Nat
    BY <1>1, ExtentTypes DEF ShapeInv, ObjTypeOK, Counting, Started
  <1>3. pc = "sequence" => i <= Len(sequences)
    BY DEF ShapeInv, InTrack
  <1>4. pc \in Started /\ pc \in Phases
    BY <1>1 DEF Started, Phases
  <1>5. ASSUME NEW answer \in BOOLEAN, SectorStep(answer), i' \in Nat \ {0}, n' \in Nat,
               pc = "sequence" => i' = i
        PROVE  ShapeInv'
    <2>1. WriterTypeOK' /\ aborted' \in BOOLEAN
      BY <1>2, <1>5, SectorTypes DEF SectorStep
    <2> QED
      BY <1>1, <1>3, <1>4, <1>5, <2>1, WriterShape DEF SectorStep
  <1>6. CASE WriteHead
    BY <1>2, <1>5, <1>6 DEF WriteHead, SectorStep, Stay
  <1>7. CASE WriteSegment
    <2>1. PICK answer \in BOOLEAN :
             WriteSector(IF n = 0 THEN segments[i].start_extent ELSE sectors_written,
                         "segment", i, n, answer)
      BY <1>7 DEF WriteSegment
    <2>2. SectorStep(answer) /\ i' = i /\ n' = n + 1
      BY <1>7, <2>1 DEF WriteSegment, SectorStep, Stay
    <2> QED
      BY <1>2, <1>5, <2>2
  <1>8. CASE WriteExt
    BY <1>2, <1>5, <1>8 DEF WriteExt, SectorStep, Stay
  <1>9. CASE WriteFile
    <2>1. PICK answer \in BOOLEAN :
             /\ WriteSector(files[i].start_extent + n, "file", i, n, answer)
             /\ IF answer THEN Stay(i + 1, 0) ELSE Stay(i, n + 1)
      BY <1>9 DEF WriteFile
    <2>2. pc = "write_files"
      BY <1>9 DEF WriteFile, Running
    <2>3. SectorStep(answer) /\ i' \in {i, i + 1} /\ n' \in {0, n + 1}
      BY <2>1 DEF SectorStep, Stay
    <2>4. i' \in Nat \ {0} /\ n' \in Nat
      BY <1>2, <2>3
    <2> QED
      BY <1>5, <2>2, <2>3, <2>4
  <1>10. ASSUME NEW kind, NEW from, NEW to, WriteGap(kind, from, to) PROVE ShapeInv'
    BY <1>2, <1>5, <1>10 DEF WriteGap, SectorStep, Stay
  <1>11. CASE WritePacket
    <2>1. pc = "sequence" /\ n \in PacketsAt .. RearAt - 1
      BY <1>11 DEF WritePacket, Running
    <2>2. RearAt \in Nat
      BY <2>1, TrackTypes
    <2>3. CASE sequences[i].source.invalid = n - PacketsAt + 1
      <3>1. /\ pc' = "exited"
            /\ UNCHANGED <<frozen, iso_bitmap, aborted, i, n, writerVars>>
        BY <1>11, <2>3 DEF WritePacket
      <3>2. WriterTypeOK' /\ aborted' \in BOOLEAN
        BY <1>2, <3>1 DEF WriterTypeOK, writerVars
      <3>3. pc' \in Phases /\ pc' # "sequence"
        BY <3>1 DEF Phases
      <3> QED
        BY <1>2, <1>4, <3>1, <3>2, <3>3, WriterShape
    <2>4. CASE sequences[i].source.invalid # n - PacketsAt + 1
      <3>1. PICK answer \in BOOLEAN :
               /\ WriteSector(sectors_written, "packet", i, n - PacketsAt, answer)
               /\ IF answer THEN Stay(i, RearAt) ELSE Stay(i, n + 1)
        BY <1>11, <2>4 DEF WritePacket
      <3>2. SectorStep(answer) /\ i' = i /\ n' \in {RearAt, n + 1}
        BY <3>1 DEF SectorStep, Stay
      <3> QED
        BY <1>2, <1>5, <2>2, <3>2
    <2> QED
      BY <2>3, <2>4
  <1>12. CASE WriteLeadout
    BY <1>2, <1>5, <1>12 DEF WriteLeadout, SectorStep, Stay
  <1> QED
    BY <1>6, <1>7, <1>8, <1>9, <1>10, <1>11, <1>12
    DEF WritePregap, WriteFrontMargin, WriteRearMargin

\* The sectors nobody uses: each is reserved, then written.
LEMMA WriteBlankShape == ASSUME ShapeInv, WriteBlank PROVE ShapeInv'
  <1>1. pc = "blank" /\ pc \in Started
    BY DEF WriteBlank, Running, Started, WritePhases
  <1>2. End \in Nat \ {0} /\ iso_bitmap = 0 .. End - 1
    BY <1>1 DEF ShapeInv, Packed
  <1>3. PICK e : e = End + 1
    OBVIOUS
  <1>4. e \in Nat \ {0} /\ iso_bitmap' = 0 .. e - 1
    <2>1. FirstFit(iso_bitmap, 1) = End
      BY <1>2, FirstFitOfRun
    <2>2. iso_bitmap' = iso_bitmap \cup {End}
      BY <2>1 DEF WriteBlank
    <2> QED
      BY <1>2, <1>3, <2>2
  <1>5. Packed' /\ iso_bitmap' \subseteq Nat
    BY <1>4, NewRun
  <1>6. /\ UNCHANGED frozen /\ i' \in {i, 1} /\ n' \in {n, 0} /\ pc' \in {"blank", "tracks"}
        /\ \/ \E answer \in BOOLEAN :
                 WriteSector(FirstFit(iso_bitmap, 1), "blank", 0, 0, answer)
           \/ UNCHANGED <<aborted, writerVars>>
    BY <1>1 DEF WriteBlank, Stay, Goto
  <1>7. WriterTypeOK' /\ aborted' \in BOOLEAN
    <2>1. WriterTypeOK /\ aborted \in BOOLEAN
      BY DEF ShapeInv, ObjTypeOK
    <2>2. CASE UNCHANGED <<aborted, writerVars>>
      BY <2>1, <2>2 DEF WriterTypeOK, writerVars
    <2> QED
      BY <1>6, <2>1, <2>2, SectorTypes
  <1>8. LayoutTypeOK'
    <2>1. pc' \in Phases
      BY <1>6 DEF Phases, WritePhases
    <2>2. i' \in Nat /\ n' \in Nat
      BY <1>6, ExtentTypes
    <2> QED
      BY <1>5, <1>6, <2>1, <2>2 DEF ShapeInv, LayoutTypeOK, frozen, extents
  <1>9. ObjTypeOK' /\ Counts'
    BY <1>6, <1>7 DEF ShapeInv, ObjTypeOK, Counts, frozen, objVars
  <1>10. Counting' /\ InTrack'
    BY <1>1, <1>6 DEF ShapeInv, Counting, InTrack
  <1> QED
    BY <1>5, <1>7, <1>8, <1>9, <1>10 DEF ShapeInv

\* A callback that is forced keeps the types of the writer.
LEMMA CallbackTypes ==
    ASSUME ShapeInv, NEW at \in Nat, NEW answer \in BOOLEAN, Callback(at, TRUE, answer)
    PROVE  last_cb_call' \in Nat /\ cancelled' \in BOOLEAN
  BY DEF Callback, ShapeInv, WriterTypeOK

\* The steps that call back whatever has been written since the last call.
LEMMA ForcedShape ==
    ASSUME ShapeInv, NEW answer \in BOOLEAN,
           WriteImage(answer) \/ StartTrack(answer) \/ Finish(answer)
    PROVE  ShapeInv'
  <1>1. WriterTypeOK /\ aborted \in BOOLEAN /\ i \in Nat /\ n \in Nat /\ sectors_written \in Nat
    BY ExtentTypes DEF ShapeInv, ObjTypeOK, WriterTypeOK
  <1>2. pc \in {"output", "tracks", "leadout"} /\ pc \in Started
    BY DEF WriteImage, StartTrack, Finish, Running, Started, WritePhases
  <1>3. i >= 1
    BY <1>2 DEF ShapeInv, Counting
  <1>4. CASE WriteImage(answer)
    <2>1. CASE sectors_written = 0
      <3>1. Callback(0, TRUE, answer)
        BY <1>4, <2>1 DEF WriteImage
      <3>2. /\ UNCHANGED <<sectors_written, in_track, aborted>> /\ result' \in {1, result}
        BY <1>4, <2>1 DEF WriteImage, Return
      <3>3. WriterTypeOK'
        BY <1>1, <3>1, <3>2, CallbackTypes DEF WriterTypeOK
      <3>4. UNCHANGED <<frozen, iso_bitmap>> /\ i' \in {i, 1} /\ n' \in {n, 0}
            /\ pc' \in {"output", "contents"}
        BY <1>4, <2>1 DEF WriteImage, Return, MoveTo, Goto
      <3>5. pc' \in Phases /\ pc' # "sequence"
        BY <3>4 DEF Phases, WritePhases
      <3> QED
        BY <1>1, <1>2, <1>3, <3>2, <3>3, <3>4, <3>5, WriterShape
    <2>2. CASE sectors_written # 0
      <3>1. aborted' = TRUE /\ UNCHANGED <<objVars, in_output, layoutVars>>
            /\ UNCHANGED <<sectors_written, in_track, last_cb_call, cancelled, result>>
        BY <1>4, <2>2 DEF WriteImage, Fails
      <3>2. WriterTypeOK'
        BY <1>1, <3>1 DEF WriterTypeOK
      <3>3. UNCHANGED <<frozen, iso_bitmap, pc, i, n>>
        BY <3>1 DEF frozen, layoutVars
      <3>4. pc \in Phases /\ pc # "sequence"
        BY <1>2 DEF Phases, WritePhases
      <3> QED
        BY <1>1, <1>2, <1>3, <3>1, <3>2, <3>3, <3>4, WriterShape
    <2> QED
      BY <2>1, <2>2
  <1>5. CASE StartTrack(answer)
    <2>1. /\ i <= Len(sequences) /\ in_track' = in_track + 1
          /\ Callback(sectors_written, TRUE, answer)
          /\ UNCHANGED <<frozen, aborted, i, iso_bitmap, sectors_written>>
      BY <1>5 DEF StartTrack
    <2>2. result' \in {1, result} /\ n' \in {n, 0} /\ pc' \in {"output", "sequence"}
      BY <1>5 DEF StartTrack, Return
    <2>3. WriterTypeOK'
      <3>1. last_cb_call' \in Nat /\ cancelled' \in BOOLEAN
        BY <1>1, <2>1, CallbackTypes
      <3> QED
        BY <1>1, <2>1, <2>2, <3>1 DEF WriterTypeOK
    <2>4. pc' \in Phases
      BY <2>2 DEF Phases, WritePhases
    <2> QED
      BY <1>1, <1>2, <1>3, <2>1, <2>2, <2>3, <2>4, WriterShape
  <1>6. CASE Finish(answer)
    <2>1. /\ Callback(sectors_written, TRUE, answer)
          /\ pc' = "output" /\ result' \in {0, 1}
          /\ UNCHANGED <<frozen, aborted, i, n, iso_bitmap>>
          /\ UNCHANGED <<sectors_written, in_track>>
      BY <1>6 DEF Finish, Return
    <2>2. WriterTypeOK'
      BY <1>1, <2>1, CallbackTypes DEF WriterTypeOK
    <2>3. pc' \in Phases /\ pc' # "sequence"
      BY <2>1 DEF Phases
    <2> QED
      BY <1>1, <1>2, <1>3, <2>1, <2>2, <2>3, WriterShape
  <1> QED
    BY <1>4, <1>5, <1>6

\* No call that fills the object passes the bounds on its lists.
LEMMA BuildCounts == ASSUME ObjTypeOK, Counts, BuildNext PROVE Counts'
  <1>1. Len(sequences) \in Nat /\ Len(pbc_list) \in Nat
    BY ListLengths
  <1>2. CASE UNCHANGED <<sequences, pbc_list>>
    BY <1>2 DEF Counts
  <1>3. ASSUME NEW s \in Sources, NEW id \in Ids.sequence, NEW d \in Ids.default,
               AppendSequence(s, id, d)
        PROVE  Counts'
    <2>1. sequences' = Append(sequences, NewSequence(s, id, d)) /\ UNCHANGED pbc_list
      BY <1>3 DEF AppendSequence, NewSequence
    <2>2. Len(sequences) < MaxItems.sequences
      BY <1>3 DEF AppendSequence, Room
    <2>3. Len(sequences') = Len(sequences) + 1
      BY <2>1 DEF ObjTypeOK
    <2> QED
      BY <1>1, <2>1, <2>2, <2>3, BlocksAssumption DEF Counts
  <1>4. ASSUME NEW k \in DOMAIN sequences, NEW t \in EntryTimes, NEW id \in Ids.entry, NEW q,
               AddSequenceEntry(k, q, t, id)
        PROVE  Counts'
    <2>1. sequences' = [sequences EXCEPT ![k].entries =
                            WithEntry(sequences[k].entries, NewEntry(t, id))]
      BY <1>4, AddSequenceEntryType
    <2>4. UNCHANGED pbc_list
      BY <1>4 DEF AddSequenceEntry
    <2>2. WithEntry(sequences[k].entries, NewEntry(t, id)) \in Seq(EntryType(AllIds))
      BY SequenceTypes, NewEntryType, WithEntryType
    <2>3. Len(sequences') = Len(sequences)
      BY <2>1, <2>2, EntriesOfSequence DEF ObjTypeOK
    <2> QED
      BY <2>3, <2>4 DEF Counts
  <1>5. ASSUME NEW id \in Ids.node, NEW p \in Ids.played, AppendPbcNode(id, p) PROVE Counts'
    <2>1. /\ pbc_list' = Append(pbc_list, [id |-> id, item_id |-> p])
          /\ UNCHANGED sequences
          /\ Len(pbc_list) < MaxItems.pbc_list
      BY <1>5 DEF AppendPbcNode, Room
    <2>2. Len(pbc_list') = Len(pbc_list) + 1
      BY <2>1 DEF ObjTypeOK
    <2> QED
      BY <1>1, <2>1, <2>2, BlocksAssumption DEF Counts
  <1> QED
    BY <1>2, <1>3, <1>4, <1>5
    DEF BuildNext, SetParam, AppendSegment, AddFile, LookupFails, objVars

LEMMA BuildShape == ASSUME ShapeInv, Build PROVE ShapeInv'
  <1>1. /\ pc = "idle" /\ BuildNext /\ queried' = -1
        /\ UNCHANGED <<pc, i, n, query, iso_bitmap, dict, extents, writerVars>>
    BY DEF Build
  <1>2. ObjTypeOK' /\ Counts'
    BY <1>1, BuildNextType, BuildCounts DEF ShapeInv
  <1>3. LayoutTypeOK' /\ WriterTypeOK'
    BY <1>1 DEF ShapeInv, LayoutTypeOK, WriterTypeOK, extents, writerVars
  <1>4. Counting' /\ InTrack' /\ Packed'
    BY <1>1, PhaseSets DEF Counting, InTrack, Packed
  <1> QED
    BY <1>2, <1>3, <1>4 DEF ShapeInv

\* The steps of a client but those that fill the object.
LEMMA ClientShape ==
    ASSUME ShapeInv,
           \/ \E for_query \in BOOLEAN : StartOutput(for_query)
           \/ EndOutput \/ Destroy
    PROVE  ShapeInv'
  <1>1. UNCHANGED <<objVars, aborted>> /\ in_output' \in BOOLEAN
    BY DEF StartOutput, BeginOutput, EndOutput, ReleaseOutput, Destroy, ShapeInv, ObjTypeOK
  <1>2. pc' \in {"reserve", "idle", "destroyed"}
    BY DEF StartOutput, BeginOutput, EndOutput, Destroy, Goto
  <1>3. WriterTypeOK'
    <2>1. CASE UNCHANGED writerVars
      BY <2>1 DEF ShapeInv, WriterTypeOK, writerVars
    <2>2. CASE \E for_query \in BOOLEAN : StartOutput(for_query)
      <3>1. /\ sectors_written' = 0 /\ in_track' = 1 /\ cancelled' = FALSE
            /\ result' = -1 /\ last_cb_call' = last_cb_call
        BY <2>2 DEF StartOutput
      <3> QED
        BY <3>1 DEF ShapeInv, WriterTypeOK
    <2> QED
      BY <2>1, <2>2 DEF EndOutput, Destroy, writerVars
  <1>4. /\ iso_bitmap' = {} \/ iso_bitmap' = iso_bitmap
        /\ dict' = {} \/ dict' = dict
        /\ query' \in BOOLEAN /\ i' \in {1, i} /\ n' \in {0, n} /\ UNCHANGED <<queried, extents>>
    BY DEF StartOutput, BeginOutput, EndOutput, ReleaseOutput, Destroy, Goto, ShapeInv,
           LayoutTypeOK
  <1>5. LayoutTypeOK'
    <2>1. pc' \in Phases
      BY <1>2 DEF Phases, LayoutPhases
    <2>2. iso_bitmap' \subseteq Nat
      BY <1>4 DEF ShapeInv, LayoutTypeOK
    <2>3. dict' \subseteq BufferType
      BY <1>4 DEF ShapeInv, LayoutTypeOK
    <2>4. i' \in Nat /\ n' \in Nat
      BY <1>4, ExtentTypes
    <2> QED
      BY <1>4, <2>1, <2>2, <2>3, <2>4 DEF ShapeInv, LayoutTypeOK, extents
  <1>6. ObjTypeOK' /\ Counts'
    BY <1>1 DEF ShapeInv, ObjTypeOK, Counts, objVars
  <1>7. Counting' /\ InTrack' /\ Packed'
    BY <1>2, PhaseSets DEF Counting, InTrack, Packed
  <1> QED
    BY <1>3, <1>5, <1>6, <1>7 DEF ShapeInv

LEMMA ShapeInit == Init => ShapeInv
  <1> SUFFICES ASSUME Init PROVE ShapeInv
    OBVIOUS
  <1>1. ObjTypeOK
    BY InitType DEF Init
  <1>2. LayoutTypeOK /\ WriterTypeOK /\ pc = "idle"
    BY DEF Init, LayoutInit, WriterInit, LayoutTypeOK, WriterTypeOK, Phases
  <1>3. Counts
    BY BlocksAssumption DEF Init, ObjInit, Counts
  <1>4. Counting /\ InTrack /\ Packed
    BY <1>2, PhaseSets DEF Counting, InTrack, Packed
  <1> QED
    BY <1>1, <1>2, <1>3, <1>4 DEF ShapeInv

LEMMA ShapeStep == ShapeInv /\ [Next]_vars => ShapeInv'
  <1> SUFFICES ASSUME ShapeInv, [Next]_vars PROVE ShapeInv'
    OBVIOUS
  <1>1. CASE WriterNext
    BY <1>1, MovesShape, SectorsShape, WriteBlankShape, ForcedShape DEF WriterNext
  <1>2. CASE UNCHANGED vars
    BY <1>2 DEF vars, objVars, layoutVars, extents, writerVars, ShapeInv, ObjTypeOK,
                LayoutTypeOK, WriterTypeOK, Counts, Counting, InTrack, Packed, End
  <1> QED
    BY <1>1, <1>2, BuildShape, ClientShape, LayoutShape, ForcedShape DEF Next

\* Whatever a client masters, however often and with whatever answers, the object,
\* the layout and the writer keep the shape of the C structs: no place is looked for
\* that is not there (SECTOR_NIL), no extent or counter is negative.
THEOREM TypeCorrect == Spec => []TypeOK
  <1>1. ShapeInv => TypeOK
    BY TypeParts DEF ShapeInv
  <1> QED
    BY <1>1, ShapeInit, ShapeStep, PTL DEF Spec

-----------------------------------------------------------------------------
(* The places of the areas: what has been placed so far lies between       *)
(* borders, each in its area, and an area that is not fixed yet begins at  *)
(* the end of what is reserved.                                            *)

BeforeSegments == {"svcd", "fill"}
BeforeExt == BeforeSegments \cup {"segments"}
BeforeFiles == BeforeExt \cup {"ext"}
BeforeSize == BeforeFiles \cup {"files"}

SegmentsFrom == IF pc \in BeforeSegments THEN End ELSE mpeg_segment_start_extent
ExtFrom == IF pc \in BeforeExt THEN End ELSE ext_file_start_extent
FilesFrom == IF pc \in BeforeFiles THEN End ELSE custom_file_start_extent
IsoEnd == IF pc \in BeforeSize THEN End ELSE iso_size

SegmentPlaced(k) == pc \notin BeforeSegments /\ (pc = "segments" => k < i)
FilePlaced(k) == pc \notin BeforeFiles /\ (pc = "files" => k < i)

SegmentEnd(k) == segments[k].start_extent + SegmentSize(k)
FileEnd(k) == files[k].start_extent + files[k].sectors

\* No sector is reserved yet for the blanks behind the files.
Unblanked ==
    \/ pc \in Growing \cup {"entries", "contents", "head", "write_segments", "write_ext",
                            "write_files"}
    \/ pc = "output" /\ result = -1

Borders ==
    pc \in Started =>
        /\ INFO_VCD_SECTOR <= SegmentsFrom
        /\ SegmentsFrom <= ExtFrom
        /\ ExtFrom <= FilesFrom
        /\ FilesFrom <= End
        /\ FilesFrom <= IsoEnd
        /\ Unblanked => End <= IsoEnd

\* A buffer lies before the segments or in the EXT area.
BufferInArea(e) ==
    \/ e.sector + e.length <= SegmentsFrom
    \/ ExtFrom <= e.sector /\ e.sector + e.length <= FilesFrom

\* The directory's area is free of buffers until the directory is made.
OutsideDir(e) == e.sector + e.length <= DIR_SECTOR \/ INFO_VCD_SECTOR <= e.sector

BuffersPlaced ==
    pc \in Started =>
        /\ \A e \in dict : BufferInArea(e)
        /\ pc \in Growing => \A e \in dict : OutsideDir(e)
        /\ Disjoint(dict)

SegmentsPlaced ==
    pc \in Started =>
        \A k \in DOMAIN segments :
            SegmentPlaced(k) =>
                /\ SegmentsFrom <= segments[k].start_extent
                /\ SegmentEnd(k) <= ExtFrom
                /\ \A j \in 1 .. k - 1 : SegmentEnd(j) <= segments[k].start_extent

FilesPlaced ==
    pc \in Started =>
        \A k \in DOMAIN files :
            FilePlaced(k) =>
                /\ FilesFrom <= files[k].start_extent
                /\ FileEnd(k) <= End
                /\ FileEnd(k) <= IsoEnd
                /\ files[k].sectors # 0 =>
                     \A j \in 1 .. k - 1 :
                         files[j].sectors # 0 => FileEnd(j) <= files[k].start_extent

\* What is reserved ends where the EXT area does, or a file that has sectors.
FilesReachEnd ==
    pc \in Started \ BeforeFiles /\ Unblanked =>
        \/ End = custom_file_start_extent
        \/ \E j \in DOMAIN files :
              FilePlaced(j) /\ files[j].sectors # 0 /\ FileEnd(j) = End

PlaceInv == Borders /\ BuffersPlaced /\ SegmentsPlaced /\ FilesPlaced /\ FilesReachEnd

\* A buffer behind all others.
LEMMA OneMoreDisjoint ==
    ASSUME NEW D \in SUBSET BufferType, Disjoint(D), NEW t \in Nat,
           \A e \in D : e.sector + e.length <= t,
           NEW f \in BufferType, f.sector >= t
    PROVE  Disjoint(D \cup {f})
  <1>1. ASSUME NEW e \in D
        PROVE  SectorsOf(e) \cap SectorsOf(f) = {} /\ SectorsOf(f) \cap SectorsOf(e) = {}
    <2>1. /\ e.sector \in Nat /\ e.length \in Nat /\ f.sector \in Nat /\ f.length \in Nat
          /\ e.sector + e.length <= f.sector
      BY DEF BufferType
    <2> QED
      BY <2>1, ApartIsDisjoint DEF SectorsOf
  <1> QED
    BY <1>1 DEF Disjoint

\* The buffers so far end where what is reserved ends, or before.
LEMMA BuffersBeforeEnd ==
    ASSUME ShapeInv, PlaceInv, pc \in Started
    PROVE  /\ \A e \in dict : e.sector \in Nat /\ e.length \in Nat \ {0}
           /\ \A e \in dict : e.sector + e.length <= FilesFrom
           /\ \A e \in dict : e.sector + e.length <= End
           /\ End \in Nat \ {0} /\ iso_bitmap = 0 .. End - 1
           /\ SegmentsFrom \in Nat /\ ExtFrom \in Nat /\ FilesFrom \in Nat /\ IsoEnd \in Nat
  <1>1. End \in Nat \ {0} /\ iso_bitmap = 0 .. End - 1
    BY DEF ShapeInv, Packed
  <1>2. SegmentsFrom \in Nat /\ ExtFrom \in Nat /\ FilesFrom \in Nat /\ IsoEnd \in Nat
    BY <1>1, ExtentTypes DEF SegmentsFrom, ExtFrom, FilesFrom, IsoEnd
  <1>3. \A e \in dict : e.sector \in Nat /\ e.length \in Nat \ {0}
    BY ExtentTypes DEF BufferType
  <1>4. SegmentsFrom <= ExtFrom /\ ExtFrom <= FilesFrom /\ FilesFrom <= End
    BY DEF PlaceInv, Borders
  <1>5. \A e \in dict : BufferInArea(e)
    BY DEF PlaceInv, BuffersPlaced
  <1>6. \A e \in dict : e.sector + e.length <= FilesFrom
    BY <1>2, <1>3, <1>4, <1>5 DEF BufferInArea
  <1>7. \A e \in dict : e.sector + e.length <= End
    BY <1>1, <1>2, <1>3, <1>4, <1>6
  <1> QED
    BY <1>1, <1>2, <1>3, <1>6, <1>7

\* An assertion that fails moves nothing.
LEMMA PlaceFails ==
    ASSUME PlaceInv, Fails, UNCHANGED writerVars
    PROVE  PlaceInv'
  <1>1. /\ UNCHANGED <<pc, i, iso_bitmap, dict, segments, files, result>>
        /\ UNCHANGED <<mpeg_segment_start_extent, ext_file_start_extent>>
        /\ UNCHANGED <<custom_file_start_extent, iso_size>>
    BY DEF Fails, objVars, layoutVars, extents, writerVars
  <1>2. /\ End' = End /\ SegmentsFrom' = SegmentsFrom /\ ExtFrom' = ExtFrom
        /\ FilesFrom' = FilesFrom /\ IsoEnd' = IsoEnd /\ Unblanked' = Unblanked
    BY <1>1 DEF End, SegmentsFrom, ExtFrom, FilesFrom, IsoEnd, Unblanked
  <1>3. Borders' /\ BuffersPlaced'
    BY <1>1, <1>2 DEF PlaceInv, Borders, BuffersPlaced, BufferInArea, OutsideDir
  <1>4. SegmentsPlaced'
    BY <1>1, <1>2 DEF PlaceInv, SegmentsPlaced, SegmentPlaced, SegmentEnd, SegmentSize
  <1>5. FilesPlaced' /\ FilesReachEnd'
    BY <1>1, <1>2 DEF PlaceInv, FilesPlaced, FilesReachEnd, FilePlaced, FileEnd
  <1> QED
    BY <1>3, <1>4, <1>5 DEF PlaceInv

Settled == {"filesystem", "entries", "output"} \cup WritePhases

\* Once the size is fixed nothing is placed any more: what is reserved for blanks lies
\* behind it all.
LEMMA PlaceKept ==
    ASSUME PlaceInv, ShapeInv, ShapeInv', pc \in Settled, pc' \in Settled \ {"filesystem"},
           UNCHANGED <<segments, files, dict>>,
           UNCHANGED <<mpeg_segment_start_extent, ext_file_start_extent>>,
           UNCHANGED <<custom_file_start_extent, iso_size>>,
           End' >= End, Unblanked' => Unblanked /\ End' = End
    PROVE  PlaceInv'
  <1>1. pc \in Started /\ pc' \in Started
    BY DEF Settled, Started, Growing
  <1>2. /\ pc \notin BeforeSize /\ pc' \notin BeforeSize
        /\ pc \notin BeforeFiles /\ pc' \notin BeforeFiles
        /\ pc \notin BeforeExt /\ pc' \notin BeforeExt
        /\ pc \notin BeforeSegments /\ pc' \notin BeforeSegments
        /\ pc' \notin Growing
    BY DEF Settled, WritePhases, BeforeSegments, BeforeExt, BeforeFiles, BeforeSize, Growing
  <1>3. /\ SegmentsFrom' = SegmentsFrom /\ ExtFrom' = ExtFrom
        /\ FilesFrom' = FilesFrom /\ IsoEnd' = IsoEnd
    BY <1>2 DEF SegmentsFrom, ExtFrom, FilesFrom, IsoEnd
  <1>4. /\ SegmentsFrom \in Nat /\ ExtFrom \in Nat /\ FilesFrom \in Nat /\ IsoEnd \in Nat
        /\ End \in Nat /\ End' \in Nat
    BY <1>1, BuffersBeforeEnd DEF ShapeInv, Packed
  <1>5. Borders'
    BY <1>1, <1>3, <1>4 DEF PlaceInv, Borders
  <1>6. BuffersPlaced'
    BY <1>1, <1>2, <1>3 DEF PlaceInv, BuffersPlaced, BufferInArea, OutsideDir
  <1>7. \A k : SegmentPlaced(k) /\ SegmentPlaced(k)' /\ FilePlaced(k) /\ FilePlaced(k)'
    BY <1>2 DEF SegmentPlaced, FilePlaced, BeforeExt, BeforeSize
  <1>8. SegmentsPlaced'
    BY <1>1, <1>3, <1>7 DEF PlaceInv, SegmentsPlaced, SegmentEnd, SegmentSize
  <1>9. FilesPlaced'
    <2>1. ASSUME NEW k \in DOMAIN files PROVE FileEnd(k) <= End'
      <3>1. FileEnd(k) <= End
        BY <1>1, <1>7 DEF PlaceInv, FilesPlaced
      <3>2. FileEnd(k) \in Nat
        BY ListLengths, ItemTypes DEF ShapeInv, FileEnd
      <3> QED
        BY <1>4, <3>1, <3>2
    <2>2. \A k : FileEnd(k)' = FileEnd(k)
      BY DEF FileEnd
    <2> QED
      BY <1>1, <1>3, <1>7, <2>1, <2>2 DEF PlaceInv, FilesPlaced
  <1>10. FilesReachEnd'
    BY <1>1, <1>2, <1>7 DEF PlaceInv, FilesReachEnd, FileEnd
  <1> QED
    BY <1>5, <1>6, <1>8, <1>9, <1>10 DEF PlaceInv

\* The areas with a place of their own lie where LayoutAssumption says.
LEMMA ReserveFixedPlaced ==
    ASSUME ShapeInv, PlaceInv, ReserveFixed, UNCHANGED writerVars
    PROVE  PlaceInv'
  <1>1. CASE Fails
    BY <1>1, PlaceFails
  <1>2. CASE ~Fails
    <2>1. /\ iso_bitmap' = AllSectorsOf(Blank \cup Buffers \cup PbcBuffers)
          /\ dict' = Buffers \cup PbcBuffers
          /\ Disjoint(Blank \cup Buffers \cup PbcBuffers)
          /\ pc' = "svcd"
      BY <1>2 DEF ReserveFixed, Goto
    <2>2. PICK e : e = FixedEnd
      OBVIOUS
    <2>3. e \in Nat \ {0} /\ iso_bitmap' = 0 .. e - 1
      BY <2>1, <2>2, FixedAreas
    <2>4. End' = e
      BY <2>3, NewRun
    <2>5. /\ SegmentsFrom' = e /\ ExtFrom' = e /\ FilesFrom' = e /\ IsoEnd' = e
          /\ pc' \in Started /\ pc' \in BeforeFiles /\ pc' \in BeforeSegments
      BY <2>1, <2>4 DEF SegmentsFrom, ExtFrom, FilesFrom, IsoEnd, BeforeSegments, BeforeExt,
                        BeforeFiles, BeforeSize, Started, Growing
    <2>6. PICK p : p = PsdBlocks(Len(pbc_list))
      OBVIOUS
    <2>7. p \in Nat \ {0}
      BY <2>6, AreaSizes
    <2>8. Borders'
      <3>1. INFO_VCD_SECTOR <= e
        BY <2>2, <2>6, <2>7, LayoutAssumption DEF FixedEnd
      <3> QED
        BY <2>3, <2>4, <2>5, <3>1 DEF Borders
    <2>9. \A f \in Buffers \cup PbcBuffers : f.sector + f.length <= e /\ OutsideDir(f)
      <3>1. \A f \in Buffers : f.sector + f.length <= e /\ OutsideDir(f)
        <4>1. /\ ISO_PVD_SECTOR \in Nat /\ ISO_EVD_SECTOR = ISO_PVD_SECTOR + 1
              /\ DIR_SECTOR = ISO_EVD_SECTOR + 1
              /\ INFO_VCD_SECTOR \in Nat /\ INFO_VCD_SECTOR > DIR_SECTOR
              /\ ENTRIES_VCD_SECTOR = INFO_VCD_SECTOR + 1
              /\ LOT_VCD_SECTOR = ENTRIES_VCD_SECTOR + 1
          BY LayoutAssumption
        <4>2. e \in Nat /\ e >= LOT_VCD_SECTOR
          BY <2>2, <2>6, <2>7, LayoutAssumption DEF FixedEnd
        <4>3. /\ ISO_PVD_SECTOR + 1 <= DIR_SECTOR /\ ISO_PVD_SECTOR + 1 <= e
              /\ ISO_EVD_SECTOR + 1 <= DIR_SECTOR /\ ISO_EVD_SECTOR + 1 <= e
              /\ INFO_VCD_SECTOR + 1 <= e
              /\ INFO_VCD_SECTOR <= ENTRIES_VCD_SECTOR /\ ENTRIES_VCD_SECTOR + 1 <= e
              /\ INFO_VCD_SECTOR <= INFO_VCD_SECTOR
          BY <4>1, <4>2
        <4>4. \A f \in Buffers :
                 \/ f.sector = ISO_PVD_SECTOR /\ f.length = 1
                 \/ f.sector = ISO_EVD_SECTOR /\ f.length = 1
                 \/ f.sector = INFO_VCD_SECTOR /\ f.length = 1
                 \/ f.sector = ENTRIES_VCD_SECTOR /\ f.length = 1
          BY DEF Buffers, Entry
        <4> QED
          BY <4>3, <4>4 DEF OutsideDir
      <3>2. CASE pbc_available
        <4>1. /\ e = PSD_VCD_SECTOR + p
              /\ PbcBuffers = {Entry("lot", LOT_VCD_SECTOR, LOT_VCD_SIZE),
                               Entry("psd", PSD_VCD_SECTOR, p)}
          BY <2>2, <2>6, <3>2 DEF FixedEnd, PbcBuffers
        <4>2. \A f \in PbcBuffers : f.sector + f.length <= e /\ OutsideDir(f)
          BY <2>7, <4>1, LayoutAssumption DEF Entry, OutsideDir
        <4> QED
          BY <3>1, <4>2
      <3>3. CASE ~pbc_available
        BY <3>1, <3>3 DEF PbcBuffers
      <3> QED
        BY <3>2, <3>3
    <2>10. BuffersPlaced'
      <3>1. Disjoint(dict')
        BY <2>1 DEF Disjoint
      <3>2. \A f \in dict' : BufferInArea(f)' /\ OutsideDir(f)'
        BY <2>1, <2>5, <2>9 DEF BufferInArea, OutsideDir
      <3> QED
        BY <3>1, <3>2 DEF BuffersPlaced, Disjoint
    <2>11. SegmentsPlaced' /\ FilesPlaced' /\ FilesReachEnd'
      BY <2>5 DEF SegmentsPlaced, SegmentPlaced, FilesPlaced, FilePlaced, FilesReachEnd
    <2> QED
      BY <2>8, <2>10, <2>11 DEF PlaceInv
  <1> QED
    BY <1>1, <1>2


\* Outside begin_output and write_image there is nothing to place.
LEMMA PlaceOutside == ASSUME pc' \notin Started PROVE PlaceInv'
  BY DEF PlaceInv, Borders, BuffersPlaced, SegmentsPlaced, FilesPlaced, FilesReachEnd

\* While the primary information area grows there is no other.
LEMMA InformationPlaced ==
    ASSUME ShapeInv', pc' \in BeforeSegments \cup {"segments"}, i' = 1,
           pc' = "segments" => mpeg_segment_start_extent' = End',
           INFO_VCD_SECTOR <= End',
           \A f \in dict' : f.sector + f.length <= End' /\ OutsideDir(f),
           Disjoint(dict')
    PROVE  PlaceInv'
  <1>1. End' \in Nat
    BY DEF ShapeInv, Packed, BeforeSegments, Started, Growing
  <1>2. /\ SegmentsFrom' = End' /\ ExtFrom' = End' /\ FilesFrom' = End' /\ IsoEnd' = End'
        /\ pc' \in BeforeFiles
    BY DEF SegmentsFrom, ExtFrom, FilesFrom, IsoEnd, BeforeSegments, BeforeExt, BeforeFiles,
           BeforeSize
  <1>3. Borders'
    BY <1>1, <1>2 DEF Borders
  <1>4. \A f \in dict' : BufferInArea(f)' /\ OutsideDir(f)'
    BY <1>2 DEF BufferInArea, OutsideDir
  <1>5. BuffersPlaced'
    BY <1>4 DEF BuffersPlaced, Disjoint
  <1>6. \A k \in DOMAIN segments' : ~SegmentPlaced(k)'
    BY ListLengths DEF SegmentPlaced, ShapeInv
  <1>7. \A k : ~FilePlaced(k)'
    BY <1>2 DEF FilePlaced
  <1>8. SegmentsPlaced' /\ FilesPlaced' /\ FilesReachEnd'
    BY <1>2, <1>6, <1>7 DEF SegmentsPlaced, FilesPlaced, FilesReachEnd
  <1> QED
    BY <1>3, <1>5, <1>8 DEF PlaceInv

LEMMA ReserveSearchPlaced ==
    ASSUME ShapeInv, ShapeInv', PlaceInv, ReserveSearch, UNCHANGED writerVars
    PROVE  PlaceInv'
  <1>1. CASE Fails
    BY <1>1, PlaceFails
  <1>2. CASE ~Fails
    <2>1. pc = "svcd" /\ pc' = "fill" /\ i' = 1
      BY <1>2 DEF ReserveSearch, Goto, Running
    <2>2. pc \in Started /\ pc \in Growing /\ pc' \in BeforeSegments
      BY <2>1 DEF Started, Growing, BeforeSegments
    <2>3. /\ \A e \in dict : e.sector \in Nat /\ e.length \in Nat \ {0}
          /\ \A e \in dict : e.sector + e.length <= End
          /\ \A e \in dict : OutsideDir(e)
          /\ End \in Nat \ {0} /\ iso_bitmap = 0 .. End - 1 /\ Disjoint(dict)
          /\ dict \subseteq BufferType
      BY <2>2, BuffersBeforeEnd, ExtentTypes DEF PlaceInv, BuffersPlaced
    <2>4. INFO_VCD_SECTOR <= End
      BY <2>1, <2>2 DEF PlaceInv, Borders, SegmentsFrom, BeforeSegments
    <2>5. CASE UNCHANGED <<iso_bitmap, dict>>
      <3>1. End' = End
        BY <2>5 DEF End
      <3> QED
        BY <2>1, <2>2, <2>3, <2>4, <2>5, <3>1, InformationPlaced
    <2>6. CASE ~UNCHANGED <<iso_bitmap, dict>>
      <3>1. PICK t, size : t = End /\ size = SearchBlocks(Len(sequences))
        OBVIOUS
      <3>2. /\ dict' = dict \cup {Entry("tracks", t, 1), Entry("search", t + 1, size)}
            /\ iso_bitmap' = 0 .. t + 1 + size - 1
            /\ size \in Nat \ {0}
        BY <1>2, <2>6, <3>1, ReserveSearchPlaces
      <3>3. PICK e : e = t + 1 + size
        OBVIOUS
      <3>4. e \in Nat \ {0} /\ iso_bitmap' = 0 .. e - 1 /\ t \in Nat
        BY <2>3, <3>1, <3>2, <3>3
      <3>5. End' = e
        BY <3>4, NewRun
      <3> DEFINE f == Entry("tracks", t, 1)
                 g == Entry("search", t + 1, size)
      <3>6. f \in BufferType /\ g \in BufferType
        BY <3>2, <3>4, EntryIsBuffer DEF BufferKeys
      <3>7. f.sector = t /\ f.length = 1 /\ g.sector = t + 1 /\ g.length = size
        BY DEF Entry
      <3> HIDE DEF f, g
      <3>8. Disjoint(dict \cup {f})
        <4>1. dict \in SUBSET BufferType /\ f.sector >= t
          BY <2>3, <3>4, <3>7
        <4>2. \A d \in dict : d.sector + d.length <= t
          BY <2>3, <3>1
        <4> QED
          BY <2>3, <3>4, <3>6, <4>1, <4>2, OneMoreDisjoint
      <3>9. Disjoint((dict \cup {f}) \cup {g})
        <4>1. \A d \in dict \cup {f} : d.sector + d.length <= t + 1
          BY <2>3, <3>1, <3>4, <3>7
        <4>2. dict \cup {f} \in SUBSET BufferType /\ t + 1 \in Nat /\ g.sector >= t + 1
          BY <2>3, <3>4, <3>6, <3>7
        <4> QED
          BY <3>6, <3>8, <4>1, <4>2, OneMoreDisjoint
      <3>10. dict' = (dict \cup {f}) \cup {g}
        BY <3>2 DEF f, g
      <3>11. \A d \in dict' : d.sector + d.length <= e /\ OutsideDir(d)
        <4>1. INFO_VCD_SECTOR \in Nat /\ INFO_VCD_SECTOR <= t
          BY <2>4, <3>1, LayoutAssumption
        <4>2. \A d \in dict : d.sector + d.length <= e /\ OutsideDir(d)
          <5>1. t \in Nat /\ e \in Nat /\ t <= e
            BY <3>2, <3>3, <3>4
          <5>2. \A d \in dict : d.sector + d.length <= t /\ d.sector + d.length \in Nat
            BY <2>3, <3>1
          <5> QED
            BY <2>3, <5>1, <5>2
        <4>3. f.sector + f.length <= e /\ INFO_VCD_SECTOR <= f.sector
          BY <3>2, <3>3, <3>4, <3>7, <4>1
        <4>4. g.sector + g.length <= e /\ INFO_VCD_SECTOR <= g.sector
          BY <3>2, <3>3, <3>4, <3>7, <4>1
        <4> QED
          BY <3>10, <4>2, <4>3, <4>4 DEF OutsideDir
      <3>12. INFO_VCD_SECTOR <= e
        BY <2>4, <3>1, <3>2, <3>3, <3>4, LayoutAssumption
      <3> QED
        BY <2>1, <2>2, <3>5, <3>9, <3>10, <3>11, <3>12, InformationPlaced
    <2> QED
      BY <2>5, <2>6
  <1> QED
    BY <1>1, <1>2

LEMMA FillToAlignmentPlaced ==
    ASSUME ShapeInv, ShapeInv', PlaceInv, FillToAlignment, UNCHANGED writerVars
    PROVE  PlaceInv'
  <1>1. CASE Fails
    BY <1>1, PlaceFails
  <1>2. CASE ~Fails
    <2>1. pc = "fill" /\ pc' = "segments" /\ i' = 1
      BY <1>2 DEF FillToAlignment, Goto, Running
    <2>2. pc \in Started /\ pc \in Growing /\ pc \in BeforeSegments
      BY <2>1 DEF Started, Growing, BeforeSegments
    <2>3. PICK t : t = End'
      OBVIOUS
    <2>4. /\ mpeg_segment_start_extent' = t /\ t >= End /\ t \in Nat
          /\ UNCHANGED dict
      BY <1>2, <2>3, FillToAlignmentPlaces
    <2>5. /\ \A e \in dict : e.sector \in Nat /\ e.length \in Nat \ {0}
          /\ \A e \in dict : e.sector + e.length <= End
          /\ \A e \in dict : OutsideDir(e)
          /\ End \in Nat \ {0} /\ Disjoint(dict)
      BY <2>2, BuffersBeforeEnd DEF PlaceInv, BuffersPlaced
    <2>6. INFO_VCD_SECTOR <= End
      BY <2>1, <2>2 DEF PlaceInv, Borders, SegmentsFrom
    <2>7. INFO_VCD_SECTOR <= t
      BY <2>4, <2>5, <2>6, LayoutAssumption
    <2>8. \A f \in dict' : f.sector + f.length <= t /\ OutsideDir(f)
      BY <2>4, <2>5
    <2> QED
      BY <2>1, <2>3, <2>4, <2>5, <2>7, <2>8, InformationPlaced
  <1> QED
    BY <1>1, <1>2


\* A segment goes behind the ones before it.
LEMMA PlaceSegmentPlaced ==
    ASSUME ShapeInv, ShapeInv', PlaceInv, PlaceSegment, UNCHANGED writerVars
    PROVE  PlaceInv'
  <1>1. CASE Fails
    BY <1>1, PlaceFails
  <1>2. CASE ~Fails
    <2>1. /\ pc = "segments" /\ pc' = pc /\ i' = i + 1
          /\ UNCHANGED <<files, dict, mpeg_segment_start_extent>>
      BY <1>2 DEF PlaceSegment, Running, extents
    <2>2. /\ pc \in Started /\ pc \in Growing /\ pc \notin BeforeSegments
          /\ pc \in BeforeExt /\ pc \in BeforeFiles /\ pc \in BeforeSize
      BY <2>1 DEF Started, Growing, BeforeSegments, BeforeExt, BeforeFiles, BeforeSize
    <2>3. PICK t, size : t = End /\ size = SegmentSize(i)
      OBVIOUS
    <2>4. /\ i \in 1 .. Len(segments)
          /\ segments' = [segments EXCEPT ![i].start_extent = t]
          /\ t \in Nat \ {0} /\ size \in Nat \ {0}
          /\ End' = t + size
      BY <1>2, <2>3, PlaceSegmentPlaces
    <2>5. /\ SegmentsFrom = mpeg_segment_start_extent /\ ExtFrom = t
          /\ FilesFrom = t /\ IsoEnd = t
          /\ SegmentsFrom' = mpeg_segment_start_extent /\ ExtFrom' = t + size
          /\ FilesFrom' = t + size /\ IsoEnd' = t + size
      BY <2>1, <2>2, <2>3, <2>4 DEF SegmentsFrom, ExtFrom, FilesFrom, IsoEnd
    <2>6. PICK from : from = mpeg_segment_start_extent
      OBVIOUS
    <2>7. from \in Nat /\ INFO_VCD_SECTOR <= from /\ from <= t /\ INFO_VCD_SECTOR \in Nat
      BY <2>2, <2>5, <2>6, ExtentTypes, LayoutAssumption DEF PlaceInv, Borders
    <2>8. Borders'
      BY <2>4, <2>5, <2>6, <2>7 DEF Borders
    <2>9. BuffersPlaced'
      <3>1. \A e \in dict : e.sector \in Nat /\ e.length \in Nat \ {0}
        BY <2>2, BuffersBeforeEnd
      <3>2. \A e \in dict : e.sector + e.length <= from
        BY <2>2, <2>4, <2>5, <2>6, <2>7, <3>1 DEF PlaceInv, BuffersPlaced, BufferInArea
      <3>3. \A e \in dict : BufferInArea(e)'
        BY <2>5, <2>6, <3>2 DEF BufferInArea
      <3> QED
        BY <2>1, <2>2, <3>3 DEF PlaceInv, BuffersPlaced, OutsideDir, Disjoint
    <2>10. /\ DOMAIN segments' = 1 .. Len(segments)
           /\ DOMAIN segments = 1 .. Len(segments) /\ Len(segments) \in Nat
           /\ \A j \in 1 .. Len(segments) :
                 /\ segments'[j].segment_count = segments[j].segment_count
                 /\ segments'[j].start_extent =
                      (IF j = i THEN t ELSE segments[j].start_extent)
      BY <2>4, SegmentGetsPlace, ListLengths DEF ShapeInv
    <2>11. SegmentsPlaced'
      <3>1. \A j \in 1 .. Len(segments) : SegmentSize(j)' = SegmentSize(j)
        BY <2>10 DEF SegmentSize
      <3>2. \A j \in 1 .. Len(segments) :
               SegmentEnd(j)' = IF j = i THEN t + size ELSE SegmentEnd(j)
        BY <2>3, <2>10, <3>1 DEF SegmentEnd
      <3>3. \A j \in 1 .. i - 1 :
               /\ from <= segments[j].start_extent
               /\ SegmentEnd(j) <= t
               /\ \A h \in 1 .. j - 1 : SegmentEnd(h) <= segments[j].start_extent
        BY <2>1, <2>2, <2>4, <2>5, <2>6, <2>10 DEF PlaceInv, SegmentsPlaced, SegmentPlaced
      <3>4. \A j \in 1 .. Len(segments) :
               segments[j].start_extent \in Nat /\ SegmentEnd(j) \in Nat
        BY ItemTypes DEF ShapeInv, SegmentEnd
      <3>5. ASSUME NEW k \in DOMAIN segments', SegmentPlaced(k)'
            PROVE  /\ from <= segments'[k].start_extent
                   /\ SegmentEnd(k)' <= t + size
                   /\ \A j \in 1 .. k - 1 : SegmentEnd(j)' <= segments'[k].start_extent
        <4>1. k \in 1 .. i
          BY <2>1, <2>4, <2>10, <3>5 DEF SegmentPlaced
        <4>2. CASE k = i
          <5>1. segments'[k].start_extent = t /\ SegmentEnd(k)' = t + size
            BY <2>4, <2>10, <3>2, <4>2
          <5>2. \A j \in 1 .. k - 1 : j \in 1 .. i - 1 /\ j \in 1 .. Len(segments) /\ j # i
            BY <2>4, <2>10, <4>2
          <5>3. \A j \in 1 .. k - 1 : SegmentEnd(j)' = SegmentEnd(j)
            BY <3>2, <5>2
          <5> QED
            BY <2>4, <2>7, <3>3, <5>1, <5>2, <5>3
        <4>3. CASE k # i
          <5>1. k \in 1 .. i - 1 /\ \A j \in 1 .. k - 1 : j # i /\ j \in 1 .. Len(segments)
            BY <2>4, <2>10, <4>1, <4>3
          <5>2. segments'[k].start_extent = segments[k].start_extent
            BY <2>10, <3>5, <4>3
          <5>3. /\ SegmentEnd(k)' = SegmentEnd(k)
                /\ \A j \in 1 .. k - 1 : SegmentEnd(j)' = SegmentEnd(j)
            BY <2>10, <3>2, <3>5, <4>3, <5>1
          <5>4. SegmentEnd(k) <= t + size
            BY <2>4, <2>10, <3>3, <3>4, <3>5, <5>1
          <5> QED
            BY <3>3, <5>1, <5>2, <5>3, <5>4
        <4> QED
          BY <4>2, <4>3
      <3> QED
        BY <2>5, <2>6, <3>5 DEF SegmentsPlaced
    <2>12. FilesPlaced' /\ FilesReachEnd'
      BY <2>1, <2>2 DEF FilesPlaced, FilePlaced, FilesReachEnd
    <2> QED
      BY <2>8, <2>9, <2>11, <2>12 DEF PlaceInv
  <1> QED
    BY <1>1, <1>2

\* The area that was growing ends where it ended.
LEMMA EndSegmentsPlaced ==
    ASSUME ShapeInv, ShapeInv', PlaceInv, EndSegments, UNCHANGED writerVars
    PROVE  PlaceInv'
  <1>1. CASE Fails
    BY <1>1, PlaceFails
  <1>2. CASE ~Fails
    <2>1. /\ pc = "segments" /\ pc' = "ext" /\ i' = 1 /\ i > Len(segments)
          /\ ext_file_start_extent' = End
          /\ UNCHANGED <<segments, files, dict, iso_bitmap, mpeg_segment_start_extent>>
      BY <1>2 DEF EndSegments, Running, Goto, objVars
    <2>2. End' = End
      BY <2>1 DEF End
    <2>3. /\ pc \in Started /\ pc' \in Started /\ pc \in Growing /\ pc' \in Growing
          /\ pc \notin BeforeSegments /\ pc' \notin BeforeSegments
          /\ pc \in BeforeExt /\ pc' \notin BeforeExt
          /\ pc \in BeforeFiles /\ pc' \in BeforeFiles
          /\ pc \in BeforeSize /\ pc' \in BeforeSize
      BY <2>1 DEF Started, Growing, BeforeSegments, BeforeExt, BeforeFiles, BeforeSize
    <2>4. /\ SegmentsFrom' = SegmentsFrom /\ ExtFrom' = ExtFrom
          /\ FilesFrom' = FilesFrom /\ IsoEnd' = IsoEnd
      BY <2>1, <2>2, <2>3 DEF SegmentsFrom, ExtFrom, FilesFrom, IsoEnd
    <2>5. Borders'
      BY <2>2, <2>3, <2>4 DEF PlaceInv, Borders, Unblanked
    <2>6. BuffersPlaced'
      BY <2>1, <2>3, <2>4 DEF PlaceInv, BuffersPlaced, BufferInArea, OutsideDir, Disjoint
    <2>7. \A k \in DOMAIN segments : SegmentPlaced(k) /\ SegmentPlaced(k)'
      BY <2>1, <2>3, ListLengths, ExtentTypes DEF SegmentPlaced, ShapeInv
    <2>8. SegmentsPlaced'
      BY <2>1, <2>3, <2>4, <2>7 DEF PlaceInv, SegmentsPlaced, SegmentEnd, SegmentSize
    <2>9. FilesPlaced' /\ FilesReachEnd'
      BY <2>3 DEF FilesPlaced, FilePlaced, FilesReachEnd
    <2> QED
      BY <2>5, <2>6, <2>8, <2>9 DEF PlaceInv
  <1> QED
    BY <1>1, <1>2


\* A buffer of the EXT area goes behind the segments and the buffers before it.
LEMMA PlaceExtPlaced ==
    ASSUME ShapeInv, ShapeInv', PlaceInv, PlaceExt, UNCHANGED writerVars
    PROVE  PlaceInv'
  <1>1. /\ pc = "ext" /\ pc' = pc
        /\ UNCHANGED <<segments, files, mpeg_segment_start_extent, ext_file_start_extent>>
    BY DEF PlaceExt, Running, objVars, extents
  <1>2. /\ pc \in Started /\ pc \in Growing /\ pc \notin BeforeSegments
        /\ pc \notin BeforeExt /\ pc \in BeforeFiles /\ pc \in BeforeSize
    BY <1>1 DEF Started, Growing, BeforeSegments, BeforeExt, BeforeFiles, BeforeSize
  <1>3. PICK t, size : t = End /\ size = ExtFiles[i].length
    OBVIOUS
  <1>4. PICK key : key = ExtFiles[i].key
    OBVIOUS
  <1>5. /\ dict' = dict \cup {Entry(key, t, size)}
        /\ key \in BufferKeys /\ size \in Nat \ {0} /\ t \in Nat \ {0}
        /\ End' = t + size
    BY <1>3, <1>4, PlaceExtPlaces
  <1>6. /\ SegmentsFrom' = SegmentsFrom /\ ExtFrom' = ExtFrom
        /\ FilesFrom = t /\ IsoEnd = t /\ FilesFrom' = t + size /\ IsoEnd' = t + size
    BY <1>1, <1>2, <1>3, <1>5 DEF SegmentsFrom, ExtFrom, FilesFrom, IsoEnd
  <1>7. /\ SegmentsFrom \in Nat /\ ExtFrom \in Nat /\ INFO_VCD_SECTOR \in Nat
        /\ INFO_VCD_SECTOR <= SegmentsFrom /\ SegmentsFrom <= ExtFrom /\ ExtFrom <= t
    BY <1>2, <1>6, BuffersBeforeEnd, LayoutAssumption DEF PlaceInv, Borders
  <1>8. Borders'
    BY <1>5, <1>6, <1>7 DEF Borders
  <1> DEFINE f == Entry(key, t, size)
  <1>9. f \in BufferType /\ f.sector = t /\ f.length = size
    BY <1>5, EntryIsBuffer DEF Entry
  <1> HIDE DEF f
  <1>10. /\ \A e \in dict : e.sector \in Nat /\ e.length \in Nat \ {0}
         /\ \A e \in dict : e.sector + e.length <= t
         /\ dict \in SUBSET BufferType /\ Disjoint(dict)
         /\ \A e \in dict : BufferInArea(e) /\ OutsideDir(e)
    BY <1>2, <1>3, BuffersBeforeEnd, ExtentTypes DEF PlaceInv, BuffersPlaced
  <1>11. dict' = dict \cup {f}
    BY <1>5 DEF f
  <1>12. BuffersPlaced'
    <2>1. Disjoint(dict \cup {f})
      BY <1>5, <1>9, <1>10, OneMoreDisjoint
    <2>2. \A e \in dict : BufferInArea(e)'
      BY <1>5, <1>6, <1>7, <1>10 DEF BufferInArea
    <2>3. BufferInArea(f)' /\ OutsideDir(f)
      BY <1>5, <1>6, <1>7, <1>9 DEF BufferInArea, OutsideDir
    <2>4. \A e \in dict' : BufferInArea(e)' /\ OutsideDir(e)
      BY <1>10, <1>11, <2>2, <2>3
    <2> QED
      BY <1>11, <2>1, <2>4 DEF BuffersPlaced, OutsideDir, Disjoint
  <1>13. SegmentsPlaced'
    <2>1. pc # "segments" /\ pc' # "segments"
      BY <1>1
    <2> QED
      BY <1>1, <1>2, <1>6, <2>1 DEF PlaceInv, SegmentsPlaced, SegmentPlaced, SegmentEnd,
                                    SegmentSize
  <1>14. FilesPlaced' /\ FilesReachEnd'
    BY <1>1, <1>2 DEF FilesPlaced, FilePlaced, FilesReachEnd
  <1> QED
    BY <1>8, <1>12, <1>13, <1>14 DEF PlaceInv

LEMMA EndExtPlaced ==
    ASSUME ShapeInv, ShapeInv', PlaceInv, EndExt, UNCHANGED writerVars
    PROVE  PlaceInv'
  <1>1. /\ pc = "ext" /\ pc' = "files" /\ i' = 1
        /\ custom_file_start_extent' = End
        /\ UNCHANGED <<segments, files, dict, iso_bitmap>>
        /\ UNCHANGED <<mpeg_segment_start_extent, ext_file_start_extent>>
    BY DEF EndExt, Running, Goto, objVars
  <1>2. End' = End
    BY <1>1 DEF End
  <1>3. /\ pc \in Started /\ pc' \in Started /\ pc \in Growing /\ pc' \in Growing
        /\ pc \notin BeforeSegments /\ pc' \notin BeforeSegments
        /\ pc \notin BeforeExt /\ pc' \notin BeforeExt
        /\ pc \in BeforeFiles /\ pc' \notin BeforeFiles
        /\ pc \in BeforeSize /\ pc' \in BeforeSize
    BY <1>1 DEF Started, Growing, BeforeSegments, BeforeExt, BeforeFiles, BeforeSize
  <1>4. /\ SegmentsFrom' = SegmentsFrom /\ ExtFrom' = ExtFrom
        /\ FilesFrom' = FilesFrom /\ IsoEnd' = IsoEnd
    BY <1>1, <1>2, <1>3 DEF SegmentsFrom, ExtFrom, FilesFrom, IsoEnd
  <1>5. Borders'
    BY <1>2, <1>3, <1>4 DEF PlaceInv, Borders, Unblanked
  <1>6. BuffersPlaced'
    BY <1>1, <1>3, <1>4 DEF PlaceInv, BuffersPlaced, BufferInArea, OutsideDir, Disjoint
  <1>7. SegmentsPlaced'
    <2>1. pc # "segments" /\ pc' # "segments"
      BY <1>1
    <2> QED
      BY <1>1, <1>3, <1>4, <2>1 DEF PlaceInv, SegmentsPlaced, SegmentPlaced, SegmentEnd,
                                    SegmentSize
  <1>8. \A k \in DOMAIN files' : ~FilePlaced(k)'
    BY <1>1, ListLengths DEF FilePlaced, ShapeInv
  <1>9. FilesPlaced' /\ FilesReachEnd'
    BY <1>1, <1>2, <1>8 DEF FilesPlaced, FilesReachEnd
  <1> QED
    BY <1>5, <1>6, <1>7, <1>9 DEF PlaceInv

\* A file goes behind the ones before it.
LEMMA PlaceFilePlaced ==
    ASSUME ShapeInv, ShapeInv', PlaceInv, PlaceFile, UNCHANGED writerVars
    PROVE  PlaceInv'
  <1>1. /\ pc = "files" /\ pc' = pc /\ i' = i + 1
        /\ UNCHANGED <<segments, dict, mpeg_segment_start_extent>>
        /\ UNCHANGED <<ext_file_start_extent, custom_file_start_extent>>
    BY DEF PlaceFile, Running, extents
  <1>2. /\ pc \in Started /\ pc \in Growing /\ pc \notin BeforeSegments
        /\ pc \notin BeforeExt /\ pc \notin BeforeFiles /\ pc \in BeforeSize
    BY <1>1 DEF Started, Growing, BeforeSegments, BeforeExt, BeforeFiles, BeforeSize
  <1>3. PICK t, size : t = End /\ size = files[i].sectors
    OBVIOUS
  <1>4. PICK from : from = custom_file_start_extent
    OBVIOUS
  <1>5. PICK start : start = IF size = 0 THEN from ELSE t
    OBVIOUS
  <1>6. /\ i \in 1 .. Len(files) /\ size \in Nat /\ t \in Nat \ {0}
        /\ files' = [files EXCEPT ![i].start_extent = start]
        /\ End' = t + size
    BY <1>3, <1>4, <1>5, PlaceFilePlaces
  <1>7. /\ SegmentsFrom' = SegmentsFrom /\ ExtFrom' = ExtFrom
        /\ FilesFrom = from /\ IsoEnd = t /\ FilesFrom' = from /\ IsoEnd' = t + size
    BY <1>1, <1>2, <1>3, <1>4, <1>6 DEF SegmentsFrom, ExtFrom, FilesFrom, IsoEnd
  <1>8. /\ SegmentsFrom \in Nat /\ ExtFrom \in Nat /\ INFO_VCD_SECTOR \in Nat
        /\ from \in Nat /\ INFO_VCD_SECTOR <= SegmentsFrom
        /\ SegmentsFrom <= ExtFrom /\ ExtFrom <= from /\ from <= t
    BY <1>2, <1>3, <1>7, BuffersBeforeEnd, LayoutAssumption DEF PlaceInv, Borders
  <1>9. Borders'
    BY <1>6, <1>7, <1>8 DEF Borders
  <1>10. BuffersPlaced'
    BY <1>1, <1>2, <1>7 DEF PlaceInv, BuffersPlaced, BufferInArea, OutsideDir, Disjoint
  <1>11. SegmentsPlaced'
    <2>1. pc # "segments" /\ pc' # "segments"
      BY <1>1
    <2> QED
      BY <1>1, <1>2, <1>7, <2>1 DEF PlaceInv, SegmentsPlaced, SegmentPlaced, SegmentEnd,
                                    SegmentSize
  <1>12. start \in Nat /\ from <= start /\ start + size <= t + size
    BY <1>5, <1>6, <1>8
  <1>13. /\ DOMAIN files' = 1 .. Len(files)
         /\ DOMAIN files = 1 .. Len(files) /\ Len(files) \in Nat
         /\ \A j \in 1 .. Len(files) :
               /\ files'[j].sectors = files[j].sectors
               /\ files'[j].start_extent =
                    (IF j = i THEN start ELSE files[j].start_extent)
    BY <1>6, <1>12, FileGetsPlace, ListLengths DEF ShapeInv
  <1>14. \A j \in 1 .. Len(files) :
            /\ files[j].start_extent \in Nat /\ files[j].sectors \in Nat
            /\ FileEnd(j) \in Nat
            /\ FileEnd(j)' = IF j = i THEN start + size ELSE FileEnd(j)
    BY <1>3, <1>6, <1>13, ItemTypes DEF ShapeInv, FileEnd
  <1>15. \A j \in 1 .. Len(files) :
            /\ FilePlaced(j) <=> j < i
            /\ FilePlaced(j)' <=> j < i + 1
    BY <1>1, <1>2 DEF FilePlaced
  <1>16. \A j \in 1 .. i - 1 :
            /\ j \in 1 .. Len(files) /\ j # i /\ j < i
            /\ from <= files[j].start_extent
            /\ FileEnd(j) <= t
            /\ files[j].sectors # 0 =>
                 \A h \in 1 .. j - 1 : files[h].sectors # 0 => FileEnd(h) <= files[j].start_extent
    <2>1. \A j \in 1 .. i - 1 : j \in 1 .. Len(files) /\ j # i /\ j < i
      BY <1>6, <1>13
    <2> QED
      BY <1>2, <1>3, <1>7, <1>13, <1>15, <2>1 DEF PlaceInv, FilesPlaced
  <1>17. FilesPlaced'
    <2>1. ASSUME NEW k \in DOMAIN files', FilePlaced(k)'
          PROVE  /\ from <= files'[k].start_extent
                 /\ FileEnd(k)' <= t + size
                 /\ files'[k].sectors # 0 =>
                      \A j \in 1 .. k - 1 :
                          files'[j].sectors # 0 => FileEnd(j)' <= files'[k].start_extent
      <3>1. k \in 1 .. i /\ k \in 1 .. Len(files)
        BY <1>6, <1>13, <1>15, <2>1
      <3>2. CASE k = i
        <4>1. files'[k].start_extent = start /\ FileEnd(k)' = start + size
              /\ files'[k].sectors = size
          BY <1>3, <1>6, <1>13, <1>14, <3>1, <3>2
        <4>2. \A j \in 1 .. k - 1 : FileEnd(j)' <= t
          BY <1>14, <1>16, <3>2
        <4> QED
          BY <1>5, <1>12, <3>2, <4>1, <4>2
      <3>3. CASE k # i
        <4>1. k \in 1 .. i - 1 /\ \A j \in 1 .. k - 1 : j \in 1 .. i - 1
          BY <1>6, <3>1, <3>3
        <4>2. /\ files'[k].start_extent = files[k].start_extent
              /\ FileEnd(k)' = FileEnd(k) /\ files'[k].sectors = files[k].sectors
          BY <1>13, <1>14, <3>1, <3>3
        <4>3. \A j \in 1 .. k - 1 :
                 FileEnd(j)' = FileEnd(j) /\ files'[j].sectors = files[j].sectors
          BY <1>13, <1>14, <1>16, <4>1
        <4>4. FileEnd(k) <= t + size
          BY <1>6, <1>14, <1>16, <3>1, <4>1
        <4> QED
          BY <1>16, <4>1, <4>2, <4>3, <4>4
      <3> QED
        BY <3>2, <3>3
    <2> QED
      BY <1>6, <1>7, <2>1 DEF FilesPlaced
  <1>18. FilesReachEnd'
    <2>1. PICK item : item = i
      OBVIOUS
    <2>2. CASE size # 0
      <3>1. /\ item \in DOMAIN files' /\ FilePlaced(item)'
            /\ files'[item].sectors # 0 /\ FileEnd(item)' = End'
        BY <1>3, <1>5, <1>6, <1>13, <1>14, <1>15, <2>1, <2>2
      <3> QED
        BY <3>1 DEF FilesReachEnd
    <2>3. CASE size = 0
      <3>1. Unblanked /\ End' = End
        <4>1. Unblanked
          BY <1>2 DEF Unblanked
        <4>2. End' = End
          BY <1>3, <1>6, <2>3
        <4> QED
          BY <4>1, <4>2
      <3>2. CASE End = custom_file_start_extent
        BY <1>1, <3>1, <3>2 DEF FilesReachEnd
      <3>3. CASE \E j \in DOMAIN files :
                     FilePlaced(j) /\ files[j].sectors # 0 /\ FileEnd(j) = End
        <4>1. PICK j \in DOMAIN files :
                 FilePlaced(j) /\ files[j].sectors # 0 /\ FileEnd(j) = End
          BY <3>3
        <4>2. j \in 1 .. Len(files) /\ j < i /\ j # i
          BY <1>6, <1>13, <1>15, <4>1
        <4>3. /\ j \in DOMAIN files' /\ FilePlaced(j)'
              /\ files'[j].sectors # 0 /\ FileEnd(j)' = End'
          BY <1>6, <1>13, <1>14, <1>15, <3>1, <4>1, <4>2
        <4> QED
          BY <4>3 DEF FilesReachEnd
      <3> QED
        BY <1>2, <3>1, <3>2, <3>3 DEF PlaceInv, FilesReachEnd
    <2> QED
      BY <2>2, <2>3
  <1> QED
    BY <1>9, <1>10, <1>11, <1>17, <1>18 DEF PlaceInv

LEMMA EndFilesPlaced ==
    ASSUME ShapeInv, ShapeInv', PlaceInv, EndFiles, UNCHANGED writerVars
    PROVE  PlaceInv'
  <1>1. /\ pc = "files" /\ pc' = "filesystem" /\ i' = 1 /\ i > Len(files)
        /\ iso_size' = IF MIN_ISO_SIZE > End THEN MIN_ISO_SIZE ELSE End
        /\ UNCHANGED <<segments, files, dict, iso_bitmap>>
        /\ UNCHANGED <<mpeg_segment_start_extent, ext_file_start_extent>>
        /\ UNCHANGED custom_file_start_extent
    BY DEF EndFiles, Running, Goto, objVars
  <1>2. End' = End
    BY <1>1 DEF End
  <1>3. /\ pc \in Started /\ pc' \in Started /\ pc \in Growing /\ pc' \in Growing
        /\ pc \notin BeforeSegments /\ pc' \notin BeforeSegments
        /\ pc \notin BeforeExt /\ pc' \notin BeforeExt
        /\ pc \notin BeforeFiles /\ pc' \notin BeforeFiles
        /\ pc \in BeforeSize /\ pc' \notin BeforeSize
    BY <1>1 DEF Started, Growing, BeforeSegments, BeforeExt, BeforeFiles, BeforeSize
  <1>4. /\ SegmentsFrom' = SegmentsFrom /\ ExtFrom' = ExtFrom
        /\ FilesFrom' = FilesFrom /\ IsoEnd' = iso_size' /\ IsoEnd = End
    BY <1>1, <1>2, <1>3 DEF SegmentsFrom, ExtFrom, FilesFrom, IsoEnd
  <1>5. /\ SegmentsFrom \in Nat /\ ExtFrom \in Nat /\ FilesFrom \in Nat /\ End \in Nat
        /\ MIN_ISO_SIZE \in Nat
    BY <1>3, BuffersBeforeEnd, LayoutAssumption
  <1>6. iso_size' \in Nat /\ End <= iso_size'
    BY <1>1, <1>5
  <1>7. Borders'
    BY <1>2, <1>3, <1>4, <1>5, <1>6 DEF PlaceInv, Borders
  <1>8. BuffersPlaced'
    BY <1>1, <1>3, <1>4 DEF PlaceInv, BuffersPlaced, BufferInArea, OutsideDir, Disjoint
  <1>9. SegmentsPlaced'
    <2>1. pc # "segments" /\ pc' # "segments"
      BY <1>1
    <2> QED
      BY <1>1, <1>3, <1>4, <2>1 DEF PlaceInv, SegmentsPlaced, SegmentPlaced, SegmentEnd,
                                    SegmentSize
  <1>10. \A k \in DOMAIN files : FilePlaced(k) /\ FilePlaced(k)'
    BY <1>1, <1>3, ListLengths, ExtentTypes DEF FilePlaced, ShapeInv
  <1>11. \A k \in DOMAIN files : FileEnd(k)' = FileEnd(k) /\ FileEnd(k) \in Nat
    BY <1>1, ListLengths, ItemTypes DEF ShapeInv, FileEnd
  <1>12. \A k \in DOMAIN files : FileEnd(k) <= iso_size'
    BY <1>3, <1>5, <1>6, <1>10, <1>11 DEF PlaceInv, FilesPlaced
  <1>13. FilesPlaced'
    <2>1. ASSUME NEW k \in DOMAIN files
          PROVE \A j \in 1 .. k - 1 : FileEnd(j)' = FileEnd(j)
      BY <1>1 DEF FileEnd
    <2> QED
      BY <1>1, <1>2, <1>3, <1>4, <1>10, <1>11, <1>12, <2>1 DEF PlaceInv, FilesPlaced
  <1>14. FilesReachEnd'
    <2>1. Unblanked /\ Unblanked'
      BY <1>3 DEF Unblanked
    <2> QED
      BY <1>1, <1>2, <1>3, <1>10, <1>11, <2>1 DEF PlaceInv, FilesReachEnd
  <1> QED
    BY <1>7, <1>8, <1>9, <1>13, <1>14 DEF PlaceInv


\* The directory lies in an area that no buffer is in.
LEMMA MakeFilesystemPlaced ==
    ASSUME ShapeInv, ShapeInv', PlaceInv, NEW d \in DirBlocks, MakeFilesystem(d),
           UNCHANGED writerVars
    PROVE  PlaceInv'
  <1>1. CASE Fails
    BY <1>1, PlaceFails
  <1>2. CASE ~Fails /\ pc' = "exited"
    BY <1>2, PlaceOutside, PhaseSets
  <1>3. CASE ~Fails /\ pc' # "exited"
    <2>1. /\ pc = "filesystem" /\ pc' = "entries"
          /\ ~TooBig(d) /\ Disjoint(DirEntries(d))
          /\ dict' = dict \cup DirEntries(d)
          /\ UNCHANGED <<objVars, iso_bitmap, extents>>
      BY <1>3, MakeFilesystemPlaces
    <2>2. /\ UNCHANGED <<segments, files>> /\ End' = End
          /\ UNCHANGED <<mpeg_segment_start_extent, ext_file_start_extent>>
          /\ UNCHANGED <<custom_file_start_extent, iso_size>>
      BY <2>1 DEF objVars, extents, End
    <2>3. /\ pc \in Started /\ pc' \in Started /\ pc \in Growing /\ pc' \notin Growing
          /\ pc \notin BeforeSegments /\ pc' \notin BeforeSegments
          /\ pc \notin BeforeExt /\ pc' \notin BeforeExt
          /\ pc \notin BeforeFiles /\ pc' \notin BeforeFiles
          /\ pc \notin BeforeSize /\ pc' \notin BeforeSize
      BY <2>1 DEF Started, Growing, BeforeSegments, BeforeExt, BeforeFiles, BeforeSize
    <2>4. /\ SegmentsFrom' = SegmentsFrom /\ ExtFrom' = ExtFrom
          /\ FilesFrom' = FilesFrom /\ IsoEnd' = IsoEnd
      BY <2>2, <2>3 DEF SegmentsFrom, ExtFrom, FilesFrom, IsoEnd
    <2>5. Unblanked /\ Unblanked'
      BY <2>1 DEF Unblanked, Growing
    <2>6. Borders'
      BY <2>2, <2>3, <2>4, <2>5 DEF PlaceInv, Borders
    <2>7. /\ d \in Nat \ {0} /\ DIR_SECTOR \in Nat /\ KARAOKE_SECTOR \in Nat
          /\ KARAOKE_SIZE \in Nat /\ INFO_VCD_SECTOR = KARAOKE_SECTOR + KARAOKE_SIZE
      BY LayoutAssumption
    <2>8. DIR_SECTOR + d + 2 <= INFO_VCD_SECTOR
      BY <2>1, <2>7 DEF TooBig
    <2>9. \A e \in DirEntries(d) :
             /\ e.sector \in Nat /\ e.length \in Nat \ {0} /\ DIR_SECTOR <= e.sector
             /\ e.sector + e.length <= INFO_VCD_SECTOR
      <3>1. \A e \in DirEntries(d) :
               /\ e.sector \in Nat /\ e.length \in Nat \ {0}
               /\ DIR_SECTOR <= e.sector /\ e.sector + e.length <= DIR_SECTOR + d + 2
        BY <2>7, DirArea
      <3> QED
        BY <2>7, <2>8, <3>1
    <2>10. /\ SegmentsFrom \in Nat /\ INFO_VCD_SECTOR <= SegmentsFrom
           /\ \A e \in dict : e.sector \in Nat /\ e.length \in Nat \ {0}
           /\ \A e \in dict : BufferInArea(e) /\ OutsideDir(e)
           /\ Disjoint(dict)
      BY <2>3, BuffersBeforeEnd DEF PlaceInv, Borders, BuffersPlaced
    <2>11. \A e \in DirEntries(d) : BufferInArea(e)'
      <3>1. \A e \in DirEntries(d) : e.sector + e.length <= SegmentsFrom
        BY <2>7, <2>9, <2>10
      <3> QED
        BY <2>4, <3>1 DEF BufferInArea
    <2>12. \A e \in dict : BufferInArea(e)'
      BY <2>4, <2>10 DEF BufferInArea
    <2>13. ASSUME NEW e \in dict, NEW f \in DirEntries(d)
           PROVE  SectorsOf(e) \cap SectorsOf(f) = {} /\ SectorsOf(f) \cap SectorsOf(e) = {}
      <3>1. e.sector + e.length <= f.sector \/ f.sector + f.length <= e.sector
        BY <2>7, <2>9, <2>10 DEF OutsideDir
      <3>2. /\ e.sector \in Int /\ e.length \in Int /\ f.sector \in Int /\ f.length \in Int
        BY <2>9, <2>10
      <3> QED
        BY <3>1, <3>2, ApartIsDisjoint DEF SectorsOf
    <2>14. Disjoint(dict \cup DirEntries(d))
      BY <2>1, <2>10, <2>13 DEF Disjoint
    <2>15. BuffersPlaced'
      BY <2>1, <2>3, <2>11, <2>12, <2>14 DEF BuffersPlaced, Disjoint
    <2>16. /\ \A k : SegmentPlaced(k) /\ SegmentPlaced(k)'
           /\ \A k : FilePlaced(k) /\ FilePlaced(k)'
      BY <2>1, <2>3 DEF SegmentPlaced, FilePlaced
    <2>17. SegmentsPlaced'
      BY <2>2, <2>3, <2>4, <2>16 DEF PlaceInv, SegmentsPlaced, SegmentEnd, SegmentSize
    <2>18. FilesPlaced' /\ FilesReachEnd'
      BY <2>2, <2>3, <2>4, <2>5, <2>16 DEF PlaceInv, FilesPlaced, FilesReachEnd, FileEnd
    <2> QED
      BY <2>6, <2>15, <2>17, <2>18 DEF PlaceInv
  <1> QED
    BY <1>1, <1>2, <1>3

\* The entry points and the size: nothing is placed.
LEMMA EntriesPlaced ==
    ASSUME ShapeInv, ShapeInv', PlaceInv, UpdateEntry \/ NextSequence \/ ReturnSize,
           UNCHANGED writerVars
    PROVE  PlaceInv'
  <1>1. CASE Fails
    BY <1>1, PlaceFails
  <1>2. CASE pc' \notin Started
    BY <1>2, PlaceOutside
  <1>3. CASE ~Fails /\ pc' \in Started
    <2>1. /\ pc = "entries" /\ pc' \in {"entries", "output"}
          /\ UNCHANGED <<segments, files, iso_bitmap, dict>>
          /\ UNCHANGED <<mpeg_segment_start_extent, ext_file_start_extent>>
          /\ UNCHANGED <<custom_file_start_extent, iso_size>>
      <3>1. CASE UpdateEntry
        BY <1>3, <3>1, UpdateEntryPlaces DEF extents
      <3>2. CASE NextSequence
        BY <3>2 DEF NextSequence, Running, objVars, extents
      <3>3. CASE ReturnSize
        <4>1. pc' \in {"exited", "idle", "output"} /\ pc' # "idle" /\ pc' # "exited"
          BY <1>3, <3>3, ReturnSizePlaces, PhaseSets
        <4> QED
          BY <3>3, <4>1, ReturnSizePlaces DEF objVars
      <3> QED
        BY <3>1, <3>2, <3>3
    <2>2. End' = End
      BY <2>1 DEF End
    <2>3. End' \in Nat
      BY <1>3 DEF ShapeInv, Packed
    <2>4. pc \in Settled /\ pc' \in Settled \ {"filesystem"} /\ Unblanked
      BY <2>1 DEF Settled, Unblanked
    <2> QED
      BY <2>1, <2>2, <2>3, <2>4, PlaceKept
  <1> QED
    BY <1>1, <1>2, <1>3

LEMMA LayoutPlaced ==
    ASSUME ShapeInv, ShapeInv', PlaceInv, Layout
    PROVE  PlaceInv'
  <1>1. UNCHANGED writerVars
    BY DEF Layout
  <1> QED
    BY <1>1, ReserveFixedPlaced, ReserveSearchPlaced, FillToAlignmentPlaced, PlaceSegmentPlaced,
       EndSegmentsPlaced, PlaceExtPlaced, EndExtPlaced, PlaceFilePlaced, EndFilesPlaced,
       MakeFilesystemPlaced, EntriesPlaced
    DEF Layout, LayoutNext

\* A step of the writer goes on to a phase where what is reserved is as before, or where
\* blanks are reserved.
LEMMA WriterPlaced ==
    ASSUME ShapeInv, ShapeInv', PlaceInv, UNCHANGED frozen,
           pc \in Settled, pc' \in (Settled \ {"filesystem"}) \cup {"exited"},
           pc' \in Settled => End' >= End /\ (Unblanked' => Unblanked /\ End' = End)
    PROVE  PlaceInv'
  <1>1. CASE pc' \notin Settled
    BY <1>1, PlaceOutside, PhaseSets
  <1>2. CASE pc' \in Settled
    <2>1. /\ UNCHANGED <<segments, files, dict>>
          /\ UNCHANGED <<mpeg_segment_start_extent, ext_file_start_extent>>
          /\ UNCHANGED <<custom_file_start_extent, iso_size>>
      BY DEF frozen, objVars, extents
    <2>2. pc' \in Settled \ {"filesystem"}
      BY <1>2, PhaseSets
    <2> QED
      BY <1>2, <2>1, <2>2, PlaceKept
  <1> QED
    BY <1>1, <1>2


\* The phases of write_image, and what is reserved, step by step.
LEMMA WriterMoves ==
    ASSUME ShapeInv, WriterNext
    PROVE  /\ UNCHANGED frozen
           /\ pc \in WritePhases /\ pc' \in WritePhases \cup {"output", "exited"}
           /\ Unblanked' => Unblanked
           /\ UNCHANGED iso_bitmap \/ WriteBlank
  <1>1. CASE \/ MakeContents \/ EndHead \/ NextSegment \/ EndWriteSegments \/ EndWriteExt
             \/ NextFile \/ EndWriteFiles \/ EndSequence \/ EndTracks
    <2>1. pc \in WritePhases
      BY <1>1 DEF MakeContents, EndHead, NextSegment, EndWriteSegments, EndWriteExt, NextFile,
             EndWriteFiles, EndSequence, EndTracks, Running, WritePhases
    <2>2. CASE Fails
      BY <2>1, <2>2, PhaseSets DEF Fails, layoutVars, frozen, Unblanked, WritePhases
    <2>3. CASE ~Fails
      <3>1. UNCHANGED <<frozen, iso_bitmap>>
        BY <1>1, <2>3 DEF MakeContents, EndHead, NextSegment, EndWriteSegments, EndWriteExt,
             NextFile, EndWriteFiles, EndSequence, EndTracks, MoveTo, Stay
      <3>2. /\ pc' \in WritePhases
            /\ pc \in {"sequence", "tracks"} => pc' \in {"tracks", "leadout"}
            /\ pc \notin {"sequence", "tracks"} =>
                  pc \in {"contents", "head", "write_segments", "write_ext", "write_files"}
        BY <1>1, <2>3 DEF MakeContents, EndHead, NextSegment, EndWriteSegments, EndWriteExt,
             NextFile, EndWriteFiles, EndSequence, EndTracks, MoveTo, Stay, Goto, Running,
             WritePhases
      <3>3. Unblanked' => Unblanked
        BY <3>2 DEF Unblanked, Growing
      <3> QED
        BY <2>1, <3>1, <3>2, <3>3
    <2> QED
      BY <2>2, <2>3
  <1>2. ASSUME pc \in WritePhases, pc' = pc, UNCHANGED <<frozen, iso_bitmap>>
        PROVE  /\ pc' \in WritePhases
               /\ Unblanked' => Unblanked
    BY <1>2, PhaseSets DEF Unblanked, WritePhases
  <1>3. CASE WriteHead \/ WriteSegment \/ WriteExt \/ WriteFile \/ WriteLeadout
    BY <1>2, <1>3 DEF WriteHead, WriteSegment, WriteExt, WriteFile, WriteLeadout, Stay, Running,
                      WritePhases
  <1>4. CASE WritePregap \/ WriteFrontMargin \/ WriteRearMargin
    BY <1>2, <1>4 DEF WritePregap, WriteFrontMargin, WriteRearMargin, WriteGap, Stay, Running,
                      WritePhases
  <1>5. CASE WritePacket
    <2>1. pc = "sequence" /\ pc' \in {"sequence", "exited"} /\ UNCHANGED <<frozen, iso_bitmap>>
      BY <1>5 DEF WritePacket, Running, Stay
    <2> QED
      BY <2>1 DEF Unblanked, Growing, WritePhases
  <1>6. CASE WriteBlank
    <2>1. pc = "blank" /\ pc' \in {"blank", "tracks"} /\ UNCHANGED frozen
      BY <1>6 DEF WriteBlank, Running, Stay, Goto
    <2> QED
      BY <1>6, <2>1 DEF Unblanked, Growing, WritePhases
  <1>7. CASE \E answer \in BOOLEAN : StartTrack(answer)
    <2>1. /\ pc = "tracks" /\ UNCHANGED <<frozen, iso_bitmap>>
          /\ pc' = "sequence" \/ (pc' = "output" /\ result' = 1)
      BY <1>7 DEF StartTrack, Running, Return
    <2>2. ~Unblanked'
      <3>1. CASE pc' = "sequence"
        BY <3>1 DEF Unblanked, Growing
      <3>2. CASE pc' = "output" /\ result' = 1
        BY <3>2 DEF Unblanked, Growing
      <3> QED
        BY <2>1, <3>1, <3>2
    <2>3. pc \in WritePhases /\ pc' \in WritePhases \cup {"output", "exited"}
      BY <2>1 DEF WritePhases
    <2> QED
      BY <2>1, <2>2, <2>3
  <1>8. CASE \E answer \in BOOLEAN : Finish(answer)
    <2>1. /\ pc = "leadout" /\ UNCHANGED <<frozen, iso_bitmap>>
          /\ pc' = "output" /\ result' \in {0, 1}
      BY <1>8 DEF Finish, Running, Return
    <2> QED
      BY <2>1 DEF Unblanked, Growing, WritePhases
  <1> QED
    BY <1>1, <1>3, <1>4, <1>5, <1>6, <1>7, <1>8 DEF WriterNext

\* A blank goes behind all that is reserved.
LEMMA BlankGrows ==
    ASSUME ShapeInv, WriteBlank
    PROVE  End \in Nat \ {0} /\ iso_bitmap = 0 .. End - 1 /\ End' = End + 1
           /\ FirstFit(iso_bitmap, 1) = End
  <1>1. pc \in Started
    BY DEF WriteBlank, Running, Started, WritePhases
  <1>2. End \in Nat \ {0} /\ iso_bitmap = 0 .. End - 1
    BY <1>1 DEF ShapeInv, Packed
  <1>3. FirstFit(iso_bitmap, 1) = End
    BY <1>2, FirstFitOfRun
  <1>4. PICK e : e = End + 1
    OBVIOUS
  <1>5. e \in Nat \ {0} /\ iso_bitmap' = 0 .. e - 1
    <2>1. iso_bitmap' = iso_bitmap \cup {End}
      BY <1>3 DEF WriteBlank
    <2> QED
      BY <1>2, <1>4, <2>1
  <1>6. End' = e
    BY <1>5, NewRun
  <1> QED
    BY <1>2, <1>3, <1>4, <1>6

LEMMA WriterStepPlaced ==
    ASSUME ShapeInv, ShapeInv', PlaceInv, WriterNext
    PROVE  PlaceInv'
  <1>1. /\ UNCHANGED frozen
        /\ pc \in WritePhases /\ pc' \in WritePhases \cup {"output", "exited"}
        /\ Unblanked' => Unblanked
        /\ UNCHANGED iso_bitmap \/ WriteBlank
    BY WriterMoves
  <1>2. /\ pc \in Settled /\ pc' \in (Settled \ {"filesystem"}) \cup {"exited"}
        /\ pc \in Started /\ (pc' \in Settled => pc' \in Started)
    BY <1>1 DEF Settled, WritePhases, Started, Growing
  <1>3. End \in Nat
    BY <1>2 DEF ShapeInv, Packed
  <1>4. CASE WriteBlank
    <2>1. End' = End + 1
      BY <1>4, BlankGrows
    <2>2. pc' \in {"blank", "tracks"}
      BY <1>4 DEF WriteBlank, Running, Stay, Goto
    <2>3. ~Unblanked'
      BY <2>2 DEF Unblanked, Growing
    <2> QED
      BY <1>1, <1>2, <1>3, <2>1, <2>3, WriterPlaced
  <1>5. CASE UNCHANGED iso_bitmap
    <2>1. End' = End
      BY <1>5 DEF End
    <2> QED
      BY <1>1, <1>2, <1>3, <2>1, WriterPlaced
  <1> QED
    BY <1>1, <1>4, <1>5

\* write_image is called: nothing has been reserved for blanks yet.
LEMMA WriteImagePlaced ==
    ASSUME ShapeInv, ShapeInv', PlaceInv, NEW answer \in BOOLEAN, WriteImage(answer)
    PROVE  PlaceInv'
  <1>1. pc = "output" /\ result = -1
    BY DEF WriteImage, Running
  <1>2. UNCHANGED <<frozen, iso_bitmap>> /\ pc' \in {"output", "contents"}
    <2>1. CASE sectors_written = 0
      BY <2>1 DEF WriteImage, Return, MoveTo, Goto
    <2>2. CASE sectors_written # 0
      BY <1>1, <2>2 DEF WriteImage, Fails, layoutVars, frozen
    <2> QED
      BY <2>1, <2>2
  <1>3. /\ pc \in Settled /\ pc' \in (Settled \ {"filesystem"}) \cup {"exited"}
        /\ pc \in Started
    BY <1>1, <1>2 DEF Settled, WritePhases, Started
  <1>4. End' = End /\ Unblanked
    BY <1>1, <1>2 DEF End, Unblanked
  <1>5. End \in Nat
    BY <1>3 DEF ShapeInv, Packed
  <1> QED
    BY <1>2, <1>3, <1>4, <1>5, WriterPlaced

LEMMA PlaceInit == Init => PlaceInv
  <1> SUFFICES ASSUME Init PROVE PlaceInv
    OBVIOUS
  <1>1. pc \notin Started
    BY PhaseSets DEF Init, LayoutInit
  <1> QED
    BY <1>1 DEF PlaceInv, Borders, BuffersPlaced, SegmentsPlaced, FilesPlaced, FilesReachEnd

LEMMA PlaceStep == ShapeInv /\ PlaceInv /\ [Next]_vars => PlaceInv'
  <1> SUFFICES ASSUME ShapeInv, PlaceInv, [Next]_vars PROVE PlaceInv'
    OBVIOUS
  <1>1. ShapeInv'
    BY ShapeStep
  <1>2. CASE Build
    BY <1>2, PlaceOutside, PhaseSets DEF Build
  <1>3. CASE \/ \E for_query \in BOOLEAN : StartOutput(for_query)
             \/ EndOutput \/ Destroy
    <2>1. pc' \in {"reserve", "idle", "destroyed"}
      BY <1>3 DEF StartOutput, BeginOutput, EndOutput, Destroy, Goto
    <2> QED
      BY <2>1, PlaceOutside, PhaseSets
  <1>4. CASE UNCHANGED vars
    BY <1>4 DEF vars, objVars, layoutVars, extents, writerVars, PlaceInv, Borders,
                BuffersPlaced, BufferInArea, OutsideDir, Disjoint, SegmentsPlaced, SegmentPlaced,
                SegmentEnd, SegmentSize, FilesPlaced, FilePlaced, FileEnd, FilesReachEnd, End,
                SegmentsFrom, ExtFrom, FilesFrom, IsoEnd, Unblanked
  <1> QED
    BY <1>1, <1>2, <1>3, <1>4, LayoutPlaced, WriterStepPlaced, WriteImagePlaced DEF Next


-----------------------------------------------------------------------------
(* The tracks.                                                             *)

\* The tracks lie one behind the other, each at least a pregap behind the start, and
\* relative_end_extent is behind them all.
TracksApart ==
    \A k \in DOMAIN sequences :
        /\ prm.track_pregap <= sequences[k].relative_start_extent
        /\ sequences[k].relative_start_extent + SequenceLength(k) <= relative_end_extent
        /\ \A j \in 1 .. k - 1 :
              sequences[j].relative_start_extent + SequenceLength(j)
                  <= sequences[k].relative_start_extent

TracksInv == SequencesAdjoin /\ TracksApart

\* The numbers of a track.
LEMMA TrackNumbers ==
    ASSUME ObjTypeOK, NEW k \in DOMAIN sequences
    PROVE  /\ k \in 1 .. Len(sequences)
           /\ sequences[k].relative_start_extent \in Nat
           /\ sequences[k].source.packets \in Nat
           /\ SequenceLength(k) \in Nat
  BY SequenceTypes, ParamTypes DEF SequenceLength

\* Entry points, and what is no sequence, move no track.
LEMMA TracksKept ==
    ASSUME ObjTypeOK, TracksInv, UNCHANGED <<prm, relative_end_extent>>,
           sequences' \in Seq(SequenceType(AllIds)), Len(sequences') = Len(sequences),
           \A j \in DOMAIN sequences :
              /\ sequences'[j].source = sequences[j].source
              /\ sequences'[j].relative_start_extent = sequences[j].relative_start_extent
    PROVE  TracksInv'
  <1>1. /\ DOMAIN sequences = 1 .. Len(sequences) /\ DOMAIN sequences' = 1 .. Len(sequences)
        /\ Len(sequences) \in Nat
    BY ListLengths, LenProperties
  <1>2. \A j \in DOMAIN sequences : SequenceLength(j)' = SequenceLength(j)
    BY DEF SequenceLength
  <1>3. TracksApart'
    <2>1. \A k \in DOMAIN sequences : \A j \in 1 .. k - 1 : j \in DOMAIN sequences
      BY <1>1
    <2> QED
      BY <1>1, <1>2, <2>1 DEF TracksInv, TracksApart
  <1>4. \A j \in 1 .. Len(sequences) + 1 : StartOf(j)' = StartOf(j)
    <2>1. TAKE j \in 1 .. Len(sequences) + 1
    <2>2. j # 1 => j - 1 \in DOMAIN sequences
      BY <1>1
    <2> QED
      BY <1>2, <2>2 DEF StartOf
  <1>5. sequences = <<>> <=> sequences' = <<>>
    <2>1. sequences \in Seq(SequenceType(AllIds))
      BY DEF ObjTypeOK
    <2>2. sequences = <<>> <=> Len(sequences) = 0
      BY <2>1, EmptySeq
    <2>3. sequences' = <<>> <=> Len(sequences') = 0
      BY EmptySeq
    <2> QED
      BY <2>2, <2>3
  <1>6. SequencesAdjoin'
    <2>1. \A j \in DOMAIN sequences' : sequences'[j].relative_start_extent = StartOf(j)'
      BY <1>1, <1>4 DEF TracksInv, SequencesAdjoin
    <2>2. PICK last : last = Len(sequences)
      OBVIOUS
    <2>3. StartOf(Len(sequences) + 1)' = StartOf(Len(sequences) + 1)
      <3>1. StartOf(last + 1)' = StartOf(last + 1)
        BY <1>1, <1>4, <2>2
      <3> QED
        BY <2>2, <3>1
    <2> QED
      BY <1>5, <2>1, <2>3 DEF TracksInv, SequencesAdjoin
  <1> QED
    BY <1>3, <1>6 DEF TracksInv

\* A new track goes behind all others.
LEMMA AppendTrack ==
    ASSUME ObjTypeOK, TracksInv, NEW s \in Sources, NEW id \in Ids.sequence,
           NEW d \in Ids.default, AppendSequence(s, id, d)
    PROVE  TracksApart'
  <1> DEFINE new == NewSequence(s, id, d)
  <1>1. PICK last, end, start :
            last = Len(sequences) /\ end = relative_end_extent
            /\ start = relative_end_extent + prm.track_pregap
    OBVIOUS
  <1>2. sequences' = Append(sequences, new) /\ prm' = prm
    BY DEF AppendSequence, NewSequence
  <1>3. last \in Nat /\ DOMAIN sequences = 1 .. last
    BY <1>1, ListLengths
  <1>4. new.relative_start_extent = start /\ new.source = s
    BY <1>1 DEF NewSequence
  <1> HIDE DEF new
  <1>5. /\ DOMAIN sequences' = 1 .. last + 1
        /\ \A k \in 1 .. last : sequences'[k] = sequences[k]
        /\ sequences'[last + 1] = new
    BY <1>1, <1>2, <1>3 DEF ObjTypeOK
  <1>6. \A k \in 1 .. last : SequenceLength(k)' = SequenceLength(k)
    BY <1>2, <1>5 DEF SequenceLength
  <1>7. PICK length : length = prm.track_front_margin + s.packets + prm.track_rear_margin
    OBVIOUS
  <1>8. SequenceLength(last + 1)' = length
    BY <1>2, <1>4, <1>5, <1>7 DEF SequenceLength
  <1>9. /\ relative_end_extent' = start + length
        /\ end \in Nat /\ start \in Nat /\ length \in Nat /\ prm.track_pregap \in Nat
        /\ end <= start
    <2>1. s.packets \in Nat /\ end \in Nat
      BY <1>1, ObjAssumption DEF SourceType, ObjTypeOK
    <2>2. relative_end_extent' =
              start + prm.track_front_margin + s.packets + prm.track_rear_margin
      BY <1>1 DEF AppendSequence
    <2>3. start \in Nat /\ end <= start
      BY <1>1, <2>1, ParamTypes
    <2>4. /\ prm.track_front_margin \in Nat /\ prm.track_rear_margin \in Nat
          /\ prm.track_pregap \in Nat
      BY ParamTypes
    <2>5. length \in Nat /\ relative_end_extent' = start + length
      BY <1>7, <2>1, <2>2, <2>3, <2>4
    <2> QED
      BY <2>1, <2>3, <2>4, <2>5
  <1>10. \A k \in 1 .. last :
            /\ sequences[k].relative_start_extent \in Nat /\ SequenceLength(k) \in Nat
            /\ prm.track_pregap <= sequences[k].relative_start_extent
            /\ sequences[k].relative_start_extent + SequenceLength(k) <= end
            /\ \A j \in 1 .. k - 1 :
                  sequences[j].relative_start_extent + SequenceLength(j)
                      <= sequences[k].relative_start_extent
    BY <1>1, <1>3, TrackNumbers DEF TracksInv, TracksApart
  <1>11. ASSUME NEW k \in 1 .. last + 1
         PROVE  /\ prm.track_pregap <= sequences'[k].relative_start_extent
                /\ sequences'[k].relative_start_extent + SequenceLength(k)' <= start + length
                /\ \A j \in 1 .. k - 1 :
                      sequences'[j].relative_start_extent + SequenceLength(j)'
                          <= sequences'[k].relative_start_extent
    <2>1. \A j \in 1 .. k - 1 : j \in 1 .. last
      BY <1>3
    <2>2. CASE k = last + 1
      <3>1. \A j \in 1 .. k - 1 :
               sequences'[j].relative_start_extent + SequenceLength(j)' <= end
        BY <1>5, <1>6, <1>10, <2>1
      <3>2. \A j \in 1 .. k - 1 :
               sequences'[j].relative_start_extent + SequenceLength(j)' \in Nat
        BY <1>5, <1>6, <1>10, <2>1
      <3>3. sequences'[k].relative_start_extent = start /\ SequenceLength(k)' = length
        BY <1>4, <1>5, <1>8, <2>2
      <3>4. prm.track_pregap <= start
        BY <1>1, <1>9
      <3>5. \A j \in 1 .. k - 1 :
               sequences'[j].relative_start_extent + SequenceLength(j)' <= start
        BY <1>9, <3>1, <3>2
      <3> QED
        BY <1>9, <3>3, <3>4, <3>5
    <2>3. CASE k # last + 1
      <3>1. k \in 1 .. last
        BY <1>3, <2>3
      <3>2. sequences'[k] = sequences[k] /\ SequenceLength(k)' = SequenceLength(k)
        BY <1>5, <1>6, <3>1
      <3>3. \A j \in 1 .. k - 1 :
               sequences'[j] = sequences[j] /\ SequenceLength(j)' = SequenceLength(j)
        BY <1>5, <1>6, <2>1
      <3>4. sequences[k].relative_start_extent + SequenceLength(k) <= start + length
        BY <1>9, <1>10, <3>1
      <3> QED
        BY <1>10, <3>1, <3>2, <3>3, <3>4
    <2> QED
      BY <2>2, <2>3
  <1> QED
    BY <1>2, <1>5, <1>9, <1>11 DEF TracksApart

\* While parameters are set first, the calls that fill an object keep its tracks apart.
LEMMA BuildTracks ==
    ASSUME ParamsFirst, ObjTypeOK, TracksInv, BuildNext
    PROVE  TracksInv'
  <1>1. SequencesAdjoin'
    BY BuildNextAdjoins DEF TracksInv
  <1>2. CASE \E a \in Arguments : SetParam(a[1], a[2])
    <2>1. sequences' = <<>>
      BY <1>2 DEF SetParam
    <2> QED
      BY <1>1, <2>1 DEF TracksInv, TracksApart
  <1>3. CASE \E s \in Sources, c \in Ids.sequence, d \in Ids.default :
                AppendSequence(s, c, d)
    BY <1>1, <1>3, AppendTrack DEF TracksInv
  <1>4. CASE \E k \in DOMAIN sequences, t \in EntryTimes, c \in Ids.entry :
                \E q \in Ids.sequence \cup {NoId} : AddSequenceEntry(k, q, t, c)
    <2>1. PICK k \in DOMAIN sequences, t \in EntryTimes, c \in Ids.entry :
             \E q \in Ids.sequence \cup {NoId} : AddSequenceEntry(k, q, t, c)
      BY <1>4
    <2>2. PICK q \in Ids.sequence \cup {NoId} : AddSequenceEntry(k, q, t, c)
      BY <2>1
    <2> DEFINE new == WithEntry(sequences[k].entries, NewEntry(t, c))
    <2>3. new \in Seq(EntryType(AllIds))
      BY SequenceTypes, NewEntryType, WithEntryType
    <2>4. sequences' = [sequences EXCEPT ![k].entries = new]
      BY <2>2, AddSequenceEntryType
    <2> HIDE DEF new
    <2>5. sequences \in Seq(SequenceType(AllIds))
      BY DEF ObjTypeOK
    <2>6. /\ sequences' \in Seq(SequenceType(AllIds))
          /\ Len(sequences') = Len(sequences)
          /\ \A j \in DOMAIN sequences :
                sequences'[j] = (IF j = k THEN [sequences[k] EXCEPT !.entries = new]
                                 ELSE sequences[j])
      BY <2>3, <2>4, <2>5, EntriesOfSequence
    <2>7. \A j \in DOMAIN sequences :
             /\ sequences'[j].source = sequences[j].source
             /\ sequences'[j].relative_start_extent = sequences[j].relative_start_extent
      BY <2>6, SequenceTypes DEF SequenceType
    <2>8. prm' = prm /\ relative_end_extent' = relative_end_extent
      BY <2>2 DEF AddSequenceEntry
    <2> QED
      BY <2>6, <2>7, <2>8, TracksKept
  <1>5. CASE UNCHANGED <<prm, sequences, relative_end_extent>>
    BY <1>1, <1>5 DEF TracksInv, TracksApart, SequenceLength
  <1> QED
    BY <1>2, <1>3, <1>4, <1>5
    DEF BuildNext, AppendSegment, AddFile, AppendPbcNode, LookupFails, objVars

LEMMA TracksInit == Init => TracksInv
  BY DEF Init, ObjInit, TracksInv, TracksApart, SequencesAdjoin

\* begin_output and write_image move no track.
LEMMA TracksStep ==
    ASSUME ParamsFirst, ShapeInv, TracksInv, [Next]_vars
    PROVE  TracksInv'
  <1>1. CASE Build
    BY <1>1, BuildTracks DEF Build, ShapeInv
  <1>2. CASE UpdateEntry /\ ~Fails
    BY <1>2, UpdateEntryPlaces, TracksKept DEF ShapeInv
  <1>3. CASE UNCHANGED <<prm, sequences, relative_end_extent>>
    BY <1>3 DEF TracksInv, TracksApart, SequencesAdjoin, SequenceLength, StartOf
  <1>4. Fails => UNCHANGED <<prm, sequences, relative_end_extent>>
    BY DEF Fails, objVars
  <1>5. ASSUME Layout, ~Fails, ~UpdateEntry
        PROVE  UNCHANGED <<prm, sequences, relative_end_extent>>
    <2>1. ASSUME NEW d \in DirBlocks, MakeFilesystem(d)
          PROVE  UNCHANGED <<prm, sequences, relative_end_extent>>
      BY <1>5, <2>1, MakeFilesystemPlaces DEF objVars
    <2> QED
      BY <1>5, <2>1
      DEF Layout, LayoutNext, objVars, ReserveFixed, ReserveSearch, FillToAlignment,
          PlaceSegment, EndSegments, PlaceExt, EndExt, PlaceFile, EndFiles, NextSequence,
          ReturnSize
  <1>6. WriterNext => UNCHANGED <<prm, sequences, relative_end_extent>>
    BY WriterMoves DEF frozen, objVars
  <1>7. (\E answer \in BOOLEAN : WriteImage(answer))
            => UNCHANGED <<prm, sequences, relative_end_extent>>
    BY DEF WriteImage, Return, MoveTo, Fails, frozen, objVars
  <1>8. (\E for_query \in BOOLEAN : StartOutput(for_query)) \/ EndOutput \/ Destroy
        \/ UNCHANGED vars => UNCHANGED <<prm, sequences, relative_end_extent>>
    BY DEF StartOutput, BeginOutput, EndOutput, Destroy, vars, objVars
  <1> QED
    BY <1>1, <1>2, <1>3, <1>4, <1>5, <1>6, <1>7, <1>8 DEF Next


-----------------------------------------------------------------------------
(* What the directory and the descriptors record.                          *)

\* The buffers, the segments, the files and the tracks of a disc that is laid out.
BufferRecord(e) == [kind |-> e.key, no |-> 0, at |-> e.sector, length |-> e.length]

SegmentRecord(k) ==
    [kind |-> "segment", no |-> k, at |-> segments[k].start_extent,
     length |-> segments[k].segment_count * SEGMENT_SECTOR_SIZE]

FileRecord(k) ==
    [kind |-> "file", no |-> k, at |-> files[k].start_extent, length |-> files[k].sectors]

TrackRecord(k) ==
    [kind |-> "track", no |-> k, at |-> TrackStart(k),
     length |-> prm.track_front_margin + sequences[k].source.packets
                  + prm.track_rear_margin]

LEMMA RecordedKinds ==
    ASSUME NEW a \in Recorded
    PROVE  \/ \E e \in dict : a = BufferRecord(e)
           \/ \E k \in DOMAIN segments : a = SegmentRecord(k)
           \/ \E k \in DOMAIN files : a = FileRecord(k)
           \/ \E k \in DOMAIN sequences : a = TrackRecord(k)
  BY DEF Recorded, BufferRecord, SegmentRecord, FileRecord, TrackRecord

\* Two extents that do not overlap: one ends before the other, or one of them is empty.
Apart(a, b) ==
    \/ a.at + a.length <= b.at
    \/ b.at + b.length <= a.at
    \/ a.length = 0
    \/ b.length = 0

LEMMA ApartRecords ==
    ASSUME NEW a, NEW b, a.at \in Nat, a.length \in Nat, b.at \in Nat, b.length \in Nat,
           Apart(a, b)
    PROVE  Extent(a.at, a.length) \cap Extent(b.at, b.length) = {}
  <1>1. CASE a.length = 0
    BY <1>1 DEF Extent
  <1>2. CASE b.length = 0
    BY <1>2 DEF Extent
  <1>3. CASE a.at + a.length <= b.at
    BY <1>3, ApartIsDisjoint
  <1>4. CASE b.at + b.length <= a.at
    BY <1>4, ApartIsDisjoint
  <1> QED
    BY <1>1, <1>2, <1>3, <1>4 DEF Apart

\* Where each of them lies once the disc is laid out.
LEMMA RecordedBorders ==
    ASSUME ShapeInv, PlaceInv, TracksInv, LaidOut, NEW from, NEW ext, NEW to,
           from = mpeg_segment_start_extent, ext = ext_file_start_extent,
           to = custom_file_start_extent
    PROVE  /\ from \in Nat /\ ext \in Nat /\ to \in Nat /\ iso_size \in Nat
           /\ from <= ext /\ ext <= to /\ to <= iso_size
           /\ Disjoint(dict)
           /\ \A e \in dict :
                 /\ e.sector \in Nat /\ e.length \in Nat \ {0}
                 /\ \/ e.sector + e.length <= from
                    \/ ext <= e.sector /\ e.sector + e.length <= to
           /\ \A k \in DOMAIN segments :
                 /\ segments[k].start_extent \in Nat /\ SegmentSize(k) \in Nat
                 /\ from <= segments[k].start_extent
                 /\ segments[k].start_extent + SegmentSize(k) <= ext
                 /\ \A j \in 1 .. k - 1 :
                       segments[j].start_extent + SegmentSize(j) <= segments[k].start_extent
           /\ \A k \in DOMAIN files :
                 /\ files[k].start_extent \in Nat /\ files[k].sectors \in Nat
                 /\ to <= files[k].start_extent
                 /\ files[k].start_extent + files[k].sectors <= iso_size
                 /\ files[k].sectors # 0 =>
                      \A j \in 1 .. k - 1 :
                          files[j].sectors # 0 =>
                              files[j].start_extent + files[j].sectors
                                  <= files[k].start_extent
           /\ \A k \in DOMAIN sequences :
                 /\ TrackStart(k) \in Nat /\ SequenceLength(k) \in Nat
                 /\ iso_size + prm.track_pregap <= TrackStart(k)
                 /\ iso_size <= TrackStart(k)
                 /\ \A j \in 1 .. k - 1 : TrackStart(j) + SequenceLength(j) <= TrackStart(k)
  <1>1. /\ pc \in Started
        /\ pc \notin BeforeSegments /\ pc \notin BeforeExt
        /\ pc \notin BeforeFiles /\ pc \notin BeforeSize
    BY DEF LaidOut, Started, WritePhases, BeforeSegments, BeforeExt, BeforeFiles, BeforeSize
  <1>2. /\ SegmentsFrom = from /\ ExtFrom = ext /\ FilesFrom = to /\ IsoEnd = iso_size
    BY <1>1 DEF SegmentsFrom, ExtFrom, FilesFrom, IsoEnd
  <1>3. /\ from \in Nat /\ ext \in Nat /\ to \in Nat /\ iso_size \in Nat
        /\ from <= ext /\ ext <= to /\ to <= iso_size
    BY <1>1, <1>2, ExtentTypes DEF PlaceInv, Borders
  <1>4. /\ \A k : SegmentPlaced(k)
        /\ \A k : FilePlaced(k)
    BY <1>1 DEF SegmentPlaced, FilePlaced, BeforeExt, BeforeSize
  <1>5. /\ Disjoint(dict)
        /\ \A e \in dict :
              /\ e.sector \in Nat /\ e.length \in Nat \ {0}
              /\ \/ e.sector + e.length <= from
                 \/ ext <= e.sector /\ e.sector + e.length <= to
    BY <1>1, <1>2, BuffersBeforeEnd DEF PlaceInv, BuffersPlaced, BufferInArea
  <1>6. \A k \in DOMAIN segments :
           /\ segments[k].start_extent \in Nat /\ SegmentSize(k) \in Nat
           /\ from <= segments[k].start_extent
           /\ segments[k].start_extent + SegmentSize(k) <= ext
           /\ \A j \in 1 .. k - 1 :
                 segments[j].start_extent + SegmentSize(j) <= segments[k].start_extent
    <2>1. \A k \in DOMAIN segments :
             segments[k].start_extent \in Nat /\ SegmentSize(k) \in Nat
      BY ListLengths, ItemTypes DEF ShapeInv
    <2> QED
      BY <1>1, <1>2, <1>4, <2>1 DEF PlaceInv, SegmentsPlaced, SegmentEnd
  <1>7. \A k \in DOMAIN files :
           /\ files[k].start_extent \in Nat /\ files[k].sectors \in Nat
           /\ to <= files[k].start_extent
           /\ files[k].start_extent + files[k].sectors <= iso_size
           /\ files[k].sectors # 0 =>
                \A j \in 1 .. k - 1 :
                    files[j].sectors # 0 =>
                        files[j].start_extent + files[j].sectors <= files[k].start_extent
    <2>1. \A k \in DOMAIN files : files[k].start_extent \in Nat /\ files[k].sectors \in Nat
      BY ListLengths, ItemTypes DEF ShapeInv
    <2> QED
      BY <1>1, <1>2, <1>4, <2>1 DEF PlaceInv, FilesPlaced, FileEnd
  <1>8. ASSUME NEW k \in DOMAIN sequences
        PROVE  /\ TrackStart(k) \in Nat /\ SequenceLength(k) \in Nat
               /\ iso_size + prm.track_pregap <= TrackStart(k)
               /\ iso_size <= TrackStart(k)
               /\ \A j \in 1 .. k - 1 : TrackStart(j) + SequenceLength(j) <= TrackStart(k)
    <2>1. /\ sequences[k].relative_start_extent \in Nat /\ SequenceLength(k) \in Nat
          /\ prm.track_pregap \in Nat
      BY TrackNumbers, ParamTypes DEF ShapeInv
    <2>2. /\ prm.track_pregap <= sequences[k].relative_start_extent
          /\ \A j \in 1 .. k - 1 :
                sequences[j].relative_start_extent + SequenceLength(j)
                    <= sequences[k].relative_start_extent
      BY DEF TracksInv, TracksApart
    <2>3. TrackStart(k) \in Nat /\ iso_size + prm.track_pregap <= TrackStart(k)
          /\ iso_size <= TrackStart(k)
      BY <1>3, <2>1, <2>2 DEF TrackStart
    <2>4. ASSUME NEW j \in 1 .. k - 1
          PROVE  TrackStart(j) + SequenceLength(j) <= TrackStart(k)
      <3>1. j \in DOMAIN sequences
        BY ListLengths DEF ShapeInv
      <3>2. sequences[j].relative_start_extent \in Nat /\ SequenceLength(j) \in Nat
        BY <3>1, TrackNumbers DEF ShapeInv
      <3> QED
        BY <1>3, <2>1, <2>2, <3>2 DEF TrackStart
    <2> QED
      BY <2>1, <2>3, <2>4
  <1> QED
    BY <1>3, <1>5, <1>6, <1>7, <1>8

\* Two of a kind, or of different kinds, are apart.
LEMMA RecordedApart ==
    ASSUME ShapeInv, PlaceInv, TracksInv, LaidOut
    PROVE  LayoutDisjoint
  <1>1. PICK from, ext, to :
            from = mpeg_segment_start_extent /\ ext = ext_file_start_extent
            /\ to = custom_file_start_extent
    OBVIOUS
  <1>2. /\ from \in Nat /\ ext \in Nat /\ to \in Nat /\ iso_size \in Nat
        /\ from <= ext /\ ext <= to /\ to <= iso_size
        /\ Disjoint(dict)
    BY <1>1, RecordedBorders
  <1>3. ASSUME NEW e \in dict
        PROVE  /\ BufferRecord(e).at \in Nat /\ BufferRecord(e).length \in Nat
               /\ BufferRecord(e).kind # "track"
               /\ SectorsOf(e) = Extent(BufferRecord(e).at, BufferRecord(e).length)
               /\ \/ BufferRecord(e).at + BufferRecord(e).length <= from
                  \/ /\ ext <= BufferRecord(e).at
                     /\ BufferRecord(e).at + BufferRecord(e).length <= to
    <2>1. e \in BufferType
      BY ExtentTypes
    <2> QED
      BY <1>1, <2>1, RecordedBorders DEF BufferRecord, BufferType, BufferKeys, SectorsOf
  <1>4. ASSUME NEW k \in DOMAIN segments
        PROVE  /\ SegmentRecord(k).at \in Nat /\ SegmentRecord(k).length \in Nat
               /\ SegmentRecord(k).kind # "track"
               /\ from <= SegmentRecord(k).at
               /\ SegmentRecord(k).at + SegmentRecord(k).length <= ext
               /\ \A j \in 1 .. k - 1 :
                     SegmentRecord(j).at + SegmentRecord(j).length <= SegmentRecord(k).at
    BY <1>1, RecordedBorders DEF SegmentRecord, SegmentSize
  <1>5. ASSUME NEW k \in DOMAIN files
        PROVE  /\ FileRecord(k).at \in Nat /\ FileRecord(k).length \in Nat
               /\ FileRecord(k).kind # "track"
               /\ to <= FileRecord(k).at
               /\ FileRecord(k).at + FileRecord(k).length <= iso_size
               /\ FileRecord(k).length # 0 =>
                    \A j \in 1 .. k - 1 :
                        FileRecord(j).length # 0 =>
                            FileRecord(j).at + FileRecord(j).length <= FileRecord(k).at
    BY <1>1, RecordedBorders DEF FileRecord
  <1>6. ASSUME NEW k \in DOMAIN sequences
        PROVE  /\ TrackRecord(k).at \in Nat /\ TrackRecord(k).length \in Nat
               /\ TrackRecord(k).kind = "track"
               /\ iso_size <= TrackRecord(k).at
               /\ iso_size + prm.track_pregap <= TrackRecord(k).at
               /\ \A j \in 1 .. k - 1 :
                     TrackRecord(j).at + TrackRecord(j).length <= TrackRecord(k).at
    BY <1>1, RecordedBorders DEF TrackRecord, SequenceLength
  <1>7. /\ DOMAIN segments = 1 .. Len(segments) /\ Len(segments) \in Nat
        /\ DOMAIN files = 1 .. Len(files) /\ Len(files) \in Nat
        /\ DOMAIN sequences = 1 .. Len(sequences) /\ Len(sequences) \in Nat
    BY ListLengths DEF ShapeInv
  <1>8. \A a \in Recorded :
           /\ a.at \in Nat /\ a.length \in Nat
           /\ a.kind # "track" => a.at + a.length <= iso_size
           /\ a.kind = "track" => a.at >= iso_size + prm.track_pregap
    <2>1. \A e \in dict :
             /\ BufferRecord(e).at \in Nat /\ BufferRecord(e).length \in Nat
             /\ BufferRecord(e).kind # "track"
             /\ BufferRecord(e).at + BufferRecord(e).length <= iso_size
      BY <1>2, <1>3
    <2>2. \A k \in DOMAIN segments :
             /\ SegmentRecord(k).at \in Nat /\ SegmentRecord(k).length \in Nat
             /\ SegmentRecord(k).kind # "track"
             /\ SegmentRecord(k).at + SegmentRecord(k).length <= iso_size
      BY <1>2, <1>4
    <2>3. prm.track_pregap \in Nat
      BY ParamTypes DEF ShapeInv
    <2>4. \A k \in DOMAIN sequences :
             /\ TrackRecord(k).at \in Nat /\ TrackRecord(k).length \in Nat
             /\ TrackRecord(k).kind = "track"
             /\ TrackRecord(k).at >= iso_size + prm.track_pregap
      BY <1>2, <1>6, <2>3
    <2> QED
      BY <1>5, <2>1, <2>2, <2>4, RecordedKinds
  <1>9. ASSUME NEW a \in Recorded, NEW b \in Recorded, a # b
        PROVE  Extent(a.at, a.length) \cap Extent(b.at, b.length) = {}
    <2>1. a.at \in Nat /\ a.length \in Nat /\ b.at \in Nat /\ b.length \in Nat
      BY <1>8
    <2>2. ASSUME NEW c \in Recorded, NEW e \in dict, NEW d \in Recorded, c = BufferRecord(e),
                 ~ \E f \in dict : d = BufferRecord(f)
          PROVE  Apart(c, d)
      <3>1. /\ c.at \in Nat /\ c.length \in Nat
            /\ c.at + c.length <= from \/ (ext <= c.at /\ c.at + c.length <= to)
        BY <1>3, <2>2
      <3>2. CASE \E k \in DOMAIN segments : d = SegmentRecord(k)
        BY <1>2, <1>4, <3>1, <3>2 DEF Apart
      <3>3. CASE \E k \in DOMAIN files : d = FileRecord(k)
        BY <1>2, <1>5, <3>1, <3>3 DEF Apart
      <3>4. CASE \E k \in DOMAIN sequences : d = TrackRecord(k)
        BY <1>2, <1>6, <3>1, <3>4 DEF Apart
      <3> QED
        BY <2>2, <3>2, <3>3, <3>4, RecordedKinds
    <2>3. ASSUME NEW c \in Recorded, NEW d \in Recorded, NEW k \in DOMAIN segments,
                 c = SegmentRecord(k),
                 \/ \E j \in DOMAIN segments : d = SegmentRecord(j) /\ j < k
                 \/ \E j \in DOMAIN files : d = FileRecord(j)
                 \/ \E j \in DOMAIN sequences : d = TrackRecord(j)
          PROVE  Apart(c, d) /\ Apart(d, c)
      <3>1. /\ c.at \in Nat /\ c.length \in Nat /\ c.at + c.length <= ext
            /\ \A j \in 1 .. k - 1 :
                  SegmentRecord(j).at + SegmentRecord(j).length <= c.at
        BY <1>4, <2>3
      <3>2. CASE \E j \in DOMAIN segments : d = SegmentRecord(j) /\ j < k
        <4>1. d.at + d.length <= c.at
          BY <1>7, <3>1, <3>2
        <4> QED
          BY <4>1 DEF Apart
      <3>3. CASE \E j \in DOMAIN files : d = FileRecord(j)
        <4>1. c.at + c.length <= d.at
          BY <1>2, <1>5, <3>1, <3>3
        <4> QED
          BY <4>1 DEF Apart
      <3>4. CASE \E j \in DOMAIN sequences : d = TrackRecord(j)
        <4>1. c.at + c.length <= d.at
          BY <1>2, <1>6, <3>1, <3>4
        <4> QED
          BY <4>1 DEF Apart
      <3> QED
        BY <2>3, <3>2, <3>3, <3>4
    <2>4. ASSUME NEW c \in Recorded, NEW d \in Recorded, NEW k \in DOMAIN files,
                 c = FileRecord(k),
                 \/ \E j \in DOMAIN files : d = FileRecord(j) /\ j < k
                 \/ \E j \in DOMAIN sequences : d = TrackRecord(j)
          PROVE  Apart(c, d) /\ Apart(d, c)
      <3>1. /\ c.at \in Nat /\ c.length \in Nat /\ c.at + c.length <= iso_size
            /\ c.length # 0 =>
                 \A j \in 1 .. k - 1 :
                    FileRecord(j).length # 0 =>
                        FileRecord(j).at + FileRecord(j).length <= c.at
        BY <1>5, <2>4
      <3>2. CASE \E j \in DOMAIN files : d = FileRecord(j) /\ j < k
        <4>1. c.length = 0 \/ d.length = 0 \/ d.at + d.length <= c.at
          BY <1>7, <3>1, <3>2
        <4> QED
          BY <4>1 DEF Apart
      <3>3. CASE \E j \in DOMAIN sequences : d = TrackRecord(j)
        <4>1. c.at + c.length <= d.at
          BY <1>2, <1>6, <3>1, <3>3
        <4> QED
          BY <4>1 DEF Apart
      <3> QED
        BY <2>4, <3>2, <3>3
    <2>5. ASSUME NEW c \in Recorded, NEW d \in Recorded, NEW k \in DOMAIN sequences,
                 NEW j \in DOMAIN sequences, c = TrackRecord(k), d = TrackRecord(j), j < k
          PROVE  Apart(c, d) /\ Apart(d, c)
      <3>1. d.at + d.length <= c.at
        BY <1>6, <1>7, <2>5
      <3> QED
        BY <3>1 DEF Apart
    <2>6. Apart(b, a) => Apart(a, b)
      BY DEF Apart
    <2>7. CASE (\E e \in dict : a = BufferRecord(e)) /\ (\E f \in dict : b = BufferRecord(f))
      <3>1. PICK e \in dict, f \in dict : a = BufferRecord(e) /\ b = BufferRecord(f)
        BY <2>7
      <3>2. SectorsOf(e) \cap SectorsOf(f) = {}
        BY <1>2, <1>9, <3>1 DEF Disjoint
      <3> QED
        BY <1>3, <3>1, <3>2
    <2>8. CASE ~((\E e \in dict : a = BufferRecord(e)) /\ (\E f \in dict : b = BufferRecord(f)))
      <3>1. Apart(a, b)
        <4>1. CASE \E e \in dict : a = BufferRecord(e)
          BY <2>2, <2>8, <4>1
        <4>2. CASE \E f \in dict : b = BufferRecord(f)
          BY <2>2, <2>6, <2>8, <4>2
        <4>3. CASE /\ ~ \E e \in dict : a = BufferRecord(e)
                   /\ ~ \E f \in dict : b = BufferRecord(f)
          <5>1. \/ \E k \in DOMAIN segments : a = SegmentRecord(k)
                \/ \E k \in DOMAIN files : a = FileRecord(k)
                \/ \E k \in DOMAIN sequences : a = TrackRecord(k)
            BY <4>3, RecordedKinds
          <5>2. \/ \E k \in DOMAIN segments : b = SegmentRecord(k)
                \/ \E k \in DOMAIN files : b = FileRecord(k)
                \/ \E k \in DOMAIN sequences : b = TrackRecord(k)
            BY <4>3, RecordedKinds
          <5>3. \A k, j \in Nat : k # j => k < j \/ j < k
            OBVIOUS
          <5>4. CASE \E k \in DOMAIN segments : a = SegmentRecord(k)
            <6>1. PICK k \in DOMAIN segments : a = SegmentRecord(k)
              BY <5>4
            <6>2. CASE \E j \in DOMAIN segments : b = SegmentRecord(j)
              <7>1. PICK j \in DOMAIN segments : b = SegmentRecord(j)
                BY <6>2
              <7>2. k < j \/ j < k
                BY <1>7, <1>9, <5>3, <6>1, <7>1
              <7> QED
                BY <2>3, <6>1, <7>1, <7>2
            <6>3. CASE ~ \E j \in DOMAIN segments : b = SegmentRecord(j)
              BY <2>3, <5>2, <6>1, <6>3
            <6> QED
              BY <6>2, <6>3
          <5>5. CASE \E k \in DOMAIN files : a = FileRecord(k)
            <6>1. PICK k \in DOMAIN files : a = FileRecord(k)
              BY <5>5
            <6>2. CASE \E j \in DOMAIN files : b = FileRecord(j)
              <7>1. PICK j \in DOMAIN files : b = FileRecord(j)
                BY <6>2
              <7>2. k < j \/ j < k
                BY <1>7, <1>9, <5>3, <6>1, <7>1
              <7> QED
                BY <2>4, <6>1, <7>1, <7>2
            <6>3. CASE \E j \in DOMAIN segments : b = SegmentRecord(j)
              BY <2>3, <5>5, <6>3
            <6>4. CASE \E j \in DOMAIN sequences : b = TrackRecord(j)
              BY <2>4, <6>1, <6>4
            <6> QED
              BY <5>2, <6>2, <6>3, <6>4
          <5>6. CASE \E k \in DOMAIN sequences : a = TrackRecord(k)
            <6>1. PICK k \in DOMAIN sequences : a = TrackRecord(k)
              BY <5>6
            <6>2. CASE \E j \in DOMAIN sequences : b = TrackRecord(j)
              <7>1. PICK j \in DOMAIN sequences : b = TrackRecord(j)
                BY <6>2
              <7>2. k < j \/ j < k
                BY <1>7, <1>9, <5>3, <6>1, <7>1
              <7> QED
                BY <2>5, <6>1, <7>1, <7>2
            <6>3. CASE \E j \in DOMAIN segments : b = SegmentRecord(j)
              BY <2>3, <5>6, <6>3
            <6>4. CASE \E j \in DOMAIN files : b = FileRecord(j)
              BY <2>4, <5>6, <6>4
            <6> QED
              BY <5>2, <6>2, <6>3, <6>4
          <5> QED
            BY <5>1, <5>4, <5>5, <5>6
        <4> QED
          BY <4>1, <4>2, <4>3
      <3> QED
        BY <2>1, <3>1, ApartRecords
    <2> QED
      BY <2>7, <2>8
  <1> QED
    BY <1>8, <1>9 DEF LayoutDisjoint

\* Of every disc whose parameters are set before its sequences: no two things that the
\* descriptors, the directory and the cue sheet record share a sector, those of the
\* ISO 9660 track end within its size, and the tracks follow it.
THEOREM LayoutDisjointCorrect ==
    ASSUME ParamsFirst
    PROVE  Spec => []LayoutDisjoint
  <1> DEFINE Inv == ShapeInv /\ PlaceInv /\ TracksInv
  <1>1. Init => Inv
    BY ShapeInit, PlaceInit, TracksInit
  <1>2. Inv /\ [Next]_vars => Inv'
    BY ShapeStep, PlaceStep, TracksStep
  <1>3. Inv => LayoutDisjoint
    <2>1. ~LaidOut => LayoutDisjoint
      BY DEF LayoutDisjoint
    <2> QED
      BY <2>1, RecordedApart
  <1> QED
    BY <1>1, <1>2, <1>3, PTL DEF Spec

=============================================================================
