----------------------------- MODULE VcdDiscProofs -----------------------------
(***************************************************************************)
(* The layout of the PSDs, for every size of the descriptors, every input  *)
(* and every order of what authors and readers do: the offsets that the    *)
(* first pass of _vcd_pbc_finalize computes leave room for the descriptors *)
(* that the second one writes.                                             *)
(***************************************************************************)
EXTENDS VcdDisc, CommonProofs, SequenceTheorems

-----------------------------------------------------------------------------
(* One descriptor.                                                         *)

\* The length of a descriptor in whole units still fits into a block.
LEMMA RoundedLengthFits ==
    ASSUME NEW type, NEW pbc, NEW extended,
           NodeLength(type, pbc, extended) \in 1 .. ISO_BLOCKSIZE
    PROVE  /\ RoundedLength(type, pbc, extended) \in 1 .. ISO_BLOCKSIZE
           /\ RoundedLength(type, pbc, extended) % INFO_OFFSET_MULT = 0
  <1> DEFINE len == NodeLength(type, pbc, extended)
             unit == INFO_OFFSET_MULT
             b == ISO_BLOCKSIZE
             up == Ceil2Block(len, unit)
  <1>1. unit \in Nat \ {0} /\ b \in Nat \ {0} /\ b % unit = 0 /\ len \in 1 .. b
    BY PbcAssumption
  <1>2. RoundedLength(type, pbc, extended) = up
    BY DEF RoundedLength
  <1>3. len \in Nat
    BY <1>1
  <1> HIDE DEF len, unit, b
  <1>4. up \in Nat /\ up % unit = 0 /\ up >= len /\ up < len + unit
    BY <1>1, <1>3, Ceil2BlockBounds
  <1> HIDE DEF up
  <1>5. PICK k \in Nat : up = unit * k
    BY <1>1, <1>4, MultipleIff
  <1>6. PICK l \in Nat : b = unit * l
    BY <1>1, MultipleIff
  <1>7. ~(l < k)
    <2> SUFFICES ASSUME l < k PROVE FALSE
      OBVIOUS
    <2>1. k - l - 1 \in Nat
      OBVIOUS
    <2>2. PICK m \in Nat : k = l + 1 + m
      BY <2>1
    <2>3. unit * k = unit * l + unit + unit * m
      BY <2>2, <1>1
    <2>4. unit * m \in Nat
      BY <2>2, <1>1
    <2> QED
      BY <2>3, <2>4, <1>1, <1>3, <1>4, <1>5, <1>6
  <1>8. PICK m \in Nat : l = k + m
    <2>1. l - k \in Nat
      BY <1>7
    <2> QED
      BY <2>1
  <1>9. unit * l = unit * k + unit * m /\ unit * m \in Nat
    BY <1>8, <1>1
  <1>10. up <= b
    BY <1>1, <1>4, <1>5, <1>6, <1>9
  <1> QED
    BY <1>1, <1>2, <1>3, <1>4, <1>10 DEF unit, b, len

\* A turn of the loop of _vcd_pbc_finalize, for one PSD.
LEMMA NextDescriptor ==
    ASSUME NEW type, NEW pbc, NEW extended,
           NodeLength(type, pbc, extended) \in 1 .. ISO_BLOCKSIZE,
           NEW at \in Nat, at % INFO_OFFSET_MULT = 0
    PROVE  LET length == RoundedLength(type, pbc, extended)
               end == OfsAdd(at, length, ISO_BLOCKSIZE)
           IN  /\ length \in Nat
               /\ end \in Nat
               /\ end - length \in Nat
               /\ end - length >= at
               /\ end >= at
               /\ end % INFO_OFFSET_MULT = 0
               /\ (end - length) % INFO_OFFSET_MULT = 0
               /\ (end - length) \div ISO_BLOCKSIZE = (end - 1) \div ISO_BLOCKSIZE
  <1> DEFINE length == RoundedLength(type, pbc, extended)
             end == OfsAdd(at, length, ISO_BLOCKSIZE)
  <1>1. length \in 1 .. ISO_BLOCKSIZE /\ length % INFO_OFFSET_MULT = 0
    BY RoundedLengthFits
  <1>2. /\ ISO_BLOCKSIZE \in Nat \ {0} /\ INFO_OFFSET_MULT \in Nat \ {0}
        /\ ISO_BLOCKSIZE % INFO_OFFSET_MULT = 0
    BY PbcAssumption
  <1> HIDE DEF length
  <1>3. /\ end \in Nat
        /\ end >= at + length
        /\ end - length \in Nat
        /\ (end - length) \div ISO_BLOCKSIZE = (end - 1) \div ISO_BLOCKSIZE
    BY <1>1, <1>2, OfsAddFits
  <1>4. (end - length) % INFO_OFFSET_MULT = 0 /\ end % INFO_OFFSET_MULT = 0
    BY <1>1, <1>2, OfsAddAligned
  <1>5. length \in Nat
    BY <1>1, <1>2
  <1> HIDE DEF end
  <1>6. end - length >= at /\ end >= at
    BY <1>3, <1>5
  <1> QED
    BY <1>3, <1>4, <1>5, <1>6 DEF length, end

-----------------------------------------------------------------------------
(* The PSDs.                                                               *)

\* One of the PSDs, as far as it is laid out.
PsdLaidOut(extended) ==
    /\ PsdEnd(extended) \in Nat
    /\ PsdEnd(extended) % INFO_OFFSET_MULT = 0
    /\ \A k \in DOMAIN computed :
          /\ Start(k, extended) \in Nat
          /\ Start(k, extended) % INFO_OFFSET_MULT = 0
          /\ Start(k, extended) \div ISO_BLOCKSIZE = (EndOf(k, extended) - 1) \div ISO_BLOCKSIZE
          /\ \A j \in 1 .. k - 1 : EndOf(j, extended) <= Start(k, extended)
          /\ EndOf(k, extended) \in Nat
          /\ EndOf(k, extended) <= PsdEnd(extended)

\* The inductive invariant: the end of a PSD is where the next descriptor may begin.
LayoutInv ==
    /\ \E S : computed \in Seq(S)
    /\ pc = "author" => computed = <<>> /\ psd_end = [normal |-> 0, extended |-> 0]
    /\ ListsFit => \A extended \in Psds : PsdLaidOut(extended)

layoutVars == <<input, pbc_list, computed, psd_end>>

\* Of a disc that is begun nothing is laid out.
LEMMA LayoutInit == Init => LayoutInv
  <1> SUFFICES ASSUME Init PROVE LayoutInv
    OBVIOUS
  <1>1. computed = <<>> /\ psd_end = [normal |-> 0, extended |-> 0]
    BY DEF Init
  <1>2. \E S : computed \in Seq(S)
    BY <1>1
  <1>3. ASSUME NEW extended \in Psds PROVE PsdLaidOut(extended)
    BY <1>1, PbcAssumption DEF PsdLaidOut, PsdEnd
  <1> QED
    BY <1>1, <1>2, <1>3 DEF LayoutInv

\* A step after which nothing is laid out.
LEMMA NothingLaidOut ==
    ASSUME computed' = <<>>, psd_end' = [normal |-> 0, extended |-> 0]
    PROVE  LayoutInv'
  <1>1. \E S : computed' \in Seq(S)
    OBVIOUS
  <1>2. ASSUME NEW extended \in Psds' PROVE PsdLaidOut(extended)'
    BY PbcAssumption DEF PsdLaidOut, PsdEnd
  <1> QED
    BY <1>1, <1>2 DEF LayoutInv

\* A step that neither lays out nor begins again.
LEMMA LayoutKept ==
    ASSUME LayoutInv, UNCHANGED layoutVars, pc' = "author" => pc = "author"
    PROVE  LayoutInv'
  <1>1. Type' = Type /\ Psds' = Psds
    BY DEF Type, Psds, layoutVars
  <1>2. ListsFit' = ListsFit
    BY DEF ListsFit, Type, layoutVars
  <1>3. ASSUME NEW extended, PsdLaidOut(extended) PROVE PsdLaidOut(extended)'
    BY <1>3 DEF PsdLaidOut, PsdEnd, Start, EndOf, Type, layoutVars
  <1>4. UNCHANGED <<computed, psd_end>>
    BY DEF layoutVars
  <1> QED
    BY <1>1, <1>2, <1>3, <1>4 DEF LayoutInv

\* A turn of the loop of _vcd_pbc_finalize.
LEMMA LayoutGrows ==
    ASSUME LayoutInv, FinalizeNode PROVE LayoutInv'
  <1>1. PICK S : computed \in Seq(S)
    BY DEF LayoutInv
  <1>2. PICK m \in Nat \ {0} : m = Len(computed) + 1 /\ DOMAIN computed = 1 .. m - 1
    <2>1. Len(computed) + 1 \in Nat \ {0}
      BY <1>1
    <2> QED
      BY <1>1, <2>1
  <1> DEFINE pbc == pbc_list[m]
             node == computed'[m]
  <1>3. /\ computed' = Append(computed, node)
        /\ node.offset = psd_end'.normal - RoundedLength(Type, pbc, FALSE)
        /\ HasPbcX(Type) => node.offset_ext = psd_end'.extended - RoundedLength(Type, pbc, TRUE)
        /\ psd_end'.normal = OfsAdd(psd_end.normal, RoundedLength(Type, pbc, FALSE), ISO_BLOCKSIZE)
        /\ HasPbcX(Type) =>
              psd_end'.extended = OfsAdd(psd_end.extended, RoundedLength(Type, pbc, TRUE), ISO_BLOCKSIZE)
    <2> DEFINE length == RoundedLength(Type, pbc, FALSE)
               end == OfsAdd(psd_end.normal, length, ISO_BLOCKSIZE)
               end_ext == OfsAdd(psd_end.extended, LengthExt(pbc), ISO_BLOCKSIZE)
               rec == [lid |-> m, offset |-> end - length,
                       offset_ext |-> IF HasPbcX(Type) THEN end_ext - LengthExt(pbc) ELSE 0]
    <2>1. /\ psd_end' = [normal |-> end, extended |-> IF HasPbcX(Type) THEN end_ext ELSE 0]
          /\ computed' = Append(computed, rec)
      BY <1>2 DEF FinalizeNode
    <2>2. /\ rec.offset = end - length
          /\ HasPbcX(Type) => rec.offset_ext = end_ext - RoundedLength(Type, pbc, TRUE)
          /\ HasPbcX(Type) => end_ext = OfsAdd(psd_end.extended, RoundedLength(Type, pbc, TRUE), ISO_BLOCKSIZE)
      BY DEF LengthExt
    <2>3. psd_end'.normal = end /\ (HasPbcX(Type) => psd_end'.extended = end_ext)
      BY <2>1
    <2> HIDE DEF rec
    <2>4. node = rec
      BY <1>1, <1>2, <2>1
    <2> HIDE DEF node
    <2> QED
      BY <2>1, <2>2, <2>3, <2>4
  <1>4. \E T : computed' \in Seq(T)
    <2>1. node \in S \cup {node} /\ computed \in Seq(S \cup {node})
      BY <1>1
    <2> HIDE DEF node
    <2>2. computed' \in Seq(S \cup {node})
      BY <1>3, <2>1
    <2> QED
      BY <2>2
  <1>5. /\ DOMAIN computed' = 1 .. m
        /\ \A k \in 1 .. m - 1 : computed'[k] = computed[k]
    BY <1>1, <1>2, <1>3
  <1>6. pc # "author" /\ pc' = pc /\ pbc_list' = pbc_list /\ Type' = Type
    BY DEF FinalizeNode, Type
  <1>7. ASSUME ListsFit', NEW extended \in Psds' PROVE PsdLaidOut(extended)'
    <2>1. /\ \A k \in 1 .. m : \A x \in BOOLEAN : NodeLength(Type, pbc_list[k], x) \in 1 .. ISO_BLOCKSIZE
          /\ extended \in Psds
      BY <1>5, <1>6, <1>7 DEF ListsFit, Psds
    <2>2. ListsFit
      BY <1>2, <2>1 DEF ListsFit
    <2>3. PsdLaidOut(extended)
      BY <2>1, <2>2 DEF LayoutInv
    <2> DEFINE length == RoundedLength(Type, pbc, extended)
               at == PsdEnd(extended)
               end == PsdEnd(extended)'
    <2>4. /\ end = OfsAdd(at, length, ISO_BLOCKSIZE)
          /\ Start(m, extended)' = end - length
          /\ EndOf(m, extended)' = (end - length) + length
      <3>1. extended \in BOOLEAN /\ (extended => HasPbcX(Type))
        BY <2>1 DEF Psds
      <3>2. CASE extended
        BY <1>3, <1>6, <3>1, <3>2 DEF PsdEnd, Start, EndOf
      <3>3. CASE ~extended
        BY <1>3, <1>6, <3>1, <3>3 DEF PsdEnd, Start, EndOf
      <3> QED
        BY <3>2, <3>3
    <2>5. /\ at \in Nat
          /\ at % INFO_OFFSET_MULT = 0
          /\ NodeLength(Type, pbc, extended) \in 1 .. ISO_BLOCKSIZE
      BY <1>2, <2>1, <2>3 DEF PsdLaidOut, Psds
    <2> HIDE DEF pbc, at
    <2>6. /\ length \in Nat
          /\ end \in Nat
          /\ end - length \in Nat
          /\ end - length >= at
          /\ end >= at
          /\ end % INFO_OFFSET_MULT = 0
          /\ (end - length) % INFO_OFFSET_MULT = 0
          /\ (end - length) \div ISO_BLOCKSIZE = (end - 1) \div ISO_BLOCKSIZE
      BY <2>4, <2>5, NextDescriptor
    <2> HIDE DEF length, end
    <2>7. EndOf(m, extended)' = end
      BY <2>4, <2>6
    <2>8. ASSUME NEW k \in 1 .. m - 1
          PROVE  Start(k, extended)' = Start(k, extended) /\ EndOf(k, extended)' = EndOf(k, extended)
      BY <1>5, <1>6 DEF Start, EndOf
    <2>9. ASSUME NEW k \in 1 .. m
          PROVE  /\ Start(k, extended)' \in Nat
                 /\ Start(k, extended)' % INFO_OFFSET_MULT = 0
                 /\ Start(k, extended)' \div ISO_BLOCKSIZE = (EndOf(k, extended)' - 1) \div ISO_BLOCKSIZE
                 /\ \A j \in 1 .. k - 1 : EndOf(j, extended)' <= Start(k, extended)'
                 /\ EndOf(k, extended)' \in Nat
                 /\ EndOf(k, extended)' <= end
      <3>1. \A j \in 1 .. m - 1 : EndOf(j, extended) \in Nat /\ EndOf(j, extended) <= at
        BY <1>2, <2>3 DEF PsdLaidOut, at
      <3>2. CASE k = m
        <4>1. \A j \in 1 .. m - 1 : EndOf(j, extended)' <= end - length
          BY <2>5, <2>6, <2>8, <3>1
        <4> QED
          BY <2>4, <2>6, <2>7, <3>2, <4>1
      <3>3. CASE k # m
        <4>1. k \in 1 .. m - 1 /\ \A j \in 1 .. k - 1 : j \in 1 .. m - 1
          BY <1>2, <3>3
        <4>2. /\ Start(k, extended) \in Nat
              /\ Start(k, extended) % INFO_OFFSET_MULT = 0
              /\ Start(k, extended) \div ISO_BLOCKSIZE = (EndOf(k, extended) - 1) \div ISO_BLOCKSIZE
              /\ \A j \in 1 .. k - 1 : EndOf(j, extended) <= Start(k, extended)
          BY <1>2, <2>3, <4>1 DEF PsdLaidOut
        <4>3. EndOf(k, extended) <= end
          BY <2>5, <2>6, <3>1, <4>1
        <4> QED
          BY <2>8, <3>1, <4>1, <4>2, <4>3
      <3> QED
        BY <3>2, <3>3
    <2>10. PsdEnd(extended)' \in Nat /\ PsdEnd(extended)' % INFO_OFFSET_MULT = 0
      BY <2>6 DEF end
    <2> QED
      BY <1>5, <2>9, <2>10 DEF PsdLaidOut, end
  <1> QED
    BY <1>4, <1>6, <1>7 DEF LayoutInv

\* Whatever the author or a reader does next.
LEMMA LayoutStep == LayoutInv /\ [Next]_vars => LayoutInv'
  <1> SUFFICES ASSUME LayoutInv, [Next]_vars PROVE LayoutInv'
    OBVIOUS
  <1>1. CASE AppendPbcNode
    <2>1. computed = <<>> /\ psd_end = [normal |-> 0, extended |-> 0]
      BY <1>1 DEF AppendPbcNode, LayoutInv
    <2>2. computed' = <<>> /\ psd_end' = [normal |-> 0, extended |-> 0]
      BY <1>1, <2>1 DEF AppendPbcNode
    <2> QED
      BY <2>2, NothingLaidOut
  <1>2. CASE FinalizeNode
    BY <1>2, LayoutGrows
  <1>3. CASE BuildAgain
    <2>1. CASE computed' = <<>> /\ psd_end' = [normal |-> 0, extended |-> 0]
      BY <2>1, NothingLaidOut
    <2>2. CASE UNCHANGED writerVars /\ pc' = "refused"
      BY <2>2, LayoutKept DEF writerVars, layoutVars
    <2> QED
      BY <1>3, <2>1, <2>2 DEF BuildAgain
  <1>4. CASE AppendItems
    BY <1>4, LayoutKept DEF AppendItems, layoutVars
  <1>5. CASE WriteFiles
    BY <1>5, LayoutKept DEF WriteFiles, layoutVars
  <1>6. CASE OpenDisc
    BY <1>6, LayoutKept DEF OpenDisc, writerVars, layoutVars
  <1>7. CASE \E extended \in BOOLEAN : VisitLot(extended)
    BY <1>7, LayoutKept DEF VisitLot, Begin, writerVars, layoutVars
  <1>8. CASE \E no_ext_psd \in BOOLEAN : ParsePbc(no_ext_psd)
    BY <1>8, LayoutKept DEF ParsePbc, Begin, writerVars, layoutVars
  <1>9. CASE NextSlot
    BY <1>9, LayoutKept DEF NextSlot, writerVars, layoutVars
  <1>10. CASE VisitNext
    BY <1>10, LayoutKept DEF VisitNext, writerVars, layoutVars
  <1>11. CASE EndVisit
    BY <1>11, LayoutKept DEF EndVisit, writerVars, layoutVars
  <1>12. CASE EndRip
    BY <1>12, LayoutKept DEF EndRip, Described, writerVars, layoutVars
  <1>13. CASE RipItems
    BY <1>13, LayoutKept DEF RipItems, Described, writerVars, layoutVars
  <1>14. CASE UNCHANGED vars
    BY <1>14, LayoutKept DEF vars, writerVars, layoutVars
  <1> QED
    BY <1>1, <1>2, <1>3, <1>4, <1>5, <1>6, <1>7, <1>8, <1>9, <1>10, <1>11, <1>12, <1>13, <1>14 DEF Next

\* The layout so far is what is claimed of it.
LEMMA LayoutImplies == LayoutInv => DescriptorsApart
  BY DEF LayoutInv, PsdLaidOut, DescriptorsApart

\* Whatever lists authors make, as long as none is longer than a block: the descriptors of
\* both PSDs are in whole units, in one block each, apart from each other, and within the
\* size that INFO gives; on every disc, and on the one that is built of what was ripped.
THEOREM DescriptorsApartCorrect == Spec => []DescriptorsApart
  BY LayoutInit, LayoutStep, LayoutImplies, PTL DEF Spec
=============================================================================
