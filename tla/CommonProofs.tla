----------------------------- MODULE CommonProofs -----------------------------
(***************************************************************************)
(* What the proofs of several components rest on: induction, sequences     *)
(* put one behind the other, and what the arithmetic of util.h promises to *)
(* those who lay things out in blocks.                                     *)
(***************************************************************************)
EXTENDS Blocks, Integers, SequencesExt, SequenceTheorems, WellFoundedInduction, TLAPS

-----------------------------------------------------------------------------
(* Induction.                                                              *)

\* Every set of naturals that is not empty has a least member.
LEMMA LeastNat ==
    ASSUME NEW T, T \subseteq Nat, T # {}
    PROVE  \E x \in T : \A y \in T : x <= y
  <1> DEFINE R == OpToRel(<, Nat)
  <1>1. IsWellFoundedOn(R, Nat)
    BY NatLessThanWellFounded DEF OpToRel
  <1>2. ASSUME NEW x \in Nat, NEW y \in Nat, x < y PROVE <<x, y>> \in R
    BY <1>2 DEF OpToRel
  <1> HIDE DEF R
  <1>3. PICK x \in T : \A y \in T : ~(<<y, x>> \in R)
    BY <1>1, WFMin
  <1>4. ASSUME NEW y \in T PROVE x <= y
    <2>1. ~(y < x)
      BY <1>2, <1>3
    <2> QED
      BY <2>1
  <1> QED
    BY <1>4

\* Induction, for a set: the provers cannot be given a property.
LEMMA NatSetInduction ==
    ASSUME NEW S, 0 \in S, \A n \in Nat : n \in S => n + 1 \in S
    PROVE  Nat \subseteq S
  <1> SUFFICES ASSUME Nat \ S # {} PROVE FALSE
    OBVIOUS
  <1>1. PICK x \in Nat \ S : \A y \in Nat \ S : x <= y
    BY LeastNat
  <1>2. x # 0
    BY <1>1
  <1>3. x - 1 \in Nat /\ ~(x <= x - 1)
    BY <1>2
  <1>4. x - 1 \in S
    BY <1>1, <1>3
  <1>5. x - 1 + 1 = x
    OBVIOUS
  <1> QED
    BY <1>3, <1>4, <1>5

-----------------------------------------------------------------------------
(* Folds: FoldLeft computes with a function on the sets of places.         *)

\* A set of places that is not empty has a last one.
LEMMA LastPlace ==
    ASSUME NEW n \in Nat, NEW s \in SUBSET (1 .. n), s # {}
    PROVE  Max(s) \in s /\ \A y \in s : Max(s) >= y
  <1> DEFINE T == {k \in Nat : n - k \in s}
  <1>1. PICK y \in s : TRUE
    OBVIOUS
  <1>2. n - y \in Nat /\ n - (n - y) = y
    BY <1>1
  <1>3. n - y \in T
    BY <1>1, <1>2
  <1>4. PICK k \in T : \A j \in T : k <= j
    BY <1>3, LeastNat
  <1>5. k \in Nat /\ n - k \in s
    BY <1>4
  <1>6. ASSUME NEW x \in s PROVE n - k >= x
    <2>1. n - x \in Nat /\ n - (n - x) = x
      OBVIOUS
    <2>2. n - x \in T
      BY <2>1
    <2>3. k <= n - x
      BY <1>4, <2>2
    <2> QED
      BY <1>5, <2>1, <2>3
  <1>7. \E x \in s : \A z \in s : x >= z
    BY <1>5, <1>6
  <1> QED
    BY <1>7 DEF Max

\* The last of the first places, and those before it.
LEMMA FirstPlaces ==
    ASSUME NEW n \in Nat, NEW k \in Nat, k + 1 <= n
    PROVE  /\ 1 .. k \in SUBSET (1 .. n)
           /\ 1 .. k + 1 \in SUBSET (1 .. n)
           /\ 1 .. k + 1 # {}
           /\ Max(1 .. k + 1) = k + 1
           /\ (1 .. k + 1) \ {Max(1 .. k + 1)} = 1 .. k
  <1>1. 1 .. k \in SUBSET (1 .. n) /\ 1 .. k + 1 \in SUBSET (1 .. n)
    OBVIOUS
  <1>2. k + 1 \in 1 .. k + 1
    OBVIOUS
  <1>3. Max(1 .. k + 1) \in 1 .. k + 1 /\ Max(1 .. k + 1) >= k + 1
    BY <1>1, <1>2, LastPlace
  <1>4. Max(1 .. k + 1) = k + 1
    BY <1>3
  <1>5. (1 .. k + 1) \ {k + 1} = 1 .. k
    OBVIOUS
  <1> QED
    BY <1>1, <1>2, <1>4, <1>5

\* The function it computes with, where step[k] is what element k does.
Folds(iter, base, step, n) ==
    \A s \in SUBSET (1 .. n) :
        iter[s] = IF s = {} THEN base ELSE step[Max(s)][iter[s \ {Max(s)}]]

HasFold(G, base, step, n) ==
    \E iter \in [SUBSET (1 .. n) -> G] : Folds(iter, base, step, n)

\* It exists.
LEMMA FoldExists ==
    ASSUME NEW G, NEW base \in G, NEW n \in Nat, NEW step \in [1 .. n -> [G -> G]]
    PROVE  HasFold(G, base, step, n)
  <1> DEFINE T == {k \in Nat : k <= n => HasFold(G, base, step, k)}
  <1>1. 0 \in T
    <2> DEFINE iter == [s \in SUBSET (1 .. 0) |-> base]
    <2>1. \A s \in SUBSET (1 .. 0) : s = {}
      OBVIOUS
    <2>2. iter \in [SUBSET (1 .. 0) -> G] /\ Folds(iter, base, step, 0)
      BY <2>1 DEF Folds
    <2> QED
      BY <2>2 DEF HasFold
  <1>2. ASSUME NEW k \in Nat, k \in T PROVE k + 1 \in T
    <2> SUFFICES ASSUME k + 1 <= n PROVE HasFold(G, base, step, k + 1)
      OBVIOUS
    <2>7. HasFold(G, base, step, k)
      BY <1>2
    <2> HIDE DEF T
    <2>1. PICK iter \in [SUBSET (1 .. k) -> G] : Folds(iter, base, step, k)
      BY <2>7 DEF HasFold
    <2> DEFINE next == [s \in SUBSET (1 .. k + 1) |->
                          IF k + 1 \in s THEN step[k + 1][iter[s \ {k + 1}]] ELSE iter[s]]
    <2>2. k + 1 \in 1 .. n
      OBVIOUS
    <2>3. step[k + 1] \in [G -> G]
      BY <2>2
    <2>4. next \in [SUBSET (1 .. k + 1) -> G]
      <3>1. ASSUME NEW s \in SUBSET (1 .. k + 1), k + 1 \in s PROVE iter[s \ {k + 1}] \in G
        <4>1. s \ {k + 1} \in SUBSET (1 .. k)
          OBVIOUS
        <4> QED
          BY <2>1, <4>1
      <3>2. ASSUME NEW s \in SUBSET (1 .. k + 1), k + 1 \notin s PROVE iter[s] \in G
        <4>1. s \in SUBSET (1 .. k)
          BY <3>2
        <4> QED
          BY <2>1, <4>1
      <3> QED
        BY <2>3, <3>1, <3>2
    <2>5. ASSUME NEW s \in SUBSET (1 .. k + 1)
          PROVE  next[s] = IF s = {} THEN base ELSE step[Max(s)][next[s \ {Max(s)}]]
      <3>1. CASE k + 1 \in s
        <4>1. k + 1 \in Nat
          OBVIOUS
        <4>2. Max(s) \in 1 .. k + 1 /\ Max(s) >= k + 1
          BY <3>1, <4>1, LastPlace
        <4>3. Max(s) = k + 1
          BY <4>2
        <4>4. s \ {k + 1} \in SUBSET (1 .. k + 1) /\ k + 1 \notin s \ {k + 1}
          OBVIOUS
        <4>5. next[s \ {k + 1}] = iter[s \ {k + 1}]
          BY <4>4
        <4>6. next[s] = step[k + 1][iter[s \ {k + 1}]]
          BY <3>1
        <4> HIDE DEF next
        <4> QED
          BY <3>1, <4>3, <4>5, <4>6
      <3>2. CASE k + 1 \notin s
        <4>1. s \in SUBSET (1 .. k)
          BY <3>2
        <4>2. iter[s] = IF s = {} THEN base ELSE step[Max(s)][iter[s \ {Max(s)}]]
          BY <2>1, <4>1 DEF Folds
        <4>3. next[s] = iter[s]
          BY <3>2
        <4>4. s \ {Max(s)} \in SUBSET (1 .. k + 1) /\ k + 1 \notin s \ {Max(s)}
          BY <3>2
        <4>5. next[s \ {Max(s)}] = iter[s \ {Max(s)}]
          BY <4>4
        <4> HIDE DEF next
        <4> QED
          BY <4>2, <4>3, <4>5
      <3> QED
        BY <3>1, <3>2
    <2> HIDE DEF next
    <2>6. Folds(next, base, step, k + 1)
      BY <2>5 DEF Folds
    <2> QED
      BY <2>4, <2>6 DEF HasFold
  <1> HIDE DEF T
  <1>3. n \in T
    BY <1>1, <1>2, NatSetInduction
  <1> QED
    BY <1>3 DEF T

-----------------------------------------------------------------------------
(* Sequences one behind the other.                                         *)

\* The elements of flat are in the order of the sequences, none of which is empty.
InRows(flat, seqs, m, row, col) ==
    /\ m > 0 => /\ Len(flat) > 0
                /\ row[1] = 1
                /\ col[1] = 1
                /\ row[Len(flat)] = m
                /\ col[Len(flat)] = Len(seqs[m])
    /\ \A n \in 1 .. Len(flat) - 1 :
          IF col[n] < Len(seqs[row[n]])
          THEN row[n + 1] = row[n] /\ col[n + 1] = col[n] + 1
          ELSE row[n + 1] = row[n] + 1 /\ col[n + 1] = 1

\* flat holds what the first m sequences of seqs hold: row and col say where each
\* element of flat is from.
Flat(flat, seqs, m, row, col) ==
    /\ row \in [1 .. Len(flat) -> Nat]
    /\ col \in [1 .. Len(flat) -> Nat]
    /\ \A n \in 1 .. Len(flat) :
          /\ row[n] \in 1 .. m
          /\ col[n] \in DOMAIN seqs[row[n]]
          /\ flat[n] = seqs[row[n]][col[n]]
    /\ \A k \in 1 .. m : \A e \in DOMAIN seqs[k] :
          \E n \in 1 .. Len(flat) : row[n] = k /\ col[n] = e
    /\ \A j, n \in 1 .. Len(flat) : row[j] = row[n] /\ col[j] = col[n] => j = n
    /\ (\A k \in 1 .. m : seqs[k] # <<>>) => InRows(flat, seqs, m, row, col)

\* A sequence more at the end.
LEMMA FlatStep ==
    ASSUME NEW S, NEW seqs \in Seq(Seq(S)), NEW m \in Nat, m < Len(seqs),
           NEW flat \in Seq(S), \E row, col : Flat(flat, seqs, m, row, col)
    PROVE  /\ flat \o seqs[m + 1] \in Seq(S)
           /\ \E row, col : Flat(flat \o seqs[m + 1], seqs, m + 1, row, col)
  <1> DEFINE next == seqs[m + 1]
             both == flat \o next
             l == Len(flat)
  <1>1. PICK row, col : Flat(flat, seqs, m, row, col)
    OBVIOUS
  <1>2. next \in Seq(S)
    BY ElementOfSeq, LenProperties
  <1>3. l \in Nat /\ Len(next) \in Nat /\ DOMAIN next = 1 .. Len(next)
    BY <1>2, LenProperties
  <1> HIDE DEF next
  <1>4. /\ both \in Seq(S)
        /\ Len(both) = l + Len(next)
        /\ \A n \in 1 .. l + Len(next) :
              both[n] = IF n <= l THEN flat[n] ELSE next[n - l]
    BY <1>2, ConcatProperties
  <1> HIDE DEF both, l
  <1> DEFINE row2 == [n \in 1 .. Len(both) |-> IF n <= l THEN row[n] ELSE m + 1]
             col2 == [n \in 1 .. Len(both) |-> IF n <= l THEN col[n] ELSE n - l]
  <1>5. /\ row \in [1 .. l -> Nat]
        /\ col \in [1 .. l -> Nat]
        /\ \A n \in 1 .. l :
              /\ row[n] \in 1 .. m
              /\ col[n] \in DOMAIN seqs[row[n]]
              /\ flat[n] = seqs[row[n]][col[n]]
        /\ \A k \in 1 .. m : \A e \in DOMAIN seqs[k] :
              \E n \in 1 .. l : row[n] = k /\ col[n] = e
        /\ \A j, n \in 1 .. l : row[j] = row[n] /\ col[j] = col[n] => j = n
    BY <1>1 DEF Flat, l
  <1>6. row2 \in [1 .. Len(both) -> Nat] /\ col2 \in [1 .. Len(both) -> Nat]
    BY <1>3, <1>4, <1>5
  <1>11. \A n \in 1 .. Len(both) :
            /\ row2[n] = IF n <= l THEN row[n] ELSE m + 1
            /\ col2[n] = IF n <= l THEN col[n] ELSE n - l
    OBVIOUS
  <1> HIDE DEF row2, col2
  <1>7. ASSUME NEW n \in 1 .. Len(both)
        PROVE  /\ row2[n] \in 1 .. m + 1
               /\ col2[n] \in DOMAIN seqs[row2[n]]
               /\ both[n] = seqs[row2[n]][col2[n]]
    <2>1. CASE n <= l
      <3>1. n \in 1 .. l /\ row2[n] = row[n] /\ col2[n] = col[n] /\ both[n] = flat[n]
        BY <1>3, <1>4, <1>11, <2>1
      <3> QED
        BY <1>5, <3>1
    <2>2. CASE n > l
      <3>1. row2[n] = m + 1 /\ col2[n] = n - l /\ both[n] = next[n - l]
        BY <1>3, <1>4, <1>11, <2>2
      <3>2. n - l \in DOMAIN next
        BY <1>3, <1>4, <2>2
      <3> QED
        BY <3>1, <3>2 DEF next
    <2> QED
      BY <1>3, <2>1, <2>2
  <1>8. ASSUME NEW k \in 1 .. m + 1, NEW e \in DOMAIN seqs[k]
        PROVE  \E n \in 1 .. Len(both) : row2[n] = k /\ col2[n] = e
    <2>1. CASE k <= m
      <3>1. PICK n \in 1 .. l : row[n] = k /\ col[n] = e
        BY <1>5, <2>1
      <3>2. n \in 1 .. Len(both) /\ n <= l
        BY <1>3, <1>4
      <3> QED
        BY <1>11, <3>1, <3>2
    <2>2. CASE k = m + 1
      <3>1. e \in 1 .. Len(next)
        BY <1>3, <2>2 DEF next
      <3>14. l \in Nat /\ Len(next) \in Nat /\ Len(both) = l + Len(next)
        BY <1>3, <1>4
      <3>15. e \in Nat /\ e >= 1 /\ e <= Len(next)
        BY <3>1, <3>14
      <3> HIDE DEF l, both, next
      <3>2. l + e \in 1 .. Len(both) /\ ~(l + e <= l) /\ l + e - l = e
        BY <3>14, <3>15
      <3>3. PICK n \in 1 .. Len(both) : n = l + e
        BY <3>2
      <3>5. ~(n <= l) /\ n - l = e
        BY <1>3, <3>1, <3>2, <3>3
      <3>4. row2[n] = k /\ col2[n] = e
        BY <1>11, <2>2, <3>5
      <3> QED
        BY <3>4
    <2>3. k <= m \/ k = m + 1
      OBVIOUS
    <2> QED
      BY <2>1, <2>2, <2>3
  <1>9. ASSUME NEW j \in 1 .. Len(both), NEW n \in 1 .. Len(both),
               row2[j] = row2[n], col2[j] = col2[n]
        PROVE  j = n
    <2>1. j \in Nat /\ n \in Nat
      BY <1>3, <1>4
    <2>2. CASE j <= l /\ n <= l
      <3>1. j \in 1 .. l /\ n \in 1 .. l
        BY <2>1, <2>2
      <3>2. row[j] = row[n] /\ col[j] = col[n]
        BY <1>9, <1>11, <2>2
      <3> QED
        BY <1>5, <3>1, <3>2
    <2>3. CASE ~(j <= l) /\ ~(n <= l)
      <3>1. j - l = n - l
        BY <1>9, <1>11, <2>3
      <3> QED
        BY <1>3, <2>1, <3>1
    <2>4. CASE j <= l /\ ~(n <= l)
      <3>1. row[j] = m + 1 /\ j \in 1 .. l
        BY <1>9, <1>11, <2>1, <2>4
      <3> QED
        BY <1>5, <3>1
    <2>5. CASE ~(j <= l) /\ n <= l
      <3>1. row[n] = m + 1 /\ n \in 1 .. l
        BY <1>9, <1>11, <2>1, <2>5
      <3> QED
        BY <1>5, <3>1
    <2> QED
      BY <2>2, <2>3, <2>4, <2>5
  <1>12. ASSUME \A k \in 1 .. m + 1 : seqs[k] # <<>>
         PROVE  InRows(both, seqs, m + 1, row2, col2)
    <2>1. InRows(flat, seqs, m, row, col)
      BY <1>1, <1>12 DEF Flat
    <2>2. Len(next) > 0
      <3>1. next # <<>>
        BY <1>12 DEF next
      <3> QED
        BY <1>2, <3>1, EmptySeq
    <2>3. m = 0 => l = 0
      <3>1. l > 0 => 1 \in 1 .. l
        BY <1>3
      <3>2. l > 0 => row[1] \in 1 .. m
        BY <1>5, <3>1
      <3> QED
        BY <1>3, <3>2
    <2>4. m > 0 => /\ l > 0
                   /\ row[1] = 1
                   /\ col[1] = 1
                   /\ row[l] = m
                   /\ col[l] = Len(seqs[m])
      BY <2>1 DEF InRows, l
    <2>5. \A n \in 1 .. l - 1 :
             IF col[n] < Len(seqs[row[n]])
             THEN row[n + 1] = row[n] /\ col[n + 1] = col[n] + 1
             ELSE row[n + 1] = row[n] + 1 /\ col[n + 1] = 1
      BY <2>1 DEF InRows, l
    <2> DEFINE L == Len(both)
               N == Len(next)
    <2>6. L = l + N /\ l \in Nat /\ N \in Nat /\ N > 0 /\ L \in 1 .. L /\ 1 \in 1 .. L
      BY <1>3, <1>4, <2>2
    <2>7. \A n \in 1 .. L :
             /\ row2[n] = IF n <= l THEN row[n] ELSE m + 1
             /\ col2[n] = IF n <= l THEN col[n] ELSE n - l
      BY <1>11
    <2>8. N = Len(seqs[m + 1])
      BY DEF next
    <2> HIDE DEF L, N, l, next, both
    <2>9. row2[1] = 1 /\ col2[1] = 1
      <3>1. CASE m = 0
        BY <2>3, <2>6, <2>7, <3>1
      <3>2. CASE m > 0
        BY <2>4, <2>6, <2>7, <3>2
      <3> QED
        BY <3>1, <3>2
    <2>10. row2[L] = m + 1 /\ col2[L] = N
      BY <2>6, <2>7
    <2>11. ASSUME NEW n \in 1 .. L - 1
           PROVE  IF col2[n] < Len(seqs[row2[n]])
                  THEN row2[n + 1] = row2[n] /\ col2[n + 1] = col2[n] + 1
                  ELSE row2[n + 1] = row2[n] + 1 /\ col2[n + 1] = 1
      <3>1. n \in 1 .. L /\ n + 1 \in 1 .. L
        BY <2>6
      <3>2. CASE n < l
        <4>1. /\ row2[n] = row[n] /\ col2[n] = col[n]
              /\ row2[n + 1] = row[n + 1] /\ col2[n + 1] = col[n + 1]
          BY <2>6, <2>7, <3>1, <3>2
        <4>2. n \in 1 .. l - 1
          BY <2>6, <3>2
        <4> QED
          BY <2>5, <4>1, <4>2
      <3>3. CASE n = l
        <4>1. m > 0
          BY <2>3, <3>3
        <4>2. /\ row2[n] = m /\ col2[n] = Len(seqs[m])
              /\ row2[n + 1] = m + 1 /\ col2[n + 1] = 1
          BY <2>4, <2>6, <2>7, <3>1, <3>3, <4>1
        <4>3. Len(seqs[m]) \in Nat
          BY <4>1, ElementOfSeq, LenProperties
        <4> QED
          BY <4>2, <4>3
      <3>4. CASE n > l
        <4>1. /\ row2[n] = m + 1 /\ col2[n] = n - l
              /\ row2[n + 1] = m + 1 /\ col2[n + 1] = n - l + 1
          BY <2>6, <2>7, <3>1, <3>4
        <4>2. n - l < N
          BY <2>6
        <4> QED
          BY <2>8, <4>1, <4>2
      <3> QED
        BY <2>6, <3>2, <3>3, <3>4
    <2> QED
      BY <2>6, <2>8, <2>9, <2>10, <2>11 DEF InRows, L
  <1>10. Flat(both, seqs, m + 1, row2, col2)
    BY <1>6, <1>7, <1>8, <1>9, <1>12 DEF Flat
  <1> QED
    BY <1>4, <1>10 DEF both, next

\* The function that FlattenSeq computes with, for m sequences, and that it exists.
Flattens(f, seqs, m) == f = [i \in 1 .. m |-> IF i = 1 THEN seqs[i] ELSE f[i - 1] \o seqs[i]]

LEMMA FlattenSeqExists ==
    ASSUME NEW seqs, NEW m \in Nat
    PROVE  \E f : Flattens(f, seqs, m)
  <1> DEFINE S == {k \in Nat : \E f : Flattens(f, seqs, k)}
  <1>1. 0 \in S
    <2> DEFINE f == [i \in 1 .. 0 |-> 0]
    <2>1. Flattens(f, seqs, 0)
      BY DEF Flattens
    <2> QED
      BY <2>1
  <1>2. ASSUME NEW k \in Nat, k \in S PROVE k + 1 \in S
    <2>1. PICK f : Flattens(f, seqs, k)
      BY <1>2
    <2> DEFINE last == IF k + 1 = 1 THEN seqs[k + 1] ELSE f[k] \o seqs[k + 1]
               g == [i \in 1 .. k + 1 |-> IF i = k + 1 THEN last ELSE f[i]]
    <2>2. ASSUME NEW i \in 1 .. k + 1
          PROVE  g[i] = IF i = 1 THEN seqs[i] ELSE g[i - 1] \o seqs[i]
      <3>1. CASE i = k + 1
        <4>1. g[i] = last
          BY <3>1
        <4>2. i # 1 => g[i - 1] = f[k]
          BY <3>1
        <4> QED
          BY <3>1, <4>1, <4>2
      <3>2. CASE i # k + 1
        <4>1. i \in 1 .. k /\ g[i] = f[i]
          BY <3>2
        <4>2. i # 1 => g[i - 1] = f[i - 1]
          BY <3>2
        <4>3. f[i] = IF i = 1 THEN seqs[i] ELSE f[i - 1] \o seqs[i]
          BY <2>1, <4>1 DEF Flattens
        <4> HIDE DEF g
        <4> QED
          BY <4>1, <4>2, <4>3
      <3> QED
        BY <3>1, <3>2
    <2>3. g = [i \in 1 .. k + 1 |-> g[i]]
      OBVIOUS
    <2> HIDE DEF g
    <2>4. Flattens(g, seqs, k + 1)
      BY <2>2, <2>3 DEF Flattens
    <2> QED
      BY <2>4
  <1> HIDE DEF S
  <1>3. m \in S
    BY <1>1, <1>2, NatSetInduction
  <1> QED
    BY <1>3 DEF S

\* FlattenSeq puts the sequences one behind the other.
LEMMA FlattenSeqPlaces ==
    ASSUME NEW S, NEW seqs \in Seq(Seq(S))
    PROVE  /\ FlattenSeq(seqs) \in Seq(S)
           /\ \E row, col : Flat(FlattenSeq(seqs), seqs, Len(seqs), row, col)
  <1> DEFINE N == Len(seqs)
             flatten == CHOOSE f : Flattens(f, seqs, N)
  <1>1. N \in Nat /\ DOMAIN seqs = 1 .. N /\ \A k \in 1 .. N : seqs[k] \in Seq(S)
    BY LenProperties, ElementOfSeq
  <1>2. CASE N = 0
    <2>1. FlattenSeq(seqs) = <<>> /\ Len(<<>>) = 0 /\ <<>> \in Seq(S)
      BY <1>2, EmptySeq DEF FlattenSeq
    <2> DEFINE none == [n \in 1 .. 0 |-> 0]
    <2>2. Flat(<<>>, seqs, 0, none, none)
      BY <2>1 DEF Flat, InRows
    <2> QED
      BY <1>2, <2>1, <2>2
  <1>3. CASE N # 0
    <2>1. Flattens(flatten, seqs, N)
      <3>1. \E f : Flattens(f, seqs, N)
        BY <1>1, FlattenSeqExists
      <3> QED
        BY <3>1
    <2>2. FlattenSeq(seqs) = flatten[N]
      BY <1>3 DEF FlattenSeq, Flattens
    <2>3. /\ flatten[1] = seqs[1]
          /\ \A i \in 1 .. N : i # 1 => flatten[i] = flatten[i - 1] \o seqs[i]
      <3> HIDE DEF flatten
      <3>1. 1 \in 1 .. N
        BY <1>1, <1>3
      <3> HIDE DEF N
      <3> QED
        BY <2>1, <3>1 DEF Flattens
    <2> HIDE DEF flatten
    <2> DEFINE T == {k \in Nat : k + 1 <= N =>
                        /\ flatten[k + 1] \in Seq(S)
                        /\ \E row, col : Flat(flatten[k + 1], seqs, k + 1, row, col)}
    <2>4. 0 \in T
      <3>1. <<>> \in Seq(S) /\ Len(<<>>) = 0
        BY EmptySeq
      <3> DEFINE none == [n \in 1 .. 0 |-> 0]
      <3>2. Flat(<<>>, seqs, 0, none, none)
        BY <3>1 DEF Flat, InRows
      <3>6. \E row, col : Flat(<<>>, seqs, 0, row, col)
        BY <3>2
      <3>7. 0 \in Nat /\ 0 < Len(seqs)
        BY <1>1, <1>3
      <3>3. /\ <<>> \o seqs[0 + 1] \in Seq(S)
            /\ \E row, col : Flat(<<>> \o seqs[0 + 1], seqs, 0 + 1, row, col)
        BY <3>1, <3>6, <3>7, FlatStep
      <3>4. seqs[1] \in Seq(S)
        BY <1>1, <1>3
      <3>5. <<>> \o seqs[1] = seqs[1]
        BY <3>4, ConcatEmptySeq
      <3> QED
        BY <2>3, <3>3, <3>5
    <2>5. ASSUME NEW k \in Nat, k \in T PROVE k + 1 \in T
      <3> SUFFICES ASSUME k + 1 + 1 <= N
                   PROVE  /\ flatten[k + 1 + 1] \in Seq(S)
                          /\ \E row, col : Flat(flatten[k + 1 + 1], seqs, k + 1 + 1, row, col)
        OBVIOUS
      <3>1. /\ flatten[k + 1] \in Seq(S)
            /\ \E row, col : Flat(flatten[k + 1], seqs, k + 1, row, col)
        BY <1>1, <2>5
      <3>2. flatten[k + 1 + 1] = flatten[k + 1] \o seqs[k + 1 + 1]
        <4>1. k + 1 + 1 \in 1 .. N /\ k + 1 + 1 # 1 /\ k + 1 + 1 - 1 = k + 1
          BY <1>1
        <4>2. PICK i \in 1 .. N : i = k + 1 + 1 /\ i # 1 /\ i - 1 = k + 1
          BY <4>1
        <4>3. flatten[i] = flatten[i - 1] \o seqs[i]
          BY <2>3, <4>2
        <4> QED
          BY <4>2, <4>3
      <3>3. k + 1 \in Nat /\ k + 1 < N
        BY <1>1
      <3> QED
        BY <3>1, <3>2, <3>3, FlatStep
    <2> HIDE DEF T
    <2>6. Nat \subseteq T
      BY <2>4, <2>5, NatSetInduction
    <2>7. N - 1 \in Nat /\ N - 1 + 1 = N
      BY <1>1, <1>3
    <2>8. /\ flatten[N - 1 + 1] \in Seq(S)
          /\ \E row, col : Flat(flatten[N - 1 + 1], seqs, N - 1 + 1, row, col)
      <3>1. N - 1 \in T /\ N - 1 + 1 <= N
        BY <1>1, <2>6, <2>7
      <3> HIDE DEF N
      <3> QED
        BY <3>1 DEF T
    <2> QED
      BY <2>2, <2>7, <2>8
  <1> QED
    BY <1>2, <1>3

-----------------------------------------------------------------------------
(* Blocks: pbc.c for descriptors, directory.c for records.                 *)

\* A quotient and a remainder are the only ones.
LEMMA DivUnique ==
    ASSUME NEW b \in Nat \ {0}, NEW q \in Nat, NEW r \in 0 .. b - 1
    PROVE  /\ (b * q + r) \div b = q
           /\ (b * q + r) % b = r
  <1> DEFINE x == b * q + r
             d == x \div b
             m == x % b
  <1>1. x \in Nat /\ d \in Nat /\ m \in 0 .. b - 1 /\ x = b * d + m
    <2>1. b * q \in Nat
      OBVIOUS
    <2>2. x \in Nat
      BY <2>1
    <2> HIDE DEF x
    <2> QED
      BY <2>2
  <1> HIDE DEF d, m
  <1>2. b * q + r = b * d + m
    BY <1>1
  <1>3. ~(d < q)
    <2> SUFFICES ASSUME d < q PROVE FALSE
      OBVIOUS
    <2>1. PICK k \in Nat : q = d + 1 + k
      <3>1. q - d - 1 \in Nat
        BY <1>1
      <3> QED
        BY <3>1, <1>1
    <2>2. b * q = b * d + b + b * k
      BY <2>1, <1>1
    <2>3. b * k \in Nat /\ b * d \in Nat
      BY <2>1, <1>1
    <2> QED
      BY <2>2, <2>3, <1>2, <1>1
  <1>4. ~(q < d)
    <2> SUFFICES ASSUME q < d PROVE FALSE
      OBVIOUS
    <2>1. PICK k \in Nat : d = q + 1 + k
      <3>1. d - q - 1 \in Nat
        BY <1>1
      <3> QED
        BY <3>1, <1>1
    <2>2. b * d = b * q + b + b * k
      BY <2>1, <1>1
    <2>3. b * k \in Nat /\ b * q \in Nat
      BY <2>1, <1>1
    <2> QED
      BY <2>2, <2>3, <1>2, <1>1
  <1>5. d = q
    BY <1>1, <1>3, <1>4
  <1>6. m = r
    BY <1>1, <1>2, <1>5
  <1> QED
    BY <1>5, <1>6 DEF d, m, x

\* Every number is so many blocks and a rest.
LEMMA DivMod ==
    ASSUME NEW b \in Nat \ {0}, NEW x \in Nat
    PROVE  /\ x \div b \in Nat
           /\ x % b \in 0 .. b - 1
           /\ x = b * (x \div b) + (x % b)
  OBVIOUS

\* What is a multiple: the rest is 0.
LEMMA MultipleIff ==
    ASSUME NEW b \in Nat \ {0}, NEW x \in Nat
    PROVE  x % b = 0 <=> \E k \in Nat : x = b * k
  <1>1. ASSUME x % b = 0 PROVE \E k \in Nat : x = b * k
    <2>1. x \div b \in Nat /\ x = b * (x \div b) + 0
      BY <1>1, DivMod
    <2> DEFINE d == x \div b
    <2>2. d \in Nat /\ x = b * d
      BY <2>1
    <2> QED
      BY <2>2
  <1>2. ASSUME NEW k \in Nat, x = b * k PROVE x % b = 0
    <2>1. (b * k + 0) % b = 0
      BY DivUnique
    <2> QED
      BY <2>1, <1>2
  <1> QED
    BY <1>1, <1>2

\* Multiples of one number add up to multiples.
LEMMA MultiplesAdd ==
    ASSUME NEW b \in Nat \ {0}, NEW x \in Nat, NEW y \in Nat, x % b = 0, y % b = 0
    PROVE  (x + y) % b = 0
  <1>1. PICK k \in Nat : x = b * k
    BY MultipleIff
  <1>2. PICK l \in Nat : y = b * l
    BY MultipleIff
  <1>3. x + y = b * (k + l) /\ k + l \in Nat
    BY <1>1, <1>2
  <1> DEFINE s == k + l
             z == x + y
  <1>4. s \in Nat /\ z \in Nat /\ z = b * s
    BY <1>3
  <1> HIDE DEF s, z
  <1>5. z % b = 0
    BY <1>4, MultipleIff
  <1> QED
    BY <1>5 DEF z

\* A multiple of a multiple is one.
LEMMA MultiplesNest ==
    ASSUME NEW b \in Nat \ {0}, NEW c \in Nat \ {0}, NEW x \in Nat, c % b = 0, x % c = 0
    PROVE  x % b = 0
  <1>1. PICK k \in Nat : c = b * k
    BY MultipleIff
  <1>2. PICK l \in Nat : x = c * l
    BY MultipleIff
  <1> DEFINE p == k * l
  <1>3. p \in Nat
    BY <1>1, <1>2
  <1>4. x = b * p
    BY <1>1, <1>2
  <1> HIDE DEF p
  <1> QED
    BY <1>3, <1>4, MultipleIff

\* _vcd_ceil2block returns the least multiple that is no less than the offset.
LEMMA Ceil2BlockBounds ==
    ASSUME NEW b \in Nat \ {0}, NEW x \in Nat
    PROVE  /\ Ceil2Block(x, b) \in Nat
           /\ Ceil2Block(x, b) % b = 0
           /\ Ceil2Block(x, b) >= x
           /\ Ceil2Block(x, b) < x + b
           /\ x % b = 0 => Ceil2Block(x, b) = x
           /\ x % b # 0 => Ceil2Block(x, b) = b * (x \div b) + b
  <1> DEFINE q == x \div b
             r == x % b
             n == IF r = 0 THEN q ELSE q + 1
  <1>1. q \in Nat /\ r \in 0 .. b - 1 /\ x = b * q + r
    BY DivMod
  <1>2. Ceil2Block(x, b) = n * b
    BY DEF Ceil2Block, Len2Blocks
  <1>3. n * b = IF r = 0 THEN b * q ELSE b * q + b
    <2> HIDE DEF q, r
    <2>1. CASE r = 0
      BY <1>1, <2>1
    <2>2. CASE r # 0
      <3>1. (q + 1) * b = b * q + b
        BY <1>1
      <3> QED
        BY <2>2, <3>1
    <2> QED
      BY <2>1, <2>2
  <1>4. n \in Nat /\ n * b = b * n
    <2> HIDE DEF q, r
    <2> QED
      BY <1>1
  <1>5. (b * n + 0) % b = 0 /\ b * n \in Nat
    <2> HIDE DEF n
    <2>1. b * n \in Nat
      BY <1>4
    <2> QED
      BY <2>1, <1>4, DivUnique
  <1> DEFINE c == n * b
  <1>6. c \in Nat /\ c % b = 0
    <2> HIDE DEF n
    <2> QED
      BY <1>4, <1>5
  <1>7. b * q \in Nat
    <2> HIDE DEF q
    <2> QED
      BY <1>1
  <1>8. c = IF r = 0 THEN b * q ELSE b * q + b
    BY <1>3
  <1>9. Ceil2Block(x, b) = c
    BY <1>2
  <1> DEFINE bq == b * q
  <1>10. bq \in Nat /\ x = bq + r /\ c = IF r = 0 THEN bq ELSE bq + b
    BY <1>1, <1>7, <1>8
  <1> HIDE DEF c, bq
  <1>11. c >= x /\ c < x + b /\ (r = 0 => c = x) /\ (r # 0 => c = bq + b)
    <2> HIDE DEF q, r
    <2> QED
      BY <1>1, <1>6, <1>10
  <1> QED
    BY <1>6, <1>9, <1>11 DEF bq

\* _vcd_ofs_add puts a thing that fits into a block where no block ends in it, at the
\* offset or behind it; and in whole units, if the offset and the length are.
LEMMA OfsAddFits ==
    ASSUME NEW b \in Nat \ {0}, NEW offset \in Nat, NEW length \in 1 .. b
    PROVE  /\ OfsAdd(offset, length, b) \in Nat
           /\ OfsAdd(offset, length, b) >= offset + length
           /\ OfsAdd(offset, length, b) - length \in Nat
           /\ (OfsAdd(offset, length, b) - length) \div b = (OfsAdd(offset, length, b) - 1) \div b
           /\ \/ OfsAdd(offset, length, b) - length = offset
              \/ (OfsAdd(offset, length, b) - length) % b = 0
  <1> DEFINE q == offset \div b
             r == offset % b
             end == OfsAdd(offset, length, b)
             bq == b * q
  <1>1. q \in Nat /\ r \in 0 .. b - 1 /\ offset = b * q + r
    BY DivMod
  <1>2. bq \in Nat /\ offset = bq + r
    <2> HIDE DEF q
    <2> QED
      BY <1>1
  <1>3. end = IF b - r < length THEN Ceil2Block(offset, b) + length ELSE offset + length
    BY DEF OfsAdd
  <1>4. r # 0 => Ceil2Block(offset, b) = bq + b
    BY Ceil2BlockBounds
  <1> HIDE DEF q, r, bq, end
  <1>5. CASE b - r < length
    <2>1. end = bq + b + length /\ end \in Nat
      BY <1>1, <1>2, <1>3, <1>4, <1>5
    <2> DEFINE p == q + 1
    <2>2. bq + b = b * p /\ p \in Nat
      BY <1>1 DEF bq
    <2>3. end - length = b * p + 0 /\ end - 1 = b * p + (length - 1)
      BY <1>2, <2>1, <2>2
    <2> HIDE DEF p
    <2>4. /\ (b * p + 0) \div b = p /\ (b * p + 0) % b = 0
          /\ (b * p + (length - 1)) \div b = p
      <3>1. 0 \in 0 .. b - 1 /\ length - 1 \in 0 .. b - 1
        OBVIOUS
      <3> QED
        BY <2>2, <3>1, DivUnique
    <2>5. end - length = bq + b /\ bq + b \in Nat
      BY <2>1, <1>2
    <2>6. end >= offset + length
      BY <1>1, <1>2, <2>1
    <2>7. (end - length) \div b = p /\ (end - length) % b = 0 /\ (end - 1) \div b = p
      BY <2>3, <2>4
    <2> QED
      BY <2>1, <2>5, <2>6, <2>7 DEF end
  <1>6. CASE ~(b - r < length)
    <2>1. end = offset + length /\ end \in Nat /\ end - length = offset
      BY <1>3, <1>6
    <2>2. offset = b * q + r /\ end - 1 = b * q + (r + length - 1)
      BY <1>1, <1>2, <2>1 DEF bq
    <2>3. r + length - 1 \in 0 .. b - 1
      BY <1>1, <1>6
    <2>4. (b * q + r) \div b = q /\ (b * q + (r + length - 1)) \div b = q
      BY <1>1, <2>3, DivUnique
    <2>5. (end - length) \div b = (end - 1) \div b
      BY <2>1, <2>2, <2>4
    <2> QED
      BY <2>1, <2>5 DEF end
  <1> QED
    BY <1>5, <1>6

\* A thing of whole units is put in whole units.
LEMMA OfsAddAligned ==
    ASSUME NEW b \in Nat \ {0}, NEW unit \in Nat \ {0}, b % unit = 0,
           NEW offset \in Nat, NEW length \in 1 .. b, offset % unit = 0, length % unit = 0
    PROVE  /\ (OfsAdd(offset, length, b) - length) % unit = 0
           /\ OfsAdd(offset, length, b) % unit = 0
  <1> DEFINE start == OfsAdd(offset, length, b) - length
  <1>1. /\ OfsAdd(offset, length, b) \in Nat
        /\ start \in Nat
        /\ start = offset \/ start % b = 0
    BY OfsAddFits
  <1>2. OfsAdd(offset, length, b) = start + length
    BY <1>1
  <1> HIDE DEF start
  <1>3. start % unit = 0
    BY <1>1, MultiplesNest
  <1>4. (start + length) % unit = 0
    <2>1. length \in Nat /\ start \in Nat
      BY <1>1
    <2> QED
      BY <2>1, <1>3, MultiplesAdd
  <1> QED
    BY <1>2, <1>3, <1>4 DEF start

=============================================================================
