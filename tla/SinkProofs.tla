------------------------------ MODULE SinkProofs ------------------------------
(***************************************************************************)
(* The three image sinks, for every disc: what they make of a cue sheet,   *)
(* where they put each sector, and which of their assertions may fail.     *)
(***************************************************************************)
EXTENDS ImageSink, CommonProofs, FiniteSetTheorems, FunctionTheorems

-----------------------------------------------------------------------------
(* Folds.  FoldLeft takes an operator, so that each fold of the sinks has  *)
(* a lemma of its own.                                                     *)

SumOf(base, seq) == FoldLeft(LAMBDA sum, t : sum + t.pregap + t.length, base, seq)

\* The function that the fold over the lengths of tracks computes with.
SumIter(iter, base, seq, n) ==
    iter = [s \in SUBSET (1 .. n) |->
              IF s = {} THEN base ELSE iter[s \ {Max(s)}] + seq[Max(s)].pregap + seq[Max(s)].length]

\* It stays in G; run[k] is what it has behind element k.
SumInto(G, E) == \A s \in G : \A e \in E : s + e.pregap + e.length \in G

SumRun(run, base, seq) ==
    /\ run[0] = base
    /\ \A k \in 1 .. Len(seq) : run[k] = run[k - 1] + seq[k].pregap + seq[k].length
    /\ SumOf(base, seq) = run[Len(seq)]

\* The fold over the lengths of tracks goes from element to element.
LEMMA SumRuns ==
    ASSUME NEW E, NEW seq \in Seq(E), NEW G, NEW base \in G, SumInto(G, E)
    PROVE  \E run \in [0 .. Len(seq) -> G] : SumRun(run, base, seq)
  <1> DEFINE n == Len(seq)
             step == [k \in 1 .. n |-> [s \in G |-> s + seq[k].pregap + seq[k].length]]
             iter == CHOOSE f : SumIter(f, base, seq, n)
             run == [k \in 0 .. n |-> iter[1 .. k]]
  <1>1. n \in Nat /\ DOMAIN seq = 1 .. n /\ \A k \in 1 .. n : seq[k] \in E
    BY LenProperties, ElementOfSeq
  <1>2. SumOf(base, seq) = iter[1 .. n]
    BY <1>1 DEF SumOf, FoldLeft, MapThenFoldSet, SumIter
  <1>3. \E f : SumIter(f, base, seq, n)
    <2>1. step \in [1 .. n -> [G -> G]]
      BY <1>1 DEF SumInto
    <2>2. \A k \in 1 .. n : \A s \in G : step[k][s] = s + seq[k].pregap + seq[k].length
      OBVIOUS
    <2> HIDE DEF step, n, iter
    <2>3. PICK f \in [SUBSET (1 .. n) -> G] : Folds(f, base, step, n)
      BY <1>1, <2>1, FoldExists DEF HasFold
    <2>4. ASSUME NEW s \in SUBSET (1 .. n)
          PROVE  f[s] = IF s = {} THEN base ELSE f[s \ {Max(s)}] + seq[Max(s)].pregap + seq[Max(s)].length
      <3>1. f[s] = IF s = {} THEN base ELSE step[Max(s)][f[s \ {Max(s)}]]
        BY <2>3 DEF Folds
      <3>2. CASE s # {}
        <4>1. Max(s) \in 1 .. n
          BY <1>1, <3>2, LastPlace
        <4>2. f[s \ {Max(s)}] \in G
          BY <2>3
        <4> QED
          BY <2>2, <3>1, <3>2, <4>1, <4>2
      <3> QED
        BY <3>1, <3>2
    <2>5. f = [s \in SUBSET (1 .. n) |-> f[s]]
      BY <2>3
    <2> QED
      BY <2>4, <2>5 DEF SumIter
  <1>4. SumIter(iter, base, seq, n)
    BY <1>3
  <1> HIDE DEF iter, n, step
  <1>5. iter[1 .. 0] = base
    <2>1. 1 .. 0 \in SUBSET (1 .. n) /\ 1 .. 0 = {}
      OBVIOUS
    <2> QED
      BY <1>4, <2>1 DEF SumIter
  <1>6. ASSUME NEW k \in Nat, k + 1 <= n
        PROVE  iter[1 .. k + 1] = iter[1 .. k] + seq[k + 1].pregap + seq[k + 1].length
    <2>1. /\ 1 .. k + 1 \in SUBSET (1 .. n)
          /\ 1 .. k + 1 # {}
          /\ Max(1 .. k + 1) = k + 1
          /\ (1 .. k + 1) \ {Max(1 .. k + 1)} = 1 .. k
      BY <1>1, <1>6, FirstPlaces
    <2> QED
      BY <1>4, <2>1 DEF SumIter
  <1>7. run[0] = base /\ run[n] = iter[1 .. n]
    BY <1>1, <1>5
  <1>8. \A k \in 1 .. n : run[k] = run[k - 1] + seq[k].pregap + seq[k].length
    <2> SUFFICES ASSUME NEW k \in 1 .. n PROVE run[k] = run[k - 1] + seq[k].pregap + seq[k].length
      OBVIOUS
    <2>1. k - 1 \in Nat /\ k - 1 + 1 = k /\ k <= n /\ k - 1 \in 0 .. n /\ k \in 0 .. n
      BY <1>1
    <2>2. iter[1 .. k - 1 + 1] = iter[1 .. k - 1] + seq[k - 1 + 1].pregap + seq[k - 1 + 1].length
      BY <1>6, <2>1
    <2> QED
      BY <2>1, <2>2
  <1> DEFINE T == {k \in Nat : k <= n => run[k] \in G}
  <1> HIDE DEF run
  <1>9. ASSUME NEW k \in Nat, k \in T PROVE k + 1 \in T
    <2>1. k + 1 <= n => k \in 0 .. n /\ k + 1 \in 1 .. n /\ k + 1 - 1 = k /\ k <= n
      BY <1>1
    <2>2. k + 1 <= n => seq[k + 1] \in E
      BY <1>1, <2>1
    <2>3. k + 1 <= n => run[k + 1] = run[k] + seq[k + 1].pregap + seq[k + 1].length
      BY <1>8, <2>1
    <2> QED
      BY <1>9, <2>1, <2>2, <2>3 DEF SumInto
  <1>10. 0 \in T
    BY <1>7
  <1> HIDE DEF T
  <1>11. Nat \subseteq T
    BY <1>9, <1>10, NatSetInduction
  <1>12. run \in [0 .. n -> G]
    <2>1. \A k \in 0 .. n : k \in T /\ k <= n
      BY <1>1, <1>11
    <2>2. \A k \in 0 .. n : run[k] \in G
      BY <2>1 DEF T
    <2>3. run = [k \in 0 .. n |-> run[k]]
      BY DEF run
    <2> QED
      BY <2>2, <2>3
  <1> QED
    BY <1>2, <1>7, <1>8, <1>12 DEF n, SumRun

-----------------------------------------------------------------------------
(* Where things are on a disc.                                             *)

\* The disc and its tracks have the shape of DiscsAssumption.
LEMMA DiscShape ==
    ASSUME NEW d \in Discs
    PROVE  /\ d.iso \in Nat \ {0}
           /\ d.leadout \in Nat
           /\ d.tracks \in Seq(TrackType)
           /\ Len(d.tracks) \in Nat
           /\ DOMAIN d.tracks = 1 .. Len(d.tracks)
           /\ \A k \in 1 .. Len(d.tracks) :
                 /\ d.tracks[k] \in TrackType
                 /\ d.tracks[k].pregap \in Nat \ {0}
                 /\ d.tracks[k].length \in Nat \ {0}
                 /\ d.tracks[k].entries \in Seq(Nat)
                 /\ \A e \in DOMAIN d.tracks[k].entries :
                       d.tracks[k].entries[e] < d.tracks[k].length
  <1>1. d \in [iso : Nat \ {0}, leadout : Nat, tracks : Seq(TrackType)]
    BY DiscsAssumption
  <1>2. d.tracks \in Seq(TrackType)
    BY <1>1
  <1>3. Len(d.tracks) \in Nat /\ DOMAIN d.tracks = 1 .. Len(d.tracks)
    BY <1>2, LenProperties
  <1>4. \A k \in 1 .. Len(d.tracks) : d.tracks[k] \in TrackType
    BY <1>2, ElementOfSeq
  <1>5. \A t \in TrackType : /\ t.pregap \in Nat \ {0}
                             /\ t.length \in Nat \ {0}
                             /\ t.entries \in Seq(Nat)
    BY DEF TrackType
  <1>6. \A k \in DOMAIN d.tracks : \A e \in DOMAIN d.tracks[k].entries :
           d.tracks[k].entries[e] < d.tracks[k].length
    BY DiscsAssumption
  <1> QED
    BY <1>1, <1>2, <1>3, <1>4, <1>5, <1>6

\* Each track's pregap is behind the track before it, the first behind the ISO track.
LEMMA PregapsAdjoin ==
    ASSUME NEW d \in Discs
    PROVE  /\ PregapAt(d, 1) = d.iso
           /\ \A k \in 1 .. Len(d.tracks) + 1 : PregapAt(d, k) \in Nat
           /\ \A k \in 1 .. Len(d.tracks) :
                 PregapAt(d, k + 1) = PregapAt(d, k) + d.tracks[k].pregap + d.tracks[k].length
  <1> DEFINE ts == d.tracks
             m == Len(ts)
             Sum(s) == SumOf(0, s)
  <1>1. ts \in Seq(TrackType) /\ m \in Nat /\ \A k \in 1 .. m : ts[k] \in TrackType
    BY DiscShape
  <1>2. SumInto(Nat, TrackType)
    BY DEF TrackType, SumInto
  <1>3. PICK all \in [0 .. m -> Nat] :
           /\ all[0] = 0
           /\ \A k \in 1 .. m : all[k] = all[k - 1] + ts[k].pregap + ts[k].length
    <2> HIDE DEF ts
    <2>1. 0 \in Nat
      OBVIOUS
    <2>2. PICK run \in [0 .. Len(ts) -> Nat] : SumRun(run, 0, ts)
      BY <1>1, <1>2, <2>1, SumRuns
    <2> QED
      BY <2>2 DEF m, SumRun
  <1>4. ASSUME NEW k \in 0 .. m PROVE Sum(SubSeq(ts, 1, k)) = all[k]
    <2> DEFINE s == SubSeq(ts, 1, k)
    <2>1. s \in Seq(TrackType) /\ Len(s) = k /\ \A j \in 1 .. k : s[j] = ts[j]
      <3> HIDE DEF ts
      <3>1. 1 \in Nat /\ k \in Nat /\ k <= m
        BY <1>1
      <3>2. s = [j \in 1 .. k |-> ts[j]]
        BY <1>1, <3>1, SubSeqProperties
      <3> HIDE DEF s
      <3>3. \A j \in 1 .. k : s[j] = ts[j] /\ s[j] \in TrackType
        BY <1>1, <3>2
      <3>4. s \in Seq(TrackType)
        BY <3>1, <3>2, <3>3
      <3> QED
        BY <3>1, <3>2, <3>3, <3>4
    <2> HIDE DEF s
    <2>7. PICK run \in [0 .. Len(s) -> Nat] : SumRun(run, 0, s)
      <3>1. 0 \in Nat
        OBVIOUS
      <3> QED
        BY <1>2, <2>1, <3>1, SumRuns
    <2>2. /\ run \in [0 .. k -> Nat]
          /\ run[0] = 0
          /\ \A j \in 1 .. k : run[j] = run[j - 1] + s[j].pregap + s[j].length
          /\ Sum(s) = run[k]
      BY <2>1, <2>7 DEF SumRun
    <2> HIDE DEF Sum, ts, m
    <2> DEFINE T == {j \in Nat : j <= k => run[j] = all[j]}
    <2>3. 0 \in T
      BY <1>3, <2>2
    <2>4. ASSUME NEW j \in Nat, j \in T PROVE j + 1 \in T
      <3> SUFFICES ASSUME j + 1 <= k PROVE run[j + 1] = all[j + 1]
        OBVIOUS
      <3>1. j + 1 \in 1 .. k /\ j + 1 \in 1 .. m /\ j + 1 - 1 = j /\ run[j] = all[j]
        BY <1>1, <2>4
      <3>2. all[j + 1] = all[j] + ts[j + 1].pregap + ts[j + 1].length
        BY <1>3, <3>1
      <3>3. run[j + 1] = run[j] + s[j + 1].pregap + s[j + 1].length
        BY <2>2, <3>1
      <3>4. s[j + 1] = ts[j + 1]
        BY <2>1, <3>1
      <3> QED
        BY <3>1, <3>2, <3>3, <3>4
    <2> HIDE DEF T
    <2>5. Nat \subseteq T
      BY <2>3, <2>4, NatSetInduction
    <2>6. run[k] = all[k]
      <3>1. k \in Nat
        BY <1>1
      <3> QED
        BY <2>5, <3>1 DEF T
    <2> QED
      BY <2>2, <2>6 DEF s
  <1>5. \A k \in 1 .. m + 1 : PregapAt(d, k) = d.iso + all[k - 1]
    <2> SUFFICES ASSUME NEW k \in 1 .. m + 1 PROVE PregapAt(d, k) = d.iso + all[k - 1]
      OBVIOUS
    <2>1. k - 1 \in 0 .. m
      BY <1>1
    <2>2. Sum(SubSeq(ts, 1, k - 1)) = all[k - 1]
      BY <1>4, <2>1
    <2> QED
      BY <2>2 DEF PregapAt, SumOf
  <1>6. d.iso \in Nat
    BY DiscShape
  <1> HIDE DEF Sum, ts, m
  <1>7. 1 \in 1 .. m + 1
    BY <1>1
  <1>8. PregapAt(d, 1) = d.iso
    BY <1>3, <1>5, <1>6, <1>7
  <1>9. ASSUME NEW k \in 1 .. m + 1 PROVE PregapAt(d, k) \in Nat
    BY <1>1, <1>3, <1>5, <1>6
  <1>10. ASSUME NEW k \in 1 .. m
         PROVE  PregapAt(d, k + 1) = PregapAt(d, k) + ts[k].pregap + ts[k].length
    <2>1. k \in 1 .. m + 1 /\ k + 1 \in 1 .. m + 1 /\ k + 1 - 1 = k /\ k - 1 \in 0 .. m
      BY <1>1
    <2>2. /\ PregapAt(d, k + 1) = d.iso + all[k]
          /\ PregapAt(d, k) = d.iso + all[k - 1]
          /\ all[k] = all[k - 1] + ts[k].pregap + ts[k].length
          /\ all[k - 1] \in Nat
      BY <1>3, <1>5, <2>1
    <2>3. ts[k].pregap \in Nat /\ ts[k].length \in Nat
      BY DiscShape DEF ts, m
    <2> QED
      BY <1>6, <2>2, <2>3
  <1> QED
    BY <1>8, <1>9, <1>10 DEF ts, m

\* The ISO track is track 0 here; where a track starts and where it ends, the lead-out
\* being the last one's; its entry points.
Start(d, k) == IF k = 0 THEN 0 ELSE StartAt(d, k)
Stop(d, k) == IF k = Len(d.tracks) THEN DiscEnd(d) ELSE PregapAt(d, k + 1)
Subs(d, k) == IF k = 0 THEN <<>> ELSE d.tracks[k].entries

\* Tracks and their pregaps follow each other and are not empty.
LEMMA TracksInOrder ==
    ASSUME NEW d \in Discs
    PROVE  /\ DiscEnd(d) \in Nat \ {0}
           /\ Start(d, 0) = 0
           /\ Stop(d, Len(d.tracks)) = DiscEnd(d)
           /\ \A k \in 0 .. Len(d.tracks) :
                 /\ Start(d, k) \in Nat
                 /\ Stop(d, k) \in Nat
                 /\ Start(d, k) < Stop(d, k)
                 /\ Stop(d, k) <= DiscEnd(d)
                 /\ Subs(d, k) \in Seq(Nat)
                 /\ \A e \in DOMAIN Subs(d, k) : Start(d, k) + Subs(d, k)[e] < Stop(d, k)
           /\ \A k \in 1 .. Len(d.tracks) :
                 /\ PregapAt(d, k) = Stop(d, k - 1)
                 /\ PregapAt(d, k) \in Nat \ {0}
                 /\ StartAt(d, k) = Start(d, k)
                 /\ PregapAt(d, k) < Start(d, k)
                 /\ Start(d, k) = PregapAt(d, k) + d.tracks[k].pregap
           /\ \A j, k \in 0 .. Len(d.tracks) : j < k => Stop(d, j) < Start(d, k)
  <1> DEFINE m == Len(d.tracks)
  <1>1. m \in Nat /\ d.iso \in Nat \ {0} /\ d.leadout \in Nat
    BY DiscShape
  <1>2. /\ PregapAt(d, 1) = d.iso
        /\ \A k \in 1 .. m + 1 : PregapAt(d, k) \in Nat
        /\ \A k \in 1 .. m :
              PregapAt(d, k + 1) = PregapAt(d, k) + d.tracks[k].pregap + d.tracks[k].length
    BY PregapsAdjoin
  <1>3. \A k \in 1 .. m : /\ d.tracks[k].pregap \in Nat \ {0}
                          /\ d.tracks[k].length \in Nat \ {0}
                          /\ d.tracks[k].entries \in Seq(Nat)
                          /\ \A e \in DOMAIN d.tracks[k].entries :
                                d.tracks[k].entries[e] < d.tracks[k].length
    BY DiscShape
  <1>4. \A k \in 1 .. m : StartAt(d, k) = PregapAt(d, k) + d.tracks[k].pregap
    BY DEF StartAt
  <1>5. DiscEnd(d) = PregapAt(d, m + 1) + d.leadout
    BY DEF DiscEnd
  <1> DEFINE T == {j \in Nat : \A i \in 1 .. m + 1 : i + j <= m + 1 =>
                      PregapAt(d, i) + j <= PregapAt(d, i + j)}
  <1>6. 0 \in T
    BY <1>2
  <1>7. ASSUME NEW j \in Nat, j \in T PROVE j + 1 \in T
    <2> SUFFICES ASSUME NEW i \in 1 .. m + 1, i + (j + 1) <= m + 1
                 PROVE  PregapAt(d, i) + (j + 1) <= PregapAt(d, i + (j + 1))
      OBVIOUS
    <2>1. i + j \in 1 .. m /\ i + j <= m + 1 /\ i + (j + 1) = (i + j) + 1 /\ i + j \in 1 .. m + 1
      BY <1>1
    <2>2. PregapAt(d, i) + j <= PregapAt(d, i + j)
      BY <1>7, <2>1
    <2> DEFINE k == i + j
    <2>3. PregapAt(d, k + 1) = PregapAt(d, k) + d.tracks[k].pregap + d.tracks[k].length
      BY <1>2, <2>1
    <2>4. d.tracks[k].pregap \in Nat \ {0} /\ d.tracks[k].length \in Nat \ {0}
      BY <1>3, <2>1
    <2>5. PregapAt(d, k) \in Nat /\ PregapAt(d, i) \in Nat
      BY <1>2, <2>1
    <2>6. PregapAt(d, i) + (j + 1) <= PregapAt(d, k + 1)
      <3> DEFINE p == d.tracks[k].pregap
                 l == d.tracks[k].length
                 a == PregapAt(d, i)
                 b == PregapAt(d, k)
      <3>1. a + j <= b /\ PregapAt(d, k + 1) = b + p + l
        BY <2>2, <2>3
      <3>2. p \in Nat \ {0} /\ l \in Nat \ {0} /\ a \in Nat /\ b \in Nat
        BY <2>4, <2>5
      <3> HIDE DEF p, l, a, b, k
      <3>3. a + (j + 1) <= b + p + l
        BY <3>1, <3>2
      <3> QED
        BY <3>1, <3>3 DEF a
    <2> QED
      BY <2>1, <2>6
  <1> HIDE DEF T
  <1>8. Nat \subseteq T
    BY <1>6, <1>7, NatSetInduction
  <1>9. ASSUME NEW i \in 1 .. m + 1, NEW k \in 1 .. m + 1, i <= k
        PROVE  PregapAt(d, i) <= PregapAt(d, k)
    <2>1. k - i \in Nat /\ i + (k - i) = k
      BY <1>1, <1>9
    <2>2. k - i \in T
      BY <1>8, <2>1
    <2>3. PregapAt(d, i) + (k - i) <= PregapAt(d, i + (k - i))
      BY <1>1, <2>1, <2>2 DEF T
    <2> QED
      BY <1>2, <2>1, <2>3
  <1> DEFINE P(k) == PregapAt(d, k)
  <1>10. \A k \in 0 .. m : Stop(d, k) = IF k = m THEN P(m + 1) + d.leadout ELSE P(k + 1)
    BY <1>5 DEF Stop
  <1>11. \A k \in 0 .. m : Start(d, k) = IF k = 0 THEN 0 ELSE P(k) + d.tracks[k].pregap
    BY <1>1, <1>4 DEF Start
  <1>12. \A k \in 1 .. m + 1 : P(k) \in Nat \ {0}
    <2> SUFFICES ASSUME NEW k \in 1 .. m + 1 PROVE P(k) \in Nat \ {0}
      OBVIOUS
    <2>1. 1 \in 1 .. m + 1 /\ 1 <= k
      BY <1>1
    <2> QED
      BY <1>1, <1>2, <1>9, <2>1
  <1>13. \A k \in 1 .. m : P(k + 1) = P(k) + d.tracks[k].pregap + d.tracks[k].length
    BY <1>2
  <1>20. P(1) = d.iso
    BY <1>2
  <1>21. ASSUME NEW i \in 1 .. m + 1, NEW k \in 1 .. m + 1, i <= k
         PROVE  P(i) <= P(k)
    <2>1. PregapAt(d, i) <= PregapAt(d, k)
      BY <1>9, <1>21
    <2> QED
      BY <2>1
  <1>22. DiscEnd(d) = P(m + 1) + d.leadout
    BY <1>5
  <1> HIDE DEF P, m
  <1>14. DiscEnd(d) \in Nat \ {0}
    BY <1>1, <1>12, <1>22
  <1>15. ASSUME NEW k \in 0 .. m
         PROVE  /\ Start(d, k) \in Nat
                /\ Stop(d, k) \in Nat
                /\ Start(d, k) < Stop(d, k)
                /\ Stop(d, k) <= DiscEnd(d)
    <2>1. k + 1 \in 1 .. m + 1 /\ m + 1 \in 1 .. m + 1 /\ k + 1 <= m + 1 /\ k \in Nat
      BY <1>1
    <2>2. P(k + 1) \in Nat \ {0} /\ P(m + 1) \in Nat /\ P(k + 1) <= P(m + 1)
      BY <1>12, <1>21, <2>1
    <2>3. k # 0 => /\ k \in 1 .. m
                   /\ P(k) \in Nat
                   /\ P(k + 1) = P(k) + d.tracks[k].pregap + d.tracks[k].length
                   /\ d.tracks[k].pregap \in Nat
                   /\ d.tracks[k].length \in Nat \ {0}
      BY <1>1, <1>3, <1>12, <1>13
    <2>4. Start(d, k) \in Nat /\ Start(d, k) < P(k + 1)
      BY <1>11, <2>2, <2>3
    <2>5. Stop(d, k) \in Nat /\ Stop(d, k) >= P(k + 1) /\ Stop(d, k) <= DiscEnd(d)
      BY <1>1, <1>10, <1>22, <2>2
    <2> QED
      BY <2>2, <2>4, <2>5
  <1>16. ASSUME NEW k \in 0 .. m
         PROVE  /\ Subs(d, k) \in Seq(Nat)
                /\ \A e \in DOMAIN Subs(d, k) : Start(d, k) + Subs(d, k)[e] < Stop(d, k)
    <2>1. CASE k = 0
      <3>1. Subs(d, k) = <<>> /\ <<>> \in Seq(Nat) /\ DOMAIN <<>> = 1 .. 0
        BY <2>1, EmptySeq, LenProperties DEF Subs
      <3> QED
        BY <3>1
    <2>2. CASE k # 0
      <3>1. k \in 1 .. m
        BY <1>1, <2>2
      <3>2. Subs(d, k) = d.tracks[k].entries
        BY <2>2 DEF Subs
      <3>3. Subs(d, k) \in Seq(Nat)
        BY <1>3, <3>1, <3>2
      <3>4. ASSUME NEW e \in DOMAIN Subs(d, k) PROVE Start(d, k) + Subs(d, k)[e] < Stop(d, k)
        <4>1. Subs(d, k)[e] \in Nat
          BY <3>3, ElementOfSeq, LenProperties
        <4>2. Subs(d, k)[e] < d.tracks[k].length
          BY <1>3, <3>1, <3>2
        <4>3. Start(d, k) = P(k) + d.tracks[k].pregap
          BY <1>11, <2>2
        <4>4. P(k + 1) = P(k) + d.tracks[k].pregap + d.tracks[k].length
          BY <1>13, <3>1
        <4>5. P(k) \in Nat /\ d.tracks[k].pregap \in Nat /\ d.tracks[k].length \in Nat
          <5>1. k \in 1 .. m + 1
            BY <1>1, <3>1
          <5> QED
            BY <1>3, <1>12, <3>1, <5>1
        <4>6. Stop(d, k) >= P(k + 1)
          BY <1>1, <1>10, <4>4, <4>5
        <4>7. Stop(d, k) \in Nat
          BY <1>15
        <4> QED
          BY <4>1, <4>2, <4>3, <4>4, <4>5, <4>6, <4>7
      <3> QED
        BY <3>3, <3>4
    <2> QED
      BY <2>1, <2>2
  <1>17. ASSUME NEW k \in 1 .. m
         PROVE  /\ P(k) = Stop(d, k - 1)
                /\ P(k) \in Nat \ {0}
                /\ StartAt(d, k) = Start(d, k)
                /\ P(k) < Start(d, k)
                /\ Start(d, k) = P(k) + d.tracks[k].pregap
    <2>1. k - 1 \in 0 .. m /\ k - 1 # m /\ k - 1 + 1 = k /\ k \in 0 .. m /\ k # 0 /\ k \in 1 .. m + 1
      BY <1>1
    <2>2. P(k) = Stop(d, k - 1)
      BY <1>10, <2>1
    <2>3. Start(d, k) = P(k) + d.tracks[k].pregap
      BY <1>11, <2>1
    <2>4. StartAt(d, k) = Start(d, k)
      BY <2>1 DEF Start
    <2>5. P(k) \in Nat \ {0} /\ d.tracks[k].pregap \in Nat \ {0}
      BY <1>3, <1>12, <2>1
    <2> QED
      BY <2>2, <2>3, <2>4, <2>5
  <1>18. ASSUME NEW j \in 0 .. m, NEW k \in 0 .. m, j < k
         PROVE  Stop(d, j) < Start(d, k)
    <2>1. j + 1 \in 1 .. m + 1 /\ k \in 1 .. m + 1 /\ j + 1 <= k /\ j # m /\ k \in 1 .. m
      BY <1>1, <1>18
    <2>2. Stop(d, j) = P(j + 1) /\ P(j + 1) <= P(k) /\ P(j + 1) \in Nat
      BY <1>10, <1>12, <1>21, <2>1
    <2>3. P(k) < Start(d, k) /\ P(k) \in Nat /\ Start(d, k) \in Nat
      BY <1>15, <1>17, <2>1
    <2> QED
      BY <2>2, <2>3
  <1>19. Start(d, 0) = 0 /\ Stop(d, m) = DiscEnd(d)
    BY DEF Start, Stop, m
  <1> QED
    BY <1>14, <1>15, <1>16, <1>17, <1>18, <1>19 DEF P, m

-----------------------------------------------------------------------------
(* The cue sheet.                                                          *)

CueType == [type : {"pregap", "track", "subindex", "end"}, lsn : Nat]

\* Track k has its pregap's cue in column 1, its own in column 2, its entry points
\* behind it; the ISO track has only its own.  The end is where another pregap would be.
LastCol(d, k) == Len(Subs(d, k)) + 2

CueAt(d, k, e) ==
    IF k = Len(d.tracks) + 1 THEN Cue("end", DiscEnd(d))
    ELSE IF e = 1 THEN Cue("pregap", PregapAt(d, k))
    ELSE IF e = 2 THEN Cue("track", Start(d, k))
    ELSE Cue("subindex", Start(d, k) + Subs(d, k)[e - 2])

\* row and col say which cue each of the n cues of the cue sheet is.
LaidOut(d, row, col, n) ==
    /\ n \in Nat /\ n >= 2
    /\ CueList(d) \in Seq(CueType)
    /\ Len(CueList(d)) = n
    /\ row \in [1 .. n -> 0 .. Len(d.tracks) + 1]
    /\ col \in [1 .. n -> Nat \ {0}]
    /\ row[1] = 0 /\ col[1] = 2
    /\ row[n] = Len(d.tracks) + 1 /\ col[n] = 1
    /\ \A p \in 1 .. n : CueList(d)[p] = CueAt(d, row[p], col[p])
    /\ \A p \in 1 .. n - 1 :
          /\ row[p] <= Len(d.tracks)
          /\ col[p] <= LastCol(d, row[p])
          /\ IF col[p] < LastCol(d, row[p])
             THEN row[p + 1] = row[p] /\ col[p + 1] = col[p] + 1
             ELSE row[p + 1] = row[p] + 1 /\ col[p + 1] = 1
    /\ \A k \in 1 .. Len(d.tracks) : \A e \in 1 .. LastCol(d, k) :
          \E p \in 1 .. n - 1 : row[p] = k /\ col[p] = e
    /\ \A p, q \in 1 .. n : row[p] = row[q] /\ col[p] = col[q] => p = q

\* Two sequences one behind the other.
Behind(a, b, both) ==
    /\ Len(both) = Len(a) + Len(b)
    /\ \A p \in 1 .. Len(a) + Len(b) : both[p] = IF p <= Len(a) THEN a[p] ELSE b[p - Len(a)]

LEMMA Joined ==
    ASSUME NEW S, NEW a \in Seq(S), NEW b \in Seq(S)
    PROVE  a \o b \in Seq(S) /\ Behind(a, b, a \o b)
  BY ConcatProperties DEF Behind

\* The cues of a track.
LEMMA TrackCuesAre ==
    ASSUME NEW d \in Discs, NEW k \in 1 .. Len(d.tracks)
    PROVE  /\ TrackCues(d, k) \in Seq(CueType)
           /\ Len(TrackCues(d, k)) = LastCol(d, k)
           /\ LastCol(d, k) \in Nat /\ LastCol(d, k) >= 2
           /\ \A e \in 1 .. LastCol(d, k) : TrackCues(d, k)[e] = CueAt(d, k, e)
  <1> DEFINE entries == d.tracks[k].entries
             subs == [e \in DOMAIN entries |-> Cue("subindex", StartAt(d, k) + entries[e])]
             two == <<Cue("pregap", PregapAt(d, k)), Cue("track", StartAt(d, k))>>
             l == Len(entries)
  <1>1. /\ PregapAt(d, k) \in Nat
        /\ StartAt(d, k) \in Nat
        /\ Start(d, k) = StartAt(d, k)
    <2>1. Len(d.tracks) \in Nat
      BY DiscShape
    <2>2. k \in 0 .. Len(d.tracks)
      BY <2>1
    <2> QED
      BY <2>2, TracksInOrder
  <1>2. entries \in Seq(Nat) /\ l \in Nat /\ DOMAIN entries = 1 .. l /\ \A e \in 1 .. l : entries[e] \in Nat
    <2>1. entries \in Seq(Nat)
      BY DiscShape
    <2> QED
      BY <2>1, LenProperties, ElementOfSeq
  <1>9. Len(d.tracks) \in Nat
    BY DiscShape
  <1>3. k # 0 /\ k # Len(d.tracks) + 1
    BY <1>9
  <1>4. Subs(d, k) = entries
    BY <1>3 DEF Subs
  <1> HIDE DEF entries, l
  <1>5. subs \in Seq(CueType) /\ Len(subs) = l /\ \A e \in 1 .. l : subs[e] = Cue("subindex", StartAt(d, k) + entries[e])
    <2>1. \A e \in 1 .. l : Cue("subindex", StartAt(d, k) + entries[e]) \in CueType
      BY <1>1, <1>2 DEF Cue, CueType
    <2> QED
      BY <1>2, <2>1
  <1>6. two \in Seq(CueType) /\ Len(two) = 2 /\ two[1] = Cue("pregap", PregapAt(d, k)) /\ two[2] = Cue("track", StartAt(d, k))
    <2>1. Cue("pregap", PregapAt(d, k)) \in CueType /\ Cue("track", StartAt(d, k)) \in CueType
      BY <1>1 DEF Cue, CueType
    <2> QED
      BY <2>1
  <1>7. TrackCues(d, k) = two \o subs
    BY DEF TrackCues, entries
  <1> HIDE DEF two, subs
  <1>8. /\ two \o subs \in Seq(CueType)
        /\ Len(two \o subs) = 2 + l
        /\ \A e \in 1 .. 2 + l : (two \o subs)[e] = IF e <= 2 THEN two[e] ELSE subs[e - 2]
    <2>1. two \o subs \in Seq(CueType) /\ Behind(two, subs, two \o subs)
      BY <1>5, <1>6, Joined
    <2> QED
      BY <1>5, <1>6, <2>1 DEF Behind
  <1>10. LastCol(d, k) = l + 2
    BY <1>4 DEF LastCol, l
  <1>11. ASSUME NEW e \in 1 .. l + 2 PROVE (two \o subs)[e] = CueAt(d, k, e)
    <2>1. e = 1 \/ e = 2 \/ (e > 2 /\ e - 2 \in 1 .. l)
      BY <1>2
    <2>2. CASE e = 1
      BY <1>2, <1>3, <1>6, <1>8, <2>2 DEF CueAt
    <2>3. CASE e = 2
      BY <1>1, <1>2, <1>3, <1>6, <1>8, <2>3 DEF CueAt
    <2>4. CASE e > 2 /\ e - 2 \in 1 .. l
      <3>1. ~(e <= 2) /\ e # 1 /\ e # 2 /\ e \in 1 .. 2 + l
        BY <1>2, <2>4
      <3>2. (two \o subs)[e] = subs[e - 2]
        BY <1>8, <3>1
      <3>3. CueAt(d, k, e) = Cue("subindex", Start(d, k) + Subs(d, k)[e - 2])
        BY <1>3, <3>1 DEF CueAt
      <3> QED
        BY <1>1, <1>4, <1>5, <2>4, <3>2, <3>3
    <2> QED
      BY <2>1, <2>2, <2>3, <2>4
  <1> QED
    BY <1>2, <1>7, <1>8, <1>10, <1>11

\* The cue sheet is laid out so.
LEMMA CuesLaidOut ==
    ASSUME NEW d \in Discs
    PROVE  \E row, col : LaidOut(d, row, col, Len(CueList(d)))
  <1> DEFINE m == Len(d.tracks)
             seqs == [k \in DOMAIN d.tracks |-> TrackCues(d, k)]
             flat == FlattenSeq(seqs)
             l == Len(flat)
             first == <<Cue("track", 0)>>
             last == <<Cue("end", DiscEnd(d))>>
             n == l + 2
  <1>1. m \in Nat /\ DOMAIN d.tracks = 1 .. m
    BY DiscShape
  <1>2. \A k \in 1 .. m : /\ TrackCues(d, k) \in Seq(CueType)
                          /\ Len(TrackCues(d, k)) = LastCol(d, k)
                          /\ LastCol(d, k) \in Nat /\ LastCol(d, k) >= 2
                          /\ \A e \in 1 .. LastCol(d, k) : TrackCues(d, k)[e] = CueAt(d, k, e)
    BY TrackCuesAre
  <1>3. seqs \in Seq(Seq(CueType)) /\ Len(seqs) = m /\ \A k \in 1 .. m : seqs[k] = TrackCues(d, k)
    BY <1>1, <1>2
  <1>4. \A k \in 1 .. m : seqs[k] # <<>>
    <2>1. Len(<<>>) = 0
      BY EmptySeq
    <2> QED
      BY <1>2, <1>3, <2>1
  <1> HIDE DEF seqs
  <1>5. flat \in Seq(CueType) /\ \E row, col : Flat(flat, seqs, m, row, col)
    BY <1>3, FlattenSeqPlaces
  <1>6. l \in Nat
    BY <1>5, LenProperties
  <1> HIDE DEF flat, l
  <1>7. PICK r, c : Flat(flat, seqs, m, r, c)
    BY <1>5
  <1>8. InRows(flat, seqs, m, r, c)
    BY <1>4, <1>7 DEF Flat
  <1>9. /\ r \in [1 .. l -> Nat]
        /\ c \in [1 .. l -> Nat]
        /\ \A p \in 1 .. l : r[p] \in 1 .. m /\ c[p] \in DOMAIN seqs[r[p]] /\ flat[p] = seqs[r[p]][c[p]]
        /\ \A k \in 1 .. m : \A e \in DOMAIN seqs[k] : \E p \in 1 .. l : r[p] = k /\ c[p] = e
        /\ \A p, q \in 1 .. l : r[p] = r[q] /\ c[p] = c[q] => p = q
    BY <1>7 DEF Flat, l
  <1>10. \A k \in 1 .. m : DOMAIN seqs[k] = 1 .. LastCol(d, k) /\ Len(seqs[k]) = LastCol(d, k)
    BY <1>2, <1>3, LenProperties
  <1>11. /\ m > 0 => l > 0 /\ r[1] = 1 /\ c[1] = 1 /\ r[l] = m /\ c[l] = LastCol(d, m)
         /\ \A p \in 1 .. l - 1 :
               IF c[p] < LastCol(d, r[p])
               THEN r[p + 1] = r[p] /\ c[p + 1] = c[p] + 1
               ELSE r[p + 1] = r[p] + 1 /\ c[p + 1] = 1
    <2>1. \A p \in 1 .. l - 1 : r[p] \in 1 .. m
      BY <1>6, <1>9
    <2>2. m > 0 => m \in 1 .. m
      BY <1>1
    <2> QED
      BY <1>8, <1>10, <2>1, <2>2 DEF InRows, l
  <1>12. m = 0 => l = 0
    <2>1. l > 0 => 1 \in 1 .. l
      BY <1>6
    <2> QED
      BY <1>6, <1>9, <2>1
  <1>13. /\ Cue("track", 0) \in CueType
         /\ Cue("end", DiscEnd(d)) \in CueType
    BY TracksInOrder DEF Cue, CueType
  <1>14. /\ CueList(d) \in Seq(CueType)
         /\ Len(CueList(d)) = n
         /\ \A p \in 1 .. n : CueList(d)[p] = IF p = 1 THEN Cue("track", 0)
                                              ELSE IF p = n THEN Cue("end", DiscEnd(d))
                                              ELSE flat[p - 1]
    <2>1. first \in Seq(CueType) /\ Len(first) = 1 /\ first[1] = Cue("track", 0)
      BY <1>13
    <2>2. last \in Seq(CueType) /\ Len(last) = 1 /\ last[1] = Cue("end", DiscEnd(d))
      BY <1>13
    <2>3. CueList(d) = (first \o flat) \o last
      BY DEF CueList, flat, seqs
    <2> HIDE DEF first, last
    <2>4. /\ first \o flat \in Seq(CueType)
          /\ Len(first \o flat) = 1 + l
          /\ \A p \in 1 .. 1 + l : (first \o flat)[p] = IF p <= 1 THEN first[p] ELSE flat[p - 1]
      <3>1. first \o flat \in Seq(CueType) /\ Behind(first, flat, first \o flat)
        BY <1>5, <2>1, Joined
      <3> QED
        BY <2>1, <3>1 DEF Behind, l
    <2> DEFINE head == first \o flat
    <2>5. /\ head \in Seq(CueType)
          /\ Len(head) = 1 + l
          /\ \A p \in 1 .. 1 + l : head[p] = IF p <= 1 THEN first[p] ELSE flat[p - 1]
      BY <2>4
    <2>6. CueList(d) = head \o last
      BY <2>3
    <2> HIDE DEF head
    <2>7. /\ head \o last \in Seq(CueType)
          /\ Len(head \o last) = 1 + l + 1
          /\ \A p \in 1 .. 1 + l + 1 : (head \o last)[p] = IF p <= 1 + l THEN head[p] ELSE last[p - (1 + l)]
      <3>1. head \o last \in Seq(CueType) /\ Behind(head, last, head \o last)
        BY <2>2, <2>5, Joined
      <3> QED
        BY <2>2, <2>5, <3>1 DEF Behind
    <2>8. ASSUME NEW p \in 1 .. n
          PROVE  (head \o last)[p] = IF p = 1 THEN Cue("track", 0)
                                     ELSE IF p = n THEN Cue("end", DiscEnd(d))
                                     ELSE flat[p - 1]
      <3>1. p \in 1 .. 1 + l + 1
        BY <1>6
      <3>2. CASE p = 1
        BY <1>6, <2>1, <2>5, <2>7, <3>1, <3>2
      <3>3. CASE p = n
        <4>1. ~(p <= 1 + l) /\ p - (1 + l) = 1 /\ p # 1
          BY <1>6, <3>3
        <4>2. (head \o last)[p] = last[1]
          BY <2>7, <3>1, <4>1
        <4> QED
          BY <2>2, <3>3, <4>1, <4>2
      <3>4. CASE p # 1 /\ p # n
        BY <1>6, <2>5, <2>7, <3>1, <3>4
      <3> QED
        BY <3>2, <3>3, <3>4
    <2> DEFINE full == head \o last
    <2>9. full \in Seq(CueType) /\ Len(full) = n
      BY <1>6, <2>7
    <2>10. \A p \in 1 .. n : full[p] = IF p = 1 THEN Cue("track", 0)
                                      ELSE IF p = n THEN Cue("end", DiscEnd(d))
                                      ELSE flat[p - 1]
      BY <2>8
    <2>11. CueList(d) = full
      BY <2>6
    <2> HIDE DEF full
    <2> QED
      BY <2>9, <2>10, <2>11
  <1> DEFINE row == [p \in 1 .. n |-> IF p = 1 THEN 0 ELSE IF p = n THEN m + 1 ELSE r[p - 1]]
             col == [p \in 1 .. n |-> IF p = 1 THEN 2 ELSE IF p = n THEN 1 ELSE c[p - 1]]
  <1>15. \A p \in 1 .. n :
            /\ row[p] = IF p = 1 THEN 0 ELSE IF p = n THEN m + 1 ELSE r[p - 1]
            /\ col[p] = IF p = 1 THEN 2 ELSE IF p = n THEN 1 ELSE c[p - 1]
    OBVIOUS
  <1>16. \A p \in 1 .. l : r[p] \in 1 .. m /\ c[p] \in 1 .. LastCol(d, r[p])
    BY <1>9, <1>10
  <1>17. \A p \in 1 .. n : p # 1 /\ p # n => p - 1 \in 1 .. l
    BY <1>6
  <1>18. \A k \in 1 .. m : LastCol(d, k) \in Nat /\ LastCol(d, k) >= 2
    BY <1>2
  <1>19. LastCol(d, 0) = 2
    BY EmptySeq DEF LastCol, Subs
  <1>20. row \in [1 .. n -> 0 .. m + 1] /\ col \in [1 .. n -> Nat \ {0}]
    <2>1. \A p \in 1 .. l : r[p] \in 0 .. m + 1 /\ c[p] \in Nat \ {0}
      BY <1>1, <1>16, <1>18
    <2> HIDE DEF n
    <2> QED
      BY <1>1, <1>17, <2>1
  <1> HIDE DEF row, col
  <1>21. n \in Nat /\ n >= 2 /\ 1 \in 1 .. n /\ n \in 1 .. n /\ n # 1
    BY <1>6
  <1>22. row[1] = 0 /\ col[1] = 2 /\ row[n] = m + 1 /\ col[n] = 1
    <2> HIDE DEF n
    <2> QED
      BY <1>15, <1>21
  <1>23. ASSUME NEW p \in 1 .. n PROVE CueList(d)[p] = CueAt(d, row[p], col[p])
    <2>1. CASE p = 1
      <3>1. Start(d, 0) = 0
        BY TracksInOrder
      <3>2. CueAt(d, 0, 2) = Cue("track", 0)
        BY <1>1, <3>1 DEF CueAt
      <3> QED
        BY <1>14, <1>22, <2>1, <3>2
    <2>2. CASE p = n
      <3>1. CueAt(d, m + 1, 1) = Cue("end", DiscEnd(d))
        BY DEF CueAt
      <3>2. CueList(d)[p] = Cue("end", DiscEnd(d))
        BY <1>14, <1>21, <2>2
      <3> QED
        BY <1>22, <2>2, <3>1, <3>2
    <2>3. CASE p # 1 /\ p # n
      <3>1. p - 1 \in 1 .. l
        BY <1>17, <2>3
      <3>2. CueList(d)[p] = flat[p - 1] /\ row[p] = r[p - 1] /\ col[p] = c[p - 1]
        BY <1>14, <1>15, <2>3
      <3> DEFINE k == r[p - 1]
                 e == c[p - 1]
      <3>3. k \in 1 .. m /\ e \in 1 .. LastCol(d, k) /\ flat[p - 1] = seqs[k][e]
        BY <1>9, <1>16, <3>1
      <3>4. seqs[k][e] = CueAt(d, k, e)
        BY <1>2, <1>3, <3>3
      <3> QED
        BY <3>2, <3>3, <3>4
    <2> QED
      BY <2>1, <2>2, <2>3
  <1>24. ASSUME NEW p \in 1 .. n - 1
         PROVE  /\ row[p] <= m
                /\ col[p] <= LastCol(d, row[p])
                /\ IF col[p] < LastCol(d, row[p])
                   THEN row[p + 1] = row[p] /\ col[p + 1] = col[p] + 1
                   ELSE row[p + 1] = row[p] + 1 /\ col[p + 1] = 1
    <2>1. p \in 1 .. n /\ p + 1 \in 1 .. n /\ p # n /\ p + 1 # 1
      BY <1>21
    <2>2. CASE p = 1 /\ n = 2
      <3>1. l = 0 /\ m = 0
        BY <1>1, <1>6, <1>11, <2>2
      <3>2. row[p + 1] = m + 1 /\ col[p + 1] = 1 /\ row[p] = 0 /\ col[p] = 2
        BY <1>22, <2>2
      <3> QED
        BY <1>19, <3>1, <3>2
    <2>3. CASE p = 1 /\ n # 2
      <3>1. l > 0 /\ m > 0
        BY <1>1, <1>6, <1>12, <2>3
      <3>2. row[2] = r[1] /\ col[2] = c[1]
        <4>1. 2 \in 1 .. n /\ 2 # 1 /\ 2 # n /\ 2 - 1 = 1
          BY <1>21, <2>3
        <4> QED
          BY <1>15, <4>1
      <3> QED
        BY <1>1, <1>11, <1>19, <1>22, <2>3, <3>1, <3>2
    <2>4. CASE p # 1 /\ p = n - 1
      <3>1. p - 1 = l /\ p + 1 = n /\ l \in 1 .. l /\ l > 0
        BY <1>6, <2>4
      <3>2. m > 0
        BY <1>1, <1>12, <3>1
      <3>3. row[p] = r[l] /\ col[p] = c[l]
        BY <1>15, <2>1, <2>4, <3>1
      <3>4. row[p + 1] = m + 1 /\ col[p + 1] = 1
        BY <1>22, <3>1
      <3>5. r[l] = m /\ c[l] = LastCol(d, m) /\ LastCol(d, m) \in Nat
        BY <1>1, <1>11, <1>18, <3>2
      <3> QED
        BY <1>1, <3>3, <3>4, <3>5
    <2>5. CASE p # 1 /\ p # n - 1
      <3>1. p - 1 \in 1 .. l /\ p \in 1 .. l /\ p - 1 \in 1 .. l - 1 /\ p - 1 + 1 = p /\ p + 1 - 1 = p /\ p + 1 # n
        BY <1>6, <2>5
      <3>2. row[p] = r[p - 1] /\ col[p] = c[p - 1] /\ row[p + 1] = r[p] /\ col[p + 1] = c[p]
        <4>1. row[p] = r[p - 1] /\ col[p] = c[p - 1]
          BY <1>15, <2>1, <2>5
        <4>2. row[p + 1] = r[p + 1 - 1] /\ col[p + 1] = c[p + 1 - 1]
          BY <1>15, <2>1, <3>1
        <4> QED
          BY <3>1, <4>1, <4>2
      <3>3. r[p - 1] \in 1 .. m /\ c[p - 1] \in 1 .. LastCol(d, r[p - 1])
        BY <1>16, <3>1
      <3>4. IF c[p - 1] < LastCol(d, r[p - 1])
            THEN r[p - 1 + 1] = r[p - 1] /\ c[p - 1 + 1] = c[p - 1] + 1
            ELSE r[p - 1 + 1] = r[p - 1] + 1 /\ c[p - 1 + 1] = 1
        BY <1>11, <3>1
      <3>5. IF c[p - 1] < LastCol(d, r[p - 1])
            THEN r[p] = r[p - 1] /\ c[p] = c[p - 1] + 1
            ELSE r[p] = r[p - 1] + 1 /\ c[p] = 1
        BY <3>1, <3>4
      <3>6. r[p - 1] <= m /\ c[p - 1] <= LastCol(d, r[p - 1])
        BY <1>18, <3>3
      <3> QED
        BY <3>2, <3>5, <3>6
    <2> QED
      BY <2>2, <2>3, <2>4, <2>5
  <1>25. ASSUME NEW k \in 1 .. m, NEW e \in 1 .. LastCol(d, k)
         PROVE  \E p \in 1 .. n - 1 : row[p] = k /\ col[p] = e
    <2>1. e \in DOMAIN seqs[k]
      BY <1>10
    <2>2. PICK q \in 1 .. l : r[q] = k /\ c[q] = e
      BY <1>9, <2>1
    <2>3. q + 1 \in 1 .. n - 1 /\ q + 1 \in 1 .. n /\ q + 1 # 1 /\ q + 1 # n /\ q + 1 - 1 = q
      BY <1>6
    <2>4. row[q + 1] = r[q + 1 - 1] /\ col[q + 1] = c[q + 1 - 1]
      BY <1>15, <2>3
    <2> QED
      BY <2>2, <2>3, <2>4
  <1>26. ASSUME NEW p \in 1 .. n, NEW q \in 1 .. n, row[p] = row[q], col[p] = col[q]
         PROVE  p = q
    <2>1. \A s \in 1 .. n : s # 1 /\ s # n => row[s] \in 1 .. m /\ row[s] = r[s - 1] /\ col[s] = c[s - 1]
      BY <1>15, <1>16, <1>17
    <2>2. CASE p # 1 /\ p # n /\ q # 1 /\ q # n
      <3>1. r[p - 1] = r[q - 1] /\ c[p - 1] = c[q - 1]
        BY <1>26, <2>1, <2>2
      <3>2. p - 1 \in 1 .. l /\ q - 1 \in 1 .. l
        BY <1>17, <2>2
      <3>3. p - 1 = q - 1
        BY <1>9, <3>1, <3>2
      <3> QED
        BY <1>21, <3>3
    <2>3. CASE p = 1
      BY <1>1, <1>22, <1>26, <2>1, <2>3
    <2>4. CASE p = n
      BY <1>1, <1>22, <1>26, <2>1, <2>4
    <2>5. CASE q = 1
      BY <1>1, <1>22, <1>26, <2>1, <2>5
    <2>6. CASE q = n
      BY <1>1, <1>22, <1>26, <2>1, <2>6
    <2> QED
      BY <2>2, <2>3, <2>4, <2>5, <2>6
  <1> HIDE DEF n
  <1>27. LaidOut(d, row, col, n)
    BY <1>14, <1>20, <1>21, <1>22, <1>23, <1>24, <1>25, <1>26 DEF LaidOut
  <1> QED
    BY <1>14, <1>27

-----------------------------------------------------------------------------
(* Streams.                                                                *)

\* A stream whose file is open and stands where the stream thinks it does, a stream on a
\* disk, and any stream.
OpenAt(f, p) == [pathname |-> f, is_open |-> TRUE, position |-> p, at |-> p]

On(files, stream) == [disk |-> files, sink |-> stream]

Stream(f, open, p, a) == [pathname |-> f, is_open |-> open, position |-> p, at |-> a]

LEMMA StreamsAre ==
    ASSUME NEW f, NEW p
    PROVE  Sink(f) = Stream(f, FALSE, 0, 0) /\ OpenAt(f, p) = Stream(f, TRUE, p, p)
  BY DEF Sink, OpenAt, Stream

\* The assignments of DataStreams.
MovedTo(r, v) == [r EXCEPT !.sink.position = v, !.sink.at = v]
Shut(r) == [r EXCEPT !.sink.is_open = FALSE, !.sink.position = 0, !.sink.at = 0]
Forward(s, size) == [s EXCEPT !.position = @ + size, !.at = @ + size]
WithSink(r, s) == [r EXCEPT !.sink = s]

LEMMA Assigned ==
    /\ \A files, f, p, v : MovedTo(On(files, OpenAt(f, p)), v) = On(files, OpenAt(f, v))
    /\ \A files, f, p : Shut(On(files, OpenAt(f, p))) = On(files, Sink(f))
    /\ \A files, f : Shut(On(files, Sink(f))) = On(files, Sink(f))
    /\ \A f, p, v : Forward(OpenAt(f, p), v) = OpenAt(f, p + v)
    /\ \A files, s, t : WithSink(On(files, s), t) = On(files, t)
  <1> DEFINE Row(f, b, x, y) == [k \in {"pathname", "is_open", "position", "at"} |->
                                   CASE k = "pathname" -> f [] k = "is_open" -> b
                                     [] k = "position" -> x [] k = "at" -> y]
             Two(files, s) == [x \in {"disk", "sink"} |-> IF x = "disk" THEN files ELSE s]
  <1>9. ASSUME NEW f, NEW b, NEW x, NEW y PROVE Stream(f, b, x, y) = Row(f, b, x, y)
    BY DEF Stream
  <1>1. ASSUME NEW f, NEW p PROVE OpenAt(f, p) = Row(f, TRUE, p, p) /\ Sink(f) = Row(f, FALSE, 0, 0)
    <2> HIDE DEF Row
    <2> QED
      BY <1>9, StreamsAre
  <1>2. ASSUME NEW files, NEW s PROVE On(files, s) = Two(files, s)
    BY DEF On
  <1>3. ASSUME NEW files, NEW f, NEW p, NEW v
        PROVE  MovedTo(On(files, OpenAt(f, p)), v) = On(files, OpenAt(f, v))
    <2> DEFINE s == Row(f, TRUE, p, p)
               r == Two(files, s)
    <2>1. [s EXCEPT !.position = v] = Row(f, TRUE, v, p)
      OBVIOUS
    <2>2. [Row(f, TRUE, v, p) EXCEPT !.at = v] = Row(f, TRUE, v, v)
      OBVIOUS
    <2>3. r.sink = s
      OBVIOUS
    <2>4. [r EXCEPT !.sink = Row(f, TRUE, v, v)] = Two(files, Row(f, TRUE, v, v))
      OBVIOUS
    <2> HIDE DEF Row, Two
    <2>5. On(files, OpenAt(f, p)) = r /\ On(files, OpenAt(f, v)) = Two(files, Row(f, TRUE, v, v))
      BY <1>1, <1>2
    <2> HIDE DEF r, s
    <2>6. MovedTo(r, v) = [r EXCEPT !.sink = [[r.sink EXCEPT !.position = v] EXCEPT !.at = v]]
      BY DEF MovedTo
    <2> QED
      BY <2>1, <2>2, <2>3, <2>4, <2>5, <2>6
  <1>4. ASSUME NEW files, NEW s, NEW f, s = Row(f, TRUE, s.position, s.at) \/ s = Row(f, FALSE, s.position, s.at)
        PROVE  Shut(On(files, s)) = On(files, Sink(f))
    <2> DEFINE x == s.position
               y == s.at
               r == Two(files, s)
    <2>1. [s EXCEPT !.is_open = FALSE] = Row(f, FALSE, x, y)
      BY <1>4
    <2> HIDE DEF x, y
    <2>2. [Row(f, FALSE, x, y) EXCEPT !.position = 0] = Row(f, FALSE, 0, y)
      OBVIOUS
    <2>3. [Row(f, FALSE, 0, y) EXCEPT !.at = 0] = Row(f, FALSE, 0, 0)
      OBVIOUS
    <2>4. r.sink = s
      OBVIOUS
    <2>5. [r EXCEPT !.sink = Row(f, FALSE, 0, 0)] = Two(files, Row(f, FALSE, 0, 0))
      OBVIOUS
    <2>6. On(files, s) = r /\ On(files, Sink(f)) = Two(files, Row(f, FALSE, 0, 0))
      BY <1>1, <1>2
    <2> HIDE DEF Row, Two, r
    <2>7. Shut(r) = [r EXCEPT !.sink = [[[r.sink EXCEPT !.is_open = FALSE] EXCEPT !.position = 0] EXCEPT !.at = 0]]
      BY DEF Shut
    <2> QED
      BY <2>1, <2>2, <2>3, <2>4, <2>5, <2>6, <2>7
  <1>5. ASSUME NEW files, NEW f, NEW p
        PROVE  /\ Shut(On(files, OpenAt(f, p))) = On(files, Sink(f))
               /\ Shut(On(files, Sink(f))) = On(files, Sink(f))
    <2>1. OpenAt(f, p).position = p /\ OpenAt(f, p).at = p /\ Sink(f).position = 0 /\ Sink(f).at = 0
      BY DEF OpenAt, Sink
    <2> HIDE DEF Row, Two
    <2>2. OpenAt(f, p) = Row(f, TRUE, p, p) /\ Sink(f) = Row(f, FALSE, 0, 0)
      BY <1>1
    <2> QED
      BY <1>4, <2>1, <2>2
  <1>6. ASSUME NEW f, NEW p, NEW v PROVE Forward(OpenAt(f, p), v) = OpenAt(f, p + v)
    <2> DEFINE s == Row(f, TRUE, p, p)
    <2>1. [s EXCEPT !.position = p + v] = Row(f, TRUE, p + v, p)
      OBVIOUS
    <2>2. [Row(f, TRUE, p + v, p) EXCEPT !.at = p + v] = Row(f, TRUE, p + v, p + v)
      OBVIOUS
    <2>3. s.position = p /\ s.at = p
      OBVIOUS
    <2> HIDE DEF Row
    <2>4. OpenAt(f, p) = s /\ OpenAt(f, p + v) = Row(f, TRUE, p + v, p + v)
      BY <1>1
    <2> HIDE DEF s
    <2>5. Forward(s, v) = [[s EXCEPT !.position = s.position + v] EXCEPT !.at = s.at + v]
      BY DEF Forward
    <2> QED
      BY <2>1, <2>2, <2>3, <2>4, <2>5
  <1>7. ASSUME NEW files, NEW s, NEW t PROVE WithSink(On(files, s), t) = On(files, t)
    <2>1. On(files, s) = Two(files, s) /\ On(files, t) = Two(files, t)
      BY <1>2
    <2>2. [Two(files, s) EXCEPT !.sink = t] = Two(files, t)
      OBVIOUS
    <2> QED
      BY <2>1, <2>2 DEF WithSink
  <1> HIDE DEF Row, Two
  <1>8. \A files, f : Shut(On(files, Sink(f))) = On(files, Sink(f))
    <2> TAKE files, f
    <2>1. \A p : Shut(On(files, OpenAt(f, p))) = On(files, Sink(f)) /\ Shut(On(files, Sink(f))) = On(files, Sink(f))
      BY <1>5
    <2> QED
      BY <2>1
  <1> QED
    BY <1>3, <1>5, <1>6, <1>7, <1>8

\* A seek makes the file if it was not open, and finds it there if it was.
LEMMA SeekIs ==
    ASSUME NEW files, NEW f, NEW p, NEW o
    PROVE  /\ SinkSeek(On(files, Sink(f)), o) = On(Put(files, f, EmptyFile), OpenAt(f, o))
           /\ SinkSeek(On(files, OpenAt(f, p)), o) = On(files, OpenAt(f, o))
  <1>1. ASSUME NEW s, NEW d, NEW q, OpenIfNecessary(s) = On(d, OpenAt(f, q))
        PROVE  SinkSeek(s, o) = On(d, OpenAt(f, o))
    <2> DEFINE r == On(d, OpenAt(f, q))
    <2>1. r.sink.position = q
      BY DEF On, OpenAt
    <2>2. CASE q = o
      BY <1>1, <2>1, <2>2 DEF SinkSeek
    <2>3. CASE q # o
      <3>1. SinkSeek(s, o) = MovedTo(r, o)
        BY <1>1, <2>1, <2>3 DEF SinkSeek, MovedTo
      <3> QED
        BY <3>1, Assigned
    <2> QED
      BY <2>2, <2>3
  <1>2. OpenIfNecessary(On(files, Sink(f))) = On(Put(files, f, EmptyFile), OpenAt(f, 0))
    BY DEF OpenIfNecessary, On, Sink, OpenAt
  <1>3. OpenIfNecessary(On(files, OpenAt(f, p))) = On(files, OpenAt(f, p))
    BY DEF OpenIfNecessary, On, OpenAt
  <1> QED
    BY <1>1, <1>2, <1>3

\* A function.
Whole(file) == file = [x \in DOMAIN file |-> file[x]]

\* What is put is there, and nothing else has changed.
LEMMA PutIs ==
    ASSUME NEW file, NEW o, NEW what
    PROVE  /\ \A x : x \in DOMAIN Put(file, o, what) <=> x \in DOMAIN file \/ x = o
           /\ Put(file, o, what)[o] = what
           /\ \A x \in DOMAIN file : x # o => Put(file, o, what)[x] = file[x]
           /\ Whole(Put(file, o, what))
  BY DEF Put, Whole

LEMMA PutAgain ==
    ASSUME NEW file, NEW o, NEW other, NEW what
    PROVE  Put(Put(file, o, other), o, what) = Put(file, o, what)
  BY DEF Put

\* What is written is behind what was.
LEMMA WriteIs ==
    ASSUME NEW files, Whole(files), NEW f,
           NEW p \in Nat, NEW what, NEW size \in Nat
    PROVE  /\ f \in DOMAIN files =>
                SinkWrite(On(files, OpenAt(f, p)), what, size)
                  = On(Put(files, f, Put(files[f], p, what)), OpenAt(f, p + size))
           /\ SinkWrite(On(files, Sink(f)), what, size)
                = On(Put(files, f, Put(EmptyFile, 0, what)), OpenAt(f, size))
  <1>1. ASSUME NEW s, NEW d, NEW q \in Nat, OpenIfNecessary(s) = On(d, OpenAt(f, q)),
               f \in DOMAIN d, Whole(d)
        PROVE  SinkWrite(s, what, size) = On(Put(d, f, Put(d[f], q, what)), OpenAt(f, q + size))
    <2> DEFINE r == On(d, OpenAt(f, q))
               file == Put(d[f], q, what)
    <2>1. r.sink = OpenAt(f, q) /\ r.disk = d /\ OpenAt(f, q).pathname = f /\ OpenAt(f, q).at = q
      BY DEF On, OpenAt
    <2>2. SinkWrite(s, what, size) = On([d EXCEPT ![f] = file], Forward(OpenAt(f, q), size))
      BY <1>1, <2>1 DEF SinkWrite, Forward, On
    <2> HIDE DEF file
    <2>3. [d EXCEPT ![f] = file] = Put(d, f, file)
      <3>1. [d EXCEPT ![f] = file] = [x \in DOMAIN d |-> IF x = f THEN file ELSE d[x]]
        BY <1>1 DEF Whole
      <3>2. DOMAIN d \cup {f} = DOMAIN d
        BY <1>1
      <3> QED
        BY <3>1, <3>2 DEF Put
    <2>4. Forward(OpenAt(f, q), size) = OpenAt(f, q + size)
      BY Assigned
    <2> QED
      BY <2>2, <2>3, <2>4 DEF file
  <1>2. f \in DOMAIN files =>
           SinkWrite(On(files, OpenAt(f, p)), what, size)
             = On(Put(files, f, Put(files[f], p, what)), OpenAt(f, p + size))
    <2>1. OpenIfNecessary(On(files, OpenAt(f, p))) = On(files, OpenAt(f, p))
      BY DEF OpenIfNecessary, On, OpenAt
    <2> QED
      BY <1>1, <2>1
  <1>3. SinkWrite(On(files, Sink(f)), what, size)
          = On(Put(files, f, Put(EmptyFile, 0, what)), OpenAt(f, size))
    <2> DEFINE new == Put(files, f, EmptyFile)
    <2>1. OpenIfNecessary(On(files, Sink(f))) = On(new, OpenAt(f, 0))
      BY DEF OpenIfNecessary, On, Sink, OpenAt
    <2> HIDE DEF EmptyFile
    <2>2. f \in DOMAIN new /\ new[f] = EmptyFile /\ Whole(new)
      BY PutIs
    <2> DEFINE file == Put(EmptyFile, 0, what)
    <2>3. Put(new, f, file) = Put(files, f, file)
      <3> HIDE DEF file
      <3> QED
        BY PutAgain
    <2>4. 0 \in Nat /\ 0 + size = size
      OBVIOUS
    <2> HIDE DEF new
    <2>5. SinkWrite(On(files, Sink(f)), what, size)
            = On(Put(new, f, Put(new[f], 0, what)), OpenAt(f, 0 + size))
      BY <1>1, <2>1, <2>2, <2>4
    <2> QED
      BY <2>2, <2>3, <2>4, <2>5
  <1> QED
    BY <1>2, <1>3

LEMMA CloseIs ==
    ASSUME NEW files, NEW f, NEW p
    PROVE  /\ SinkClose(On(files, OpenAt(f, p))) = On(files, Sink(f))
           /\ SinkDestroy(On(files, OpenAt(f, p))) = On(files, NoSink)
           /\ SinkDestroy(On(files, Sink(f))) = On(files, NoSink)
           /\ SinkDestroy(On(files, NoSink)) = On(files, NoSink)
  <1>1. \A r : SinkClose(r) = Shut(r) /\ SinkDestroy(r) = WithSink(Shut(r), NoSink)
    BY DEF SinkClose, SinkDestroy, Shut, WithSink
  <1>2. Shut(On(files, OpenAt(f, p))) = On(files, Sink(f))
    BY Assigned
  <1>3. Shut(On(files, Sink(f))) = On(files, Sink(f))
    BY Assigned
  <1>4. \E g : NoSink = Sink(g)
    BY DEF NoSink
  <1>5. \A s : WithSink(On(files, s), NoSink) = On(files, NoSink)
    BY Assigned
  <1>6. Shut(On(files, NoSink)) = On(files, NoSink)
    BY <1>4, Assigned
  <1> QED
    BY <1>1, <1>2, <1>3, <1>5, <1>6

-----------------------------------------------------------------------------
(* The folds of the sinks.                                                 *)

\* SinkPrintf over the lines of a text.
PrintOf(base, seq) == FoldLeft(SinkPrintf, base, seq)

\* The function that the fold over the lines of a text computes with.
PrintIter(iter, base, seq, n) ==
    iter = [s \in SUBSET (1 .. n) |->
              IF s = {} THEN base ELSE SinkPrintf(iter[s \ {Max(s)}], seq[Max(s)])]

\* It stays in G; run[k] is what it has behind element k.
PrintInto(G, E) == \A s \in G : \A e \in E : SinkPrintf(s, e) \in G

PrintRun(run, base, seq) ==
    /\ run[0] = base
    /\ \A k \in 1 .. Len(seq) : run[k] = SinkPrintf(run[k - 1], seq[k])
    /\ PrintOf(base, seq) = run[Len(seq)]

\* The fold over the lines of a text goes from element to element.
LEMMA PrintRuns ==
    ASSUME NEW E, NEW seq \in Seq(E), NEW G, NEW base \in G, PrintInto(G, E)
    PROVE  \E run \in [0 .. Len(seq) -> G] : PrintRun(run, base, seq)
  <1> DEFINE n == Len(seq)
             step == [k \in 1 .. n |-> [s \in G |-> SinkPrintf(s, seq[k])]]
             iter == CHOOSE f : PrintIter(f, base, seq, n)
             run == [k \in 0 .. n |-> iter[1 .. k]]
  <1>1. n \in Nat /\ DOMAIN seq = 1 .. n /\ \A k \in 1 .. n : seq[k] \in E
    BY LenProperties, ElementOfSeq
  <1>2. PrintOf(base, seq) = iter[1 .. n]
    BY <1>1 DEF PrintOf, FoldLeft, MapThenFoldSet, PrintIter
  <1>3. \E f : PrintIter(f, base, seq, n)
    <2>1. step \in [1 .. n -> [G -> G]]
      BY <1>1 DEF PrintInto
    <2>2. \A k \in 1 .. n : \A s \in G : step[k][s] = SinkPrintf(s, seq[k])
      OBVIOUS
    <2> HIDE DEF step, n, iter
    <2>3. PICK f \in [SUBSET (1 .. n) -> G] : Folds(f, base, step, n)
      BY <1>1, <2>1, FoldExists DEF HasFold
    <2>4. ASSUME NEW s \in SUBSET (1 .. n)
          PROVE  f[s] = IF s = {} THEN base ELSE SinkPrintf(f[s \ {Max(s)}], seq[Max(s)])
      <3>1. f[s] = IF s = {} THEN base ELSE step[Max(s)][f[s \ {Max(s)}]]
        BY <2>3 DEF Folds
      <3>2. CASE s # {}
        <4>1. Max(s) \in 1 .. n
          BY <1>1, <3>2, LastPlace
        <4>2. f[s \ {Max(s)}] \in G
          BY <2>3
        <4> QED
          BY <2>2, <3>1, <3>2, <4>1, <4>2
      <3> QED
        BY <3>1, <3>2
    <2>5. f = [s \in SUBSET (1 .. n) |-> f[s]]
      BY <2>3
    <2> QED
      BY <2>4, <2>5 DEF PrintIter
  <1>4. PrintIter(iter, base, seq, n)
    BY <1>3
  <1> HIDE DEF iter, n, step
  <1>5. iter[1 .. 0] = base
    <2>1. 1 .. 0 \in SUBSET (1 .. n) /\ 1 .. 0 = {}
      OBVIOUS
    <2> QED
      BY <1>4, <2>1 DEF PrintIter
  <1>6. ASSUME NEW k \in Nat, k + 1 <= n
        PROVE  iter[1 .. k + 1] = SinkPrintf(iter[1 .. k], seq[k + 1])
    <2>1. /\ 1 .. k + 1 \in SUBSET (1 .. n)
          /\ 1 .. k + 1 # {}
          /\ Max(1 .. k + 1) = k + 1
          /\ (1 .. k + 1) \ {Max(1 .. k + 1)} = 1 .. k
      BY <1>1, <1>6, FirstPlaces
    <2> QED
      BY <1>4, <2>1 DEF PrintIter
  <1>7. run[0] = base /\ run[n] = iter[1 .. n]
    BY <1>1, <1>5
  <1>8. \A k \in 1 .. n : run[k] = SinkPrintf(run[k - 1], seq[k])
    <2> SUFFICES ASSUME NEW k \in 1 .. n PROVE run[k] = SinkPrintf(run[k - 1], seq[k])
      OBVIOUS
    <2>1. k - 1 \in Nat /\ k - 1 + 1 = k /\ k <= n /\ k - 1 \in 0 .. n /\ k \in 0 .. n
      BY <1>1
    <2>2. iter[1 .. k - 1 + 1] = SinkPrintf(iter[1 .. k - 1], seq[k - 1 + 1])
      BY <1>6, <2>1
    <2> QED
      BY <2>1, <2>2
  <1> DEFINE T == {k \in Nat : k <= n => run[k] \in G}
  <1> HIDE DEF run
  <1>9. ASSUME NEW k \in Nat, k \in T PROVE k + 1 \in T
    <2>1. k + 1 <= n => k \in 0 .. n /\ k + 1 \in 1 .. n /\ k + 1 - 1 = k /\ k <= n
      BY <1>1
    <2>2. k + 1 <= n => seq[k + 1] \in E
      BY <1>1, <2>1
    <2>3. k + 1 <= n => run[k + 1] = SinkPrintf(run[k], seq[k + 1])
      BY <1>8, <2>1
    <2> QED
      BY <1>9, <2>1, <2>2, <2>3 DEF PrintInto
  <1>10. 0 \in T
    BY <1>7
  <1> HIDE DEF T
  <1>11. Nat \subseteq T
    BY <1>9, <1>10, NatSetInduction
  <1>12. run \in [0 .. n -> G]
    <2>1. \A k \in 0 .. n : k \in T /\ k <= n
      BY <1>1, <1>11
    <2>2. \A k \in 0 .. n : run[k] \in G
      BY <2>1 DEF T
    <2>3. run = [k \in 0 .. n |-> run[k]]
      BY DEF run
    <2> QED
      BY <2>2, <2>3
  <1> QED
    BY <1>2, <1>7, <1>8, <1>12 DEF n, PrintRun

\* BinCueLines over the cues.
SheetOf(base, seq, size) == FoldLeft(LAMBDA s, e : BinCueLines(s, e, size), base, seq)

\* The function that the fold over the cues of a BIN/CUE sheet computes with.
SheetIter(iter, base, seq, n, size) ==
    iter = [s \in SUBSET (1 .. n) |->
              IF s = {} THEN base ELSE BinCueLines(iter[s \ {Max(s)}], seq[Max(s)], size)]

\* It stays in G; run[k] is what it has behind element k.
SheetInto(G, E, size) == \A s \in G : \A e \in E : BinCueLines(s, e, size) \in G

SheetRun(run, base, seq, size) ==
    /\ run[0] = base
    /\ \A k \in 1 .. Len(seq) : run[k] = BinCueLines(run[k - 1], seq[k], size)
    /\ SheetOf(base, seq, size) = run[Len(seq)]

\* The fold over the cues of a BIN/CUE sheet goes from element to element.
LEMMA SheetRuns ==
    ASSUME NEW E, NEW seq \in Seq(E), NEW G, NEW base \in G, NEW size, SheetInto(G, E, size)
    PROVE  \E run \in [0 .. Len(seq) -> G] : SheetRun(run, base, seq, size)
  <1> DEFINE n == Len(seq)
             step == [k \in 1 .. n |-> [s \in G |-> BinCueLines(s, seq[k], size)]]
             iter == CHOOSE f : SheetIter(f, base, seq, n, size)
             run == [k \in 0 .. n |-> iter[1 .. k]]
  <1>1. n \in Nat /\ DOMAIN seq = 1 .. n /\ \A k \in 1 .. n : seq[k] \in E
    BY LenProperties, ElementOfSeq
  <1>2. SheetOf(base, seq, size) = iter[1 .. n]
    BY <1>1 DEF SheetOf, FoldLeft, MapThenFoldSet, SheetIter
  <1>3. \E f : SheetIter(f, base, seq, n, size)
    <2>1. step \in [1 .. n -> [G -> G]]
      BY <1>1 DEF SheetInto
    <2>2. \A k \in 1 .. n : \A s \in G : step[k][s] = BinCueLines(s, seq[k], size)
      OBVIOUS
    <2> HIDE DEF step, n, iter
    <2>3. PICK f \in [SUBSET (1 .. n) -> G] : Folds(f, base, step, n)
      BY <1>1, <2>1, FoldExists DEF HasFold
    <2>4. ASSUME NEW s \in SUBSET (1 .. n)
          PROVE  f[s] = IF s = {} THEN base ELSE BinCueLines(f[s \ {Max(s)}], seq[Max(s)], size)
      <3>1. f[s] = IF s = {} THEN base ELSE step[Max(s)][f[s \ {Max(s)}]]
        BY <2>3 DEF Folds
      <3>2. CASE s # {}
        <4>1. Max(s) \in 1 .. n
          BY <1>1, <3>2, LastPlace
        <4>2. f[s \ {Max(s)}] \in G
          BY <2>3
        <4> QED
          BY <2>2, <3>1, <3>2, <4>1, <4>2
      <3> QED
        BY <3>1, <3>2
    <2>5. f = [s \in SUBSET (1 .. n) |-> f[s]]
      BY <2>3
    <2> QED
      BY <2>4, <2>5 DEF SheetIter
  <1>4. SheetIter(iter, base, seq, n, size)
    BY <1>3
  <1> HIDE DEF iter, n, step
  <1>5. iter[1 .. 0] = base
    <2>1. 1 .. 0 \in SUBSET (1 .. n) /\ 1 .. 0 = {}
      OBVIOUS
    <2> QED
      BY <1>4, <2>1 DEF SheetIter
  <1>6. ASSUME NEW k \in Nat, k + 1 <= n
        PROVE  iter[1 .. k + 1] = BinCueLines(iter[1 .. k], seq[k + 1], size)
    <2>1. /\ 1 .. k + 1 \in SUBSET (1 .. n)
          /\ 1 .. k + 1 # {}
          /\ Max(1 .. k + 1) = k + 1
          /\ (1 .. k + 1) \ {Max(1 .. k + 1)} = 1 .. k
      BY <1>1, <1>6, FirstPlaces
    <2> QED
      BY <1>4, <2>1 DEF SheetIter
  <1>7. run[0] = base /\ run[n] = iter[1 .. n]
    BY <1>1, <1>5
  <1>8. \A k \in 1 .. n : run[k] = BinCueLines(run[k - 1], seq[k], size)
    <2> SUFFICES ASSUME NEW k \in 1 .. n PROVE run[k] = BinCueLines(run[k - 1], seq[k], size)
      OBVIOUS
    <2>1. k - 1 \in Nat /\ k - 1 + 1 = k /\ k <= n /\ k - 1 \in 0 .. n /\ k \in 0 .. n
      BY <1>1
    <2>2. iter[1 .. k - 1 + 1] = BinCueLines(iter[1 .. k - 1], seq[k - 1 + 1], size)
      BY <1>6, <2>1
    <2> QED
      BY <2>1, <2>2
  <1> DEFINE T == {k \in Nat : k <= n => run[k] \in G}
  <1> HIDE DEF run
  <1>9. ASSUME NEW k \in Nat, k \in T PROVE k + 1 \in T
    <2>1. k + 1 <= n => k \in 0 .. n /\ k + 1 \in 1 .. n /\ k + 1 - 1 = k /\ k <= n
      BY <1>1
    <2>2. k + 1 <= n => seq[k + 1] \in E
      BY <1>1, <2>1
    <2>3. k + 1 <= n => run[k + 1] = BinCueLines(run[k], seq[k + 1], size)
      BY <1>8, <2>1
    <2> QED
      BY <1>9, <2>1, <2>2, <2>3 DEF SheetInto
  <1>10. 0 \in T
    BY <1>7
  <1> HIDE DEF T
  <1>11. Nat \subseteq T
    BY <1>9, <1>10, NatSetInduction
  <1>12. run \in [0 .. n -> G]
    <2>1. \A k \in 0 .. n : k \in T /\ k <= n
      BY <1>1, <1>11
    <2>2. \A k \in 0 .. n : run[k] \in G
      BY <2>1 DEF T
    <2>3. run = [k \in 0 .. n |-> run[k]]
      BY DEF run
    <2> QED
      BY <2>2, <2>3
  <1> QED
    BY <1>2, <1>7, <1>8, <1>12 DEF n, SheetRun

\* CdrdaoLines over the cues.
TocOf(base, seq, size) == FoldLeft(LAMBDA s, e : CdrdaoLines(s, e, size), base, seq)

\* The function that the fold over the cues of a table of contents computes with.
TocIter(iter, base, seq, n, size) ==
    iter = [s \in SUBSET (1 .. n) |->
              IF s = {} THEN base ELSE CdrdaoLines(iter[s \ {Max(s)}], seq[Max(s)], size)]

\* It stays in G; run[k] is what it has behind element k.
TocInto(G, E, size) == \A s \in G : \A e \in E : CdrdaoLines(s, e, size) \in G

TocRun(run, base, seq, size) ==
    /\ run[0] = base
    /\ \A k \in 1 .. Len(seq) : run[k] = CdrdaoLines(run[k - 1], seq[k], size)
    /\ TocOf(base, seq, size) = run[Len(seq)]

\* The fold over the cues of a table of contents goes from element to element.
LEMMA TocRuns ==
    ASSUME NEW E, NEW seq \in Seq(E), NEW G, NEW base \in G, NEW size, TocInto(G, E, size)
    PROVE  \E run \in [0 .. Len(seq) -> G] : TocRun(run, base, seq, size)
  <1> DEFINE n == Len(seq)
             step == [k \in 1 .. n |-> [s \in G |-> CdrdaoLines(s, seq[k], size)]]
             iter == CHOOSE f : TocIter(f, base, seq, n, size)
             run == [k \in 0 .. n |-> iter[1 .. k]]
  <1>1. n \in Nat /\ DOMAIN seq = 1 .. n /\ \A k \in 1 .. n : seq[k] \in E
    BY LenProperties, ElementOfSeq
  <1>2. TocOf(base, seq, size) = iter[1 .. n]
    BY <1>1 DEF TocOf, FoldLeft, MapThenFoldSet, TocIter
  <1>3. \E f : TocIter(f, base, seq, n, size)
    <2>1. step \in [1 .. n -> [G -> G]]
      BY <1>1 DEF TocInto
    <2>2. \A k \in 1 .. n : \A s \in G : step[k][s] = CdrdaoLines(s, seq[k], size)
      OBVIOUS
    <2> HIDE DEF step, n, iter
    <2>3. PICK f \in [SUBSET (1 .. n) -> G] : Folds(f, base, step, n)
      BY <1>1, <2>1, FoldExists DEF HasFold
    <2>4. ASSUME NEW s \in SUBSET (1 .. n)
          PROVE  f[s] = IF s = {} THEN base ELSE CdrdaoLines(f[s \ {Max(s)}], seq[Max(s)], size)
      <3>1. f[s] = IF s = {} THEN base ELSE step[Max(s)][f[s \ {Max(s)}]]
        BY <2>3 DEF Folds
      <3>2. CASE s # {}
        <4>1. Max(s) \in 1 .. n
          BY <1>1, <3>2, LastPlace
        <4>2. f[s \ {Max(s)}] \in G
          BY <2>3
        <4> QED
          BY <2>2, <3>1, <3>2, <4>1, <4>2
      <3> QED
        BY <3>1, <3>2
    <2>5. f = [s \in SUBSET (1 .. n) |-> f[s]]
      BY <2>3
    <2> QED
      BY <2>4, <2>5 DEF TocIter
  <1>4. TocIter(iter, base, seq, n, size)
    BY <1>3
  <1> HIDE DEF iter, n, step
  <1>5. iter[1 .. 0] = base
    <2>1. 1 .. 0 \in SUBSET (1 .. n) /\ 1 .. 0 = {}
      OBVIOUS
    <2> QED
      BY <1>4, <2>1 DEF TocIter
  <1>6. ASSUME NEW k \in Nat, k + 1 <= n
        PROVE  iter[1 .. k + 1] = CdrdaoLines(iter[1 .. k], seq[k + 1], size)
    <2>1. /\ 1 .. k + 1 \in SUBSET (1 .. n)
          /\ 1 .. k + 1 # {}
          /\ Max(1 .. k + 1) = k + 1
          /\ (1 .. k + 1) \ {Max(1 .. k + 1)} = 1 .. k
      BY <1>1, <1>6, FirstPlaces
    <2> QED
      BY <1>4, <2>1 DEF TocIter
  <1>7. run[0] = base /\ run[n] = iter[1 .. n]
    BY <1>1, <1>5
  <1>8. \A k \in 1 .. n : run[k] = CdrdaoLines(run[k - 1], seq[k], size)
    <2> SUFFICES ASSUME NEW k \in 1 .. n PROVE run[k] = CdrdaoLines(run[k - 1], seq[k], size)
      OBVIOUS
    <2>1. k - 1 \in Nat /\ k - 1 + 1 = k /\ k <= n /\ k - 1 \in 0 .. n /\ k \in 0 .. n
      BY <1>1
    <2>2. iter[1 .. k - 1 + 1] = CdrdaoLines(iter[1 .. k - 1], seq[k - 1 + 1], size)
      BY <1>6, <2>1
    <2> QED
      BY <2>1, <2>2
  <1> DEFINE T == {k \in Nat : k <= n => run[k] \in G}
  <1> HIDE DEF run
  <1>9. ASSUME NEW k \in Nat, k \in T PROVE k + 1 \in T
    <2>1. k + 1 <= n => k \in 0 .. n /\ k + 1 \in 1 .. n /\ k + 1 - 1 = k /\ k <= n
      BY <1>1
    <2>2. k + 1 <= n => seq[k + 1] \in E
      BY <1>1, <2>1
    <2>3. k + 1 <= n => run[k + 1] = CdrdaoLines(run[k], seq[k + 1], size)
      BY <1>8, <2>1
    <2> QED
      BY <1>9, <2>1, <2>2, <2>3 DEF TocInto
  <1>10. 0 \in T
    BY <1>7
  <1> HIDE DEF T
  <1>11. Nat \subseteq T
    BY <1>9, <1>10, NatSetInduction
  <1>12. run \in [0 .. n -> G]
    <2>1. \A k \in 0 .. n : k \in T /\ k <= n
      BY <1>1, <1>11
    <2>2. \A k \in 0 .. n : run[k] \in G
      BY <2>1 DEF T
    <2>3. run = [k \in 0 .. n |-> run[k]]
      BY DEF run
    <2> QED
      BY <2>2, <2>3
  <1> QED
    BY <1>2, <1>7, <1>8, <1>12 DEF n, TocRun

\* Part over the cues.
WalkOf(base, seq, lsn) == FoldLeft(LAMBDA s, e : Part(s, e, lsn), base, seq)

\* The function that the fold over the cues before a sector computes with.
WalkIter(iter, base, seq, n, lsn) ==
    iter = [s \in SUBSET (1 .. n) |->
              IF s = {} THEN base ELSE Part(iter[s \ {Max(s)}], seq[Max(s)], lsn)]

\* It stays in G; run[k] is what it has behind element k.
WalkInto(G, E, lsn) == \A s \in G : \A e \in E : Part(s, e, lsn) \in G

WalkRun(run, base, seq, lsn) ==
    /\ run[0] = base
    /\ \A k \in 1 .. Len(seq) : run[k] = Part(run[k - 1], seq[k], lsn)
    /\ WalkOf(base, seq, lsn) = run[Len(seq)]

\* The fold over the cues before a sector goes from element to element.
LEMMA WalkRuns ==
    ASSUME NEW E, NEW seq \in Seq(E), NEW G, NEW base \in G, NEW lsn, WalkInto(G, E, lsn)
    PROVE  \E run \in [0 .. Len(seq) -> G] : WalkRun(run, base, seq, lsn)
  <1> DEFINE n == Len(seq)
             step == [k \in 1 .. n |-> [s \in G |-> Part(s, seq[k], lsn)]]
             iter == CHOOSE f : WalkIter(f, base, seq, n, lsn)
             run == [k \in 0 .. n |-> iter[1 .. k]]
  <1>1. n \in Nat /\ DOMAIN seq = 1 .. n /\ \A k \in 1 .. n : seq[k] \in E
    BY LenProperties, ElementOfSeq
  <1>2. WalkOf(base, seq, lsn) = iter[1 .. n]
    BY <1>1 DEF WalkOf, FoldLeft, MapThenFoldSet, WalkIter
  <1>3. \E f : WalkIter(f, base, seq, n, lsn)
    <2>1. step \in [1 .. n -> [G -> G]]
      BY <1>1 DEF WalkInto
    <2>2. \A k \in 1 .. n : \A s \in G : step[k][s] = Part(s, seq[k], lsn)
      OBVIOUS
    <2> HIDE DEF step, n, iter
    <2>3. PICK f \in [SUBSET (1 .. n) -> G] : Folds(f, base, step, n)
      BY <1>1, <2>1, FoldExists DEF HasFold
    <2>4. ASSUME NEW s \in SUBSET (1 .. n)
          PROVE  f[s] = IF s = {} THEN base ELSE Part(f[s \ {Max(s)}], seq[Max(s)], lsn)
      <3>1. f[s] = IF s = {} THEN base ELSE step[Max(s)][f[s \ {Max(s)}]]
        BY <2>3 DEF Folds
      <3>2. CASE s # {}
        <4>1. Max(s) \in 1 .. n
          BY <1>1, <3>2, LastPlace
        <4>2. f[s \ {Max(s)}] \in G
          BY <2>3
        <4> QED
          BY <2>2, <3>1, <3>2, <4>1, <4>2
      <3> QED
        BY <3>1, <3>2
    <2>5. f = [s \in SUBSET (1 .. n) |-> f[s]]
      BY <2>3
    <2> QED
      BY <2>4, <2>5 DEF WalkIter
  <1>4. WalkIter(iter, base, seq, n, lsn)
    BY <1>3
  <1> HIDE DEF iter, n, step
  <1>5. iter[1 .. 0] = base
    <2>1. 1 .. 0 \in SUBSET (1 .. n) /\ 1 .. 0 = {}
      OBVIOUS
    <2> QED
      BY <1>4, <2>1 DEF WalkIter
  <1>6. ASSUME NEW k \in Nat, k + 1 <= n
        PROVE  iter[1 .. k + 1] = Part(iter[1 .. k], seq[k + 1], lsn)
    <2>1. /\ 1 .. k + 1 \in SUBSET (1 .. n)
          /\ 1 .. k + 1 # {}
          /\ Max(1 .. k + 1) = k + 1
          /\ (1 .. k + 1) \ {Max(1 .. k + 1)} = 1 .. k
      BY <1>1, <1>6, FirstPlaces
    <2> QED
      BY <1>4, <2>1 DEF WalkIter
  <1>7. run[0] = base /\ run[n] = iter[1 .. n]
    BY <1>1, <1>5
  <1>8. \A k \in 1 .. n : run[k] = Part(run[k - 1], seq[k], lsn)
    <2> SUFFICES ASSUME NEW k \in 1 .. n PROVE run[k] = Part(run[k - 1], seq[k], lsn)
      OBVIOUS
    <2>1. k - 1 \in Nat /\ k - 1 + 1 = k /\ k <= n /\ k - 1 \in 0 .. n /\ k \in 0 .. n
      BY <1>1
    <2>2. iter[1 .. k - 1 + 1] = Part(iter[1 .. k - 1], seq[k - 1 + 1], lsn)
      BY <1>6, <2>1
    <2> QED
      BY <2>1, <2>2
  <1> DEFINE T == {k \in Nat : k <= n => run[k] \in G}
  <1> HIDE DEF run
  <1>9. ASSUME NEW k \in Nat, k \in T PROVE k + 1 \in T
    <2>1. k + 1 <= n => k \in 0 .. n /\ k + 1 \in 1 .. n /\ k + 1 - 1 = k /\ k <= n
      BY <1>1
    <2>2. k + 1 <= n => seq[k + 1] \in E
      BY <1>1, <2>1
    <2>3. k + 1 <= n => run[k + 1] = Part(run[k], seq[k + 1], lsn)
      BY <1>8, <2>1
    <2> QED
      BY <1>9, <2>1, <2>2, <2>3 DEF WalkInto
  <1>10. 0 \in T
    BY <1>7
  <1> HIDE DEF T
  <1>11. Nat \subseteq T
    BY <1>9, <1>10, NatSetInduction
  <1>12. run \in [0 .. n -> G]
    <2>1. \A k \in 0 .. n : k \in T /\ k <= n
      BY <1>1, <1>11
    <2>2. \A k \in 0 .. n : run[k] \in G
      BY <2>1 DEF T
    <2>3. run = [k \in 0 .. n |-> run[k]]
      BY DEF run
    <2> QED
      BY <2>2, <2>3
  <1> QED
    BY <1>2, <1>7, <1>8, <1>12 DEF n, WalkRun

\* Mapped over the cues.
MapOf(base, seq, lsn) == FoldLeft(LAMBDA s, e : Mapped(s, e, lsn), base, seq)

\* The function that the fold over the cues _map walks computes with.
MapIter(iter, base, seq, n, lsn) ==
    iter = [s \in SUBSET (1 .. n) |->
              IF s = {} THEN base ELSE Mapped(iter[s \ {Max(s)}], seq[Max(s)], lsn)]

\* It stays in G; run[k] is what it has behind element k.
MapInto(G, E, lsn) == \A s \in G : \A e \in E : Mapped(s, e, lsn) \in G

MapRun(run, base, seq, lsn) ==
    /\ run[0] = base
    /\ \A k \in 1 .. Len(seq) : run[k] = Mapped(run[k - 1], seq[k], lsn)
    /\ MapOf(base, seq, lsn) = run[Len(seq)]

\* The fold over the cues _map walks goes from element to element.
LEMMA MapRuns ==
    ASSUME NEW E, NEW seq \in Seq(E), NEW G, NEW base \in G, NEW lsn, MapInto(G, E, lsn)
    PROVE  \E run \in [0 .. Len(seq) -> G] : MapRun(run, base, seq, lsn)
  <1> DEFINE n == Len(seq)
             step == [k \in 1 .. n |-> [s \in G |-> Mapped(s, seq[k], lsn)]]
             iter == CHOOSE f : MapIter(f, base, seq, n, lsn)
             run == [k \in 0 .. n |-> iter[1 .. k]]
  <1>1. n \in Nat /\ DOMAIN seq = 1 .. n /\ \A k \in 1 .. n : seq[k] \in E
    BY LenProperties, ElementOfSeq
  <1>2. MapOf(base, seq, lsn) = iter[1 .. n]
    BY <1>1 DEF MapOf, FoldLeft, MapThenFoldSet, MapIter
  <1>3. \E f : MapIter(f, base, seq, n, lsn)
    <2>1. step \in [1 .. n -> [G -> G]]
      BY <1>1 DEF MapInto
    <2>2. \A k \in 1 .. n : \A s \in G : step[k][s] = Mapped(s, seq[k], lsn)
      OBVIOUS
    <2> HIDE DEF step, n, iter
    <2>3. PICK f \in [SUBSET (1 .. n) -> G] : Folds(f, base, step, n)
      BY <1>1, <2>1, FoldExists DEF HasFold
    <2>4. ASSUME NEW s \in SUBSET (1 .. n)
          PROVE  f[s] = IF s = {} THEN base ELSE Mapped(f[s \ {Max(s)}], seq[Max(s)], lsn)
      <3>1. f[s] = IF s = {} THEN base ELSE step[Max(s)][f[s \ {Max(s)}]]
        BY <2>3 DEF Folds
      <3>2. CASE s # {}
        <4>1. Max(s) \in 1 .. n
          BY <1>1, <3>2, LastPlace
        <4>2. f[s \ {Max(s)}] \in G
          BY <2>3
        <4> QED
          BY <2>2, <3>1, <3>2, <4>1, <4>2
      <3> QED
        BY <3>1, <3>2
    <2>5. f = [s \in SUBSET (1 .. n) |-> f[s]]
      BY <2>3
    <2> QED
      BY <2>4, <2>5 DEF MapIter
  <1>4. MapIter(iter, base, seq, n, lsn)
    BY <1>3
  <1> HIDE DEF iter, n, step
  <1>5. iter[1 .. 0] = base
    <2>1. 1 .. 0 \in SUBSET (1 .. n) /\ 1 .. 0 = {}
      OBVIOUS
    <2> QED
      BY <1>4, <2>1 DEF MapIter
  <1>6. ASSUME NEW k \in Nat, k + 1 <= n
        PROVE  iter[1 .. k + 1] = Mapped(iter[1 .. k], seq[k + 1], lsn)
    <2>1. /\ 1 .. k + 1 \in SUBSET (1 .. n)
          /\ 1 .. k + 1 # {}
          /\ Max(1 .. k + 1) = k + 1
          /\ (1 .. k + 1) \ {Max(1 .. k + 1)} = 1 .. k
      BY <1>1, <1>6, FirstPlaces
    <2> QED
      BY <1>4, <2>1 DEF MapIter
  <1>7. run[0] = base /\ run[n] = iter[1 .. n]
    BY <1>1, <1>5
  <1>8. \A k \in 1 .. n : run[k] = Mapped(run[k - 1], seq[k], lsn)
    <2> SUFFICES ASSUME NEW k \in 1 .. n PROVE run[k] = Mapped(run[k - 1], seq[k], lsn)
      OBVIOUS
    <2>1. k - 1 \in Nat /\ k - 1 + 1 = k /\ k <= n /\ k - 1 \in 0 .. n /\ k \in 0 .. n
      BY <1>1
    <2>2. iter[1 .. k - 1 + 1] = Mapped(iter[1 .. k - 1], seq[k - 1 + 1], lsn)
      BY <1>6, <2>1
    <2> QED
      BY <2>1, <2>2
  <1> DEFINE T == {k \in Nat : k <= n => run[k] \in G}
  <1> HIDE DEF run
  <1>9. ASSUME NEW k \in Nat, k \in T PROVE k + 1 \in T
    <2>1. k + 1 <= n => k \in 0 .. n /\ k + 1 \in 1 .. n /\ k + 1 - 1 = k /\ k <= n
      BY <1>1
    <2>2. k + 1 <= n => seq[k + 1] \in E
      BY <1>1, <2>1
    <2>3. k + 1 <= n => run[k + 1] = Mapped(run[k], seq[k + 1], lsn)
      BY <1>8, <2>1
    <2> QED
      BY <1>9, <2>1, <2>2, <2>3 DEF MapInto
  <1>10. 0 \in T
    BY <1>7
  <1> HIDE DEF T
  <1>11. Nat \subseteq T
    BY <1>9, <1>10, NatSetInduction
  <1>12. run \in [0 .. n -> G]
    <2>1. \A k \in 0 .. n : k \in T /\ k <= n
      BY <1>1, <1>11
    <2>2. \A k \in 0 .. n : run[k] \in G
      BY <2>1 DEF T
    <2>3. run = [k \in 0 .. n |-> run[k]]
      BY DEF run
    <2> QED
      BY <2>2, <2>3
  <1> QED
    BY <1>2, <1>7, <1>8, <1>12 DEF n, MapRun

\* The lengths of the data files of a table of contents.
WithData(s, l, files) == s + (IF l.line = "DATAFILE" THEN FileLength(files, l) ELSE 0)

DataOf(base, seq, files) ==
    FoldLeft(LAMBDA s, l : 
             s + (IF l.line = "DATAFILE" THEN FileLength(files, l) ELSE 0), base, seq)

\* The function that the fold over the data files computes with.
DataIter(iter, base, seq, n, files) ==
    iter = [s \in SUBSET (1 .. n) |->
              IF s = {} THEN base ELSE WithData(iter[s \ {Max(s)}], seq[Max(s)], files)]

\* It stays in G; run[k] is what it has behind element k.
DataInto(G, E, files) == \A s \in G : \A e \in E : WithData(s, e, files) \in G

DataRun(run, base, seq, files) ==
    /\ run[0] = base
    /\ \A k \in 1 .. Len(seq) : run[k] = WithData(run[k - 1], seq[k], files)
    /\ DataOf(base, seq, files) = run[Len(seq)]

\* The fold over the data files goes from element to element.
LEMMA DataRuns ==
    ASSUME NEW E, NEW seq \in Seq(E), NEW G, NEW base \in G, NEW files, DataInto(G, E, files)
    PROVE  \E run \in [0 .. Len(seq) -> G] : DataRun(run, base, seq, files)
  <1> DEFINE n == Len(seq)
             step == [k \in 1 .. n |-> [s \in G |-> WithData(s, seq[k], files)]]
             iter == CHOOSE f : DataIter(f, base, seq, n, files)
             run == [k \in 0 .. n |-> iter[1 .. k]]
  <1>1. n \in Nat /\ DOMAIN seq = 1 .. n /\ \A k \in 1 .. n : seq[k] \in E
    BY LenProperties, ElementOfSeq
  <1>2. DataOf(base, seq, files) = iter[1 .. n]
    BY <1>1 DEF DataOf, WithData, FoldLeft, MapThenFoldSet, DataIter
  <1>3. \E f : DataIter(f, base, seq, n, files)
    <2>1. step \in [1 .. n -> [G -> G]]
      BY <1>1 DEF DataInto
    <2>2. \A k \in 1 .. n : \A s \in G : step[k][s] = WithData(s, seq[k], files)
      OBVIOUS
    <2> HIDE DEF step, n, iter
    <2>3. PICK f \in [SUBSET (1 .. n) -> G] : Folds(f, base, step, n)
      BY <1>1, <2>1, FoldExists DEF HasFold
    <2>4. ASSUME NEW s \in SUBSET (1 .. n)
          PROVE  f[s] = IF s = {} THEN base ELSE WithData(f[s \ {Max(s)}], seq[Max(s)], files)
      <3>1. f[s] = IF s = {} THEN base ELSE step[Max(s)][f[s \ {Max(s)}]]
        BY <2>3 DEF Folds
      <3>2. CASE s # {}
        <4>1. Max(s) \in 1 .. n
          BY <1>1, <3>2, LastPlace
        <4>2. f[s \ {Max(s)}] \in G
          BY <2>3
        <4> QED
          BY <2>2, <3>1, <3>2, <4>1, <4>2
      <3> QED
        BY <3>1, <3>2
    <2>5. f = [s \in SUBSET (1 .. n) |-> f[s]]
      BY <2>3
    <2> QED
      BY <2>4, <2>5 DEF DataIter
  <1>4. DataIter(iter, base, seq, n, files)
    BY <1>3
  <1> HIDE DEF iter, n, step
  <1>5. iter[1 .. 0] = base
    <2>1. 1 .. 0 \in SUBSET (1 .. n) /\ 1 .. 0 = {}
      OBVIOUS
    <2> QED
      BY <1>4, <2>1 DEF DataIter
  <1>6. ASSUME NEW k \in Nat, k + 1 <= n
        PROVE  iter[1 .. k + 1] = WithData(iter[1 .. k], seq[k + 1], files)
    <2>1. /\ 1 .. k + 1 \in SUBSET (1 .. n)
          /\ 1 .. k + 1 # {}
          /\ Max(1 .. k + 1) = k + 1
          /\ (1 .. k + 1) \ {Max(1 .. k + 1)} = 1 .. k
      BY <1>1, <1>6, FirstPlaces
    <2> QED
      BY <1>4, <2>1 DEF DataIter
  <1>7. run[0] = base /\ run[n] = iter[1 .. n]
    BY <1>1, <1>5
  <1>8. \A k \in 1 .. n : run[k] = WithData(run[k - 1], seq[k], files)
    <2> SUFFICES ASSUME NEW k \in 1 .. n PROVE run[k] = WithData(run[k - 1], seq[k], files)
      OBVIOUS
    <2>1. k - 1 \in Nat /\ k - 1 + 1 = k /\ k <= n /\ k - 1 \in 0 .. n /\ k \in 0 .. n
      BY <1>1
    <2>2. iter[1 .. k - 1 + 1] = WithData(iter[1 .. k - 1], seq[k - 1 + 1], files)
      BY <1>6, <2>1
    <2> QED
      BY <2>1, <2>2
  <1> DEFINE T == {k \in Nat : k <= n => run[k] \in G}
  <1> HIDE DEF run
  <1>9. ASSUME NEW k \in Nat, k \in T PROVE k + 1 \in T
    <2>1. k + 1 <= n => k \in 0 .. n /\ k + 1 \in 1 .. n /\ k + 1 - 1 = k /\ k <= n
      BY <1>1
    <2>2. k + 1 <= n => seq[k + 1] \in E
      BY <1>1, <2>1
    <2>3. k + 1 <= n => run[k + 1] = WithData(run[k], seq[k + 1], files)
      BY <1>8, <2>1
    <2> QED
      BY <1>9, <2>1, <2>2, <2>3 DEF DataInto
  <1>10. 0 \in T
    BY <1>7
  <1> HIDE DEF T
  <1>11. Nat \subseteq T
    BY <1>9, <1>10, NatSetInduction
  <1>12. run \in [0 .. n -> G]
    <2>1. \A k \in 0 .. n : k \in T /\ k <= n
      BY <1>1, <1>11
    <2>2. \A k \in 0 .. n : run[k] \in G
      BY <2>1 DEF T
    <2>3. run = [k \in 0 .. n |-> run[k]]
      BY DEF run
    <2> QED
      BY <2>2, <2>3
  <1> QED
    BY <1>2, <1>7, <1>8, <1>12 DEF n, DataRun

\* The descriptions of the tracks in the tail of an NRG image: here seq has the places of
\* the cues.
Described(s, k, obj) ==
    IF IsTrack(obj.vcd_cue_list[k]) THEN SinkWrite(s, Etnf(obj, k), ETNF_SIZE) ELSE s

ChunksOf(base, seq, obj) ==
    FoldLeft(LAMBDA s, k : 
             IF IsTrack(obj.vcd_cue_list[k]) THEN SinkWrite(s, Etnf(obj, k), ETNF_SIZE) ELSE s, base, seq)

\* The function that the fold over the tracks of the tail computes with.
ChunksIter(iter, base, seq, n, obj) ==
    iter = [s \in SUBSET (1 .. n) |->
              IF s = {} THEN base ELSE Described(iter[s \ {Max(s)}], seq[Max(s)], obj)]

\* It stays in G; run[k] is what it has behind element k.
ChunksInto(G, E, obj) == \A s \in G : \A e \in E : Described(s, e, obj) \in G

ChunksRun(run, base, seq, obj) ==
    /\ run[0] = base
    /\ \A k \in 1 .. Len(seq) : run[k] = Described(run[k - 1], seq[k], obj)
    /\ ChunksOf(base, seq, obj) = run[Len(seq)]

\* The fold over the tracks of the tail goes from element to element.
LEMMA ChunksRuns ==
    ASSUME NEW E, NEW seq \in Seq(E), NEW G, NEW base \in G, NEW obj, ChunksInto(G, E, obj)
    PROVE  \E run \in [0 .. Len(seq) -> G] : ChunksRun(run, base, seq, obj)
  <1> DEFINE n == Len(seq)
             step == [k \in 1 .. n |-> [s \in G |-> Described(s, seq[k], obj)]]
             iter == CHOOSE f : ChunksIter(f, base, seq, n, obj)
             run == [k \in 0 .. n |-> iter[1 .. k]]
  <1>1. n \in Nat /\ DOMAIN seq = 1 .. n /\ \A k \in 1 .. n : seq[k] \in E
    BY LenProperties, ElementOfSeq
  <1>2. ChunksOf(base, seq, obj) = iter[1 .. n]
    BY <1>1 DEF ChunksOf, Described, FoldLeft, MapThenFoldSet, ChunksIter
  <1>3. \E f : ChunksIter(f, base, seq, n, obj)
    <2>1. step \in [1 .. n -> [G -> G]]
      BY <1>1 DEF ChunksInto
    <2>2. \A k \in 1 .. n : \A s \in G : step[k][s] = Described(s, seq[k], obj)
      OBVIOUS
    <2> HIDE DEF step, n, iter
    <2>3. PICK f \in [SUBSET (1 .. n) -> G] : Folds(f, base, step, n)
      BY <1>1, <2>1, FoldExists DEF HasFold
    <2>4. ASSUME NEW s \in SUBSET (1 .. n)
          PROVE  f[s] = IF s = {} THEN base ELSE Described(f[s \ {Max(s)}], seq[Max(s)], obj)
      <3>1. f[s] = IF s = {} THEN base ELSE step[Max(s)][f[s \ {Max(s)}]]
        BY <2>3 DEF Folds
      <3>2. CASE s # {}
        <4>1. Max(s) \in 1 .. n
          BY <1>1, <3>2, LastPlace
        <4>2. f[s \ {Max(s)}] \in G
          BY <2>3
        <4> QED
          BY <2>2, <3>1, <3>2, <4>1, <4>2
      <3> QED
        BY <3>1, <3>2
    <2>5. f = [s \in SUBSET (1 .. n) |-> f[s]]
      BY <2>3
    <2> QED
      BY <2>4, <2>5 DEF ChunksIter
  <1>4. ChunksIter(iter, base, seq, n, obj)
    BY <1>3
  <1> HIDE DEF iter, n, step
  <1>5. iter[1 .. 0] = base
    <2>1. 1 .. 0 \in SUBSET (1 .. n) /\ 1 .. 0 = {}
      OBVIOUS
    <2> QED
      BY <1>4, <2>1 DEF ChunksIter
  <1>6. ASSUME NEW k \in Nat, k + 1 <= n
        PROVE  iter[1 .. k + 1] = Described(iter[1 .. k], seq[k + 1], obj)
    <2>1. /\ 1 .. k + 1 \in SUBSET (1 .. n)
          /\ 1 .. k + 1 # {}
          /\ Max(1 .. k + 1) = k + 1
          /\ (1 .. k + 1) \ {Max(1 .. k + 1)} = 1 .. k
      BY <1>1, <1>6, FirstPlaces
    <2> QED
      BY <1>4, <2>1 DEF ChunksIter
  <1>7. run[0] = base /\ run[n] = iter[1 .. n]
    BY <1>1, <1>5
  <1>8. \A k \in 1 .. n : run[k] = Described(run[k - 1], seq[k], obj)
    <2> SUFFICES ASSUME NEW k \in 1 .. n PROVE run[k] = Described(run[k - 1], seq[k], obj)
      OBVIOUS
    <2>1. k - 1 \in Nat /\ k - 1 + 1 = k /\ k <= n /\ k - 1 \in 0 .. n /\ k \in 0 .. n
      BY <1>1
    <2>2. iter[1 .. k - 1 + 1] = Described(iter[1 .. k - 1], seq[k - 1 + 1], obj)
      BY <1>6, <2>1
    <2> QED
      BY <2>1, <2>2
  <1> DEFINE T == {k \in Nat : k <= n => run[k] \in G}
  <1> HIDE DEF run
  <1>9. ASSUME NEW k \in Nat, k \in T PROVE k + 1 \in T
    <2>1. k + 1 <= n => k \in 0 .. n /\ k + 1 \in 1 .. n /\ k + 1 - 1 = k /\ k <= n
      BY <1>1
    <2>2. k + 1 <= n => seq[k + 1] \in E
      BY <1>1, <2>1
    <2>3. k + 1 <= n => run[k + 1] = Described(run[k], seq[k + 1], obj)
      BY <1>8, <2>1
    <2> QED
      BY <1>9, <2>1, <2>2, <2>3 DEF ChunksInto
  <1>10. 0 \in T
    BY <1>7
  <1> HIDE DEF T
  <1>11. Nat \subseteq T
    BY <1>9, <1>10, NatSetInduction
  <1>12. run \in [0 .. n -> G]
    <2>1. \A k \in 0 .. n : k \in T /\ k <= n
      BY <1>1, <1>11
    <2>2. \A k \in 0 .. n : run[k] \in G
      BY <2>1 DEF T
    <2>3. run = [k \in 0 .. n |-> run[k]]
      BY DEF run
    <2> QED
      BY <2>2, <2>3
  <1> QED
    BY <1>2, <1>7, <1>8, <1>12 DEF n, ChunksRun

-----------------------------------------------------------------------------
(* The state of each sink, at every sector.                                *)

NoFiles == [file \in {} |-> EmptyFile]

Size(flag) == IF flag THEN M2RAW_SIZE ELSE FRAMESIZE_RAW

\* A sector as it is stored.
SectorOf(l, size) == [lsn |-> l, size |-> size]

\* A file of so many sectors from one on, and a file of lines.
Holds(file, from, count, size) ==
    /\ DOMAIN file = {i * size : i \in 0 .. count - 1}
    /\ \A i \in 0 .. count - 1 : file[i * size] = SectorOf(from + i, size)

TextIn(file, text) ==
    /\ DOMAIN file = 0 .. Len(text) - 1
    /\ \A j \in 1 .. Len(text) : file[j - 1] = text[j]

\* BIN/CUE.
SheetStart == [text |-> <<[line |-> "FILE", no |-> 0, at |-> 0]>>, track_no |-> 0,
               index_no |-> 0, last |-> NoCue, done |-> FALSE, ok |-> TRUE]

SheetText(d, size) == SheetOf(SheetStart, CueList(d), size).text

BinCueIdle(flag) ==
    [sector_2336_flag |-> flag, init |-> FALSE, bin_snk |-> NoSink, cue_snk |-> NoSink]

BinCueObj(flag, bin, cue) ==
    [sector_2336_flag |-> flag, init |-> TRUE, bin_snk |-> bin, cue_snk |-> cue]

\* The files when the first n sectors are written.
BinCueDisk(files, d, size, n) ==
    /\ Whole(files)
    /\ DOMAIN files = {CueFile} \cup (IF n = 0 THEN {} ELSE {BinFile})
    /\ TextIn(files[CueFile], SheetText(d, size))
    /\ n > 0 => Holds(files[BinFile], 0, n, size)

FewEntries(d) == \A k \in DOMAIN d.tracks : Len(d.tracks[k].entries) < CD_MAX_TRACKS

BinCueInv(flag) ==
    \/ /\ phase \in {"new", "refused"}
       /\ next = 0
       /\ disk = NoFiles
       /\ user_data = BinCueIdle(flag)
    \/ /\ phase \in {"writing", "exited"}
       /\ FewEntries(disc)
       /\ BinCueDisk(disk, disc, Size(flag), next)
       /\ user_data = BinCueObj(flag,
                                IF next = 0 THEN Sink(BinFile) ELSE OpenAt(BinFile, next * Size(flag)),
                                Sink(CueFile))
    \/ /\ phase = "failed"
       /\ next = 0
       /\ ~FewEntries(disc)
       /\ BinFile \notin DOMAIN disk
       /\ user_data = BinCueObj(flag, Sink(BinFile), Sink(CueFile))
    \/ /\ phase = "done"
       /\ next = DiscEnd(disc)
       /\ FewEntries(disc)
       /\ BinCueDisk(disk, disc, Size(flag), next)
       /\ user_data = BinCueObj(flag, NoSink, NoSink)

\* cdrdao.  The parts of a disc: column 1 of track k is its pregap, column 2 the track.
IsPart(d, k, c) == k \in 0 .. Len(d.tracks) /\ c \in {1, 2} /\ (k = 0 => c = 2)
PartFrom(d, k, c) == IF c = 1 THEN PregapAt(d, k) ELSE Start(d, k)
PartTo(d, k, c) == IF c = 1 THEN Start(d, k) ELSE Stop(d, k)
PartFile(k, c) == ImageFile(k + 1, c = 1)

InPart(d, k, c, l) == IsPart(d, k, c) /\ PartFrom(d, k, c) <= l /\ l < PartTo(d, k, c)

\* The sectors of a part among the first n.
PartCount(d, k, c, n) == (IF n < PartTo(d, k, c) THEN n ELSE PartTo(d, k, c)) - PartFrom(d, k, c)

TocStart == [text |-> <<>>, track_no |-> 0, last_track_lsn |-> 0, last |-> NoCue, done |-> FALSE]

TocText(d, size) == TocOf(TocStart, CueList(d), size).text

CdrdaoIdle(flag, list) ==
    [sector_2336_flag |-> flag, last_bin_snk |-> NoSink, last_snk_idx |-> 0,
     last_pause |-> FALSE, vcd_cue_list |-> list]

\* The part's file is the last one that was opened.
PartIndex(k, c) == IF c = 1 THEN k ELSE k + 1

CdrdaoObj(flag, sink, k, c, list) ==
    [sector_2336_flag |-> flag, last_bin_snk |-> sink, last_snk_idx |-> PartIndex(k, c),
     last_pause |-> c = 1, vcd_cue_list |-> list]

CdrdaoDisk(files, d, size, n) ==
    /\ Whole(files)
    /\ TocFile \in DOMAIN files
    /\ TextIn(files[TocFile], TocText(d, size))
    /\ \A f \in DOMAIN files \ {TocFile} :
          \E k \in 0 .. Len(d.tracks), c \in {1, 2} :
             IsPart(d, k, c) /\ PartFrom(d, k, c) < n /\ f = PartFile(k, c)
    /\ \A k \in 0 .. Len(d.tracks), c \in {1, 2} :
          IsPart(d, k, c) /\ PartFrom(d, k, c) < n =>
              /\ PartFile(k, c) \in DOMAIN files
              /\ Holds(files[PartFile(k, c)], PartFrom(d, k, c), PartCount(d, k, c, n), size)

\* The sink before sector n of the disc: nothing is open, or the file of the last sector.
CdrdaoBefore(obj, d, flag, n) ==
    \/ n = 0 /\ obj = CdrdaoIdle(flag, CueList(d))
    \/ /\ n > 0
       /\ \E k \in 0 .. Len(d.tracks), c \in {1, 2} :
             /\ InPart(d, k, c, n - 1)
             /\ obj = CdrdaoObj(flag, OpenAt(PartFile(k, c), (n - PartFrom(d, k, c)) * Size(flag)),
                                k, c, CueList(d))

CdrdaoInv(flag) ==
    \/ /\ phase \in {"new", "refused"}
       /\ next = 0
       /\ disk = NoFiles
       /\ user_data = CdrdaoIdle(flag, <<>>)
    \/ /\ phase \in {"writing", "exited"}
       /\ CdrdaoDisk(disk, disc, Size(flag), next)
       /\ CdrdaoBefore(user_data, disc, flag, next)
    \/ /\ phase = "done"
       /\ next = DiscEnd(disc)
       /\ CdrdaoDisk(disk, disc, Size(flag), next)
       /\ \E k \in 0 .. Len(disc.tracks), c \in {1, 2} :
             user_data = CdrdaoObj(flag, NoSink, k, c, CueList(disc))

\* NRG.  The sectors of the pregaps before a track, which have no place in the file.
SkipsAre(f, d) ==
    /\ f[0] = 0
    /\ \A k \in 1 .. Len(d.tracks) : f[k] = f[k - 1] + d.tracks[k].pregap

Skip(d) == CHOOSE f \in [0 .. Len(d.tracks) -> Nat] : SkipsAre(f, d)

\* Where sector l of track k is in the file.
Spot(d, k, l) == (l - Skip(d)[k]) * M2RAW_SIZE

NrgObj(sink, d) ==
    [nrg_snk |-> sink, vcd_cue_list |-> CueList(d), tracks |-> Len(d.tracks) + 1,
     cue_end_lsn |-> DiscEnd(d), init |-> TRUE]

\* The offsets of the sectors among the first n, and what is there.
InBody(d, n, o) ==
    \E k \in 0 .. Len(d.tracks) : \E l \in Start(d, k) .. Stop(d, k) - 1 :
        l < n /\ o = Spot(d, k, l)

NrgBody(file, d, n) ==
    \A k \in 0 .. Len(d.tracks) : \A l \in Start(d, k) .. Stop(d, k) - 1 :
        l < n => /\ Spot(d, k, l) \in DOMAIN file
                 /\ file[Spot(d, k, l)] = SectorOf(l, M2RAW_SIZE)

\* The tail: the offset of its first chunk and that of the chunk behind the tracks.
TailAt(d) == Spot(d, Len(d.tracks), DiscEnd(d))
EtnfAt(d, k) == TailAt(d) + CHUNK_SIZE + k * ETNF_SIZE

TrackOnDisc(d, k) ==
    [start_lsn |-> Start(d, k) - Skip(d)[k], start |-> Spot(d, k, Start(d, k)),
     length |-> (Stop(d, k) - Start(d, k)) * M2RAW_SIZE]

NrgEnd(file, d) ==
    LET rest == EtnfAt(d, Len(d.tracks) + 1)
    IN  /\ TailAt(d) \in DOMAIN file
        /\ file[TailAt(d)] = Chunk("ETNF", (Len(d.tracks) + 1) * ETNF_SIZE)
        /\ \A k \in 0 .. Len(d.tracks) :
              EtnfAt(d, k) \in DOMAIN file /\ file[EtnfAt(d, k)] = TrackOnDisc(d, k)
        /\ rest + 20 \in DOMAIN file
        /\ file[rest + 20] = Chunk("NERO", TailAt(d))
        /\ \A o \in DOMAIN file : o \in Nat /\ o <= rest + 20

NrgDisk(files, d, n) ==
    /\ Whole(files)
    /\ DOMAIN files = {NrgFile}
    /\ Whole(files[NrgFile])
    /\ NrgBody(files[NrgFile], d, n)
    /\ IF n = DiscEnd(d)
       THEN NrgEnd(files[NrgFile], d)
       ELSE \A o \in DOMAIN files[NrgFile] : InBody(d, n, o)

\* No track has entry points.
NoSubs(d) == \A k \in 0 .. Len(d.tracks) : Subs(d, k) = <<>>

\* The tracks among the first n sectors have no entry points.
SubsDone(d, n) == \A k \in 0 .. Len(d.tracks) : Stop(d, k) <= n => Subs(d, k) = <<>>

\* The sink before sector n.
NrgBefore(obj, files, d, n) ==
    /\ n = 0 => files = NoFiles /\ obj = NrgObj(Sink(NrgFile), d)
    /\ n > 0 => /\ NrgDisk(files, d, n)
                /\ \E p \in Nat : obj = NrgObj(OpenAt(NrgFile, p), d)
    /\ SubsDone(d, n)

NrgInv ==
    \/ /\ phase \in {"new", "refused"}
       /\ next = 0
       /\ disk = NoFiles
       /\ user_data = NrgNew
    \/ /\ phase \in {"writing", "exited"}
       /\ Len(disc.tracks) < CD_MAX_TRACKS
       /\ NrgBefore(user_data, disk, disc, next)
    \/ /\ phase = "failed"
       /\ Len(disc.tracks) >= CD_MAX_TRACKS \/ HasEntries(disc)
       /\ \/ user_data = NrgObj(Sink(NrgFile), disc)
          \/ /\ NrgFile \in DOMAIN disk
             /\ \E p \in Nat : user_data = NrgObj(OpenAt(NrgFile, p), disc)
    \/ /\ phase = "done"
       /\ next = DiscEnd(disc)
       /\ NrgDisk(disk, disc, next)
       /\ NoSubs(disc)
       /\ user_data = NrgObj(NoSink, disc)

SinkInv ==
    /\ disc \in Discs
    /\ next \in 0 .. DiscEnd(disc)
    /\ phase \in {"new", "refused", "writing", "exited", "failed", "done"}
    /\ \/ kind = "bincue" /\ \E flag \in BOOLEAN : BinCueInv(flag)
       \/ kind = "cdrdao" /\ \E flag \in BOOLEAN : CdrdaoInv(flag)
       \/ kind = "nrg" /\ NrgInv

-----------------------------------------------------------------------------
(* What the folds give: a text that is printed.                            *)

TextFirst(file, text, k) ==
    /\ DOMAIN file = 0 .. k - 1
    /\ \A j \in 1 .. k : file[j - 1] = text[j]

Texts(E) == UNION {[S -> E] : S \in SUBSET Nat}

Printed(f, E) ==
    {On(NoFiles, Sink(f))}
      \cup {On(Put(NoFiles, f, file), OpenAt(f, p)) : file \in Texts(E), p \in Nat}

LEMMA NoText ==
    ASSUME NEW E
    PROVE  EmptyFile \in Texts(E)
  <1>1. EmptyFile \in [{} -> E] /\ {} \in SUBSET Nat
    BY DEF EmptyFile
  <1> QED
    BY <1>1 DEF Texts

\* A line more in a file of lines.
LEMMA PutLine ==
    ASSUME NEW E, NEW e \in E, NEW file \in Texts(E), NEW p \in Nat
    PROVE  Put(file, p, e) \in Texts(E)
  <1>1. PICK S \in SUBSET Nat : file \in [S -> E]
    BY DEF Texts
  <1>2. Put(file, p, e) \in [S \cup {p} -> E]
    BY <1>1 DEF Put
  <1>3. S \cup {p} \in SUBSET Nat
    OBVIOUS
  <1> QED
    BY <1>2, <1>3 DEF Texts

LEMMA PrintStep ==
    ASSUME NEW E, NEW f, NEW e \in E, NEW file \in Texts(E), NEW p \in Nat
    PROVE  /\ SinkPrintf(On(NoFiles, Sink(f)), e)
                = On(Put(NoFiles, f, Put(EmptyFile, 0, e)), OpenAt(f, 1))
           /\ SinkPrintf(On(Put(NoFiles, f, file), OpenAt(f, p)), e)
                = On(Put(NoFiles, f, Put(file, p, e)), OpenAt(f, p + 1))
           /\ Put(EmptyFile, 0, e) \in Texts(E)
  <1>1. Whole(NoFiles)
    BY DEF Whole, NoFiles
  <1>2. Whole(Put(NoFiles, f, file)) /\ f \in DOMAIN Put(NoFiles, f, file) /\ Put(NoFiles, f, file)[f] = file
    BY PutIs
  <1>3. 0 \in Nat /\ 1 \in Nat
    OBVIOUS
  <1>4. EmptyFile \in Texts(E)
    BY NoText
  <1>5. Put(EmptyFile, 0, e) \in Texts(E)
    BY <1>3, <1>4, PutLine
  <1>6. SinkWrite(On(NoFiles, Sink(f)), e, 1)
          = On(Put(NoFiles, f, Put(EmptyFile, 0, e)), OpenAt(f, 1))
    <2>1. 0 \in Nat
      OBVIOUS
    <2> QED
      BY <1>1, <1>3, WriteIs
  <1> DEFINE files == Put(NoFiles, f, file)
  <1>7. Put(files, f, Put(file, p, e)) = Put(NoFiles, f, Put(file, p, e))
    BY PutAgain
  <1>8. Whole(files) /\ f \in DOMAIN files /\ files[f] = file
    BY <1>2
  <1> HIDE DEF files
  <1>9. SinkWrite(On(files, OpenAt(f, p)), e, 1)
          = On(Put(files, f, Put(files[f], p, e)), OpenAt(f, p + 1))
    BY <1>3, <1>8, WriteIs
  <1> QED
    BY <1>5, <1>6, <1>7, <1>8, <1>9 DEF SinkPrintf, files

\* A text that is printed into a new file is there, line by line.
LEMMA PrintText ==
    ASSUME NEW E, NEW text \in Seq(E), Len(text) > 0, NEW f
    PROVE  \E file : /\ TextIn(file, text)
                     /\ PrintOf(On(NoFiles, Sink(f)), text)
                          = On(Put(NoFiles, f, file), OpenAt(f, Len(text)))
  <1> DEFINE G == Printed(f, E)
             base == On(NoFiles, Sink(f))
             n == Len(text)
  <1>1. n \in Nat /\ \A k \in 1 .. n : text[k] \in E
    BY LenProperties, ElementOfSeq
  <1>2. base \in G
    BY DEF Printed
  <1>3. PrintInto(G, E)
    <2> SUFFICES ASSUME NEW s \in G, NEW e \in E PROVE SinkPrintf(s, e) \in G
      BY DEF PrintInto
    <2>1. CASE s = base
      <3>1. SinkPrintf(s, e) = On(Put(NoFiles, f, Put(EmptyFile, 0, e)), OpenAt(f, 1))
        <4>1. \E file : file \in Texts(E)
          BY NoText
        <4>2. 0 \in Nat
          OBVIOUS
        <4> QED
          BY <2>1, <4>1, <4>2, PrintStep
      <3>2. Put(EmptyFile, 0, e) \in Texts(E) /\ 1 \in Nat
        <4>1. \E file : file \in Texts(E)
          BY NoText
        <4>2. 0 \in Nat
          OBVIOUS
        <4> QED
          BY <4>1, <4>2, PrintStep
      <3> QED
        BY <3>1, <3>2 DEF Printed
    <2>2. CASE s # base
      <3>1. PICK file \in Texts(E), p \in Nat : s = On(Put(NoFiles, f, file), OpenAt(f, p))
        BY <2>2 DEF Printed
      <3>2. SinkPrintf(s, e) = On(Put(NoFiles, f, Put(file, p, e)), OpenAt(f, p + 1))
        BY <3>1, PrintStep
      <3>3. Put(file, p, e) \in Texts(E) /\ p + 1 \in Nat
        BY PutLine
      <3> QED
        BY <3>2, <3>3 DEF Printed
    <2> QED
      BY <2>1, <2>2
  <1> HIDE DEF G, base
  <1>4. PICK run \in [0 .. Len(text) -> G] : PrintRun(run, base, text)
    BY <1>2, <1>3, PrintRuns
  <1>5. /\ run[0] = base
        /\ \A k \in 1 .. n : run[k] = SinkPrintf(run[k - 1], text[k])
        /\ PrintOf(base, text) = run[n]
    BY <1>4 DEF PrintRun
  <1> DEFINE At(k) == \E file \in Texts(E) :
                         TextFirst(file, text, k) /\ run[k] = On(Put(NoFiles, f, file), OpenAt(f, k))
             T == {j \in Nat : j + 1 <= n => At(j + 1)}
  <1>6. 0 \in T
    <2> SUFFICES ASSUME 1 <= n PROVE At(1)
      OBVIOUS
    <2> DEFINE file == Put(EmptyFile, 0, text[1])
    <2>1. run[1] = SinkPrintf(base, text[1]) /\ text[1] \in E
      <3>1. 1 \in 1 .. n /\ 1 - 1 = 0
        BY <1>1
      <3> QED
        BY <1>1, <1>5, <3>1
    <2>2. file \in Texts(E) /\ SinkPrintf(base, text[1]) = On(Put(NoFiles, f, file), OpenAt(f, 1))
      <3>1. \E x : x \in Texts(E)
        BY NoText
      <3>2. 0 \in Nat
        OBVIOUS
      <3> QED
        BY <2>1, <3>1, <3>2, PrintStep DEF base
    <2>3. TextFirst(file, text, 1)
      BY DEF TextFirst, Put, EmptyFile
    <2> QED
      BY <2>1, <2>2, <2>3
  <1>7. ASSUME NEW j \in Nat, j \in T PROVE j + 1 \in T
    <2> SUFFICES ASSUME j + 1 + 1 <= n PROVE At(j + 1 + 1)
      OBVIOUS
    <2>1. At(j + 1)
      BY <1>1, <1>7
    <2>2. PICK file \in Texts(E) :
             TextFirst(file, text, j + 1) /\ run[j + 1] = On(Put(NoFiles, f, file), OpenAt(f, j + 1))
      BY <2>1
    <2> DEFINE k == j + 1
    <2>3. k \in Nat /\ k + 1 \in 1 .. n /\ k + 1 - 1 = k /\ text[k + 1] \in E
      BY <1>1
    <2>4. run[k + 1] = SinkPrintf(run[k], text[k + 1])
      BY <1>5, <2>3
    <2>5. TextFirst(file, text, k) /\ run[k] = On(Put(NoFiles, f, file), OpenAt(f, k))
      BY <2>2
    <2> HIDE DEF k
    <2>6. run[k + 1] = On(Put(NoFiles, f, Put(file, k, text[k + 1])), OpenAt(f, k + 1))
      BY <2>3, <2>4, <2>5, PrintStep
    <2>7. Put(file, k, text[k + 1]) \in Texts(E)
      BY <2>3, PutLine
    <2>8. TextFirst(Put(file, k, text[k + 1]), text, k + 1)
      <3> DEFINE new == Put(file, k, text[k + 1])
      <3>1. DOMAIN file = 0 .. k - 1 /\ \A i \in 1 .. k : file[i - 1] = text[i]
        BY <2>5 DEF TextFirst
      <3>2. DOMAIN new = 0 .. k + 1 - 1
        BY <2>3, <3>1 DEF Put
      <3>3. ASSUME NEW i \in 1 .. k + 1 PROVE new[i - 1] = text[i]
        <4>1. CASE i = k + 1
          BY <2>3, <4>1 DEF Put
        <4>2. CASE i # k + 1
          <5>1. i \in 1 .. k /\ i - 1 \in 0 .. k - 1 /\ i - 1 # k
            BY <2>3, <4>2
          <5>2. new[i - 1] = file[i - 1]
            <6>1. i - 1 \in DOMAIN file
              BY <3>1, <5>1
            <6> QED
              BY <5>1, <6>1 DEF Put
          <5> QED
            BY <3>1, <5>1, <5>2
        <4> QED
          BY <4>1, <4>2
      <3> HIDE DEF new
      <3>4. PICK l \in Nat : l = k + 1
        BY <2>3
      <3>5. DOMAIN new = 0 .. l - 1
        BY <3>2, <3>4
      <3>6. ASSUME NEW i \in 1 .. l PROVE new[i - 1] = text[i]
        BY <3>3, <3>4
      <3>7. TextFirst(new, text, l)
        BY <3>5, <3>6 DEF TextFirst
      <3> QED
        BY <3>4, <3>7 DEF new
    <2>9. At(k + 1)
      BY <2>6, <2>7, <2>8
    <2> QED
      BY <2>9 DEF k
  <1> HIDE DEF T, At
  <1>8. Nat \subseteq T
    BY <1>6, <1>7, NatSetInduction
  <1>9. At(n)
    <2>1. n - 1 \in Nat /\ n - 1 + 1 = n
      BY <1>1
    <2>2. n - 1 \in T
      BY <1>8, <2>1
    <2>3. At(n - 1 + 1)
      BY <1>1, <2>1, <2>2 DEF T
    <2> QED
      BY <2>1, <2>3
  <1>10. PICK file \in Texts(E) : TextFirst(file, text, n) /\ run[n] = On(Put(NoFiles, f, file), OpenAt(f, n))
    BY <1>9 DEF At
  <1>11. TextIn(file, text)
    BY <1>10 DEF TextIn, TextFirst
  <1> QED
    BY <1>5, <1>10, <1>11 DEF base

-----------------------------------------------------------------------------
(* BIN/CUE: the cue sheet is written to its end unless a track has as many *)
(* entry points as it may have.                                            *)

LineType == [line : {"FILE", "TRACK", "INDEX"}, no : Nat, at : Nat]

SheetStates ==
    [text : Seq(LineType), track_no : Nat, index_no : Nat, last : CueType \cup {NoCue},
     done : BOOLEAN, ok : BOOLEAN]

\* The lines of a track's cue behind a text.
TrackLines(text, no, size, last, lsn) ==
    text \o <<TrackLine(no, size)>>
      \o (IF last.type = "pregap" THEN <<IndexLine(0, last.lsn)>> ELSE <<>>)
      \o <<IndexLine(1, lsn)>>

SubLine(text, no, lsn) == Append(text, IndexLine(no, lsn))

\* What was in a text stays there.
Grown(a, b) == Len(a) <= Len(b) /\ \A j \in 1 .. Len(a) : b[j] = a[j]

\* The lines a track gives a text, one of them only if there is a pregap.
LinesBehind(text, a, has, b, c) ==
    text \o <<a>> \o (IF has THEN <<b>> ELSE <<>>) \o <<c>>

LEMMA LinesAre ==
    ASSUME NEW E, NEW text \in Seq(E), NEW x \in E, NEW has \in BOOLEAN, NEW y \in E, NEW z \in E
    PROVE  LET lines == LinesBehind(text, x, has, y, z)
               l == Len(text)
           IN  /\ lines \in Seq(E)
               /\ Grown(text, lines)
               /\ lines[l + 1] = x
               /\ has => Len(lines) = l + 3 /\ lines[l + 2] = y /\ lines[l + 3] = z
               /\ ~has => Len(lines) = l + 2 /\ lines[l + 2] = z
  <1> DEFINE pregap == IF has THEN <<y>> ELSE <<>>
             track == <<x>>
             index == <<z>>
             a == text \o track
             b == a \o pregap
             c == b \o index
             l == Len(text)
  <1>1. /\ pregap \in Seq(E)
        /\ has => Len(pregap) = 1 /\ pregap[1] = y
        /\ ~has => Len(pregap) = 0
    BY EmptySeq
  <1>2. /\ track \in Seq(E) /\ index \in Seq(E)
        /\ Len(track) = 1 /\ track[1] = x
        /\ Len(index) = 1 /\ index[1] = z
    OBVIOUS
  <1>3. l \in Nat
    BY LenProperties
  <1> HIDE DEF pregap, track, index, l
  <1>4. a \in Seq(E) /\ Behind(text, track, a)
    BY <1>2, Joined
  <1> HIDE DEF a
  <1>5. b \in Seq(E) /\ Behind(a, pregap, b)
    BY <1>1, <1>4, Joined
  <1> HIDE DEF b
  <1>6. c \in Seq(E) /\ Behind(b, index, c)
    BY <1>2, <1>5, Joined
  <1> HIDE DEF c
  <1>7. /\ Len(a) = l + 1
        /\ \A j \in 1 .. l : a[j] = text[j]
        /\ a[l + 1] = x
    BY <1>2, <1>3, <1>4 DEF Behind, l
  <1>8. c = LinesBehind(text, x, has, y, z)
    BY DEF LinesBehind, a, b, c, pregap, track, index
  <1>9. CASE has
    <2>1. /\ Len(b) = l + 2
          /\ \A j \in 1 .. l + 1 : b[j] = a[j]
          /\ b[l + 2] = y
      <3>1. Len(a) = l + 1 /\ Len(pregap) = 1 /\ pregap[1] = y
        BY <1>1, <1>7, <1>9
      <3>2. Len(b) = l + 2 /\ l + 1 + 1 = l + 2
        BY <1>3, <1>5, <3>1 DEF Behind
      <3>3. \A j \in 1 .. l + 2 : b[j] = IF j <= l + 1 THEN a[j] ELSE pregap[j - (l + 1)]
        BY <1>3, <1>5, <3>1, <3>2 DEF Behind
      <3>4. l + 2 \in 1 .. l + 2 /\ ~(l + 2 <= l + 1) /\ l + 2 - (l + 1) = 1
        BY <1>3
      <3>5. \A j \in 1 .. l + 2 : j = l + 2 => b[j] = pregap[j - (l + 1)]
        BY <1>3, <3>3
      <3>6. b[l + 2] = pregap[1]
        BY <1>3, <3>4, <3>5
      <3> QED
        BY <1>3, <3>1, <3>2, <3>3, <3>6
    <2>2. /\ Len(c) = l + 3
          /\ \A j \in 1 .. l + 2 : c[j] = b[j]
          /\ c[l + 3] = z
      BY <1>2, <1>3, <1>6, <2>1 DEF Behind
    <2>3. c[l + 1] = x /\ c[l + 2] = y
      BY <1>3, <1>7, <2>1, <2>2
    <2>4. Grown(text, c)
      BY <1>3, <1>7, <2>1, <2>2 DEF Grown, l
    <2> QED
      BY <1>6, <1>8, <1>9, <2>2, <2>3, <2>4 DEF l
  <1>10. CASE ~has
    <2>1. Len(b) = l + 1 /\ \A j \in 1 .. l + 1 : b[j] = a[j]
      BY <1>1, <1>3, <1>5, <1>7, <1>10 DEF Behind
    <2>2. /\ Len(c) = l + 2
          /\ \A j \in 1 .. l + 1 : c[j] = b[j]
          /\ c[l + 2] = z
      BY <1>2, <1>3, <1>6, <2>1 DEF Behind
    <2>3. c[l + 1] = x
      BY <1>3, <1>7, <2>1, <2>2
    <2>4. Grown(text, c)
      BY <1>3, <1>7, <2>1, <2>2 DEF Grown, l
    <2> QED
      BY <1>6, <1>8, <1>10, <2>2, <2>3, <2>4 DEF l
  <1> QED
    BY <1>9, <1>10

LEMMA TrackLinesAre ==
    ASSUME NEW text \in Seq(LineType), NEW no \in Nat, NEW size \in Nat,
           NEW last \in CueType \cup {NoCue}, NEW lsn \in Nat
    PROVE  LET lines == TrackLines(text, no, size, last, lsn)
               l == Len(text)
           IN  /\ lines \in Seq(LineType)
               /\ Grown(text, lines)
               /\ lines[l + 1] = TrackLine(no, size)
               /\ last.type = "pregap" => /\ Len(lines) = l + 3
                                          /\ lines[l + 2] = IndexLine(0, last.lsn)
                                          /\ lines[l + 3] = IndexLine(1, lsn)
               /\ last.type # "pregap" => /\ Len(lines) = l + 2
                                          /\ lines[l + 2] = IndexLine(1, lsn)
  <1>1. TrackLine(no, size) \in LineType /\ IndexLine(1, lsn) \in LineType
    BY DEF TrackLine, IndexLine, LineType
  <1>2. IndexLine(0, last.lsn) \in LineType
    <2>1. last.lsn \in Nat
      BY DEF CueType, NoCue, Cue
    <2> QED
      BY <2>1 DEF IndexLine, LineType
  <1> DEFINE has == last.type = "pregap"
             x == TrackLine(no, size)
             y == IndexLine(0, last.lsn)
             z == IndexLine(1, lsn)
  <1>3. TrackLines(text, no, size, last, lsn) = LinesBehind(text, x, has, y, z)
    BY DEF TrackLines, LinesBehind
  <1>4. has \in BOOLEAN /\ x \in LineType /\ y \in LineType /\ z \in LineType
    BY <1>1, <1>2
  <1> HIDE DEF has, x, y, z
  <1>5. LET lines == LinesBehind(text, x, has, y, z)
            l == Len(text)
        IN  /\ lines \in Seq(LineType)
            /\ Grown(text, lines)
            /\ lines[l + 1] = x
            /\ has => Len(lines) = l + 3 /\ lines[l + 2] = y /\ lines[l + 3] = z
            /\ ~has => Len(lines) = l + 2 /\ lines[l + 2] = z
    BY <1>4, LinesAre
  <1> QED
    BY <1>3, <1>5 DEF has, x, y, z

\* What a cue does.
LEMMA SheetStep ==
    ASSUME NEW s \in SheetStates, NEW cue \in CueType, NEW size \in Nat
    PROVE  LET r == BinCueLines(s, cue, size)
           IN  /\ r \in SheetStates
               /\ s.done \/ ~s.ok => r = s
               /\ ~s.done /\ s.ok =>
                     /\ r.last = cue
                     /\ cue.type = "track" =>
                          /\ r.track_no = s.track_no + 1
                          /\ r.index_no = 1
                          /\ r.ok /\ ~r.done
                          /\ r.text = TrackLines(s.text, s.track_no + 1, size, s.last, cue.lsn)
                     /\ cue.type = "subindex" =>
                          /\ r.track_no = s.track_no
                          /\ r.index_no = s.index_no + 1
                          /\ r.ok <=> s.last # NoCue /\ s.index_no + 1 <= CD_MAX_TRACKS
                          /\ ~r.done
                          /\ r.text = SubLine(s.text, s.index_no + 1, cue.lsn)
                     /\ cue.type = "pregap" =>
                          /\ r.track_no = s.track_no
                          /\ r.index_no = s.index_no
                          /\ r.ok /\ ~r.done
                          /\ r.text = s.text
                     /\ cue.type = "end" =>
                          /\ r.track_no = s.track_no
                          /\ r.index_no = s.index_no
                          /\ r.ok /\ r.done
                          /\ r.text = s.text
  <1> DEFINE r == BinCueLines(s, cue, size)
  <1>1. /\ s.text \in Seq(LineType) /\ s.track_no \in Nat /\ s.index_no \in Nat
        /\ s.last \in CueType \cup {NoCue} /\ s.done \in BOOLEAN /\ s.ok \in BOOLEAN
    BY DEF SheetStates
  <1>2. cue.lsn \in Nat /\ cue.type \in {"pregap", "track", "subindex", "end"}
    BY DEF CueType
  <1>3. CASE s.done \/ ~s.ok
    BY <1>3 DEF BinCueLines
  <1>4. CASE ~(s.done \/ ~s.ok) /\ cue.type = "track"
    <2> DEFINE text == TrackLines(s.text, s.track_no + 1, size, s.last, cue.lsn)
    <2>1. text \in Seq(LineType)
      <3>1. s.track_no + 1 \in Nat
        BY <1>1
      <3> QED
        BY <1>1, <1>2, <3>1, TrackLinesAre
    <2>2. r = [s EXCEPT !.track_no = s.track_no + 1, !.index_no = 1, !.text = text, !.last = cue]
      BY <1>4 DEF BinCueLines, TrackLines
    <2> HIDE DEF text, r
    <2>3. r \in SheetStates
      <3> DEFINE no == s.track_no + 1
                 one == 1
                 L == Seq(LineType)
                 C == CueType \cup {NoCue}
      <3>1. no \in Nat /\ one \in Nat /\ text \in L /\ cue \in C
        BY <1>1, <2>1
      <3>2. r = [s EXCEPT !.track_no = no, !.index_no = one, !.text = text, !.last = cue]
        BY <2>2
      <3>3. s \in [text : L, track_no : Nat, index_no : Nat, last : C, done : BOOLEAN, ok : BOOLEAN]
        BY DEF SheetStates
      <3> HIDE DEF no, one, L, C
      <3>4. r \in [text : L, track_no : Nat, index_no : Nat, last : C, done : BOOLEAN, ok : BOOLEAN]
        BY <3>1, <3>2, <3>3
      <3> QED
        BY <3>4 DEF L, C, SheetStates
    <2>4. r.track_no = s.track_no + 1 /\ r.index_no = 1 /\ r.text = text /\ r.last = cue
          /\ r.ok = s.ok /\ r.done = s.done
      BY <2>2 DEF SheetStates
    <2> QED
      BY <1>1, <1>4, <2>3, <2>4 DEF r, text
  <1>5. CASE ~(s.done \/ ~s.ok) /\ cue.type = "subindex"
    <2> DEFINE text == SubLine(s.text, s.index_no + 1, cue.lsn)
    <2>1. text \in Seq(LineType)
      <3>1. IndexLine(s.index_no + 1, cue.lsn) \in LineType
        BY <1>1, <1>2 DEF IndexLine, LineType
      <3> QED
        BY <1>1, <3>1 DEF SubLine
    <2>2. r = [s EXCEPT !.index_no = s.index_no + 1, !.ok = s.ok /\ s.last # NoCue /\ s.index_no + 1 <= CD_MAX_TRACKS,
                       !.text = text, !.last = cue]
      BY <1>5 DEF BinCueLines, SubLine
    <2> HIDE DEF text, r
    <2>3. r \in SheetStates
      <3> DEFINE no == s.index_no + 1
                 held == s.ok /\ s.last # NoCue /\ s.index_no + 1 <= CD_MAX_TRACKS
                 L == Seq(LineType)
                 C == CueType \cup {NoCue}
      <3>1. no \in Nat /\ held \in BOOLEAN /\ text \in L /\ cue \in C
        BY <1>1, <2>1
      <3>2. r = [s EXCEPT !.index_no = no, !.ok = held, !.text = text, !.last = cue]
        BY <2>2
      <3>3. s \in [text : L, track_no : Nat, index_no : Nat, last : C, done : BOOLEAN, ok : BOOLEAN]
        BY DEF SheetStates
      <3> HIDE DEF no, held, L, C
      <3>4. r \in [text : L, track_no : Nat, index_no : Nat, last : C, done : BOOLEAN, ok : BOOLEAN]
        BY <3>1, <3>2, <3>3
      <3> QED
        BY <3>4 DEF L, C, SheetStates
    <2>4. r.index_no = s.index_no + 1 /\ r.text = text /\ r.last = cue
          /\ r.track_no = s.track_no /\ r.done = s.done
      BY <2>2 DEF SheetStates
    <2>5. r.ok = (s.ok /\ s.last # NoCue /\ s.index_no + 1 <= CD_MAX_TRACKS)
      BY <2>2 DEF SheetStates
    <2> QED
      BY <1>1, <1>5, <2>3, <2>4, <2>5 DEF r, text
  <1>6. CASE ~(s.done \/ ~s.ok) /\ cue.type = "end"
    <2>1. r = [s EXCEPT !.done = TRUE, !.last = cue]
      BY <1>6 DEF BinCueLines
    <2> HIDE DEF r
    <2>2. r \in SheetStates
      BY <1>1, <2>1 DEF SheetStates
    <2>3. r.index_no = s.index_no /\ r.text = s.text /\ r.last = cue
          /\ r.track_no = s.track_no /\ r.done /\ r.ok = s.ok
      BY <2>1 DEF SheetStates
    <2> QED
      BY <1>1, <1>6, <2>2, <2>3 DEF r
  <1>7. CASE ~(s.done \/ ~s.ok) /\ cue.type = "pregap"
    <2>1. r = [s EXCEPT !.last = cue]
      BY <1>7 DEF BinCueLines
    <2> HIDE DEF r
    <2>2. r \in SheetStates
      BY <1>1, <2>1 DEF SheetStates
    <2>3. r.index_no = s.index_no /\ r.text = s.text /\ r.last = cue
          /\ r.track_no = s.track_no /\ r.done = s.done /\ r.ok = s.ok
      BY <2>1 DEF SheetStates
    <2> QED
      BY <1>1, <1>7, <2>2, <2>3 DEF r
  <1> QED
    BY <1>2, <1>3, <1>4, <1>5, <1>6, <1>7

\* The cue of a place in the cue sheet, and its kind.
LEMMA CueTypes ==
    ASSUME NEW d \in Discs, NEW row, NEW col, NEW n, LaidOut(d, row, col, n), NEW p \in 1 .. n
    PROVE  LET cue == CueList(d)[p]
           IN  /\ cue = CueAt(d, row[p], col[p])
               /\ cue \in CueType
               /\ row[p] \in 0 .. Len(d.tracks) + 1
               /\ col[p] \in Nat \ {0}
               /\ row[p] = 0 => col[p] = 2
               /\ p = n <=> row[p] = Len(d.tracks) + 1
               /\ p < n => col[p] <= LastCol(d, row[p]) /\ LastCol(d, row[p]) \in Nat /\ row[p] <= Len(d.tracks)
               /\ cue.type = IF p = n THEN "end" ELSE IF col[p] = 1 THEN "pregap"
                             ELSE IF col[p] = 2 THEN "track" ELSE "subindex"
               /\ p = n => cue.lsn = DiscEnd(d) /\ col[p] = 1
               /\ p < n => cue.lsn = IF col[p] = 1 THEN PregapAt(d, row[p])
                                     ELSE IF col[p] = 2 THEN Start(d, row[p])
                                     ELSE Start(d, row[p]) + Subs(d, row[p])[col[p] - 2]
  <1> DEFINE m == Len(d.tracks)
             cue == CueList(d)[p]
  <1>1. m \in Nat
    BY DiscShape
  <1>2. /\ n \in Nat /\ n >= 2
        /\ CueList(d) \in Seq(CueType)
        /\ Len(CueList(d)) = n
        /\ row \in [1 .. n -> 0 .. m + 1]
        /\ col \in [1 .. n -> Nat \ {0}]
        /\ row[1] = 0 /\ col[1] = 2
        /\ row[n] = m + 1 /\ col[n] = 1
        /\ \A q \in 1 .. n : CueList(d)[q] = CueAt(d, row[q], col[q])
        /\ \A q \in 1 .. n - 1 : row[q] <= m /\ col[q] <= LastCol(d, row[q])
        /\ \A q, r \in 1 .. n : row[q] = row[r] /\ col[q] = col[r] => q = r
    BY DEF LaidOut
  <1>3. cue = CueAt(d, row[p], col[p]) /\ cue \in CueType
    BY <1>2, ElementOfSeq
  <1>4. row[p] \in 0 .. m + 1 /\ col[p] \in Nat \ {0}
    BY <1>2
  <1>5. p < n => p \in 1 .. n - 1
    BY <1>2
  <1>6. p < n => row[p] <= m /\ col[p] <= LastCol(d, row[p])
    BY <1>2, <1>5
  <1>7. p = n <=> row[p] = m + 1
    <2>1. p = n \/ p < n
      BY <1>2
    <2> QED
      BY <1>1, <1>2, <1>4, <1>6, <2>1
  <1>8. p < n => row[p] \in 0 .. m /\ LastCol(d, row[p]) \in Nat
    <2> SUFFICES ASSUME p < n PROVE row[p] \in 0 .. m /\ LastCol(d, row[p]) \in Nat
      OBVIOUS
    <2>1. row[p] \in 0 .. m
      BY <1>1, <1>4, <1>6
    <2>2. Subs(d, row[p]) \in Seq(Nat)
      BY <2>1, TracksInOrder
    <2> QED
      BY <2>1, <2>2, LenProperties DEF LastCol
  <1>9. row[p] = 0 => col[p] = 2
    <2> SUFFICES ASSUME row[p] = 0, col[p] # 2 PROVE FALSE
      OBVIOUS
    <2>1. p < n /\ p # 1
      BY <1>1, <1>2, <1>7
    <2>2. LastCol(d, 0) = 2
      BY EmptySeq DEF LastCol, Subs
    <2>3. col[p] = 1
      BY <1>4, <1>6, <2>1, <2>2
    <2>4. /\ p - 1 \in 1 .. n - 1
          /\ p - 1 \in 1 .. n
          /\ p - 1 + 1 = p
      BY <1>2, <2>1
    <2>5. IF col[p - 1] < LastCol(d, row[p - 1])
          THEN row[p - 1 + 1] = row[p - 1] /\ col[p - 1 + 1] = col[p - 1] + 1
          ELSE row[p - 1 + 1] = row[p - 1] + 1 /\ col[p - 1 + 1] = 1
      BY <2>4 DEF LaidOut
    <2>6. row[p - 1] \in 0 .. m + 1 /\ col[p - 1] \in Nat \ {0}
      BY <1>2, <2>4
    <2> QED
      BY <2>3, <2>4, <2>5, <2>6
  <1>10. cue.type = IF p = n THEN "end" ELSE IF col[p] = 1 THEN "pregap"
                    ELSE IF col[p] = 2 THEN "track" ELSE "subindex"
    BY <1>3, <1>7 DEF CueAt, Cue
  <1>11. p = n => cue.lsn = DiscEnd(d) /\ col[p] = 1
    BY <1>2, <1>3, <1>7 DEF CueAt, Cue
  <1>12. p < n => cue.lsn = IF col[p] = 1 THEN PregapAt(d, row[p])
                            ELSE IF col[p] = 2 THEN Start(d, row[p])
                            ELSE Start(d, row[p]) + Subs(d, row[p])[col[p] - 2]
    BY <1>2, <1>3, <1>7 DEF CueAt, Cue
  <1> QED
    BY <1>1, <1>3, <1>4, <1>6, <1>7, <1>8, <1>9, <1>10, <1>11, <1>12

\* From a cue to the next one.
LEMMA NextCue ==
    ASSUME NEW d \in Discs, NEW row, NEW col, NEW n, LaidOut(d, row, col, n), NEW p \in 1 .. n - 1
    PROVE  /\ p \in 1 .. n /\ p + 1 \in 1 .. n /\ p < n /\ n \in Nat
           /\ LastCol(d, row[p]) >= 2
           /\ IF col[p] < LastCol(d, row[p])
              THEN row[p + 1] = row[p] /\ col[p + 1] = col[p] + 1 /\ p + 1 < n
              ELSE row[p + 1] = row[p] + 1 /\ col[p + 1] = 1 /\ col[p] >= 2 /\ col[p] = LastCol(d, row[p])
  <1> DEFINE m == Len(d.tracks)
  <1>1. n \in Nat
    BY DEF LaidOut
  <1>2. p \in 1 .. n /\ p + 1 \in 1 .. n /\ p < n
    BY <1>1
  <1>3. /\ row[p] <= m
        /\ IF col[p] < LastCol(d, row[p])
           THEN row[p + 1] = row[p] /\ col[p + 1] = col[p] + 1
           ELSE row[p + 1] = row[p] + 1 /\ col[p + 1] = 1
    BY DEF LaidOut
  <1>4. /\ row[p] \in 0 .. m + 1
        /\ col[p] \in Nat \ {0}
        /\ col[p] <= LastCol(d, row[p])
        /\ LastCol(d, row[p]) \in Nat
    BY <1>2, CueTypes
  <1>5. p + 1 = n <=> row[p + 1] = m + 1
    BY <1>2, CueTypes
  <1>6. m \in Nat
    BY DiscShape
  <1>7. LastCol(d, row[p]) >= 2
    <2>1. row[p] \in 0 .. m
      BY <1>3, <1>4, <1>6
    <2>2. Subs(d, row[p]) \in Seq(Nat)
      BY <2>1, TracksInOrder
    <2> QED
      BY <2>2, LenProperties DEF LastCol
  <1> HIDE DEF m
  <1>8. col[p] < LastCol(d, row[p]) => p + 1 < n
    <2> SUFFICES ASSUME col[p] < LastCol(d, row[p]) PROVE p + 1 < n
      OBVIOUS
    <2>1. row[p + 1] # m + 1
      BY <1>3, <1>4, <1>6
    <2>2. p + 1 # n
      BY <1>5, <2>1
    <2> QED
      BY <1>1, <1>2, <2>2
  <1> QED
    BY <1>1, <1>2, <1>3, <1>4, <1>7, <1>8

\* The number of the track at a place.
TrackNo(row, col, p) == IF col[p] >= 2 THEN row[p] + 1 ELSE row[p]

\* What the walk over the cues knows behind place p, as long as no assertion failed.
SheetAt(run, d, row, col, n, p) ==
    run[p].ok =>
        /\ run[p - 1].ok /\ ~run[p - 1].done
        /\ run[p].last = CueList(d)[p]
        /\ run[p].track_no = TrackNo(row, col, p)
        /\ col[p] >= 2 => run[p].index_no = col[p] - 1
        /\ run[p].done <=> p = n

SheetIs(run, d, row, col, n, size) ==
    /\ run \in [0 .. n -> SheetStates]
    /\ run[0] = SheetStart
    /\ \A p \in 1 .. n : run[p] = BinCueLines(run[p - 1], CueList(d)[p], size)
    /\ SheetOf(SheetStart, CueList(d), size) = run[n]

\* The cue sheet begins with its FILE line.
LEMMA SheetStartType == SheetStart \in SheetStates
  <1> DEFINE line == [line |-> "FILE", no |-> 0, at |-> 0]
             text == <<line>>
             L == Seq(LineType)
             C == CueType \cup {NoCue}
  <1>1. line \in LineType
    BY DEF LineType
  <1> HIDE DEF line
  <1>2. text \in L
    BY <1>1
  <1>3. SheetStart = [text |-> text, track_no |-> 0, index_no |-> 0, last |-> NoCue, done |-> FALSE, ok |-> TRUE]
    BY DEF SheetStart, line
  <1>4. NoCue \in C
    OBVIOUS
  <1> HIDE DEF text, L, C
  <1>5. SheetStart \in [text : L, track_no : Nat, index_no : Nat, last : C, done : BOOLEAN, ok : BOOLEAN]
    BY <1>2, <1>3, <1>4
  <1> QED
    BY <1>5 DEF SheetStates, L, C

LEMMA SheetExists ==
    ASSUME NEW d \in Discs, NEW row, NEW col, NEW n, LaidOut(d, row, col, n), NEW size \in Nat
    PROVE  \E run : SheetIs(run, d, row, col, n, size)
  <1>1. CueList(d) \in Seq(CueType) /\ Len(CueList(d)) = n
    BY DEF LaidOut
  <1>2. SheetStart \in SheetStates
    BY SheetStartType
  <1>3. SheetInto(SheetStates, CueType, size)
    <2> SUFFICES ASSUME NEW s \in SheetStates, NEW cue \in CueType
                 PROVE  BinCueLines(s, cue, size) \in SheetStates
      BY DEF SheetInto
    <2> QED
      BY SheetStep
  <1>4. PICK run \in [0 .. Len(CueList(d)) -> SheetStates] : SheetRun(run, SheetStart, CueList(d), size)
    BY <1>1, <1>2, <1>3, SheetRuns
  <1> QED
    BY <1>1, <1>4 DEF SheetRun, SheetIs

LEMMA SheetTrack ==
    ASSUME NEW s \in SheetStates, NEW cue \in CueType, NEW size \in Nat,
           ~s.done, s.ok, cue.type = "track"
    PROVE  BinCueLines(s, cue, size).track_no = s.track_no + 1
  BY SheetStep

\* What a cue does to the numbers.
SheetMoves(s, cue, r) ==
    /\ r.last = cue
    /\ cue.type = "track" => r.track_no = s.track_no + 1 /\ r.index_no = 1 /\ r.ok /\ ~r.done
    /\ cue.type = "subindex" =>
          /\ r.track_no = s.track_no
          /\ r.index_no = s.index_no + 1
          /\ r.ok <=> s.last # NoCue /\ s.index_no + 1 <= CD_MAX_TRACKS
          /\ ~r.done
    /\ cue.type = "pregap" => r.track_no = s.track_no /\ r.ok /\ ~r.done
    /\ cue.type = "end" => r.track_no = s.track_no /\ r.ok /\ r.done

LEMMA SheetMovesOn ==
    ASSUME NEW s \in SheetStates, NEW cue \in CueType, NEW size \in Nat, ~s.done, s.ok
    PROVE  SheetMoves(s, cue, BinCueLines(s, cue, size))
  <1> DEFINE r == BinCueLines(s, cue, size)
  <1>1. /\ r.last = cue
        /\ cue.type = "track" =>
             /\ r.track_no = s.track_no + 1
             /\ r.index_no = 1
             /\ r.ok /\ ~r.done
             /\ r.text = TrackLines(s.text, s.track_no + 1, size, s.last, cue.lsn)
        /\ cue.type = "subindex" =>
             /\ r.track_no = s.track_no
             /\ r.index_no = s.index_no + 1
             /\ r.ok <=> s.last # NoCue /\ s.index_no + 1 <= CD_MAX_TRACKS
             /\ ~r.done
             /\ r.text = SubLine(s.text, s.index_no + 1, cue.lsn)
        /\ cue.type = "pregap" =>
             /\ r.track_no = s.track_no
             /\ r.index_no = s.index_no
             /\ r.ok /\ ~r.done
             /\ r.text = s.text
    BY SheetStep
  <1>2. cue.type = "end" => r.track_no = s.track_no /\ r.ok /\ r.done
    BY SheetStep
  <1> HIDE DEF r
  <1>3. SheetMoves(s, cue, r)
    BY <1>1, <1>2 DEF SheetMoves
  <1> QED
    BY <1>3 DEF r

\* From one cue to the next.
LEMMA SheetGoes ==
    ASSUME NEW d \in Discs, NEW row, NEW col, NEW n, LaidOut(d, row, col, n), NEW size \in Nat,
           NEW run, SheetIs(run, d, row, col, n, size)
    PROVE  /\ \A p \in 1 .. n : SheetAt(run, d, row, col, n, p)
           /\ run[1].ok
           /\ \A p \in 1 .. n - 1 :
                 run[p].ok => (run[p + 1].ok <=> (col[p + 1] >= 3 => col[p] <= CD_MAX_TRACKS))
  <1>1. /\ n \in Nat /\ n >= 2
        /\ row[1] = 0 /\ col[1] = 2
        /\ row \in [1 .. n -> 0 .. Len(d.tracks) + 1]
        /\ col \in [1 .. n -> Nat \ {0}]
    BY DEF LaidOut
  <1>2. /\ \A p \in 0 .. n : run[p] \in SheetStates
        /\ run[0] = SheetStart
        /\ \A p \in 1 .. n : run[p] = BinCueLines(run[p - 1], CueList(d)[p], size)
    BY DEF SheetIs
  <1>3. SheetAt(run, d, row, col, n, 1) /\ run[1].ok
    <2>1. 1 \in 1 .. n /\ 0 \in 0 .. n /\ 1 - 1 = 0 /\ 1 # n
      BY <1>1
    <2>2. CueList(d)[1] \in CueType /\ CueList(d)[1].type = "track"
      <3>1. CueList(d)[1].type = IF 1 = n THEN "end" ELSE IF col[1] = 1 THEN "pregap"
                             ELSE IF col[1] = 2 THEN "track" ELSE "subindex"
        BY <2>1, CueTypes
      <3>2. CueList(d)[1] \in CueType
        BY <2>1, CueTypes
      <3> QED
        BY <1>1, <2>1, <3>1, <3>2
    <2>3. run[1] = BinCueLines(run[0], CueList(d)[1], size) /\ run[0] \in SheetStates
      BY <1>2, <2>1
    <2>4. ~run[0].done /\ run[0].ok /\ run[0].track_no = 0
      BY <1>2 DEF SheetStart
    <2>5. /\ run[1].last = CueList(d)[1]
          /\ run[1].track_no = run[0].track_no + 1
          /\ run[1].index_no = 1
          /\ run[1].ok /\ ~run[1].done
      BY <2>2, <2>3, <2>4, SheetStep
    <2>6. TrackNo(row, col, 1) = 1
      BY <1>1 DEF TrackNo
    <2> QED
      BY <1>1, <2>1, <2>4, <2>5, <2>6 DEF SheetAt
  <1>4. ASSUME NEW p \in 1 .. n - 1, SheetAt(run, d, row, col, n, p)
        PROVE  /\ SheetAt(run, d, row, col, n, p + 1)
               /\ run[p].ok => (run[p + 1].ok <=> (col[p + 1] >= 3 => col[p] <= CD_MAX_TRACKS))
    <2> DEFINE s == run[p]
               q == p + 1
               r == run[q]
               cue == CueList(d)[q]
    <2>1. p \in 1 .. n /\ q \in 1 .. n /\ p < n /\ q - 1 = p /\ p \in 0 .. n /\ q \in 0 .. n
      BY <1>1
    <2>2. r = BinCueLines(s, cue, size) /\ s \in SheetStates /\ r \in SheetStates
      BY <1>2, <2>1
    <2>3. /\ cue \in CueType
          /\ row[q] \in 0 .. Len(d.tracks) + 1
          /\ col[q] \in Nat \ {0}
          /\ q = n => col[q] = 1
          /\ cue.type = IF q = n THEN "end" ELSE IF col[q] = 1 THEN "pregap"
                        ELSE IF col[q] = 2 THEN "track" ELSE "subindex"
      BY <2>1, CueTypes
    <2>4. IF col[p] < LastCol(d, row[p])
          THEN row[q] = row[p] /\ col[q] = col[p] + 1 /\ q < n
          ELSE row[q] = row[p] + 1 /\ col[q] = 1 /\ col[p] >= 2
      BY NextCue
    <2>5. row[p] \in 0 .. Len(d.tracks) + 1 /\ col[p] \in Nat \ {0} /\ CueList(d)[p] \in CueType
      BY <2>1, CueTypes
    <2>6. ~s.ok => r = s
      BY <2>2, <2>3, SheetStep
    <2>7. s.ok => /\ s.last = CueList(d)[p]
                  /\ s.track_no = TrackNo(row, col, p)
                  /\ col[p] >= 2 => s.index_no = col[p] - 1
                  /\ ~s.done
      BY <1>4, <2>1 DEF SheetAt
    <2>8. s.ok => s.last # NoCue
      BY <2>5, <2>7 DEF CueType, NoCue, Cue
    <2>9. SheetAt(run, d, row, col, n, q) <=>
             (r.ok => /\ s.ok /\ ~s.done
                      /\ r.last = cue
                      /\ r.track_no = TrackNo(row, col, q)
                      /\ col[q] >= 2 => r.index_no = col[q] - 1
                      /\ r.done <=> q = n)
      BY <2>1 DEF SheetAt
    <2>10. row[p] \in Nat /\ row[q] \in Nat
      <3>1. Len(d.tracks) \in Nat
        BY DiscShape
      <3> QED
        BY <2>3, <2>5, <3>1
    <2> HIDE DEF s, q, r, cue
    <2>16. ASSUME s.ok PROVE SheetMoves(s, cue, r)
      <3>1. s \in SheetStates /\ cue \in CueType /\ ~s.done /\ r = BinCueLines(s, cue, size)
        BY <2>2, <2>3, <2>7, <2>16
      <3> QED
        BY <2>16, <3>1, SheetMovesOn
    <2>11. CASE ~s.ok
      BY <2>6, <2>9, <2>11 DEF s, q
    <2>12. CASE s.ok /\ q = n
      <3>1. cue.type = "end" /\ col[q] = 1
        BY <2>3, <2>12
      <3>2. /\ r.last = cue
            /\ r.track_no = s.track_no
            /\ r.ok /\ r.done
        BY <2>12, <2>16, <3>1 DEF SheetMoves
      <3>3. TrackNo(row, col, q) = s.track_no
        BY <1>1, <2>4, <2>7, <2>10, <2>12, <3>1 DEF TrackNo
      <3> QED
        BY <2>7, <2>9, <2>12, <3>1, <3>2, <3>3 DEF s, r, q
    <2>13. CASE s.ok /\ q # n /\ col[q] = 1
      <3>1. cue.type = "pregap"
        BY <2>3, <2>13
      <3>2. /\ r.last = cue
            /\ r.track_no = s.track_no
            /\ r.ok /\ ~r.done
        BY <2>13, <2>16, <3>1 DEF SheetMoves
      <3>3. TrackNo(row, col, q) = s.track_no
        BY <2>4, <2>5, <2>7, <2>10, <2>13 DEF TrackNo
      <3> QED
        BY <2>7, <2>9, <2>13, <3>1, <3>2, <3>3 DEF s, r, q
    <2>14. CASE s.ok /\ q # n /\ col[q] = 2
      <3>1. cue.type = "track"
        BY <2>3, <2>14
      <3>2. /\ r.last = cue
            /\ r.track_no = s.track_no + 1
            /\ r.index_no = 1
            /\ r.ok /\ ~r.done
        BY <2>14, <2>16, <3>1 DEF SheetMoves
      <3>3. TrackNo(row, col, q) = s.track_no + 1
        BY <2>4, <2>5, <2>7, <2>10, <2>14 DEF TrackNo
      <3> QED
        BY <2>7, <2>9, <2>14, <3>1, <3>2, <3>3 DEF s, r, q
    <2>15. CASE s.ok /\ q # n /\ col[q] >= 3
      <3>1. cue.type = "subindex"
        BY <2>3, <2>15
      <3>2. /\ r.last = cue
            /\ r.track_no = s.track_no
            /\ r.index_no = s.index_no + 1
            /\ r.ok <=> s.index_no + 1 <= CD_MAX_TRACKS
            /\ ~r.done
        BY <2>8, <2>15, <2>16, <3>1 DEF SheetMoves
      <3>3. col[q] = col[p] + 1 /\ row[q] = row[p] /\ col[p] >= 2
        BY <2>4, <2>5, <2>15
      <3>4. TrackNo(row, col, q) = s.track_no /\ s.index_no = col[p] - 1
        BY <2>3, <2>5, <2>7, <2>10, <2>15, <3>3 DEF TrackNo
      <3>5. s.index_no + 1 = col[p]
        BY <2>5, <3>4
      <3> QED
        BY <2>3, <2>5, <2>7, <2>9, <2>15, <3>1, <3>2, <3>3, <3>4, <3>5 DEF s, r, q
    <2> QED
      BY <2>3, <2>11, <2>12, <2>13, <2>14, <2>15
  <1> DEFINE T == {j \in Nat : j + 1 <= n => SheetAt(run, d, row, col, n, j + 1)}
  <1>5. 0 \in T
    BY <1>3
  <1>6. ASSUME NEW j \in Nat, j \in T PROVE j + 1 \in T
    <2> SUFFICES ASSUME j + 1 + 1 <= n PROVE SheetAt(run, d, row, col, n, j + 1 + 1)
      OBVIOUS
    <2>1. j + 1 \in 1 .. n - 1 /\ j + 1 <= n
      BY <1>1
    <2>2. SheetAt(run, d, row, col, n, j + 1)
      BY <1>6, <2>1
    <2> QED
      BY <1>4, <2>1, <2>2
  <1> HIDE DEF T
  <1>7. Nat \subseteq T
    BY <1>5, <1>6, NatSetInduction
  <1>8. ASSUME NEW p \in 1 .. n PROVE SheetAt(run, d, row, col, n, p)
    <2>1. p - 1 \in Nat /\ p - 1 + 1 = p /\ p <= n
      BY <1>1
    <2>2. p - 1 \in T
      BY <1>7, <2>1
    <2>3. p - 1 + 1 <= n => SheetAt(run, d, row, col, n, p - 1 + 1)
      BY <2>2 DEF T
    <2> QED
      BY <2>1, <2>3
  <1>9. ASSUME NEW p \in 1 .. n - 1
        PROVE  run[p].ok => (run[p + 1].ok <=> (col[p + 1] >= 3 => col[p] <= CD_MAX_TRACKS))
    <2>1. p \in 1 .. n
      BY <1>1
    <2> QED
      BY <1>4, <1>8, <2>1
  <1> QED
    BY <1>3, <1>8, <1>9
LEMMA SubLineIs ==
    ASSUME NEW E, NEW text \in Seq(E), NEW e \in E
    PROVE  LET lines == Append(text, e)
           IN  /\ Grown(text, lines)
               /\ Len(lines) = Len(text) + 1
               /\ lines[Len(text) + 1] = e
  BY AppendProperties, LenProperties DEF Grown

\* The text is not empty, whatever the cues are.
LEMMA SheetTexts ==
    ASSUME NEW s \in SheetStates, NEW cue \in CueType, NEW size \in Nat, Len(s.text) > 0
    PROVE  Len(BinCueLines(s, cue, size).text) > 0
  <1> DEFINE r == BinCueLines(s, cue, size)
  <1>1. s.text \in Seq(LineType) /\ s.track_no + 1 \in Nat /\ s.index_no + 1 \in Nat
        /\ s.last \in CueType \cup {NoCue}
    BY DEF SheetStates
  <1>2. cue.lsn \in Nat /\ cue.type \in {"pregap", "track", "subindex", "end"}
    BY DEF CueType
  <1>3. Len(s.text) \in Nat
    BY <1>1, LenProperties
  <1>4. CASE s.done \/ ~s.ok
    BY <1>4, SheetStep
  <1>5. CASE ~s.done /\ s.ok /\ cue.type = "track"
    <2>1. r.text = TrackLines(s.text, s.track_no + 1, size, s.last, cue.lsn)
      BY <1>5, SheetStep
    <2>2. Grown(s.text, TrackLines(s.text, s.track_no + 1, size, s.last, cue.lsn))
      BY <1>1, <1>2, TrackLinesAre
    <2>3. TrackLines(s.text, s.track_no + 1, size, s.last, cue.lsn) \in Seq(LineType)
      BY <1>1, <1>2, TrackLinesAre
    <2>4. Len(TrackLines(s.text, s.track_no + 1, size, s.last, cue.lsn)) \in Nat
      BY <2>3, LenProperties
    <2> QED
      BY <1>3, <2>1, <2>2, <2>4 DEF Grown
  <1>6. CASE ~s.done /\ s.ok /\ cue.type = "subindex"
    <2>1. r.text = SubLine(s.text, s.index_no + 1, cue.lsn)
      BY <1>6, SheetStep
    <2>2. IndexLine(s.index_no + 1, cue.lsn) \in LineType
      BY <1>1, <1>2 DEF IndexLine, LineType
    <2>3. Len(r.text) = Len(s.text) + 1
      BY <1>1, <2>1, <2>2, SubLineIs DEF SubLine
    <2> QED
      BY <1>3, <2>3
  <1>7. CASE ~s.done /\ s.ok /\ cue.type \in {"pregap", "end"}
    BY <1>7, SheetStep
  <1> QED
    BY <1>2, <1>4, <1>5, <1>6, <1>7

\* The whole walk: every assertion holds unless a track has as many entry points as it
\* may have.
LEMMA SheetDone ==
    ASSUME NEW d \in Discs, NEW size \in Nat
    PROVE  LET s == SheetOf(SheetStart, CueList(d), size)
           IN  /\ s.text \in Seq(LineType)
               /\ Len(s.text) > 0
               /\ s.done /\ s.ok <=> FewEntries(d)
  <1> DEFINE m == Len(d.tracks)
             n == Len(CueList(d))
             s == SheetOf(SheetStart, CueList(d), size)
  <1>1. PICK row, col : LaidOut(d, row, col, n)
    BY CuesLaidOut
  <1>2. PICK run : SheetIs(run, d, row, col, n, size)
    BY <1>1, SheetExists
  <1>3. /\ n \in Nat /\ n >= 2
        /\ \A p \in 0 .. n : run[p] \in SheetStates
        /\ run[0] = SheetStart
        /\ \A p \in 1 .. n : run[p] = BinCueLines(run[p - 1], CueList(d)[p], size)
        /\ s = run[n]
    BY <1>1, <1>2 DEF SheetIs, LaidOut
  <1>4. s \in SheetStates /\ s.text \in Seq(LineType)
    BY <1>3 DEF SheetStates
  <1> HIDE DEF s, n, m
  <1>5. Len(s.text) > 0
    <2> DEFINE T == {j \in Nat : j <= n => Len(run[j].text) > 0}
    <2>1. 0 \in T
      <3>1. Len(SheetStart.text) = 1
        BY DEF SheetStart
      <3> QED
        BY <1>3, <3>1
    <2>2. ASSUME NEW j \in Nat, j \in T PROVE j + 1 \in T
      <3> SUFFICES ASSUME j + 1 <= n PROVE Len(run[j + 1].text) > 0
        OBVIOUS
      <3>1. j \in 0 .. n /\ j + 1 \in 1 .. n /\ j + 1 - 1 = j /\ j <= n
        BY <1>3
      <3>2. run[j] \in SheetStates /\ Len(run[j].text) > 0
        BY <1>3, <2>2, <3>1
      <3>3. CueList(d)[j + 1] \in CueType
        BY <1>1, <3>1, CueTypes
      <3>4. run[j + 1] = BinCueLines(run[j], CueList(d)[j + 1], size)
        BY <1>3, <3>1
      <3> QED
        BY <3>2, <3>3, <3>4, SheetTexts
    <2> HIDE DEF T
    <2>3. Nat \subseteq T
      BY <2>1, <2>2, NatSetInduction
    <2>4. n \in T
      BY <1>3, <2>3
    <2> QED
      BY <1>3, <2>4 DEF T
  <1>6. /\ \A p \in 1 .. n : SheetAt(run, d, row, col, n, p)
        /\ run[1].ok
        /\ \A p \in 1 .. n - 1 :
              run[p].ok => (run[p + 1].ok <=> (col[p + 1] >= 3 => col[p] <= CD_MAX_TRACKS))
    BY <1>1, <1>2, SheetGoes
  <1>7. \A p \in 1 .. n : run[p].ok => run[p - 1].ok
    BY <1>6 DEF SheetAt
  <1>8. s.ok => s.done
    <2>1. n \in 1 .. n
      BY <1>3
    <2> QED
      BY <1>3, <1>6, <2>1 DEF SheetAt
  <1>9. ASSUME FewEntries(d) PROVE s.ok
    <2> DEFINE T == {j \in Nat : j + 1 <= n => run[j + 1].ok}
    <2>1. 0 \in T
      BY <1>6
    <2>2. ASSUME NEW j \in Nat, j \in T PROVE j + 1 \in T
      <3> SUFFICES ASSUME j + 1 + 1 <= n PROVE run[j + 1 + 1].ok
        OBVIOUS
      <3> DEFINE p == j + 1
      <3>1. p \in 1 .. n - 1 /\ p \in 1 .. n /\ p + 1 \in 1 .. n /\ p < n
        BY <1>3
      <3>2. run[p].ok
        BY <1>3, <2>2, <3>1
      <3> HIDE DEF p
      <3>3. ASSUME col[p + 1] >= 3 PROVE col[p] <= CD_MAX_TRACKS
        <4>1. /\ col[p] \in Nat \ {0}
              /\ row[p] \in 0 .. Len(d.tracks) + 1
              /\ col[p] <= LastCol(d, row[p])
              /\ LastCol(d, row[p]) \in Nat
              /\ row[p] <= Len(d.tracks)
          BY <1>1, <3>1, CueTypes
        <4>2. IF col[p] < LastCol(d, row[p])
              THEN row[p + 1] = row[p] /\ col[p + 1] = col[p] + 1
              ELSE row[p + 1] = row[p] + 1 /\ col[p + 1] = 1
          BY <1>1, <3>1, NextCue
        <4>3. col[p] + 1 <= LastCol(d, row[p])
          BY <3>3, <4>1, <4>2
        <4>4. CASE row[p] = 0
          <5>1. LastCol(d, row[p]) = 2
            BY <4>4, EmptySeq DEF LastCol, Subs
          <5> QED
            BY <4>1, <4>3, <5>1, CueAssumption
        <4>5. CASE row[p] # 0
          <5>1. row[p] \in DOMAIN d.tracks
            BY <4>1, <4>5, DiscShape
          <5>2. Len(d.tracks[row[p]].entries) < CD_MAX_TRACKS
            BY <1>9, <5>1 DEF FewEntries
          <5>3. LastCol(d, row[p]) = Len(d.tracks[row[p]].entries) + 2
            BY <4>5 DEF LastCol, Subs
          <5>4. Len(d.tracks[row[p]].entries) \in Nat
            BY <5>1, DiscShape, LenProperties
          <5>5. col[p] + 1 <= Len(d.tracks[row[p]].entries) + 2
            BY <4>3, <5>3
          <5>6. col[p] \in Nat /\ CD_MAX_TRACKS \in Nat
            BY <4>1, CueAssumption
          <5> QED
            BY <5>2, <5>4, <5>5, <5>6
        <4> QED
          BY <4>4, <4>5
      <3>4. run[p + 1].ok
        BY <1>6, <3>1, <3>2, <3>3
      <3> QED
        BY <3>4 DEF p
    <2> HIDE DEF T
    <2>3. Nat \subseteq T
      BY <2>1, <2>2, NatSetInduction
    <2>4. n - 1 \in T /\ n - 1 + 1 = n
      BY <1>3, <2>3
    <2>5. n - 1 + 1 <= n => run[n - 1 + 1].ok
      BY <2>4 DEF T
    <2> QED
      BY <1>3, <2>4, <2>5
  <1>10. ASSUME ~FewEntries(d) PROVE ~s.ok
    <2>1. PICK k \in DOMAIN d.tracks : ~(Len(d.tracks[k].entries) < CD_MAX_TRACKS)
      BY <1>10 DEF FewEntries
    <2>2. k \in 1 .. Len(d.tracks) /\ Len(d.tracks[k].entries) \in Nat /\ CD_MAX_TRACKS \in Nat \ {0} /\ k # 0
          /\ Len(d.tracks) \in Nat
      BY DiscShape, LenProperties, CueAssumption
    <2>3. LastCol(d, k) = Len(d.tracks[k].entries) + 2
      BY <2>2 DEF LastCol, Subs
    <2>4. CD_MAX_TRACKS + 2 \in 1 .. LastCol(d, k)
      BY <2>1, <2>2, <2>3
    <2>5. PICK q \in 1 .. n - 1 : row[q] = k /\ col[q] = CD_MAX_TRACKS + 2
      BY <1>1, <2>2, <2>4 DEF LaidOut
    <2>6. row[1] = 0
      BY <1>1 DEF LaidOut
    <2> DEFINE p == q - 1
    <2>7. p \in 1 .. n - 1 /\ p + 1 = q /\ p \in 1 .. n /\ q \in 1 .. n
      BY <1>3, <2>2, <2>5, <2>6
    <2> HIDE DEF p
    <2>8. IF col[p] < LastCol(d, row[p])
          THEN row[p + 1] = row[p] /\ col[p + 1] = col[p] + 1
          ELSE row[p + 1] = row[p] + 1 /\ col[p + 1] = 1
      BY <1>1, <2>7, NextCue
    <2>9. col[p] \in Nat \ {0}
      BY <1>1, <2>7, CueTypes
    <2>10. col[p] = CD_MAX_TRACKS + 1 /\ col[p + 1] >= 3
      BY <2>2, <2>5, <2>7, <2>8, <2>9
    <2>11. ~(col[p] <= CD_MAX_TRACKS)
      BY <2>2, <2>10
    <2>12. ~run[q].ok
      <3>1. run[p].ok => (run[p + 1].ok <=> (col[p + 1] >= 3 => col[p] <= CD_MAX_TRACKS))
        BY <1>6, <2>7
      <3>2. run[q].ok => run[p].ok
        <4>1. q - 1 = p
          BY <2>7
        <4> QED
          BY <1>7, <2>7, <4>1
      <3> QED
        BY <2>7, <2>10, <2>11, <3>1, <3>2
    <2> DEFINE T == {j \in Nat : q + j <= n => ~run[q + j].ok}
    <2>13. 0 \in T
      BY <2>12
    <2>14. ASSUME NEW j \in Nat, j \in T PROVE j + 1 \in T
      <3> SUFFICES ASSUME q + (j + 1) <= n PROVE ~run[q + (j + 1)].ok
        OBVIOUS
      <3>1. q + (j + 1) \in 1 .. n /\ q + (j + 1) - 1 = q + j /\ q + j <= n
        BY <1>3
      <3>2. ~run[q + j].ok
        BY <2>14, <3>1
      <3> QED
        BY <1>7, <3>1, <3>2
    <2> HIDE DEF T
    <2>15. Nat \subseteq T
      BY <2>13, <2>14, NatSetInduction
    <2>16. n - q \in Nat /\ q + (n - q) = n
      BY <1>3
    <2>17. n - q \in T
      BY <2>15, <2>16
    <2>18. q + (n - q) <= n => ~run[q + (n - q)].ok
      BY <2>17 DEF T
    <2> QED
      BY <1>3, <2>16, <2>18
  <1> QED
    BY <1>4, <1>5, <1>8, <1>9, <1>10 DEF s
-----------------------------------------------------------------------------
(* BIN/CUE: what the calls do.                                             *)

\* The assignments to the sink's struct.
WithBin(obj, s) == [obj EXCEPT !.bin_snk = s]
WithCue(obj, s) == [obj EXCEPT !.cue_snk = s]

LEMMA BinCueFields ==
    ASSUME NEW flag, NEW bin, NEW cue
    PROVE  LET obj == BinCueObj(flag, bin, cue)
           IN  /\ SectorSize(obj) = Size(flag)
               /\ obj.bin_snk = bin
               /\ obj.cue_snk = cue
               /\ obj.init
  BY DEF BinCueObj, SectorSize, Size

LEMMA BinCueStreams ==
    ASSUME NEW flag, NEW bin, NEW cue, NEW s
    PROVE  /\ WithBin(BinCueObj(flag, bin, cue), s) = BinCueObj(flag, s, cue)
           /\ WithCue(BinCueObj(flag, bin, cue), s) = BinCueObj(flag, bin, s)
  <1> DEFINE Row(f, i, x, y) == [k \in {"sector_2336_flag", "init", "bin_snk", "cue_snk"} |->
                                   CASE k = "sector_2336_flag" -> f [] k = "init" -> i
                                     [] k = "bin_snk" -> x [] k = "cue_snk" -> y]
             Obj(f, i, x, y) == [sector_2336_flag |-> f, init |-> i, bin_snk |-> x, cue_snk |-> y]
             yes == TRUE
  <1>1. \A f, i, x, y : Obj(f, i, x, y) = Row(f, i, x, y)
    OBVIOUS
  <1>2. [Row(flag, yes, bin, cue) EXCEPT !.bin_snk = s] = Row(flag, yes, s, cue)
    OBVIOUS
  <1>3. [Row(flag, yes, bin, cue) EXCEPT !.cue_snk = s] = Row(flag, yes, bin, s)
    OBVIOUS
  <1>4. \A x, y : BinCueObj(flag, x, y) = Obj(flag, yes, x, y)
    BY DEF BinCueObj
  <1> HIDE DEF Row, Obj, yes
  <1> QED
    BY <1>1, <1>2, <1>3, <1>4 DEF WithBin, WithCue

LEMMA BinCueInitIs ==
    ASSUME NEW flag, NEW bin, NEW cue
    PROVE  /\ BinCueInit(BinCueIdle(flag)) = BinCueObj(flag, Sink(BinFile), Sink(CueFile))
           /\ BinCueInit(BinCueObj(flag, bin, cue)) = BinCueObj(flag, bin, cue)
  BY DEF BinCueInit, BinCueObj, BinCueIdle

LEMMA FilesDiffer ==
    /\ BinFile # CueFile
    /\ \A k, b : ImageFile(k, b) # TocFile
  BY DEF BinFile, CueFile, ImageFile, TocFile

\* The first file of a disk.
LEMMA FirstFile ==
    ASSUME NEW f, NEW file
    PROVE  /\ Whole(Put(NoFiles, f, file))
           /\ DOMAIN Put(NoFiles, f, file) = {f}
           /\ Put(NoFiles, f, file)[f] = file
  BY DEF Whole, Put, NoFiles

LEMMA SizeIs ==
    ASSUME NEW flag \in BOOLEAN
    PROVE  Size(flag) \in Nat \ {0}
  BY CueAssumption DEF Size

\* _set_cuesheet: the cue sheet is complete unless a track has too many entry points.
LEMMA BinCueSheetIs ==
    ASSUME NEW d \in Discs, NEW flag \in BOOLEAN
    PROVE  LET r == BinCueSetCuesheet(BinCueIdle(flag), NoFiles, CueList(d))
           IN  /\ r.obj = BinCueObj(flag, Sink(BinFile), Sink(CueFile))
               /\ r.ok <=> FewEntries(d)
               /\ BinCueDisk(r.disk, d, Size(flag), 0)
  <1> DEFINE obj == BinCueIdle(flag)
             list == CueList(d)
             o == BinCueInit(obj)
             s == SheetOf(SheetStart, list, SectorSize(o))
             printed == PrintOf([disk |-> NoFiles, sink |-> o.cue_snk], s.text)
             out == SinkClose(printed)
             r == BinCueSetCuesheet(obj, NoFiles, list)
  <1>1. r = [obj |-> [o EXCEPT !.cue_snk = out.sink], disk |-> out.disk, ok |-> s.done /\ s.ok]
    BY DEF BinCueSetCuesheet, SheetOf, SheetStart, PrintOf
  <1> HIDE DEF r, out, printed, s
  <1>2. o = BinCueObj(flag, Sink(BinFile), Sink(CueFile))
    BY BinCueInitIs
  <1> HIDE DEF o, obj, list
  <1>3. SectorSize(o) = Size(flag) /\ o.cue_snk = Sink(CueFile)
    BY <1>2, BinCueFields
  <1>4. Size(flag) \in Nat
    BY SizeIs
  <1>5. s = SheetOf(SheetStart, CueList(d), Size(flag))
    BY <1>3 DEF s, list
  <1>6. s.text \in Seq(LineType) /\ Len(s.text) > 0 /\ (s.done /\ s.ok <=> FewEntries(d))
    BY <1>4, <1>5, SheetDone
  <1>7. printed = PrintOf(On(NoFiles, Sink(CueFile)), s.text)
    BY <1>3 DEF printed, On
  <1>8. PICK file : /\ TextIn(file, s.text)
                    /\ printed = On(Put(NoFiles, CueFile, file), OpenAt(CueFile, Len(s.text)))
    BY <1>6, <1>7, PrintText
  <1>9. out = On(Put(NoFiles, CueFile, file), Sink(CueFile))
    BY <1>8, CloseIs DEF out
  <1>10. out.sink = Sink(CueFile) /\ out.disk = Put(NoFiles, CueFile, file)
    BY <1>9 DEF On
  <1>11. r.obj = BinCueObj(flag, Sink(BinFile), Sink(CueFile))
    <2>1. r.obj = WithCue(BinCueObj(flag, Sink(BinFile), Sink(CueFile)), Sink(CueFile))
      BY <1>1, <1>2, <1>10 DEF WithCue
    <2> QED
      BY <2>1, BinCueStreams
  <1>12. BinCueDisk(r.disk, d, Size(flag), 0)
    <2>1. r.disk = Put(NoFiles, CueFile, file)
      BY <1>1, <1>10
    <2>2. /\ Whole(r.disk)
          /\ DOMAIN r.disk = {CueFile}
          /\ r.disk[CueFile] = file
      BY <2>1, FirstFile
    <2>3. TextIn(r.disk[CueFile], SheetText(d, Size(flag)))
      BY <1>5, <1>8, <2>2 DEF SheetText
    <2> QED
      BY <2>2, <2>3 DEF BinCueDisk
  <1>13. r.ok <=> FewEntries(d)
    BY <1>1, <1>6
  <1> QED
    BY <1>11, <1>12, <1>13 DEF r, obj, list
\* A sector more in a file of sectors.
LEMMA HoldsMore ==
    ASSUME NEW file, NEW from \in Nat, NEW count \in Nat, NEW size \in Nat \ {0},
           Holds(file, from, count, size)
    PROVE  Holds(Put(file, count * size, SectorOf(from + count, size)), from, count + 1, size)
  <1> DEFINE what == SectorOf(from + count, size)
             new == Put(file, count * size, what)
  <1>1. /\ DOMAIN file = {i * size : i \in 0 .. count - 1}
        /\ \A i \in 0 .. count - 1 : file[i * size] = SectorOf(from + i, size)
    BY DEF Holds
  <1> HIDE DEF what
  <1>2. /\ \A x : x \in DOMAIN new <=> x \in DOMAIN file \/ x = count * size
        /\ new[count * size] = what
        /\ \A x \in DOMAIN file : x # count * size => new[x] = file[x]
    BY PutIs
  <1> HIDE DEF new
  <1>3. DOMAIN new = {i * size : i \in 0 .. count + 1 - 1}
    <2>1. \A i : i \in 0 .. count + 1 - 1 <=> i \in 0 .. count - 1 \/ i = count
      OBVIOUS
    <2> QED
      BY <1>1, <1>2, <2>1
  <1>4. \A i \in 0 .. count - 1 : i * size # count * size /\ i * size \in DOMAIN file
    <2> SUFFICES ASSUME NEW i \in 0 .. count - 1 PROVE i * size # count * size /\ i * size \in DOMAIN file
      OBVIOUS
    <2>1. i * size \in DOMAIN file
      BY <1>1
    <2>2. i \in Nat /\ i # count
      OBVIOUS
    <2>3. i * size # count * size
      <3>1. 0 \in 0 .. size - 1 /\ i * size = i * size + 0 /\ count * size = count * size + 0
        OBVIOUS
      <3> QED
        BY <2>2, <3>1, DivUnique
    <2> QED
      BY <2>1, <2>3
  <1>5. ASSUME NEW i \in 0 .. count + 1 - 1 PROVE new[i * size] = SectorOf(from + i, size)
    <2>1. CASE i = count
      BY <1>2, <2>1 DEF what
    <2>2. CASE i # count
      <3>1. i \in 0 .. count - 1
        BY <2>2
      <3> QED
        BY <1>1, <1>2, <1>4, <3>1
    <2> QED
      BY <2>1, <2>2
  <1> QED
    BY <1>3, <1>5 DEF Holds, new, what

LEMMA HoldsNone ==
    ASSUME NEW from, NEW size
    PROVE  Holds(EmptyFile, from, 0, size)
  BY DEF Holds, EmptyFile

\* The next sector goes to the end of its file, which is made for the first one.
Stores(files, f, stream, from, count, size) ==
    \E file : /\ Holds(file, from, count + 1, size)
              /\ SinkWrite(SinkSeek(On(files, stream), count * size), SectorOf(from + count, size), size)
                   = On(Put(files, f, file), OpenAt(f, (count + 1) * size))

LEMMA StoreSector ==
    ASSUME NEW files, Whole(files), NEW f, NEW stream, NEW from \in Nat, NEW count \in Nat,
           NEW size \in Nat \ {0},
           count = 0 => stream = Sink(f),
           count > 0 => /\ stream = OpenAt(f, count * size)
                        /\ f \in DOMAIN files
                        /\ Holds(files[f], from, count, size)
    PROVE  Stores(files, f, stream, from, count, size)
  <1> DEFINE what == SectorOf(from + count, size)
             at == count * size
             to == SinkSeek(On(files, stream), at)
  <1>1. at \in Nat /\ at + size = (count + 1) * size /\ size \in Nat
    OBVIOUS
  <1> HIDE DEF what, at
  <1>2. CASE count = 0
    <2> DEFINE new == Put(files, f, EmptyFile)
               file == Put(EmptyFile, at, what)
    <2>1. to = On(new, OpenAt(f, at))
      BY <1>2, SeekIs
    <2> HIDE DEF EmptyFile
    <2>2. f \in DOMAIN new /\ new[f] = EmptyFile /\ Whole(new)
      BY PutIs
    <2>3. Put(new, f, file) = Put(files, f, file)
      <3> HIDE DEF file
      <3> QED
        BY PutAgain
    <2> HIDE DEF new, to
    <2>4. SinkWrite(to, what, size) = On(Put(new, f, Put(new[f], at, what)), OpenAt(f, at + size))
      BY <1>1, <2>1, <2>2, WriteIs
    <2>5. Holds(file, from, count + 1, size)
      <3>1. Holds(EmptyFile, from, count, size)
        BY <1>2, HoldsNone
      <3> QED
        BY <3>1, HoldsMore DEF at, what
    <2>6. SinkWrite(to, what, size) = On(Put(files, f, file), OpenAt(f, (count + 1) * size))
      BY <1>1, <2>2, <2>3, <2>4
    <2> QED
      BY <2>5, <2>6 DEF to, at, what, Stores
  <1>3. CASE count # 0
    <2> DEFINE file == Put(files[f], at, what)
    <2>1. /\ stream = OpenAt(f, at)
          /\ f \in DOMAIN files
          /\ Holds(files[f], from, count, size)
      BY <1>3 DEF at
    <2>2. to = On(files, OpenAt(f, at))
      BY <2>1, SeekIs
    <2> HIDE DEF to
    <2>3. SinkWrite(to, what, size) = On(Put(files, f, file), OpenAt(f, at + size))
      BY <1>1, <2>1, <2>2, WriteIs
    <2>4. Holds(file, from, count + 1, size)
      BY <2>1, HoldsMore DEF at, what
    <2>5. SinkWrite(to, what, size) = On(Put(files, f, file), OpenAt(f, (count + 1) * size))
      BY <1>1, <2>3
    <2> QED
      BY <2>4, <2>5 DEF to, at, what, Stores
  <1> QED
    BY <1>2, <1>3

\* _vcd_image_bincue_write
LEMMA BinCueWriteIs ==
    ASSUME NEW d \in Discs, NEW flag \in BOOLEAN, NEW files, NEW n \in Nat, NEW bin,
           BinCueDisk(files, d, Size(flag), n),
           n = 0 => bin = Sink(BinFile),
           n > 0 => bin = OpenAt(BinFile, n * Size(flag))
    PROVE  LET r == BinCueWrite(BinCueObj(flag, bin, Sink(CueFile)), files, n)
           IN  /\ r.obj = BinCueObj(flag, OpenAt(BinFile, (n + 1) * Size(flag)), Sink(CueFile))
               /\ r.ok
               /\ BinCueDisk(r.disk, d, Size(flag), n + 1)
  <1> DEFINE obj == BinCueObj(flag, bin, Sink(CueFile))
             o == BinCueInit(obj)
             out == SinkWrite(SinkSeek([disk |-> files, sink |-> o.bin_snk], n * SectorSize(o)),
                              Stored(o, n), SectorSize(o))
             r == BinCueWrite(obj, files, n)
             size == Size(flag)
  <1>1. r = [obj |-> [o EXCEPT !.bin_snk = out.sink], disk |-> out.disk, ok |-> TRUE]
    BY DEF BinCueWrite
  <1> HIDE DEF r, out
  <1>2. o = BinCueObj(flag, bin, Sink(CueFile))
    BY BinCueInitIs
  <1> HIDE DEF o, obj
  <1>3. SectorSize(o) = size /\ o.bin_snk = bin
    BY <1>2, BinCueFields
  <1>4. Stored(o, n) = SectorOf(n, size)
    BY <1>3 DEF Stored, SectorOf
  <1>5. out = SinkWrite(SinkSeek(On(files, bin), n * size), SectorOf(n, size), size)
    BY <1>3, <1>4 DEF out, On
  <1>6. size \in Nat \ {0}
    BY SizeIs
  <1>7. /\ Whole(files)
        /\ DOMAIN files = {CueFile} \cup (IF n = 0 THEN {} ELSE {BinFile})
        /\ TextIn(files[CueFile], SheetText(d, size))
        /\ n > 0 => Holds(files[BinFile], 0, n, size)
    BY DEF BinCueDisk
  <1> HIDE DEF size
  <1>8. PICK file : /\ Holds(file, 0, n + 1, size)
                    /\ out = On(Put(files, BinFile, file), OpenAt(BinFile, (n + 1) * size))
    <2> DEFINE from == 0
    <2>1. from \in Nat /\ from + n = n /\ (n > 0 => BinFile \in DOMAIN files)
      BY <1>7
    <2>2. n > 0 => /\ bin = OpenAt(BinFile, n * size)
                   /\ BinFile \in DOMAIN files
                   /\ Holds(files[BinFile], from, n, size)
      BY <1>7, <2>1 DEF size
    <2>3. n = 0 => bin = Sink(BinFile)
      OBVIOUS
    <2> HIDE DEF from
    <2>4. \E file : /\ Holds(file, from, n + 1, size)
                    /\ SinkWrite(SinkSeek(On(files, bin), n * size), SectorOf(from + n, size), size)
                         = On(Put(files, BinFile, file), OpenAt(BinFile, (n + 1) * size))
      <3>1. Stores(files, BinFile, bin, from, n, size)
        BY <1>6, <1>7, <2>1, <2>2, <2>3, StoreSector
      <3> QED
        BY <3>1 DEF Stores
    <2> QED
      BY <1>5, <2>1, <2>4 DEF from
  <1>9. out.sink = OpenAt(BinFile, (n + 1) * size) /\ out.disk = Put(files, BinFile, file)
    BY <1>8 DEF On
  <1>10. r.obj = BinCueObj(flag, OpenAt(BinFile, (n + 1) * size), Sink(CueFile))
    <2>1. r.obj = WithBin(o, out.sink)
      BY <1>1 DEF WithBin
    <2> QED
      BY <1>2, <1>9, <2>1, BinCueStreams
  <1>11. BinCueDisk(r.disk, d, size, n + 1)
    <2> DEFINE new == Put(files, BinFile, file)
    <2>1. r.disk = new
      BY <1>1, <1>9
    <2>2. /\ \A x : x \in DOMAIN new <=> x \in DOMAIN files \/ x = BinFile
          /\ new[BinFile] = file
          /\ \A x \in DOMAIN files : x # BinFile => new[x] = files[x]
          /\ Whole(new)
      BY PutIs
    <2> HIDE DEF new
    <2>3. CueFile # BinFile
      BY FilesDiffer
    <2>4. DOMAIN new = {CueFile} \cup (IF n + 1 = 0 THEN {} ELSE {BinFile})
      <3>1. n + 1 # 0
        OBVIOUS
      <3>2. \A x : x \in DOMAIN files \/ x = BinFile <=> x = CueFile \/ x = BinFile
        BY <1>7
      <3> QED
        BY <2>2, <3>1, <3>2
    <2>5. CueFile \in DOMAIN files
      BY <1>7
    <2>6. new[CueFile] = files[CueFile]
      BY <2>2, <2>3, <2>5
    <2> QED
      BY <1>7, <1>8, <2>1, <2>2, <2>4, <2>6 DEF BinCueDisk
  <1>12. r.ok
    BY <1>1
  <1> QED
    BY <1>10, <1>11, <1>12 DEF r, obj, size

\* _sink_free
LEMMA BinCueFreeIs ==
    ASSUME NEW flag, NEW files, NEW p
    PROVE  LET r == BinCueFree(BinCueObj(flag, OpenAt(BinFile, p), Sink(CueFile)), files)
           IN  r.obj = BinCueObj(flag, NoSink, NoSink) /\ r.disk = files /\ r.ok
  <1> DEFINE obj == BinCueObj(flag, OpenAt(BinFile, p), Sink(CueFile))
             bin == SinkDestroy([disk |-> files, sink |-> obj.bin_snk]).sink
             cue == SinkDestroy([disk |-> files, sink |-> obj.cue_snk]).sink
             r == BinCueFree(obj, files)
  <1>1. r = [obj |-> [obj EXCEPT !.bin_snk = bin, !.cue_snk = cue], disk |-> files, ok |-> obj.init]
    BY DEF BinCueFree
  <1> HIDE DEF r, bin, cue
  <1>2. obj.bin_snk = OpenAt(BinFile, p) /\ obj.cue_snk = Sink(CueFile) /\ obj.init
    BY BinCueFields
  <1> HIDE DEF obj
  <1>3. bin = SinkDestroy(On(files, OpenAt(BinFile, p))).sink /\ cue = SinkDestroy(On(files, Sink(CueFile))).sink
    BY <1>2 DEF bin, cue, On
  <1>4. bin = On(files, NoSink).sink /\ cue = On(files, NoSink).sink
    BY <1>3, CloseIs
  <1>5. bin = NoSink /\ cue = NoSink
    BY <1>4 DEF On
  <1>6. r.obj = WithCue(WithBin(obj, bin), cue)
    BY <1>1 DEF WithBin, WithCue
  <1>7. obj = BinCueObj(flag, OpenAt(BinFile, p), Sink(CueFile))
    BY DEF obj
  <1>8. r.obj = BinCueObj(flag, NoSink, NoSink)
    BY <1>5, <1>6, <1>7, BinCueStreams
  <1>9. r.disk = files /\ r.ok
    BY <1>1, <1>2
  <1> QED
    BY <1>8, <1>9 DEF r, obj
-----------------------------------------------------------------------------
(* cdrdao: the table of contents is written to its end.                    *)

TocLineType ==
    [line : {"TRACK", "INDEX"}, no : Nat, at : Int]
      \cup [line : {"DATAFILE"}, no : Nat, at : Nat, pregap : BOOLEAN]

TocStates ==
    [text : Seq(TocLineType), track_no : Nat, last_track_lsn : Nat, last : CueType \cup {NoCue},
     done : BOOLEAN]

\* The lines of a track's cue, and of an entry point, behind a text.
TocLines(text, no, size, last) ==
    text \o <<TrackLine(no, size)>>
      \o (IF last.type = "pregap" THEN <<DataFile(no, TRUE)>> ELSE <<>>)
      \o <<DataFile(no, FALSE)>>

TocSub(text, at) == Append(text, TocIndexLine(at))

LEMMA TocLinesAre ==
    ASSUME NEW text \in Seq(TocLineType), NEW no \in Nat, NEW size \in Nat, NEW last
    PROVE  LET lines == TocLines(text, no, size, last)
               l == Len(text)
           IN  /\ lines \in Seq(TocLineType)
               /\ Grown(text, lines)
               /\ lines[l + 1] = TrackLine(no, size)
               /\ last.type = "pregap" => /\ Len(lines) = l + 3
                                          /\ lines[l + 2] = DataFile(no, TRUE)
                                          /\ lines[l + 3] = DataFile(no, FALSE)
               /\ last.type # "pregap" => /\ Len(lines) = l + 2
                                          /\ lines[l + 2] = DataFile(no, FALSE)
  <1>1. TrackLine(no, size) \in TocLineType
    BY DEF TrackLine, TocLineType
  <1>2. ASSUME NEW b \in BOOLEAN PROVE DataFile(no, b) \in TocLineType
    BY DEF DataFile, TocLineType
  <1> DEFINE has == last.type = "pregap"
             x == TrackLine(no, size)
             y == DataFile(no, TRUE)
             z == DataFile(no, FALSE)
  <1>3. TocLines(text, no, size, last) = LinesBehind(text, x, has, y, z)
    BY DEF TocLines, LinesBehind
  <1>4. has \in BOOLEAN /\ x \in TocLineType /\ y \in TocLineType /\ z \in TocLineType
    BY <1>1, <1>2
  <1> HIDE DEF has, x, y, z, TocLineType
  <1>5. LET lines == LinesBehind(text, x, has, y, z)
            l == Len(text)
        IN  /\ lines \in Seq(TocLineType)
            /\ Grown(text, lines)
            /\ lines[l + 1] = x
            /\ has => Len(lines) = l + 3 /\ lines[l + 2] = y /\ lines[l + 3] = z
            /\ ~has => Len(lines) = l + 2 /\ lines[l + 2] = z
    BY <1>4, LinesAre
  <1> QED
    BY <1>3, <1>5 DEF has, x, y, z

LEMMA TocLinesMany ==
    ASSUME NEW text \in Seq(TocLineType), NEW no \in Nat, NEW size \in Nat, NEW last
    PROVE  LET lines == TocLines(text, no, size, last)
           IN  /\ last.type = "pregap" => Len(lines) = Len(text) + 3
               /\ last.type # "pregap" => Len(lines) = Len(text) + 2
  <1> DEFINE lines == TocLines(text, no, size, last)
             l == Len(text)
  <1>1. /\ lines \in Seq(TocLineType)
        /\ Grown(text, lines)
        /\ lines[l + 1] = TrackLine(no, size)
        /\ last.type = "pregap" => /\ Len(lines) = l + 3
                                   /\ lines[l + 2] = DataFile(no, TRUE)
                                   /\ lines[l + 3] = DataFile(no, FALSE)
        /\ last.type # "pregap" => /\ Len(lines) = l + 2
                                   /\ lines[l + 2] = DataFile(no, FALSE)
    BY TocLinesAre
  <1> HIDE DEF lines, l
  <1>2. (last.type = "pregap" => Len(lines) = l + 3) /\ (last.type # "pregap" => Len(lines) = l + 2)
    BY <1>1
  <1> QED
    BY <1>2 DEF lines, l

\* What a cue does.
LEMMA TocStep ==
    ASSUME NEW s \in TocStates, NEW cue \in CueType, NEW size \in Nat
    PROVE  LET r == CdrdaoLines(s, cue, size)
           IN  /\ r \in TocStates
               /\ s.done => r = s
               /\ ~s.done =>
                     /\ r.last = cue
                     /\ cue.type = "track" =>
                          /\ r.track_no = s.track_no + 1
                          /\ r.last_track_lsn = cue.lsn
                          /\ ~r.done
                          /\ r.text = TocLines(s.text, s.track_no + 1, size, s.last)
                     /\ cue.type = "subindex" =>
                          /\ r.track_no = s.track_no
                          /\ r.last_track_lsn = s.last_track_lsn
                          /\ ~r.done
                          /\ r.text = TocSub(s.text, cue.lsn - s.last_track_lsn)
                     /\ cue.type \in {"pregap", "end"} =>
                          /\ r.track_no = s.track_no
                          /\ r.last_track_lsn = s.last_track_lsn
                          /\ r.done <=> cue.type = "end"
                          /\ r.text = s.text
  <1> DEFINE r == CdrdaoLines(s, cue, size)
             L == Seq(TocLineType)
             C == CueType \cup {NoCue}
  <1>1. /\ s.text \in L /\ s.track_no \in Nat /\ s.last_track_lsn \in Nat
        /\ s.last \in C /\ s.done \in BOOLEAN
        /\ s \in [text : L, track_no : Nat, last_track_lsn : Nat, last : C, done : BOOLEAN]
    BY DEF TocStates
  <1>2. cue.lsn \in Nat /\ cue.type \in {"pregap", "track", "subindex", "end"} /\ cue \in C
    BY DEF CueType
  <1>3. CASE s.done
    BY <1>3 DEF CdrdaoLines
  <1>4. CASE ~s.done /\ cue.type = "track"
    <2> DEFINE no == s.track_no + 1
               lsn == cue.lsn
               text == TocLines(s.text, no, size, s.last)
    <2>1. text \in L /\ no \in Nat /\ lsn \in Nat
      <3>1. no \in Nat
        BY <1>1
      <3> HIDE DEF no
      <3> QED
        BY <1>1, <1>2, <3>1, TocLinesAre
    <2>2. r = [s EXCEPT !.track_no = no, !.last_track_lsn = lsn, !.text = text, !.last = cue]
      BY <1>4 DEF CdrdaoLines, TocLines
    <2> HIDE DEF text, r, no, lsn, L, C
    <2>3. /\ r \in [text : L, track_no : Nat, last_track_lsn : Nat, last : C, done : BOOLEAN]
          /\ r.track_no = no /\ r.last_track_lsn = lsn /\ r.text = text /\ r.last = cue
          /\ r.done = s.done
      BY <1>1, <1>2, <2>1, <2>2
    <2>4. r \in TocStates
      BY <2>3 DEF TocStates, L, C
    <2> QED
      BY <1>1, <1>4, <2>3, <2>4 DEF r, text, no, lsn
  <1>5. CASE ~s.done /\ cue.type = "subindex"
    <2> DEFINE at == cue.lsn - s.last_track_lsn
               text == TocSub(s.text, at)
    <2>1. text \in L
      <3>1. at \in Int
        BY <1>1, <1>2
      <3> HIDE DEF at
      <3>2. TocIndexLine(at) \in TocLineType
        BY <3>1 DEF TocIndexLine, TocLineType
      <3> QED
        BY <1>1, <3>2 DEF TocSub
    <2>2. r = [s EXCEPT !.text = text, !.last = cue]
      BY <1>5 DEF CdrdaoLines, TocSub
    <2> HIDE DEF text, r, at, L, C
    <2>3. /\ r \in [text : L, track_no : Nat, last_track_lsn : Nat, last : C, done : BOOLEAN]
          /\ r.track_no = s.track_no /\ r.last_track_lsn = s.last_track_lsn /\ r.text = text
          /\ r.last = cue /\ r.done = s.done
      BY <1>1, <1>2, <2>1, <2>2
    <2>4. r \in TocStates
      BY <2>3 DEF TocStates, L, C
    <2> QED
      BY <1>1, <1>5, <2>3, <2>4 DEF r, text, at
  <1>6. CASE ~s.done /\ cue.type = "end"
    <2> DEFINE yes == TRUE
    <2>1. r = [s EXCEPT !.done = yes, !.last = cue] /\ yes \in BOOLEAN
      BY <1>6 DEF CdrdaoLines
    <2> HIDE DEF r, L, C, yes
    <2>2. /\ r \in [text : L, track_no : Nat, last_track_lsn : Nat, last : C, done : BOOLEAN]
          /\ r.track_no = s.track_no /\ r.last_track_lsn = s.last_track_lsn /\ r.text = s.text
          /\ r.last = cue /\ r.done = yes
      BY <1>1, <1>2, <2>1
    <2>3. r \in TocStates
      BY <2>2 DEF TocStates, L, C
    <2> QED
      BY <1>1, <1>6, <2>2, <2>3 DEF r, yes
  <1>7. CASE ~s.done /\ cue.type = "pregap"
    <2>1. r = [s EXCEPT !.last = cue]
      BY <1>7 DEF CdrdaoLines
    <2> HIDE DEF r, L, C
    <2>2. /\ r \in [text : L, track_no : Nat, last_track_lsn : Nat, last : C, done : BOOLEAN]
          /\ r.track_no = s.track_no /\ r.last_track_lsn = s.last_track_lsn /\ r.text = s.text
          /\ r.last = cue /\ r.done = s.done
      BY <1>1, <1>2, <2>1
    <2>3. r \in TocStates
      BY <2>2 DEF TocStates, L, C
    <2> QED
      BY <1>1, <1>7, <2>2, <2>3 DEF r
  <1> QED
    BY <1>2, <1>3, <1>4, <1>5, <1>6, <1>7

\* What the walk over the cues knows behind place p.
TocAt(run, d, row, col, n, p) ==
    /\ ~run[p - 1].done
    /\ run[p].last = CueList(d)[p]
    /\ run[p].track_no = TrackNo(row, col, p)
    /\ col[p] >= 2 => run[p].last_track_lsn = Start(d, row[p])
    /\ run[p].done <=> p = n
    /\ Len(run[p].text) > 0

TocIs(run, d, row, col, n, size) ==
    /\ run \in [0 .. n -> TocStates]
    /\ run[0] = TocStart
    /\ \A p \in 1 .. n : run[p] = CdrdaoLines(run[p - 1], CueList(d)[p], size)
    /\ TocOf(TocStart, CueList(d), size) = run[n]

LEMMA TocExists ==
    ASSUME NEW d \in Discs, NEW row, NEW col, NEW n, LaidOut(d, row, col, n), NEW size \in Nat
    PROVE  \E run : TocIs(run, d, row, col, n, size)
  <1>1. CueList(d) \in Seq(CueType) /\ Len(CueList(d)) = n
    BY DEF LaidOut
  <1>2. TocStart \in TocStates
    <2> DEFINE text == <<>>
               L == Seq(TocLineType)
               C == CueType \cup {NoCue}
    <2>1. text \in L /\ NoCue \in C
      BY EmptySeq
    <2>2. TocStart = [text |-> text, track_no |-> 0, last_track_lsn |-> 0, last |-> NoCue, done |-> FALSE]
      BY DEF TocStart
    <2> HIDE DEF text, L, C
    <2>3. TocStart \in [text : L, track_no : Nat, last_track_lsn : Nat, last : C, done : BOOLEAN]
      BY <2>1, <2>2
    <2> QED
      BY <2>3 DEF TocStates, L, C
  <1>3. TocInto(TocStates, CueType, size)
    <2> SUFFICES ASSUME NEW s \in TocStates, NEW cue \in CueType
                 PROVE  CdrdaoLines(s, cue, size) \in TocStates
      BY DEF TocInto
    <2> QED
      BY TocStep
  <1>4. PICK run \in [0 .. Len(CueList(d)) -> TocStates] : TocRun(run, TocStart, CueList(d), size)
    BY <1>1, <1>2, <1>3, TocRuns
  <1> QED
    BY <1>1, <1>4 DEF TocRun, TocIs
\* The text grows with each cue of a track.
LEMMA TocGrows ==
    ASSUME NEW s \in TocStates, NEW cue \in CueType, NEW size \in Nat
    PROVE  LET r == CdrdaoLines(s, cue, size)
           IN  /\ Len(s.text) \in Nat
               /\ Len(r.text) >= Len(s.text)
               /\ ~s.done /\ cue.type = "track" => Len(r.text) > Len(s.text)
  <1> DEFINE r == CdrdaoLines(s, cue, size)
  <1>1. s.text \in Seq(TocLineType) /\ s.track_no + 1 \in Nat /\ s.last_track_lsn \in Nat
    BY DEF TocStates
  <1>2. cue.lsn \in Nat /\ cue.type \in {"pregap", "track", "subindex", "end"}
    BY DEF CueType
  <1>3. Len(s.text) \in Nat
    BY <1>1, LenProperties
  <1>4. CASE s.done
    <2>1. r = s
      BY <1>4, TocStep
    <2> QED
      BY <1>3, <1>4, <2>1
  <1>5. CASE ~s.done /\ cue.type = "track"
    <2> DEFINE no == s.track_no + 1
               last == s.last
               text == s.text
               lines == TocLines(text, no, size, last)
    <2>1. r.text = lines
      BY <1>5, TocStep
    <2>4. no \in Nat /\ text \in Seq(TocLineType)
      BY <1>1
    <2> HIDE DEF no, last, text
    <2>2. /\ last.type = "pregap" => Len(lines) = Len(text) + 3
          /\ last.type # "pregap" => Len(lines) = Len(text) + 2
      BY <2>4, TocLinesMany
    <2> QED
      BY <1>3, <1>5, <2>1, <2>2 DEF text
  <1>6. CASE ~s.done /\ cue.type = "subindex"
    <2> DEFINE at == cue.lsn - s.last_track_lsn
    <2>1. r.text = TocSub(s.text, at)
      BY <1>6, TocStep
    <2>2. at \in Int
      BY <1>1, <1>2
    <2> HIDE DEF at
    <2>3. TocIndexLine(at) \in TocLineType
      BY <2>2 DEF TocIndexLine, TocLineType
    <2>4. Len(r.text) = Len(s.text) + 1
      BY <1>1, <2>1, <2>3, SubLineIs DEF TocSub
    <2> QED
      BY <1>3, <1>6, <2>4
  <1>7. CASE ~s.done /\ cue.type \in {"pregap", "end"}
    <2>1. r.text = s.text
      BY <1>7, TocStep
    <2> QED
      BY <1>3, <1>7, <2>1
  <1> QED
    BY <1>2, <1>4, <1>5, <1>6, <1>7

LEMMA TocTrack ==
    ASSUME NEW s \in TocStates, NEW cue \in CueType, NEW size \in Nat, ~s.done, cue.type = "track"
    PROVE  /\ CdrdaoLines(s, cue, size).track_no = s.track_no + 1
           /\ CdrdaoLines(s, cue, size).last_track_lsn = cue.lsn
           /\ ~CdrdaoLines(s, cue, size).done
  BY TocStep

LEMMA TocOther ==
    ASSUME NEW s \in TocStates, NEW cue \in CueType, NEW size \in Nat, ~s.done, cue.type # "track"
    PROVE  /\ CdrdaoLines(s, cue, size).track_no = s.track_no
           /\ CdrdaoLines(s, cue, size).last_track_lsn = s.last_track_lsn
           /\ CdrdaoLines(s, cue, size).done <=> cue.type = "end"
  <1>1. cue.type \in {"pregap", "track", "subindex", "end"}
    BY DEF CueType
  <1> QED
    BY <1>1, TocStep

\* From one cue to the next.
LEMMA TocGoes ==
    ASSUME NEW d \in Discs, NEW row, NEW col, NEW n, LaidOut(d, row, col, n), NEW size \in Nat,
           NEW run, TocIs(run, d, row, col, n, size)
    PROVE  \A p \in 1 .. n : TocAt(run, d, row, col, n, p)
  <1>1. /\ n \in Nat /\ n >= 2
        /\ row[1] = 0 /\ col[1] = 2
    BY DEF LaidOut
  <1>2. /\ \A p \in 0 .. n : run[p] \in TocStates
        /\ run[0] = TocStart
        /\ \A p \in 1 .. n : run[p] = CdrdaoLines(run[p - 1], CueList(d)[p], size)
    BY DEF TocIs
  <1>3. TocAt(run, d, row, col, n, 1)
    <2>1. 1 \in 1 .. n /\ 0 \in 0 .. n /\ 1 - 1 = 0 /\ 1 # n /\ 1 < n
      BY <1>1
    <2>2. CueList(d)[1] \in CueType /\ CueList(d)[1].type = "track" /\ CueList(d)[1].lsn = Start(d, row[1])
      <3>1. CueList(d)[1].type = IF 1 = n THEN "end" ELSE IF col[1] = 1 THEN "pregap"
                             ELSE IF col[1] = 2 THEN "track" ELSE "subindex"
        BY <2>1, CueTypes
      <3>2. CueList(d)[1] \in CueType
        BY <2>1, CueTypes
      <3>3. 1 < n => CueList(d)[1].lsn = IF col[1] = 1 THEN PregapAt(d, row[1])
                                         ELSE IF col[1] = 2 THEN Start(d, row[1])
                                         ELSE Start(d, row[1]) + Subs(d, row[1])[col[1] - 2]
        BY <2>1, CueTypes
      <3> QED
        BY <1>1, <2>1, <3>1, <3>2, <3>3
    <2>3. run[1] = CdrdaoLines(run[0], CueList(d)[1], size) /\ run[0] \in TocStates
      BY <1>2, <2>1
    <2>4. ~run[0].done /\ run[0].track_no = 0
      BY <1>2 DEF TocStart
    <2>5. run[1].last = CueList(d)[1]
      BY <2>2, <2>3, <2>4, TocStep
    <2>6. run[1].track_no = run[0].track_no + 1 /\ run[1].last_track_lsn = CueList(d)[1].lsn /\ ~run[1].done
      BY <2>2, <2>3, <2>4, TocTrack
    <2>7. Len(run[0].text) \in Nat /\ Len(run[1].text) > Len(run[0].text)
      BY <2>2, <2>3, <2>4, TocGrows
    <2>8. TrackNo(row, col, 1) = 1
      BY <1>1 DEF TrackNo
    <2>9. run[1].text \in Seq(TocLineType)
      BY <1>2, <2>1 DEF TocStates
    <2>10. Len(run[1].text) \in Nat
      BY <2>9, LenProperties
    <2> QED
      BY <1>1, <2>1, <2>2, <2>4, <2>5, <2>6, <2>7, <2>8, <2>10 DEF TocAt
  <1>4. ASSUME NEW p \in 1 .. n - 1, TocAt(run, d, row, col, n, p)
        PROVE  TocAt(run, d, row, col, n, p + 1)
    <2> DEFINE s == run[p]
               q == p + 1
               r == run[q]
               cue == CueList(d)[q]
    <2>1. p \in 1 .. n /\ q \in 1 .. n /\ p < n /\ q - 1 = p /\ p \in 0 .. n /\ q \in 0 .. n /\ (q # n => q < n)
      BY <1>1
    <2>2. r = CdrdaoLines(s, cue, size) /\ s \in TocStates /\ r \in TocStates
      BY <1>2, <2>1
    <2>3. /\ cue \in CueType
          /\ row[q] \in 0 .. Len(d.tracks) + 1
          /\ col[q] \in Nat \ {0}
          /\ q = n => col[q] = 1
          /\ cue.type = IF q = n THEN "end" ELSE IF col[q] = 1 THEN "pregap"
                        ELSE IF col[q] = 2 THEN "track" ELSE "subindex"
      BY <2>1, CueTypes
    <2>4. IF col[p] < LastCol(d, row[p])
          THEN row[q] = row[p] /\ col[q] = col[p] + 1 /\ q < n
          ELSE row[q] = row[p] + 1 /\ col[q] = 1 /\ col[p] >= 2
      BY NextCue
    <2>5. row[p] \in 0 .. Len(d.tracks) + 1 /\ col[p] \in Nat \ {0}
      BY <2>1, CueTypes
    <2>6. col[q] = 2 /\ q < n => cue.lsn = Start(d, row[q])
      <3>1. q < n => cue.lsn = IF col[q] = 1 THEN PregapAt(d, row[q])
                               ELSE IF col[q] = 2 THEN Start(d, row[q])
                               ELSE Start(d, row[q]) + Subs(d, row[q])[col[q] - 2]
        BY <2>1, CueTypes
      <3> QED
        BY <3>1
    <2>7. /\ s.track_no = TrackNo(row, col, p)
          /\ col[p] >= 2 => s.last_track_lsn = Start(d, row[p])
          /\ ~s.done
          /\ Len(s.text) > 0
      BY <1>4, <2>1 DEF TocAt
    <2>8. TocAt(run, d, row, col, n, q) <=>
             /\ ~s.done
             /\ r.last = cue
             /\ r.track_no = TrackNo(row, col, q)
             /\ col[q] >= 2 => r.last_track_lsn = Start(d, row[q])
             /\ r.done <=> q = n
             /\ Len(r.text) > 0
      BY <2>1 DEF TocAt
    <2>9. row[p] \in Nat /\ row[q] \in Nat
      <3>1. Len(d.tracks) \in Nat
        BY DiscShape
      <3> QED
        BY <2>3, <2>5, <3>1
    <2>10. r.text \in Seq(TocLineType)
      BY <2>2 DEF TocStates
    <2> HIDE DEF s, q, r, cue
    <2>11. r.last = cue
      BY <2>2, <2>3, <2>7, TocStep
    <2>12. Len(r.text) > 0
      <3>1. Len(s.text) \in Nat /\ Len(r.text) >= Len(s.text)
        BY <2>2, <2>3, TocGrows
      <3>2. Len(r.text) \in Nat
        BY <2>10, LenProperties
      <3> QED
        BY <2>7, <3>1, <3>2
    <2>13. cue.type = "track" => /\ r.track_no = s.track_no + 1
                                 /\ r.last_track_lsn = cue.lsn
                                 /\ ~r.done
      BY <2>2, <2>3, <2>7, TocTrack
    <2>14. cue.type # "track" => /\ r.track_no = s.track_no
                                 /\ r.last_track_lsn = s.last_track_lsn
                                 /\ r.done <=> cue.type = "end"
      BY <2>2, <2>3, <2>7, TocOther
    <2>15. CASE col[q] = 1
      <3>1. cue.type # "track" /\ (cue.type = "end" <=> q = n)
        BY <2>3, <2>15
      <3>2. TrackNo(row, col, q) = TrackNo(row, col, p)
        BY <2>4, <2>5, <2>9, <2>15 DEF TrackNo
      <3> QED
        BY <2>7, <2>8, <2>11, <2>12, <2>14, <2>15, <3>1, <3>2 DEF q
    <2>16. CASE col[q] = 2
      <3>1. cue.type = "track" /\ q # n
        BY <2>3, <2>16
      <3>2. TrackNo(row, col, q) = TrackNo(row, col, p) + 1
        BY <2>4, <2>5, <2>9, <2>16 DEF TrackNo
      <3>3. q < n
        BY <2>1, <3>1
      <3> QED
        BY <2>6, <2>7, <2>8, <2>11, <2>12, <2>13, <2>16, <3>1, <3>2, <3>3 DEF q
    <2>17. CASE col[q] >= 3
      <3>1. cue.type = "subindex" /\ q # n
        BY <2>3, <2>17
      <3>2. col[q] = col[p] + 1 /\ row[q] = row[p] /\ col[p] >= 2
        BY <2>4, <2>5, <2>17
      <3>3. TrackNo(row, col, q) = TrackNo(row, col, p)
        BY <2>3, <3>2, <2>17 DEF TrackNo
      <3> QED
        BY <2>7, <2>8, <2>11, <2>12, <2>14, <2>17, <3>1, <3>2, <3>3 DEF q
    <2> QED
      BY <2>3, <2>15, <2>16, <2>17
  <1> DEFINE T == {j \in Nat : j + 1 <= n => TocAt(run, d, row, col, n, j + 1)}
  <1>5. 0 \in T
    BY <1>3
  <1>6. ASSUME NEW j \in Nat, j \in T PROVE j + 1 \in T
    <2> SUFFICES ASSUME j + 1 + 1 <= n PROVE TocAt(run, d, row, col, n, j + 1 + 1)
      OBVIOUS
    <2>1. j + 1 \in 1 .. n - 1 /\ j + 1 <= n
      BY <1>1
    <2>2. TocAt(run, d, row, col, n, j + 1)
      BY <1>6, <2>1
    <2> QED
      BY <1>4, <2>1, <2>2
  <1> HIDE DEF T
  <1>7. Nat \subseteq T
    BY <1>5, <1>6, NatSetInduction
  <1> SUFFICES ASSUME NEW p \in 1 .. n PROVE TocAt(run, d, row, col, n, p)
    OBVIOUS
  <1>8. p - 1 \in Nat /\ p - 1 + 1 = p /\ p <= n
    BY <1>1
  <1>9. p - 1 \in T
    BY <1>7, <1>8
  <1>10. p - 1 + 1 <= n => TocAt(run, d, row, col, n, p - 1 + 1)
    BY <1>9 DEF T
  <1> QED
    BY <1>8, <1>10

LEMMA TocDone ==
    ASSUME NEW d \in Discs, NEW size \in Nat
    PROVE  LET s == TocOf(TocStart, CueList(d), size)
           IN  s.text \in Seq(TocLineType) /\ Len(s.text) > 0 /\ s.done
  <1> DEFINE n == Len(CueList(d))
  <1>1. PICK row, col : LaidOut(d, row, col, n)
    BY CuesLaidOut
  <1> HIDE DEF n
  <1>2. PICK run : TocIs(run, d, row, col, n, size)
    BY <1>1, TocExists
  <1>3. n \in Nat /\ n >= 2
    BY <1>1 DEF LaidOut
  <1>4. n \in 1 .. n /\ n \in 0 .. n
    BY <1>3
  <1>5. TocAt(run, d, row, col, n, n)
    BY <1>1, <1>2, <1>4, TocGoes
  <1>6. run[n] \in TocStates /\ TocOf(TocStart, CueList(d), size) = run[n]
    BY <1>2, <1>4 DEF TocIs
  <1> QED
    BY <1>5, <1>6 DEF TocAt, TocStates
-----------------------------------------------------------------------------
(* The parts of a disc.                                                    *)

\* Parts are not empty, and follow each other.
LEMMA PartsInOrder ==
    ASSUME NEW d \in Discs, NEW k, NEW c, IsPart(d, k, c)
    PROVE  /\ PartFrom(d, k, c) \in Nat
           /\ PartTo(d, k, c) \in Nat
           /\ PartFrom(d, k, c) < PartTo(d, k, c)
           /\ PartTo(d, k, c) <= DiscEnd(d)
           /\ k \in Nat /\ c \in {1, 2}
           /\ \A j, b : IsPart(d, j, b) /\ (k < j \/ (k = j /\ c < b)) => PartTo(d, k, c) <= PartFrom(d, j, b)
  <1> DEFINE m == Len(d.tracks)
  <1>1. m \in Nat
    BY DiscShape
  <1>2. /\ \A j \in 0 .. m : /\ Start(d, j) \in Nat
                             /\ Stop(d, j) \in Nat
                             /\ Start(d, j) < Stop(d, j)
                             /\ Stop(d, j) <= DiscEnd(d)
        /\ \A j \in 1 .. m : /\ PregapAt(d, j) = Stop(d, j - 1)
                             /\ PregapAt(d, j) \in Nat \ {0}
                             /\ PregapAt(d, j) < Start(d, j)
        /\ \A i, j \in 0 .. m : i < j => Stop(d, i) < Start(d, j)
    BY TracksInOrder
  <1>3. DiscEnd(d) \in Nat
    BY TracksInOrder
  <1>4. ASSUME NEW j, NEW b, IsPart(d, j, b)
        PROVE  /\ j \in 0 .. m /\ b \in {1, 2}
               /\ b = 1 => /\ PartFrom(d, j, b) = PregapAt(d, j) /\ PartTo(d, j, b) = Start(d, j)
                           /\ j \in 1 .. m /\ PregapAt(d, j) = Stop(d, j - 1)
               /\ b = 2 => PartFrom(d, j, b) = Start(d, j) /\ PartTo(d, j, b) = Stop(d, j)
    <2>1. j \in 0 .. m /\ b \in {1, 2} /\ (j = 0 => b = 2)
      BY <1>4 DEF IsPart
    <2>2. b = 1 => j \in 1 .. m
      BY <1>1, <2>1
    <2> QED
      BY <1>2, <2>1, <2>2 DEF PartFrom, PartTo
  <1> HIDE DEF m
  <1>5. ASSUME NEW j, NEW b, IsPart(d, j, b)
        PROVE  /\ PartFrom(d, j, b) \in Nat
               /\ PartTo(d, j, b) \in Nat
               /\ PartFrom(d, j, b) < PartTo(d, j, b)
               /\ PartTo(d, j, b) <= Stop(d, j)
               /\ PartTo(d, j, b) <= DiscEnd(d)
               /\ j > 0 => Stop(d, j - 1) <= PartFrom(d, j, b)
    <2>1. j \in 0 .. m /\ j \in Nat
      BY <1>1, <1>4, <1>5
    <2>2. CASE b = 1
      <3>1. /\ PartFrom(d, j, b) = PregapAt(d, j) /\ PartTo(d, j, b) = Start(d, j)
            /\ j \in 1 .. m /\ PregapAt(d, j) = Stop(d, j - 1)
        BY <1>4, <1>5, <2>2
      <3> QED
        BY <1>2, <1>3, <2>1, <3>1
    <2>3. CASE b = 2
      <3>1. PartFrom(d, j, b) = Start(d, j) /\ PartTo(d, j, b) = Stop(d, j)
        BY <1>4, <1>5, <2>3
      <3>2. j > 0 => j - 1 \in 0 .. m /\ j - 1 < j
        BY <1>1, <2>1
      <3>3. j > 0 => Stop(d, j - 1) \in Nat /\ Stop(d, j - 1) < Start(d, j)
        BY <1>2, <2>1, <3>2
      <3> QED
        BY <1>2, <1>3, <2>1, <3>1, <3>3
    <2> QED
      BY <1>4, <1>5, <2>2, <2>3
  <1>6. ASSUME NEW j, NEW b, IsPart(d, j, b), k < j \/ (k = j /\ c < b)
        PROVE  PartTo(d, k, c) <= PartFrom(d, j, b)
    <2>1. k \in 0 .. m /\ c \in {1, 2} /\ j \in 0 .. m /\ b \in {1, 2} /\ k \in Nat /\ j \in Nat
      BY <1>1, <1>4, <1>6
    <2>2. CASE k = j
      <3>1. c = 1 /\ b = 2
        BY <1>6, <2>1, <2>2
      <3>2. PartTo(d, k, c) = Start(d, k) /\ PartFrom(d, j, b) = Start(d, j) /\ Start(d, k) \in Nat
        BY <1>2, <1>4, <1>6, <2>1, <3>1
      <3> QED
        BY <2>2, <3>2
    <2>3. CASE k # j
      <3>1. k < j /\ j > 0 /\ j - 1 \in 0 .. m /\ (k = j - 1 \/ k < j - 1)
        BY <1>1, <1>6, <2>1, <2>3
      <3>2. Stop(d, k) <= Stop(d, j - 1)
        BY <1>2, <2>1, <3>1
      <3>3. PartTo(d, k, c) <= Stop(d, k) /\ PartTo(d, k, c) \in Nat
        BY <1>5
      <3>4. Stop(d, j - 1) <= PartFrom(d, j, b) /\ PartFrom(d, j, b) \in Nat
        BY <1>5, <1>6, <3>1
      <3>5. Stop(d, k) \in Nat /\ Stop(d, j - 1) \in Nat
        BY <1>2, <2>1, <3>1
      <3> QED
        BY <3>2, <3>3, <3>4, <3>5
    <2> QED
      BY <2>2, <2>3
  <1>7. k \in Nat /\ c \in {1, 2}
    BY <1>1, <1>4
  <1> QED
    BY <1>5, <1>6, <1>7

\* A sector is in one part only.
LEMMA PartUnique ==
    ASSUME NEW d \in Discs, NEW l \in Nat, NEW k, NEW c, NEW j, NEW b,
           InPart(d, k, c, l), InPart(d, j, b, l)
    PROVE  k = j /\ c = b
  <1>1. /\ IsPart(d, k, c) /\ PartFrom(d, k, c) <= l /\ l < PartTo(d, k, c)
        /\ IsPart(d, j, b) /\ PartFrom(d, j, b) <= l /\ l < PartTo(d, j, b)
    BY DEF InPart
  <1>2. /\ k \in Nat /\ c \in {1, 2} /\ PartFrom(d, k, c) \in Nat /\ PartTo(d, k, c) \in Nat
        /\ j \in Nat /\ b \in {1, 2} /\ PartFrom(d, j, b) \in Nat /\ PartTo(d, j, b) \in Nat
    BY <1>1, PartsInOrder
  <1>3. ~(k < j \/ (k = j /\ c < b))
    <2>1. k < j \/ (k = j /\ c < b) => PartTo(d, k, c) <= PartFrom(d, j, b)
      BY <1>1, PartsInOrder
    <2> QED
      BY <1>1, <1>2, <2>1
  <1>4. ~(j < k \/ (j = k /\ b < c))
    <2>1. j < k \/ (j = k /\ b < c) => PartTo(d, j, b) <= PartFrom(d, k, c)
      BY <1>1, PartsInOrder
    <2> QED
      BY <1>1, <1>2, <2>1
  <1>5. k = j
    <2>1. ~(k < j) /\ ~(j < k)
      BY <1>3, <1>4
    <2>2. k \in Nat /\ j \in Nat
      BY <1>2
    <2> QED
      BY <2>1, <2>2
  <1>6. ~(c < b) /\ ~(b < c)
    BY <1>3, <1>4, <1>5
  <1>7. c = b
    BY <1>2, <1>6
  <1> QED
    BY <1>5, <1>7

\* Every sector of the disc is in a part.
LEMMA PartExists ==
    ASSUME NEW d \in Discs, NEW l \in Nat, l < DiscEnd(d)
    PROVE  \E k \in 0 .. Len(d.tracks), c \in {1, 2} : InPart(d, k, c, l)
  <1> DEFINE m == Len(d.tracks)
             Some == \E k \in 0 .. m, c \in {1, 2} : InPart(d, k, c, l)
             T == {j \in Nat : j <= m /\ l < Stop(d, j) => Some}
  <1>1. m \in Nat
    BY DiscShape
  <1>2. /\ Start(d, 0) = 0
        /\ \A j \in 0 .. m : /\ Start(d, j) \in Nat
                             /\ Stop(d, j) \in Nat
        /\ \A j \in 1 .. m : PregapAt(d, j) = Stop(d, j - 1)
        /\ Stop(d, m) = DiscEnd(d)
    BY TracksInOrder
  <1> HIDE DEF m
  <1>3. 0 \in T
    <2> SUFFICES ASSUME l < Stop(d, 0) PROVE Some
      OBVIOUS
    <2>1. 0 \in 0 .. m
      BY <1>1
    <2>2. InPart(d, 0, 2, l)
      BY <1>2, <2>1 DEF InPart, IsPart, PartFrom, PartTo, m
    <2> QED
      BY <2>1, <2>2
  <1>4. ASSUME NEW j \in Nat, j \in T PROVE j + 1 \in T
    <2> SUFFICES ASSUME j + 1 <= m, l < Stop(d, j + 1) PROVE Some
      OBVIOUS
    <2> DEFINE k == j + 1
    <2>1. k \in 0 .. m /\ k \in 1 .. m /\ k - 1 = j /\ j <= m /\ j \in 0 .. m /\ k # 0
      BY <1>1
    <2>2. PregapAt(d, k) = Stop(d, j) /\ Start(d, k) \in Nat /\ Stop(d, j) \in Nat
      BY <1>2, <2>1
    <2> HIDE DEF k
    <2>3. CASE l < Stop(d, j)
      BY <1>4, <2>1, <2>3
    <2>4. CASE ~(l < Stop(d, j)) /\ l < Start(d, k)
      <3>1. InPart(d, k, 1, l)
        BY <2>1, <2>2, <2>4 DEF InPart, IsPart, PartFrom, PartTo, m
      <3> QED
        BY <2>1, <3>1
    <2>5. CASE ~(l < Start(d, k))
      <3>1. InPart(d, k, 2, l)
        BY <2>1, <2>2, <2>5 DEF InPart, IsPart, PartFrom, PartTo, m, k
      <3> QED
        BY <2>1, <3>1
    <2> QED
      BY <2>3, <2>4, <2>5
  <1> HIDE DEF T, Some
  <1>5. Nat \subseteq T
    BY <1>3, <1>4, NatSetInduction
  <1>6. m \in T
    BY <1>1, <1>5
  <1>7. Some
    BY <1>1, <1>2, <1>6 DEF T
  <1> QED
    BY <1>7 DEF Some, m
\* The walk of CdrdaoWrite over the cues, for a sector.
WalkStart == [last |-> 0, ofs |-> 0, lpregap |-> FALSE, pregap |-> FALSE, num |-> 0,
              in_track |-> 0, ok |-> TRUE]

WalkStates == [last : Nat, ofs : Nat, lpregap : BOOLEAN, pregap : BOOLEAN, num : Nat,
               in_track : Nat, ok : BOOLEAN]

\* What a cue does: an entry point nothing, another one may close the sector's part.
LEMMA PartStep ==
    ASSUME NEW s \in WalkStates, NEW cue \in CueType, NEW lsn \in Nat
    PROVE  LET r == Part(s, cue, lsn)
               here == cue.lsn # 0 /\ s.last <= lsn /\ lsn < cue.lsn
           IN  /\ r \in WalkStates
               /\ cue.type = "subindex" => r = s
               /\ cue.type # "subindex" =>
                    /\ r.last = cue.lsn
                    /\ r.lpregap <=> cue.type = "pregap"
                    /\ r.num = IF cue.type = "track" THEN s.num + 1 ELSE s.num
                    /\ here => /\ r.ok <=> s.ok /\ s.in_track = 0
                               /\ r.in_track = s.num
                               /\ r.ofs = s.last
                               /\ r.pregap = s.lpregap
                    /\ ~here => /\ r.ok = s.ok
                                /\ r.in_track = s.in_track
                                /\ r.ofs = s.ofs
                                /\ r.pregap = s.pregap
  <1> DEFINE r == Part(s, cue, lsn)
             here == cue.lsn # 0 /\ lsn \in s.last .. cue.lsn - 1
             found == IF here
                      THEN [s EXCEPT !.ok = s.ok /\ s.in_track = 0, !.in_track = s.num,
                                     !.ofs = s.last, !.pregap = s.lpregap]
                      ELSE s
  <1>1. /\ s.last \in Nat /\ s.ofs \in Nat /\ s.num \in Nat /\ s.in_track \in Nat
        /\ s.lpregap \in BOOLEAN /\ s.pregap \in BOOLEAN /\ s.ok \in BOOLEAN
    BY DEF WalkStates
  <1>2. cue.lsn \in Nat /\ cue.type \in {"pregap", "track", "subindex", "end"}
    BY DEF CueType
  <1>3. here <=> cue.lsn # 0 /\ s.last <= lsn /\ lsn < cue.lsn
    BY <1>1, <1>2
  <1>4. CASE cue.type = "subindex"
    <2>1. r = s
      BY <1>4 DEF Part
    <2> QED
      BY <1>4, <2>1
  <1>5. CASE cue.type # "subindex"
    <2> DEFINE num == IF cue.type = "track" THEN s.num + 1 ELSE s.num
               lpregap == cue.type = "pregap"
               lsn0 == cue.lsn
    <2>1. r = [found EXCEPT !.last = cue.lsn, !.lpregap = lpregap,
                            !.num = IF cue.type = "track" THEN found.num + 1 ELSE found.num]
      BY <1>5 DEF Part
    <2>2. /\ found \in WalkStates
          /\ found.num = s.num
          /\ here => /\ found.ok = (s.ok /\ s.in_track = 0)
                     /\ found.in_track = s.num
                     /\ found.ofs = s.last
                     /\ found.pregap = s.lpregap
          /\ ~here => found = s
      <3> DEFINE ok == s.ok /\ s.in_track = 0
      <3>1. ok \in BOOLEAN
        OBVIOUS
      <3> HIDE DEF here, ok
      <3>2. CASE here
        <4> DEFINE f == [s EXCEPT !.ok = ok, !.in_track = s.num, !.ofs = s.last, !.pregap = s.lpregap]
        <4>1. found = f
          BY <3>2 DEF ok
        <4>2. /\ f \in WalkStates
              /\ f.num = s.num
              /\ f.ok = ok
              /\ f.in_track = s.num
              /\ f.ofs = s.last
              /\ f.pregap = s.lpregap
          BY <1>1, <3>1 DEF WalkStates
        <4> HIDE DEF f, found
        <4> QED
          BY <3>2, <4>1, <4>2 DEF ok
      <3>3. CASE ~here
        BY <3>3
      <3> QED
        BY <3>2, <3>3
    <2>3. num \in Nat /\ lpregap \in BOOLEAN /\ lsn0 \in Nat
      BY <1>1, <1>2
    <2>4. r = [found EXCEPT !.last = lsn0, !.lpregap = lpregap, !.num = num]
      BY <2>1, <2>2
    <2> HIDE DEF r, found, num, lpregap, lsn0, here
    <2>5. /\ r \in WalkStates
          /\ r.last = lsn0 /\ r.lpregap = lpregap /\ r.num = num
          /\ r.ok = found.ok /\ r.in_track = found.in_track /\ r.ofs = found.ofs
          /\ r.pregap = found.pregap
      BY <2>2, <2>3, <2>4 DEF WalkStates
    <2>6. here => /\ r.ok = (s.ok /\ s.in_track = 0)
                  /\ r.in_track = s.num
                  /\ r.ofs = s.last
                  /\ r.pregap = s.lpregap
      BY <2>2, <2>5
    <2>7. ~here => /\ r.ok = s.ok
                   /\ r.in_track = s.in_track
                   /\ r.ofs = s.ofs
                   /\ r.pregap = s.pregap
      BY <2>2, <2>5
    <2> QED
      BY <1>3, <1>5, <2>5, <2>6, <2>7 DEF r, num, lpregap, lsn0
  <1> QED
    BY <1>4, <1>5
\* Where the cue of a place is, entry points aside.
LastAt(d, row, col, n, p) ==
    IF p = n THEN DiscEnd(d) ELSE IF col[p] = 1 THEN PregapAt(d, row[p]) ELSE Start(d, row[p])

\* What the walk for sector lsn in part k, c knows behind place p.
WalkAt(run, d, row, col, n, lsn, k, c, p) ==
    /\ run[p].ok
    /\ run[p].last = LastAt(d, row, col, n, p)
    /\ run[p].lpregap <=> col[p] = 1 /\ p # n
    /\ run[p].num = TrackNo(row, col, p)
    /\ lsn >= run[p].last => run[p].in_track = 0
    /\ lsn < run[p].last =>
          /\ run[p].in_track = PartIndex(k, c)
          /\ run[p].ofs = PartFrom(d, k, c)
          /\ run[p].pregap <=> c = 1

WalkIs(run, d, n, lsn) ==
    /\ run \in [0 .. n -> WalkStates]
    /\ run[0] = WalkStart
    /\ \A p \in 1 .. n : run[p] = Part(run[p - 1], CueList(d)[p], lsn)
    /\ WalkOf(WalkStart, CueList(d), lsn) = run[n]

LEMMA WalkExists ==
    ASSUME NEW d \in Discs, NEW row, NEW col, NEW n, LaidOut(d, row, col, n), NEW lsn \in Nat
    PROVE  \E run : WalkIs(run, d, n, lsn)
  <1>1. CueList(d) \in Seq(CueType) /\ Len(CueList(d)) = n
    BY DEF LaidOut
  <1>2. WalkStart \in WalkStates
    BY DEF WalkStart, WalkStates
  <1>3. WalkInto(WalkStates, CueType, lsn)
    <2> SUFFICES ASSUME NEW s \in WalkStates, NEW cue \in CueType
                 PROVE  Part(s, cue, lsn) \in WalkStates
      BY DEF WalkInto
    <2> QED
      BY PartStep
  <1>4. PICK run \in [0 .. Len(CueList(d)) -> WalkStates] : WalkRun(run, WalkStart, CueList(d), lsn)
    BY <1>1, <1>2, <1>3, WalkRuns
  <1> QED
    BY <1>1, <1>4 DEF WalkRun, WalkIs

LEMMA PartHere ==
    ASSUME NEW s \in WalkStates, NEW cue \in CueType, NEW lsn \in Nat,
           cue.type # "subindex", cue.lsn # 0, s.last <= lsn, lsn < cue.lsn
    PROVE  LET r == Part(s, cue, lsn)
           IN  /\ r.ok <=> s.ok /\ s.in_track = 0
               /\ r.in_track = s.num
               /\ r.ofs = s.last
               /\ r.pregap = s.lpregap
  BY PartStep

LEMMA PartPast ==
    ASSUME NEW s \in WalkStates, NEW cue \in CueType, NEW lsn \in Nat,
           cue.type # "subindex", cue.lsn = 0 \/ lsn < s.last \/ cue.lsn <= lsn
    PROVE  LET r == Part(s, cue, lsn)
           IN  /\ r.ok = s.ok
               /\ r.in_track = s.in_track
               /\ r.ofs = s.ofs
               /\ r.pregap = s.pregap
  <1>1. s.last \in Nat /\ cue.lsn \in Nat
    BY DEF WalkStates, CueType
  <1>2. ~(cue.lsn # 0 /\ s.last <= lsn /\ lsn < cue.lsn)
    BY <1>1
  <1> QED
    BY <1>2, PartStep

LEMMA PartMoves ==
    ASSUME NEW s \in WalkStates, NEW cue \in CueType, NEW lsn \in Nat, cue.type # "subindex"
    PROVE  LET r == Part(s, cue, lsn)
           IN  /\ r.last = cue.lsn
               /\ r.lpregap <=> cue.type = "pregap"
               /\ r.num = IF cue.type = "track" THEN s.num + 1 ELSE s.num
  BY PartStep

\* The part a cue that is not an entry point's closes.
LEMMA PartCloses ==
    ASSUME NEW d \in Discs, NEW row, NEW col, NEW n, LaidOut(d, row, col, n), NEW p \in 1 .. n - 1,
           col[p + 1] <= 2
    PROVE  \E c \in {1, 2} :
              /\ IsPart(d, row[p], c)
              /\ c = 1 <=> col[p] = 1
              /\ PartFrom(d, row[p], c) = LastAt(d, row, col, n, p)
              /\ PartTo(d, row[p], c) = LastAt(d, row, col, n, p + 1)
              /\ CueList(d)[p + 1].lsn = LastAt(d, row, col, n, p + 1)
              /\ PartIndex(row[p], c) = TrackNo(row, col, p)
              /\ TrackNo(row, col, p + 1) = IF c = 1 THEN TrackNo(row, col, p) + 1 ELSE TrackNo(row, col, p)
              /\ col[p + 1] = 1 <=> c = 2
  <1> DEFINE m == Len(d.tracks)
             q == p + 1
  <1>1. /\ p \in 1 .. n /\ q \in 1 .. n /\ p < n /\ n \in Nat /\ (q # n => q < n)
    BY NextCue DEF LaidOut
  <1>2. IF col[p] < LastCol(d, row[p])
        THEN row[q] = row[p] /\ col[q] = col[p] + 1 /\ q < n
        ELSE row[q] = row[p] + 1 /\ col[q] = 1 /\ col[p] >= 2
    BY NextCue
  <1>3. /\ row[p] \in 0 .. m + 1 /\ col[p] \in Nat \ {0}
        /\ row[p] = 0 => col[p] = 2
        /\ p < n => row[p] <= m
    BY <1>1, CueTypes
  <1>4. /\ row[q] \in 0 .. m + 1 /\ col[q] \in Nat \ {0}
        /\ q = n <=> row[q] = m + 1
        /\ q = n => CueList(d)[q].lsn = DiscEnd(d) /\ col[q] = 1
        /\ q < n => row[q] <= m
        /\ q < n => CueList(d)[q].lsn = IF col[q] = 1 THEN PregapAt(d, row[q])
                                        ELSE IF col[q] = 2 THEN Start(d, row[q])
                                        ELSE Start(d, row[q]) + Subs(d, row[q])[col[q] - 2]
    BY <1>1, CueTypes
  <1>5. m \in Nat
    BY DiscShape
  <1>6. row[p] \in 0 .. m /\ row[p] \in Nat
    BY <1>1, <1>3, <1>5
  <1>7. p # n /\ col[q] <= 2
    BY <1>1
  <1> HIDE DEF m, q
  <1>8. CASE col[q] = 1
    <2>1. col[p] >= 2 /\ row[q] = row[p] + 1 /\ col[p] # 1
      BY <1>2, <1>3, <1>8
    <2>2. IsPart(d, row[p], 2)
      BY <1>6 DEF IsPart, m
    <2>3. PartFrom(d, row[p], 2) = LastAt(d, row, col, n, p)
      BY <1>7, <2>1 DEF PartFrom, LastAt
    <2>4. PartTo(d, row[p], 2) = LastAt(d, row, col, n, q)
      <3>1. q = n <=> row[p] = m
        BY <1>4, <1>5, <1>6, <2>1
      <3> QED
        BY <1>8, <2>1, <3>1 DEF PartTo, LastAt, Stop, m
    <2>5. CueList(d)[q].lsn = LastAt(d, row, col, n, q)
      BY <1>1, <1>4, <1>8 DEF LastAt
    <2>6. PartIndex(row[p], 2) = TrackNo(row, col, p)
      BY <2>1 DEF PartIndex, TrackNo
    <2>7. TrackNo(row, col, q) = TrackNo(row, col, p)
      BY <1>8, <2>1 DEF TrackNo
    <2> QED
      BY <1>8, <2>1, <2>2, <2>3, <2>4, <2>5, <2>6, <2>7 DEF q
  <1>9. CASE col[q] # 1
    <2>1. col[p] = 1 /\ col[q] = 2 /\ row[q] = row[p] /\ q < n /\ q # n
      BY <1>1, <1>2, <1>3, <1>4, <1>7, <1>9
    <2>2. IsPart(d, row[p], 1)
      BY <1>3, <1>6, <2>1 DEF IsPart, m
    <2>3. PartFrom(d, row[p], 1) = LastAt(d, row, col, n, p)
      BY <1>7, <2>1 DEF PartFrom, LastAt
    <2>4. PartTo(d, row[p], 1) = LastAt(d, row, col, n, q)
      BY <2>1 DEF PartTo, LastAt
    <2>5. CueList(d)[q].lsn = LastAt(d, row, col, n, q)
      BY <1>4, <2>1 DEF LastAt
    <2>6. PartIndex(row[p], 1) = TrackNo(row, col, p)
      BY <2>1 DEF PartIndex, TrackNo
    <2>7. TrackNo(row, col, q) = TrackNo(row, col, p) + 1
      BY <2>1 DEF TrackNo
    <2> QED
      BY <2>1, <2>2, <2>3, <2>4, <2>5, <2>6, <2>7 DEF q
  <1> QED
    BY <1>8, <1>9

\* From one cue to the next: the walk finds the part the sector is in, and finds it once.
LEMMA WalkGoes ==
    ASSUME NEW d \in Discs, NEW row, NEW col, NEW n, LaidOut(d, row, col, n), NEW lsn \in Nat,
           NEW run, WalkIs(run, d, n, lsn), NEW k, NEW c, InPart(d, k, c, lsn)
    PROVE  \A p \in 1 .. n : WalkAt(run, d, row, col, n, lsn, k, c, p)
  <1>1. n \in Nat /\ n >= 2 /\ row[1] = 0 /\ col[1] = 2
    BY DEF LaidOut
  <1>2. /\ run \in [0 .. n -> WalkStates]
        /\ run[0] = WalkStart
        /\ \A p \in 1 .. n : run[p] = Part(run[p - 1], CueList(d)[p], lsn)
    BY DEF WalkIs
  <1> DEFINE At(p) == WalkAt(run, d, row, col, n, lsn, k, c, p)
             T == {p \in Nat : p + 1 <= n => At(p + 1)}
  <1>3. 0 \in T
    <2> DEFINE cue == CueList(d)[1]
               r == run[1]
    <2>1. 1 \in 1 .. n /\ 1 < n /\ 1 # n
      BY <1>1
    <2>2. cue \in CueType /\ cue.type = "track" /\ cue.lsn = Start(d, 0) /\ Start(d, 0) = 0
      <3>1. /\ cue \in CueType
            /\ 1 = n <=> row[1] = Len(d.tracks) + 1
            /\ cue.type = IF 1 = n THEN "end" ELSE IF col[1] = 1 THEN "pregap"
                          ELSE IF col[1] = 2 THEN "track" ELSE "subindex"
            /\ 1 < n => cue.lsn = IF col[1] = 1 THEN PregapAt(d, row[1])
                                  ELSE IF col[1] = 2 THEN Start(d, row[1])
                                  ELSE Start(d, row[1]) + Subs(d, row[1])[col[1] - 2]
        BY <2>1, CueTypes
      <3> QED
        BY <1>1, <2>1, <3>1, TracksInOrder
    <2>3. r = Part(WalkStart, cue, lsn)
      <3>1. run[1] = Part(run[1 - 1], CueList(d)[1], lsn) /\ 1 - 1 = 0
        BY <1>2, <2>1
      <3> QED
        BY <1>2, <3>1
    <2>4. WalkStart \in WalkStates
      BY DEF WalkStart, WalkStates
    <2>5. WalkStart.ok /\ WalkStart.in_track = 0 /\ WalkStart.num = 0
      BY DEF WalkStart
    <2> HIDE DEF cue, r
    <2>6. r.ok = WalkStart.ok /\ r.in_track = WalkStart.in_track
      BY <2>2, <2>3, <2>4, PartPast
    <2>7. /\ r.last = cue.lsn
          /\ r.lpregap <=> cue.type = "pregap"
          /\ r.num = IF cue.type = "track" THEN WalkStart.num + 1 ELSE WalkStart.num
      BY <2>2, <2>3, <2>4, PartMoves
    <2>8. LastAt(d, row, col, n, 1) = 0 /\ TrackNo(row, col, 1) = 1
      BY <1>1, <2>1, <2>2 DEF LastAt, TrackNo
    <2>9. At(1)
      BY <1>1, <2>2, <2>5, <2>6, <2>7, <2>8 DEF WalkAt, r
    <2>10. 0 + 1 = 1
      OBVIOUS
    <2> HIDE DEF At
    <2> QED
      BY <2>9, <2>10
  <1>4. ASSUME NEW i \in Nat, i \in T PROVE i + 1 \in T
    <2> SUFFICES ASSUME i + 1 + 1 <= n PROVE At(i + 1 + 1)
      OBVIOUS
    <2> DEFINE p == i + 1
               q == p + 1
               s == run[p]
               r == run[q]
               cue == CueList(d)[q]
    <2>1. p \in 1 .. n - 1 /\ q \in 1 .. n /\ p \in 0 .. n /\ p \in 1 .. n /\ q - 1 = p /\ p # n /\ i + 1 <= n
      BY <1>1
    <2>2. At(p)
      BY <1>4, <2>1
    <2> HIDE DEF p, T
    <2>3. r = Part(s, cue, lsn)
      <3>1. run[q] = Part(run[q - 1], CueList(d)[q], lsn)
        BY <1>2, <2>1
      <3> QED
        BY <2>1, <3>1
    <2>4. s \in WalkStates /\ s.last \in Nat
      <3>1. s \in WalkStates
        BY <1>2, <2>1
      <3> QED
        BY <3>1 DEF WalkStates
    <2>5. /\ s.ok
          /\ s.last = LastAt(d, row, col, n, p)
          /\ s.lpregap <=> col[p] = 1 /\ p # n
          /\ s.num = TrackNo(row, col, p)
          /\ lsn >= s.last => s.in_track = 0
          /\ lsn < s.last => /\ s.in_track = PartIndex(k, c)
                             /\ s.ofs = PartFrom(d, k, c)
                             /\ s.pregap <=> c = 1
      BY <2>2 DEF WalkAt
    <2>6. /\ cue \in CueType
          /\ col[q] \in Nat \ {0}
          /\ q = n => col[q] = 1
          /\ cue.type = IF q = n THEN "end" ELSE IF col[q] = 1 THEN "pregap"
                        ELSE IF col[q] = 2 THEN "track" ELSE "subindex"
      <3>1. q \in 1 .. n
        BY <2>1
      <3> HIDE DEF q
      <3> QED
        BY <3>1, CueTypes
    <2> HIDE DEF q, s, r, cue
    <2>7. CASE col[q] > 2
      <3>1. q # n /\ cue.type = "subindex"
        BY <2>6, <2>7
      <3>2. r = s
        BY <2>3, <2>4, <2>6, <3>1, PartStep
      <3>3. row[q] = row[p] /\ col[p] >= 2 /\ col[p] # 1 /\ col[q] # 1 /\ col[q] >= 2
        <4>1. IF col[p] < LastCol(d, row[p])
              THEN row[q] = row[p] /\ col[q] = col[p] + 1 /\ q < n
              ELSE row[q] = row[p] + 1 /\ col[q] = 1 /\ col[p] >= 2
          BY <2>1, NextCue DEF q
        <4>2. col[p] \in Nat \ {0}
          BY <2>1, CueTypes
        <4> QED
          BY <2>7, <4>1, <4>2
      <3>4. LastAt(d, row, col, n, q) = LastAt(d, row, col, n, p) /\ TrackNo(row, col, q) = TrackNo(row, col, p)
        BY <2>1, <3>1, <3>3 DEF LastAt, TrackNo
      <3>5. At(q)
        BY <2>1, <2>5, <3>1, <3>2, <3>3, <3>4 DEF WalkAt, r
      <3> QED
        BY <3>5 DEF q, p
    <2>8. CASE ~(col[q] > 2)
      <3>1. col[q] <= 2 /\ cue.type # "subindex"
        BY <2>6, <2>8
      <3>2. PICK b \in {1, 2} :
              /\ IsPart(d, row[p], b)
              /\ b = 1 <=> col[p] = 1
              /\ PartFrom(d, row[p], b) = LastAt(d, row, col, n, p)
              /\ PartTo(d, row[p], b) = LastAt(d, row, col, n, q)
              /\ cue.lsn = LastAt(d, row, col, n, q)
              /\ PartIndex(row[p], b) = TrackNo(row, col, p)
              /\ TrackNo(row, col, q) = IF b = 1 THEN TrackNo(row, col, p) + 1 ELSE TrackNo(row, col, p)
              /\ col[q] = 1 <=> b = 2
        BY <2>1, <3>1, PartCloses DEF q, cue
      <3>3. s.last < cue.lsn /\ cue.lsn \in Nat /\ cue.lsn # 0
        <4>1. PartFrom(d, row[p], b) < PartTo(d, row[p], b) /\ PartTo(d, row[p], b) \in Nat
          BY <3>2, PartsInOrder
        <4> QED
          BY <2>4, <2>5, <3>2, <4>1
      <3>4. /\ r.last = cue.lsn
            /\ r.lpregap <=> cue.type = "pregap"
            /\ r.num = IF cue.type = "track" THEN s.num + 1 ELSE s.num
        BY <2>3, <2>4, <2>6, <3>1, PartMoves
      <3>5. (cue.type = "pregap" <=> col[q] = 1 /\ q # n) /\ (cue.type = "track" <=> b = 1)
        BY <2>6, <3>1, <3>2
      <3>6. r.num = TrackNo(row, col, q)
        BY <2>5, <3>2, <3>4, <3>5
      <3>7. /\ r.ok
            /\ lsn >= r.last => r.in_track = 0
            /\ lsn < r.last => /\ r.in_track = PartIndex(k, c)
                               /\ r.ofs = PartFrom(d, k, c)
                               /\ r.pregap <=> c = 1
        <4>1. CASE s.last <= lsn /\ lsn < cue.lsn
          <5>1. /\ r.ok <=> s.ok /\ s.in_track = 0
                /\ r.in_track = s.num
                /\ r.ofs = s.last
                /\ r.pregap = s.lpregap
            BY <2>3, <2>4, <2>6, <3>1, <3>3, <4>1, PartHere
          <5>2. InPart(d, row[p], b, lsn)
            BY <2>5, <3>2, <4>1 DEF InPart
          <5>3. row[p] = k /\ b = c
            BY <5>2, PartUnique
          <5> QED
            BY <2>1, <2>4, <2>5, <3>2, <3>3, <3>4, <4>1, <5>1, <5>3
        <4>2. CASE lsn < s.last \/ cue.lsn <= lsn
          <5>1. /\ r.ok = s.ok
                /\ r.in_track = s.in_track
                /\ r.ofs = s.ofs
                /\ r.pregap = s.pregap
            BY <2>3, <2>4, <2>6, <3>1, <4>2, PartPast
          <5> QED
            BY <2>4, <2>5, <3>3, <3>4, <4>2, <5>1
        <4> QED
          BY <2>4, <3>3, <4>1, <4>2
      <3>8. At(q)
        BY <3>2, <3>4, <3>5, <3>6, <3>7 DEF WalkAt, r
      <3> QED
        BY <3>8 DEF q, p
    <2> QED
      BY <2>7, <2>8
  <1> HIDE DEF T, At
  <1>5. Nat \subseteq T
    BY <1>3, <1>4, NatSetInduction
  <1>6. \A p \in 1 .. n : At(p)
    <2> SUFFICES ASSUME NEW p \in 1 .. n PROVE At(p)
      OBVIOUS
    <2>1. p - 1 \in Nat /\ p - 1 + 1 = p /\ p <= n
      BY <1>1
    <2>2. p - 1 \in T
      BY <1>5, <2>1
    <2> QED
      BY <2>1, <2>2 DEF T
  <1> QED
    BY <1>6 DEF At

\* The whole walk finds the part of the disc the sector is in.
LEMMA PartFound ==
    ASSUME NEW d \in Discs, NEW lsn \in Nat, NEW k, NEW c, InPart(d, k, c, lsn)
    PROVE  LET part == WalkOf(WalkStart, CueList(d), lsn)
           IN  /\ part \in WalkStates
               /\ part.ok
               /\ part.in_track = PartIndex(k, c)
               /\ part.ofs = PartFrom(d, k, c)
               /\ part.pregap <=> c = 1
  <1>1. PICK row, col : LaidOut(d, row, col, Len(CueList(d)))
    BY CuesLaidOut
  <1> DEFINE n == Len(CueList(d))
  <1>2. PICK run : WalkIs(run, d, n, lsn)
    BY <1>1, WalkExists
  <1>3. n \in Nat /\ n >= 2
    BY <1>1 DEF LaidOut
  <1> HIDE DEF n
  <1>4. n \in 1 .. n /\ n \in 0 .. n
    BY <1>3
  <1>5. WalkAt(run, d, row, col, n, lsn, k, c, n)
    BY <1>1, <1>2, <1>4, WalkGoes DEF n
  <1>6. run[n] = WalkOf(WalkStart, CueList(d), lsn) /\ run[n] \in WalkStates
    BY <1>2, <1>4 DEF WalkIs
  <1>7. run[n].last = DiscEnd(d) /\ lsn < DiscEnd(d)
    <2>1. run[n].last = DiscEnd(d)
      BY <1>5 DEF WalkAt, LastAt
    <2>2. IsPart(d, k, c) /\ lsn < PartTo(d, k, c)
      BY DEF InPart
    <2>3. PartTo(d, k, c) \in Nat /\ PartTo(d, k, c) <= DiscEnd(d)
      BY <2>2, PartsInOrder
    <2>4. DiscEnd(d) \in Nat
      BY TracksInOrder
    <2> QED
      BY <2>1, <2>2, <2>3, <2>4
  <1> QED
    BY <1>5, <1>6, <1>7 DEF WalkAt

-----------------------------------------------------------------------------
(* cdrdao: what the calls do.                                              *)

\* The assignments to the sink's struct.
WithLast(obj, s) == [obj EXCEPT !.last_bin_snk = s]
WithList(obj, l) == [obj EXCEPT !.vcd_cue_list = l]
WithPart(obj, s, idx, pause) ==
    [obj EXCEPT !.last_bin_snk = s, !.last_snk_idx = idx, !.last_pause = pause]

CdrdaoStruct(flag, sink, idx, pause, list) ==
    [sector_2336_flag |-> flag, last_bin_snk |-> sink, last_snk_idx |-> idx,
     last_pause |-> pause, vcd_cue_list |-> list]

LEMMA CdrdaoFields ==
    ASSUME NEW flag, NEW sink, NEW idx, NEW pause, NEW list
    PROVE  LET obj == CdrdaoStruct(flag, sink, idx, pause, list)
           IN  /\ SectorSize(obj) = Size(flag)
               /\ obj.last_bin_snk = sink
               /\ obj.last_snk_idx = idx
               /\ obj.last_pause = pause
               /\ obj.vcd_cue_list = list
  BY DEF CdrdaoStruct, SectorSize, Size

LEMMA CdrdaoAssigned ==
    ASSUME NEW flag, NEW sink, NEW idx, NEW pause, NEW list, NEW s, NEW i, NEW p, NEW l
    PROVE  LET obj == CdrdaoStruct(flag, sink, idx, pause, list)
           IN  /\ WithLast(obj, s) = CdrdaoStruct(flag, s, idx, pause, list)
               /\ WithList(obj, l) = CdrdaoStruct(flag, sink, idx, pause, l)
               /\ WithPart(obj, s, i, p) = CdrdaoStruct(flag, s, i, p, list)
  <1> DEFINE Keys == {"sector_2336_flag", "last_bin_snk", "last_snk_idx", "last_pause", "vcd_cue_list"}
             Row(f, a, b, c, e) == [k \in Keys |->
                                   CASE k = "sector_2336_flag" -> f [] k = "last_bin_snk" -> a
                                     [] k = "last_snk_idx" -> b [] k = "last_pause" -> c
                                     [] k = "vcd_cue_list" -> e]
  <1>1. \A f, a, b, c, e : CdrdaoStruct(f, a, b, c, e) = Row(f, a, b, c, e)
    BY DEF CdrdaoStruct
  <1>2. [Row(flag, sink, idx, pause, list) EXCEPT !.last_bin_snk = s] = Row(flag, s, idx, pause, list)
    OBVIOUS
  <1>3. [Row(flag, sink, idx, pause, list) EXCEPT !.vcd_cue_list = l] = Row(flag, sink, idx, pause, l)
    OBVIOUS
  <1>4. [Row(flag, sink, idx, pause, list) EXCEPT !.last_bin_snk = s, !.last_snk_idx = i, !.last_pause = p]
          = Row(flag, s, i, p, list)
    OBVIOUS
  <1> HIDE DEF Row
  <1> QED
    BY <1>1, <1>2, <1>3, <1>4 DEF WithLast, WithList, WithPart

\* The sink before its first sector and behind it.
LEMMA CdrdaoObjs ==
    /\ \A flag, list : CdrdaoIdle(flag, list) = CdrdaoStruct(flag, NoSink, 0, FALSE, list)
    /\ \A flag, sink, k, c, list :
          CdrdaoObj(flag, sink, k, c, list) = CdrdaoStruct(flag, sink, PartIndex(k, c), c = 1, list)
  BY DEF CdrdaoIdle, CdrdaoObj, CdrdaoStruct

\* The next sector is in the last one's part, or at the start of a later one.
LEMMA PartNext ==
    ASSUME NEW d \in Discs, NEW n \in Nat, NEW last \in Nat, n = last + 1,
           NEW j, NEW b, InPart(d, j, b, last), NEW k, NEW c, InPart(d, k, c, n)
    PROVE  /\ PartIndex(j, b) <= PartIndex(k, c)
           /\ \/ j = k /\ b = c /\ PartFrom(d, k, c) < n
              \/ ~(j = k /\ b = c) /\ PartFrom(d, k, c) = n
  <1>1. /\ IsPart(d, j, b) /\ PartFrom(d, j, b) <= last /\ last < PartTo(d, j, b)
        /\ IsPart(d, k, c) /\ PartFrom(d, k, c) <= n /\ n < PartTo(d, k, c)
    BY DEF InPart
  <1>2. /\ k \in Nat /\ c \in {1, 2} /\ PartFrom(d, k, c) \in Nat /\ PartTo(d, k, c) \in Nat
        /\ j \in Nat /\ b \in {1, 2} /\ PartFrom(d, j, b) \in Nat /\ PartTo(d, j, b) \in Nat
    BY <1>1, PartsInOrder
  <1>3. ~(k < j \/ (k = j /\ c < b))
    <2>1. k < j \/ (k = j /\ c < b) => PartTo(d, k, c) <= PartFrom(d, j, b)
      BY <1>1, PartsInOrder
    <2> QED
      BY <1>1, <1>2, <2>1
  <1>4. j < k \/ (j = k /\ b < c) => PartFrom(d, k, c) = n
    <2>1. j < k \/ (j = k /\ b < c) => PartTo(d, j, b) <= PartFrom(d, k, c)
      BY <1>1, PartsInOrder
    <2> QED
      BY <1>1, <1>2, <2>1
  <1>5. CASE j = k /\ b = c
    BY <1>1, <1>2, <1>5 DEF PartIndex
  <1>6. CASE ~(j = k /\ b = c)
    <2>1. j < k \/ (j = k /\ b < c)
      <3>1. ~(k < j)
        BY <1>3
      <3>2. k = j => ~(c < b)
        BY <1>3
      <3>3. j < k \/ k = j
        BY <1>2, <3>1
      <3>4. c < b \/ b < c \/ b = c
        BY <1>2
      <3> QED
        BY <1>6, <3>2, <3>3, <3>4
    <2>2. PartIndex(j, b) <= PartIndex(k, c)
      BY <1>2, <2>1 DEF PartIndex
    <2> QED
      BY <1>4, <1>6, <2>1, <2>2
  <1> QED
    BY <1>5, <1>6

\* _set_cuesheet: the table of contents is complete.
LEMMA CdrdaoSheetIs ==
    ASSUME NEW d \in Discs, NEW flag \in BOOLEAN, NEW before
    PROVE  LET r == CdrdaoSetCuesheet(CdrdaoIdle(flag, before), NoFiles, CueList(d))
           IN  /\ r.obj = CdrdaoIdle(flag, CueList(d))
               /\ r.ok
               /\ CdrdaoDisk(r.disk, d, Size(flag), 0)
  <1> DEFINE obj == CdrdaoIdle(flag, before)
             list == CueList(d)
             s == TocOf(TocStart, list, SectorSize(obj))
             printed == PrintOf([disk |-> NoFiles, sink |-> Sink(TocFile)], s.text)
             out == SinkDestroy(printed)
             r == CdrdaoSetCuesheet(obj, NoFiles, list)
  <1>1. r = [obj |-> [obj EXCEPT !.vcd_cue_list = list], disk |-> out.disk, ok |-> s.done]
    BY DEF CdrdaoSetCuesheet, TocOf, TocStart, PrintOf
  <1> HIDE DEF r, out, printed, s
  <1> DEFINE no == FALSE
  <1>2. obj = CdrdaoStruct(flag, NoSink, 0, no, before) /\ CdrdaoIdle(flag, list) = CdrdaoStruct(flag, NoSink, 0, no, list)
    BY CdrdaoObjs
  <1> HIDE DEF obj, list, no
  <1>3. SectorSize(obj) = Size(flag)
    BY <1>2, CdrdaoFields
  <1>4. Size(flag) \in Nat
    BY SizeIs
  <1>5. s = TocOf(TocStart, CueList(d), Size(flag))
    BY <1>3 DEF s, list
  <1>6. s.text \in Seq(TocLineType) /\ Len(s.text) > 0 /\ s.done
    BY <1>4, <1>5, TocDone
  <1>7. printed = PrintOf(On(NoFiles, Sink(TocFile)), s.text)
    BY DEF printed, On
  <1>8. PICK file : /\ TextIn(file, s.text)
                    /\ printed = On(Put(NoFiles, TocFile, file), OpenAt(TocFile, Len(s.text)))
    BY <1>6, <1>7, PrintText
  <1>9. out = On(Put(NoFiles, TocFile, file), NoSink)
    BY <1>8, CloseIs DEF out
  <1>10. out.disk = Put(NoFiles, TocFile, file)
    BY <1>9 DEF On
  <1>11. r.obj = CdrdaoIdle(flag, list)
    <2>1. r.obj = WithList(obj, list)
      BY <1>1 DEF WithList
    <2> QED
      BY <1>2, <2>1, CdrdaoAssigned
  <1>12. CdrdaoDisk(r.disk, d, Size(flag), 0)
    <2>1. r.disk = Put(NoFiles, TocFile, file)
      BY <1>1, <1>10
    <2>2. /\ Whole(r.disk)
          /\ DOMAIN r.disk = {TocFile}
          /\ r.disk[TocFile] = file
      BY <2>1, FirstFile
    <2>3. TextIn(r.disk[TocFile], TocText(d, Size(flag)))
      BY <1>5, <1>8, <2>2 DEF TocText
    <2>4. \A k, c : IsPart(d, k, c) => ~(PartFrom(d, k, c) < 0)
      <3> SUFFICES ASSUME NEW k, NEW c, IsPart(d, k, c) PROVE ~(PartFrom(d, k, c) < 0)
        OBVIOUS
      <3>1. PartFrom(d, k, c) \in Nat
        BY PartsInOrder
      <3> QED
        BY <3>1
    <2> QED
      BY <2>2, <2>3, <2>4 DEF CdrdaoDisk
  <1> QED
    BY <1>1, <1>6, <1>11, <1>12 DEF r, obj, list

\* Files of different parts are different files.
LEMMA PartFiles ==
    ASSUME NEW k \in Nat, NEW c \in {1, 2}, NEW j \in Nat, NEW b \in {1, 2},
           PartFile(k, c) = PartFile(j, b)
    PROVE  k = j /\ c = b
  <1> DEFINE one == k + 1
             two == j + 1
             first == c = 1
             second == b = 1
  <1>1. one \in Nat /\ two \in Nat /\ first \in BOOLEAN /\ second \in BOOLEAN
    OBVIOUS
  <1>2. <<"img", one, first>> = <<"img", two, second>>
    BY DEF PartFile, ImageFile
  <1> HIDE DEF one, two, first, second
  <1>3. one = two /\ first = second
    BY <1>1, <1>2
  <1>4. (c = 1) = (b = 1)
    BY <1>3 DEF first, second
  <1>5. c = b
    BY <1>4
  <1> QED
    BY <1>3, <1>5 DEF one, two

\* pause is that of a part.
PauseOf(pause, c) == pause = (c = 1)

\* The walk has found this part.
Leads(part, k, c) ==
    /\ part \in WalkStates
    /\ part.in_track = PartIndex(k, c)
    /\ PauseOf(part.pregap, c)

\* The stream of the sector's part is the one that is open, or a new one.
LEMMA SwitchKeeps ==
    ASSUME NEW flag, NEW sink, NEW pause, NEW list, NEW files, NEW part, NEW k, NEW c,
           Leads(part, k, c), PauseOf(pause, c)
    PROVE  CdrdaoSwitch(CdrdaoStruct(flag, sink, PartIndex(k, c), pause, list), files, part)
             = CdrdaoObj(flag, sink, k, c, list)
  <1> DEFINE obj == CdrdaoStruct(flag, sink, PartIndex(k, c), pause, list)
             first == c = 1
  <1>1. obj.last_snk_idx = part.in_track /\ obj.last_pause = part.pregap
    BY CdrdaoFields DEF Leads, PauseOf
  <1>2. pause = first
    BY DEF PauseOf
  <1>3. CdrdaoObj(flag, sink, k, c, list) = CdrdaoStruct(flag, sink, PartIndex(k, c), first, list)
    BY CdrdaoObjs
  <1>4. obj = CdrdaoStruct(flag, sink, PartIndex(k, c), pause, list)
    OBVIOUS
  <1> HIDE DEF obj, first
  <1>5. CdrdaoSwitch(obj, files, part) = obj
    BY <1>1 DEF CdrdaoSwitch
  <1> QED
    BY <1>2, <1>3, <1>4, <1>5 DEF obj

LEMMA SwitchOpens ==
    ASSUME NEW flag, NEW sink, NEW idx, NEW pause, NEW list, NEW files, NEW part, NEW d \in Discs,
           NEW k, NEW c, IsPart(d, k, c), Leads(part, k, c), idx # PartIndex(k, c) \/ ~PauseOf(pause, c)
    PROVE  CdrdaoSwitch(CdrdaoStruct(flag, sink, idx, pause, list), files, part)
             = CdrdaoObj(flag, Sink(PartFile(k, c)), k, c, list)
  <1> DEFINE obj == CdrdaoStruct(flag, sink, idx, pause, list)
             file == ImageFile(IF part.pregap THEN part.in_track + 1 ELSE part.in_track, part.pregap)
             first == c = 1
  <1>1. k \in Nat /\ c \in {1, 2}
    BY PartsInOrder
  <1>2. obj.last_snk_idx = idx /\ obj.last_pause = pause
    BY CdrdaoFields
  <1>3. part.in_track = PartIndex(k, c) /\ part.pregap = first /\ first \in BOOLEAN
    BY DEF Leads, PauseOf
  <1>4. file = PartFile(k, c)
    <2>1. (IF part.pregap THEN part.in_track + 1 ELSE part.in_track) = k + 1
      BY <1>1, <1>3 DEF PartIndex
    <2> QED
      BY <1>3, <2>1 DEF PartFile
  <1>5. obj.last_snk_idx # part.in_track \/ obj.last_pause # part.pregap
    BY <1>2 DEF Leads, PauseOf
  <1>6. CdrdaoSwitch(obj, files, part) = WithPart(obj, Sink(file), part.in_track, part.pregap)
    BY <1>5 DEF CdrdaoSwitch, WithPart
  <1>7. \A s : CdrdaoObj(flag, s, k, c, list) = CdrdaoStruct(flag, s, PartIndex(k, c), first, list)
    BY CdrdaoObjs
  <1>8. obj = CdrdaoStruct(flag, sink, idx, pause, list)
    OBVIOUS
  <1> HIDE DEF obj, file, first
  <1>9. WithPart(obj, Sink(file), part.in_track, part.pregap)
          = CdrdaoStruct(flag, Sink(file), part.in_track, part.pregap, list)
    BY <1>8, CdrdaoAssigned
  <1> QED
    BY <1>3, <1>4, <1>6, <1>7, <1>9 DEF obj

\* The disk with the next sector at the end of its part's file.
LEMMA CdrdaoDiskMore ==
    ASSUME NEW d \in Discs, NEW size \in Nat, NEW files, NEW n \in Nat,
           CdrdaoDisk(files, d, size, n), NEW k, NEW c, InPart(d, k, c, n), NEW file,
           Holds(file, PartFrom(d, k, c), n - PartFrom(d, k, c) + 1, size)
    PROVE  CdrdaoDisk(Put(files, PartFile(k, c), file), d, size, n + 1)
  <1> DEFINE f == PartFile(k, c)
             new == Put(files, f, file)
  <1>1. /\ Whole(files)
        /\ TocFile \in DOMAIN files
        /\ TextIn(files[TocFile], TocText(d, size))
        /\ \A g \in DOMAIN files \ {TocFile} :
              \E j \in 0 .. Len(d.tracks), b \in {1, 2} :
                 IsPart(d, j, b) /\ PartFrom(d, j, b) < n /\ g = PartFile(j, b)
        /\ \A j \in 0 .. Len(d.tracks), b \in {1, 2} :
              IsPart(d, j, b) /\ PartFrom(d, j, b) < n =>
                  /\ PartFile(j, b) \in DOMAIN files
                  /\ Holds(files[PartFile(j, b)], PartFrom(d, j, b), PartCount(d, j, b, n), size)
    BY DEF CdrdaoDisk
  <1>2. /\ \A x : x \in DOMAIN new <=> x \in DOMAIN files \/ x = f
        /\ new[f] = file
        /\ \A x \in DOMAIN files : x # f => new[x] = files[x]
        /\ Whole(new)
    BY PutIs
  <1>3. IsPart(d, k, c) /\ PartFrom(d, k, c) <= n /\ n < PartTo(d, k, c)
    BY DEF InPart
  <1>4. /\ PartFrom(d, k, c) \in Nat /\ PartTo(d, k, c) \in Nat
        /\ k \in Nat /\ c \in {1, 2} /\ k \in 0 .. Len(d.tracks)
    BY <1>3, PartsInOrder DEF IsPart
  <1>5. f # TocFile
    BY FilesDiffer DEF PartFile
  <1> HIDE DEF f, new
  <1>6. TocFile \in DOMAIN new /\ new[TocFile] = files[TocFile]
    BY <1>1, <1>2, <1>5
  <1>7. ASSUME NEW g \in DOMAIN new \ {TocFile}
        PROVE  \E j \in 0 .. Len(d.tracks), b \in {1, 2} :
                  IsPart(d, j, b) /\ PartFrom(d, j, b) < n + 1 /\ g = PartFile(j, b)
    <2>1. CASE g = f
      <3>1. PartFrom(d, k, c) < n + 1
        BY <1>3, <1>4
      <3> QED
        BY <1>3, <1>4, <2>1, <3>1 DEF f
    <2>2. CASE g # f
      <3>1. g \in DOMAIN files \ {TocFile}
        BY <1>2, <1>7, <2>2
      <3>2. PICK j \in 0 .. Len(d.tracks), b \in {1, 2} :
               IsPart(d, j, b) /\ PartFrom(d, j, b) < n /\ g = PartFile(j, b)
        BY <1>1, <3>1
      <3>3. PartFrom(d, j, b) \in Nat
        BY <3>2, PartsInOrder
      <3>4. PartFrom(d, j, b) < n + 1
        BY <3>2, <3>3
      <3> QED
        BY <3>2, <3>4
    <2> QED
      BY <2>1, <2>2
  <1>8. ASSUME NEW j \in 0 .. Len(d.tracks), NEW b \in {1, 2},
               IsPart(d, j, b), PartFrom(d, j, b) < n + 1
        PROVE  /\ PartFile(j, b) \in DOMAIN new
               /\ Holds(new[PartFile(j, b)], PartFrom(d, j, b), PartCount(d, j, b, n + 1), size)
    <2>1. CASE j = k /\ b = c
      <3>1. PartCount(d, j, b, n + 1) = n - PartFrom(d, k, c) + 1
        BY <1>3, <1>4, <2>1 DEF PartCount
      <3>2. new[PartFile(j, b)] = file /\ PartFile(j, b) \in DOMAIN new
        BY <1>2, <2>1 DEF f
      <3> QED
        BY <2>1, <3>1, <3>2
    <2>2. CASE ~(j = k /\ b = c)
      <3>1. PartFrom(d, j, b) \in Nat /\ PartTo(d, j, b) \in Nat /\ j \in Nat
        BY <1>8, PartsInOrder
      <3>2. ~InPart(d, j, b, n)
        BY <2>2, PartUnique
      <3>3. PartTo(d, j, b) <= n
        BY <1>8, <3>1, <3>2 DEF InPart
      <3>4. PartFrom(d, j, b) < n
        <4>1. PartFrom(d, j, b) < PartTo(d, j, b)
          BY <1>8, PartsInOrder
        <4> QED
          BY <3>1, <3>3, <4>1
      <3>5. PartCount(d, j, b, n + 1) = PartCount(d, j, b, n)
        BY <3>1, <3>3 DEF PartCount
      <3>6. /\ PartFile(j, b) \in DOMAIN files
            /\ Holds(files[PartFile(j, b)], PartFrom(d, j, b), PartCount(d, j, b, n), size)
        BY <1>1, <1>8, <3>4
      <3>7. PartFile(j, b) # f
        BY <1>4, <2>2, <3>1, PartFiles DEF f
      <3>8. PartFile(j, b) \in DOMAIN new /\ new[PartFile(j, b)] = files[PartFile(j, b)]
        BY <1>2, <3>6, <3>7
      <3> QED
        BY <3>5, <3>6, <3>8
    <2> QED
      BY <2>1, <2>2
  <1>9. CdrdaoDisk(new, d, size, n + 1)
    <2>1. TextIn(new[TocFile], TocText(d, size)) /\ Whole(new) /\ TocFile \in DOMAIN new
      BY <1>1, <1>2, <1>6
    <2> QED
      BY <1>7, <1>8, <2>1 DEF CdrdaoDisk
  <1> QED
    BY <1>9 DEF new, f

\* The stream that CdrdaoWrite goes on with.
CdrdaoStream(d, flag, n, k, c) ==
    IF PartFrom(d, k, c) = n THEN Sink(PartFile(k, c))
    ELSE OpenAt(PartFile(k, c), (n - PartFrom(d, k, c)) * Size(flag))

LEMMA CdrdaoGoesOn ==
    ASSUME NEW d \in Discs, NEW flag, NEW n \in Nat, NEW obj, CdrdaoBefore(obj, d, flag, n),
           NEW k, NEW c, InPart(d, k, c, n), NEW part, Leads(part, k, c), NEW files
    PROVE  /\ obj.vcd_cue_list = CueList(d)
           /\ obj.last_snk_idx <= PartIndex(k, c)
           /\ CdrdaoSwitch(obj, files, part)
                = CdrdaoObj(flag, CdrdaoStream(d, flag, n, k, c), k, c, CueList(d))
  <1> DEFINE list == CueList(d)
             no == FALSE
  <1>1. /\ IsPart(d, k, c) /\ PartFrom(d, k, c) \in Nat
        /\ k \in Nat /\ c \in {1, 2} /\ PartFrom(d, k, c) <= n
    BY PartsInOrder DEF InPart
  <1>2. PartIndex(k, c) \in Nat /\ PartIndex(k, c) # 0
    <2>1. k = 0 => c = 2
      BY <1>1 DEF IsPart
    <2> QED
      BY <1>1, <2>1 DEF PartIndex
  <1>3. CASE n = 0 /\ obj = CdrdaoIdle(flag, CueList(d))
    <2> DEFINE idx == 0
    <2>1. idx # PartIndex(k, c) /\ idx <= PartIndex(k, c)
      BY <1>2
    <2>2. obj = CdrdaoStruct(flag, NoSink, idx, no, list)
      BY <1>3, CdrdaoObjs
    <2>3. IsPart(d, k, c)
      BY <1>1
    <2> HIDE DEF list, no, idx
    <2>4. CdrdaoSwitch(obj, files, part) = CdrdaoObj(flag, Sink(PartFile(k, c)), k, c, list)
      <3>1. idx # PartIndex(k, c)
        BY <2>1
      <3> QED
        BY <2>2, <2>3, <3>1, SwitchOpens
    <2>5. obj.vcd_cue_list = list /\ obj.last_snk_idx = idx
      BY <2>2, CdrdaoFields
    <2>6. CdrdaoStream(d, flag, n, k, c) = Sink(PartFile(k, c))
      BY <1>1, <1>3 DEF CdrdaoStream
    <2> QED
      BY <2>1, <2>4, <2>5, <2>6 DEF list
  <1>4. ASSUME n > 0, NEW j, NEW b, InPart(d, j, b, n - 1),
               obj = CdrdaoObj(flag, OpenAt(PartFile(j, b), (n - PartFrom(d, j, b)) * Size(flag)),
                               j, b, CueList(d))
        PROVE  /\ obj.vcd_cue_list = list
               /\ obj.last_snk_idx <= PartIndex(k, c)
               /\ CdrdaoSwitch(obj, files, part)
                    = CdrdaoObj(flag, CdrdaoStream(d, flag, n, k, c), k, c, list)
    <2> DEFINE first == b = 1
               sink == OpenAt(PartFile(j, b), (n - PartFrom(d, j, b)) * Size(flag))
               last == n - 1
    <2>1. last \in Nat /\ n = last + 1 /\ InPart(d, j, b, last)
      BY <1>4
    <2>2. obj = CdrdaoStruct(flag, sink, PartIndex(j, b), first, list)
      BY <1>4, CdrdaoObjs
    <2>3. PauseOf(first, b)
      BY DEF PauseOf
    <2>4. j \in Nat /\ b \in {1, 2}
      BY <2>1, PartsInOrder DEF InPart
    <2> HIDE DEF list, sink, first, last
    <2>5. PartIndex(j, b) <= PartIndex(k, c)
      BY <2>1, PartNext
    <2>6. (j = k /\ b = c /\ PartFrom(d, k, c) < n) \/ (~(j = k /\ b = c) /\ PartFrom(d, k, c) = n)
      BY <2>1, PartNext
    <2>7. obj.vcd_cue_list = list /\ obj.last_snk_idx = PartIndex(j, b)
      BY <2>2, CdrdaoFields
    <2>8. CASE j = k /\ b = c
      <3>1. CdrdaoSwitch(CdrdaoStruct(flag, sink, PartIndex(k, c), first, list), files, part)
              = CdrdaoObj(flag, sink, k, c, list)
        <4>1. PauseOf(first, c)
          BY <2>3, <2>8
        <4> QED
          BY <4>1, SwitchKeeps
      <3>2. CdrdaoStream(d, flag, n, k, c) = sink
        BY <1>1, <2>6, <2>8 DEF CdrdaoStream, sink
      <3> QED
        BY <2>2, <2>5, <2>7, <2>8, <3>1, <3>2
    <2>9. CASE ~(j = k /\ b = c)
      <3>1. PartIndex(j, b) # PartIndex(k, c) \/ ~PauseOf(first, c)
        BY <1>1, <2>3, <2>4, <2>9 DEF PartIndex, PauseOf
      <3>2. CdrdaoSwitch(CdrdaoStruct(flag, sink, PartIndex(j, b), first, list), files, part)
              = CdrdaoObj(flag, Sink(PartFile(k, c)), k, c, list)
        <4>1. IsPart(d, k, c)
          BY <1>1
        <4> QED
          BY <3>1, <4>1, SwitchOpens
      <3>3. CdrdaoStream(d, flag, n, k, c) = Sink(PartFile(k, c))
        BY <2>6, <2>9 DEF CdrdaoStream
      <3> QED
        BY <2>2, <2>5, <2>7, <3>2, <3>3
    <2> QED
      BY <2>8, <2>9
  <1> QED
    BY <1>3, <1>4 DEF CdrdaoBefore

\* _vcd_image_cdrdao_write
LEMMA CdrdaoWriteIs ==
    ASSUME NEW d \in Discs, NEW flag \in BOOLEAN, NEW files, NEW n \in Nat, n < DiscEnd(d), NEW obj,
           CdrdaoDisk(files, d, Size(flag), n), CdrdaoBefore(obj, d, flag, n)
    PROVE  LET r == CdrdaoWrite(obj, files, n)
           IN  /\ CdrdaoBefore(r.obj, d, flag, n + 1)
               /\ r.ok
               /\ CdrdaoDisk(r.disk, d, Size(flag), n + 1)
  <1>1. PICK k \in 0 .. Len(d.tracks), c \in {1, 2} : InPart(d, k, c, n)
    BY PartExists
  <1> DEFINE size == Size(flag)
             part == WalkOf(WalkStart, obj.vcd_cue_list, n)
             ok == part.ok /\ part.in_track # 0 /\ obj.last_snk_idx <= part.in_track /\ n >= part.ofs
             o == CdrdaoSwitch(obj, files, part)
             to == SinkSeek([disk |-> files, sink |-> o.last_bin_snk], (n - part.ofs) * SectorSize(o))
             out == SinkWrite(to, Stored(o, n), SectorSize(o))
             r == CdrdaoWrite(obj, files, n)
             list == CueList(d)
             from == PartFrom(d, k, c)
             stream == CdrdaoStream(d, flag, n, k, c)
             count == n - from
             f == PartFile(k, c)
  <1>2. r = IF ok THEN [obj |-> [o EXCEPT !.last_bin_snk = out.sink], disk |-> out.disk, ok |-> TRUE]
            ELSE [obj |-> obj, disk |-> files, ok |-> FALSE]
    BY DEF CdrdaoWrite, WalkOf, WalkStart
  <1> HIDE DEF r, out, to, o
  <1>3. obj.vcd_cue_list = list
    <2>1. \E sink, idx, pause : obj = CdrdaoStruct(flag, sink, idx, pause, list)
      BY CdrdaoObjs DEF CdrdaoBefore
    <2> HIDE DEF list
    <2> QED
      BY <2>1, CdrdaoFields
  <1>4. /\ part \in WalkStates
        /\ part.ok
        /\ part.in_track = PartIndex(k, c)
        /\ part.ofs = from
        /\ part.pregap <=> c = 1
    BY <1>1, <1>3, PartFound
  <1>19. Leads(part, k, c)
    <2>1. part.pregap \in BOOLEAN
      BY <1>4 DEF WalkStates
    <2>2. part.pregap = (c = 1)
      BY <1>4, <2>1
    <2> QED
      BY <1>4, <2>2 DEF Leads, PauseOf
  <1> HIDE DEF part
  <1>5. /\ obj.last_snk_idx <= PartIndex(k, c)
        /\ o = CdrdaoObj(flag, stream, k, c, list)
    BY <1>1, <1>19, CdrdaoGoesOn DEF o
  <1>6. /\ IsPart(d, k, c) /\ from \in Nat /\ from <= n /\ n < PartTo(d, k, c) /\ PartTo(d, k, c) \in Nat
        /\ k \in Nat /\ (k = 0 => c = 2)
    BY <1>1, PartsInOrder DEF InPart, IsPart
  <1>7. ok
    <2>1. PartIndex(k, c) # 0
      BY <1>6 DEF PartIndex
    <2> QED
      BY <1>4, <1>5, <1>6, <2>1
  <1>8. SectorSize(o) = size /\ o.last_bin_snk = stream
    BY <1>5, CdrdaoFields, CdrdaoObjs
  <1>9. size \in Nat \ {0}
    BY SizeIs
  <1>10. count \in Nat /\ from + count = n
    BY <1>6
  <1> HIDE DEF size, list, stream, count, from, f
  <1>11. to = SinkSeek(On(files, stream), count * size)
    BY <1>4, <1>8 DEF to, On, count
  <1>12. Stored(o, n) = SectorOf(from + count, size)
    BY <1>8, <1>10 DEF Stored, SectorOf
  <1>13. PICK file : /\ Holds(file, from, count + 1, size)
                     /\ out = On(Put(files, f, file), OpenAt(f, (count + 1) * size))
    <2>1. count = 0 => stream = Sink(f)
      BY <1>6, <1>10 DEF stream, count, from, f, CdrdaoStream
    <2>2. count > 0 => /\ stream = OpenAt(f, count * size)
                       /\ f \in DOMAIN files
                       /\ Holds(files[f], from, count, size)
      <3> SUFFICES ASSUME count > 0
                   PROVE  /\ stream = OpenAt(f, count * size)
                          /\ f \in DOMAIN files
                          /\ Holds(files[f], from, count, size)
        OBVIOUS
      <3>1. from # n /\ from < n
        BY <1>6, <1>10
      <3>2. stream = OpenAt(f, count * size)
        BY <3>1 DEF stream, CdrdaoStream, f, count, from, size
      <3>3. f \in DOMAIN files /\ Holds(files[f], from, PartCount(d, k, c, n), size)
        BY <1>1, <1>6, <3>1 DEF CdrdaoDisk, f, from, size
      <3>4. PartCount(d, k, c, n) = count
        BY <1>6 DEF PartCount, count, from
      <3> QED
        BY <3>2, <3>3, <3>4
    <2>3. Whole(files)
      BY DEF CdrdaoDisk
    <2>4. Stores(files, f, stream, from, count, size)
      BY <1>6, <1>9, <1>10, <2>1, <2>2, <2>3, StoreSector
    <2>5. out = SinkWrite(SinkSeek(On(files, stream), count * size), SectorOf(from + count, size), size)
      BY <1>8, <1>11, <1>12 DEF out
    <2> QED
      BY <2>4, <2>5 DEF Stores
  <1>14. out.sink = OpenAt(f, (count + 1) * size) /\ out.disk = Put(files, f, file)
    BY <1>13 DEF On
  <1>15. r.obj = CdrdaoObj(flag, OpenAt(f, (count + 1) * size), k, c, list)
    <2>1. r.obj = WithLast(o, out.sink)
      BY <1>2, <1>7 DEF WithLast
    <2> DEFINE first == c = 1
    <2>2. \A s : CdrdaoObj(flag, s, k, c, list) = CdrdaoStruct(flag, s, PartIndex(k, c), first, list)
      BY CdrdaoObjs
    <2> HIDE DEF first
    <2>3. o = CdrdaoStruct(flag, stream, PartIndex(k, c), first, list)
      BY <1>5, <2>2
    <2>4. r.obj = CdrdaoStruct(flag, out.sink, PartIndex(k, c), first, list)
      BY <2>1, <2>3, CdrdaoAssigned
    <2> QED
      BY <1>14, <2>2, <2>4
  <1>16. CdrdaoBefore(r.obj, d, flag, n + 1)
    <2>1. count + 1 = n + 1 - from /\ n + 1 > 0 /\ n + 1 - 1 = n
      BY <1>6 DEF count
    <2> DEFINE next1 == n + 1
    <2>2. count + 1 = next1 - from
      BY <1>6 DEF count
    <2>3. next1 > 0 /\ InPart(d, k, c, next1 - 1)
      BY <1>1, <2>1
    <2>4. r.obj = CdrdaoObj(flag, OpenAt(PartFile(k, c), (next1 - PartFrom(d, k, c)) * Size(flag)), k, c, CueList(d))
      BY <1>15, <2>2 DEF f, size, list, from
    <2> HIDE DEF next1
    <2>5. CdrdaoBefore(r.obj, d, flag, next1)
      BY <1>1, <2>3, <2>4 DEF CdrdaoBefore
    <2> QED
      BY <2>5 DEF next1
  <1>17. CdrdaoDisk(r.disk, d, Size(flag), n + 1)
    <2>1. r.disk = Put(files, f, file)
      BY <1>2, <1>7, <1>14
    <2>2. Holds(file, PartFrom(d, k, c), n - PartFrom(d, k, c) + 1, size)
      BY <1>13 DEF count, from
    <2> QED
      BY <1>1, <1>9, <2>1, <2>2, CdrdaoDiskMore DEF size, f
  <1>18. r.ok
    BY <1>2, <1>7
  <1> QED
    BY <1>16, <1>17, <1>18 DEF r

\* _sink_free
LEMMA CdrdaoFreeIs ==
    ASSUME NEW flag, NEW files, NEW f, NEW p, NEW k, NEW c, NEW list, f # NoSink.pathname
    PROVE  LET r == CdrdaoFree(CdrdaoObj(flag, OpenAt(f, p), k, c, list), files)
           IN  r.obj = CdrdaoObj(flag, NoSink, k, c, list) /\ r.disk = files /\ r.ok
  <1> DEFINE obj == CdrdaoObj(flag, OpenAt(f, p), k, c, list)
             sink == SinkDestroy([disk |-> files, sink |-> obj.last_bin_snk]).sink
             r == CdrdaoFree(obj, files)
             first == c = 1
  <1>1. r = [obj |-> [obj EXCEPT !.last_bin_snk = sink], disk |-> files, ok |-> obj.last_bin_snk # NoSink]
    BY DEF CdrdaoFree
  <1>2. \A s : CdrdaoObj(flag, s, k, c, list) = CdrdaoStruct(flag, s, PartIndex(k, c), first, list)
    BY CdrdaoObjs
  <1> HIDE DEF r, sink, first
  <1>3. obj.last_bin_snk = OpenAt(f, p)
    BY <1>2, CdrdaoFields
  <1> HIDE DEF obj
  <1>4. sink = SinkDestroy(On(files, OpenAt(f, p))).sink
    BY <1>3 DEF sink, On
  <1>5. sink = On(files, NoSink).sink
    BY <1>4, CloseIs
  <1>6. sink = NoSink
    BY <1>5 DEF On
  <1>7. r.obj = WithLast(obj, sink) /\ r.disk = files
    BY <1>1 DEF WithLast
  <1>8. obj = CdrdaoStruct(flag, OpenAt(f, p), PartIndex(k, c), first, list)
    BY <1>2 DEF obj
  <1>9. r.obj = CdrdaoObj(flag, NoSink, k, c, list)
    BY <1>2, <1>6, <1>7, <1>8, CdrdaoAssigned
  <1>10. OpenAt(f, p).pathname = f
    BY DEF OpenAt
  <1>11. r.ok
    BY <1>1, <1>3, <1>10
  <1> QED
    BY <1>7, <1>9, <1>11 DEF r, obj

-----------------------------------------------------------------------------
(* NRG: where the sectors are in the file.                                 *)

LEMMA SkipsExist ==
    ASSUME NEW d \in Discs
    PROVE  \E f \in [0 .. Len(d.tracks) -> Nat] : SkipsAre(f, d)
  <1> DEFINE m == Len(d.tracks)
             E == [pregap : Nat, length : Nat]
             zero == 0
             seq == [k \in 1 .. m |-> [pregap |-> d.tracks[k].pregap, length |-> zero]]
  <1>1. m \in Nat /\ \A k \in 1 .. m : d.tracks[k].pregap \in Nat
    BY DiscShape
  <1>2. zero \in Nat
    OBVIOUS
  <1>3. seq \in Seq(E) /\ Len(seq) = m /\ \A k \in 1 .. m : seq[k].pregap = d.tracks[k].pregap /\ seq[k].length = 0
    <2>1. \A k \in 1 .. m : seq[k] \in E /\ seq[k].pregap = d.tracks[k].pregap /\ seq[k].length = 0
      BY <1>1, <1>2
    <2>2. seq = [k \in 1 .. m |-> seq[k]]
      OBVIOUS
    <2> HIDE DEF seq, E, m
    <2>3. seq \in [1 .. m -> E]
      BY <2>1, <2>2
    <2>4. seq \in Seq(E) /\ Len(seq) = m
      BY <1>1, <2>3
    <2> QED
      BY <2>1, <2>4
  <1>4. SumInto(Nat, E)
    BY DEF SumInto
  <1> HIDE DEF E, seq, m
  <1>5. PICK run \in [0 .. m -> Nat] : SumRun(run, zero, seq)
    BY <1>2, <1>3, <1>4, SumRuns
  <1>6. /\ run[0] = zero
        /\ \A k \in 1 .. m : run[k] = run[k - 1] + seq[k].pregap + seq[k].length
    BY <1>3, <1>5 DEF SumRun
  <1>7. ASSUME NEW k \in 1 .. m PROVE run[k] = run[k - 1] + d.tracks[k].pregap
    <2>1. run[k] = run[k - 1] + seq[k].pregap + seq[k].length
      BY <1>6
    <2>2. seq[k].pregap = d.tracks[k].pregap /\ seq[k].length = 0
      BY <1>3
    <2>3. run[k - 1] \in Nat /\ d.tracks[k].pregap \in Nat
      BY <1>1, <1>5
    <2> QED
      BY <2>1, <2>2, <2>3
  <1>8. SkipsAre(run, d)
    BY <1>6, <1>7 DEF SkipsAre, m, zero
  <1> QED
    BY <1>5, <1>8 DEF m

\* Where a track's first sector is in the file, in sectors.
Base(d, k) == Start(d, k) - Skip(d)[k]

\* Tracks adjoin in the file.
LEMMA SkipsFit ==
    ASSUME NEW d \in Discs
    PROVE  /\ \A k \in 0 .. Len(d.tracks) : Skip(d)[k] \in Nat /\ Base(d, k) \in Nat
           /\ Skip(d)[0] = 0
           /\ \A k \in 1 .. Len(d.tracks) :
                 /\ Skip(d)[k] = Skip(d)[k - 1] + d.tracks[k].pregap
                 /\ Base(d, k) = Stop(d, k - 1) - Skip(d)[k - 1]
                 /\ Base(d, k - 1) < Base(d, k)
  <1> DEFINE m == Len(d.tracks)
             f == Skip(d)
  <1>1. m \in Nat /\ \A k \in 1 .. m : d.tracks[k].pregap \in Nat
    BY DiscShape
  <1>2. f \in [0 .. m -> Nat] /\ f[0] = 0 /\ \A k \in 1 .. m : f[k] = f[k - 1] + d.tracks[k].pregap
    <2>1. f \in [0 .. m -> Nat] /\ SkipsAre(f, d)
      BY SkipsExist DEF Skip
    <2> QED
      BY <2>1 DEF SkipsAre
  <1>3. /\ Start(d, 0) = 0
        /\ \A k \in 0 .. m : /\ Start(d, k) \in Nat
                             /\ Stop(d, k) \in Nat
                             /\ Start(d, k) < Stop(d, k)
        /\ \A k \in 1 .. m : /\ PregapAt(d, k) = Stop(d, k - 1)
                             /\ Start(d, k) = PregapAt(d, k) + d.tracks[k].pregap
    BY TracksInOrder
  <1>4. ASSUME NEW k \in 1 .. m
        PROVE  Base(d, k) = Stop(d, k - 1) - f[k - 1] /\ Base(d, k - 1) < Base(d, k) /\ Base(d, k - 1) \in Int
    <2>1. k - 1 \in 0 .. m /\ k \in 0 .. m
      BY <1>1
    <2> DEFINE a == Start(d, k)
               b == Stop(d, k - 1)
               g == d.tracks[k].pregap
               s == f[k - 1]
               c == Start(d, k - 1)
    <2>2. a = b + g /\ f[k] = s + g /\ c < b
      BY <1>2, <1>3, <2>1
    <2>3. b \in Nat /\ g \in Nat /\ s \in Nat /\ c \in Nat
      BY <1>1, <1>2, <1>3, <2>1
    <2>4. Base(d, k) = a - f[k] /\ Base(d, k - 1) = c - s
      BY DEF Base
    <2> HIDE DEF a, b, g, s, c, f
    <2>5. a - f[k] = b - s
      BY <2>2, <2>3
    <2>6. Base(d, k) = b - s /\ Base(d, k - 1) < Base(d, k) /\ Base(d, k - 1) \in Int
      BY <2>2, <2>3, <2>4, <2>5
    <2> QED
      BY <2>6 DEF b, s
  <1> DEFINE T == {k \in Nat : k <= m => Base(d, k) \in Nat}
  <1> HIDE DEF f, m
  <1>5. 0 \in T
    BY <1>1, <1>2, <1>3 DEF Base, f
  <1>6. ASSUME NEW k \in Nat, k \in T PROVE k + 1 \in T
    <2> SUFFICES ASSUME k + 1 <= m PROVE Base(d, k + 1) \in Nat
      OBVIOUS
    <2> DEFINE j == k + 1
    <2>1. j \in 1 .. m /\ j - 1 = k /\ j - 1 \in 0 .. m /\ j \in 0 .. m
      BY <1>1
    <2>2. Base(d, k) \in Nat
      BY <1>1, <1>6
    <2> HIDE DEF j
    <2>3. Base(d, k) < Base(d, j) /\ Base(d, j) \in Int
      BY <1>2, <1>3, <1>4, <2>1 DEF Base, f
    <2> QED
      BY <2>2, <2>3 DEF j
  <1> HIDE DEF T
  <1>7. Nat \subseteq T
    BY <1>5, <1>6, NatSetInduction
  <1>8. ASSUME NEW k \in 0 .. m PROVE Base(d, k) \in Nat
    <2>1. k \in Nat /\ k <= m
      BY <1>1
    <2> QED
      BY <1>7, <2>1 DEF T
  <1> QED
    BY <1>2, <1>4, <1>8 DEF f, m

\* Sector l belongs to track k.
InTrack(d, k, l) == k \in 0 .. Len(d.tracks) /\ l \in Start(d, k) .. Stop(d, k) - 1

\* A sector of a later track is behind all of an earlier one.
LEMMA BasesRise ==
    ASSUME NEW d \in Discs, NEW j \in 0 .. Len(d.tracks), NEW k \in 0 .. Len(d.tracks), j < k
    PROVE  Stop(d, j) - Skip(d)[j] <= Base(d, k)
  <1> DEFINE m == Len(d.tracks)
             B(i) == Base(d, i)
             T == {i \in Nat : j + 1 + i <= m => Stop(d, j) - Skip(d)[j] <= B(j + 1 + i)}
  <1>1. m \in Nat
    BY DiscShape
  <1>2. /\ \A i \in 0 .. m : B(i) \in Nat /\ Skip(d)[i] \in Nat
        /\ \A i \in 1 .. m : B(i) = Stop(d, i - 1) - Skip(d)[i - 1] /\ B(i - 1) < B(i)
    BY SkipsFit
  <1> HIDE DEF B, m
  <1>3. j \in Nat /\ k \in Nat /\ j + 1 \in 1 .. m /\ j + 1 - 1 = j
    BY <1>1 DEF m
  <1>4. B(j + 1) = Stop(d, j) - Skip(d)[j]
    BY <1>2, <1>3
  <1>5. 0 \in T
    <2>1. j + 1 + 0 = j + 1 /\ B(j + 1) \in Nat
      BY <1>2, <1>3
    <2> QED
      BY <1>4, <2>1
  <1>6. ASSUME NEW i \in Nat, i \in T PROVE i + 1 \in T
    <2> SUFFICES ASSUME j + 1 + (i + 1) <= m PROVE Stop(d, j) - Skip(d)[j] <= B(j + 1 + (i + 1))
      OBVIOUS
    <2> DEFINE q == j + 1 + (i + 1)
    <2>1. q \in 1 .. m /\ q - 1 = j + 1 + i /\ q - 1 \in 0 .. m /\ q \in 0 .. m /\ j + 1 + i <= m
      BY <1>1, <1>3
    <2>2. Stop(d, j) - Skip(d)[j] <= B(q - 1)
      BY <1>6, <2>1
    <2> HIDE DEF q
    <2>3. B(q - 1) < B(q) /\ B(q - 1) \in Nat /\ B(q) \in Nat
      BY <1>2, <2>1
    <2>4. Stop(d, j) - Skip(d)[j] \in Nat
      BY <1>2, <1>3, <1>4
    <2> QED
      BY <2>2, <2>3, <2>4 DEF q
  <1> HIDE DEF T
  <1>7. Nat \subseteq T
    BY <1>5, <1>6, NatSetInduction
  <1> DEFINE i == k - j - 1
  <1>8. i \in Nat /\ j + 1 + i = k /\ k <= m
    BY <1>1, <1>3 DEF m
  <1> HIDE DEF i
  <1>9. Stop(d, j) - Skip(d)[j] <= B(j + 1 + i)
    BY <1>7, <1>8 DEF T
  <1> QED
    BY <1>8, <1>9 DEF B

\* No two sectors have the same place, and the tail is behind them all.
LEMMA SpotsDiffer ==
    ASSUME NEW d \in Discs, NEW j, NEW l, InTrack(d, j, l)
    PROVE  /\ l - Skip(d)[j] \in Nat
           /\ Spot(d, j, l) \in Nat
           /\ Spot(d, j, l) < TailAt(d)
           /\ \A k, n : InTrack(d, k, n) /\ Spot(d, k, n) = Spot(d, j, l) => k = j /\ n = l
  <1> DEFINE m == Len(d.tracks)
             Place(k, n) == n - Skip(d)[k]
  <1>1. m \in Nat /\ m \in 0 .. m
    BY DiscShape
  <1>2. /\ \A k \in 0 .. m : /\ Start(d, k) \in Nat
                             /\ Stop(d, k) \in Nat
        /\ Stop(d, m) = DiscEnd(d)
    BY TracksInOrder
  <1>3. \A k \in 0 .. m : Skip(d)[k] \in Nat /\ Base(d, k) \in Nat
    BY SkipsFit
  <1>4. ASSUME NEW k, NEW n, InTrack(d, k, n)
        PROVE  /\ k \in 0 .. m /\ n \in Nat /\ k \in Nat
               /\ Place(k, n) \in Nat
               /\ Base(d, k) <= Place(k, n)
               /\ Place(k, n) < Stop(d, k) - Skip(d)[k]
    <2>1. k \in 0 .. m /\ Start(d, k) <= n /\ n < Stop(d, k) /\ n \in Nat /\ k \in Nat
      BY <1>1, <1>2, <1>4 DEF InTrack
    <2>2. Base(d, k) <= Place(k, n) /\ Place(k, n) < Stop(d, k) - Skip(d)[k] /\ Place(k, n) \in Int
      BY <1>2, <1>3, <2>1 DEF Base
    <2>3. Base(d, k) \in Nat
      BY <1>3, <2>1
    <2> QED
      BY <2>1, <2>2, <2>3
  <1> HIDE DEF Place
  <1>5. ASSUME NEW k, NEW n, InTrack(d, k, n), NEW i, NEW h, InTrack(d, i, h), k < i
        PROVE  Place(k, n) < Place(i, h)
    <2>1. Stop(d, k) - Skip(d)[k] <= Base(d, i)
      BY <1>4, <1>5, BasesRise
    <2>2. Stop(d, k) - Skip(d)[k] \in Int /\ Base(d, i) \in Nat
      <3>1. k \in 0 .. m /\ i \in 0 .. m
        BY <1>4, <1>5
      <3>2. Skip(d)[k] \in Nat /\ Stop(d, k) \in Nat /\ Base(d, i) \in Nat
        BY <1>2, <1>3, <3>1
      <3> QED
        BY <3>2
    <2> QED
      BY <1>4, <1>5, <2>1, <2>2
  <1>6. Place(j, l) < DiscEnd(d) - Skip(d)[m]
    <2>1. j \in 0 .. m /\ Place(j, l) < Stop(d, j) - Skip(d)[j] /\ Place(j, l) \in Nat
      BY <1>4
    <2>2. CASE j = m
      BY <1>2, <2>1, <2>2
    <2>3. CASE j # m
      <3>1. j < m
        BY <1>1, <2>1, <2>3
      <3>2. Stop(d, j) - Skip(d)[j] <= Base(d, m)
        BY <1>1, <2>1, <3>1, BasesRise
      <3>3. Base(d, m) < DiscEnd(d) - Skip(d)[m]
        <4>1. Start(d, m) < Stop(d, m)
          BY <1>1, TracksInOrder
        <4> QED
          BY <1>1, <1>2, <1>3, <4>1 DEF Base
      <3>4. Stop(d, j) - Skip(d)[j] \in Int /\ Base(d, m) \in Nat /\ DiscEnd(d) - Skip(d)[m] \in Int
        <4>1. /\ Stop(d, j) \in Nat /\ Skip(d)[j] \in Nat /\ Base(d, m) \in Nat
              /\ Stop(d, m) \in Nat /\ Skip(d)[m] \in Nat /\ Stop(d, m) = DiscEnd(d)
          BY <1>1, <1>2, <1>3, <2>1
        <4> QED
          BY <4>1
      <3> QED
        BY <2>1, <3>2, <3>3, <3>4
    <2> QED
      BY <2>2, <2>3
  <1>7. \A k, n : Spot(d, k, n) = Place(k, n) * M2RAW_SIZE
    BY DEF Spot, Place
  <1>8. M2RAW_SIZE \in Nat \ {0}
    BY CueAssumption
  <1>9. \A a, b \in Nat : a < b => a * M2RAW_SIZE < b * M2RAW_SIZE
    <2> SUFFICES ASSUME NEW a \in Nat, NEW b \in Nat, a < b PROVE a * M2RAW_SIZE < b * M2RAW_SIZE
      OBVIOUS
    <2>1. PICK c \in Nat : b = a + c /\ c # 0
      <3>1. b - a \in Nat /\ b = a + (b - a) /\ b - a # 0
        OBVIOUS
      <3> QED
        BY <3>1
    <2>2. b * M2RAW_SIZE = a * M2RAW_SIZE + c * M2RAW_SIZE
      BY <1>8, <2>1
    <2>3. c * M2RAW_SIZE > 0 /\ a * M2RAW_SIZE \in Nat /\ c * M2RAW_SIZE \in Nat
      BY <1>8, <2>1
    <2> QED
      BY <2>2, <2>3
  <1>10. Place(j, l) \in Nat /\ Spot(d, j, l) \in Nat
    BY <1>4, <1>7, <1>8
  <1>11. Spot(d, j, l) < TailAt(d)
    <2>1. TailAt(d) = Place(m, DiscEnd(d)) * M2RAW_SIZE
      BY <1>7 DEF TailAt
    <2>2. Place(m, DiscEnd(d)) = DiscEnd(d) - Skip(d)[m]
      BY DEF Place
    <2>3. Place(m, DiscEnd(d)) \in Nat /\ Place(j, l) < Place(m, DiscEnd(d))
      <3>1. Place(j, l) < Place(m, DiscEnd(d))
        BY <1>6, <2>2
      <3>2. Place(m, DiscEnd(d)) \in Int
        <4>1. DiscEnd(d) \in Nat /\ Skip(d)[m] \in Nat
          BY <1>1, <1>2, <1>3
        <4> QED
          BY <2>2, <4>1
      <3> QED
        BY <1>10, <3>1, <3>2
    <2> QED
      BY <1>7, <1>9, <1>10, <2>1, <2>3
  <1>12. ASSUME NEW k, NEW n, InTrack(d, k, n), Spot(d, k, n) = Spot(d, j, l)
         PROVE  k = j /\ n = l
    <2>1. Place(k, n) \in Nat /\ Place(j, l) \in Nat /\ k \in Nat /\ j \in Nat /\ n \in Nat /\ l \in Nat
      BY <1>4, <1>12
    <2>2. ~(Place(k, n) < Place(j, l)) /\ ~(Place(j, l) < Place(k, n))
      <3>1. Spot(d, k, n) \in Nat /\ ~(Spot(d, k, n) < Spot(d, j, l)) /\ ~(Spot(d, j, l) < Spot(d, k, n))
        BY <1>10, <1>12
      <3> QED
        BY <1>7, <1>9, <2>1, <3>1
    <2>3. Place(k, n) = Place(j, l)
      BY <2>1, <2>2
    <2>4. ~(k < j) /\ ~(j < k)
      BY <1>5, <1>12, <2>2
    <2>5. k = j
      BY <2>1, <2>4
    <2>6. Skip(d)[j] \in Nat
      BY <1>3, <1>4
    <2> QED
      BY <2>1, <2>3, <2>5, <2>6 DEF Place
  <1> QED
    BY <1>10, <1>11, <1>12 DEF Place

-----------------------------------------------------------------------------
(* NRG: the walk of _map over the cues.                                    *)

MapStates == [result : Int, last : {"none", "pregap", "track", "subindex", "end"}, broken : BOOLEAN]

MapStart(lsn) == [result |-> lsn, last |-> "none", broken |-> FALSE]

\* What a cue does.
LEMMA MapStep ==
    ASSUME NEW s \in MapStates, NEW cue \in CueType, NEW lsn \in Nat
    PROVE  LET r == Mapped(s, cue, lsn)
           IN  /\ r \in MapStates
               /\ s.broken \/ lsn < cue.lsn => r.broken /\ r.last = s.last /\ r.result = s.result
               /\ ~(s.broken \/ lsn < cue.lsn) =>
                     /\ ~r.broken
                     /\ r.last = cue.type
                     /\ r.result = IF cue.type = "track" THEN s.result - cue.lsn
                                   ELSE IF cue.type = "pregap" THEN s.result + cue.lsn
                                   ELSE s.result
  <1> DEFINE r == Mapped(s, cue, lsn)
             type == cue.type
             yes == TRUE
             to == CASE cue.type = "track" -> s.result - cue.lsn
                     [] cue.type = "pregap" -> s.result + cue.lsn
                     [] OTHER -> s.result
  <1>1. s.result \in Int /\ s.last \in {"none", "pregap", "track", "subindex", "end"} /\ s.broken \in BOOLEAN
    BY DEF MapStates
  <1>2. cue.lsn \in Nat /\ type \in {"pregap", "track", "subindex", "end"}
    BY DEF CueType
  <1>3. CASE s.broken \/ lsn < cue.lsn
    <2>1. r = [s EXCEPT !.broken = yes]
      BY <1>3 DEF Mapped
    <2>2. yes \in BOOLEAN /\ yes
      OBVIOUS
    <2> HIDE DEF yes, r
    <2>3. r \in MapStates /\ r.broken = yes /\ r.last = s.last /\ r.result = s.result
      BY <1>1, <2>1, <2>2 DEF MapStates
    <2> QED
      BY <1>3, <2>2, <2>3 DEF r
  <1>4. CASE ~(s.broken \/ lsn < cue.lsn)
    <2>1. r = [s EXCEPT !.last = type, !.result = to]
      BY <1>4 DEF Mapped
    <2>2. to = IF cue.type = "track" THEN s.result - cue.lsn
               ELSE IF cue.type = "pregap" THEN s.result + cue.lsn
               ELSE s.result
      OBVIOUS
    <2>3. to \in Int
      BY <1>1, <1>2, <2>2
    <2> HIDE DEF to, r, type
    <2>4. r \in MapStates /\ r.broken = s.broken /\ r.last = type /\ r.result = to
      BY <1>1, <1>2, <2>1, <2>3 DEF MapStates
    <2> QED
      BY <1>4, <2>2, <2>4 DEF r, type
  <1> QED
    BY <1>3, <1>4

LEMMA MapStays ==
    ASSUME NEW s \in MapStates, NEW cue \in CueType, NEW lsn \in Nat, s.broken \/ lsn < cue.lsn
    PROVE  LET r == Mapped(s, cue, lsn)
           IN  r.broken /\ r.last = s.last /\ r.result = s.result
  BY MapStep

LEMMA MapMoves ==
    ASSUME NEW s \in MapStates, NEW cue \in CueType, NEW lsn \in Nat, ~s.broken, ~(lsn < cue.lsn)
    PROVE  LET r == Mapped(s, cue, lsn)
           IN  /\ ~r.broken
               /\ r.last = cue.type
               /\ r.result = IF cue.type = "track" THEN s.result - cue.lsn
                             ELSE IF cue.type = "pregap" THEN s.result + cue.lsn
                             ELSE s.result
  BY MapStep

MapIs(run, d, n, lsn) ==
    /\ run \in [0 .. n -> MapStates]
    /\ run[0] = MapStart(lsn)
    /\ \A p \in 1 .. n : run[p] = Mapped(run[p - 1], CueList(d)[p], lsn)
    /\ MapOf(MapStart(lsn), CueList(d), lsn) = run[n]

LEMMA MapExists ==
    ASSUME NEW d \in Discs, NEW row, NEW col, NEW n, LaidOut(d, row, col, n), NEW lsn \in Nat
    PROVE  \E run : MapIs(run, d, n, lsn)
  <1>1. CueList(d) \in Seq(CueType) /\ Len(CueList(d)) = n
    BY DEF LaidOut
  <1>2. MapStart(lsn) \in MapStates
    BY DEF MapStart, MapStates
  <1>3. MapInto(MapStates, CueType, lsn)
    <2> SUFFICES ASSUME NEW s \in MapStates, NEW cue \in CueType
                 PROVE  Mapped(s, cue, lsn) \in MapStates
      BY DEF MapInto
    <2> QED
      BY MapStep
  <1> DEFINE start == MapStart(lsn)
  <1> HIDE DEF start
  <1>4. PICK run \in [0 .. Len(CueList(d)) -> MapStates] : MapRun(run, start, CueList(d), lsn)
    BY <1>1, <1>2, <1>3, MapRuns DEF start
  <1> QED
    BY <1>1, <1>4 DEF MapRun, MapIs, start

\* The sector is behind the first entry point of its track.
Passed(d, k, lsn) == Subs(d, k) # <<>> /\ Start(d, k) + Subs(d, k)[1] <= lsn

\* What the walk for sector lsn in part k, c has at a place up to the part's cue, and
\* behind it.
ResultAt(d, row, col, lsn, p) ==
    IF col[p] = 1 THEN lsn - Skip(d)[row[p] - 1] + PregapAt(d, row[p]) ELSE lsn - Skip(d)[row[p]]

UpTo(row, col, k, c, p) == row[p] < k \/ (row[p] = k /\ col[p] <= c)

MapAt(run, d, row, col, lsn, k, c, p) ==
    /\ UpTo(row, col, k, c, p) =>
          /\ ~run[p].broken
          /\ run[p].last = CueList(d)[p].type
          /\ col[p] <= 2 => run[p].result = ResultAt(d, row, col, lsn, p)
          /\ col[p] > 2 => run[p].result = lsn - Skip(d)[row[p]]
    /\ ~UpTo(row, col, k, c, p) =>
          /\ c = 1 => run[p].broken /\ run[p].last = "pregap"
          /\ c = 2 /\ Passed(d, k, lsn) => run[p].last = "subindex" /\ (row[p] > k => run[p].broken)
          /\ c = 2 /\ ~Passed(d, k, lsn) =>
                run[p].broken /\ run[p].last = "track" /\ run[p].result = lsn - Skip(d)[k]

\* What kind of cue is in a column, and where it is.
LEMMA CueSits ==
    ASSUME NEW d \in Discs, NEW row, NEW col, NEW n, LaidOut(d, row, col, n), NEW p \in 1 .. n
    PROVE  LET cue == CueList(d)[p]
           IN  /\ cue \in CueType /\ cue.lsn \in Nat
               /\ row[p] \in Nat /\ col[p] \in Nat \ {0}
               /\ row[p] <= Len(d.tracks) <=> p < n
               /\ col[p] = 1 => /\ row[p] - 1 \in 0 .. Len(d.tracks)
                                /\ cue.lsn = Stop(d, row[p] - 1)
                                /\ p < n => cue.type = "pregap" /\ cue.lsn = PregapAt(d, row[p])
               /\ col[p] = 2 => p < n /\ cue.type = "track" /\ cue.lsn = Start(d, row[p])
               /\ col[p] > 2 => /\ p < n /\ cue.type = "subindex"
                                /\ cue.lsn < Stop(d, row[p])
                                /\ Start(d, row[p]) <= cue.lsn
                                /\ cue.lsn = Start(d, row[p]) + Subs(d, row[p])[col[p] - 2]
                                /\ Subs(d, row[p]) # <<>>
  <1> DEFINE m == Len(d.tracks)
             cue == CueList(d)[p]
             k == row[p]
             e == col[p]
  <1>1. /\ cue \in CueType
        /\ k \in 0 .. m + 1 /\ e \in Nat \ {0}
        /\ k = 0 => e = 2
        /\ p = n <=> k = m + 1
        /\ p < n => e <= LastCol(d, k) /\ LastCol(d, k) \in Nat /\ k <= m
        /\ cue.type = IF p = n THEN "end" ELSE IF e = 1 THEN "pregap"
                      ELSE IF e = 2 THEN "track" ELSE "subindex"
        /\ p = n => cue.lsn = DiscEnd(d) /\ e = 1
        /\ p < n => cue.lsn = IF e = 1 THEN PregapAt(d, k)
                              ELSE IF e = 2 THEN Start(d, k)
                              ELSE Start(d, k) + Subs(d, k)[e - 2]
    BY CueTypes
  <1>2. m \in Nat /\ n \in Nat /\ p \in Nat /\ p <= n
    BY DiscShape DEF LaidOut
  <1>3. cue.lsn \in Nat
    BY <1>1 DEF CueType
  <1>4. /\ \A i \in 1 .. m : PregapAt(d, i) = Stop(d, i - 1)
        /\ Stop(d, m) = DiscEnd(d)
    BY TracksInOrder
  <1> HIDE DEF m, cue, k, e
  <1>5. k \in Nat /\ (k <= m <=> p < n) /\ (p = n \/ p < n)
    BY <1>1, <1>2
  <1>6. CASE e = 1
    <2>1. k # 0 /\ k - 1 \in 0 .. m
      BY <1>1, <1>2, <1>6
    <2>4. k - 1 \in 0 .. m /\ cue.lsn = Stop(d, k - 1) /\ (p < n => cue.type = "pregap" /\ cue.lsn = PregapAt(d, k))
      <3>1. p < n => k \in 1 .. m /\ p # n
        BY <1>1, <1>2, <2>1
      <3>2. p = n => k - 1 = m
        BY <1>1, <1>2
      <3>3. p < n => cue.lsn = PregapAt(d, k) /\ PregapAt(d, k) = Stop(d, k - 1) /\ cue.type = "pregap"
        BY <1>1, <1>4, <1>6, <3>1
      <3>4. p = n => cue.lsn = Stop(d, k - 1)
        BY <1>1, <1>4, <3>2
      <3> QED
        BY <1>5, <2>1, <3>3, <3>4
    <2> QED
      BY <1>1, <1>3, <1>5, <1>6, <2>4 DEF m, cue, k, e
  <1>7. CASE e = 2
    <2>1. p < n /\ p # n /\ cue.type = "track" /\ cue.lsn = Start(d, k)
      BY <1>1, <1>2, <1>5, <1>7
    <2> QED
      BY <1>1, <1>3, <1>5, <1>7, <2>1 DEF m, cue, k, e
  <1>8. CASE e > 2
    <2>1. p < n /\ p # n /\ cue.type = "subindex" /\ cue.lsn = Start(d, k) + Subs(d, k)[e - 2]
      BY <1>1, <1>2, <1>5, <1>8
    <2>2. k \in 0 .. m /\ e <= LastCol(d, k)
      BY <1>1, <1>2, <2>1
    <2>3. /\ Subs(d, k) \in Seq(Nat)
          /\ Start(d, k) \in Nat
          /\ \A i \in DOMAIN Subs(d, k) : Start(d, k) + Subs(d, k)[i] < Stop(d, k)
      BY <2>2, TracksInOrder DEF m
    <2>4. Len(Subs(d, k)) \in Nat /\ DOMAIN Subs(d, k) = 1 .. Len(Subs(d, k))
      BY <2>3, LenProperties
    <2>5. e - 2 \in DOMAIN Subs(d, k)
      BY <1>1, <1>8, <2>2, <2>4 DEF LastCol
    <2>6. Subs(d, k)[e - 2] \in Nat
      BY <2>3, <2>4, <2>5, ElementOfSeq
    <2>7. cue.lsn < Stop(d, k) /\ Start(d, k) <= cue.lsn
      BY <2>1, <2>3, <2>5, <2>6
    <2>8. Subs(d, k) # <<>>
      BY <2>4, <2>5
    <2> QED
      BY <1>1, <1>3, <1>5, <1>8, <2>1, <2>7, <2>8 DEF m, cue, k, e
  <1> QED
    BY <1>1, <1>6, <1>7, <1>8

\* The cues up to the part's are not behind its sectors.
LEMMA CuesBefore ==
    ASSUME NEW d \in Discs, NEW row, NEW col, NEW n, LaidOut(d, row, col, n), NEW p \in 1 .. n,
           NEW lsn \in Nat, NEW k, NEW c, InPart(d, k, c, lsn), UpTo(row, col, k, c, p)
    PROVE  p < n /\ ~(lsn < CueList(d)[p].lsn)
  <1> DEFINE cue == CueList(d)[p]
             m == Len(d.tracks)
  <1>1. /\ cue.lsn \in Nat
        /\ row[p] \in Nat /\ col[p] \in Nat \ {0}
        /\ row[p] <= m <=> p < n
        /\ col[p] = 1 => /\ row[p] - 1 \in 0 .. m
                         /\ cue.lsn = Stop(d, row[p] - 1)
                         /\ p < n => cue.lsn = PregapAt(d, row[p])
        /\ col[p] = 2 => cue.lsn = Start(d, row[p])
        /\ col[p] > 2 => cue.lsn < Stop(d, row[p])
    BY CueSits
  <1>2. IsPart(d, k, c) /\ PartFrom(d, k, c) <= lsn
    BY DEF InPart
  <1>3. /\ k \in 0 .. m /\ k \in Nat /\ c \in {1, 2} /\ PartFrom(d, k, c) \in Nat /\ m \in Nat
    BY <1>2, PartsInOrder, DiscShape DEF IsPart
  <1>4. row[p] < k \/ (row[p] = k /\ col[p] <= c)
    BY DEF UpTo
  <1>5. p < n
    BY <1>1, <1>3, <1>4
  <1>6. \A i \in 0 .. m : /\ Start(d, i) \in Nat
                          /\ Stop(d, i) \in Nat
                          /\ Start(d, i) < Stop(d, i)
    BY TracksInOrder
  <1>7. \A i \in 1 .. m : PregapAt(d, i) < Start(d, i) /\ PregapAt(d, i) \in Nat
    BY TracksInOrder
  <1> HIDE DEF m, cue
  <1>8. CASE row[p] < k
    <2> DEFINE i == row[p]
    <2>1. i \in 0 .. m /\ i < k
      BY <1>1, <1>3, <1>8
    <2>2. IsPart(d, i, 2) /\ PartTo(d, i, 2) = Stop(d, i)
      BY <2>1 DEF IsPart, PartTo, m
    <2>3. Stop(d, i) <= PartFrom(d, k, c)
      BY <1>2, <2>1, <2>2, PartsInOrder
    <2>4. cue.lsn < Stop(d, i)
      <3>1. i > 0 => i \in 1 .. m
        BY <1>3, <2>1
      <3>2. col[p] = 1 => i \in 1 .. m /\ cue.lsn = PregapAt(d, i)
        BY <1>1, <1>3, <1>5, <2>1
      <3>3. col[p] = 2 => cue.lsn = Start(d, i)
        BY <1>1
      <3>4. col[p] > 2 => cue.lsn < Stop(d, i)
        BY <1>1
      <3>5. Start(d, i) \in Nat /\ Stop(d, i) \in Nat /\ Start(d, i) < Stop(d, i)
        BY <1>6, <2>1
      <3>6. col[p] = 1 => PregapAt(d, i) < Start(d, i) /\ PregapAt(d, i) \in Nat
        BY <1>7, <3>2
      <3>7. col[p] = 1 \/ col[p] = 2 \/ col[p] > 2
        BY <1>1
      <3> HIDE DEF i
      <3> QED
        BY <3>2, <3>3, <3>4, <3>5, <3>6, <3>7
    <2>5. Stop(d, i) \in Nat
      BY <1>6, <2>1
    <2> QED
      BY <1>1, <1>2, <1>3, <1>5, <2>3, <2>4, <2>5 DEF cue
  <1>9. CASE row[p] = k /\ col[p] <= c
    <2>1. k # 0 => k \in 1 .. m
      BY <1>3
    <2>2. CASE c = 1
      <3>1. col[p] = 1 /\ cue.lsn = PregapAt(d, k)
        BY <1>1, <1>5, <1>9, <2>2
      <3> QED
        BY <1>1, <1>2, <1>3, <1>5, <2>2, <3>1 DEF PartFrom, cue
    <2>3. CASE c = 2
      <3>1. PartFrom(d, k, c) = Start(d, k)
        BY <2>3 DEF PartFrom
      <3>2. col[p] = 1 => cue.lsn = PregapAt(d, k) /\ k \in 1 .. m
        BY <1>1, <1>3, <1>5, <1>9
      <3>3. col[p] = 2 => cue.lsn = Start(d, k)
        BY <1>1, <1>9
      <3>4. col[p] = 1 \/ col[p] = 2
        BY <1>1, <1>9, <2>3
      <3>5. cue.lsn <= Start(d, k)
        BY <1>1, <1>3, <1>6, <1>7, <3>2, <3>3, <3>4
      <3> QED
        BY <1>1, <1>2, <1>3, <1>5, <3>1, <3>5 DEF cue
    <2> QED
      BY <1>3, <2>2, <2>3
  <1> QED
    BY <1>4, <1>8, <1>9

\* A walk that is up to the part's cue and leaves it has just passed it.
LEMMA LeavesPart ==
    ASSUME NEW d \in Discs, NEW row, NEW col, NEW n, LaidOut(d, row, col, n), NEW p \in 1 .. n - 1,
           NEW k, NEW c, IsPart(d, k, c), NEW q, q = p + 1
    PROVE  /\ UpTo(row, col, k, c, q) => UpTo(row, col, k, c, p)
           /\ UpTo(row, col, k, c, p) /\ ~UpTo(row, col, k, c, q) =>
                 /\ row[p] = k /\ col[p] = c
                 /\ c = 1 => row[q] = k /\ col[q] = 2
                 /\ c = 2 /\ Subs(d, k) # <<>> => row[q] = k /\ col[q] = 3
                 /\ c = 2 /\ Subs(d, k) = <<>> => row[q] = k + 1 /\ col[q] = 1
           /\ ~UpTo(row, col, k, c, p) =>
                 /\ ~UpTo(row, col, k, c, q) /\ row[p] <= row[q]
                 /\ c = 2 /\ row[p] = k => \/ row[q] = k /\ col[q] > 2
                                           \/ row[q] = k + 1 /\ col[q] = 1
  <1>1. IF col[p] < LastCol(d, row[p])
        THEN row[q] = row[p] /\ col[q] = col[p] + 1 /\ q < n
        ELSE row[q] = row[p] + 1 /\ col[q] = 1 /\ col[p] >= 2 /\ col[p] = LastCol(d, row[p])
    BY NextCue
  <1>2. row[p] \in Nat /\ col[p] \in Nat \ {0} /\ row[p] \in 0 .. Len(d.tracks)
    <2>1. p \in 1 .. n /\ p < n
      BY DEF LaidOut
    <2>2. row[p] \in Nat /\ col[p] \in Nat \ {0} /\ (row[p] <= Len(d.tracks) <=> p < n)
      BY <2>1, CueSits
    <2>3. Len(d.tracks) \in Nat
      BY DiscShape
    <2> QED
      BY <2>1, <2>2, <2>3
  <1>3. k \in Nat /\ c \in {1, 2} /\ k \in 0 .. Len(d.tracks)
    BY PartsInOrder DEF IsPart
  <1>4. LastCol(d, k) \in Nat /\ LastCol(d, k) >= 2 /\ (LastCol(d, k) = 2 <=> Subs(d, k) = <<>>)
    <2>1. Subs(d, k) \in Seq(Nat)
      BY <1>3, TracksInOrder
    <2>2. Len(Subs(d, k)) \in Nat /\ (Len(Subs(d, k)) = 0 <=> Subs(d, k) = <<>>)
      BY <2>1, LenProperties, EmptySeq
    <2> QED
      BY <2>2 DEF LastCol
  <1>5. UpTo(row, col, k, c, q) => UpTo(row, col, k, c, p)
    BY <1>1, <1>2, <1>3 DEF UpTo
  <1>6. ASSUME UpTo(row, col, k, c, p), ~UpTo(row, col, k, c, q)
        PROVE  /\ row[p] = k /\ col[p] = c
               /\ c = 1 => row[q] = k /\ col[q] = 2
               /\ c = 2 /\ Subs(d, k) # <<>> => row[q] = k /\ col[q] = 3
               /\ c = 2 /\ Subs(d, k) = <<>> => row[q] = k + 1 /\ col[q] = 1
    <2>1. row[p] < k \/ (row[p] = k /\ col[p] <= c)
      BY <1>6 DEF UpTo
    <2>2. ~(row[q] < k) /\ (row[q] = k => ~(col[q] <= c))
      BY <1>6 DEF UpTo
    <2>3. row[p] = k
      BY <1>1, <1>2, <1>3, <2>1, <2>2
    <2>4. col[p] = c
      BY <1>1, <1>2, <1>3, <1>4, <2>1, <2>2, <2>3
    <2> QED
      BY <1>1, <1>2, <1>3, <1>4, <2>3, <2>4
  <1>7. ASSUME ~UpTo(row, col, k, c, p)
        PROVE  /\ ~UpTo(row, col, k, c, q) /\ row[p] <= row[q]
               /\ c = 2 /\ row[p] = k => \/ row[q] = k /\ col[q] > 2
                                         \/ row[q] = k + 1 /\ col[q] = 1
    <2>1. ~(row[p] < k) /\ (row[p] = k => ~(col[p] <= c))
      BY <1>7 DEF UpTo
    <2>2. row[p] <= row[q]
      BY <1>1, <1>2
    <2>3. c = 2 /\ row[p] = k => (row[q] = k /\ col[q] > 2) \/ (row[q] = k + 1 /\ col[q] = 1)
      BY <1>1, <1>2, <2>1
    <2> QED
      BY <1>5, <1>7, <2>2, <2>3
  <1> QED
    BY <1>5, <1>6, <1>7

\* The result goes from cue to cue.
LEMMA ResultGoes ==
    ASSUME NEW d \in Discs, NEW row, NEW col, NEW n, LaidOut(d, row, col, n), NEW p \in 1 .. n - 1,
           NEW q, q = p + 1, q < n, NEW lsn \in Nat, NEW was, NEW is,
           was = IF col[p] <= 2 THEN ResultAt(d, row, col, lsn, p) ELSE lsn - Skip(d)[row[p]],
           is = IF col[q] = 1 THEN was + PregapAt(d, row[q])
                ELSE IF col[q] = 2 THEN was - Start(d, row[q])
                ELSE was
    PROVE  is = IF col[q] <= 2 THEN ResultAt(d, row, col, lsn, q) ELSE lsn - Skip(d)[row[q]]
  <1> DEFINE m == Len(d.tracks)
  <1>1. IF col[p] < LastCol(d, row[p])
        THEN row[q] = row[p] /\ col[q] = col[p] + 1
        ELSE row[q] = row[p] + 1 /\ col[q] = 1 /\ col[p] >= 2
    BY NextCue
  <1>2. p \in 1 .. n /\ q \in 1 .. n /\ p < n
    BY DEF LaidOut
  <1>3. /\ row[p] \in Nat /\ col[p] \in Nat \ {0} /\ row[p] <= m
        /\ row[q] \in Nat /\ col[q] \in Nat \ {0} /\ row[q] <= m
        /\ col[q] = 1 => row[q] - 1 \in 0 .. m
        /\ col[p] = 1 => row[p] - 1 \in 0 .. m
    BY <1>2, CueSits
  <1>4. m \in Nat
    BY DiscShape
  <1>5. /\ \A k \in 0 .. m : Skip(d)[k] \in Nat
        /\ \A k \in 1 .. m : Skip(d)[k] = Skip(d)[k - 1] + d.tracks[k].pregap
    BY SkipsFit
  <1>6. \A k \in 1 .. m : /\ Start(d, k) = PregapAt(d, k) + d.tracks[k].pregap
                          /\ PregapAt(d, k) \in Nat
                          /\ d.tracks[k].pregap \in Nat
    BY TracksInOrder, DiscShape
  <1> HIDE DEF m
  <1>7. CASE col[q] = 1
    <2>1. row[q] = row[p] + 1 /\ col[p] >= 2
      BY <1>1, <1>3, <1>7
    <2>2. was = lsn - Skip(d)[row[p]]
      BY <1>3, <2>1 DEF ResultAt
    <2>3. row[q] - 1 = row[p]
      BY <1>3, <2>1
    <2>4. is = was + PregapAt(d, row[q])
      BY <1>7
    <2> QED
      BY <1>7, <2>2, <2>3, <2>4 DEF ResultAt
  <1>8. CASE col[q] = 2
    <2>1. row[q] = row[p] /\ col[p] = 1
      BY <1>1, <1>3, <1>8
    <2> DEFINE k == row[p]
    <2>2. k \in 1 .. m /\ k - 1 \in 0 .. m /\ k \in 0 .. m
      BY <1>3, <1>4, <2>1
    <2>3. was = lsn - Skip(d)[k - 1] + PregapAt(d, k)
      BY <2>1 DEF ResultAt
    <2>4. is = was - Start(d, k)
      BY <1>8, <2>1
    <2>5. /\ Skip(d)[k] = Skip(d)[k - 1] + d.tracks[k].pregap
          /\ Start(d, k) = PregapAt(d, k) + d.tracks[k].pregap
          /\ PregapAt(d, k) \in Nat /\ d.tracks[k].pregap \in Nat
          /\ Skip(d)[k] \in Nat /\ Skip(d)[k - 1] \in Nat
      BY <1>5, <1>6, <2>2
    <2>6. is = lsn - Skip(d)[k]
      <3> DEFINE a == Skip(d)[k - 1]
                 b == PregapAt(d, k)
                 g == d.tracks[k].pregap
      <3>1. was = lsn - a + b /\ is = was - (b + g) /\ Skip(d)[k] = a + g
        BY <2>3, <2>4, <2>5
      <3>2. a \in Nat /\ b \in Nat /\ g \in Nat
        BY <2>5
      <3> HIDE DEF a, b, g, k
      <3> QED
        BY <3>1, <3>2
    <2>7. ResultAt(d, row, col, lsn, q) = lsn - Skip(d)[k] /\ col[q] <= 2
      BY <1>8, <2>1 DEF ResultAt
    <2> QED
      BY <2>6, <2>7
  <1>9. CASE col[q] > 2
    <2>1. row[q] = row[p] /\ col[p] >= 2 /\ col[p] # 1
      BY <1>1, <1>3, <1>9
    <2>2. was = lsn - Skip(d)[row[p]]
      BY <2>1 DEF ResultAt
    <2> QED
      BY <1>3, <1>9, <2>1, <2>2
  <1> QED
    BY <1>3, <1>7, <1>8, <1>9

\* One cue of the walk: where it stands, and what it finds.
MapCue(run, d, row, col, n, lsn, k, c, q) ==
    /\ LaidOut(d, row, col, n)
    /\ MapIs(run, d, n, lsn)
    /\ InPart(d, k, c, lsn)
    /\ lsn \in Nat
    /\ q \in 1 .. n

LEMMA MapCueIs ==
    ASSUME NEW d \in Discs, NEW row, NEW col, NEW n, NEW run, NEW lsn, NEW k, NEW c, NEW q,
           MapCue(run, d, row, col, n, lsn, k, c, q)
    PROVE  LET s == run[q - 1]
               cue == CueList(d)[q]
               r == run[q]
           IN  /\ s.broken \/ lsn < cue.lsn => r.broken /\ r.last = s.last /\ r.result = s.result
               /\ ~s.broken /\ ~(lsn < cue.lsn) =>
                     /\ ~r.broken
                     /\ r.last = cue.type
                     /\ r.result = IF cue.type = "track" THEN s.result - cue.lsn
                                   ELSE IF cue.type = "pregap" THEN s.result + cue.lsn
                                   ELSE s.result
  <1> DEFINE s == run[q - 1]
             cue == CueList(d)[q]
             r == run[q]
  <1>1. LaidOut(d, row, col, n) /\ lsn \in Nat /\ q \in 1 .. n
    BY DEF MapCue
  <1>2. s \in MapStates /\ r = Mapped(s, cue, lsn)
    <2>1. q - 1 \in 0 .. n
      BY <1>1 DEF LaidOut
    <2> QED
      BY <1>1, <2>1 DEF MapCue, MapIs
  <1>3. cue \in CueType
    BY <1>1, CueSits
  <1> HIDE DEF s, cue, r
  <1>4. s.broken \/ lsn < cue.lsn => r.broken /\ r.last = s.last /\ r.result = s.result
    BY <1>1, <1>2, <1>3, MapStays
  <1>5. ~s.broken /\ ~(lsn < cue.lsn) =>
           /\ ~r.broken
           /\ r.last = cue.type
           /\ r.result = IF cue.type = "track" THEN s.result - cue.lsn
                         ELSE IF cue.type = "pregap" THEN s.result + cue.lsn
                         ELSE s.result
    BY <1>1, <1>2, <1>3, MapMoves
  <1> QED
    BY <1>4, <1>5 DEF s, cue, r

\* Up to the part's cue.
LEMMA MapUpTo ==
    ASSUME NEW d \in Discs, NEW row, NEW col, NEW n, NEW run, NEW lsn, NEW k, NEW c, NEW q,
           MapCue(run, d, row, col, n, lsn, k, c, q), q # 1,
           MapAt(run, d, row, col, lsn, k, c, q - 1), UpTo(row, col, k, c, q)
    PROVE  MapAt(run, d, row, col, lsn, k, c, q)
  <1> DEFINE p == q - 1
             cue == CueList(d)[q]
  <1>1. LaidOut(d, row, col, n) /\ lsn \in Nat /\ q \in 1 .. n /\ InPart(d, k, c, lsn)
    BY DEF MapCue
  <1>2. n \in Nat /\ p \in 1 .. n - 1 /\ q = p + 1
    BY <1>1 DEF LaidOut
  <1>3. q < n /\ ~(lsn < cue.lsn)
    BY <1>1, CuesBefore
  <1>4. UpTo(row, col, k, c, p)
    <2>1. IsPart(d, k, c)
      BY <1>1 DEF InPart
    <2> HIDE DEF p
    <2> QED
      BY <1>1, <1>2, <2>1, LeavesPart
  <1>5. /\ ~run[p].broken
        /\ col[p] <= 2 => run[p].result = ResultAt(d, row, col, lsn, p)
        /\ col[p] > 2 => run[p].result = lsn - Skip(d)[row[p]]
    BY <1>4 DEF MapAt
  <1>6. /\ ~run[q].broken
        /\ run[q].last = cue.type
        /\ run[q].result = IF cue.type = "track" THEN run[p].result - cue.lsn
                           ELSE IF cue.type = "pregap" THEN run[p].result + cue.lsn
                           ELSE run[p].result
    BY <1>3, <1>5, MapCueIs
  <1>7. /\ col[q] \in Nat \ {0}
        /\ col[q] = 1 => cue.type = "pregap" /\ cue.lsn = PregapAt(d, row[q])
        /\ col[q] = 2 => cue.type = "track" /\ cue.lsn = Start(d, row[q])
        /\ col[q] > 2 => cue.type = "subindex"
    BY <1>1, <1>3, CueSits
  <1>8. col[p] \in Nat \ {0}
    <2>1. p \in 1 .. n
      BY <1>2
    <2> HIDE DEF p
    <2> QED
      BY <1>1, <2>1, CueSits
  <1> DEFINE was == run[p].result
             is == run[q].result
  <1>9. was = IF col[p] <= 2 THEN ResultAt(d, row, col, lsn, p) ELSE lsn - Skip(d)[row[p]]
    BY <1>5, <1>8
  <1>10. is = IF col[q] = 1 THEN was + PregapAt(d, row[q])
              ELSE IF col[q] = 2 THEN was - Start(d, row[q])
              ELSE was
    BY <1>6, <1>7
  <1> HIDE DEF was, is, p
  <1>11. is = IF col[q] <= 2 THEN ResultAt(d, row, col, lsn, q) ELSE lsn - Skip(d)[row[q]]
    BY <1>1, <1>2, <1>3, <1>9, <1>10, ResultGoes
  <1> QED
    BY <1>6, <1>7, <1>11 DEF MapAt, is

\* The first cue behind the part's.
LEMMA MapLeaves ==
    ASSUME NEW d \in Discs, NEW row, NEW col, NEW n, NEW run, NEW lsn, NEW k, NEW c, NEW q,
           MapCue(run, d, row, col, n, lsn, k, c, q), q # 1,
           MapAt(run, d, row, col, lsn, k, c, q - 1),
           UpTo(row, col, k, c, q - 1), ~UpTo(row, col, k, c, q)
    PROVE  MapAt(run, d, row, col, lsn, k, c, q)
  <1> DEFINE p == q - 1
             cue == CueList(d)[q]
  <1>1. LaidOut(d, row, col, n) /\ lsn \in Nat /\ q \in 1 .. n /\ InPart(d, k, c, lsn)
    BY DEF MapCue
  <1>2. n \in Nat /\ p \in 1 .. n - 1 /\ q = p + 1 /\ p \in 1 .. n /\ p < n
    BY <1>1 DEF LaidOut
  <1>3. IsPart(d, k, c) /\ lsn < PartTo(d, k, c)
    BY <1>1 DEF InPart
  <1>4. /\ row[p] = k /\ col[p] = c
        /\ c = 1 => row[q] = k /\ col[q] = 2
        /\ c = 2 /\ Subs(d, k) # <<>> => row[q] = k /\ col[q] = 3
        /\ c = 2 /\ Subs(d, k) = <<>> => row[q] = k + 1 /\ col[q] = 1
    <2> HIDE DEF p
    <2> QED
      BY <1>1, <1>2, <1>3, LeavesPart DEF p
  <1>5. c \in {1, 2} /\ k \in Nat
    BY <1>3, DiscShape DEF IsPart
  <1>6. /\ ~run[p].broken
        /\ run[p].last = CueList(d)[p].type
        /\ run[p].result = ResultAt(d, row, col, lsn, p)
    <2>1. col[p] <= 2
      BY <1>4, <1>5
    <2> QED
      BY <2>1 DEF MapAt
  <1>7. /\ c = 1 => CueList(d)[p].type = "pregap"
        /\ c = 2 => CueList(d)[p].type = "track"
    <2> HIDE DEF p
    <2> QED
      BY <1>1, <1>2, <1>4, CueSits
  <1>8. /\ cue.lsn \in Nat
        /\ col[q] = 1 => cue.lsn = Stop(d, row[q] - 1)
        /\ col[q] = 2 => cue.lsn = Start(d, row[q])
        /\ col[q] > 2 => cue.type = "subindex" /\ cue.lsn = Start(d, row[q]) + Subs(d, row[q])[col[q] - 2]
    BY <1>1, CueSits
  <1>9. CASE c = 1
    <2>1. lsn < cue.lsn
      BY <1>3, <1>4, <1>8, <1>9 DEF PartTo
    <2>2. run[q].broken /\ run[q].last = "pregap"
      BY <1>6, <1>7, <1>9, <2>1, MapCueIs
    <2> QED
      BY <1>9, <2>2 DEF MapAt
  <1>10. CASE c = 2
    <2>1. Passed(d, k, lsn) <=> ~(lsn < cue.lsn)
      <3>1. CASE Subs(d, k) # <<>>
        <4>1. cue.lsn = Start(d, k) + Subs(d, k)[1] /\ cue.lsn \in Nat
          BY <1>4, <1>8, <1>10, <3>1
        <4> QED
          BY <1>1, <3>1, <4>1 DEF Passed
      <3>2. CASE Subs(d, k) = <<>>
        <4>1. row[q] - 1 = k /\ cue.lsn = Stop(d, k)
          BY <1>4, <1>5, <1>8, <1>10, <3>2
        <4> QED
          BY <1>3, <1>10, <3>2, <4>1 DEF Passed, PartTo
      <3> QED
        BY <3>1, <3>2
    <2>2. CASE Passed(d, k, lsn)
      <3>1. run[q].last = "subindex"
        <4>1. cue.type = "subindex"
          BY <1>4, <1>8, <1>10, <2>2 DEF Passed
        <4> QED
          BY <1>6, <2>1, <2>2, <4>1, MapCueIs
      <3>2. ~(row[q] > k)
        BY <1>4, <1>5, <1>10, <2>2 DEF Passed
      <3> QED
        BY <1>10, <2>2, <3>1, <3>2 DEF MapAt
    <2>3. CASE ~Passed(d, k, lsn)
      <3>1. run[q].broken /\ run[q].last = "track" /\ run[q].result = run[p].result
        BY <1>6, <1>7, <1>10, <2>1, <2>3, MapCueIs
      <3>2. run[p].result = lsn - Skip(d)[k]
        BY <1>4, <1>6, <1>10 DEF ResultAt
      <3> QED
        BY <1>10, <2>3, <3>1, <3>2 DEF MapAt
    <2> QED
      BY <2>2, <2>3
  <1> QED
    BY <1>5, <1>9, <1>10

\* Behind it.
LEMMA MapBehind ==
    ASSUME NEW d \in Discs, NEW row, NEW col, NEW n, NEW run, NEW lsn, NEW k, NEW c, NEW q,
           MapCue(run, d, row, col, n, lsn, k, c, q), q # 1,
           MapAt(run, d, row, col, lsn, k, c, q - 1), ~UpTo(row, col, k, c, q - 1)
    PROVE  MapAt(run, d, row, col, lsn, k, c, q)
  <1> DEFINE p == q - 1
             cue == CueList(d)[q]
  <1>1. LaidOut(d, row, col, n) /\ lsn \in Nat /\ q \in 1 .. n /\ InPart(d, k, c, lsn)
    BY DEF MapCue
  <1>2. n \in Nat /\ p \in 1 .. n - 1 /\ q = p + 1 /\ p \in 1 .. n
    BY <1>1 DEF LaidOut
  <1>3. IsPart(d, k, c) /\ lsn < PartTo(d, k, c)
    BY <1>1 DEF InPart
  <1>4. /\ ~UpTo(row, col, k, c, q) /\ row[p] <= row[q]
        /\ c = 2 /\ row[p] = k => \/ row[q] = k /\ col[q] > 2
                                  \/ row[q] = k + 1 /\ col[q] = 1
    <2> HIDE DEF p
    <2> QED
      BY <1>1, <1>2, <1>3, LeavesPart DEF p
  <1>5. c \in {1, 2} /\ k \in Nat /\ row[q] \in Nat /\ cue.lsn \in Nat
    BY <1>1, <1>3, DiscShape, CueSits DEF IsPart
  <1>6. row[p] \in Nat
    <2> HIDE DEF p
    <2> QED
      BY <1>1, <1>2, CueSits
  <1>7. /\ c = 1 => run[p].broken /\ run[p].last = "pregap"
        /\ c = 2 /\ Passed(d, k, lsn) => run[p].last = "subindex" /\ (row[p] > k => run[p].broken)
        /\ c = 2 /\ ~Passed(d, k, lsn) =>
              run[p].broken /\ run[p].last = "track" /\ run[p].result = lsn - Skip(d)[k]
    BY DEF MapAt
  <1>8. run[p].broken => /\ run[q].broken
                         /\ run[q].last = run[p].last
                         /\ run[q].result = run[p].result
    BY MapCueIs
  <1>9. CASE c = 1 \/ ~Passed(d, k, lsn)
    BY <1>4, <1>5, <1>7, <1>8, <1>9 DEF MapAt
  <1>10. CASE c = 2 /\ Passed(d, k, lsn)
    <2>1. run[q].last = "subindex" /\ (row[q] > k => run[q].broken)
      <3>1. CASE run[p].broken
        BY <1>7, <1>8, <1>10, <3>1
      <3>2. CASE ~run[p].broken
        <4>1. row[p] = k
          <5>1. ~(row[p] > k)
            BY <1>7, <1>10, <3>2
          <5> QED
            BY <1>5, <1>6, <5>1 DEF UpTo
        <4>2. CASE row[q] = k /\ col[q] > 2
          <5>1. cue.type = "subindex"
            BY <1>1, <4>2, CueSits
          <5>2. run[q].last = "subindex"
            BY <1>7, <1>10, <5>1, MapCueIs
          <5> QED
            BY <1>5, <4>2, <5>2
        <4>3. CASE row[q] = k + 1 /\ col[q] = 1
          <5>1. cue.lsn = Stop(d, row[q] - 1)
            BY <1>1, <4>3, CueSits
          <5>2. row[q] - 1 = k
            BY <1>5, <4>3
          <5>3. lsn < cue.lsn
            BY <1>3, <1>10, <5>1, <5>2 DEF PartTo
          <5> QED
            BY <1>7, <1>10, <5>3, MapCueIs
        <4> QED
          BY <1>4, <1>10, <4>1, <4>2, <4>3
      <3> QED
        BY <3>1, <3>2
    <2> QED
      BY <1>4, <1>10, <2>1 DEF MapAt
  <1> QED
    BY <1>5, <1>9, <1>10

\* At the first cue.
LEMMA MapFirst ==
    ASSUME NEW d \in Discs, NEW row, NEW col, NEW n, NEW run, NEW lsn, NEW k, NEW c,
           MapCue(run, d, row, col, n, lsn, k, c, 1)
    PROVE  MapAt(run, d, row, col, lsn, k, c, 1)
  <1> DEFINE one == 1
             cue == CueList(d)[one]
  <1>1. LaidOut(d, row, col, n) /\ lsn \in Nat /\ InPart(d, k, c, lsn) /\ MapIs(run, d, n, lsn)
    BY DEF MapCue
  <1>2. row[one] = 0 /\ col[one] = 2 /\ one \in 1 .. n
    BY <1>1 DEF LaidOut
  <1>3. cue.lsn = 0 /\ cue.type = "track"
    <2> HIDE DEF one
    <2>1. cue.lsn = Start(d, row[one]) /\ cue.type = "track"
      BY <1>1, <1>2, CueSits
    <2> QED
      BY <1>2, <2>1, TracksInOrder
  <1>4. run[0].result = lsn /\ ~run[0].broken
    BY <1>1 DEF MapIs, MapStart
  <1>5. ~run[one].broken /\ run[one].last = cue.type /\ run[one].result = lsn
    <2>1. ~(lsn < cue.lsn) /\ lsn - 0 = lsn
      BY <1>1, <1>3
    <2>2. MapCue(run, d, row, col, n, lsn, k, c, one) /\ one - 1 = 0
      OBVIOUS
    <2> HIDE DEF one
    <2> QED
      BY <1>3, <1>4, <2>1, <2>2, MapCueIs
  <1>6. UpTo(row, col, k, c, one)
    <2>1. k \in Nat /\ c \in {1, 2} /\ (k = 0 => c = 2)
      BY <1>1, DiscShape DEF InPart, IsPart
    <2> QED
      BY <1>2, <2>1 DEF UpTo
  <1>7. ResultAt(d, row, col, lsn, one) = lsn
    BY <1>1, <1>2, SkipsFit DEF ResultAt
  <1> QED
    BY <1>2, <1>5, <1>6, <1>7 DEF MapAt

\* At each cue.
LEMMA MapGoes ==
    ASSUME NEW d \in Discs, NEW row, NEW col, NEW n, LaidOut(d, row, col, n), NEW lsn \in Nat,
           NEW run, MapIs(run, d, n, lsn), NEW k, NEW c, InPart(d, k, c, lsn)
    PROVE  \A p \in 1 .. n : MapAt(run, d, row, col, lsn, k, c, p)
  <1> DEFINE A(p) == MapAt(run, d, row, col, lsn, k, c, p)
             T == {p \in Nat : p + 1 <= n => A(p + 1)}
  <1>1. n \in Nat
    BY DEF LaidOut
  <1>2. 0 \in T
    <2>1. 1 <= n => MapCue(run, d, row, col, n, lsn, k, c, 1)
      BY <1>1 DEF MapCue
    <2>2. 1 <= n => A(1)
      BY <2>1, MapFirst
    <2> HIDE DEF A
    <2> QED
      BY <2>2
  <1>3. ASSUME NEW p \in Nat, p \in T PROVE p + 1 \in T
    <2> DEFINE q == p + 2
    <2> SUFFICES ASSUME q <= n PROVE A(q)
      <3> HIDE DEF A
      <3>1. p + 1 + 1 = q /\ p + 1 \in Nat
        OBVIOUS
      <3> QED
        BY <3>1
    <2>1. q \in 1 .. n /\ q # 1 /\ q - 1 = p + 1 /\ q - 1 <= n
      BY <1>1
    <2>2. A(q - 1)
      <3> HIDE DEF A, q
      <3> QED
        BY <1>3, <2>1
    <2> HIDE DEF q
    <2>3. MapCue(run, d, row, col, n, lsn, k, c, q)
      BY <2>1 DEF MapCue
    <2> QED
      BY <2>1, <2>2, <2>3, MapUpTo, MapLeaves, MapBehind
  <1> HIDE DEF T
  <1>4. Nat \subseteq T
    BY <1>2, <1>3, NatSetInduction
  <1>5. ASSUME NEW p \in 1 .. n PROVE A(p)
    <2>1. p - 1 \in Nat /\ p - 1 + 1 = p /\ p <= n
      BY <1>1
    <2>2. p - 1 \in T
      BY <1>4, <2>1
    <2> HIDE DEF A
    <2> QED
      BY <2>1, <2>2 DEF T
  <1> QED
    BY <1>5

\* _map: a sector of a pregap has no place; one of a track has, unless it is behind an
\* entry point.
LEMMA MapFound ==
    ASSUME NEW d \in Discs, NEW obj, obj.vcd_cue_list = CueList(d), obj.cue_end_lsn = DiscEnd(d),
           NEW lsn \in Nat, lsn < DiscEnd(d), NEW k, NEW c, InPart(d, k, c, lsn)
    PROVE  LET map == NrgMap(obj, lsn)
           IN  /\ c = 1 => map.ok /\ map.to = -1
               /\ c = 2 => map.ok <=> ~Passed(d, k, lsn)
               /\ c = 2 /\ ~Passed(d, k, lsn) => map.to = lsn - Skip(d)[k]
               /\ map.ok \in BOOLEAN
  <1> DEFINE n == Len(CueList(d))
             map == NrgMap(obj, lsn)
             s == MapOf(MapStart(lsn), CueList(d), lsn)
  <1>1. PICK row, col : LaidOut(d, row, col, n)
    BY CuesLaidOut
  <1>2. PICK run : MapIs(run, d, n, lsn)
    BY <1>1, MapExists
  <1>3. \A p \in 1 .. n : MapAt(run, d, row, col, lsn, k, c, p)
    BY <1>1, <1>2, MapGoes
  <1>4. n \in Nat /\ n \in 1 .. n /\ row[n] = Len(d.tracks) + 1 /\ Len(d.tracks) \in Nat
    BY <1>1, DiscShape DEF LaidOut
  <1>5. k \in 0 .. Len(d.tracks) /\ c \in {1, 2}
    BY DEF InPart, IsPart
  <1>6. /\ map.ok = (lsn < DiscEnd(d) /\ s.broken /\ s.last \in {"track", "pregap"})
        /\ map.to = IF s.last = "pregap" THEN -1 ELSE s.result
    BY DEF NrgMap, MapOf, MapStart
  <1>7. s = run[n] /\ MapAt(run, d, row, col, lsn, k, c, n)
    BY <1>2, <1>3, <1>4 DEF MapIs
  <1> HIDE DEF n, s, map
  <1>8. ~UpTo(row, col, k, c, n) /\ row[n] > k
    BY <1>4, <1>5 DEF UpTo
  <1>9. /\ c = 1 => s.broken /\ s.last = "pregap"
        /\ c = 2 /\ Passed(d, k, lsn) => s.last = "subindex"
        /\ c = 2 /\ ~Passed(d, k, lsn) => s.broken /\ s.last = "track" /\ s.result = lsn - Skip(d)[k]
    BY <1>7, <1>8 DEF MapAt
  <1>10. s.broken \in BOOLEAN
    BY <1>2, <1>4, <1>7 DEF MapIs, MapStates
  <1> QED
    BY <1>6, <1>9, <1>10 DEF map

-----------------------------------------------------------------------------
(* NRG: what the calls do.                                                 *)

\* The places of the tracks' cues.
TrackPlaces(list) == {p \in DOMAIN list : IsTrack(list[p])}

\* A row has one cue in column 2.
LEMMA TrackPlaceIs ==
    ASSUME NEW d \in Discs, NEW row, NEW col, NEW n, LaidOut(d, row, col, n)
    PROVE  /\ \A p \in 1 .. n : IsTrack(CueList(d)[p]) <=> col[p] = 2
           /\ \A k \in 0 .. Len(d.tracks) : \E p \in 1 .. n - 1 : row[p] = k /\ col[p] = 2
           /\ \A p \in 1 .. n : col[p] = 2 => p < n /\ row[p] \in 0 .. Len(d.tracks)
  <1> DEFINE m == Len(d.tracks)
  <1>0. n \in Nat /\ n >= 2 /\ m \in Nat
    BY DiscShape DEF LaidOut
  <1>1. ASSUME NEW p \in 1 .. n
        PROVE  /\ IsTrack(CueList(d)[p]) <=> col[p] = 2
               /\ col[p] = 2 => p < n /\ row[p] \in 0 .. m
    <2>1. CueList(d)[p].type = IF p = n THEN "end" ELSE IF col[p] = 1 THEN "pregap"
                               ELSE IF col[p] = 2 THEN "track" ELSE "subindex"
      BY CueTypes
    <2>2. (p = n => col[p] = 1) /\ (p < n => row[p] <= m) /\ row[p] \in 0 .. m + 1
      BY CueTypes
    <2> QED
      BY <1>0, <2>1, <2>2 DEF IsTrack
  <1>2. ASSUME NEW k \in 0 .. m PROVE \E p \in 1 .. n - 1 : row[p] = k /\ col[p] = 2
    <2>1. CASE k = 0
      BY <1>0, <2>1 DEF LaidOut
    <2>2. CASE k # 0
      <3>1. k \in 1 .. m /\ 2 \in 1 .. LastCol(d, k)
        <4>1. k \in 1 .. m
          BY <1>0, <2>2
        <4>2. LastCol(d, k) \in Nat /\ LastCol(d, k) >= 2
          BY <4>1, TrackCuesAre
        <4> QED
          BY <4>1, <4>2
      <3> QED
        BY <3>1 DEF LaidOut
    <2> QED
      BY <2>1, <2>2
  <1> QED
    BY <1>1, <1>2

\* There are as many as tracks, with the ISO track.
LEMMA TracksCounted ==
    ASSUME NEW d \in Discs
    PROVE  Cardinality(TrackPlaces(CueList(d))) = Len(d.tracks) + 1
  <1> DEFINE m == Len(d.tracks)
             n == Len(CueList(d))
             S == 0 .. m
             P == TrackPlaces(CueList(d))
  <1>1. PICK row, col : LaidOut(d, row, col, n)
    BY CuesLaidOut
  <1>2. DOMAIN CueList(d) = 1 .. n /\ n \in Nat /\ m \in Nat
    BY <1>1, LenProperties, DiscShape DEF LaidOut
  <1>3. \A p : p \in P <=> p \in 1 .. n /\ col[p] = 2
    BY <1>1, <1>2, TrackPlaceIs DEF TrackPlaces
  <1>4. \A k \in S : \E p \in 1 .. n - 1 : row[p] = k /\ col[p] = 2
    BY <1>1, TrackPlaceIs
  <1>5. \A p \in P : row[p] \in S
    BY <1>1, <1>3, TrackPlaceIs
  <1>6. \A p, q \in P : row[p] = row[q] => p = q
    BY <1>1, <1>3 DEF LaidOut
  <1> DEFINE f == [p \in P |-> row[p]]
  <1> HIDE DEF S, P, n
  <1>7. f \in [P -> S]
    BY <1>5
  <1>8. \A k \in S : \E p \in P : f[p] = k
    <2> SUFFICES ASSUME NEW k \in S PROVE \E p \in P : f[p] = k
      OBVIOUS
    <2>1. PICK p \in 1 .. n - 1 : row[p] = k /\ col[p] = 2
      BY <1>4
    <2>2. p \in P
      BY <1>2, <1>3, <2>1
    <2> QED
      BY <2>1, <2>2
  <1>9. \A p, q \in P : f[p] = f[q] => p = q
    BY <1>6
  <1>10. f \in Bijection(P, S)
    BY <1>7, <1>8, <1>9, Fun_IsBij
  <1>11. ExistsBijection(S, P)
    <2>1. Bijection(S, P) # {}
      BY <1>10, Fun_BijInverse
    <2> QED
      BY <2>1 DEF ExistsBijection
  <1>12. IsFiniteSet(S) /\ Cardinality(S) = m + 1
    <2>1. m \in Int /\ 0 \in Int /\ ~(0 > m) /\ m - 0 + 1 = m + 1
      BY <1>2
    <2> QED
      BY <2>1, FS_Interval DEF S
  <1> QED
    BY <1>11, <1>12, FS_Bijection DEF P

\* The assignments to the sink's struct.
WithNrg(obj, s) == [obj EXCEPT !.nrg_snk = s]
WithInit(obj) == [obj EXCEPT !.init = TRUE, !.nrg_snk = Sink(NrgFile)]
WithTracks(obj, list, tracks, end) ==
    [obj EXCEPT !.vcd_cue_list = list, !.tracks = tracks, !.cue_end_lsn = end]

LEMMA NrgAssigned ==
    ASSUME NEW d, NEW sink, NEW s
    PROVE  /\ WithNrg(NrgObj(sink, d), s) = NrgObj(s, d)
           /\ WithTracks(NrgInit(NrgNew), CueList(d), Len(d.tracks) + 1, DiscEnd(d))
                = NrgObj(Sink(NrgFile), d)
           /\ NrgInit(NrgObj(sink, d)) = NrgObj(sink, d)
  <1> DEFINE Row(x, list, tracks, end, i) ==
               [k \in {"nrg_snk", "vcd_cue_list", "tracks", "cue_end_lsn", "init"} |->
                  CASE k = "nrg_snk" -> x [] k = "vcd_cue_list" -> list [] k = "tracks" -> tracks
                    [] k = "cue_end_lsn" -> end [] k = "init" -> i]
             Obj(x, list, tracks, end, i) ==
               [nrg_snk |-> x, vcd_cue_list |-> list, tracks |-> tracks, cue_end_lsn |-> end,
                init |-> i]
             yes == TRUE
             no == FALSE
             list == CueList(d)
             tracks == Len(d.tracks) + 1
             end == DiscEnd(d)
             none == <<>>
             zero == 0
  <1>1. \A x, l, t, e, i : Obj(x, l, t, e, i) = Row(x, l, t, e, i)
    OBVIOUS
  <1>2. NrgObj(sink, d) = Obj(sink, list, tracks, end, yes) /\ NrgObj(s, d) = Obj(s, list, tracks, end, yes)
        /\ NrgObj(Sink(NrgFile), d) = Obj(Sink(NrgFile), list, tracks, end, yes)
    BY DEF NrgObj
  <1>3. NrgNew = Obj(NoSink, none, zero, zero, no)
    BY DEF NrgNew
  <1> HIDE DEF list, tracks, end, none
  <1>4. [Row(sink, list, tracks, end, yes) EXCEPT !.nrg_snk = s] = Row(s, list, tracks, end, yes)
    OBVIOUS
  <1>5. WithInit(Row(NoSink, none, zero, zero, no)) = Row(Sink(NrgFile), none, zero, zero, yes)
    BY DEF WithInit
  <1>6. \A x : [Row(x, none, zero, zero, yes) EXCEPT !.vcd_cue_list = list, !.tracks = tracks,
                                                     !.cue_end_lsn = end]
                 = Row(x, list, tracks, end, yes)
    OBVIOUS
  <1>7. /\ NrgNew.init = FALSE /\ NrgObj(sink, d).init = TRUE
        /\ \A obj : NrgInit(obj) = IF obj.init THEN obj ELSE WithInit(obj)
    BY DEF NrgNew, NrgObj, NrgInit, WithInit
  <1> HIDE DEF Obj, Row, yes, no, zero
  <1>8. NrgInit(NrgNew) = Row(Sink(NrgFile), none, zero, zero, yes)
    BY <1>1, <1>3, <1>5, <1>7
  <1>9. NrgInit(NrgObj(sink, d)) = NrgObj(sink, d)
    BY <1>7
  <1>10. WithNrg(NrgObj(sink, d), s) = NrgObj(s, d)
    BY <1>1, <1>2, <1>4 DEF WithNrg
  <1>11. WithTracks(NrgInit(NrgNew), list, tracks, end) = NrgObj(Sink(NrgFile), d)
    BY <1>1, <1>2, <1>6, <1>8 DEF WithTracks
  <1> QED
    BY <1>9, <1>10, <1>11 DEF list, tracks, end

LEMMA NrgFields ==
    ASSUME NEW d, NEW sink
    PROVE  LET obj == NrgObj(sink, d)
           IN  /\ obj.nrg_snk = sink
               /\ obj.vcd_cue_list = CueList(d)
               /\ obj.tracks = Len(d.tracks) + 1
               /\ obj.cue_end_lsn = DiscEnd(d)
               /\ obj.init
  BY DEF NrgObj

\* _set_cuesheet
LEMMA NrgSheetIs ==
    ASSUME NEW d \in Discs, NEW files
    PROVE  LET r == NrgSetCuesheet(NrgNew, files, CueList(d))
           IN  /\ r.obj = NrgObj(Sink(NrgFile), d)
               /\ r.disk = files
               /\ r.ok <=> Len(d.tracks) < CD_MAX_TRACKS
  <1> DEFINE list == CueList(d)
             tracks == Cardinality(TrackPlaces(list))
             r == NrgSetCuesheet(NrgNew, files, list)
             o == NrgInit(NrgNew)
  <1>1. /\ r.obj = WithTracks(o, list, tracks, Last(list).lsn)
        /\ r.disk = files
        /\ r.ok <=> tracks <= CD_MAX_TRACKS
    BY DEF NrgSetCuesheet, TrackPlaces, WithTracks
  <1>2. tracks = Len(d.tracks) + 1
    BY TracksCounted
  <1>3. Last(list).lsn = DiscEnd(d)
    <2> DEFINE n == Len(list)
    <2>1. PICK row, col : LaidOut(d, row, col, n)
      BY CuesLaidOut
    <2>2. n \in 1 .. n /\ n = n
      BY <2>1 DEF LaidOut
    <2> HIDE DEF n
    <2>3. list[n].lsn = DiscEnd(d)
      BY <2>1, <2>2, CueTypes
    <2> QED
      BY <2>3 DEF Last, n
  <1> HIDE DEF list, tracks, r, o
  <1>4. r.obj = NrgObj(Sink(NrgFile), d)
    BY <1>1, <1>2, <1>3, NrgAssigned DEF o, list
  <1>5. Len(d.tracks) \in Nat /\ CD_MAX_TRACKS \in Nat
    BY DiscShape, CueAssumption
  <1> QED
    BY <1>1, <1>2, <1>4, <1>5 DEF r, list

\* _sink_free
LEMMA NrgFreeIs ==
    ASSUME NEW d, NEW files, NEW p
    PROVE  LET r == NrgFree(NrgObj(OpenAt(NrgFile, p), d), files)
           IN  r.obj = NrgObj(NoSink, d) /\ r.disk = files /\ r.ok
  <1> DEFINE obj == NrgObj(OpenAt(NrgFile, p), d)
             r == NrgFree(obj, files)
             closed == SinkDestroy(On(files, obj.nrg_snk))
  <1>1. r.obj = WithNrg(obj, closed.sink) /\ r.disk = files /\ r.ok = obj.init
    BY DEF NrgFree, WithNrg, On
  <1>2. obj.nrg_snk = OpenAt(NrgFile, p) /\ obj.init
    BY NrgFields
  <1> HIDE DEF r, closed
  <1>3. closed = On(files, NoSink)
    BY <1>2, CloseIs DEF closed
  <1>4. closed.sink = NoSink
    BY <1>3 DEF On
  <1>5. WithNrg(obj, NoSink) = NrgObj(NoSink, d)
    BY NrgAssigned
  <1> QED
    BY <1>1, <1>2, <1>4, <1>5 DEF r

\* A sector is in one track, and not in a pregap.
LEMMA OneTrack ==
    ASSUME NEW d \in Discs, NEW j, NEW k, NEW l, InTrack(d, j, l), InTrack(d, k, l)
    PROVE  j = k
  <1>1. ASSUME NEW a, NEW b, InTrack(d, a, l), InTrack(d, b, l), a < b PROVE FALSE
    <2>1. a \in 0 .. Len(d.tracks) /\ b \in 0 .. Len(d.tracks)
      BY <1>1 DEF InTrack
    <2>2. /\ Stop(d, a) \in Nat /\ Start(d, b) \in Nat /\ Start(d, a) \in Nat /\ Stop(d, b) \in Nat
          /\ Stop(d, a) < Start(d, b)
      BY <1>1, <2>1, TracksInOrder
    <2> QED
      BY <1>1, <2>2 DEF InTrack
  <1>2. j \in Int /\ k \in Int
    BY DiscShape DEF InTrack
  <1>3. ~(j < k) /\ ~(k < j)
    BY <1>1
  <1> QED
    BY <1>2, <1>3

LEMMA PregapsApart ==
    ASSUME NEW d \in Discs, NEW k, NEW n, InPart(d, k, 1, n), NEW j, InTrack(d, j, n)
    PROVE  FALSE
  <1>1. IsPart(d, k, 1) /\ PartFrom(d, k, 1) <= n /\ n < PartTo(d, k, 1)
    BY DEF InPart
  <1>2. j \in 0 .. Len(d.tracks) /\ n \in Start(d, j) .. Stop(d, j) - 1
    BY DEF InTrack
  <1>3. IsPart(d, j, 2) /\ PartFrom(d, j, 2) = Start(d, j) /\ PartTo(d, j, 2) = Stop(d, j)
    BY <1>2 DEF IsPart, PartFrom, PartTo
  <1>4. /\ PartFrom(d, k, 1) \in Nat /\ PartTo(d, k, 1) \in Nat
        /\ Start(d, j) \in Nat /\ Stop(d, j) \in Nat
        /\ j \in Nat /\ k \in Nat
    BY <1>1, <1>3, PartsInOrder
  <1>5. CASE k < j \/ k = j
    <2>1. 1 < 2
      OBVIOUS
    <2>2. PartTo(d, k, 1) <= Start(d, j)
      BY <1>1, <1>3, <1>5, <2>1, PartsInOrder
    <2> QED
      BY <1>1, <1>2, <1>4, <2>2
  <1>6. CASE j < k
    <2>1. Stop(d, j) <= PartFrom(d, k, 1)
      BY <1>1, <1>3, <1>6, PartsInOrder
    <2> QED
      BY <1>1, <1>2, <1>4, <2>1
  <1> QED
    BY <1>4, <1>5, <1>6

\* The first n sectors of the disc, as far as they have a place, are in a file.
NrgFirst(file, d, n) ==
    /\ Whole(file)
    /\ NrgBody(file, d, n)
    /\ \A o \in DOMAIN file : InBody(d, n, o)

LEMMA NoneFirst ==
    ASSUME NEW d \in Discs
    PROVE  NrgFirst(EmptyFile, d, 0)
  <1>1. Whole(EmptyFile) /\ DOMAIN EmptyFile = {}
    BY DEF Whole, EmptyFile
  <1>2. \A k \in 0 .. Len(d.tracks) : \A l \in Start(d, k) .. Stop(d, k) - 1 : ~(l < 0)
    BY TracksInOrder
  <1> QED
    BY <1>1, <1>2 DEF NrgFirst, NrgBody

\* A sector more.
LEMMA FirstMore ==
    ASSUME NEW d \in Discs, NEW file, NEW n \in Nat, NrgFirst(file, d, n), NEW k, InTrack(d, k, n)
    PROVE  NrgFirst(Put(file, Spot(d, k, n), SectorOf(n, M2RAW_SIZE)), d, n + 1)
  <1> DEFINE at == Spot(d, k, n)
             what == SectorOf(n, M2RAW_SIZE)
             new == Put(file, at, what)
             m == Len(d.tracks)
  <1>1. /\ \A x : x \in DOMAIN new <=> x \in DOMAIN file \/ x = at
        /\ new[at] = what
        /\ \A x \in DOMAIN file : x # at => new[x] = file[x]
        /\ Whole(new)
    BY PutIs
  <1>2. \A j, l : InTrack(d, j, l) /\ Spot(d, j, l) = at => j = k /\ l = n
    BY SpotsDiffer
  <1> HIDE DEF new, what, at
  <1>3. \A o \in DOMAIN new : InBody(d, n + 1, o)
    <2> SUFFICES ASSUME NEW o \in DOMAIN new PROVE InBody(d, n + 1, o)
      OBVIOUS
    <2>1. CASE o = at
      BY <2>1 DEF InBody, InTrack, at
    <2>2. CASE o # at
      <3>1. PICK j, l : InTrack(d, j, l) /\ l < n /\ o = Spot(d, j, l)
        BY <1>1, <2>2 DEF NrgFirst, InBody, InTrack
      <3>2. l \in Int
        BY <3>1, TracksInOrder DEF InTrack
      <3>3. l < n + 1
        BY <3>1, <3>2
      <3> QED
        BY <3>1, <3>3 DEF InBody, InTrack
    <2> QED
      BY <2>1, <2>2
  <1>4. ASSUME NEW j \in 0 .. m, NEW l \in Start(d, j) .. Stop(d, j) - 1, l < n + 1
        PROVE  Spot(d, j, l) \in DOMAIN new /\ new[Spot(d, j, l)] = SectorOf(l, M2RAW_SIZE)
    <2>1. l \in Int /\ (l < n \/ l = n)
      BY <1>4, TracksInOrder
    <2>2. InTrack(d, j, l)
      BY DEF InTrack
    <2>3. CASE l = n
      <3>1. Spot(d, j, l) = at
        <4>1. j = k
          BY <2>2, <2>3, OneTrack
        <4> QED
          BY <2>3, <4>1 DEF at
      <3> QED
        BY <1>1, <2>3, <3>1 DEF what
    <2>4. CASE l < n
      <3>1. Spot(d, j, l) \in DOMAIN file /\ file[Spot(d, j, l)] = SectorOf(l, M2RAW_SIZE)
        BY <2>4 DEF NrgFirst, NrgBody
      <3>2. Spot(d, j, l) # at
        BY <1>2, <2>1, <2>2, <2>4
      <3> QED
        BY <1>1, <3>1, <3>2
    <2> QED
      BY <2>1, <2>3, <2>4
  <1> QED
    BY <1>1, <1>3, <1>4 DEF NrgFirst, NrgBody, new, at, what

\* A sector of a pregap.
LEMMA FirstSkips ==
    ASSUME NEW d \in Discs, NEW file, NEW n \in Nat, NrgFirst(file, d, n), NEW k, InPart(d, k, 1, n)
    PROVE  NrgFirst(file, d, n + 1)
  <1> DEFINE m == Len(d.tracks)
  <1>1. \A o \in DOMAIN file : InBody(d, n + 1, o)
    <2> SUFFICES ASSUME NEW o \in DOMAIN file PROVE InBody(d, n + 1, o)
      OBVIOUS
    <2>1. PICK j, l : InTrack(d, j, l) /\ l < n /\ o = Spot(d, j, l)
      BY DEF NrgFirst, InBody, InTrack
    <2>2. l \in Int
      BY <2>1, TracksInOrder DEF InTrack
    <2>3. l < n + 1
      BY <2>1, <2>2
    <2> QED
      BY <2>1, <2>3 DEF InBody, InTrack
  <1>2. ASSUME NEW j \in 0 .. m, NEW l \in Start(d, j) .. Stop(d, j) - 1, l < n + 1
        PROVE  Spot(d, j, l) \in DOMAIN file /\ file[Spot(d, j, l)] = SectorOf(l, M2RAW_SIZE)
    <2>1. l \in Int /\ (l < n \/ l = n)
      BY <1>2, TracksInOrder
    <2>2. InTrack(d, j, l)
      BY DEF InTrack
    <2>3. l # n
      BY <2>2, PregapsApart
    <2> QED
      BY <2>1, <2>3 DEF NrgFirst, NrgBody
  <1> QED
    BY <1>1, <1>2 DEF NrgFirst, NrgBody

\* The only file of an NRG image, and its stream.
Only(file) == Put(NoFiles, NrgFile, file)
NrgAt(file, p) == On(Only(file), OpenAt(NrgFile, p))

LEMMA OnlyIs ==
    /\ \A file : /\ Whole(Only(file))
                 /\ DOMAIN Only(file) = {NrgFile}
                 /\ Only(file)[NrgFile] = file
    /\ \A file, other : Put(Only(file), NrgFile, other) = Only(other)
    /\ \A files : Whole(files) /\ DOMAIN files = {NrgFile} => files = Only(files[NrgFile])
    /\ Put(NoFiles, NrgFile, EmptyFile) = Only(EmptyFile)
    /\ Whole(NoFiles)
  <1> DEFINE f == NrgFile
  <1> HIDE DEF f
  <1>1. \A file : Whole(Put(NoFiles, f, file)) /\ DOMAIN Put(NoFiles, f, file) = {f} /\ Put(NoFiles, f, file)[f] = file
    BY FirstFile
  <1>2. \A file, other : Put(Put(NoFiles, f, file), f, other) = Put(NoFiles, f, other)
    BY PutAgain
  <1>3. ASSUME NEW files, Whole(files), DOMAIN files = {f} PROVE files = Put(NoFiles, f, files[f])
    <2> DEFINE new == Put(NoFiles, f, files[f])
    <2>1. Whole(new) /\ DOMAIN new = {f} /\ new[f] = files[f]
      BY <1>1
    <2> HIDE DEF new
    <2>2. new = files
      BY <1>3, <2>1 DEF Whole
    <2> QED
      BY <2>2 DEF new
  <1>4. Whole(NoFiles)
    BY DEF Whole, NoFiles
  <1> QED
    BY <1>1, <1>2, <1>3, <1>4 DEF Only, f

\* A write where the stream stands.
LEMMA NrgWrites ==
    ASSUME NEW file, NEW p \in Nat, NEW what, NEW size \in Nat
    PROVE  SinkWrite(NrgAt(file, p), what, size) = NrgAt(Put(file, p, what), p + size)
  <1> DEFINE files == Only(file)
             new == Put(file, p, what)
  <1>1. Whole(files) /\ NrgFile \in DOMAIN files /\ files[NrgFile] = file /\ Put(files, NrgFile, new) = Only(new)
    BY OnlyIs
  <1> HIDE DEF files
  <1>2. SinkWrite(On(files, OpenAt(NrgFile, p)), what, size)
          = On(Put(files, NrgFile, Put(files[NrgFile], p, what)), OpenAt(NrgFile, p + size))
    BY <1>1, WriteIs
  <1> QED
    BY <1>1, <1>2 DEF NrgAt, files

LEMMA NrgSeeks ==
    ASSUME NEW file, NEW p, NEW o
    PROVE  /\ SinkSeek(NrgAt(file, p), o) = NrgAt(file, o)
           /\ SinkSeek(On(NoFiles, Sink(NrgFile)), o) = NrgAt(EmptyFile, o)
  BY SeekIs, OnlyIs DEF NrgAt

\* The tail so far: what was in the file before, and the descriptions of the first tracks.
TailTo(file, base, d, count) ==
    /\ Whole(file)
    /\ \A o \in DOMAIN base : o \in DOMAIN file /\ file[o] = base[o]
    /\ \A k \in 0 .. count - 1 : EtnfAt(d, k) \in DOMAIN file /\ file[EtnfAt(d, k)] = TrackOnDisc(d, k)
    /\ \A o \in DOMAIN file : o \in Nat /\ o < EtnfAt(d, count)

LEMMA TailPlace ==
    ASSUME NEW d \in Discs
    PROVE  /\ TailAt(d) \in Nat
           /\ \A k \in Nat : EtnfAt(d, k) \in Nat /\ EtnfAt(d, k) + ETNF_SIZE = EtnfAt(d, k + 1)
           /\ EtnfAt(d, 0) = TailAt(d) + CHUNK_SIZE
           /\ \A j, k \in Nat : j < k => EtnfAt(d, j) < EtnfAt(d, k)
           /\ \A k \in Nat : TailAt(d) < EtnfAt(d, k)
           /\ \A l : InTrack(d, Len(d.tracks), l) /\ l + 1 = DiscEnd(d) =>
                 TailAt(d) = Spot(d, Len(d.tracks), l) + M2RAW_SIZE
  <1> DEFINE m == Len(d.tracks)
  <1>1. m \in Nat /\ m \in 0 .. m
    BY DiscShape
  <1>2. Stop(d, m) = DiscEnd(d) /\ DiscEnd(d) \in Nat /\ Start(d, m) \in Nat /\ Start(d, m) < DiscEnd(d)
    BY <1>1, TracksInOrder
  <1>3. Base(d, m) \in Nat /\ Skip(d)[m] \in Nat
    BY <1>1, SkipsFit
  <1>4. M2RAW_SIZE \in Nat
    BY CueAssumption
  <1>5. DiscEnd(d) - Skip(d)[m] \in Nat
    BY <1>2, <1>3 DEF Base
  <1>6. TailAt(d) = (DiscEnd(d) - Skip(d)[m]) * M2RAW_SIZE
    BY DEF TailAt, Spot
  <1>7. TailAt(d) \in Nat
    BY <1>4, <1>5, <1>6
  <1>8. ASSUME NEW l, InTrack(d, m, l), l + 1 = DiscEnd(d)
        PROVE  TailAt(d) = Spot(d, m, l) + M2RAW_SIZE
    <2>1. l \in Int /\ l - Skip(d)[m] + 1 = DiscEnd(d) - Skip(d)[m] /\ l - Skip(d)[m] \in Int
      BY <1>2, <1>3, <1>8 DEF InTrack
    <2> DEFINE a == l - Skip(d)[m]
    <2>2. a \in Int /\ DiscEnd(d) - Skip(d)[m] = a + 1
      BY <2>1
    <2> HIDE DEF a
    <2>3. (a + 1) * M2RAW_SIZE = a * M2RAW_SIZE + M2RAW_SIZE
      BY <1>4, <2>2
    <2> QED
      BY <1>6, <2>2, <2>3 DEF Spot, a
  <1>9. \A k \in Nat : EtnfAt(d, k) = TailAt(d) + 8 + k * 20
    BY DEF EtnfAt, CHUNK_SIZE, ETNF_SIZE
  <1> HIDE DEF m
  <1>10. /\ \A k \in Nat : EtnfAt(d, k) \in Nat /\ EtnfAt(d, k) + ETNF_SIZE = EtnfAt(d, k + 1)
         /\ EtnfAt(d, 0) = TailAt(d) + CHUNK_SIZE
         /\ \A j, k \in Nat : j < k => EtnfAt(d, j) < EtnfAt(d, k)
         /\ \A k \in Nat : TailAt(d) < EtnfAt(d, k)
    <2>1. \A k \in Nat : EtnfAt(d, k) \in Nat /\ EtnfAt(d, k) + 20 = EtnfAt(d, k + 1) /\ TailAt(d) < EtnfAt(d, k)
      BY <1>7, <1>9
    <2>2. EtnfAt(d, 0) = TailAt(d) + 8
      BY <1>7, <1>9
    <2>3. \A j, k \in Nat : j < k => EtnfAt(d, j) < EtnfAt(d, k)
      BY <1>7, <1>9
    <2> QED
      BY <2>1, <2>2, <2>3 DEF CHUNK_SIZE, ETNF_SIZE
  <1> QED
    BY <1>7, <1>8, <1>10 DEF m

\* A description more.
LEMMA TailMore ==
    ASSUME NEW d \in Discs, NEW file, NEW base, NEW count \in Nat, TailTo(file, base, d, count)
    PROVE  TailTo(Put(file, EtnfAt(d, count), TrackOnDisc(d, count)), base, d, count + 1)
  <1> DEFINE at == EtnfAt(d, count)
             what == TrackOnDisc(d, count)
             new == Put(file, at, what)
  <1>1. /\ \A x : x \in DOMAIN new <=> x \in DOMAIN file \/ x = at
        /\ new[at] = what
        /\ \A x \in DOMAIN file : x # at => new[x] = file[x]
        /\ Whole(new)
    BY PutIs
  <1>2. at \in Nat /\ at < EtnfAt(d, count + 1) /\ EtnfAt(d, count + 1) \in Nat
    <2>1. count + 1 \in Nat /\ count < count + 1
      OBVIOUS
    <2> QED
      BY <2>1, TailPlace
  <1>3. \A o \in DOMAIN file : o \in Nat /\ o < at
    BY DEF TailTo
  <1> HIDE DEF new, what, at
  <1>4. \A o \in DOMAIN file : o # at /\ o \in DOMAIN new /\ new[o] = file[o]
    <2> SUFFICES ASSUME NEW o \in DOMAIN file PROVE o # at
      BY <1>1
    <2> QED
      BY <1>2, <1>3
  <1>5. \A o \in DOMAIN base : o \in DOMAIN new /\ new[o] = base[o]
    BY <1>4 DEF TailTo
  <1>6. ASSUME NEW k \in 0 .. count + 1 - 1
        PROVE  EtnfAt(d, k) \in DOMAIN new /\ new[EtnfAt(d, k)] = TrackOnDisc(d, k)
    <2>1. k \in 0 .. count - 1 \/ k = count
      OBVIOUS
    <2>2. k \in 0 .. count - 1 => EtnfAt(d, k) \in DOMAIN file /\ file[EtnfAt(d, k)] = TrackOnDisc(d, k)
      BY DEF TailTo
    <2> QED
      BY <1>1, <1>4, <2>1, <2>2 DEF at, what
  <1>7. ASSUME NEW o \in DOMAIN new PROVE o \in Nat /\ o < EtnfAt(d, count + 1)
    BY <1>1, <1>2, <1>3
  <1> QED
    BY <1>1, <1>5, <1>6, <1>7 DEF TailTo, new, at, what


\* The description of a track of a disc without entry points.
LEMMA EtnfIs ==
    ASSUME NEW d \in Discs, NoSubs(d), NEW row, NEW col, NEW n, LaidOut(d, row, col, n),
           NEW sink, NEW p \in 1 .. n, col[p] = 2
    PROVE  Etnf(NrgObj(sink, d), p) = TrackOnDisc(d, row[p])
  <1> DEFINE obj == NrgObj(sink, d)
             k == row[p]
             q == p + 1
             from == CueList(d)[p].lsn
             to == CueList(d)[q].lsn
             at == NrgMap(obj, from).to
  <1>1. n \in Nat /\ p < n /\ from = Start(d, k) /\ k \in 0 .. Len(d.tracks)
    <2>1. n \in Nat
      BY DEF LaidOut
    <2>2. p < n /\ from = Start(d, k)
      BY CueSits
    <2>3. k \in 0 .. Len(d.tracks)
      BY TrackPlaceIs
    <2> QED
      BY <2>1, <2>2, <2>3
  <1>2. /\ Start(d, k) \in Nat /\ Start(d, k) < Stop(d, k)
        /\ Stop(d, k) \in Nat /\ Stop(d, k) <= DiscEnd(d) /\ DiscEnd(d) \in Nat
    BY <1>1, TracksInOrder
  <1>3. p \in 1 .. n - 1 /\ q \in 1 .. n
    BY <1>1
  <1>4. LastCol(d, k) = 2
    <2>1. Subs(d, k) = <<>>
      BY <1>1 DEF NoSubs
    <2> QED
      BY <2>1 DEF LastCol
  <1>5. row[q] = k + 1 /\ col[q] = 1
    BY <1>3, <1>4, NextCue
  <1>6. to = Stop(d, k)
    <2>1. to = Stop(d, row[q] - 1)
      BY <1>3, <1>5, CueSits
    <2>2. row[q] - 1 = k
      BY <1>1, <1>5
    <2> HIDE DEF k, q
    <2> QED
      BY <2>1, <2>2
  <1>7. obj.vcd_cue_list = CueList(d) /\ obj.cue_end_lsn = DiscEnd(d)
    BY NrgFields
  <1>8. InPart(d, k, 2, from) /\ from \in Nat /\ from < DiscEnd(d)
    BY <1>1, <1>2 DEF InPart, IsPart, PartFrom, PartTo
  <1>9. ~Passed(d, k, from)
    BY <1>1 DEF Passed, NoSubs
  <1>10. Etnf(obj, p) = [start_lsn |-> at, start |-> at * M2RAW_SIZE, length |-> (to - from) * M2RAW_SIZE]
    BY <1>7 DEF Etnf
  <1>11. at = from - Skip(d)[k]
    <2> DEFINE two == 2
    <2>1. InPart(d, k, two, from) /\ two = 2
      BY <1>8
    <2> HIDE DEF obj, two, from, k
    <2> QED
      BY <1>7, <1>8, <1>9, <2>1, MapFound
  <1> HIDE DEF obj, at, from, to
  <1> QED
    BY <1>1, <1>6, <1>10, <1>11 DEF TrackOnDisc, Spot, obj

\* The tracks described up to a place.
Counted(row, col, p) == IF p = 0 THEN 0 ELSE TrackNo(row, col, p)

LEMMA CountGoes ==
    ASSUME NEW d \in Discs, NoSubs(d), NEW row, NEW col, NEW n, LaidOut(d, row, col, n),
           NEW p \in 1 .. n
    PROVE  /\ Counted(row, col, p - 1) \in Nat
           /\ IF col[p] = 2
              THEN Counted(row, col, p - 1) = row[p] /\ Counted(row, col, p) = row[p] + 1
              ELSE Counted(row, col, p) = Counted(row, col, p - 1)
  <1> DEFINE q == p - 1
  <1>1. n \in Nat /\ p \in Nat /\ row[1] = 0 /\ col[1] = 2
    BY DEF LaidOut
  <1>2. row[p] \in Nat /\ col[p] \in Nat \ {0}
    BY CueSits
  <1>3. CASE p = 1
    BY <1>1, <1>3 DEF Counted, TrackNo
  <1>4. CASE p # 1
    <2>1. q \in 1 .. n - 1 /\ q \in 1 .. n /\ q + 1 = p /\ q # 0 /\ p # 0
      BY <1>1, <1>4
    <2> HIDE DEF q
    <2>2. row[q] \in Nat /\ col[q] \in Nat \ {0}
      BY <2>1, CueSits
    <2>3. IF col[q] < LastCol(d, row[q])
          THEN row[p] = row[q] /\ col[p] = col[q] + 1
          ELSE row[p] = row[q] + 1 /\ col[p] = 1 /\ col[q] >= 2
      BY <2>1, NextCue
    <2>4. CASE col[p] = 2
      <3>1. row[p] = row[q] /\ col[q] = 1
        BY <2>2, <2>3, <2>4
      <3> QED
        BY <1>2, <2>1, <2>2, <2>4, <3>1 DEF Counted, TrackNo, q
    <2>5. CASE col[p] # 2
      <3>1. TrackNo(row, col, p) = TrackNo(row, col, q) /\ TrackNo(row, col, q) \in Nat
        BY <1>2, <2>2, <2>3, <2>5 DEF TrackNo
      <3> QED
        BY <2>1, <2>5, <3>1 DEF Counted, q
    <2> QED
      BY <2>4, <2>5
  <1> QED
    BY <1>3, <1>4

PlaceBefore(q, p, n) == p \in 1 .. n /\ q = p - 1

\* A cue of the cue sheet.
LEMMA DescribedIs ==
    ASSUME NEW d \in Discs, NoSubs(d), NEW row, NEW col, NEW n, LaidOut(d, row, col, n),
           NEW sink, NEW q, NEW p, PlaceBefore(q, p, n), NEW file, NEW base,
           NEW a, a = Counted(row, col, q), NEW b, b = Counted(row, col, p),
           TailTo(file, base, d, a)
    PROVE  \E new : /\ TailTo(new, base, d, b)
                    /\ Described(NrgAt(file, EtnfAt(d, a)), p, NrgObj(sink, d))
                         = NrgAt(new, EtnfAt(d, b))
  <1> DEFINE obj == NrgObj(sink, d)
             s == NrgAt(file, EtnfAt(d, a))
  <1>0. p \in 1 .. n /\ q = p - 1
    BY DEF PlaceBefore
  <1>1. IsTrack(CueList(d)[p]) <=> col[p] = 2
    BY <1>0, TrackPlaceIs
  <1>2. a \in Nat /\ IF col[p] = 2 THEN a = row[p] /\ b = row[p] + 1 ELSE b = a
    BY <1>0, CountGoes
  <1>3. obj.vcd_cue_list = CueList(d)
    BY NrgFields
  <1>4. Described(s, p, obj) = IF col[p] = 2 THEN SinkWrite(s, Etnf(obj, p), ETNF_SIZE) ELSE s
    BY <1>1, <1>3 DEF Described
  <1>5. TailTo(file, base, d, a)
    OBVIOUS
  <1>6. CASE col[p] # 2
    BY <1>2, <1>4, <1>5, <1>6
  <1>7. CASE col[p] = 2
    <2> DEFINE new == Put(file, EtnfAt(d, a), TrackOnDisc(d, a))
    <2>1. Etnf(obj, p) = TrackOnDisc(d, a)
      BY <1>0, <1>2, <1>7, EtnfIs
    <2>2. TailTo(new, base, d, b)
      BY <1>2, <1>5, <1>7, TailMore
    <2>3. /\ EtnfAt(d, a) \in Nat
          /\ EtnfAt(d, a) + ETNF_SIZE = EtnfAt(d, b)
          /\ ETNF_SIZE \in Nat
      BY <1>2, <1>7, TailPlace DEF ETNF_SIZE
    <2>4. SinkWrite(s, TrackOnDisc(d, a), ETNF_SIZE) = NrgAt(new, EtnfAt(d, b))
      <3> DEFINE p1 == EtnfAt(d, a)
                 what == TrackOnDisc(d, a)
                 size == ETNF_SIZE
      <3> HIDE DEF p1, what, size
      <3>1. SinkWrite(NrgAt(file, p1), what, size) = NrgAt(Put(file, p1, what), p1 + size)
        BY <2>3, NrgWrites DEF p1, size
      <3> QED
        BY <2>3, <3>1 DEF p1, what, size
    <2> HIDE DEF s, new
    <2>5. Described(s, p, obj) = NrgAt(new, EtnfAt(d, b))
      BY <1>4, <1>7, <2>1, <2>4
    <2> QED
      BY <2>2, <2>5 DEF s
  <1> QED
    BY <1>6, <1>7

\* What is in a file.
Values(file) == {file[o] : o \in DOMAIN file}

Nrgs(E) == {NrgAt(file, p) : file \in Texts(E), p \in Nat}

LEMMA TextOf ==
    ASSUME NEW file, Whole(file), \A o \in DOMAIN file : o \in Nat, NEW E, Values(file) \subseteq E
    PROVE  file \in Texts(E)
  <1>1. file \in [DOMAIN file -> E]
    BY DEF Whole, Values
  <1>2. DOMAIN file \in SUBSET Nat
    OBVIOUS
  <1> QED
    BY <1>1, <1>2 DEF Texts

ChunksFrom(base, obj) ==
    FoldLeftDomain(LAMBDA t, k : IF IsTrack(obj.vcd_cue_list[k])
                                 THEN SinkWrite(t, Etnf(obj, k), ETNF_SIZE) ELSE t,
                   base, obj.vcd_cue_list)

\* The fold over the cues describes every track.
LEMMA ChunksAre ==
    ASSUME NEW d \in Discs, NoSubs(d), NEW sink, NEW base, TailTo(base, base, d, 0)
    PROVE  \E file : /\ TailTo(file, base, d, Len(d.tracks) + 1)
                     /\ ChunksFrom(NrgAt(base, EtnfAt(d, 0)), NrgObj(sink, d))
                          = NrgAt(file, EtnfAt(d, Len(d.tracks) + 1))
  <1> DEFINE obj == NrgObj(sink, d)
             list == CueList(d)
             n == Len(list)
             seq == [i \in DOMAIN list |-> i]
             start == NrgAt(base, EtnfAt(d, 0))
             E == Values(base) \cup {Etnf(obj, p) : p \in 1 .. n}
             G == Nrgs(E)
             m == Len(d.tracks)
  <1>1. PICK row, col : LaidOut(d, row, col, n)
    BY CuesLaidOut
  <1>2. n \in Nat /\ n >= 2 /\ DOMAIN list = 1 .. n /\ m \in Nat
    BY <1>1, LenProperties, DiscShape DEF LaidOut
  <1>3. seq \in Seq(1 .. n) /\ Len(seq) = n /\ \A p \in 1 .. n : seq[p] = p
    <2> HIDE DEF n, list
    <2>1. seq = [i \in 1 .. n |-> i]
      BY <1>2
    <2> QED
      BY <1>2, <2>1
  <1>4. ChunksFrom(start, obj) = ChunksOf(start, seq, obj)
    <2>1. obj.vcd_cue_list = list
      BY NrgFields
    <2> HIDE DEF obj
    <2> QED
      BY <2>1 DEF FoldLeftDomain, ChunksOf, ChunksFrom
  <1>5. EtnfAt(d, 0) \in Nat
    BY TailPlace
  <1>6. start \in G
    <2>1. Whole(base) /\ \A o \in DOMAIN base : o \in Nat
      BY DEF TailTo
    <2>2. base \in Texts(E)
      BY <2>1, TextOf
    <2> HIDE DEF E
    <2> QED
      BY <1>5, <2>2 DEF Nrgs
  <1>7. ChunksInto(G, 1 .. n, obj)
    <2> HIDE DEF E, obj
    <2> SUFFICES ASSUME NEW s \in G, NEW p \in 1 .. n PROVE Described(s, p, obj) \in G
      BY DEF ChunksInto
    <2>1. PICK file \in Texts(E), o \in Nat : s = NrgAt(file, o)
      BY DEF Nrgs
    <2> DEFINE what == Etnf(obj, p)
    <2>2. what \in E
      BY DEF E
    <2> HIDE DEF what
    <2>3. Put(file, o, what) \in Texts(E)
      BY <2>2, PutLine
    <2>4. SinkWrite(s, what, ETNF_SIZE) = NrgAt(Put(file, o, what), o + ETNF_SIZE) /\ o + ETNF_SIZE \in Nat
      BY <2>1, NrgWrites DEF ETNF_SIZE
    <2>5. SinkWrite(s, what, ETNF_SIZE) \in G
      BY <2>3, <2>4 DEF Nrgs
    <2> QED
      BY <2>5 DEF Described, what
  <1> HIDE DEF G, E, seq, list, n
  <1>8. PICK run \in [0 .. Len(seq) -> G] : ChunksRun(run, start, seq, obj)
    BY <1>3, <1>6, <1>7, ChunksRuns
  <1>9. /\ run[0] = start
        /\ \A p \in 1 .. n : run[p] = Described(run[p - 1], p, obj)
        /\ ChunksOf(start, seq, obj) = run[n]
    BY <1>3, <1>8 DEF ChunksRun
  <1> DEFINE c(p) == Counted(row, col, p)
             D(p) == \E file : TailTo(file, base, d, c(p)) /\ run[p] = NrgAt(file, EtnfAt(d, c(p)))
             T == {p \in Nat : p <= n => D(p)}
  <1>10. 0 \in T
    <2>1. c(0) = 0
      BY DEF Counted
    <2> HIDE DEF c
    <2> QED
      BY <1>9, <2>1
  <1>11. ASSUME NEW p \in Nat, p \in T PROVE p + 1 \in T
    <2> DEFINE q == p + 1
    <2> SUFFICES ASSUME q <= n PROVE D(q)
      OBVIOUS
    <2>1. q \in 1 .. n /\ q - 1 = p /\ p <= n
      BY <1>2
    <2> HIDE DEF q
    <2>2. PICK file : TailTo(file, base, d, c(p)) /\ run[p] = NrgAt(file, EtnfAt(d, c(p)))
      BY <1>11, <2>1
    <2>6. PlaceBefore(p, q, n)
      BY <2>1 DEF PlaceBefore
    <2>3. c(p) = Counted(row, col, p) /\ c(q) = Counted(row, col, q)
      OBVIOUS
    <2>4. \E new : /\ TailTo(new, base, d, c(q))
                   /\ Described(NrgAt(file, EtnfAt(d, c(p))), q, NrgObj(sink, d))
                        = NrgAt(new, EtnfAt(d, c(q)))
      <3> HIDE DEF c
      <3> QED
        BY <1>1, <2>2, <2>3, <2>6, DescribedIs
    <2>5. run[q] = Described(run[p], q, obj)
      BY <1>9, <2>1
    <2> QED
      BY <2>1, <2>2, <2>4, <2>5
  <1> HIDE DEF T
  <1>12. Nat \subseteq T
    BY <1>10, <1>11, NatSetInduction
  <1>13. D(n)
    BY <1>2, <1>12 DEF T
  <1>14. c(n) = m + 1
    BY <1>1, <1>2 DEF Counted, TrackNo, LaidOut
  <1>15. PICK file : TailTo(file, base, d, m + 1) /\ run[n] = NrgAt(file, EtnfAt(d, m + 1))
    <2> HIDE DEF c, m
    <2> QED
      BY <1>13, <1>14
  <1> QED
    BY <1>4, <1>9, <1>15 DEF list

\* What is put behind a file leaves the rest of it.
Kept(new, file) == \A o \in DOMAIN file : o \in DOMAIN new /\ new[o] = file[o]

LEMMA PutBehind ==
    ASSUME NEW file, NEW p \in Nat, NEW what, \A o \in DOMAIN file : o \in Nat /\ o < p
    PROVE  LET new == Put(file, p, what)
           IN  /\ Whole(new)
               /\ Kept(new, file)
               /\ p \in DOMAIN new /\ new[p] = what
               /\ \A o \in DOMAIN new : o \in Nat /\ o <= p
  <1> DEFINE new == Put(file, p, what)
  <1>1. /\ \A x : x \in DOMAIN new <=> x \in DOMAIN file \/ x = p
        /\ new[p] = what
        /\ \A x \in DOMAIN file : x # p => new[x] = file[x]
        /\ Whole(new)
    BY PutIs
  <1> HIDE DEF new
  <1>2. \A o \in DOMAIN file : o # p
    OBVIOUS
  <1>3. Kept(new, file)
    BY <1>1, <1>2 DEF Kept
  <1>4. \A o \in DOMAIN new : o \in Nat /\ o <= p
    BY <1>1
  <1> QED
    BY <1>1, <1>3, <1>4 DEF new

\* The chunks behind the descriptions.
Closing(new, file, d) ==
    LET rest == EtnfAt(d, Len(d.tracks) + 1)
    IN  /\ Whole(new)
        /\ Kept(new, file)
        /\ rest + 20 \in DOMAIN new
        /\ new[rest + 20] = Chunk("NERO", TailAt(d))
        /\ \A o \in DOMAIN new : o \in Nat /\ o <= rest + 20

LEMMA ClosingIs ==
    ASSUME NEW d \in Discs, NEW file, NEW count,
           \A o \in DOMAIN file : o \in Nat /\ o < EtnfAt(d, Len(d.tracks) + 1)
    PROVE  LET rest == EtnfAt(d, Len(d.tracks) + 1)
               sinf == SinkWrite(NrgAt(file, rest), Chunk("SINF", WORD_SIZE), CHUNK_SIZE)
               number == SinkWrite(sinf, Chunk("tracks", count), WORD_SIZE)
               end1 == SinkWrite(number, Chunk("END1", 0), CHUNK_SIZE)
               nero == SinkWrite(end1, Chunk("NERO", TailAt(d)), CHUNK_SIZE)
           IN  \E new : \E p \in Nat : nero = NrgAt(new, p) /\ Closing(new, file, d)
  <1> DEFINE rest == EtnfAt(d, Len(d.tracks) + 1)
             c1 == Chunk("SINF", WORD_SIZE)
             c2 == Chunk("tracks", count)
             c3 == Chunk("END1", 0)
             c4 == Chunk("NERO", TailAt(d))
             f1 == Put(file, rest, c1)
             f2 == Put(f1, rest + 8, c2)
             f3 == Put(f2, rest + 12, c3)
             f4 == Put(f3, rest + 20, c4)
  <1>1. rest \in Nat
    <2>1. Len(d.tracks) + 1 \in Nat
      BY DiscShape
    <2> QED
      BY <2>1, TailPlace
  <1>2. \A o \in DOMAIN file : o \in Nat /\ o < rest
    OBVIOUS
  <1> HIDE DEF rest, c1, c2, c3, c4
  <1>3. SinkWrite(NrgAt(file, rest), c1, 8) = NrgAt(f1, rest + 8)
    BY <1>1, NrgWrites
  <1>4. Kept(f1, file) /\ \A o \in DOMAIN f1 : o \in Nat /\ o <= rest
    BY <1>1, <1>2, PutBehind
  <1> HIDE DEF f1
  <1>5. SinkWrite(NrgAt(f1, rest + 8), c2, 4) = NrgAt(f2, rest + 12)
    <2>1. rest + 8 \in Nat /\ rest + 8 + 4 = rest + 12 /\ 4 \in Nat
      BY <1>1
    <2> QED
      BY <2>1, NrgWrites
  <1>6. Kept(f2, f1) /\ \A o \in DOMAIN f2 : o \in Nat /\ o <= rest + 8
    <2>1. rest + 8 \in Nat /\ \A o \in DOMAIN f1 : o \in Nat /\ o < rest + 8
      BY <1>1, <1>4
    <2> QED
      BY <2>1, PutBehind
  <1> HIDE DEF f2
  <1>7. SinkWrite(NrgAt(f2, rest + 12), c3, 8) = NrgAt(f3, rest + 20)
    <2>1. rest + 12 \in Nat /\ rest + 12 + 8 = rest + 20 /\ 8 \in Nat
      BY <1>1
    <2> QED
      BY <2>1, NrgWrites
  <1>8. Kept(f3, f2) /\ \A o \in DOMAIN f3 : o \in Nat /\ o <= rest + 12
    <2>1. rest + 12 \in Nat /\ \A o \in DOMAIN f2 : o \in Nat /\ o < rest + 12
      BY <1>1, <1>6
    <2> QED
      BY <2>1, PutBehind
  <1> HIDE DEF f3
  <1>9. SinkWrite(NrgAt(f3, rest + 20), c4, 8) = NrgAt(f4, rest + 28)
    <2>1. rest + 20 \in Nat /\ rest + 20 + 8 = rest + 28 /\ 8 \in Nat
      BY <1>1
    <2> QED
      BY <2>1, NrgWrites
  <1>10. /\ Whole(f4) /\ Kept(f4, f3)
         /\ rest + 20 \in DOMAIN f4 /\ f4[rest + 20] = c4
         /\ \A o \in DOMAIN f4 : o \in Nat /\ o <= rest + 20
    <2>1. rest + 20 \in Nat /\ \A o \in DOMAIN f3 : o \in Nat /\ o < rest + 20
      BY <1>1, <1>8
    <2> QED
      BY <2>1, PutBehind
  <1> HIDE DEF f4
  <1>11. Kept(f4, file)
    BY <1>4, <1>6, <1>8, <1>10 DEF Kept
  <1>12. Closing(f4, file, d)
    BY <1>10, <1>11 DEF Closing, rest, c4
  <1>13. rest + 28 \in Nat
    BY <1>1
  <1>14. SinkWrite(SinkWrite(SinkWrite(SinkWrite(NrgAt(file, rest), c1, 8), c2, 4), c3, 8), c4, 8)
           = NrgAt(f4, rest + 28)
    BY <1>3, <1>5, <1>7, <1>9
  <1> QED
    BY <1>12, <1>13, <1>14 DEF rest, c1, c2, c3, c4, CHUNK_SIZE, WORD_SIZE

\* The offsets of the sectors are before the tail.
LEMMA BodyBefore ==
    ASSUME NEW d \in Discs, NEW n, NEW o, InBody(d, n, o)
    PROVE  o \in Nat /\ o < TailAt(d)
  <1>1. PICK k, l : InTrack(d, k, l) /\ o = Spot(d, k, l)
    BY DEF InBody, InTrack
  <1> QED
    BY <1>1, SpotsDiffer

\* What is behind the sectors when the tail is there.
NrgTailed(new, d) == Whole(new) /\ NrgBody(new, d, DiscEnd(d)) /\ NrgEnd(new, d)

LEMMA TailedIs ==
    ASSUME NEW d \in Discs, NEW first, NrgFirst(first, d, DiscEnd(d)),
           NEW base, base = Put(first, TailAt(d), Chunk("ETNF", (Len(d.tracks) + 1) * ETNF_SIZE)),
           NEW file, TailTo(file, base, d, Len(d.tracks) + 1),
           NEW new, Closing(new, file, d)
    PROVE  NrgTailed(new, d)
  <1> DEFINE m == Len(d.tracks)
             rest == EtnfAt(d, m + 1)
             at == TailAt(d)
             what == Chunk("ETNF", (m + 1) * ETNF_SIZE)
  <1>1. at \in Nat /\ m \in Nat
    BY TailPlace, DiscShape
  <1>2. \A o \in DOMAIN first : o \in Nat /\ o < at
    BY BodyBefore DEF NrgFirst
  <1> HIDE DEF what
  <1>3. base = Put(first, at, what)
    BY DEF what
  <1> HIDE DEF at
  <1>4. Kept(base, first) /\ at \in DOMAIN base /\ base[at] = what
    BY <1>1, <1>2, <1>3, PutBehind
  <1>5. Kept(file, base) /\ \A k \in 0 .. m : EtnfAt(d, k) \in DOMAIN file /\ file[EtnfAt(d, k)] = TrackOnDisc(d, k)
    <2>1. \A k \in 0 .. m : k \in 0 .. m + 1 - 1
      BY <1>1
    <2> QED
      BY <2>1 DEF TailTo, Kept
  <1>6. Kept(new, file) /\ Kept(new, base) /\ Kept(new, first)
    BY <1>4, <1>5 DEF Closing, Kept
  <1>7. NrgBody(new, d, DiscEnd(d))
    BY <1>6 DEF NrgFirst, NrgBody, Kept
  <1>8. at \in DOMAIN new /\ new[at] = what
    BY <1>4, <1>6 DEF Kept
  <1>9. \A k \in 0 .. m : EtnfAt(d, k) \in DOMAIN new /\ new[EtnfAt(d, k)] = TrackOnDisc(d, k)
    BY <1>5, <1>6 DEF Kept
  <1>10. NrgEnd(new, d)
    BY <1>8, <1>9 DEF NrgEnd, Closing, at, what
  <1> QED
    BY <1>7, <1>10 DEF NrgTailed, Closing

\* _write_tail
LEMMA NrgTailIs ==
    ASSUME NEW d \in Discs, NoSubs(d), NEW first, NrgFirst(first, d, DiscEnd(d)), NEW sink, NEW p
    PROVE  \E new : \E o \in Nat : /\ NrgTail(NrgObj(sink, d), NrgAt(first, p), TailAt(d)) = NrgAt(new, o)
                                   /\ NrgTailed(new, d)
  <1> DEFINE obj == NrgObj(sink, d)
             m == Len(d.tracks)
             at == TailAt(d)
             what == Chunk("ETNF", (m + 1) * ETNF_SIZE)
             base == Put(first, at, what)
             head == SinkWrite(SinkSeek(NrgAt(first, p), at), Chunk("ETNF", obj.tracks * ETNF_SIZE), CHUNK_SIZE)
             etnf == ChunksFrom(head, obj)
             sinf == SinkWrite(etnf, Chunk("SINF", WORD_SIZE), CHUNK_SIZE)
             number == SinkWrite(sinf, Chunk("tracks", obj.tracks), WORD_SIZE)
             end1 == SinkWrite(number, Chunk("END1", 0), CHUNK_SIZE)
             nero == SinkWrite(end1, Chunk("NERO", at), CHUNK_SIZE)
  <1>1. obj.vcd_cue_list = CueList(d) /\ obj.tracks = m + 1
    BY NrgFields
  <1>2. NrgTail(obj, NrgAt(first, p), at) = nero
    BY <1>1 DEF NrgTail, ChunksFrom
  <1>3. /\ at \in Nat /\ m \in Nat
        /\ EtnfAt(d, 0) = at + CHUNK_SIZE /\ EtnfAt(d, 0) \in Nat /\ at < EtnfAt(d, 0)
    BY TailPlace, DiscShape
  <1>4. head = NrgAt(base, EtnfAt(d, 0))
    <2> HIDE DEF at
    <2>1. SinkSeek(NrgAt(first, p), at) = NrgAt(first, at)
      BY NrgSeeks
    <2>2. head = SinkWrite(NrgAt(first, at), what, CHUNK_SIZE)
      BY <1>1, <2>1
    <2> HIDE DEF what, head
    <2> QED
      BY <1>3, <2>2, NrgWrites DEF CHUNK_SIZE
  <1>5. \A o \in DOMAIN first : o \in Nat /\ o < at
    BY BodyBefore DEF NrgFirst
  <1>6. TailTo(base, base, d, 0)
    <2> HIDE DEF at, what
    <2>1. Whole(base) /\ \A o \in DOMAIN base : o \in Nat /\ o <= at
      BY <1>3, <1>5, PutBehind
    <2> HIDE DEF base
    <2>2. \A o \in DOMAIN base : o \in Nat /\ o < EtnfAt(d, 0)
      BY <1>3, <2>1
    <2> QED
      BY <2>1, <2>2 DEF TailTo
  <1>7. PICK file : TailTo(file, base, d, m + 1) /\ etnf = NrgAt(file, EtnfAt(d, m + 1))
    <2> HIDE DEF base, head
    <2> QED
      BY <1>4, <1>6, ChunksAre
  <1>8. \A o \in DOMAIN file : o \in Nat /\ o < EtnfAt(d, m + 1)
    BY <1>7 DEF TailTo
  <1> HIDE DEF base, etnf
  <1>9. PICK new : \E o \in Nat : nero = NrgAt(new, o) /\ Closing(new, file, d)
    <2> DEFINE count == obj.tracks
    <2> HIDE DEF count
    <2> QED
      BY <1>7, <1>8, ClosingIs DEF count
  <1>10. NrgTailed(new, d)
    BY <1>7, <1>9, TailedIs DEF base
  <1> QED
    BY <1>2, <1>9, <1>10

LEMMA SubsNone ==
    ASSUME NEW d \in Discs
    PROVE  SubsDone(d, 0) /\ (SubsDone(d, DiscEnd(d)) => NoSubs(d))
  <1>1. \A k \in 0 .. Len(d.tracks) : /\ Start(d, k) \in Nat
                                      /\ Stop(d, k) \in Nat
                                      /\ Start(d, k) < Stop(d, k)
                                      /\ Stop(d, k) <= DiscEnd(d)
    BY TracksInOrder
  <1>2. \A k \in 0 .. Len(d.tracks) : ~(Stop(d, k) <= 0)
    BY <1>1
  <1> QED
    BY <1>1, <1>2 DEF SubsDone, NoSubs

LEMMA SubsGo ==
    ASSUME NEW d \in Discs, NEW n \in Nat, SubsDone(d, n), NEW k, NEW c, InPart(d, k, c, n),
           c = 2 => ~Passed(d, k, n)
    PROVE  SubsDone(d, n + 1)
  <1> SUFFICES ASSUME NEW j \in 0 .. Len(d.tracks), Stop(d, j) <= n + 1 PROVE Subs(d, j) = <<>>
    BY DEF SubsDone
  <1>1. /\ Start(d, j) \in Nat /\ Stop(d, j) \in Nat /\ Start(d, j) < Stop(d, j)
        /\ Subs(d, j) \in Seq(Nat)
        /\ \A e \in DOMAIN Subs(d, j) : Start(d, j) + Subs(d, j)[e] < Stop(d, j)
    BY TracksInOrder
  <1>2. CASE Stop(d, j) <= n
    BY <1>2 DEF SubsDone
  <1>3. CASE ~(Stop(d, j) <= n)
    <2>1. Stop(d, j) = n + 1 /\ n \in Start(d, j) .. Stop(d, j) - 1
      BY <1>1, <1>3
    <2>2. InTrack(d, j, n)
      BY <2>1 DEF InTrack
    <2>3. IsPart(d, k, c) /\ PartFrom(d, k, c) <= n /\ n < PartTo(d, k, c)
      BY DEF InPart
    <2>4. c = 2
      <3>1. c # 1
        BY <2>2, PregapsApart
      <3> QED
        BY <2>3, <3>1 DEF IsPart
    <2>5. InTrack(d, k, n)
      <3>1. k \in 0 .. Len(d.tracks) /\ Start(d, k) <= n /\ n < Stop(d, k)
        BY <2>3, <2>4 DEF IsPart, PartFrom, PartTo
      <3>2. Start(d, k) \in Nat /\ Stop(d, k) \in Nat
        BY <3>1, TracksInOrder
      <3> QED
        BY <3>1, <3>2 DEF InTrack
    <2>6. j = k
      BY <2>2, <2>5, OneTrack
    <2> SUFFICES ASSUME Subs(d, j) # <<>> PROVE FALSE
      OBVIOUS
    <2>7. Len(Subs(d, j)) \in Nat /\ DOMAIN Subs(d, j) = 1 .. Len(Subs(d, j)) /\ Len(Subs(d, j)) # 0
      BY <1>1, LenProperties, EmptySeq
    <2>8. 1 \in DOMAIN Subs(d, j)
      BY <2>7
    <2>9. Subs(d, j)[1] \in Nat
      BY <1>1, <2>7, <2>8, ElementOfSeq
    <2>10. Start(d, j) + Subs(d, j)[1] <= n
      BY <1>1, <2>1, <2>8, <2>9
    <2> QED
      BY <2>4, <2>6, <2>10 DEF Passed
  <1> QED
    BY <1>2, <1>3

\* Its stream, when it is sought.
NrgSought(obj, files, d, n, file) ==
    /\ NrgFirst(file, d, n)
    /\ \A o : SinkSeek(On(files, obj.nrg_snk), o) = NrgAt(file, o)
    /\ n > 0 => files = Only(file)

LEMMA NrgSeekIs ==
    ASSUME NEW d \in Discs, NEW n \in Nat, n < DiscEnd(d), NEW obj, NEW files,
           NrgBefore(obj, files, d, n)
    PROVE  /\ \E sink : obj = NrgObj(sink, d)
           /\ \E file : NrgSought(obj, files, d, n, file)
  <1>1. CASE n = 0
    <2>1. files = NoFiles /\ obj = NrgObj(Sink(NrgFile), d)
      BY <1>1 DEF NrgBefore
    <2>2. obj.nrg_snk = Sink(NrgFile)
      BY <2>1, NrgFields
    <2>3. NrgFirst(EmptyFile, d, n)
      BY <1>1, NoneFirst
    <2>4. \A o : SinkSeek(On(files, obj.nrg_snk), o) = NrgAt(EmptyFile, o)
      <3>1. \A o : SinkSeek(On(NoFiles, Sink(NrgFile)), o) = NrgAt(EmptyFile, o)
        BY NrgSeeks
      <3> QED
        BY <2>1, <2>2, <3>1
    <2> QED
      BY <1>1, <2>1, <2>3, <2>4 DEF NrgSought
  <1>2. CASE n # 0
    <2> DEFINE file == files[NrgFile]
    <2>1. n > 0
      BY <1>2
    <2>2. /\ Whole(files) /\ DOMAIN files = {NrgFile}
          /\ Whole(file) /\ NrgBody(file, d, n)
          /\ \A o \in DOMAIN file : InBody(d, n, o)
      <3>1. n # DiscEnd(d)
        OBVIOUS
      <3> QED
        BY <2>1, <3>1 DEF NrgBefore, NrgDisk
    <2>3. PICK p \in Nat : obj = NrgObj(OpenAt(NrgFile, p), d)
      BY <2>1 DEF NrgBefore
    <2>4. obj.nrg_snk = OpenAt(NrgFile, p)
      BY <2>3, NrgFields
    <2>5. files = Only(file)
      BY <2>2, OnlyIs
    <2>6. NrgFirst(file, d, n)
      BY <2>2 DEF NrgFirst
    <2> HIDE DEF file
    <2>7. On(files, OpenAt(NrgFile, p)) = NrgAt(file, p)
      BY <2>5 DEF NrgAt
    <2>8. \A o : SinkSeek(On(files, obj.nrg_snk), o) = NrgAt(file, o)
      <3>1. \A o : SinkSeek(NrgAt(file, p), o) = NrgAt(file, o)
        BY NrgSeeks
      <3> QED
        BY <2>4, <2>7, <3>1
    <2> QED
      BY <2>3, <2>5, <2>6, <2>8 DEF NrgSought
  <1> QED
    BY <1>1, <1>2

\* The calls that change nothing.
LEMMA NrgStays ==
    ASSUME NEW d \in Discs, NEW n \in Nat, n < DiscEnd(d), NEW files, NEW obj,
           NrgBefore(obj, files, d, n), NEW k, InPart(d, k, 1, n)
    PROVE  NrgBefore(obj, files, d, n + 1)
  <1>1. IsPart(d, k, 1) /\ PartFrom(d, k, 1) <= n /\ n < PartTo(d, k, 1)
    BY DEF InPart
  <1>2. k \in 1 .. Len(d.tracks) /\ PregapAt(d, k) <= n /\ n < Start(d, k)
    <2>1. k # 0
      BY <1>1 DEF IsPart
    <2> QED
      BY <1>1, <2>1, DiscShape DEF IsPart, PartFrom, PartTo
  <1>3. PregapAt(d, k) \in Nat \ {0} /\ k \in 0 .. Len(d.tracks)
    BY <1>2, TracksInOrder, DiscShape
  <1>4. Start(d, k) < DiscEnd(d) /\ Start(d, k) \in Nat /\ DiscEnd(d) \in Nat
    <2>1. /\ Start(d, k) \in Nat /\ Stop(d, k) \in Nat /\ DiscEnd(d) \in Nat
          /\ Start(d, k) < Stop(d, k) /\ Stop(d, k) <= DiscEnd(d)
      BY <1>3, TracksInOrder
    <2> QED
      BY <2>1
  <1>5. n > 0 /\ n + 1 > 0 /\ n + 1 # 0 /\ n # DiscEnd(d) /\ n + 1 # DiscEnd(d)
    BY <1>2, <1>3, <1>4
  <1>6. PICK file : NrgSought(obj, files, d, n, file)
    BY NrgSeekIs
  <1>7. files = Only(file) /\ NrgFirst(file, d, n)
    BY <1>5, <1>6 DEF NrgSought
  <1>8. NrgFirst(file, d, n + 1)
    BY <1>7, FirstSkips
  <1>9. NrgDisk(files, d, n + 1)
    <2>1. Whole(Only(file)) /\ DOMAIN Only(file) = {NrgFile} /\ Only(file)[NrgFile] = file
      BY OnlyIs
    <2> QED
      BY <1>5, <1>7, <1>8, <2>1 DEF NrgDisk, NrgFirst
  <1>10. SubsDone(d, n + 1)
    <2> DEFINE one == 1
    <2>1. InPart(d, k, one, n) /\ one # 2 /\ SubsDone(d, n)
      BY DEF NrgBefore
    <2> HIDE DEF one
    <2> QED
      BY <2>1, SubsGo
  <1> QED
    BY <1>5, <1>9, <1>10 DEF NrgBefore

\* What is on the disk behind sector n of a track.
NrgLeft(files, d, n) ==
    \E new : /\ files = Only(new)
             /\ IF n + 1 = DiscEnd(d) THEN NrgTailed(new, d) ELSE NrgFirst(new, d, n + 1)

LEMMA NrgLeftIs ==
    ASSUME NEW d \in Discs, NEW n \in Nat, NEW files, NrgLeft(files, d, n), NEW p \in Nat,
           SubsDone(d, n + 1)
    PROVE  NrgBefore(NrgObj(OpenAt(NrgFile, p), d), files, d, n + 1)
  <1>1. PICK new : /\ files = Only(new)
                   /\ IF n + 1 = DiscEnd(d) THEN NrgTailed(new, d) ELSE NrgFirst(new, d, n + 1)
    BY DEF NrgLeft
  <1>2. Whole(Only(new)) /\ DOMAIN Only(new) = {NrgFile} /\ Only(new)[NrgFile] = new
    BY OnlyIs
  <1>3. NrgDisk(files, d, n + 1)
    BY <1>1, <1>2 DEF NrgDisk, NrgTailed, NrgFirst
  <1>4. n + 1 # 0
    OBVIOUS
  <1> QED
    BY <1>3, <1>4 DEF NrgBefore

\* The writes of _vcd_image_nrg_write for a sector with a place.
NrgOut(obj, files, n, to) ==
    LET sector == SinkWrite(SinkSeek(On(files, obj.nrg_snk), to * M2RAW_SIZE),
                            SectorOf(n, M2RAW_SIZE), M2RAW_SIZE)
    IN  IF n = obj.cue_end_lsn - 1 THEN NrgTail(obj, sector, (to + 1) * M2RAW_SIZE) ELSE sector

LEMMA NrgOutIs ==
    ASSUME NEW d \in Discs, NEW n \in Nat, n < DiscEnd(d), NEW sink, NEW files,
           NrgBefore(NrgObj(sink, d), files, d, n), NEW k, InPart(d, k, 2, n), ~Passed(d, k, n),
           NEW to, to = n - Skip(d)[k]
    PROVE  \E left : \E p \in Nat : /\ NrgOut(NrgObj(sink, d), files, n, to) = On(left, OpenAt(NrgFile, p))
                                    /\ NrgLeft(left, d, n)
  <1> DEFINE obj == NrgObj(sink, d)
             at == Spot(d, k, n)
             what == SectorOf(n, M2RAW_SIZE)
             sector == SinkWrite(SinkSeek(On(files, obj.nrg_snk), to * M2RAW_SIZE), what, M2RAW_SIZE)
             m == Len(d.tracks)
  <1>1. PICK file : NrgSought(obj, files, d, n, file)
    BY NrgSeekIs
  <1>2. NrgFirst(file, d, n) /\ \A o : SinkSeek(On(files, obj.nrg_snk), o) = NrgAt(file, o)
    BY <1>1 DEF NrgSought
  <1>3. k \in 0 .. m /\ Start(d, k) <= n /\ n < Stop(d, k)
    BY DEF InPart, IsPart, PartFrom, PartTo
  <1>4. Start(d, k) \in Nat /\ Stop(d, k) \in Nat
    BY <1>3, TracksInOrder
  <1>5. InTrack(d, k, n)
    BY <1>3, <1>4 DEF InTrack
  <1>6. at \in Nat /\ to \in Nat
    BY <1>5, SpotsDiffer
  <1>7. to * M2RAW_SIZE = at
    BY DEF Spot
  <1>8. M2RAW_SIZE \in Nat
    BY CueAssumption
  <1> DEFINE new == Put(file, at, what)
             p == at + M2RAW_SIZE
  <1>9. sector = NrgAt(new, p)
    <2> DEFINE size == M2RAW_SIZE
    <2>1. SinkSeek(On(files, obj.nrg_snk), at) = NrgAt(file, at)
      BY <1>2
    <2> HIDE DEF at, what, obj
    <2>2. sector = SinkWrite(NrgAt(file, at), what, size)
      BY <1>7, <2>1
    <2> HIDE DEF sector, size
    <2>3. SinkWrite(NrgAt(file, at), what, size) = NrgAt(Put(file, at, what), at + size)
      BY <1>6, <1>8, NrgWrites DEF size
    <2> QED
      BY <2>2, <2>3 DEF size
  <1>10. NrgFirst(new, d, n + 1)
    BY <1>2, <1>5, FirstMore
  <1>11. p \in Nat
    BY <1>6, <1>8
  <1>12. obj.cue_end_lsn = DiscEnd(d) /\ DiscEnd(d) \in Nat
    BY NrgFields, TracksInOrder
  <1>13. NrgOut(obj, files, n, to)
           = IF n + 1 = DiscEnd(d) THEN NrgTail(obj, sector, (to + 1) * M2RAW_SIZE) ELSE sector
    <2>1. n = DiscEnd(d) - 1 <=> n + 1 = DiscEnd(d)
      BY <1>12
    <2> HIDE DEF obj
    <2> QED
      BY <1>12, <2>1 DEF NrgOut
  <1> HIDE DEF sector, new
  <1>14. CASE n + 1 # DiscEnd(d)
    <2>1. NrgLeft(Only(new), d, n)
      BY <1>10, <1>14 DEF NrgLeft
    <2>2. NrgOut(obj, files, n, to) = On(Only(new), OpenAt(NrgFile, p))
      BY <1>9, <1>13, <1>14 DEF NrgAt
    <2> QED
      BY <1>11, <2>1, <2>2
  <1>15. CASE n + 1 = DiscEnd(d)
    <2>1. k = m
      <3>1. InTrack(d, m, n)
        <4>1. m \in 0 .. m
          BY DiscShape
        <4>2. Stop(d, m) = DiscEnd(d) /\ Start(d, m) \in Nat /\ Start(d, m) < Stop(d, m)
          BY <4>1, TracksInOrder
        <4> QED
          BY <1>15, <4>1, <4>2 DEF InTrack
      <3> QED
        BY <1>5, <3>1, OneTrack
    <2>2. (to + 1) * M2RAW_SIZE = TailAt(d)
      <3>1. TailAt(d) = at + M2RAW_SIZE
        BY <1>5, <1>15, <2>1, TailPlace
      <3> DEFINE size == M2RAW_SIZE
      <3>2. size \in Nat /\ to \in Nat
        BY <1>6, <1>8
      <3> HIDE DEF size
      <3>3. (to + 1) * size = to * size + size
        BY <3>2
      <3> QED
        BY <1>7, <3>1, <3>3 DEF size
    <2>3. NoSubs(d)
      <3>1. SubsDone(d, n + 1)
        <4> DEFINE two == 2
        <4>1. InPart(d, k, two, n) /\ SubsDone(d, n)
          BY DEF NrgBefore
        <4> HIDE DEF two
        <4> QED
          BY <4>1, SubsGo
      <3> QED
        BY <1>15, <3>1, SubsNone
    <2>4. NrgFirst(new, d, DiscEnd(d))
      BY <1>10, <1>15
    <2>5. PICK done : \E o \in Nat : /\ NrgTail(obj, NrgAt(new, p), TailAt(d)) = NrgAt(done, o)
                                     /\ NrgTailed(done, d)
      <3> HIDE DEF p
      <3> QED
        BY <2>3, <2>4, NrgTailIs
    <2>6. PICK o \in Nat : NrgTail(obj, NrgAt(new, p), TailAt(d)) = NrgAt(done, o) /\ NrgTailed(done, d)
      BY <2>5
    <2>7. NrgOut(obj, files, n, to) = On(Only(done), OpenAt(NrgFile, o))
      BY <1>9, <1>13, <1>15, <2>2, <2>6 DEF NrgAt
    <2>8. NrgLeft(Only(done), d, n)
      BY <1>15, <2>6 DEF NrgLeft
    <2> QED
      BY <2>7, <2>8
  <1> QED
    BY <1>14, <1>15

HasPlace(map) == map.ok /\ map.to # -1

LEMMA NrgWriteForm ==
    ASSUME NEW d, NEW sink, NEW files, NEW n, NEW obj, obj = NrgObj(sink, d)
    PROVE  LET r == NrgWrite(obj, files, n)
               map == NrgMap(obj, n)
               out == NrgOut(obj, files, n, map.to)
           IN  /\ HasPlace(map) => /\ r.obj = WithNrg(obj, out.sink)
                                   /\ r.disk = out.disk
                                   /\ r.ok
               /\ ~HasPlace(map) => r.obj = obj /\ r.disk = files /\ r.ok = map.ok
  <1> DEFINE r == NrgWrite(obj, files, n)
             map == NrgMap(obj, n)
             out == NrgOut(obj, files, n, map.to)
  <1>1. NrgInit(obj) = obj
    BY NrgAssigned
  <1>2. r = IF map.ok /\ map.to # -1
            THEN [obj |-> WithNrg(obj, out.sink), disk |-> out.disk, ok |-> TRUE]
            ELSE [obj |-> obj, disk |-> files, ok |-> map.ok]
    BY <1>1 DEF NrgWrite, NrgOut, On, SectorOf, WithNrg
  <1> HIDE DEF r, out, map
  <1>3. HasPlace(map) => r.obj = WithNrg(obj, out.sink) /\ r.disk = out.disk /\ r.ok
    BY <1>2 DEF HasPlace
  <1>4. ~HasPlace(map) => r.obj = obj /\ r.disk = files /\ r.ok = map.ok
    BY <1>2 DEF HasPlace
  <1> QED
    BY <1>3, <1>4 DEF r, out, map

\* _vcd_image_nrg_write: it fails only behind an entry point, and changes nothing then.
LEMMA NrgWriteIs ==
    ASSUME NEW d \in Discs, NEW files, NEW n \in Nat, n < DiscEnd(d), NEW obj,
           NrgBefore(obj, files, d, n)
    PROVE  LET r == NrgWrite(obj, files, n)
           IN  /\ r.ok \in BOOLEAN
               /\ r.ok => NrgBefore(r.obj, r.disk, d, n + 1)
               /\ ~r.ok => r.obj = obj /\ r.disk = files /\ HasEntries(d)
  <1> DEFINE r == NrgWrite(obj, files, n)
             map == NrgMap(obj, n)
             out == NrgOut(obj, files, n, map.to)
  <1>1. PICK sink : obj = NrgObj(sink, d)
    BY NrgSeekIs
  <1>2. /\ HasPlace(map) => r.obj = WithNrg(obj, out.sink) /\ r.disk = out.disk /\ r.ok
        /\ ~HasPlace(map) => r.obj = obj /\ r.disk = files /\ r.ok = map.ok
    BY <1>1, NrgWriteForm
  <1>3. PICK k, c : InPart(d, k, c, n)
    BY PartExists
  <1>4. obj.vcd_cue_list = CueList(d) /\ obj.cue_end_lsn = DiscEnd(d)
    BY <1>1, NrgFields
  <1>5. /\ c = 1 => map.ok /\ map.to = -1
        /\ c = 2 => map.ok <=> ~Passed(d, k, n)
        /\ c = 2 /\ ~Passed(d, k, n) => map.to = n - Skip(d)[k]
        /\ map.ok \in BOOLEAN
    BY <1>3, <1>4, MapFound
  <1>6. c \in {1, 2} /\ k \in 0 .. Len(d.tracks)
    BY <1>3 DEF InPart, IsPart
  <1> HIDE DEF r, map, out
  <1>7. CASE c = 1
    <2>1. r.obj = obj /\ r.disk = files /\ r.ok = TRUE
      BY <1>2, <1>5, <1>7 DEF HasPlace
    <2>2. NrgBefore(obj, files, d, n + 1)
      BY <1>3, <1>7, NrgStays
    <2> QED
      BY <2>1, <2>2 DEF r
  <1>8. CASE c = 2 /\ Passed(d, k, n)
    <2>1. r.obj = obj /\ r.disk = files /\ r.ok = FALSE
      BY <1>2, <1>5, <1>8 DEF HasPlace
    <2>2. HasEntries(d)
      <3>1. Subs(d, k) # <<>>
        BY <1>8 DEF Passed
      <3>2. k # 0 /\ d.tracks[k].entries # <<>>
        BY <3>1 DEF Subs
      <3>3. k \in DOMAIN d.tracks
        BY <1>6, <3>2, DiscShape
      <3> QED
        BY <3>2, <3>3 DEF HasEntries
    <2> QED
      BY <2>1, <2>2 DEF r
  <1>9. CASE c = 2 /\ ~Passed(d, k, n)
    <2>1. map.to = n - Skip(d)[k] /\ map.to \in Nat
      <3>1. IsPart(d, k, 2) /\ Start(d, k) <= n /\ n < Stop(d, k)
        BY <1>3, <1>9 DEF InPart, PartFrom, PartTo
      <3>2. Start(d, k) \in Nat /\ Stop(d, k) \in Nat
        BY <1>6, TracksInOrder
      <3>3. InTrack(d, k, n)
        BY <1>6, <3>1, <3>2 DEF InTrack
      <3> QED
        BY <1>5, <1>9, <3>3, SpotsDiffer
    <2>2. map.to # -1
      BY <2>1
    <2>3. r.obj = WithNrg(obj, out.sink) /\ r.disk = out.disk /\ r.ok = TRUE
      BY <1>2, <1>5, <1>9, <2>2 DEF HasPlace
    <2>4. PICK left : \E p \in Nat : out = On(left, OpenAt(NrgFile, p)) /\ NrgLeft(left, d, n)
      BY <1>1, <1>3, <1>9, <2>1, NrgOutIs DEF out
    <2>5. PICK p \in Nat : out = On(left, OpenAt(NrgFile, p)) /\ NrgLeft(left, d, n)
      BY <2>4
    <2>6. out.sink = OpenAt(NrgFile, p) /\ out.disk = left
      BY <2>5 DEF On
    <2>7. r.obj = NrgObj(OpenAt(NrgFile, p), d)
      BY <1>1, <2>3, <2>6, NrgAssigned
    <2>8. SubsDone(d, n + 1)
      BY <1>3, <1>9, SubsGo DEF NrgBefore
    <2>9. NrgBefore(r.obj, r.disk, d, n + 1)
      BY <2>3, <2>5, <2>6, <2>7, <2>8, NrgLeftIs
    <2> QED
      BY <2>3, <2>9 DEF r
  <1> QED
    BY <1>6, <1>7, <1>8, <1>9
-----------------------------------------------------------------------------
(* The invariant is inductive.                                             *)

Frame ==
    /\ disc \in Discs
    /\ next \in 0 .. DiscEnd(disc)
    /\ phase \in {"new", "refused", "writing", "exited", "failed", "done"}

\* What a step leaves alone, and what it does where it is not a call of one sink.
LEMMA StepFrame ==
    ASSUME Frame, Next
    PROVE  /\ kind' = kind
           /\ disc' = disc
           /\ Frame'
  <1>1. DiscEnd(disc) \in Nat \ {0}
    BY TracksInOrder DEF Frame
  <1>2. kind' = kind /\ disc' = disc
    BY DEF Next, SetArg, SetCuesheet, Write, Destroy, GiveUp, Does
  <1>3. next' \in 0 .. DiscEnd(disc)
    BY <1>1 DEF Frame, Next, SetArg, SetCuesheet, Write, Destroy, GiveUp, Does
  <1>4. phase' \in {"new", "refused", "writing", "exited", "failed", "done"}
    BY DEF Frame, Next, SetArg, SetCuesheet, Write, Destroy, GiveUp, Does
  <1> QED
    BY <1>2, <1>3, <1>4 DEF Frame

\* The first assignment of a sink's argument.
WithFlag(obj, flag) == [obj EXCEPT !.sector_2336_flag = flag]

BinCueStruct(flag, init, bin, cue) ==
    [sector_2336_flag |-> flag, init |-> init, bin_snk |-> bin, cue_snk |-> cue]

LEMMA FlagIs ==
    ASSUME NEW old, NEW flag
    PROVE  /\ WithFlag(BinCueIdle(old), flag) = BinCueIdle(flag)
           /\ \A list : WithFlag(CdrdaoIdle(old, list), flag) = CdrdaoIdle(flag, list)
  <1> DEFINE Keys == {"sector_2336_flag", "init", "bin_snk", "cue_snk"}
             Row(f, i, a, b) == [k \in Keys |-> CASE k = "sector_2336_flag" -> f [] k = "init" -> i
                                                 [] k = "bin_snk" -> a [] k = "cue_snk" -> b]
             no == FALSE
  <1>1. WithFlag(BinCueIdle(old), flag) = BinCueIdle(flag)
    <2>1. \A f : BinCueIdle(f) = BinCueStruct(f, no, NoSink, NoSink)
      BY Zenon DEF BinCueIdle, BinCueStruct
    <2> HIDE DEF no
    <2>3. \A f, i, a, b : BinCueStruct(f, i, a, b) = Row(f, i, a, b)
      BY DEF BinCueStruct
    <2>2. [Row(old, no, NoSink, NoSink) EXCEPT !.sector_2336_flag = flag] = Row(flag, no, NoSink, NoSink)
      OBVIOUS
    <2> HIDE DEF Row
    <2> QED
      BY <2>1, <2>2, <2>3 DEF WithFlag
  <1>2. ASSUME NEW list
        PROVE  WithFlag(CdrdaoIdle(old, list), flag) = CdrdaoIdle(flag, list)
    <2> DEFINE Fields == {"sector_2336_flag", "last_bin_snk", "last_snk_idx", "last_pause", "vcd_cue_list"}
               Line(f, a, b, c, e) == [k \in Fields |->
                                     CASE k = "sector_2336_flag" -> f [] k = "last_bin_snk" -> a
                                       [] k = "last_snk_idx" -> b [] k = "last_pause" -> c
                                       [] k = "vcd_cue_list" -> e]
    <2>1. \A f : CdrdaoIdle(f, list) = CdrdaoStruct(f, NoSink, 0, no, list)
      BY CdrdaoObjs
    <2> HIDE DEF no
    <2>3. \A f, a, b, c, e : CdrdaoStruct(f, a, b, c, e) = Line(f, a, b, c, e)
      BY DEF CdrdaoStruct
    <2>2. [Line(old, NoSink, 0, no, list) EXCEPT !.sector_2336_flag = flag] = Line(flag, NoSink, 0, no, list)
      OBVIOUS
    <2> HIDE DEF Line
    <2> QED
      BY <2>1, <2>2, <2>3 DEF WithFlag
  <1> QED
    BY <1>1, <1>2

LEMMA BinCueStep ==
    ASSUME Frame, kind = "bincue", NEW flag \in BOOLEAN, BinCueInv(flag), Next
    PROVE  \E new \in BOOLEAN : BinCueInv(new)'
  <1>1. disc' = disc /\ disc \in Discs /\ next \in 0 .. DiscEnd(disc)
    BY StepFrame DEF Frame
  <1>2. DiscEnd(disc) \in Nat \ {0} /\ next \in Nat
    BY <1>1, TracksInOrder
  <1>3. ASSUME NEW value \in {"2336", "2352", "other"}, SetArg(value)
        PROVE  \E new \in BOOLEAN : BinCueInv(new)'
    <2>1. phase = "new" /\ next = 0 /\ disk = NoFiles /\ user_data = BinCueIdle(flag)
      BY <1>3 DEF SetArg, BinCueInv
    <2>2. UNCHANGED <<disk, next>>
      BY <1>3 DEF SetArg
    <2>3. CASE user_data' = WithFlag(user_data, value = "2336") /\ phase' = phase
      <3>1. user_data' = BinCueIdle(value = "2336")
        BY <2>1, <2>3, FlagIs
      <3> DEFINE new == value = "2336"
      <3>2. new \in BOOLEAN /\ BinCueInv(new)'
        BY <2>1, <2>2, <2>3, <3>1 DEF BinCueInv
      <3> QED
        BY <3>2
    <2>4. CASE phase' = "refused" /\ user_data' = user_data
      BY <2>1, <2>2, <2>4 DEF BinCueInv
    <2> QED
      BY <1>3, <2>3, <2>4 DEF SetArg, WithFlag
  <1>4. CASE SetCuesheet
    <2> DEFINE r == BinCueSetCuesheet(user_data, disk, CueList(disc))
    <2>1. phase = "new" /\ next = 0 /\ disk = NoFiles /\ user_data = BinCueIdle(flag)
      BY <1>4 DEF SetCuesheet, BinCueInv
    <2>2. /\ r.obj = BinCueObj(flag, Sink(BinFile), Sink(CueFile))
          /\ r.ok <=> FewEntries(disc)
          /\ BinCueDisk(r.disk, disc, Size(flag), 0)
      BY <1>1, <2>1, BinCueSheetIs
    <2>3. /\ user_data' = r.obj /\ disk' = r.disk /\ next' = next
          /\ phase' = IF r.ok THEN "writing" ELSE "failed"
      BY <1>4 DEF SetCuesheet, Does
    <2> HIDE DEF r
    <2>4. CASE FewEntries(disc)
      BY <1>1, <2>1, <2>2, <2>3, <2>4 DEF BinCueInv
    <2>5. CASE ~FewEntries(disc)
      <3>1. BinFile \notin DOMAIN disk'
        BY <2>2, <2>3, FilesDiffer DEF BinCueDisk
      <3> QED
        BY <1>1, <2>1, <2>2, <2>3, <2>5, <3>1 DEF BinCueInv
    <2> QED
      BY <2>4, <2>5
  <1>5. CASE Write
    <2> DEFINE bin == IF next = 0 THEN Sink(BinFile) ELSE OpenAt(BinFile, next * Size(flag))
               r == BinCueWrite(user_data, disk, next)
    <2>1. /\ phase = "writing" /\ FewEntries(disc) /\ BinCueDisk(disk, disc, Size(flag), next)
          /\ user_data = BinCueObj(flag, bin, Sink(CueFile))
      BY <1>5 DEF Write, BinCueInv
    <2>2. (next = 0 => bin = Sink(BinFile)) /\ (next > 0 => bin = OpenAt(BinFile, next * Size(flag)))
      BY <1>2
    <2>3. /\ user_data' = r.obj /\ disk' = r.disk /\ next' = next + 1
          /\ phase' = IF r.ok THEN "writing" ELSE "failed"
      BY <1>5 DEF Write, Does
    <2> HIDE DEF bin
    <2>4. /\ r.obj = BinCueObj(flag, OpenAt(BinFile, (next + 1) * Size(flag)), Sink(CueFile))
          /\ r.ok
          /\ BinCueDisk(r.disk, disc, Size(flag), next + 1)
      BY <1>1, <1>2, <2>1, <2>2, BinCueWriteIs
    <2> HIDE DEF r
    <2>5. next' # 0
      BY <1>2, <2>3
    <2> QED
      BY <1>1, <2>1, <2>3, <2>4, <2>5 DEF BinCueInv
  <1>6. CASE Destroy
    <2> DEFINE bin == OpenAt(BinFile, next * Size(flag))
               r == BinCueFree(user_data, disk)
    <2>1. /\ phase = "writing" /\ FewEntries(disc) /\ BinCueDisk(disk, disc, Size(flag), next)
          /\ user_data = BinCueObj(flag, bin, Sink(CueFile)) /\ next = DiscEnd(disc)
      BY <1>2, <1>6 DEF Destroy, BinCueInv
    <2>2. /\ user_data' = r.obj /\ disk' = r.disk /\ next' = next
          /\ phase' = IF r.ok THEN "done" ELSE "failed"
      BY <1>6 DEF Destroy, Does
    <2>3. r.obj = BinCueObj(flag, NoSink, NoSink) /\ r.disk = disk /\ r.ok
      BY <2>1, BinCueFreeIs
    <2> HIDE DEF r, bin
    <2> QED
      BY <1>1, <2>1, <2>2, <2>3 DEF BinCueInv
  <1>7. CASE GiveUp
    BY <1>1, <1>7 DEF GiveUp, BinCueInv
  <1> QED
    BY <1>3, <1>4, <1>5, <1>6, <1>7 DEF Next

\* The file of a part is no stream's that is not open.
LEMMA PartOpen ==
    \A k, c : PartFile(k, c) # NoSink.pathname
  BY DEF PartFile, ImageFile, NoSink, Sink

LEMMA CdrdaoStep ==
    ASSUME Frame, kind = "cdrdao", NEW flag \in BOOLEAN, CdrdaoInv(flag), Next
    PROVE  \E new \in BOOLEAN : CdrdaoInv(new)'
  <1>1. disc' = disc /\ disc \in Discs /\ next \in 0 .. DiscEnd(disc)
    BY StepFrame DEF Frame
  <1>2. DiscEnd(disc) \in Nat \ {0} /\ next \in Nat
    BY <1>1, TracksInOrder
  <1>3. ASSUME NEW value \in {"2336", "2352", "other"}, SetArg(value)
        PROVE  \E new \in BOOLEAN : CdrdaoInv(new)'
    <2>1. phase = "new" /\ next = 0 /\ disk = NoFiles /\ user_data = CdrdaoIdle(flag, <<>>)
      BY <1>3 DEF SetArg, CdrdaoInv
    <2>2. UNCHANGED <<disk, next>>
      BY <1>3 DEF SetArg
    <2>3. CASE user_data' = WithFlag(user_data, value = "2336") /\ phase' = phase
      <3>1. user_data' = CdrdaoIdle(value = "2336", <<>>)
        BY <2>1, <2>3, FlagIs
      <3> DEFINE new == value = "2336"
      <3>2. new \in BOOLEAN /\ CdrdaoInv(new)'
        BY <2>1, <2>2, <2>3, <3>1 DEF CdrdaoInv
      <3> QED
        BY <3>2
    <2>4. CASE phase' = "refused" /\ user_data' = user_data
      BY <2>1, <2>2, <2>4 DEF CdrdaoInv
    <2> QED
      BY <1>3, <2>3, <2>4 DEF SetArg, WithFlag
  <1>4. CASE SetCuesheet
    <2> DEFINE r == CdrdaoSetCuesheet(user_data, disk, CueList(disc))
    <2>1. phase = "new" /\ next = 0 /\ disk = NoFiles /\ user_data = CdrdaoIdle(flag, <<>>)
      BY <1>4 DEF SetCuesheet, CdrdaoInv
    <2>2. r.obj = CdrdaoIdle(flag, CueList(disc)) /\ r.ok /\ CdrdaoDisk(r.disk, disc, Size(flag), 0)
      BY <1>1, <2>1, CdrdaoSheetIs
    <2>3. /\ user_data' = r.obj /\ disk' = r.disk /\ next' = next
          /\ phase' = IF r.ok THEN "writing" ELSE "failed"
      BY <1>4 DEF SetCuesheet, Does
    <2> HIDE DEF r
    <2>4. CdrdaoBefore(user_data', disc, flag, next')
      BY <2>1, <2>2, <2>3 DEF CdrdaoBefore
    <2> QED
      BY <1>1, <2>1, <2>2, <2>3, <2>4 DEF CdrdaoInv
  <1>5. CASE Write
    <2> DEFINE r == CdrdaoWrite(user_data, disk, next)
    <2>1. /\ phase = "writing" /\ CdrdaoDisk(disk, disc, Size(flag), next)
          /\ CdrdaoBefore(user_data, disc, flag, next) /\ next < DiscEnd(disc)
      BY <1>5 DEF Write, CdrdaoInv
    <2>2. /\ user_data' = r.obj /\ disk' = r.disk /\ next' = next + 1
          /\ phase' = IF r.ok THEN "writing" ELSE "failed"
      BY <1>5 DEF Write, Does
    <2>3. /\ CdrdaoBefore(r.obj, disc, flag, next + 1)
          /\ r.ok
          /\ CdrdaoDisk(r.disk, disc, Size(flag), next + 1)
      BY <1>1, <1>2, <2>1, CdrdaoWriteIs
    <2> HIDE DEF r
    <2> QED
      BY <1>1, <2>1, <2>2, <2>3 DEF CdrdaoInv
  <1>6. CASE Destroy
    <2> DEFINE r == CdrdaoFree(user_data, disk)
    <2>1. /\ phase = "writing" /\ CdrdaoDisk(disk, disc, Size(flag), next)
          /\ CdrdaoBefore(user_data, disc, flag, next) /\ next = DiscEnd(disc)
      BY <1>6 DEF Destroy, CdrdaoInv
    <2>2. /\ user_data' = r.obj /\ disk' = r.disk /\ next' = next
          /\ phase' = IF r.ok THEN "done" ELSE "failed"
      BY <1>6 DEF Destroy, Does
    <2>3. PICK k \in 0 .. Len(disc.tracks), c \in {1, 2} :
             user_data = CdrdaoObj(flag, OpenAt(PartFile(k, c),
                                                (next - PartFrom(disc, k, c)) * Size(flag)),
                                   k, c, CueList(disc))
      BY <1>2, <2>1 DEF CdrdaoBefore
    <2>4. r.obj = CdrdaoObj(flag, NoSink, k, c, CueList(disc)) /\ r.disk = disk /\ r.ok
      BY <2>3, PartOpen, CdrdaoFreeIs
    <2> HIDE DEF r
    <2> QED
      BY <1>1, <2>1, <2>2, <2>4 DEF CdrdaoInv
  <1>7. CASE GiveUp
    BY <1>1, <1>7 DEF GiveUp, CdrdaoInv
  <1> QED
    BY <1>3, <1>4, <1>5, <1>6, <1>7 DEF Next

\* The stream of an NRG image is not open, or is on the disk.
LEMMA NrgStreams ==
    ASSUME NEW d, NEW obj, NEW files, NEW n, NrgBefore(obj, files, d, n), n \in Nat
    PROVE  \/ obj = NrgObj(Sink(NrgFile), d)
           \/ NrgFile \in DOMAIN files /\ \E p \in Nat : obj = NrgObj(OpenAt(NrgFile, p), d)
  <1>1. n = 0 \/ n > 0
    OBVIOUS
  <1> QED
    BY <1>1 DEF NrgBefore, NrgDisk

LEMMA NrgStep ==
    ASSUME Frame, kind = "nrg", NrgInv, Next
    PROVE  NrgInv'
  <1>1. disc' = disc /\ disc \in Discs /\ next \in 0 .. DiscEnd(disc)
    BY StepFrame DEF Frame
  <1>2. DiscEnd(disc) \in Nat \ {0} /\ next \in Nat /\ Len(disc.tracks) \in Nat
    BY <1>1, TracksInOrder, DiscShape
  <1>3. ASSUME NEW value \in {"2336", "2352", "other"}, SetArg(value)
        PROVE  NrgInv'
    BY <1>3 DEF SetArg, NrgInv
  <1>4. CASE SetCuesheet
    <2> DEFINE r == NrgSetCuesheet(user_data, disk, CueList(disc))
    <2>1. phase = "new" /\ next = 0 /\ disk = NoFiles /\ user_data = NrgNew
      BY <1>4 DEF SetCuesheet, NrgInv
    <2>2. /\ r.obj = NrgObj(Sink(NrgFile), disc)
          /\ r.disk = disk
          /\ r.ok <=> Len(disc.tracks) < CD_MAX_TRACKS
      BY <1>1, <2>1, NrgSheetIs
    <2>3. /\ user_data' = r.obj /\ disk' = r.disk /\ next' = next
          /\ phase' = IF r.ok THEN "writing" ELSE "failed"
      BY <1>4 DEF SetCuesheet, Does
    <2> HIDE DEF r
    <2>4. CASE Len(disc.tracks) < CD_MAX_TRACKS
      <3>1. NrgBefore(user_data', disk', disc, next')
        BY <1>1, <2>1, <2>2, <2>3, SubsNone DEF NrgBefore
      <3> QED
        BY <1>1, <2>2, <2>3, <2>4, <3>1 DEF NrgInv
    <2>5. CASE ~(Len(disc.tracks) < CD_MAX_TRACKS)
      <3>1. Len(disc.tracks) >= CD_MAX_TRACKS
        BY <1>2, <2>5, CueAssumption
      <3> QED
        BY <1>1, <2>2, <2>3, <2>5, <3>1 DEF NrgInv
    <2> QED
      BY <2>4, <2>5
  <1>5. CASE Write
    <2> DEFINE r == NrgWrite(user_data, disk, next)
    <2>1. /\ phase = "writing" /\ Len(disc.tracks) < CD_MAX_TRACKS
          /\ NrgBefore(user_data, disk, disc, next) /\ next < DiscEnd(disc)
      BY <1>5 DEF Write, NrgInv
    <2>2. /\ user_data' = r.obj /\ disk' = r.disk /\ next' = next + 1
          /\ phase' = IF r.ok THEN "writing" ELSE "failed"
      BY <1>5 DEF Write, Does
    <2>3. /\ r.ok \in BOOLEAN
          /\ r.ok => NrgBefore(r.obj, r.disk, disc, next + 1)
          /\ ~r.ok => r.obj = user_data /\ r.disk = disk /\ HasEntries(disc)
      BY <1>1, <1>2, <2>1, NrgWriteIs
    <2> HIDE DEF r
    <2>4. CASE r.ok
      BY <1>1, <2>1, <2>2, <2>3, <2>4 DEF NrgInv
    <2>5. CASE ~r.ok
      <3>1. \/ user_data = NrgObj(Sink(NrgFile), disc)
            \/ NrgFile \in DOMAIN disk /\ \E p \in Nat : user_data = NrgObj(OpenAt(NrgFile, p), disc)
        BY <1>2, <2>1, NrgStreams
      <3> QED
        BY <1>1, <2>1, <2>2, <2>3, <2>5, <3>1 DEF NrgInv
    <2> QED
      BY <2>4, <2>5
  <1>6. CASE Destroy
    <2> DEFINE r == NrgFree(user_data, disk)
    <2>1. /\ phase = "writing" /\ NrgBefore(user_data, disk, disc, next) /\ next = DiscEnd(disc)
      BY <1>6 DEF Destroy, NrgInv
    <2>2. /\ user_data' = r.obj /\ disk' = r.disk /\ next' = next
          /\ phase' = IF r.ok THEN "done" ELSE "failed"
      BY <1>6 DEF Destroy, Does
    <2>3. /\ NrgDisk(disk, disc, next) /\ NoSubs(disc)
      BY <1>1, <1>2, <2>1, SubsNone DEF NrgBefore
    <2>4. PICK p \in Nat : user_data = NrgObj(OpenAt(NrgFile, p), disc)
      BY <1>2, <2>1 DEF NrgBefore
    <2>5. r.obj = NrgObj(NoSink, disc) /\ r.disk = disk /\ r.ok
      BY <2>4, NrgFreeIs
    <2> HIDE DEF r
    <2> QED
      BY <1>1, <2>1, <2>2, <2>3, <2>5 DEF NrgInv
  <1>7. CASE GiveUp
    BY <1>1, <1>7 DEF GiveUp, NrgInv
  <1> QED
    BY <1>3, <1>4, <1>5, <1>6, <1>7 DEF Next

\* image.c and the three sinks: at every sector of every image the files hold exactly what
\* has been written so far, and the sink's struct knows where to go on.
THEOREM SinkInvInductive ==
    Spec => []SinkInv
  <1>1. ASSUME Init PROVE SinkInv
    <2>1. kind \in Kinds /\ disc \in Discs /\ next = 0 /\ disk = NoFiles /\ phase = "new"
      BY <1>1 DEF Init, NoFiles
    <2>2. DiscEnd(disc) \in Nat \ {0}
      BY <2>1, TracksInOrder
    <2>3. next \in 0 .. DiscEnd(disc)
      BY <2>1, <2>2
    <2> DEFINE no == FALSE
    <2>4. no \in BOOLEAN /\ BinCueNew = BinCueIdle(no) /\ CdrdaoNew = CdrdaoIdle(no, <<>>)
      BY Zenon DEF BinCueNew, BinCueIdle, CdrdaoNew, CdrdaoIdle
    <2> HIDE DEF no
    <2>5. CASE kind = "bincue"
      <3>1. user_data = BinCueIdle(no)
        BY <1>1, <2>4, <2>5 DEF Init, New
      <3>2. BinCueInv(no)
        BY <2>1, <3>1 DEF BinCueInv
      <3> QED
        BY <2>1, <2>3, <2>4, <2>5, <3>2 DEF SinkInv
    <2>6. CASE kind = "cdrdao"
      <3>1. user_data = CdrdaoIdle(no, <<>>)
        BY <1>1, <2>4, <2>6 DEF Init, New
      <3>2. CdrdaoInv(no)
        BY <2>1, <3>1 DEF CdrdaoInv
      <3> QED
        BY <2>1, <2>3, <2>4, <2>6, <3>2 DEF SinkInv
    <2>7. CASE kind = "nrg"
      <3>1. user_data = NrgNew
        BY <1>1, <2>7 DEF Init, New
      <3>2. NrgInv
        BY <2>1, <3>1 DEF NrgInv
      <3> QED
        BY <2>1, <2>3, <2>7, <3>2 DEF SinkInv
    <2> QED
      BY <2>1, <2>5, <2>6, <2>7 DEF Kinds
  <1>2. ASSUME SinkInv, [Next]_vars PROVE SinkInv'
    <2>1. Frame
      BY <1>2 DEF SinkInv, Frame
    <2>2. CASE UNCHANGED vars
      BY <1>2, <2>2 DEF vars, SinkInv, BinCueInv, CdrdaoInv, NrgInv
    <2>3. CASE Next
      <3>1. kind' = kind /\ Frame'
        BY <2>1, <2>3, StepFrame
      <3>2. ASSUME kind = "bincue", NEW flag \in BOOLEAN, BinCueInv(flag)
            PROVE  SinkInv'
        <4>1. \E new \in BOOLEAN : BinCueInv(new)'
          BY <2>1, <2>3, <3>2, BinCueStep
        <4> QED
          BY <3>1, <3>2, <4>1 DEF SinkInv, Frame
      <3>3. ASSUME kind = "cdrdao", NEW flag \in BOOLEAN, CdrdaoInv(flag)
            PROVE  SinkInv'
        <4>1. \E new \in BOOLEAN : CdrdaoInv(new)'
          BY <2>1, <2>3, <3>3, CdrdaoStep
        <4> QED
          BY <3>1, <3>3, <4>1 DEF SinkInv, Frame
      <3>4. ASSUME kind = "nrg", NrgInv
            PROVE  SinkInv'
        <4>1. NrgInv'
          BY <2>1, <2>3, <3>4, NrgStep
        <4> QED
          BY <3>1, <3>4, <4>1 DEF SinkInv, Frame
      <3> QED
        BY <1>2, <3>2, <3>3, <3>4 DEF SinkInv
    <2> QED
      BY <1>2, <2>2, <2>3
  <1> QED
    BY <1>1, <1>2, PTL DEF Spec

-----------------------------------------------------------------------------
(* What it says of the streams and of the assertions.                      *)

Standing(s, files) ==
    /\ s.is_open \in BOOLEAN
    /\ s.position \in Nat
    /\ s.is_open => s.pathname \in DOMAIN files /\ s.at = s.position

LEMMA StandingIs ==
    ASSUME NEW files, NEW f
    PROVE  /\ Standing(Sink(f), files)
           /\ f \in DOMAIN files => \A p \in Nat : Standing(OpenAt(f, p), files)
  BY DEF Standing, Sink, OpenAt

\* The streams of a sink's struct.
StreamsOf(obj) ==
    {obj[f] : f \in {"bin_snk", "cue_snk", "last_bin_snk", "nrg_snk"} \cap DOMAIN obj}

AllStanding(obj, files) == \A s \in StreamsOf(obj) : Standing(s, files)

LEMMA StructStreams ==
    ASSUME NEW files, NEW one, Standing(one, files), NEW other, Standing(other, files)
    PROVE  /\ \A flag, init : AllStanding(BinCueStruct(flag, init, one, other), files)
           /\ \A flag, idx, pause, list : AllStanding(CdrdaoStruct(flag, one, idx, pause, list), files)
           /\ \A d : AllStanding(NrgObj(one, d), files)
  <1>1. ASSUME NEW flag, NEW init, NEW s \in StreamsOf(BinCueStruct(flag, init, one, other))
        PROVE  Standing(s, files)
    <2>1. s = one \/ s = other
      BY DEF StreamsOf, BinCueStruct
    <2> QED
      BY <2>1
  <1>2. ASSUME NEW flag, NEW idx, NEW pause, NEW list,
               NEW s \in StreamsOf(CdrdaoStruct(flag, one, idx, pause, list))
        PROVE  Standing(s, files)
    <2>1. s = one
      BY DEF StreamsOf, CdrdaoStruct
    <2> QED
      BY <2>1
  <1>3. ASSUME NEW d, NEW s \in StreamsOf(NrgObj(one, d))
        PROVE  Standing(s, files)
    <2>1. s = one
      BY DEF StreamsOf, NrgObj
    <2> QED
      BY <2>1
  <1> QED
    BY <1>1, <1>2, <1>3 DEF AllStanding

LEMMA StructsAre ==
    /\ \A flag : \E init : BinCueIdle(flag) = BinCueStruct(flag, init, NoSink, NoSink)
    /\ \A flag, bin, cue : \E init : BinCueObj(flag, bin, cue) = BinCueStruct(flag, init, bin, cue)
    /\ \A files : AllStanding(NrgNew, files)
  <1>1. \A flag : BinCueIdle(flag) = BinCueStruct(flag, FALSE, NoSink, NoSink)
    BY Zenon DEF BinCueIdle, BinCueStruct
  <1>2. \A flag, bin, cue : BinCueObj(flag, bin, cue) = BinCueStruct(flag, TRUE, bin, cue)
    BY Zenon DEF BinCueObj, BinCueStruct
  <1>3. ASSUME NEW files, NEW s \in StreamsOf(NrgNew)
        PROVE  Standing(s, files)
    <2>1. s = NoSink
      BY <1>3 DEF StreamsOf, NrgNew
    <2> QED
      BY <2>1, StandingIs DEF NoSink
  <1> QED
    BY <1>1, <1>2, <1>3 DEF AllStanding

\* The open streams of a sink that has taken the sectors before next.
LEMMA BinCueStanding ==
    ASSUME Frame, NEW flag \in BOOLEAN, BinCueInv(flag)
    PROVE  AllStanding(user_data, disk)
  <1>1. Standing(NoSink, disk) /\ \A f : Standing(Sink(f), disk)
    BY StandingIs DEF NoSink
  <1>2. \A old : AllStanding(BinCueIdle(old), disk)
    BY <1>1, StructsAre, StructStreams
  <1>3. \A old, bin, cue : Standing(bin, disk) /\ Standing(cue, disk) => AllStanding(BinCueObj(old, bin, cue), disk)
    BY StructsAre, StructStreams
  <1>4. CASE phase \in {"writing", "exited"}
    <2> DEFINE bin == IF next = 0 THEN Sink(BinFile) ELSE OpenAt(BinFile, next * Size(flag))
    <2>1. BinCueDisk(disk, disc, Size(flag), next) /\ user_data = BinCueObj(flag, bin, Sink(CueFile))
      BY <1>4 DEF BinCueInv
    <2>2. next \in Nat /\ Size(flag) \in Nat
      BY TracksInOrder, SizeIs DEF Frame
    <2>3. Standing(bin, disk)
      <3>1. CASE next = 0
        BY <1>1, <3>1
      <3>2. CASE next # 0
        <4>1. BinFile \in DOMAIN disk
          BY <2>1, <3>2 DEF BinCueDisk
        <4>2. next * Size(flag) \in Nat
          BY <2>2
        <4> QED
          BY <3>2, <4>1, <4>2, StandingIs
      <3> QED
        BY <3>1, <3>2
    <2> HIDE DEF bin
    <2> QED
      BY <1>1, <1>3, <2>1, <2>3
  <1>5. CASE phase \in {"new", "refused"}
    BY <1>2, <1>5 DEF BinCueInv
  <1>6. CASE phase = "failed"
    BY <1>1, <1>3, <1>6 DEF BinCueInv
  <1>7. CASE phase = "done"
    BY <1>1, <1>3, <1>7 DEF BinCueInv
  <1> QED
    BY <1>4, <1>5, <1>6, <1>7 DEF BinCueInv

LEMMA CdrdaoStanding ==
    ASSUME Frame, NEW flag \in BOOLEAN, CdrdaoInv(flag)
    PROVE  AllStanding(user_data, disk)
  <1>1. Standing(NoSink, disk)
    BY StandingIs DEF NoSink
  <1>2. \A old, list : AllStanding(CdrdaoIdle(old, list), disk)
    BY <1>1, CdrdaoObjs, StructStreams
  <1>3. \A old, s, k, c, list : Standing(s, disk) => AllStanding(CdrdaoObj(old, s, k, c, list), disk)
    BY CdrdaoObjs, StructStreams
  <1>4. CASE phase \in {"writing", "exited"}
    <2>1. CdrdaoDisk(disk, disc, Size(flag), next) /\ CdrdaoBefore(user_data, disc, flag, next)
      BY <1>4 DEF CdrdaoInv
    <2>2. next \in Nat /\ Size(flag) \in Nat /\ disc \in Discs
      BY TracksInOrder, SizeIs DEF Frame
    <2>3. CASE next = 0
      BY <1>2, <2>1, <2>3 DEF CdrdaoBefore
    <2>4. CASE next # 0
      <3>1. PICK k \in 0 .. Len(disc.tracks), c \in {1, 2} :
               /\ InPart(disc, k, c, next - 1)
               /\ user_data = CdrdaoObj(flag,
                                 OpenAt(PartFile(k, c), (next - PartFrom(disc, k, c)) * Size(flag)),
                                 k, c, CueList(disc))
        BY <2>1, <2>4 DEF CdrdaoBefore
      <3>2. IsPart(disc, k, c) /\ PartFrom(disc, k, c) <= next - 1
        BY <3>1 DEF InPart
      <3>3. PartFrom(disc, k, c) \in Nat
        BY <2>2, <3>2, PartsInOrder
      <3>4. PartFrom(disc, k, c) < next /\ (next - PartFrom(disc, k, c)) \in Nat
        BY <2>2, <3>2, <3>3
      <3>5. PartFile(k, c) \in DOMAIN disk
        BY <2>1, <3>2, <3>4 DEF CdrdaoDisk
      <3>6. (next - PartFrom(disc, k, c)) * Size(flag) \in Nat
        BY <2>2, <3>4
      <3>7. Standing(OpenAt(PartFile(k, c), (next - PartFrom(disc, k, c)) * Size(flag)), disk)
        BY <3>5, <3>6, StandingIs
      <3> QED
        BY <1>3, <3>1, <3>7
    <2> QED
      BY <2>3, <2>4
  <1>5. CASE phase \in {"new", "refused"}
    BY <1>2, <1>5 DEF CdrdaoInv
  <1>6. CASE phase = "done"
    BY <1>1, <1>3, <1>6 DEF CdrdaoInv
  <1> QED
    BY <1>4, <1>5, <1>6 DEF CdrdaoInv

LEMMA NrgStanding ==
    ASSUME Frame, NrgInv
    PROVE  AllStanding(user_data, disk)
  <1>1. Standing(NoSink, disk) /\ \A f : Standing(Sink(f), disk)
    BY StandingIs DEF NoSink
  <1>2. \A s, d : Standing(s, disk) => AllStanding(NrgObj(s, d), disk)
    BY StructStreams
  <1>3. ASSUME \/ user_data = NrgObj(Sink(NrgFile), disc)
               \/ NrgFile \in DOMAIN disk /\ \E p \in Nat : user_data = NrgObj(OpenAt(NrgFile, p), disc)
        PROVE  AllStanding(user_data, disk)
    <2>1. CASE user_data = NrgObj(Sink(NrgFile), disc)
      BY <1>1, <1>2, <2>1
    <2>2. ASSUME NrgFile \in DOMAIN disk, NEW p \in Nat, user_data = NrgObj(OpenAt(NrgFile, p), disc)
          PROVE  AllStanding(user_data, disk)
      BY <1>2, <2>2, StandingIs
    <2> QED
      BY <1>3, <2>1, <2>2
  <1>4. CASE phase \in {"writing", "exited"}
    <2>1. next \in Nat
      BY TracksInOrder DEF Frame
    <2>2. NrgBefore(user_data, disk, disc, next)
      BY <1>4 DEF NrgInv
    <2> QED
      BY <1>3, <2>1, <2>2, NrgStreams
  <1>5. CASE phase \in {"new", "refused"}
    BY <1>5, StructsAre DEF NrgInv
  <1>6. CASE phase = "failed"
    BY <1>3, <1>6 DEF NrgInv
  <1>7. CASE phase = "done"
    BY <1>1, <1>2, <1>7 DEF NrgInv
  <1> QED
    BY <1>4, <1>5, <1>6, <1>7 DEF NrgInv

\* image.c, stream.c: a stream that is open has its file on the disk, and its FILE stands
\* where the stream believes, at every moment of every image of every disc.
THEOREM SinkTypeOKCorrect ==
    Spec => []SinkTypeOK
  <1>1. ASSUME SinkInv PROVE SinkTypeOK
    <2>1. Frame
      BY <1>1 DEF SinkInv, Frame
    <2>2. AllStanding(user_data, disk)
      BY <1>1, <2>1, BinCueStanding, CdrdaoStanding, NrgStanding DEF SinkInv
    <2>3. Sinks = StreamsOf(user_data)
      BY DEF Sinks, StreamsOf
    <2> QED
      BY <2>1, <2>2, <2>3 DEF SinkTypeOK, Frame, AllStanding, Standing
  <1> QED
    BY <1>1, SinkInvInductive, PTL

\* The assertions of image_bincue.c, image_cdrdao.c and image_nrg.c: for no disc do others
\* fail than those of OnlyKnownFailures.
THEOREM OnlyKnownFailuresCorrect ==
    Spec => []OnlyKnownFailures
  <1>1. ASSUME SinkInv, phase = "failed"
        PROVE  \/ /\ kind = "bincue"
                  /\ \E k \in DOMAIN disc.tracks : Len(disc.tracks[k].entries) >= CD_MAX_TRACKS
               \/ kind = "nrg" /\ HasEntries(disc)
               \/ kind = "nrg" /\ Len(disc.tracks) >= CD_MAX_TRACKS
    <2>1. ASSUME kind = "bincue", NEW flag \in BOOLEAN, BinCueInv(flag)
          PROVE  \E k \in DOMAIN disc.tracks : Len(disc.tracks[k].entries) >= CD_MAX_TRACKS
      <3>1. ~FewEntries(disc)
        BY <1>1, <2>1 DEF BinCueInv
      <3>2. PICK k \in DOMAIN disc.tracks : ~(Len(disc.tracks[k].entries) < CD_MAX_TRACKS)
        BY <3>1 DEF FewEntries
      <3>3. Len(disc.tracks[k].entries) \in Nat
        BY <1>1, <3>2, DiscShape, LenProperties DEF SinkInv
      <3> QED
        BY <3>2, <3>3, CueAssumption
    <2>2. ASSUME kind = "cdrdao", NEW flag \in BOOLEAN, CdrdaoInv(flag)
          PROVE  FALSE
      BY <1>1, <2>2 DEF CdrdaoInv
    <2>3. ASSUME kind = "nrg", NrgInv
          PROVE  Len(disc.tracks) >= CD_MAX_TRACKS \/ HasEntries(disc)
      BY <1>1, <2>3 DEF NrgInv
    <2> QED
      BY <1>1, <2>1, <2>2, <2>3 DEF SinkInv
  <1>2. SinkInv => OnlyKnownFailures
    BY <1>1 DEF OnlyKnownFailures
  <1> QED
    BY <1>2, SinkInvInductive, PTL
=============================================================================
