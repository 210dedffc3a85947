------------------------------ MODULE BurnProofs ------------------------------
(***************************************************************************)
(* What a burner finds in a finished image of any of the three sinks, for  *)
(* every disc; and that each sink implements DiscImage.                    *)
(***************************************************************************)
EXTENDS SinkProofs

-----------------------------------------------------------------------------
(* What a burner reads: the lines of the text files.                       *)

\* The index points that the lines of a text name.
Mark(t, e) == <<t, e.no, e.at>>

Marks(text) ==
    {Mark(TrackOf(text, k), text[k]) : k \in {j \in DOMAIN text : text[j].line = "INDEX"}}

\* The TRACK lines of a text.
Tracks(text) == TrackOf(text, Len(text))

LEMMA TracksMore ==
    ASSUME NEW E, NEW text \in Seq(E), NEW e \in E
    PROVE  LET more == Append(text, e)
           IN  /\ \A k \in 1 .. Len(text) : TrackOf(more, k) = TrackOf(text, k)
               /\ Tracks(text) \in Nat
               /\ Tracks(more) = Tracks(text) + (IF e.line = "TRACK" THEN 1 ELSE 0)
               /\ Tracks(more) = TrackOf(more, Len(text) + 1)
  <1> DEFINE l == Len(text)
             more == Append(text, e)
             old == {j \in 1 .. l : text[j].line = "TRACK"}
             new == {j \in 1 .. l + 1 : more[j].line = "TRACK"}
  <1>1. /\ l \in Nat /\ Len(more) = l + 1
        /\ \A j \in 1 .. l : more[j] = text[j]
        /\ more[l + 1] = e
    BY AppendProperties, LenProperties
  <1>2. \A k \in 1 .. l : TrackOf(more, k) = TrackOf(text, k)
    <2> SUFFICES ASSUME NEW k \in 1 .. l PROVE TrackOf(more, k) = TrackOf(text, k)
      OBVIOUS
    <2>1. {j \in 1 .. k : more[j].line = "TRACK"} = {j \in 1 .. k : text[j].line = "TRACK"}
      BY <1>1
    <2> QED
      BY <2>1 DEF TrackOf
  <1>3. IsFiniteSet(old) /\ Cardinality(old) \in Nat
    <2>1. IsFiniteSet(1 .. l)
      BY <1>1, FS_Interval
    <2>2. old \in SUBSET (1 .. l)
      OBVIOUS
    <2>3. IsFiniteSet(old)
      BY <2>1, <2>2, FS_Subset
    <2> QED
      BY <2>3, FS_CardinalityType
  <1>4. Tracks(text) = Cardinality(old) /\ Tracks(more) = Cardinality(new)
    BY <1>1 DEF Tracks, TrackOf
  <1>5. Tracks(more) = TrackOf(more, l + 1)
    BY <1>1 DEF Tracks
  <1>6. Cardinality(new) = Cardinality(old) + (IF e.line = "TRACK" THEN 1 ELSE 0)
    <2>1. CASE e.line = "TRACK"
      <3>1. new = old \cup {l + 1} /\ l + 1 \notin old
        BY <1>1, <2>1
      <3>2. Cardinality(new) = Cardinality(old) + 1
        BY <1>3, <3>1, FS_AddElement
      <3> QED
        BY <2>1, <3>2
    <2>2. CASE e.line # "TRACK"
      <3>1. new = old
        BY <1>1, <2>2
      <3> HIDE DEF new, old
      <3> QED
        BY <1>3, <2>2, <3>1
    <2> QED
      BY <2>1, <2>2
  <1> HIDE DEF new, old
  <1> QED
    BY <1>2, <1>3, <1>4, <1>5, <1>6

LEMMA MarksMore ==
    ASSUME NEW E, NEW text \in Seq(E), NEW e \in E
    PROVE  LET more == Append(text, e)
           IN  Marks(more) = Marks(text) \cup (IF e.line = "INDEX" THEN {Mark(Tracks(more), e)} ELSE {})
  <1> DEFINE l == Len(text)
             more == Append(text, e)
  <1>1. /\ l \in Nat /\ DOMAIN more = 1 .. l + 1 /\ DOMAIN text = 1 .. l
        /\ \A j \in 1 .. l : more[j] = text[j]
        /\ more[l + 1] = e
    BY AppendProperties, LenProperties
  <1>2. /\ \A k \in 1 .. l : TrackOf(more, k) = TrackOf(text, k)
        /\ Tracks(more) = TrackOf(more, l + 1)
    BY TracksMore
  <1> HIDE DEF more, l
  <1>3. ASSUME NEW x \in Marks(more)
        PROVE  x \in Marks(text) \/ (e.line = "INDEX" /\ x = Mark(Tracks(more), e))
    <2>1. PICK k \in 1 .. l + 1 : more[k].line = "INDEX" /\ x = Mark(TrackOf(more, k), more[k])
      BY <1>1 DEF Marks
    <2>2. CASE k = l + 1
      BY <1>1, <1>2, <2>1, <2>2
    <2>3. CASE k # l + 1
      <3>1. k \in 1 .. l
        BY <1>1, <2>3
      <3> QED
        BY <1>1, <1>2, <2>1, <3>1 DEF Marks
    <2> QED
      BY <2>2, <2>3
  <1>4. Marks(text) \subseteq Marks(more)
    <2> SUFFICES ASSUME NEW x \in Marks(text) PROVE x \in Marks(more)
      OBVIOUS
    <2>1. PICK k \in 1 .. l : text[k].line = "INDEX" /\ x = Mark(TrackOf(text, k), text[k])
      BY <1>1 DEF Marks
    <2>2. k \in 1 .. l + 1
      BY <1>1
    <2> QED
      BY <1>1, <1>2, <2>1, <2>2 DEF Marks
  <1>5. e.line = "INDEX" => Mark(Tracks(more), e) \in Marks(more)
    <2>1. l + 1 \in 1 .. l + 1
      BY <1>1
    <2> QED
      BY <1>1, <1>2, <2>1 DEF Marks
  <1>6. Marks(more) = Marks(text) \cup (IF e.line = "INDEX" THEN {Mark(Tracks(more), e)} ELSE {})
    BY <1>3, <1>4, <1>5
  <1> QED
    BY <1>6 DEF more

\* The lines of a file are the text in it.
LEMMA LinesOf ==
    ASSUME NEW E, NEW text \in Seq(E), NEW files, NEW f, TextIn(files[f], text)
    PROVE  Lines(files, f) = text
  <1> DEFINE l == Len(text)
  <1>1. l \in Nat /\ DOMAIN text = 1 .. l /\ text = [k \in 1 .. l |-> text[k]]
    BY LenProperties
  <1>2. DOMAIN files[f] = 0 .. l - 1 /\ \A j \in 1 .. l : files[f][j - 1] = text[j]
    BY DEF TextIn
  <1> HIDE DEF l
  <1>3. Cardinality(0 .. l - 1) = l
    <2> DEFINE b == l - 1
    <2>1. 0 \in Int /\ b \in Int
      BY <1>1
    <2> HIDE DEF b
    <2>2. Cardinality(0 .. b) = IF 0 > b THEN 0 ELSE b - 0 + 1
      BY <2>1, FS_Interval
    <2> QED
      BY <1>1, <2>2 DEF b
  <1> QED
    BY <1>1, <1>2, <1>3 DEF Lines

\* The lines of a track number it, and name its pregap and its start.
LEMMA TrackLinesMarks ==
    ASSUME NEW text \in Seq(LineType), NEW no \in Nat, Tracks(text) + 1 = no, NEW size \in Nat,
           NEW last \in CueType \cup {NoCue}, NEW lsn \in Nat
    PROVE  LET lines == TrackLines(text, no, size, last, lsn)
           IN  /\ Tracks(lines) = no
               /\ Marks(lines) = Marks(text)
                                   \cup (IF last.type = "pregap" THEN {<<no, 0, last.lsn>>} ELSE {})
                                   \cup {<<no, 1, lsn>>}
  <1> DEFINE a == TrackLine(no, size)
             b == IndexLine(0, last.lsn)
             c == IndexLine(1, lsn)
             one == Append(text, a)
             two == Append(one, b)
             short == Append(one, c)
             long == Append(two, c)
             lines == TrackLines(text, no, size, last, lsn)
  <1>1. /\ a \in LineType /\ b \in LineType /\ c \in LineType
        /\ a.line = "TRACK" /\ b.line = "INDEX" /\ c.line = "INDEX"
    BY DEF TrackLine, IndexLine, LineType, CueType, NoCue, Cue
  <1>2. /\ \A t : Mark(t, b) = <<t, 0, last.lsn>>
        /\ \A t : Mark(t, c) = <<t, 1, lsn>>
    BY DEF Mark, IndexLine
  <1>3. lines = IF last.type = "pregap" THEN text \o <<a>> \o <<b>> \o <<c>> ELSE text \o <<a>> \o <<>> \o <<c>>
    BY DEF TrackLines
  <1> HIDE DEF a, b, c, lines
  <1>4. one \in Seq(LineType)
    BY <1>1, AppendProperties
  <1> HIDE DEF one
  <1>5. two \in Seq(LineType)
    BY <1>1, <1>4, AppendProperties
  <1>6. one = text \o <<a>> /\ two = one \o <<b>> /\ short = one \o <<c>>
    <2>1. one = text \o <<a>>
      BY <1>1, AppendIsConcat DEF one
    <2> QED
      BY <1>1, <1>4, <2>1, AppendIsConcat
  <1>7. Tracks(text) \in Nat /\ Tracks(one) = no
    <2>1. Tracks(text) \in Nat /\ Tracks(one) = Tracks(text) + (IF a.line = "TRACK" THEN 1 ELSE 0)
      BY <1>1, TracksMore DEF one
    <2> QED
      BY <1>1, <2>1
  <1>8. Marks(one) = Marks(text)
    <2>1. Marks(one) = Marks(text) \cup (IF a.line = "INDEX" THEN {Mark(Tracks(one), a)} ELSE {})
      BY <1>1, MarksMore DEF one
    <2> QED
      BY <1>1, <2>1
  <1>9. Tracks(two) = no /\ Marks(two) = Marks(text) \cup {<<no, 0, last.lsn>>}
    <2>1. Tracks(two) = Tracks(one) + (IF b.line = "TRACK" THEN 1 ELSE 0)
      BY <1>1, <1>4, TracksMore
    <2>2. Marks(two) = Marks(one) \cup (IF b.line = "INDEX" THEN {Mark(Tracks(two), b)} ELSE {})
      BY <1>1, <1>4, MarksMore
    <2> HIDE DEF two
    <2>3. Tracks(two) = no
      BY <1>1, <1>7, <2>1
    <2> QED
      BY <1>1, <1>2, <1>8, <2>2, <2>3
  <1>10. Tracks(short) = no /\ Marks(short) = Marks(text) \cup {<<no, 1, lsn>>}
    <2>1. Tracks(short) = Tracks(one) + (IF c.line = "TRACK" THEN 1 ELSE 0)
      BY <1>1, <1>4, TracksMore
    <2>2. Marks(short) = Marks(one) \cup (IF c.line = "INDEX" THEN {Mark(Tracks(short), c)} ELSE {})
      BY <1>1, <1>4, MarksMore
    <2> HIDE DEF short
    <2>3. Tracks(short) = no
      BY <1>1, <1>7, <2>1
    <2> QED
      BY <1>1, <1>2, <1>8, <2>2, <2>3
  <1> HIDE DEF two
  <1>11. Tracks(long) = no /\ Marks(long) = Marks(text) \cup {<<no, 0, last.lsn>>} \cup {<<no, 1, lsn>>}
    <2>1. Tracks(long) = Tracks(two) + (IF c.line = "TRACK" THEN 1 ELSE 0)
      BY <1>1, <1>5, TracksMore
    <2>2. Marks(long) = Marks(two) \cup (IF c.line = "INDEX" THEN {Mark(Tracks(long), c)} ELSE {})
      BY <1>1, <1>5, MarksMore
    <2> HIDE DEF long
    <2>3. Tracks(long) = no
      BY <1>1, <1>9, <2>1
    <2> QED
      BY <1>1, <1>2, <1>9, <2>2, <2>3
  <1>12. long = two \o <<c>>
    BY <1>1, <1>5, AppendIsConcat
  <1>13. one \o <<>> = one
    BY <1>4, ConcatEmptySeq
  <1> HIDE DEF short, long
  <1>14. lines = IF last.type = "pregap" THEN long ELSE short
    BY <1>3, <1>6, <1>12, <1>13
  <1> QED
    BY <1>9, <1>10, <1>11, <1>14 DEF lines

LEMMA SubLineMarks ==
    ASSUME NEW text \in Seq(LineType), NEW no \in Nat, NEW lsn \in Nat
    PROVE  /\ Tracks(SubLine(text, no, lsn)) = Tracks(text)
           /\ Marks(SubLine(text, no, lsn)) = Marks(text) \cup {<<Tracks(text), no, lsn>>}
  <1> DEFINE c == IndexLine(no, lsn)
             more == Append(text, c)
  <1>1. c \in LineType /\ c.line = "INDEX" /\ \A t : Mark(t, c) = <<t, no, lsn>>
    BY DEF IndexLine, LineType, Mark
  <1>2. SubLine(text, no, lsn) = more
    BY DEF SubLine
  <1> HIDE DEF c
  <1>3. Tracks(text) \in Nat /\ Tracks(more) = Tracks(text) + (IF c.line = "TRACK" THEN 1 ELSE 0)
    BY <1>1, TracksMore
  <1>4. Marks(more) = Marks(text) \cup (IF c.line = "INDEX" THEN {Mark(Tracks(more), c)} ELSE {})
    BY <1>1, MarksMore
  <1> HIDE DEF more
  <1>5. Tracks(more) = Tracks(text)
    BY <1>1, <1>3
  <1> QED
    BY <1>1, <1>2, <1>4, <1>5

\* The index points of the cues up to a place; a pregap is named with its track.
MarkAt(d, row, col, q) == <<row[q] + 1, col[q] - 1, CueList(d)[q].lsn>>

MarksTo(d, row, col, p) ==
    {MarkAt(d, row, col, q) : q \in {j \in 1 .. p : col[j] = 1 => j < p}}

LEMMA MarksGo ==
    ASSUME NEW d, NEW row, NEW col, NEW p \in Nat \ {0}, NEW q, q = p + 1, col[q] = 1 => col[p] # 1
    PROVE  MarksTo(d, row, col, q) = MarksTo(d, row, col, p)
              \cup (IF col[p] = 1 THEN {MarkAt(d, row, col, p)} ELSE {})
              \cup (IF col[q] # 1 THEN {MarkAt(d, row, col, q)} ELSE {})
  <1> DEFINE M(j) == MarkAt(d, row, col, j)
             A == {j \in 1 .. p : col[j] = 1 => j < p}
             B == {j \in 1 .. q : col[j] = 1 => j < q}
  <1>1. B = A \cup (IF col[p] = 1 THEN {p} ELSE {}) \cup (IF col[q] # 1 THEN {q} ELSE {})
    OBVIOUS
  <1>2. MarksTo(d, row, col, p) = {M(j) : j \in A} /\ MarksTo(d, row, col, q) = {M(j) : j \in B}
    BY DEF MarksTo
  <1> HIDE DEF M, A, B
  <1> QED
    BY <1>1, <1>2 DEF M

LEMMA SheetTrackText ==
    ASSUME NEW s \in SheetStates, NEW cue \in CueType, NEW size \in Nat,
           ~s.done, s.ok, cue.type = "track"
    PROVE  BinCueLines(s, cue, size).text = TrackLines(s.text, s.track_no + 1, size, s.last, cue.lsn)
  BY SheetStep

\* What the text of a cue sheet says behind place p.
SheetSays(run, d, row, col, size, p) ==
    run[p].ok =>
        /\ Tracks(run[p].text) = run[p].track_no
        /\ Marks(run[p].text) = MarksTo(d, row, col, p)
        /\ Len(run[p].text) >= 2
        /\ run[p].text[2] = TrackLine(1, size)

\* The text from one cue to the next.
LEMMA SheetSaysMore ==
    ASSUME NEW d \in Discs, NEW row, NEW col, NEW n, LaidOut(d, row, col, n), NEW size \in Nat,
           NEW run, SheetIs(run, d, row, col, n, size), NEW p \in 1 .. n - 1,
           SheetSays(run, d, row, col, size, p)
    PROVE  SheetSays(run, d, row, col, size, p + 1)
  <1> DEFINE s == run[p]
             q == p + 1
             r == run[q]
             cue == CueList(d)[q]
             last == CueList(d)[p]
  <1>1. n \in Nat
    BY DEF LaidOut
  <1>2. /\ p \in 1 .. n /\ q \in 1 .. n /\ p < n /\ q - 1 = p /\ p \in 0 .. n /\ q \in 0 .. n
        /\ p \in Nat \ {0} /\ (q # n => q < n)
    BY <1>1
  <1>3. r = BinCueLines(s, cue, size) /\ s \in SheetStates /\ r \in SheetStates
    BY <1>2 DEF SheetIs
  <1>4. SheetAt(run, d, row, col, n, p) /\ SheetAt(run, d, row, col, n, q)
    BY <1>2, SheetGoes
  <1>5. /\ cue \in CueType
        /\ row[q] \in 0 .. Len(d.tracks) + 1
        /\ col[q] \in Nat \ {0}
        /\ q = n => col[q] = 1
        /\ cue.type = IF q = n THEN "end" ELSE IF col[q] = 1 THEN "pregap"
                      ELSE IF col[q] = 2 THEN "track" ELSE "subindex"
    BY <1>2, CueTypes
  <1>6. /\ last \in CueType
        /\ row[p] \in 0 .. Len(d.tracks) + 1
        /\ col[p] \in Nat \ {0}
        /\ p # n
        /\ last.type = IF p = n THEN "end" ELSE IF col[p] = 1 THEN "pregap"
                       ELSE IF col[p] = 2 THEN "track" ELSE "subindex"
    BY <1>2, CueTypes
  <1>7. IF col[p] < LastCol(d, row[p])
        THEN row[q] = row[p] /\ col[q] = col[p] + 1 /\ q < n
        ELSE row[q] = row[p] + 1 /\ col[q] = 1 /\ col[p] >= 2
    BY NextCue
  <1>8. row[p] \in Nat /\ row[q] \in Nat
    BY <1>5, <1>6, DiscShape
  <1>9. /\ MarksTo(d, row, col, q) = MarksTo(d, row, col, p)
             \cup (IF col[p] = 1 THEN {MarkAt(d, row, col, p)} ELSE {})
             \cup (IF col[q] # 1 THEN {MarkAt(d, row, col, q)} ELSE {})
        /\ MarkAt(d, row, col, p) = <<row[p] + 1, col[p] - 1, last.lsn>>
        /\ MarkAt(d, row, col, q) = <<row[q] + 1, col[q] - 1, cue.lsn>>
    <2>1. col[q] = 1 => col[p] # 1
      BY <1>6, <1>7
    <2> QED
      BY <1>2, <2>1, MarksGo DEF MarkAt
  <1> SUFFICES ASSUME r.ok
               PROVE  /\ Tracks(r.text) = r.track_no
                      /\ Marks(r.text) = MarksTo(d, row, col, q)
                      /\ Len(r.text) >= 2
                      /\ r.text[2] = TrackLine(1, size)
    BY DEF SheetSays
  <1>10. /\ s.ok /\ ~s.done /\ s.last = last
         /\ s.track_no = TrackNo(row, col, p)
         /\ col[p] >= 2 => s.index_no = col[p] - 1
    BY <1>2, <1>4 DEF SheetAt
  <1>11. /\ Tracks(s.text) = s.track_no
         /\ Marks(s.text) = MarksTo(d, row, col, p)
         /\ Len(s.text) >= 2
         /\ s.text[2] = TrackLine(1, size)
    BY <1>10 DEF SheetSays
  <1>12. s.text \in Seq(LineType) /\ s.track_no + 1 \in Nat /\ s.index_no + 1 \in Nat /\ s.track_no \in Nat
         /\ cue.lsn \in Nat /\ s.index_no \in Nat
    <2>1. s \in SheetStates /\ cue \in CueType
      BY <1>3, <1>5
    <2> HIDE DEF s, cue
    <2>2. s.text \in Seq(LineType) /\ s.track_no \in Nat /\ s.index_no \in Nat
      BY <2>1 DEF SheetStates
    <2>3. cue.lsn \in Nat
      BY <2>1 DEF CueType
    <2> QED
      BY <2>2, <2>3
  <1>13. \A t : t \in Seq(LineType) /\ Grown(s.text, t) =>
                  Len(t) >= 2 /\ t[2] = TrackLine(1, size)
    <2> SUFFICES ASSUME NEW t, t \in Seq(LineType), Grown(s.text, t)
                 PROVE  Len(t) >= 2 /\ t[2] = TrackLine(1, size)
      OBVIOUS
    <2>1. Len(s.text) \in Nat /\ Len(t) \in Nat
      BY <1>12, LenProperties
    <2>2. 2 \in 1 .. Len(s.text)
      BY <1>11, <2>1
    <2> QED
      BY <1>11, <2>1, <2>2 DEF Grown
  <1> HIDE DEF s, q, r, cue, last
  <1>14. CASE col[q] = 1
    <2>1. cue.type \in {"end", "pregap"}
      <3>1. cue.type = IF q = n THEN "end" ELSE IF col[q] = 1 THEN "pregap"
                       ELSE IF col[q] = 2 THEN "track" ELSE "subindex"
        BY <1>5
      <3> QED
        BY <1>14, <3>1
    <2>2. r.text = s.text /\ r.track_no = s.track_no
      BY <1>3, <1>5, <1>10, <2>1, SheetStep
    <2>3. col[p] # 1
      BY <1>6, <1>7, <1>14
    <2> QED
      BY <1>9, <1>11, <1>14, <2>2, <2>3
  <1>15. CASE col[q] = 2
    <2> DEFINE no == s.track_no + 1
               lsn == cue.lsn
               text == s.text
               lines == TrackLines(text, no, size, last, lsn)
    <2>1. cue.type = "track"
      BY <1>5, <1>15
    <2>2. r.text = lines /\ r.track_no = no
      <3>3. r.text = TrackLines(s.text, s.track_no + 1, size, s.last, cue.lsn)
        <4>1. /\ s \in SheetStates /\ cue \in CueType /\ ~s.done /\ s.ok /\ cue.type = "track"
              /\ r = BinCueLines(s, cue, size)
          BY <1>3, <1>5, <1>10, <2>1
        <4> QED
          BY <4>1, SheetTrackText
      <3>1. r.text = lines
        BY <1>10, <3>3
      <3>2. r.track_no = no
        BY <1>3, <1>5, <1>10, <2>1, SheetTrack
      <3> QED
        BY <3>1, <3>2
    <2>3. col[p] = 1 /\ row[q] = row[p]
      BY <1>5, <1>6, <1>7, <1>15
    <2>4. last.type = "pregap" /\ no = row[p] + 1
      BY <1>6, <1>8, <1>10, <2>3 DEF TrackNo
    <2>5. /\ text \in Seq(LineType) /\ no \in Nat /\ Tracks(text) + 1 = no
          /\ last \in CueType \cup {NoCue} /\ lsn \in Nat
      BY <1>6, <1>11, <1>12
    <2> HIDE DEF no, text, lsn
    <2>6. /\ Tracks(lines) = no
          /\ Marks(lines) = Marks(text)
                              \cup (IF last.type = "pregap" THEN {<<no, 0, last.lsn>>} ELSE {})
                              \cup {<<no, 1, lsn>>}
      BY <2>5, TrackLinesMarks
    <2>7. lines \in Seq(LineType) /\ Grown(text, lines)
      BY <2>5, TrackLinesAre
    <2>8. Len(lines) >= 2 /\ lines[2] = TrackLine(1, size)
      BY <1>13, <2>7 DEF text
    <2> HIDE DEF lines
    <2>9. /\ MarkAt(d, row, col, p) = <<no, 0, last.lsn>>
          /\ MarkAt(d, row, col, q) = <<no, 1, lsn>>
      <3>1. col[p] - 1 = 0 /\ col[q] - 1 = 1 /\ row[q] + 1 = no /\ row[p] + 1 = no
        BY <1>15, <2>3, <2>4
      <3> QED
        BY <1>9, <3>1 DEF lsn
    <2>10. Marks(lines) = MarksTo(d, row, col, q)
      BY <1>9, <1>11, <1>15, <2>3, <2>4, <2>6, <2>9 DEF text
    <2> QED
      BY <2>2, <2>6, <2>8, <2>10
  <1>16. CASE col[q] >= 3
    <2> DEFINE no == s.index_no + 1
               lsn == cue.lsn
               text == s.text
               lines == SubLine(text, no, lsn)
    <2>1. cue.type = "subindex"
      BY <1>5, <1>16
    <2>2. r.text = lines /\ r.track_no = s.track_no
      BY <1>3, <1>5, <1>10, <2>1, SheetStep
    <2>3. col[q] = col[p] + 1 /\ row[q] = row[p] /\ col[p] >= 2
      BY <1>5, <1>6, <1>7, <1>16
    <2>4. no = col[q] - 1 /\ s.track_no = row[q] + 1
      BY <1>6, <1>10, <2>3 DEF TrackNo
    <2>5. text \in Seq(LineType) /\ no \in Nat /\ lsn \in Nat
      BY <1>12
    <2> HIDE DEF no, text, lsn
    <2>6. /\ Tracks(lines) = Tracks(text)
          /\ Marks(lines) = Marks(text) \cup {<<Tracks(text), no, lsn>>}
      BY <2>5, SubLineMarks
    <2>7. lines \in Seq(LineType) /\ Grown(text, lines)
      <3>1. IndexLine(no, lsn) \in LineType
        BY <2>5 DEF IndexLine, LineType
      <3> QED
        BY <2>5, <3>1, SubLineIs, AppendProperties DEF SubLine
    <2>8. Len(lines) >= 2 /\ lines[2] = TrackLine(1, size)
      BY <1>13, <2>7 DEF text
    <2> HIDE DEF lines
    <2>9. MarkAt(d, row, col, q) = <<Tracks(text), no, lsn>>
      BY <1>9, <1>11, <2>4 DEF lsn, text
    <2>10. col[p] # 1 /\ col[q] # 1
      BY <1>16, <2>3
    <2>11. Marks(lines) = MarksTo(d, row, col, q)
      BY <1>9, <1>11, <2>6, <2>9, <2>10 DEF text
    <2> QED
      BY <1>11, <2>2, <2>6, <2>8, <2>11 DEF text
  <1> QED
    BY <1>5, <1>14, <1>15, <1>16

\* The cues name the index points of the disc.
LEMMA AllMarks ==
    ASSUME NEW d \in Discs, NEW row, NEW col, NEW n, LaidOut(d, row, col, n)
    PROVE  MarksTo(d, row, col, n) = Indexes(d)
  <1> DEFINE m == Len(d.tracks)
             I(k, c) == <<k + 1, c - 1, IF c = 1 THEN PregapAt(d, k) ELSE IF c = 2 THEN Start(d, k)
                                        ELSE Start(d, k) + Subs(d, k)[c - 2]>>
             Ones(k) == {<<k + 1, 0, PregapAt(d, k)>>, <<k + 1, 1, StartAt(d, k)>>}
             More(k) == {<<k + 1, e + 1, StartAt(d, k) + d.tracks[k].entries[e]>>
                           : e \in DOMAIN d.tracks[k].entries}
  <1>1. m \in Nat /\ DOMAIN d.tracks = 1 .. m
    BY DiscShape
  <1>2. /\ n \in Nat /\ n >= 2
        /\ row[1] = 0 /\ col[1] = 2
        /\ \A k \in 1 .. m : \A e \in 1 .. LastCol(d, k) :
              \E p \in 1 .. n - 1 : row[p] = k /\ col[p] = e
    BY DEF LaidOut
  <1>3. Indexes(d) = {<<1, 1, 0>>} \cup UNION {Ones(k) \cup More(k) : k \in 1 .. m}
    BY <1>1 DEF Indexes
  <1>4. ASSUME NEW k \in 1 .. m
        PROVE  /\ k # 0 /\ Start(d, k) = StartAt(d, k)
               /\ Subs(d, k) = d.tracks[k].entries
               /\ DOMAIN d.tracks[k].entries = 1 .. LastCol(d, k) - 2
               /\ LastCol(d, k) \in Nat /\ LastCol(d, k) >= 2
               /\ I(k, 1) = <<k + 1, 0, PregapAt(d, k)>>
               /\ I(k, 2) = <<k + 1, 1, StartAt(d, k)>>
               /\ \A e \in DOMAIN d.tracks[k].entries :
                     I(k, e + 2) = <<k + 1, e + 1, StartAt(d, k) + d.tracks[k].entries[e]>>
    <2>1. k # 0 /\ Subs(d, k) = d.tracks[k].entries /\ Start(d, k) = StartAt(d, k)
      BY <1>1 DEF Subs, Start
    <2>2. d.tracks[k].entries \in Seq(Nat)
      BY DiscShape
    <2>3. /\ Len(d.tracks[k].entries) \in Nat
          /\ DOMAIN d.tracks[k].entries = 1 .. Len(d.tracks[k].entries)
      BY <2>2, LenProperties
    <2>4. LastCol(d, k) = Len(d.tracks[k].entries) + 2
      BY <2>1 DEF LastCol
    <2>5. ASSUME NEW e \in DOMAIN d.tracks[k].entries
          PROVE  I(k, e + 2) = <<k + 1, e + 1, StartAt(d, k) + d.tracks[k].entries[e]>>
      <3> DEFINE c == e + 2
      <3>1. c # 1 /\ c # 2 /\ c - 1 = e + 1 /\ c - 2 = e
        BY <2>3
      <3> HIDE DEF c
      <3>2. I(k, c) = <<k + 1, e + 1, StartAt(d, k) + d.tracks[k].entries[e]>>
        BY <2>1, <3>1
      <3> QED
        BY <3>2 DEF c
    <2> QED
      BY <2>1, <2>3, <2>4, <2>5
  <1>5. ASSUME NEW q \in 1 .. n - 1
        PROVE  /\ MarkAt(d, row, col, q) = I(row[q], col[q])
               /\ row[q] \in 0 .. m /\ col[q] \in 1 .. LastCol(d, row[q])
               /\ row[q] = 0 => col[q] = 2
    <2>1. q \in 1 .. n /\ q < n
      BY <1>2
    <2>2. /\ row[q] \in 0 .. m + 1 /\ col[q] \in Nat \ {0} /\ row[q] <= m
          /\ row[q] = 0 => col[q] = 2
          /\ col[q] <= LastCol(d, row[q]) /\ LastCol(d, row[q]) \in Nat
          /\ CueList(d)[q].lsn = IF col[q] = 1 THEN PregapAt(d, row[q])
                                 ELSE IF col[q] = 2 THEN Start(d, row[q])
                                 ELSE Start(d, row[q]) + Subs(d, row[q])[col[q] - 2]
      BY <2>1, CueTypes
    <2> QED
      BY <1>1, <2>2 DEF MarkAt
  <1>6. MarksTo(d, row, col, n) = {MarkAt(d, row, col, q) : q \in 1 .. n - 1}
    <2>1. {j \in 1 .. n : col[j] = 1 => j < n} = 1 .. n - 1
      BY <1>2 DEF LaidOut
    <2> QED
      BY <2>1 DEF MarksTo
  <1>7. I(0, 2) = <<1, 1, 0>>
    BY TracksInOrder
  <1> HIDE DEF m, I, Ones, More
  <1>8. ASSUME NEW q \in 1 .. n - 1
        PROVE  MarkAt(d, row, col, q) \in Indexes(d)
    <2> DEFINE k == row[q]
               c == col[q]
    <2>1. MarkAt(d, row, col, q) = I(k, c) /\ k \in 0 .. m /\ c \in 1 .. LastCol(d, k) /\ (k = 0 => c = 2)
      BY <1>5
    <2> HIDE DEF k, c
    <2>2. CASE k = 0
      BY <1>3, <1>7, <2>1, <2>2
    <2>3. CASE k # 0
      <3>1. k \in 1 .. m
        BY <1>1, <2>1, <2>3
      <3>2. I(k, c) \in Ones(k) \cup More(k)
        <4>1. CASE c = 1
          BY <1>4, <3>1, <4>1 DEF Ones
        <4>2. CASE c = 2
          BY <1>4, <3>1, <4>2 DEF Ones
        <4>3. CASE c # 1 /\ c # 2
          <5>1. /\ DOMAIN d.tracks[k].entries = 1 .. LastCol(d, k) - 2
                /\ LastCol(d, k) \in Nat
            BY <1>4, <3>1
          <5> DEFINE e == c - 2
          <5>2. e \in DOMAIN d.tracks[k].entries /\ e + 2 = c
            BY <2>1, <4>3, <5>1
          <5> HIDE DEF e
          <5>3. I(k, e + 2) = <<k + 1, e + 1, StartAt(d, k) + d.tracks[k].entries[e]>>
            BY <1>4, <3>1, <5>2
          <5> QED
            BY <5>2, <5>3 DEF More
        <4> QED
          BY <4>1, <4>2, <4>3
      <3> QED
        BY <1>3, <2>1, <3>1, <3>2
    <2> QED
      BY <2>2, <2>3
  <1>9. ASSUME NEW k \in 1 .. m, NEW c \in 1 .. LastCol(d, k)
        PROVE  I(k, c) \in MarksTo(d, row, col, n)
    <2>1. PICK q \in 1 .. n - 1 : row[q] = k /\ col[q] = c
      BY <1>2 DEF m
    <2> QED
      BY <1>5, <1>6, <2>1
  <1>10. <<1, 1, 0>> \in MarksTo(d, row, col, n)
    <2>1. 1 \in 1 .. n - 1
      BY <1>2
    <2>2. MarkAt(d, row, col, 1) = <<1, 1, 0>>
      BY <1>2, <1>5, <1>7, <2>1
    <2> QED
      BY <1>6, <2>1, <2>2
  <1>11. ASSUME NEW k \in 1 .. m, NEW x \in Ones(k) \cup More(k)
         PROVE  x \in MarksTo(d, row, col, n)
    <2>1. DOMAIN d.tracks[k].entries = 1 .. LastCol(d, k) - 2 /\ LastCol(d, k) \in Nat /\ LastCol(d, k) >= 2
      BY <1>4
    <2>2. 1 \in 1 .. LastCol(d, k) /\ 2 \in 1 .. LastCol(d, k)
      BY <2>1
    <2>3. x = I(k, 1) \/ x = I(k, 2) \/ \E e \in DOMAIN d.tracks[k].entries : x = I(k, e + 2)
      BY <1>4 DEF Ones, More
    <2>4. \A e \in DOMAIN d.tracks[k].entries : e + 2 \in 1 .. LastCol(d, k)
      BY <2>1
    <2> QED
      BY <1>9, <2>2, <2>3, <2>4
  <1> QED
    BY <1>3, <1>6, <1>8, <1>10, <1>11

\* A text with two lines more at least.
Longer(a, b) == Len(b) >= Len(a) + 2

LEMMA TrackLinesLong ==
    ASSUME NEW text \in Seq(LineType), NEW no \in Nat, NEW size \in Nat,
           NEW last \in CueType \cup {NoCue}, NEW lsn \in Nat
    PROVE  Longer(text, TrackLines(text, no, size, last, lsn))
  <1> DEFINE has == last.type = "pregap"
             x == TrackLine(no, size)
             y == IndexLine(0, last.lsn)
             z == IndexLine(1, lsn)
             lines == LinesBehind(text, x, has, y, z)
  <1>1. TrackLines(text, no, size, last, lsn) = lines
    BY DEF TrackLines, LinesBehind
  <1>2. has \in BOOLEAN /\ x \in LineType /\ y \in LineType /\ z \in LineType
    <2>1. last.lsn \in Nat
      BY DEF CueType, NoCue, Cue
    <2> QED
      BY <2>1 DEF TrackLine, IndexLine, LineType
  <1>3. Len(text) \in Nat
    BY LenProperties
  <1> HIDE DEF has, x, y, z
  <1>4. LET more == LinesBehind(text, x, has, y, z)
            l == Len(text)
        IN  /\ more \in Seq(LineType)
            /\ Grown(text, more)
            /\ more[l + 1] = x
            /\ has => Len(more) = l + 3 /\ more[l + 2] = y /\ more[l + 3] = z
            /\ ~has => Len(more) = l + 2 /\ more[l + 2] = z
    BY <1>2, LinesAre
  <1> HIDE DEF lines
  <1>5. Len(lines) = Len(text) + 3 \/ Len(lines) = Len(text) + 2
    BY <1>2, <1>4 DEF lines
  <1> QED
    BY <1>1, <1>3, <1>5 DEF Longer

\* The text of a complete cue sheet.
LEMMA SheetReads ==
    ASSUME NEW d \in Discs, FewEntries(d), NEW size \in Nat
    PROVE  LET text == SheetText(d, size)
           IN  /\ text \in Seq(LineType)
               /\ Len(text) >= 2
               /\ text[2] = TrackLine(1, size)
               /\ Marks(text) = Indexes(d)
  <1> DEFINE n == Len(CueList(d))
  <1>1. PICK row, col : LaidOut(d, row, col, n)
    BY CuesLaidOut
  <1> HIDE DEF n
  <1>2. PICK run : SheetIs(run, d, row, col, n, size)
    BY <1>1, SheetExists
  <1>3. /\ n \in Nat /\ n >= 2 /\ row[1] = 0 /\ col[1] = 2
        /\ run[0] = SheetStart
        /\ \A p \in 1 .. n : run[p] = BinCueLines(run[p - 1], CueList(d)[p], size)
        /\ SheetOf(SheetStart, CueList(d), size) = run[n]
        /\ \A p \in 0 .. n : run[p] \in SheetStates
    BY <1>1, <1>2 DEF SheetIs, LaidOut
  <1>4. SheetSays(run, d, row, col, size, 1)
    <2> DEFINE first == SheetStart.text
               zero == CueList(d)[1].lsn
               lines == TrackLines(first, 1, size, NoCue, zero)
    <2>1. 1 \in 1 .. n /\ 1 < n /\ 1 # n /\ 1 - 1 = 0
      BY <1>3
    <2>2. CueList(d)[1] \in CueType /\ CueList(d)[1].type = "track"
      <3>1. /\ CueList(d)[1] \in CueType
            /\ CueList(d)[1].type = IF 1 = n THEN "end" ELSE IF col[1] = 1 THEN "pregap"
                                    ELSE IF col[1] = 2 THEN "track" ELSE "subindex"
        BY <1>1, <2>1, CueTypes
      <3> QED
        BY <1>3, <2>1, <3>1
    <2>3. /\ SheetStart \in SheetStates /\ ~SheetStart.done /\ SheetStart.ok
          /\ SheetStart.track_no = 0 /\ SheetStart.last = NoCue
          /\ Len(first) = 1 /\ first[1].line = "FILE" /\ first \in Seq(LineType)
      BY SheetStartType DEF SheetStart, SheetStates
    <2>4. run[1] = BinCueLines(SheetStart, CueList(d)[1], size)
      BY <1>3, <2>1
    <2>5. run[1].text = TrackLines(first, SheetStart.track_no + 1, size, SheetStart.last, zero)
      BY <2>2, <2>3, <2>4, SheetTrackText
    <2>6. run[1].track_no = 1
      <3>1. run[1].track_no = SheetStart.track_no + 1
        BY <2>2, <2>3, <2>4, SheetTrack
      <3> QED
        BY <2>3, <3>1
    <2>7. zero \in Nat
      BY <2>2 DEF CueType
    <2>8. run[1].text = lines
      BY <2>3, <2>5
    <2>9. Tracks(first) = 0 /\ Marks(first) = {}
      <3>1. {j \in 1 .. 1 : first[j].line = "TRACK"} = {}
        BY <2>3
      <3>2. Tracks(first) = 0
        BY <2>3, <3>1, FS_EmptySet DEF Tracks, TrackOf
      <3>3. DOMAIN first = 1 .. 1
        BY <2>3, LenProperties
      <3> QED
        BY <2>3, <3>2, <3>3 DEF Marks
    <2> HIDE DEF first, zero, lines
    <2> DEFINE last == NoCue
    <2>15. last \in CueType \cup {NoCue} /\ last.type # "pregap" /\ lines = TrackLines(first, 1, size, last, zero)
      BY DEF NoCue, Cue, lines
    <2>16. first \in Seq(LineType) /\ Len(first) = 1
      BY <2>3
    <2> HIDE DEF last
    <2>10. /\ Tracks(lines) = 1
           /\ Marks(lines) = Marks(first)
                               \cup (IF last.type = "pregap" THEN {<<1, 0, last.lsn>>} ELSE {})
                               \cup {<<1, 1, zero>>}
      <3> DEFINE one == 1
      <3>1. Tracks(first) + 1 = one /\ one \in Nat
        BY <2>9
      <3> HIDE DEF one
      <3>2. LET l == TrackLines(first, one, size, last, zero)
            IN  /\ Tracks(l) = one
                /\ Marks(l) = Marks(first)
                                \cup (IF last.type = "pregap" THEN {<<one, 0, last.lsn>>} ELSE {})
                                \cup {<<one, 1, zero>>}
        BY <2>7, <2>15, <2>16, <3>1, TrackLinesMarks
      <3> QED
        BY <2>15, <3>2 DEF one
    <2>11. Marks(lines) = {<<1, 1, zero>>}
      BY <2>9, <2>10, <2>15
    <2>12. MarksTo(d, row, col, 1) = {<<1, 1, zero>>}
      <3>1. {j \in 1 .. 1 : col[j] = 1 => j < 1} = {1}
        BY <1>3
      <3>2. MarkAt(d, row, col, 1) = <<1, 1, zero>>
        BY <1>3 DEF MarkAt, zero
      <3> QED
        BY <3>1, <3>2 DEF MarksTo
    <2>13. Len(lines) >= 2 /\ lines[2] = TrackLine(1, size)
      <3> DEFINE one == 1
      <3>1. one \in Nat
        OBVIOUS
      <3> HIDE DEF one
      <3>3. first \in Seq(LineType) /\ last \in CueType \cup {NoCue}
        BY <2>15, <2>16
      <3>4. TrackLines(first, one, size, last, zero)[Len(first) + 1] = TrackLine(one, size)
        BY <2>7, <3>1, <3>3, TrackLinesAre
      <3>5. Longer(first, TrackLines(first, one, size, last, zero))
        BY <2>7, <3>1, <3>3, TrackLinesLong
      <3>2. LET l == TrackLines(first, one, size, last, zero)
            IN  l[Len(first) + 1] = TrackLine(one, size) /\ Len(l) >= Len(first) + 2
        BY <3>4, <3>5 DEF Longer
      <3> QED
        BY <2>15, <2>16, <3>2 DEF one
    <2> QED
      BY <2>6, <2>8, <2>10, <2>11, <2>12, <2>13 DEF SheetSays
  <1> DEFINE T == {j \in Nat : j + 1 <= n => SheetSays(run, d, row, col, size, j + 1)}
  <1>5. 0 \in T
    BY <1>4
  <1>6. ASSUME NEW j \in Nat, j \in T PROVE j + 1 \in T
    <2> SUFFICES ASSUME j + 1 + 1 <= n PROVE SheetSays(run, d, row, col, size, j + 1 + 1)
      OBVIOUS
    <2>1. j + 1 \in 1 .. n - 1 /\ j + 1 <= n
      BY <1>3
    <2>2. SheetSays(run, d, row, col, size, j + 1)
      BY <1>6, <2>1
    <2> QED
      BY <1>1, <1>2, <2>1, <2>2, SheetSaysMore
  <1> HIDE DEF T
  <1>7. Nat \subseteq T
    BY <1>5, <1>6, NatSetInduction
  <1>8. n - 1 \in T /\ n - 1 + 1 = n
    BY <1>3, <1>7
  <1>9. n - 1 + 1 <= n => SheetSays(run, d, row, col, size, n - 1 + 1)
    BY <1>8 DEF T
  <1>10. run[n].ok
    BY <1>3, SheetDone
  <1>11. SheetText(d, size) = run[n].text /\ run[n] \in SheetStates
    BY <1>3 DEF SheetText
  <1>12. /\ Marks(run[n].text) = MarksTo(d, row, col, n)
         /\ Len(run[n].text) >= 2
         /\ run[n].text[2] = TrackLine(1, size)
    BY <1>3, <1>8, <1>9, <1>10 DEF SheetSays
  <1>13. MarksTo(d, row, col, n) = Indexes(d)
    BY <1>1, AllMarks
  <1>14. run[n].text \in Seq(LineType)
    BY <1>11 DEF SheetStates
  <1> QED
    BY <1>11, <1>12, <1>13, <1>14

\* What a burner finds in the two files when the first n sectors are written.
LEMMA BinCueReads ==
    ASSUME NEW d \in Discs, FewEntries(d), NEW size \in Nat \ {0}, NEW files, NEW n \in Nat,
           BinCueDisk(files, d, size, n)
    PROVE  /\ BinCueIndexes(files) = Indexes(d)
           /\ BinFile \in DOMAIN files <=> n > 0
           /\ n > 0 => BinCueSectors(files) = 0 .. n - 1
  <1> DEFINE text == SheetText(d, size)
             bin == files[BinFile]
  <1>1. /\ text \in Seq(LineType)
        /\ Len(text) >= 2
        /\ text[2] = TrackLine(1, size)
        /\ Marks(text) = Indexes(d)
    BY SheetReads
  <1>2. TextIn(files[CueFile], text)
    BY DEF BinCueDisk
  <1> HIDE DEF text
  <1>3. Lines(files, CueFile) = text
    BY <1>1, <1>2, LinesOf
  <1>4. BinCueIndexes(files) = Indexes(d)
    BY <1>1, <1>3 DEF BinCueIndexes, Marks, Mark
  <1>5. BinFile \in DOMAIN files <=> n > 0
    BY FilesDiffer DEF BinCueDisk
  <1>6. ASSUME n > 0 PROVE BinCueSectors(files) = 0 .. n - 1
    <2>1. /\ DOMAIN bin = {i * size : i \in 0 .. n - 1}
          /\ \A i \in 0 .. n - 1 : bin[i * size] = SectorOf(0 + i, size)
      BY <1>6 DEF BinCueDisk, Holds
    <2>2. text[2].at = size
      BY <1>1 DEF TrackLine
    <2>3. BinCueSectors(files) = {l \in {bin[o].lsn : o \in DOMAIN bin} :
                                    /\ l * size \in DOMAIN bin
                                    /\ bin[l * size] = [lsn |-> l, size |-> size]}
      BY <1>3, <2>2 DEF BinCueSectors
    <2> HIDE DEF bin
    <2>4. \A i \in 0 .. n - 1 : /\ bin[i * size] = [lsn |-> i, size |-> size]
                                /\ bin[i * size].lsn = i
                                /\ i * size \in DOMAIN bin
      BY <2>1 DEF SectorOf
    <2>5. {bin[o].lsn : o \in DOMAIN bin} = 0 .. n - 1
      <3>1. ASSUME NEW o \in DOMAIN bin PROVE bin[o].lsn \in 0 .. n - 1
        <4>1. PICK i \in 0 .. n - 1 : o = i * size
          BY <2>1
        <4> QED
          BY <2>4, <4>1
      <3>2. ASSUME NEW i \in 0 .. n - 1 PROVE \E o \in DOMAIN bin : i = bin[o].lsn
        BY <2>4
      <3> QED
        BY <3>1, <3>2
    <2> QED
      BY <2>3, <2>4, <2>5
  <1> QED
    BY <1>4, <1>5, <1>6

\* The sectors of the disc before sector n that an image has a place for.
WantedBefore(k, d, n) == {l \in Wanted(k, d) : l < n}

LEMMA WholeDisc ==
    ASSUME NEW d \in Discs, NEW n \in 0 .. DiscEnd(d), NEW k \in Kinds \ {"nrg"}
    PROVE  WantedBefore(k, d, n) = 0 .. n - 1
  <1>1. DiscEnd(d) \in Nat
    BY TracksInOrder
  <1> QED
    BY <1>1 DEF WantedBefore, Wanted, AllSectors, Kinds

\* BIN/CUE: Found at every sector.
LEMMA BinCueFound ==
    ASSUME Frame, kind = "bincue", NEW flag \in BOOLEAN, BinCueInv(flag)
    PROVE  /\ phase \in {"writing", "exited", "done"} => Found = WantedBefore(kind, disc, next)
           /\ phase \notin {"writing", "exited", "done"} => Found = {} /\ next = 0
           /\ phase = "done" => BinCueIndexes(disk) = Indexes(disc)
  <1>1. disc \in Discs /\ next \in 0 .. DiscEnd(disc) /\ next \in Nat
    BY TracksInOrder DEF Frame
  <1>2. Found = IF BinFile \in DOMAIN disk THEN BinCueSectors(disk) ELSE {}
    BY DEF Found
  <1>3. WantedBefore(kind, disc, next) = 0 .. next - 1
    BY <1>1, WholeDisc DEF Kinds
  <1>4. Size(flag) \in Nat \ {0}
    BY SizeIs
  <1>5. CASE phase \in {"writing", "exited", "done"}
    <2>1. FewEntries(disc) /\ BinCueDisk(disk, disc, Size(flag), next)
      BY <1>5 DEF BinCueInv
    <2>2. /\ BinCueIndexes(disk) = Indexes(disc)
          /\ BinFile \in DOMAIN disk <=> next > 0
          /\ next > 0 => BinCueSectors(disk) = 0 .. next - 1
      BY <1>1, <1>4, <2>1, BinCueReads
    <2>3. next = 0 => 0 .. next - 1 = {}
      OBVIOUS
    <2> QED
      BY <1>1, <1>2, <1>3, <1>5, <2>2, <2>3
  <1>6. CASE phase \in {"new", "refused", "failed"}
    <2>1. BinFile \notin DOMAIN disk /\ next = 0
      BY <1>6 DEF BinCueInv, NoFiles
    <2> QED
      BY <1>2, <1>6, <2>1
  <1> QED
    BY <1>5, <1>6 DEF Frame

-----------------------------------------------------------------------------
(* NRG: what a burner finds.                                               *)

\* The sectors an NRG image has a place for are those of its tracks.
LEMMA TrackSectors ==
    ASSUME NEW d \in Discs, NEW l
    PROVE  l \in Wanted("nrg", d) <=> \E k : InTrack(d, k, l)
  <1>1. Wanted("nrg", d) = AllSectors(d) \ Pregaps(d)
    BY DEF Wanted
  <1>2. DiscEnd(d) \in Nat
    BY TracksInOrder
  <1>3. ASSUME NEW k, InTrack(d, k, l) PROVE l \in AllSectors(d) /\ l \notin Pregaps(d)
    <2>1. k \in 0 .. Len(d.tracks) /\ l \in Start(d, k) .. Stop(d, k) - 1
      BY <1>3 DEF InTrack
    <2>2. Start(d, k) \in Nat /\ Stop(d, k) \in Nat /\ Stop(d, k) <= DiscEnd(d)
      BY <2>1, TracksInOrder
    <2>3. l \in AllSectors(d) /\ l \in Int
      BY <1>2, <2>1, <2>2 DEF AllSectors
    <2>4. ASSUME l \in Pregaps(d) PROVE FALSE
      <3>1. PICK j \in DOMAIN d.tracks : l \in PregapAt(d, j) .. StartAt(d, j) - 1
        BY <2>4 DEF Pregaps
      <3>2. j \in 1 .. Len(d.tracks)
        BY <3>1, DiscShape
      <3>3. PregapAt(d, j) \in Nat /\ StartAt(d, j) = Start(d, j)
        BY <3>2, TracksInOrder
      <3>4. Len(d.tracks) \in Nat
        BY DiscShape
      <3>5. j \in 0 .. Len(d.tracks) /\ j # 0
        BY <3>2, <3>4
      <3>6. Start(d, j) \in Nat
        BY <3>5, TracksInOrder
      <3>7. PregapAt(d, j) <= l /\ l < Start(d, j)
        BY <2>3, <3>1, <3>3, <3>6
      <3>8. InPart(d, j, 1, l)
        BY <3>5, <3>7 DEF InPart, IsPart, PartFrom, PartTo
      <3> QED
        BY <1>3, <3>8, PregapsApart
    <2> QED
      BY <2>3, <2>4
  <1>4. ASSUME l \in AllSectors(d), l \notin Pregaps(d) PROVE \E k : InTrack(d, k, l)
    <2>1. l \in Nat /\ l < DiscEnd(d)
      BY <1>2, <1>4 DEF AllSectors
    <2>2. PICK k \in 0 .. Len(d.tracks), c \in {1, 2} : InPart(d, k, c, l)
      BY <2>1, PartExists
    <2>3. IsPart(d, k, c) /\ PartFrom(d, k, c) <= l /\ l < PartTo(d, k, c)
      BY <2>2 DEF InPart
    <2>4. PartFrom(d, k, c) \in Nat /\ PartTo(d, k, c) \in Nat
      BY <2>3, PartsInOrder
    <2>5. l \in PartFrom(d, k, c) .. PartTo(d, k, c) - 1
      BY <2>1, <2>3, <2>4
    <2>6. CASE c = 1
      <3>1. k \in 1 .. Len(d.tracks)
        BY <2>2, <2>3, <2>6 DEF IsPart
      <3>2. PartFrom(d, k, c) = PregapAt(d, k) /\ PartTo(d, k, c) = StartAt(d, k)
        BY <2>6, <3>1, TracksInOrder DEF PartFrom, PartTo
      <3>3. k \in DOMAIN d.tracks
        BY <3>1, DiscShape
      <3> QED
        BY <1>4, <2>5, <3>2, <3>3 DEF Pregaps
    <2>7. CASE c = 2
      <3>1. PartFrom(d, k, c) = Start(d, k) /\ PartTo(d, k, c) = Stop(d, k)
        BY <2>7 DEF PartFrom, PartTo
      <3> QED
        BY <2>2, <2>5, <3>1 DEF InTrack
    <2> QED
      BY <2>6, <2>7
  <1> QED
    BY <1>1, <1>3, <1>4

\* Before the tail: the sectors that are in the file.
LEMMA BodyFound ==
    ASSUME NEW d \in Discs, NEW n \in Nat, NEW file, NrgBody(file, d, n),
           \A o \in DOMAIN file : InBody(d, n, o)
    PROVE  {file[at].lsn : at \in DOMAIN file} = WantedBefore("nrg", d, n)
  <1>1. ASSUME NEW o \in DOMAIN file PROVE file[o].lsn \in WantedBefore("nrg", d, n)
    <2>1. PICK k \in 0 .. Len(d.tracks) : \E l \in Start(d, k) .. Stop(d, k) - 1 :
             l < n /\ o = Spot(d, k, l)
      BY <1>1 DEF InBody
    <2>2. PICK l \in Start(d, k) .. Stop(d, k) - 1 : l < n /\ o = Spot(d, k, l)
      BY <2>1
    <2>3. file[o] = SectorOf(l, M2RAW_SIZE)
      BY <2>2 DEF NrgBody
    <2>4. file[o].lsn = l
      BY <2>3 DEF SectorOf
    <2>5. InTrack(d, k, l)
      BY DEF InTrack
    <2> QED
      BY <2>2, <2>4, <2>5, TrackSectors DEF WantedBefore
  <1>2. ASSUME NEW l \in WantedBefore("nrg", d, n)
        PROVE  \E o \in DOMAIN file : l = file[o].lsn
    <2>1. l \in Wanted("nrg", d) /\ l < n
      BY <1>2 DEF WantedBefore
    <2>2. PICK k : InTrack(d, k, l)
      BY <2>1, TrackSectors
    <2>3. Spot(d, k, l) \in DOMAIN file /\ file[Spot(d, k, l)] = SectorOf(l, M2RAW_SIZE)
      BY <2>1, <2>2 DEF InTrack, NrgBody
    <2> QED
      BY <2>3 DEF SectorOf
  <1> QED
    BY <1>1, <1>2

\* The footer, at the end of the file, leads to the descriptions of all tracks.
LEMMA TailReads ==
    ASSUME NEW d \in Discs, NEW files, NrgEnd(files[NrgFile], d)
    PROVE  NrgTracks(files) = [k \in 1 .. Len(d.tracks) + 1 |-> TrackOnDisc(d, k - 1)]
  <1> DEFINE file == files[NrgFile]
             m == Len(d.tracks)
             rest == EtnfAt(d, m + 1)
             footer == Max(DOMAIN file)
             from == file[footer].len
             number == file[from].len \div ETNF_SIZE
  <1>1. m \in Nat /\ TailAt(d) \in Nat /\ rest \in Nat
    <2>1. m \in Nat /\ m + 1 \in Nat
      BY DiscShape
    <2> QED
      BY <2>1, TailPlace
  <1>2. /\ rest + 20 \in DOMAIN file
        /\ file[rest + 20] = Chunk("NERO", TailAt(d))
        /\ \A o \in DOMAIN file : o \in Nat /\ o <= rest + 20
        /\ file[TailAt(d)] = Chunk("ETNF", (m + 1) * ETNF_SIZE)
        /\ \A k \in 0 .. m : file[EtnfAt(d, k)] = TrackOnDisc(d, k)
    BY DEF NrgEnd
  <1>3. NrgTracks(files) = [k \in 1 .. number |-> file[from + CHUNK_SIZE + (k - 1) * ETNF_SIZE]]
    BY DEF NrgTracks
  <1>4. footer = rest + 20
    <2> HIDE DEF rest, file
    <2>1. \A o \in DOMAIN file : rest + 20 >= o
      BY <1>1, <1>2
    <2>2. footer \in DOMAIN file /\ \A o \in DOMAIN file : footer >= o
      BY <1>2, <2>1 DEF Max
    <2> QED
      BY <1>1, <1>2, <2>1, <2>2
  <1>5. from = TailAt(d)
    BY <1>2, <1>4 DEF Chunk
  <1>6. number = m + 1
    <2>1. file[from].len = 20 * (m + 1) + 0
      BY <1>1, <1>2, <1>5 DEF Chunk, ETNF_SIZE
    <2>2. 20 \in Nat \ {0} /\ m + 1 \in Nat /\ 0 \in 0 .. 20 - 1
      BY <1>1
    <2> DEFINE b == 20
               q == m + 1
               r == 0
    <2>3. b \in Nat \ {0} /\ q \in Nat /\ r \in 0 .. b - 1
      BY <2>2
    <2> HIDE DEF b, q, r
    <2>4. (b * q + r) \div b = q
      BY <2>3, DivUnique
    <2> QED
      BY <2>1, <2>4 DEF b, q, r, ETNF_SIZE
  <1>7. ASSUME NEW k \in 1 .. m + 1
        PROVE  file[from + CHUNK_SIZE + (k - 1) * ETNF_SIZE] = TrackOnDisc(d, k - 1)
    <2>1. k - 1 \in 0 .. m
      BY <1>1
    <2>2. from + CHUNK_SIZE + (k - 1) * ETNF_SIZE = EtnfAt(d, k - 1)
      BY <1>5 DEF EtnfAt
    <2> QED
      BY <1>2, <2>1, <2>2
  <1> HIDE DEF number, from, file
  <1> QED
    BY <1>3, <1>6, <1>7

\* The sectors of a track of the disc, as far as they are where its description says.
TrackFound(file, start, t) ==
    {start + n : n \in {m \in 0 .. t.length \div M2RAW_SIZE - 1 :
        LET at == t.start + m * M2RAW_SIZE
        IN  at \in DOMAIN file /\ file[at] = [lsn |-> start + m, size |-> M2RAW_SIZE]}}

LEMMA TrackFoundIs ==
    ASSUME NEW d \in Discs, NEW file, NrgBody(file, d, DiscEnd(d)), NEW k \in 0 .. Len(d.tracks)
    PROVE  TrackFound(file, Start(d, k), TrackOnDisc(d, k)) = Start(d, k) .. Stop(d, k) - 1
  <1> DEFINE t == TrackOnDisc(d, k)
             from == Start(d, k)
             to == Stop(d, k)
             len == to - from
             sector(m) == [lsn |-> from + m, size |-> M2RAW_SIZE]
  <1>1. /\ from \in Nat /\ to \in Nat /\ from < to /\ to <= DiscEnd(d) /\ DiscEnd(d) \in Nat
        /\ len \in Nat
    BY TracksInOrder
  <1>2. t.length = len * M2RAW_SIZE /\ t.start = Spot(d, k, from)
    BY DEF TrackOnDisc
  <1>3. M2RAW_SIZE \in Nat \ {0}
    BY CueAssumption
  <1>4. Skip(d)[k] \in Nat
    BY SkipsFit
  <1> HIDE DEF t, from, to, len
  <1>5. t.length \div M2RAW_SIZE = len
    <2> DEFINE r == 0
    <2>1. r \in 0 .. M2RAW_SIZE - 1 /\ M2RAW_SIZE * len + r = t.length
      BY <1>1, <1>2, <1>3
    <2> HIDE DEF r
    <2> QED
      BY <1>1, <1>3, <2>1, DivUnique
  <1>6. ASSUME NEW m \in 0 .. len - 1
        PROVE  t.start + m * M2RAW_SIZE \in DOMAIN file /\ file[t.start + m * M2RAW_SIZE] = sector(m)
    <2>1. from + m \in Start(d, k) .. Stop(d, k) - 1 /\ from + m < DiscEnd(d)
      BY <1>1 DEF from, to, len
    <2>2. Spot(d, k, from + m) \in DOMAIN file /\ file[Spot(d, k, from + m)] = SectorOf(from + m, M2RAW_SIZE)
      BY <2>1 DEF NrgBody
    <2>3. Spot(d, k, from + m) = t.start + m * M2RAW_SIZE
      BY <1>1, <1>2, <1>3, <1>4 DEF Spot
    <2> QED
      BY <2>2, <2>3 DEF SectorOf
  <1>7. TrackFound(file, from, t)
          = {from + n : n \in {m \in 0 .. len - 1 :
               t.start + m * M2RAW_SIZE \in DOMAIN file /\ file[t.start + m * M2RAW_SIZE] = sector(m)}}
    BY <1>5 DEF TrackFound
  <1>8. TrackFound(file, from, t) = {from + n : n \in 0 .. len - 1}
    BY <1>6, <1>7
  <1>9. {from + n : n \in 0 .. len - 1} = from .. to - 1
    <2>1. ASSUME NEW l \in from .. to - 1 PROVE \E n \in 0 .. len - 1 : l = from + n
      <3>1. l - from \in 0 .. len - 1 /\ l = from + (l - from)
        BY <1>1 DEF len
      <3> QED
        BY <3>1
    <2>2. \A n \in 0 .. len - 1 : from + n \in from .. to - 1
      BY <1>1 DEF len
    <2> QED
      BY <2>1, <2>2
  <1> QED
    BY <1>8, <1>9 DEF t, from, to

\* With the tail: every sector of every track.
LEMMA TailFound ==
    ASSUME NEW d \in Discs, NEW files, NrgBody(files[NrgFile], d, DiscEnd(d)),
           NrgEnd(files[NrgFile], d), NEW starts,
           \A k \in 1 .. Len(d.tracks) + 1 : starts[k] = Start(d, k - 1)
    PROVE  NrgSectors(files, starts) = WantedBefore("nrg", d, DiscEnd(d))
  <1> DEFINE file == files[NrgFile]
             tracks == NrgTracks(files)
             m == Len(d.tracks)
  <1>1. NrgSectors(files, starts) = UNION {TrackFound(file, starts[k], tracks[k]) : k \in DOMAIN tracks}
    BY DEF NrgSectors, TrackFound
  <1>2. tracks = [k \in 1 .. m + 1 |-> TrackOnDisc(d, k - 1)]
    BY TailReads
  <1> HIDE DEF tracks, file
  <1>3. DOMAIN tracks = 1 .. m + 1
    BY <1>2
  <1>4. m \in Nat
    BY DiscShape
  <1>5. ASSUME NEW k \in 1 .. m + 1
        PROVE  TrackFound(file, starts[k], tracks[k]) = Start(d, k - 1) .. Stop(d, k - 1) - 1
    <2>1. k - 1 \in 0 .. m
      BY <1>4
    <2>2. starts[k] = Start(d, k - 1) /\ tracks[k] = TrackOnDisc(d, k - 1)
      BY <1>2
    <2> DEFINE j == k - 1
    <2>3. j \in 0 .. m
      BY <2>1
    <2> HIDE DEF j
    <2>4. TrackFound(file, Start(d, j), TrackOnDisc(d, j)) = Start(d, j) .. Stop(d, j) - 1
      BY <2>3, TrackFoundIs DEF file
    <2> QED
      BY <2>2, <2>4 DEF j
  <1>6. ASSUME NEW l \in NrgSectors(files, starts) PROVE l \in WantedBefore("nrg", d, DiscEnd(d))
    <2>1. PICK k \in 1 .. m + 1 : l \in Start(d, k - 1) .. Stop(d, k - 1) - 1
      BY <1>1, <1>3, <1>5, <1>6
    <2>2. k - 1 \in 0 .. m
      BY <1>4
    <2>3. InTrack(d, k - 1, l)
      BY <2>1, <2>2 DEF InTrack
    <2>4. l \in Wanted("nrg", d)
      BY <2>3, TrackSectors
    <2> QED
      BY <2>4, TracksInOrder DEF WantedBefore, Wanted, AllSectors
  <1>7. ASSUME NEW l \in WantedBefore("nrg", d, DiscEnd(d)) PROVE l \in NrgSectors(files, starts)
    <2>1. PICK k : InTrack(d, k, l)
      BY <1>7, TrackSectors DEF WantedBefore
    <2>2. k \in 0 .. m /\ l \in Start(d, k) .. Stop(d, k) - 1
      BY <2>1 DEF InTrack
    <2> DEFINE i == k + 1
    <2>3. i \in 1 .. m + 1 /\ i - 1 = k
      BY <1>4, <2>2
    <2> HIDE DEF i
    <2>4. TrackFound(file, starts[i], tracks[i]) = Start(d, k) .. Stop(d, k) - 1
      BY <1>5, <2>3
    <2> QED
      BY <1>1, <1>3, <2>2, <2>3, <2>4
  <1> QED
    BY <1>6, <1>7

\* NRG: Found at every sector.  A call that fails changes no file.
LEMMA NrgFound ==
    ASSUME Frame, kind = "nrg", NrgInv
    PROVE  /\ phase \in {"writing", "exited", "done"} => Found = WantedBefore(kind, disc, next)
           /\ phase \in {"new", "refused"} => Found = {} /\ next = 0
  <1>1. disc \in Discs /\ next \in Nat /\ DiscEnd(disc) \in Nat \ {0} /\ next <= DiscEnd(disc)
    BY TracksInOrder DEF Frame
  <1>2. Found = IF NrgFile \in DOMAIN disk
                THEN IF next = DiscEnd(disc) /\ phase # "failed" THEN NrgSectors(disk, TrackStarts)
                     ELSE {disk[NrgFile][at].lsn : at \in DOMAIN disk[NrgFile]}
                ELSE {}
    BY DEF Found
  <1>3. ASSUME disk = NoFiles PROVE Found = {}
    BY <1>2, <1>3 DEF NoFiles
  <1>4. WantedBefore("nrg", disc, 0) = {}
    <2>1. \A l \in Wanted("nrg", disc) : l \in Nat
      BY <1>1 DEF Wanted, AllSectors
    <2> QED
      BY <2>1 DEF WantedBefore
  <1>5. \A k \in 1 .. Len(disc.tracks) + 1 : TrackStarts[k] = Start(disc, k - 1)
    <2> DEFINE starts == [k \in DOMAIN disc.tracks |-> StartAt(disc, k)]
    <2>1. Len(disc.tracks) \in Nat /\ DOMAIN disc.tracks = 1 .. Len(disc.tracks)
      BY <1>1, DiscShape
    <2>2. \A k \in 1 .. Len(disc.tracks) : starts[k] = Start(disc, k) /\ starts[k] \in Nat
      <3> SUFFICES ASSUME NEW k \in 1 .. Len(disc.tracks)
                   PROVE  starts[k] = Start(disc, k) /\ starts[k] \in Nat
        OBVIOUS
      <3>1. StartAt(disc, k) = Start(disc, k)
        BY <1>1, TracksInOrder
      <3>2. k \in 0 .. Len(disc.tracks)
        BY <2>1
      <3>3. Start(disc, k) \in Nat
        BY <1>1, <3>2, TracksInOrder
      <3> QED
        BY <2>1, <3>1, <3>3
    <2>3. starts \in [1 .. Len(disc.tracks) -> Nat]
      BY <2>1, <2>2
    <2>4. starts \in Seq(Nat) /\ Len(starts) = Len(disc.tracks)
      BY <2>1, <2>3
    <2>5. <<0>> \in Seq(Nat) /\ Len(<<0>>) = 1 /\ <<0>>[1] = 0
      OBVIOUS
    <2>6. TrackStarts = <<0>> \o starts
      BY DEF TrackStarts
    <2> HIDE DEF starts
    <2> DEFINE first == <<0>>
    <2>7. first \in Seq(Nat) /\ Len(first) = 1 /\ first[1] = 0 /\ TrackStarts = first \o starts
      BY <2>5, <2>6
    <2> HIDE DEF first
    <2>8. Behind(first, starts, first \o starts)
      BY <2>4, <2>7, Joined
    <2>9. \A p \in 1 .. 1 + Len(disc.tracks) :
             TrackStarts[p] = IF p <= 1 THEN first[p] ELSE starts[p - 1]
      BY <2>4, <2>7, <2>8 DEF Behind
    <2> SUFFICES ASSUME NEW k \in 1 .. Len(disc.tracks) + 1 PROVE TrackStarts[k] = Start(disc, k - 1)
      OBVIOUS
    <2>10. k \in 1 .. 1 + Len(disc.tracks)
      BY <2>1
    <2>11. CASE k = 1
      <3>1. TrackStarts[k] = 0
        BY <2>7, <2>9, <2>10, <2>11
      <3>2. k - 1 = 0
        BY <2>11
      <3>3. Start(disc, 0) = 0
        BY <1>1, TracksInOrder
      <3> QED
        BY <3>1, <3>2, <3>3
    <2>12. CASE k # 1
      <3>1. k - 1 \in 1 .. Len(disc.tracks) /\ ~(k <= 1)
        BY <2>1, <2>12
      <3>2. TrackStarts[k] = starts[k - 1]
        BY <2>9, <2>10, <3>1
      <3> QED
        BY <2>2, <3>1, <3>2
    <2> QED
      BY <2>11, <2>12
  <1>6. ASSUME NrgDisk(disk, disc, next), phase # "failed"
        PROVE  Found = WantedBefore(kind, disc, next)
    <2>1. NrgFile \in DOMAIN disk /\ NrgBody(disk[NrgFile], disc, next)
      BY <1>6 DEF NrgDisk
    <2>2. CASE next = DiscEnd(disc)
      <3>1. Found = NrgSectors(disk, TrackStarts)
        BY <1>2, <1>6, <2>1, <2>2
      <3>2. NrgEnd(disk[NrgFile], disc) /\ NrgBody(disk[NrgFile], disc, DiscEnd(disc))
        BY <1>6, <2>1, <2>2 DEF NrgDisk
      <3> DEFINE starts == TrackStarts
      <3>3. \A k \in 1 .. Len(disc.tracks) + 1 : starts[k] = Start(disc, k - 1)
        BY <1>5
      <3> HIDE DEF starts
      <3>4. NrgSectors(disk, starts) = WantedBefore("nrg", disc, DiscEnd(disc))
        BY <1>1, <3>2, <3>3, TailFound
      <3> QED
        BY <2>2, <3>1, <3>4 DEF starts
    <2>3. CASE next # DiscEnd(disc)
      <3>1. Found = {disk[NrgFile][at].lsn : at \in DOMAIN disk[NrgFile]}
        BY <1>2, <2>1, <2>3
      <3> DEFINE file == disk[NrgFile]
      <3>2. NrgBody(file, disc, next) /\ \A o \in DOMAIN file : InBody(disc, next, o)
        BY <1>6, <2>1, <2>3 DEF NrgDisk
      <3>3. Found = {file[at].lsn : at \in DOMAIN file}
        BY <3>1
      <3> HIDE DEF file
      <3>4. {file[at].lsn : at \in DOMAIN file} = WantedBefore("nrg", disc, next)
        BY <1>1, <3>2, BodyFound
      <3> QED
        BY <3>3, <3>4
    <2> QED
      BY <2>2, <2>3
  <1>7. CASE phase \in {"writing", "exited"}
    <2>1. NrgBefore(user_data, disk, disc, next)
      BY <1>7 DEF NrgInv
    <2>2. CASE next = 0
      <3>1. disk = NoFiles
        BY <2>1, <2>2 DEF NrgBefore
      <3> QED
        BY <1>3, <1>4, <1>7, <2>2, <3>1
    <2>3. CASE next > 0
      <3>1. NrgDisk(disk, disc, next)
        BY <2>1, <2>3 DEF NrgBefore
      <3> QED
        BY <1>6, <1>7, <3>1
    <2> QED
      BY <1>1, <1>7, <2>2, <2>3
  <1>8. CASE phase = "done"
    <2>1. NrgDisk(disk, disc, next)
      BY <1>8 DEF NrgInv
    <2> QED
      BY <1>6, <1>8, <2>1
  <1>9. CASE phase \in {"new", "refused"}
    <2>1. disk = NoFiles /\ next = 0
      BY <1>9 DEF NrgInv
    <2> QED
      BY <1>3, <1>9, <2>1
  <1> QED
    BY <1>7, <1>8, <1>9

\* What the descriptions of a finished image say.
LEMMA NrgSays ==
    ASSUME Frame, kind = "nrg", NrgInv, phase = "done"
    PROVE  /\ Len(NrgTracks(disk)) = Len(disc.tracks) + 1
           /\ \A k \in DOMAIN NrgTracks(disk) :
                 NrgTracks(disk)[k].start_lsn * M2RAW_SIZE = NrgTracks(disk)[k].start
  <1> DEFINE tracks == NrgTracks(disk)
  <1>1. disc \in Discs /\ Len(disc.tracks) \in Nat
    BY DiscShape DEF Frame
  <1>2. NrgEnd(disk[NrgFile], disc)
    BY DEF NrgInv, NrgDisk
  <1>3. tracks = [k \in 1 .. Len(disc.tracks) + 1 |-> TrackOnDisc(disc, k - 1)]
    BY <1>1, <1>2, TailReads
  <1> HIDE DEF tracks
  <1>4. DOMAIN tracks = 1 .. Len(disc.tracks) + 1 /\ Len(disc.tracks) + 1 \in Nat
    BY <1>1, <1>3
  <1>5. Len(tracks) = Len(disc.tracks) + 1
    BY <1>4, LenProperties, <1>3, <1>1
  <1>6. ASSUME NEW k \in DOMAIN tracks PROVE tracks[k].start_lsn * M2RAW_SIZE = tracks[k].start
    <2>1. tracks[k] = TrackOnDisc(disc, k - 1)
      BY <1>3, <1>4, <1>6
    <2> QED
      BY <2>1 DEF TrackOnDisc, Spot
  <1> QED
    BY <1>5, <1>6 DEF tracks

-----------------------------------------------------------------------------
(* cdrdao: what a burner finds.                                            *)

\* The data files whose length is known.
LengthsKnown(files) == \A l \in TocLineType : l.line = "DATAFILE" => FileLength(files, l) \in Nat

\* The sectors of a text's data files.
Total(files, text) == DataOf(0, text, files)

Adds(files, l) == IF l.line = "DATAFILE" THEN FileLength(files, l) ELSE 0

LEMMA AddsType ==
    ASSUME NEW files, LengthsKnown(files), NEW l \in TocLineType
    PROVE  Adds(files, l) \in Nat
  BY DEF Adds, LengthsKnown

LEMMA TotalRuns ==
    ASSUME NEW files, LengthsKnown(files), NEW text \in Seq(TocLineType)
    PROVE  \E run \in [0 .. Len(text) -> Nat] :
              /\ run[0] = 0
              /\ \A k \in 1 .. Len(text) : run[k] = run[k - 1] + Adds(files, text[k])
              /\ Total(files, text) = run[Len(text)]
  <1> DEFINE zero == 0
             E == TocLineType
             G == Nat
  <1>1. ASSUME NEW s \in G, NEW e \in E PROVE WithData(s, e, files) \in G /\ WithData(s, e, files) = s + Adds(files, e)
    <2>1. Adds(files, e) \in Nat
      BY AddsType
    <2>2. WithData(s, e, files) = s + Adds(files, e)
      BY DEF WithData, Adds
    <2> QED
      BY <2>1, <2>2
  <1>2. DataInto(G, E, files)
    BY <1>1 DEF DataInto
  <1>3. zero \in G /\ text \in Seq(E) /\ Len(text) \in Nat /\ \A k \in 1 .. Len(text) : text[k] \in E
    BY LenProperties, ElementOfSeq
  <1> HIDE DEF zero, E, G
  <1>4. PICK run \in [0 .. Len(text) -> G] : DataRun(run, zero, text, files)
    BY <1>2, <1>3, DataRuns
  <1>5. ASSUME NEW k \in 1 .. Len(text) PROVE run[k] = run[k - 1] + Adds(files, text[k])
    <2>1. run[k] = WithData(run[k - 1], text[k], files)
      BY <1>4 DEF DataRun
    <2>2. run[k - 1] \in G /\ text[k] \in E
      <3>1. k - 1 \in 0 .. Len(text)
        BY <1>3
      <3> QED
        BY <1>3, <1>4, <3>1
    <2> QED
      BY <1>1, <2>1, <2>2
  <1>6. run[0] = zero /\ Total(files, text) = run[Len(text)]
    BY <1>4 DEF DataRun, Total, zero
  <1> QED
    BY <1>4, <1>5, <1>6 DEF G, zero

\* A line more.
LEMMA TotalMore ==
    ASSUME NEW files, LengthsKnown(files), NEW text \in Seq(TocLineType), NEW e \in TocLineType
    PROVE  /\ Total(files, text) \in Nat
           /\ Total(files, Append(text, e)) = Total(files, text) + Adds(files, e)
  <1> DEFINE l == Len(text)
             more == Append(text, e)
  <1>1. /\ l \in Nat /\ Len(more) = l + 1 /\ more \in Seq(TocLineType)
        /\ \A j \in 1 .. l : more[j] = text[j]
        /\ more[l + 1] = e
    BY AppendProperties, LenProperties
  <1>2. PICK was \in [0 .. l -> Nat] :
              /\ was[0] = 0
              /\ \A k \in 1 .. l : was[k] = was[k - 1] + Adds(files, text[k])
              /\ Total(files, text) = was[l]
    BY TotalRuns
  <1> HIDE DEF more
  <1>3. PICK is \in [0 .. l + 1 -> Nat] :
              /\ is[0] = 0
              /\ \A k \in 1 .. l + 1 : is[k] = is[k - 1] + Adds(files, more[k])
              /\ Total(files, more) = is[l + 1]
    <2>1. \E run \in [0 .. Len(more) -> Nat] :
              /\ run[0] = 0
              /\ \A k \in 1 .. Len(more) : run[k] = run[k - 1] + Adds(files, more[k])
              /\ Total(files, more) = run[Len(more)]
      BY <1>1, TotalRuns
    <2> QED
      BY <1>1, <2>1
  <1> HIDE DEF l
  <1> DEFINE T == {j \in Nat : j <= l => was[j] = is[j]}
  <1>4. 0 \in T
    BY <1>2, <1>3
  <1>5. ASSUME NEW j \in Nat, j \in T PROVE j + 1 \in T
    <2> SUFFICES ASSUME j + 1 <= l PROVE was[j + 1] = is[j + 1]
      OBVIOUS
    <2>1. j <= l /\ j + 1 \in 1 .. l /\ j + 1 \in 1 .. l + 1 /\ j + 1 - 1 = j
      BY <1>1
    <2>2. was[j] = is[j]
      BY <1>5, <2>1
    <2>3. was[j + 1] = was[j] + Adds(files, text[j + 1])
      BY <1>2, <2>1
    <2>4. is[j + 1] = is[j] + Adds(files, more[j + 1])
      BY <1>3, <2>1
    <2> QED
      BY <1>1, <2>1, <2>2, <2>3, <2>4
  <1> HIDE DEF T
  <1>6. Nat \subseteq T
    BY <1>4, <1>5, NatSetInduction
  <1>7. l \in T
    BY <1>1, <1>6
  <1>8. was[l] = is[l] /\ was[l] \in Nat
    BY <1>1, <1>2, <1>7 DEF T
  <1>9. is[l + 1] = is[l] + Adds(files, e)
    <2> DEFINE k == l + 1
    <2>1. k \in 1 .. l + 1 /\ k - 1 = l
      BY <1>1
    <2> HIDE DEF k
    <2>2. is[k] = is[k - 1] + Adds(files, more[k])
      BY <1>3, <2>1
    <2> QED
      BY <1>1, <2>1, <2>2 DEF k
  <1> QED
    BY <1>2, <1>3, <1>8, <1>9 DEF more

\* What is before a line stays as it is.
LEMMA DataAtMore ==
    ASSUME NEW files, NEW text \in Seq(TocLineType), NEW e \in TocLineType
    PROVE  /\ \A k \in 1 .. Len(text) : DataAt(files, Append(text, e), k) = DataAt(files, text, k)
           /\ DataAt(files, Append(text, e), Len(text) + 1) = Total(files, text)
  <1> DEFINE l == Len(text)
             more == Append(text, e)
  <1>1. /\ l \in Nat /\ Len(more) = l + 1 /\ more \in Seq(TocLineType)
        /\ \A j \in 1 .. l : more[j] = text[j]
        /\ text = [j \in 1 .. l |-> text[j]]
    BY AppendProperties, LenProperties
  <1>2. \A t, k : DataAt(files, t, k) = DataOf(0, SubSeq(t, 1, k - 1), files)
    BY DEF DataAt, DataOf
  <1> HIDE DEF more, l
  <1>3. ASSUME NEW k \in 1 .. l PROVE SubSeq(more, 1, k - 1) = SubSeq(text, 1, k - 1)
    BY <1>1 DEF l
  <1>4. SubSeq(more, 1, l) = text
    BY <1>1 DEF l
  <1>5. \A k \in 1 .. l : DataAt(files, more, k) = DataAt(files, text, k)
    BY <1>2, <1>3
  <1>6. DataAt(files, more, l + 1) = Total(files, text)
    <2> DEFINE k == l + 1
    <2>1. k - 1 = l
      BY <1>1
    <2> HIDE DEF k
    <2>2. DataAt(files, more, k) = DataOf(0, SubSeq(more, 1, k - 1), files)
      BY <1>2
    <2> QED
      BY <1>4, <2>1, <2>2 DEF Total, k
  <1> QED
    BY <1>5, <1>6 DEF more, l

\* Where the data files of a text are on the disc: <<track, line, sector>>.
Span(files, text, k) == <<TrackOf(text, k), text[k], DataAt(files, text, k)>>

Spans(files, text) ==
    {Span(files, text, k) : k \in {j \in DOMAIN text : text[j].line = "DATAFILE"}}

\* The line of the file a track's index points count from, and where its data is.
HeadLine(text, j, t) == text[j].line = "DATAFILE" /\ ~text[j].pregap /\ TrackOf(text, j) = t

Headed(files, text, t, l, s) ==
    /\ \E j \in 1 .. l : HeadLine(text, j, t)
    /\ \A j \in 1 .. l : HeadLine(text, j, t) => DataAt(files, text, j) = s

Unheaded(text) == \A j \in 1 .. Len(text) : ~HeadLine(text, j, Tracks(text))

\* The index lines of a track up to a line.
IndexLines(text, k, t) == {j \in 1 .. k : text[j].line = "INDEX" /\ TrackOf(text, j) = t}

IndexCount(text) == Cardinality(IndexLines(text, Len(text), Tracks(text)))

\* Where the index points of a text are.
Entry(files, text, k) ==
    <<TrackOf(text, k), TocIndexNo(text, k), TocTrackAt(files, text, k) + text[k].at>>

Entries(files, text) ==
    {Entry(files, text, k) : k \in {j \in DOMAIN text : text[j].line = "INDEX"}}

\* Each has a file to count from.
Rooted(files, text) ==
    \A k \in DOMAIN text : text[k].line = "INDEX" => \E s : Headed(files, text, TrackOf(text, k), k, s)

\* The lines up to a line are the same in a longer text.
Prefix(files, text, more) ==
    /\ Len(text) \in Nat
    /\ DOMAIN text = 1 .. Len(text)
    /\ DOMAIN more = 1 .. Len(text) + 1
    /\ Len(more) = Len(text) + 1
    /\ \A j \in 1 .. Len(text) : /\ more[j] = text[j]
                                 /\ TrackOf(more, j) = TrackOf(text, j)
                                 /\ DataAt(files, more, j) = DataAt(files, text, j)
    /\ Tracks(text) \in Nat
    /\ TrackOf(more, Len(text) + 1) = Tracks(more)
    /\ DataAt(files, more, Len(text) + 1) = Total(files, text)

LEMMA PrefixIs ==
    ASSUME NEW files, NEW text \in Seq(TocLineType), NEW e \in TocLineType
    PROVE  /\ Prefix(files, text, Append(text, e))
           /\ Append(text, e)[Len(text) + 1] = e
           /\ Tracks(Append(text, e)) = Tracks(text) + (IF e.line = "TRACK" THEN 1 ELSE 0)
           /\ Append(text, e) \in Seq(TocLineType)
  <1> DEFINE more == Append(text, e)
             l == Len(text)
             E == TocLineType
  <1>1. text \in Seq(E) /\ e \in E
    OBVIOUS
  <1>2. /\ l \in Nat /\ Len(more) = l + 1 /\ more \in Seq(E)
        /\ DOMAIN text = 1 .. l /\ DOMAIN more = 1 .. l + 1
        /\ \A j \in 1 .. l : more[j] = text[j]
        /\ more[l + 1] = e
    BY AppendProperties, LenProperties
  <1>3. /\ \A k \in 1 .. l : DataAt(files, more, k) = DataAt(files, text, k)
        /\ DataAt(files, more, l + 1) = Total(files, text)
    BY DataAtMore
  <1> HIDE DEF E
  <1>4. /\ \A k \in 1 .. l : TrackOf(more, k) = TrackOf(text, k)
        /\ Tracks(text) \in Nat
        /\ Tracks(more) = Tracks(text) + (IF e.line = "TRACK" THEN 1 ELSE 0)
        /\ Tracks(more) = TrackOf(more, l + 1)
    BY <1>1, TracksMore
  <1> HIDE DEF more
  <1>5. Prefix(files, text, more)
    BY <1>2, <1>3, <1>4 DEF Prefix
  <1> QED
    BY <1>2, <1>4, <1>5 DEF more, E

\* No line is of a track that has not begun.
LEMMA TracksBound ==
    ASSUME NEW E, NEW text \in Seq(E), NEW k \in 1 .. Len(text)
    PROVE  TrackOf(text, k) \in Nat /\ TrackOf(text, k) <= Tracks(text)
  <1> DEFINE all == {j \in 1 .. Len(text) : text[j].line = "TRACK"}
             some == {j \in 1 .. k : text[j].line = "TRACK"}
  <1>1. Len(text) \in Nat
    BY LenProperties
  <1>2. IsFiniteSet(all)
    <2>1. IsFiniteSet(1 .. Len(text))
      BY <1>1, FS_Interval
    <2>2. all \in SUBSET (1 .. Len(text))
      OBVIOUS
    <2> QED
      BY <2>1, <2>2, FS_Subset
  <1>3. some \in SUBSET all
    BY <1>1
  <1>4. Cardinality(some) <= Cardinality(all) /\ IsFiniteSet(some)
    BY <1>2, <1>3, FS_Subset
  <1>5. Cardinality(some) \in Nat
    BY <1>4, FS_CardinalityType
  <1> QED
    BY <1>4, <1>5 DEF TrackOf, Tracks

\* The data files of a text with a line more.
LEMMA SpansMore ==
    ASSUME NEW files, NEW text, NEW more, Prefix(files, text, more), NEW e, e = more[Len(text) + 1]
    PROVE  Spans(files, more) = Spans(files, text)
             \cup (IF e.line = "DATAFILE" THEN {<<Tracks(more), e, Total(files, text)>>} ELSE {})
  <1> DEFINE l == Len(text)
             S(j) == Span(files, text, j)
             M(j) == Span(files, more, j)
             A == {j \in 1 .. l : text[j].line = "DATAFILE"}
             B == {j \in 1 .. l + 1 : more[j].line = "DATAFILE"}
  <1>1. /\ l \in Nat /\ DOMAIN text = 1 .. l /\ DOMAIN more = 1 .. l + 1
        /\ \A j \in 1 .. l : more[j] = text[j]
    BY DEF Prefix
  <1>2. \A j \in 1 .. l : M(j) = S(j)
    BY DEF Prefix, Span
  <1>3. M(l + 1) = <<Tracks(more), e, Total(files, text)>>
    BY DEF Prefix, Span
  <1>4. B = A \cup (IF e.line = "DATAFILE" THEN {l + 1} ELSE {})
    BY <1>1
  <1>5. Spans(files, text) = {S(j) : j \in A} /\ Spans(files, more) = {M(j) : j \in B}
    BY <1>1 DEF Spans
  <1>6. A \subseteq 1 .. l
    OBVIOUS
  <1> HIDE DEF S, M, A, B, l
  <1>7. {M(j) : j \in A} = {S(j) : j \in A}
    BY <1>2, <1>6
  <1> QED
    BY <1>3, <1>4, <1>5, <1>7

\* The file of a line's track does not depend on what is behind the line.
LEMMA HeadedMore ==
    ASSUME NEW files, NEW text, NEW more, Prefix(files, text, more), NEW t, NEW k \in 1 .. Len(text),
           NEW s, Headed(files, text, t, k, s)
    PROVE  Headed(files, more, t, k, s)
  <1>1. \A j \in 1 .. k : j \in 1 .. Len(text)
    BY DEF Prefix
  <1>2. \A j \in 1 .. k : HeadLine(more, j, t) <=> HeadLine(text, j, t)
    BY <1>1 DEF Prefix, HeadLine
  <1>3. \A j \in 1 .. k : DataAt(files, more, j) = DataAt(files, text, j)
    BY <1>1 DEF Prefix
  <1> QED
    BY <1>2, <1>3 DEF Headed

\* It says where the track starts.
LEMMA HeadedIs ==
    ASSUME NEW files, NEW text, NEW k, NEW s, Headed(files, text, TrackOf(text, k), k, s)
    PROVE  TocTrackAt(files, text, k) = s
  <1> DEFINE P(j) == text[j].line = "DATAFILE" /\ ~text[j].pregap /\ TrackOf(text, j) = TrackOf(text, k)
             i == CHOOSE j \in 1 .. k : P(j)
  <1>1. \E j \in 1 .. k : P(j)
    BY DEF Headed, HeadLine
  <1>2. i \in 1 .. k /\ P(i)
    BY <1>1
  <1>3. DataAt(files, text, i) = s
    BY <1>2 DEF Headed, HeadLine
  <1> QED
    BY <1>3 DEF TocTrackAt

\* The index points of a text with a line more.
LEMMA EntriesMore ==
    ASSUME NEW files, NEW text, NEW more, Prefix(files, text, more), Rooted(files, text),
           NEW e, e = more[Len(text) + 1]
    PROVE  /\ e.line # "INDEX" => Entries(files, more) = Entries(files, text) /\ Rooted(files, more)
           /\ \A s : e.line = "INDEX" /\ Headed(files, more, Tracks(more), Len(text) + 1, s) =>
                 /\ Entries(files, more)
                      = Entries(files, text) \cup {<<Tracks(more), 1 + IndexCount(more), s + e.at>>}
                 /\ Rooted(files, more)
  <1> DEFINE l == Len(text)
             S(j) == Entry(files, text, j)
             M(j) == Entry(files, more, j)
             A == {j \in 1 .. l : text[j].line = "INDEX"}
             B == {j \in 1 .. l + 1 : more[j].line = "INDEX"}
  <1>1. /\ l \in Nat /\ DOMAIN text = 1 .. l /\ DOMAIN more = 1 .. l + 1 /\ Len(more) = l + 1
        /\ \A j \in 1 .. l : more[j] = text[j] /\ TrackOf(more, j) = TrackOf(text, j)
        /\ TrackOf(more, l + 1) = Tracks(more)
    BY DEF Prefix
  <1>2. ASSUME NEW k \in A
        PROVE  M(k) = S(k) /\ \E s : Headed(files, more, TrackOf(more, k), k, s)
    <2>1. k \in 1 .. l /\ k \in 1 .. Len(text) /\ text[k].line = "INDEX"
      BY <1>2
    <2>2. PICK s : Headed(files, text, TrackOf(text, k), k, s)
      BY <1>1, <2>1 DEF Rooted
    <2>3. Headed(files, more, TrackOf(text, k), k, s)
      BY <2>1, <2>2, HeadedMore
    <2>4. TrackOf(more, k) = TrackOf(text, k) /\ more[k] = text[k]
      BY <1>1, <2>1
    <2>5. TocTrackAt(files, text, k) = s /\ TocTrackAt(files, more, k) = s
      BY <2>2, <2>3, <2>4, HeadedIs
    <2>6. TocIndexNo(more, k) = TocIndexNo(text, k)
      <3>1. \A j \in 1 .. k : j \in 1 .. l
        BY <1>1, <2>1
      <3>2. {j \in 1 .. k : more[j].line = "INDEX" /\ TrackOf(more, j) = TrackOf(more, k)}
              = {j \in 1 .. k : text[j].line = "INDEX" /\ TrackOf(text, j) = TrackOf(text, k)}
        BY <1>1, <2>4, <3>1
      <3> QED
        BY <3>2 DEF TocIndexNo
    <2> QED
      BY <2>3, <2>4, <2>5, <2>6 DEF Entry
  <1>3. B = A \cup (IF e.line = "INDEX" THEN {l + 1} ELSE {})
    BY <1>1
  <1>4. Entries(files, text) = {S(j) : j \in A} /\ Entries(files, more) = {M(j) : j \in B}
    BY <1>1 DEF Entries
  <1>5. Rooted(files, more) <=> \A k \in B : \E s : Headed(files, more, TrackOf(more, k), k, s)
    BY <1>1 DEF Rooted
  <1>6. ASSUME e.line # "INDEX"
        PROVE  Entries(files, more) = Entries(files, text) /\ Rooted(files, more)
    <2>1. B = A
      BY <1>3, <1>6
    <2> HIDE DEF S, M, A, B, l
    <2> QED
      BY <1>2, <1>4, <1>5, <2>1
  <1>7. ASSUME NEW s, e.line = "INDEX", Headed(files, more, Tracks(more), l + 1, s)
        PROVE  /\ Entries(files, more)
                    = Entries(files, text) \cup {<<Tracks(more), 1 + IndexCount(more), s + e.at>>}
               /\ Rooted(files, more)
    <2> DEFINE k == l + 1
    <2>1. TrackOf(more, k) = Tracks(more) /\ more[k] = e /\ Len(more) = k
      BY <1>1
    <2>2. B = A \cup {k}
      BY <1>3, <1>7
    <2>3. Headed(files, more, TrackOf(more, k), k, s)
      BY <1>7, <2>1
    <2> HIDE DEF k
    <2>4. TocTrackAt(files, more, k) = s
      BY <2>3, HeadedIs
    <2>5. TocIndexNo(more, k) = 1 + IndexCount(more)
      BY <2>1 DEF TocIndexNo, IndexCount, IndexLines
    <2>6. M(k) = <<Tracks(more), 1 + IndexCount(more), s + e.at>>
      BY <2>1, <2>4, <2>5 DEF Entry
    <2> HIDE DEF S, M, A, B, l
    <2>7. {M(j) : j \in B} = {S(j) : j \in A} \cup {M(k)}
      BY <1>2, <2>2
    <2>8. Rooted(files, more)
      BY <1>2, <1>5, <2>2, <2>3
    <2> QED
      BY <1>4, <2>6, <2>7, <2>8
  <1> QED
    BY <1>6, <1>7

\* The index lines of the last track of a text with a line more.
LEMMA IndexMore ==
    ASSUME NEW files, NEW text \in Seq(TocLineType), NEW more, Prefix(files, text, more), NEW e,
           e = more[Len(text) + 1], e.line \in {"TRACK", "DATAFILE", "INDEX"},
           Tracks(more) = Tracks(text) + (IF e.line = "TRACK" THEN 1 ELSE 0)
    PROVE  /\ IndexCount(text) \in Nat
           /\ e.line = "TRACK" => IndexCount(more) = 0
           /\ e.line = "DATAFILE" => IndexCount(more) = IndexCount(text)
           /\ e.line = "INDEX" => IndexCount(more) = IndexCount(text) + 1
  <1> DEFINE l == Len(text)
             t == Tracks(text)
             u == Tracks(more)
             was == IndexLines(text, l, t)
             is == IndexLines(more, l + 1, u)
             E == TocLineType
  <1>1. /\ l \in Nat /\ Len(more) = l + 1 /\ t \in Nat
        /\ \A j \in 1 .. l : more[j] = text[j] /\ TrackOf(more, j) = TrackOf(text, j)
        /\ TrackOf(more, l + 1) = u
    BY DEF Prefix
  <1>2. IsFiniteSet(was) /\ Cardinality(was) \in Nat
    <2>1. IsFiniteSet(1 .. l)
      BY <1>1, FS_Interval
    <2>2. was \in SUBSET (1 .. l)
      BY DEF IndexLines
    <2>3. IsFiniteSet(was)
      BY <2>1, <2>2, FS_Subset
    <2> QED
      BY <2>3, FS_CardinalityType
  <1>3. IndexCount(text) = Cardinality(was) /\ IndexCount(more) = Cardinality(is)
    BY <1>1 DEF IndexCount
  <1>4. \A j \in 1 .. l : TrackOf(text, j) \in Nat /\ TrackOf(text, j) <= t
    <2>1. text \in Seq(E)
      OBVIOUS
    <2> HIDE DEF E
    <2> QED
      BY <2>1, TracksBound
  <1> HIDE DEF l, t, u
  <1>5. CASE e.line = "TRACK"
    <2>1. u = t + 1
      BY <1>5 DEF t, u
    <2>2. ASSUME NEW j \in is PROVE FALSE
      <3>1. j \in 1 .. l + 1 /\ more[j].line = "INDEX" /\ TrackOf(more, j) = u
        BY <2>2 DEF IndexLines
      <3>2. j \in 1 .. l
        BY <1>1, <1>5, <3>1 DEF l
      <3> QED
        BY <1>1, <1>4, <2>1, <3>1, <3>2
    <2>3. is = {}
      BY <2>2
    <2> QED
      BY <1>2, <1>3, <1>5, <2>3, FS_EmptySet
  <1>6. CASE e.line = "DATAFILE"
    <2>1. u = t
      BY <1>1, <1>6 DEF t, u
    <2>2. is = was
      BY <1>1, <1>6, <2>1 DEF IndexLines, l
    <2> HIDE DEF is, was
    <2> QED
      BY <1>2, <1>3, <1>6, <2>2
  <1>7. CASE e.line = "INDEX"
    <2>1. u = t
      BY <1>1, <1>7 DEF t, u
    <2>2. is = was \cup {l + 1} /\ l + 1 \notin was
      BY <1>1, <1>7, <2>1 DEF IndexLines, l
    <2>3. Cardinality(is) = Cardinality(was) + 1
      BY <1>2, <2>2, FS_AddElement
    <2> HIDE DEF is, was
    <2> QED
      BY <1>2, <1>3, <1>7, <2>3
  <1> QED
    BY <1>5, <1>6, <1>7

\* What a burner knows of a text: the tracks and the sectors so far, where the data files
\* and the index points are, and the index lines of the last track.
Reads(files, text, t, total, spans, count, entries) ==
    /\ text \in Seq(TocLineType)
    /\ t \in Nat /\ Tracks(text) = t
    /\ total \in Nat /\ Total(files, text) = total
    /\ Spans(files, text) = spans
    /\ count \in Nat /\ IndexCount(text) = count
    /\ Entries(files, text) = entries
    /\ Rooted(files, text)

\* The track's start is known.
Begun(files, text, s) == Headed(files, text, Tracks(text), Len(text), s)

LEMMA ReadTrack ==
    ASSUME NEW files, LengthsKnown(files), NEW text, NEW t, NEW total, NEW spans, NEW count,
           NEW entries, Reads(files, text, t, total, spans, count, entries),
           NEW e \in TocLineType, e.line = "TRACK"
    PROVE  /\ Reads(files, Append(text, e), t + 1, total, spans, 0, entries)
           /\ Unheaded(Append(text, e))
  <1> DEFINE more == Append(text, e)
             l == Len(text)
             E == TocLineType
  <1>1. /\ text \in Seq(TocLineType) /\ t \in Nat /\ Tracks(text) = t
        /\ total \in Nat /\ Total(files, text) = total
        /\ Spans(files, text) = spans
        /\ Entries(files, text) = entries /\ Rooted(files, text)
    BY DEF Reads
  <1>2. /\ Prefix(files, text, more) /\ more[l + 1] = e /\ more \in Seq(TocLineType)
        /\ Tracks(more) = Tracks(text) + (IF e.line = "TRACK" THEN 1 ELSE 0)
    BY <1>1, PrefixIs
  <1>3. Total(files, more) = total
    <2>1. Total(files, more) = Total(files, text) + Adds(files, e)
      BY <1>1, TotalMore
    <2>2. Adds(files, e) = 0
      BY DEF Adds
    <2> HIDE DEF more
    <2> QED
      BY <1>1, <2>1, <2>2
  <1> HIDE DEF more
  <1>4. Spans(files, more) = spans
    <2>1. Spans(files, more) = Spans(files, text)
             \cup (IF e.line = "DATAFILE" THEN {<<Tracks(more), e, Total(files, text)>>} ELSE {})
      BY <1>2, SpansMore
    <2> QED
      BY <1>1, <2>1
  <1>5. Entries(files, more) = entries /\ Rooted(files, more)
    BY <1>1, <1>2, EntriesMore
  <1>6. IndexCount(more) = 0
    BY <1>1, <1>2, IndexMore
  <1>7. Tracks(more) = t + 1
    BY <1>1, <1>2
  <1>8. Unheaded(more)
    <2> SUFFICES ASSUME NEW j \in 1 .. l + 1, HeadLine(more, j, Tracks(more)) PROVE FALSE
      BY <1>2 DEF Unheaded, Prefix
    <2>1. more[j].line = "DATAFILE" /\ TrackOf(more, j) = t + 1
      BY <1>7 DEF HeadLine
    <2>2. l \in Nat
      BY <1>2 DEF Prefix
    <2>3. j \in 1 .. l
      BY <1>2, <2>1, <2>2
    <2>4. TrackOf(more, j) = TrackOf(text, j)
      BY <1>2, <2>3 DEF Prefix
    <2>5. text \in Seq(E) /\ j \in 1 .. Len(text)
      BY <1>1, <2>3
    <2> HIDE DEF E
    <2>6. TrackOf(text, j) \in Nat /\ TrackOf(text, j) <= Tracks(text)
      BY <2>5, TracksBound
    <2> QED
      BY <1>1, <2>1, <2>4, <2>6
  <1>9. Reads(files, more, t + 1, total, spans, 0, entries)
    BY <1>1, <1>2, <1>3, <1>4, <1>5, <1>6, <1>7 DEF Reads
  <1> QED
    BY <1>8, <1>9 DEF more

LEMMA ReadData ==
    ASSUME NEW files, LengthsKnown(files), NEW text, NEW t, NEW total, NEW spans, NEW count,
           NEW entries, Reads(files, text, t, total, spans, count, entries),
           NEW e \in TocLineType, e.line = "DATAFILE"
    PROVE  /\ Reads(files, Append(text, e), t, total + FileLength(files, e),
                    spans \cup {<<t, e, total>>}, count, entries)
           /\ Unheaded(text) /\ e.pregap => Unheaded(Append(text, e))
           /\ Unheaded(text) /\ ~e.pregap => Begun(files, Append(text, e), total)
  <1> DEFINE more == Append(text, e)
             l == Len(text)
  <1>1. /\ text \in Seq(TocLineType) /\ t \in Nat /\ Tracks(text) = t
        /\ total \in Nat /\ Total(files, text) = total
        /\ Spans(files, text) = spans
        /\ count \in Nat /\ IndexCount(text) = count
        /\ Entries(files, text) = entries /\ Rooted(files, text)
    BY DEF Reads
  <1>2. /\ Prefix(files, text, more) /\ more[l + 1] = e /\ more \in Seq(TocLineType)
        /\ Tracks(more) = Tracks(text) + (IF e.line = "TRACK" THEN 1 ELSE 0)
    BY <1>1, PrefixIs
  <1>3. Total(files, more) = total + FileLength(files, e) /\ FileLength(files, e) \in Nat
    <2>1. Total(files, more) = Total(files, text) + Adds(files, e)
      BY <1>1, TotalMore
    <2>2. Adds(files, e) = FileLength(files, e) /\ Adds(files, e) \in Nat
      BY AddsType DEF Adds
    <2> HIDE DEF more
    <2> QED
      BY <1>1, <2>1, <2>2
  <1> HIDE DEF more
  <1>4. Tracks(more) = t
    BY <1>1, <1>2
  <1>5. Spans(files, more) = spans \cup {<<t, e, total>>}
    <2>1. Spans(files, more) = Spans(files, text)
             \cup (IF e.line = "DATAFILE" THEN {<<Tracks(more), e, Total(files, text)>>} ELSE {})
      BY <1>2, SpansMore
    <2> QED
      BY <1>1, <1>4, <2>1
  <1>6. Entries(files, more) = entries /\ Rooted(files, more)
    BY <1>1, <1>2, EntriesMore
  <1>7. IndexCount(more) = count
    BY <1>1, <1>2, IndexMore
  <1>8. /\ l \in Nat /\ Len(more) = l + 1
        /\ \A j \in 1 .. l : HeadLine(more, j, t) <=> HeadLine(text, j, t)
        /\ DataAt(files, more, l + 1) = total
        /\ TrackOf(more, l + 1) = t
    BY <1>1, <1>2, <1>4 DEF Prefix, HeadLine
  <1>9. Unheaded(text) => \A j \in 1 .. l : ~HeadLine(more, j, t)
    BY <1>1, <1>8 DEF Unheaded
  <1>10. HeadLine(more, l + 1, t) <=> ~e.pregap
    BY <1>2, <1>8 DEF HeadLine
  <1>11. Unheaded(text) /\ e.pregap => Unheaded(more)
    BY <1>4, <1>8, <1>9, <1>10 DEF Unheaded
  <1>12. Unheaded(text) /\ ~e.pregap => Begun(files, more, total)
    BY <1>4, <1>8, <1>9, <1>10 DEF Begun, Headed
  <1>13. Reads(files, more, t, total + FileLength(files, e), spans \cup {<<t, e, total>>}, count, entries)
    BY <1>1, <1>2, <1>3, <1>4, <1>5, <1>6, <1>7 DEF Reads
  <1> QED
    BY <1>11, <1>12, <1>13 DEF more

LEMMA ReadIndex ==
    ASSUME NEW files, LengthsKnown(files), NEW text, NEW t, NEW total, NEW spans, NEW count,
           NEW entries, Reads(files, text, t, total, spans, count, entries),
           NEW s, Begun(files, text, s), NEW e \in TocLineType, e.line = "INDEX"
    PROVE  /\ Reads(files, Append(text, e), t, total, spans, count + 1,
                    entries \cup {<<t, count + 2, s + e.at>>})
           /\ Begun(files, Append(text, e), s)
  <1> DEFINE more == Append(text, e)
             l == Len(text)
  <1>1. /\ text \in Seq(TocLineType) /\ t \in Nat /\ Tracks(text) = t
        /\ total \in Nat /\ Total(files, text) = total
        /\ Spans(files, text) = spans
        /\ count \in Nat /\ IndexCount(text) = count
        /\ Entries(files, text) = entries /\ Rooted(files, text)
    BY DEF Reads
  <1>2. /\ Prefix(files, text, more) /\ more[l + 1] = e /\ more \in Seq(TocLineType)
        /\ Tracks(more) = Tracks(text) + (IF e.line = "TRACK" THEN 1 ELSE 0)
    BY <1>1, PrefixIs
  <1>3. Total(files, more) = total
    <2>1. Total(files, more) = Total(files, text) + Adds(files, e)
      BY <1>1, TotalMore
    <2>2. Adds(files, e) = 0
      BY DEF Adds
    <2> HIDE DEF more
    <2> QED
      BY <1>1, <2>1, <2>2
  <1> HIDE DEF more
  <1>4. Tracks(more) = t
    BY <1>1, <1>2
  <1>5. Spans(files, more) = spans
    <2>1. Spans(files, more) = Spans(files, text)
             \cup (IF e.line = "DATAFILE" THEN {<<Tracks(more), e, Total(files, text)>>} ELSE {})
      BY <1>2, SpansMore
    <2> QED
      BY <1>1, <2>1
  <1>6. IndexCount(more) = count + 1
    BY <1>1, <1>2, IndexMore
  <1>7. /\ l \in Nat /\ Len(more) = l + 1
        /\ \A j \in 1 .. l : HeadLine(more, j, t) <=> HeadLine(text, j, t)
        /\ \A j \in 1 .. l : DataAt(files, more, j) = DataAt(files, text, j)
        /\ ~HeadLine(more, l + 1, t)
    BY <1>1, <1>2, <1>4 DEF Prefix, HeadLine
  <1>8. Headed(files, more, t, l + 1, s)
    <2>1. Headed(files, text, t, l, s)
      BY <1>1 DEF Begun
    <2> QED
      BY <1>7, <2>1 DEF Headed
  <1>9. Entries(files, more) = entries \cup {<<t, count + 2, s + e.at>>} /\ Rooted(files, more)
    <2>1. Headed(files, more, Tracks(more), Len(text) + 1, s)
      BY <1>4, <1>8
    <2>2. /\ Entries(files, more)
               = Entries(files, text) \cup {<<Tracks(more), 1 + IndexCount(more), s + e.at>>}
          /\ Rooted(files, more)
      BY <1>1, <1>2, <2>1, EntriesMore
    <2>3. 1 + IndexCount(more) = count + 2
      BY <1>1, <1>6
    <2> QED
      BY <1>1, <1>4, <2>2, <2>3
  <1>10. Begun(files, more, s)
    BY <1>4, <1>7, <1>8 DEF Begun
  <1>11. Reads(files, more, t, total, spans, count + 1, entries \cup {<<t, count + 2, s + e.at>>})
    BY <1>1, <1>2, <1>3, <1>4, <1>5, <1>6, <1>9 DEF Reads
  <1> QED
    BY <1>10, <1>11 DEF more

\* A file of sectors has as many offsets as sectors.
Offsets(count, size) == {i * size : i \in 0 .. count - 1}

LEMMA OffsetsCounted ==
    ASSUME NEW size \in Nat \ {0}, NEW count \in Nat
    PROVE  IsFiniteSet(Offsets(count, size)) /\ Cardinality(Offsets(count, size)) = count
  <1> DEFINE O(j) == Offsets(j, size)
             T == {j \in Nat : IsFiniteSet(O(j)) /\ Cardinality(O(j)) = j}
  <1>1. O(0) = {}
    BY DEF Offsets
  <1>2. ASSUME NEW j \in Nat PROVE O(j + 1) = O(j) \cup {j * size} /\ j * size \notin O(j)
    <2> DEFINE A == 0 .. j + 1 - 1
               B == 0 .. j - 1
    <2>1. A = B \cup {j}
      OBVIOUS
    <2>2. O(j + 1) = {i * size : i \in A} /\ O(j) = {i * size : i \in B}
      BY DEF Offsets
    <2> HIDE DEF A, B, O
    <2>4. O(j + 1) = O(j) \cup {j * size}
      BY <2>1, <2>2
    <2>5. ASSUME j * size \in O(j) PROVE FALSE
      <3>1. PICK i \in 0 .. j - 1 : j * size = i * size
        BY <2>5 DEF Offsets, O
      <3>2. i \in Int /\ j \in Int /\ size \in Int /\ size # 0
        OBVIOUS
      <3>3. (j - i) * size = 0
        BY <3>1, <3>2
      <3>4. j - i \in Nat /\ j - i # 0
        OBVIOUS
      <3> QED
        BY <3>3, <3>4
    <2> QED
      BY <2>4, <2>5
  <1> HIDE DEF O
  <1>3. 0 \in T
    BY <1>1, FS_EmptySet
  <1>4. ASSUME NEW j \in Nat, j \in T PROVE j + 1 \in T
    <2>1. IsFiniteSet(O(j)) /\ Cardinality(O(j)) = j
      BY <1>4
    <2>2. O(j + 1) = O(j) \cup {j * size} /\ j * size \notin O(j)
      BY <1>2
    <2>3. IsFiniteSet(O(j) \cup {j * size}) /\ Cardinality(O(j) \cup {j * size}) = Cardinality(O(j)) + 1
      BY <2>1, <2>2, FS_AddElement
    <2> QED
      BY <2>1, <2>2, <2>3
  <1> HIDE DEF T
  <1>5. Nat \subseteq T
    BY <1>3, <1>4, NatSetInduction
  <1>6. count \in T
    BY <1>5
  <1> QED
    BY <1>6 DEF T, O

\* How far a part has come when n sectors are written.
Reached(n, x) == IF n < x THEN n ELSE x

\* A part's file is there if the part has begun, and has the part's sectors.
LEMMA PartFileIs ==
    ASSUME NEW d \in Discs, NEW size \in Nat \ {0}, NEW files, NEW n \in Nat,
           CdrdaoDisk(files, d, size, n), NEW k, NEW c, IsPart(d, k, c)
    PROVE  /\ PartFile(k, c) \in DOMAIN files <=> PartFrom(d, k, c) < n
           /\ PartFrom(d, k, c) < n =>
                 /\ PartCount(d, k, c, n) \in Nat
                 /\ PartCount(d, k, c, n) = Reached(n, PartTo(d, k, c)) - PartFrom(d, k, c)
                 /\ Holds(files[PartFile(k, c)], PartFrom(d, k, c), PartCount(d, k, c, n), size)
                 /\ Cardinality(DOMAIN files[PartFile(k, c)]) = PartCount(d, k, c, n)
  <1>1. /\ PartFrom(d, k, c) \in Nat /\ PartTo(d, k, c) \in Nat
        /\ PartFrom(d, k, c) < PartTo(d, k, c)
        /\ k \in Nat /\ c \in {1, 2} /\ k \in 0 .. Len(d.tracks)
    BY PartsInOrder DEF IsPart
  <1>2. PartFrom(d, k, c) < n =>
              /\ PartFile(k, c) \in DOMAIN files
              /\ Holds(files[PartFile(k, c)], PartFrom(d, k, c), PartCount(d, k, c, n), size)
    BY <1>1 DEF CdrdaoDisk
  <1>3. ASSUME PartFile(k, c) \in DOMAIN files PROVE PartFrom(d, k, c) < n
    <2>1. PartFile(k, c) # TocFile
      BY FilesDiffer DEF PartFile
    <2>2. PICK j \in 0 .. Len(d.tracks), b \in {1, 2} :
             IsPart(d, j, b) /\ PartFrom(d, j, b) < n /\ PartFile(k, c) = PartFile(j, b)
      BY <1>3, <2>1 DEF CdrdaoDisk
    <2>3. j \in Nat
      BY <2>2, PartsInOrder
    <2>4. k = j /\ c = b
      BY <1>1, <2>2, <2>3, PartFiles
    <2> QED
      BY <2>2, <2>4
  <1>4. ASSUME PartFrom(d, k, c) < n
        PROVE  /\ PartCount(d, k, c, n) \in Nat
               /\ PartCount(d, k, c, n) = Reached(n, PartTo(d, k, c)) - PartFrom(d, k, c)
               /\ Cardinality(DOMAIN files[PartFile(k, c)]) = PartCount(d, k, c, n)
    <2>1. /\ PartCount(d, k, c, n) = Reached(n, PartTo(d, k, c)) - PartFrom(d, k, c)
          /\ PartCount(d, k, c, n) \in Nat
      BY <1>1, <1>4 DEF PartCount, Reached
    <2>2. DOMAIN files[PartFile(k, c)] = Offsets(PartCount(d, k, c, n), size)
      BY <1>2, <1>4 DEF Holds, Offsets
    <2> QED
      BY <2>1, <2>2, OffsetsCounted
  <1> QED
    BY <1>2, <1>3, <1>4

\* The length of a part's data file.
LEMMA PartLength ==
    ASSUME NEW d \in Discs, NEW size \in Nat \ {0}, NEW files, NEW n \in Nat,
           CdrdaoDisk(files, d, size, n), NEW k, NEW c, IsPart(d, k, c),
           NEW l, ImageFile(l.no, l.pregap) = PartFile(k, c)
    PROVE  /\ FileLength(files, l) \in Nat
           /\ FileLength(files, l) = Reached(n, PartTo(d, k, c)) - Reached(n, PartFrom(d, k, c))
  <1>1. /\ PartFrom(d, k, c) \in Nat /\ PartTo(d, k, c) \in Nat
        /\ PartFrom(d, k, c) < PartTo(d, k, c)
    BY PartsInOrder
  <1>2. FileLength(files, l) = IF PartFile(k, c) \in DOMAIN files
                               THEN Cardinality(DOMAIN files[PartFile(k, c)]) ELSE 0
    BY DEF FileLength
  <1>3. /\ PartFile(k, c) \in DOMAIN files <=> PartFrom(d, k, c) < n
        /\ PartFrom(d, k, c) < n =>
              /\ PartCount(d, k, c, n) \in Nat
              /\ PartCount(d, k, c, n) = Reached(n, PartTo(d, k, c)) - PartFrom(d, k, c)
              /\ Cardinality(DOMAIN files[PartFile(k, c)]) = PartCount(d, k, c, n)
    BY PartFileIs
  <1>4. CASE PartFrom(d, k, c) < n
    <2>1. Reached(n, PartFrom(d, k, c)) = PartFrom(d, k, c)
      BY <1>1, <1>4 DEF Reached
    <2> QED
      BY <1>2, <1>3, <1>4, <2>1
  <1>5. CASE ~(PartFrom(d, k, c) < n)
    <2>1. Reached(n, PartFrom(d, k, c)) = n /\ Reached(n, PartTo(d, k, c)) = n
      BY <1>1, <1>5 DEF Reached
    <2> QED
      BY <1>2, <1>3, <1>5, <2>1
  <1> QED
    BY <1>4, <1>5

\* No other data file has a length.
LEMMA LengthsAre ==
    ASSUME NEW d \in Discs, NEW size \in Nat \ {0}, NEW files, NEW n \in Nat,
           CdrdaoDisk(files, d, size, n)
    PROVE  LengthsKnown(files)
  <1> SUFFICES ASSUME NEW l, FileLength(files, l) # 0 PROVE FileLength(files, l) \in Nat
    BY DEF LengthsKnown
  <1> DEFINE f == ImageFile(l.no, l.pregap)
  <1>1. f \in DOMAIN files
    BY DEF FileLength
  <1>2. f # TocFile
    BY FilesDiffer
  <1>3. PICK k, c : IsPart(d, k, c) /\ f = PartFile(k, c)
    BY <1>1, <1>2 DEF CdrdaoDisk
  <1> QED
    BY <1>3, PartLength

\* The sectors of the first k tracks that are written, and where their data files are.
TotalTo(d, n, k) == IF k = 0 THEN 0 ELSE Reached(n, Stop(d, k - 1))

PartSpan(d, n, k, c) == <<k + 1, DataFile(k + 1, c = 1), Reached(n, PartFrom(d, k, c))>>

AreSpans(spans, d, n, k) ==
    \A x : x \in spans <=> \E j, c : IsPart(d, j, c) /\ j < k /\ x = PartSpan(d, n, j, c)

\* What a track's cue adds.
LEMMA ReadLines ==
    ASSUME NEW files, LengthsKnown(files), NEW text, NEW t, NEW total, NEW spans, NEW count,
           NEW entries, Reads(files, text, t, total, spans, count, entries),
           NEW a \in TocLineType, a.line = "TRACK",
           NEW b \in TocLineType, b.line = "DATAFILE", b.pregap,
           NEW c \in TocLineType, c.line = "DATAFILE", ~c.pregap,
           NEW has \in BOOLEAN, NEW middle, middle = IF has THEN total + FileLength(files, b) ELSE total
    PROVE  LET lines == LinesBehind(text, a, has, b, c)
           IN  /\ Reads(files, lines, t + 1, middle + FileLength(files, c),
                        spans \cup (IF has THEN {<<t + 1, b, total>>} ELSE {})
                              \cup {<<t + 1, c, middle>>}, 0, entries)
               /\ Begun(files, lines, middle)
  <1> DEFINE one == Append(text, a)
             two == Append(one, b)
             short == Append(one, c)
             long == Append(two, c)
             u == t + 1
             zero == 0
             more == spans \cup {<<u, b, total>>}
             after == total + FileLength(files, b)
             E == TocLineType
  <1>1. text \in Seq(TocLineType)
    BY DEF Reads
  <1>2. Reads(files, one, u, total, spans, zero, entries) /\ Unheaded(one)
    BY ReadTrack
  <1>3. LinesBehind(text, a, has, b, c) = IF has THEN long ELSE short
    <2>1. one \in Seq(E) /\ one = text \o <<a>>
      BY <1>1, AppendProperties, AppendIsConcat
    <2>2. LinesBehind(text, a, has, b, c) = text \o <<a>> \o (IF has THEN <<b>> ELSE <<>>) \o <<c>>
      BY DEF LinesBehind
    <2> HIDE DEF one
    <2>3. two \in Seq(E) /\ two = one \o <<b>> /\ one \o <<>> = one
      BY <2>1, AppendProperties, AppendIsConcat, ConcatEmptySeq
    <2> HIDE DEF two
    <2>4. short = one \o <<c>> /\ long = two \o <<c>>
      BY <2>1, <2>3, AppendIsConcat
    <2> HIDE DEF short, long
    <2> QED
      BY <2>1, <2>2, <2>3, <2>4
  <1> HIDE DEF one, zero, u
  <1>4. Reads(files, two, u, after, more, zero, entries) /\ Unheaded(two)
    BY <1>2, ReadData
  <1>5. /\ Reads(files, short, u, total + FileLength(files, c), spans \cup {<<u, c, total>>}, zero, entries)
        /\ Begun(files, short, total)
    BY <1>2, ReadData
  <1> HIDE DEF two, more, after
  <1>6. /\ Reads(files, long, u, after + FileLength(files, c), more \cup {<<u, c, after>>}, zero, entries)
        /\ Begun(files, long, after)
    BY <1>4, ReadData
  <1> HIDE DEF short, long
  <1>7. CASE has
    <2>1. middle = after
      BY <1>7 DEF after
    <2>2. LinesBehind(text, a, has, b, c) = long
      BY <1>3, <1>7
    <2>3. (IF has THEN {<<u, b, total>>} ELSE {}) = {<<u, b, total>>}
      BY <1>7
    <2> QED
      BY <1>6, <2>1, <2>2, <2>3 DEF more, u, zero
  <1>8. CASE ~has
    <2>1. middle = total
      BY <1>8
    <2>2. LinesBehind(text, a, has, b, c) = short
      BY <1>3, <1>8
    <2>3. spans \cup (IF has THEN {<<u, b, total>>} ELSE {}) = spans
      BY <1>8
    <2> QED
      BY <1>5, <2>1, <2>2, <2>3 DEF u, zero
  <1> QED
    BY <1>7, <1>8

\* The sectors from track to track.
LEMMA ReachedIs ==
    ASSUME NEW d \in Discs, NEW n \in Nat, NEW k \in 0 .. Len(d.tracks)
    PROVE  /\ TotalTo(d, n, k) = Reached(n, PartFrom(d, k, IF k = 0 THEN 2 ELSE 1))
           /\ TotalTo(d, n, k + 1) = Reached(n, PartTo(d, k, 2))
           /\ Reached(n, PartTo(d, k, 1)) = Reached(n, PartFrom(d, k, 2))
           /\ PartFrom(d, k, 2) = Start(d, k)
           /\ Reached(n, PartFrom(d, k, 2)) \in Nat
           /\ TotalTo(d, n, k) \in Nat /\ TotalTo(d, n, k + 1) \in Nat
  <1>1. Len(d.tracks) \in Nat
    BY DiscShape
  <1>2. Start(d, k) \in Nat /\ Stop(d, k) \in Nat /\ Start(d, 0) = 0
    BY TracksInOrder
  <1>3. PartFrom(d, k, 2) = Start(d, k) /\ PartTo(d, k, 2) = Stop(d, k) /\ PartTo(d, k, 1) = Start(d, k)
    BY DEF PartFrom, PartTo
  <1>4. k + 1 # 0 /\ k + 1 - 1 = k
    BY <1>1
  <1>5. TotalTo(d, n, k + 1) = Reached(n, Stop(d, k))
    <2> DEFINE j == k + 1
    <2>1. j # 0 /\ j - 1 = k
      BY <1>4
    <2> HIDE DEF j
    <2>2. TotalTo(d, n, j) = Reached(n, Stop(d, k))
      BY <2>1 DEF TotalTo
    <2> QED
      BY <2>2 DEF j
  <1>6. \A x \in Nat : Reached(n, x) \in Nat
    BY DEF Reached
  <1>7. CASE k = 0
    <2>1. TotalTo(d, n, k) = 0 /\ Reached(n, 0) = 0
      BY <1>7 DEF TotalTo, Reached
    <2> QED
      BY <1>2, <1>3, <1>5, <1>6, <1>7, <2>1
  <1>8. CASE k # 0
    <2>1. k \in 1 .. Len(d.tracks)
      BY <1>1, <1>8
    <2>2. PregapAt(d, k) = Stop(d, k - 1) /\ PregapAt(d, k) \in Nat
      BY <2>1, TracksInOrder
    <2>3. PartFrom(d, k, 1) = PregapAt(d, k)
      BY DEF PartFrom
    <2>4. TotalTo(d, n, k) = Reached(n, Stop(d, k - 1))
      BY <1>8 DEF TotalTo
    <2> QED
      BY <1>2, <1>3, <1>5, <1>6, <1>8, <2>2, <2>3, <2>4
  <1> QED
    BY <1>7, <1>8

\* A part's data file, and where its data is.
LEMMA PartSpanIs ==
    ASSUME NEW d, NEW n, NEW k
    PROVE  /\ PartSpan(d, n, k, 1) = <<k + 1, DataFile(k + 1, TRUE), Reached(n, PartFrom(d, k, 1))>>
           /\ PartSpan(d, n, k, 2) = <<k + 1, DataFile(k + 1, FALSE), Reached(n, PartFrom(d, k, 2))>>
           /\ ImageFile(DataFile(k + 1, TRUE).no, DataFile(k + 1, TRUE).pregap) = PartFile(k, 1)
           /\ ImageFile(DataFile(k + 1, FALSE).no, DataFile(k + 1, FALSE).pregap) = PartFile(k, 2)
  <1>1. (1 = 1) = TRUE /\ (2 = 1) = FALSE
    OBVIOUS
  <1> QED
    BY <1>1 DEF PartSpan, DataFile, PartFile, ImageFile

\* The data files of the next track.
LEMMA SpansOfTrack ==
    ASSUME NEW d \in Discs, NEW n \in Nat, NEW k \in 0 .. Len(d.tracks), NEW spans,
           AreSpans(spans, d, n, k)
    PROVE  AreSpans(spans \cup (IF k # 0 THEN {PartSpan(d, n, k, 1)} ELSE {})
                          \cup {PartSpan(d, n, k, 2)}, d, n, k + 1)
  <1> DEFINE more == spans \cup (IF k # 0 THEN {PartSpan(d, n, k, 1)} ELSE {})
                           \cup {PartSpan(d, n, k, 2)}
  <1>1. Len(d.tracks) \in Nat
    BY DiscShape
  <1>2. \A j \in 0 .. Len(d.tracks) : j < k + 1 <=> j < k \/ j = k
    BY <1>1
  <1>3. \A x : x \in more <=> x \in spans \/ (k # 0 /\ x = PartSpan(d, n, k, 1)) \/ x = PartSpan(d, n, k, 2)
    OBVIOUS
  <1>4. IsPart(d, k, 2) /\ (IsPart(d, k, 1) <=> k # 0) /\ \A c : IsPart(d, k, c) => c \in {1, 2}
    BY DEF IsPart
  <1>5. \A j, c : IsPart(d, j, c) => j \in 0 .. Len(d.tracks)
    BY DEF IsPart
  <1>6. \A x : x \in spans <=> \E j, c : IsPart(d, j, c) /\ j < k /\ x = PartSpan(d, n, j, c)
    BY DEF AreSpans
  <1> HIDE DEF more
  <1>7. \A x : x \in more <=> \E j, c : IsPart(d, j, c) /\ j < k + 1 /\ x = PartSpan(d, n, j, c)
    <2> TAKE x
    <2>1. ASSUME x \in more
          PROVE  \E j, c : IsPart(d, j, c) /\ j < k + 1 /\ x = PartSpan(d, n, j, c)
      <3>1. CASE x \in spans
        BY <1>2, <1>5, <1>6, <3>1
      <3>2. CASE k # 0 /\ x = PartSpan(d, n, k, 1)
        BY <1>2, <1>4, <3>2
      <3>3. CASE x = PartSpan(d, n, k, 2)
        BY <1>2, <1>4, <3>3
      <3> QED
        BY <1>3, <2>1, <3>1, <3>2, <3>3
    <2>2. ASSUME NEW j, NEW c, IsPart(d, j, c), j < k + 1, x = PartSpan(d, n, j, c)
          PROVE  x \in more
      <3>1. j < k \/ j = k
        BY <1>2, <1>5, <2>2
      <3>2. CASE j < k
        BY <1>3, <1>6, <2>2, <3>2
      <3>3. CASE j = k
        BY <1>3, <1>4, <2>2, <3>3
      <3> QED
        BY <3>1, <3>2, <3>3
    <2> QED
      BY <2>1, <2>2
  <1> QED
    BY <1>7 DEF AreSpans, more

\* A track's cue: its data files begin where the parts do.
LEMMA TrackReads ==
    ASSUME NEW d \in Discs, NEW size \in Nat \ {0}, NEW files, NEW n \in Nat,
           CdrdaoDisk(files, d, size, n), NEW k \in 0 .. Len(d.tracks),
           NEW text, NEW spans, NEW count, NEW entries,
           Reads(files, text, k, TotalTo(d, n, k), spans, count, entries), AreSpans(spans, d, n, k),
           NEW last, last.type = "pregap" <=> k # 0
    PROVE  LET lines == TocLines(text, k + 1, size, last)
           IN  /\ \E more : /\ Reads(files, lines, k + 1, TotalTo(d, n, k + 1), more, 0, entries)
                            /\ AreSpans(more, d, n, k + 1)
               /\ Begun(files, lines, Reached(n, Start(d, k)))
  <1> DEFINE has == k # 0
             u == k + 1
             zero == 0
             total == TotalTo(d, n, k)
             a == TrackLine(u, size)
             b == DataFile(u, TRUE)
             c == DataFile(u, FALSE)
             middle == Reached(n, PartFrom(d, k, 2))
             lines == LinesBehind(text, a, has, b, c)
             more == spans \cup (IF has THEN {<<u, b, total>>} ELSE {}) \cup {<<u, c, middle>>}
  <1>1. Len(d.tracks) \in Nat /\ u \in Nat /\ k \in Nat
    BY DiscShape
  <1>2. TocLines(text, u, size, last) = lines
    BY DEF TocLines, LinesBehind
  <1>3. /\ a \in TocLineType /\ a.line = "TRACK"
        /\ b \in TocLineType /\ b.line = "DATAFILE" /\ b.pregap
        /\ c \in TocLineType /\ c.line = "DATAFILE" /\ ~c.pregap
    BY <1>1 DEF TrackLine, DataFile, TocLineType
  <1>4. LengthsKnown(files)
    BY LengthsAre
  <1>5. IsPart(d, k, 2) /\ (has => IsPart(d, k, 1))
    BY DEF IsPart
  <1>6. /\ PartSpan(d, n, k, 1) = <<u, b, Reached(n, PartFrom(d, k, 1))>>
        /\ PartSpan(d, n, k, 2) = <<u, c, middle>>
        /\ ImageFile(b.no, b.pregap) = PartFile(k, 1)
        /\ ImageFile(c.no, c.pregap) = PartFile(k, 2)
    BY PartSpanIs
  <1> HIDE DEF u, a, b, c
  <1>7. /\ total = Reached(n, PartFrom(d, k, IF k = 0 THEN 2 ELSE 1))
        /\ TotalTo(d, n, k + 1) = Reached(n, PartTo(d, k, 2))
        /\ Reached(n, PartTo(d, k, 1)) = middle
        /\ PartFrom(d, k, 2) = Start(d, k)
        /\ middle \in Nat
        /\ total \in Nat /\ TotalTo(d, n, k + 1) \in Nat
    BY ReachedIs
  <1>8. /\ FileLength(files, c) \in Nat
        /\ FileLength(files, c) = Reached(n, PartTo(d, k, 2)) - Reached(n, PartFrom(d, k, 2))
    BY <1>5, <1>6, PartLength
  <1>9. has => /\ FileLength(files, b) \in Nat
               /\ FileLength(files, b) = Reached(n, PartTo(d, k, 1)) - Reached(n, PartFrom(d, k, 1))
    BY <1>5, <1>6, PartLength
  <1>10. middle = IF has THEN total + FileLength(files, b) ELSE total
    <2>1. CASE has
      <3>1. total = Reached(n, PartFrom(d, k, 1))
        BY <1>7, <2>1
      <3> HIDE DEF total, middle, has
      <3> QED
        BY <1>7, <1>9, <2>1, <3>1
    <2>2. CASE ~has
      BY <1>7, <2>2
    <2> QED
      BY <2>1, <2>2
  <1>11. middle + FileLength(files, c) = TotalTo(d, n, k + 1)
    BY <1>7, <1>8
  <1>12. has \in BOOLEAN
    OBVIOUS
  <1>13. AreSpans(more, d, n, u)
    <2>1. more = spans \cup (IF k # 0 THEN {PartSpan(d, n, k, 1)} ELSE {}) \cup {PartSpan(d, n, k, 2)}
      <3>1. has => total = Reached(n, PartFrom(d, k, 1))
        BY <1>7
      <3> QED
        BY <1>6, <3>1
    <2> QED
      BY <2>1, SpansOfTrack DEF u
  <1>14. Reads(files, text, k, total, spans, count, entries)
    OBVIOUS
  <1> HIDE DEF has, total, middle
  <1>15. /\ Reads(files, lines, k + 1, middle + FileLength(files, c),
                  spans \cup (IF has THEN {<<k + 1, b, total>>} ELSE {}) \cup {<<k + 1, c, middle>>},
                  0, entries)
         /\ Begun(files, lines, middle)
    BY <1>3, <1>4, <1>10, <1>12, <1>14, ReadLines
  <1>16. Reads(files, lines, k + 1, TotalTo(d, n, k + 1), more, 0, entries)
    BY <1>11, <1>15 DEF u
  <1> QED
    BY <1>2, <1>7, <1>13, <1>15, <1>16 DEF u, middle

\* Where the entry points are, of the cues up to a place.
TocEntry(d, row, col, n, q) ==
    <<row[q] + 1, col[q] - 1, Reached(n, Start(d, row[q])) + Subs(d, row[q])[col[q] - 2]>>

EntriesTo(d, row, col, n, p) ==
    {TocEntry(d, row, col, n, q) : q \in {j \in 1 .. p : col[j] > 2}}

NewEntry(d, row, col, n, q) == IF col[q] > 2 THEN {TocEntry(d, row, col, n, q)} ELSE {}

LEMMA EntriesGo ==
    ASSUME NEW d, NEW row, NEW col, NEW n, NEW p \in Nat, NEW q, q = p + 1
    PROVE  EntriesTo(d, row, col, n, q) = EntriesTo(d, row, col, n, p) \cup NewEntry(d, row, col, n, q)
  <1> DEFINE E(j) == TocEntry(d, row, col, n, j)
             some == {j \in 1 .. p : col[j] > 2}
             all == {j \in 1 .. q : col[j] > 2}
  <1>1. 1 .. q = (1 .. p) \cup {q}
    OBVIOUS
  <1>2. all = some \cup (IF col[q] > 2 THEN {q} ELSE {})
    BY <1>1
  <1> HIDE DEF E, some, all
  <1>3. {E(j) : j \in all} = {E(j) : j \in some} \cup (IF col[q] > 2 THEN {E(q)} ELSE {})
    BY <1>2
  <1> QED
    BY <1>3 DEF EntriesTo, NewEntry, E, some, all

\* What a burner knows of the table of contents behind place p.
TocKnown(files, text, d, row, col, n, p, t) ==
    \E spans, count : /\ Reads(files, text, t, TotalTo(d, n, t), spans, count, EntriesTo(d, row, col, n, p))
                      /\ AreSpans(spans, d, n, t)
                      /\ col[p] >= 2 => count = col[p] - 2

TocSays(files, run, d, row, col, n, size, p) ==
    /\ TocKnown(files, run[p].text, d, row, col, n, p, TrackNo(row, col, p))
    /\ col[p] >= 2 => Begun(files, run[p].text, Reached(n, Start(d, row[p])))
    /\ run[p].text[1] = TrackLine(1, size)

\* A track's cue.
LEMMA TrackKnown ==
    ASSUME NEW d \in Discs, NEW size \in Nat \ {0}, NEW files, NEW n \in Nat,
           CdrdaoDisk(files, d, size, n), NEW row, NEW col, NEW q,
           NEW k \in 0 .. Len(d.tracks), NEW text, NEW spans, NEW count, NEW entries,
           Reads(files, text, k, TotalTo(d, n, k), spans, count, entries), AreSpans(spans, d, n, k),
           entries = EntriesTo(d, row, col, n, q), col[q] = 2,
           NEW last, last.type = "pregap" <=> k # 0
    PROVE  /\ TocKnown(files, TocLines(text, k + 1, size, last), d, row, col, n, q, k + 1)
           /\ Begun(files, TocLines(text, k + 1, size, last), Reached(n, Start(d, k)))
  <1> DEFINE lines == TocLines(text, k + 1, size, last)
             zero == 0
  <1>1. PICK more : /\ Reads(files, lines, k + 1, TotalTo(d, n, k + 1), more, 0, entries)
                    /\ AreSpans(more, d, n, k + 1)
    BY TrackReads
  <1>2. Begun(files, lines, Reached(n, Start(d, k)))
    BY TrackReads
  <1>3. zero = col[q] - 2
    OBVIOUS
  <1>4. /\ Reads(files, lines, k + 1, TotalTo(d, n, k + 1), more, zero, EntriesTo(d, row, col, n, q))
        /\ AreSpans(more, d, n, k + 1)
    BY <1>1
  <1> HIDE DEF lines, zero
  <1>5. TocKnown(files, lines, d, row, col, n, q, k + 1)
    BY <1>3, <1>4 DEF TocKnown
  <1> QED
    BY <1>2, <1>5 DEF lines

\* An entry point's cue.
LEMMA EntryKnown ==
    ASSUME NEW d \in Discs, NEW files, LengthsKnown(files), NEW n \in Nat, NEW row, NEW col,
           NEW p, NEW q, NEW t, NEW text, TocKnown(files, text, d, row, col, n, p, t),
           col[p] \in Nat, col[p] >= 2, col[q] = col[p] + 1, t = row[q] + 1,
           NEW at \in Int, at = Subs(d, row[q])[col[q] - 2],
           EntriesTo(d, row, col, n, q) = EntriesTo(d, row, col, n, p) \cup NewEntry(d, row, col, n, q),
           Begun(files, text, Reached(n, Start(d, row[q])))
    PROVE  /\ TocKnown(files, TocSub(text, at), d, row, col, n, q, t)
           /\ Begun(files, TocSub(text, at), Reached(n, Start(d, row[q])))
  <1> DEFINE s == Reached(n, Start(d, row[q]))
             e == TocIndexLine(at)
             total == TotalTo(d, n, t)
             old == EntriesTo(d, row, col, n, p)
             lines == Append(text, e)
  <1>1. PICK spans, count : /\ Reads(files, text, t, total, spans, count, old)
                            /\ AreSpans(spans, d, n, t)
                            /\ col[p] >= 2 => count = col[p] - 2
    BY DEF TocKnown
  <1>2. e \in TocLineType /\ e.line = "INDEX" /\ e.at = at
    BY DEF TocIndexLine, TocLineType
  <1>3. TocSub(text, at) = lines
    BY DEF TocSub
  <1>4. count \in Nat /\ count = col[p] - 2 /\ count + 2 = col[q] - 1 /\ count + 1 = col[q] - 2 /\ col[q] > 2
    BY <1>1 DEF Reads
  <1>5. TocEntry(d, row, col, n, q) = <<t, count + 2, s + e.at>>
    BY <1>2, <1>4 DEF TocEntry
  <1> HIDE DEF s, e, total, old
  <1>6. /\ Reads(files, lines, t, total, spans, count + 1, old \cup {<<t, count + 2, s + e.at>>})
        /\ Begun(files, lines, s)
    BY <1>1, <1>2, ReadIndex DEF s
  <1>7. EntriesTo(d, row, col, n, q) = old \cup {<<t, count + 2, s + e.at>>}
    <2>1. NewEntry(d, row, col, n, q) = {<<t, count + 2, s + e.at>>}
      BY <1>4, <1>5 DEF NewEntry
    <2> QED
      BY <2>1 DEF old
  <1> HIDE DEF lines
  <1>8. TocKnown(files, lines, d, row, col, n, q, t)
    <2> DEFINE more == count + 1
    <2>1. /\ Reads(files, lines, t, TotalTo(d, n, t), spans, more, EntriesTo(d, row, col, n, q))
          /\ more = col[q] - 2
      BY <1>4, <1>6, <1>7 DEF total
    <2> HIDE DEF more
    <2> QED
      BY <1>1, <2>1 DEF TocKnown
  <1> QED
    BY <1>3, <1>6, <1>8 DEF s

LEMMA TocTexts ==
    ASSUME NEW s \in TocStates, NEW cue \in CueType, NEW size \in Nat, ~s.done
    PROVE  /\ cue.type = "track" =>
                 CdrdaoLines(s, cue, size).text = TocLines(s.text, s.track_no + 1, size, s.last)
           /\ cue.type = "subindex" =>
                 CdrdaoLines(s, cue, size).text = TocSub(s.text, cue.lsn - s.last_track_lsn)
  BY TocStep

\* From one cue to the next.
LEMMA TocSaysMore ==
    ASSUME NEW d \in Discs, NEW row, NEW col, NEW m, LaidOut(d, row, col, m), NEW size \in Nat \ {0},
           NEW run, TocIs(run, d, row, col, m, size), NEW files, NEW n \in Nat,
           CdrdaoDisk(files, d, size, n), NEW p \in 1 .. m - 1,
           TocSays(files, run, d, row, col, n, size, p)
    PROVE  TocSays(files, run, d, row, col, n, size, p + 1)
  <1> DEFINE s == run[p]
             q == p + 1
             r == run[q]
             cue == CueList(d)[q]
             last == CueList(d)[p]
  <1>1. m \in Nat /\ Len(d.tracks) \in Nat /\ size \in Nat
    BY DiscShape DEF LaidOut
  <1>2. /\ p \in 1 .. m /\ q \in 1 .. m /\ p < m /\ q - 1 = p /\ p \in 0 .. m /\ q \in 0 .. m
        /\ p \in Nat \ {0} /\ (q # m => q < m)
    BY <1>1
  <1>3. r = CdrdaoLines(s, cue, size) /\ s \in TocStates /\ r \in TocStates
    BY <1>2 DEF TocIs
  <1>4. TocAt(run, d, row, col, m, p) /\ TocAt(run, d, row, col, m, q)
    BY <1>1, <1>2, TocGoes
  <1>5. /\ cue \in CueType
        /\ row[q] \in 0 .. Len(d.tracks) + 1
        /\ col[q] \in Nat \ {0}
        /\ row[q] = 0 => col[q] = 2
        /\ q = m => col[q] = 1
        /\ q < m => row[q] <= Len(d.tracks) /\ col[q] <= LastCol(d, row[q])
        /\ cue.type = IF q = m THEN "end" ELSE IF col[q] = 1 THEN "pregap"
                      ELSE IF col[q] = 2 THEN "track" ELSE "subindex"
        /\ q < m /\ col[q] >= 3 => cue.lsn = Start(d, row[q]) + Subs(d, row[q])[col[q] - 2]
    BY <1>2, CueTypes
  <1>6. /\ last \in CueType
        /\ row[p] \in 0 .. Len(d.tracks) + 1
        /\ col[p] \in Nat \ {0}
        /\ row[p] = 0 => col[p] = 2
        /\ p # m
        /\ last.type = IF p = m THEN "end" ELSE IF col[p] = 1 THEN "pregap"
                       ELSE IF col[p] = 2 THEN "track" ELSE "subindex"
    <2>1. p \in 1 .. m /\ p # m
      BY <1>2
    <2> HIDE DEF s, q, r
    <2> QED
      BY <2>1, CueTypes
  <1>7. IF col[p] < LastCol(d, row[p])
        THEN row[q] = row[p] /\ col[q] = col[p] + 1 /\ q < m
        ELSE row[q] = row[p] + 1 /\ col[q] = 1 /\ col[p] >= 2
    BY NextCue
  <1>8. row[p] \in Nat /\ row[q] \in Nat
    BY <1>1, <1>5, <1>6
  <1>9. EntriesTo(d, row, col, n, q) = EntriesTo(d, row, col, n, p) \cup NewEntry(d, row, col, n, q)
    BY <1>2, EntriesGo
  <1>10. /\ ~s.done /\ s.last = last
         /\ s.track_no = TrackNo(row, col, p)
         /\ col[p] >= 2 => s.last_track_lsn = Start(d, row[p])
         /\ Len(s.text) > 0
    <2>1. p # m
      BY <1>6
    <2> QED
      BY <1>2, <1>4, <2>1 DEF TocAt
  <1>11. /\ TocKnown(files, s.text, d, row, col, n, p, TrackNo(row, col, p))
         /\ col[p] >= 2 => Begun(files, s.text, Reached(n, Start(d, row[p])))
         /\ s.text[1] = TrackLine(1, size)
    BY DEF TocSays
  <1>12. s.text \in Seq(TocLineType) /\ s.track_no \in Nat /\ cue.lsn \in Nat
    <2>1. s \in TocStates /\ cue \in CueType
      BY <1>3, <1>5
    <2> HIDE DEF s, cue
    <2> QED
      BY <2>1 DEF TocStates, CueType
  <1>13. \A t : t \in Seq(TocLineType) /\ Grown(s.text, t) => t[1] = TrackLine(1, size)
    <2> SUFFICES ASSUME NEW t, t \in Seq(TocLineType), Grown(s.text, t)
                 PROVE  t[1] = TrackLine(1, size)
      OBVIOUS
    <2>1. Len(s.text) \in Nat
      BY <1>12, LenProperties
    <2>2. 1 \in 1 .. Len(s.text)
      BY <1>10, <2>1
    <2> QED
      BY <1>11, <2>1, <2>2 DEF Grown
  <1> SUFFICES /\ TocKnown(files, r.text, d, row, col, n, q, TrackNo(row, col, q))
               /\ col[q] >= 2 => Begun(files, r.text, Reached(n, Start(d, row[q])))
               /\ r.text[1] = TrackLine(1, size)
    BY DEF TocSays
  <1> HIDE DEF s, q, r, cue, last
  <1>14. CASE col[q] = 1
    <2>1. cue.type \in {"end", "pregap"}
      <3>1. cue.type = IF q = m THEN "end" ELSE IF col[q] = 1 THEN "pregap"
                       ELSE IF col[q] = 2 THEN "track" ELSE "subindex"
        BY <1>5
      <3> QED
        BY <1>14, <3>1
    <2>2. r.text = s.text
      BY <1>1, <1>3, <1>5, <1>10, <2>1, TocStep
    <2>3. col[p] >= 2 /\ row[q] = row[p] + 1
      BY <1>6, <1>7, <1>14
    <2>4. TrackNo(row, col, q) = TrackNo(row, col, p)
      BY <1>14, <2>3 DEF TrackNo
    <2>5. NewEntry(d, row, col, n, q) = {}
      BY <1>14 DEF NewEntry
    <2>6. EntriesTo(d, row, col, n, q) = EntriesTo(d, row, col, n, p) /\ ~(col[q] >= 2)
      BY <1>9, <1>14, <2>5
    <2>7. TocKnown(files, s.text, d, row, col, n, q, TrackNo(row, col, q))
      BY <1>11, <2>4, <2>6 DEF TocKnown
    <2> QED
      BY <1>11, <2>2, <2>6, <2>7
  <1>15. CASE col[q] = 2
    <2> DEFINE k == row[q]
               text == s.text
               lines == TocLines(text, k + 1, size, last)
    <2>1. cue.type = "track"
      BY <1>5, <1>15
    <2>2. r.text = TocLines(s.text, s.track_no + 1, size, s.last)
      <3>1. s \in TocStates /\ cue \in CueType /\ ~s.done /\ r = CdrdaoLines(s, cue, size)
        BY <1>3, <1>5, <1>10
      <3> QED
        BY <1>1, <2>1, <3>1, TocTexts
    <2>3. col[p] = 1 /\ row[q] = row[p] /\ q < m
      BY <1>5, <1>6, <1>7, <1>15
    <2>4. last.type = "pregap" /\ s.track_no = k /\ TrackNo(row, col, p) = k /\ TrackNo(row, col, q) = k + 1
      BY <1>6, <1>8, <1>10, <1>15, <2>3 DEF TrackNo
    <2>5. r.text = lines
      BY <1>10, <2>2, <2>4
    <2>6. k \in 0 .. Len(d.tracks) /\ k # 0
      BY <1>1, <1>5, <1>6, <2>3
    <2>7. NewEntry(d, row, col, n, q) = {}
      BY <1>15 DEF NewEntry
    <2>8. EntriesTo(d, row, col, n, q) = EntriesTo(d, row, col, n, p)
      BY <1>9, <2>7
    <2>9. PICK spans, count : /\ Reads(files, text, k, TotalTo(d, n, k), spans, count, EntriesTo(d, row, col, n, p))
                              /\ AreSpans(spans, d, n, k)
      BY <1>11, <2>4 DEF TocKnown
    <2>10. /\ TocKnown(files, lines, d, row, col, n, q, k + 1)
           /\ Begun(files, lines, Reached(n, Start(d, k)))
      <3> DEFINE entries == EntriesTo(d, row, col, n, p)
      <3>1. Reads(files, text, k, TotalTo(d, n, k), spans, count, entries) /\ entries = EntriesTo(d, row, col, n, q)
        BY <2>8, <2>9
      <3>2. last.type = "pregap" <=> k # 0
        BY <2>4, <2>6
      <3> HIDE DEF entries, k, text
      <3> QED
        BY <1>15, <2>6, <2>9, <3>1, <3>2, TrackKnown
    <2>11. lines \in Seq(TocLineType) /\ Grown(text, lines)
      <3>1. k + 1 \in Nat /\ size \in Nat
        BY <1>1, <1>8
      <3> QED
        BY <1>12, <3>1, TocLinesAre
    <2>12. lines[1] = TrackLine(1, size)
      BY <1>13, <2>11
    <2> QED
      BY <2>4, <2>5, <2>10, <2>12
  <1>16. CASE col[q] >= 3
    <2> DEFINE t == row[q] + 1
               text == s.text
               at == Subs(d, row[q])[col[q] - 2]
               lines == TocSub(text, at)
    <2>1. cue.type = "subindex" /\ q < m
      BY <1>5, <1>2, <1>16
    <2>2. r.text = TocSub(s.text, cue.lsn - s.last_track_lsn)
      <3>1. s \in TocStates /\ cue \in CueType /\ ~s.done /\ r = CdrdaoLines(s, cue, size)
        BY <1>3, <1>5, <1>10
      <3> QED
        BY <1>1, <2>1, <3>1, TocTexts
    <2>3. col[q] = col[p] + 1 /\ row[q] = row[p] /\ col[p] >= 2 /\ col[p] \in Nat
      BY <1>5, <1>6, <1>7, <1>16
    <2>4. TrackNo(row, col, p) = t /\ TrackNo(row, col, q) = t
      BY <1>16, <2>3 DEF TrackNo
    <2>5. row[q] \in 0 .. Len(d.tracks) /\ Start(d, row[q]) \in Nat
      <3>1. row[q] \in 0 .. Len(d.tracks)
        BY <1>1, <1>5, <2>1
      <3> QED
        BY <3>1, TracksInOrder
    <2>6. at \in Nat
      <3> DEFINE j == row[q]
      <3>1. j # 0 /\ j \in 1 .. Len(d.tracks)
        BY <1>1, <1>5, <1>16, <2>5
      <3> HIDE DEF j
      <3>2. d.tracks[j].entries \in Seq(Nat) /\ Subs(d, j) = d.tracks[j].entries
        BY <3>1, DiscShape DEF Subs
      <3>3. col[q] <= Len(Subs(d, j)) + 2 /\ Len(Subs(d, j)) \in Nat
        BY <1>5, <2>1, <3>2, LenProperties DEF LastCol, j
      <3>4. col[q] - 2 \in 1 .. Len(Subs(d, j))
        BY <1>5, <1>16, <3>3
      <3> QED
        BY <3>2, <3>4, ElementOfSeq DEF j
    <2>7. cue.lsn - s.last_track_lsn = at
      <3>1. cue.lsn = Start(d, row[q]) + at /\ s.last_track_lsn = Start(d, row[q])
        BY <1>5, <1>10, <1>16, <2>1, <2>3
      <3> HIDE DEF at
      <3> QED
        BY <2>5, <2>6, <3>1
    <2>8. r.text = lines
      BY <2>2, <2>7
    <2>9. LengthsKnown(files)
      BY LengthsAre
    <2>10. /\ TocKnown(files, text, d, row, col, n, p, t)
           /\ Begun(files, text, Reached(n, Start(d, row[q])))
      BY <1>11, <2>3, <2>4
    <2>11. /\ TocKnown(files, lines, d, row, col, n, q, t)
           /\ Begun(files, lines, Reached(n, Start(d, row[q])))
      <3>1. t = row[q] + 1 /\ at = Subs(d, row[q])[col[q] - 2] /\ at \in Int
        BY <2>6
      <3> HIDE DEF t, at, text
      <3> QED
        BY <1>9, <2>3, <2>9, <2>10, <3>1, EntryKnown
    <2>12. lines \in Seq(TocLineType) /\ Grown(text, lines)
      <3> DEFINE e == TocIndexLine(at)
      <3>1. e \in TocLineType
        BY <2>6 DEF TocIndexLine, TocLineType
      <3> HIDE DEF e
      <3> QED
        BY <1>12, <3>1, SubLineIs, AppendProperties DEF TocSub, e
    <2>13. lines[1] = TrackLine(1, size)
      BY <1>13, <2>12
    <2> QED
      BY <2>4, <2>8, <2>11, <2>13
  <1> QED
    BY <1>5, <1>14, <1>15, <1>16

\* A table of contents without a line.
LEMMA NoLines ==
    ASSUME NEW files, LengthsKnown(files), NEW text, text = <<>>
    PROVE  Reads(files, text, 0, 0, {}, 0, {})
  <1>1. text \in Seq(TocLineType) /\ Len(text) = 0 /\ DOMAIN text = {}
    <2>1. text \in Seq(TocLineType) /\ Len(text) = 0
      BY EmptySeq
    <2> QED
      BY <2>1, LenProperties
  <1>2. Tracks(text) = 0
    <2>1. {j \in 1 .. 0 : text[j].line = "TRACK"} = {}
      OBVIOUS
    <2> QED
      BY <1>1, <2>1, FS_EmptySet DEF Tracks, TrackOf
  <1>3. IndexCount(text) = 0
    <2>1. IndexLines(text, Len(text), Tracks(text)) = {}
      BY <1>1 DEF IndexLines
    <2> QED
      BY <2>1, FS_EmptySet DEF IndexCount
  <1>4. Total(files, text) = 0
    <2>1. PICK run \in [0 .. Len(text) -> Nat] :
             /\ run[0] = 0
             /\ \A k \in 1 .. Len(text) : run[k] = run[k - 1] + Adds(files, text[k])
             /\ Total(files, text) = run[Len(text)]
      BY <1>1, TotalRuns
    <2>2. run[Len(text)] = run[0]
      BY <1>1
    <2> QED
      BY <2>1, <2>2
  <1>5. Spans(files, text) = {} /\ Entries(files, text) = {} /\ Rooted(files, text)
    BY <1>1 DEF Spans, Entries, Rooted
  <1> QED
    BY <1>1, <1>2, <1>3, <1>4, <1>5 DEF Reads

LEMMA TocLinesFirst ==
    ASSUME NEW text \in Seq(TocLineType), NEW no \in Nat, NEW size \in Nat, NEW last, NEW l, l = Len(text) + 1
    PROVE  TocLines(text, no, size, last)[l] = TrackLine(no, size)
  BY TocLinesAre

\* The first cue.
LEMMA TocSaysFirst ==
    ASSUME NEW d \in Discs, NEW row, NEW col, NEW m, LaidOut(d, row, col, m), NEW size \in Nat \ {0},
           NEW run, TocIs(run, d, row, col, m, size), NEW files, NEW n \in Nat,
           CdrdaoDisk(files, d, size, n)
    PROVE  TocSays(files, run, d, row, col, n, size, 1)
  <1> DEFINE one == 1
             zero == 0
             none == {}
             empty == <<>>
             cue == CueList(d)[1]
             last == NoCue
             lines == TocLines(empty, zero + 1, size, last)
  <1>1. m \in Nat /\ m >= 2 /\ row[1] = 0 /\ col[1] = 2 /\ Len(d.tracks) \in Nat
    BY DiscShape DEF LaidOut
  <1>2. 1 \in 1 .. m /\ 1 # m /\ 1 - 1 = 0
    BY <1>1
  <1>3. cue \in CueType /\ cue.type = "track"
    <2>1. /\ CueList(d)[1] \in CueType
          /\ CueList(d)[1].type = IF 1 = m THEN "end" ELSE IF col[1] = 1 THEN "pregap"
                                  ELSE IF col[1] = 2 THEN "track" ELSE "subindex"
      BY <1>2, CueTypes
    <2> QED
      BY <1>1, <1>2, <2>1
  <1>4. run[1] = CdrdaoLines(TocStart, cue, size) /\ TocStart \in TocStates
    <2>1. run[1] = CdrdaoLines(run[1 - 1], CueList(d)[1], size) /\ run[0] = TocStart /\ run[0] \in TocStates
      BY <1>1, <1>2 DEF TocIs
    <2> QED
      BY <1>2, <2>1
  <1>5. /\ ~TocStart.done /\ TocStart.text = empty /\ TocStart.track_no = zero /\ TocStart.last = last
        /\ last.type # "pregap"
    BY DEF TocStart, NoCue, Cue
  <1>6. run[1].text = lines
    <2>1. run[1].text = TocLines(TocStart.text, TocStart.track_no + 1, size, TocStart.last)
      BY <1>3, <1>4, <1>5, TocTexts
    <2> QED
      BY <1>5, <2>1
  <1>7. Reads(files, empty, zero, zero, none, zero, none)
    BY LengthsAre, NoLines
  <1>8. TotalTo(d, n, zero) = zero
    BY DEF TotalTo
  <1>9. AreSpans(none, d, n, zero)
    <2>1. \A j, c : IsPart(d, j, c) => ~(j < 0)
      BY <1>1 DEF IsPart
    <2> QED
      BY <2>1 DEF AreSpans
  <1>10. none = EntriesTo(d, row, col, n, one)
    <2>1. {j \in 1 .. 1 : col[j] > 2} = {}
      BY <1>1
    <2> QED
      BY <2>1 DEF EntriesTo
  <1>11. zero \in 0 .. Len(d.tracks) /\ col[one] = 2 /\ (last.type = "pregap" <=> zero # 0)
    BY <1>1, <1>5
  <1>12. Reads(files, empty, zero, TotalTo(d, n, zero), none, zero, none)
    BY <1>7, <1>8
  <1>13. lines \in Seq(TocLineType) /\ lines[1] = TrackLine(1, size)
    <2> DEFINE u == zero + 1
    <2>1. empty \in Seq(TocLineType) /\ Len(empty) + 1 = 1 /\ u \in Nat /\ size \in Nat /\ u = 1
      BY EmptySeq
    <2> HIDE DEF empty, u, last
    <2>2. TocLines(empty, u, size, last) \in Seq(TocLineType)
      BY <2>1, TocLinesAre
    <2>3. TocLines(empty, u, size, last)[1] = TrackLine(u, size)
      <3> DEFINE l == Len(empty) + 1
      <3>1. l = Len(empty) + 1 /\ l = 1
        BY <2>1
      <3> HIDE DEF l
      <3>2. TocLines(empty, u, size, last)[l] = TrackLine(u, size)
        BY <2>1, <3>1, TocLinesFirst
      <3> QED
        BY <3>1, <3>2
    <2> QED
      BY <2>1, <2>2, <2>3 DEF u
  <1> HIDE DEF one, zero, none, empty, last
  <1>14. /\ TocKnown(files, lines, d, row, col, n, one, zero + 1)
         /\ Begun(files, lines, Reached(n, Start(d, zero)))
    BY <1>9, <1>10, <1>11, <1>12, TrackKnown
  <1>15. TrackNo(row, col, 1) = zero + 1 /\ row[1] = zero
    BY <1>1 DEF TrackNo, zero
  <1> HIDE DEF lines
  <1> QED
    BY <1>6, <1>13, <1>14, <1>15 DEF TocSays, one

\* What a burner knows of the whole table of contents.
TocRead(files, d, size, n, text) ==
    /\ text \in Seq(TocLineType) /\ Len(text) > 0
    /\ text[1] = TrackLine(1, size)
    /\ AreSpans(Spans(files, text), d, n, Len(d.tracks) + 1)
    /\ \E row, col, m : LaidOut(d, row, col, m) /\ Entries(files, text) = EntriesTo(d, row, col, n, m)

LEMMA TocReads ==
    ASSUME NEW d \in Discs, NEW size \in Nat \ {0}, NEW files, NEW n \in Nat,
           CdrdaoDisk(files, d, size, n)
    PROVE  TocRead(files, d, size, n, TocText(d, size))
  <1> DEFINE m == Len(CueList(d))
  <1>1. PICK row, col : LaidOut(d, row, col, m)
    BY CuesLaidOut
  <1> HIDE DEF m
  <1>2. PICK run : TocIs(run, d, row, col, m, size)
    BY <1>1, TocExists
  <1>3. /\ m \in Nat /\ m >= 2
        /\ TocOf(TocStart, CueList(d), size) = run[m]
        /\ \A p \in 0 .. m : run[p] \in TocStates
    BY <1>1, <1>2 DEF TocIs, LaidOut
  <1> DEFINE T == {j \in Nat : j + 1 <= m => TocSays(files, run, d, row, col, n, size, j + 1)}
  <1>4. TocSays(files, run, d, row, col, n, size, 1)
    BY <1>1, <1>2, TocSaysFirst
  <1>5. 0 \in T
    BY <1>4
  <1>6. ASSUME NEW j \in Nat, j \in T PROVE j + 1 \in T
    <2> SUFFICES ASSUME j + 1 + 1 <= m PROVE TocSays(files, run, d, row, col, n, size, j + 1 + 1)
      OBVIOUS
    <2>1. j + 1 \in 1 .. m - 1 /\ j + 1 <= m
      BY <1>3
    <2>2. TocSays(files, run, d, row, col, n, size, j + 1)
      BY <1>6, <2>1
    <2> QED
      BY <1>1, <1>2, <2>1, <2>2, TocSaysMore
  <1> HIDE DEF T
  <1>7. Nat \subseteq T
    BY <1>5, <1>6, NatSetInduction
  <1>8. m - 1 \in T /\ m - 1 + 1 = m
    BY <1>3, <1>7
  <1>9. m - 1 + 1 <= m => TocSays(files, run, d, row, col, n, size, m - 1 + 1)
    BY <1>8 DEF T
  <1>10. TocSays(files, run, d, row, col, n, size, m)
    BY <1>3, <1>8, <1>9
  <1>11. TocText(d, size) = run[m].text
    BY <1>3 DEF TocText
  <1>12. TrackNo(row, col, m) = Len(d.tracks) + 1
    <2>1. m \in 1 .. m
      BY <1>3
    <2>2. row[m] = Len(d.tracks) + 1 /\ col[m] = 1
      BY <1>1, <2>1, CueTypes
    <2> QED
      BY <2>2 DEF TrackNo
  <1>13. run[m].text \in Seq(TocLineType) /\ Len(run[m].text) > 0
    BY <1>11, TocDone DEF TocText
  <1> DEFINE t == Len(d.tracks) + 1
             text == run[m].text
  <1>14. TocKnown(files, text, d, row, col, n, m, t) /\ text[1] = TrackLine(1, size)
    BY <1>10, <1>12 DEF TocSays
  <1>15. AreSpans(Spans(files, text), d, n, t) /\ Entries(files, text) = EntriesTo(d, row, col, n, m)
    <2> HIDE DEF t, text
    <2>1. PICK spans, count : /\ Reads(files, text, t, TotalTo(d, n, t), spans, count, EntriesTo(d, row, col, n, m))
                              /\ AreSpans(spans, d, n, t)
      BY <1>14 DEF TocKnown
    <2> QED
      BY <2>1 DEF Reads
  <1> QED
    BY <1>1, <1>11, <1>13, <1>14, <1>15 DEF TocRead

\* The sectors of a data file that begins at a sector of the disc.
DataSectors(files, f, from, size) ==
    IF f \in DOMAIN files
    THEN {from + n : n \in {m \in 0 .. Cardinality(DOMAIN files[f]) - 1 :
            /\ m * size \in DOMAIN files[f]
            /\ files[f][m * size] = [lsn |-> from + m, size |-> size]}}
    ELSE {}

\* They are those of the part.
LEMMA DataSectorsAre ==
    ASSUME NEW d \in Discs, NEW size \in Nat \ {0}, NEW files, NEW n \in Nat,
           CdrdaoDisk(files, d, size, n), NEW k, NEW c, IsPart(d, k, c)
    PROVE  /\ DataSectors(files, PartFile(k, c), Reached(n, PartFrom(d, k, c)), size) \subseteq Nat
           /\ \A l \in Nat : l \in DataSectors(files, PartFile(k, c), Reached(n, PartFrom(d, k, c)), size)
                               <=> InPart(d, k, c, l) /\ l < n
  <1> DEFINE f == PartFile(k, c)
             from == PartFrom(d, k, c)
             to == PartTo(d, k, c)
             count == PartCount(d, k, c, n)
             some == DataSectors(files, f, Reached(n, from), size)
  <1>1. from \in Nat /\ to \in Nat /\ from < to
    BY PartsInOrder
  <1>2. f \in DOMAIN files <=> from < n
    BY PartFileIs
  <1>3. \A l : InPart(d, k, c, l) <=> from <= l /\ l < to
    BY DEF InPart
  <1>4. CASE n <= from
    <2>1. some = {}
      BY <1>1, <1>2, <1>4 DEF DataSectors
    <2> QED
      BY <1>1, <1>3, <1>4, <2>1
  <1>5. CASE from < n
    <2>1. /\ count \in Nat
          /\ count = Reached(n, to) - from
          /\ Holds(files[f], from, count, size)
          /\ Cardinality(DOMAIN files[f]) = count
      BY <1>5, PartFileIs
    <2>2. Reached(n, from) = from
      BY <1>1, <1>5 DEF Reached
    <2>3. /\ DOMAIN files[f] = {i * size : i \in 0 .. count - 1}
          /\ \A i \in 0 .. count - 1 : files[f][i * size] = [lsn |-> from + i, size |-> size]
      BY <2>1 DEF Holds, SectorOf
    <2>4. {m \in 0 .. Cardinality(DOMAIN files[f]) - 1 :
             /\ m * size \in DOMAIN files[f]
             /\ files[f][m * size] = [lsn |-> from + m, size |-> size]} = 0 .. count - 1
      BY <2>1, <2>3
    <2>5. some = {from + i : i \in 0 .. count - 1}
      BY <1>2, <1>5, <2>2, <2>4 DEF DataSectors
    <2>6. Reached(n, to) = IF n < to THEN n ELSE to
      BY DEF Reached
    <2> HIDE DEF from, to, count, some, f
    <2>7. some \subseteq Nat
      BY <1>1, <2>1, <2>5
    <2>8. ASSUME NEW l \in Nat PROVE l \in some <=> from <= l /\ l < to /\ l < n
      <3>1. l \in some <=> \E i \in 0 .. count - 1 : l = from + i
        BY <2>5
      <3>2. ASSUME from <= l, l < to, l < n PROVE l - from \in 0 .. count - 1 /\ l = from + (l - from)
        BY <1>1, <2>1, <2>6, <3>2
      <3>3. ASSUME NEW i \in 0 .. count - 1, l = from + i PROVE from <= l /\ l < to /\ l < n
        BY <1>1, <2>1, <2>6, <3>3
      <3> QED
        BY <3>1, <3>2, <3>3
    <2> QED
      BY <1>3, <2>7, <2>8 DEF some, f, from
  <1> QED
    BY <1>1, <1>4, <1>5

\* What a burner finds in the files when the first n sectors are written.
LEMMA CdrdaoSectorsAre ==
    ASSUME NEW d \in Discs, NEW size \in Nat \ {0}, NEW files, NEW n \in 0 .. DiscEnd(d),
           CdrdaoDisk(files, d, size, n)
    PROVE  CdrdaoSectors(files) = 0 .. n - 1
  <1> DEFINE text == TocText(d, size)
             K == {j \in DOMAIN text : text[j].line = "DATAFILE"}
             S(k) == Span(files, text, k)
             F(x) == DataSectors(files, ImageFile(x[2].no, x[2].pregap), x[3], size)
             spans == Spans(files, text)
  <1>1. n \in Nat /\ n <= DiscEnd(d) /\ DiscEnd(d) \in Nat /\ Len(d.tracks) \in Nat
    BY TracksInOrder, DiscShape
  <1>2. /\ text \in Seq(TocLineType) /\ Len(text) > 0
        /\ text[1] = TrackLine(1, size)
        /\ AreSpans(spans, d, n, Len(d.tracks) + 1)
    BY <1>1, TocReads DEF TocRead
  <1>3. TextIn(files[TocFile], text)
    BY DEF CdrdaoDisk
  <1> HIDE DEF text
  <1>4. Lines(files, TocFile) = text
    BY <1>2, <1>3, LinesOf
  <1>5. text[1].at = size
    BY <1>2 DEF TrackLine
  <1>6. CdrdaoSectors(files) = UNION {F(S(k)) : k \in K}
    <2>1. CdrdaoSectors(files)
            = UNION {DataSectors(files, ImageFile(text[k].no, text[k].pregap), DataAt(files, text, k), size)
                       : k \in K}
      BY <1>4, <1>5 DEF CdrdaoSectors, DataSectors
    <2>2. \A k : F(S(k)) = DataSectors(files, ImageFile(text[k].no, text[k].pregap), DataAt(files, text, k), size)
      BY DEF Span
    <2> HIDE DEF F, S
    <2> QED
      BY <2>1, <2>2
  <1>7. spans = {S(k) : k \in K}
    BY DEF Spans
  <1>8. \A x : x \in spans <=> \E j, c : IsPart(d, j, c) /\ j < Len(d.tracks) + 1 /\ x = PartSpan(d, n, j, c)
    BY <1>2 DEF AreSpans
  <1>9. \A j, c : IsPart(d, j, c) => j < Len(d.tracks) + 1
    BY <1>1 DEF IsPart
  <1>10. ASSUME NEW j, NEW c, IsPart(d, j, c)
         PROVE  /\ F(PartSpan(d, n, j, c)) \subseteq Nat
                /\ \A l \in Nat : l \in F(PartSpan(d, n, j, c)) <=> InPart(d, j, c, l) /\ l < n
    <2>1. F(PartSpan(d, n, j, c)) = DataSectors(files, PartFile(j, c), Reached(n, PartFrom(d, j, c)), size)
      <3>1. PartSpan(d, n, j, c)[3] = Reached(n, PartFrom(d, j, c))
        BY DEF PartSpan
      <3>2. ImageFile(PartSpan(d, n, j, c)[2].no, PartSpan(d, n, j, c)[2].pregap) = PartFile(j, c)
        BY DEF PartSpan, DataFile, PartFile
      <3> QED
        BY <3>1, <3>2
    <2> HIDE DEF F
    <2> QED
      BY <1>1, <1>10, <2>1, DataSectorsAre
  <1> HIDE DEF F, S, K, spans
  <1>11. \A l : l \in CdrdaoSectors(files) <=> \E x \in spans : l \in F(x)
    BY <1>6, <1>7
  <1>12. \A l : l \in CdrdaoSectors(files) <=> \E j, c : IsPart(d, j, c) /\ l \in F(PartSpan(d, n, j, c))
    BY <1>8, <1>9, <1>11
  <1>13. ASSUME NEW l \in CdrdaoSectors(files) PROVE l \in 0 .. n - 1
    <2>1. PICK j, c : IsPart(d, j, c) /\ l \in F(PartSpan(d, n, j, c))
      BY <1>12
    <2>2. l \in Nat /\ l < n
      BY <1>10, <2>1
    <2> QED
      BY <1>1, <2>2
  <1>14. ASSUME NEW l \in 0 .. n - 1 PROVE l \in CdrdaoSectors(files)
    <2>1. l \in Nat /\ l < DiscEnd(d) /\ l < n
      BY <1>1
    <2>2. PICK k \in 0 .. Len(d.tracks), c \in {1, 2} : InPart(d, k, c, l)
      BY <2>1, PartExists
    <2>3. IsPart(d, k, c)
      BY <2>2 DEF InPart
    <2> QED
      BY <1>10, <1>12, <2>1, <2>2, <2>3
  <1> QED
    BY <1>13, <1>14

\* The cue of a part.
LEMMA PartCue ==
    ASSUME NEW d \in Discs, NEW row, NEW col, NEW m, LaidOut(d, row, col, m), NEW k, NEW c, IsPart(d, k, c)
    PROVE  \E q \in 1 .. m - 1 : row[q] = k /\ col[q] = c
  <1>1. m \in Nat /\ m >= 2 /\ Len(d.tracks) \in Nat
    BY DiscShape DEF LaidOut
  <1>2. k \in 0 .. Len(d.tracks) /\ c \in {1, 2} /\ (k = 0 => c = 2)
    BY DEF IsPart
  <1>3. CASE k = 0
    <2>1. 1 \in 1 .. m - 1 /\ row[1] = 0 /\ col[1] = 2
      BY <1>1 DEF LaidOut
    <2> QED
      BY <1>2, <1>3, <2>1
  <1>4. CASE k # 0
    <2>1. k \in 1 .. Len(d.tracks)
      BY <1>1, <1>2, <1>4
    <2>2. LastCol(d, k) \in Nat /\ LastCol(d, k) >= 2
      <3>1. Subs(d, k) \in Seq(Nat)
        BY <1>2, TracksInOrder
      <3> QED
        BY <1>4, <3>1, LenProperties DEF LastCol
    <2>3. c \in 1 .. LastCol(d, k)
      BY <1>2, <2>2
    <2> QED
      BY <2>1, <2>3 DEF LaidOut
  <1> QED
    BY <1>3, <1>4

\* What a data file's line says.
SpanMark(x) == <<x[1], IF x[2].pregap THEN 0 ELSE 1, x[3]>>

\* The index points of a finished image.
LEMMA CdrdaoIndexesAre ==
    ASSUME NEW d \in Discs, NEW size \in Nat \ {0}, NEW files, CdrdaoDisk(files, d, size, DiscEnd(d))
    PROVE  CdrdaoIndexes(files) = Indexes(d)
  <1> DEFINE n == DiscEnd(d)
             text == TocText(d, size)
             K == {j \in DOMAIN text : text[j].line = "DATAFILE"}
             S(k) == Span(files, text, k)
             spans == Spans(files, text)
             entries == Entries(files, text)
  <1>1. n \in Nat /\ Len(d.tracks) \in Nat
    BY TracksInOrder, DiscShape
  <1>2. /\ text \in Seq(TocLineType)
        /\ AreSpans(spans, d, n, Len(d.tracks) + 1)
        /\ \E row, col, m : LaidOut(d, row, col, m) /\ entries = EntriesTo(d, row, col, n, m)
    BY <1>1, TocReads DEF TocRead
  <1>3. TextIn(files[TocFile], text)
    BY DEF CdrdaoDisk
  <1> HIDE DEF text
  <1>4. Lines(files, TocFile) = text
    BY <1>2, <1>3, LinesOf
  <1>5. CdrdaoIndexes(files) = {SpanMark(S(k)) : k \in K} \cup entries
    <2>1. CdrdaoIndexes(files)
            = {<<TrackOf(text, k), IF text[k].pregap THEN 0 ELSE 1, DataAt(files, text, k)>> : k \in K}
                \cup entries
      BY <1>4 DEF CdrdaoIndexes, Entries, Entry
    <2>2. \A k : SpanMark(S(k)) = <<TrackOf(text, k), IF text[k].pregap THEN 0 ELSE 1, DataAt(files, text, k)>>
      BY DEF Span, SpanMark
    <2> HIDE DEF S
    <2> QED
      BY <2>1, <2>2
  <1>6. spans = {S(k) : k \in K}
    BY DEF Spans
  <1>7. \A x : x \in spans <=> \E j, c : IsPart(d, j, c) /\ j < Len(d.tracks) + 1 /\ x = PartSpan(d, n, j, c)
    BY <1>2 DEF AreSpans
  <1>8. \A j, c : IsPart(d, j, c) => j < Len(d.tracks) + 1
    BY <1>1 DEF IsPart
  <1>9. PICK row, col, m : LaidOut(d, row, col, m) /\ entries = EntriesTo(d, row, col, n, m)
    BY <1>2
  <1>10. /\ m \in Nat /\ m >= 2
         /\ col[m] = 1
         /\ MarksTo(d, row, col, m) = Indexes(d)
    <2>1. MarksTo(d, row, col, m) = Indexes(d)
      BY <1>9, AllMarks
    <2> QED
      BY <1>9, <2>1 DEF LaidOut
  <1>11. MarksTo(d, row, col, m) = {MarkAt(d, row, col, q) : q \in 1 .. m - 1}
    <2>1. {j \in 1 .. m : col[j] = 1 => j < m} = 1 .. m - 1
      BY <1>10
    <2> QED
      BY <2>1 DEF MarksTo
  <1>12. ASSUME NEW q \in 1 .. m - 1
         PROVE  /\ row[q] \in 0 .. Len(d.tracks) /\ col[q] \in Nat \ {0}
                /\ row[q] = 0 => col[q] = 2
                /\ col[q] <= 2 => /\ IsPart(d, row[q], col[q])
                                  /\ MarkAt(d, row, col, q) = SpanMark(PartSpan(d, n, row[q], col[q]))
                /\ col[q] > 2 => MarkAt(d, row, col, q) = TocEntry(d, row, col, n, q)
    <2> DEFINE k == row[q]
               c == col[q]
    <2>1. q \in 1 .. m /\ q < m
      BY <1>10
    <2>2. /\ k \in 0 .. Len(d.tracks) + 1 /\ c \in Nat \ {0} /\ k <= Len(d.tracks)
          /\ k = 0 => c = 2
          /\ CueList(d)[q].lsn = IF c = 1 THEN PregapAt(d, k)
                                 ELSE IF c = 2 THEN Start(d, k)
                                 ELSE Start(d, k) + Subs(d, k)[c - 2]
      BY <1>9, <2>1, CueTypes
    <2>3. k \in 0 .. Len(d.tracks)
      BY <1>1, <2>2
    <2>4. MarkAt(d, row, col, q) = <<k + 1, c - 1, CueList(d)[q].lsn>>
      BY DEF MarkAt
    <2>5. TocEntry(d, row, col, n, q) = <<k + 1, c - 1, Reached(n, Start(d, k)) + Subs(d, k)[c - 2]>>
      BY DEF TocEntry
    <2> HIDE DEF k, c
    <2>6. ASSUME c <= 2
          PROVE  IsPart(d, k, c) /\ MarkAt(d, row, col, q) = SpanMark(PartSpan(d, n, k, c))
      <3>1. c = 1 \/ c = 2
        BY <2>2, <2>6
      <3>2. IsPart(d, k, c)
        BY <2>2, <2>3, <3>1 DEF IsPart
      <3>3. PartFrom(d, k, c) \in Nat /\ PartFrom(d, k, c) <= n
        BY <1>1, <3>2, PartsInOrder
      <3>4. Reached(n, PartFrom(d, k, c)) = PartFrom(d, k, c)
        BY <1>1, <3>3 DEF Reached
      <3>5. SpanMark(PartSpan(d, n, k, c)) = <<k + 1, IF c = 1 THEN 0 ELSE 1, PartFrom(d, k, c)>>
        BY <3>4 DEF SpanMark, PartSpan, DataFile
      <3>6. PartFrom(d, k, c) = CueList(d)[q].lsn
        BY <2>2, <3>1 DEF PartFrom
      <3>7. c - 1 = IF c = 1 THEN 0 ELSE 1
        BY <3>1
      <3> QED
        BY <2>4, <3>2, <3>5, <3>6, <3>7
    <2>7. ASSUME c > 2
          PROVE  MarkAt(d, row, col, q) = TocEntry(d, row, col, n, q)
      <3>1. Start(d, k) \in Nat /\ Start(d, k) < Stop(d, k) /\ Stop(d, k) <= n /\ Stop(d, k) \in Nat
        BY <2>3, TracksInOrder
      <3>2. Reached(n, Start(d, k)) = Start(d, k)
        BY <1>1, <3>1 DEF Reached
      <3>3. c # 1 /\ c # 2
        BY <2>2, <2>7
      <3> QED
        BY <2>2, <2>4, <2>5, <3>2, <3>3
    <2> QED
      BY <2>2, <2>3, <2>6, <2>7 DEF k, c
  <1>13. entries = {TocEntry(d, row, col, n, q) : q \in {j \in 1 .. m : col[j] > 2}}
    BY <1>9 DEF EntriesTo
  <1> HIDE DEF n, K, S, spans, entries
  <1>14. \A x : x \in CdrdaoIndexes(files) <=> (\E y \in spans : x = SpanMark(y)) \/ x \in entries
    BY <1>5, <1>6
  <1>15. \A x : x \in CdrdaoIndexes(files)
                  <=> (\E j, c : IsPart(d, j, c) /\ x = SpanMark(PartSpan(d, n, j, c))) \/ x \in entries
    BY <1>7, <1>8, <1>14
  <1>16. ASSUME NEW x \in CdrdaoIndexes(files) PROVE x \in Indexes(d)
    <2>1. CASE \E j, c : IsPart(d, j, c) /\ x = SpanMark(PartSpan(d, n, j, c))
      <3>1. PICK j, c : IsPart(d, j, c) /\ x = SpanMark(PartSpan(d, n, j, c))
        BY <2>1
      <3>2. PICK q \in 1 .. m - 1 : row[q] = j /\ col[q] = c
        BY <1>9, <3>1, PartCue
      <3>3. col[q] <= 2
        BY <3>1, <3>2 DEF IsPart
      <3>4. x = MarkAt(d, row, col, q)
        BY <1>12, <3>1, <3>2, <3>3
      <3> QED
        BY <1>10, <1>11, <3>4
    <2>2. CASE x \in entries
      <3>1. PICK q \in 1 .. m : col[q] > 2 /\ x = TocEntry(d, row, col, n, q)
        BY <1>13, <2>2
      <3>2. q \in 1 .. m - 1
        BY <1>10, <3>1
      <3>3. x = MarkAt(d, row, col, q)
        BY <1>12, <3>1, <3>2
      <3> QED
        BY <1>10, <1>11, <3>2, <3>3
    <2> QED
      BY <1>15, <2>1, <2>2
  <1>17. ASSUME NEW x \in Indexes(d) PROVE x \in CdrdaoIndexes(files)
    <2>1. PICK q \in 1 .. m - 1 : x = MarkAt(d, row, col, q)
      BY <1>10, <1>11
    <2>2. CASE col[q] <= 2
      BY <1>12, <1>15, <2>1, <2>2
    <2>3. CASE col[q] > 2
      <3>1. q \in 1 .. m
        BY <1>10
      <3>2. x = TocEntry(d, row, col, n, q)
        BY <1>12, <2>1, <2>3
      <3>3. x \in entries
        BY <1>13, <2>3, <3>1, <3>2
      <3> QED
        BY <1>15, <3>3
    <2>4. col[q] <= 2 \/ col[q] > 2
      BY <1>12
    <2> QED
      BY <2>2, <2>3, <2>4
  <1> QED
    BY <1>16, <1>17

\* cdrdao: Found at every sector.
LEMMA CdrdaoFound ==
    ASSUME Frame, kind = "cdrdao", NEW flag \in BOOLEAN, CdrdaoInv(flag)
    PROVE  /\ phase \in {"writing", "exited", "done"} => Found = WantedBefore(kind, disc, next)
           /\ phase \notin {"writing", "exited", "done"} => Found = {} /\ next = 0
           /\ phase = "done" => CdrdaoIndexes(disk) = Indexes(disc)
  <1>1. disc \in Discs /\ next \in 0 .. DiscEnd(disc)
    BY DEF Frame
  <1>2. Found = IF TocFile \in DOMAIN disk THEN CdrdaoSectors(disk) ELSE {}
    BY DEF Found
  <1>3. WantedBefore(kind, disc, next) = 0 .. next - 1
    BY <1>1, WholeDisc DEF Kinds
  <1>4. Size(flag) \in Nat \ {0}
    BY SizeIs
  <1>5. CASE phase \in {"writing", "exited", "done"}
    <2>1. /\ CdrdaoDisk(disk, disc, Size(flag), next)
          /\ phase = "done" => next = DiscEnd(disc)
      BY <1>5 DEF CdrdaoInv
    <2>2. TocFile \in DOMAIN disk
      BY <2>1 DEF CdrdaoDisk
    <2>3. CdrdaoSectors(disk) = 0 .. next - 1
      BY <1>1, <1>4, <2>1, CdrdaoSectorsAre
    <2>4. phase = "done" => CdrdaoIndexes(disk) = Indexes(disc)
      BY <1>1, <1>4, <2>1, CdrdaoIndexesAre
    <2> QED
      BY <1>2, <1>3, <1>5, <2>2, <2>3, <2>4
  <1>6. CASE phase \notin {"writing", "exited", "done"}
    <2>1. next = 0 /\ disk = NoFiles
      BY <1>6 DEF CdrdaoInv
    <2>2. TocFile \notin DOMAIN disk
      BY <2>1 DEF NoFiles
    <2> QED
      BY <1>2, <1>6, <2>1, <2>2
  <1> QED
    BY <1>5, <1>6

-----------------------------------------------------------------------------
(* A finished image holds what was sent.                                   *)

LEMMA AllWanted ==
    ASSUME NEW d \in Discs, NEW k
    PROVE  WantedBefore(k, d, DiscEnd(d)) = Wanted(k, d)
  <1>1. DiscEnd(d) \in Nat
    BY TracksInOrder
  <1>2. \A l \in AllSectors(d) : l < DiscEnd(d)
    BY <1>1 DEF AllSectors
  <1>3. Wanted(k, d) \subseteq AllSectors(d)
    BY DEF Wanted
  <1> QED
    BY <1>2, <1>3 DEF WantedBefore

\* Found at every sector, in every image.
LEMMA FoundIs ==
    ASSUME SinkInv
    PROVE  /\ phase \in {"writing", "exited", "done"} => Found = WantedBefore(kind, disc, next)
           /\ phase \in {"new", "refused"} => Found = {} /\ next = 0
           /\ phase = "failed" /\ kind # "nrg" => Found = {}
           /\ phase = "done" => next = DiscEnd(disc)
  <1>1. Frame
    BY DEF SinkInv, Frame
  <1>2. ASSUME kind = "bincue", NEW flag \in BOOLEAN, BinCueInv(flag)
        PROVE  /\ phase \in {"writing", "exited", "done"} => Found = WantedBefore(kind, disc, next)
               /\ phase \notin {"writing", "exited", "done"} => Found = {} /\ next = 0
               /\ phase = "done" => next = DiscEnd(disc)
    BY <1>1, <1>2, BinCueFound DEF BinCueInv
  <1>3. ASSUME kind = "cdrdao", NEW flag \in BOOLEAN, CdrdaoInv(flag)
        PROVE  /\ phase \in {"writing", "exited", "done"} => Found = WantedBefore(kind, disc, next)
               /\ phase \notin {"writing", "exited", "done"} => Found = {} /\ next = 0
               /\ phase = "done" => next = DiscEnd(disc)
    BY <1>1, <1>3, CdrdaoFound DEF CdrdaoInv
  <1>4. ASSUME kind = "nrg", NrgInv
        PROVE  /\ phase \in {"writing", "exited", "done"} => Found = WantedBefore(kind, disc, next)
               /\ phase \in {"new", "refused"} => Found = {} /\ next = 0
               /\ phase = "done" => next = DiscEnd(disc)
    BY <1>1, <1>4, NrgFound DEF NrgInv
  <1> QED
    BY <1>2, <1>3, <1>4 DEF SinkInv

\* image_bincue.c, image_cdrdao.c, image_nrg.c: every finished image of every disc holds
\* each sector it has a place for where its cue sheet, its table of contents or its tail
\* makes a burner look for it, and starts every track and entry point where the writer said.
THEOREM BurnsAsSentCorrect ==
    Spec => []BurnsAsSent
  <1>1. ASSUME SinkInv, phase = "done"
        PROVE  /\ Found = Wanted(kind, disc)
               /\ kind = "bincue" => BinCueIndexes(disk) = Indexes(disc)
               /\ kind = "cdrdao" => CdrdaoIndexes(disk) = Indexes(disc)
               /\ kind = "nrg" =>
                     /\ Len(NrgTracks(disk)) = Len(disc.tracks) + 1
                     /\ \A k \in DOMAIN NrgTracks(disk) :
                           NrgTracks(disk)[k].start_lsn * M2RAW_SIZE = NrgTracks(disk)[k].start
    <2>1. Frame /\ disc \in Discs
      BY <1>1 DEF SinkInv, Frame
    <2>2. Found = Wanted(kind, disc)
      <3>1. Found = WantedBefore(kind, disc, next) /\ next = DiscEnd(disc)
        BY <1>1, FoundIs
      <3> QED
        BY <2>1, <3>1, AllWanted
    <2>3. ASSUME kind = "bincue" PROVE BinCueIndexes(disk) = Indexes(disc)
      <3>1. PICK flag \in BOOLEAN : BinCueInv(flag)
        BY <1>1, <2>3 DEF SinkInv
      <3> QED
        BY <1>1, <2>1, <2>3, <3>1, BinCueFound
    <2>4. ASSUME kind = "cdrdao" PROVE CdrdaoIndexes(disk) = Indexes(disc)
      <3>1. PICK flag \in BOOLEAN : CdrdaoInv(flag)
        BY <1>1, <2>4 DEF SinkInv
      <3> QED
        BY <1>1, <2>1, <2>4, <3>1, CdrdaoFound
    <2>5. ASSUME kind = "nrg"
          PROVE  /\ Len(NrgTracks(disk)) = Len(disc.tracks) + 1
                 /\ \A k \in DOMAIN NrgTracks(disk) :
                       NrgTracks(disk)[k].start_lsn * M2RAW_SIZE = NrgTracks(disk)[k].start
      <3>1. NrgInv
        BY <1>1, <2>5 DEF SinkInv
      <3> QED
        BY <1>1, <2>1, <2>5, <3>1, NrgSays
    <2> QED
      BY <2>2, <2>3, <2>4, <2>5
  <1>2. SinkInv => BurnsAsSent
    BY <1>1 DEF BurnsAsSent
  <1> QED
    BY <1>2, SinkInvInductive, PTL

-----------------------------------------------------------------------------
(* Every sink implements DiscImage.                                        *)

\* What FoundIs says of a state.
FoundNow ==
    /\ disc \in Discs /\ kind \in Kinds /\ next \in 0 .. DiscEnd(disc)
    /\ phase \in {"writing", "exited", "done"} => Found = WantedBefore(kind, disc, next)
    /\ phase \in {"new", "refused"} => Found = {} /\ next = 0
    /\ phase = "failed" /\ kind # "nrg" => Found = {} /\ next = 0
    /\ phase = "done" => next = DiscEnd(disc)

LEMMA FoundHolds ==
    SinkInv => FoundNow
  <1> SUFFICES ASSUME SinkInv PROVE FoundNow
    OBVIOUS
  <1>1. kind \in Kinds /\ (phase = "failed" /\ kind # "nrg" => next = 0)
    BY DEF SinkInv, BinCueInv, CdrdaoInv, Kinds
  <1> QED
    BY <1>1, FoundIs DEF FoundNow, SinkInv

\* A cue sheet that a sink does not take leaves no sectors.
LEMMA SheetFinds ==
    ASSUME SinkInv, SetCuesheet, FoundNow, FoundNow'
    PROVE  /\ Found = {} /\ Found' = {}
           /\ phase \in {"new", "refused"} /\ phase' \notin {"new", "refused", "done"}
           /\ kind' = kind /\ disc' = disc
  <1>1. /\ phase = "new" /\ phase' \in {"writing", "failed"} /\ next' = next
        /\ kind' = kind /\ disc' = disc
    BY DEF SetCuesheet, Does
  <1>2. Found = {} /\ next = 0
    BY <1>1 DEF FoundNow
  <1>3. Found' = {}
    <2>1. CASE phase' = "writing"
      <3>1. WantedBefore(kind, disc, 0) = {}
        <4>1. \A l \in Wanted(kind, disc) : l \in Nat
          BY TracksInOrder DEF Wanted, AllSectors, FoundNow
        <4> QED
          BY <4>1 DEF WantedBefore
      <3>2. Found' = WantedBefore(kind', disc', next')
        BY <2>1 DEF FoundNow
      <3> QED
        BY <1>1, <1>2, <3>1, <3>2
    <2>2. CASE phase' = "failed" /\ kind # "nrg"
      BY <1>1, <2>2 DEF FoundNow
    <2>3. CASE phase' = "failed" /\ kind = "nrg"
      <3>1. NrgInv
        BY <2>3 DEF SinkInv
      <3>2. disk = NoFiles /\ user_data = NrgNew
        BY <1>1, <3>1 DEF NrgInv
      <3>3. disk' = NrgSetCuesheet(user_data, disk, CueList(disc)).disk
        BY <2>3 DEF SetCuesheet, Does
      <3>4. disk' = NoFiles
        BY <3>2, <3>3, NrgSheetIs DEF FoundNow
      <3>5. NrgFile \notin DOMAIN disk'
        BY <3>4 DEF NoFiles
      <3> QED
        BY <1>1, <2>3, <3>5 DEF Found
    <2> QED
      BY <1>1, <2>1, <2>2, <2>3
  <1> QED
    BY <1>1, <1>2, <1>3

\* A call of write fails, if it does, before it has changed the image.
LEMMA WriteFinds ==
    ASSUME SinkInv, Write, FoundNow, FoundNow'
    PROVE  /\ phase = "writing" /\ kind' = kind /\ disc' = disc /\ next' = next + 1
           /\ next < DiscEnd(disc)
           /\ phase' = "writing" \/ (phase' = "failed" /\ Found' = Found)
  <1>1. /\ phase = "writing" /\ next < DiscEnd(disc) /\ next' = next + 1
        /\ kind' = kind /\ disc' = disc /\ phase' \in {"writing", "failed"}
    BY DEF Write, Does
  <1>2. next \in Nat /\ DiscEnd(disc) \in Nat
    BY TracksInOrder DEF FoundNow
  <1>3. ASSUME phase' = "failed" PROVE Found' = Found
    <2>1. kind = "nrg"
      <3>1. next' # 0
        BY <1>1, <1>2
      <3> QED
        BY <1>1, <1>3, <3>1 DEF FoundNow
    <2>2. NrgInv
      BY <2>1 DEF SinkInv
    <2> DEFINE r == NrgWrite(user_data, disk, next)
    <2>3. NrgBefore(user_data, disk, disc, next)
      BY <1>1, <2>2 DEF NrgInv
    <2>4. disc \in Discs
      BY DEF FoundNow
    <2>5. r.ok \in BOOLEAN /\ (~r.ok => r.disk = disk)
      BY <1>1, <1>2, <2>3, <2>4, NrgWriteIs
    <2>6. disk' = r.disk /\ phase' = IF r.ok THEN "writing" ELSE "failed"
      BY <2>1 DEF Write, Does
    <2> HIDE DEF r
    <2>7. disk' = disk
      BY <1>3, <2>5, <2>6
    <2>8. next # DiscEnd(disc)
      BY <1>1, <1>2
    <2> QED
      BY <1>1, <1>3, <2>1, <2>7, <2>8 DEF Found
  <1> QED
    BY <1>1, <1>3

\* A sink that has taken every sector closes its files.
LEMMA DestroyFinds ==
    ASSUME SinkInv, Destroy, FoundNow, FoundNow'
    PROVE  /\ phase = "writing" /\ phase' = "done" /\ kind' = kind /\ disc' = disc
           /\ Found = Wanted(kind, disc) /\ Found' = Wanted(kind, disc)
  <1>1. /\ phase = "writing" /\ next = DiscEnd(disc) /\ next' = next
        /\ kind' = kind /\ disc' = disc /\ phase' \in {"done", "failed"}
    BY DEF Destroy, Does
  <1>2. DiscEnd(disc) \in Nat \ {0} /\ disc \in Discs
    BY TracksInOrder DEF FoundNow
  <1>3. phase' = "done"
    <2>1. CASE kind # "nrg"
      BY <1>1, <1>2, <2>1 DEF FoundNow
    <2>2. CASE kind = "nrg"
      <3>1. NrgInv
        BY <2>2 DEF SinkInv
      <3>2. NrgBefore(user_data, disk, disc, next)
        BY <1>1, <3>1 DEF NrgInv
      <3>3. PICK p \in Nat : user_data = NrgObj(OpenAt(NrgFile, p), disc)
        BY <1>1, <1>2, <3>2 DEF NrgBefore
      <3> DEFINE r == NrgFree(user_data, disk)
      <3>4. r.ok
        BY <3>3, NrgFreeIs
      <3>5. phase' = IF r.ok THEN "done" ELSE "failed"
        BY <2>2 DEF Destroy, Does
      <3> HIDE DEF r
      <3> QED
        BY <3>4, <3>5
    <2> QED
      BY <2>1, <2>2
  <1>4. WantedBefore(kind, disc, next) = Wanted(kind, disc)
    BY <1>1, <1>2, AllWanted
  <1>5. Found = WantedBefore(kind, disc, next) /\ Found' = WantedBefore(kind', disc', next')
    BY <1>1, <1>3 DEF FoundNow
  <1> QED
    BY <1>1, <1>3, <1>4, <1>5

\* Every step of a sink is a step of the image, or shows nothing.
LEMMA NextIsImageNext ==
    SinkInv /\ SinkInv' /\ FoundNow /\ FoundNow' /\ [Next]_vars
      => [Image!ImageNext]_(Image!imageVars)
  <1> SUFFICES ASSUME SinkInv, SinkInv', FoundNow, FoundNow', [Next]_vars
               PROVE  Image!ImageNext \/ UNCHANGED Image!imageVars
    OBVIOUS
  <1> DEFINE sheet == IF phase \in {"new", "refused"} THEN NoSheet ELSE Wanted(kind, disc)
             sealed == phase = "done"
  <1>1. disc \in Discs /\ kind \in Kinds /\ NoSheet # Wanted(kind, disc)
    BY SheetAssumption DEF FoundNow
  <1>2. \A l \in Wanted(kind, disc) : l \in Nat
    BY <1>1, TracksInOrder DEF Wanted, AllSectors
  <1>3. ASSUME sheet' = sheet, Found' = Found, sealed' = sealed
        PROVE  UNCHANGED Image!imageVars
    BY <1>3 DEF Image!imageVars
  <1>4. ASSUME NEW value \in {"2336", "2352", "other"}, SetArg(value)
        PROVE  UNCHANGED Image!imageVars
    <2>1. phase = "new" /\ phase' \in {"new", "refused"}
      BY <1>4 DEF SetArg
    <2>2. Found = {} /\ Found' = {}
      BY <2>1 DEF FoundNow
    <2> QED
      BY <1>3, <2>1, <2>2
  <1>5. CASE SetCuesheet
    <2>1. /\ Found = {} /\ Found' = {}
          /\ phase \in {"new", "refused"} /\ phase' \notin {"new", "refused", "done"}
          /\ kind' = kind /\ disc' = disc
      BY <1>5, SheetFinds
    <2>2. sheet = NoSheet /\ sheet' = Wanted(kind, disc) /\ sealed' = sealed
      BY <2>1
    <2>3. Wanted(kind, disc) \in SUBSET Nat
      BY <1>2
    <2>4. Image!AcceptSheet
      BY <1>1, <2>1, <2>2, <2>3 DEF Image!AcceptSheet
    <2> QED
      BY <2>4 DEF Image!ImageNext
  <1>6. CASE Write
    <2>1. /\ phase = "writing" /\ kind' = kind /\ disc' = disc /\ next' = next + 1
          /\ next < DiscEnd(disc)
          /\ phase' = "writing" \/ (phase' = "failed" /\ Found' = Found)
      BY <1>6, WriteFinds
    <2>2. sheet = Wanted(kind, disc) /\ sheet' = sheet /\ sealed' = sealed /\ ~sealed
      BY <2>1
    <2>3. CASE phase' = "failed"
      BY <1>3, <2>1, <2>2, <2>3
    <2>4. CASE phase' = "writing"
      <3>1. Found = WantedBefore(kind, disc, next) /\ Found' = WantedBefore(kind, disc, next + 1)
        BY <2>1, <2>4 DEF FoundNow
      <3>2. next \in Nat
        BY TracksInOrder DEF FoundNow
      <3>3. WantedBefore(kind, disc, next + 1)
              = WantedBefore(kind, disc, next) \cup (Wanted(kind, disc) \cap {next})
        BY <1>2, <3>2 DEF WantedBefore
      <3>4. CASE next \in Wanted(kind, disc)
        <4>1. Found' = Found \cup {next}
          BY <3>1, <3>3, <3>4
        <4>2. Image!Keep
          BY <1>1, <2>1, <2>2, <3>4, <4>1 DEF Image!Keep
        <4> QED
          BY <4>2 DEF Image!ImageNext
      <3>5. CASE next \notin Wanted(kind, disc)
        <4>1. Found' = Found
          BY <3>1, <3>3, <3>5
        <4> QED
          BY <1>3, <2>2, <4>1
      <3> QED
        BY <3>4, <3>5
    <2> QED
      BY <2>1, <2>3, <2>4
  <1>7. CASE Destroy
    <2>1. /\ phase = "writing" /\ phase' = "done" /\ kind' = kind /\ disc' = disc
          /\ Found = Wanted(kind, disc) /\ Found' = Wanted(kind, disc)
      BY <1>7, DestroyFinds
    <2>2. sheet = Wanted(kind, disc) /\ sheet' = sheet /\ sealed'
      BY <2>1
    <2>3. Image!Seal
      BY <1>1, <2>1, <2>2 DEF Image!Seal
    <2> QED
      BY <2>3 DEF Image!ImageNext
  <1>8. CASE GiveUp
    <2>1. phase = "writing" /\ phase' = "exited" /\ kind' = kind /\ disc' = disc /\ next' = next
      BY <1>8 DEF GiveUp
    <2>2. Found' = Found
      BY <2>1 DEF FoundNow
    <2> QED
      BY <1>3, <2>1, <2>2
  <1>9. CASE UNCHANGED vars
    <2>1. Found' = Found
      BY <1>9 DEF vars, Found, TrackStarts
    <2> QED
      BY <1>3, <1>9, <2>1 DEF vars
  <1> QED
    BY <1>4, <1>5, <1>6, <1>7, <1>8, <1>9 DEF Next

LEMMA InitIsImageInit ==
    Init /\ FoundNow => Image!ImageInit
  BY DEF Init, FoundNow, Image!ImageInit

\* image.c, image_bincue.c, image_cdrdao.c, image_nrg.c: for every disc, each sink does what
\* DiscImage promises: no sector that was stored is ever lost, to a file opened a second time
\* or to a sector written over it, and the image that is closed is complete.
THEOREM SinksImplementDiscImage ==
    Spec => ImplementsDiscImage
  BY SinkInvInductive, FoundHolds, InitIsImageInit, NextIsImageNext, PTL
  DEF Spec, ImplementsDiscImage, Image!ImageSpec
=============================================================================
