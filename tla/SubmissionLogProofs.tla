-------------------------- MODULE SubmissionLogProofs --------------------------
(***************************************************************************)
(* submissions.jsonl is readable after every crash and keeps every row     *)
(* that was acknowledged, for every set of processes and every number of   *)
(* rows, repairs and crashes.                                              *)
(***************************************************************************)
EXTENDS SubmissionLog, SequenceTheorems, TLAPS

-----------------------------------------------------------------------------
\* Well-formed files

CellSet == [row : Row, part : {Begin, Rest, Newline}]

\* An object begins the file or comes after a newline, and goes on where the cell
\* before left it.
Follows(f, k) ==
  IF f[k].part = Begin
  THEN k = 1 \/ f[k - 1].part = Newline
  ELSE k # 1 /\ f[k - 1].row = f[k].row /\ f[k - 1].part = f[k].part - 1

Before(c, d) == c.row < d.row \/ (c.row = d.row /\ c.part < d.part)

\* Whole rows in the order of their appends, and a beginning of one more.
WellFormed(f) ==
  /\ \A k \in 1 .. Len(f) : Follows(f, k)
  /\ \A j, k \in 1 .. Len(f) : j < k => Before(f[j], f[k])

TailPart(f) == IF Len(f) = 0 THEN Newline ELSE f[Len(f)].part

LEMMA MaxIs ==
  ASSUME NEW S, S \subseteq Int, NEW m \in S, \A x \in S : x <= m
  PROVE  Max(S) = m
  <1>1. \A x \in S : m >= x
    OBVIOUS
  <1>2. \A y \in S : (\A x \in S : y >= x) => y = m
    BY <1>1
  <1>3. QED
    BY <1>1, <1>2 DEF Max

LEMMA Places ==
  ASSUME NEW f \in Seq(CellSet)
  PROVE  /\ Len(f) \in Nat /\ DOMAIN f = 1 .. Len(f)
         /\ \A k \in 1 .. Len(f) : /\ k \in Nat /\ k >= 1 /\ k <= Len(f)
                                 /\ k # 1 => k - 1 \in 1 .. Len(f)
         /\ \A k \in 1 .. Len(f) : k # 1 /\ k - 1 # 1 => k - 2 \in 1 .. Len(f)
  <1>1. Len(f) \in Nat /\ DOMAIN f = 1 .. Len(f)
    OBVIOUS
  <1>2. QED
    BY <1>1

LEMMA CellFacts ==
  ASSUME NEW f \in Seq(CellSet), NEW k \in 1 .. Len(f)
  PROVE  /\ f[k].row \in Nat /\ f[k].row \in Row /\ f[k].part \in {1, 2, 3}
         /\ f[k] = Cell(f[k].row, f[k].part)
  <1>1. f[k] \in CellSet
    OBVIOUS
  <1>2. MaxRows \in Nat
    BY LogAssumption
  <1>3. QED
    BY <1>1, <1>2 DEF CellSet, Row, Cell, Begin, Rest, Newline

\* A newline ends an object that begins right after the newline before.
LEMMA ObjectEnds ==
  ASSUME NEW f \in Seq(CellSet), WellFormed(f), NEW i \in 1 .. Len(f), f[i].part = Newline
  PROVE  /\ i >= 3 /\ i - 1 \in 1 .. Len(f) /\ i - 2 \in 1 .. Len(f)
         /\ f[i - 1].part = Rest /\ f[i - 1].row = f[i].row
         /\ f[i - 2].part = Begin /\ f[i - 2].row = f[i].row
         /\ i # 3 => f[i - 3].part = Newline
  <1>1. i # 1 /\ f[i - 1].part = Rest /\ f[i - 1].row = f[i].row /\ i - 1 \in 1 .. Len(f)
    BY Places DEF WellFormed, Follows, Begin, Rest, Newline
  <1>2. (i - 1) - 1 = i - 2 /\ (i - 2) - 1 = i - 3
    BY Places
  <1>3. Follows(f, i - 1)
    BY <1>1 DEF WellFormed
  <1>4. /\ i - 1 # 1 /\ f[i - 2].part = Begin /\ f[i - 2].row = f[i].row
    BY <1>1, <1>2, <1>3 DEF Follows, Begin, Rest
  <1>5. i - 2 \in 1 .. Len(f)
    BY <1>1, <1>4, Places
  <1>6. Follows(f, i - 2)
    BY <1>5 DEF WellFormed
  <1>7. i - 2 = 1 \/ f[i - 3].part = Newline
    BY <1>2, <1>4, <1>6 DEF Follows
  <1>8. QED
    BY <1>1, <1>4, <1>5, <1>7, Places

\* ... so that every terminated line is one whole object.
LEMMA LineAt ==
  ASSUME NEW f \in Seq(CellSet), WellFormed(f), NEW i \in Newlines(f)
  PROVE  /\ i \in 1 .. Len(f) /\ i >= 3 /\ i - 2 \in 1 .. Len(f)
         /\ Line(f, i) # <<>> /\ Decodes(Line(f, i))
         /\ Line(f, i)[1] = f[i - 2] /\ f[i - 2].part = Begin
         /\ f[i - 2].row = f[i].row
  <1>1. i \in 1 .. Len(f) /\ f[i].part = Newline
    BY Places DEF Newlines
  <1>2. /\ i >= 3 /\ i - 1 \in 1 .. Len(f) /\ i - 2 \in 1 .. Len(f)
        /\ f[i - 1].part = Rest /\ f[i - 1].row = f[i].row
        /\ f[i - 2].part = Begin /\ f[i - 2].row = f[i].row
        /\ i # 3 => f[i - 3].part = Newline
    BY <1>1, ObjectEnds
  <1> DEFINE S == {j \in Newlines(f) : j < i} \cup {0}
  <1>3. Max(S) = i - 3
    <2>1. S \subseteq Int
      BY Places DEF Newlines
    <2>2. i - 3 \in S
      <3>1. i - 3 \in 1 .. Len(f) \/ i - 3 = 0
        BY <1>1, <1>2, Places
      <3>2. i - 3 < i
        BY <1>1, Places
      <3>3. QED
        BY <1>2, <3>1, <3>2, Places DEF Newlines
    <2>3. \A x \in S : x <= i - 3
      <3>1. ASSUME NEW x \in Newlines(f), x < i PROVE x <= i - 3
        <4>1. x \in 1 .. Len(f) /\ f[x].part = Newline
          BY Places DEF Newlines
        <4>2. x # i - 1 /\ x # i - 2
          BY <1>2, <4>1 DEF Begin, Rest, Newline
        <4>3. QED
          BY <1>1, <3>1, <4>1, <4>2, Places
      <3>2. 0 <= i - 3
        BY <1>1, <1>2, Places
      <3>3. QED
        BY <3>1, <3>2
    <2> HIDE DEF S
    <2>4. QED
      BY <2>1, <2>2, <2>3, MaxIs
  <1>4. Line(f, i) = SubSeq(f, i - 2, i - 1)
    <2>1. (i - 3) + 1 = i - 2
      BY <1>1, Places
    <2> HIDE DEF S
    <2>2. Line(f, i) = SubSeq(f, Max(S) + 1, i - 1)
      BY DEF Line, S
    <2>3. QED
      BY <1>3, <2>1, <2>2
  <1>5. /\ Len(Line(f, i)) = 2
        /\ Line(f, i)[1] = f[i - 2] /\ Line(f, i)[2] = f[i - 1]
    BY <1>1, <1>2, <1>4, Places
  <1>6. f[i - 1] = Cell(f[i - 2].row, Rest)
    BY <1>2, CellFacts
  <1>7. Decodes(Line(f, i))
    BY <1>2, <1>5, <1>6 DEF Decodes
  <1>8. Line(f, i) # <<>>
    BY <1>5
  <1>9. QED
    BY <1>1, <1>2, <1>5, <1>7, <1>8

LEMMA Sound == ASSUME NEW f \in Seq(CellSet), WellFormed(f) PROVE ~Corrupt(f)
  BY LineAt DEF Corrupt

\* What follows the last newline.
LEMMA LastLineAt ==
  ASSUME NEW f \in Seq(CellSet), WellFormed(f)
  PROVE  LET n == Len(f)
         IN  /\ TailPart(f) \in {Begin, Rest, Newline}
             /\ TailPart(f) = Newline => LastNewline(f) = n /\ LastLine(f) = <<>>
             /\ TailPart(f) = Begin =>
                  /\ n >= 1 /\ LastNewline(f) = n - 1
                  /\ Len(LastLine(f)) = 1
                  /\ n - 1 = 0 \/ f[n - 1].part = Newline
             /\ TailPart(f) = Rest =>
                  /\ n >= 2 /\ LastNewline(f) = n - 2
                  /\ Decodes(LastLine(f)) /\ LastLine(f)[1] = f[n - 1]
                  /\ f[n - 1].part = Begin /\ f[n - 1].row = f[n].row
                  /\ f[n] = Cell(f[n].row, Rest)
  <1> DEFINE n == Len(f)
             S == Newlines(f) \cup {0}
  <1>1. n \in Nat /\ DOMAIN f = 1 .. n
    BY Places
  <1>2. S \subseteq Int /\ \A x \in S : x <= n
    BY <1>1 DEF Newlines
  <1>3. {j \in Newlines(f) : j < n + 1} = Newlines(f)
    BY <1>1 DEF Newlines
  <1>4. LastLine(f) = SubSeq(f, LastNewline(f) + 1, n)
    <2>1. (n + 1) - 1 = n
      BY <1>1
    <2>2. QED
      BY <1>3, <2>1 DEF LastLine, Line, LastNewline
  <1>5. TailPart(f) \in {Begin, Rest, Newline}
    <2>1. CASE n = 0
      BY <2>1 DEF TailPart
    <2>2. CASE n # 0
      <3>1. n \in 1 .. Len(f)
        BY <1>1, <2>2
      <3>2. QED
        BY <2>2, <3>1, CellFacts DEF TailPart, Begin, Rest, Newline
    <2>3. QED
      BY <2>1, <2>2
  <1>6. ASSUME TailPart(f) = Newline
        PROVE  LastNewline(f) = n /\ LastLine(f) = <<>>
    <2>1. n \in S
      BY <1>1, <1>6 DEF Newlines, TailPart
    <2> HIDE DEF S
    <2>2. Max(S) = n
      BY <1>2, <2>1, MaxIs
    <2>3. LastNewline(f) = n
      BY <2>2 DEF LastNewline, S
    <2>4. LastLine(f) = SubSeq(f, n + 1, n)
      BY <1>4, <2>3
    <2>5. Len(LastLine(f)) = 0 /\ LastLine(f) \in Seq(CellSet)
      BY <1>1, <2>4
    <2>6. QED
      BY <2>3, <2>5
  <1>7. ASSUME TailPart(f) = Begin
        PROVE  /\ n >= 1 /\ LastNewline(f) = n - 1 /\ Len(LastLine(f)) = 1
               /\ n - 1 = 0 \/ f[n - 1].part = Newline
    <2>1. n >= 1 /\ f[n].part = Begin /\ n \in 1 .. Len(f)
      BY <1>1, <1>7 DEF TailPart, Begin, Newline
    <2>2. n # 1 => f[n - 1].part = Newline
      BY <2>1 DEF WellFormed, Follows
    <2>3. n - 1 = 0 \/ n - 1 \in Newlines(f)
      BY <1>1, <2>1, <2>2 DEF Newlines
    <2>4. \A x \in S : x <= n - 1
      <3>1. n \notin Newlines(f)
        BY <2>1 DEF Newlines, Begin, Newline
      <3>2. QED
        BY <1>1, <1>2, <2>1, <3>1
    <2>5. LastNewline(f) = n - 1
      <3>1. n - 1 \in S
        BY <2>3
      <3> HIDE DEF S
      <3>2. Max(S) = n - 1
        BY <1>2, <2>4, <3>1, MaxIs
      <3>3. QED
        BY <3>2 DEF S, LastNewline
    <2>6. LastLine(f) = SubSeq(f, n, n)
      <3>1. (n - 1) + 1 = n
        BY <1>1
      <3>2. QED
        BY <1>4, <2>5, <3>1
    <2>7. QED
      BY <1>1, <2>1, <2>2, <2>5, <2>6
  <1>8. ASSUME TailPart(f) = Rest
        PROVE  /\ n >= 2 /\ LastNewline(f) = n - 2
               /\ Decodes(LastLine(f)) /\ LastLine(f)[1] = f[n - 1]
               /\ f[n - 1].part = Begin /\ f[n - 1].row = f[n].row
               /\ f[n] = Cell(f[n].row, Rest)
    <2>1. n >= 1 /\ f[n].part = Rest /\ n \in 1 .. Len(f)
      BY <1>1, <1>8 DEF TailPart, Rest, Newline
    <2>2. n # 1 /\ f[n - 1].part = Begin /\ f[n - 1].row = f[n].row
      BY <2>1 DEF WellFormed, Follows, Begin, Rest
    <2>3. n - 1 \in 1 .. Len(f) /\ (n - 1) - 1 = n - 2 /\ n >= 2
      BY <1>1, <2>1, <2>2
    <2>4. f[n] = Cell(f[n - 1].row, Rest)
      BY <2>1, <2>2, CellFacts
    <2>5. n - 1 # 1 => f[n - 2].part = Newline
      BY <2>2, <2>3 DEF WellFormed, Follows
    <2>6. n - 2 = 0 \/ n - 2 \in Newlines(f)
      BY <1>1, <2>3, <2>5 DEF Newlines
    <2>7. \A x \in S : x <= n - 2
      <3>1. n \notin Newlines(f) /\ n - 1 \notin Newlines(f)
        BY <2>1, <2>2 DEF Newlines, Begin, Rest, Newline
      <3>2. QED
        BY <1>1, <1>2, <2>3, <3>1
    <2>8. LastNewline(f) = n - 2
      <3>1. n - 2 \in S
        BY <2>6
      <3> HIDE DEF S
      <3>2. Max(S) = n - 2
        BY <1>2, <2>7, <3>1, MaxIs
      <3>3. QED
        BY <3>2 DEF S, LastNewline
    <2>9. LastLine(f) = SubSeq(f, n - 1, n)
      <3>1. (n - 2) + 1 = n - 1
        BY <1>1
      <3>2. QED
        BY <1>4, <2>8, <3>1
    <2>10. Len(LastLine(f)) = 2 /\ LastLine(f)[1] = f[n - 1] /\ LastLine(f)[2] = f[n]
      BY <1>1, <2>1, <2>3, <2>9
    <2>11. Decodes(LastLine(f))
      BY <2>2, <2>4, <2>10 DEF Decodes
    <2>12. QED
      BY <2>2, <2>3, <2>4, <2>8, <2>10, <2>11
  <1>9. QED
    BY <1>5, <1>6, <1>7, <1>8

\* What a crash leaves of a file is well formed.
LEMMA PrefixFits ==
  ASSUME NEW f \in Seq(CellSet), WellFormed(f), NEW n \in 0 .. Len(f)
  PROVE  LET g == SubSeq(f, 1, n)
         IN  /\ g \in Seq(CellSet) /\ Len(g) = n /\ WellFormed(g)
             /\ \A k \in 1 .. n : k \in 1 .. Len(f) /\ g[k] = f[k]
  <1> DEFINE g == SubSeq(f, 1, n)
  <1>1. Len(f) \in Nat /\ n \in Nat
    BY Places
  <1>2. g \in Seq(CellSet) /\ Len(g) = n
    BY <1>1
  <1>3. \A k \in 1 .. n : k \in 1 .. Len(f) /\ g[k] = f[k]
    BY <1>1
  <1> HIDE DEF g
  <1>4. \A k \in 1 .. n : Follows(g, k)
    <2> SUFFICES ASSUME NEW k \in 1 .. n PROVE Follows(g, k)
      OBVIOUS
    <2>1. Follows(f, k) /\ g[k] = f[k]
      BY <1>3 DEF WellFormed
    <2>2. k # 1 => g[k - 1] = f[k - 1]
      BY <1>1, <1>3
    <2>3. QED
      BY <2>1, <2>2 DEF Follows, Begin
  <1>5. \A j, k \in 1 .. n : j < k => Before(g[j], g[k])
    BY <1>3 DEF WellFormed
  <1>6. QED
    BY <1>2, <1>3, <1>4, <1>5 DEF WellFormed, g

\* _write_all: the next n cells of row r go behind s of them, or behind whole
\* rows before r.
LEMMA ExtendFits ==
  ASSUME NEW f \in Seq(CellSet), WellFormed(f), NEW r \in Row,
         NEW s \in 0 .. 2, NEW n \in 1 .. 3, s + n <= 3,
         s = 0 => TailPart(f) = Newline /\ \A k \in 1 .. Len(f) : f[k].row < r,
         s # 0 => Len(f) # 0 /\ f[Len(f)] = Cell(r, s)
  PROVE  LET g == f \o SubSeq(Data(r), s + 1, s + n)
         IN  /\ g \in Seq(CellSet) /\ WellFormed(g)
             /\ Len(g) = Len(f) + n /\ g[Len(g)] = Cell(r, s + n)
             /\ \A k \in 1 .. Len(f) : k \in 1 .. Len(g) /\ g[k] = f[k]
             /\ \A k \in 1 .. Len(g) : k \in 1 .. Len(f) \/ g[k].row = r
  <1> DEFINE d == SubSeq(Data(r), s + 1, s + n)
             g == f \o d
             l == Len(f)
  <1>1. l \in Nat
    BY Places
  <1>2. /\ \A j \in 1 .. 3 : Data(r)[j] = Cell(r, j) /\ Cell(r, j) \in CellSet
        /\ Data(r) \in Seq(CellSet) /\ Len(Data(r)) = 3
    BY DEF Data, Cell, CellSet, Begin, Rest, Newline
  <1>3. /\ d \in Seq(CellSet) /\ Len(d) = n
        /\ \A j \in 1 .. n : d[j] = Cell(r, s + j)
    <2>1. /\ s + 1 \in Nat /\ s + n \in Nat /\ (s + n) - (s + 1) + 1 = n
          /\ s + n <= 3 /\ s + 1 >= 1
      OBVIOUS
    <2> HIDE DEF Data
    <2>2. d \in Seq(CellSet) /\ Len(d) = n
      BY <1>2, <2>1
    <2>3. ASSUME NEW j \in 1 .. n PROVE d[j] = Cell(r, s + j)
      <3>1. d[j] = Data(r)[s + j] /\ s + j \in 1 .. 3
        BY <1>2, <2>1
      <3>2. QED
        BY <1>2, <3>1
    <2>4. QED
      BY <2>2, <2>3
  <1> HIDE DEF d
  <1>4. /\ g \in Seq(CellSet) /\ Len(g) = l + n
        /\ \A k \in 1 .. l : g[k] = f[k]
        /\ \A j \in 1 .. n : g[l + j] = Cell(r, s + j)
    <2>1. g \in Seq(CellSet) /\ Len(g) = l + n
      BY <1>3
    <2>2. \A k \in 1 .. l : g[k] = f[k]
      BY <1>1, <1>3
    <2>3. ASSUME NEW j \in 1 .. n PROVE g[l + j] = Cell(r, s + j)
      <3>1. l + j \in 1 .. l + n /\ l + j > l /\ (l + j) - l = j
        BY <1>1
      <3>2. g[l + j] = d[j]
        BY <1>1, <1>3, <3>1
      <3>3. QED
        BY <1>3, <3>2
    <2>4. QED
      BY <2>1, <2>2, <2>3
  <1> HIDE DEF g, l
  <1>5. \A k \in 1 .. l + n : k \in 1 .. l \/ \E j \in 1 .. n : k = l + j
    <2> SUFFICES ASSUME NEW k \in 1 .. l + n, k \notin 1 .. l PROVE \E j \in 1 .. n : k = l + j
      OBVIOUS
    <2>1. k - l \in 1 .. n /\ k = l + (k - l)
      BY <1>1
    <2>2. QED
      BY <2>1
  <1>6. \A j \in 1 .. n : g[l + j].row = r /\ g[l + j].part = s + j /\ s + j \in 1 .. 3
    <2>1. ASSUME NEW j \in 1 .. n PROVE Cell(r, s + j).row = r /\ Cell(r, s + j).part = s + j
      BY DEF Cell
    <2>2. \A j \in 1 .. n : s + j \in 1 .. 3
      OBVIOUS
    <2>3. QED
      BY <1>4, <2>1, <2>2
  <1>7. \A k \in 1 .. l + n : Follows(g, k)
    <2>1. ASSUME NEW k \in 1 .. l PROVE Follows(g, k)
      <3>1. Follows(f, k) /\ g[k] = f[k] /\ (k # 1 => g[k - 1] = f[k - 1])
        BY <1>1, <1>4 DEF WellFormed, l
      <3>2. QED
        BY <3>1 DEF Follows, Begin
    <2>2. ASSUME NEW j \in 1 .. n, j # 1 PROVE Follows(g, l + j)
      <3>1. j - 1 \in 1 .. n /\ (l + j) - 1 = l + (j - 1) /\ l + j # 1
        BY <1>1, <2>2
      <3>2. /\ g[(l + j) - 1].row = r /\ g[(l + j) - 1].part = s + (j - 1)
            /\ g[l + j].row = r /\ g[l + j].part = s + j /\ s + j # 1
        BY <1>6, <2>2, <3>1
      <3>3. QED
        BY <3>1, <3>2 DEF Follows, Begin
    <2>3. Follows(g, l + 1)
      <3>1. g[l + 1].row = r /\ g[l + 1].part = s + 1
        BY <1>6
      <3>2. (l + 1) - 1 = l /\ (l # 0 => l \in 1 .. l /\ g[l] = f[l])
        BY <1>1, <1>4
      <3>3. CASE s = 0
        <4>1. l # 0 => f[l].part = Newline
          BY <3>3 DEF TailPart, l
        <4>2. g[l + 1].part = Begin /\ (l + 1 = 1 \/ g[(l + 1) - 1].part = Newline)
          BY <1>1, <3>1, <3>2, <3>3, <4>1 DEF Begin
        <4>3. QED
          BY <4>2 DEF Follows
      <3>4. CASE s # 0
        <4>1. l # 0 /\ f[l].row = r /\ f[l].part = s
          BY <3>4 DEF l, Cell
        <4>2. /\ g[(l + 1) - 1].row = r /\ g[(l + 1) - 1].part = s /\ l + 1 # 1
              /\ g[l + 1].part # Begin /\ s = (s + 1) - 1
          BY <1>1, <3>1, <3>2, <3>4, <4>1 DEF Begin
        <4>3. QED
          BY <3>1, <4>2 DEF Follows
      <3>5. QED
        BY <3>3, <3>4
    <2>4. QED
      BY <1>5, <2>1, <2>2, <2>3
  <1>8. ASSUME NEW k \in 1 .. l, NEW j \in 1 .. n PROVE Before(g[k], g[l + j])
    <2>1. g[k] = f[k] /\ g[l + j].row = r /\ g[l + j].part = s + j /\ k \in 1 .. Len(f)
      BY <1>4, <1>6 DEF l
    <2>2. CASE s = 0
      BY <2>1, <2>2 DEF Before
    <2>3. CASE s # 0
      <3>1. l # 0 /\ f[l].row = r /\ f[l].part = s /\ l \in 1 .. Len(f)
        BY <1>1, <2>3 DEF l, Cell
      <3>2. s < s + j
        OBVIOUS
      <3>3. k # l => Before(f[k], f[l])
        BY <1>1, <2>1, <3>1 DEF WellFormed
      <3>4. f[k].part \in {1, 2, 3}
        BY <2>1, CellFacts
      <3>5. QED
        BY <2>1, <3>1, <3>2, <3>3, <3>4 DEF Before
    <2>4. QED
      BY <2>2, <2>3
  <1>9. \A j, k \in 1 .. l + n : j < k => Before(g[j], g[k])
    <2> SUFFICES ASSUME NEW j \in 1 .. l + n, NEW k \in 1 .. l + n, j < k
                 PROVE  Before(g[j], g[k])
      OBVIOUS
    <2>1. CASE j \in 1 .. l /\ k \in 1 .. l
      BY <1>4, <2>1 DEF WellFormed, l
    <2>2. CASE j \in 1 .. l /\ \E x \in 1 .. n : k = l + x
      BY <1>8, <2>2
    <2>3. ASSUME NEW x \in 1 .. n, j = l + x, NEW y \in 1 .. n, k = l + y
          PROVE  Before(g[j], g[k])
      <3>1. s + x < s + y
        BY <1>1, <2>3
      <3>2. QED
        BY <1>6, <2>3, <3>1 DEF Before
    <2>4. ~((\E x \in 1 .. n : j = l + x) /\ k \in 1 .. l)
      BY <1>1
    <2>5. QED
      BY <1>5, <2>1, <2>2, <2>3, <2>4
  <1>10. WellFormed(g)
    BY <1>4, <1>7, <1>9 DEF WellFormed
  <1>11. g[l + n] = Cell(r, s + n)
    BY <1>4
  <1>12. \A k \in 1 .. l : k \in 1 .. l + n
    BY <1>1
  <1>13. \A k \in 1 .. l + n : k \in 1 .. l \/ g[k].row = r
    BY <1>5, <1>6
  <1>14. QED
    BY <1>4, <1>10, <1>11, <1>12, <1>13 DEF g, l, d

\* The reader finds the rows whose objects are complete, each where its line ends.
LEMMA ReadingIs ==
  ASSUME NEW f \in Seq(CellSet), WellFormed(f)
  PROVE  /\ Reading(f) = [i \in Newlines(f) \cup
                               (IF TailPart(f) = Rest THEN {Len(f) + 1} ELSE {})
                             |-> f[i - 2].row]
         /\ \A i \in Newlines(f) \cup (IF TailPart(f) = Rest THEN {Len(f) + 1} ELSE {}) :
              i \in Nat /\ i - 2 \in 1 .. Len(f) /\ f[i - 2].part = Begin
  <1> DEFINE n == Len(f)
             TailOf == IF TailPart(f) = Rest THEN {n + 1} ELSE {}
  <1>1. n \in Nat
    BY Places
  <1>2. Decodes(LastLine(f)) <=> TailPart(f) = Rest
    <2>1. TailPart(f) \in {Begin, Rest, Newline}
      BY LastLineAt
    <2>2. TailPart(f) = Rest => Decodes(LastLine(f))
      BY LastLineAt
    <2>3. TailPart(f) = Newline => ~Decodes(LastLine(f))
      <3>1. Len(<<>>) # 2
        OBVIOUS
      <3>2. QED
        BY <3>1, LastLineAt DEF Decodes
    <2>4. TailPart(f) = Begin => ~Decodes(LastLine(f))
      BY LastLineAt DEF Decodes
    <2>5. QED
      BY <2>1, <2>2, <2>3, <2>4
  <1>3. LineEnds(f) = Newlines(f) \cup TailOf
    <2>1. \A i \in Newlines(f) : Line(f, i) # <<>>
      BY LineAt
    <2>2. QED
      BY <1>2, <2>1 DEF LineEnds
  <1>4. ASSUME NEW i \in Newlines(f)
        PROVE  i \in Nat /\ i - 2 \in 1 .. n /\ f[i - 2].part = Begin /\ Line(f, i)[1] = f[i - 2]
    BY LineAt, Places
  <1>5. ASSUME NEW i \in TailOf
        PROVE  i \in Nat /\ i - 2 \in 1 .. n /\ f[i - 2].part = Begin /\ Line(f, i)[1] = f[i - 2]
    <2>1. i = n + 1 /\ TailPart(f) = Rest /\ i - 2 = n - 1
      BY <1>1
    <2>2. n >= 2 /\ LastLine(f)[1] = f[n - 1] /\ f[n - 1].part = Begin
      BY <2>1, LastLineAt
    <2>3. Line(f, i) = LastLine(f)
      BY <2>1 DEF LastLine
    <2> HIDE DEF TailOf
    <2>4. QED
      BY <1>1, <2>1, <2>2, <2>3
  <1>6. \A i \in Newlines(f) \cup TailOf :
          i \in Nat /\ i - 2 \in 1 .. n /\ f[i - 2].part = Begin /\ Line(f, i)[1] = f[i - 2]
    BY <1>4, <1>5
  <1> HIDE DEF TailOf
  <1>7. Reading(f) = [i \in Newlines(f) \cup TailOf |-> f[i - 2].row]
    BY <1>3, <1>6 DEF Reading
  <1>8. QED
    BY <1>6, <1>7 DEF TailOf

\* repair_jsonl_tail ends the file with a newline, drops no terminated row and
\* changes no reading.
LEMMA RepairFits ==
  ASSUME NEW f \in Seq(CellSet), WellFormed(f)
  PROVE  LET g == Repaired(f)
         IN  /\ g \in Seq(CellSet) /\ WellFormed(g) /\ TailPart(g) = Newline
             /\ \A k \in Newlines(f) : k \in 1 .. Len(g) /\ g[k] = f[k]
             /\ \A k \in 1 .. Len(g) : \E j \in 1 .. Len(f) : g[k].row = f[j].row
             /\ Reading(g) = Reading(f)
  <1> DEFINE g == Repaired(f)
             n == Len(f)
             End(h) == Newlines(h) \cup (IF TailPart(h) = Rest THEN {Len(h) + 1} ELSE {})
  <1>1. n \in Nat /\ DOMAIN f = 1 .. n
    BY Places
  <1>2. TailPart(f) \in {Begin, Rest, Newline}
    BY LastLineAt
  <1>3. ASSUME /\ g \in Seq(CellSet) /\ WellFormed(g) /\ TailPart(g) = Newline,
               \A k \in 1 .. Len(g) : k \in 1 .. n => g[k] = f[k],
               Newlines(g) = End(f), n - 1 <= Len(g) \/ TailPart(f) # Rest
        PROVE  Reading(g) = Reading(f)
    <2>1. End(g) = End(f)
      BY <1>3 DEF Newline, Rest
    <2>2. \A i \in End(f) : i - 2 \in 1 .. n /\ i - 2 \in 1 .. Len(g)
      BY <2>1, <1>3, ReadingIs
    <2>3. \A i \in End(f) : g[i - 2].row = f[i - 2].row
      BY <1>3, <2>2
    <2>4. Reading(g) = [i \in End(g) |-> g[i - 2].row]
      BY <1>3, ReadingIs
    <2>5. Reading(f) = [i \in End(f) |-> f[i - 2].row]
      BY ReadingIs
    <2> HIDE DEF End, g
    <2>6. QED
      BY <2>1, <2>3, <2>4, <2>5
  <1>4. CASE TailPart(f) = Rest
    <2> DEFINE r == f[n].row
    <2>1. /\ n >= 2 /\ LastLine(f)[1].row = r /\ Decodes(LastLine(f))
          /\ f[n] = Cell(r, Rest) /\ n \in 1 .. n
      BY <1>1, <1>4, LastLineAt
    <2>2. g = Append(f, Cell(r, Newline))
      BY <2>1 DEF Repaired
    <2>3. r \in Row
      BY <2>1, CellFacts
    <2>4. Cell(r, Newline) \in CellSet
      BY <2>3 DEF Cell, CellSet
    <2>5. f \o SubSeq(Data(r), 2 + 1, 2 + 1) = Append(f, Cell(r, Newline))
      <3>1. SubSeq(Data(r), 2 + 1, 2 + 1) = <<Cell(r, Newline)>>
        <4> DEFINE d == Data(r)
                   e == SubSeq(d, 3, 3)
        <4>1. d \in Seq(CellSet) /\ Len(d) = 3 /\ d[3] = Cell(r, Newline)
          BY <2>3 DEF Data, Cell, CellSet
        <4> HIDE DEF d
        <4>2. e \in Seq(CellSet) /\ Len(e) = 1 /\ e[1] = Cell(r, Newline)
          <5>1. e \in Seq(CellSet)
            <6>1. \A i \in 3 .. 3 : d[i] \in CellSet
              BY <4>1, <2>4
            <6>2. QED
              BY <6>1, SubSeqProperties
          <5>2. Len(e) = 1
            BY <4>1
          <5>3. e[1] = d[3]
            BY <4>1, SubSeqProperties
          <5>4. QED
            BY <4>1, <5>1, <5>2, <5>3
        <4>3. DOMAIN e = 1 .. 1 /\ DOMAIN <<Cell(r, Newline)>> = 1 .. 1
          BY <4>2
        <4> HIDE DEF e
        <4>4. e = <<Cell(r, Newline)>>
          BY <4>2, <4>3
        <4>5. QED
          BY <4>4 DEF e, d
      <3>2. f \o <<Cell(r, Newline)>> = Append(f, Cell(r, Newline))
        BY <2>4
      <3>3. QED
        BY <3>1, <3>2
    <2> HIDE DEF r
    <2>6. /\ g \in Seq(CellSet) /\ WellFormed(g)
          /\ Len(g) = n + 1 /\ g[n + 1] = Cell(r, Newline)
          /\ \A k \in 1 .. n : k \in 1 .. Len(g) /\ g[k] = f[k]
          /\ \A k \in 1 .. Len(g) : k \in 1 .. n \/ g[k].row = r
      <3>1. /\ 2 \in 0 .. 2 /\ 1 \in 1 .. 3 /\ 2 + 1 <= 3 /\ 2 # 0 /\ n # 0
            /\ f[Len(f)] = Cell(r, 2) /\ Cell(r, 2 + 1) = Cell(r, Newline)
        BY <2>1 DEF Rest, Newline
      <3>2. \A s \in {2}, x \in {1} :
              LET h == f \o SubSeq(Data(r), s + 1, s + x)
              IN  /\ h \in Seq(CellSet) /\ WellFormed(h)
                  /\ Len(h) = n + x /\ h[Len(h)] = Cell(r, s + x)
                  /\ \A k \in 1 .. n : k \in 1 .. Len(h) /\ h[k] = f[k]
                  /\ \A k \in 1 .. Len(h) : k \in 1 .. n \/ h[k].row = r
        <4> SUFFICES ASSUME NEW s \in {2}, NEW x \in {1}
                     PROVE  LET h == f \o SubSeq(Data(r), s + 1, s + x)
                            IN  /\ h \in Seq(CellSet) /\ WellFormed(h)
                                /\ Len(h) = n + x /\ h[Len(h)] = Cell(r, s + x)
                                /\ \A k \in 1 .. n : k \in 1 .. Len(h) /\ h[k] = f[k]
                                /\ \A k \in 1 .. Len(h) : k \in 1 .. n \/ h[k].row = r
          OBVIOUS
        <4>1. /\ s \in 0 .. 2 /\ x \in 1 .. 3 /\ s + x <= 3 /\ s # 0
              /\ Len(f) # 0 /\ f[Len(f)] = Cell(r, s)
          BY <3>1
        <4>2. QED
          BY <2>3, <4>1, ExtendFits
      <3>3. g = f \o SubSeq(Data(r), 2 + 1, 2 + 1)
        BY <2>2, <2>5
      <3> HIDE DEF g
      <3>4. QED
        BY <3>1, <3>2, <3>3
    <2>7. TailPart(g) = Newline
      BY <1>1, <2>6 DEF TailPart, Cell
    <2>8. Newlines(g) = End(f)
      <3>1. DOMAIN g = 1 .. n + 1 /\ g[n + 1].part = Newline
        BY <2>6, Places DEF Cell
      <3>2. \A k \in 1 .. n + 1 : k \in 1 .. n \/ k = n + 1
        BY <1>1
      <3>3. n + 1 \in 1 .. n + 1 /\ \A k \in 1 .. n : k \in 1 .. n + 1 /\ g[k] = f[k]
        BY <1>1, <2>6
      <3> HIDE DEF g
      <3>4. QED
        BY <1>1, <1>4, <3>1, <3>2, <3>3 DEF Newlines
    <2>9. Reading(g) = Reading(f)
      BY <1>1, <1>3, <2>6, <2>7, <2>8
    <2>10. \A k \in 1 .. Len(g) : \E j \in 1 .. n : g[k].row = f[j].row
      BY <2>1, <2>6 DEF r
    <2>11. \A k \in Newlines(f) : k \in 1 .. n
      BY <1>1 DEF Newlines
    <2> HIDE DEF g
    <2>12. QED
      BY <2>6, <2>7, <2>9, <2>10, <2>11 DEF g
  <1>5. CASE TailPart(f) # Rest
    <2> DEFINE m == LastNewline(f)
    <2>1. ~Decodes(LastLine(f))
      <3>1. TailPart(f) = Newline => ~Decodes(LastLine(f))
        <4>1. Len(<<>>) # 2
          OBVIOUS
        <4>2. QED
          BY <4>1, LastLineAt DEF Decodes
      <3>2. TailPart(f) = Begin => ~Decodes(LastLine(f))
        BY LastLineAt DEF Decodes
      <3>3. QED
        BY <1>2, <1>5, <3>1, <3>2
    <2>2. g = SubSeq(f, 1, m)
      BY <2>1 DEF Repaired, Prefix
    <2>3. /\ m \in 0 .. n /\ (m # 0 => f[m].part = Newline)
          /\ \A k \in Newlines(f) : k <= m
      <3>1. CASE TailPart(f) = Newline
        <4>1. m = n
          BY <3>1, LastLineAt
        <4>2. QED
          BY <1>1, <3>1, <4>1 DEF TailPart, Newlines
      <3>2. CASE TailPart(f) = Begin
        <4>1. m = n - 1 /\ n >= 1 /\ (n - 1 = 0 \/ f[n - 1].part = Newline)
          BY <3>2, LastLineAt
        <4>2. f[n].part # Newline
          BY <1>1, <3>2, <4>1 DEF TailPart, Begin, Newline
        <4>3. \A k \in Newlines(f) : k \in 1 .. n /\ k # n
          BY <1>1, <4>2 DEF Newlines
        <4> HIDE DEF m
        <4>4. QED
          BY <1>1, <4>1, <4>3
      <3>3. QED
        BY <1>2, <1>5, <3>1, <3>2
    <2> HIDE DEF m
    <2>4. /\ g \in Seq(CellSet) /\ Len(g) = m /\ WellFormed(g)
          /\ \A k \in 1 .. m : k \in 1 .. n /\ g[k] = f[k]
      BY <2>2, <2>3, PrefixFits
    <2>5. TailPart(g) = Newline
      <3>1. m # 0 => m \in 1 .. m
        BY <1>1, <2>3
      <3> HIDE DEF g
      <3>2. QED
        BY <2>3, <2>4, <3>1 DEF TailPart
    <2>6. Newlines(g) = Newlines(f)
      <3>1. DOMAIN g = 1 .. m
        BY <2>4, Places
      <3>2. \A k \in Newlines(f) : k \in 1 .. m
        BY <1>1, <2>3 DEF Newlines
      <3> HIDE DEF g
      <3>3. QED
        BY <1>1, <2>4, <3>1, <3>2 DEF Newlines
    <2>7. Reading(g) = Reading(f)
      <3>1. Newlines(g) = End(f) /\ (n - 1 <= Len(g) \/ TailPart(f) # Rest)
        BY <1>5, <2>6
      <3> HIDE DEF End, g
      <3>2. QED
        BY <1>3, <2>4, <2>5, <3>1
    <2>8. \A k \in Newlines(f) : k \in 1 .. m
      BY <1>1, <2>3 DEF Newlines
    <2> HIDE DEF g
    <2>9. QED
      BY <2>4, <2>5, <2>7, <2>8 DEF g
  <1>6. QED
    BY <1>4, <1>5

-----------------------------------------------------------------------------
\* The inductive invariant

DiskType ==
  /\ content \in [Inode -> Seq(CellSet)] /\ synced \in [Inode -> Nat]
  /\ \A i \in Inode : synced[i] <= Len(content[i])
  /\ inodes \in Inode /\ dir \in 1 .. inodes /\ durable \in 1 .. inodes

ProcType ==
  /\ lock \in Proc \cup {NoProc}
  /\ pc \in [Proc -> {"idle", "repair", "replace", "replaced", "append", "write", "fsync",
                      "syncdir"}]
  /\ raw \in [Proc -> Seq(CellSet)] /\ fd \in [Proc -> Inode]
  /\ sent \in [Proc -> Nat] /\ row \in [Proc -> Nat]
  /\ rows \in 0 .. MaxRows /\ acked \subseteq 1 .. rows
  /\ \A p \in Proc : pc[p] # "idle" => lock = p

\* A file f, n cells of which are on disk, after the first m rows were begun and
\* those in A acknowledged: what is on disk ends every one of these.
FileOK(f, n, m, A) ==
  /\ WellFormed(f)
  /\ \A k \in 1 .. Len(f) : f[k].row <= m
  /\ \A r \in A : \E k \in 1 .. n : f[k] = Cell(r, Newline)

FileInv(i) == FileOK(content[i], synced[i], rows, acked)

\* The file while p is between two of its system calls.
StepInv(p) ==
  LET f == content[dir]
  IN  /\ pc[p] = "replace" => raw[p] = f
      /\ pc[p] \in {"replaced", "append"} => TailPart(f) = Newline
      /\ pc[p] \in {"write", "fsync", "syncdir"} =>
           fd[p] = dir /\ row[p] = rows /\ rows \in Row
      /\ pc[p] = "write" =>
           /\ sent[p] \in 0 .. 2
           /\ sent[p] = 0 => TailPart(f) = Newline /\ \A k \in 1 .. Len(f) : f[k].row < rows
           /\ sent[p] # 0 => Len(f) # 0 /\ f[Len(f)] = Cell(rows, sent[p])
      /\ pc[p] \in {"fsync", "syncdir"} => Len(f) # 0 /\ f[Len(f)] = Cell(rows, Newline)
      /\ pc[p] = "syncdir" => synced[dir] = Len(f)

\* A loss of power may leave either of two files behind the name.
LogInv ==
  /\ DiskType
  /\ ProcType
  /\ FileInv(dir) /\ FileInv(durable)
  /\ \A p \in Proc : StepInv(p)

-----------------------------------------------------------------------------
\* The steps

\* The lock: while p is in an epoch, or nobody is, the others are idle.
LEMMA Alone ==
  ASSUME LogInv, NEW p \in Proc, lock \in {p, NoProc}, NEW q \in Proc, q # p
  PROVE  pc[q] = "idle"
  BY LogAssumption DEF LogInv, ProcType

LEMMA IdleStep == ASSUME NEW q \in Proc, pc'[q] = "idle" PROVE StepInv(q)'
  BY DEF StepInv

LEMMA OthersIdle ==
  ASSUME LogInv, NEW p \in Proc, lock \in {p, NoProc}, NEW v, pc' = [pc EXCEPT ![p] = v]
  PROVE  \A q \in Proc : q # p => pc'[q] = "idle" /\ StepInv(q)'
  <1> SUFFICES ASSUME NEW q \in Proc, q # p PROVE pc'[q] = "idle" /\ StepInv(q)'
    OBVIOUS
  <1>1. pc[q] = "idle"
    BY Alone
  <1>2. pc'[q] = "idle"
    BY <1>1 DEF LogInv, ProcType
  <1>3. QED
    BY <1>2, IdleStep

LEMMA Holder == ASSUME LogInv, NEW p \in Proc, pc[p] # "idle" PROVE lock = p
  BY DEF LogInv, ProcType

LEMMA DiskKept ==
  ASSUME LogInv, UNCHANGED <<content, synced, dir, durable, inodes, rows, acked>>
  PROVE  DiskType' /\ FileInv(dir)' /\ FileInv(durable)'
  BY DEF LogInv, DiskType, FileInv

LEMMA MoreRows ==
  ASSUME NEW f \in Seq(CellSet), NEW n, NEW m \in Nat, NEW A, FileOK(f, n, m, A)
  PROVE  FileOK(f, n, m + 1, A)
  <1>1. ASSUME NEW k \in 1 .. Len(f) PROVE f[k].row <= m + 1
    <2>1. f[k].row \in Nat /\ f[k].row <= m
      BY CellFacts DEF FileOK
    <2>2. QED
      BY <2>1
  <1>2. QED
    BY <1>1 DEF FileOK

LEMMA StartEpochInd == ASSUME LogInv, NEW p \in Proc, StartEpoch(p) PROVE LogInv'
  <1>1. DiskType' /\ FileInv(dir)' /\ FileInv(durable)'
    BY DiskKept DEF StartEpoch, disk
  <1>2. \A q \in Proc : q # p => pc'[q] = "idle" /\ StepInv(q)'
    BY OthersIdle DEF StartEpoch
  <1>3. pc'[p] = "repair"
    BY DEF LogInv, ProcType, StartEpoch
  <1>4. StepInv(p)'
    BY <1>3 DEF StepInv
  <1>5. ProcType'
    BY <1>2, <1>3 DEF LogInv, ProcType, StartEpoch
  <1>6. QED
    BY <1>1, <1>2, <1>4, <1>5 DEF LogInv

LEMMA ReadForRepairInd == ASSUME LogInv, NEW p \in Proc, ReadForRepair(p) PROVE LogInv'
  <1>1. DiskType' /\ FileInv(dir)' /\ FileInv(durable)'
    BY DiskKept DEF ReadForRepair, disk
  <1>2. lock = p
    BY Holder DEF ReadForRepair
  <1>3. \A q \in Proc : q # p => pc'[q] = "idle" /\ StepInv(q)'
    BY <1>2, OthersIdle DEF ReadForRepair
  <1>4. dir \in Inode /\ content[dir] \in Seq(CellSet) /\ WellFormed(content[dir])
    <2>1. MaxRepairs \in Nat
      BY LogAssumption
    <2>2. dir \in Inode
      BY <2>1 DEF LogInv, DiskType, Inode
    <2>3. QED
      BY <2>2 DEF LogInv, DiskType, FileInv, FileOK
  <1>5. UNCHANGED <<content, dir, lock, fd, sent, row, rows, acked>>
    BY DEF ReadForRepair, disk
  <1>6. CASE Torn(content[dir])
    <2>1. pc'[p] = "replace" /\ raw' = [raw EXCEPT ![p] = content[dir]] /\ raw'[p] = content[dir]
      BY <1>6 DEF LogInv, ProcType, ReadForRepair
    <2>2. StepInv(p)'
      BY <1>5, <2>1 DEF StepInv
    <2>3. ProcType'
      BY <1>2, <1>3, <1>4, <1>5, <2>1 DEF LogInv, ProcType, ReadForRepair
    <2>4. QED
      BY <1>1, <1>3, <2>2, <2>3 DEF LogInv
  <1>7. CASE ~Torn(content[dir])
    <2>1. pc'[p] = "append" /\ raw' = [raw EXCEPT ![p] = <<>>]
      BY <1>7 DEF LogInv, ProcType, ReadForRepair
    <2>2. TailPart(content[dir]) = Newline
      <3>1. LastLine(content[dir]) = <<>>
        BY <1>7 DEF Torn
      <3>2. Len(<<>>) = 0
        OBVIOUS
      <3>3. TailPart(content[dir]) # Begin
        BY <1>4, <3>1, <3>2, LastLineAt
      <3>4. TailPart(content[dir]) # Rest
        BY <1>4, <3>1, <3>2, LastLineAt DEF Decodes
      <3>5. QED
        BY <1>4, <3>3, <3>4, LastLineAt
    <2>3. StepInv(p)'
      BY <1>5, <2>1, <2>2 DEF StepInv
    <2>4. ProcType'
      BY <1>2, <1>3, <1>5, <2>1 DEF LogInv, ProcType, ReadForRepair
    <2>5. QED
      BY <1>1, <1>3, <2>3, <2>4 DEF LogInv
  <1>8. QED
    BY <1>6, <1>7

\* The steps that end the work of one process.
LEMMA GivesUpInd ==
  ASSUME LogInv, NEW p \in Proc, pc[p] # "idle", pc' = [pc EXCEPT ![p] = "idle"],
         lock' = NoProc, raw' = raw \/ raw' = [raw EXCEPT ![p] = <<>>],
         UNCHANGED <<content, synced, dir, durable, inodes, fd, sent, row, rows, acked>>
  PROVE  LogInv'
  <1>1. DiskType' /\ FileInv(dir)' /\ FileInv(durable)'
    BY DiskKept
  <1>2. lock = p
    BY Holder
  <1>3. \A q \in Proc : q # p => pc'[q] = "idle" /\ StepInv(q)'
    BY <1>2, OthersIdle
  <1>4. pc'[p] = "idle"
    BY DEF LogInv, ProcType
  <1>5. StepInv(p)'
    BY <1>4, IdleStep
  <1>6. ProcType'
    <2>1. raw' \in [Proc -> Seq(CellSet)]
      <3>1. <<>> \in Seq(CellSet) /\ raw \in [Proc -> Seq(CellSet)]
        BY DEF LogInv, ProcType
      <3>2. QED
        BY <3>1
    <2>2. \A q \in Proc : pc'[q] = "idle"
      BY <1>3, <1>4
    <2>3. QED
      BY <2>1, <2>2 DEF LogInv, ProcType
  <1>7. QED
    BY <1>1, <1>3, <1>5, <1>6 DEF LogInv

LEMMA OpenLogInd == ASSUME LogInv, NEW p \in Proc, OpenLog(p) PROVE LogInv'
  <1>1. MaxRows \in Nat /\ MaxRepairs \in Nat
    BY LogAssumption
  <1>2. /\ rows \in Nat /\ rows + 1 \in Row /\ rows' = rows + 1
        /\ UNCHANGED <<content, synced, dir, durable, inodes, lock, raw, acked>>
    BY <1>1 DEF LogInv, ProcType, OpenLog, disk, Row
  <1>3. /\ dir \in Inode /\ durable \in Inode
        /\ content[dir] \in Seq(CellSet) /\ content[durable] \in Seq(CellSet)
    <2>1. dir \in Inode /\ durable \in Inode
      BY <1>1 DEF LogInv, DiskType, Inode
    <2>2. QED
      BY <2>1 DEF LogInv, DiskType
  <1>4. FileInv(dir)' /\ FileInv(durable)'
    BY <1>2, <1>3, MoreRows DEF LogInv, FileInv
  <1>5. DiskType'
    BY <1>2 DEF LogInv, DiskType
  <1>6. lock = p /\ pc[p] = "append"
    BY Holder DEF OpenLog
  <1>7. \A q \in Proc : q # p => pc'[q] = "idle" /\ StepInv(q)'
    BY <1>6, OthersIdle DEF OpenLog
  <1>8. /\ pc'[p] = "write" /\ sent'[p] = 0 /\ row'[p] = rows + 1 /\ fd'[p] = dir
    BY DEF LogInv, ProcType, OpenLog
  <1>9. StepInv(p)'
    <2>1. TailPart(content[dir]) = Newline
      BY <1>6 DEF LogInv, StepInv
    <2>2. \A k \in 1 .. Len(content[dir]) : content[dir][k].row < rows + 1
      <3> SUFFICES ASSUME NEW k \in 1 .. Len(content[dir])
                   PROVE  content[dir][k].row < rows + 1
        OBVIOUS
      <3>1. content[dir][k].row \in Nat /\ content[dir][k].row <= rows
        BY <1>3, CellFacts DEF LogInv, FileInv, FileOK
      <3>2. QED
        BY <1>2, <3>1
    <2>3. QED
      BY <1>2, <1>8, <2>1, <2>2 DEF StepInv
  <1>10. ProcType'
    <2>1. rows' \in 0 .. MaxRows /\ acked' \subseteq 1 .. rows'
      BY <1>1, <1>2 DEF LogInv, ProcType, Row
    <2>2. /\ fd' \in [Proc -> Inode] /\ sent' \in [Proc -> Nat] /\ row' \in [Proc -> Nat]
      BY <1>2, <1>3 DEF LogInv, ProcType, OpenLog
    <2>3. pc' \in [Proc -> {"idle", "repair", "replace", "replaced", "append", "write", "fsync",
                             "syncdir"}]
      BY DEF LogInv, ProcType, OpenLog
    <2>4. \A q \in Proc : pc'[q] # "idle" => lock' = q
      BY <1>2, <1>6, <1>7
    <2>5. QED
      BY <1>2, <2>1, <2>2, <2>3, <2>4 DEF LogInv, ProcType
  <1>11. QED
    BY <1>4, <1>5, <1>7, <1>9, <1>10 DEF LogInv

\* Where the name points, and where it may point after a loss of power.
LEMMA Named ==
  ASSUME LogInv
  PROVE  \A i \in {dir, durable} :
           /\ i \in Inode /\ i <= inodes /\ i \in Nat
           /\ content[i] \in Seq(CellSet) /\ Len(content[i]) \in Nat
           /\ synced[i] \in Nat /\ synced[i] <= Len(content[i])
           /\ FileOK(content[i], synced[i], rows, acked)
  <1>1. MaxRepairs \in Nat
    BY LogAssumption
  <1>2. \A i \in {dir, durable} : i \in Inode /\ i <= inodes /\ i \in Nat
    BY <1>1 DEF LogInv, DiskType, Inode
  <1>3. \A i \in {dir, durable} :
          /\ content[i] \in Seq(CellSet) /\ synced[i] \in Nat /\ synced[i] <= Len(content[i])
    BY <1>2 DEF LogInv, DiskType
  <1>4. \A i \in {dir, durable} : Len(content[i]) \in Nat
    BY <1>3
  <1>5. QED
    BY <1>2, <1>3, <1>4 DEF LogInv, FileInv

LEMMA ReplaceFileInd == ASSUME LogInv, NEW p \in Proc, ReplaceFile(p) PROVE LogInv'
  <1> DEFINE new == inodes + 1
             f == content[dir]
             g == Repaired(f)
  <1>1. /\ lock = p /\ pc[p] = "replace" /\ raw[p] = f
    BY Holder DEF ReplaceFile, LogInv, StepInv
  <1>2. /\ new \in Inode /\ inodes' = new /\ dir' = new
        /\ content' = [content EXCEPT ![new] = g]
        /\ synced' = [synced EXCEPT ![new] = Len(g)]
        /\ UNCHANGED <<durable, lock, fd, sent, row, rows, acked>>
        /\ raw' = [raw EXCEPT ![p] = <<>>]
        /\ pc' = [pc EXCEPT ![p] = "replaced"]
    BY <1>1 DEF ReplaceFile
  <1>3. f \in Seq(CellSet) /\ WellFormed(f) /\ FileOK(f, synced[dir], rows, acked)
    BY Named DEF FileOK
  <1> HIDE DEF f
  <1>4. /\ g \in Seq(CellSet) /\ WellFormed(g) /\ TailPart(g) = Newline
        /\ \A k \in Newlines(f) : k \in 1 .. Len(g) /\ g[k] = f[k]
        /\ \A k \in 1 .. Len(g) : \E j \in 1 .. Len(f) : g[k].row = f[j].row
    BY <1>3, RepairFits
  <1> HIDE DEF g
  <1>5. Len(g) \in Nat
    BY <1>4
  <1>6. MaxRepairs \in Nat /\ inodes \in Nat /\ new \in Nat
    BY LogAssumption DEF LogInv, DiskType, Inode
  <1>7. durable # new /\ durable \in 1 .. new /\ durable \in Inode
    BY <1>6, Named DEF LogInv, DiskType
  <1>8. /\ content'[new] = g /\ synced'[new] = Len(g)
        /\ content'[durable] = content[durable] /\ synced'[durable] = synced[durable]
    BY <1>2, <1>7 DEF LogInv, DiskType
  <1>9. FileInv(dir)'
    <2>1. FileOK(g, Len(g), rows, acked)
      <3>1. \A k \in 1 .. Len(g) : g[k].row <= rows
        BY <1>3, <1>4 DEF FileOK
      <3>2. ASSUME NEW r \in acked PROVE \E k \in 1 .. Len(g) : g[k] = Cell(r, Newline)
        <4>1. PICK k \in 1 .. synced[dir] : f[k] = Cell(r, Newline)
          BY <1>3 DEF FileOK
        <4>2. k \in 1 .. Len(f) /\ DOMAIN f = 1 .. Len(f)
          <5>1. synced[dir] \in Nat /\ synced[dir] <= Len(f) /\ Len(f) \in Nat
            BY Named DEF f
          <5>2. QED
            BY <1>3, <5>1, Places
        <4>3. k \in Newlines(f)
          BY <4>1, <4>2 DEF Newlines, Cell
        <4>4. QED
          BY <1>4, <4>1, <4>3
      <3>3. QED
        BY <1>4, <3>1, <3>2 DEF FileOK
    <2> HIDE DEF new
    <2>2. QED
      BY <1>2, <1>8, <2>1 DEF FileInv
  <1>10. FileInv(durable)'
    BY <1>2, <1>8 DEF LogInv, FileInv
  <1>11. DiskType'
    <2>1. content' \in [Inode -> Seq(CellSet)] /\ synced' \in [Inode -> Nat]
      BY <1>2, <1>4, <1>5 DEF LogInv, DiskType
    <2>2. \A i \in Inode : synced'[i] <= Len(content'[i])
      <3> SUFFICES ASSUME NEW i \in Inode PROVE synced'[i] <= Len(content'[i])
        OBVIOUS
      <3>1. CASE i = new
        BY <1>5, <1>8, <3>1
      <3>2. CASE i # new
        <4>1. synced'[i] = synced[i] /\ content'[i] = content[i]
          BY <1>2, <3>2 DEF LogInv, DiskType
        <4>2. QED
          BY <4>1 DEF LogInv, DiskType
      <3>3. QED
        BY <3>1, <3>2
    <2>3. new \in 1 .. new
      BY <1>6
    <2> HIDE DEF new
    <2>4. QED
      BY <1>2, <1>7, <2>1, <2>2, <2>3 DEF DiskType
  <1>12. \A q \in Proc : q # p => pc'[q] = "idle" /\ StepInv(q)'
    BY <1>1, <1>2, OthersIdle
  <1>13. pc'[p] = "replaced"
    BY <1>2 DEF LogInv, ProcType
  <1>14. StepInv(p)'
    <2>1. TailPart(content'[dir']) = Newline
      BY <1>2, <1>4, <1>8
    <2>2. QED
      BY <1>13, <2>1 DEF StepInv
  <1>15. ProcType'
    BY <1>1, <1>2, <1>12, <1>13 DEF LogInv, ProcType
  <1>16. QED
    BY <1>9, <1>10, <1>11, <1>12, <1>14, <1>15 DEF LogInv

LEMMA SyncReplacedInd == ASSUME LogInv, NEW p \in Proc, SyncReplaced(p) PROVE LogInv'
  <1>1. /\ lock = p /\ pc[p] = "replaced" /\ durable' = dir
        /\ pc' = [pc EXCEPT ![p] = "append"]
        /\ UNCHANGED <<content, synced, dir, inodes, lock, raw, fd, sent, row, rows, acked>>
    BY Holder DEF SyncReplaced
  <1>2. DiskType' /\ FileInv(dir)' /\ FileInv(durable)'
    BY <1>1 DEF LogInv, DiskType, FileInv
  <1>3. \A q \in Proc : q # p => pc'[q] = "idle" /\ StepInv(q)'
    BY <1>1, OthersIdle
  <1>4. pc'[p] = "append"
    BY <1>1 DEF LogInv, ProcType
  <1>5. StepInv(p)'
    <2>1. TailPart(content[dir]) = Newline
      BY <1>1 DEF LogInv, StepInv
    <2>2. QED
      BY <1>1, <1>4, <2>1 DEF StepInv
  <1>6. ProcType'
    BY <1>1, <1>3, <1>4 DEF LogInv, ProcType
  <1>7. QED
    BY <1>2, <1>3, <1>5, <1>6 DEF LogInv

LEMMA SyncLogInd == ASSUME LogInv, NEW p \in Proc, SyncLog(p) PROVE LogInv'
  <1>1. /\ lock = p /\ pc[p] = "fsync" /\ fd[p] = dir /\ row[p] = rows /\ rows \in Row
        /\ Len(content[dir]) # 0 /\ content[dir][Len(content[dir])] = Cell(rows, Newline)
    BY Holder DEF SyncLog, LogInv, StepInv
  <1>2. /\ synced' = [synced EXCEPT ![dir] = Len(content[dir])]
        /\ pc' = [pc EXCEPT ![p] = "syncdir"]
        /\ UNCHANGED <<content, dir, durable, inodes, lock, raw, fd, sent, row, rows, acked>>
    BY <1>1 DEF SyncLog
  <1>3. \A i \in {dir, durable} : i \in Inode /\ Len(content[i]) \in Nat
    BY Named
  <1>4. /\ synced'[dir] = Len(content[dir])
        /\ \A i \in Inode : i # dir => synced'[i] = synced[i]
    BY <1>2, <1>3 DEF LogInv, DiskType
  <1>5. DiskType'
    <2>1. synced' \in [Inode -> Nat]
      BY <1>2, <1>3 DEF LogInv, DiskType
    <2>2. \A i \in Inode : synced'[i] <= Len(content[i])
      BY <1>3, <1>4 DEF LogInv, DiskType
    <2>3. QED
      BY <1>2, <2>1, <2>2 DEF LogInv, DiskType
  <1>6. FileOK(content[dir], Len(content[dir]), rows, acked)
    <2>1. /\ FileOK(content[dir], synced[dir], rows, acked)
          /\ synced[dir] \in Nat /\ synced[dir] <= Len(content[dir]) /\ Len(content[dir]) \in Nat
      BY Named
    <2>2. \A k \in 1 .. synced[dir] : k \in 1 .. Len(content[dir])
      BY <2>1
    <2>3. QED
      BY <2>1, <2>2 DEF FileOK
  <1>7. FileInv(dir)' /\ FileInv(durable)'
    <2>1. FileInv(dir)'
      BY <1>2, <1>4, <1>6 DEF FileInv
    <2>2. CASE durable = dir
      BY <1>2, <2>1, <2>2
    <2>3. CASE durable # dir
      BY <1>2, <1>3, <1>4, <2>1, <2>3 DEF LogInv, FileInv
    <2>4. QED
      BY <2>2, <2>3
  <1>8. \A q \in Proc : q # p => pc'[q] = "idle" /\ StepInv(q)'
    BY <1>1, <1>2, OthersIdle
  <1>9. pc'[p] = "syncdir"
    BY <1>2 DEF LogInv, ProcType
  <1>10. StepInv(p)'
    BY <1>1, <1>2, <1>4, <1>9 DEF StepInv
  <1>11. ProcType'
    BY <1>1, <1>2, <1>8, <1>9 DEF LogInv, ProcType
  <1>12. QED
    BY <1>5, <1>7, <1>8, <1>10, <1>11 DEF LogInv

LEMMA SyncDirectoryInd == ASSUME LogInv, NEW p \in Proc, SyncDirectory(p) PROVE LogInv'
  <1>1. /\ lock = p /\ pc[p] = "syncdir" /\ row[p] = rows /\ rows \in Row
        /\ Len(content[dir]) # 0 /\ content[dir][Len(content[dir])] = Cell(rows, Newline)
        /\ synced[dir] = Len(content[dir])
    BY Holder DEF SyncDirectory, LogInv, StepInv
  <1>2. /\ durable' = dir /\ acked' = acked \cup {rows}
        /\ pc' = [pc EXCEPT ![p] = "append"]
        /\ UNCHANGED <<content, synced, dir, inodes, lock, raw, fd, sent, row, rows>>
    BY <1>1 DEF SyncDirectory
  <1>3. FileOK(content[dir], synced[dir], rows, acked) /\ Len(content[dir]) \in Nat
    BY Named
  <1>4. FileOK(content[dir], synced[dir], rows, acked \cup {rows})
    <2>1. Len(content[dir]) \in 1 .. synced[dir]
      BY <1>1, <1>3
    <2>2. QED
      BY <1>1, <1>3, <2>1 DEF FileOK
  <1>5. FileInv(dir)' /\ FileInv(durable)'
    BY <1>2, <1>4 DEF FileInv
  <1>6. DiskType'
    BY <1>2 DEF LogInv, DiskType
  <1>7. \A q \in Proc : q # p => pc'[q] = "idle" /\ StepInv(q)'
    BY <1>1, <1>2, OthersIdle
  <1>8. pc'[p] = "append"
    BY <1>2 DEF LogInv, ProcType
  <1>9. StepInv(p)'
    <2>1. TailPart(content[dir]) = Newline
      BY <1>1 DEF TailPart, Cell
    <2>2. QED
      BY <1>2, <1>8, <2>1 DEF StepInv
  <1>10. ProcType'
    <2>1. acked' \subseteq 1 .. rows
      <3>1. rows \in 1 .. rows
        BY <1>1, LogAssumption DEF Row
      <3>2. QED
        BY <1>2, <3>1 DEF LogInv, ProcType
    <2>2. QED
      BY <1>1, <1>2, <1>7, <1>8, <2>1 DEF LogInv, ProcType
  <1>11. QED
    BY <1>5, <1>6, <1>7, <1>9, <1>10 DEF LogInv

LEMMA WriteSomeInd ==
  ASSUME LogInv, NEW p \in Proc, NEW n \in 1 .. 3, WriteSome(p, n)
  PROVE  LogInv'
  <1> DEFINE f == content[dir]
             s == sent[p]
             g == f \o SubSeq(Data(rows), s + 1, s + n)
  <1>1. /\ lock = p /\ pc[p] = "write" /\ fd[p] = dir /\ row[p] = rows /\ rows \in Row
        /\ s \in 0 .. 2
        /\ s = 0 => TailPart(f) = Newline /\ \A k \in 1 .. Len(f) : f[k].row < rows
        /\ s # 0 => Len(f) # 0 /\ f[Len(f)] = Cell(rows, s)
    BY Holder DEF WriteSome, LogInv, StepInv
  <1>2. Len(Data(rows)) = 3
    BY DEF Data
  <1>3. /\ s + n <= 3
        /\ content' = [content EXCEPT ![dir] = g]
        /\ sent' = [sent EXCEPT ![p] = s + n]
        /\ pc' = [pc EXCEPT ![p] = IF s + n = 3 THEN "fsync" ELSE "write"]
        /\ UNCHANGED <<synced, dir, durable, inodes, lock, raw, fd, row, rows, acked>>
    BY <1>1, <1>2 DEF WriteSome
  <1>4. /\ f \in Seq(CellSet) /\ WellFormed(f) /\ FileOK(f, synced[dir], rows, acked)
        /\ Len(f) \in Nat /\ synced[dir] \in Nat /\ synced[dir] <= Len(f)
    BY Named DEF FileOK
  <1>5. \A i \in {dir, durable} : i \in Inode
    BY Named
  <1> HIDE DEF f, s
  <1>6. /\ g \in Seq(CellSet) /\ WellFormed(g)
        /\ Len(g) = Len(f) + n /\ g[Len(g)] = Cell(rows, s + n)
        /\ \A k \in 1 .. Len(f) : k \in 1 .. Len(g) /\ g[k] = f[k]
        /\ \A k \in 1 .. Len(g) : k \in 1 .. Len(f) \/ g[k].row = rows
    <2>1. /\ f \in Seq(CellSet) /\ WellFormed(f) /\ rows \in Row /\ s \in 0 .. 2 /\ s + n <= 3
          /\ s = 0 => TailPart(f) = Newline /\ \A k \in 1 .. Len(f) : f[k].row < rows
          /\ s # 0 => Len(f) # 0 /\ f[Len(f)] = Cell(rows, s)
      BY <1>1, <1>3, <1>4
    <2>2. \A r \in {rows}, t \in {s} :
            LET h == f \o SubSeq(Data(r), t + 1, t + n)
            IN  /\ h \in Seq(CellSet) /\ WellFormed(h)
                /\ Len(h) = Len(f) + n /\ h[Len(h)] = Cell(r, t + n)
                /\ \A k \in 1 .. Len(f) : k \in 1 .. Len(h) /\ h[k] = f[k]
                /\ \A k \in 1 .. Len(h) : k \in 1 .. Len(f) \/ h[k].row = r
      <3> SUFFICES ASSUME NEW r \in {rows}, NEW t \in {s}
                   PROVE  LET h == f \o SubSeq(Data(r), t + 1, t + n)
                          IN  /\ h \in Seq(CellSet) /\ WellFormed(h)
                              /\ Len(h) = Len(f) + n /\ h[Len(h)] = Cell(r, t + n)
                              /\ \A k \in 1 .. Len(f) : k \in 1 .. Len(h) /\ h[k] = f[k]
                              /\ \A k \in 1 .. Len(h) : k \in 1 .. Len(f) \/ h[k].row = r
        OBVIOUS
      <3>1. r \in Row /\ t \in 0 .. 2 /\ t + n <= 3
        BY <2>1
      <3>2. /\ t = 0 => TailPart(f) = Newline /\ \A k \in 1 .. Len(f) : f[k].row < r
            /\ t # 0 => Len(f) # 0 /\ f[Len(f)] = Cell(r, t)
        BY <2>1
      <3>3. QED
        BY <2>1, <3>1, <3>2, ExtendFits
    <2>3. QED
      BY <2>2
  <1> HIDE DEF g
  <1>7. /\ content'[dir] = g
        /\ \A i \in Inode : i # dir => content'[i] = content[i]
    BY <1>3, <1>5 DEF LogInv, DiskType
  <1>8. Len(g) \in Nat /\ Len(g) # 0 /\ Len(f) <= Len(g)
    BY <1>4, <1>6
  <1>9. FileOK(g, synced[dir], rows, acked)
    <2>1. \A k \in 1 .. Len(g) : g[k].row <= rows
      <3>1. rows \in Nat
        BY <1>1, LogAssumption DEF Row
      <3>2. QED
        BY <1>4, <1>6, <3>1 DEF FileOK
    <2>2. ASSUME NEW r \in acked PROVE \E k \in 1 .. synced[dir] : g[k] = Cell(r, Newline)
      <3>1. PICK k \in 1 .. synced[dir] : f[k] = Cell(r, Newline)
        BY <1>4 DEF FileOK
      <3>2. k \in 1 .. Len(f)
        BY <1>4
      <3>3. QED
        BY <1>6, <3>1, <3>2
    <2>3. QED
      BY <1>6, <2>1, <2>2 DEF FileOK
  <1>10. FileInv(dir)' /\ FileInv(durable)'
    <2>1. FileInv(dir)'
      BY <1>3, <1>7, <1>9 DEF FileInv
    <2>2. CASE durable = dir
      BY <1>3, <2>1, <2>2
    <2>3. CASE durable # dir
      BY <1>3, <1>5, <1>7, <2>1, <2>3 DEF LogInv, FileInv
    <2>4. QED
      BY <2>2, <2>3
  <1>11. DiskType'
    <2>1. content' \in [Inode -> Seq(CellSet)]
      BY <1>3, <1>6 DEF LogInv, DiskType
    <2>2. \A i \in Inode : synced[i] <= Len(content'[i])
      <3> SUFFICES ASSUME NEW i \in Inode PROVE synced[i] <= Len(content'[i])
        OBVIOUS
      <3>1. CASE i = dir
        BY <1>4, <1>7, <1>8, <3>1
      <3>2. CASE i # dir
        BY <1>7, <3>2 DEF LogInv, DiskType
      <3>3. QED
        BY <3>1, <3>2
    <2>3. QED
      BY <1>3, <2>1, <2>2 DEF LogInv, DiskType
  <1>12. \A q \in Proc : q # p => pc'[q] = "idle" /\ StepInv(q)'
    BY <1>1, <1>3, OthersIdle
  <1>13. /\ pc'[p] = IF s + n = 3 THEN "fsync" ELSE "write"
         /\ sent'[p] = s + n
    BY <1>3 DEF LogInv, ProcType
  <1>14. StepInv(p)'
    <2>1. fd'[p] = dir' /\ row'[p] = rows' /\ rows' \in Row /\ content'[dir'] = g
      BY <1>1, <1>3, <1>7
    <2>2. CASE s + n = 3
      <3>1. g[Len(g)] = Cell(rows', Newline)
        BY <1>3, <1>6, <2>2 DEF Newline
      <3>2. QED
        BY <1>8, <1>13, <2>1, <2>2, <3>1 DEF StepInv
    <2>3. CASE s + n # 3
      <3>1. s + n \in 0 .. 2 /\ s + n # 0
        BY <1>1, <1>3, <2>3
      <3>2. g[Len(g)] = Cell(rows', sent'[p])
        BY <1>3, <1>6, <1>13
      <3>3. QED
        BY <1>8, <1>13, <2>1, <2>3, <3>1, <3>2 DEF StepInv
    <2>4. QED
      BY <2>2, <2>3
  <1>15. ProcType'
    <2>1. s + n \in Nat
      BY <1>1
    <2>2. sent' \in [Proc -> Nat]
      BY <1>3, <2>1 DEF LogInv, ProcType
    <2>3. pc' \in [Proc -> {"idle", "repair", "replace", "replaced", "append", "write", "fsync",
                             "syncdir"}]
      BY <1>3 DEF LogInv, ProcType
    <2>4. \A q \in Proc : pc'[q] # "idle" => lock' = q
      BY <1>1, <1>3, <1>12
    <2>5. QED
      BY <1>3, <2>2, <2>3, <2>4 DEF LogInv, ProcType
  <1>16. QED
    BY <1>10, <1>11, <1>12, <1>14, <1>15 DEF LogInv

LEMMA PowerLossInd ==
  ASSUME LogInv, NEW d \in {dir, durable}, NEW n \in synced[d] .. Len(content[d]), PowerLoss(d, n)
  PROVE  LogInv'
  <1> DEFINE f == content[d]
             g == SubSeq(f, 1, n)
  <1>1. /\ dir' = d /\ durable' = d /\ lock' = NoProc
        /\ content' = [content EXCEPT ![d] = g]
        /\ synced' = [synced EXCEPT ![d] = n]
        /\ pc' = [q \in Proc |-> "idle"] /\ raw' = [q \in Proc |-> <<>>]
        /\ UNCHANGED <<inodes, fd, sent, row, rows, acked>>
    BY DEF PowerLoss
  <1>2. /\ d \in Inode /\ f \in Seq(CellSet) /\ Len(f) \in Nat
        /\ synced[d] \in Nat /\ FileOK(f, synced[d], rows, acked)
    BY Named
  <1>3. n \in 0 .. Len(f) /\ n \in Nat /\ synced[d] <= n
    BY <1>2
  <1> HIDE DEF f
  <1>4. /\ g \in Seq(CellSet) /\ Len(g) = n /\ WellFormed(g)
        /\ \A k \in 1 .. n : k \in 1 .. Len(f) /\ g[k] = f[k]
    <2>1. WellFormed(f)
      BY <1>2 DEF FileOK
    <2>2. QED
      BY <1>2, <1>3, <2>1, PrefixFits
  <1> HIDE DEF g
  <1>5. /\ content'[d] = g /\ synced'[d] = n
        /\ \A i \in Inode : i # d => content'[i] = content[i] /\ synced'[i] = synced[i]
    BY <1>1, <1>2 DEF LogInv, DiskType
  <1>6. FileOK(g, n, rows, acked)
    <2>1. \A k \in 1 .. Len(g) : g[k].row <= rows
      BY <1>2, <1>4 DEF FileOK
    <2>2. ASSUME NEW r \in acked PROVE \E k \in 1 .. n : g[k] = Cell(r, Newline)
      <3>1. PICK k \in 1 .. synced[d] : f[k] = Cell(r, Newline)
        BY <1>2 DEF FileOK
      <3>2. k \in 1 .. n
        BY <1>2, <1>3
      <3>3. QED
        BY <1>4, <3>1, <3>2
    <2>3. QED
      BY <1>4, <2>1, <2>2 DEF FileOK
  <1>7. FileInv(dir)' /\ FileInv(durable)'
    BY <1>1, <1>5, <1>6 DEF FileInv
  <1>8. DiskType'
    <2>1. content' \in [Inode -> Seq(CellSet)] /\ synced' \in [Inode -> Nat]
      BY <1>1, <1>3, <1>4 DEF LogInv, DiskType
    <2>2. \A i \in Inode : synced'[i] <= Len(content'[i])
      <3> SUFFICES ASSUME NEW i \in Inode PROVE synced'[i] <= Len(content'[i])
        OBVIOUS
      <3>1. CASE i = d
        BY <1>3, <1>4, <1>5, <3>1
      <3>2. CASE i # d
        BY <1>5, <3>2 DEF LogInv, DiskType
      <3>3. QED
        BY <3>1, <3>2
    <2>3. d \in 1 .. inodes
      BY DEF LogInv, DiskType
    <2>4. QED
      BY <1>1, <2>1, <2>2, <2>3 DEF LogInv, DiskType
  <1>9. \A q \in Proc : pc'[q] = "idle"
    BY <1>1
  <1>10. \A q \in Proc : StepInv(q)'
    BY <1>9, IdleStep
  <1>11. ProcType'
    <2>1. <<>> \in Seq(CellSet)
      OBVIOUS
    <2>2. raw' \in [Proc -> Seq(CellSet)]
      BY <1>1, <2>1
    <2>3. pc' \in [Proc -> {"idle", "repair", "replace", "replaced", "append", "write", "fsync",
                             "syncdir"}]
      BY <1>1
    <2>4. QED
      BY <1>1, <1>9, <2>2, <2>3 DEF LogInv, ProcType
  <1>12. QED
    BY <1>7, <1>8, <1>10, <1>11 DEF LogInv

LEMMA LogStarts == LogInit => LogInv
  <1> SUFFICES ASSUME LogInit PROVE LogInv
    OBVIOUS
  <1>1. MaxRows \in Nat /\ MaxRepairs \in Nat
    BY LogAssumption
  <1>2. <<>> \in Seq(CellSet) /\ Len(<<>>) = 0
    OBVIOUS
  <1>3. 1 \in Inode
    BY <1>1 DEF Inode
  <1>4. DiskType
    BY <1>2, <1>3 DEF LogInit, DiskType
  <1>5. ProcType
    <2>1. rows \in 0 .. MaxRows /\ acked \subseteq 1 .. rows
      BY <1>1 DEF LogInit
    <2>2. QED
      BY <1>2, <1>3, <2>1 DEF LogInit, ProcType
  <1>6. FileOK(<<>>, 0, 0, {})
    BY <1>2 DEF FileOK, WellFormed
  <1>7. FileInv(dir) /\ FileInv(durable)
    BY <1>3, <1>6 DEF LogInit, FileInv
  <1>8. \A p \in Proc : StepInv(p)
    BY DEF LogInit, StepInv
  <1>9. QED
    BY <1>4, <1>5, <1>7, <1>8 DEF LogInv

LEMMA LogStepInd == LogInv /\ [LogNext]_logVars => LogInv'
  <1> SUFFICES ASSUME LogInv, [LogNext]_logVars PROVE LogInv'
    OBVIOUS
  <1>1. ASSUME NEW p \in Proc, LogStep(p) PROVE LogInv'
    <2>1. CASE StartEpoch(p)
      BY <2>1, StartEpochInd
    <2>2. CASE ReadForRepair(p)
      BY <2>2, ReadForRepairInd
    <2>3. CASE ReplaceFile(p)
      BY <2>3, ReplaceFileInd
    <2>4. CASE SyncReplaced(p)
      BY <2>4, SyncReplacedInd
    <2>5. CASE OpenLog(p)
      BY <2>5, OpenLogInd
    <2>6. CASE \E n \in 1 .. 3 : WriteSome(p, n)
      BY <2>6, WriteSomeInd
    <2>7. CASE WriteFails(p)
      BY <2>7, GivesUpInd DEF WriteFails, disk
    <2>8. CASE SyncLog(p)
      BY <2>8, SyncLogInd
    <2>9. CASE SyncDirectory(p)
      BY <2>9, SyncDirectoryInd
    <2>10. CASE EndEpoch(p)
      BY <2>10, GivesUpInd DEF EndEpoch, disk
    <2>11. CASE Kill(p)
      BY <2>11, GivesUpInd DEF Kill, disk
    <2>12. QED
      BY <1>1, <2>1, <2>2, <2>3, <2>4, <2>5, <2>6, <2>7, <2>8, <2>9, <2>10, <2>11 DEF LogStep
  <1>2. ASSUME NEW d \in {dir, durable}, NEW n \in synced[d] .. Len(content[d]), PowerLoss(d, n)
        PROVE  LogInv'
    BY <1>2, PowerLossInd
  <1>3. CASE UNCHANGED logVars
    <2>1. /\ UNCHANGED <<content, synced, dir, durable, inodes>>
          /\ UNCHANGED <<lock, pc, raw, fd, sent, row, rows, acked>>
      BY <1>3 DEF logVars, disk, procs
    <2>2. DiskType' /\ FileInv(dir)' /\ FileInv(durable)'
      BY <2>1, DiskKept
    <2>3. ProcType'
      BY <2>1 DEF LogInv, ProcType
    <2>4. \A p \in Proc : StepInv(p)'
      BY <2>1 DEF LogInv, StepInv
    <2>5. QED
      BY <2>2, <2>3, <2>4 DEF LogInv
  <1>4. QED
    BY <1>1, <1>2, <1>3 DEF LogNext

LEMMA LogInvariant == LogSpec => []LogInv
  BY LogStarts, LogStepInd, PTL DEF LogSpec

-----------------------------------------------------------------------------
\* What the files promise

\* Cells, descriptors and rows stay in their domains, one process at a time is
\* inside run_epoch, and no more is durable than was written.
THEOREM LogTypeCorrect == LogSpec => []LogTypeOK
  <1>1. LogInv => LogTypeOK
    <2> SUFFICES ASSUME LogInv PROVE LogTypeOK
      OBVIOUS
    <2>1. MaxRows \in Nat /\ MaxRepairs \in Nat
      BY LogAssumption
    <2>2. ASSUME NEW i \in Inode
          PROVE  /\ \A k \in DOMAIN content[i] : content[i][k] \in CellSet
                 /\ synced[i] \in 0 .. Len(content[i])
      <3>1. /\ content[i] \in Seq(CellSet) /\ synced[i] \in Nat
            /\ synced[i] <= Len(content[i])
        BY DEF LogInv, DiskType
      <3>2. Len(content[i]) \in Nat
        BY <3>1
      <3>3. QED
        BY <3>1, <3>2
    <2>3. {dir, durable, inodes} \subseteq Inode
      BY Named DEF LogInv, DiskType
    <2>4. rows <= MaxRows
      BY <2>1 DEF LogInv, ProcType
    <2>5. QED
      BY <2>2, <2>3, <2>4 DEF LogTypeOK, LogInv, ProcType, CellSet
  <1>2. QED
    BY <1>1, LogInvariant, PTL

\* No row is ever appended behind a torn one: at every moment, between two writes
\* of _write_all and after every kill or loss of power, the reader of replay and
\* the next repair_jsonl_tail find only whole lines before the last.
THEOREM AlwaysReadable == LogSpec => []LogReadable
  <1>1. LogInv => LogReadable
    <2> SUFFICES ASSUME LogInv PROVE ~Corrupt(content[dir])
      BY DEF LogReadable
    <2>1. content[dir] \in Seq(CellSet) /\ WellFormed(content[dir])
      BY Named DEF FileOK
    <2>2. QED
      BY <2>1, Sound
  <1>2. QED
    BY <1>1, LogInvariant, PTL

\* The reader finds a row for every newline, in the order of the appends.
LEMMA ReadInOrder ==
  ASSUME NEW f \in Seq(CellSet), WellFormed(f)
  PROVE  /\ \A j, k \in DOMAIN Reading(f) : j < k => Reading(f)[j] < Reading(f)[k]
         /\ \A k \in 1 .. Len(f) : f[k].part = Newline =>
              k \in DOMAIN Reading(f) /\ Reading(f)[k] = f[k].row
  <1> DEFINE E == Newlines(f) \cup (IF TailPart(f) = Rest THEN {Len(f) + 1} ELSE {})
  <1>1. /\ Reading(f) = [i \in E |-> f[i - 2].row]
        /\ \A i \in E : i \in Nat /\ i - 2 \in 1 .. Len(f) /\ f[i - 2].part = Begin
    BY ReadingIs
  <1> HIDE DEF E
  <1>2. ASSUME NEW j \in E, NEW k \in E, j < k PROVE f[j - 2].row < f[k - 2].row
    <2>1. j - 2 \in 1 .. Len(f) /\ k - 2 \in 1 .. Len(f) /\ j - 2 < k - 2
      BY <1>1, <1>2
    <2>2. Before(f[j - 2], f[k - 2])
      BY <2>1 DEF WellFormed
    <2>3. QED
      BY <1>1, <2>2 DEF Before, Begin
  <1>3. ASSUME NEW k \in 1 .. Len(f), f[k].part = Newline
        PROVE  k \in E /\ f[k - 2].row = f[k].row
    <2>1. k \in Newlines(f)
      BY <1>3, Places DEF Newlines
    <2>2. QED
      BY <2>1, LineAt DEF E
  <1>4. QED
    BY <1>1, <1>2, <1>3

\* Every row whose append_submission returned is read once, and in the order of the
\* appends, whatever kills, failed writes, losses of power and repairs follow:
\* fsync of the file before fsync of the directory, and the copy a repair leaves
\* behind keeps the acknowledged rows too.
THEOREM AcknowledgedRowsSurvive == LogSpec => []AckedRowsSurvive
  <1>1. LogInv => AckedRowsSurvive
    <2> SUFFICES ASSUME LogInv PROVE AckedRowsSurvive
      OBVIOUS
    <2> DEFINE f == content[dir]
    <2>1. /\ f \in Seq(CellSet) /\ WellFormed(f) /\ FileOK(f, synced[dir], rows, acked)
          /\ synced[dir] \in Nat /\ synced[dir] <= Len(f) /\ Len(f) \in Nat
      BY Named DEF FileOK
    <2> HIDE DEF f
    <2>2. \A j, k \in DOMAIN Reading(f) : j < k => Reading(f)[j] < Reading(f)[k]
      BY <2>1, ReadInOrder
    <2>3. ASSUME NEW r \in acked PROVE \E k \in DOMAIN Reading(f) : Reading(f)[k] = r
      <3>1. PICK k \in 1 .. synced[dir] : f[k] = Cell(r, Newline)
        BY <2>1 DEF FileOK
      <3>2. k \in 1 .. Len(f) /\ f[k].part = Newline /\ f[k].row = r
        BY <2>1, <3>1 DEF Cell
      <3>3. QED
        BY <2>1, <3>2, ReadInOrder
    <2>4. QED
      BY <2>2, <2>3 DEF AckedRowsSurvive, f
  <1>2. QED
    BY <1>1, LogInvariant, PTL

\* repair_jsonl_tail changes no reading: replay finds in the file it puts in place
\* exactly the rows it found in the torn one.
THEOREM RepairIsInvisible == LogSpec => RepairKeepsReading
  <1>1. LogInv /\ [LogNext]_logVars =>
          [\A p \in Proc : pc[p] = "replace" /\ pc'[p] = "replaced"
                             => Reading(content'[dir']) = Reading(content[dir])]_logVars
    <2> SUFFICES ASSUME LogInv, LogNext, NEW p \in Proc, pc[p] = "replace", pc'[p] = "replaced"
                 PROVE  Reading(content'[dir']) = Reading(content[dir])
      BY DEF logVars
    <2>1. lock = p /\ raw[p] = content[dir]
      BY Holder DEF LogInv, StepInv
    <2>2. ReplaceFile(p)
      <3>1. ASSUME NEW q \in Proc, LogStep(q) PROVE q = p
        <4>1. pc \in [Proc -> {"idle", "repair", "replace", "replaced", "append", "write",
                               "fsync", "syncdir"}]
          BY DEF LogInv, ProcType
        <4>2. \E v : pc' = [pc EXCEPT ![q] = v]
          BY <3>1 DEF LogStep, StartEpoch, ReadForRepair, ReplaceFile, SyncReplaced, OpenLog,
                      WriteSome, WriteFails, SyncLog, SyncDirectory, EndEpoch, Kill
        <4>3. QED
          BY <4>1, <4>2
      <3>2. ASSUME LogStep(p) PROVE ReplaceFile(p)
        BY <3>2 DEF LogStep, StartEpoch, ReadForRepair, ReplaceFile, SyncReplaced, OpenLog,
                    WriteSome, WriteFails, SyncLog, SyncDirectory, EndEpoch, Kill, LogInv, ProcType
      <3>3. ASSUME NEW d, NEW n, PowerLoss(d, n) PROVE FALSE
        BY <3>3 DEF PowerLoss
      <3>4. QED
        BY <3>1, <3>2, <3>3 DEF LogNext
    <2>3. content'[dir'] = Repaired(content[dir])
      BY <2>1, <2>2 DEF ReplaceFile, LogInv, DiskType
    <2>4. content[dir] \in Seq(CellSet) /\ WellFormed(content[dir])
      BY Named DEF FileOK
    <2>5. QED
      BY <2>3, <2>4, RepairFits
  <1>2. QED
    BY <1>1, LogInvariant, PTL DEF LogSpec, RepairKeepsReading

=============================================================================
