-------------------------- MODULE TextEditorProofs --------------------------
(***************************************************************************)
(* Proofs about TextEditor, for every alphabet, tab stop, file and bound.  *)
(* What a column is, and that columns grow along a line, is shown first,   *)
(* then what deleting and inserting make of a text, then that every key    *)
(* keeps the invariant.                                                    *)
(***************************************************************************)
EXTENDS TextEditorInv, FiniteSetTheorems, SequenceTheorems, WellFoundedInduction, TLAPS

(* Numbers.                                                                *)

\* A set of numbers has a least one.
LEMMA LeastNumber ==
  ASSUME NEW T \in SUBSET Nat, T # {}
  PROVE  \E x \in T : \A y \in T : x <= y
<1>1. PICK n : n \in T
  OBVIOUS
<1> DEFINE S == 0 .. n
           below == {0 .. x : x \in T \cap S}
<1>2. IsFiniteSet(S) /\ FiniteSubsetsOf(S) = SUBSET S
  <2>1. IsFiniteSet(0 .. n)
    BY <1>1, FS_Interval
  <2>2. QED
    BY <2>1, FS_FiniteSubsetsOfFinite
<1>3. IsWellFoundedOn(StrictSubsetOrdering(S), SUBSET S)
  BY <1>2, FS_StrictSubsetOrderingWellFounded
<1>4. below \subseteq SUBSET S /\ below # {}
  BY <1>1
<1>5. PICK X \in below : \A Y \in below : ~(<<Y, X>> \in StrictSubsetOrdering(S))
  <2> HIDE DEF below, S
  <2>1. QED
    BY <1>3, <1>4, WFMin
<1>6. PICK x \in T \cap S : X = 0 .. x
  BY <1>5
<1>7. ASSUME NEW y \in T, y < x PROVE FALSE
  <2>1. 0 .. y \in below
    BY <1>1, <1>6, <1>7
  <2>2. (0 .. y) \subseteq X /\ (0 .. y) # X /\ X \in SUBSET S /\ (0 .. y) \in SUBSET S
    BY <1>1, <1>6, <1>7
  <2>3. <<0 .. y, X>> \in StrictSubsetOrdering(S)
    BY <2>2 DEF StrictSubsetOrdering
  <2>4. QED
    BY <1>5, <2>1, <2>3
<1>8. QED
  BY <1>6, <1>7

\* Induction over the numbers up to n.
LEMMA UpTo ==
  ASSUME NEW n \in Nat, NEW S, 0 \in S, \A i \in 0 .. n - 1 : i \in S => i + 1 \in S
  PROVE  0 .. n \subseteq S
<1> DEFINE T == (0 .. n) \ S
<1> SUFFICES ASSUME T # {} PROVE FALSE
  OBVIOUS
<1>1. PICK x \in T : \A y \in T : x <= y
  <2>1. T \in SUBSET Nat
    OBVIOUS
  <2> HIDE DEF T
  <2>2. QED
    BY <2>1, LeastNumber
<1>2. x - 1 \in 0 .. n - 1 /\ x - 1 \in S
  BY <1>1
<1>3. QED
  BY <1>1, <1>2

LEMMA Further ==
  ASSUME NEW c \in Nat, NEW char
  PROVE  NextColumn(c, char) \in Nat /\ NextColumn(c, char) > c
<1>1. (c \div TabSize) \in Nat /\ (c \div TabSize) * TabSize + TabSize > c
  BY TabAssumption
<1>2. QED
  BY <1>1, TabAssumption DEF NextColumn
\* The columns of a line up to the index n, which GetCharacterColumn computes.
IsColumns(g, line, n) ==
  g = [i \in 0 .. n |-> IF i = 0 THEN 0 ELSE NextColumn(g[i - 1], line[i])]

LEMMA ColumnsExist ==
  ASSUME NEW line, NEW n \in Nat
  PROVE  \E g : IsColumns(g, line, n) /\ g \in [0 .. n -> Nat]
<1> DEFINE S == {k \in 0 .. n : \E g : IsColumns(g, line, k) /\ g \in [0 .. k -> Nat]}
<1>1. 0 \in S
  <2> DEFINE g == [i \in 0 .. 0 |-> 0]
  <2>1. g = [i \in 0 .. 0 |-> IF i = 0 THEN 0 ELSE NextColumn(g[i - 1], line[i])]
    OBVIOUS
  <2>2. IsColumns(g, line, 0) /\ g \in [0 .. 0 -> Nat]
    BY <2>1 DEF IsColumns
  <2> HIDE DEF g
  <2>3. QED
    BY <2>2
<1>2. ASSUME NEW k \in 0 .. n - 1, k \in S PROVE k + 1 \in S
  <2>1. PICK g \in [0 .. k -> Nat] : IsColumns(g, line, k)
    BY <1>2
  <2> DEFINE h == [i \in 0 .. k + 1 |-> IF i = k + 1 THEN NextColumn(g[k], line[k + 1]) ELSE g[i]]
  <2>2. h \in [0 .. k + 1 -> Nat]
    BY <2>1, Further
  <2>3. \A i \in 0 .. k : g[i] = IF i = 0 THEN 0 ELSE NextColumn(g[i - 1], line[i])
    BY <2>1 DEF IsColumns
  <2>4. \A i \in 0 .. k + 1 : h[i] = IF i = 0 THEN 0 ELSE NextColumn(h[i - 1], line[i])
    BY <1>2, <2>3
  <2>5. IsColumns(h, line, k + 1)
    BY <2>4 DEF IsColumns
  <2>6. k + 1 \in 0 .. n
    BY <1>2
  <2> HIDE DEF h
  <2>7. QED
    BY <2>2, <2>5, <2>6
<1>3. 0 .. n \subseteq S
  <2> HIDE DEF S
  <2>1. QED
    BY <1>1, <1>2, UpTo
<1>4. n \in S
  <2> HIDE DEF S
  <2>1. QED
    BY <1>3
<1>5. QED
  BY <1>4

\* Two lines, or their columns, are the same from the index k to n.
Alike(f, g, k, n) == \A i \in k .. n : f[i] = g[i]

LEMMA ColumnsAgree ==
  ASSUME NEW l1, NEW l2, NEW n \in Nat, NEW m \in Nat, NEW g, NEW h, n <= m,
         IsColumns(g, l1, n), IsColumns(h, l2, m), Alike(l1, l2, 1, n)
  PROVE  Alike(g, h, 0, n)
<1> USE DEF Alike
<1> DEFINE S == {i \in 0 .. n : g[i] = h[i]}
<1>1. /\ \A i \in 0 .. n : g[i] = IF i = 0 THEN 0 ELSE NextColumn(g[i - 1], l1[i])
      /\ \A i \in 0 .. m : h[i] = IF i = 0 THEN 0 ELSE NextColumn(h[i - 1], l2[i])
  BY DEF IsColumns
<1>2. 0 \in S
  BY <1>1
<1>3. ASSUME NEW k \in 0 .. n - 1, k \in S PROVE k + 1 \in S
  <2>1. k + 1 \in 0 .. n /\ k + 1 \in 0 .. m /\ k + 1 \in 1 .. n /\ k + 1 # 0 /\ (k + 1) - 1 = k
    BY <1>3
  <2>2. g[k + 1] = NextColumn(g[k], l1[k + 1]) /\ h[k + 1] = NextColumn(h[k], l2[k + 1])
    BY <1>1, <2>1
  <2>3. QED
    BY <1>3, <2>1, <2>2
<1>4. 0 .. n \subseteq S
  <2> HIDE DEF S
  <2>1. QED
    BY <1>2, <1>3, UpTo
<1>5. QED
  BY <1>4

LEMMA ColumnDef ==
  ASSUME NEW line, NEW n \in Nat
  PROVE  \E g : IsColumns(g, line, n) /\ g \in [0 .. n -> Nat] /\ GetCharacterColumn(line, n) = g[n]
<1> DEFINE c == CHOOSE g : IsColumns(g, line, n)
<1>1. PICK g \in [0 .. n -> Nat] : IsColumns(g, line, n)
  BY ColumnsExist
<1>2. IsColumns(c, line, n)
  BY <1>1
<1>3. GetCharacterColumn(line, n) = c[n]
  BY DEF GetCharacterColumn, IsColumns
<1> HIDE DEF c
<1>4. Alike(c, g, 0, n)
  <2>1. n <= n /\ Alike(line, line, 1, n)
    BY DEF Alike
  <2>2. QED
    BY <1>1, <1>2, <2>1, ColumnsAgree, Zenon
<1>5. QED
  BY <1>1, <1>3, <1>4 DEF Alike

\* What a column is, for all indices and lines that begin alike.
LEMMA ColumnFacts ==
  ASSUME NEW line, NEW n \in Nat
  PROVE  /\ GetCharacterColumn(line, n) \in Nat
         /\ GetCharacterColumn(line, 0) = 0
         /\ GetCharacterColumn(line, n + 1) = NextColumn(GetCharacterColumn(line, n), line[n + 1])
         /\ \A other : Alike(other, line, 1, n) =>
               GetCharacterColumn(other, n) = GetCharacterColumn(line, n)
<1>1. PICK g \in [0 .. n -> Nat] : IsColumns(g, line, n) /\ GetCharacterColumn(line, n) = g[n]
  BY ColumnDef
<1>2. GetCharacterColumn(line, n) \in Nat
  BY <1>1
<1>3. GetCharacterColumn(line, 0) = 0
  <2>1. PICK h \in [0 .. 0 -> Nat] : IsColumns(h, line, 0) /\ GetCharacterColumn(line, 0) = h[0]
    BY ColumnDef
  <2>2. QED
    BY <2>1 DEF IsColumns
<1>4. GetCharacterColumn(line, n + 1) = NextColumn(GetCharacterColumn(line, n), line[n + 1])
  <2>1. n + 1 \in Nat
    OBVIOUS
  <2>2. PICK h \in [0 .. n + 1 -> Nat] :
           IsColumns(h, line, n + 1) /\ GetCharacterColumn(line, n + 1) = h[n + 1]
    BY <2>1, ColumnDef
  <2>3. Alike(g, h, 0, n)
    <3>1. n <= n + 1 /\ Alike(line, line, 1, n)
      BY DEF Alike
    <3>2. IsColumns(g, line, n) /\ IsColumns(h, line, n + 1)
      BY <1>1, <2>2
    <3>3. QED
      BY <2>1, <3>1, <3>2, ColumnsAgree, Zenon
  <2>4. h[n + 1] = NextColumn(h[n], line[n + 1])
    BY <2>2 DEF IsColumns
  <2>5. QED
    BY <1>1, <2>2, <2>3, <2>4 DEF Alike
<1>5. ASSUME NEW other, Alike(other, line, 1, n)
      PROVE  GetCharacterColumn(other, n) = GetCharacterColumn(line, n)
  <2>1. PICK h \in [0 .. n -> Nat] : IsColumns(h, other, n) /\ GetCharacterColumn(other, n) = h[n]
    BY ColumnDef
  <2>2. Alike(h, g, 0, n)
    <3>1. n <= n
      OBVIOUS
    <3>2. IsColumns(g, line, n) /\ IsColumns(h, other, n)
      BY <1>1, <2>1
    <3>3. QED
      BY <1>5, <3>1, <3>2, ColumnsAgree, Zenon
  <2>3. QED
    BY <1>1, <2>1, <2>2 DEF Alike
<1>6. QED
  BY <1>2, <1>3, <1>4, <1>5, Zenon

LEMMA ColumnType ==
  ASSUME NEW line, Len(line) \in Nat
  PROVE  /\ \A i \in 0 .. Len(line) : GetCharacterColumn(line, i) \in Nat
         /\ GetLineMaxColumn(line) = GetCharacterColumn(line, Len(line))
         /\ GetLineMaxColumn(line) \in Nat
<1>1. ASSUME NEW i \in 0 .. Len(line) PROVE GetCharacterColumn(line, i) \in Nat
  BY ColumnFacts
<1>2. Len(line) \in 0 .. Len(line)
  OBVIOUS
<1>3. QED
  BY <1>1, <1>2 DEF GetLineMaxColumn

\* Columns grow with the index.
LEMMA ColumnsGrow ==
  ASSUME NEW line, NEW m \in Nat, NEW n \in 0 .. m - 1
  PROVE  GetCharacterColumn(line, n) < GetCharacterColumn(line, m)
<1> DEFINE S == {k \in 0 .. m : \A i \in 0 .. k - 1 : GetCharacterColumn(line, i) < GetCharacterColumn(line, k)}
<1>1. 0 \in S
  OBVIOUS
<1>2. ASSUME NEW k \in 0 .. m - 1, k \in S PROVE k + 1 \in S
  <2>1. GetCharacterColumn(line, k) < GetCharacterColumn(line, k + 1)
    BY ColumnFacts, Further
  <2>2. \A i \in 0 .. m : GetCharacterColumn(line, i) \in Nat
    BY ColumnFacts
  <2>3. k + 1 \in 0 .. m /\ k \in 0 .. m
    BY <1>2
  <2>4. ASSUME NEW i \in 0 .. (k + 1) - 1 PROVE GetCharacterColumn(line, i) < GetCharacterColumn(line, k + 1)
    <3>1. i = k \/ i \in 0 .. k - 1
      BY <2>3
    <3>2. i \in 0 .. m
      BY <2>3
    <3>3. QED
      BY <1>2, <2>1, <2>2, <2>3, <3>1, <3>2
  <2>5. QED
    BY <2>3, <2>4
<1>3. m \in S
  <2> HIDE DEF S
  <2>1. QED
    BY <1>1, <1>2, UpTo
<1>4. QED
  BY <1>3

(* Characters and columns of a line.                                        *)

LEMMA TextFacts ==
  ASSUME NEW lines \in Texts, NEW l \in 0 .. Len(lines) - 1
  PROVE  Line(lines, l) \in Seq(Alphabet) /\ Len(Line(lines, l)) \in Nat
<1>1. l + 1 \in 1 .. Len(lines) /\ lines \in Seq(Seq(Alphabet))
  BY DEF Texts, Alphabet
<1>2. lines[l + 1] \in Seq(Alphabet)
  BY <1>1, ElementOfSeq
<1>3. QED
  BY <1>2, LenProperties DEF Line

\* The index of a column is the first whose own column is not before it; there
\* is one if the column does not lie behind the end of the line.
LEMMA IndexFacts ==
  ASSUME NEW lines, NEW c \in Coordinates, NEW line, line = Line(lines, c.line),
         Len(line) \in Nat, NEW k, k = GetCharacterIndex(lines, c)
  PROVE  /\ k \in 0 .. Len(line)
         /\ \A i \in 0 .. k - 1 : GetCharacterColumn(line, i) < c.column
         /\ k < Len(line) \/ c.column <= GetLineMaxColumn(line) =>
               GetCharacterColumn(line, k) >= c.column
<1> DEFINE reached == {i \in 0 .. Len(line) : GetCharacterColumn(line, i) >= c.column}
<1>1. k = IF reached = {} THEN Len(line) ELSE CHOOSE i \in reached : \A j \in reached : i <= j
  BY DEF GetCharacterIndex
<1>2. c.column \in Nat /\ \A i \in 0 .. Len(line) : GetCharacterColumn(line, i) \in Nat
  BY ColumnType DEF Coordinates
<1>3. CASE reached = {}
  BY <1>1, <1>2, <1>3 DEF GetLineMaxColumn
<1>4. CASE reached # {}
  <2>1. reached \in SUBSET Nat
    OBVIOUS
  <2> HIDE DEF reached
  <2>2. \E i \in reached : \A j \in reached : i <= j
    BY <1>4, <2>1, LeastNumber
  <2>3. k \in reached /\ \A j \in reached : k <= j
    BY <1>1, <1>4, <2>2
  <2>4. \A i \in 0 .. k - 1 : i \in 0 .. Len(line) /\ i \notin reached
    BY <2>3 DEF reached
  <2>5. QED
    BY <1>2, <2>3, <2>4 DEF reached
<1>5. QED
  BY <1>3, <1>4

\* How an index is recognised.
LEMMA IndexIs ==
  ASSUME NEW lines, NEW c \in Coordinates, NEW line, line = Line(lines, c.line),
         Len(line) \in Nat, NEW k \in 0 .. Len(line),
         GetCharacterColumn(line, k) >= c.column,
         \A i \in 0 .. k - 1 : GetCharacterColumn(line, i) < c.column
  PROVE  GetCharacterIndex(lines, c) = k
<1>1. PICK j : j = GetCharacterIndex(lines, c)
  OBVIOUS
<1>2. c.column \in Nat /\ \A i \in 0 .. Len(line) : GetCharacterColumn(line, i) \in Nat
  BY ColumnType DEF Coordinates
<1>3. /\ j \in 0 .. Len(line)
      /\ \A i \in 0 .. j - 1 : GetCharacterColumn(line, i) < c.column
      /\ j < Len(line) \/ c.column <= GetLineMaxColumn(line) =>
            GetCharacterColumn(line, j) >= c.column
  BY <1>1, IndexFacts
<1>4. ~(j < k)
  BY <1>2, <1>3
<1>5. ~(k < j)
  BY <1>2, <1>3
<1>6. QED
  BY <1>1, <1>3, <1>4, <1>5

\* The column of an index has this index.
LEMMA ColumnIndex ==
  ASSUME NEW lines, NEW c \in Coordinates, NEW line, line = Line(lines, c.line),
         Len(line) \in Nat, NEW k \in 0 .. Len(line), c.column = GetCharacterColumn(line, k)
  PROVE  GetCharacterIndex(lines, c) = k
<1>1. \A i \in 0 .. k - 1 : GetCharacterColumn(line, i) < c.column
  BY ColumnsGrow
<1>2. c.column \in Nat
  BY DEF Coordinates
<1>3. QED
  BY <1>1, <1>2, IndexIs

\* A coordinate keeps its index when what is behind it in its line changes, and
\* what is before its line.
LEMMA IndexKept ==
  ASSUME NEW lines, NEW c \in Coordinates, NEW others, NEW d \in Coordinates,
         Len(Line(lines, c.line)) \in Nat, Len(Line(others, d.line)) \in Nat,
         c.column <= GetLineMaxColumn(Line(lines, c.line)), d.column = c.column,
         GetCharacterIndex(lines, c) <= Len(Line(others, d.line)),
         Alike(Line(others, d.line), Line(lines, c.line), 1, GetCharacterIndex(lines, c))
  PROVE  /\ GetCharacterIndex(others, d) = GetCharacterIndex(lines, c)
         /\ d.column <= GetLineMaxColumn(Line(others, d.line))
<1>0. PICK line, other, k :
        line = Line(lines, c.line) /\ other = Line(others, d.line) /\ k = GetCharacterIndex(lines, c)
  OBVIOUS
<1>1. /\ k \in 0 .. Len(line) /\ GetCharacterColumn(line, k) >= c.column
      /\ \A i \in 0 .. k - 1 : GetCharacterColumn(line, i) < c.column
  BY <1>0, IndexFacts
<1>2. \A i \in 0 .. k : GetCharacterColumn(other, i) = GetCharacterColumn(line, i)
  <2> TAKE i \in 0 .. k
  <2>1. i \in Nat /\ Alike(other, line, 1, i)
    BY <1>0, <1>1 DEF Alike
  <2>2. QED
    BY <2>1, ColumnFacts
<1>3. k \in 0 .. Len(other)
  BY <1>0, <1>1
<1>30. d.column = c.column
  OBVIOUS
<1>4. GetCharacterIndex(others, d) = k
  BY <1>0, <1>1, <1>2, <1>3, <1>30, IndexIs
<1>5. GetCharacterColumn(other, k) <= GetLineMaxColumn(other)
  <2>1. GetCharacterColumn(other, k) \in Nat
    BY <1>3, ColumnFacts
  <2>2. CASE k = Len(other)
    BY <2>1, <2>2 DEF GetLineMaxColumn
  <2>3. CASE k \in 0 .. Len(other) - 1
    <3>1. GetCharacterColumn(other, k) < GetCharacterColumn(other, Len(other))
      BY <1>0, <2>3, ColumnsGrow
    <3>2. GetCharacterColumn(other, Len(other)) \in Nat
      BY <1>0, ColumnFacts
    <3>3. QED
      BY <2>1, <3>1, <3>2 DEF GetLineMaxColumn
  <2>4. QED
    BY <1>3, <2>2, <2>3
<1>6. QED
  <2>1. GetCharacterColumn(other, k) \in Nat /\ GetLineMaxColumn(other) \in Nat /\ c.column \in Nat
    BY <1>0, <1>3, ColumnType DEF Coordinates
  <2>2. GetCharacterColumn(other, k) >= c.column
    BY <1>1, <1>2
  <2>3. QED
    BY <1>0, <1>4, <1>5, <1>30, <2>1, <2>2


(* Sequences with a part replaced.                                          *)

\* The items of s behind p and up to q give way to t.
Splice(s, p, t, q) == SubSeq(s, 1, p) \o t \o SubSeq(s, q + 1, Len(s))

Spliced(S, u, s, p, t, q) ==
  /\ u \in Seq(S) /\ Len(u) = p + Len(t) + (Len(s) - q)
  /\ \A i \in 1 .. p : u[i] = s[i]
  /\ \A i \in 1 .. Len(t) : u[p + i] = t[i]
  /\ \A i \in 1 .. Len(s) - q : u[p + Len(t) + i] = s[q + i]

LEMMA PartFacts ==
  ASSUME NEW S, NEW s \in Seq(S), NEW p \in Nat, NEW q \in 0 .. Len(s), p <= q + 1
  PROVE  /\ SubSeq(s, p + 1, q) \in Seq(S)
         /\ Len(SubSeq(s, p + 1, q)) = IF p < q THEN q - p ELSE 0
         /\ \A i \in 1 .. q - p : SubSeq(s, p + 1, q)[i] = s[p + i]
<1>1. Len(s) \in Nat /\ \A i \in 1 .. Len(s) : s[i] \in S
  BY ElementOfSeq, LenProperties
<1>2. p + 1 \in Int /\ q \in Int /\ \A i \in p + 1 .. q : s[i] \in S
  BY <1>1
<1>3. /\ SubSeq(s, p + 1, q) \in Seq(S)
      /\ Len(SubSeq(s, p + 1, q)) = IF p + 1 <= q THEN q - (p + 1) + 1 ELSE 0
      /\ \A i \in 1 .. q - (p + 1) + 1 : SubSeq(s, p + 1, q)[i] = s[(p + 1) + i - 1]
  BY <1>2, SubSeqProperties
<1>4. \A i \in 1 .. q - p : i \in 1 .. q - (p + 1) + 1 /\ (p + 1) + i - 1 = p + i
  BY <1>2
<1>5. \A i \in 1 .. q - p : SubSeq(s, p + 1, q)[i] = s[p + i]
  BY <1>3, <1>4
<1>6. (IF p + 1 <= q THEN q - (p + 1) + 1 ELSE 0) = (IF p < q THEN q - p ELSE 0)
  BY <1>2
<1>7. QED
  BY <1>3, <1>5, <1>6

LEMMA SpliceFacts ==
  ASSUME NEW S, NEW s \in Seq(S), NEW t \in Seq(S), NEW p \in 0 .. Len(s), NEW q \in 0 .. Len(s)
  PROVE  Spliced(S, Splice(s, p, t, q), s, p, t, q)
<1> DEFINE u == SubSeq(s, 1, p)
           v == SubSeq(s, q + 1, Len(s))
<1>1. Len(s) \in Nat /\ Len(t) \in Nat /\ p \in Nat /\ q \in Nat
  BY LenProperties
<1>2. u \in Seq(S) /\ Len(u) = p /\ \A i \in 1 .. p : u[i] = s[i]
  <2>1. 0 \in Nat /\ 0 <= p + 1 /\ 0 + 1 = 1 /\ p - 0 = p /\ (IF 0 < p THEN p - 0 ELSE 0) = p
        /\ \A i \in 1 .. p : 0 + i = i
    BY <1>1
  <2>2. /\ SubSeq(s, 0 + 1, p) \in Seq(S)
        /\ Len(SubSeq(s, 0 + 1, p)) = IF 0 < p THEN p - 0 ELSE 0
        /\ \A i \in 1 .. p - 0 : SubSeq(s, 0 + 1, p)[i] = s[0 + i]
    BY <2>1, PartFacts
  <2>3. QED
    BY <2>1, <2>2
<1>3. v \in Seq(S) /\ Len(v) = Len(s) - q /\ \A i \in 1 .. Len(s) - q : v[i] = s[q + i]
  <2>1. Len(s) \in 0 .. Len(s) /\ q <= Len(s) + 1
        /\ (IF q < Len(s) THEN Len(s) - q ELSE 0) = Len(s) - q
    BY <1>1
  <2>2. QED
    BY <1>1, <2>1, PartFacts
<1> HIDE DEF u, v
<1>4. /\ u \o t \in Seq(S) /\ Len(u \o t) = p + Len(t)
      /\ \A i \in 1 .. p + Len(t) : (u \o t)[i] = IF i <= p THEN s[i] ELSE t[i - p]
  <2>1. /\ u \o t \in Seq(S) /\ Len(u \o t) = Len(u) + Len(t)
        /\ \A i \in 1 .. Len(u) + Len(t) : (u \o t)[i] = IF i <= Len(u) THEN u[i] ELSE t[i - Len(u)]
    BY <1>2, ConcatProperties
  <2>2. QED
    BY <1>1, <1>2, <2>1
<1> DEFINE w == u \o t
<1> HIDE DEF w
<1>5. /\ w \o v \in Seq(S) /\ Len(w \o v) = Len(w) + Len(v)
      /\ \A i \in 1 .. Len(w) + Len(v) : (w \o v)[i] = IF i <= Len(w) THEN w[i] ELSE v[i - Len(w)]
  BY <1>3, <1>4, ConcatProperties DEF w
<1>6. w = u \o t /\ Splice(s, p, t, q) = w \o v
  BY DEF Splice, w, u, v
<1>7. Len(w) = p + Len(t) /\ \A i \in 1 .. p + Len(t) : w[i] = IF i <= p THEN s[i] ELSE t[i - p]
  BY <1>4, <1>6
<1>8. Len(Splice(s, p, t, q)) = p + Len(t) + (Len(s) - q)
  BY <1>3, <1>5, <1>6, <1>7
<1>9. ASSUME NEW i \in 1 .. p PROVE Splice(s, p, t, q)[i] = s[i]
  <2>1. i \in 1 .. Len(w) + Len(v) /\ i <= Len(w) /\ i \in 1 .. p + Len(t) /\ i <= p
    BY <1>1, <1>3, <1>7, <1>9
  <2>2. QED
    BY <1>5, <1>6, <1>7, <2>1
<1>10. ASSUME NEW i \in 1 .. Len(t) PROVE Splice(s, p, t, q)[p + i] = t[i]
  <2>1. /\ p + i \in 1 .. Len(w) + Len(v) /\ p + i <= Len(w) /\ p + i \in 1 .. p + Len(t)
        /\ ~(p + i <= p) /\ (p + i) - p = i
    BY <1>1, <1>3, <1>7, <1>10
  <2>2. QED
    BY <1>5, <1>6, <1>7, <2>1
<1>11. ASSUME NEW i \in 1 .. Len(s) - q PROVE Splice(s, p, t, q)[p + Len(t) + i] = s[q + i]
  <2>1. /\ p + Len(t) + i \in 1 .. Len(w) + Len(v) /\ ~(p + Len(t) + i <= Len(w))
        /\ (p + Len(t) + i) - Len(w) = i
    BY <1>1, <1>3, <1>7, <1>11
  <2>2. QED
    BY <1>3, <1>5, <1>6, <2>1
<1>12. QED
  BY <1>5, <1>6, <1>8, <1>9, <1>10, <1>11 DEF Spliced

\* What was replaced can be put back.
PartIs(back, s, p, q) == Len(back) = q - p /\ \A i \in 1 .. q - p : back[i] = s[p + i]

LEMMA SpliceBack ==
  ASSUME NEW S, NEW s \in Seq(S), NEW t \in Seq(S), NEW p \in 0 .. Len(s), NEW q \in p .. Len(s),
         NEW back \in Seq(S), PartIs(back, s, p, q)
  PROVE  Splice(Splice(s, p, t, q), p, back, p + Len(t)) = s
<1> USE DEF PartIs
<1> DEFINE u == Splice(s, p, t, q)
           r == p + Len(t)
<1>1. Len(s) \in Nat /\ Len(t) \in Nat /\ p \in Nat /\ q \in Nat /\ q \in 0 .. Len(s)
  BY LenProperties
<1>2. /\ u \in Seq(S) /\ Len(u) = p + Len(t) + (Len(s) - q)
      /\ \A i \in 1 .. p : u[i] = s[i]
      /\ \A i \in 1 .. Len(s) - q : u[p + Len(t) + i] = s[q + i]
  <2>1. Spliced(S, u, s, p, t, q)
    BY <1>1, SpliceFacts
  <2> HIDE DEF u
  <2>2. QED
    BY <2>1 DEF Spliced
<1> HIDE DEF u
<1>3. p \in 0 .. Len(u) /\ r \in 0 .. Len(u) /\ Len(u) - r = Len(s) - q
  BY <1>1, <1>2
<1> HIDE DEF r
<1> DEFINE v == Splice(u, p, back, r)
<1>4. /\ v \in Seq(S) /\ Len(v) = p + Len(back) + (Len(u) - r)
      /\ \A i \in 1 .. p : v[i] = u[i]
      /\ \A i \in 1 .. Len(back) : v[p + i] = back[i]
      /\ \A i \in 1 .. Len(u) - r : v[p + Len(back) + i] = u[r + i]
  <2>1. Spliced(S, v, u, p, back, r)
    BY <1>2, <1>3, SpliceFacts
  <2> HIDE DEF v
  <2>2. QED
    BY <2>1 DEF Spliced
<1> HIDE DEF v
<1>5. Len(v) = Len(s)
  BY <1>1, <1>3, <1>4
<1>6. ASSUME NEW i \in 1 .. Len(v) PROVE v[i] = s[i]
  <2>1. CASE i <= p
    <3>1. i \in 1 .. p
      BY <1>1, <1>5, <2>1
    <3>2. QED
      BY <1>2, <1>4, <3>1
  <2>2. CASE i > p /\ i <= q
    <3>1. PICK j \in 1 .. q - p : p + j = i
      <4>1. i - p \in 1 .. q - p /\ p + (i - p) = i
        BY <1>1, <1>5, <2>2
      <4>2. QED
        BY <4>1
    <3>2. Len(back) = q - p /\ back[j] = s[p + j]
      OBVIOUS
    <3>3. v[p + j] = back[j]
      BY <1>4, <3>2
    <3>4. QED
      BY <3>1, <3>2, <3>3
  <2>3. CASE i > q
    <3>1. PICK j \in 1 .. Len(s) - q : q + j = i
      <4>1. i - q \in 1 .. Len(s) - q /\ q + (i - q) = i
        BY <1>1, <1>5, <2>3
      <4>2. QED
        BY <4>1
    <3>2. j \in 1 .. Len(u) - r /\ p + Len(back) + j = i /\ p + Len(t) + j = r + j
      BY <1>1, <1>3, <3>1 DEF r
    <3>3. v[p + Len(back) + j] = u[r + j] /\ u[p + Len(t) + j] = s[q + j]
      BY <1>2, <1>4, <3>1, <3>2
    <3>4. QED
      BY <3>1, <3>2, <3>3
  <2>4. QED
    BY <1>1, <1>5, <2>1, <2>2, <2>3
<1>7. v = s
  BY <1>4, <1>5, <1>6, SeqEqual
<1>8. QED
  BY <1>7 DEF v, u, r

(* Texts cut at a coordinate.                                               *)

\* The line of a coordinate, its index, and the parts before and behind it.
PlaceIs(lines, c, line, k) ==
  /\ line = Line(lines, c.line) /\ line \in Seq(Alphabet) /\ Len(line) \in Nat
  /\ k = GetCharacterIndex(lines, c) /\ k \in 0 .. Len(line)
  /\ Prefix(lines, c) \in Seq(Alphabet) /\ Len(Prefix(lines, c)) = k
  /\ Alike(Prefix(lines, c), line, 1, k)
  /\ Suffix(lines, c) \in Seq(Alphabet) /\ Len(Suffix(lines, c)) = Len(line) - k
  /\ \A i \in 1 .. Len(line) - k : Suffix(lines, c)[i] = line[k + i]
  /\ Prefix(lines, c) \o Suffix(lines, c) = line

LEMMA Places ==
  ASSUME NEW lines \in Texts, NEW c \in Coordinates, c.line < Len(lines)
  PROVE  \E line, k : PlaceIs(lines, c, line, k)
<1> DEFINE line == Line(lines, c.line)
           k == GetCharacterIndex(lines, c)
           p == Prefix(lines, c)
           q == Suffix(lines, c)
<1>1. c.line \in 0 .. Len(lines) - 1
  <2>1. Len(lines) \in Nat /\ c.line \in Nat
    BY LenProperties DEF Texts, Coordinates
  <2>2. QED
    BY <2>1
<1>2. line \in Seq(Alphabet) /\ Len(line) \in Nat
  BY <1>1, TextFacts
<1>3. p = SubSeq(line, 1, k) /\ q = SubSeq(line, k + 1, Len(line))
  BY DEF Prefix, Suffix
<1>4. k \in 0 .. Len(line)
  BY <1>2, IndexFacts
<1> HIDE DEF line, k, p, q
<1>5. p \in Seq(Alphabet) /\ Len(p) = k /\ Alike(p, line, 1, k)
  <2>1. 0 \in Nat /\ 0 <= k + 1 /\ 0 + 1 = 1 /\ k - 0 = k /\ (IF 0 < k THEN k - 0 ELSE 0) = k
        /\ \A i \in 1 .. k : 0 + i = i
    BY <1>2, <1>4
  <2>2. /\ SubSeq(line, 0 + 1, k) \in Seq(Alphabet)
        /\ Len(SubSeq(line, 0 + 1, k)) = IF 0 < k THEN k - 0 ELSE 0
        /\ \A i \in 1 .. k - 0 : SubSeq(line, 0 + 1, k)[i] = line[0 + i]
    BY <1>2, <1>4, <2>1, PartFacts
  <2>3. QED
    BY <1>3, <2>1, <2>2 DEF Alike
<1>6. q \in Seq(Alphabet) /\ Len(q) = Len(line) - k /\ \A i \in 1 .. Len(line) - k : q[i] = line[k + i]
  <2>1. k \in Nat /\ Len(line) \in 0 .. Len(line) /\ k <= Len(line) + 1
        /\ (IF k < Len(line) THEN Len(line) - k ELSE 0) = Len(line) - k
    BY <1>2, <1>4
  <2>2. QED
    BY <1>2, <1>3, <2>1, PartFacts
<1>7. p \o q = line
  <2>1. /\ p \o q \in Seq(Alphabet) /\ Len(p \o q) = Len(p) + Len(q)
        /\ \A i \in 1 .. Len(p) + Len(q) :
             (p \o q)[i] = IF i <= Len(p) THEN p[i] ELSE q[i - Len(p)]
    BY <1>5, <1>6, ConcatProperties
  <2>2. Len(p \o q) = Len(line)
    BY <1>2, <1>4, <1>5, <1>6, <2>1
  <2>3. ASSUME NEW i \in 1 .. Len(p \o q) PROVE (p \o q)[i] = line[i]
    <3>1. CASE i <= k
      <4>1. i \in 1 .. k
        BY <1>4, <3>1, <2>2, <2>3
      <4>2. QED
        BY <1>5, <2>1, <2>2, <3>1, <4>1 DEF Alike
    <3>2. CASE i > k
      <4>1. i - k \in 1 .. Len(line) - k /\ k + (i - k) = i
        BY <1>2, <1>4, <2>2, <3>2
      <4>2. QED
        BY <1>4, <1>5, <1>6, <2>1, <2>2, <3>2, <4>1
    <3>3. QED
      BY <1>4, <2>2, <3>1, <3>2
  <2>4. QED
    BY <1>2, <2>1, <2>2, <2>3, SeqEqual
<1>8. PlaceIs(lines, c, line, k)
  BY <1>2, <1>4, <1>5, <1>6, <1>7 DEF PlaceIs, line, k, p, q
<1>9. QED
  BY <1>8

\* A column further on has no smaller index.
LEMMA IndexOrder ==
  ASSUME NEW lines \in Texts, NEW a \in Coordinates, NEW b \in Coordinates,
         a.line = b.line, a.line < Len(lines), a.column <= b.column
  PROVE  GetCharacterIndex(lines, a) <= GetCharacterIndex(lines, b)
<1> DEFINE line == Line(lines, a.line)
           j == GetCharacterIndex(lines, a)
           k == GetCharacterIndex(lines, b)
<1>1. line = Line(lines, b.line) /\ Len(line) \in Nat
  <2>1. Len(lines) \in Nat /\ a.line \in Nat
    BY LenProperties DEF Texts, Coordinates
  <2>2. QED
    BY <2>1, TextFacts
<1>2. j \in 0 .. Len(line) /\ \A i \in 0 .. j - 1 : GetCharacterColumn(line, i) < a.column
  BY <1>1, IndexFacts
<1>3. k \in 0 .. Len(line) /\ (k < Len(line) => GetCharacterColumn(line, k) >= b.column)
  BY <1>1, IndexFacts
<1>4. a.column \in Nat /\ b.column \in Nat /\ GetCharacterColumn(line, k) \in Nat
  BY <1>1, <1>3, ColumnType DEF Coordinates
<1> HIDE DEF line, j, k
<1>5. ~(k < j)
  BY <1>1, <1>2, <1>3, <1>4
<1>6. QED
  BY <1>1, <1>2, <1>3, <1>5 DEF j, k

(* Deleting a range.                                                        *)

LEMMA DeleteIs ==
  ASSUME NEW lines \in Texts, NEW a \in Coordinates, NEW b \in Coordinates,
         a.line <= b.line, b.line < Len(lines)
  PROVE  LET t == <<Prefix(lines, a) \o Suffix(lines, b)>>
         IN  /\ t \in Texts /\ Len(t) = 1
             /\ a.line \in 0 .. Len(lines) /\ b.line + 1 \in a.line .. Len(lines)
             /\ DeleteRange(lines, a, b) = Splice(lines, a.line, t, b.line + 1)
<1> DEFINE t == <<Prefix(lines, a) \o Suffix(lines, b)>>
<1>1. Len(lines) \in Nat /\ a.line \in Nat /\ b.line \in Nat
  BY LenProperties DEF Texts, Coordinates
<1>2. Prefix(lines, a) \in Seq(Alphabet) /\ Suffix(lines, b) \in Seq(Alphabet)
  <2>1. a.line < Len(lines)
    BY <1>1
  <2>2. (\E line, k : PlaceIs(lines, a, line, k)) /\ (\E line, k : PlaceIs(lines, b, line, k))
    BY <2>1, Places
  <2>3. QED
    BY <2>2 DEF PlaceIs
<1>3. Prefix(lines, a) \o Suffix(lines, b) \in Seq(Alphabet)
  BY <1>2, ConcatProperties
<1>4. t \in Texts /\ Len(t) = 1
  BY <1>3 DEF Texts, Alphabet
<1>5. DeleteRange(lines, a, b) = Splice(lines, a.line, t, b.line + 1)
  <2>1. (b.line + 1) + 1 = b.line + 2
    BY <1>1
  <2>2. QED
    BY <2>1 DEF DeleteRange, Splice
<1>6. QED
  BY <1>1, <1>4, <1>5

LEMMA DeleteFacts ==
  ASSUME NEW lines \in Texts, NEW a \in Coordinates, NEW b \in Coordinates,
         a.line <= b.line, b.line < Len(lines)
  PROVE  /\ DeleteRange(lines, a, b) \in Texts
         /\ Len(DeleteRange(lines, a, b)) = Len(lines) - (b.line - a.line)
         /\ Line(DeleteRange(lines, a, b), a.line) = Prefix(lines, a) \o Suffix(lines, b)
         /\ \A i \in 1 .. a.line : DeleteRange(lines, a, b)[i] = lines[i]
         /\ \A i \in 1 .. Len(lines) - (b.line + 1) :
              DeleteRange(lines, a, b)[a.line + 1 + i] = lines[b.line + 1 + i]
<1> DEFINE t == <<Prefix(lines, a) \o Suffix(lines, b)>>
           d == DeleteRange(lines, a, b)
<1>1. /\ t \in Texts /\ Len(t) = 1
      /\ a.line \in 0 .. Len(lines) /\ b.line + 1 \in a.line .. Len(lines)
      /\ d = Splice(lines, a.line, t, b.line + 1)
  BY DeleteIs
<1>2. t[1] = Prefix(lines, a) \o Suffix(lines, b)
  OBVIOUS
<1>3. Len(lines) \in Nat /\ a.line \in Nat /\ b.line \in Nat
  BY LenProperties DEF Texts, Coordinates
<1> HIDE DEF t, d
<1>4. Spliced(Seq(Alphabet), d, lines, a.line, t, b.line + 1)
  <2>1. lines \in Seq(Seq(Alphabet)) /\ t \in Seq(Seq(Alphabet)) /\ b.line + 1 \in 0 .. Len(lines)
    BY <1>1, <1>3 DEF Texts, Alphabet
  <2>2. Spliced(Seq(Alphabet), Splice(lines, a.line, t, b.line + 1), lines, a.line, t, b.line + 1)
    BY <1>1, <2>1, SpliceFacts
  <2>3. QED
    BY <1>1, <2>2
<1>5. /\ d \in Texts /\ Len(d) = a.line + Len(t) + (Len(lines) - (b.line + 1))
      /\ \A i \in 1 .. a.line : d[i] = lines[i]
      /\ \A i \in 1 .. Len(t) : d[a.line + i] = t[i]
      /\ \A i \in 1 .. Len(lines) - (b.line + 1) : d[a.line + Len(t) + i] = lines[b.line + 1 + i]
  BY <1>4 DEF Spliced, Texts, Alphabet
<1>6. Len(d) = Len(lines) - (b.line - a.line)
  <2>1. a.line + 1 + (Len(lines) - (b.line + 1)) = Len(lines) - (b.line - a.line)
    BY <1>3
  <2>2. Len(d) = a.line + 1 + (Len(lines) - (b.line + 1))
    BY <1>1, <1>5
  <2>3. QED
    BY <2>1, <2>2
<1>7. d[a.line + 1] = Prefix(lines, a) \o Suffix(lines, b)
  <2>1. 1 \in 1 .. Len(t)
    BY <1>1
  <2>2. QED
    BY <1>2, <1>5, <2>1
<1>8. \A i \in 1 .. Len(lines) - (b.line + 1) : d[a.line + 1 + i] = lines[b.line + 1 + i]
  BY <1>1, <1>5
<1>9. QED
  BY <1>5, <1>6, <1>7, <1>8, Zenon DEF d, Line

(* Inserting a text.                                                        *)

\* The lines that InsertTextAt makes of the line of c.
Joined(lines, c, text) ==
  [<< Prefix(lines, c) \o text[1] >> \o Tail(text) EXCEPT ![Len(text)] = @ \o Suffix(lines, c)]
JoinedIs(u, p, text, q, n) ==
  /\ n \in Nat /\ n >= 1 /\ Len(text) = n /\ u \in Texts /\ Len(u) = n
  /\ n = 1 => u[1] = (p \o text[1]) \o q
  /\ n > 1 => u[1] = p \o text[1] /\ u[n] = text[n] \o q
  /\ \A i \in 2 .. n - 1 : u[i] = text[i]

LEMMA JoinedFacts ==
  ASSUME NEW lines \in Texts, NEW c \in Coordinates, c.line < Len(lines),
         NEW text \in Texts, text # <<>>
  PROVE  JoinedIs(Joined(lines, c, text), Prefix(lines, c), text, Suffix(lines, c), Len(text))
<1> DEFINE n == Len(text)
           p == Prefix(lines, c)
           q == Suffix(lines, c)
           L == Seq(Alphabet)
           h == << p \o text[1] >>
           s == h \o Tail(text)
<1>1. p \in L /\ q \in L
  <2>1. \E line, k : PlaceIs(lines, c, line, k)
    BY Places
  <2>2. QED
    BY <2>1 DEF PlaceIs
<1>2. text \in Seq(L) /\ n \in Nat /\ n >= 1
  <2>1. text \in Seq(L)
    BY DEF Texts, Alphabet
  <2> HIDE DEF L
  <2>2. n \in Nat \ {0}
    BY <2>1, EmptySeq
  <2>3. QED
    BY <2>1, <2>2
<1> HIDE DEF n, p, q
<1>3. text[1] \in L /\ text[n] \in L
  <2>1. 1 \in 1 .. Len(text) /\ n \in 1 .. Len(text)
    BY <1>2 DEF n
  <2> HIDE DEF L
  <2>2. QED
    BY <1>2, <2>1, ElementOfSeq
<1>4. p \o text[1] \in L
  BY <1>1, <1>3, ConcatProperties
<1> HIDE DEF L
<1>5. h \in Seq(L) /\ Len(h) = 1 /\ h[1] = p \o text[1]
  BY <1>4
<1> HIDE DEF h
<1>6. Tail(text) \in Seq(L) /\ Len(Tail(text)) = n - 1 /\ \A i \in 1 .. n - 1 : Tail(text)[i] = text[i + 1]
  BY <1>2, HeadTailProperties DEF n
<1>7. /\ s \in Seq(L) /\ Len(s) = Len(h) + Len(Tail(text))
      /\ \A i \in 1 .. Len(h) + Len(Tail(text)) :
           s[i] = IF i <= Len(h) THEN h[i] ELSE Tail(text)[i - Len(h)]
  <2>1. h \in Seq(L) /\ Tail(text) \in Seq(L)
    BY <1>5, <1>6
  <2>2. QED
    BY <2>1, ConcatProperties
<1>8. Len(s) = n /\ s[1] = p \o text[1] /\ \A i \in 2 .. n : s[i] = text[i]
  <2>1. Len(h) + Len(Tail(text)) = n /\ 1 \in 1 .. n /\ 1 <= Len(h)
    BY <1>2, <1>5, <1>6
  <2>2. ASSUME NEW i \in 2 .. n PROVE s[i] = text[i]
    <3>1. i \in 1 .. n /\ ~(i <= Len(h)) /\ i - Len(h) \in 1 .. n - 1 /\ (i - Len(h)) + 1 = i
      BY <1>2, <1>5, <2>2
    <3>2. s[i] = Tail(text)[i - Len(h)] /\ Tail(text)[i - Len(h)] = text[(i - Len(h)) + 1]
      BY <1>6, <1>7, <2>1, <3>1
    <3>3. QED
      BY <3>1, <3>2
  <2> HIDE DEF s
  <2>3. QED
    BY <1>5, <1>7, <2>1, <2>2
<1> HIDE DEF s
<1>9. n \in 1 .. Len(s) /\ s[n] \in L
  <2>1. n \in 1 .. Len(s)
    BY <1>2, <1>8
  <2>2. QED
    BY <1>7, <2>1, ElementOfSeq
<1> DEFINE u == [s EXCEPT ![n] = s[n] \o q]
<1>10. s[n] \o q \in L
  BY <1>1, <1>9, ConcatProperties DEF L
<1>11. u \in Seq(L) /\ Len(u) = Len(s) /\ \A j \in 1 .. Len(s) : u[j] = IF j = n THEN s[n] \o q ELSE s[j]
  BY <1>7, <1>9, <1>10, ExceptSeq
<1>12. u = Joined(lines, c, text)
  BY DEF Joined, n, p, q, s, h
<1> HIDE DEF u
<1>13. n = 1 => u[1] = (p \o text[1]) \o q
  BY <1>8, <1>9, <1>11
<1>14. ASSUME n > 1 PROVE u[1] = p \o text[1] /\ u[n] = text[n] \o q
  <2>1. 1 # n /\ 1 \in 1 .. Len(s) /\ n \in 2 .. n
    BY <1>2, <1>8, <1>14
  <2>2. QED
    BY <1>8, <1>9, <1>11, <2>1
<1>15. ASSUME NEW i \in 2 .. n - 1 PROVE u[i] = text[i]
  <2>1. i # n /\ i \in 1 .. Len(s) /\ i \in 2 .. n
    BY <1>2, <1>8, <1>15
  <2>2. QED
    BY <1>8, <1>11, <2>1
<1>16. u \in Texts /\ Len(u) = n
  BY <1>8, <1>11 DEF L, Texts, Alphabet
<1>17. JoinedIs(u, p, text, q, n)
  BY <1>2, <1>13, <1>14, <1>15, <1>16 DEF JoinedIs, n
<1>18. QED
  BY <1>12, <1>17 DEF n, p, q

LEMMA InsertIs ==
  ASSUME NEW lines \in Texts, NEW c \in Coordinates, c.line < Len(lines)
  PROVE  /\ c.line \in 0 .. Len(lines) /\ c.line + 1 \in c.line .. Len(lines)
         /\ \A text : InsertTextAt(lines, c, text) =
              Splice(lines, c.line, Joined(lines, c, text), c.line + 1)
<1>1. Len(lines) \in Nat /\ c.line \in Nat
  BY LenProperties DEF Texts, Coordinates
<1>2. ASSUME NEW text
      PROVE  InsertTextAt(lines, c, text) =
              Splice(lines, c.line, Joined(lines, c, text), c.line + 1)
  <2>1. (c.line + 1) + 1 = c.line + 2
    BY <1>1
  <2>2. QED
    BY <2>1 DEF InsertTextAt, Splice, Joined
<1>3. QED
  BY <1>1, <1>2

\* The lines before and behind the insertion stay, those between are joined.
InsertedIs(u, lines, c, text, joined) ==
  /\ u \in Texts /\ Len(u) = Len(lines) + Len(text) - 1
  /\ \A i \in 1 .. c.line : u[i] = lines[i]
  /\ \A i \in 1 .. Len(text) : u[c.line + i] = joined[i]
  /\ \A i \in 1 .. Len(lines) - (c.line + 1) : u[c.line + Len(text) + i] = lines[c.line + 1 + i]

LEMMA InsertFacts ==
  ASSUME NEW lines \in Texts, NEW c \in Coordinates, c.line < Len(lines),
         NEW text \in Texts, text # <<>>
  PROVE  InsertedIs(InsertTextAt(lines, c, text), lines, c, text, Joined(lines, c, text))
<1> DEFINE t == Joined(lines, c, text)
           u == InsertTextAt(lines, c, text)
<1>1. Len(lines) \in Nat /\ c.line \in Nat
  BY LenProperties DEF Texts, Coordinates
<1>2. t \in Texts /\ Len(t) = Len(text) /\ Len(text) \in Nat
  BY JoinedFacts DEF JoinedIs
<1>3. c.line \in 0 .. Len(lines) /\ c.line + 1 \in c.line .. Len(lines) /\ u = Splice(lines, c.line, t, c.line + 1)
  BY InsertIs
<1> HIDE DEF t, u
<1>4. Spliced(Seq(Alphabet), u, lines, c.line, t, c.line + 1)
  <2>1. lines \in Seq(Seq(Alphabet)) /\ t \in Seq(Seq(Alphabet)) /\ c.line + 1 \in 0 .. Len(lines)
    BY <1>1, <1>2, <1>3 DEF Texts, Alphabet
  <2>2. Spliced(Seq(Alphabet), Splice(lines, c.line, t, c.line + 1), lines, c.line, t, c.line + 1)
    BY <1>3, <2>1, SpliceFacts
  <2>3. QED
    BY <1>3, <2>2
<1>5. /\ u \in Texts /\ Len(u) = c.line + Len(text) + (Len(lines) - (c.line + 1))
      /\ \A i \in 1 .. c.line : u[i] = lines[i]
      /\ \A i \in 1 .. Len(text) : u[c.line + i] = t[i]
      /\ \A i \in 1 .. Len(lines) - (c.line + 1) : u[c.line + Len(text) + i] = lines[c.line + 1 + i]
  BY <1>2, <1>4 DEF Spliced, Texts, Alphabet
<1>6. c.line + Len(text) + (Len(lines) - (c.line + 1)) = Len(lines) + Len(text) - 1
  BY <1>1, <1>2
<1>7. Len(u) = Len(lines) + Len(text) - 1
  BY <1>5, <1>6
<1>8. QED
  BY <1>5, <1>7, Zenon DEF InsertedIs, t, u

(* The text of a range.                                                     *)

GotIs(t, lines, a, b, n) ==
  /\ n \in Nat /\ n >= 1 /\ t \in Texts /\ Len(t) = n /\ n = b.line - a.line + 1
  /\ n = 1 => Prefix(lines, a) \o t[1] = Prefix(lines, b)
  /\ n > 1 => t[1] = Suffix(lines, a) /\ t[n] = Prefix(lines, b)
  /\ \A i \in 2 .. n - 1 : t[i] = lines[a.line + i]

LEMMA GetTextFacts ==
  ASSUME NEW lines \in Texts, NEW a \in Coordinates, NEW b \in Coordinates,
         ~Before(b, a), b.line < Len(lines)
  PROVE  GotIs(GetText(lines, a, b), lines, a, b, b.line - a.line + 1)
<1>1. /\ Len(lines) \in Nat /\ a.line \in Nat /\ b.line \in Nat
      /\ a.column \in Nat /\ b.column \in Nat
  BY LenProperties DEF Texts, Coordinates
<1>2. a.line <= b.line /\ a.line < Len(lines) /\ (a.line = b.line => a.column <= b.column)
  BY <1>1 DEF Before
<1>3. PICK line, j : PlaceIs(lines, a, line, j)
  BY <1>2, Places
<1>4. PICK other, k : PlaceIs(lines, b, other, k)
  BY Places
<1> DEFINE n == b.line - a.line + 1
           L == Seq(Alphabet)
           p == Prefix(lines, a)
           last == Prefix(lines, b)
           q == Suffix(lines, a)
<1>5. p \in L /\ last \in L /\ q \in L
  BY <1>3, <1>4 DEF PlaceIs
<1>6. n \in Nat /\ n >= 1
  BY <1>1, <1>2
<1>7. CASE a.line = b.line
  <2> DEFINE m == SubSeq(last, j + 1, Len(last))
  <2>1. /\ line = other /\ Len(line) \in Nat /\ j \in 0 .. Len(line) /\ k \in 0 .. Len(line)
        /\ Len(p) = j /\ Len(last) = k
        /\ \A i \in 1 .. j : p[i] = line[i]
        /\ \A i \in 1 .. k : last[i] = line[i]
        /\ j = GetCharacterIndex(lines, a) /\ k = GetCharacterIndex(lines, b)
    BY <1>3, <1>4, <1>7 DEF PlaceIs, Alike
  <2>2. j <= k
    BY <1>2, <1>7, <2>1, IndexOrder
  <2>3. GetText(lines, a, b) = <<m>>
    BY <1>7, <2>1 DEF GetText
  <2> HIDE DEF p, last
  <2>4. m \in L /\ Len(m) = k - j /\ \A i \in 1 .. k - j : m[i] = last[j + i]
    <3>1. j \in Nat /\ k \in 0 .. Len(last) /\ j <= k + 1
          /\ (IF j < k THEN k - j ELSE 0) = k - j
      BY <2>1, <2>2
    <3>2. /\ SubSeq(last, j + 1, k) \in Seq(Alphabet)
          /\ Len(SubSeq(last, j + 1, k)) = IF j < k THEN k - j ELSE 0
          /\ \A i \in 1 .. k - j : SubSeq(last, j + 1, k)[i] = last[j + i]
      BY <1>5, <3>1, PartFacts
    <3>3. QED
      BY <2>1, <3>1, <3>2
  <2> HIDE DEF m
  <2>5. p \o m = last
    <3>1. /\ p \o m \in Seq(Alphabet) /\ Len(p \o m) = Len(p) + Len(m)
          /\ \A i \in 1 .. Len(p) + Len(m) :
               (p \o m)[i] = IF i <= Len(p) THEN p[i] ELSE m[i - Len(p)]
      BY <1>5, <2>4, ConcatProperties
    <3>2. Len(p \o m) = k /\ Len(p) + Len(m) = k
      BY <2>1, <2>2, <2>4, <3>1
    <3>3. ASSUME NEW i \in 1 .. k PROVE (p \o m)[i] = last[i]
      <4>1. CASE i <= j
        <5>1. i \in 1 .. j
          BY <2>1, <4>1
        <5>2. QED
          BY <2>1, <3>1, <3>2, <4>1, <5>1
      <4>2. CASE ~(i <= j)
        <5>1. i - j \in 1 .. k - j /\ j + (i - j) = i
          BY <2>1, <4>2
        <5>2. (p \o m)[i] = m[i - j]
          BY <2>1, <3>1, <3>2, <4>2
        <5>3. m[i - j] = last[j + (i - j)]
          BY <2>4, <5>1
        <5>4. QED
          BY <5>1, <5>2, <5>3
      <4>3. QED
        BY <4>1, <4>2, Zenon
    <3>4. Len(p \o m) = Len(last) /\ \A i \in 1 .. Len(p \o m) : (p \o m)[i] = last[i]
      BY <2>1, <3>2, <3>3
    <3>5. QED
      BY <1>5, <3>1, <3>4, SeqEqual
  <2>6. <<m>> \in Texts /\ Len(<<m>>) = 1 /\ <<m>>[1] = m
    BY <2>4 DEF Texts, Alphabet
  <2>7. n = 1
    BY <1>1, <1>7
  <2>8. GotIs(<<m>>, lines, a, b, n)
    BY <2>5, <2>6, <2>7 DEF GotIs, p, last
  <2>9. QED
    BY <2>3, <2>8
<1>8. CASE a.line # b.line
  <2> DEFINE m == SubSeq(lines, (a.line + 1) + 1, b.line)
             h == <<q>>
             e == <<last>>
             t == h \o m \o e
  <2>1. GetText(lines, a, b) = t
    <3>1. (a.line + 1) + 1 = a.line + 2
      BY <1>1
    <3>2. QED
      BY <1>8, <3>1 DEF GetText
  <2> HIDE DEF p, last, q
  <2>2. m \in Seq(L) /\ Len(m) = n - 2 /\ \A i \in 1 .. n - 2 : m[i] = lines[a.line + 1 + i]
    <3>1. PICK x \in Nat, y \in Nat : x = a.line + 1 /\ y = b.line
      BY <1>1
    <3>2. /\ y \in 0 .. Len(lines) /\ x <= y + 1
          /\ (IF x < y THEN y - x ELSE 0) = n - 2 /\ y - x = n - 2
      BY <1>1, <1>2, <1>8, <3>1, SMTT(60)
    <3>3. lines \in Seq(L)
      BY DEF Texts, Alphabet
    <3> HIDE DEF L, n
    <3>4. /\ SubSeq(lines, x + 1, y) \in Seq(L)
          /\ Len(SubSeq(lines, x + 1, y)) = IF x < y THEN y - x ELSE 0
          /\ \A i \in 1 .. y - x : SubSeq(lines, x + 1, y)[i] = lines[x + i]
      BY <3>2, <3>3, PartFacts
    <3>5. m = SubSeq(lines, x + 1, y)
      BY <3>1
    <3> HIDE DEF m
    <3>6. QED
      BY <3>1, <3>2, <3>4, <3>5
  <2>3. n >= 2
    BY <1>1, <1>2, <1>8
  <2> HIDE DEF m, n, L
  <2>4. h \in Seq(L) /\ e \in Seq(L) /\ Len(h) = 1 /\ Len(e) = 1 /\ h[1] = q /\ e[1] = last
    BY <1>5
  <2> HIDE DEF h, e
  <2> DEFINE u == h \o m
  <2>5. /\ u \in Seq(L) /\ Len(u) = Len(h) + Len(m)
        /\ \A i \in 1 .. Len(h) + Len(m) : u[i] = IF i <= Len(h) THEN h[i] ELSE m[i - Len(h)]
    BY <2>2, <2>4, ConcatProperties
  <2> HIDE DEF u
  <2>6. /\ u \o e \in Seq(L) /\ Len(u \o e) = Len(u) + Len(e)
        /\ \A i \in 1 .. Len(u) + Len(e) : (u \o e)[i] = IF i <= Len(u) THEN u[i] ELSE e[i - Len(u)]
    <3>1. u \in Seq(L) /\ e \in Seq(L)
      BY <2>4, <2>5
    <3>2. QED
      BY <3>1, ConcatProperties
  <2>7. t = u \o e
    BY DEF u
  <2> HIDE DEF t
  <2>8. Len(u) = n - 1 /\ Len(t) = n
    BY <1>6, <2>2, <2>4, <2>5, <2>6, <2>7
  <2>9. t[1] = q
    <3>1. 1 \in 1 .. n /\ 1 <= Len(u) /\ 1 <= Len(h) /\ 1 \in 1 .. Len(u)
      BY <1>6, <2>3, <2>4, <2>8
    <3>2. QED
      BY <2>4, <2>5, <2>6, <2>7, <2>8, <3>1
  <2>10. t[n] = last
    <3>1. n \in 1 .. n /\ ~(n <= Len(u)) /\ n - Len(u) = 1
      BY <1>6, <2>8
    <3>2. QED
      BY <2>4, <2>6, <2>7, <2>8, <3>1
  <2>11. ASSUME NEW i \in 2 .. n - 1 PROVE t[i] = lines[a.line + i]
    <3>1. /\ i \in 1 .. n /\ i <= Len(u) /\ ~(i <= Len(h)) /\ i - Len(h) = i - 1 /\ i \in 1 .. Len(u)
          /\ i - 1 \in 1 .. n - 2 /\ a.line + 1 + (i - 1) = a.line + i
      BY <1>1, <1>6, <2>4, <2>8, <2>11
    <3>2. t[i] = u[i]
      BY <2>6, <2>7, <2>8, <3>1
    <3>3. u[i] = m[i - 1]
      BY <2>5, <3>1
    <3>4. QED
      BY <2>2, <3>1, <3>2, <3>3
  <2>12. t \in Texts
    BY <2>6, <2>7 DEF Texts, Alphabet, L
  <2>13. GotIs(t, lines, a, b, n)
    <3>1. ~(n = 1) /\ n = b.line - a.line + 1
      BY <1>6, <2>3 DEF n
    <3>2. QED
      BY <1>6, <2>8, <2>9, <2>10, <2>11, <2>12, <3>1 DEF GotIs, q, last
  <2>14. QED
    BY <2>1, <2>13 DEF n
<1>9. QED
  BY <1>7, <1>8

(* Deleting and inserting undo each other.                                  *)

\* A line whose two parts are known.
LineIs(lines, l, p, q) == Line(lines, l) = p \o q

LEMMA CutAt ==
  ASSUME NEW lines, NEW c, NEW line, NEW k, PlaceIs(lines, c, line, k),
         NEW p \in Seq(Alphabet), NEW q \in Seq(Alphabet), LineIs(lines, c.line, p, q), Len(p) = k
  PROVE  Prefix(lines, c) = p /\ Suffix(lines, c) = q
<1> DEFINE u == Prefix(lines, c)
           v == Suffix(lines, c)
<1>1. /\ Len(line) \in Nat /\ k \in 0 .. Len(line)
      /\ u \in Seq(Alphabet) /\ Len(u) = k /\ \A i \in 1 .. k : u[i] = line[i]
      /\ v \in Seq(Alphabet) /\ Len(v) = Len(line) - k
      /\ \A i \in 1 .. Len(line) - k : v[i] = line[k + i]
      /\ line = p \o q
  BY DEF PlaceIs, Alike, LineIs
<1> HIDE DEF u, v
<1>2. /\ Len(p \o q) = Len(p) + Len(q)
      /\ \A i \in 1 .. Len(p) + Len(q) : (p \o q)[i] = IF i <= Len(p) THEN p[i] ELSE q[i - Len(p)]
  BY ConcatProperties
<1>3. Len(line) = k + Len(q) /\ k \in Nat /\ Len(q) \in Nat
  BY <1>1, <1>2, LenProperties
<1>4. ASSUME NEW i \in 1 .. k PROVE u[i] = p[i]
  <2>1. i \in 1 .. Len(p) + Len(q) /\ i <= Len(p)
    BY <1>3
  <2>2. QED
    BY <1>1, <1>2, <2>1
<1>5. ASSUME NEW i \in 1 .. Len(q) PROVE v[i] = q[i]
  <2>1. /\ k + i \in 1 .. Len(p) + Len(q) /\ ~(k + i <= Len(p)) /\ (k + i) - Len(p) = i
        /\ i \in 1 .. Len(line) - k
    BY <1>3
  <2>2. line[k + i] = q[i]
    BY <1>1, <1>2, <2>1
  <2>3. QED
    BY <1>1, <2>1, <2>2
<1>6. u = p
  BY <1>1, <1>4, SeqEqual
<1>7. Len(v) = Len(q)
  BY <1>1, <1>3
<1>8. v = q
  BY <1>1, <1>5, <1>7, SeqEqual
<1>9. QED
  BY <1>6, <1>8 DEF u, v

\* A coordinate cuts a line that begins the same at the same place.
LEMMA PrefixKept ==
  ASSUME NEW lines \in Texts, NEW c \in Coordinates, c.line < Len(lines),
         c.column <= GetLineMaxColumn(Line(lines, c.line)),
         NEW others \in Texts, c.line < Len(others),
         NEW q \in Seq(Alphabet), LineIs(others, c.line, Prefix(lines, c), q)
  PROVE  /\ Prefix(others, c) = Prefix(lines, c) /\ Suffix(others, c) = q
         /\ GetCharacterIndex(others, c) = GetCharacterIndex(lines, c)
         /\ c.column <= GetLineMaxColumn(Line(others, c.line))
<1> DEFINE p == Prefix(lines, c)
<1>1. PICK line, k : PlaceIs(lines, c, line, k)
  BY Places
<1>2. PICK other, j : PlaceIs(others, c, other, j)
  BY Places
<1>3. /\ p \in Seq(Alphabet) /\ Len(p) = k /\ \A i \in 1 .. k : p[i] = line[i]
      /\ line = Line(lines, c.line) /\ k = GetCharacterIndex(lines, c)
      /\ Len(line) \in Nat /\ k \in 0 .. Len(line)
  BY <1>1 DEF PlaceIs, Alike
<1>4. /\ other = Line(others, c.line) /\ j = GetCharacterIndex(others, c) /\ Len(other) \in Nat
  BY <1>2 DEF PlaceIs
<1>5. other = p \o q
  BY <1>4 DEF LineIs
<1> HIDE DEF p
<1>6. /\ Len(p \o q) = Len(p) + Len(q) /\ Len(q) \in Nat
      /\ \A i \in 1 .. Len(p) + Len(q) : (p \o q)[i] = IF i <= Len(p) THEN p[i] ELSE q[i - Len(p)]
  BY <1>3, ConcatProperties, LenProperties
<1>7. k <= Len(other)
  BY <1>3, <1>5, <1>6
<1>8. Alike(other, line, 1, k)
  <2>1. ASSUME NEW i \in 1 .. k PROVE other[i] = line[i]
    <3>1. i \in 1 .. Len(p) + Len(q) /\ i <= Len(p)
      BY <1>3, <1>6
    <3>2. QED
      BY <1>3, <1>5, <1>6, <3>1
  <2>2. QED
    BY <2>1 DEF Alike
<1>9. j = k /\ c.column <= GetLineMaxColumn(other)
  <2>1. /\ Len(Line(lines, c.line)) \in Nat /\ Len(Line(others, c.line)) \in Nat
        /\ GetCharacterIndex(lines, c) <= Len(Line(others, c.line))
        /\ Alike(Line(others, c.line), Line(lines, c.line), 1, GetCharacterIndex(lines, c))
    BY <1>3, <1>4, <1>7, <1>8
  <2>2. /\ GetCharacterIndex(others, c) = GetCharacterIndex(lines, c)
        /\ c.column <= GetLineMaxColumn(Line(others, c.line))
    BY <2>1, IndexKept
  <2>3. QED
    BY <1>3, <1>4, <2>2
<1>10. PlaceIs(others, c, other, k)
  BY <1>2, <1>9
<1>11. Prefix(others, c) = p /\ Suffix(others, c) = q
  BY <1>3, <1>10, CutAt DEF p
<1>12. QED
  BY <1>3, <1>4, <1>9, <1>11 DEF p

\* The text of a range, inserted where the range began, puts it back.
LEMMA PutBack ==
  ASSUME NEW lines \in Texts, NEW a \in Coordinates, NEW b \in Coordinates,
         ~Before(b, a), b.line < Len(lines),
         a.column <= GetLineMaxColumn(Line(lines, a.line))
  PROVE  InsertTextAt(DeleteRange(lines, a, b), a, GetText(lines, a, b)) = lines
<1> DEFINE t == <<Prefix(lines, a) \o Suffix(lines, b)>>
           d == DeleteRange(lines, a, b)
           text == GetText(lines, a, b)
           n == b.line - a.line + 1
           J == Joined(d, a, text)
<1>1. Len(lines) \in Nat /\ a.line \in Nat /\ b.line \in Nat
  BY LenProperties DEF Texts, Coordinates
<1>2. a.line <= b.line /\ a.line < Len(lines)
  BY <1>1 DEF Before
<1>3. PICK line, j : PlaceIs(lines, a, line, j)
  BY <1>2, Places
<1>4. PICK other, k : PlaceIs(lines, b, other, k)
  BY Places
<1>5. /\ t \in Texts /\ Len(t) = 1
      /\ a.line \in 0 .. Len(lines) /\ b.line + 1 \in a.line .. Len(lines)
      /\ d = Splice(lines, a.line, t, b.line + 1)
  BY <1>2, DeleteIs
<1>6. /\ d \in Texts /\ Len(d) = Len(lines) - (b.line - a.line)
      /\ Line(d, a.line) = Prefix(lines, a) \o Suffix(lines, b)
  BY <1>2, DeleteFacts
<1>7. GotIs(text, lines, a, b, n)
  BY GetTextFacts
<1> HIDE DEF t, d, text
<1>8. a.line < Len(d)
  BY <1>1, <1>2, <1>6
<1>9. Prefix(d, a) = Prefix(lines, a) /\ Suffix(d, a) = Suffix(lines, b)
  <2>1. Suffix(lines, b) \in Seq(Alphabet)
    BY <1>4 DEF PlaceIs
  <2>2. LineIs(d, a.line, Prefix(lines, a), Suffix(lines, b))
    BY <1>6 DEF LineIs
  <2>3. QED
    BY <1>2, <1>6, <1>8, <2>1, <2>2, PrefixKept
<1>10. text \in Texts /\ text # <<>> /\ Len(text) = n /\ n \in Nat /\ n >= 1
  BY <1>7 DEF GotIs
<1>11. JoinedIs(J, Prefix(lines, a), text, Suffix(lines, b), n)
  <2>1. JoinedIs(J, Prefix(d, a), text, Suffix(d, a), Len(text))
    BY <1>6, <1>8, <1>10, JoinedFacts
  <2>2. QED
    BY <1>9, <1>10, <2>1
<1>12. InsertTextAt(d, a, text) = Splice(d, a.line, J, a.line + 1)
  BY <1>6, <1>8, InsertIs
<1> HIDE DEF J
<1>13. /\ Prefix(lines, a) \o Suffix(lines, a) = lines[a.line + 1]
       /\ Prefix(lines, b) \o Suffix(lines, b) = lines[b.line + 1]
  BY <1>3, <1>4 DEF PlaceIs, Line
<1>14. \A i \in 1 .. n : J[i] = lines[a.line + i]
  <2>1. CASE n = 1
    <3>1. J[1] = (Prefix(lines, a) \o text[1]) \o Suffix(lines, b)
          /\ Prefix(lines, a) \o text[1] = Prefix(lines, b)
      BY <1>7, <1>11, <2>1, Zenon DEF GotIs, JoinedIs
    <3>2. J[1] = lines[b.line + 1]
      BY <1>13, <3>1
    <3>3. a.line + 1 = b.line + 1
      BY <1>1, <2>1
    <3>4. QED
      BY <2>1, <3>2, <3>3
  <2>2. CASE n # 1
    <3>1. n > 1
      BY <1>10, <2>2
    <3>2. J[1] = lines[a.line + 1] /\ J[n] = lines[b.line + 1] /\ \A i \in 2 .. n - 1 : J[i] = lines[a.line + i]
      BY <1>7, <1>11, <1>13, <3>1 DEF GotIs, JoinedIs
    <3>3. ASSUME NEW i \in 1 .. n PROVE J[i] = lines[a.line + i]
      <4>1. i = 1 \/ i = n \/ i \in 2 .. n - 1
        BY <1>10, <3>3
      <4>2. a.line + n = b.line + 1
        BY <1>1
      <4>3. QED
        BY <3>2, <4>1, <4>2
    <3>4. QED
      BY <3>3
  <2>3. QED
    BY <2>1, <2>2
<1>15. Splice(d, a.line, J, a.line + 1) = lines
  <2>1. /\ lines \in Seq(Seq(Alphabet)) /\ t \in Seq(Seq(Alphabet)) /\ J \in Seq(Seq(Alphabet))
    BY <1>5, <1>11 DEF JoinedIs, Texts, Alphabet
  <2>2. PICK q \in a.line .. Len(lines) : q = b.line + 1
    BY <1>5
  <2>3. PartIs(J, lines, a.line, q)
    <3>1. q - a.line = n
      BY <1>1, <2>2
    <3>2. QED
      BY <1>11, <1>14, <3>1 DEF JoinedIs, PartIs
  <2>4. a.line + 1 = a.line + Len(t) /\ d = Splice(lines, a.line, t, q)
    BY <1>5, <2>2
  <2>5. Splice(Splice(lines, a.line, t, q), a.line, J, a.line + Len(t)) = lines
    BY <1>5, <2>1, <2>3, SpliceBack
  <2>6. QED
    BY <2>4, <2>5
<1>16. QED
  BY <1>12, <1>15 DEF d, text

\* What was inserted is taken out again, by any range whose end has the index
\* behind the inserted text.
LEMMA TakeOut ==
  ASSUME NEW lines \in Texts, NEW c \in Coordinates, c.line < Len(lines),
         c.column <= GetLineMaxColumn(Line(lines, c.line)),
         NEW text \in Texts, text # <<>>, NEW e \in Coordinates,
         e.line = c.line + Len(text) - 1,
         GetCharacterIndex(InsertTextAt(lines, c, text), e)
           = Len(text[Len(text)]) + (IF Len(text) = 1 THEN GetCharacterIndex(lines, c) ELSE 0)
  PROVE  DeleteRange(InsertTextAt(lines, c, text), c, e) = lines
<1> DEFINE u == InsertTextAt(lines, c, text)
           J == Joined(lines, c, text)
           n == Len(text)
           p == Prefix(lines, c)
           q == Suffix(lines, c)
<1>1. Len(lines) \in Nat /\ c.line \in Nat
  BY LenProperties DEF Texts, Coordinates
<1>2. PICK line, j : PlaceIs(lines, c, line, j)
  BY Places
<1>3. p \in Seq(Alphabet) /\ q \in Seq(Alphabet) /\ p \o q = lines[c.line + 1]
      /\ Len(p) = j /\ j = GetCharacterIndex(lines, c) /\ j \in Nat
  BY <1>2 DEF PlaceIs, Line
<1>4. JoinedIs(J, p, text, q, n)
  BY JoinedFacts
<1>5. InsertedIs(u, lines, c, text, J)
  BY InsertFacts
<1>6. /\ n \in Nat /\ n >= 1 /\ J \in Texts /\ Len(J) = n
      /\ u \in Texts /\ Len(u) = Len(lines) + n - 1
      /\ \A i \in 1 .. n : u[c.line + i] = J[i]
  BY <1>4, <1>5 DEF JoinedIs, InsertedIs
<1>7. text[1] \in Seq(Alphabet) /\ text[n] \in Seq(Alphabet) /\ Len(text[n]) \in Nat
  <2>1. 1 \in 1 .. Len(text) /\ n \in 1 .. Len(text) /\ text \in Seq(Seq(Alphabet))
    BY <1>6 DEF Texts, Alphabet
  <2>2. text[1] \in Seq(Alphabet) /\ text[n] \in Seq(Alphabet)
    BY <2>1, ElementOfSeq
  <2>3. QED
    BY <2>2, LenProperties
<1>8. u = Splice(lines, c.line, J, c.line + 1) /\ c.line \in 0 .. Len(lines)
      /\ c.line + 1 \in c.line .. Len(lines)
  BY InsertIs
<1>9. GetCharacterIndex(u, e) = Len(text[n]) + (IF n = 1 THEN j ELSE 0)
      /\ e.line = c.line + n - 1
  BY <1>3
<1> HIDE DEF u, J, n, p, q
<1>10. /\ c.line < Len(u) /\ e.line < Len(u) /\ c.line <= e.line
       /\ e.line \in Nat /\ e.line + 1 = c.line + n
  BY <1>1, <1>6, <1>9
<1>11. Line(u, c.line) = J[1] /\ Line(u, e.line) = J[n]
  <2>1. 1 \in 1 .. n /\ n \in 1 .. n
    BY <1>6
  <2>2. QED
    BY <1>6, <1>10, <2>1 DEF Line
<1>12. Prefix(u, c) = p
  <2>1. CASE n = 1
    <3>1. J[1] = (p \o text[1]) \o q
      BY <1>4, <2>1 DEF JoinedIs
    <3>2. (p \o text[1]) \o q = p \o (text[1] \o q)
      <4>1. PICK s \in Seq(Alphabet), t \in Seq(Alphabet), v \in Seq(Alphabet) :
               s = p /\ t = text[1] /\ v = q
        BY <1>3, <1>7
      <4>2. (s \o t) \o v = s \o (t \o v)
        BY ConcatAssociative, SMTT(30)
      <4>3. QED
        BY <4>1, <4>2
    <3>3. text[1] \o q \in Seq(Alphabet)
      BY <1>3, <1>7, ConcatProperties
    <3>4. LineIs(u, c.line, Prefix(lines, c), text[1] \o q)
      BY <1>11, <3>1, <3>2 DEF LineIs, p
    <3>5. QED
      BY <1>6, <1>10, <3>3, <3>4, PrefixKept DEF p
  <2>2. CASE n # 1
    <3>1. n > 1
      BY <1>6, <2>2
    <3>2. J[1] = p \o text[1]
      BY <1>4, <3>1 DEF JoinedIs
    <3>3. LineIs(u, c.line, Prefix(lines, c), text[1])
      BY <1>11, <3>2 DEF LineIs, p
    <3>4. QED
      BY <1>6, <1>7, <1>10, <3>3, PrefixKept DEF p
  <2>3. QED
    BY <2>1, <2>2
<1>13. Suffix(u, e) = q
  <2>1. PICK other, k : PlaceIs(u, e, other, k)
    BY <1>6, <1>10, Places
  <2>2. k = GetCharacterIndex(u, e)
    BY <2>1 DEF PlaceIs
  <2>3. CASE n = 1
    <3>1. J[n] = (p \o text[n]) \o q
      BY <1>4, <2>3 DEF JoinedIs
    <3>2. p \o text[n] \in Seq(Alphabet) /\ Len(p \o text[n]) = Len(p) + Len(text[n])
      BY <1>3, <1>7, ConcatProperties
    <3>3. Len(p \o text[n]) = k
      BY <1>3, <1>7, <1>9, <2>2, <2>3, <3>2
    <3>4. LineIs(u, e.line, p \o text[n], q)
      BY <1>11, <3>1 DEF LineIs
    <3>5. QED
      BY <1>3, <2>1, <3>2, <3>3, <3>4, CutAt
  <2>4. CASE n # 1
    <3>1. n > 1
      BY <1>6, <2>4
    <3>2. J[n] = text[n] \o q
      BY <1>4, <3>1 DEF JoinedIs
    <3>3. Len(text[n]) = k
      BY <1>7, <1>9, <2>2, <2>4
    <3>4. LineIs(u, e.line, text[n], q)
      BY <1>11, <3>2 DEF LineIs
    <3>5. QED
      BY <1>3, <1>7, <2>1, <3>3, <3>4, CutAt
  <2>5. QED
    BY <2>3, <2>4
<1> DEFINE back == <<p \o q>>
<1>14. DeleteRange(u, c, e) = Splice(u, c.line, back, c.line + n) /\ back \in Texts
  <2>1. /\ <<Prefix(u, c) \o Suffix(u, e)>> \in Texts
        /\ DeleteRange(u, c, e) = Splice(u, c.line, <<Prefix(u, c) \o Suffix(u, e)>>, e.line + 1)
    BY <1>6, <1>10, DeleteIs
  <2>2. QED
    BY <1>10, <1>12, <1>13, <2>1
<1>15. back[1] = lines[c.line + 1] /\ Len(back) = 1
  BY <1>3
<1> HIDE DEF back
<1>16. Splice(u, c.line, back, c.line + n) = lines
  <2>1. lines \in Seq(Seq(Alphabet)) /\ J \in Seq(Seq(Alphabet)) /\ back \in Seq(Seq(Alphabet))
    BY <1>6, <1>14 DEF Texts, Alphabet
  <2>2. PICK r \in c.line .. Len(lines) : r = c.line + 1
    BY <1>8
  <2>3. PartIs(back, lines, c.line, r)
    <3>1. r - c.line = 1
      BY <1>1, <2>2
    <3>2. QED
      BY <1>15, <3>1 DEF PartIs
  <2>4. Splice(Splice(lines, c.line, J, r), c.line, back, c.line + Len(J)) = lines
    BY <1>8, <2>1, <2>3, SpliceBack
  <2>5. QED
    BY <1>6, <1>8, <2>2, <2>4
<1>17. QED
  BY <1>14, <1>16 DEF u

(* Coordinates brought into the text.                                       *)

InText(c, lines) ==
  /\ c \in Coordinates /\ c.line < Len(lines)
  /\ c.column <= GetLineMaxColumn(Line(lines, c.line))

LEMMA MaxType ==
  ASSUME NEW lines \in Texts, NEW l \in 0 .. Len(lines) - 1
  PROVE  GetLineMaxColumn(Line(lines, l)) \in Nat
BY TextFacts, ColumnType

LEMMA SanitizeFacts ==
  ASSUME NEW lines \in Texts, lines # <<>>, NEW c \in Coordinates
  PROVE  /\ InText(SanitizeCoordinates(lines, c), lines)
         /\ InText(c, lines) => SanitizeCoordinates(lines, c) = c
<1> DEFINE last == Len(lines) - 1
           max(l) == GetLineMaxColumn(Line(lines, l))
<1>1. Len(lines) \in Nat /\ Len(lines) >= 1
  <2>1. lines \in Seq(Seq(Alphabet))
    BY DEF Texts, Alphabet
  <2>2. Len(lines) \in Nat \ {0}
    BY <2>1, EmptySeq
  <2>3. QED
    BY <2>2
<1>2. c.line \in Nat /\ c.column \in Nat /\ last \in Nat
  BY <1>1 DEF Coordinates
<1>3. \A l \in 0 .. last : max(l) \in Nat
  BY MaxType
<1>4. SanitizeCoordinates(lines, c) =
        IF c.line > last THEN At(last, max(last))
        ELSE IF c.column > max(c.line) THEN At(c.line, max(c.line)) ELSE c
  BY DEF SanitizeCoordinates
<1> HIDE DEF max
<1>5. \A l \in 0 .. last, k \in Nat : k <= max(l) => InText(At(l, k), lines)
  BY <1>1, <1>3 DEF At, InText, Coordinates, max
<1>6. CASE c.line > last
  <2>1. last \in 0 .. last /\ max(last) \in Nat /\ max(last) <= max(last)
    BY <1>2, <1>3
  <2>2. ~InText(c, lines)
    BY <1>1, <1>2, <1>6 DEF InText
  <2>3. QED
    BY <1>4, <1>5, <1>6, <2>1, <2>2
<1>7. CASE ~(c.line > last)
  <2>1. c.line \in 0 .. last /\ max(c.line) \in Nat
    BY <1>2, <1>3, <1>7
  <2>2. CASE c.column > max(c.line)
    <3>1. ~InText(c, lines)
      BY <1>2, <2>1, <2>2 DEF InText, max
    <3>2. max(c.line) <= max(c.line)
      BY <2>1
    <3>3. QED
      BY <1>4, <1>5, <1>7, <2>1, <2>2, <3>1, <3>2
  <2>3. CASE ~(c.column > max(c.line))
    <3>1. InText(c, lines)
      BY <1>1, <1>2, <2>1, <2>3 DEF InText, max
    <3>2. QED
      BY <1>4, <1>7, <2>3, <3>1
  <2>4. QED
    BY <2>2, <2>3
<1>8. QED
  BY <1>6, <1>7

(* States of a selection.                                                   *)

\* A state that any line of the text allows.
StateIn(s, lines) == s \in States /\ StateFits(s, Len(lines)) /\ InColumns(s, lines)

LEMMA SetSelectionFacts ==
  ASSUME NEW lines \in Texts, lines # <<>>, NEW a \in Coordinates, NEW b \in Coordinates,
         NEW cursor \in Coordinates
  PROVE  /\ StateIn(SetSelection(lines, a, b, cursor), lines)
         /\ SetSelection(lines, a, b, cursor).cursor = cursor
         /\ a = b => ~Selected(SetSelection(lines, a, b, cursor))
<1> DEFINE s == SanitizeCoordinates(lines, a)
           e == SanitizeCoordinates(lines, b)
           state == SetSelection(lines, a, b, cursor)
<1>1. InText(s, lines) /\ InText(e, lines)
  BY SanitizeFacts
<1>2. state = [start |-> IF Before(e, s) THEN e ELSE s, end |-> IF Before(e, s) THEN s ELSE e,
               cursor |-> cursor]
  BY DEF SetSelection
<1>3. a = b => s = e
  OBVIOUS
<1> HIDE DEF s, e, state
<1>4. /\ s.line \in Nat /\ s.column \in Nat /\ e.line \in Nat /\ e.column \in Nat
  BY <1>1 DEF InText, Coordinates
<1>5. ~Before(e, s) \/ ~Before(s, e)
  BY <1>4 DEF Before
<1>6. ~Before(s, s)
  BY <1>4 DEF Before
<1>7. CASE Before(e, s)
  <2>1. state.start = e /\ state.end = s /\ state.cursor = cursor /\ state \in States
    BY <1>1, <1>2, <1>7 DEF States, InText
  <2>2. StateIn(state, lines)
    BY <1>1, <1>5, <1>7, <2>1 DEF StateIn, StateFits, InColumns, InText
  <2>3. QED
    BY <1>3, <1>6, <1>7, <2>1, <2>2 DEF state
<1>8. CASE ~Before(e, s)
  <2>1. state.start = s /\ state.end = e /\ state.cursor = cursor /\ state \in States
    BY <1>1, <1>2, <1>8 DEF States, InText
  <2>2. StateIn(state, lines)
    BY <1>1, <1>8, <2>1 DEF StateIn, StateFits, InColumns, InText
  <2>3. a = b => ~Selected(state)
    BY <1>3, <1>6, <2>1 DEF Selected
  <2>4. QED
    BY <2>1, <2>2, <2>3 DEF state
<1>9. QED
  BY <1>7, <1>8

(* Records and the number of lines.                                         *)

LEMMA TextLength ==
  ASSUME NEW text \in Texts, text # <<>>
  PROVE  Len(text) \in Nat /\ Len(text) >= 1
<1>1. text \in Seq(Seq(Alphabet))
  BY DEF Texts, Alphabet
<1>2. Len(text) \in Nat \ {0}
  BY <1>1, EmptySeq
<1>3. QED
  BY <1>2

LEMMA NothingFacts ==
  /\ Nothing \in Texts /\ Nothing # <<>> /\ Len(Nothing) = 1 /\ Nothing[1] = <<>>
  /\ NoChange \in Changes /\ NoChange.text = Nothing /\ Taken(NoChange) = 0
<1>1. <<>> \in Seq(Characters \cup {Blank, Tab})
  BY EmptySeq
<1>2. Nothing \in Texts /\ Nothing # <<>> /\ Len(Nothing) = 1 /\ Nothing[1] = <<>>
  BY <1>1 DEF Nothing, Texts
<1>3. NoChange \in Changes /\ NoChange.text = Nothing
  BY <1>2 DEF NoChange, Changes, Change, At, Coordinates
<1>4. QED
  BY <1>2, <1>3 DEF Taken

LEMMA ChangeType ==
  ASSUME NEW c \in Changes
  PROVE  /\ c.start \in Coordinates /\ c.end \in Coordinates
         /\ c.start.line \in Nat /\ c.end.line \in Nat /\ c.start.column \in Nat /\ c.end.column \in Nat
         /\ c.text \in Texts /\ c.text # <<>> /\ Len(c.text) \in Nat /\ Len(c.text) >= 1
         /\ Taken(c) \in Int
<1>1. /\ c.start \in Coordinates /\ c.end \in Coordinates
      /\ c.start.line \in Nat /\ c.end.line \in Nat /\ c.start.column \in Nat /\ c.end.column \in Nat
      /\ c.text \in Texts /\ c.text # <<>>
  BY DEF Changes, Coordinates
<1>2. QED
  BY <1>1, TextLength DEF Taken

LEMMA FitsShifted ==
  ASSUME NEW undone \in Changes, NEW redone \in Changes, NEW n \in Nat, NEW m \in Nat, NEW d \in Nat,
         ChangeFits(undone, redone, n, m)
  PROVE  ChangeFits(undone, redone, n + d, m + d) /\ ChangeFits(undone, redone, n + d, m)
<1>1. /\ undone.end.line \in Nat /\ redone.start.line \in Nat /\ Taken(undone) \in Int
      /\ Len(redone.text) \in Nat
  BY ChangeType
<1> DEFINE t == Taken(undone)
           k == Len(redone.text)
<1>2. /\ undone.text = Nothing \/ (~Before(undone.end, undone.start) /\ undone.end.line < n)
      /\ redone.text = Nothing \/ redone.start.line < n - t
      /\ m <= n - t + k - 1
  BY DEF ChangeFits
<1> HIDE DEF t, k
<1>3. t \in Int /\ k \in Nat
  BY <1>1 DEF t, k
<1>4. undone.text = Nothing \/ (~Before(undone.end, undone.start) /\ undone.end.line < n + d)
  <2>1. undone.end.line < n => undone.end.line < n + d
    BY <1>1
  <2>2. QED
    BY <1>2, <2>1
<1>5. redone.text = Nothing \/ redone.start.line < (n + d) - t
  <2>1. redone.start.line < n - t => redone.start.line < (n + d) - t
    BY <1>1, <1>3
  <2>2. QED
    BY <1>2, <2>1
<1>6. m + d <= (n + d) - t + k - 1 /\ m <= (n + d) - t + k - 1
  BY <1>2, <1>3
<1>7. QED
  BY <1>4, <1>5, <1>6 DEF ChangeFits, t, k

LEMMA StateShifted ==
  ASSUME NEW s \in States, NEW n \in Nat, NEW m \in Nat, n <= m, StateFits(s, n)
  PROVE  StateFits(s, m)
<1>1. s.end.line \in Nat
  BY DEF States, Coordinates
<1>2. QED
  BY <1>1 DEF StateFits

LEMMA RecordType ==
  ASSUME NEW record \in Records
  PROVE  /\ record.added \in Changes /\ record.removed \in Changes
         /\ record.before \in States /\ record.after \in States
BY DEF Records

LEMMA RecordShifted ==
  ASSUME NEW record \in Records, NEW n \in Nat, NEW m \in Nat, NEW d \in Nat,
         RecordFits(record, n, m)
  PROVE  RecordFits(record, n + d, m + d)
<1>1. /\ record.added \in Changes /\ record.removed \in Changes
      /\ record.before \in States /\ record.after \in States
  BY RecordType
<1>2. /\ ChangeFits(record.removed, record.added, n + d, m + d)
      /\ ChangeFits(record.added, record.removed, m + d, n + d)
  BY <1>1, FitsShifted DEF RecordFits
<1>3. n <= n + d /\ m <= m + d /\ n + d \in Nat /\ m + d \in Nat
  OBVIOUS
<1>4. StateFits(record.before, n + d) /\ StateFits(record.after, m + d)
  BY <1>1, <1>3, StateShifted DEF RecordFits
<1>5. QED
  BY <1>2, <1>4 DEF RecordFits

\* Undoing and redoing name lines that are there and leave lines enough.
LEMMA RevertLength ==
  ASSUME NEW lines \in Texts, lines # <<>>, NEW undone \in Changes, NEW redone \in Changes,
         NEW m \in Nat, ChangeFits(undone, redone, Len(lines), m)
  PROVE  /\ Revert(lines, undone, redone) \in Texts
         /\ Revert(lines, undone, redone) # <<>>
         /\ m <= Len(Revert(lines, undone, redone))
<1> DEFINE w == IF undone.text = Nothing THEN lines ELSE DeleteRange(lines, undone.start, undone.end)
           r == Revert(lines, undone, redone)
<1>1. /\ undone.start \in Coordinates /\ undone.end \in Coordinates
      /\ redone.start \in Coordinates /\ redone.start.line \in Nat
      /\ undone.start.line \in Nat /\ undone.end.line \in Nat
      /\ redone.text \in Texts /\ redone.text # <<>>
      /\ Len(redone.text) \in Nat /\ Len(redone.text) >= 1
  BY ChangeType
<1>2. Len(lines) \in Nat /\ Len(lines) >= 1
  BY TextLength
<1>3. w \in Texts /\ Len(w) = Len(lines) - Taken(undone) /\ Len(w) \in Nat /\ Len(w) >= 1
  <2>1. CASE undone.text = Nothing
    BY <1>2, <2>1 DEF Taken
  <2>2. CASE undone.text # Nothing
    <3>1. undone.start.line <= undone.end.line /\ undone.end.line < Len(lines)
      BY <1>1, <2>2 DEF ChangeFits, Before
    <3>2. w \in Texts /\ Len(w) = Len(lines) - (undone.end.line - undone.start.line)
      BY <1>1, <2>2, <3>1, DeleteFacts
    <3>3. Taken(undone) = undone.end.line - undone.start.line
      BY <2>2 DEF Taken
    <3>4. QED
      BY <1>1, <1>2, <3>1, <3>2, <3>3
  <2>3. QED
    BY <2>1, <2>2
<1>4. r = IF redone.text = Nothing THEN w ELSE InsertTextAt(w, redone.start, redone.text)
  BY DEF Revert
<1>5. m <= Len(w) + Len(redone.text) - 1 /\ (redone.text = Nothing \/ redone.start.line < Len(w))
  BY <1>3 DEF ChangeFits
<1> HIDE DEF w, r
<1>6. r \in Texts /\ Len(r) = Len(w) + Len(redone.text) - 1
  <2>1. CASE redone.text = Nothing
    BY <1>3, <1>4, <2>1, NothingFacts
  <2>2. CASE redone.text # Nothing
    <3>1. InsertedIs(r, w, redone.start, redone.text, Joined(w, redone.start, redone.text))
      BY <1>1, <1>3, <1>4, <1>5, <2>2, InsertFacts
    <3>2. QED
      BY <3>1 DEF InsertedIs
  <2>3. QED
    BY <2>1, <2>2
<1>7. r # <<>> /\ m <= Len(r)
  <2>1. Len(r) >= 1 /\ m <= Len(r)
    BY <1>1, <1>3, <1>5, <1>6
  <2>2. QED
    BY <2>1
<1>8. QED
  BY <1>6, <1>7 DEF r

(* The undo buffer grows by a record.                                       *)

LEMMA FirstPart ==
  ASSUME NEW S, NEW s \in Seq(S), NEW k \in 0 .. Len(s)
  PROVE  /\ SubSeq(s, 1, k) \in Seq(S) /\ Len(SubSeq(s, 1, k)) = k
         /\ \A i \in 1 .. k : SubSeq(s, 1, k)[i] = s[i]
<1>1. 0 \in Nat /\ 0 <= k + 1 /\ 0 + 1 = 1 /\ k - 0 = k /\ (IF 0 < k THEN k - 0 ELSE 0) = k
      /\ \A i \in 1 .. k : 0 + i = i
  BY LenProperties
<1>2. /\ SubSeq(s, 0 + 1, k) \in Seq(S)
      /\ Len(SubSeq(s, 0 + 1, k)) = IF 0 < k THEN k - 0 ELSE 0
      /\ \A i \in 1 .. k - 0 : SubSeq(s, 0 + 1, k)[i] = s[0 + i]
  BY <1>1, PartFacts
<1>3. QED
  BY <1>1, <1>2

\* What Append makes of the first k items.
LEMMA Extended ==
  ASSUME NEW S, NEW s \in Seq(S), NEW k \in 0 .. Len(s), NEW x \in S,
         NEW t, t = Append(SubSeq(s, 1, k), x)
  PROVE  /\ t \in Seq(S) /\ Len(t) = k + 1 /\ t[k + 1] = x
         /\ \A i \in 1 .. k : t[i] = s[i]
<1> DEFINE u == SubSeq(s, 1, k)
<1>1. u \in Seq(S) /\ Len(u) = k /\ \A i \in 1 .. k : u[i] = s[i]
  BY FirstPart
<1> HIDE DEF u
<1>2. /\ Append(u, x) \in Seq(S) /\ Len(Append(u, x)) = Len(u) + 1
      /\ \A i \in 1 .. Len(u) : Append(u, x)[i] = u[i]
      /\ Append(u, x)[Len(u) + 1] = x
  BY <1>1, AppendProperties
<1>3. t = Append(u, x)
  BY DEF u
<1>4. QED
  BY <1>1, <1>2, <1>3

Rec(added, removed, before, after) ==
  [added |-> added, removed |-> removed, before |-> before, after |-> after]

\* What the invariant says of the types.
LEMMA InvTypes ==
  ASSUME Inv
  PROVE  /\ mLines \in Texts /\ mLines # <<>> /\ Len(mLines) \in Nat /\ Len(mLines) >= 1
         /\ mState \in States /\ StateFits(mState, Len(mLines))
         /\ interactive \in [start : Coordinates, end : Coordinates]
         /\ mUndoIndex \in Nat /\ mUndoIndex <= Len(mUndoBuffer) /\ Len(mUndoBuffer) \in Nat
         /\ mUndoBuffer \in Seq(Records) /\ past \in Seq(Texts \ {<<>>})
         /\ Len(past) = Len(mUndoBuffer) + 1
         /\ clipboard \in Texts /\ clipboard # <<>> /\ mOverwrite \in BOOLEAN /\ exact \in BOOLEAN
<1>1. Types /\ TypeOK /\ StateFits(mState, Len(mLines))
  BY DEF Inv, Types
<1>2. mLines # <<>>
  BY <1>1 DEF TypeOK
<1>3. Len(mLines) \in Nat /\ Len(mLines) >= 1
  BY <1>1, <1>2, TextLength DEF TypeOK
<1>4. Len(mUndoBuffer) \in Nat
  BY <1>1, LenProperties DEF Types
<1>5. mUndoIndex \in Nat /\ mUndoIndex <= Len(mUndoBuffer)
  BY <1>1, <1>4 DEF TypeOK
<1>6. QED
  BY <1>1, <1>2, <1>3, <1>4, <1>5 DEF Types, TypeOK, States

LEMMA RecordAdded ==
  ASSUME Inv, NEW added \in Changes, NEW removed \in Changes, NEW after \in States,
         AddUndo(added, removed, after),
         mLines' \in Texts, mLines' # <<>>,
         mState' \in States, StateFits(mState', Len(mLines')),
         interactive' = interactive, mOverwrite' = mOverwrite,
         clipboard' \in Texts, clipboard' # <<>>, exact' \in BOOLEAN,
         RecordFits(Rec(added, removed, mState, after), Len(mLines), Len(mLines')),
         exact' => /\ exact /\ InColumns(mState', mLines')
                   /\ Tells(Rec(added, removed, mState, after), mLines, mLines')
  PROVE  Inv'
<1>1. PICK k, L, M, rec, new, buffer, texts :
        /\ k = mUndoIndex /\ L = Len(mLines) /\ M = Len(mLines')
        /\ rec = Rec(added, removed, mState, after) /\ new = mLines'
        /\ buffer = mUndoBuffer /\ texts = past
  OBVIOUS
<1>2. /\ k \in 0 .. Len(buffer) /\ k \in Nat /\ Len(buffer) \in Nat /\ L \in Nat
      /\ buffer \in Seq(Records) /\ texts \in Seq(Texts \ {<<>>}) /\ Len(texts) = Len(buffer) + 1
      /\ mState \in States /\ interactive \in [start : Coordinates, end : Coordinates]
      /\ mOverwrite \in BOOLEAN
  BY <1>1, InvTypes
<1>3. M \in Nat /\ M >= 1 /\ new \in Texts \ {<<>>}
  BY <1>1, TextLength
<1>4. rec \in Records
  BY <1>1, <1>2 DEF Rec, Records
<1>5. /\ mUndoBuffer' = Append(SubSeq(buffer, 1, k), rec) /\ mUndoIndex' = k + 1
      /\ past' = Append(SubSeq(texts, 1, k + 1), new)
  BY <1>1 DEF AddUndo, Rec
<1>6. PICK buffer2, texts2 : buffer2 = mUndoBuffer' /\ texts2 = past'
  OBVIOUS
<1>7. /\ buffer2 \in Seq(Records) /\ Len(buffer2) = k + 1 /\ buffer2[k + 1] = rec
      /\ \A i \in 1 .. k : buffer2[i] = buffer[i]
  BY <1>2, <1>4, <1>5, <1>6, Extended
<1>8. /\ texts2 \in Seq(Texts \ {<<>>}) /\ Len(texts2) = (k + 1) + 1 /\ texts2[(k + 1) + 1] = new
      /\ \A i \in 1 .. k + 1 : texts2[i] = texts[i]
  <2>1. k + 1 \in 0 .. Len(texts)
    BY <1>2
  <2>2. QED
    BY <1>2, <1>3, <1>5, <1>6, <2>1, Extended
<1>9. Types'
  <2>1. Len(mLines') > 0
    BY <1>1, <1>3
  <2>2. mUndoIndex' \in 0 .. Len(mUndoBuffer') /\ Len(past') = Len(mUndoBuffer') + 1
    BY <1>2, <1>5, <1>6, <1>7, <1>8
  <2>3. mState' \in [start : Coordinates, end : Coordinates, cursor : Coordinates]
        /\ interactive' \in [start : Coordinates, end : Coordinates]
    BY <1>2 DEF States
  <2>4. TypeOK'
    BY <1>2, <2>1, <2>2, <2>3 DEF TypeOK
  <2>5. QED
    BY <1>6, <1>7, <1>8, <2>4 DEF Types
<1>10. Room'
  <2>1. PICK room \in [0 .. Len(buffer) -> Nat] :
          /\ room[k] <= L
          /\ \A i \in 1 .. Len(buffer) : RecordFits(buffer[i], room[i - 1], room[i])
    BY <1>1 DEF Inv, Room, RoomFor
  <2> DEFINE d == L - room[k]
             more == [i \in 0 .. k + 1 |-> IF i <= k THEN room[i] + d ELSE M]
  <2>2. d \in Nat /\ room[k] + d = L /\ \A i \in 0 .. k : room[i] \in Nat
    <3>1. \A i \in 0 .. k : i \in 0 .. Len(buffer)
      BY <1>2
    <3>2. \A i \in 0 .. k : room[i] \in Nat
      BY <2>1, <3>1
    <3>3. room[k] \in Nat /\ room[k] <= L
      BY <1>2, <2>1
    <3>4. QED
      BY <1>2, <3>2, <3>3
  <2> HIDE DEF d
  <2>3. more \in [0 .. k + 1 -> Nat]
    BY <1>2, <1>3, <2>2
  <2>4. more[k + 1] = M /\ \A i \in 0 .. k : more[i] = room[i] + d
    BY <1>2
  <2> HIDE DEF more
  <2>5. \A i \in 1 .. k + 1 : RecordFits(buffer2[i], more[i - 1], more[i])
    <3>1. ASSUME NEW i \in 1 .. k PROVE RecordFits(buffer2[i], more[i - 1], more[i])
      <4>1. i \in 1 .. Len(buffer) /\ i - 1 \in 0 .. k /\ i \in 0 .. k
        BY <1>2
      <4>2. buffer[i] \in Records /\ RecordFits(buffer[i], room[i - 1], room[i])
        BY <1>2, <2>1, <4>1, ElementOfSeq
      <4>3. room[i - 1] \in Nat /\ room[i] \in Nat
        BY <2>2, <4>1
      <4>4. RecordFits(buffer[i], room[i - 1] + d, room[i] + d)
        BY <2>2, <4>2, <4>3, RecordShifted
      <4>5. QED
        BY <1>7, <2>4, <4>1, <4>4
    <3>2. RecordFits(buffer2[k + 1], more[(k + 1) - 1], more[k + 1])
      <4>1. (k + 1) - 1 = k /\ k \in 0 .. k
        BY <1>2
      <4>2. more[k] = L
        BY <2>2, <2>4, <4>1
      <4>3. RecordFits(rec, L, M)
        BY <1>1
      <4>4. QED
        BY <1>7, <2>4, <4>1, <4>2, <4>3
    <3>3. \A i \in 1 .. k + 1 : i \in 1 .. k \/ i = k + 1
      BY <1>2
    <3>4. QED
      BY <3>1, <3>2, <3>3
  <2>6. more[k + 1] <= M
    BY <1>3, <2>4
  <2>7. /\ more \in [0 .. Len(mUndoBuffer') -> Nat]
        /\ more[mUndoIndex'] <= Len(mLines')
        /\ \A i \in 1 .. Len(mUndoBuffer') : RecordFits(mUndoBuffer'[i], more[i - 1], more[i])
    BY <1>1, <1>5, <1>6, <1>7, <2>3, <2>5, <2>6
  <2>8. QED
    BY <2>7 DEF Room, RoomFor
<1>11. ASSUME exact' PROVE Exact'
  <2>1. exact /\ InColumns(mState', mLines') /\ Tells(rec, mLines, new)
    BY <1>1, <1>11
  <2>2. /\ mLines = texts[k + 1]
        /\ \A i \in 1 .. Len(buffer) : Tells(buffer[i], texts[i], texts[i + 1])
    BY <1>1, <2>1 DEF Inv, Exact
  <2>3. \A i \in 1 .. k + 1 : Tells(buffer2[i], texts2[i], texts2[i + 1])
    <3>1. ASSUME NEW i \in 1 .. k PROVE Tells(buffer2[i], texts2[i], texts2[i + 1])
      <4>1. i \in 1 .. Len(buffer) /\ i \in 1 .. k + 1 /\ i + 1 \in 1 .. k + 1
        BY <1>2
      <4>2. QED
        BY <1>7, <1>8, <2>2, <4>1
    <3>2. Tells(buffer2[k + 1], texts2[k + 1], texts2[(k + 1) + 1])
      <4>1. k + 1 \in 1 .. k + 1
        BY <1>2
      <4>2. QED
        BY <1>7, <1>8, <2>1, <2>2, <4>1
    <3>3. \A i \in 1 .. k + 1 : i \in 1 .. k \/ i = k + 1
      BY <1>2
    <3>4. QED
      BY <3>1, <3>2, <3>3
  <2>4. /\ mLines' = past'[mUndoIndex' + 1]
        /\ \A i \in 1 .. Len(mUndoBuffer') : Tells(mUndoBuffer'[i], past'[i], past'[i + 1])
    BY <1>1, <1>5, <1>6, <1>7, <1>8, <2>3
  <2>5. QED
    BY <2>1, <2>4 DEF Exact
<1>12. StateFits(mState, Len(mLines))'
  OBVIOUS
<1>13. QED
  BY <1>9, <1>10, <1>11, <1>12 DEF Inv

\* A step that leaves the text and the undo buffer alone.
LEMMA TextKept ==
  ASSUME Inv, UNCHANGED <<mLines, mUndoBuffer, mUndoIndex, past, exact>>,
         mState' \in States, StateFits(mState', Len(mLines)),
         exact => InColumns(mState', mLines),
         interactive' \in [start : Coordinates, end : Coordinates],
         clipboard' \in Texts, clipboard' # <<>>, mOverwrite' \in BOOLEAN
  PROVE  Inv'
<1>1. Types'
  BY DEF Inv, Types, TypeOK, States
<1>2. Room'
  BY DEF Inv, Room, RoomFor
<1>3. exact' => Exact'
  BY DEF Inv, Exact
<1>4. QED
  BY <1>1, <1>2, <1>3 DEF Inv

(* Undo and redo.                                                           *)

\* A step to another place of the undo buffer.
LEMMA PlaceChanged ==
  ASSUME Inv, NEW k \in 0 .. Len(mUndoBuffer),
         mUndoIndex' = k, UNCHANGED <<interactive, mUndoBuffer, mOverwrite, clipboard, past, exact>>,
         mLines' \in Texts, mLines' # <<>>, mState' \in States, StateFits(mState', Len(mLines')),
         NEW room \in [0 .. Len(mUndoBuffer) -> Nat],
         \A i \in 1 .. Len(mUndoBuffer) : RecordFits(mUndoBuffer[i], room[i - 1], room[i]),
         room[k] <= Len(mLines'),
         exact => mLines' = past[k + 1] /\ InColumns(mState', mLines')
  PROVE  Inv'
<1>1. Types'
  <2>1. Len(mLines') > 0
    BY TextLength
  <2>2. QED
    BY <2>1 DEF Inv, Types, TypeOK, States
<1>2. Room'
  <2>1. /\ room \in [0 .. Len(mUndoBuffer') -> Nat]
        /\ room[mUndoIndex'] <= Len(mLines')
        /\ \A i \in 1 .. Len(mUndoBuffer') : RecordFits(mUndoBuffer'[i], room[i - 1], room[i])
    OBVIOUS
  <2>2. QED
    BY <2>1 DEF Room, RoomFor
<1>3. exact' => Exact'
  BY DEF Inv, Exact
<1>4. StateFits(mState, Len(mLines))'
  OBVIOUS
<1>5. QED
  BY <1>1, <1>2, <1>3, <1>4 DEF Inv

\* A change that fits fewer lines fits more.
LEMMA FitsMore ==
  ASSUME NEW undone \in Changes, NEW redone \in Changes, NEW n \in Nat, NEW m \in Nat, NEW l \in Nat,
         n <= l, ChangeFits(undone, redone, n, m)
  PROVE  ChangeFits(undone, redone, l, m)
<1>1. PICK d \in Nat : l = n + d
  <2>1. l - n \in Nat /\ l = n + (l - n)
    OBVIOUS
  <2>2. QED
    BY <2>1
<1>2. ChangeFits(undone, redone, n + d, m)
  BY FitsShifted
<1>3. QED
  BY <1>1, <1>2

LEMMA UndoKeeps == Inv /\ Undo => Inv'
<1> SUFFICES ASSUME Inv, Undo PROVE Inv'
  OBVIOUS
<1>1. PICK k, L, rec :
        k = mUndoIndex /\ L = Len(mLines) /\ rec = mUndoBuffer[mUndoIndex]
  OBVIOUS
<1>2. /\ k > 0 /\ mLines' = Revert(mLines, rec.added, rec.removed) /\ mState' = rec.before
      /\ mUndoIndex' = k - 1
      /\ UNCHANGED <<interactive, mUndoBuffer, mOverwrite, clipboard, past, exact>>
  BY <1>1 DEF Undo, settings
<1>3. k \in Nat /\ k <= Len(mUndoBuffer) /\ Len(mUndoBuffer) \in Nat /\ L \in Nat
      /\ mLines \in Texts /\ mLines # <<>> /\ mUndoBuffer \in Seq(Records)
  BY <1>1, InvTypes
<1>4. k \in 1 .. Len(mUndoBuffer) /\ k - 1 \in 0 .. Len(mUndoBuffer) /\ k \in 0 .. Len(mUndoBuffer)
  BY <1>2, <1>3
<1>5. rec \in Records
  BY <1>1, <1>3, <1>4, ElementOfSeq
<1>6. rec.added \in Changes /\ rec.removed \in Changes /\ rec.before \in States
  BY <1>5, RecordType
<1>7. PICK room \in [0 .. Len(mUndoBuffer) -> Nat] :
        /\ room[k] <= L
        /\ \A i \in 1 .. Len(mUndoBuffer) : RecordFits(mUndoBuffer[i], room[i - 1], room[i])
  BY <1>1 DEF Inv, Room, RoomFor
<1>8. room[k] \in Nat /\ room[k - 1] \in Nat
  BY <1>4, <1>7
<1>9. ChangeFits(rec.added, rec.removed, room[k], room[k - 1]) /\ StateFits(rec.before, room[k - 1])
  BY <1>1, <1>4, <1>7 DEF RecordFits
<1>10. ChangeFits(rec.added, rec.removed, Len(mLines), room[k - 1])
  BY <1>1, <1>3, <1>6, <1>7, <1>8, <1>9, FitsMore
<1>11. /\ mLines' \in Texts /\ mLines' # <<>> /\ room[k - 1] <= Len(mLines')
  BY <1>2, <1>3, <1>6, <1>8, <1>10, RevertLength
<1>12. StateFits(mState', Len(mLines'))
  <2>1. Len(mLines') \in Nat
    BY <1>11, TextLength
  <2>2. QED
    BY <1>2, <1>6, <1>8, <1>9, <1>11, <2>1, StateShifted
<1>13. ASSUME exact PROVE mLines' = past[(k - 1) + 1] /\ InColumns(mState', mLines')
  <2>1. Tells(rec, past[k], past[k + 1]) /\ mLines = past[k + 1]
    BY <1>1, <1>4, <1>13 DEF Inv, Exact
  <2>2. (k - 1) + 1 = k
    BY <1>3
  <2>3. QED
    BY <1>2, <2>1, <2>2 DEF Tells
<1>14. QED
  BY <1>2, <1>4, <1>6, <1>7, <1>11, <1>12, <1>13, PlaceChanged

LEMMA RedoKeeps == Inv /\ Redo => Inv'
<1> SUFFICES ASSUME Inv, Redo PROVE Inv'
  OBVIOUS
<1>1. PICK k, L, rec :
        k = mUndoIndex + 1 /\ L = Len(mLines) /\ rec = mUndoBuffer[mUndoIndex + 1]
  OBVIOUS
<1>2. /\ mUndoIndex < Len(mUndoBuffer)
      /\ mLines' = Revert(mLines, rec.removed, rec.added) /\ mState' = rec.after
      /\ mUndoIndex' = k
      /\ UNCHANGED <<interactive, mUndoBuffer, mOverwrite, clipboard, past, exact>>
  BY <1>1 DEF Redo, settings
<1>3. mUndoIndex \in Nat /\ mUndoIndex <= Len(mUndoBuffer) /\ Len(mUndoBuffer) \in Nat /\ L \in Nat
      /\ mLines \in Texts /\ mLines # <<>> /\ mUndoBuffer \in Seq(Records)
  BY <1>1, InvTypes
<1>4. k \in 1 .. Len(mUndoBuffer) /\ k - 1 \in 0 .. Len(mUndoBuffer) /\ k \in 0 .. Len(mUndoBuffer)
      /\ k - 1 = mUndoIndex /\ k \in Nat
  BY <1>1, <1>2, <1>3
<1>5. rec \in Records
  BY <1>1, <1>3, <1>4, ElementOfSeq
<1>6. rec.added \in Changes /\ rec.removed \in Changes /\ rec.after \in States
  BY <1>5, RecordType
<1>7. PICK room \in [0 .. Len(mUndoBuffer) -> Nat] :
        /\ room[k - 1] <= L
        /\ \A i \in 1 .. Len(mUndoBuffer) : RecordFits(mUndoBuffer[i], room[i - 1], room[i])
  BY <1>1, <1>4 DEF Inv, Room, RoomFor
<1>8. room[k] \in Nat /\ room[k - 1] \in Nat
  BY <1>4, <1>7
<1>9. ChangeFits(rec.removed, rec.added, room[k - 1], room[k]) /\ StateFits(rec.after, room[k])
  BY <1>1, <1>4, <1>7 DEF RecordFits
<1>10. ChangeFits(rec.removed, rec.added, Len(mLines), room[k])
  BY <1>1, <1>3, <1>6, <1>7, <1>8, <1>9, FitsMore
<1>11. /\ mLines' \in Texts /\ mLines' # <<>> /\ room[k] <= Len(mLines')
  BY <1>2, <1>3, <1>6, <1>8, <1>10, RevertLength
<1>12. StateFits(mState', Len(mLines'))
  <2>1. Len(mLines') \in Nat
    BY <1>11, TextLength
  <2>2. QED
    BY <1>2, <1>6, <1>8, <1>9, <1>11, <2>1, StateShifted
<1>13. ASSUME exact PROVE mLines' = past[k + 1] /\ InColumns(mState', mLines')
  <2>1. Tells(rec, past[k], past[k + 1]) /\ mLines = past[k]
    BY <1>1, <1>4, <1>13 DEF Inv, Exact
  <2>2. QED
    BY <1>2, <2>1 DEF Tells
<1>14. QED
  BY <1>2, <1>4, <1>6, <1>7, <1>11, <1>12, <1>13, PlaceChanged

(* Moving the cursor.                                                       *)

Ranges == [start : Coordinates, end : Coordinates]

LEMMA SelectKeeps ==
  ASSUME Inv, NEW range \in Ranges, NEW cursor \in Coordinates, Select(range, cursor)
  PROVE  Inv'
<1>1. range.start \in Coordinates /\ range.end \in Coordinates
  BY DEF Ranges
<1>2. mLines \in Texts /\ mLines # <<>> /\ clipboard \in Texts /\ clipboard # <<>> /\ mOverwrite \in BOOLEAN
  BY InvTypes
<1>3. StateIn(SetSelection(mLines, range.start, range.end, cursor), mLines)
  BY <1>1, <1>2, SetSelectionFacts
<1>4. /\ mState' = SetSelection(mLines, range.start, range.end, cursor) /\ interactive' = range
      /\ UNCHANGED <<mLines, mUndoBuffer, mUndoIndex, past, exact, mOverwrite, clipboard>>
  BY DEF Select, settings, history
<1>5. mState' \in States /\ StateFits(mState', Len(mLines)) /\ InColumns(mState', mLines)
  BY <1>3, <1>4 DEF StateIn
<1>6. interactive' \in [start : Coordinates, end : Coordinates]
  BY <1>4 DEF Ranges
<1>7. QED
  BY <1>2, <1>4, <1>5, <1>6, TextKept

LEMMA MoveToKeeps ==
  ASSUME Inv, NEW cursor \in Coordinates, NEW select, NEW extended \in Ranges,
         MoveTo(cursor, select, extended)
  PROVE  Inv'
<1>1. PICK range \in Ranges : Select(range, cursor)
  <2>1. [start |-> cursor, end |-> cursor] \in Ranges
    BY DEF Ranges
  <2>2. QED
    BY <2>1 DEF MoveTo
<1>2. QED
  BY <1>1, SelectKeeps

LEMMA ExtendedType ==
  ASSUME Inv, NEW old \in Coordinates, NEW new \in Coordinates
  PROVE  ExtendedBack(old, new) \in Ranges /\ ExtendedOn(old, new) \in Ranges
<1>1. interactive \in Ranges
  BY InvTypes DEF Ranges
<1>2. QED
  BY <1>1 DEF ExtendedBack, ExtendedOn, Ranges

\* Where the cursor may be.
LEMMA CursorFacts ==
  ASSUME Inv
  PROVE  /\ mState.cursor \in Coordinates /\ mState.start \in Coordinates /\ mState.end \in Coordinates
         /\ mState.cursor.line \in Nat /\ mState.cursor.column \in Nat
         /\ InText(GetActualCursorCoordinates, mLines)
         /\ GetActualCursorCoordinates \in Coordinates
         /\ GetActualCursorCoordinates.line \in 0 .. Len(mLines) - 1
         /\ GetActualCursorCoordinates.column \in Nat
<1>1. mState \in States /\ mLines \in Texts /\ mLines # <<>> /\ Len(mLines) \in Nat
  BY InvTypes
<1>2. mState.cursor \in Coordinates /\ mState.start \in Coordinates /\ mState.end \in Coordinates
  BY <1>1 DEF States
<1>3. InText(GetActualCursorCoordinates, mLines)
  BY <1>1, <1>2, SanitizeFacts DEF GetActualCursorCoordinates
<1>4. QED
  BY <1>1, <1>2, <1>3 DEF InText, Coordinates

LEMMA VerticalKeeps ==
  ASSUME Inv, NEW amount \in Int, NEW select, MoveUp(amount, select) \/ MoveDown(amount, select)
  PROVE  Inv'
<1> DEFINE old == mState.cursor
           up == [old EXCEPT !.line = IF amount > @ THEN 0 ELSE @ - amount]
           moved == IF old.line + amount < Len(mLines) THEN old.line + amount ELSE Len(mLines) - 1
           down == [old EXCEPT !.line = IF moved < 0 THEN 0 ELSE moved]
<1>1. old \in Coordinates /\ old.line \in Nat /\ Len(mLines) \in Nat
  BY CursorFacts, InvTypes
<1>2. up \in Coordinates
  BY <1>1 DEF Coordinates
<1>3. moved \in Int
  BY <1>1
<1>4. down \in Coordinates
  <2> HIDE DEF moved
  <2>1. (IF moved < 0 THEN 0 ELSE moved) \in Nat
    BY <1>3
  <2>2. QED
    BY <1>1, <2>1 DEF Coordinates
<1>5. MoveTo(up, select, ExtendedBack(old, up)) \/ MoveTo(down, select, ExtendedOn(old, down))
  BY DEF MoveUp, MoveDown
<1> HIDE DEF old, up, down
<1>6. QED
  BY <1>1, <1>2, <1>4, <1>5, ExtendedType, MoveToKeeps

LEMMA LeftKeeps ==
  ASSUME Inv, NEW select, MoveLeft(select)
  PROVE  Inv'
<1> DEFINE actual == GetActualCursorCoordinates
           line == Line(mLines, actual.line)
           index == GetCharacterIndex(mLines, actual)
           before == Line(mLines, actual.line - 1)
           new == IF index > 0 THEN At(actual.line, GetCharacterColumn(line, index - 1))
                  ELSE IF actual.line > 0 THEN At(actual.line - 1, GetLineMaxColumn(before))
                  ELSE At(0, 0)
<1>1. /\ actual \in Coordinates /\ actual.line \in 0 .. Len(mLines) - 1
      /\ mLines \in Texts /\ Len(mLines) \in Nat
  BY CursorFacts, InvTypes
<1>2. Len(line) \in Nat
  BY <1>1, TextFacts
<1>3. index \in 0 .. Len(line)
  BY <1>1, <1>2, IndexFacts
<1>4. index > 0 => GetCharacterColumn(line, index - 1) \in Nat
  <2>1. index > 0 => index - 1 \in 0 .. Len(line)
    BY <1>2, <1>3
  <2>2. QED
    BY <1>2, <2>1, ColumnType
<1>5. actual.line > 0 => actual.line - 1 \in 0 .. Len(mLines) - 1 /\ GetLineMaxColumn(before) \in Nat
  <2>1. actual.line > 0 => actual.line - 1 \in 0 .. Len(mLines) - 1
    BY <1>1
  <2>2. QED
    BY <1>1, <2>1, MaxType
<1>6. MoveTo(new, select, ExtendedBack(mState.cursor, new))
  BY DEF MoveLeft
<1>7. actual.line \in Nat
  BY <1>1
<1> HIDE DEF actual, line, index, before
<1>8. new \in Coordinates
  BY <1>1, <1>4, <1>5, <1>7 DEF Coordinates, At
<1> HIDE DEF new
<1>9. QED
  BY <1>6, <1>8, CursorFacts, ExtendedType, MoveToKeeps

LEMMA RightKeeps ==
  ASSUME Inv, NEW select, MoveRight(select)
  PROVE  Inv'
<1> DEFINE old == mState.cursor
           line == Line(mLines, old.line)
           index == GetCharacterIndex(mLines, old)
           new == IF index = Len(line) THEN At(old.line + 1, 0)
                  ELSE At(old.line, GetCharacterColumn(line, index + 1))
<1>1. /\ old \in Coordinates /\ old.line \in Nat /\ old.line < Len(mLines)
      /\ mLines \in Texts /\ Len(mLines) \in Nat
      /\ MoveTo(new, select, ExtendedOn(old, new))
  BY CursorFacts, InvTypes DEF MoveRight
<1>2. Len(line) \in Nat
  <2>1. old.line \in 0 .. Len(mLines) - 1
    BY <1>1
  <2>2. QED
    BY <1>1, <2>1, TextFacts
<1>3. index \in 0 .. Len(line)
  BY <1>1, <1>2, IndexFacts
<1>4. GetCharacterColumn(line, index + 1) \in Nat
  <2>1. index + 1 \in Nat
    BY <1>2, <1>3
  <2>2. QED
    BY <2>1, ColumnFacts
<1> HIDE DEF line, index
<1>5. new \in Coordinates
  BY <1>1, <1>4 DEF Coordinates, At
<1> HIDE DEF new, old
<1>6. QED
  BY <1>1, <1>5, ExtendedType, MoveToKeeps

LEMMA EndsKeep ==
  ASSUME Inv, NEW select,
         MoveTop(select) \/ MoveBottom(select) \/ MoveHome(select) \/ MoveEnd(select)
  PROVE  Inv'
<1> DEFINE old == mState.cursor
           actual == GetActualCursorCoordinates
           top == At(0, 0)
           bottom == At(Len(mLines) - 1, 0)
           home == [old EXCEPT !.column = 0]
           column == IF old.line < Len(mLines) THEN GetLineMaxColumn(Line(mLines, old.line)) ELSE 0
           end == [old EXCEPT !.column = column]
<1>1. /\ old \in Coordinates /\ old.line \in Nat /\ mLines \in Texts /\ actual \in Coordinates
      /\ Len(mLines) \in Nat /\ Len(mLines) >= 1
  BY CursorFacts, InvTypes
<1>2. top \in Coordinates /\ bottom \in Coordinates /\ home \in Coordinates
  BY <1>1 DEF At, Coordinates
<1>3. column \in Nat
  <2>1. old.line < Len(mLines) => old.line \in 0 .. Len(mLines) - 1
    BY <1>1
  <2>2. old.line < Len(mLines) => GetLineMaxColumn(Line(mLines, old.line)) \in Nat
    BY <1>1, <2>1, MaxType
  <2>3. QED
    BY <2>2
<1>4. end \in Coordinates
  <2> HIDE DEF column
  <2>1. QED
    BY <1>1, <1>3 DEF Coordinates
<1>5. \/ MoveTo(top, select, [start |-> top, end |-> old])
      \/ MoveTo(bottom, select, [start |-> actual, end |-> bottom])
      \/ MoveTo(home, select, ExtendedBack(old, home))
      \/ MoveTo(end, select, ExtendedOn(old, end))
  BY DEF MoveTop, MoveBottom, MoveHome, MoveEnd
<1> HIDE DEF old, actual, top, bottom, home, end
<1>6. [start |-> top, end |-> old] \in Ranges /\ [start |-> actual, end |-> bottom] \in Ranges
  BY <1>1, <1>2 DEF Ranges
<1>7. ExtendedBack(old, home) \in Ranges /\ ExtendedOn(old, end) \in Ranges
  BY <1>1, <1>2, <1>4, ExtendedType
<1>8. QED
  BY <1>2, <1>4, <1>5, <1>6, <1>7, MoveToKeeps

LEMMA MouseKeeps ==
  ASSUME Inv, NEW pos \in ScreenPosToCoordinates, Click(pos) \/ Drag(pos)
  PROVE  Inv'
<1>1. mLines \in Texts /\ interactive \in Ranges
  BY InvTypes DEF Ranges
<1>2. pos \in Coordinates
  <2>0. PICK l \in 0 .. Len(mLines) - 1 :
          \E i \in 0 .. Len(Line(mLines, l)) : pos = At(l, GetCharacterColumn(Line(mLines, l), i))
    BY DEF ScreenPosToCoordinates
  <2>1. PICK i \in 0 .. Len(Line(mLines, l)) : pos = At(l, GetCharacterColumn(Line(mLines, l), i))
    BY <2>0
  <2>2. GetCharacterColumn(Line(mLines, l), i) \in Nat
    BY <1>1, TextFacts, ColumnType
  <2>3. l \in Nat
    BY InvTypes
  <2>4. QED
    BY <2>1, <2>2, <2>3 DEF At, Coordinates
<1>3. MoveTo(pos, FALSE, interactive) \/ Select([interactive EXCEPT !.end = pos], pos)
  BY DEF Click, Drag
<1>4. [interactive EXCEPT !.end = pos] \in Ranges
  BY <1>1, <1>2 DEF Ranges
<1>5. QED
  BY <1>1, <1>2, <1>3, <1>4, MoveToKeeps, SelectKeeps

(* Edits: a part of the text is removed, which leaves a text without it,    *)
(* and another part is put in its place.                                    *)

Without(lines, c) == IF c.text = Nothing THEN lines ELSE DeleteRange(lines, c.start, c.end)
With(lines, c) == IF c.text = Nothing THEN lines ELSE InsertTextAt(lines, c.start, c.text)
\* The change c makes the text "lines" of the text m, and can be taken back.
Undoes(c, lines, m) == Without(lines, c) = m /\ With(m, c) = lines
\* The lines it counts, where n are those of the text with c and m without.
Spans(c, n, m) ==
  /\ c.text = Nothing \/ (~Before(c.end, c.start) /\ c.end.line < n /\ c.start.line < m)
  /\ n <= m + Len(c.text) - 1
  /\ m <= n - Taken(c)

LEMMA SpansFit ==
  ASSUME NEW c \in Changes, NEW d \in Changes, NEW n \in Nat, NEW m \in Nat, NEW k \in Nat,
         Spans(c, n, k), Spans(d, m, k)
  PROVE  ChangeFits(c, d, n, m)
<1>1. /\ d.start.line \in Nat /\ Taken(c) \in Int /\ Len(d.text) \in Nat
  BY ChangeType
<1>2. /\ c.text = Nothing \/ (~Before(c.end, c.start) /\ c.end.line < n)
      /\ k <= n - Taken(c) /\ m <= k + Len(d.text) - 1
      /\ d.text = Nothing \/ d.start.line < k
  BY DEF Spans
<1>3. d.text = Nothing \/ d.start.line < n - Taken(c)
  <2>1. d.start.line < k => d.start.line < n - Taken(c)
    BY <1>1, <1>2
  <2>2. QED
    BY <1>2, <2>1
<1>4. m <= n - Taken(c) + Len(d.text) - 1
  BY <1>1, <1>2
<1>5. QED
  BY <1>2, <1>3, <1>4 DEF ChangeFits

LEMMA NothingSpans ==
  ASSUME NEW n \in Nat
  PROVE  Spans(NoChange, n, n)
BY NothingFacts DEF Spans

LEMMA NothingUndoes ==
  ASSUME NEW lines
  PROVE  Undoes(NoChange, lines, lines)
BY NothingFacts DEF Undoes, Without, With

LEMMA EditKeeps ==
  ASSUME Inv, NEW added \in Changes, NEW removed \in Changes, NEW after \in States, NEW rest \in Texts,
         AddUndo(added, removed, after),
         mLines' \in Texts, mLines' # <<>>,
         mState' \in States, StateFits(mState', Len(mLines')), StateFits(after, Len(mLines')),
         interactive' = interactive, mOverwrite' = mOverwrite,
         clipboard' \in Texts, clipboard' # <<>>, exact' \in BOOLEAN,
         Spans(removed, Len(mLines), Len(rest)), Spans(added, Len(mLines'), Len(rest)),
         exact' => /\ exact /\ InColumns(mState', mLines') /\ InColumns(after, mLines')
                   /\ Undoes(removed, mLines, rest) /\ Undoes(added, mLines', rest)
  PROVE  Inv'
<1> DEFINE rec == Rec(added, removed, mState, after)
<1>1. rec.added = added /\ rec.removed = removed /\ rec.before = mState /\ rec.after = after
  BY DEF Rec
<1>2. Len(mLines) \in Nat /\ StateFits(mState, Len(mLines))
  BY InvTypes
<1>3. Len(rest) \in Nat
  BY LenProperties DEF Texts
<1>4. PICK m \in Nat : m = Len(mLines')
  BY TextLength
<1>5. ChangeFits(removed, added, Len(mLines), m) /\ ChangeFits(added, removed, m, Len(mLines))
  BY <1>2, <1>3, <1>4, SpansFit
<1>6. RecordFits(rec, Len(mLines), Len(mLines'))
  <2> HIDE DEF rec
  <2>1. QED
    BY <1>1, <1>2, <1>4, <1>5 DEF RecordFits
<1>7. ASSUME exact'
      PROVE  exact /\ InColumns(mState', mLines') /\ Tells(rec, mLines, mLines')
  <2>1. exact /\ InColumns(mState', mLines') /\ InColumns(after, mLines')
    BY <1>7
  <2>2. InColumns(mState, mLines)
    BY <2>1 DEF Inv, Exact
  <2>3. PICK new : new = mLines'
    OBVIOUS
  <2>4. /\ Without(mLines, removed) = rest /\ With(rest, removed) = mLines
        /\ Without(new, added) = rest /\ With(rest, added) = new
    BY <1>7, <2>3 DEF Undoes
  <2>5. /\ Revert(mLines, removed, added) = With(Without(mLines, removed), added)
        /\ Revert(new, added, removed) = With(Without(new, added), removed)
    BY DEF Revert, With, Without
  <2> HIDE DEF rec
  <2>6. Tells(rec, mLines, new)
    BY <1>1, <2>1, <2>2, <2>3, <2>4, <2>5 DEF Tells
  <2>7. QED
    BY <2>1, <2>3, <2>6
<1> HIDE DEF rec
<1>8. QED
  BY <1>6, <1>7, RecordAdded DEF rec

(* Removing a range.                                                        *)

LEMMA InsertNothing ==
  ASSUME NEW lines \in Texts, NEW c \in Coordinates, c.line < Len(lines)
  PROVE  InsertTextAt(lines, c, Nothing) = lines
<1> DEFINE u == InsertTextAt(lines, c, Nothing)
           J == Joined(lines, c, Nothing)
           p == Prefix(lines, c)
           q == Suffix(lines, c)
<1>1. Len(lines) \in Nat /\ c.line \in Nat
  BY LenProperties DEF Texts, Coordinates
<1>2. PICK line, j : PlaceIs(lines, c, line, j)
  BY Places
<1>3. p \in Seq(Alphabet) /\ p \o q = lines[c.line + 1]
  BY <1>2 DEF PlaceIs, Line
<1>4. JoinedIs(J, p, Nothing, q, 1) /\ InsertedIs(u, lines, c, Nothing, J)
  BY JoinedFacts, InsertFacts, NothingFacts
<1> HIDE DEF u, J, p, q
<1>5. J[1] = lines[c.line + 1]
  <2>1. J[1] = (p \o <<>>) \o q
    BY <1>4, NothingFacts DEF JoinedIs
  <2>2. p \o <<>> = p
    BY <1>3, ConcatEmptySeq
  <2>3. QED
    BY <1>3, <2>1, <2>2
<1>6. /\ u \in Texts /\ Len(u) = Len(lines)
      /\ \A i \in 1 .. c.line : u[i] = lines[i]
      /\ \A i \in 1 .. 1 : u[c.line + i] = J[i]
      /\ \A i \in 1 .. Len(lines) - (c.line + 1) : u[c.line + 1 + i] = lines[c.line + 1 + i]
  <2>1. Len(lines) + Len(Nothing) - 1 = Len(lines)
    BY <1>1, NothingFacts
  <2>2. QED
    BY <1>4, <2>1, NothingFacts DEF InsertedIs
<1>7. ASSUME NEW i \in 1 .. Len(u) PROVE u[i] = lines[i]
  <2>1. CASE i \in 1 .. c.line
    BY <1>6, <2>1
  <2>2. CASE i = c.line + 1
    <3>1. u[c.line + 1] = J[1]
      BY <1>6
    <3>2. QED
      BY <1>5, <2>2, <3>1
  <2>3. CASE i > c.line + 1
    <3>1. PICK e \in 1 .. Len(lines) - (c.line + 1) : i = c.line + 1 + e
      <4>1. i - (c.line + 1) \in 1 .. Len(lines) - (c.line + 1) /\ i = c.line + 1 + (i - (c.line + 1))
        BY <1>1, <1>6, <2>3
      <4>2. QED
        BY <4>1
    <3>2. QED
      BY <1>6, <3>1
  <2>4. i \in 1 .. c.line \/ i = c.line + 1 \/ i > c.line + 1
    BY <1>1, <1>6
  <2>5. QED
    BY <2>1, <2>2, <2>3, <2>4
<1>8. lines \in Seq(Seq(Alphabet)) /\ u \in Seq(Seq(Alphabet))
  BY <1>6 DEF Texts, Alphabet
<1>9. u = lines
  BY <1>6, <1>7, <1>8, SeqEqual
<1>10. QED
  BY <1>9 DEF u

\* A range, as HasSelection and StateFits give it.
IsRange(a, b, lines) == a \in Coordinates /\ b \in Coordinates /\ ~Before(b, a) /\ b.line < Len(lines)

LEMMA RangeFacts ==
  ASSUME NEW lines \in Texts, NEW a, NEW b, IsRange(a, b, lines)
  PROVE  /\ a.line \in Nat /\ b.line \in Nat /\ Len(lines) \in Nat /\ a.line <= b.line
         /\ Change(a, b, GetText(lines, a, b)) \in Changes
         /\ GetText(lines, a, b) \in Texts /\ GetText(lines, a, b) # <<>>
         /\ Len(GetText(lines, a, b)) = b.line - a.line + 1
         /\ DeleteRange(lines, a, b) \in Texts /\ DeleteRange(lines, a, b) # <<>>
         /\ Len(DeleteRange(lines, a, b)) = Len(lines) - (b.line - a.line)
         /\ a.line < Len(DeleteRange(lines, a, b))
<1>1. a \in Coordinates /\ b \in Coordinates /\ ~Before(b, a) /\ b.line < Len(lines)
  BY DEF IsRange
<1>2. Len(lines) \in Nat /\ a.line \in Nat /\ b.line \in Nat
  BY <1>1, LenProperties DEF Texts, Coordinates
<1>3. a.line <= b.line
  BY <1>1, <1>2 DEF Before
<1> DEFINE t == GetText(lines, a, b)
           d == DeleteRange(lines, a, b)
<1>4. GotIs(t, lines, a, b, b.line - a.line + 1)
  BY <1>1, GetTextFacts
<1>5. d \in Texts /\ Len(d) = Len(lines) - (b.line - a.line)
  BY <1>1, <1>3, DeleteFacts
<1> HIDE DEF t, d
<1>6. t \in Texts /\ t # <<>> /\ Len(t) = b.line - a.line + 1
  BY <1>4 DEF GotIs
<1>7. a.line < Len(d) /\ d # <<>>
  <2>1. Len(d) >= 1 /\ a.line < Len(d)
    BY <1>1, <1>2, <1>3, <1>5
  <2>2. QED
    BY <2>1
<1>8. Change(a, b, t) \in Changes
  BY <1>1, <1>6 DEF Change, Changes
<1>9. QED
  BY <1>2, <1>3, <1>5, <1>6, <1>7, <1>8 DEF t, d

LEMMA RangeSpans ==
  ASSUME NEW lines \in Texts, NEW a, NEW b, IsRange(a, b, lines)
  PROVE  Spans(Change(a, b, GetText(lines, a, b)), Len(lines), Len(DeleteRange(lines, a, b)))
<1> DEFINE t == GetText(lines, a, b)
           d == DeleteRange(lines, a, b)
           c == Change(a, b, t)
<1>1. /\ a.line \in Nat /\ b.line \in Nat /\ Len(lines) \in Nat /\ a.line <= b.line
      /\ Len(t) = b.line - a.line + 1
      /\ Len(d) = Len(lines) - (b.line - a.line) /\ a.line < Len(d)
  BY RangeFacts
<1>2. ~Before(b, a) /\ b.line < Len(lines)
  BY DEF IsRange
<1>3. c.start = a /\ c.end = b /\ c.text = t
  BY DEF Change
<1> HIDE DEF t, d, c
<1>4. Taken(c) = IF t = Nothing THEN 0 ELSE b.line - a.line
  BY <1>3 DEF Taken
<1>5. t = Nothing => b.line - a.line = 0
  <2>1. t = Nothing => Len(t) = 1
    BY NothingFacts
  <2>2. QED
    BY <1>1, <2>1
<1>6. Len(lines) <= Len(d) + Len(t) - 1 /\ Len(d) <= Len(lines) - Taken(c)
  BY <1>1, <1>4, <1>5
<1>7. Spans(c, Len(lines), Len(d))
  BY <1>1, <1>2, <1>3, <1>6 DEF Spans
<1>8. QED
  BY <1>7 DEF c, t, d

LEMMA RangeUndoes ==
  ASSUME NEW lines \in Texts, NEW a, NEW b, IsRange(a, b, lines),
         a.column <= GetLineMaxColumn(Line(lines, a.line))
  PROVE  Undoes(Change(a, b, GetText(lines, a, b)), lines, DeleteRange(lines, a, b))
<1> DEFINE t == GetText(lines, a, b)
           d == DeleteRange(lines, a, b)
           c == Change(a, b, t)
<1>1. a \in Coordinates /\ b \in Coordinates /\ ~Before(b, a) /\ b.line < Len(lines)
  BY DEF IsRange
<1>2. InsertTextAt(d, a, t) = lines
  BY <1>1, PutBack
<1>3. d \in Texts /\ a.line < Len(d)
  BY RangeFacts
<1>4. c.start = a /\ c.end = b /\ c.text = t
  BY DEF Change
<1>5. t = Nothing => d = lines
  <2>1. InsertTextAt(d, a, Nothing) = d
    BY <1>1, <1>3, InsertNothing
  <2>2. QED
    BY <1>2, <2>1
<1>6. DeleteRange(lines, c.start, c.end) = d
  BY <1>4
<1> HIDE DEF t, d, c
<1>7. Undoes(c, lines, d)
  BY <1>2, <1>4, <1>5, <1>6 DEF Undoes, Without, With
<1>8. QED
  BY <1>7 DEF c, t, d

(* The selection removed.                                                   *)

\* A state without a selection allows any text.
Flat(s) == s \in States /\ ~Before(s.end, s.start) /\ ~Selected(s)

LEMMA FlatFacts ==
  ASSUME NEW s, Flat(s), NEW cursor \in Coordinates
  PROVE  /\ [s EXCEPT !.cursor = cursor] \in States
         /\ \A n : StateFits([s EXCEPT !.cursor = cursor], n) /\ StateFits(s, n)
         /\ \A lines : InColumns([s EXCEPT !.cursor = cursor], lines) /\ InColumns(s, lines)
<1> DEFINE t == [s EXCEPT !.cursor = cursor]
<1>1. s \in States
  BY DEF Flat
<1>2. t \in States /\ t.start = s.start /\ t.end = s.end
  BY <1>1 DEF States
<1> HIDE DEF t
<1>3. ~Selected(s) /\ ~Selected(t) /\ ~Before(t.end, t.start) /\ ~Before(s.end, s.start)
  BY <1>2 DEF Flat, Selected
<1>4. \A n : StateFits(t, n) /\ StateFits(s, n)
  BY <1>3 DEF StateFits
<1>5. \A lines : InColumns(t, lines) /\ InColumns(s, lines)
  BY <1>3 DEF InColumns
<1>6. QED
  BY <1>2, <1>4, <1>5 DEF t

LEMMA SelectionFacts ==
  ASSUME Inv
  PROVE  /\ HasSelection => IsRange(mState.start, mState.end, mLines)
         /\ Remaining \in Texts /\ Remaining # <<>>
         /\ SelectionRemoved \in Changes
         /\ Spans(SelectionRemoved, Len(mLines), Len(Remaining))
         /\ exact => Undoes(SelectionRemoved, mLines, Remaining)
         /\ Flat(Collapsed)
         /\ Collapsed.cursor = IF HasSelection THEN SanitizeCoordinates(Remaining, mState.start)
                               ELSE mState.cursor
         /\ Collapsed.cursor \in Coordinates
<1>1. /\ mLines \in Texts /\ mLines # <<>> /\ Len(mLines) \in Nat
      /\ mState \in States /\ StateFits(mState, Len(mLines))
  BY InvTypes
<1>2. mState.start \in Coordinates /\ mState.end \in Coordinates /\ mState.cursor \in Coordinates
  BY CursorFacts
<1>3. ~Before(mState.end, mState.start) /\ (HasSelection => mState.end.line < Len(mLines))
      /\ (HasSelection <=> Selected(mState))
  BY <1>1 DEF StateFits, Selected, HasSelection
<1>4. HasSelection => IsRange(mState.start, mState.end, mLines)
  BY <1>2, <1>3 DEF IsRange
<1>5. CASE HasSelection
  <2> DEFINE a == mState.start
             b == mState.end
             left == SanitizeCoordinates(Remaining, a)
  <2>1. IsRange(a, b, mLines)
    BY <1>4, <1>5
  <2>2. SelectionRemoved = Change(a, b, GetText(mLines, a, b)) /\ Remaining = DeleteRange(mLines, a, b)
        /\ Collapsed = SetSelection(Remaining, left, left, left)
    BY <1>5 DEF SelectionRemoved, Remaining, Collapsed, GetSelectedText
  <2>3. Remaining \in Texts /\ Remaining # <<>> /\ SelectionRemoved \in Changes
    BY <1>1, <2>1, <2>2, RangeFacts
  <2>4. Spans(SelectionRemoved, Len(mLines), Len(Remaining))
    BY <1>1, <2>1, <2>2, RangeSpans
  <2>5. ASSUME exact PROVE Undoes(SelectionRemoved, mLines, Remaining)
    <3>1. a.column <= GetLineMaxColumn(Line(mLines, a.line))
      BY <1>3, <1>5, <2>5 DEF Inv, Exact, InColumns
    <3>2. QED
      BY <1>1, <2>1, <2>2, <3>1, RangeUndoes
  <2>6. left \in Coordinates
    BY <1>2, <2>3, SanitizeFacts DEF InText
  <2> HIDE DEF left
  <2>7. /\ StateIn(Collapsed, Remaining) /\ ~Selected(Collapsed) /\ Collapsed.cursor = left
    BY <2>2, <2>3, <2>6, SetSelectionFacts
  <2>8. Flat(Collapsed)
    BY <2>7 DEF Flat, StateIn, StateFits
  <2>9. QED
    BY <1>2, <1>4, <1>5, <2>3, <2>4, <2>5, <2>6, <2>7, <2>8 DEF left
<1>6. CASE ~HasSelection
  <2>1. SelectionRemoved = NoChange /\ Remaining = mLines /\ Collapsed = mState
    BY <1>6 DEF SelectionRemoved, Remaining, Collapsed
  <2>2. Flat(Collapsed)
    BY <1>1, <1>3, <1>6, <2>1 DEF Flat
  <2>3. QED
    BY <1>1, <1>2, <1>6, <2>1, <2>2, NothingFacts, NothingSpans, NothingUndoes
<1>7. QED
  BY <1>5, <1>6

LEMMA ClipboardType ==
  ASSUME Inv, HasSelection
  PROVE  GetSelectedText \in Texts /\ GetSelectedText # <<>>
<1>1. IsRange(mState.start, mState.end, mLines) /\ mLines \in Texts
  BY SelectionFacts, InvTypes
<1>2. QED
  BY <1>1, RangeFacts DEF GetSelectedText

LEMMA RemoveSelectionKeeps ==
  ASSUME Inv, RemoveSelection, clipboard' \in Texts, clipboard' # <<>>
  PROVE  Inv'
<1>1. /\ mLines' = Remaining /\ mState' = Collapsed
      /\ AddUndo(NoChange, SelectionRemoved, Collapsed)
      /\ interactive' = interactive /\ mOverwrite' = mOverwrite /\ exact' = exact
  BY DEF RemoveSelection
<1>2. PICK rest, state, removed : rest = Remaining /\ state = Collapsed /\ removed = SelectionRemoved
  OBVIOUS
<1>3. /\ rest \in Texts /\ rest # <<>> /\ removed \in Changes /\ Spans(removed, Len(mLines), Len(rest))
      /\ exact => Undoes(removed, mLines, rest)
      /\ Flat(state)
  BY <1>2, SelectionFacts
<1>4. mLines' = rest /\ mState' = state /\ AddUndo(NoChange, removed, state)
  BY <1>1, <1>2
<1>5. state \in States /\ StateFits(state, Len(rest)) /\ InColumns(state, rest)
  <2>1. At(0, 0) \in Coordinates
    BY DEF At, Coordinates
  <2>2. QED
    BY <1>3, <2>1, FlatFacts DEF Flat
<1>6. NoChange \in Changes /\ Spans(NoChange, Len(rest), Len(rest)) /\ Undoes(NoChange, rest, rest)
  <2>1. Len(rest) \in Nat
    BY <1>3, TextLength
  <2>2. QED
    BY <2>1, NothingFacts, NothingSpans, NothingUndoes
<1>7. exact' \in BOOLEAN
  BY <1>1, InvTypes
<1>8. /\ Spans(NoChange, Len(mLines'), Len(rest))
      /\ exact' => /\ exact /\ InColumns(mState', mLines') /\ InColumns(state, mLines')
                   /\ Undoes(removed, mLines, rest) /\ Undoes(NoChange, mLines', rest)
      /\ mState' \in States /\ StateFits(mState', Len(mLines')) /\ StateFits(state, Len(mLines'))
      /\ mLines' \in Texts /\ mLines' # <<>>
  BY <1>1, <1>3, <1>4, <1>5, <1>6
<1>9. QED
  BY <1>1, <1>3, <1>4, <1>5, <1>6, <1>7, <1>8, EditKeeps

LEMMA CopyKeeps ==
  ASSUME Inv, Copy
  PROVE  Inv'
<1>1. clipboard' \in Texts /\ clipboard' # <<>>
  <2>1. CASE HasSelection
    BY <2>1, ClipboardType DEF Copy
  <2>2. CASE ~HasSelection
    <3>1. Line(mLines, GetActualCursorCoordinates.line) \in Seq(Alphabet)
      BY CursorFacts, InvTypes, TextFacts
    <3>2. QED
      BY <2>2, <3>1 DEF Copy, Texts, Alphabet
  <2>3. QED
    BY <2>1, <2>2
<1>2. /\ UNCHANGED <<mLines, mUndoBuffer, mUndoIndex, past, exact, mState, interactive, mOverwrite>>
  BY DEF Copy, history
<1>3. /\ mState \in States /\ StateFits(mState, Len(mLines)) /\ mOverwrite \in BOOLEAN
      /\ interactive \in [start : Coordinates, end : Coordinates]
      /\ exact => InColumns(mState, mLines)
  BY InvTypes DEF Inv, Exact
<1>4. QED
  BY <1>1, <1>2, <1>3, TextKept

LEMMA SelectAllKeeps ==
  ASSUME Inv, SelectAll \/ ToggleOverwrite
  PROVE  Inv'
<1>1. /\ mState \in States /\ StateFits(mState, Len(mLines)) /\ mOverwrite \in BOOLEAN
      /\ interactive \in [start : Coordinates, end : Coordinates]
      /\ exact => InColumns(mState, mLines)
      /\ clipboard \in Texts /\ clipboard # <<>>
      /\ mLines \in Texts /\ mLines # <<>> /\ Len(mLines) \in Nat
  BY InvTypes DEF Inv, Exact
<1>2. CASE SelectAll
  <2> DEFINE state == SetSelection(mLines, At(0, 0), At(Len(mLines), 0), mState.cursor)
  <2>1. At(0, 0) \in Coordinates /\ At(Len(mLines), 0) \in Coordinates /\ mState.cursor \in Coordinates
    BY <1>1, CursorFacts DEF At, Coordinates
  <2>2. StateIn(state, mLines)
    BY <1>1, <2>1, SetSelectionFacts
  <2>3. mState' = state /\ UNCHANGED <<mLines, mUndoBuffer, mUndoIndex, past, exact, interactive, mOverwrite, clipboard>>
    BY <1>2 DEF SelectAll, settings, history
  <2> HIDE DEF state
  <2>4. mState' \in States /\ StateFits(mState', Len(mLines)) /\ InColumns(mState', mLines)
    BY <2>2, <2>3 DEF StateIn
  <2>5. QED
    BY <1>1, <2>3, <2>4, TextKept
<1>3. CASE ToggleOverwrite
  <2>1. /\ mOverwrite' \in BOOLEAN
        /\ UNCHANGED <<mLines, mUndoBuffer, mUndoIndex, past, exact, mState, interactive, clipboard>>
    BY <1>3 DEF ToggleOverwrite, history
  <2>2. QED
    BY <1>1, <2>1, TextKept
<1>4. QED
  BY <1>2, <1>3

\* No key or mouse button that moves the cursor breaks the invariant.
LEMMA MoveKeeps == Inv /\ Move => Inv'
<1> SUFFICES ASSUME Inv, Move PROVE Inv'
  OBVIOUS
<1>1. CASE SelectAll \/ ToggleOverwrite
  BY <1>1, SelectAllKeeps
<1>2. CASE Copy
  BY <1>2, CopyKeeps
<1>3. ASSUME NEW select \in BOOLEAN,
             \E amount \in {1} \cup Pages : MoveUp(amount, select) \/ MoveDown(amount, select)
      PROVE  Inv'
  BY <1>3, VerticalKeeps, PageAssumption
<1>4. ASSUME NEW select \in BOOLEAN, MoveLeft(select) PROVE Inv'
  BY <1>4, LeftKeeps
<1>5. ASSUME NEW select \in BOOLEAN, MoveRight(select) PROVE Inv'
  BY <1>5, RightKeeps
<1>6. ASSUME NEW select \in BOOLEAN,
             MoveTop(select) \/ MoveBottom(select) \/ MoveHome(select) \/ MoveEnd(select)
      PROVE  Inv'
  BY <1>6, EndsKeep
<1>7. ASSUME NEW pos \in ScreenPosToCoordinates, Click(pos) \/ Drag(pos) PROVE Inv'
  BY <1>7, MouseKeeps
<1>8. QED
  BY <1>1, <1>2, <1>3, <1>4, <1>5, <1>6, <1>7 DEF Move

(* Delete and Backspace.                                                    *)

LEMMA AtFacts ==
  ASSUME NEW l \in Nat, NEW k \in Nat
  PROVE  At(l, k) \in Coordinates /\ At(l, k).line = l /\ At(l, k).column = k
BY DEF At, Coordinates

LEMMA EmptyLine ==
  ASSUME NEW s \in Seq(Alphabet), Len(s) = 0
  PROVE  s = <<>>
BY EmptySeq

\* The line begins at column 0, and ends at its last column.
LEMMA LineEnds ==
  ASSUME NEW lines \in Texts, NEW l \in 0 .. Len(lines) - 1
  PROVE  LET start == At(l, 0)
             end == At(l, GetLineMaxColumn(Line(lines, l)))
         IN  /\ InText(start, lines) /\ InText(end, lines) /\ ~Before(end, start)
             /\ Prefix(lines, start) = <<>> /\ Suffix(lines, start) = Line(lines, l)
             /\ Prefix(lines, end) = Line(lines, l) /\ Suffix(lines, end) = <<>>
<1> DEFINE line == Line(lines, l)
           max == GetLineMaxColumn(line)
           start == At(l, 0)
           end == At(l, max)
<1>1. l \in Nat /\ Len(lines) \in Nat /\ l < Len(lines)
  BY LenProperties DEF Texts
<1>2. line \in Seq(Alphabet) /\ Len(line) \in Nat
  BY TextFacts
<1>3. max \in Nat /\ max = GetCharacterColumn(line, Len(line)) /\ 0 = GetCharacterColumn(line, 0)
  <2>1. 0 \in Nat
    OBVIOUS
  <2>2. QED
    BY <1>2, <2>1, ColumnType, ColumnFacts
<1>4. /\ start \in Coordinates /\ start.line = l /\ start.column = 0
      /\ end \in Coordinates /\ end.line = l /\ end.column = max
  BY <1>1, <1>3, AtFacts
<1>5. line = Line(lines, start.line) /\ line = Line(lines, end.line)
  BY <1>4
<1> HIDE DEF line, max, start, end
<1>6. InText(start, lines) /\ InText(end, lines) /\ ~Before(end, start)
  BY <1>1, <1>3, <1>4, <1>5 DEF InText, Before, max
<1>7. GetCharacterIndex(lines, start) = 0
  <2>1. 0 \in 0 .. Len(line)
    BY <1>2
  <2>2. QED
    BY <1>2, <1>3, <1>4, <1>5, <2>1, ColumnIndex
<1>8. GetCharacterIndex(lines, end) = Len(line)
  <2>1. Len(line) \in 0 .. Len(line)
    BY <1>2
  <2>2. QED
    BY <1>2, <1>3, <1>4, <1>5, <2>1, ColumnIndex
<1>9. PlaceIs(lines, start, line, 0)
  <2>1. PICK other, k : PlaceIs(lines, start, other, k)
    BY <1>1, <1>4, Places
  <2>2. other = line /\ k = 0
    BY <1>5, <1>7, <2>1 DEF PlaceIs
  <2>3. QED
    BY <2>1, <2>2
<1>10. PlaceIs(lines, end, line, Len(line))
  <2>1. PICK other, k : PlaceIs(lines, end, other, k)
    BY <1>1, <1>4, Places
  <2>2. other = line /\ k = Len(line)
    BY <1>5, <1>8, <2>1 DEF PlaceIs
  <2>3. QED
    BY <2>1, <2>2
<1>11. Prefix(lines, start) = <<>> /\ Suffix(lines, end) = <<>>
  <2>1. Len(Prefix(lines, start)) = 0 /\ Prefix(lines, start) \in Seq(Alphabet)
    BY <1>9 DEF PlaceIs
  <2>2. Len(Suffix(lines, end)) = Len(line) - Len(line) /\ Suffix(lines, end) \in Seq(Alphabet)
    BY <1>10 DEF PlaceIs
  <2>3. Len(line) - Len(line) = 0
    BY <1>2
  <2>4. QED
    BY <2>1, <2>2, <2>3, EmptyLine
<1>12. Suffix(lines, start) = line /\ Prefix(lines, end) = line
  <2>1. /\ Prefix(lines, start) \o Suffix(lines, start) = line
        /\ Prefix(lines, end) \o Suffix(lines, end) = line
        /\ Suffix(lines, start) \in Seq(Alphabet) /\ Prefix(lines, end) \in Seq(Alphabet)
    BY <1>9, <1>10 DEF PlaceIs
  <2>2. <<>> \o Suffix(lines, start) = Suffix(lines, start)
        /\ Prefix(lines, end) \o <<>> = Prefix(lines, end)
    BY <2>1, ConcatEmptySeq
  <2>3. QED
    BY <1>11, <2>1, <2>2
<1>13. QED
  BY <1>6, <1>11, <1>12 DEF start, end, max, line

LEMMA NewLineIs ==
  /\ NewLine \in Texts /\ NewLine # <<>> /\ Len(NewLine) = 2 /\ NewLine # Nothing
  /\ NewLine[1] = <<>> /\ NewLine[2] = <<>>
<1>1. <<>> \in Seq(Characters \cup {Blank, Tab})
  BY EmptySeq
<1>2. Len(NewLine) = 2 /\ NewLine[1] = <<>> /\ NewLine[2] = <<>> /\ NewLine \in Texts /\ NewLine # <<>>
  BY <1>1 DEF NewLine, Texts
<1>3. NewLine # Nothing
  <2>1. NewLine = Nothing => Len(NewLine) = 1
    BY NothingFacts
  <2>2. QED
    BY <1>2, <2>1
<1>4. QED
  BY <1>2, <1>3

\* The step of a key that removes a range, without a selection.
LEMMA RemovalKeeps ==
  ASSUME Inv, ~HasSelection, NEW removed \in Changes, NEW cursor \in Coordinates, NEW rest \in Texts,
         rest # <<>>, mLines' = rest, mState' = [mState EXCEPT !.cursor = cursor],
         AddUndo(NoChange, removed, [mState EXCEPT !.cursor = cursor]),
         UNCHANGED <<interactive, mOverwrite, clipboard>>, exact' \in BOOLEAN,
         Spans(removed, Len(mLines), Len(rest)),
         exact' => exact /\ Undoes(removed, mLines, rest)
  PROVE  Inv'
<1> DEFINE after == [mState EXCEPT !.cursor = cursor]
<1>1. Flat(mState)
  BY SelectionFacts DEF Collapsed
<1>2. after \in States /\ StateFits(after, Len(rest)) /\ InColumns(after, rest)
  BY <1>1, FlatFacts
<1>3. NoChange \in Changes /\ Spans(NoChange, Len(rest), Len(rest)) /\ Undoes(NoChange, rest, rest)
  <2>1. Len(rest) \in Nat
    BY TextLength
  <2>2. QED
    BY <2>1, NothingFacts, NothingSpans, NothingUndoes
<1>4. AddUndo(NoChange, removed, after) /\ mState' = after
  OBVIOUS
<1> HIDE DEF after
<1>5. /\ Spans(NoChange, Len(mLines'), Len(rest))
      /\ exact' => /\ exact /\ InColumns(mState', mLines') /\ InColumns(after, mLines')
                   /\ Undoes(removed, mLines, rest) /\ Undoes(NoChange, mLines', rest)
      /\ mState' \in States /\ StateFits(mState', Len(mLines')) /\ StateFits(after, Len(mLines'))
      /\ mLines' \in Texts /\ mLines' # <<>>
  BY <1>2, <1>3, <1>4
<1>6. clipboard' \in Texts /\ clipboard' # <<>>
  BY InvTypes
<1>7. QED
  BY <1>2, <1>3, <1>4, <1>5, <1>6, EditKeeps

LEMMA JoinLinesKeeps ==
  ASSUME Inv, ~HasSelection, NEW l \in Nat, l + 1 < Len(mLines), NEW cursor \in Coordinates,
         JoinLines(l, cursor)
  PROVE  Inv'
<1> DEFINE a == At(l, GetLineMaxColumn(Line(mLines, l)))
           b == At(l + 1, 0)
           rest == DeleteRange(mLines, a, b)
           t == GetText(mLines, a, b)
<1>1. mLines \in Texts /\ Len(mLines) \in Nat /\ exact \in BOOLEAN
  BY InvTypes
<1>2. l \in 0 .. Len(mLines) - 1 /\ l + 1 \in 0 .. Len(mLines) - 1
  BY <1>1
<1>3. InText(a, mLines) /\ Suffix(mLines, a) = <<>>
  BY <1>1, <1>2, LineEnds
<1>4. InText(b, mLines) /\ Prefix(mLines, b) = <<>>
  BY <1>1, <1>2, LineEnds
<1>5. a.line = l /\ b.line = l + 1
  BY DEF At
<1>6. /\ mLines' = rest /\ mState' = [mState EXCEPT !.cursor = cursor]
      /\ AddUndo(NoChange, Change(a, b, NewLine), [mState EXCEPT !.cursor = cursor])
      /\ UNCHANGED <<interactive, mOverwrite, clipboard, exact>>
  BY DEF JoinLines, settings
<1> HIDE DEF a, b
<1>7. IsRange(a, b, mLines)
  <2>1. ~Before(b, a)
    BY <1>5 DEF Before
  <2>2. QED
    BY <1>3, <1>4, <2>1 DEF IsRange, InText
<1>8. t = NewLine
  <2>1. GotIs(t, mLines, a, b, b.line - a.line + 1)
    BY <1>1, <1>7, GetTextFacts DEF IsRange
  <2>2. b.line - a.line + 1 = 2
    BY <1>5
  <2>3. t \in Texts /\ Len(t) = 2 /\ t[1] = <<>> /\ t[2] = <<>>
    BY <1>3, <1>4, <2>1, <2>2 DEF GotIs
  <2>4. t \in Seq(Seq(Alphabet)) /\ NewLine \in Seq(Seq(Alphabet))
    BY <2>3, NewLineIs DEF Texts, Alphabet
  <2> HIDE DEF t
  <2>5. \A i \in 1 .. Len(t) : t[i] = NewLine[i]
    <3>1. \A i \in 1 .. 2 : i = 1 \/ i = 2
      OBVIOUS
    <3>2. QED
      BY <2>3, <3>1, NewLineIs
  <2>6. QED
    BY <2>3, <2>4, <2>5, NewLineIs, SeqEqual
<1>9. /\ Change(a, b, NewLine) \in Changes /\ rest \in Texts /\ rest # <<>>
      /\ Spans(Change(a, b, NewLine), Len(mLines), Len(rest))
  BY <1>1, <1>7, <1>8, RangeFacts, RangeSpans
<1>10. Undoes(Change(a, b, NewLine), mLines, rest)
  <2>1. a.column <= GetLineMaxColumn(Line(mLines, a.line))
    BY <1>3 DEF InText
  <2>2. QED
    BY <1>1, <1>7, <1>8, <2>1, RangeUndoes
<1> HIDE DEF rest
<1>11. QED
  BY <1>1, <1>6, <1>9, <1>10, RemovalKeeps

\* A range within a line.
LEMMA ReplaceIs ==
  ASSUME NEW lines \in Texts, NEW l \in 0 .. Len(lines) - 1, NEW x \in Seq(Alphabet)
  PROVE  /\ ReplaceAt(lines, l + 1, x) \in Texts /\ Len(ReplaceAt(lines, l + 1, x)) = Len(lines)
         /\ Line(ReplaceAt(lines, l + 1, x), l) = x
         /\ \A i \in 1 .. Len(lines) : i # l + 1 => ReplaceAt(lines, l + 1, x)[i] = lines[i]
         /\ \A u \in Texts : Len(u) = Len(lines) /\ Line(u, l) = x
                              /\ (\A i \in 1 .. Len(lines) : i # l + 1 => u[i] = lines[i])
                              => u = ReplaceAt(lines, l + 1, x)
<1> DEFINE r == ReplaceAt(lines, l + 1, x)
<1>1. lines \in Seq(Seq(Alphabet)) /\ Len(lines) \in Nat
  BY LenProperties DEF Texts, Alphabet
<1>2. l + 1 \in 1 .. Len(lines)
  BY <1>1
<1>3. /\ r \in Seq(Seq(Alphabet)) /\ Len(r) = Len(lines)
      /\ \A j \in 1 .. Len(lines) : r[j] = IF j = l + 1 THEN x ELSE lines[j]
  BY <1>1, <1>2, ExceptSeq DEF ReplaceAt
<1> HIDE DEF r
<1>4. r \in Texts /\ Line(r, l) = x /\ \A i \in 1 .. Len(lines) : i # l + 1 => r[i] = lines[i]
  BY <1>2, <1>3 DEF Texts, Alphabet, Line
<1>5. ASSUME NEW u \in Texts, Len(u) = Len(lines), Line(u, l) = x,
             \A i \in 1 .. Len(lines) : i # l + 1 => u[i] = lines[i]
      PROVE  u = r
  <2>1. u \in Seq(Seq(Alphabet)) /\ Len(u) = Len(r)
    BY <1>3, <1>5 DEF Texts, Alphabet
  <2>2. \A i \in 1 .. Len(u) : u[i] = r[i]
    <3>1. u[l + 1] = x
      BY <1>5 DEF Line
    <3>2. QED
      BY <1>3, <1>5, <3>1
  <2>3. QED
    BY <1>3, <2>1, <2>2, SeqEqual
<1>6. QED
  BY <1>3, <1>4, <1>5 DEF r

LEMMA DeleteInLine ==
  ASSUME NEW lines \in Texts, NEW a, NEW b, IsRange(a, b, lines), a.line = b.line
  PROVE  DeleteRange(lines, a, b) = ReplaceAt(lines, a.line + 1, Prefix(lines, a) \o Suffix(lines, b))
<1> DEFINE d == DeleteRange(lines, a, b)
           x == Prefix(lines, a) \o Suffix(lines, b)
<1>1. a \in Coordinates /\ b \in Coordinates /\ b.line < Len(lines) /\ a.line <= b.line
  BY RangeFacts DEF IsRange
<1>2. a.line \in Nat /\ Len(lines) \in Nat /\ a.line \in 0 .. Len(lines) - 1
  BY <1>1, RangeFacts
<1>3. x \in Seq(Alphabet)
  <2>1. a.line < Len(lines)
    BY <1>1
  <2>2. Prefix(lines, a) \in Seq(Alphabet) /\ Suffix(lines, b) \in Seq(Alphabet)
    BY <1>1, <2>1, Places DEF PlaceIs
  <2>3. QED
    BY <2>2, ConcatProperties
<1>4. /\ d \in Texts /\ Len(d) = Len(lines) - (b.line - a.line) /\ Line(d, a.line) = x
      /\ \A i \in 1 .. a.line : d[i] = lines[i]
      /\ \A i \in 1 .. Len(lines) - (b.line + 1) : d[a.line + 1 + i] = lines[b.line + 1 + i]
  BY <1>1, DeleteFacts
<1> HIDE DEF d, x
<1>5. Len(d) = Len(lines)
  BY <1>2, <1>4
<1>6. ASSUME NEW i \in 1 .. Len(lines), i # a.line + 1 PROVE d[i] = lines[i]
  <2>1. CASE i \in 1 .. a.line
    BY <1>4, <2>1
  <2>2. CASE i \notin 1 .. a.line
    <3>1. PICK j \in 1 .. Len(lines) - (b.line + 1) : i = a.line + 1 + j
      <4>1. i - (a.line + 1) \in 1 .. Len(lines) - (b.line + 1) /\ i = a.line + 1 + (i - (a.line + 1))
        BY <1>2, <1>6, <2>2
      <4>2. QED
        BY <4>1
    <3>2. d[a.line + 1 + j] = lines[b.line + 1 + j] /\ b.line + 1 + j = a.line + 1 + j
      BY <1>4
    <3>3. QED
      BY <3>1, <3>2
  <2>3. QED
    BY <2>1, <2>2
<1>7. d = ReplaceAt(lines, a.line + 1, x)
  BY <1>2, <1>3, <1>4, <1>5, <1>6, ReplaceIs
<1>8. QED
  BY <1>7 DEF d, x

LEMMA RemoveAtType ==
  ASSUME NEW S, NEW s \in Seq(S), NEW i \in 1 .. Len(s)
  PROVE  RemoveAt(s, i) \in Seq(S)
<1>1. Len(s) \in Nat
  BY LenProperties
<1>2. i - 1 \in 0 .. Len(s) /\ i \in Nat /\ Len(s) \in 0 .. Len(s) /\ i <= Len(s) + 1
  BY <1>1
<1>3. SubSeq(s, 1, i - 1) \in Seq(S)
  BY <1>2, FirstPart
<1>4. SubSeq(s, i + 1, Len(s)) \in Seq(S)
  BY <1>2, PartFacts
<1>5. QED
  BY <1>3, <1>4, ConcatProperties DEF RemoveAt

\* The cursor, its line and its index.
CursorAt(pos, line, index) ==
  /\ pos = GetActualCursorCoordinates /\ InText(pos, mLines) /\ pos \in Coordinates
  /\ pos.line \in Nat /\ pos.column \in Nat /\ pos.line \in 0 .. Len(mLines) - 1
  /\ line = Line(mLines, pos.line) /\ line \in Seq(Alphabet) /\ Len(line) \in Nat
  /\ index = GetCharacterIndex(mLines, pos) /\ index \in 0 .. Len(line)
  /\ GetLineMaxColumn(line) \in Nat /\ pos.column <= GetLineMaxColumn(line)
  /\ GetLineMaxColumn(line) = GetCharacterColumn(line, Len(line))
  /\ \A i \in 0 .. Len(line) : GetCharacterColumn(line, i) \in Nat
  /\ \A i \in 0 .. index - 1 : GetCharacterColumn(line, i) < pos.column
  /\ GetCharacterColumn(line, index) >= pos.column

LEMMA CursorIs ==
  ASSUME Inv
  PROVE  \E pos, line, index : CursorAt(pos, line, index)
<1> DEFINE pos == GetActualCursorCoordinates
           line == Line(mLines, pos.line)
           index == GetCharacterIndex(mLines, pos)
<1>1. /\ InText(pos, mLines) /\ pos \in Coordinates /\ pos.line \in 0 .. Len(mLines) - 1
      /\ pos.column \in Nat /\ mLines \in Texts /\ Len(mLines) \in Nat
  BY CursorFacts, InvTypes
<1>2. line \in Seq(Alphabet) /\ Len(line) \in Nat
  BY <1>1, TextFacts
<1>3. /\ GetLineMaxColumn(line) \in Nat /\ GetLineMaxColumn(line) = GetCharacterColumn(line, Len(line))
      /\ \A i \in 0 .. Len(line) : GetCharacterColumn(line, i) \in Nat
  BY <1>2, ColumnType
<1>4. pos.column <= GetLineMaxColumn(line) /\ pos.line \in Nat
  BY <1>1 DEF InText
<1>5. /\ index \in 0 .. Len(line)
      /\ \A i \in 0 .. index - 1 : GetCharacterColumn(line, i) < pos.column
      /\ GetCharacterColumn(line, index) >= pos.column
  BY <1>1, <1>2, <1>4, IndexFacts
<1>6. CursorAt(pos, line, index)
  BY <1>1, <1>2, <1>3, <1>4, <1>5, Zenon DEF CursorAt
<1>7. QED
  BY <1>6

LEMMA DeleteCharKeeps ==
  ASSUME Inv, ~HasSelection, NEW pos, NEW line, NEW index, CursorAt(pos, line, index),
         pos.column # GetLineMaxColumn(line), NEW end, end = At(pos.line, pos.column + 1),
         mLines' = IF index < Len(line)
                   THEN ReplaceAt(mLines, pos.line + 1, RemoveAt(line, index + 1)) ELSE mLines,
         mState' = [mState EXCEPT !.cursor = pos],
         AddUndo(NoChange, Change(pos, end, GetText(mLines, pos, end)), [mState EXCEPT !.cursor = pos]),
         Recorded(OnBoundary(mLines, pos)), UNCHANGED <<interactive, mOverwrite, clipboard>>
  PROVE  Inv'
<1> DEFINE l == pos.line
           x == RemoveAt(line, index + 1)
           removed == Change(pos, end, GetText(mLines, pos, end))
<1>1. PICK rest : rest = mLines'
  OBVIOUS
<1>2. /\ mLines \in Texts /\ mLines # <<>> /\ Len(mLines) \in Nat /\ Len(mLines) >= 1 /\ exact \in BOOLEAN
  BY InvTypes
<1>3. /\ pos \in Coordinates /\ l \in Nat /\ pos.column \in Nat /\ l \in 0 .. Len(mLines) - 1
      /\ line = Line(mLines, l) /\ line \in Seq(Alphabet) /\ Len(line) \in Nat
      /\ index = GetCharacterIndex(mLines, pos) /\ index \in 0 .. Len(line)
      /\ pos.column <= GetLineMaxColumn(line) /\ InText(pos, mLines)
      /\ GetLineMaxColumn(line) = GetCharacterColumn(line, Len(line))
      /\ \A i \in 0 .. Len(line) : GetCharacterColumn(line, i) \in Nat
      /\ \A i \in 0 .. index - 1 : GetCharacterColumn(line, i) < pos.column
  BY DEF CursorAt
<1>4. end \in Coordinates /\ end.line = l /\ end.column = pos.column + 1
  <2>1. pos.column + 1 \in Nat
    BY <1>3
  <2>2. QED
    BY <1>3, <2>1, AtFacts
<1>5. IsRange(pos, end, mLines)
  BY <1>2, <1>3, <1>4 DEF IsRange, Before
<1>6. index < Len(line) => x \in Seq(Alphabet)
  <2>1. index < Len(line) => index + 1 \in 1 .. Len(line)
    BY <1>3
  <2>2. QED
    BY <1>3, <2>1, RemoveAtType
<1>7. rest \in Texts /\ Len(rest) = Len(mLines) /\ rest # <<>>
  <2>1. rest \in Texts /\ Len(rest) = Len(mLines)
    BY <1>1, <1>2, <1>3, <1>6, ReplaceIs
  <2>2. Len(rest) >= 1
    BY <1>2, <2>1
  <2>3. QED
    BY <2>1, <2>2
<1>8. /\ removed \in Changes /\ Len(DeleteRange(mLines, pos, end)) = Len(mLines)
      /\ Spans(removed, Len(mLines), Len(DeleteRange(mLines, pos, end)))
  <2>1. end.line - pos.line = 0
    BY <1>3, <1>4
  <2>2. Len(mLines) - 0 = Len(mLines)
    BY <1>2
  <2>3. QED
    BY <1>2, <1>5, <2>1, <2>2, RangeFacts, RangeSpans
<1>9. ASSUME exact' PROVE exact /\ Undoes(removed, mLines, rest)
  <2>1. exact /\ GetCharacterColumn(line, index) = pos.column
    BY <1>3, <1>9 DEF Recorded, OnBoundary
  <2>2. index # Len(line) /\ index < Len(line) /\ index \in Nat /\ index + 1 \in 0 .. Len(line)
    BY <1>3, <2>1
  <2>3. GetCharacterColumn(line, index + 1) >= end.column
    <3>1. GetCharacterColumn(line, index + 1) = NextColumn(GetCharacterColumn(line, index), line[index + 1])
      BY <2>2, ColumnFacts
    <3>2. GetCharacterColumn(line, index + 1) \in Nat /\ GetCharacterColumn(line, index + 1) > pos.column
      BY <1>3, <2>1, <3>1, Further
    <3>3. QED
      BY <1>3, <1>4, <3>2
  <2>4. \A i \in 0 .. (index + 1) - 1 : GetCharacterColumn(line, i) < end.column
    <3>1. ASSUME NEW i \in 0 .. (index + 1) - 1 PROVE GetCharacterColumn(line, i) < end.column
      <4>1. i = index \/ i \in 0 .. index - 1
        BY <2>2
      <4>2. i \in 0 .. Len(line)
        BY <1>3, <2>2
      <4>3. GetCharacterColumn(line, i) \in Nat /\ GetCharacterColumn(line, i) <= pos.column
        BY <1>3, <2>1, <4>1, <4>2
      <4>4. QED
        BY <1>3, <1>4, <4>3
    <3>2. QED
      BY <3>1
  <2>5. GetCharacterIndex(mLines, end) = index + 1
    BY <1>3, <1>4, <2>2, <2>3, <2>4, IndexIs
  <2>6. x = Prefix(mLines, pos) \o Suffix(mLines, end)
    <3>1. (index + 1) - 1 = index
      BY <2>2
    <3>2. QED
      BY <1>3, <1>4, <2>5, <3>1 DEF Prefix, Suffix, RemoveAt
  <2>7. rest = DeleteRange(mLines, pos, end)
    BY <1>1, <1>2, <1>4, <1>5, <2>2, <2>6, DeleteInLine
  <2>8. pos.column <= GetLineMaxColumn(Line(mLines, pos.line))
    BY <1>3
  <2>9. Undoes(removed, mLines, rest)
    BY <1>2, <1>5, <2>7, <2>8, RangeUndoes
  <2>10. QED
    BY <2>1, <2>9
<1>10. exact' \in BOOLEAN
  BY DEF Recorded
<1>11. AddUndo(NoChange, removed, [mState EXCEPT !.cursor = pos])
  OBVIOUS
<1> HIDE DEF removed
<1>12. QED
  BY <1>1, <1>3, <1>7, <1>8, <1>9, <1>10, <1>11, RemovalKeeps

LEMMA DeleteKeeps == Inv /\ Delete => Inv'
<1> SUFFICES ASSUME Inv, Delete PROVE Inv'
  OBVIOUS
<1>1. PICK pos, line, index : CursorAt(pos, line, index)
  BY CursorIs
<1>2. /\ pos = GetActualCursorCoordinates /\ line = Line(mLines, pos.line)
      /\ index = GetCharacterIndex(mLines, pos) /\ pos \in Coordinates /\ pos.line \in Nat
      /\ pos.line \in 0 .. Len(mLines) - 1
  BY <1>1 DEF CursorAt
<1>3. /\ Len(mLines) \in Nat /\ clipboard \in Texts /\ clipboard # <<>> /\ mOverwrite \in BOOLEAN
      /\ interactive \in [start : Coordinates, end : Coordinates]
  BY InvTypes
<1>4. CASE RemoveSelection /\ UNCHANGED clipboard
  <2>1. clipboard' \in Texts /\ clipboard' # <<>>
    BY <1>3, <1>4
  <2>2. QED
    BY <1>4, <2>1, RemoveSelectionKeeps
<1>5. CASE /\ ~HasSelection /\ pos.line = Len(mLines) - 1
           /\ mState' = [mState EXCEPT !.cursor = pos]
           /\ UNCHANGED <<mLines, interactive, settings, history>>
  <2>1. Flat(mState)
    BY <1>5, SelectionFacts DEF Collapsed
  <2>2. mState' \in States /\ StateFits(mState', Len(mLines)) /\ InColumns(mState', mLines)
    BY <1>2, <1>5, <2>1, FlatFacts
  <2>3. UNCHANGED <<mLines, mUndoBuffer, mUndoIndex, past, exact, interactive, mOverwrite, clipboard>>
    BY <1>5 DEF settings, history
  <2>4. QED
    BY <1>3, <2>2, <2>3, TextKept
<1>6. CASE ~HasSelection /\ pos.line # Len(mLines) - 1 /\ JoinLines(pos.line, pos)
  <2>1. pos.line + 1 < Len(mLines)
    BY <1>2, <1>3, <1>6
  <2>2. QED
    BY <1>2, <1>6, <2>1, JoinLinesKeeps
<1>7. CASE LET end == At(pos.line, pos.column + 1)
               after == [mState EXCEPT !.cursor = pos]
           IN  /\ ~HasSelection
               /\ pos.column # GetLineMaxColumn(line)
               /\ mLines' = IF index < Len(line)
                            THEN ReplaceAt(mLines, pos.line + 1, RemoveAt(line, index + 1)) ELSE mLines
               /\ mState' = after
               /\ AddUndo(NoChange, Change(pos, end, GetText(mLines, pos, end)), after)
               /\ Recorded(OnBoundary(mLines, pos))
               /\ UNCHANGED <<interactive, settings>>
  <2>1. PICK end : end = At(pos.line, pos.column + 1)
    OBVIOUS
  <2>2. UNCHANGED <<interactive, mOverwrite, clipboard>>
    BY <1>7 DEF settings
  <2>3. QED
    BY <1>1, <1>7, <2>1, <2>2, DeleteCharKeeps
<1>8. QED
  BY <1>2, <1>4, <1>5, <1>6, <1>7 DEF Delete

LEMMA OneItem ==
  ASSUME NEW S, NEW s \in Seq(S), NEW i \in 1 .. Len(s)
  PROVE  SubSeq(s, i, i) = <<s[i]>>
<1>1. Len(s) \in Nat
  BY LenProperties
<1>2. PICK p \in Nat : p = i - 1
  BY <1>1
<1>3. p + 1 = i /\ p <= i + 1 /\ i \in 0 .. Len(s) /\ i - p = 1 /\ p < i
  BY <1>1, <1>2
<1>4. /\ SubSeq(s, p + 1, i) \in Seq(S)
      /\ Len(SubSeq(s, p + 1, i)) = IF p < i THEN i - p ELSE 0
      /\ \A j \in 1 .. i - p : SubSeq(s, p + 1, i)[j] = s[p + j]
  BY <1>3, PartFacts
<1>5. PICK t : t = SubSeq(s, p + 1, i)
  OBVIOUS
<1>6. t \in Seq(S) /\ Len(t) = 1 /\ t[1] = s[i]
  <2>1. p + 1 = i /\ 1 \in 1 .. i - p
    BY <1>3
  <2>2. QED
    BY <1>3, <1>4, <1>5, <2>1
<1>7. PICK x \in S : x = s[i]
  BY ElementOfSeq
<1>8. <<x>> \in Seq(S) /\ Len(<<x>>) = 1 /\ <<x>>[1] = x
  OBVIOUS
<1>9. t = <<x>>
  BY <1>6, <1>7, <1>8, SeqEqual
<1>10. QED
  BY <1>3, <1>5, <1>7, <1>9

LEMMA BackspaceCharKeeps ==
  ASSUME Inv, ~HasSelection, NEW pos, NEW line, NEW index, CursorAt(pos, line, index),
         pos.column # 0, NEW start, start = At(pos.line, pos.column - 1),
         mLines' = ReplaceAt(mLines, pos.line + 1, RemoveAt(line, index)),
         mState' = [mState EXCEPT !.cursor = start],
         AddUndo(NoChange, Change(start, pos, << <<line[index]>> >>), [mState EXCEPT !.cursor = start]),
         Recorded(line[index] # Tab), UNCHANGED <<interactive, mOverwrite, clipboard>>
  PROVE  Inv'
<1> DEFINE l == pos.line
           x == RemoveAt(line, index)
           text == << <<line[index]>> >>
           removed == Change(start, pos, text)
<1>1. PICK rest : rest = mLines'
  OBVIOUS
<1>2. /\ mLines \in Texts /\ mLines # <<>> /\ Len(mLines) \in Nat /\ Len(mLines) >= 1 /\ exact \in BOOLEAN
  BY InvTypes
<1>3. /\ pos \in Coordinates /\ l \in Nat /\ pos.column \in Nat /\ l \in 0 .. Len(mLines) - 1
      /\ line = Line(mLines, l) /\ line \in Seq(Alphabet) /\ Len(line) \in Nat
      /\ index = GetCharacterIndex(mLines, pos) /\ index \in 0 .. Len(line)
      /\ pos.column <= GetLineMaxColumn(line) /\ InText(pos, mLines)
      /\ GetLineMaxColumn(line) = GetCharacterColumn(line, Len(line))
      /\ \A i \in 0 .. Len(line) : GetCharacterColumn(line, i) \in Nat
      /\ \A i \in 0 .. index - 1 : GetCharacterColumn(line, i) < pos.column
      /\ GetCharacterColumn(line, index) >= pos.column
  BY DEF CursorAt
<1>4. pos.column - 1 \in Nat /\ start \in Coordinates /\ start.line = l /\ start.column = pos.column - 1
  <2>1. pos.column - 1 \in Nat
    BY <1>3
  <2>2. QED
    BY <1>3, <2>1, AtFacts
<1>5. index \in 1 .. Len(line) /\ index - 1 \in 0 .. Len(line) /\ index \in Nat
  <2>1. GetCharacterColumn(line, 0) = 0
    BY <1>3, ColumnFacts
  <2>2. index # 0
    BY <1>3, <2>1
  <2>3. QED
    BY <1>3, <2>2
<1>6. IsRange(start, pos, mLines)
  BY <1>2, <1>3, <1>4 DEF IsRange, Before
<1>7. x \in Seq(Alphabet) /\ line[index] \in Alphabet
  <2>1. x \in Seq(Alphabet)
    BY <1>3, <1>5, RemoveAtType
  <2>2. line[index] \in Alphabet
    BY <1>3, <1>5, ElementOfSeq
  <2>3. QED
    BY <2>1, <2>2
<1>8. rest \in Texts /\ Len(rest) = Len(mLines) /\ rest # <<>>
  <2>1. rest \in Texts /\ Len(rest) = Len(mLines)
    BY <1>1, <1>2, <1>3, <1>7, ReplaceIs
  <2>2. Len(rest) >= 1
    BY <1>2, <2>1
  <2>3. QED
    BY <2>1, <2>2
<1>9. text \in Texts /\ text # <<>> /\ Len(text) = 1 /\ text # Nothing
  BY <1>7 DEF Texts, Alphabet, Nothing
<1>10. removed \in Changes /\ removed.text = text /\ removed.start = start /\ removed.end = pos
  BY <1>3, <1>4, <1>9 DEF Changes, Change
<1> HIDE DEF text
<1>11. Spans(removed, Len(mLines), Len(rest))
  <2>1. Taken(removed) = 0
    BY <1>3, <1>4, <1>10 DEF Taken
  <2>2. ~Before(pos, start) /\ pos.line < Len(mLines) /\ start.line < Len(rest)
    BY <1>2, <1>3, <1>4, <1>8 DEF Before
  <2>3. QED
    BY <1>2, <1>8, <1>9, <1>10, <2>1, <2>2 DEF Spans
<1>12. ASSUME exact' PROVE exact /\ Undoes(removed, mLines, rest)
  <2>1. exact /\ line[index] # Tab
    BY <1>12 DEF Recorded
  <2>2. /\ GetCharacterColumn(line, index - 1) \in Nat /\ GetCharacterColumn(line, index) \in Nat
        /\ GetCharacterColumn(line, index) = GetCharacterColumn(line, index - 1) + 1
    <3>1. GetCharacterColumn(line, (index - 1) + 1)
            = NextColumn(GetCharacterColumn(line, index - 1), line[(index - 1) + 1])
      BY <1>5, ColumnFacts
    <3>2. (index - 1) + 1 = index /\ index \in 0 .. Len(line)
      BY <1>5
    <3>3. GetCharacterColumn(line, index) = NextColumn(GetCharacterColumn(line, index - 1), line[index])
      BY <3>1, <3>2
    <3>4. QED
      BY <1>3, <1>5, <2>1, <3>2, <3>3 DEF NextColumn
  <2>3. GetCharacterColumn(line, index - 1) < pos.column
    BY <1>3, <1>5
  <2>4. start.column = GetCharacterColumn(line, index - 1)
    BY <1>3, <1>4, <2>2, <2>3
  <2>5. GetCharacterIndex(mLines, start) = index - 1
    BY <1>3, <1>4, <1>5, <2>4, ColumnIndex
  <2>6. Prefix(mLines, pos) = SubSeq(line, 1, index)
    BY <1>3 DEF Prefix
  <2>7. GetText(mLines, start, pos) = text
    <3>1. SubSeq(line, 1, index) \in Seq(Alphabet) /\ Len(SubSeq(line, 1, index)) = index
          /\ SubSeq(line, 1, index)[index] = line[index]
      BY <1>3, <1>5, FirstPart
    <3>2. (index - 1) + 1 = index
      BY <1>5
    <3>3. GetText(mLines, start, pos) = << SubSeq(SubSeq(line, 1, index), index, index) >>
      BY <1>3, <1>4, <2>5, <2>6, <3>1, <3>2 DEF GetText
    <3>4. SubSeq(SubSeq(line, 1, index), index, index) = << SubSeq(line, 1, index)[index] >>
      <4>1. PICK s \in Seq(Alphabet) : s = SubSeq(line, 1, index)
        BY <3>1
      <4>2. index \in 1 .. Len(s)
        BY <1>5, <3>1, <4>1
      <4>3. SubSeq(s, index, index) = <<s[index]>>
        BY <4>1, <4>2, OneItem
      <4>4. QED
        BY <4>1, <4>3
    <3>5. QED
      BY <3>1, <3>3, <3>4 DEF text
  <2>8. x = Prefix(mLines, start) \o Suffix(mLines, pos)
    BY <1>3, <1>4, <2>5 DEF Prefix, Suffix, RemoveAt
  <2>9. rest = DeleteRange(mLines, start, pos)
    BY <1>1, <1>2, <1>4, <1>6, <2>8, DeleteInLine
  <2>10. start.column <= GetLineMaxColumn(Line(mLines, start.line))
    BY <1>3, <1>4
  <2>11. Undoes(removed, mLines, rest)
    BY <1>2, <1>6, <2>7, <2>9, <2>10, RangeUndoes
  <2>12. QED
    BY <2>1, <2>11
<1>13. exact' \in BOOLEAN
  BY DEF Recorded
<1>14. AddUndo(NoChange, removed, [mState EXCEPT !.cursor = start])
  BY DEF text
<1> HIDE DEF removed
<1>15. QED
  BY <1>1, <1>4, <1>8, <1>10, <1>11, <1>12, <1>13, <1>14, RemovalKeeps

LEMMA BackspaceKeeps == Inv /\ Backspace => Inv'
<1> SUFFICES ASSUME Inv, Backspace PROVE Inv'
  OBVIOUS
<1>1. PICK pos, line, index : CursorAt(pos, line, index)
  BY CursorIs
<1>2. /\ pos = GetActualCursorCoordinates /\ line = Line(mLines, pos.line)
      /\ index = GetCharacterIndex(mLines, pos) /\ pos \in Coordinates /\ pos.line \in Nat
      /\ pos.line \in 0 .. Len(mLines) - 1
  BY <1>1 DEF CursorAt
<1>3. /\ Len(mLines) \in Nat /\ clipboard \in Texts /\ clipboard # <<>> /\ mOverwrite \in BOOLEAN
      /\ interactive \in [start : Coordinates, end : Coordinates] /\ mLines \in Texts
  BY InvTypes
<1>4. CASE RemoveSelection /\ UNCHANGED clipboard
  <2>1. clipboard' \in Texts /\ clipboard' # <<>>
    BY <1>3, <1>4
  <2>2. QED
    BY <1>4, <2>1, RemoveSelectionKeeps
<1>5. CASE /\ ~HasSelection /\ pos.line = 0
           /\ mState' = [mState EXCEPT !.cursor = pos]
           /\ UNCHANGED <<mLines, interactive, settings, history>>
  <2>1. Flat(mState)
    BY <1>5, SelectionFacts DEF Collapsed
  <2>2. mState' \in States /\ StateFits(mState', Len(mLines)) /\ InColumns(mState', mLines)
    BY <1>2, <1>5, <2>1, FlatFacts
  <2>3. UNCHANGED <<mLines, mUndoBuffer, mUndoIndex, past, exact, interactive, mOverwrite, clipboard>>
    BY <1>5 DEF settings, history
  <2>4. QED
    BY <1>3, <2>2, <2>3, TextKept
<1>6. CASE /\ ~HasSelection /\ pos.line # 0
           /\ JoinLines(pos.line - 1,
                        At(pos.line - 1, GetLineMaxColumn(Line(mLines, pos.line - 1))))
  <2>1. pos.line - 1 \in Nat /\ (pos.line - 1) + 1 < Len(mLines) /\ pos.line - 1 \in 0 .. Len(mLines) - 1
    BY <1>2, <1>3, <1>6
  <2>2. GetLineMaxColumn(Line(mLines, pos.line - 1)) \in Nat
    BY <1>3, <2>1, MaxType
  <2>3. At(pos.line - 1, GetLineMaxColumn(Line(mLines, pos.line - 1))) \in Coordinates
    BY <2>1, <2>2, AtFacts
  <2>4. QED
    BY <1>6, <2>1, <2>3, JoinLinesKeeps
<1>7. CASE LET start == At(pos.line, pos.column - 1)
               after == [mState EXCEPT !.cursor = start]
           IN  /\ ~HasSelection /\ pos.column # 0
               /\ mLines' = ReplaceAt(mLines, pos.line + 1, RemoveAt(line, index))
               /\ mState' = after
               /\ AddUndo(NoChange, Change(start, pos, << <<line[index]>> >>), after)
               /\ Recorded(line[index] # Tab)
               /\ UNCHANGED <<interactive, settings>>
  <2>1. PICK start : start = At(pos.line, pos.column - 1)
    OBVIOUS
  <2>2. UNCHANGED <<interactive, mOverwrite, clipboard>>
    BY <1>7 DEF settings
  <2>3. QED
    BY <1>1, <1>7, <2>1, <2>2, BackspaceCharKeeps
<1>8. QED
  BY <1>2, <1>4, <1>5, <1>6, <1>7 DEF Backspace

LEMMA CutKeeps == Inv /\ Cut => Inv'
<1> SUFFICES ASSUME Inv, Cut PROVE Inv'
  OBVIOUS
<1>1. RemoveSelection /\ HasSelection /\ clipboard' = GetSelectedText
  BY DEF Cut, RemoveSelection
<1>2. clipboard' \in Texts /\ clipboard' # <<>>
  BY <1>1, ClipboardType
<1>3. QED
  BY <1>1, <1>2, RemoveSelectionKeeps

(* Inserting where the cursor is left without the selection.                *)

\* The step of a key that inserts "typed" and records it as "text".
LEMMA InsertionKeeps ==
  ASSUME Inv, NEW coord, InText(coord, Remaining),
         NEW typed \in Texts, NEW text \in Texts, text # <<>>, text # Nothing, Len(typed) = Len(text),
         NEW e \in Coordinates, e.line = coord.line + Len(text) - 1, ~Before(e, coord),
         NEW after \in States,
         mLines' = InsertTextAt(Remaining, coord, typed), mState' = after,
         AddUndo(Change(coord, e, text), SelectionRemoved, after),
         StateFits(after, Len(mLines')), InColumns(after, mLines'),
         UNCHANGED <<interactive, mOverwrite, clipboard>>, exact' \in BOOLEAN,
         exact' => /\ exact /\ typed = text
                   /\ GetCharacterIndex(mLines', e)
                        = Len(text[Len(text)])
                            + (IF Len(text) = 1 THEN GetCharacterIndex(Remaining, coord) ELSE 0)
  PROVE  Inv'
<1> DEFINE added == Change(coord, e, text)
           removed == SelectionRemoved
<1>1. PICK lines : lines = Remaining
  OBVIOUS
<1>2. /\ lines \in Texts /\ lines # <<>> /\ removed \in Changes
      /\ Spans(removed, Len(mLines), Len(lines)) /\ (exact => Undoes(removed, mLines, lines))
  BY <1>1, SelectionFacts
<1>3. /\ coord \in Coordinates /\ coord.line < Len(lines)
      /\ coord.column <= GetLineMaxColumn(Line(lines, coord.line))
  BY <1>1 DEF InText
<1>4. coord.line \in Nat /\ Len(lines) \in Nat /\ Len(text) \in Nat /\ Len(text) >= 1 /\ e.line \in Nat
  <2>1. Len(text) \in Nat /\ Len(text) >= 1
    BY TextLength
  <2>2. QED
    BY <1>2, <1>3, <2>1, LenProperties DEF Texts, Coordinates
<1>5. typed # <<>>
  BY <1>4
<1>6. PICK new : new = mLines'
  OBVIOUS
<1>7. new \in Texts /\ Len(new) = Len(lines) + Len(text) - 1
  <2>1. InsertedIs(InsertTextAt(lines, coord, typed), lines, coord, typed, Joined(lines, coord, typed))
    BY <1>2, <1>3, <1>5, InsertFacts
  <2>2. QED
    BY <1>1, <1>6, <2>1 DEF InsertedIs
<1>8. new # <<>> /\ Len(new) \in Nat
  <2>1. Len(new) >= 1
    BY <1>3, <1>4, <1>7
  <2>2. QED
    BY <1>4, <1>7, <2>1
<1>9. added \in Changes /\ added.start = coord /\ added.end = e /\ added.text = text
  BY <1>3 DEF Changes, Change
<1>10. Spans(added, Len(new), Len(lines))
  <2>1. Taken(added) = Len(text) - 1
    BY <1>3, <1>4, <1>9 DEF Taken
  <2>2. e.line < Len(new) /\ coord.line < Len(lines) /\ Len(new) <= Len(lines) + Len(text) - 1
        /\ Len(lines) <= Len(new) - (Len(text) - 1)
    BY <1>3, <1>4, <1>7
  <2>3. QED
    BY <1>9, <2>1, <2>2 DEF Spans
<1>11. ASSUME exact' PROVE exact /\ Undoes(removed, mLines, lines) /\ Undoes(added, new, lines)
  <2>1. exact /\ new = InsertTextAt(lines, coord, text)
    BY <1>1, <1>6, <1>11
  <2>2. GetCharacterIndex(InsertTextAt(lines, coord, text), e)
          = Len(text[Len(text)]) + (IF Len(text) = 1 THEN GetCharacterIndex(lines, coord) ELSE 0)
    BY <1>1, <1>6, <1>11, <2>1
  <2>3. DeleteRange(new, coord, e) = lines
    <3>1. /\ lines \in Texts /\ coord \in Coordinates /\ coord.line < Len(lines)
          /\ coord.column <= GetLineMaxColumn(Line(lines, coord.line))
          /\ text \in Texts /\ text # <<>> /\ e \in Coordinates
          /\ e.line = coord.line + Len(text) - 1
      BY <1>2, <1>3
    <3>2. DeleteRange(InsertTextAt(lines, coord, text), coord, e) = lines
      BY <2>2, <3>1, TakeOut, ZenonT(60)
    <3>3. QED
      BY <2>1, <3>2
  <2>4. Without(new, added) = lines /\ With(lines, added) = new
    BY <1>9, <2>1, <2>3 DEF Without, With
  <2>5. QED
    BY <1>2, <2>1, <2>4 DEF Undoes
<1>12. clipboard' \in Texts /\ clipboard' # <<>> /\ interactive' = interactive /\ mOverwrite' = mOverwrite
  BY InvTypes
<1>13. AddUndo(added, removed, after)
  OBVIOUS
<1> HIDE DEF added, removed
<1>14. mLines' \in Texts /\ mLines' # <<>> /\ Spans(added, Len(mLines'), Len(lines))
  BY <1>6, <1>7, <1>8, <1>10
<1>15. mState' \in States /\ StateFits(mState', Len(mLines'))
  OBVIOUS
<1>16. exact' => /\ exact /\ InColumns(mState', mLines') /\ InColumns(after, mLines')
                 /\ Undoes(removed, mLines, lines) /\ Undoes(added, mLines', lines)
  BY <1>6, <1>11
<1>17. QED
  BY <1>2, <1>9, <1>12, <1>13, <1>14, <1>15, <1>16, EditKeeps

LEMMA IndentationType ==
  ASSUME NEW line \in Seq(Alphabet)
  PROVE  Indentation(line) \in Seq(Alphabet)
<1> DEFINE I == {i \in 1 .. Len(line) : line[i] \notin {Blank, Tab}}
           rest == SelectInSeq(line, LAMBDA char : char \notin {Blank, Tab})
<1>1. Len(line) \in Nat
  BY LenProperties
<1>2. rest \in 0 .. Len(line)
  <2>1. rest = IF I # {} THEN CHOOSE x \in I : \A y \in I : x <= y ELSE 0
    BY DEF SelectInSeq, Min
  <2>2. I \subseteq 1 .. Len(line)
    OBVIOUS
  <2> HIDE DEF I, rest
  <2>3. CASE I # {}
    <3>1. I \subseteq Nat
      BY <1>1, <2>2
    <3>2. \E x \in I : \A y \in I : x <= y
      BY <2>3, <3>1, LeastNumber
    <3>3. rest \in I
      BY <2>1, <2>3, <3>2
    <3>4. QED
      BY <1>1, <2>2, <3>3
  <2>4. CASE I = {}
    BY <1>1, <2>1, <2>4
  <2>5. QED
    BY <2>3, <2>4
<1>3. Indentation(line) = IF rest = 0 THEN line ELSE SubSeq(line, 1, rest - 1)
  BY DEF Indentation
<1> HIDE DEF I, rest
<1>4. CASE rest = 0
  BY <1>3, <1>4
<1>5. CASE rest # 0
  <2>1. rest - 1 \in 0 .. Len(line)
    BY <1>1, <1>2, <1>5
  <2>2. QED
    BY <1>3, <1>5, <2>1, FirstPart
<1>6. QED
  BY <1>4, <1>5

LEMMA NewLineKeeps ==
  ASSUME Inv, NEW lines, lines = Remaining, NEW state, state = Collapsed, NEW coord, InText(coord, lines),
         EnterNewLine(lines, state, coord)
  PROVE  Inv'
<1>1. PICK indentation : /\ indentation = IF AutoIndentation THEN Indentation(Line(lines, coord.line)) ELSE <<>>
                         /\ LET cursor == At(coord.line + 1, GetLineMaxColumn(indentation))
                                after == [state EXCEPT !.cursor = cursor]
                            IN /\ mLines' = InsertTextAt(lines, coord, << <<>>, indentation >>)
                               /\ mState' = after
                               /\ AddUndo(Change(coord, cursor, NewLine), SelectionRemoved, after)
                               /\ Recorded(indentation = <<>>)
                               /\ UNCHANGED <<interactive, settings>>
  BY DEF EnterNewLine
<1>2. lines \in Texts /\ lines # <<>> /\ Flat(state)
  BY SelectionFacts
<1>3. coord \in Coordinates /\ coord.line < Len(lines) /\ coord.line \in Nat /\ Len(lines) \in Nat
      /\ coord.line \in 0 .. Len(lines) - 1
  <2>1. coord \in Coordinates /\ coord.line < Len(lines)
    BY DEF InText
  <2>2. coord.line \in Nat /\ Len(lines) \in Nat
    BY <1>2, <2>1, LenProperties DEF Texts, Coordinates
  <2>3. QED
    BY <2>1, <2>2
<1>4. indentation \in Seq(Alphabet) /\ Len(indentation) \in Nat
  <2>1. Line(lines, coord.line) \in Seq(Alphabet)
    BY <1>2, <1>3, TextFacts
  <2>2. <<>> \in Seq(Alphabet)
    OBVIOUS
  <2>3. QED
    BY <1>1, <2>1, <2>2, IndentationType, LenProperties
<1>5. PICK cursor : cursor = At(coord.line + 1, GetLineMaxColumn(indentation))
  OBVIOUS
<1>6. cursor \in Coordinates /\ cursor.line = coord.line + 1 /\ cursor.column = GetLineMaxColumn(indentation)
  <2>1. coord.line + 1 \in Nat /\ GetLineMaxColumn(indentation) \in Nat
    BY <1>3, <1>4, ColumnType
  <2>2. QED
    BY <1>5, <2>1, AtFacts
<1>7. PICK after : after = [state EXCEPT !.cursor = cursor]
  OBVIOUS
<1>8. after \in States /\ (\A n : StateFits(after, n)) /\ \A l : InColumns(after, l)
  BY <1>2, <1>6, <1>7, FlatFacts
<1>9. PICK typed : typed = << <<>>, indentation >>
  OBVIOUS
<1>10. typed \in Texts /\ Len(typed) = 2
  <2>1. <<>> \in Seq(Alphabet)
    OBVIOUS
  <2>2. QED
    BY <1>4, <1>9, <2>1 DEF Texts, Alphabet
<1>11. /\ mLines' = InsertTextAt(Remaining, coord, typed) /\ mState' = after
       /\ AddUndo(Change(coord, cursor, NewLine), SelectionRemoved, after)
       /\ UNCHANGED <<interactive, mOverwrite, clipboard>>
  BY <1>1, <1>5, <1>7, <1>9 DEF settings
<1>12. cursor.line = coord.line + Len(NewLine) - 1 /\ ~Before(cursor, coord)
  BY <1>3, <1>6, NewLineIs DEF Before
<1>13. ASSUME exact'
       PROVE  /\ exact /\ typed = NewLine
              /\ GetCharacterIndex(mLines', cursor)
                   = Len(NewLine[Len(NewLine)])
                       + (IF Len(NewLine) = 1 THEN GetCharacterIndex(Remaining, coord) ELSE 0)
  <2>1. exact /\ typed = NewLine /\ indentation = <<>>
    BY <1>1, <1>9, <1>13 DEF Recorded, NewLine
  <2>2. cursor.column = 0
    <3>1. GetLineMaxColumn(<<>>) = GetCharacterColumn(<<>>, 0)
      BY DEF GetLineMaxColumn
    <3>2. QED
      BY <1>6, <2>1, <3>1, ColumnFacts
  <2>3. PICK new : new = mLines'
    OBVIOUS
  <2>4. new \in Texts /\ Len(new) = Len(lines) + Len(NewLine) - 1
    <3>1. InsertedIs(InsertTextAt(lines, coord, NewLine), lines, coord, NewLine,
                     Joined(lines, coord, NewLine))
      BY <1>2, <1>3, NewLineIs, InsertFacts
    <3>2. QED
      BY <1>11, <2>1, <2>3, <3>1 DEF InsertedIs
  <2>5. cursor.line \in 0 .. Len(new) - 1
    BY <1>3, <1>6, <2>4, NewLineIs
  <2>6. PICK line : line = Line(new, cursor.line) /\ line \in Seq(Alphabet) /\ Len(line) \in Nat
    BY <2>4, <2>5, TextFacts
  <2>7. 0 \in 0 .. Len(line) /\ cursor.column = GetCharacterColumn(line, 0)
    BY <2>2, <2>6, ColumnFacts
  <2>8. GetCharacterIndex(new, cursor) = 0
    BY <1>6, <2>6, <2>7, ColumnIndex
  <2>9. Len(<<>>) = 0
    OBVIOUS
  <2>10. QED
    BY <2>1, <2>3, <2>8, <2>9, NewLineIs
<1>14. exact' \in BOOLEAN
  BY <1>1 DEF Recorded
<1>15. InText(coord, Remaining) /\ StateFits(after, Len(mLines')) /\ InColumns(after, mLines')
       /\ Len(typed) = Len(NewLine)
  BY <1>8, <1>10, NewLineIs
<1>16. QED
  BY <1>6, <1>8, <1>10, <1>11, <1>12, <1>13, <1>14, <1>15, NewLineIs, InsertionKeeps

\* A character inserted.
LEMMA OneCharacter ==
  ASSUME NEW char \in Alphabet
  PROVE  /\ <<char>> \in Seq(Alphabet) /\ Len(<<char>>) = 1
         /\ << <<char>> >> \in Texts /\ << <<char>> >> # <<>> /\ << <<char>> >> # Nothing
         /\ Len(<< <<char>> >>) = 1 /\ << <<char>> >>[1] = <<char>>
  BY DEF Texts, Alphabet, Nothing

LEMMA InsertCharacter ==
  ASSUME NEW lines \in Texts, NEW coord, coord \in Coordinates, coord.line < Len(lines),
         NEW char \in Alphabet
  PROVE  /\ (Prefix(lines, coord) \o <<char>>) \o Suffix(lines, coord) \in Seq(Alphabet)
         /\ InsertTextAt(lines, coord, << <<char>> >>)
              = ReplaceAt(lines, coord.line + 1,
                          (Prefix(lines, coord) \o <<char>>) \o Suffix(lines, coord))
<1>1. coord.line \in Nat /\ Len(lines) \in Nat /\ coord.line \in 0 .. Len(lines) - 1
  <2>1. coord.line \in Nat /\ Len(lines) \in Nat
    BY LenProperties DEF Texts, Coordinates
  <2>2. QED
    BY <2>1
<1>2. PICK line, k : PlaceIs(lines, coord, line, k)
  BY Places
<1>3. PICK p \in Seq(Alphabet), q \in Seq(Alphabet) : p = Prefix(lines, coord) /\ q = Suffix(lines, coord)
  BY <1>2 DEF PlaceIs
<1>4. PICK text \in Texts : text = << <<char>> >>
  BY OneCharacter
<1>5. text # <<>> /\ Len(text) = 1 /\ text[1] = <<char>> /\ <<char>> \in Seq(Alphabet)
  BY <1>4, OneCharacter
<1>6. PICK x \in Seq(Alphabet) : x = (p \o <<char>>) \o q
  BY <1>5, ConcatProperties
<1>7. PICK J : J = Joined(lines, coord, text)
  OBVIOUS
<1>8. J[1] = x
  <2>1. JoinedIs(J, p, text, q, 1)
    BY <1>3, <1>5, <1>7, JoinedFacts
  <2>2. QED
    BY <1>5, <1>6, <2>1 DEF JoinedIs
<1>9. PICK u : u = InsertTextAt(lines, coord, text)
  OBVIOUS
<1>10. InsertedIs(u, lines, coord, text, J)
  BY <1>5, <1>7, <1>9, InsertFacts
<1>11. u \in Texts /\ Len(u) = Len(lines)
  BY <1>1, <1>5, <1>10 DEF InsertedIs
<1>12. Line(u, coord.line) = x
  <2>1. u[coord.line + 1] = J[1]
    BY <1>5, <1>10 DEF InsertedIs
  <2>2. QED
    BY <1>8, <2>1 DEF Line
<1>13. ASSUME NEW i \in 1 .. Len(lines), i # coord.line + 1 PROVE u[i] = lines[i]
  <2>1. CASE i \in 1 .. coord.line
    BY <1>10, <2>1 DEF InsertedIs
  <2>2. CASE i \notin 1 .. coord.line
    <3>1. PICK j \in 1 .. Len(lines) - (coord.line + 1) : i = coord.line + 1 + j
      <4>1. i - (coord.line + 1) \in 1 .. Len(lines) - (coord.line + 1)
            /\ i = coord.line + 1 + (i - (coord.line + 1))
        BY <1>1, <1>13, <2>2
      <4>2. QED
        BY <4>1
    <3>2. u[coord.line + 1 + j] = lines[coord.line + 1 + j]
      BY <1>5, <1>10 DEF InsertedIs
    <3>3. QED
      BY <3>1, <3>2
  <2>3. QED
    BY <2>1, <2>2
<1>14. u = ReplaceAt(lines, coord.line + 1, x)
  <2>1. PICK l \in 0 .. Len(lines) - 1 : l = coord.line
    BY <1>1
  <2>2. /\ u \in Texts /\ Len(u) = Len(lines) /\ Line(u, l) = x
        /\ \A i \in 1 .. Len(lines) : i # l + 1 => u[i] = lines[i]
    BY <1>11, <1>12, <1>13, <2>1
  <2>3. \A w \in Texts : Len(w) = Len(lines) /\ Line(w, l) = x
                          /\ (\A i \in 1 .. Len(lines) : i # l + 1 => w[i] = lines[i])
                          => w = ReplaceAt(lines, l + 1, x)
    BY ReplaceIs
  <2>4. u = ReplaceAt(lines, l + 1, x)
    BY <2>2, <2>3
  <2>5. QED
    BY <2>1, <2>4
<1>15. QED
  BY <1>3, <1>4, <1>6, <1>9, <1>14

\* A line with a character behind its first k; the lines differ behind them.
Typed(x, line, k, char) ==
  /\ x \in Seq(Alphabet) /\ Len(x) \in Nat /\ k + 1 \in 0 .. Len(x)
  /\ Alike(x, line, 1, k) /\ x[k + 1] = char

LEMMA TypedLine ==
  ASSUME NEW line \in Seq(Alphabet), NEW k \in 0 .. Len(line), NEW q \in Seq(Alphabet), NEW char \in Alphabet
  PROVE  Typed((SubSeq(line, 1, k) \o <<char>>) \o q, line, k, char)
<1>1. Len(line) \in Nat /\ Len(q) \in Nat
  BY LenProperties
<1>2. PICK p : p = SubSeq(line, 1, k)
  OBVIOUS
<1>3. p \in Seq(Alphabet) /\ Len(p) = k /\ \A i \in 1 .. k : p[i] = line[i]
  BY <1>2, FirstPart
<1>4. PICK c \in Seq(Alphabet) : c = <<char>> /\ Len(c) = 1 /\ c[1] = char
  BY OneCharacter
<1>5. PICK t : t = p \o c
  OBVIOUS
<1>6. t \in Seq(Alphabet) /\ Len(t) = k + 1 /\ t[k + 1] = char /\ \A i \in 1 .. k : t[i] = line[i]
  <2>1. /\ t \in Seq(Alphabet) /\ Len(t) = Len(p) + Len(c)
        /\ \A i \in 1 .. Len(p) + Len(c) : t[i] = IF i <= Len(p) THEN p[i] ELSE c[i - Len(p)]
    BY <1>3, <1>4, <1>5, ConcatProperties
  <2>2. k \in Nat /\ Len(p) = k /\ Len(c) = 1
    BY <1>1, <1>3, <1>4
  <2>3. Len(t) = k + 1 /\ k + 1 \in 1 .. k + 1 /\ (k + 1) - k = 1 /\ ~(k + 1 <= k)
    BY <2>1, <2>2
  <2>4. t[k + 1] = char
    BY <1>4, <2>1, <2>2, <2>3
  <2>5. \A i \in 1 .. k : t[i] = line[i]
    BY <1>3, <2>1, <2>2
  <2>6. QED
    BY <2>1, <2>3, <2>4, <2>5
<1>7. PICK x : x = t \o q
  OBVIOUS
<1>8. /\ x \in Seq(Alphabet) /\ Len(x) = Len(t) + Len(q)
      /\ \A i \in 1 .. Len(t) + Len(q) : x[i] = IF i <= Len(t) THEN t[i] ELSE q[i - Len(t)]
  <2>1. t \in Seq(Alphabet)
    BY <1>6
  <2>2. QED
    BY <1>7, <2>1, ConcatProperties
<1>9. Len(x) \in Nat /\ k + 1 \in 0 .. Len(x) /\ k \in Nat
  BY <1>1, <1>6, <1>8
<1>10. \A i \in 1 .. k + 1 : x[i] = t[i]
  BY <1>1, <1>6, <1>8, <1>9
<1>11. x[k + 1] = char /\ \A i \in 1 .. k : x[i] = line[i]
  BY <1>6, <1>9, <1>10
<1>12. QED
  BY <1>2, <1>4, <1>5, <1>7, <1>8, <1>9, <1>11 DEF Typed, Alike

LEMMA TypedColumn ==
  ASSUME NEW line, NEW k \in Nat, NEW char, NEW x, Typed(x, line, k, char)
  PROVE  /\ GetCharacterColumn(x, k + 1) \in Nat /\ GetCharacterColumn(line, k) \in Nat
         /\ GetCharacterColumn(x, k + 1) > GetCharacterColumn(line, k)
<1>1. GetCharacterColumn(x, k) = GetCharacterColumn(line, k)
  BY ColumnFacts DEF Typed
<1>2. GetCharacterColumn(x, k) < GetCharacterColumn(x, k + 1)
  <2>1. k + 1 \in Nat /\ k \in 0 .. (k + 1) - 1
    OBVIOUS
  <2>2. QED
    BY <2>1, ColumnsGrow
<1>3. QED
  BY <1>1, <1>2, ColumnFacts

\* Where a character is typed: the text and the cursor without the selection.
TypingAt(lines, state, coord, line, index) ==
  /\ lines = Remaining /\ lines \in Texts /\ lines # <<>> /\ Len(lines) \in Nat
  /\ state = Collapsed /\ Flat(state)
  /\ coord = SanitizeCoordinates(lines, state.cursor) /\ InText(coord, lines)
  /\ coord \in Coordinates /\ coord.line \in Nat /\ coord.column \in Nat
  /\ coord.line \in 0 .. Len(lines) - 1 /\ coord.line < Len(lines)
  /\ line = Line(lines, coord.line) /\ line \in Seq(Alphabet) /\ Len(line) \in Nat
  /\ index = GetCharacterIndex(lines, coord) /\ index \in 0 .. Len(line) /\ index \in Nat
  /\ Prefix(lines, coord) = SubSeq(line, 1, index)
  /\ Suffix(lines, coord) = SubSeq(line, index + 1, Len(line))
  /\ coord.column <= GetLineMaxColumn(line)
  /\ GetCharacterColumn(line, index) >= coord.column

LEMMA TypingIs ==
  ASSUME Inv, NEW lines, lines = Remaining, NEW state, state = Collapsed,
         NEW coord, coord = SanitizeCoordinates(lines, state.cursor)
  PROVE  TypingAt(lines, state, coord, Line(lines, coord.line), GetCharacterIndex(lines, coord))
<1> DEFINE line == Line(lines, coord.line)
           index == GetCharacterIndex(lines, coord)
<1>1. lines \in Texts /\ lines # <<>> /\ Flat(state) /\ state.cursor \in Coordinates
  BY SelectionFacts
<1>2. InText(coord, lines)
  BY <1>1, SanitizeFacts
<1>3. coord \in Coordinates /\ coord.line < Len(lines) /\ coord.column <= GetLineMaxColumn(line)
  BY <1>2 DEF InText
<1>4. coord.line \in Nat /\ coord.column \in Nat /\ Len(lines) \in Nat /\ coord.line \in 0 .. Len(lines) - 1
  <2>1. coord.line \in Nat /\ coord.column \in Nat /\ Len(lines) \in Nat
    BY <1>1, <1>3, LenProperties DEF Texts, Coordinates
  <2>2. QED
    BY <1>3, <2>1
<1>5. line \in Seq(Alphabet) /\ Len(line) \in Nat
  BY <1>1, <1>4, TextFacts
<1>6. index \in 0 .. Len(line) /\ GetCharacterColumn(line, index) >= coord.column
  BY <1>3, <1>5, IndexFacts
<1>7. index \in Nat
  BY <1>5, <1>6
<1>8. Prefix(lines, coord) = SubSeq(line, 1, index) /\ Suffix(lines, coord) = SubSeq(line, index + 1, Len(line))
  BY DEF Prefix, Suffix
<1>9. QED
  BY <1>1, <1>2, <1>3, <1>4, <1>5, <1>6, <1>7, <1>8, Zenon DEF TypingAt

\* A key that inserts its character.
LEMMA TypeKeeps ==
  ASSUME Inv, NEW lines, NEW state, NEW coord, NEW line, NEW index,
         TypingAt(lines, state, coord, line, index),
         NEW char \in Alphabet, NEW x, x = SubSeq(line, 1, index) \o <<char>> \o SubSeq(line, index + 1, Len(line)),
         NEW cursor, cursor = At(coord.line, GetCharacterColumn(x, index + 1)),
         NEW after, after = [state EXCEPT !.cursor = cursor],
         mLines' = ReplaceAt(lines, coord.line + 1, x), mState' = after,
         AddUndo(Change(coord, cursor, << <<char>> >>), SelectionRemoved, after),
         exact' \in BOOLEAN, exact' => exact, UNCHANGED <<interactive, mOverwrite, clipboard>>
  PROVE  Inv'
<1>1. /\ lines = Remaining /\ lines \in Texts /\ Len(lines) \in Nat /\ Flat(state)
      /\ InText(coord, lines) /\ coord \in Coordinates /\ coord.line \in Nat /\ coord.column \in Nat
      /\ coord.line \in 0 .. Len(lines) - 1 /\ coord.line < Len(lines)
      /\ line \in Seq(Alphabet) /\ Len(line) \in Nat
      /\ index = GetCharacterIndex(lines, coord) /\ index \in 0 .. Len(line) /\ index \in Nat
      /\ Prefix(lines, coord) = SubSeq(line, 1, index)
      /\ Suffix(lines, coord) = SubSeq(line, index + 1, Len(line))
      /\ GetCharacterColumn(line, index) >= coord.column
  BY DEF TypingAt
<1>2. PICK text \in Texts : text = << <<char>> >>
  BY OneCharacter
<1>3. text # <<>> /\ text # Nothing /\ Len(text) = 1 /\ text[1] = <<char>> /\ Len(text[1]) = 1
  BY <1>2, OneCharacter
<1>4. PICK q \in Seq(Alphabet) : q = SubSeq(line, index + 1, Len(line))
  <2>1. index <= Len(line) + 1 /\ Len(line) \in 0 .. Len(line)
    BY <1>1
  <2>2. SubSeq(line, index + 1, Len(line)) \in Seq(Alphabet)
    BY <1>1, <2>1, PartFacts
  <2>3. QED
    BY <2>2
<1>5. Typed(x, line, index, char)
  BY <1>1, <1>4, TypedLine
<1>6. /\ GetCharacterColumn(x, index + 1) \in Nat /\ GetCharacterColumn(line, index) \in Nat
      /\ GetCharacterColumn(x, index + 1) > GetCharacterColumn(line, index)
  BY <1>1, <1>5, TypedColumn
<1>7. cursor \in Coordinates /\ cursor.line = coord.line
      /\ cursor.column = GetCharacterColumn(x, index + 1)
  <2>1. PICK l \in Nat, k \in Nat : l = coord.line /\ k = GetCharacterColumn(x, index + 1)
    BY <1>1, <1>6
  <2>2. cursor = At(l, k)
    BY <2>1
  <2>3. QED
    BY <2>1, <2>2, AtFacts
<1>8. ~Before(cursor, coord)
  <2>1. PICK i \in Nat, j \in Nat, k \in Nat : i = coord.column /\ j = GetCharacterColumn(line, index)
                                          /\ k = GetCharacterColumn(x, index + 1)
    BY <1>1, <1>6
  <2>2. ~(k < i)
    BY <1>1, <1>6, <2>1
  <2>3. ~(cursor.line < coord.line) /\ ~(cursor.column < coord.column)
    BY <1>1, <1>7, <2>1, <2>2
  <2>4. QED
    BY <2>3 DEF Before
<1>9. after \in States /\ (\A n : StateFits(after, n)) /\ \A l : InColumns(after, l)
  BY <1>1, <1>7, FlatFacts
<1>10. mLines' = InsertTextAt(Remaining, coord, text)
  <2>1. x = (Prefix(lines, coord) \o <<char>>) \o Suffix(lines, coord)
    BY <1>1
  <2>2. InsertTextAt(lines, coord, << <<char>> >>)
              = ReplaceAt(lines, coord.line + 1,
                          (Prefix(lines, coord) \o <<char>>) \o Suffix(lines, coord))
    BY <1>1, InsertCharacter
  <2>3. QED
    BY <1>1, <1>2, <2>1, <2>2
<1>11. ASSUME exact'
       PROVE  /\ exact /\ text = text
              /\ GetCharacterIndex(mLines', cursor)
                   = Len(text[Len(text)]) + (IF Len(text) = 1 THEN GetCharacterIndex(Remaining, coord) ELSE 0)
  <2>1. exact
    BY <1>11
  <2>2. PICK new : new = mLines'
    OBVIOUS
  <2>3. x \in Seq(Alphabet) /\ Len(x) \in Nat /\ index + 1 \in 0 .. Len(x)
    BY <1>5 DEF Typed
  <2>4. Line(new, coord.line) = x
    <3>1. PICK l \in 0 .. Len(lines) - 1 : l = coord.line
      BY <1>1
    <3>2. lines \in Texts
      BY <1>1
    <3>3. \A y \in Seq(Alphabet) : Line(ReplaceAt(lines, l + 1, y), l) = y
      BY <3>2, ReplaceIs
    <3>4. QED
      BY <2>2, <2>3, <3>1, <3>3
  <2>5. GetCharacterIndex(new, cursor) = index + 1
    BY <1>7, <2>3, <2>4, ColumnIndex
  <2>6. 1 + index = index + 1
    BY <1>1
  <2>7. QED
    BY <1>1, <1>3, <2>1, <2>2, <2>5, <2>6
<1>12. cursor.line = coord.line + Len(text) - 1
  BY <1>1, <1>3, <1>7
<1>13. InText(coord, Remaining) /\ StateFits(after, Len(mLines')) /\ InColumns(after, mLines')
  BY <1>1, <1>9
<1>14. AddUndo(Change(coord, cursor, text), SelectionRemoved, after)
  BY <1>2
<1>15. QED
  BY <1>3, <1>7, <1>8, <1>9, <1>10, <1>11, <1>12, <1>13, <1>14, InsertionKeeps

\* The cursor is where it was said to be, or behind the end of its line.
LEMMA SanitizedIs ==
  ASSUME NEW lines, NEW c
  PROVE  \/ SanitizeCoordinates(lines, c) = c
         \/ SanitizeCoordinates(lines, c).column
              = GetLineMaxColumn(Line(lines, SanitizeCoordinates(lines, c).line))
  BY DEF SanitizeCoordinates, At

\* The record of an overwritten character, whose text is the selected one with it behind.
LEMMA OverwrittenType ==
  ASSUME NEW selected \in Texts, selected # <<>>, NEW char \in Alphabet,
         NEW text, text = ReplaceAt(selected, Len(selected), Append(Last(selected), char))
  PROVE  /\ text \in Texts /\ Len(text) = Len(selected) /\ text # <<>> /\ text # Nothing
         /\ selected = Nothing => text = << <<char>> >>
<1>1. PICK n \in Nat : n = Len(selected) /\ n >= 1
  BY TextLength
<1>2. PICK last \in Seq(Alphabet) : last = Last(selected)
  <2>1. n \in 1 .. Len(selected) /\ selected \in Seq(Seq(Alphabet))
    BY <1>1 DEF Texts, Alphabet
  <2>2. selected[n] \in Seq(Alphabet)
    BY <2>1, ElementOfSeq
  <2>3. QED
    BY <1>1, <2>2 DEF Last
<1>3. PICK x \in Seq(Alphabet) : x = Append(last, char) /\ Len(x) = Len(last) + 1
  BY AppendProperties
<1>4. Len(last) \in Nat /\ Len(x) # 0
  BY <1>3, LenProperties
<1>5. PICK l \in 0 .. Len(selected) - 1 : l = n - 1 /\ l + 1 = n
  BY <1>1
<1>6. text \in Texts /\ Len(text) = n /\ Line(text, l) = x
  <2>1. text = ReplaceAt(selected, l + 1, x)
    BY <1>1, <1>2, <1>3, <1>5
  <2>2. QED
    BY <1>1, <2>1, ReplaceIs
<1>7. text # <<>>
  BY <1>1, <1>6
<1>8. text # Nothing
  <2>1. ASSUME text = Nothing PROVE FALSE
    <3>1. n = 1 /\ text[n] = <<>>
      BY <1>6, <2>1, NothingFacts
    <3>2. text[n] = x
      BY <1>5, <1>6 DEF Line
    <3>3. QED
      BY <1>4, <3>1, <3>2
  <2>2. QED
    BY <2>1
<1>9. ASSUME selected = Nothing PROVE text = << <<char>> >>
  <2>1. n = 1 /\ last = <<>>
    BY <1>1, <1>2, <1>9, NothingFacts DEF Last
  <2>2. x = <<char>>
    BY <1>3, <2>1
  <2>3. text[1] = x
    BY <1>5, <1>6, <2>1 DEF Line
  <2>4. << <<char>> >> \in Texts /\ Len(<< <<char>> >>) = 1 /\ << <<char>> >>[1] = <<char>>
    BY OneCharacter
  <2>5. \A i \in 1 .. Len(text) : text[i] = << <<char>> >>[i]
    BY <1>6, <2>1, <2>2, <2>3, <2>4
  <2>6. QED
    BY <1>6, <2>1, <2>4, <2>5, SeqEqual DEF Texts
<1>10. QED
  BY <1>1, <1>6, <1>7, <1>8, <1>9

\* The range of the character behind the cursor.
LEMMA NextRange ==
  ASSUME NEW lines \in Texts, NEW coord, InText(coord, lines), NEW line, NEW index,
         PlaceIs(lines, coord, line, index), index < Len(line),
         NEW end \in Coordinates, end.line = coord.line, end.column = GetCharacterColumn(line, index + 1)
  PROVE  /\ IsRange(coord, end, lines) /\ GetCharacterIndex(lines, end) = index + 1
         /\ line[index + 1] \in Alphabet
         /\ GetText(lines, coord, end) = << <<line[index + 1]>> >>
<1>1. /\ line = Line(lines, coord.line) /\ line \in Seq(Alphabet) /\ Len(line) \in Nat
      /\ index = GetCharacterIndex(lines, coord) /\ index \in 0 .. Len(line)
  BY DEF PlaceIs
<1>2. index \in Nat /\ index + 1 \in 1 .. Len(line) /\ index + 1 \in 0 .. Len(line)
  BY <1>1
<1>3. coord \in Coordinates /\ coord.line < Len(lines) /\ coord.column <= GetLineMaxColumn(line)
  BY <1>1 DEF InText
<1>4. coord.column \in Nat /\ coord.line \in Nat
  BY <1>3 DEF Coordinates
<1>5. GetCharacterColumn(line, index) >= coord.column
  BY <1>1, <1>3, IndexFacts
<1>6. /\ GetCharacterColumn(line, index) \in Nat /\ GetCharacterColumn(line, index + 1) \in Nat
      /\ GetCharacterColumn(line, index) < GetCharacterColumn(line, index + 1)
  <2>1. index + 1 \in Nat /\ index \in 0 .. (index + 1) - 1
    BY <1>2
  <2>2. QED
    BY <1>2, <2>1, ColumnsGrow, ColumnFacts
<1>7. IsRange(coord, end, lines)
  <2>1. ~(end.column < coord.column)
    BY <1>4, <1>5, <1>6
  <2>2. ~(end.line < coord.line)
    BY <1>4
  <2>3. QED
    BY <1>3, <2>1, <2>2 DEF IsRange, Before
<1>8. GetCharacterIndex(lines, end) = index + 1
  <2>1. line = Line(lines, end.line)
    BY <1>1
  <2>2. QED
    BY <1>1, <1>2, <2>1, ColumnIndex
<1>9. PICK s : s = SubSeq(line, 1, index + 1)
  OBVIOUS
<1>10. s \in Seq(Alphabet) /\ Len(s) = index + 1 /\ s[index + 1] = line[index + 1]
  BY <1>1, <1>2, <1>9, FirstPart
<1>11. Prefix(lines, end) = s
  BY <1>1, <1>8, <1>9 DEF Prefix
<1>12. GetText(lines, coord, end) = << SubSeq(s, index + 1, index + 1) >>
  BY <1>1, <1>10, <1>11 DEF GetText
<1>13. SubSeq(s, index + 1, index + 1) = << s[index + 1] >>
  <2>1. index + 1 \in 1 .. Len(s)
    BY <1>2, <1>10
  <2>2. QED
    BY <1>10, <2>1, OneItem
<1>14. line[index + 1] \in Alphabet
  BY <1>1, <1>2, ElementOfSeq
<1>15. QED
  BY <1>7, <1>8, <1>10, <1>12, <1>13, <1>14

LEMMA Overwritten ==
  ASSUME NEW lines \in Texts, NEW coord, InText(coord, lines), NEW end, IsRange(coord, end, lines),
         end.line = coord.line, NEW char \in Alphabet, NEW x,
         x = (Prefix(lines, coord) \o <<char>>) \o Suffix(lines, end),
         NEW cursor \in Coordinates, cursor.line = coord.line,
         cursor.column = GetCharacterColumn(x, GetCharacterIndex(lines, coord) + 1)
  PROVE  Undoes(Change(coord, cursor, << <<char>> >>), ReplaceAt(lines, coord.line + 1, x),
                DeleteRange(lines, coord, end))
<1>1. /\ coord \in Coordinates /\ coord.line < Len(lines)
      /\ coord.column <= GetLineMaxColumn(Line(lines, coord.line))
  BY DEF InText
<1>2. PICK l \in 0 .. Len(lines) - 1 : l = coord.line
  BY <1>1, LenProperties DEF Texts, Coordinates
<1>3. end \in Coordinates /\ end.line < Len(lines)
  BY DEF IsRange
<1>4. PICK p \in Seq(Alphabet), q \in Seq(Alphabet), k \in Nat :
        /\ p = Prefix(lines, coord) /\ q = Suffix(lines, end)
        /\ k = GetCharacterIndex(lines, coord) /\ Len(p) = k
  <2>1. PICK line, k : PlaceIs(lines, coord, line, k)
    BY <1>1, Places
  <2>2. Prefix(lines, coord) \in Seq(Alphabet) /\ k \in Nat
        /\ k = GetCharacterIndex(lines, coord) /\ Len(Prefix(lines, coord)) = k
    BY <2>1 DEF PlaceIs
  <2>3. PICK other, j : PlaceIs(lines, end, other, j)
    BY <1>3, Places
  <2>4. Suffix(lines, end) \in Seq(Alphabet)
    BY <2>3 DEF PlaceIs
  <2>5. QED
    BY <2>2, <2>4
<1>5. PICK D : D = DeleteRange(lines, coord, end)
  OBVIOUS
<1>6. PICK y \in Seq(Alphabet) : y = p \o q
  BY ConcatProperties
<1>7. D = ReplaceAt(lines, l + 1, y)
  BY <1>2, <1>4, <1>5, <1>6, DeleteInLine
<1>8. /\ D \in Texts /\ Len(D) = Len(lines) /\ Line(D, l) = y
      /\ \A i \in 1 .. Len(lines) : i # l + 1 => D[i] = lines[i]
  BY <1>7, ReplaceIs, SMTT(30)
<1>9. coord.line < Len(D)
  BY <1>1, <1>8
<1>10. LineIs(D, coord.line, Prefix(lines, coord), q)
  BY <1>2, <1>4, <1>6, <1>8 DEF LineIs
<1>11. /\ Prefix(D, coord) = p /\ Suffix(D, coord) = q /\ GetCharacterIndex(D, coord) = k
       /\ coord.column <= GetLineMaxColumn(Line(D, coord.line))
  BY <1>1, <1>4, <1>8, <1>9, <1>10, PrefixKept
<1>12. PICK text \in Texts : text = << <<char>> >>
  BY OneCharacter
<1>13. text # <<>> /\ text # Nothing /\ Len(text) = 1 /\ text[1] = <<char>> /\ Len(text[1]) = 1
  BY <1>12, OneCharacter
<1>14. PICK z \in Seq(Alphabet) : z = x
  <2>1. <<char>> \in Seq(Alphabet)
    BY OneCharacter
  <2>2. p \o <<char>> \in Seq(Alphabet)
    BY <2>1, ConcatProperties
  <2>3. (p \o <<char>>) \o q \in Seq(Alphabet)
    BY <2>2, ConcatProperties
  <2>4. QED
    BY <1>4, <2>3
<1>15. PICK new : new = ReplaceAt(D, l + 1, z)
  OBVIOUS
<1>16. InsertTextAt(D, coord, text) = new
  <2>1. InsertTextAt(D, coord, << <<char>> >>)
          = ReplaceAt(D, coord.line + 1, (Prefix(D, coord) \o <<char>>) \o Suffix(D, coord))
    BY <1>1, <1>8, <1>9, InsertCharacter
  <2>2. z = (p \o <<char>>) \o q
    BY <1>4, <1>14
  <2>3. QED
    BY <1>2, <1>11, <1>12, <1>15, <2>1, <2>2
<1>17. /\ new \in Texts /\ Len(new) = Len(lines) /\ Line(new, l) = z
       /\ \A i \in 1 .. Len(lines) : i # l + 1 => new[i] = lines[i]
  <2>1. l \in 0 .. Len(D) - 1
    BY <1>8
  <2>2. /\ new \in Texts /\ Len(new) = Len(D) /\ Line(new, l) = z
        /\ \A i \in 1 .. Len(D) : i # l + 1 => new[i] = D[i]
    <3>1. D \in Texts
      BY <1>8
    <3>2. LET w == ReplaceAt(D, l + 1, z)
          IN  /\ w \in Texts /\ Len(w) = Len(D) /\ Line(w, l) = z
              /\ \A i \in 1 .. Len(D) : i # l + 1 => w[i] = D[i]
      BY <2>1, <3>1, ReplaceIs
    <3>3. QED
      BY <1>15, <3>2
  <2>3. QED
    BY <1>8, <2>2
<1>18. new = ReplaceAt(lines, l + 1, z)
  <2>1. \A w \in Texts : Len(w) = Len(lines) /\ Line(w, l) = z
                          /\ (\A i \in 1 .. Len(lines) : i # l + 1 => w[i] = lines[i])
                          => w = ReplaceAt(lines, l + 1, z)
    BY ReplaceIs
  <2>2. QED
    BY <1>17, <2>1
<1>19. GetCharacterIndex(new, cursor) = k + 1
  <2>1. PICK c \in Seq(Alphabet) : c = <<char>> /\ Len(c) = 1
    BY OneCharacter
  <2>2. PICK t \in Seq(Alphabet) : t = p \o c /\ Len(t) = k + 1
    <3>1. p \o c \in Seq(Alphabet) /\ Len(p \o c) = Len(p) + Len(c)
      BY ConcatProperties
    <3>2. Len(p \o c) = k + 1
      BY <1>4, <2>1, <3>1
    <3>3. QED
      BY <3>1, <3>2
  <2>3. z = t \o q
    BY <1>4, <1>14, <2>1, <2>2
  <2>4. Len(z) = Len(t) + Len(q) /\ Len(q) \in Nat
    BY <2>3, ConcatProperties, LenProperties
  <2>5. Len(z) \in Nat /\ k + 1 \in 0 .. Len(z)
    BY <2>2, <2>4
  <2>6. z = Line(new, cursor.line) /\ cursor.column = GetCharacterColumn(z, k + 1)
    BY <1>2, <1>4, <1>14, <1>17
  <2>7. QED
    BY <2>5, <2>6, ColumnIndex
<1>20. DeleteRange(new, coord, cursor) = D
  <2>1. cursor.line = coord.line + Len(text) - 1
    BY <1>2, <1>13
  <2>2. GetCharacterIndex(InsertTextAt(D, coord, text), cursor)
          = Len(text[Len(text)]) + (IF Len(text) = 1 THEN GetCharacterIndex(D, coord) ELSE 0)
    <3>1. 1 + k = k + 1
      OBVIOUS
    <3>2. QED
      BY <1>11, <1>13, <1>16, <1>19, <3>1
  <2>3. QED
    BY <1>1, <1>8, <1>9, <1>11, <1>13, <1>16, <2>1, <2>2, TakeOut
<1>21. PICK c : c = Change(coord, cursor, text)
  OBVIOUS
<1>22. c.start = coord /\ c.end = cursor /\ c.text = text
  BY <1>21 DEF Change
<1>23. Undoes(c, new, D)
  BY <1>13, <1>16, <1>20, <1>22 DEF Undoes, Without, With
<1>24. QED
  BY <1>2, <1>5, <1>12, <1>14, <1>18, <1>21, <1>23

\* Deleting the selection leaves no more lines than there were.
LEMMA RemainingLength ==
  ASSUME Inv
  PROVE  Len(mLines) \in Nat /\ Len(Remaining) \in Nat /\ Len(Remaining) <= Len(mLines)
<1>1. mLines \in Texts /\ Len(mLines) \in Nat
  BY InvTypes
<1>2. CASE HasSelection
  <2>1. IsRange(mState.start, mState.end, mLines) /\ Remaining = DeleteRange(mLines, mState.start, mState.end)
    BY <1>2, SelectionFacts DEF Remaining
  <2>2. PICK i \in Nat, j \in Nat : i = mState.start.line /\ j = mState.end.line /\ i <= j
    BY <1>1, <2>1, RangeFacts
  <2>3. PICK m : m = Len(Remaining) /\ m = Len(mLines) - (j - i)
    BY <1>1, <2>1, <2>2, RangeFacts
  <2>4. m \in Nat
    BY <2>3, SelectionFacts, LenProperties DEF Texts
  <2>5. QED
    BY <1>1, <2>2, <2>3, <2>4
<1>3. CASE ~HasSelection
  BY <1>1, <1>3 DEF Remaining
<1>4. QED
  BY <1>2, <1>3

\* A key that overwrites the character behind the cursor.
Overwriting(state, coord, line, index, char, x, cursor, after, text, removed) ==
  /\ x = SubSeq(line, 1, index) \o <<char>> \o SubSeq(line, (index + 1) + 1, Len(line))
  /\ cursor = At(coord.line, GetCharacterColumn(x, index + 1))
  /\ after = [state EXCEPT !.cursor = cursor]
  /\ text = ReplaceAt(SelectionRemoved.text, Len(SelectionRemoved.text),
                      Append(Last(SelectionRemoved.text), line[index + 1]))
  /\ removed = Change(state.cursor, At(coord.line, GetCharacterColumn(line, index + 1)), text)

LEMMA OverwriteKeeps ==
  ASSUME Inv, NEW lines, NEW state, NEW coord, NEW line, NEW index,
         TypingAt(lines, state, coord, line, index), index < Len(line),
         NEW char \in Alphabet, NEW x, NEW cursor, NEW after, NEW text, NEW removed,
         Overwriting(state, coord, line, index, char, x, cursor, after, text, removed),
         mLines' = ReplaceAt(lines, coord.line + 1, x), mState' = after,
         AddUndo(Change(coord, cursor, << <<char>> >>), removed, after),
         exact' \in BOOLEAN, exact' => exact /\ ~HasSelection, UNCHANGED <<interactive, mOverwrite, clipboard>>
  PROVE  Inv'
<1>1. /\ lines = Remaining /\ lines \in Texts /\ lines # <<>> /\ Len(lines) \in Nat /\ Flat(state)
      /\ InText(coord, lines) /\ coord \in Coordinates /\ coord.line \in Nat /\ coord.column \in Nat
      /\ coord.line \in 0 .. Len(lines) - 1 /\ coord.line < Len(lines)
      /\ line = Line(lines, coord.line) /\ line \in Seq(Alphabet) /\ Len(line) \in Nat
      /\ index = GetCharacterIndex(lines, coord) /\ index \in 0 .. Len(line) /\ index \in Nat
      /\ Prefix(lines, coord) = SubSeq(line, 1, index)
      /\ GetCharacterColumn(line, index) >= coord.column
  BY DEF TypingAt
<1>2. state.cursor = coord
  <2>1. coord = SanitizeCoordinates(lines, state.cursor)
    BY DEF TypingAt
  <2>2. ASSUME coord.column = GetLineMaxColumn(line) PROVE FALSE
    <3>1. coord.column = GetCharacterColumn(line, Len(line)) /\ Len(line) \in 0 .. Len(line)
      BY <1>1, <2>2 DEF GetLineMaxColumn
    <3>2. index = Len(line)
      BY <1>1, <3>1, ColumnIndex
    <3>3. QED
      BY <1>1, <3>2
  <2>3. coord = state.cursor \/ coord.column = GetLineMaxColumn(Line(lines, coord.line))
    BY <2>1, SanitizedIs
  <2>4. QED
    BY <1>1, <2>2, <2>3
<1>3. PICK end : end = At(coord.line, GetCharacterColumn(line, index + 1))
  OBVIOUS
<1>4. end \in Coordinates /\ end.line = coord.line /\ end.column = GetCharacterColumn(line, index + 1)
  <2>1. index + 1 \in Nat
    BY <1>1
  <2>2. GetCharacterColumn(line, index + 1) \in Nat
    BY <2>1, ColumnFacts
  <2>3. QED
    BY <1>1, <1>3, <2>2, AtFacts
<1>5. PlaceIs(lines, coord, line, index)
  <2>1. PICK other, k : PlaceIs(lines, coord, other, k)
    BY <1>1, Places
  <2>2. other = line /\ k = index
    BY <1>1, <2>1 DEF PlaceIs
  <2>3. QED
    BY <2>1, <2>2
<1>6. /\ IsRange(coord, end, lines) /\ GetCharacterIndex(lines, end) = index + 1
      /\ line[index + 1] \in Alphabet
      /\ GetText(lines, coord, end) = << <<line[index + 1]>> >>
  BY <1>1, <1>4, <1>5, NextRange
<1>7. PICK selected : selected = SelectionRemoved.text
  OBVIOUS
<1>8. selected \in Texts /\ selected # <<>> /\ Spans(SelectionRemoved, Len(mLines), Len(lines))
  <2>1. SelectionRemoved \in Changes /\ Spans(SelectionRemoved, Len(mLines), Len(lines))
    BY <1>1, SelectionFacts
  <2>2. QED
    BY <1>7, <2>1, ChangeType
<1>9. /\ text \in Texts /\ Len(text) = Len(selected) /\ text # <<>> /\ text # Nothing
      /\ (selected = Nothing => text = << <<line[index + 1]>> >>)
  <2>1. text = ReplaceAt(selected, Len(selected), Append(Last(selected), line[index + 1]))
    BY <1>7 DEF Overwriting
  <2>2. QED
    BY <1>6, <1>8, <2>1, OverwrittenType
<1>10. /\ removed \in Changes /\ removed.start = coord /\ removed.end = end /\ removed.text = text
       /\ removed = Change(coord, end, text)
  <2>1. removed = Change(coord, end, text)
    BY <1>2, <1>3 DEF Overwriting
  <2>2. QED
    BY <1>1, <1>4, <1>9, <2>1 DEF Changes, Change
<1>11. Len(mLines) \in Nat /\ Len(lines) <= Len(mLines) /\ mLines \in Texts
  BY <1>1, RemainingLength, InvTypes
<1>12. Spans(removed, Len(mLines), Len(lines))
  <2>1. Len(mLines) <= Len(lines) + Len(selected) - 1
    BY <1>7, <1>8 DEF Spans
  <2>2. Taken(removed) = 0
    BY <1>1, <1>4, <1>9, <1>10 DEF Taken
  <2>3. ~Before(end, coord) /\ end.line < Len(lines) /\ end.line < Len(mLines) /\ coord.line < Len(lines)
    BY <1>1, <1>4, <1>6, <1>11 DEF IsRange
  <2>4. Len(lines) <= Len(mLines) - 0
    BY <1>1, <1>11
  <2>5. QED
    BY <1>9, <1>10, <2>1, <2>2, <2>3, <2>4 DEF Spans
<1>13. PICK q \in Seq(Alphabet) : q = SubSeq(line, (index + 1) + 1, Len(line))
  <2>1. PICK n \in Nat : n = Len(line)
    BY <1>1
  <2>2. PICK k \in Nat : k = index
    BY <1>1
  <2>3. k + 1 \in Nat /\ k + 1 <= n + 1
    BY <2>1, <2>2
  <2>4. n \in 0 .. Len(line) /\ line \in Seq(Alphabet)
    BY <1>1, <2>1
  <2>5. SubSeq(line, (k + 1) + 1, n) \in Seq(Alphabet)
    BY <2>3, <2>4, PartFacts
  <2>6. QED
    BY <2>1, <2>2, <2>5
<1>14. x \in Seq(Alphabet) /\ Typed(x, line, index, char)
  <2>1. x = (SubSeq(line, 1, index) \o <<char>>) \o q
    BY <1>13 DEF Overwriting
  <2>2. Typed((SubSeq(line, 1, index) \o <<char>>) \o q, line, index, char)
    BY <1>1, <1>13, TypedLine
  <2>3. Typed(x, line, index, char)
    BY <2>1, <2>2
  <2>4. QED
    BY <2>3 DEF Typed
<1>15. /\ GetCharacterColumn(x, index + 1) \in Nat /\ GetCharacterColumn(line, index) \in Nat
       /\ GetCharacterColumn(x, index + 1) > GetCharacterColumn(line, index)
  BY <1>1, <1>14, TypedColumn
<1>16. cursor \in Coordinates /\ cursor.line = coord.line
       /\ cursor.column = GetCharacterColumn(x, index + 1)
  <2>1. PICK i \in Nat, k \in Nat : i = coord.line /\ k = GetCharacterColumn(x, index + 1)
    BY <1>1, <1>15
  <2>2. At(i, k) \in Coordinates /\ At(i, k).line = i /\ At(i, k).column = k
    BY AtFacts
  <2>3. cursor = At(coord.line, GetCharacterColumn(x, index + 1))
    BY DEF Overwriting
  <2>4. QED
    BY <2>1, <2>2, <2>3
<1>17. ~Before(cursor, coord)
  <2>1. PICK i \in Nat, j \in Nat, k \in Nat : i = coord.column /\ j = GetCharacterColumn(line, index)
                                          /\ k = GetCharacterColumn(x, index + 1)
    BY <1>1, <1>15
  <2>2. ~(k < i)
    BY <1>1, <1>15, <2>1
  <2>3. ~(cursor.line < coord.line) /\ ~(cursor.column < coord.column)
    BY <1>1, <1>16, <2>1, <2>2
  <2>4. QED
    BY <2>3 DEF Before
<1>18. after \in States /\ (\A n : StateFits(after, n)) /\ \A l : InColumns(after, l)
  <2>1. after = [state EXCEPT !.cursor = cursor]
    BY DEF Overwriting
  <2>2. QED
    BY <1>1, <1>16, <2>1, FlatFacts
<1>19. PICK added : added = Change(coord, cursor, << <<char>> >>)
  OBVIOUS
<1>20. /\ added \in Changes /\ added.start = coord /\ added.end = cursor /\ added.text = << <<char>> >>
       /\ Len(added.text) = 1 /\ added.text # Nothing
  BY <1>1, <1>16, <1>19, OneCharacter DEF Changes, Change
<1>21. PICK new : new = mLines'
  OBVIOUS
<1>22. new = ReplaceAt(lines, coord.line + 1, x) /\ new \in Texts /\ Len(new) = Len(lines) /\ new # <<>>
  <2>1. PICK l \in 0 .. Len(lines) - 1 : l = coord.line
    BY <1>1
  <2>2. lines \in Texts
    BY <1>1
  <2>3. \A y \in Seq(Alphabet) : ReplaceAt(lines, l + 1, y) \in Texts
                                  /\ Len(ReplaceAt(lines, l + 1, y)) = Len(lines)
    BY <2>2, ReplaceIs
  <2>4. new = ReplaceAt(lines, l + 1, x) /\ new \in Texts /\ Len(new) = Len(lines)
    BY <1>14, <1>21, <2>1, <2>3
  <2>5. Len(lines) # 0
    BY <1>1
  <2>6. QED
    BY <2>1, <2>4, <2>5
<1>23. \A n \in Nat : coord.line < n => Spans(added, n, n)
  <2>1. Taken(added) = 0
    BY <1>1, <1>16, <1>20 DEF Taken
  <2>2. ASSUME NEW n \in Nat, coord.line < n PROVE Spans(added, n, n)
    <3>1. cursor.line < n /\ n <= n + 1 - 1 /\ n <= n - 0
      BY <1>16, <2>2
    <3>2. QED
      BY <1>17, <1>20, <2>1, <2>2, <3>1 DEF Spans
  <2>3. QED
    BY <2>2
<1>24. clipboard' \in Texts /\ clipboard' # <<>> /\ interactive' = interactive /\ mOverwrite' = mOverwrite
  BY InvTypes
<1>25. /\ mLines' \in Texts /\ mLines' # <<>> /\ mState' \in States /\ StateFits(mState', Len(mLines'))
       /\ StateFits(after, Len(mLines')) /\ AddUndo(added, removed, after)
  BY <1>18, <1>19, <1>21, <1>22
<1>26. CASE HasSelection
  <2>1. ~exact'
    BY <1>26
  <2>2. Spans(added, Len(mLines'), Len(lines))
    BY <1>1, <1>21, <1>22, <1>23
  <2>3. QED
    BY <1>1, <1>10, <1>12, <1>18, <1>20, <1>24, <1>25, <2>1, <2>2, EditKeeps
<1>27. CASE ~HasSelection
  <2>1. lines = mLines /\ selected = Nothing
    BY <1>1, <1>7, <1>27, NothingFacts DEF Remaining, SelectionRemoved
  <2>2. PICK D : D = DeleteRange(lines, coord, end)
    OBVIOUS
  <2>3. D \in Texts /\ Len(D) = Len(lines)
    <3>1. D \in Texts /\ Len(D) = Len(lines) - (end.line - coord.line)
      BY <1>1, <1>6, <2>2, RangeFacts
    <3>2. PICK i \in Nat, n \in Nat : i = coord.line /\ n = Len(lines)
      BY <1>1
    <3>3. n - (i - i) = n
      OBVIOUS
    <3>4. QED
      BY <1>4, <3>1, <3>2, <3>3
  <2>4. removed = Change(coord, end, GetText(lines, coord, end))
    BY <1>6, <1>9, <1>10, <2>1
  <2>5. Undoes(removed, lines, D)
    <3>1. coord.column <= GetLineMaxColumn(Line(lines, coord.line))
      BY <1>1 DEF InText
    <3>2. QED
      BY <1>1, <1>6, <2>2, <2>4, <3>1, RangeUndoes
  <2>6. Undoes(added, new, D)
    <3>1. Suffix(lines, end) = SubSeq(line, (index + 1) + 1, Len(line))
      BY <1>1, <1>4, <1>6 DEF Suffix
    <3>2. x = (Prefix(lines, coord) \o <<char>>) \o Suffix(lines, end)
      BY <1>1, <3>1 DEF Overwriting
    <3>3. cursor.column = GetCharacterColumn(x, GetCharacterIndex(lines, coord) + 1)
      BY <1>1, <1>16
    <3>4. Undoes(Change(coord, cursor, << <<char>> >>), ReplaceAt(lines, coord.line + 1, x),
                 DeleteRange(lines, coord, end))
      BY <1>1, <1>4, <1>6, <1>16, <3>2, <3>3, Overwritten
    <3>5. QED
      BY <1>19, <1>22, <2>2, <3>4
  <2>7. Spans(removed, Len(mLines), Len(D)) /\ Spans(added, Len(mLines'), Len(D))
    BY <1>1, <1>12, <1>21, <1>22, <1>23, <2>3
  <2>8. exact' => /\ exact /\ InColumns(mState', mLines') /\ InColumns(after, mLines')
                  /\ Undoes(removed, mLines, D) /\ Undoes(added, mLines', D)
    BY <1>18, <1>21, <2>1, <2>5, <2>6
  <2>9. QED
    BY <1>10, <1>20, <1>24, <1>25, <2>3, <2>7, <2>8, EditKeeps
<1>28. QED
  BY <1>26, <1>27

LEMMA CharacterKeeps ==
  ASSUME Inv, NEW lines, lines = Remaining, NEW state, state = Collapsed,
         NEW coord, coord = SanitizeCoordinates(lines, state.cursor), NEW char \in Alphabet,
         EnterCharacter(char, lines, state, coord)
  PROVE  Inv'
<1>1. PICK index \in {GetCharacterIndex(lines, coord)}, line \in {Line(lines, coord.line)},
           selected \in {SelectionRemoved} :
           LET overwriting == mOverwrite /\ index < Len(line)
               behind == IF overwriting THEN index + 1 ELSE index
               typed == SubSeq(line, 1, index) \o <<char>> \o SubSeq(line, behind + 1, Len(line))
               cursor == At(coord.line, GetCharacterColumn(typed, index + 1))
               after == [state EXCEPT !.cursor = cursor]
               removed == Change(state.cursor, At(coord.line, GetCharacterColumn(line, index + 1)),
                                 ReplaceAt(selected.text, Len(selected.text),
                                           Append(Last(selected.text), line[index + 1])))
           IN /\ mLines' = ReplaceAt(lines, coord.line + 1, typed)
              /\ mState' = after
              /\ AddUndo(Change(coord, cursor, << <<char>> >>),
                         IF overwriting THEN removed ELSE selected, after)
              /\ Recorded(~(overwriting /\ HasSelection))
              /\ UNCHANGED <<interactive, settings>>
  BY DEF EnterCharacter
<1>2. TypingAt(lines, state, coord, line, index) /\ selected = SelectionRemoved
  BY TypingIs
<1>3. UNCHANGED <<interactive, mOverwrite, clipboard>>
  BY <1>1 DEF settings
<1>4. CASE mOverwrite /\ index < Len(line)
  <2>1. PICK x : x = SubSeq(line, 1, index) \o <<char>> \o SubSeq(line, (index + 1) + 1, Len(line))
    OBVIOUS
  <2>2. PICK cursor : cursor = At(coord.line, GetCharacterColumn(x, index + 1))
    OBVIOUS
  <2>3. PICK after : after = [state EXCEPT !.cursor = cursor]
    OBVIOUS
  <2>4. PICK text : text = ReplaceAt(SelectionRemoved.text, Len(SelectionRemoved.text),
                                     Append(Last(SelectionRemoved.text), line[index + 1]))
    OBVIOUS
  <2>5. PICK removed :
          removed = Change(state.cursor, At(coord.line, GetCharacterColumn(line, index + 1)), text)
    OBVIOUS
  <2>6. /\ mLines' = ReplaceAt(lines, coord.line + 1, x) /\ mState' = after
        /\ AddUndo(Change(coord, cursor, << <<char>> >>), removed, after)
        /\ Recorded(~HasSelection)
    BY <1>1, <1>4, <2>1, <2>2, <2>3, <2>4, <2>5
  <2>7. exact' \in BOOLEAN /\ (exact' => exact /\ ~HasSelection)
    BY <2>6 DEF Recorded
  <2>8. Overwriting(state, coord, line, index, char, x, cursor, after, text, removed)
    BY <2>1, <2>2, <2>3, <2>4, <2>5 DEF Overwriting
  <2>9. index < Len(line) /\ TypingAt(lines, state, coord, line, index)
    BY <1>2, <1>4
  <2>10. QED
    BY <1>3, <2>6, <2>7, <2>8, <2>9, OverwriteKeeps
<1>5. CASE ~(mOverwrite /\ index < Len(line))
  <2>1. PICK x : x = SubSeq(line, 1, index) \o <<char>> \o SubSeq(line, index + 1, Len(line))
    OBVIOUS
  <2>2. PICK cursor : cursor = At(coord.line, GetCharacterColumn(x, index + 1))
    OBVIOUS
  <2>3. PICK after : after = [state EXCEPT !.cursor = cursor]
    OBVIOUS
  <2>4. /\ mLines' = ReplaceAt(lines, coord.line + 1, x) /\ mState' = after
        /\ AddUndo(Change(coord, cursor, << <<char>> >>), SelectionRemoved, after)
        /\ exact' = (exact /\ ~((mOverwrite /\ index < Len(line)) /\ HasSelection))
    BY <1>1, <1>5, <2>1, <2>2, <2>3 DEF Recorded
  <2>5. exact' \in BOOLEAN /\ (exact' => exact)
    BY <2>4
  <2>6. QED
    BY <1>2, <1>3, <2>1, <2>2, <2>3, <2>4, <2>5, TypeKeeps
<1>6. QED
  BY <1>4, <1>5

(* Pasting.                                                                 *)

\* Characters other than tabs are a column wide each.
LEMMA PlainColumns ==
  ASSUME NEW line, NEW k \in Nat, NEW n \in Nat, \A i \in 1 .. n : line[k + i] # Tab
  PROVE  GetCharacterColumn(line, k + n) = GetCharacterColumn(line, k) + n
<1> DEFINE S == {i \in Nat : GetCharacterColumn(line, k + i) = GetCharacterColumn(line, k) + i}
<1>1. GetCharacterColumn(line, k) \in Nat
  BY ColumnFacts
<1>2. 0 \in S
  <2>1. k + 0 = k /\ GetCharacterColumn(line, k) + 0 = GetCharacterColumn(line, k)
    BY <1>1
  <2>2. QED
    BY <2>1
<1>3. ASSUME NEW i \in 0 .. n - 1, i \in S PROVE i + 1 \in S
  <2>1. i \in Nat /\ i + 1 \in 1 .. n /\ k + i \in Nat /\ (k + i) + 1 = k + (i + 1)
    OBVIOUS
  <2>2. GetCharacterColumn(line, (k + i) + 1) = NextColumn(GetCharacterColumn(line, k + i), line[(k + i) + 1])
    BY <2>1, ColumnFacts
  <2>3. line[k + (i + 1)] # Tab
    BY <2>1
  <2>4. GetCharacterColumn(line, k + (i + 1)) = GetCharacterColumn(line, k + i) + 1
    BY <2>1, <2>2, <2>3 DEF NextColumn
  <2>5. GetCharacterColumn(line, k + i) = GetCharacterColumn(line, k) + i
    BY <1>3
  <2>6. GetCharacterColumn(line, k + (i + 1)) = GetCharacterColumn(line, k) + (i + 1)
    BY <1>1, <2>1, <2>4, <2>5
  <2>7. QED
    BY <2>1, <2>6
<1> HIDE DEF S
<1>4. 0 .. n \subseteq S
  BY <1>2, <1>3, UpTo
<1>5. n \in S
  BY <1>4
<1>6. QED
  BY <1>5 DEF S

\* A line of three parts.
ThreeParts(w, k, t, m) ==
  /\ w \in Seq(Alphabet) /\ Len(w) \in Nat /\ k \in Nat /\ m \in Nat /\ k + m \in 0 .. Len(w)
  /\ \A i \in 1 .. m : w[k + i] = t[i]

LEMMA PartsOf ==
  ASSUME NEW p \in Seq(Alphabet), NEW t \in Seq(Alphabet), NEW q \in Seq(Alphabet)
  PROVE  ThreeParts((p \o t) \o q, Len(p), t, Len(t)) /\ Alike((p \o t) \o q, p, 1, Len(p))
<1>1. PICK k \in Nat, m \in Nat, j \in Nat : k = Len(p) /\ m = Len(t) /\ j = Len(q)
  BY LenProperties
<1>2. /\ p \o t \in Seq(Alphabet) /\ Len(p \o t) = Len(p) + Len(t)
      /\ \A i \in 1 .. Len(p) + Len(t) : (p \o t)[i] = IF i <= Len(p) THEN p[i] ELSE t[i - Len(p)]
  BY ConcatProperties
<1>3. PICK s : s = p \o t
  OBVIOUS
<1>4. /\ s \in Seq(Alphabet) /\ Len(s) = k + m
      /\ \A i \in 1 .. k + m : s[i] = IF i <= k THEN p[i] ELSE t[i - k]
  BY <1>1, <1>2, <1>3
<1>5. /\ s \o q \in Seq(Alphabet) /\ Len(s \o q) = Len(s) + Len(q)
      /\ \A i \in 1 .. Len(s) + Len(q) : (s \o q)[i] = IF i <= Len(s) THEN s[i] ELSE q[i - Len(s)]
  <2>1. s \in Seq(Alphabet)
    BY <1>4
  <2>2. QED
    BY <2>1, ConcatProperties
<1>6. PICK w : w = s \o q
  OBVIOUS
<1>7. /\ w \in Seq(Alphabet) /\ Len(w) = k + m + j
      /\ \A i \in 1 .. k + m : w[i] = s[i]
  BY <1>1, <1>4, <1>5, <1>6
<1>8. \A i \in 1 .. k : w[i] = p[i]
  BY <1>4, <1>7
<1>9. ASSUME NEW i \in 1 .. m PROVE w[k + i] = t[i]
  <2>1. k + i \in 1 .. k + m /\ ~(k + i <= k) /\ (k + i) - k = i
    OBVIOUS
  <2>2. QED
    BY <1>4, <1>7, <2>1
<1>10. Len(w) \in Nat /\ k + m \in 0 .. Len(w)
  BY <1>7
<1>11. QED
  BY <1>1, <1>3, <1>6, <1>7, <1>8, <1>9, <1>10 DEF ThreeParts, Alike

\* Where a coordinate of a line of the text is brought.
LEMMA SanitizedLine ==
  ASSUME NEW lines, NEW c \in Coordinates, Len(lines) \in Nat, c.line < Len(lines)
  PROVE  /\ SanitizeCoordinates(lines, c).line = c.line
         /\ \/ SanitizeCoordinates(lines, c) = c
            \/ SanitizeCoordinates(lines, c).column = GetLineMaxColumn(Line(lines, c.line))
<1>1. c.line \in Nat
  BY DEF Coordinates
<1>2. ~(c.line > Len(lines) - 1)
  BY <1>1
<1>3. QED
  BY <1>2 DEF SanitizeCoordinates, At

\* No index has a column behind the end of the line.
LEMMA ColumnInLine ==
  ASSUME NEW line, Len(line) \in Nat, NEW k \in 0 .. Len(line)
  PROVE  GetCharacterColumn(line, k) <= GetLineMaxColumn(line)
<1>1. GetLineMaxColumn(line) = GetCharacterColumn(line, Len(line)) /\ GetLineMaxColumn(line) \in Nat
  BY ColumnType
<1>2. CASE k = Len(line)
  BY <1>1, <1>2
<1>3. CASE k # Len(line)
  <2>1. k \in 0 .. Len(line) - 1
    BY <1>3
  <2>2. GetCharacterColumn(line, k) < GetCharacterColumn(line, Len(line))
    BY <2>1, ColumnsGrow
  <2>3. GetCharacterColumn(line, k) \in Nat
    BY ColumnFacts
  <2>4. QED
    BY <1>1, <2>2, <2>3
<1>4. QED
  BY <1>2, <1>3

\* The last line of what is inserted, with k characters of the text before it.
LastLineIs(w, k, lines, c, text, n) ==
  /\ n \in Nat /\ n >= 1 /\ n = Len(text)
  /\ k = (IF n = 1 THEN GetCharacterIndex(lines, c) ELSE 0)
  /\ text[n] \in Seq(Alphabet)
  /\ ThreeParts(w, k, text[n], Len(text[n]))
  /\ n = 1 => Alike(w, Line(lines, c.line), 1, k) /\ c.column <= GetLineMaxColumn(w)

LEMMA LastLine ==
  ASSUME NEW lines \in Texts, NEW c, InText(c, lines), NEW text \in Texts, text # <<>>
  PROVE  LET u == InsertTextAt(lines, c, text)
             n == Len(text)
         IN  /\ u \in Texts /\ Len(u) = Len(lines) + n - 1
             /\ \E k : LastLineIs(Line(u, c.line + n - 1), k, lines, c, text, n)
<1>1. c \in Coordinates /\ c.line < Len(lines) /\ c.column <= GetLineMaxColumn(Line(lines, c.line))
  BY DEF InText
<1>2. PICK n \in Nat : n = Len(text) /\ n >= 1
  BY TextLength
<1>3. PICK l \in Nat : l = c.line
  BY <1>1 DEF Coordinates
<1>4. PICK line, k : PlaceIs(lines, c, line, k)
  BY <1>1, Places
<1>5. PICK p \in Seq(Alphabet), q \in Seq(Alphabet) :
        /\ p = Prefix(lines, c) /\ q = Suffix(lines, c) /\ Len(p) = k
        /\ k = GetCharacterIndex(lines, c) /\ Alike(p, line, 1, k) /\ line = Line(lines, c.line)
  BY <1>4 DEF PlaceIs
<1>6. PICK t \in Seq(Alphabet) : t = text[n]
  <2>1. n \in 1 .. Len(text) /\ text \in Seq(Seq(Alphabet))
    BY <1>2 DEF Texts, Alphabet
  <2>2. text[n] \in Seq(Alphabet)
    BY <2>1, ElementOfSeq
  <2>3. QED
    BY <2>2
<1>7. PICK J : J = Joined(lines, c, text)
  OBVIOUS
<1>8. JoinedIs(J, p, text, q, n)
  BY <1>1, <1>2, <1>5, <1>7, JoinedFacts
<1>9. PICK u : u = InsertTextAt(lines, c, text)
  OBVIOUS
<1>10. InsertedIs(u, lines, c, text, J)
  BY <1>1, <1>7, <1>9, InsertFacts
<1>11. u \in Texts /\ Len(u) = Len(lines) + n - 1
  BY <1>2, <1>10 DEF InsertedIs
<1>12. PICK w : w = Line(u, l + n - 1)
  OBVIOUS
<1>13. w = J[n]
  <2>1. (l + n - 1) + 1 = l + n /\ n \in 1 .. n
    BY <1>2
  <2>2. u[l + n] = J[n]
    BY <1>2, <1>3, <1>10, <2>1 DEF InsertedIs
  <2>3. QED
    BY <1>12, <2>1, <2>2 DEF Line
<1>14. CASE n = 1
  <2>1. w = (p \o t) \o q
    BY <1>6, <1>8, <1>13, <1>14 DEF JoinedIs
  <2>2. ThreeParts(w, k, t, Len(t)) /\ Alike(w, p, 1, k)
    BY <1>5, <2>1, PartsOf
  <2>3. Alike(w, line, 1, k)
    BY <1>5, <2>2 DEF Alike
  <2>4. c.column <= GetLineMaxColumn(w)
    <3>1. PICK r \in Seq(Alphabet) : r = t \o q
      BY ConcatProperties
    <3>2. w = p \o r
      BY <2>1, <3>1, ConcatAssociative, SMTT(30)
    <3>3. l + n - 1 = l
      BY <1>14
    <3>4. w = Line(u, c.line)
      BY <1>3, <1>12, <3>3
    <3>5. LineIs(u, c.line, Prefix(lines, c), r)
      BY <1>5, <3>2, <3>4 DEF LineIs
    <3>6. c.line < Len(u)
      <4>1. PICK m \in Nat : m = Len(lines)
        BY LenProperties DEF Texts
      <4>2. m + 1 - 1 = m
        OBVIOUS
      <4>3. QED
        BY <1>1, <1>11, <1>14, <4>1, <4>2
    <3>7. c.column <= GetLineMaxColumn(Line(u, c.line))
      BY <1>1, <1>11, <3>5, <3>6, PrefixKept
    <3>8. QED
      BY <3>4, <3>7
  <2>5. LastLineIs(w, k, lines, c, text, n)
    BY <1>2, <1>5, <1>6, <1>14, <2>2, <2>3, <2>4 DEF LastLineIs
  <2>6. QED
    BY <1>2, <1>3, <1>9, <1>11, <1>12, <2>5
<1>15. CASE n # 1
  <2>1. w = t \o q
    BY <1>2, <1>6, <1>8, <1>13, <1>15 DEF JoinedIs
  <2>2. PICK s \in Seq(Alphabet) : s = <<>> /\ Len(s) = 0
    <3>1. <<>> \in Seq(Alphabet) /\ Len(<<>>) = 0
      OBVIOUS
    <3>2. QED
      BY <3>1
  <2>3. s \o t = t
    BY <2>2, ConcatEmptySeq
  <2>4. w = (s \o t) \o q
    BY <2>1, <2>3
  <2>5. ThreeParts(w, 0, t, Len(t))
    BY <2>2, <2>4, PartsOf
  <2>6. LastLineIs(w, 0, lines, c, text, n)
    BY <1>2, <1>6, <1>15, <2>5 DEF LastLineIs
  <2>7. QED
    BY <1>2, <1>3, <1>9, <1>11, <1>12, <2>6
<1>16. QED
  BY <1>14, <1>15

\* Where the record of what was pasted ends, which is where the text ends if a
\* column was counted for every character rightly.
PastedEnd(e, pos, lines, c, text, n) ==
  /\ pos \in Coordinates /\ e \in Coordinates /\ e.line = c.line + n - 1 /\ ~Before(e, c)
  /\ OnBoundary(lines, c) /\ ~Contains(Last(text), Tab) =>
       GetCharacterIndex(InsertTextAt(lines, c, text), e)
         = Len(text[n]) + (IF n = 1 THEN GetCharacterIndex(lines, c) ELSE 0)

LEMMA PastedFacts ==
  ASSUME NEW lines \in Texts, NEW c, InText(c, lines), NEW text \in Texts, text # <<>>
  PROVE  LET pos == InsertionEnd(c, text)
             e == SanitizeCoordinates(InsertTextAt(lines, c, text), pos)
         IN  PastedEnd(e, pos, lines, c, text, Len(text))
<1>1. c \in Coordinates /\ c.line < Len(lines) /\ c.column <= GetLineMaxColumn(Line(lines, c.line))
  BY DEF InText
<1>2. PICK l \in Nat, j \in Nat, m \in Nat : l = c.line /\ j = c.column /\ m = Len(lines) /\ l < m
  BY <1>1, LenProperties DEF Coordinates, Texts
<1>3. PICK n \in Nat : n = Len(text) /\ n >= 1
  BY TextLength
<1>4. PICK u : u = InsertTextAt(lines, c, text)
  OBVIOUS
<1>5. u \in Texts /\ Len(u) = m + n - 1 /\ \E k : LastLineIs(Line(u, c.line + n - 1), k, lines, c, text, n)
  BY <1>2, <1>3, <1>4, LastLine
<1>6. PICK w, k : w = Line(u, c.line + n - 1) /\ LastLineIs(w, k, lines, c, text, n)
  BY <1>5
<1>7. PICK t \in Seq(Alphabet), b \in Nat : t = text[n] /\ b = Len(t)
  BY <1>6, LenProperties DEF LastLineIs
<1>8. /\ k = (IF n = 1 THEN GetCharacterIndex(lines, c) ELSE 0)
      /\ w \in Seq(Alphabet) /\ Len(w) \in Nat /\ k \in Nat /\ k + b \in 0 .. Len(w)
      /\ \A i \in 1 .. b : w[k + i] = t[i]
      /\ n = 1 => Alike(w, Line(lines, c.line), 1, k) /\ c.column <= GetLineMaxColumn(w)
  BY <1>6, <1>7 DEF LastLineIs, ThreeParts
<1>9. PICK a \in Nat : a = IF n = 1 THEN j ELSE 0
  OBVIOUS
<1>10. PICK pos : pos = At(l + n - 1, b + a)
  OBVIOUS
<1>11. pos \in Coordinates /\ pos.line = l + n - 1 /\ pos.column = b + a
  <2>1. l + n - 1 \in Nat /\ b + a \in Nat
    BY <1>3
  <2>2. QED
    BY <1>10, <2>1, AtFacts
<1>12. pos = InsertionEnd(c, text)
  BY <1>2, <1>3, <1>7, <1>9, <1>10 DEF InsertionEnd
<1>13. w = Line(u, pos.line) /\ Len(u) \in Nat /\ pos.line < Len(u) /\ u # <<>>
  <2>1. w = Line(u, pos.line)
    BY <1>2, <1>6, <1>11
  <2>2. Len(u) \in Nat /\ pos.line < Len(u)
    BY <1>2, <1>3, <1>5, <1>11
  <2>3. Len(u) # 0
    BY <1>2, <1>3, <1>5
  <2>4. QED
    BY <2>1, <2>2, <2>3
<1>14. PICK e : e = SanitizeCoordinates(u, pos)
  OBVIOUS
<1>15. /\ InText(e, u) /\ (InText(pos, u) => e = pos) /\ e.line = pos.line
       /\ (e = pos \/ e.column = GetLineMaxColumn(w))
  BY <1>5, <1>11, <1>13, <1>14, SanitizeFacts, SanitizedLine
<1>16. e \in Coordinates /\ GetLineMaxColumn(w) \in Nat
  <2>1. GetLineMaxColumn(w) \in Nat
    BY <1>8, ColumnType
  <2>2. QED
    BY <1>15, <2>1 DEF InText
<1>17. ~Before(e, c)
  <2>1. CASE n = 1
    <3>1. PICK i \in Nat : i = GetLineMaxColumn(w)
      BY <1>16
    <3>2. e.column = b + a \/ e.column = i
      BY <1>11, <1>15, <3>1
    <3>3. j <= i /\ a = j
      BY <1>2, <1>8, <1>9, <2>1, <3>1
    <3>4. ~(e.column < j)
      BY <3>2, <3>3
    <3>5. e.line = l
      BY <1>11, <1>15, <2>1
    <3>6. QED
      BY <1>2, <3>4, <3>5 DEF Before
  <2>2. CASE n # 1
    <3>1. n > 1
      BY <1>3, <2>2
    <3>2. e.line = l + n - 1 /\ ~(l + n - 1 < l) /\ l + n - 1 # l
      BY <1>11, <1>15, <3>1
    <3>3. QED
      BY <1>2, <3>2 DEF Before
  <2>3. QED
    BY <2>1, <2>2
<1>18. ASSUME OnBoundary(lines, c), ~Contains(Last(text), Tab)
       PROVE  GetCharacterIndex(u, e) = k + b
  <2>1. \A i \in 1 .. b : w[k + i] # Tab
    <3>1. \A i \in 1 .. b : t[i] # Tab
      BY <1>3, <1>7, <1>18 DEF Contains, Last
    <3>2. QED
      BY <1>8, <3>1
  <2>2. GetCharacterColumn(w, k + b) = GetCharacterColumn(w, k) + b
    BY <1>8, <2>1, PlainColumns
  <2>3. GetCharacterColumn(w, k) = a
    <3>1. CASE n = 1
      <4>1. PICK line : line = Line(lines, c.line)
        OBVIOUS
      <4>2. GetCharacterColumn(line, k) = j
        BY <1>2, <1>8, <1>18, <3>1, <4>1 DEF OnBoundary
      <4>3. Alike(w, line, 1, k)
        BY <1>8, <3>1, <4>1
      <4>4. GetCharacterColumn(w, k) = GetCharacterColumn(line, k)
        BY <1>8, <4>3, ColumnFacts
      <4>5. QED
        BY <1>9, <3>1, <4>2, <4>4
    <3>2. CASE n # 1
      <4>1. k = 0 /\ a = 0
        BY <1>8, <1>9, <3>2
      <4>2. QED
        BY <4>1, ColumnFacts
    <3>3. QED
      BY <3>1, <3>2
  <2>4. pos.column = GetCharacterColumn(w, k + b)
    BY <1>11, <2>2, <2>3
  <2>5. pos.column <= GetLineMaxColumn(w)
    BY <1>8, <2>4, ColumnInLine
  <2>6. e = pos
    BY <1>11, <1>13, <1>15, <2>5 DEF InText
  <2>7. QED
    BY <1>8, <1>11, <1>13, <2>4, <2>6, ColumnIndex
<1>19. k + b = Len(text[n]) + (IF n = 1 THEN GetCharacterIndex(lines, c) ELSE 0)
  BY <1>7, <1>8
<1>20. PastedEnd(e, pos, lines, c, text, n)
  BY <1>2, <1>4, <1>11, <1>15, <1>16, <1>17, <1>18, <1>19 DEF PastedEnd
<1>21. QED
  BY <1>3, <1>4, <1>12, <1>14, <1>20

LEMMA PasteKeeps ==
  ASSUME Inv, NEW lines, lines = Remaining, NEW state, NEW coord, InText(coord, lines),
         Paste(lines, state, coord)
  PROVE  Inv'
<1>1. PICK pasted \in {InsertTextAt(lines, coord, clipboard)}, pos \in {InsertionEnd(coord, clipboard)} :
        \E after \in {SetSelection(pasted, pos, pos, pos)} :
          /\ clipboard # Nothing
          /\ mLines' = pasted
          /\ mState' = after
          /\ AddUndo(Change(coord, SanitizeCoordinates(pasted, pos), clipboard), SelectionRemoved, after)
          /\ Recorded(~Contains(Last(clipboard), Tab) /\ OnBoundary(lines, coord))
          /\ UNCHANGED <<interactive, settings>>
  BY DEF Paste
<1>2. PICK after \in {SetSelection(pasted, pos, pos, pos)} :
          /\ clipboard # Nothing
          /\ mLines' = pasted
          /\ mState' = after
          /\ AddUndo(Change(coord, SanitizeCoordinates(pasted, pos), clipboard), SelectionRemoved, after)
          /\ Recorded(~Contains(Last(clipboard), Tab) /\ OnBoundary(lines, coord))
          /\ UNCHANGED <<interactive, settings>>
  BY <1>1
<1>3. lines \in Texts /\ lines # <<>> /\ clipboard \in Texts /\ clipboard # <<>>
  BY SelectionFacts, InvTypes
<1>4. PICK text \in Texts : text = clipboard /\ text # <<>> /\ text # Nothing
  BY <1>2, <1>3
<1>5. pasted = InsertTextAt(lines, coord, text) /\ pos = InsertionEnd(coord, text)
  BY <1>4
<1>6. PICK e : e = SanitizeCoordinates(pasted, pos)
  OBVIOUS
<1>7. PastedEnd(e, pos, lines, coord, text, Len(text))
  BY <1>3, <1>4, <1>5, <1>6, PastedFacts
<1>8. pos \in Coordinates /\ e \in Coordinates /\ e.line = coord.line + Len(text) - 1 /\ ~Before(e, coord)
  BY <1>7 DEF PastedEnd
<1>9. pasted \in Texts /\ pasted # <<>>
  <2>1. coord \in Coordinates /\ coord.line < Len(lines)
    BY DEF InText
  <2>2. InsertedIs(pasted, lines, coord, text, Joined(lines, coord, text))
    BY <1>3, <1>4, <1>5, <2>1, InsertFacts
  <2>3. pasted \in Texts /\ Len(pasted) = Len(lines) + Len(text) - 1
    BY <2>2 DEF InsertedIs
  <2>4. Len(lines) \in Nat /\ Len(lines) >= 1 /\ Len(text) \in Nat /\ Len(text) >= 1
    BY <1>3, <1>4, TextLength
  <2>5. Len(pasted) # 0
    BY <2>3, <2>4
  <2>6. QED
    BY <2>3, <2>5
<1>10. StateIn(after, pasted)
  BY <1>2, <1>8, <1>9, SetSelectionFacts
<1>11. after \in States /\ StateFits(after, Len(mLines')) /\ InColumns(after, mLines')
  BY <1>2, <1>10 DEF StateIn
<1>12. /\ mLines' = InsertTextAt(Remaining, coord, text) /\ mState' = after
       /\ AddUndo(Change(coord, e, text), SelectionRemoved, after)
       /\ UNCHANGED <<interactive, mOverwrite, clipboard>>
  BY <1>2, <1>4, <1>5, <1>6 DEF settings
<1>13. exact' \in BOOLEAN
  BY <1>2 DEF Recorded
<1>14. ASSUME exact'
       PROVE  /\ exact /\ text = text
              /\ GetCharacterIndex(mLines', e)
                   = Len(text[Len(text)]) + (IF Len(text) = 1 THEN GetCharacterIndex(Remaining, coord) ELSE 0)
  <2>1. exact /\ ~Contains(Last(text), Tab) /\ OnBoundary(lines, coord)
    BY <1>2, <1>4, <1>14 DEF Recorded
  <2>2. QED
    BY <1>2, <1>5, <1>7, <2>1 DEF PastedEnd
<1>15. InText(coord, Remaining)
  OBVIOUS
<1>16. QED
  BY <1>4, <1>8, <1>11, <1>12, <1>13, <1>14, <1>15, InsertionKeeps

LEMMA InsertKeeps == Inv /\ Insert => Inv'
<1> SUFFICES ASSUME Inv, Insert PROVE Inv'
  OBVIOUS
<1>1. PICK lines \in {Remaining}, state \in {Collapsed} :
        \E coord \in {SanitizeCoordinates(lines, state.cursor)} :
          \/ EnterNewLine(lines, state, coord)
          \/ \E char \in Characters \cup {Tab} : EnterCharacter(char, lines, state, coord)
          \/ Paste(lines, state, coord)
  BY DEF Insert
<1>2. PICK coord \in {SanitizeCoordinates(lines, state.cursor)} :
        \/ EnterNewLine(lines, state, coord)
        \/ \E char \in Characters \cup {Tab} : EnterCharacter(char, lines, state, coord)
        \/ Paste(lines, state, coord)
  BY <1>1
<1>3. lines = Remaining /\ state = Collapsed /\ coord = SanitizeCoordinates(lines, state.cursor)
  OBVIOUS
<1>4. InText(coord, lines)
  BY <1>3, SelectionFacts, SanitizeFacts
<1>5. CASE EnterNewLine(lines, state, coord)
  BY <1>3, <1>4, <1>5, NewLineKeeps
<1>6. ASSUME NEW char \in Characters \cup {Tab}, EnterCharacter(char, lines, state, coord) PROVE Inv'
  <2>1. char \in Alphabet
    BY DEF Alphabet
  <2>2. QED
    BY <1>3, <1>6, <2>1, CharacterKeeps
<1>7. CASE Paste(lines, state, coord)
  BY <1>3, <1>4, <1>7, PasteKeeps
<1>8. QED
  BY <1>2, <1>5, <1>6, <1>7

(* Indenting.                                                               *)

LEMMA UnindentedType ==
  ASSUME NEW line \in Seq(Alphabet)
  PROVE  Unindented(line) \in Seq(Alphabet)
<1> DEFINE kept(n) == n = Len(line) \/ n = TabSize \/ line[n + 1] # Blank
           T == {n \in 0 .. Len(line) : kept(n)}
           least == CHOOSE n \in 0 .. Len(line) : kept(n) /\ \A m \in 0 .. n - 1 : ~kept(m)
<1>1. Len(line) \in Nat
  BY LenProperties
<1>2. CASE line # <<>> /\ line[1] = Tab
  <2>1. Tail(line) \in Seq(Alphabet)
    BY <1>2, HeadTailProperties
  <2>2. QED
    BY <1>2, <2>1 DEF Unindented
<1>3. CASE ~(line # <<>> /\ line[1] = Tab)
  <2>1. PICK n \in 0 .. Len(line) : kept(n) /\ \A m \in 0 .. n - 1 : ~kept(m)
    <3>1. Len(line) \in T /\ T \subseteq Nat
      BY <1>1
    <3>2. PICK n \in T : \A m \in T : n <= m
      BY <3>1, LeastNumber
    <3>3. n \in 0 .. Len(line) /\ kept(n)
      OBVIOUS
    <3>4. ASSUME NEW m \in 0 .. n - 1, kept(m) PROVE FALSE
      <4>1. m \in T
        BY <1>1, <3>3, <3>4
      <4>2. n <= m
        BY <3>2, <4>1
      <4>3. QED
        BY <1>1, <3>3, <4>2
    <3>5. QED
      BY <3>3, <3>4
  <2>2. least \in 0 .. Len(line)
    BY <2>1
  <2>3. Unindented(line) = SubSeq(line, 1 + least, Len(line))
    BY <1>3 DEF Unindented
  <2> HIDE DEF least
  <2>4. PICK p \in Nat : p = least /\ p <= Len(line)
    BY <1>1, <2>2
  <2>5. Len(line) \in 0 .. Len(line) /\ p <= Len(line) + 1 /\ 1 + p = p + 1
    BY <1>1, <2>4
  <2>6. SubSeq(line, p + 1, Len(line)) \in Seq(Alphabet)
    BY <2>5, PartFacts
  <2>7. QED
    BY <2>3, <2>4, <2>5, <2>6
<1>4. QED
  BY <1>2, <1>3

\* Texts that differ in their lines from the first to the last only.
Within(lines, others, first, last) ==
  /\ Len(others) = Len(lines)
  /\ \A i \in 1 .. Len(lines) : i - 1 \notin first .. last => others[i] = lines[i]
EndOf(lines, last) == At(last, GetLineMaxColumn(Line(lines, last)))

LEMMA EndsOf ==
  ASSUME NEW lines \in Texts, NEW first \in Nat, NEW last \in Nat, first <= last, last < Len(lines)
  PROVE  /\ IsRange(At(first, 0), EndOf(lines, last), lines)
         /\ At(first, 0).column <= GetLineMaxColumn(Line(lines, first))
         /\ Prefix(lines, At(first, 0)) \o Suffix(lines, EndOf(lines, last)) = <<>>
         /\ At(first, 0).line = first /\ EndOf(lines, last).line = last
         /\ EndOf(lines, last).column = GetLineMaxColumn(Line(lines, last))
<1>1. PICK m \in Nat : m = Len(lines)
  BY LenProperties DEF Texts
<1>2. first \in 0 .. Len(lines) - 1 /\ last \in 0 .. Len(lines) - 1
  BY <1>1
<1>3. /\ InText(At(first, 0), lines) /\ Prefix(lines, At(first, 0)) = <<>>
      /\ ~Before(EndOf(lines, first), At(first, 0))
  BY <1>2, LineEnds DEF EndOf
<1>4. InText(EndOf(lines, last), lines) /\ Suffix(lines, EndOf(lines, last)) = <<>>
  BY <1>2, LineEnds DEF EndOf
<1>5. /\ At(first, 0).line = first /\ At(first, 0).column = 0 /\ EndOf(lines, last).line = last
      /\ EndOf(lines, last).column = GetLineMaxColumn(Line(lines, last))
  BY DEF At, EndOf
<1>6. ~Before(EndOf(lines, last), At(first, 0))
  <2>1. GetLineMaxColumn(Line(lines, last)) \in Nat
    BY <1>2, MaxType
  <2>2. ~(last < first) /\ ~(GetLineMaxColumn(Line(lines, last)) < 0)
    BY <2>1
  <2>3. QED
    BY <1>5, <2>2 DEF Before
<1>7. At(first, 0).column <= GetLineMaxColumn(Line(lines, first))
  BY <1>3, <1>5 DEF InText
<1>8. IsRange(At(first, 0), EndOf(lines, last), lines)
  BY <1>3, <1>4, <1>6 DEF IsRange, InText
<1>9. <<>> \o <<>> = <<>>
  OBVIOUS
<1>10. QED
  BY <1>3, <1>4, <1>5, <1>7, <1>8, <1>9

LEMMA SameRest ==
  ASSUME NEW lines \in Texts, NEW others \in Texts, NEW first \in Nat, NEW last \in Nat,
         first <= last, last < Len(lines), Within(lines, others, first, last)
  PROVE  DeleteRange(lines, At(first, 0), EndOf(lines, last))
           = DeleteRange(others, At(first, 0), EndOf(others, last))
<1>1. PICK m \in Nat : m = Len(lines) /\ m = Len(others)
  BY LenProperties DEF Texts, Within
<1>2. last < Len(others)
  BY <1>1
<1>3. PICK a : a = At(first, 0)
  OBVIOUS
<1>4. PICK b : b = EndOf(lines, last)
  OBVIOUS
<1>5. PICK c : c = EndOf(others, last)
  OBVIOUS
<1>6. /\ IsRange(a, b, lines) /\ a.line = first /\ b.line = last
      /\ Prefix(lines, a) \o Suffix(lines, b) = <<>>
  BY <1>3, <1>4, EndsOf
<1>7. /\ IsRange(a, c, others) /\ c.line = last
      /\ Prefix(others, a) \o Suffix(others, c) = <<>>
  BY <1>2, <1>3, <1>5, EndsOf
<1>8. PICK d : d = DeleteRange(lines, a, b)
  OBVIOUS
<1>9. PICK e : e = DeleteRange(others, a, c)
  OBVIOUS
<1>10. /\ d \in Texts /\ Len(d) = m - (last - first) /\ d[first + 1] = <<>>
       /\ \A i \in 1 .. first : d[i] = lines[i]
       /\ \A i \in 1 .. m - (last + 1) : d[first + 1 + i] = lines[last + 1 + i]
  <2>1. a \in Coordinates /\ b \in Coordinates /\ a.line <= b.line /\ b.line < Len(lines)
    BY <1>6 DEF IsRange
  <2>2. /\ d \in Texts /\ Len(d) = Len(lines) - (b.line - a.line)
        /\ Line(d, a.line) = Prefix(lines, a) \o Suffix(lines, b)
        /\ \A i \in 1 .. a.line : d[i] = lines[i]
        /\ \A i \in 1 .. Len(lines) - (b.line + 1) : d[a.line + 1 + i] = lines[b.line + 1 + i]
    BY <1>8, <2>1, DeleteFacts
  <2>3. QED
    BY <1>1, <1>6, <2>2 DEF Line
<1>11. /\ e \in Texts /\ Len(e) = m - (last - first) /\ e[first + 1] = <<>>
       /\ \A i \in 1 .. first : e[i] = others[i]
       /\ \A i \in 1 .. m - (last + 1) : e[first + 1 + i] = others[last + 1 + i]
  <2>1. a \in Coordinates /\ c \in Coordinates /\ a.line <= c.line /\ c.line < Len(others)
    BY <1>6, <1>7 DEF IsRange
  <2>2. /\ e \in Texts /\ Len(e) = Len(others) - (c.line - a.line)
        /\ Line(e, a.line) = Prefix(others, a) \o Suffix(others, c)
        /\ \A i \in 1 .. a.line : e[i] = others[i]
        /\ \A i \in 1 .. Len(others) - (c.line + 1) : e[a.line + 1 + i] = others[c.line + 1 + i]
    BY <1>9, <2>1, DeleteFacts
  <2>3. QED
    BY <1>1, <1>6, <1>7, <2>2 DEF Line
<1>12. \A i \in 1 .. m : i - 1 \notin first .. last => others[i] = lines[i]
  BY <1>1 DEF Within
<1>13. ASSUME NEW i \in 1 .. Len(d) PROVE d[i] = e[i]
  <2>1. i \in Nat /\ i <= m - (last - first) /\ i >= 1
    BY <1>1, <1>10
  <2>2. CASE i < first + 1
    <3>1. i \in 1 .. first /\ i \in 1 .. m /\ i - 1 \notin first .. last
      BY <1>1, <2>1, <2>2
    <3>2. QED
      BY <1>10, <1>11, <1>12, <3>1
  <2>3. CASE i = first + 1
    BY <1>10, <1>11, <2>3
  <2>4. CASE i > first + 1
    <3>1. PICK j \in 1 .. m - (last + 1) : i = first + 1 + j
      <4>1. i - (first + 1) \in 1 .. m - (last + 1) /\ i = first + 1 + (i - (first + 1))
        BY <1>1, <2>1, <2>4
      <4>2. QED
        BY <4>1
    <3>2. last + 1 + j \in 1 .. m /\ (last + 1 + j) - 1 \notin first .. last
      BY <1>1
    <3>3. d[first + 1 + j] = lines[last + 1 + j] /\ e[first + 1 + j] = others[last + 1 + j]
      BY <1>10, <1>11
    <3>4. QED
      BY <1>12, <3>1, <3>2, <3>3
  <2>5. QED
    BY <2>1, <2>2, <2>3, <2>4
<1>14. d = e
  <2>1. d \in Seq(Seq(Alphabet)) /\ e \in Seq(Seq(Alphabet)) /\ Len(d) = Len(e)
    BY <1>10, <1>11 DEF Texts, Alphabet
  <2>2. QED
    BY <1>13, <2>1, SeqEqual
<1>15. QED
  BY <1>3, <1>4, <1>5, <1>8, <1>9, <1>14

LEMMA IndentedType ==
  ASSUME NEW lines \in Texts, NEW first \in Nat, NEW last \in Nat, NEW shift, NEW others,
         others = [i \in DOMAIN lines |->
                     IF i - 1 \notin first .. last THEN lines[i]
                     ELSE IF shift THEN Unindented(lines[i]) ELSE <<Tab>> \o lines[i]]
  PROVE  others \in Texts /\ Within(lines, others, first, last)
<1>1. PICK m \in Nat : m = Len(lines)
  BY LenProperties DEF Texts
<1>2. lines \in Seq(Seq(Alphabet)) /\ DOMAIN lines = 1 .. m
  BY <1>1, LenProperties DEF Texts, Alphabet
<1>3. \A i \in 1 .. m : lines[i] \in Seq(Alphabet)
  BY <1>1, <1>2, ElementOfSeq
<1>4. Tab \in Alphabet /\ <<Tab>> \in Seq(Alphabet)
  BY DEF Alphabet
<1>5. ASSUME NEW i \in 1 .. m
      PROVE  (IF i - 1 \notin first .. last THEN lines[i]
              ELSE IF shift THEN Unindented(lines[i]) ELSE <<Tab>> \o lines[i]) \in Seq(Alphabet)
  <2>1. PICK line \in Seq(Alphabet) : line = lines[i]
    BY <1>3
  <2>2. Unindented(line) \in Seq(Alphabet)
    BY UnindentedType
  <2>3. <<Tab>> \o line \in Seq(Alphabet)
    BY <1>4, ConcatProperties
  <2>4. QED
    BY <2>1, <2>2, <2>3
<1>6. others \in [1 .. m -> Seq(Alphabet)]
  BY <1>2, <1>5
<1>7. others \in Seq(Seq(Alphabet)) /\ Len(others) = m
  BY <1>6, LenProperties
<1>8. \A i \in 1 .. m : i - 1 \notin first .. last => others[i] = lines[i]
  BY <1>2
<1>9. QED
  BY <1>1, <1>7, <1>8 DEF Texts, Alphabet, Within

\* What Indent does, with the numbers of its first and last line.
Indents(first, last, whole, others) ==
  /\ HasSelection /\ mState.start.line # mState.end.line
  /\ first = mState.start.line /\ whole = (mState.end.column # 0)
  /\ last = IF whole THEN mState.end.line ELSE mState.end.line - 1
  /\ mLines' = others
  /\ mState' = [mState EXCEPT !.start = At(first, 0), !.end = IF whole THEN EndOf(others, last) ELSE @]
  /\ AddUndo(Change(At(first, 0), EndOf(others, last),
                    GetText(others, At(first, 0), EndOf(others, last))),
             Change(At(first, 0), EndOf(mLines, last),
                    GetText(mLines, At(first, 0), EndOf(mLines, last))),
             mState)
  /\ Recorded(SetSelection(others, mState.start, mState.end, mState.cursor) = mState)
  /\ UNCHANGED <<interactive, settings>>

LEMMA IndentsKeeps ==
  ASSUME Inv, NEW first, NEW last, NEW whole, NEW others, Indents(first, last, whole, others),
         others \in Texts, Within(mLines, others, first, last)
  PROVE  Inv'
<1>1. /\ mLines \in Texts /\ mLines # <<>> /\ Len(mLines) \in Nat /\ Len(mLines) >= 1
      /\ mState \in States /\ StateFits(mState, Len(mLines))
  BY InvTypes
<1>2. /\ mState.start \in Coordinates /\ mState.end \in Coordinates /\ mState.cursor \in Coordinates
  BY CursorFacts
<1>3. PICK i \in Nat, j \in Nat, c \in Nat : i = mState.start.line /\ j = mState.end.line /\ c = mState.end.column
  BY <1>2 DEF Coordinates
<1>4. i < j /\ j < Len(mLines)
  <2>1. Before(mState.start, mState.end) /\ mState.start.line # mState.end.line
    BY DEF Indents, HasSelection
  <2>2. mState.end.line < Len(mLines)
    BY <1>1, <2>1 DEF StateFits, Selected
  <2>3. QED
    BY <1>3, <2>1, <2>2 DEF Before
<1>5. first \in Nat /\ first = i
  BY <1>3 DEF Indents
<1>6. (whole <=> c # 0) /\ last = IF whole THEN j ELSE j - 1
  BY <1>3 DEF Indents
<1>7. last \in Nat /\ first <= last /\ last < Len(mLines) /\ Len(others) = Len(mLines) /\ last < Len(others)
  BY <1>1, <1>4, <1>5, <1>6 DEF Within
<1>8. PICK a : a = At(first, 0)
  OBVIOUS
<1>9. PICK b : b = EndOf(mLines, last)
  OBVIOUS
<1>10. PICK e : e = EndOf(others, last)
  OBVIOUS
<1>11. /\ IsRange(a, b, mLines) /\ a.column <= GetLineMaxColumn(Line(mLines, a.line))
       /\ a.line = first
  BY <1>1, <1>5, <1>7, <1>8, <1>9, EndsOf
<1>12. /\ IsRange(a, e, others) /\ a.column <= GetLineMaxColumn(Line(others, a.line))
       /\ e.line = last /\ e.column = GetLineMaxColumn(Line(others, last))
  BY <1>5, <1>7, <1>8, <1>10, EndsOf
<1>13. PICK rest : rest = DeleteRange(mLines, a, b)
  OBVIOUS
<1>14. rest = DeleteRange(others, a, e)
  BY <1>1, <1>5, <1>7, <1>8, <1>9, <1>10, <1>13, SameRest
<1>15. PICK added : added = Change(a, e, GetText(others, a, e))
  OBVIOUS
<1>16. PICK removed : removed = Change(a, b, GetText(mLines, a, b))
  OBVIOUS
<1>17. /\ rest \in Texts /\ removed \in Changes /\ Spans(removed, Len(mLines), Len(rest))
       /\ Undoes(removed, mLines, rest)
  BY <1>1, <1>11, <1>13, <1>16, RangeFacts, RangeSpans, RangeUndoes
<1>18. /\ added \in Changes /\ Spans(added, Len(others), Len(rest)) /\ Undoes(added, others, rest)
  BY <1>12, <1>14, <1>15, RangeFacts, RangeSpans, RangeUndoes
<1>19. others # <<>>
  BY <1>1, <1>7
<1>20. PICK s : s = [mState EXCEPT !.start = a, !.end = IF whole THEN e ELSE @]
  OBVIOUS
<1>21. a \in Coordinates /\ e \in Coordinates /\ a.column = 0
  BY <1>8, <1>11, <1>12 DEF IsRange, At
<1>22. s \in States /\ s.start = a /\ s.end = IF whole THEN e ELSE mState.end
  BY <1>1, <1>2, <1>20, <1>21 DEF States
<1>23. s.end.line = j /\ s.start.line = i
  BY <1>3, <1>5, <1>6, <1>11, <1>12, <1>22
<1>24. StateFits(s, Len(others))
  <2>1. ~(j < i) /\ j # i /\ j < Len(others)
    BY <1>4, <1>7
  <2>2. QED
    BY <1>23, <2>1 DEF StateFits, Before
<1>25. InColumns(s, others)
  <2>1. s.start.column <= GetLineMaxColumn(Line(others, s.start.line))
    BY <1>12, <1>22
  <2>2. s.end.column <= GetLineMaxColumn(Line(others, s.end.line))
    <3>1. PICK m \in Nat : m = GetLineMaxColumn(Line(others, j))
      <4>1. j \in 0 .. Len(others) - 1
        BY <1>1, <1>4, <1>7
      <4>2. QED
        BY <4>1, MaxType
    <3>2. CASE whole
      BY <1>6, <1>12, <1>22, <1>23, <3>1, <3>2
    <3>3. CASE ~whole
      BY <1>3, <1>6, <1>22, <1>23, <3>1, <3>3
    <3>4. QED
      BY <3>2, <3>3
  <2>3. QED
    BY <2>1, <2>2 DEF InColumns
<1>26. /\ mLines' = others /\ mState' = s /\ AddUndo(added, removed, mState)
       /\ interactive' = interactive /\ mOverwrite' = mOverwrite /\ clipboard' = clipboard
       /\ Recorded(SetSelection(others, mState.start, mState.end, mState.cursor) = mState)
  BY <1>8, <1>9, <1>10, <1>15, <1>16, <1>20 DEF Indents, settings
<1>27. exact' \in BOOLEAN
  BY <1>26 DEF Recorded
<1>28. ASSUME exact' PROVE exact /\ InColumns(mState, others)
  <2>1. exact /\ SetSelection(others, mState.start, mState.end, mState.cursor) = mState
    BY <1>26, <1>28 DEF Recorded
  <2>2. StateIn(SetSelection(others, mState.start, mState.end, mState.cursor), others)
    BY <1>2, <1>19, SetSelectionFacts
  <2>3. QED
    BY <2>1, <2>2 DEF StateIn
<1>29. clipboard' \in Texts /\ clipboard' # <<>>
  BY <1>26, InvTypes
<1>30. /\ mLines' \in Texts /\ mLines' # <<>> /\ mState' \in States /\ StateFits(mState', Len(mLines'))
       /\ StateFits(mState, Len(mLines')) /\ Spans(added, Len(mLines'), Len(rest))
  BY <1>1, <1>7, <1>18, <1>19, <1>22, <1>24, <1>26
<1>31. exact' => /\ exact /\ InColumns(mState', mLines') /\ InColumns(mState, mLines')
                 /\ Undoes(removed, mLines, rest) /\ Undoes(added, mLines', rest)
  BY <1>17, <1>18, <1>25, <1>26, <1>28
<1>32. QED
  BY <1>1, <1>17, <1>18, <1>26, <1>27, <1>29, <1>30, <1>31, EditKeeps

LEMMA IndentKeeps ==
  ASSUME Inv, NEW shift \in BOOLEAN, Indent(shift)
  PROVE  Inv'
<1>1. PICK first : first = mState.start.line
  OBVIOUS
<1>2. PICK whole : whole = (mState.end.column # 0)
  OBVIOUS
<1>3. PICK last : last = IF whole THEN mState.end.line ELSE mState.end.line - 1
  OBVIOUS
<1>4. PICK others : others = [i \in DOMAIN mLines |->
                                IF i - 1 \notin first .. last THEN mLines[i]
                                ELSE IF shift THEN Unindented(mLines[i]) ELSE <<Tab>> \o mLines[i]]
  OBVIOUS
<1>5. Indents(first, last, whole, others)
  BY <1>1, <1>2, <1>3, <1>4 DEF Indent, Indents, EndOf
<1>6. mLines \in Texts /\ mState.start \in Coordinates /\ mState.end \in Coordinates /\ StateFits(mState, Len(mLines))
  BY InvTypes, CursorFacts
<1>7. first \in Nat /\ last \in Nat
  <2>1. PICK i \in Nat, j \in Nat : i = mState.start.line /\ j = mState.end.line
    BY <1>6 DEF Coordinates
  <2>2. Before(mState.start, mState.end) /\ mState.start.line # mState.end.line
    BY <1>5 DEF Indents, HasSelection
  <2>3. i < j
    BY <2>1, <2>2 DEF Before
  <2>4. QED
    BY <1>1, <1>3, <2>1, <2>3
<1>8. others \in Texts /\ Within(mLines, others, first, last)
  BY <1>4, <1>6, <1>7, IndentedType
<1>9. QED
  BY <1>5, <1>8, IndentsKeeps

(***************************************************************************)
(* The invariant.                                                          *)
(***************************************************************************)

LEMMA EditTextKeeps == Inv /\ EditText => Inv'
<1> SUFFICES ASSUME Inv, EditText PROVE Inv'
  OBVIOUS
<1>1. CASE Insert
  BY <1>1, InsertKeeps
<1>2. CASE \E shift \in BOOLEAN : Indent(shift)
  BY <1>2, IndentKeeps
<1>3. CASE Delete
  BY <1>3, DeleteKeeps
<1>4. CASE Backspace
  BY <1>4, BackspaceKeeps
<1>5. CASE Cut
  BY <1>5, CutKeeps
<1>6. CASE Undo
  BY <1>6, UndoKeeps
<1>7. CASE Redo
  BY <1>7, RedoKeeps
<1>8. QED
  BY <1>1, <1>2, <1>3, <1>4, <1>5, <1>6, <1>7 DEF EditText

LEMMA StepKeeps == Inv /\ [Next]_vars => Inv'
<1> SUFFICES ASSUME Inv, [Next]_vars PROVE Inv'
  OBVIOUS
<1>1. CASE Move
  BY <1>1, MoveKeeps
<1>2. CASE EditText
  BY <1>2, EditTextKeeps
<1>3. CASE UNCHANGED vars
  <2>1. /\ UNCHANGED <<mLines, mUndoBuffer, mUndoIndex, past, exact>>
        /\ mState' = mState /\ interactive' = interactive /\ clipboard' = clipboard
        /\ mOverwrite' = mOverwrite
    BY <1>3 DEF vars
  <2>2. /\ mState \in States /\ StateFits(mState, Len(mLines))
        /\ interactive \in [start : Coordinates, end : Coordinates]
        /\ clipboard \in Texts /\ clipboard # <<>> /\ mOverwrite \in BOOLEAN
    BY InvTypes
  <2>3. exact => InColumns(mState, mLines)
    BY DEF Inv, Exact
  <2>4. QED
    BY <2>1, <2>2, <2>3, TextKept
<1>4. QED
  BY <1>1, <1>2, <1>3 DEF Next

LEMMA PointedIn ==
  ASSUME mLines \in Texts, NEW pos \in ScreenPosToCoordinates
  PROVE  pos \in Coordinates
<1>1. PICK l \in 0 .. Len(mLines) - 1 :
        \E i \in 0 .. Len(Line(mLines, l)) : pos = At(l, GetCharacterColumn(Line(mLines, l), i))
  BY DEF ScreenPosToCoordinates
<1>2. PICK i \in 0 .. Len(Line(mLines, l)) : pos = At(l, GetCharacterColumn(Line(mLines, l), i))
  BY <1>1
<1>3. Line(mLines, l) \in Seq(Alphabet) /\ Len(Line(mLines, l)) \in Nat
  BY TextFacts
<1>4. l \in Nat /\ i \in Nat
  BY <1>3, LenProperties DEF Texts
<1>5. GetCharacterColumn(Line(mLines, l), i) \in Nat
  BY <1>4, ColumnFacts
<1>6. QED
  BY <1>2, <1>4, <1>5, AtFacts

LEMMA InitHolds == Init => Inv
<1> SUFFICES ASSUME Init PROVE Inv
  OBVIOUS
<1>1. mLines \in Texts /\ mLines # <<>> /\ clipboard \in Texts /\ clipboard # <<>>
  BY TextAssumption DEF Init
<1>2. Len(mLines) \in Nat /\ Len(mLines) >= 1
  BY <1>1, TextLength
<1>3. PICK p \in ScreenPosToCoordinates, q \in ScreenPosToCoordinates :
        interactive = [start |-> p, end |-> q] /\ mState = SetSelection(mLines, p, q, q)
  BY DEF Init
<1>4. p \in Coordinates /\ q \in Coordinates
  BY <1>1, PointedIn
<1>5. interactive \in [start : Coordinates, end : Coordinates]
  BY <1>3, <1>4
<1>6. mState \in States /\ StateFits(mState, Len(mLines)) /\ InColumns(mState, mLines)
  <2>1. StateIn(SetSelection(mLines, p, q, q), mLines)
    BY <1>1, <1>4, SetSelectionFacts
  <2>2. QED
    BY <1>3, <2>1 DEF StateIn
<1>7. /\ mUndoBuffer = <<>> /\ mUndoIndex = 0 /\ mOverwrite = FALSE /\ past = <<mLines>> /\ exact = TRUE
  BY DEF Init
<1>8. Len(mUndoBuffer) = 0 /\ mUndoBuffer \in Seq(Records)
  BY <1>7
<1>9. past \in Seq(Texts \ {<<>>}) /\ Len(past) = 1 /\ past[1] = mLines
  BY <1>1, <1>7
<1>10. Types
  <2>1. /\ Len(mLines) > 0 /\ mLines \in Texts /\ mOverwrite \in BOOLEAN /\ exact \in BOOLEAN
        /\ mState \in [start : Coordinates, end : Coordinates, cursor : Coordinates]
    <3>1. Len(mLines) > 0
      BY <1>2
    <3>2. mOverwrite \in BOOLEAN /\ exact \in BOOLEAN
      BY <1>7
    <3>3. mState \in [start : Coordinates, end : Coordinates, cursor : Coordinates]
      BY <1>6 DEF States
    <3>4. QED
      BY <1>1, <3>1, <3>2, <3>3
  <2>2. mUndoIndex \in 0 .. Len(mUndoBuffer) /\ Len(past) = Len(mUndoBuffer) + 1
    BY <1>7, <1>8, <1>9
  <2>3. TypeOK
    BY <1>1, <1>5, <2>1, <2>2 DEF TypeOK
  <2>4. QED
    BY <1>1, <1>8, <1>9, <2>3 DEF Types
<1>11. Room
  <2>1. PICK room : room = [i \in 0 .. 0 |-> Len(mLines)]
    OBVIOUS
  <2>2. room \in [0 .. Len(mUndoBuffer) -> Nat] /\ room[0] = Len(mLines)
    BY <1>2, <1>8, <2>1
  <2>3. 1 .. Len(mUndoBuffer) = {}
    BY <1>8
  <2>4. RoomFor(room)
    BY <1>2, <1>7, <2>2, <2>3 DEF RoomFor
  <2>5. QED
    BY <2>2, <2>4 DEF Room
<1>12. Exact
  BY <1>6, <1>7, <1>8, <1>9 DEF Exact
<1>13. QED
  BY <1>6, <1>10, <1>11, <1>12 DEF Inv

(* The invariant of the editor: whatever is typed, deleted, pasted,        *)
(* indented, undone and redone, in any order, every record of the undo     *)
(* buffer fits the texts that it may be applied to, and while no operation *)
(* was used whose record is wrong, undo and redo go from each text of the  *)
(* history to the next (AddUndo and UndoRecord::Undo and Redo).            *)
THEOREM EditorInvariant == Spec => []Inv
<1>1. QED
  BY InitHolds, StepKeeps, PTL DEF Spec

LEMMA TypesFollow == Inv => TypeOK
  BY DEF Inv, Types

LEMMA HistoryFollows == Inv => HistoryExact
  BY DEF Inv, Exact, HistoryExact

LEMMA SelectionFollows == Inv => SelectionInText
<1> SUFFICES ASSUME Inv PROVE SelectionInText
  OBVIOUS
<1>1. ~Before(mState.end, mState.start) /\ (HasSelection => mState.end.line < Len(mLines))
  BY DEF Inv, StateFits, Selected, HasSelection
<1>2. QED
  BY <1>1 DEF SelectionInText, Named

\* What undo or redo would do, where a change fits.
Fit(undone, redone) ==
  /\ undone.text = Nothing \/ Named(undone, mLines)
  /\ redone.text = Nothing \/ redone.start.line < Len(Without(mLines, undone))

LEMMA FitsName ==
  ASSUME Inv, NEW undone \in Changes, NEW redone \in Changes, NEW m \in Nat,
         ChangeFits(undone, redone, Len(mLines), m)
  PROVE  Fit(undone, redone)
<1>1. mLines \in Texts /\ Len(mLines) \in Nat
  BY InvTypes
<1>2. /\ undone.start \in Coordinates /\ undone.end \in Coordinates
      /\ undone.start.line \in Nat /\ undone.end.line \in Nat
  BY ChangeType
<1>3. undone.text = Nothing \/ Named(undone, mLines)
  BY DEF ChangeFits, Named
<1>4. Len(Without(mLines, undone)) = Len(mLines) - Taken(undone)
  <2>1. CASE undone.text = Nothing
    BY <1>1, <2>1 DEF Without, Taken
  <2>2. CASE undone.text # Nothing
    <3>1. IsRange(undone.start, undone.end, mLines)
      BY <1>2, <1>3, <2>2 DEF IsRange, Named
    <3>2. Len(DeleteRange(mLines, undone.start, undone.end))
            = Len(mLines) - (undone.end.line - undone.start.line)
      BY <1>1, <3>1, RangeFacts
    <3>3. QED
      BY <2>2, <3>2 DEF Without, Taken
  <2>3. QED
    BY <2>1, <2>2
<1>5. redone.text = Nothing \/ redone.start.line < Len(mLines) - Taken(undone)
  BY DEF ChangeFits
<1>6. QED
  BY <1>3, <1>4, <1>5 DEF Fit

LEMMA RecordsFollow == Inv => RecordsFit
<1> SUFFICES ASSUME Inv PROVE RecordsFit
  OBVIOUS
<1>1. /\ mUndoIndex \in Nat /\ mUndoIndex <= Len(mUndoBuffer) /\ Len(mUndoBuffer) \in Nat
      /\ mUndoBuffer \in Seq(Records) /\ Len(mLines) \in Nat
  BY InvTypes
<1>2. PICK room \in [0 .. Len(mUndoBuffer) -> Nat] : RoomFor(room)
  BY DEF Inv, Room
<1>3. /\ room[mUndoIndex] <= Len(mLines)
      /\ \A i \in 1 .. Len(mUndoBuffer) : RecordFits(mUndoBuffer[i], room[i - 1], room[i])
  BY <1>2 DEF RoomFor
<1>4. PICK k \in Nat : k = mUndoIndex /\ k <= Len(mUndoBuffer)
  BY <1>1
<1>5. room[k] \in Nat /\ room[k] <= Len(mLines)
  BY <1>1, <1>3, <1>4
<1>6. ASSUME k > 0 PROVE Fit(mUndoBuffer[k].added, mUndoBuffer[k].removed)
  <2>1. k \in 1 .. Len(mUndoBuffer) /\ k - 1 \in 0 .. Len(mUndoBuffer)
    BY <1>1, <1>4, <1>6
  <2>2. PICK record \in Records : record = mUndoBuffer[k]
    BY <1>1, <2>1, ElementOfSeq
  <2>3. PICK n \in Nat : n = room[k - 1]
    BY <2>1
  <2>4. RecordFits(record, n, room[k])
    BY <1>3, <2>1, <2>2, <2>3
  <2>5. ChangeFits(record.added, record.removed, room[k], n)
    BY <2>4 DEF RecordFits
  <2>6. record.added \in Changes /\ record.removed \in Changes
    BY RecordType
  <2>7. ChangeFits(record.added, record.removed, Len(mLines), n)
    BY <1>1, <1>5, <2>5, <2>6, FitsMore
  <2>8. QED
    BY <2>2, <2>6, <2>7, FitsName
<1>7. ASSUME k < Len(mUndoBuffer) PROVE Fit(mUndoBuffer[k + 1].removed, mUndoBuffer[k + 1].added)
  <2>1. k + 1 \in 1 .. Len(mUndoBuffer) /\ k + 1 \in 0 .. Len(mUndoBuffer) /\ (k + 1) - 1 = k
    BY <1>1, <1>4, <1>7
  <2>2. PICK record \in Records : record = mUndoBuffer[k + 1]
    BY <1>1, <2>1, ElementOfSeq
  <2>3. PICK n \in Nat : n = room[k + 1]
    BY <2>1
  <2>4. RecordFits(record, room[k], n)
    BY <1>3, <2>1, <2>2, <2>3
  <2>5. ChangeFits(record.removed, record.added, room[k], n)
    BY <2>4 DEF RecordFits
  <2>6. record.added \in Changes /\ record.removed \in Changes
    BY RecordType
  <2>7. ChangeFits(record.removed, record.added, Len(mLines), n)
    BY <1>1, <1>5, <2>5, <2>6, FitsMore
  <2>8. QED
    BY <2>2, <2>6, <2>7, FitsName
<1>8. TypeOK
  BY TypesFollow
<1>9. QED
  BY <1>4, <1>6, <1>7, <1>8, Zenon DEF RecordsFit, Fit, Without

LEMMA CutFollows == Inv => CutPutsBack
<1> SUFFICES ASSUME Inv, exact, HasSelection
             PROVE  InsertTextAt(Remaining, SanitizeCoordinates(Remaining, Collapsed.cursor), GetSelectedText)
                      = mLines
  BY DEF CutPutsBack
<1>1. mLines \in Texts /\ IsRange(mState.start, mState.end, mLines)
  BY InvTypes, SelectionFacts
<1>2. PICK a : a = mState.start
  OBVIOUS
<1>3. PICK b : b = mState.end
  OBVIOUS
<1>4. a \in Coordinates /\ b \in Coordinates /\ ~Before(b, a) /\ b.line < Len(mLines)
  BY <1>1, <1>2, <1>3 DEF IsRange
<1>5. a.column <= GetLineMaxColumn(Line(mLines, a.line))
  BY <1>2 DEF Inv, Exact, InColumns, Selected, HasSelection
<1>6. PICK rest : rest = Remaining
  OBVIOUS
<1>7. /\ rest = DeleteRange(mLines, a, b) /\ GetSelectedText = GetText(mLines, a, b)
      /\ Collapsed.cursor = SanitizeCoordinates(rest, a)
  BY <1>2, <1>3, <1>6, SelectionFacts DEF Remaining, GetSelectedText
<1>8. /\ a.line \in Nat /\ b.line \in Nat /\ Len(mLines) \in Nat /\ a.line <= b.line
      /\ rest \in Texts /\ rest # <<>> /\ a.line < Len(rest)
  <2>1. IsRange(a, b, mLines)
    BY <1>1, <1>2, <1>3
  <2>2. QED
    BY <1>1, <1>7, <2>1, RangeFacts
<1>9. a.line < Len(mLines)
  BY <1>4, <1>8
<1>10. PICK q \in Seq(Alphabet) : q = Suffix(mLines, b)
  <2>1. PICK line, k : PlaceIs(mLines, b, line, k)
    BY <1>1, <1>4, Places
  <2>2. QED
    BY <2>1 DEF PlaceIs
<1>11. LineIs(rest, a.line, Prefix(mLines, a), q)
  BY <1>1, <1>4, <1>7, <1>8, <1>10, DeleteFacts DEF LineIs
<1>12. a.column <= GetLineMaxColumn(Line(rest, a.line))
  BY <1>1, <1>4, <1>5, <1>8, <1>9, <1>11, PrefixKept
<1>13. SanitizeCoordinates(rest, a) = a
  BY <1>4, <1>8, <1>12, SanitizeFacts DEF InText
<1>14. InsertTextAt(DeleteRange(mLines, a, b), a, GetText(mLines, a, b)) = mLines
  BY <1>1, <1>4, <1>5, PutBack
<1>15. QED
  BY <1>6, <1>7, <1>13, <1>14

(* Every variable has its type: the text never loses its last line, and    *)
(* the history has a text for every place of the undo buffer.              *)
THEOREM TypesHold == Spec => []TypeOK
<1>1. QED
  BY EditorInvariant, TypesFollow, PTL

(* Undo and redo return to the text that was at the place of the undo      *)
(* buffer (UndoRecord::Undo and Redo), unless an operation was used whose  *)
(* record is wrong.                                                        *)
THEOREM UndoIsExact == Spec => []HistoryExact
<1>1. QED
  BY EditorInvariant, HistoryFollows, PTL

(* What undo and redo would do next names lines of the text, in order, so  *)
(* that the asserts of DeleteRange and of UndoRecord hold.                 *)
THEOREM RecordsName == Spec => []RecordsFit
<1>1. QED
  BY EditorInvariant, RecordsFollow, PTL

(* The selection is ordered and lies in the text (assert of                *)
(* DeleteSelection).                                                       *)
THEOREM SelectionStays == Spec => []SelectionInText
<1>1. QED
  BY EditorInvariant, SelectionFollows, PTL

(* Pasting what was cut puts it back (Cut, Paste, DeleteRange and          *)
(* InsertTextAt).                                                          *)
THEOREM CutIsUndone == Spec => []CutPutsBack
<1>1. QED
  BY EditorInvariant, CutFollows, PTL

(***************************************************************************)
(* What a step leaves of the text.                                         *)
(***************************************************************************)

\* The first p lines are kept, and those behind the first q.
Outside(new, old, p, q) ==
  /\ p <= Len(new) /\ p <= Len(old) /\ q <= Len(old) /\ Len(old) - q <= Len(new)
  /\ \A i \in 1 .. p : new[i] = old[i]
  /\ \A i \in 1 .. Len(old) - q : new[(Len(new) - (Len(old) - q)) + i] = old[q + i]
\* One line is between those that are kept.
Around(new, old, p, q) == Outside(new, old, p, q) /\ Len(new) - (Len(old) - q) = p + 1

StaysLocal(new, old, first, last) ==
  LET behind == Len(old) - last - 2
  IN  /\ first > 1 => SubSeq(new, 1, first - 1) = SubSeq(old, 1, first - 1)
      /\ behind > 0 => SubSeq(new, Len(new) - behind + 1, Len(new))
                         = SubSeq(old, Len(old) - behind + 1, Len(old))

LEMMA Stays ==
  ASSUME NEW new \in Texts, NEW old \in Texts, NEW p \in Nat, NEW q \in Nat,
         NEW first \in Nat, NEW last \in Nat, Outside(new, old, p, q), first - 1 <= p, q <= last + 2
  PROVE  StaysLocal(new, old, first, last)
<1>1. PICK n \in Nat, m \in Nat : n = Len(new) /\ m = Len(old)
  BY LenProperties DEF Texts
<1>2. new \in Seq(Seq(Alphabet)) /\ old \in Seq(Seq(Alphabet))
  BY DEF Texts, Alphabet
<1>3. /\ p <= n /\ p <= m /\ q <= m /\ m - q <= n
      /\ \A i \in 1 .. p : new[i] = old[i]
      /\ \A i \in 1 .. m - q : new[(n - (m - q)) + i] = old[q + i]
  BY <1>1 DEF Outside
<1>4. ASSUME first > 1 PROVE SubSeq(new, 1, first - 1) = SubSeq(old, 1, first - 1)
  <2>1. PICK k \in Nat : k = first - 1 /\ k <= p
    BY <1>4
  <2>2. k \in 0 .. Len(new) /\ k \in 0 .. Len(old)
    BY <1>1, <1>3, <2>1
  <2>3. PICK s : s = SubSeq(new, 1, k)
    OBVIOUS
  <2>4. s \in Seq(Seq(Alphabet)) /\ Len(s) = k /\ \A i \in 1 .. k : s[i] = new[i]
    BY <1>2, <2>2, <2>3, FirstPart
  <2>5. PICK t : t = SubSeq(old, 1, k)
    OBVIOUS
  <2>6. t \in Seq(Seq(Alphabet)) /\ Len(t) = k /\ \A i \in 1 .. k : t[i] = old[i]
    BY <1>2, <2>2, <2>5, FirstPart
  <2>7. \A i \in 1 .. Len(s) : s[i] = t[i]
    BY <1>3, <2>1, <2>4, <2>6
  <2>8. s = t
    BY <2>4, <2>6, <2>7, SeqEqual
  <2>9. QED
    BY <2>1, <2>3, <2>5, <2>8
<1>5. ASSUME m - last - 2 > 0
      PROVE  SubSeq(new, n - (m - last - 2) + 1, n) = SubSeq(old, m - (m - last - 2) + 1, m)
  <2>1. PICK e \in Nat : e = m - last - 2 /\ e > 0
    BY <1>5
  <2>2. PICK i \in Nat, j \in Nat : i = n - e /\ j = m - e /\ i < n /\ j < m /\ n - i = e /\ m - j = e
    BY <1>3, <2>1
  <2>3. n \in 0 .. Len(new) /\ m \in 0 .. Len(old) /\ i <= n + 1 /\ j <= m + 1
    BY <1>1, <2>2
  <2>4. PICK s : s = SubSeq(new, i + 1, n)
    OBVIOUS
  <2>5. s \in Seq(Seq(Alphabet)) /\ Len(s) = e /\ \A k \in 1 .. e : s[k] = new[i + k]
    <3>1. /\ SubSeq(new, i + 1, n) \in Seq(Seq(Alphabet))
          /\ Len(SubSeq(new, i + 1, n)) = IF i < n THEN n - i ELSE 0
          /\ \A k \in 1 .. n - i : SubSeq(new, i + 1, n)[k] = new[i + k]
      BY <1>2, <2>3, PartFacts
    <3>2. QED
      BY <2>2, <2>4, <3>1
  <2>6. PICK t : t = SubSeq(old, j + 1, m)
    OBVIOUS
  <2>7. t \in Seq(Seq(Alphabet)) /\ Len(t) = e /\ \A k \in 1 .. e : t[k] = old[j + k]
    <3>1. /\ SubSeq(old, j + 1, m) \in Seq(Seq(Alphabet))
          /\ Len(SubSeq(old, j + 1, m)) = IF j < m THEN m - j ELSE 0
          /\ \A k \in 1 .. m - j : SubSeq(old, j + 1, m)[k] = old[j + k]
      BY <1>2, <2>3, PartFacts
    <3>2. QED
      BY <2>2, <2>6, <3>1
  <2>8. ASSUME NEW k \in 1 .. Len(s) PROVE s[k] = t[k]
    <3>1. PICK h \in 1 .. m - q : h = (m - q) - e + k
      <4>1. (m - q) - e + k \in 1 .. m - q
        BY <1>3, <2>1, <2>5
      <4>2. QED
        BY <4>1
    <3>2. (n - (m - q)) + h = i + k /\ q + h = j + k
      BY <1>3, <2>2, <2>5, <3>1
    <3>3. new[(n - (m - q)) + h] = old[q + h]
      BY <1>3
    <3>4. QED
      BY <2>5, <2>7, <3>2, <3>3
  <2>9. s = t
    BY <2>5, <2>7, <2>8, SeqEqual
  <2>10. QED
    BY <2>1, <2>2, <2>4, <2>6, <2>9
<1>6. QED
  BY <1>1, <1>4, <1>5 DEF StaysLocal

LEMMA DeleteOutside ==
  ASSUME NEW lines \in Texts, NEW a, NEW b, IsRange(a, b, lines)
  PROVE  Around(DeleteRange(lines, a, b), lines, a.line, b.line + 1)
<1>1. PICK i \in Nat, j \in Nat, m \in Nat : i = a.line /\ j = b.line /\ m = Len(lines) /\ i <= j
  BY RangeFacts
<1>2. a \in Coordinates /\ b \in Coordinates /\ a.line <= b.line /\ b.line < Len(lines)
  BY RangeFacts DEF IsRange
<1>3. PICK d : d = DeleteRange(lines, a, b)
  OBVIOUS
<1>4. /\ d \in Texts /\ Len(d) = Len(lines) - (b.line - a.line)
      /\ \A k \in 1 .. a.line : d[k] = lines[k]
      /\ \A k \in 1 .. Len(lines) - (b.line + 1) : d[a.line + 1 + k] = lines[b.line + 1 + k]
  BY <1>2, <1>3, DeleteFacts
<1>5. /\ Len(d) = m - (j - i) /\ j < m
      /\ \A k \in 1 .. i : d[k] = lines[k]
      /\ \A k \in 1 .. m - (j + 1) : d[i + 1 + k] = lines[j + 1 + k]
  BY <1>1, <1>2, <1>4
<1>6. Len(d) - (m - (j + 1)) = i + 1 /\ i <= Len(d) /\ i <= m /\ j + 1 <= m /\ m - (j + 1) <= Len(d)
  BY <1>1, <1>5
<1>7. \A k \in 1 .. m - (j + 1) : d[(Len(d) - (m - (j + 1))) + k] = lines[(j + 1) + k]
  <2> TAKE k \in 1 .. m - (j + 1)
  <2>1. d[i + 1 + k] = lines[j + 1 + k]
    BY <1>5
  <2>2. QED
    BY <1>6, <2>1
<1>8. Around(d, lines, i, j + 1)
  BY <1>1, <1>5, <1>6, <1>7 DEF Around, Outside
<1>9. QED
  BY <1>1, <1>3, <1>8

\* A text inserted at a coordinate of the line between, or the line replaced.
LEMMA InsertOutside ==
  ASSUME NEW old \in Texts, NEW lines \in Texts, NEW p \in Nat, NEW q \in Nat, Around(lines, old, p, q),
         NEW c, InText(c, lines), c.line = p, NEW text \in Texts, text # <<>>
  PROVE  InsertTextAt(lines, c, text) \in Texts /\ Outside(InsertTextAt(lines, c, text), old, p, q)
<1>1. PICK m \in Nat, n \in Nat, l \in Nat : m = Len(lines) /\ n = Len(text) /\ l = Len(old) /\ n >= 1
  BY TextLength, LenProperties DEF Texts
<1>2. c \in Coordinates /\ c.line < Len(lines)
  BY DEF InText
<1>3. PICK u : u = InsertTextAt(lines, c, text)
  OBVIOUS
<1>4. InsertedIs(u, lines, c, text, Joined(lines, c, text))
  BY <1>2, <1>3, InsertFacts
<1>5. /\ u \in Texts /\ Len(u) = m + n - 1
      /\ \A i \in 1 .. p : u[i] = lines[i]
      /\ \A i \in 1 .. m - (p + 1) : u[p + n + i] = lines[p + 1 + i]
  BY <1>1, <1>4 DEF InsertedIs
<1>6. /\ p <= m /\ p <= l /\ q <= l /\ l - q <= m /\ m - (l - q) = p + 1
      /\ \A i \in 1 .. p : lines[i] = old[i]
      /\ \A i \in 1 .. l - q : lines[(m - (l - q)) + i] = old[q + i]
  BY <1>1 DEF Around, Outside
<1>7. Len(u) - (l - q) = p + n /\ p <= Len(u) /\ l - q <= Len(u) /\ l - q = m - (p + 1)
  BY <1>1, <1>5, <1>6
<1>8. \A i \in 1 .. p : u[i] = old[i]
  BY <1>5, <1>6
<1>9. ASSUME NEW i \in 1 .. l - q PROVE u[(Len(u) - (l - q)) + i] = old[q + i]
  <2>1. i \in 1 .. m - (p + 1)
    BY <1>7
  <2>2. u[p + n + i] = lines[p + 1 + i]
    BY <1>5, <2>1
  <2>3. lines[p + 1 + i] = old[q + i]
    BY <1>6
  <2>4. QED
    BY <1>7, <2>2, <2>3
<1>10. QED
  BY <1>1, <1>3, <1>5, <1>6, <1>7, <1>8, <1>9 DEF Outside

LEMMA ReplaceOutside ==
  ASSUME NEW old \in Texts, NEW lines \in Texts, NEW p \in Nat, NEW q \in Nat, Around(lines, old, p, q),
         NEW x \in Seq(Alphabet)
  PROVE  ReplaceAt(lines, p + 1, x) \in Texts /\ Outside(ReplaceAt(lines, p + 1, x), old, p, q)
<1>1. PICK m \in Nat, l \in Nat : m = Len(lines) /\ l = Len(old)
  BY LenProperties DEF Texts
<1>2. /\ p <= m /\ p <= l /\ q <= l /\ l - q <= m /\ m - (l - q) = p + 1
      /\ \A i \in 1 .. p : lines[i] = old[i]
      /\ \A i \in 1 .. l - q : lines[(m - (l - q)) + i] = old[q + i]
  BY <1>1 DEF Around, Outside
<1>3. p \in 0 .. Len(lines) - 1
  BY <1>1, <1>2
<1>4. PICK u : u = ReplaceAt(lines, p + 1, x)
  OBVIOUS
<1>5. u \in Texts /\ Len(u) = m /\ \A i \in 1 .. m : i # p + 1 => u[i] = lines[i]
  <2>1. LET w == ReplaceAt(lines, p + 1, x)
        IN  w \in Texts /\ Len(w) = Len(lines) /\ \A i \in 1 .. Len(lines) : i # p + 1 => w[i] = lines[i]
    BY <1>3, ReplaceIs
  <2>2. QED
    BY <1>1, <1>4, <2>1
<1>6. \A i \in 1 .. p : u[i] = old[i]
  BY <1>2, <1>5
<1>7. ASSUME NEW i \in 1 .. l - q PROVE u[(m - (l - q)) + i] = old[q + i]
  <2>1. PICK j \in 1 .. m : j = (m - (l - q)) + i /\ j # p + 1
    <3>1. (m - (l - q)) + i \in 1 .. m /\ (m - (l - q)) + i # p + 1
      BY <1>2
    <3>2. QED
      BY <3>1
  <2>2. QED
    BY <1>2, <1>5, <2>1
<1>8. QED
  BY <1>1, <1>2, <1>4, <1>5, <1>6, <1>7 DEF Outside

LEMMA AroundItself ==
  ASSUME NEW lines \in Texts, NEW l \in 0 .. Len(lines) - 1
  PROVE  Around(lines, lines, l, l + 1)
<1>1. PICK m \in Nat : m = Len(lines)
  BY LenProperties DEF Texts
<1>2. l \in Nat /\ l + 1 <= m /\ m - (m - (l + 1)) = l + 1
  BY <1>1
<1>3. QED
  BY <1>1, <1>2 DEF Around, Outside

\* The lines of the selection, or the cursor's.
First == IF HasSelection THEN mState.start.line ELSE GetActualCursorCoordinates.line
Final == IF HasSelection THEN mState.end.line ELSE GetActualCursorCoordinates.line

LEMMA FirstFinal ==
  ASSUME Inv
  PROVE  /\ First \in Nat /\ Final \in Nat /\ First <= Final /\ Final < Len(mLines)
         /\ mLines \in Texts /\ Len(mLines) \in Nat
<1>1. mLines \in Texts /\ Len(mLines) \in Nat
  BY InvTypes
<1>2. CASE HasSelection
  <2>1. IsRange(mState.start, mState.end, mLines)
    BY <1>2, SelectionFacts
  <2>2. /\ mState.start.line \in Nat /\ mState.end.line \in Nat /\ mState.start.line <= mState.end.line
        /\ mState.end.line < Len(mLines)
    BY <1>1, <2>1, RangeFacts DEF IsRange
  <2>3. QED
    BY <1>1, <1>2, <2>2 DEF First, Final
<1>3. CASE ~HasSelection
  <2>1. PICK l \in 0 .. Len(mLines) - 1 : l = GetActualCursorCoordinates.line
    BY CursorFacts
  <2>2. First = l /\ Final = l /\ l \in Nat /\ l < Len(mLines)
    BY <1>1, <1>3, <2>1 DEF First, Final
  <2>3. QED
    BY <1>1, <2>2
<1>4. QED
  BY <1>2, <1>3

LEMMA RestAround ==
  ASSUME Inv, NEW lines, lines = Remaining, NEW state, state = Collapsed,
         NEW coord, coord = SanitizeCoordinates(lines, state.cursor)
  PROVE  /\ lines \in Texts /\ InText(coord, lines) /\ coord.line = First
         /\ Around(lines, mLines, First, Final + 1)
<1>1. lines \in Texts /\ lines # <<>> /\ state.cursor \in Coordinates /\ Len(lines) \in Nat
  BY SelectionFacts, LenProperties DEF Texts
<1>2. InText(coord, lines)
  BY <1>1, SanitizeFacts
<1>3. mLines \in Texts
  BY InvTypes
<1>4. CASE HasSelection
  <2>1. /\ IsRange(mState.start, mState.end, mLines) /\ mState.start \in Coordinates
        /\ state.cursor = SanitizeCoordinates(lines, mState.start)
    BY <1>4, SelectionFacts DEF IsRange
  <2>2. lines = DeleteRange(mLines, mState.start, mState.end)
    BY <1>4 DEF Remaining
  <2>3. Around(lines, mLines, mState.start.line, mState.end.line + 1)
    BY <1>3, <2>1, <2>2, DeleteOutside
  <2>4. mState.start.line < Len(lines)
    BY <1>3, <2>1, <2>2, RangeFacts
  <2>5. state.cursor.line = mState.start.line
    BY <1>1, <2>1, <2>4, SanitizedLine
  <2>6. coord.line = mState.start.line
    BY <1>1, <2>4, <2>5, SanitizedLine
  <2>7. QED
    BY <1>1, <1>2, <1>4, <2>3, <2>6 DEF First, Final
<1>5. CASE ~HasSelection
  <2>1. lines = mLines /\ state = mState
    BY <1>5 DEF Remaining, Collapsed
  <2>2. coord = GetActualCursorCoordinates
    BY <2>1 DEF GetActualCursorCoordinates
  <2>3. coord.line \in 0 .. Len(mLines) - 1
    BY <2>2, CursorFacts
  <2>4. Around(lines, mLines, coord.line, coord.line + 1)
    BY <1>3, <2>1, <2>3, AroundItself
  <2>5. QED
    BY <1>1, <1>2, <1>5, <2>2, <2>4 DEF First, Final
<1>6. QED
  BY <1>4, <1>5

LEMMA InsertLocal ==
  ASSUME Inv, Insert
  PROVE  Outside(mLines', mLines, First, Final + 1)
<1>1. PICK lines \in {Remaining}, state \in {Collapsed} :
        \E coord \in {SanitizeCoordinates(lines, state.cursor)} :
          \/ EnterNewLine(lines, state, coord)
          \/ \E char \in Characters \cup {Tab} : EnterCharacter(char, lines, state, coord)
          \/ Paste(lines, state, coord)
  BY DEF Insert
<1>2. PICK coord \in {SanitizeCoordinates(lines, state.cursor)} :
        \/ EnterNewLine(lines, state, coord)
        \/ \E char \in Characters \cup {Tab} : EnterCharacter(char, lines, state, coord)
        \/ Paste(lines, state, coord)
  BY <1>1
<1>3. lines \in Texts /\ InText(coord, lines) /\ coord.line = First /\ Around(lines, mLines, First, Final + 1)
  BY RestAround
<1>4. PICK p \in Nat, q \in Nat : p = First /\ q = Final + 1
  BY FirstFinal
<1>5. mLines \in Texts /\ clipboard \in Texts /\ clipboard # <<>>
  BY InvTypes
<1>6. /\ Around(lines, mLines, p, q) /\ coord.line = p
  BY <1>3, <1>4
<1>7. ASSUME NEW text \in Texts, text # <<>> PROVE Outside(InsertTextAt(lines, coord, text), mLines, p, q)
  BY <1>3, <1>5, <1>6, <1>7, InsertOutside
<1>8. ASSUME NEW x \in Seq(Alphabet) PROVE Outside(ReplaceAt(lines, p + 1, x), mLines, p, q)
  BY <1>3, <1>5, <1>6, ReplaceOutside
<1>9. PICK line : /\ line = Line(lines, coord.line) /\ line \in Seq(Alphabet) /\ Len(line) \in Nat
                  /\ GetCharacterIndex(lines, coord) \in 0 .. Len(line)
  <2>1. coord \in Coordinates /\ coord.line < Len(lines)
    BY <1>3 DEF InText
  <2>2. PICK line, k : PlaceIs(lines, coord, line, k)
    BY <1>3, <2>1, Places
  <2>3. QED
    BY <2>2 DEF PlaceIs
<1>10. CASE EnterNewLine(lines, state, coord)
  <2>1. PICK indentation \in {IF AutoIndentation THEN Indentation(Line(lines, coord.line)) ELSE <<>>} :
          mLines' = InsertTextAt(lines, coord, << <<>>, indentation >>)
    BY <1>10 DEF EnterNewLine
  <2>2. indentation \in Seq(Alphabet)
    <3>1. <<>> \in Seq(Alphabet)
      OBVIOUS
    <3>2. Indentation(line) \in Seq(Alphabet)
      BY <1>9, IndentationType
    <3>3. QED
      BY <1>9, <3>1, <3>2
  <2>3. PICK text : text = << <<>>, indentation >>
    OBVIOUS
  <2>4. text \in Texts /\ text # <<>>
    <3>1. <<>> \in Seq(Alphabet)
      OBVIOUS
    <3>2. QED
      BY <2>2, <2>3, <3>1 DEF Texts, Alphabet
  <2>5. QED
    BY <1>4, <1>7, <2>1, <2>3, <2>4
<1>11. ASSUME NEW char \in Characters \cup {Tab}, EnterCharacter(char, lines, state, coord)
       PROVE  Outside(mLines', mLines, First, Final + 1)
  <2>1. PICK index \in {GetCharacterIndex(lines, coord)}, l \in {Line(lines, coord.line)},
             selected \in {SelectionRemoved} :
          LET overwriting == mOverwrite /\ index < Len(l)
              behind == IF overwriting THEN index + 1 ELSE index
              typed == SubSeq(l, 1, index) \o <<char>> \o SubSeq(l, behind + 1, Len(l))
          IN  mLines' = ReplaceAt(lines, coord.line + 1, typed)
    BY <1>11 DEF EnterCharacter
  <2>2. l = line
    BY <1>9
  <2>3. PICK behind : behind = IF mOverwrite /\ index < Len(line) THEN index + 1 ELSE index
    OBVIOUS
  <2>4. PICK x : x = SubSeq(line, 1, index) \o <<char>> \o SubSeq(line, behind + 1, Len(line))
    OBVIOUS
  <2>5. mLines' = ReplaceAt(lines, coord.line + 1, x)
    BY <2>1, <2>2, <2>3, <2>4
  <2>6. index \in 0 .. Len(line) /\ behind \in Nat /\ behind <= Len(line) + 1 /\ Len(line) \in 0 .. Len(line)
    BY <1>9, <2>3
  <2>7. PICK r \in Seq(Alphabet) : r = SubSeq(line, behind + 1, Len(line))
    BY <1>9, <2>6, PartFacts
  <2>8. char \in Alphabet
    BY DEF Alphabet
  <2>9. Typed((SubSeq(line, 1, index) \o <<char>>) \o r, line, index, char)
    BY <1>9, <2>6, <2>8, TypedLine
  <2>10. x \in Seq(Alphabet)
    BY <2>4, <2>7, <2>9 DEF Typed
  <2>11. QED
    BY <1>4, <1>6, <1>8, <2>5, <2>10
<1>12. CASE Paste(lines, state, coord)
  <2>1. mLines' = InsertTextAt(lines, coord, clipboard)
    BY <1>12 DEF Paste
  <2>2. QED
    BY <1>4, <1>5, <1>7, <2>1
<1>13. QED
  BY <1>2, <1>10, <1>11, <1>12

LEMMA RemovalLocal ==
  ASSUME Inv, RemoveSelection
  PROVE  Outside(mLines', mLines, First, Final + 1)
<1>1. HasSelection /\ mLines' = Remaining
  BY DEF RemoveSelection
<1>2. PICK state : state = Collapsed
  OBVIOUS
<1>3. PICK lines : lines = Remaining
  OBVIOUS
<1>4. PICK coord : coord = SanitizeCoordinates(lines, state.cursor)
  OBVIOUS
<1>5. Around(lines, mLines, First, Final + 1)
  BY <1>2, <1>3, <1>4, RestAround
<1>6. QED
  BY <1>1, <1>3, <1>5 DEF Around

LEMMA JoinLocal ==
  ASSUME Inv, NEW l \in Nat, l + 1 < Len(mLines), NEW cursor, JoinLines(l, cursor)
  PROVE  Outside(mLines', mLines, l, l + 2)
<1>1. mLines \in Texts /\ Len(mLines) \in Nat
  BY InvTypes
<1>2. PICK a : a = At(l, GetLineMaxColumn(Line(mLines, l)))
  OBVIOUS
<1>3. PICK b : b = At(l + 1, 0)
  OBVIOUS
<1>4. mLines' = DeleteRange(mLines, a, b)
  BY <1>2, <1>3 DEF JoinLines
<1>5. a \in Coordinates /\ a.line = l
  <2>1. l \in 0 .. Len(mLines) - 1
    BY <1>1
  <2>2. GetLineMaxColumn(Line(mLines, l)) \in Nat
    BY <1>1, <2>1, MaxType
  <2>3. QED
    BY <1>2, <2>2, AtFacts
<1>6. b \in Coordinates /\ b.line = l + 1
  <2>1. l + 1 \in Nat /\ 0 \in Nat
    OBVIOUS
  <2>2. QED
    BY <1>3, <2>1, AtFacts
<1>7. IsRange(a, b, mLines)
  <2>1. ~(l + 1 < l) /\ l + 1 # l
    OBVIOUS
  <2>2. QED
    BY <1>5, <1>6, <2>1 DEF IsRange, Before
<1>8. Around(mLines', mLines, a.line, b.line + 1)
  BY <1>1, <1>4, <1>7, DeleteOutside
<1>9. b.line + 1 = l + 2
  BY <1>6
<1>10. QED
  BY <1>5, <1>8, <1>9 DEF Around

\* The texts that a step without a selection leaves.
LEMMA CharacterLocal ==
  ASSUME Inv, ~HasSelection, NEW pos, NEW line, NEW index, CursorAt(pos, line, index),
         NEW i \in 1 .. Len(line), mLines' = ReplaceAt(mLines, pos.line + 1, RemoveAt(line, i))
  PROVE  Outside(mLines', mLines, First, Final + 1)
<1>1. mLines \in Texts /\ pos.line \in 0 .. Len(mLines) - 1 /\ line \in Seq(Alphabet)
      /\ pos.line \in Nat /\ pos = GetActualCursorCoordinates
  BY InvTypes DEF CursorAt
<1>2. PICK l \in 0 .. Len(mLines) - 1 : l = pos.line
  BY <1>1
<1>3. PICK x \in Seq(Alphabet) : x = RemoveAt(line, i)
  BY <1>1, RemoveAtType
<1>4. Around(mLines, mLines, l, l + 1)
  BY <1>1, AroundItself
<1>5. Outside(ReplaceAt(mLines, l + 1, x), mLines, l, l + 1)
  <2>1. l \in Nat /\ l + 1 \in Nat
    BY <1>1, <1>2
  <2>2. QED
    BY <1>1, <1>4, <2>1, ReplaceOutside
<1>6. First = l /\ Final = l
  BY <1>1, <1>2 DEF First, Final
<1>7. QED
  BY <1>2, <1>3, <1>5, <1>6

LEMMA IndentLocal ==
  ASSUME Inv, NEW shift \in BOOLEAN, Indent(shift)
  PROVE  Outside(mLines', mLines, First, Final + 1)
<1>1. HasSelection /\ mState.start.line # mState.end.line
  BY DEF Indent
<1>2. PICK i \in Nat, j \in Nat, m \in Nat : i = First /\ j = Final /\ m = Len(mLines) /\ i <= j /\ j < m
  BY FirstFinal
<1>3. i = mState.start.line /\ j = mState.end.line /\ i < j
  BY <1>1, <1>2 DEF First, Final
<1>4. PICK whole : whole = (mState.end.column # 0)
  OBVIOUS
<1>5. PICK last \in Nat : last = (IF whole THEN j ELSE j - 1) /\ last <= j
  <2>1. (IF whole THEN j ELSE j - 1) \in Nat /\ (IF whole THEN j ELSE j - 1) <= j
    BY <1>3
  <2>2. QED
    BY <2>1
<1>6. PICK others : others = [k \in DOMAIN mLines |->
                                IF k - 1 \notin i .. last THEN mLines[k]
                                ELSE IF shift THEN Unindented(mLines[k]) ELSE <<Tab>> \o mLines[k]]
  OBVIOUS
<1>7. mLines' = others
  BY <1>3, <1>4, <1>5, <1>6 DEF Indent
<1>8. mLines \in Texts
  BY InvTypes
<1>9. Within(mLines, others, i, last)
  BY <1>6, <1>8, IndentedType
<1>10. Len(others) = m /\ \A k \in 1 .. m : k - 1 \notin i .. last => others[k] = mLines[k]
  BY <1>2, <1>9 DEF Within
<1>11. \A k \in 1 .. i : others[k] = mLines[k]
  BY <1>2, <1>10
<1>12. ASSUME NEW k \in 1 .. m - (j + 1) PROVE others[(m - (m - (j + 1))) + k] = mLines[(j + 1) + k]
  <2>1. (m - (m - (j + 1))) + k = (j + 1) + k
    BY <1>2
  <2>2. (j + 1) + k \in 1 .. m /\ ((j + 1) + k) - 1 \notin i .. last
    BY <1>2, <1>5
  <2>3. QED
    BY <1>10, <2>1, <2>2
<1>13. i <= m /\ j + 1 <= m /\ m - (j + 1) <= m
  BY <1>2
<1>14. Outside(others, mLines, i, j + 1)
  BY <1>2, <1>10, <1>11, <1>12, <1>13 DEF Outside
<1>15. QED
  BY <1>2, <1>7, <1>14


LEMMA MoveRecordsNothing == Move => mUndoBuffer' = mUndoBuffer
  BY DEF Move, SelectAll, Copy, ToggleOverwrite, MoveUp, MoveDown, MoveLeft, MoveRight, MoveTop,
         MoveBottom, MoveHome, MoveEnd, Click, Drag, MoveTo, Select, history

\* The text of an edit is the one before it, but for two lines at most before and
\* behind the selection or the cursor.
LEMMA EditLocal ==
  ASSUME Inv, EditText, mUndoBuffer' # mUndoBuffer
  PROVE  \E p \in Nat, q \in Nat : /\ Outside(mLines', mLines, p, q)
                                  /\ First - 1 <= p /\ q <= Final + 2
<1>1. PICK i \in Nat, j \in Nat : i = First /\ j = Final /\ i <= j /\ j < Len(mLines)
  BY FirstFinal
<1>2. ASSUME Outside(mLines', mLines, First, Final + 1)
      PROVE  \E p \in Nat, q \in Nat : Outside(mLines', mLines, p, q) /\ i - 1 <= p /\ q <= j + 2
  <2>1. j + 1 \in Nat /\ i - 1 <= i /\ j + 1 <= j + 2
    OBVIOUS
  <2>2. Outside(mLines', mLines, i, j + 1)
    BY <1>1, <1>2
  <2>3. QED
    BY <2>1, <2>2
<1>3. PICK pos, line, index : CursorAt(pos, line, index)
  BY CursorIs
<1>4. /\ pos = GetActualCursorCoordinates /\ line = Line(mLines, pos.line)
      /\ index = GetCharacterIndex(mLines, pos) /\ pos.line \in Nat /\ pos.column \in Nat
      /\ Len(line) \in Nat /\ index \in 0 .. Len(line) /\ pos.line \in 0 .. Len(mLines) - 1
      /\ GetCharacterColumn(line, index) >= pos.column
  BY <1>3 DEF CursorAt
<1>5. mLines \in Texts /\ Len(mLines) \in Nat
  BY InvTypes
<1>6. ~HasSelection => i = pos.line /\ j = pos.line
  BY <1>1, <1>4 DEF First, Final
<1>7. CASE Insert
  BY <1>1, <1>2, <1>7, InsertLocal
<1>8. CASE \E shift \in BOOLEAN : Indent(shift)
  BY <1>1, <1>2, <1>8, IndentLocal
<1>9. CASE RemoveSelection
  BY <1>1, <1>2, <1>9, RemovalLocal
<1>10. CASE Delete /\ ~RemoveSelection
  <2>1. CASE /\ ~HasSelection /\ JoinLines(pos.line, pos) /\ pos.line # Len(mLines) - 1
    <3>1. pos.line + 1 < Len(mLines)
      BY <1>4, <1>5, <2>1
    <3>2. Outside(mLines', mLines, pos.line, pos.line + 2)
      BY <1>4, <2>1, <3>1, JoinLocal
    <3>3. Outside(mLines', mLines, i, i + 2) /\ i = j
      BY <1>6, <2>1, <3>2
    <3>4. i + 2 \in Nat /\ i - 1 <= i /\ i + 2 <= i + 2
      OBVIOUS
    <3>5. QED
      BY <1>1, <3>3, <3>4
  <2>2. CASE ~HasSelection /\ index < Len(line)
               /\ mLines' = ReplaceAt(mLines, pos.line + 1, RemoveAt(line, index + 1))
    <3>1. index + 1 \in 1 .. Len(line)
      BY <1>4, <2>2
    <3>2. QED
      BY <1>1, <1>2, <1>3, <2>2, <3>1, CharacterLocal
  <2>3. CASE ~HasSelection /\ mLines' = mLines
    <3>1. i \in 0 .. Len(mLines) - 1
      BY <1>1, <1>5
    <3>2. Around(mLines, mLines, i, i + 1)
      BY <1>5, <3>1, AroundItself
    <3>3. Outside(mLines', mLines, First, Final + 1)
      BY <1>1, <1>6, <2>3, <3>2 DEF Around
    <3>4. QED
      BY <1>1, <1>2, <3>3
  <2>4. QED
    BY <1>4, <1>10, <2>1, <2>2, <2>3 DEF Delete, history
<1>11. CASE Backspace /\ ~RemoveSelection
  <2>1. CASE /\ ~HasSelection /\ pos.line # 0
             /\ JoinLines(pos.line - 1, At(pos.line - 1, GetLineMaxColumn(Line(mLines, pos.line - 1))))
    <3>1. PICK l \in Nat : l = pos.line - 1 /\ l + 1 = pos.line
      BY <1>4, <2>1
    <3>2. l + 1 < Len(mLines)
      BY <1>4, <1>5, <3>1
    <3>3. JoinLines(l, At(l, GetLineMaxColumn(Line(mLines, l))))
      BY <2>1, <3>1
    <3>4. Outside(mLines', mLines, l, l + 2)
      BY <3>2, <3>3, JoinLocal
    <3>5. i - 1 <= l /\ l + 2 \in Nat /\ l + 2 <= j + 2
      BY <1>6, <2>1, <3>1
    <3>6. QED
      BY <1>1, <3>4, <3>5
  <2>2. CASE ~HasSelection /\ pos.column # 0
               /\ mLines' = ReplaceAt(mLines, pos.line + 1, RemoveAt(line, index))
    <3>1. GetCharacterColumn(line, 0) = 0
      BY <1>4, ColumnFacts
    <3>2. index # 0
      BY <1>4, <2>2, <3>1
    <3>3. index \in 1 .. Len(line)
      BY <1>4, <3>2
    <3>4. QED
      BY <1>1, <1>2, <1>3, <2>2, <3>3, CharacterLocal
  <2>3. QED
    BY <1>4, <1>11, <2>1, <2>2 DEF Backspace, history
<1>12. CASE Cut
  BY <1>1, <1>2, <1>12, RemovalLocal DEF Cut
<1>13. CASE Undo \/ Redo
  BY <1>13 DEF Undo, Redo
<1>14. QED
  BY <1>7, <1>8, <1>9, <1>10, <1>11, <1>12, <1>13 DEF EditText

LEMMA StepLocal ==
  ASSUME Inv, Inv', [Next]_vars, mUndoIndex' > mUndoIndex, mUndoBuffer' # mUndoBuffer
  PROVE  StaysLocal(mLines', mLines, First, Final)
<1>1. EditText
  <2>1. ~Move
    BY MoveRecordsNothing
  <2>2. ~UNCHANGED vars
    BY DEF vars
  <2>3. QED
    BY <2>1, <2>2 DEF Next
<1>2. PICK p \in Nat, q \in Nat : Outside(mLines', mLines, p, q) /\ First - 1 <= p /\ q <= Final + 2
  BY <1>1, EditLocal
<1>3. mLines \in Texts /\ First \in Nat /\ Final \in Nat
  BY FirstFinal
<1>4. mLines' \in Texts
  BY DEF Inv, Types, TypeOK
<1>5. QED
  BY <1>2, <1>3, <1>4, Stays

(* An edit that is recorded touches no line but those of the selection and *)
(* the cursor's, and the line before and behind it (EnterCharacter,        *)
(* Delete, Backspace, Cut and Paste).                                      *)
THEOREM EditsAreLocal == Spec => EditsStayLocal
<1> DEFINE Local ==
             LET cursor == GetActualCursorCoordinates.line
                 first == IF HasSelection THEN mState.start.line ELSE cursor
                 last == IF HasSelection THEN mState.end.line ELSE cursor
                 behind == Len(mLines) - last - 2
             IN mUndoIndex' > mUndoIndex /\ mUndoBuffer' # mUndoBuffer =>
                  /\ first > 1 => SubSeq(mLines', 1, first - 1) = SubSeq(mLines, 1, first - 1)
                  /\ behind > 0 => SubSeq(mLines', Len(mLines') - behind + 1, Len(mLines'))
                                     = SubSeq(mLines, Len(mLines) - behind + 1, Len(mLines))
<1>1. ASSUME Inv, Inv', [Next]_vars PROVE [Local]_vars
  <2>1. CASE mUndoIndex' > mUndoIndex /\ mUndoBuffer' # mUndoBuffer
    <3>1. StaysLocal(mLines', mLines, First, Final)
      BY <1>1, <2>1, StepLocal
    <3>2. QED
      BY <3>1 DEF StaysLocal, First, Final
  <2>2. CASE ~(mUndoIndex' > mUndoIndex /\ mUndoBuffer' # mUndoBuffer)
    BY <2>2
  <2>3. QED
    BY <2>1, <2>2
<1>2. Spec => []Inv
  BY EditorInvariant
<1>3. QED
  BY <1>1, <1>2, PTL DEF Spec, EditsStayLocal
=============================================================================
