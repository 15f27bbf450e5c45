------------------------ MODULE SegmentFollowersProofs ------------------------
(***************************************************************************)
(* Both follower scripts for every number of lines, segments and           *)
(* connections: what is printed is whole lines in order, and the bridge's  *)
(* script leaves a segment drained.                                        *)
(***************************************************************************)
EXTENDS SegmentFollowers, SequenceTheorems, WellFoundedInduction, TLAPS

-------------------------------------------------------------------------------
(* Texts: sequences of pieces. *)

\* The two pieces of a line stand side by side; only the last line of a text
\* may lack its end.
Shaped(text) ==
  \A i \in 1 .. Len(text) :
    IF IsNewline(text[i])
    THEN i > 1 /\ text[i - 1] = <<text[i][1], 1>>
    ELSE i < Len(text) => text[i + 1] = <<text[i][1], 2>>

\* Numbers never fall, and rise behind a newline.
Rising(text) ==
  \A i, j \in 1 .. Len(text) :
    i < j => /\ text[i][1] <= text[j][1]
             /\ IsNewline(text[i]) => text[i][1] < text[j][1]

Fine(text) == text \in Seq(Pieces) /\ Shaped(text) /\ Rising(text)

\* A text that does not end inside a line.
Whole(text) == text # <<>> => IsNewline(text[Len(text)])

IsPrefixText(text, of) ==
  /\ text \in Seq(Pieces) /\ Len(text) <= Len(of)
  /\ \A i \in 1 .. Len(text) : text[i] = of[i]

LEMMA PieceFields ==
  ASSUME NEW piece \in Pieces
  PROVE  /\ piece[1] \in 1 .. MaxLines /\ piece[2] \in {1, 2}
         /\ piece = <<piece[1], piece[2]>>
         /\ ~IsNewline(piece) => piece = <<piece[1], 1>>
         /\ IsNewline(piece) => piece = <<piece[1], 2>>
BY DEF Pieces, IsNewline

LEMMA PrefixIsFine ==
  ASSUME NEW text, NEW of, Fine(of), IsPrefixText(text, of)
  PROVE  Fine(text)
<1>1. Len(text) \in Nat /\ Len(of) \in Nat
  BY LenProperties DEF Fine, IsPrefixText
<1>2. Shaped(text)
  <2> SUFFICES ASSUME NEW i \in 1 .. Len(text)
               PROVE  IF IsNewline(text[i])
                      THEN i > 1 /\ text[i - 1] = <<text[i][1], 1>>
                      ELSE i < Len(text) => text[i + 1] = <<text[i][1], 2>>
    BY DEF Shaped
  <2>1. i \in 1 .. Len(of) /\ text[i] = of[i]
    BY <1>1 DEF IsPrefixText
  <2>2. i > 1 => text[i - 1] = of[i - 1]
    BY <1>1 DEF IsPrefixText
  <2>3. i < Len(text) => text[i + 1] = of[i + 1] /\ i < Len(of)
    BY <1>1 DEF IsPrefixText
  <2>4. IF IsNewline(of[i])
        THEN i > 1 /\ of[i - 1] = <<of[i][1], 1>>
        ELSE i < Len(of) => of[i + 1] = <<of[i][1], 2>>
    BY <2>1 DEF Fine, Shaped
  <2> QED
    BY <2>1, <2>2, <2>3, <2>4
<1>3. Rising(text)
  BY <1>1 DEF Rising, Fine, IsPrefixText
<1> QED
  BY <1>2, <1>3 DEF Fine, IsPrefixText

\* A line behind a whole text with smaller numbers.
Line(n) == <<<<n, 1>>, <<n, 2>>>>

LEMMA LineIsText ==
  ASSUME NEW n \in 1 .. MaxLines
  PROVE  Line(n) \in Seq(Pieces) /\ Len(Line(n)) = 2
         /\ Line(n)[1] = <<n, 1>> /\ Line(n)[2] = <<n, 2>>
BY DEF Line, Pieces

LEMMA LineKeepsFine ==
  ASSUME NEW text, Fine(text), Whole(text), NEW n \in 1 .. MaxLines,
         \A i \in 1 .. Len(text) : text[i][1] < n
  PROVE  /\ Fine(text \o Line(n)) /\ Whole(text \o Line(n))
         /\ Len(text \o Line(n)) = Len(text) + 2
         /\ \A i \in 1 .. Len(text) : (text \o Line(n))[i] = text[i]
         /\ (text \o Line(n))[Len(text) + 1] = <<n, 1>>
         /\ (text \o Line(n))[Len(text) + 2] = <<n, 2>>
<1> DEFINE more == text \o Line(n)
<1>1. /\ text \in Seq(Pieces) /\ Len(text) \in Nat /\ MaxLines \in Nat
      /\ \A i \in 1 .. Len(text) : text[i] \in Pieces
  BY LenProperties, ElementOfSeq, StreamAssumption DEF Fine
<1> DEFINE line == Line(n)
<1>l. line \in Seq(Pieces) /\ Len(line) = 2 /\ line[1] = <<n, 1>> /\ line[2] = <<n, 2>>
  BY LineIsText
<1> HIDE DEF line
<1>c. /\ text \o line \in Seq(Pieces) /\ Len(text \o line) = Len(text) + Len(line)
      /\ \A i \in 1 .. Len(text) + Len(line) :
           (text \o line)[i] = IF i <= Len(text) THEN text[i] ELSE line[i - Len(text)]
  BY <1>1, <1>l, ConcatProperties
<1>e. more = text \o line
  BY DEF line
<1> HIDE DEF more
<1>2. /\ more \in Seq(Pieces) /\ Len(more) = Len(text) + 2
      /\ \A i \in 1 .. Len(text) + 2 :
           more[i] = IF i <= Len(text) THEN text[i] ELSE line[i - Len(text)]
  BY <1>l, <1>c, <1>e
<1>3. /\ \A i \in 1 .. Len(text) : more[i] = text[i]
      /\ more[Len(text) + 1] = <<n, 1>> /\ more[Len(text) + 2] = <<n, 2>>
  <2>1. /\ Len(text) + 1 \in 1 .. Len(text) + 2 /\ Len(text) + 2 \in 1 .. Len(text) + 2
        /\ (Len(text) + 1) - Len(text) = 1 /\ (Len(text) + 2) - Len(text) = 2
        /\ ~(Len(text) + 1 <= Len(text)) /\ ~(Len(text) + 2 <= Len(text))
    BY <1>1
  <2>2. more[Len(text) + 1] = line[1]
    BY <1>2, <2>1
  <2>3. more[Len(text) + 2] = line[2]
    BY <1>2, <2>1
  <2>4. \A i \in 1 .. Len(text) : i \in 1 .. Len(text) + 2 /\ i <= Len(text)
    BY <1>1
  <2> QED
    BY <1>2, <1>l, <2>2, <2>3, <2>4
<1>4. Shaped(more)
  <2> SUFFICES ASSUME NEW i \in 1 .. Len(text) + 2
               PROVE  IF IsNewline(more[i])
                      THEN i > 1 /\ more[i - 1] = <<more[i][1], 1>>
                      ELSE i < Len(text) + 2 => more[i + 1] = <<more[i][1], 2>>
    BY <1>2 DEF Shaped
  <2>1. CASE i <= Len(text) /\ IsNewline(text[i])
    BY <2>1, <1>1, <1>3 DEF Fine, Shaped
  <2>2. CASE i <= Len(text) /\ ~IsNewline(text[i])
    <3>1. text # <<>> /\ i # Len(text)
      BY <2>2, <1>1, EmptySeq DEF Whole
    <3> QED
      BY <3>1, <2>2, <1>1, <1>3 DEF Fine, Shaped
  <2>3. CASE i = Len(text) + 1
    BY <2>3, <1>1, <1>3 DEF IsNewline
  <2>4. CASE i = Len(text) + 2
    BY <2>4, <1>1, <1>3 DEF IsNewline
  <2> QED
    BY <2>1, <2>2, <2>3, <2>4, <1>1
<1>5. Rising(more)
  <2> SUFFICES ASSUME NEW i \in 1 .. Len(text) + 2, NEW j \in 1 .. Len(text) + 2, i < j
               PROVE  /\ more[i][1] <= more[j][1]
                      /\ IsNewline(more[i]) => more[i][1] < more[j][1]
    BY <1>2 DEF Rising
  <2>1. CASE j <= Len(text)
    BY <2>1, <1>1, <1>3 DEF Fine, Rising
  <2>2. CASE j > Len(text) /\ i <= Len(text)
    <3>1. more[j][1] = n
      BY <2>2, <1>1, <1>3
    <3>2. more[i][1] < n /\ more[i][1] \in 1 .. MaxLines
      BY <2>2, <1>1, <1>3, PieceFields
    <3> QED
      BY <3>1, <3>2
  <2>3. CASE i > Len(text)
    <3>1. i = Len(text) + 1 /\ j = Len(text) + 2
      BY <2>3, <1>1
    <3> QED
      BY <3>1, <1>3 DEF IsNewline
  <2> QED
    BY <2>1, <2>2, <2>3, <1>1
<1>6. Whole(more)
  BY <1>2, <1>3 DEF Whole, IsNewline
<1> QED
  BY <1>2, <1>3, <1>4, <1>5, <1>6 DEF Fine, more

\* Where the whole lines of a text end.
LEMMA WholeLengthProperties ==
  ASSUME NEW text \in Seq(Pieces)
  PROVE  /\ WholeLength(text) \in 0 .. Len(text)
         /\ WholeLength(text) > 0 => IsNewline(text[WholeLength(text)])
         /\ \A i \in 1 .. Len(text) : IsNewline(text[i]) => i <= WholeLength(text)
<1> DEFINE ends == {0} \cup {i \in DOMAIN text : IsNewline(text[i])}
           rest == {Len(text) - i : i \in ends}
           less == {pair \in Nat \X Nat : pair[1] < pair[2]}
<1>1. Len(text) \in Nat /\ DOMAIN text = 1 .. Len(text)
  BY LenProperties
<1>2. ends \subseteq 0 .. Len(text) /\ 0 \in ends
  BY <1>1
<1>3. rest \subseteq Nat /\ rest # {}
  BY <1>1, <1>2
<1>4. PICK r \in rest : \A s \in rest : <<s, r>> \notin less
  <2>1. IsWellFoundedOn(less, Nat)
    BY NatLessThanWellFounded DEF OpToRel
  <2> HIDE DEF rest, less
  <2> QED
    BY <1>3, <2>1, WFMin
<1>5. ASSUME NEW s \in rest
      PROVE  r <= s
  <2>1. s \in Nat /\ r \in Nat
    BY <1>3
  <2>2. s < r => <<s, r>> \in less
    BY <2>1
  <2> HIDE DEF rest, less
  <2> QED
    BY <1>4, <2>1, <2>2
<1>6. PICK e \in ends : r = Len(text) - e
  OBVIOUS
<1>7. ASSUME NEW i \in ends
      PROVE  e >= i
  <2>1. Len(text) - i \in rest /\ i \in Int /\ e \in Int
    BY <1>1, <1>2
  <2>2. r <= Len(text) - i
    BY <1>5, <2>1
  <2> QED
    BY <1>1, <1>6, <2>1, <2>2
<1> HIDE DEF ends
<1>8. WholeLength(text) \in ends /\ \A i \in ends : WholeLength(text) >= i
  BY <1>7 DEF WholeLength, Max, ends
<1> QED
  BY <1>1, <1>2, <1>8 DEF ends
-------------------------------------------------------------------------------
(* Sequences of texts, one per segment, with numbers up to w. *)

InOrder(S, n, w) ==
  /\ \A l \in 1 .. n : Fine(S[l])
  /\ \A l \in 1 .. n : \A j \in 1 .. Len(S[l]) : S[l][j][1] <= w
  /\ \A k, l \in 1 .. n : k < l =>
       \A i \in 1 .. Len(S[k]), j \in 1 .. Len(S[l]) : S[k][i][1] < S[l][j][1]

\* The texts T have nothing that S has not but numbers above w.
AddsAbove(S, n, T, m, w) ==
  \A l \in 1 .. m : \A j \in 1 .. Len(T[l]) :
    \/ l <= n /\ j <= Len(S[l]) /\ T[l][j] = S[l][j]
    \/ T[l][j][1] > w

LEMMA FineNumbers ==
  ASSUME NEW text, Fine(text)
  PROVE  /\ Len(text) \in Nat
         /\ \A j \in 1 .. Len(text) : text[j] \in Pieces /\ text[j][1] \in 1 .. MaxLines
BY LenProperties, ElementOfSeq, PieceFields DEF Fine

LEMMA EmptyIsFine == Fine(<<>>) /\ Whole(<<>>) /\ Len(<<>>) = 0
<1>1. <<>> \in Seq(Pieces) /\ Len(<<>>) = 0
  BY EmptySeq
<1> QED
  BY <1>1 DEF Fine, Whole, Shaped, Rising

LEMMA NewTextInOrder ==
  ASSUME NEW S, NEW T, NEW n \in Nat, NEW w \in Nat, InOrder(S, n, w),
         \A l \in 1 .. n : T[l] = S[l], T[n + 1] = <<>>
  PROVE  InOrder(T, n + 1, w) /\ AddsAbove(S, n, T, n + 1, w)
<1>1. \A l \in 1 .. n + 1 : l \in 1 .. n \/ (l = n + 1 /\ Fine(T[l]) /\ Len(T[l]) = 0)
  BY EmptyIsFine
<1>2. \A l \in 1 .. n + 1 : Fine(T[l])
  BY <1>1 DEF InOrder
<1>3. \A l \in 1 .. n + 1 : \A j \in 1 .. Len(T[l]) : T[l][j][1] <= w
  BY <1>1 DEF InOrder
<1>4. \A k, l \in 1 .. n + 1 : k < l =>
        \A i \in 1 .. Len(T[k]), j \in 1 .. Len(T[l]) : T[k][i][1] < T[l][j][1]
  BY <1>1 DEF InOrder
<1>5. \A l \in 1 .. n + 1 : \A j \in 1 .. Len(T[l]) :
        l <= n /\ j <= Len(S[l]) /\ T[l][j] = S[l][j]
  <2> SUFFICES ASSUME NEW l \in 1 .. n + 1, NEW j \in 1 .. Len(T[l])
               PROVE  l <= n /\ j <= Len(S[l]) /\ T[l][j] = S[l][j]
    OBVIOUS
  <2>1. l \in 1 .. n
    BY <1>1
  <2>2. Len(S[l]) \in Nat
    BY <2>1, FineNumbers DEF InOrder
  <2> QED
    BY <2>1, <2>2
<1> QED
  BY <1>2, <1>3, <1>4, <1>5 DEF InOrder, AddsAbove

LEMMA PrefixesInOrder ==
  ASSUME NEW S, NEW T, NEW n \in Nat, NEW w \in Nat, InOrder(S, n, w),
         \A l \in 1 .. n : IsPrefixText(T[l], S[l])
  PROVE  InOrder(T, n, w) /\ AddsAbove(S, n, T, n, w)
<1>1. \A l \in 1 .. n : Fine(T[l]) /\ Len(T[l]) \in Nat /\ Len(S[l]) \in Nat
  BY PrefixIsFine, FineNumbers DEF InOrder
<1>2. \A l \in 1 .. n : \A j \in 1 .. Len(T[l]) : j \in 1 .. Len(S[l]) /\ T[l][j] = S[l][j]
  BY <1>1 DEF IsPrefixText
<1>3. AddsAbove(S, n, T, n, w)
  BY <1>1, <1>2 DEF AddsAbove
<1>4. \A l \in 1 .. n : \A j \in 1 .. Len(T[l]) : T[l][j][1] <= w
  BY <1>2 DEF InOrder
<1>5. \A k, l \in 1 .. n : k < l =>
        \A i \in 1 .. Len(T[k]), j \in 1 .. Len(T[l]) : T[k][i][1] < T[l][j][1]
  BY <1>2 DEF InOrder
<1> QED
  BY <1>1, <1>3, <1>4, <1>5 DEF InOrder

LEMMA NewLineInOrder ==
  ASSUME NEW S, NEW T, NEW n \in Nat \ {0}, NEW w \in Nat, w < MaxLines, InOrder(S, n, w),
         Whole(S[n]), \A l \in 1 .. n - 1 : T[l] = S[l], T[n] = S[n] \o Line(w + 1)
  PROVE  InOrder(T, n, w + 1) /\ Whole(T[n]) /\ AddsAbove(S, n, T, n, w)
<1>1. /\ Fine(S[n]) /\ w + 1 \in 1 .. MaxLines /\ n \in 1 .. n
      /\ \A l \in 1 .. n : l \in 1 .. n - 1 \/ l = n
  BY StreamAssumption DEF InOrder
<1>2. \A l \in 1 .. n : /\ Len(S[l]) \in Nat
                       /\ \A j \in 1 .. Len(S[l]) : /\ S[l][j][1] \in Nat
                                                   /\ S[l][j][1] <= w
  BY FineNumbers DEF InOrder
<1>3. \A i \in 1 .. Len(S[n]) : S[n][i][1] < w + 1
  BY <1>1, <1>2
<1>4. /\ Fine(T[n]) /\ Whole(T[n]) /\ Len(T[n]) = Len(S[n]) + 2
      /\ \A i \in 1 .. Len(S[n]) : T[n][i] = S[n][i]
      /\ T[n][Len(S[n]) + 1] = <<w + 1, 1>> /\ T[n][Len(S[n]) + 2] = <<w + 1, 2>>
  <2> DEFINE text == S[n]
             more == T[n]
             number == w + 1
  <2>1. /\ Fine(text) /\ Whole(text) /\ number \in 1 .. MaxLines
        /\ \A i \in 1 .. Len(text) : text[i][1] < number
    BY <1>1, <1>3
  <2>2. more = text \o Line(number)
    OBVIOUS
  <2> HIDE DEF text, more, number
  <2>3. /\ Fine(more) /\ Whole(more) /\ Len(more) = Len(text) + 2
        /\ \A i \in 1 .. Len(text) : more[i] = text[i]
        /\ more[Len(text) + 1] = <<number, 1>> /\ more[Len(text) + 2] = <<number, 2>>
    BY <2>1, <2>2, LineKeepsFine
  <2> QED
    BY <2>3 DEF text, more, number
<1>5. \A j \in 1 .. Len(T[n]) :
        \/ j \in 1 .. Len(S[n]) /\ T[n][j] = S[n][j]
        \/ T[n][j][1] = w + 1
  <2>0. Len(S[n]) \in Nat /\ Len(T[n]) = Len(S[n]) + 2
    BY <1>1, <1>2, <1>4
  <2>z. \A m \in Nat : \A j \in 1 .. m + 2 : j \in 1 .. m \/ j = m + 1 \/ j = m + 2
    OBVIOUS
  <2>1. \A j \in 1 .. Len(T[n]) : j \in 1 .. Len(S[n]) \/ j = Len(S[n]) + 1 \/ j = Len(S[n]) + 2
    BY <2>0, <2>z, Zenon
  <2>2. <<w + 1, 1>>[1] = w + 1 /\ <<w + 1, 2>>[1] = w + 1
    OBVIOUS
  <2> QED
    BY <1>4, <2>1, <2>2
<1>6. \A l \in 1 .. n : \A j \in 1 .. Len(T[l]) :
        \/ j \in 1 .. Len(S[l]) /\ T[l][j] = S[l][j]
        \/ l = n /\ T[l][j][1] = w + 1
  BY <1>1, <1>5
<1>7. \A l \in 1 .. n : Fine(T[l])
  BY <1>1, <1>4 DEF InOrder
<1>8. \A l \in 1 .. n : \A j \in 1 .. Len(T[l]) : T[l][j][1] <= w + 1
  BY <1>2, <1>6
<1>9. \A k, l \in 1 .. n : k < l =>
        \A i \in 1 .. Len(T[k]), j \in 1 .. Len(T[l]) : T[k][i][1] < T[l][j][1]
  <2> SUFFICES ASSUME NEW k \in 1 .. n, NEW l \in 1 .. n, k < l,
                      NEW i \in 1 .. Len(T[k]), NEW j \in 1 .. Len(T[l])
               PROVE  T[k][i][1] < T[l][j][1]
    OBVIOUS
  <2>1. i \in 1 .. Len(S[k]) /\ T[k][i] = S[k][i] /\ S[k][i][1] <= w /\ S[k][i][1] \in Nat
    BY <1>2, <1>6
  <2>2. CASE j \in 1 .. Len(S[l]) /\ T[l][j] = S[l][j]
    BY <2>1, <2>2 DEF InOrder
  <2>3. CASE T[l][j][1] = w + 1
    BY <2>1, <2>3
  <2> QED
    BY <1>6, <2>2, <2>3
<1>10. AddsAbove(S, n, T, n, w)
  BY <1>2, <1>6 DEF AddsAbove
<1> QED
  BY <1>4, <1>7, <1>8, <1>9, <1>10 DEF InOrder

-------------------------------------------------------------------------------
(* The inductive invariant. *)

\* What the file of a segment holds together with what the worker's buffer
\* still has for it.
Streams ==
  [l \in 1 .. Len(files) |-> IF l = Len(files) THEN files[l] \o pending ELSE files[l]]

\* The writer: every stream is fine, the one that is written to ends a line,
\* and numbers rise from one segment to the next.
StreamsOK ==
  /\ InOrder(Streams, Len(files), written)
  /\ open => Len(files) > 0 /\ Whole(Streams[Len(files)])
  /\ ~open => pending = <<>>

\* A script that holds a segment's file.
Reading == pc \in {"read", "look", "check"}

\* How far the printed text reaches in that file.
Place == offset - Len(buf)

PlaceOK ==
  /\ IF pc = "find" THEN path = 0 /\ offset = 0 /\ entry = 0 ELSE path > 0
  /\ Reading => /\ Place >= 0
                 /\ \A i \in 1 .. Len(buf) : buf[i] = File[Place + i]
  /\ pc = "check" => latest > path

\* The next piece printed begins a line, or a connection.
JunctionOK ==
  IF Reading THEN Place = 0 \/ IsNewline(File[Place]) \/ Len(out) \in began
             ELSE Len(out) \in began

\* How much of a segment's file the script has behind it.
Mark(l) ==
  IF pc = "find" \/ l < path THEN Len(files[l])
  ELSE IF l > path THEN 0
  ELSE IF pc = "open" THEN Len(files[l])
  ELSE Place

\* All that was printed comes before all that is not behind the script.
OutBehind ==
  /\ \A i \in 1 .. Len(out) : out[i][1] <= written
  /\ \A i \in 1 .. Len(out), l \in 1 .. Len(files) :
       \A j \in 1 .. Len(Streams[l]) : j > Mark(l) => out[i][1] < Streams[l][j][1]

\* What the bridge's script has read of whole lines is printed.
BridgeOK ==
  script = "bridge" /\ Reading =>
    \A i \in entry + 1 .. offset : IsNewline(File[i]) => Printed(File[i])

IInv == TypeOK /\ StreamsOK /\ PlaceOK /\ JunctionOK /\ OutBehind /\ WholeLinesInOrder
        /\ BridgeOK
-------------------------------------------------------------------------------
(* The writer. *)

LEMMA StreamText ==
  ASSUME TypeOK
  PROVE  /\ Len(files) \in Nat
         /\ pending \in Seq(Pieces) /\ Len(pending) \in Nat
         /\ \A l \in 1 .. Len(files) :
              /\ files[l] \in Seq(Pieces) /\ Len(files[l]) \in Nat
              /\ IsPrefixText(files[l], Streams[l])
              /\ Streams[l] = IF l = Len(files) THEN files[l] \o pending ELSE files[l]
              /\ pending = <<>> => Streams[l] = files[l]
<1>1. /\ Len(files) \in Nat /\ Len(pending) \in Nat /\ pending \in Seq(Pieces)
      /\ \A l \in 1 .. Len(files) : files[l] \in Seq(Pieces)
  BY LenProperties, ElementOfSeq DEF TypeOK
<1>2. ASSUME NEW l \in 1 .. Len(files)
      PROVE  /\ Len(files[l]) \in Nat
             /\ IsPrefixText(files[l], Streams[l])
             /\ Streams[l] = IF l = Len(files) THEN files[l] \o pending ELSE files[l]
             /\ pending = <<>> => Streams[l] = files[l]
  <2> DEFINE text == files[l]
  <2>1. text \in Seq(Pieces) /\ Len(text) \in Nat
    BY <1>1, LenProperties
  <2>2. Streams[l] = IF l = Len(files) THEN text \o pending ELSE text
    BY DEF Streams
  <2> HIDE DEF text
  <2>3. /\ Len(text \o pending) = Len(text) + Len(pending)
        /\ \A i \in 1 .. Len(text) + Len(pending) :
             (text \o pending)[i] = IF i <= Len(text) THEN text[i] ELSE pending[i - Len(text)]
    BY <1>1, <2>1, ConcatProperties
  <2>4. text \o <<>> = text
    BY <2>1, ConcatEmptySeq
  <2>5. IsPrefixText(text, text \o pending) /\ IsPrefixText(text, text)
    BY <1>1, <2>1, <2>3 DEF IsPrefixText
  <2>6. IsPrefixText(text, Streams[l]) /\ (pending = <<>> => Streams[l] = text)
    BY <2>2, <2>4, <2>5
  <2> QED
    BY <2>1, <2>2, <2>6 DEF text
<1> QED
  BY <1>1, <1>2

\* What a step of the writer leaves alone: the script, what is in the files,
\* and the numbers below those it adds.
Kept ==
  /\ UNCHANGED followerVars
  /\ written <= written'
  /\ Len(files) <= Len(files')
  /\ \A l \in 1 .. Len(files) : IsPrefixText(files[l], files'[l])
  /\ AddsAbove(Streams, Len(files), Streams', Len(files'), written)

\* The types of what the writer changes.
WriterTypeOK ==
  /\ files \in Seq(Seq(Pieces)) /\ Len(files) <= MaxSegments
  /\ open \in BOOLEAN
  /\ pending \in Seq(Pieces)
  /\ written \in 0 .. MaxLines

WriterStep == WriterTypeOK' /\ StreamsOK' /\ Kept

LEMMA OpenStep ==
  ASSUME TypeOK, StreamsOK, OpenSegment
  PROVE  WriterStep
<1> DEFINE none == <<>>
           n == Len(files)
           S == Streams
           T == Streams'
<1>1. /\ n \in Nat /\ files \in Seq(Seq(Pieces)) /\ none \in Seq(Pieces)
      /\ MaxSegments \in Nat /\ written \in Nat
      /\ pending = none /\ pending' = none /\ open' = TRUE
      /\ UNCHANGED <<written, followerVars>> /\ files' = Append(files, none)
      /\ n < MaxSegments
  BY StreamText, EmptySeq, StreamAssumption DEF TypeOK, OpenSegment, StreamsOK
<1>2. none \o none = none
  BY <1>1, ConcatEmptySeq
<1>3. none = <<>>
  OBVIOUS
<1> HIDE DEF none
<1>4. /\ files' \in Seq(Seq(Pieces)) /\ Len(files') = n + 1
      /\ \A l \in 1 .. n : files'[l] = files[l]
      /\ files'[n + 1] = none
  BY <1>1, AppendProperties
<1>5. /\ \A l \in 1 .. n : T[l] = files[l]
      /\ T[n + 1] = none
  BY <1>1, <1>2, <1>4 DEF Streams
<1>6. \A l \in 1 .. n : T[l] = S[l]
  BY <1>1, <1>3, <1>5, StreamText
<1>7. InOrder(T, n + 1, written) /\ AddsAbove(S, n, T, n + 1, written)
  <2>1. InOrder(S, n, written)
    BY DEF StreamsOK
  <2> HIDE DEF S, T, n
  <2> QED
    BY <1>1, <1>3, <1>5, <1>6, <2>1, NewTextInOrder
<1>8. StreamsOK'
  <2>1. Whole(T[n + 1]) /\ n + 1 > 0
    BY <1>1, <1>3, <1>5, EmptyIsFine
  <2> QED
    BY <1>1, <1>4, <1>7, <2>1 DEF StreamsOK
<1>9. Kept
  <2>1. \A l \in 1 .. n : IsPrefixText(files[l], files'[l])
    BY <1>4, StreamText DEF IsPrefixText
  <2> QED
    BY <1>1, <1>4, <1>7, <2>1 DEF Kept
<1>10. WriterTypeOK'
  BY <1>1, <1>4 DEF WriterTypeOK, TypeOK
<1> QED
  BY <1>8, <1>9, <1>10 DEF WriterStep

LEMMA WriteStep ==
  ASSUME TypeOK, StreamsOK, WriteLine
  PROVE  WriterStep
<1> DEFINE n == Len(files)
           S == Streams
           T == Streams'
           line == Line(written + 1)
<1>1. /\ n \in Nat \ {0} /\ pending \in Seq(Pieces) /\ written \in Nat /\ MaxLines \in Nat
      /\ written < MaxLines /\ written' = written + 1 /\ open
      /\ pending' = pending \o line
      /\ UNCHANGED <<files, open, followerVars>>
  BY StreamText, StreamAssumption DEF TypeOK, WriteLine, Line, StreamsOK
<1>2. line \in Seq(Pieces)
  BY <1>1, LineIsText
<1> HIDE DEF line
<1>3. pending' \in Seq(Pieces)
  BY <1>1, <1>2, ConcatProperties
<1>4. T[n] = S[n] \o line
  <2> DEFINE text == files[n]
  <2>0. n \in 1 .. Len(files) /\ pending \in Seq(Pieces)
    BY <1>1
  <2>1. text \in Seq(Pieces) /\ S[n] = text \o pending
    BY <2>0, StreamText
  <2>2. T[n] = text \o pending'
    BY <1>1, <2>0 DEF Streams
  <2>3. (text \o pending) \o line = text \o (pending \o line)
    <3> HIDE DEF text
    <3> QED
      BY <1>2, <2>0, <2>1, ConcatAssociative
  <2> QED
    BY <1>1, <2>1, <2>2, <2>3
<1>5. \A l \in 1 .. n - 1 : T[l] = S[l]
  BY <1>1 DEF Streams
<1>6. InOrder(S, n, written) /\ Whole(S[n])
  BY <1>1 DEF StreamsOK
<1>7. InOrder(T, n, written + 1) /\ Whole(T[n]) /\ AddsAbove(S, n, T, n, written)
  <2> HIDE DEF S, T, n
  <2> QED
    BY <1>1, <1>4, <1>5, <1>6, NewLineInOrder DEF line
<1>8. StreamsOK'
  BY <1>1, <1>7 DEF StreamsOK
<1>9. Kept
  <2>1. \A l \in 1 .. n : IsPrefixText(files[l], files'[l])
    BY <1>1, StreamText DEF IsPrefixText
  <2> QED
    BY <1>1, <1>7, <2>1 DEF Kept
<1>10. WriterTypeOK'
  BY <1>1, <1>3 DEF WriterTypeOK, TypeOK
<1> QED
  BY <1>8, <1>9, <1>10 DEF WriterStep

LEMMA JoinsAssociate ==
  \A a, b, c \in Seq(Pieces) : (a \o b) \o c = a \o (b \o c)
BY ConcatAssociative

\* Nothing or a beginning of the buffer goes to the file.
LEMMA ToFileStep ==
  ASSUME TypeOK, StreamsOK, NEW k \in 0 .. Len(pending), open, ToFile(k),
         pending' = SubSeq(pending, k + 1, Len(pending)),
         open' \in BOOLEAN, open' \/ pending' = <<>>, UNCHANGED <<written, followerVars>>
  PROVE  WriterStep
<1> DEFINE n == Len(files)
           S == Streams
           T == Streams'
           text == files[n]
           first == SubSeq(pending, 1, k)
           rest == SubSeq(pending, k + 1, Len(pending))
<1>1. /\ n \in Nat /\ n \in 1 .. n /\ Len(pending) \in Nat /\ written \in Nat
      /\ files \in Seq(Seq(Pieces)) /\ text \in Seq(Pieces) /\ pending \in Seq(Pieces)
      /\ S[n] = text \o pending
  <2>1. n \in 1 .. n /\ n \in Nat
    BY StreamText DEF StreamsOK
  <2>2. text \in Seq(Pieces) /\ S[n] = text \o pending
    BY <2>1, StreamText
  <2> QED
    BY <2>1, <2>2, StreamText DEF TypeOK
<1>2. first \in Seq(Pieces) /\ rest \in Seq(Pieces) /\ first \o rest = pending
  <2>1. \A i \in 1 .. Len(pending) : pending[i] \in Pieces
    BY <1>1, ElementOfSeq
  <2>2. first \in Seq(Pieces) /\ rest \in Seq(Pieces)
    BY <1>1, <2>1, SubSeqProperties
  <2>3. SubSeq(pending, 1, k) \o SubSeq(pending, k + 1, Len(pending)) = SubSeq(pending, 1, Len(pending))
    <3>1. 1 \in 1 .. Len(pending) + 1 /\ k \in 1 - 1 .. Len(pending) /\ Len(pending) \in k .. Len(pending)
      BY <1>1
    <3> QED
      BY <1>1, <3>1, ConcatAdjacentSubSeq
  <2>4. SubSeq(pending, 1, Len(pending)) = pending
    BY <1>1, SubSeqFull
  <2> QED
    BY <2>2, <2>3, <2>4
<1>3. text \o first \in Seq(Pieces) /\ IsPrefixText(text, text \o first)
  <2> HIDE DEF text, first
  <2>1. /\ text \o first \in Seq(Pieces) /\ Len(text \o first) = Len(text) + Len(first)
        /\ \A i \in 1 .. Len(text) + Len(first) :
             (text \o first)[i] = IF i <= Len(text) THEN text[i] ELSE first[i - Len(text)]
    BY <1>1, <1>2, ConcatProperties
  <2>2. Len(text) \in Nat /\ Len(first) \in Nat
    BY <1>1, <1>2, LenProperties
  <2> QED
    BY <1>1, <2>1, <2>2 DEF IsPrefixText
<1>4. /\ files' \in Seq(Seq(Pieces)) /\ Len(files') = n
      /\ \A l \in 1 .. n : files'[l] = IF l = n THEN text \o first ELSE files[l]
  <2> DEFINE more == text \o first
  <2>1. files' = [files EXCEPT ![n] = more]
    BY DEF ToFile
  <2>2. more \in Seq(Pieces)
    BY <1>3
  <2> HIDE DEF more
  <2>3. /\ files' \in Seq(Seq(Pieces)) /\ Len(files') = n
        /\ \A l \in 1 .. n : files'[l] = IF l = n THEN more ELSE files[l]
    BY <1>1, <2>1, <2>2, ExceptSeq
  <2> QED
    BY <2>3 DEF more
<1>5. \A l \in 1 .. n : T[l] = S[l]
  <2>1. T[n] = (text \o first) \o rest
    BY <1>1, <1>4 DEF Streams
  <2>2. (text \o first) \o rest = text \o (first \o rest)
    <3>1. text \in Seq(Pieces) /\ first \in Seq(Pieces) /\ rest \in Seq(Pieces)
      BY <1>1, <1>2
    <3> HIDE DEF text, first, rest
    <3> QED
      BY <3>1, JoinsAssociate, Zenon
  <2>3. T[n] = S[n]
    BY <1>1, <1>2, <2>1, <2>2
  <2>4. \A l \in 1 .. n : l # n => T[l] = S[l]
    BY <1>4 DEF Streams
  <2> QED
    BY <2>3, <2>4
<1>6. InOrder(T, n, written) /\ AddsAbove(S, n, T, n, written)
  <2>1. InOrder(S, n, written)
    BY DEF StreamsOK
  <2>2. \A l \in 1 .. n : IsPrefixText(T[l], S[l])
    BY <1>5, <2>1, FineNumbers DEF InOrder, IsPrefixText, Fine
  <2> HIDE DEF S, T, n
  <2> QED
    BY <1>1, <2>1, <2>2, PrefixesInOrder
<1>7. StreamsOK'
  <2>1. Whole(T[n])
    BY <1>1, <1>5 DEF StreamsOK
  <2> QED
    BY <1>1, <1>4, <1>6, <2>1 DEF StreamsOK
<1>8. Kept
  <2>1. \A l \in 1 .. n : IsPrefixText(files[l], files'[l])
    BY <1>3, <1>4, StreamText DEF IsPrefixText
  <2> QED
    BY <1>1, <1>4, <1>6, <2>1 DEF Kept
<1>9. WriterTypeOK'
  BY <1>1, <1>2, <1>4 DEF WriterTypeOK, TypeOK
<1> QED
  BY <1>7, <1>8, <1>9 DEF WriterStep

LEMMA SpillStep ==
  ASSUME TypeOK, StreamsOK, Spill
  PROVE  WriterStep
<1>1. PICK k \in 1 .. Len(pending) :
        ToFile(k) /\ pending' = SubSeq(pending, k + 1, Len(pending))
  BY DEF Spill
<1>2. /\ k \in 0 .. Len(pending) /\ open /\ open' \in BOOLEAN /\ open'
      /\ UNCHANGED <<written, followerVars>>
  BY StreamText DEF Spill
<1> QED
  BY <1>1, <1>2, ToFileStep

LEMMA CloseStep ==
  ASSUME TypeOK, StreamsOK, CloseSegment
  PROVE  WriterStep
<1>1. Len(pending) \in 0 .. Len(pending) /\ Len(pending) \in Nat
  BY StreamText
<1>2. SubSeq(pending, Len(pending) + 1, Len(pending)) = <<>>
  BY <1>1, SubSeqEmpty
<1>3. /\ ToFile(Len(pending)) /\ pending' = <<>> /\ open /\ open' \in BOOLEAN
      /\ UNCHANGED <<written, followerVars>>
  BY DEF CloseSegment
<1> QED
  BY <1>1, <1>2, <1>3, ToFileStep

LEMMA KilledStep ==
  ASSUME TypeOK, StreamsOK, Killed
  PROVE  WriterStep
<1> DEFINE n == Len(files)
           S == Streams
           T == Streams'
<1>1. /\ n \in Nat /\ written \in Nat /\ pending' = <<>> /\ open' = FALSE
      /\ UNCHANGED <<files, written, followerVars>>
  BY StreamText DEF TypeOK, Killed
<1>2. \A l \in 1 .. n : T[l] = files[l]
  BY <1>1, StreamText, ConcatEmptySeq DEF Streams
<1>3. InOrder(T, n, written) /\ AddsAbove(S, n, T, n, written)
  <2>1. InOrder(S, n, written)
    BY DEF StreamsOK
  <2>2. \A l \in 1 .. n : IsPrefixText(T[l], S[l])
    BY <1>2, StreamText
  <2> HIDE DEF S, T, n
  <2> QED
    BY <1>1, <2>1, <2>2, PrefixesInOrder
<1>4. StreamsOK'
  BY <1>1, <1>3 DEF StreamsOK
<1>5. Kept
  <2>1. \A l \in 1 .. n : IsPrefixText(files[l], files'[l])
    BY <1>1, StreamText DEF IsPrefixText
  <2> QED
    BY <1>1, <1>3, <2>1 DEF Kept
<1>6. WriterTypeOK'
  BY <1>1, EmptySeq DEF WriterTypeOK, TypeOK
<1> QED
  BY <1>4, <1>5, <1>6 DEF WriterStep
-------------------------------------------------------------------------------
(* The scripts beside the writer. *)

LEMMA ScriptFacts ==
  ASSUME IInv
  PROVE  /\ Len(files) \in Nat /\ Len(buf) \in Nat /\ Len(out) \in Nat
         /\ path \in Nat /\ latest \in Nat /\ entry \in Nat /\ offset \in Nat /\ written \in Nat
         /\ pc # "find" => /\ path \in 1 .. Len(files)
                          /\ File \in Seq(Pieces) /\ Len(File) \in Nat /\ Fine(File)
                          /\ entry <= offset /\ offset <= Len(File)
         /\ Reading => Place \in 0 .. offset
<1>1. /\ Len(files) \in Nat /\ Len(buf) \in Nat /\ Len(out) \in Nat
      /\ path \in 0 .. Len(files) /\ latest \in Nat /\ entry \in Nat /\ offset \in Nat
      /\ written \in Nat
  BY LenProperties DEF IInv, TypeOK
<1>2. ASSUME pc # "find"
      PROVE  /\ path \in 1 .. Len(files)
             /\ File \in Seq(Pieces) /\ Len(File) \in Nat /\ Fine(File)
             /\ entry <= offset /\ offset <= Len(File)
  <2>1. path \in 1 .. Len(files)
    BY <1>1, <1>2 DEF IInv, PlaceOK
  <2>2. /\ files[path] \in Seq(Pieces) /\ Len(files[path]) \in Nat
        /\ IsPrefixText(files[path], Streams[path])
    BY <2>1, StreamText DEF IInv
  <2>3. Fine(files[path])
    BY <2>1, <2>2, PrefixIsFine DEF IInv, StreamsOK, InOrder
  <2> QED
    BY <2>1, <2>2, <2>3 DEF IInv, TypeOK, File
<1>3. Reading => Place \in 0 .. offset
  BY <1>1 DEF IInv, PlaceOK, Place
<1> QED
  BY <1>1, <1>2, <1>3

LEMMA WriterKeeps ==
  ASSUME IInv, WriterStep
  PROVE  IInv'
<1>1. /\ UNCHANGED <<script, pc, path, offset, entry, buf, out, latest, connections, began>>
      /\ written <= written' /\ Len(files) <= Len(files')
      /\ \A l \in 1 .. Len(files) : IsPrefixText(files[l], files'[l])
      /\ AddsAbove(Streams, Len(files), Streams', Len(files'), written)
      /\ WriterTypeOK' /\ StreamsOK'
  BY DEF WriterStep, Kept, followerVars, readVars, sessionVars
<1>2. /\ Len(files') \in Nat /\ written' \in Nat
      /\ \A l \in 1 .. Len(files') : Len(files'[l]) \in Nat
      /\ \A l \in 1 .. Len(files) : Len(files[l]) \in Nat /\ l \in 1 .. Len(files')
  <2>1. \A l \in 1 .. Len(files') : Len(files'[l]) \in Nat
    BY <1>1, ElementOfSeq, LenProperties DEF WriterTypeOK
  <2>2. Len(files') \in Nat /\ written' \in Nat
    BY <1>1, LenProperties DEF WriterTypeOK
  <2> QED
    BY <1>1, <2>1, <2>2, ScriptFacts, StreamText DEF IInv
<1>3. path > 0 => /\ path \in 1 .. Len(files) /\ Len(File) \in Nat /\ Len(File) <= Len(File')
                  /\ \A i \in 1 .. Len(File) : File'[i] = File[i]
  BY <1>1, <1>2, ScriptFacts DEF IInv, TypeOK, File, IsPrefixText
<1>4. TypeOK'
  <2>1. path' > 0 => entry' <= offset' /\ offset' <= Len(File')
    <3>1. path > 0 => pc # "find"
      BY DEF IInv, PlaceOK
    <3>2. path > 0 => /\ entry <= offset /\ offset <= Len(File) /\ Len(File) \in Nat
                      /\ path \in 1 .. Len(files') /\ entry \in Nat /\ offset \in Nat
      BY <1>2, <1>3, <3>1, ScriptFacts
    <3>3. path > 0 => Len(File') \in Nat
      BY <1>1, <1>2, <3>2 DEF File
    <3> QED
      BY <1>1, <1>3, <3>2, <3>3
  <2>2. path' \in 0 .. Len(files') /\ latest' \in 0 .. Len(files')
    BY <1>1, <1>2, ScriptFacts DEF IInv, TypeOK
  <2>3. /\ script' \in Scripts /\ pc' \in {"find", "open", "read", "look", "check"}
        /\ entry' \in Nat /\ offset' \in Nat /\ buf' \in Seq(Pieces) /\ out' \in Seq(Pieces)
        /\ connections' \in 1 .. MaxConnections /\ began' \subseteq 0 .. Len(out')
    BY <1>1 DEF IInv, TypeOK
  <2> QED
    BY <1>1, <2>1, <2>2, <2>3 DEF TypeOK, WriterTypeOK
<1>5. PlaceOK'
  <2>1. ASSUME Reading, NEW i \in 1 .. Len(buf)
        PROVE  buf[i] = File'[Place + i]
    <3>1. buf[i] = File[Place + i] /\ Place \in 0 .. offset /\ Place + Len(buf) = offset
      BY <2>1, ScriptFacts DEF IInv, PlaceOK, Place
    <3>2. Place + i \in 1 .. Len(File)
      BY <2>1, <3>1, ScriptFacts DEF Reading
    <3> QED
      BY <2>1, <3>1, <3>2, <1>3, ScriptFacts DEF Reading
  <2> QED
    BY <1>1, <2>1 DEF IInv, PlaceOK, Place, Reading
<1>6. JunctionOK'
  <2>1. ASSUME Reading, Place # 0, IsNewline(File[Place])
        PROVE  IsNewline(File'[Place])
    <3>1. Place \in 1 .. Len(File)
      BY <2>1, ScriptFacts DEF Reading
    <3>2. File'[Place] = File[Place]
      BY <2>1, <3>1, <1>3, ScriptFacts DEF Reading
    <3> QED
      BY <2>1, <3>2
  <2> QED
    BY <1>1, <2>1 DEF IInv, JunctionOK, Place, Reading
<1>7. OutBehind'
  <2>1. \A i \in 1 .. Len(out) : out[i] \in Pieces /\ out[i][1] \in Nat
    BY ElementOfSeq, PieceFields DEF IInv, TypeOK
  <2>2. \A i \in 1 .. Len(out) : out[i][1] <= written
    BY DEF IInv, OutBehind
  <2>3. ASSUME NEW l \in 1 .. Len(files)
        PROVE  Mark(l) <= Mark(l)' /\ Mark(l) \in Nat /\ Mark(l)' \in Nat
    <3>1. Len(files[l]) <= Len(files'[l])
      BY <1>1 DEF IsPrefixText
    <3>2. pc # "find" /\ l = path /\ pc # "open" => Reading
      BY DEF IInv, TypeOK, Reading
    <3>3. Reading => Place \in Nat
      BY ScriptFacts
    <3> QED
      BY <1>1, <1>2, <3>1, <3>2, <3>3, ScriptFacts DEF Mark, Place
  <2>4. ASSUME NEW i \in 1 .. Len(out), NEW l \in 1 .. Len(files'),
               NEW j \in 1 .. Len(Streams'[l]), j > Mark(l)'
        PROVE  out[i][1] < Streams'[l][j][1]
    <3>1. Streams'[l][j][1] \in Nat
      BY <1>1, FineNumbers DEF StreamsOK, InOrder
    <3>2. CASE l <= Len(files) /\ j <= Len(Streams[l]) /\ Streams'[l][j] = Streams[l][j]
      <4>1. l \in 1 .. Len(files)
        BY <1>2, <3>2, ScriptFacts
      <4>2. j \in 1 .. Len(Streams[l]) /\ j > Mark(l)
        <5>1. Len(Streams[l]) \in Nat /\ Len(Streams'[l]) \in Nat
          BY <1>1, <4>1, FineNumbers DEF IInv, StreamsOK, InOrder
        <5> QED
          BY <2>3, <2>4, <3>2, <4>1, <5>1
      <4> QED
        BY <3>2, <4>1, <4>2 DEF IInv, OutBehind
    <3>3. CASE Streams'[l][j][1] > written
      <4>1. out[i][1] \in Nat /\ out[i][1] <= written /\ written \in Nat
        BY <2>1, <2>2, ScriptFacts
      <4> QED
        BY <3>1, <3>3, <4>1
    <3> QED
      BY <1>1, <3>2, <3>3 DEF AddsAbove
  <2>5. ASSUME NEW i \in 1 .. Len(out)
        PROVE  out[i][1] <= written'
    <3>1. out[i][1] \in Nat /\ out[i][1] <= written
      BY <2>1, <2>2
    <3> QED
      BY <1>1, <1>2, <3>1, ScriptFacts
  <2> QED
    BY <1>1, <2>4, <2>5 DEF OutBehind
<1>8. WholeLinesInOrder'
  BY <1>1 DEF IInv, WholeLinesInOrder
<1>9. BridgeOK'
  <2>1. ASSUME Reading, NEW i \in entry + 1 .. offset
        PROVE  File'[i] = File[i]
    BY <1>3, <2>1, ScriptFacts DEF Reading
  <2> QED
    BY <1>1, <2>1 DEF IInv, BridgeOK, Printed, Reading
<1> QED
  BY <1>1, <1>4, <1>5, <1>6, <1>7, <1>8, <1>9 DEF IInv
-------------------------------------------------------------------------------
(* The scripts' own steps. *)

LEMMA FilesStay ==
  ASSUME IInv, UNCHANGED writerVars
  PROVE  /\ WriterTypeOK' /\ StreamsOK' /\ Streams' = Streams /\ files' = files
         /\ written' = written
<1>1. UNCHANGED <<files, open, pending, written>>
  BY DEF writerVars
<1>2. Streams' = Streams
  BY <1>1 DEF Streams
<1> QED
  BY <1>1, <1>2 DEF IInv, TypeOK, WriterTypeOK, StreamsOK

LEMMA BehindStays ==
  ASSUME IInv, UNCHANGED <<writerVars, out>>,
         \A l \in 1 .. Len(files) : /\ Mark(l) \in Nat /\ Mark(l)' \in Nat
                                  /\ Mark(l) <= Mark(l)'
  PROVE  OutBehind'
<1>1. Streams' = Streams /\ files' = files /\ written' = written /\ out' = out
  BY FilesStay
<1>2. ASSUME NEW i \in 1 .. Len(out), NEW l \in 1 .. Len(files),
             NEW j \in 1 .. Len(Streams[l]), j > Mark(l)'
      PROVE  out[i][1] < Streams[l][j][1]
  <2>1. Len(Streams[l]) \in Nat
    BY FineNumbers DEF IInv, StreamsOK, InOrder
  <2>2. j > Mark(l)
    BY <1>2, <2>1
  <2> QED
    BY <2>2 DEF IInv, OutBehind
<1> QED
  BY <1>1, <1>2 DEF IInv, OutBehind

LEMMA FileLengths ==
  ASSUME IInv
  PROVE  /\ \A l \in 1 .. Len(files) : Len(files[l]) \in Nat /\ Mark(l) \in Nat
                                       /\ Mark(l) <= Len(files[l])
<1>1. \A l \in 1 .. Len(files) : Len(files[l]) \in Nat
  BY StreamText DEF IInv
<1>2. pc # "find" /\ pc # "open" => Reading
  BY DEF IInv, TypeOK, Reading
<1>3. Reading => Place \in Nat /\ path \in 1 .. Len(files) /\ Place <= Len(files[path])
  <2>1. ASSUME Reading
        PROVE  Place \in Nat /\ path \in 1 .. Len(files) /\ Place <= Len(files[path])
    <3>1. /\ Place \in 0 .. offset /\ offset \in Nat /\ offset <= Len(File) /\ Len(File) \in Nat
          /\ path \in 1 .. Len(files)
      BY <2>1, ScriptFacts DEF Reading
    <3> QED
      BY <3>1 DEF File
  <2> QED
    BY <2>1
<1> QED
  BY <1>1, <1>2, <1>3, ScriptFacts DEF Mark

LEMMA FindStep ==
  ASSUME IInv, Find
  PROVE  IInv'
<1>1. /\ pc = "find" /\ pc' = "open" /\ path' = Len(files) /\ Len(files) > 0
      /\ UNCHANGED <<script, offset, entry, buf, out, latest, connections, began>>
      /\ UNCHANGED writerVars /\ offset = 0 /\ entry = 0
  <2>1. Len(files) > 0
    BY EmptySeq DEF Find, IInv, TypeOK
  <2> QED
    BY <2>1 DEF Find, Go, IInv, PlaceOK, sessionVars
<1>2. WriterTypeOK' /\ StreamsOK' /\ files' = files
  BY <1>1, FilesStay
<1>3. TypeOK'
  <2>1. entry' <= offset' /\ offset' <= Len(File')
    BY <1>1, <1>2, FileLengths, ScriptFacts DEF File
  <2> QED
    BY <1>1, <1>2, <2>1, ScriptFacts DEF IInv, TypeOK, WriterTypeOK
<1>4. OutBehind'
  <2>1. \A l \in 1 .. Len(files) : Mark(l)' = Len(files[l]) /\ Mark(l) = Len(files[l])
    BY <1>1, <1>2, ScriptFacts DEF Mark
  <2> QED
    BY <1>1, <2>1, FileLengths, BehindStays
<1>5. PlaceOK' /\ JunctionOK' /\ BridgeOK' /\ WholeLinesInOrder'
  BY <1>1, ScriptFacts DEF IInv, PlaceOK, JunctionOK, BridgeOK, WholeLinesInOrder, Reading
<1> QED
  BY <1>2, <1>3, <1>4, <1>5 DEF IInv

LEMMA SeekEndStep ==
  ASSUME IInv, SeekEnd
  PROVE  IInv'
<1>1. /\ pc = "open" /\ pc' = "read" /\ offset' = Len(File) /\ entry' = Len(File)
      /\ buf' = <<>> /\ UNCHANGED <<script, path, out, latest, connections, began>>
      /\ UNCHANGED writerVars
  BY DEF SeekEnd, Go, sessionVars
<1>2. WriterTypeOK' /\ StreamsOK' /\ files' = files /\ File' = File
  BY <1>1, FilesStay DEF File
<1>3. /\ path \in 1 .. Len(files) /\ Len(File) \in Nat /\ Len(buf') = 0 /\ buf' \in Seq(Pieces)
      /\ Place' = Len(File)
  BY <1>1, ScriptFacts, EmptySeq DEF Place
<1>4. TypeOK'
  BY <1>1, <1>2, <1>3, ScriptFacts DEF IInv, TypeOK, WriterTypeOK
<1>5. OutBehind'
  <2>1. \A l \in 1 .. Len(files) : Mark(l)' = Mark(l)
    BY <1>1, <1>2, <1>3, ScriptFacts DEF Mark, File
  <2> QED
    BY <1>1, <2>1, FileLengths, BehindStays
<1>6. PlaceOK' /\ JunctionOK'
  BY <1>1, <1>2, <1>3, ScriptFacts DEF IInv, PlaceOK, JunctionOK, Reading
<1>7. BridgeOK' /\ WholeLinesInOrder'
  BY <1>1, <1>2, <1>3 DEF IInv, BridgeOK, WholeLinesInOrder
<1> QED
  BY <1>2, <1>4, <1>5, <1>6, <1>7 DEF IInv

LEMMA LookStep ==
  ASSUME IInv, Look
  PROVE  IInv'
<1>1. /\ pc = "look" /\ latest' = Len(files)
      /\ pc' = IF Len(files) # path THEN "check" ELSE "read"
      /\ UNCHANGED <<script, path, offset, entry, buf, out, connections, began>>
      /\ UNCHANGED writerVars
  BY DEF Look, Go, sessionVars, readVars
<1>2. WriterTypeOK' /\ StreamsOK' /\ files' = files /\ File' = File /\ Place' = Place
  BY <1>1, FilesStay DEF File, Place
<1>3. Reading /\ Reading' /\ path \in 1 .. Len(files) /\ Len(files) \in Nat
  BY <1>1, ScriptFacts DEF Reading
<1>4. TypeOK'
  BY <1>1, <1>2, <1>3, ScriptFacts DEF IInv, TypeOK, WriterTypeOK
<1>5. OutBehind'
  <2>1. \A l \in 1 .. Len(files) : Mark(l)' = Mark(l)
    BY <1>1, <1>2 DEF Mark
  <2> QED
    BY <1>1, <2>1, FileLengths, BehindStays
<1>6. PlaceOK'
  BY <1>1, <1>2, <1>3 DEF IInv, PlaceOK
<1>7. JunctionOK' /\ BridgeOK' /\ WholeLinesInOrder'
  BY <1>1, <1>2, <1>3 DEF IInv, JunctionOK, BridgeOK, Printed, WholeLinesInOrder
<1> QED
  BY <1>2, <1>4, <1>5, <1>6, <1>7 DEF IInv

LEMMA ReconnectStep ==
  ASSUME IInv, Reconnect
  PROVE  IInv'
<1>1. /\ pc' = "find" /\ path' = 0 /\ offset' = 0 /\ entry' = 0 /\ buf' = <<>> /\ latest' = 0
      /\ connections' = connections + 1 /\ connections < MaxConnections
      /\ began' = began \cup {Len(out)} /\ UNCHANGED <<script, out>> /\ UNCHANGED writerVars
  BY DEF Reconnect, Go
<1>2. WriterTypeOK' /\ StreamsOK' /\ files' = files
  BY <1>1, FilesStay
<1>3. TypeOK'
  <2>1. connections' \in 1 .. MaxConnections
    BY <1>1, StreamAssumption DEF IInv, TypeOK
  <2>2. began' \subseteq 0 .. Len(out)
    <3>1. Len(out) \in 0 .. Len(out)
      BY ScriptFacts
    <3>2. began \subseteq 0 .. Len(out)
      BY DEF IInv, TypeOK
    <3> QED
      BY <1>1, <3>1, <3>2
  <2> QED
    BY <1>1, <1>2, <2>1, <2>2, EmptySeq, ScriptFacts DEF IInv, TypeOK, WriterTypeOK
<1>4. OutBehind'
  <2>1. \A l \in 1 .. Len(files) : Mark(l)' = Len(files[l])
    BY <1>1, <1>2 DEF Mark
  <2> QED
    BY <1>1, <2>1, FileLengths, BehindStays
<1>5. PlaceOK' /\ JunctionOK' /\ BridgeOK'
  BY <1>1 DEF PlaceOK, JunctionOK, BridgeOK, Reading
<1>6. WholeLinesInOrder'
  BY <1>1 DEF IInv, WholeLinesInOrder
<1> QED
  BY <1>2, <1>3, <1>4, <1>5, <1>6 DEF IInv

\* A newer segment is followed from its beginning.
LEMMA SwitchStep ==
  ASSUME IInv, pc = "check", pc' = "read", SwitchTo,
         UNCHANGED <<script, out, latest, connections, began>>, UNCHANGED writerVars
  PROVE  IInv'
<1>1. /\ path' = latest /\ offset' = 0 /\ entry' = 0 /\ buf' = <<>>
      /\ latest \in 1 .. Len(files) /\ path < latest /\ path \in 1 .. Len(files)
  BY ScriptFacts DEF SwitchTo, IInv, TypeOK, PlaceOK
<1>2. WriterTypeOK' /\ StreamsOK' /\ files' = files
  BY FilesStay
<1>3. /\ Len(buf') = 0 /\ buf' \in Seq(Pieces) /\ Place' = 0
      /\ Len(files[latest]) \in Nat /\ File' = files[latest]
  <2>1. Len(buf') = 0 /\ buf' \in Seq(Pieces)
    BY <1>1, EmptySeq
  <2>2. Place' = 0
    <3>1. Place' = offset' - Len(buf') /\ offset' = 0 /\ Len(buf') = 0
      BY <1>1, <2>1 DEF Place
    <3> QED
      BY <3>1
  <2>3. Len(files[latest]) \in Nat
    BY <1>1, FileLengths
  <2> QED
    BY <1>1, <1>2, <2>1, <2>2, <2>3 DEF File
<1>4. TypeOK'
  BY <1>1, <1>2, <1>3, ScriptFacts DEF IInv, TypeOK, WriterTypeOK
<1>5. OutBehind'
  <2>1. ASSUME NEW l \in 1 .. Len(files)
        PROVE  Mark(l)' \in Nat /\ Mark(l) <= Mark(l)'
    <3>1. /\ l < latest => Mark(l)' = Len(files[l])
          /\ l >= latest => Mark(l)' = 0 /\ Mark(l) = 0
      BY <1>1, <1>2, <1>3, ScriptFacts DEF Mark
    <3> QED
      BY <1>1, <3>1, FileLengths
  <2> QED
    BY <2>1, FileLengths, BehindStays
<1>6. PlaceOK' /\ JunctionOK' /\ BridgeOK'
  BY <1>1, <1>3 DEF PlaceOK, JunctionOK, BridgeOK, Reading
<1>7. WholeLinesInOrder'
  BY DEF IInv, WholeLinesInOrder
<1> QED
  BY <1>2, <1>4, <1>5, <1>6, <1>7 DEF IInv

LEMMA CheckBridgeStep ==
  ASSUME IInv, CheckBridge
  PROVE  IInv'
<1>1. /\ pc = "check" /\ pc' = "read" /\ UNCHANGED writerVars
      /\ UNCHANGED <<script, out, latest, connections, began>>
  BY DEF CheckBridge, Go, sessionVars
<1>2. CASE Unread = <<>>
  BY <1>1, <1>2, SwitchStep DEF CheckBridge
<1>3. CASE Unread # <<>>
  <2>1. UNCHANGED <<path, offset, entry, buf>>
    BY <1>3 DEF CheckBridge
  <2>2. WriterTypeOK' /\ StreamsOK' /\ files' = files /\ File' = File /\ Place' = Place
    BY <1>1, <2>1, FilesStay DEF File, Place
  <2>3. Reading /\ Reading'
    BY <1>1 DEF Reading
  <2>4. TypeOK'
    BY <1>1, <2>1, <2>2 DEF IInv, TypeOK, WriterTypeOK
  <2>5. \A l \in 1 .. Len(files) : Mark(l)' = Mark(l)
    BY <1>1, <2>1, <2>2 DEF Mark
  <2>6. OutBehind'
    BY <1>1, <2>5, FileLengths, BehindStays
  <2>7. PlaceOK' /\ JunctionOK' /\ BridgeOK' /\ WholeLinesInOrder'
    BY <1>1, <2>1, <2>2, <2>3
       DEF IInv, PlaceOK, JunctionOK, BridgeOK, Printed, WholeLinesInOrder
  <2> QED
    BY <2>2, <2>4, <2>6, <2>7 DEF IInv
<1> QED
  BY <1>2, <1>3

\* A text from one position on.
LEMMA RestOfText ==
  ASSUME NEW text \in Seq(Pieces), NEW from \in 0 .. Len(text)
  PROVE  LET rest == SubSeq(text, from + 1, Len(text))
         IN /\ rest \in Seq(Pieces) /\ Len(rest) = Len(text) - from
            /\ \A i \in 1 .. Len(text) - from : rest[i] = text[from + i]
<1> DEFINE length == Len(text)
           rest == SubSeq(text, from + 1, length)
<1>1. length \in Nat /\ from \in Nat /\ from <= length
  BY LenProperties
<1>2. \A i \in from + 1 .. length : text[i] \in Pieces
  BY <1>1, ElementOfSeq
<1> HIDE DEF length
<1>3. /\ rest \in Seq(Pieces)
      /\ Len(rest) = IF from + 1 <= length THEN length - (from + 1) + 1 ELSE 0
      /\ \A i \in 1 .. length - (from + 1) + 1 : rest[i] = text[(from + 1) + i - 1]
  BY <1>1, <1>2, SubSeqProperties
<1> HIDE DEF rest
<1>4. length - (from + 1) + 1 = length - from /\ Len(rest) = length - from
  BY <1>1, <1>3
<1>5. ASSUME NEW i \in 1 .. length - from
      PROVE  rest[i] = text[from + i]
  <2>1. rest[i] = text[(from + 1) + i - 1]
    BY <1>3, <1>4
  <2>2. (from + 1) + i - 1 = from + i
    BY <1>1
  <2> QED
    BY <2>1, <2>2
<1> QED
  BY <1>3, <1>4, <1>5 DEF rest, length

LEMMA Joined ==
  ASSUME NEW text \in Seq(Pieces), NEW more \in Seq(Pieces)
  PROVE  /\ text \o more \in Seq(Pieces) /\ Len(text \o more) = Len(text) + Len(more)
         /\ Len(text) \in Nat /\ Len(more) \in Nat
         /\ \A i \in 1 .. Len(text) : (text \o more)[i] = text[i]
         /\ \A i \in 1 .. Len(more) : (text \o more)[Len(text) + i] = more[i]
<1>1. /\ text \o more \in Seq(Pieces) /\ Len(text \o more) = Len(text) + Len(more)
      /\ \A i \in 1 .. Len(text) + Len(more) :
           (text \o more)[i] = IF i <= Len(text) THEN text[i] ELSE more[i - Len(text)]
  BY ConcatProperties
<1>2. Len(text) \in Nat /\ Len(more) \in Nat
  BY LenProperties
<1>3. \A i \in 1 .. Len(text) : i \in 1 .. Len(text) + Len(more) /\ i <= Len(text)
  BY <1>2
<1>4. \A i \in 1 .. Len(more) : /\ Len(text) + i \in 1 .. Len(text) + Len(more)
                                /\ ~(Len(text) + i <= Len(text))
                                /\ (Len(text) + i) - Len(text) = i
  BY <1>2
<1>5. \A i \in 1 .. Len(more) : (text \o more)[Len(text) + i] = more[i]
  <2> SUFFICES ASSUME NEW i \in 1 .. Len(more)
               PROVE  (text \o more)[Len(text) + i] = more[i]
    OBVIOUS
  <2>1. (text \o more)[Len(text) + i] = more[(Len(text) + i) - Len(text)]
    BY <1>1, <1>4
  <2> QED
    BY <1>4, <2>1
<1> QED
  BY <1>1, <1>2, <1>3, <1>5

\* A text that stands in another behind a place.
PartOf(text, of, place) == \A i \in 1 .. Len(text) : text[i] = of[place + i]

\* The buffer holds a part of a text, and the rest is put behind it.
LEMMA JoinedText ==
  ASSUME NEW text \in Seq(Pieces), NEW kept \in Seq(Pieces), NEW rest \in Seq(Pieces),
         NEW place \in Nat, NEW from \in 0 .. Len(text), place + Len(kept) = from,
         PartOf(kept, text, place), Len(rest) = Len(text) - from, PartOf(rest, text, from)
  PROVE  /\ kept \o rest \in Seq(Pieces) /\ Len(kept \o rest) = Len(text) - place
         /\ PartOf(kept \o rest, text, place)
<1> DEFINE joined == kept \o rest
           all == Len(text)
           known == Len(kept)
           more == Len(rest)
           length == Len(joined)
<1>1. /\ joined \in Seq(Pieces) /\ length = known + more
      /\ \A i \in 1 .. known : joined[i] = kept[i]
      /\ \A i \in 1 .. more : joined[known + i] = rest[i]
  BY Joined
<1>2. /\ all \in Nat /\ known \in Nat /\ more \in Nat /\ from \in Nat /\ from <= all
      /\ place + known = from /\ more = all - from
  BY LenProperties
<1>p. /\ \A i \in 1 .. known : kept[i] = text[place + i]
      /\ \A i \in 1 .. more : rest[i] = text[from + i]
  BY DEF PartOf
<1>q. length = known + more
  BY <1>1
<1> HIDE DEF joined, all, known, more, length
<1>3. length = all - place
  BY <1>2, <1>q
<1>4. ASSUME NEW i \in 1 .. length
      PROVE  joined[i] = text[place + i]
  <2>1. \/ i \in 1 .. known
        \/ /\ i - known \in 1 .. more /\ known + (i - known) = i
           /\ from + (i - known) = place + i
    BY <1>2, <1>3
  <2>2. CASE i \in 1 .. known
    BY <1>1, <1>p, <2>2
  <2>3. CASE i - known \in 1 .. more /\ known + (i - known) = i
             /\ from + (i - known) = place + i
    <3>1. joined[known + (i - known)] = rest[i - known]
      BY <1>1, <2>3
    <3>2. rest[i - known] = text[from + (i - known)]
      BY <1>p, <2>3
    <3> QED
      BY <2>3, <3>1, <3>2
  <2> QED
    BY <2>1, <2>2, <2>3
<1>5. PartOf(joined, text, place)
  BY <1>4 DEF PartOf, length
<1> QED
  BY <1>1, <1>3, <1>5 DEF joined, length, all

\* What is unread, and with the buffer in front of it: the file from Place on.
LEMMA UnreadText ==
  ASSUME IInv, Reading
  PROVE  /\ buf \o Unread \in Seq(Pieces) /\ Len(buf \o Unread) = Len(File) - Place
         /\ PartOf(buf \o Unread, File, Place)
         /\ Unread = <<>> => offset = Len(File)
<1>1. /\ File \in Seq(Pieces) /\ Len(File) \in Nat /\ offset \in 0 .. Len(File)
      /\ Place \in Nat /\ buf \in Seq(Pieces) /\ Place + Len(buf) = offset
      /\ PartOf(buf, File, Place)
  BY ScriptFacts DEF IInv, TypeOK, PlaceOK, Place, Reading, PartOf
<1> DEFINE text == File
<1>2. /\ Unread \in Seq(Pieces) /\ Len(Unread) = Len(text) - offset
      /\ PartOf(Unread, text, offset)
  <2> HIDE DEF text
  <2>1. text \in Seq(Pieces) /\ offset \in 0 .. Len(text)
    BY <1>1 DEF text
  <2>2. Unread = SubSeq(text, offset + 1, Len(text))
    BY DEF Unread, text
  <2> QED
    BY <2>1, <2>2, RestOfText DEF PartOf
<1>3. /\ buf \o Unread \in Seq(Pieces) /\ Len(buf \o Unread) = Len(text) - Place
      /\ PartOf(buf \o Unread, text, Place)
  <2> DEFINE place == Place
             rest == Unread
  <2>1. /\ text \in Seq(Pieces) /\ buf \in Seq(Pieces) /\ rest \in Seq(Pieces)
        /\ place \in Nat /\ offset \in 0 .. Len(text) /\ place + Len(buf) = offset
        /\ PartOf(buf, text, place)
        /\ Len(rest) = Len(text) - offset
        /\ PartOf(rest, text, offset)
    BY <1>1, <1>2
  <2> HIDE DEF text, place, rest
  <2>2. /\ buf \o rest \in Seq(Pieces) /\ Len(buf \o rest) = Len(text) - place
        /\ PartOf(buf \o rest, text, place)
    BY <2>1, JoinedText
  <2> QED
    BY <2>2 DEF text, place, rest
<1>4. Unread = <<>> => offset = Len(File)
  <2>1. Unread = <<>> => Len(Unread) = 0
    BY EmptySeq
  <2> QED
    BY <1>1, <1>2, <2>1
<1> QED
  BY <1>3, <1>4

LEMMA CheckRcaStep ==
  ASSUME IInv, CheckRca
  PROVE  IInv'
<1>1. /\ script = "rca" /\ pc = "check" /\ pc' = "read" /\ UNCHANGED writerVars
      /\ UNCHANGED <<script, out, latest, connections, began>>
  BY DEF CheckRca, Go, sessionVars
<1>2. CASE Unread = <<>>
  BY <1>1, <1>2, SwitchStep DEF CheckRca
<1>3. CASE Unread # <<>>
  <2>1. buf' = buf \o Unread /\ offset' = Len(File) /\ UNCHANGED <<path, entry>>
    BY <1>3 DEF CheckRca
  <2>2. WriterTypeOK' /\ StreamsOK' /\ files' = files /\ File' = File
    BY <1>1, <2>1, FilesStay DEF File
  <2>3. Reading /\ Reading'
    BY <1>1 DEF Reading
  <2>4. /\ buf' \in Seq(Pieces) /\ Len(buf') = Len(File) - Place
        /\ \A i \in 1 .. Len(buf') : buf'[i] = File[Place + i]
    BY <2>1, <2>3, UnreadText DEF PartOf
  <2>5. /\ Place \in 0 .. offset /\ offset <= Len(File) /\ Len(File) \in Nat /\ offset \in Nat
        /\ entry <= offset /\ entry \in Nat
    BY <2>3, ScriptFacts DEF Reading
  <2>6. Place' = Place
    BY <2>1, <2>4, <2>5 DEF Place
  <2>7. TypeOK'
    BY <1>1, <2>1, <2>2, <2>4, <2>5 DEF IInv, TypeOK, WriterTypeOK
  <2>8. \A l \in 1 .. Len(files) : Mark(l)' = Mark(l)
    BY <1>1, <2>1, <2>2, <2>6 DEF Mark
  <2>9. OutBehind'
    BY <1>1, <2>8, FileLengths, BehindStays
  <2>10. PlaceOK'
    BY <1>1, <2>1, <2>2, <2>4, <2>5, <2>6 DEF IInv, PlaceOK
  <2>11. JunctionOK' /\ BridgeOK' /\ WholeLinesInOrder'
    BY <1>1, <2>1, <2>2, <2>3, <2>6 DEF IInv, JunctionOK, BridgeOK, WholeLinesInOrder
  <2> QED
    BY <2>2, <2>7, <2>9, <2>10, <2>11 DEF IInv
<1> QED
  BY <1>2, <1>3

\* A beginning of a text.
LEMMA StartOfText ==
  ASSUME NEW text \in Seq(Pieces), NEW cut \in 0 .. Len(text)
  PROVE  LET start == SubSeq(text, 1, cut)
         IN /\ start \in Seq(Pieces) /\ Len(start) = cut
            /\ \A i \in 1 .. cut : start[i] = text[i]
<1> DEFINE start == SubSeq(text, 1, cut)
<1>1. cut \in Nat /\ \A i \in 1 .. cut : text[i] \in Pieces
  BY LenProperties, ElementOfSeq
<1>2. /\ start \in Seq(Pieces) /\ Len(start) = IF 1 <= cut THEN cut - 1 + 1 ELSE 0
      /\ \A i \in 1 .. cut - 1 + 1 : start[i] = text[1 + i - 1]
  BY <1>1, SubSeqProperties
<1> HIDE DEF start
<1>3. Len(start) = cut /\ cut - 1 + 1 = cut /\ \A i \in 1 .. cut : 1 + i - 1 = i
  BY <1>1, <1>2
<1>4. \A i \in 1 .. cut : start[i] = text[i]
  BY <1>2, <1>3
<1> QED
  BY <1>2, <1>3, <1>4 DEF start

\* WholeLinesInOrder of n printed pieces and the places where a connection began.
Ordered(printed, n, starts) ==
  \A i \in 1 .. n :
    LET after == IF i < n THEN printed[i + 1] ELSE <<MaxLines + 1, 1>>
    IN IF IsNewline(printed[i])
       THEN /\ after[1] > printed[i][1]
            /\ i - 1 \in starts \/ (i > 1 /\ printed[i - 1] = <<printed[i][1], 1>>)
       ELSE after = <<printed[i][1], 2>>

\* What is printed and what of a file comes behind it.
Extends(new, old, n) == \A i \in 1 .. n : new[i] = old[i]
Copies(new, n, cut, file, place) == \A m \in 1 .. cut : new[n + m] = file[place + m]
Below(old, n, file, place) ==
  \A i \in 1 .. n, j \in 1 .. Len(file) : j > place => old[i][1] < file[j][1]

LEMMA MoreInOrder ==
  ASSUME NEW old, NEW new, NEW starts, NEW file, NEW n \in Nat, NEW cut \in Nat,
         NEW place \in Nat, Fine(file), place + cut <= Len(file),
         Ordered(old, n, starts), old \in Seq(Pieces), n = Len(old),
         Extends(new, old, n), Copies(new, n, cut, file, place),
         cut > 0 => IsNewline(file[place + cut]),
         place = 0 \/ IsNewline(file[place]) \/ n \in starts,
         Below(old, n, file, place)
  PROVE  Ordered(new, n + cut, starts)
<1>1. /\ Len(file) \in Nat /\ MaxLines \in Nat
  BY FineNumbers, StreamAssumption
<1>n. \A j \in 1 .. Len(file) : file[j][1] \in 1 .. MaxLines
  BY FineNumbers
<1>s. 1 .. MaxLines \subseteq Nat
  BY StreamAssumption
<1>m. \A j \in 1 .. Len(file) : file[j][1] \in Nat
  BY <1>n, <1>s, Zenon
<1> SUFFICES ASSUME NEW i \in 1 .. n + cut
             PROVE  LET after == IF i < n + cut THEN new[i + 1] ELSE <<MaxLines + 1, 1>>
                    IN IF IsNewline(new[i])
                       THEN /\ after[1] > new[i][1]
                            /\ i - 1 \in starts \/ (i > 1 /\ new[i - 1] = <<new[i][1], 1>>)
                       ELSE after = <<new[i][1], 2>>
  BY DEF Ordered
<1> DEFINE after == IF i < n + cut THEN new[i + 1] ELSE <<MaxLines + 1, 1>>
           was == IF i < n THEN old[i + 1] ELSE <<MaxLines + 1, 1>>
<1>2. CASE i \in 1 .. n
  <2>1. new[i] = old[i] /\ (i > 1 => new[i - 1] = old[i - 1])
    <3>1. i > 1 => i - 1 \in 1 .. n
      BY <1>2
    <3> QED
      BY <1>2, <3>1 DEF Extends
  <2>2. IF IsNewline(old[i])
        THEN /\ was[1] > old[i][1]
             /\ i - 1 \in starts \/ (i > 1 /\ old[i - 1] = <<old[i][1], 1>>)
        ELSE was = <<old[i][1], 2>>
    BY <1>2 DEF Ordered
  <2>3. CASE i < n
    <3>1. i + 1 \in 1 .. n /\ i < n + cut
      BY <1>2, <2>3
    <3>2. new[i + 1] = old[i + 1]
      BY <3>1 DEF Extends
    <3>3. after = was
      BY <2>3, <3>1, <3>2
    <3> HIDE DEF after, was
    <3> QED
      BY <2>1, <2>2, <3>3 DEF after
  <2>4. CASE i = n /\ cut = 0
    <3>1. after = was
      BY <1>2, <2>4
    <3> QED
      BY <2>1, <2>2, <3>1
  <2>5. CASE i = n /\ cut > 0
    <3>1. was = <<MaxLines + 1, 1>>
      BY <2>5
    <3>2. IsNewline(old[i])
      BY <2>2, <3>1
    <3>a. 1 \in 1 .. cut /\ i < n + cut /\ i + 1 = n + 1 /\ place + 1 \in 1 .. Len(file)
          /\ place + 1 > place
      BY <1>1, <2>5
    <3>3. after = file[place + 1]
      BY <3>a DEF Copies
    <3>4. old[i][1] < file[place + 1][1]
      BY <1>2, <3>a DEF Below
    <3>5. file[place + 1][1] \in Nat /\ old[i][1] \in Nat
      <4>1. old[i] \in Pieces
        BY <1>2, ElementOfSeq
      <4>2. old[i][1] \in Nat
        BY <4>1, PieceFields
      <4> QED
        BY <1>n, <3>a, <4>2
    <3>6. after[1] > new[i][1]
      BY <2>1, <3>3, <3>4, <3>5
    <3> HIDE DEF after
    <3> QED
      BY <2>1, <2>2, <3>2, <3>6 DEF after
  <2> QED
    BY <1>2, <2>3, <2>4, <2>5
<1>3. CASE i \notin 1 .. n
  <2> DEFINE m == i - n
             p == place + m
  <2>1. /\ m \in 1 .. cut /\ n + m = i /\ p \in 1 .. Len(file) /\ p \in Nat /\ i \in Nat
        /\ p <= place + cut
    BY <1>1, <1>3
  <2>2. new[i] = file[p]
    BY <2>1 DEF Copies
  <2>3. m < cut => /\ i < n + cut /\ new[i + 1] = file[p + 1] /\ p + 1 \in 1 .. Len(file)
                   /\ p < Len(file)
    <3>1. m < cut => m + 1 \in 1 .. cut /\ n + (m + 1) = i + 1 /\ place + (m + 1) = p + 1
                     /\ i < n + cut /\ p + 1 \in 1 .. Len(file) /\ p < Len(file)
      BY <1>1, <2>1
    <3>2. m + 1 \in 1 .. cut => new[n + (m + 1)] = file[place + (m + 1)]
      BY DEF Copies
    <3> QED
      BY <3>1, <3>2
  <2>4. ~(m < cut) => m = cut /\ ~(i < n + cut) /\ p = place + cut /\ cut > 0
    BY <2>1
  <2>5. IF IsNewline(file[p])
        THEN p > 1 /\ file[p - 1] = <<file[p][1], 1>>
        ELSE p < Len(file) => file[p + 1] = <<file[p][1], 2>>
    BY <2>1 DEF Fine, Shaped
  <2>6. CASE ~IsNewline(file[p])
    <3>1. m < cut
      BY <2>4, <2>6
    <3> QED
      BY <2>2, <2>3, <2>5, <2>6, <3>1
  <2>7. CASE IsNewline(file[p])
    <3>1. after[1] > new[i][1]
      <4>1. file[p][1] \in 1 .. MaxLines
        BY <1>n, <2>1
      <4>2. CASE m < cut
        <5>1. file[p][1] < file[p + 1][1] /\ file[p + 1][1] \in Nat
          <6>1. p < p + 1 /\ p + 1 \in 1 .. Len(file) /\ p \in 1 .. Len(file)
            BY <2>1, <2>3, <4>2
          <6> HIDE DEF p
          <6>2. file[p + 1][1] \in Nat
            BY <1>m, <6>1, Zenon
          <6>3. file[p][1] < file[p + 1][1]
            BY <2>7, <6>1 DEF Fine, Rising
          <6> QED
            BY <6>2, <6>3
        <5> QED
          BY <2>2, <2>3, <4>1, <4>2, <5>1
      <4>3. CASE ~(m < cut)
        BY <1>1, <2>2, <2>4, <4>1, <4>3
      <4> QED
        BY <4>2, <4>3
    <3>2. i - 1 \in starts \/ (i > 1 /\ new[i - 1] = <<new[i][1], 1>>)
      <4>1. p > 1 /\ file[p - 1] = <<file[p][1], 1>>
        BY <2>5, <2>7
      <4>2. CASE m = 1
        <5>1. p - 1 = place /\ i - 1 = n /\ place # 0
          BY <2>1, <4>1, <4>2
        <5>2. ~IsNewline(file[place])
          BY <4>1, <5>1 DEF IsNewline
        <5> QED
          BY <5>1, <5>2
      <4>3. CASE m # 1
        <5>1. m - 1 \in 1 .. cut /\ n + (m - 1) = i - 1 /\ place + (m - 1) = p - 1 /\ i > 1
          BY <2>1, <4>3
        <5>2. new[n + (m - 1)] = file[place + (m - 1)]
          BY <5>1 DEF Copies
        <5> QED
          BY <2>2, <4>1, <5>1, <5>2
      <4> QED
        BY <4>2, <4>3
    <3> HIDE DEF after, m, p
    <3> QED
      BY <2>2, <2>7, <3>1, <3>2 DEF after
  <2> QED
    BY <2>6, <2>7
<1> QED
  BY <1>2, <1>3

LEMMA OrderIsOrdered ==
  ASSUME out \in Seq(Pieces)
  PROVE  WholeLinesInOrder <=> Ordered(out, Len(out), began)
<1>1. DOMAIN out = 1 .. Len(out)
  BY LenProperties
<1> QED
  BY <1>1 DEF WholeLinesInOrder, Ordered

\* What a read gives: the whole lines that begin at Place are printed, the
\* rest is kept.
LEMMA ReadText ==
  ASSUME IInv, Reading, NEW cut, cut = WholeLength(buf \o Unread),
         NEW more, more = out \o SubSeq(buf \o Unread, 1, cut),
         NEW kept, kept = SubSeq(buf \o Unread, cut + 1, Len(buf \o Unread))
  PROVE  /\ cut \in Nat /\ Place + cut <= Len(File)
         /\ more \in Seq(Pieces) /\ Len(more) = Len(out) + cut
         /\ Extends(more, out, Len(out)) /\ Copies(more, Len(out), cut, File, Place)
         /\ kept \in Seq(Pieces) /\ Len(kept) = Len(File) - (Place + cut)
         /\ PartOf(kept, File, Place + cut)
         /\ cut > 0 => IsNewline(File[Place + cut])
         /\ \A i \in 1 .. Len(File) : i > Place /\ IsNewline(File[i]) => i <= Place + cut
<1> DEFINE text == buf \o Unread
           place == Place
           all == Len(File)
           length == Len(text)
           printed == Len(out)
           start == SubSeq(text, 1, cut)
<1>1. /\ text \in Seq(Pieces) /\ length = all - place
      /\ \A i \in 1 .. length : text[i] = File[place + i]
      /\ place \in Nat /\ all \in Nat /\ place <= all
      /\ out \in Seq(Pieces) /\ printed \in Nat
  <2>1. text \in Seq(Pieces) /\ length = all - place /\ PartOf(text, File, place)
    BY UnreadText
  <2>2. place \in 0 .. offset /\ offset <= all /\ all \in Nat /\ offset \in Nat /\ printed \in Nat
    BY ScriptFacts DEF Reading
  <2>3. out \in Seq(Pieces)
    BY DEF IInv, TypeOK
  <2> HIDE DEF text
  <2>4. place \in Nat /\ place <= all
    BY <2>2
  <2> QED
    BY <2>1, <2>2, <2>3, <2>4 DEF PartOf
<1> HIDE DEF text
<1>2. /\ cut \in 0 .. length /\ (cut > 0 => IsNewline(text[cut]))
      /\ \A i \in 1 .. length : IsNewline(text[i]) => i <= cut
  BY <1>1, WholeLengthProperties DEF text
<1>3. /\ start \in Seq(Pieces) /\ Len(start) = cut /\ \A i \in 1 .. cut : start[i] = text[i]
  BY <1>1, <1>2, StartOfText
<1>4. /\ kept \in Seq(Pieces) /\ Len(kept) = length - cut
      /\ \A i \in 1 .. length - cut : kept[i] = text[cut + i]
  <2>1. kept = SubSeq(text, cut + 1, Len(text))
    BY DEF text
  <2> QED
    BY <1>1, <1>2, <2>1, RestOfText
<1>5. more = out \o start
  BY DEF text
<1> HIDE DEF start
<1>6. /\ more \in Seq(Pieces) /\ Len(more) = printed + cut
      /\ \A i \in 1 .. printed : more[i] = out[i]
      /\ \A i \in 1 .. cut : more[printed + i] = start[i]
  <2>1. /\ out \o start \in Seq(Pieces) /\ Len(out \o start) = Len(out) + Len(start)
        /\ \A i \in 1 .. Len(out) : (out \o start)[i] = out[i]
        /\ \A i \in 1 .. Len(start) : (out \o start)[Len(out) + i] = start[i]
    BY <1>1, <1>3, Joined
  <2> QED
    BY <1>3, <1>5, <2>1
<1>l. length \in Nat /\ place \in Nat /\ all \in Nat /\ length = all - place /\ cut \in Nat
      /\ cut <= length
  BY <1>1, <1>2
<1> HIDE DEF place, all, length, printed
<1>7. /\ cut \in Nat /\ place + cut <= all /\ length - cut = all - (place + cut)
  BY <1>l
<1>8. Copies(more, printed, cut, File, place)
  <2>1. \A i \in 1 .. cut : i \in 1 .. length
    BY <1>1, <1>2
  <2> QED
    BY <1>1, <1>3, <1>6, <2>1, Zenon DEF Copies
<1>9. PartOf(kept, File, place + cut)
  <2> SUFFICES ASSUME NEW i \in 1 .. length - cut
               PROVE  kept[i] = File[(place + cut) + i]
    BY <1>4 DEF PartOf
  <2>1. cut + i \in 1 .. length /\ place + (cut + i) = (place + cut) + i
    BY <1>l
  <2>2. kept[i] = text[cut + i] /\ text[cut + i] = File[place + (cut + i)]
    BY <1>1, <1>4, <2>1, Zenon
  <2> QED
    BY <2>1, <2>2
<1>10. cut > 0 => IsNewline(File[place + cut])
  <2>1. cut > 0 => cut \in 1 .. length
    BY <1>1, <1>2
  <2> QED
    BY <1>1, <1>2, <2>1, Zenon
<1>11. ASSUME NEW i \in 1 .. all, i > place, IsNewline(File[i])
       PROVE  i <= place + cut
  <2>1. i - place \in 1 .. length /\ place + (i - place) = i
    BY <1>1, <1>11
  <2>2. text[i - place] = File[i]
    BY <1>1, <2>1
  <2>3. i - place <= cut
    BY <1>2, <1>11, <2>1, <2>2
  <2> QED
    BY <1>1, <1>7, <2>1, <2>3
<1> QED
  BY <1>4, <1>6, <1>7, <1>8, <1>9, <1>10, <1>11 DEF Extends, place, all, printed

LEMMA ReadStep ==
  ASSUME IInv, Read
  PROVE  IInv'
<1>1. /\ pc = "read" /\ Reading /\ UNCHANGED writerVars
      /\ UNCHANGED <<script, latest, connections, began>>
  BY DEF Read, Go, sessionVars, Reading
<1>2. CASE Unread = <<>>
  <2>1. pc' = "look" /\ UNCHANGED <<path, offset, entry, buf, out>>
    BY <1>2 DEF Read, Go, readVars
  <2>2. WriterTypeOK' /\ StreamsOK' /\ files' = files /\ File' = File /\ Place' = Place
    BY <1>1, <2>1, FilesStay DEF File, Place
  <2>3. Reading'
    BY <2>1 DEF Reading
  <2>4. TypeOK'
    BY <1>1, <2>1, <2>2 DEF IInv, TypeOK, WriterTypeOK
  <2>5. \A l \in 1 .. Len(files) : Mark(l)' = Mark(l)
    BY <1>1, <2>1, <2>2 DEF Mark
  <2>6. OutBehind'
    BY <1>1, <2>1, <2>5, FileLengths, BehindStays
  <2>7. PlaceOK' /\ JunctionOK' /\ BridgeOK' /\ WholeLinesInOrder'
    BY <1>1, <2>1, <2>2, <2>3
       DEF IInv, PlaceOK, JunctionOK, BridgeOK, Printed, WholeLinesInOrder
  <2> QED
    BY <2>2, <2>4, <2>6, <2>7 DEF IInv
<1>3. CASE Unread # <<>>
  <2> DEFINE cut == WholeLength(buf \o Unread)
             place == Place
             n == Len(out)
  <2>1. /\ out' = out \o SubSeq(buf \o Unread, 1, cut)
        /\ buf' = SubSeq(buf \o Unread, cut + 1, Len(buf \o Unread))
        /\ offset' = Len(File) /\ pc' = "read" /\ UNCHANGED <<path, entry>>
    BY <1>1, <1>3 DEF Read
  <2>2. WriterTypeOK' /\ StreamsOK' /\ files' = files /\ File' = File /\ Streams' = Streams
        /\ written' = written
    BY <1>1, <2>1, FilesStay DEF File
  <2> HIDE DEF cut
  <2>3. /\ cut \in Nat /\ place + cut <= Len(File)
        /\ out' \in Seq(Pieces) /\ Len(out') = n + cut
        /\ Extends(out', out, n) /\ Copies(out', n, cut, File, place)
        /\ buf' \in Seq(Pieces) /\ Len(buf') = Len(File) - (place + cut)
        /\ PartOf(buf', File, place + cut)
        /\ cut > 0 => IsNewline(File[place + cut])
        /\ \A i \in 1 .. Len(File) : i > place /\ IsNewline(File[i]) => i <= place + cut
    BY <1>1, <2>1, ReadText DEF cut
  <2>4. /\ place \in Nat /\ place <= offset /\ offset <= Len(File) /\ Len(File) \in Nat
        /\ offset \in Nat /\ entry <= offset /\ entry \in Nat /\ path \in 1 .. Len(files)
        /\ n \in Nat /\ written \in Nat /\ Len(files) \in Nat
    BY <1>1, ScriptFacts DEF Reading
  <2>5. Place' = place + cut
    <3>1. Place' = offset' - Len(buf')
      BY DEF Place
    <3>2. \A a, c \in Nat : a - (a - c) = c
      OBVIOUS
    <3>3. place + cut \in Nat
      BY <2>3, <2>4
    <3> HIDE DEF place
    <3> QED
      BY <2>1, <2>3, <2>4, <3>1, <3>2, <3>3
  <2>6. TypeOK'
    <3>1. began' \subseteq 0 .. Len(out')
      <4>1. began \subseteq 0 .. n
        BY DEF IInv, TypeOK
      <4>2. \A i \in 0 .. n : i \in 0 .. n + cut
        BY <2>3, <2>4
      <4> QED
        BY <1>1, <2>3, <4>1, <4>2
    <3>2. entry' <= offset' /\ offset' <= Len(File') /\ offset' \in Nat
      BY <2>1, <2>2, <2>4
    <3> QED
      BY <1>1, <2>1, <2>2, <2>3, <3>1, <3>2 DEF IInv, TypeOK, WriterTypeOK
  <2>7. PlaceOK'
    <3>1. Place' >= 0
      BY <2>3, <2>4, <2>5
    <3>2. \A i \in 1 .. Len(buf') : buf'[i] = File'[Place' + i]
      BY <2>2, <2>3, <2>5 DEF PartOf
    <3>3. pc' # "find" /\ pc' # "check" /\ path' > 0
      BY <2>1, <2>4
    <3> QED
      BY <3>1, <3>2, <3>3 DEF PlaceOK
  <2>8. JunctionOK'
    <3>1. Reading'
      BY <2>1 DEF Reading
    <3>2. CASE cut > 0
      BY <2>2, <2>3, <2>5, <3>1, <3>2 DEF JunctionOK
    <3>3. CASE cut = 0
      <4>1. Place' = place /\ Len(out') = n
        BY <2>3, <2>4, <2>5, <3>3
      <4>2. place = 0 \/ IsNewline(File[place]) \/ n \in began
        BY <1>1 DEF IInv, JunctionOK
      <4> QED
        BY <1>1, <2>2, <3>1, <4>1, <4>2 DEF JunctionOK
    <3> QED
      BY <2>3, <3>2, <3>3
  <2>9. \A j \in 1 .. Len(File) : Streams[path][j] = File[j]
    <3>1. IsPrefixText(files[path], Streams[path])
      BY <2>4, StreamText DEF IInv
    <3> QED
      BY <3>1 DEF IsPrefixText, File
  <2>10. Len(Streams[path]) \in Nat /\ Len(File) <= Len(Streams[path])
    <3>1. IsPrefixText(files[path], Streams[path])
      BY <2>4, StreamText DEF IInv
    <3>2. Len(Streams[path]) \in Nat
      BY <2>4, FineNumbers DEF IInv, StreamsOK, InOrder
    <3> QED
      BY <3>1, <3>2 DEF IsPrefixText, File
  <2>11. Below(out, n, File, place)
    <3> SUFFICES ASSUME NEW i \in 1 .. n, NEW j \in 1 .. Len(File), j > place
                 PROVE  out[i][1] < File[j][1]
      BY DEF Below
    <3>1. j \in 1 .. Len(Streams[path])
      BY <2>4, <2>10
    <3>2. Mark(path) = place
      BY <1>1, <2>4 DEF Mark
    <3>3. out[i][1] < Streams[path][j][1]
      BY <2>4, <3>1, <3>2 DEF IInv, OutBehind
    <3> QED
      BY <2>9, <3>3
  <2>12. WholeLinesInOrder'
    <3>1. Ordered(out, n, began) /\ out \in Seq(Pieces)
      BY OrderIsOrdered DEF IInv, TypeOK
    <3>2. Fine(File)
      BY <1>1, ScriptFacts
    <3>3. place = 0 \/ IsNewline(File[place]) \/ n \in began
      BY <1>1 DEF IInv, JunctionOK
    <3>4. Ordered(out', n + cut, began)
      <4> DEFINE more == out'
                 file == File
      <4>1. /\ Extends(more, out, n) /\ Copies(more, n, cut, file, place)
            /\ cut \in Nat /\ place + cut <= Len(file) /\ (cut > 0 => IsNewline(file[place + cut]))
        BY <2>3
      <4>2. /\ Fine(file) /\ Below(out, n, file, place) /\ place \in Nat /\ n \in Nat
            /\ n = Len(out) /\ Ordered(out, n, began) /\ out \in Seq(Pieces)
            /\ place = 0 \/ IsNewline(file[place]) \/ n \in began
        BY <2>4, <2>11, <3>1, <3>2, <3>3
      <4> HIDE DEF more, file, place, n
      <4>3. Ordered(more, n + cut, began)
        BY <4>1, <4>2, MoreInOrder
      <4> QED
        BY <4>3 DEF more
    <3>5. WholeLinesInOrder' <=> Ordered(out', Len(out'), began')
      <4>1. DOMAIN out' = 1 .. Len(out')
        BY <2>3, LenProperties
      <4> QED
        BY <4>1 DEF WholeLinesInOrder, Ordered
    <3> QED
      BY <1>1, <2>3, <3>4, <3>5
  <2>13. BridgeOK'
    <3> SUFFICES ASSUME script = "bridge", NEW i \in entry + 1 .. Len(File), IsNewline(File[i])
                 PROVE  \E j \in DOMAIN out' : out'[j] = File[i]
      BY <1>1, <2>1, <2>2 DEF BridgeOK, Printed
    <3>0. DOMAIN out' = 1 .. n + cut /\ DOMAIN out = 1 .. n
      BY <2>3, LenProperties DEF IInv, TypeOK
    <3>1. CASE i <= offset
      <4>1. i \in entry + 1 .. offset
        BY <2>4, <3>1
      <4>2. PICK j \in 1 .. n : out[j] = File[i]
        BY <1>1, <3>0, <4>1 DEF IInv, BridgeOK, Printed
      <4>3. j \in 1 .. n + cut
        BY <2>3, <2>4
      <4> QED
        BY <2>3, <3>0, <4>2, <4>3 DEF Extends
    <3>2. CASE i > offset
      <4>1. i \in 1 .. Len(File) /\ i > place
        BY <2>4, <3>2
      <4>2. i <= place + cut
        BY <2>3, <4>1
      <4>3. /\ i - place \in 1 .. cut /\ place + (i - place) = i
            /\ n + (i - place) \in 1 .. n + cut
        <5> HIDE DEF place, n
        <5>1. cut \in Nat
          BY <2>3
        <5> QED
          BY <2>4, <4>1, <4>2, <5>1
      <4>4. out'[n + (i - place)] = File[place + (i - place)]
        BY <2>3, <4>3 DEF Copies
      <4> QED
        BY <3>0, <4>3, <4>4
    <3> QED
      BY <2>4, <3>1, <3>2
  <2>14. OutBehind'
    <3>1. \A i \in 1 .. n + cut :
            \/ i \in 1 .. n /\ out'[i] = out[i]
            \/ \E p \in place + 1 .. place + cut :
                 p \in 1 .. Len(File) /\ out'[i] = Streams[path][p]
      <4> SUFFICES ASSUME NEW i \in 1 .. n + cut, i \notin 1 .. n
                   PROVE  \E p \in place + 1 .. place + cut :
                            p \in 1 .. Len(File) /\ out'[i] = Streams[path][p]
        BY <2>3 DEF Extends
      <4>1. /\ i - n \in 1 .. cut /\ n + (i - n) = i
            /\ place + (i - n) \in place + 1 .. place + cut
            /\ place + (i - n) \in 1 .. Len(File)
        <5> HIDE DEF place, n
        <5>1. cut \in Nat /\ place + cut <= Len(File)
          BY <2>3
        <5> QED
          BY <2>4, <5>1
      <4>2. out'[n + (i - n)] = File[place + (i - n)]
        BY <2>3, <4>1 DEF Copies
      <4> QED
        BY <2>9, <4>1, <4>2
    <3>2. ASSUME NEW i \in 1 .. n + cut
          PROVE  out'[i][1] <= written
      <4>1. CASE i \in 1 .. n /\ out'[i] = out[i]
        BY <4>1 DEF IInv, OutBehind
      <4>2. CASE \E p \in place + 1 .. place + cut :
                   p \in 1 .. Len(File) /\ out'[i] = Streams[path][p]
        <5>1. PICK p \in 1 .. Len(File) : out'[i] = Streams[path][p]
          BY <4>2
        <5>2. p \in 1 .. Len(Streams[path])
          BY <2>4, <2>10
        <5> QED
          BY <2>4, <5>1, <5>2 DEF IInv, StreamsOK, InOrder
      <4> QED
        BY <3>1, <4>1, <4>2
    <3>3. ASSUME NEW l \in 1 .. Len(files)
          PROVE  /\ l < path => Mark(l)' = Len(files[l]) /\ Mark(l) = Len(files[l])
                                 /\ Streams[l] = files[l]
                 /\ l = path => Mark(l)' = place + cut /\ Mark(l) = place
                 /\ l > path => Mark(l)' = 0 /\ Mark(l) = 0
      <4>1. l < path => Streams[l] = files[l]
        BY <2>4 DEF Streams
      <4> QED
        BY <1>1, <2>1, <2>2, <2>4, <2>5, <4>1 DEF Mark
    <3>4. ASSUME NEW i \in 1 .. n + cut, NEW l \in 1 .. Len(files),
                 NEW j \in 1 .. Len(Streams[l]), j > Mark(l)'
          PROVE  out'[i][1] < Streams[l][j][1]
      <4>0. Len(files[l]) \in Nat /\ Len(Streams[l]) \in Nat
        BY FineNumbers, FileLengths DEF IInv, StreamsOK, InOrder
      <4>1. ~(l < path)
        BY <3>3, <3>4, <4>0
      <4>2. CASE i \in 1 .. n /\ out'[i] = out[i]
        <5>1. j > Mark(l)
          <6>1. CASE l = path
            <7>1. j > place + cut /\ Mark(l) = place
              BY <3>3, <3>4, <6>1
            <7>2. place \in Nat /\ cut \in Nat /\ j \in Nat
              BY <2>3, <2>4, <4>0
            <7> HIDE DEF place
            <7>3. j > place
              BY <7>1, <7>2
            <7> QED
              BY <7>1, <7>3
          <6>2. CASE l > path
            BY <3>3, <3>4, <6>2
          <6> QED
            BY <2>4, <4>1, <6>1, <6>2
        <5> QED
          BY <4>2, <5>1 DEF IInv, OutBehind
      <4>3. CASE \E p \in place + 1 .. place + cut :
                   p \in 1 .. Len(File) /\ out'[i] = Streams[path][p]
        <5>1. PICK p \in place + 1 .. place + cut :
                p \in 1 .. Len(File) /\ out'[i] = Streams[path][p]
          BY <4>3
        <5>2. p \in 1 .. Len(Streams[path])
          BY <2>4, <2>10, <5>1
        <5>3. CASE l > path
          BY <2>4, <5>1, <5>2, <5>3 DEF IInv, StreamsOK, InOrder
        <5>4. CASE l = path
          <6> DEFINE end == place + cut
                     stream == Streams[path]
          <6>1. /\ end \in 1 .. Len(stream) /\ p <= end /\ end < j /\ j \in 1 .. Len(stream)
                /\ p \in 1 .. Len(stream) /\ IsNewline(stream[end])
            <7>1. p <= end /\ cut > 0 /\ end \in 1 .. Len(File) /\ end \in 1 .. Len(stream)
              <8> HIDE DEF place, n, stream
              <8>1. cut \in Nat /\ place + cut <= Len(File)
                BY <2>3
              <8>2. Len(stream) \in Nat /\ Len(File) <= Len(stream)
                BY <2>10 DEF stream
              <8> QED
                BY <2>4, <8>1, <8>2
            <7>2. end < j
              BY <3>3, <3>4, <5>4
            <7>3. IsNewline(stream[end])
              BY <2>3, <2>9, <7>1
            <7> QED
              BY <5>2, <5>4, <7>1, <7>2, <7>3
          <6>2. Fine(stream)
            BY <2>4 DEF IInv, StreamsOK, InOrder
          <6>n. \A k \in 1 .. Len(stream) : stream[k][1] \in Nat
            BY <6>2, FineNumbers
          <6> HIDE DEF end, stream
          <6>3. stream[end][1] < stream[j][1]
            BY <6>1, <6>2 DEF Fine, Rising
          <6>4. stream[p][1] <= stream[end][1]
            <7>1. CASE p = end
              BY <6>1, <6>n, <7>1
            <7>2. CASE p < end
              BY <6>1, <6>2, <7>2 DEF Fine, Rising
            <7> QED
              BY <6>1, <7>1, <7>2
          <6>5. stream[p][1] \in Nat /\ stream[end][1] \in Nat /\ stream[j][1] \in Nat
            BY <6>1, <6>n
          <6>6. stream[p][1] < stream[j][1]
            BY <6>3, <6>4, <6>5
          <6> QED
            BY <5>1, <5>4, <6>6 DEF stream
        <5> QED
          BY <2>4, <4>1, <5>3, <5>4
      <4> QED
        BY <3>1, <4>2, <4>3
    <3> QED
      BY <2>2, <2>3, <3>2, <3>4 DEF OutBehind
  <2> QED
    BY <2>2, <2>6, <2>7, <2>8, <2>12, <2>13, <2>14 DEF IInv
<1> QED
  BY <1>2, <1>3
-------------------------------------------------------------------------------
LEMMA InitIsOK ==
  ASSUME Init
  PROVE  IInv
<1>1. /\ <<>> \in Seq(Pieces) /\ <<>> \in Seq(Seq(Pieces)) /\ Len(<<>>) = 0
  BY EmptySeq
<1>2. TypeOK
  <2>1. /\ files = <<>> /\ Len(files) = 0 /\ out = <<>> /\ Len(out) = 0 /\ buf = <<>>
        /\ pending = <<>>
    BY <1>1 DEF Init
  <2>2. files \in Seq(Seq(Pieces)) /\ pending \in Seq(Pieces) /\ out \in Seq(Pieces)
        /\ buf \in Seq(Pieces)
    BY <1>1, <2>1
  <2>3. /\ open \in BOOLEAN /\ script \in Scripts
        /\ pc \in {"find", "open", "read", "look", "check"}
        /\ path = 0 /\ latest = 0 /\ entry = 0 /\ offset = 0 /\ written = 0
        /\ connections = 1 /\ began = {0}
    BY DEF Init
  <2>4. Len(files) <= MaxSegments /\ written \in 0 .. MaxLines
        /\ connections \in 1 .. MaxConnections
    BY <2>1, <2>3, StreamAssumption
  <2>5. path \in 0 .. Len(files) /\ latest \in 0 .. Len(files) /\ began \subseteq 0 .. Len(out)
    BY <2>1, <2>3
  <2> QED
    BY <2>2, <2>3, <2>4, <2>5 DEF TypeOK
<1>3. StreamsOK
  BY <1>1, StreamAssumption DEF Init, StreamsOK, InOrder
<1>4. PlaceOK /\ JunctionOK /\ OutBehind /\ BridgeOK /\ WholeLinesInOrder
  <2>1. DOMAIN out = {}
    BY DEF Init
  <2> QED
    BY <1>1, <2>1
       DEF Init, PlaceOK, JunctionOK, OutBehind, BridgeOK, WholeLinesInOrder, Reading
<1> QED
  BY <1>2, <1>3, <1>4 DEF IInv

LEMMA NextIsOK ==
  ASSUME IInv, [Next]_vars
  PROVE  IInv'
<1>1. TypeOK /\ StreamsOK
  BY DEF IInv
<1>2. CASE Worker
  BY <1>1, <1>2, OpenStep, WriteStep, SpillStep, CloseStep, KilledStep, WriterKeeps DEF Worker
<1>3. CASE Follower
  BY <1>3, FindStep, SeekEndStep, ReadStep, LookStep, CheckBridgeStep, CheckRcaStep DEF Follower
<1>4. CASE Reconnect
  BY <1>4, ReconnectStep
<1>5. CASE UNCHANGED vars
  <2>1. UNCHANGED <<script, pc, path, offset, entry, buf, out, latest, connections, began>>
    BY <1>5 DEF vars, readVars, sessionVars
  <2>2. UNCHANGED writerVars
    BY <1>5 DEF vars
  <2>3. WriterTypeOK' /\ StreamsOK' /\ files' = files /\ File' = File /\ Place' = Place
    BY <2>1, <2>2, FilesStay DEF File, Place
  <2>4. TypeOK'
    BY <2>1, <2>3 DEF IInv, TypeOK, WriterTypeOK
  <2>5. \A l \in 1 .. Len(files) : Mark(l)' = Mark(l)
    BY <2>1, <2>3 DEF Mark
  <2>6. OutBehind'
    BY <2>1, <2>2, <2>5, FileLengths, BehindStays
  <2>7. PlaceOK' /\ JunctionOK' /\ BridgeOK' /\ WholeLinesInOrder'
    BY <2>1, <2>3
       DEF IInv, PlaceOK, JunctionOK, BridgeOK, Printed, WholeLinesInOrder, Reading
  <2> QED
    BY <2>3, <2>4, <2>6, <2>7 DEF IInv
<1> QED
  BY <1>2, <1>3, <1>4, <1>5 DEF Next

\* The inductive invariant holds in every state of the stream and its reader.
THEOREM Invariance == Spec => []IInv
<1>1. Init => IInv
  BY InitIsOK
<1>2. IInv /\ [Next]_vars => IInv'
  BY NextIsOK
<1> QED
  BY <1>1, <1>2, PTL DEF Spec

\* Segments, offsets, buffers and printed lines keep their types, and a script
\* never reads behind the end of the file it holds.
THEOREM TypeCorrect == Spec => []TypeOK
<1>1. IInv => TypeOK
  BY DEF IInv
<1> QED
  BY Invariance, <1>1, PTL

\* Whatever the worker's buffer, a kill, a rotation or a lost connection does,
\* a script prints whole lines in the order they were written and each at most
\* once; only the first line of a connection may lack its beginning.
THEOREM LinesInOrder == Spec => []WholeLinesInOrder
<1>1. IInv => WholeLinesInOrder
  BY DEF IInv
<1> QED
  BY Invariance, <1>1, PTL

\* The alert bridge's script leaves a segment for a newer one only when every
\* whole line behind its starting place was printed.
THEOREM BridgeLeavesDrained == Spec => BridgeDrains
<1>1. ASSUME IInv, [Next]_vars, script = "bridge", path # 0, path' \notin {0, path},
             NEW i \in entry + 1 .. Len(File), IsNewline(File[i])
      PROVE  Printed(File[i])
  <2>1. pc # "find"
    BY <1>1 DEF IInv, PlaceOK
  <2>2. CheckBridge /\ Unread = <<>>
    <3>1. ~(UNCHANGED path)
      BY <1>1
    <3>2. ~Worker /\ path' # 0
      BY <1>1 DEF Worker, OpenSegment, WriteLine, Spill, CloseSegment, Killed, followerVars,
                  readVars
    <3>3. ~Reconnect /\ ~UNCHANGED vars
      BY <1>1 DEF Reconnect, vars, readVars
    <3>4. ~Find /\ ~SeekEnd /\ ~Read /\ ~Look /\ ~CheckRca
      BY <1>1, <2>1 DEF Find, SeekEnd, Read, Look, CheckRca, readVars
    <3> QED
      BY <1>1, <3>1, <3>2, <3>3, <3>4 DEF Next, Follower, CheckBridge
  <2>3. Reading
    BY <2>2 DEF CheckBridge, Reading
  <2>4. offset = Len(File)
    BY <1>1, <2>2, <2>3, UnreadText
  <2> QED
    BY <1>1, <2>3, <2>4 DEF IInv, BridgeOK
<1>2. IInv /\ [Next]_vars => (script = "bridge" => Drains)
  BY <1>1 DEF Drains
<1>3. IInv /\ [Next]_vars => [script = "bridge" => Drains]_vars
  BY <1>2
<1> QED
  BY Invariance, <1>3, PTL DEF Spec, BridgeDrains
===============================================================================
