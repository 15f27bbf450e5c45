---------------------------- MODULE AsyncSinkProofs ----------------------------
(***************************************************************************)
(* The sink for every capacity, batch size and number of lines: TypeOK,    *)
(* NoHole and SealedHoldsEveryLine are invariants, and every step is a     *)
(* step of SegmentLog or a stutter.  The inductive invariant follows the   *)
(* lines through the pipe: what the handle has, followed by the batch and  *)
(* the queue, is what was accepted, with STOP behind it while it travels.  *)
(***************************************************************************)
EXTENDS AsyncSink, SequenceTheorems, TLAPS

Item == Lines \cup {STOP}

Wrote == file \o buffered
InFlight == batch \o queue
StopTravels == loop = "joining" /\ ~stopping
Sent == IF StopTravels THEN Append(accepted, STOP) ELSE accepted

\* Nothing between the scoring loop and the handle is lost or reordered.
Flow == ~error => Wrote \o InFlight = Sent

\* Where the two actors can be, relative to each other.
Stages ==
  /\ error => ~Alive
  /\ loop \in {"sealing", "syncing", "raised", "closed"} => ~Alive
  /\ loop \in {"putting", "waiting"} => ~closed /\ Len(accepted) < MaxWrites
  /\ writer \notin {"collect", "write"} => batch = <<>>
  /\ writer = "write" => batch \in Seq(Lines)
  /\ ~Alive /\ ~error => stopping
  /\ stopping => /\ queue = <<>>
                 /\ writer \in {"write", "flush", "drop", "exited"}
                 /\ loop \in {"joining", "sealing", "syncing", "raised", "closed"}

\* What close has done to the handle.
Handle ==
  /\ loop = "syncing" => buffered = <<>> /\ ~closed
  /\ closed => /\ loop \in {"sealing", "raised", "closed"}
               /\ buffered = <<>>
               /\ durable = Len(file)
  /\ loop = "closed" => closed /\ ~error

IInv == TypeOK /\ Flow /\ NoHole /\ Stages /\ Handle
-------------------------------------------------------------------------------
(* Sequences: what the steps of the pipe do to a concatenation. *)

LEMMA Regroup ==
  ASSUME NEW S, NEW a \in Seq(S), NEW b \in Seq(S), NEW c \in Seq(S),
         NEW ab, ab = a \o b, NEW bc, bc = b \o c
  PROVE  ab \o c = a \o bc
<1>1. (a \o b) \o c = a \o (b \o c)
  BY ConcatAssociative
<1> QED
  BY <1>1

GrowsBehind(a, b, q, x) ==
  a \o (b \o Append(q, x)) = Append(a \o (b \o q), x)

LEMMA AppendBehind ==
  ASSUME NEW S, NEW a \in Seq(S), NEW b \in Seq(S), NEW q \in Seq(S), NEW x \in S
  PROVE  GrowsBehind(a, b, q, x)
<1>1. Append(q, x) = q \o <<x>> /\ <<x>> \in Seq(S)
  BY AppendIsConcat
<1>2. b \o q \in Seq(S) /\ a \o (b \o q) \in Seq(S)
  BY ConcatProperties
<1>3. b \o (q \o <<x>>) = (b \o q) \o <<x>>
  BY <1>1, ConcatAssociative
<1>4. ASSUME NEW bq \in Seq(S)
      PROVE  a \o (bq \o <<x>>) = (a \o bq) \o <<x>>
  BY <1>1, ConcatAssociative
<1>5. a \o ((b \o q) \o <<x>>) = (a \o (b \o q)) \o <<x>>
  BY <1>2, <1>4
<1> QED
  BY <1>1, <1>2, <1>3, <1>5, AppendIsConcat DEF GrowsBehind

LEMMA AppendBack ==
  ASSUME NEW S, NEW w \in Seq(S), NEW a \in Seq(S), NEW x \in S,
         NEW b, b = Append(a, x)
  PROVE  w \o b = Append(w \o a, x)
<1>1. b = a \o <<x>> /\ <<x>> \in Seq(S)
  BY AppendIsConcat
<1>2. w \o (a \o <<x>>) = (w \o a) \o <<x>>
  BY <1>1, ConcatAssociative
<1>3. w \o a \in Seq(S)
  BY ConcatProperties
<1> QED
  BY <1>1, <1>2, <1>3, AppendIsConcat

LEMMA HeadMoves ==
  ASSUME NEW S, NEW b \in Seq(S), NEW q \in Seq(S), q # <<>>
  PROVE  Append(b, Head(q)) \o Tail(q) = b \o q
<1>1. Head(q) \in S /\ Tail(q) \in Seq(S)
  BY HeadTailProperties
<1>2. q = <<Head(q)>> \o Tail(q)
  BY SubSeqFull, SubSeqRecursiveFirst, TailIsSubSeq, LenProperties, EmptySeq
<1>3. Append(b, Head(q)) = b \o <<Head(q)>> /\ <<Head(q)>> \in Seq(S)
  BY <1>1, AppendIsConcat
<1> QED
  BY <1>1, <1>2, <1>3, ConcatAssociative

LEMMA SplitParts ==
  ASSUME NEW S, NEW f \in Seq(S), NEW b \in Seq(S), NEW n \in 0 .. Len(b)
  PROVE  /\ SubSeq(b, 1, n) \in Seq(S)
         /\ SubSeq(b, n + 1, Len(b)) \in Seq(S)
         /\ f \o SubSeq(b, 1, n) \in Seq(S)
<1>1. SubSeq(b, 1, n) \in Seq(S) /\ SubSeq(b, n + 1, Len(b)) \in Seq(S)
  BY SubSeqProperties, LenProperties, ElementOfSeq
<1> QED
  BY <1>1, ConcatProperties

\* The two parts of b, put behind f one after the other.
Split(f, b, n) == (f \o SubSeq(b, 1, n)) \o SubSeq(b, n + 1, Len(b))

LEMMA SplitJoins ==
  ASSUME NEW S, NEW f \in Seq(S), NEW b \in Seq(S), NEW n \in 0 .. Len(b)
  PROVE  Split(f, b, n) = f \o b
<1>1. PICK p \in Seq(S) : p = SubSeq(b, 1, n)
  BY SplitParts
<1>2. PICK r \in Seq(S) : r = SubSeq(b, n + 1, Len(b))
  BY SplitParts
<1>3. 1 \in 1 .. Len(b) + 1 /\ n \in 1 - 1 .. Len(b) /\ Len(b) \in n .. Len(b)
  BY LenProperties
<1>4. p \o r = SubSeq(b, 1, Len(b))
  BY <1>1, <1>2, <1>3, ConcatAdjacentSubSeq
<1>5. SubSeq(b, 1, Len(b)) = b
  BY SubSeqFull
<1>6. b = p \o r
  BY <1>4, <1>5
<1>7. (f \o p) \o r = f \o b
  BY ONLY f \in Seq(S), p \in Seq(S), r \in Seq(S), <1>6, Regroup
<1> QED
  BY <1>1, <1>2, <1>7 DEF Split

LEMMA PrefixOfConcat ==
  ASSUME NEW S, NEW s \in Seq(S), NEW t \in Seq(S)
  PROVE  IsPrefix(s, s \o t)
<1>1. Len(s \o t) = Len(s) + Len(t) /\ Len(t) \in Nat /\ Len(s) \in Nat
  BY ConcatProperties, LenProperties
<1>2. SubSeq(s, 1, Len(s)) = s
  BY SubSeqFull
<1>3. SubSeq(s \o t, 1, Len(s)) = s
  BY ConcatProperties, SubSeqProperties, SMT
<1> QED
  BY <1>1, <1>2, <1>3 DEF IsPrefix

\* A sequence of accepted lines followed by at most STOP: an element that is
\* not the last one is a line.
LEMMA OnlyLastIsStop ==
  ASSUME NEW a \in Seq(Item), NEW b \in Seq(Item), NEW q \in Seq(Item),
         NEW acc \in Seq(Lines), NEW w, w = a \o (b \o q),
         w \in {acc, Append(acc, STOP)}
  PROVE  /\ \A i \in 1 .. Len(b) : b[i] = STOP => i = Len(b) /\ q = <<>>
         /\ \A i \in 1 .. Len(b) : b[i] = STOP => w = Append(acc, STOP)
<1>1. /\ b \o q \in Seq(Item)
      /\ Len(b \o q) = Len(b) + Len(q)
      /\ w \in Seq(Item)
      /\ Len(w) = Len(a) + (Len(b) + Len(q))
  BY ConcatProperties
<1>2. Len(a) \in Nat /\ Len(b) \in Nat /\ Len(q) \in Nat /\ Len(acc) \in Nat
  BY LenProperties
<1>3. ASSUME NEW i \in 1 .. Len(b)
      PROVE  w[Len(a) + i] = b[i]
  <2>1. (b \o q)[i] = b[i]
    BY <1>2, ConcatProperties
  <2>2. Len(a) + i \in 1 .. Len(a) + Len(b \o q)
    BY <1>1, <1>2
  <2>3. w[Len(a) + i] = (b \o q)[Len(a) + i - Len(a)]
    BY <1>1, <1>2, <2>2, ConcatProperties
  <2> QED
    BY <1>2, <2>1, <2>3
<1>4. ASSUME NEW j \in 1 .. Len(acc)
      PROVE  acc[j] # STOP
  <2>1. acc[j] \in Lines
    BY ElementOfSeq
  <2> QED
    BY <2>1, SinkAssumption DEF Lines
<1>5. /\ Len(Append(acc, STOP)) = Len(acc) + 1
      /\ \A j \in 1 .. Len(acc) : Append(acc, STOP)[j] = acc[j]
  BY AppendProperties, SeqMonotonic DEF Item
<1>6. ASSUME NEW i \in 1 .. Len(b), b[i] = STOP
      PROVE  w = Append(acc, STOP) /\ Len(a) + i = Len(acc) + 1
  <2>1. Len(a) + i \in 1 .. Len(w)
    BY <1>1, <1>2
  <2>2. w[Len(a) + i] = STOP
    BY <1>3, <1>6
  <2>3. w # acc
    BY <1>4, <2>1, <2>2
  <2>4. w = Append(acc, STOP)
    BY <2>3
  <2>5. Len(w) = Len(acc) + 1
    BY <1>5, <2>4
  <2>6. Len(a) + i \notin 1 .. Len(acc)
    BY <1>4, <1>5, <2>2, <2>4
  <2>7. Len(a) + i = Len(acc) + 1
    BY <1>2, <2>1, <2>5, <2>6
  <2> QED
    BY <2>4, <2>7
<1>7. ASSUME NEW i \in 1 .. Len(b), b[i] = STOP
      PROVE  i = Len(b) /\ q = <<>>
  <2>1. Len(a) + (Len(b) + Len(q)) = Len(acc) + 1
    BY <1>1, <1>5, <1>6, <1>7
  <2>2. i = Len(b) /\ Len(q) = 0
    BY <1>2, <1>6, <1>7, <2>1
  <2> QED
    BY <2>2, EmptySeq
<1> QED
  BY <1>6, <1>7
-------------------------------------------------------------------------------
(* The state's sequences, and one Spill. *)

LEMMA StateSequences ==
  ASSUME TypeOK
  PROVE  /\ queue \in Seq(Item) /\ batch \in Seq(Item)
         /\ accepted \in Seq(Lines) /\ file \in Seq(Lines) /\ buffered \in Seq(Lines)
         /\ file \in Seq(Item) /\ buffered \in Seq(Item) /\ accepted \in Seq(Item)
         /\ Wrote \in Seq(Lines) /\ Wrote \in Seq(Item)
         /\ InFlight \in Seq(Item)
<1>1. Lines \subseteq Item
  BY DEF Item
<1>2. /\ queue \in Seq(Item) /\ batch \in Seq(Item)
      /\ accepted \in Seq(Lines) /\ file \in Seq(Lines) /\ buffered \in Seq(Lines)
  BY DEF TypeOK, Item
<1>3. file \in Seq(Item) /\ buffered \in Seq(Item) /\ accepted \in Seq(Item)
  BY <1>1, <1>2, SeqMonotonic
<1>4. Wrote \in Seq(Lines) /\ InFlight \in Seq(Item)
  BY <1>2, ConcatProperties DEF Wrote, InFlight
<1>5. Wrote \in Seq(Item)
  BY <1>1, <1>4, SeqMonotonic
<1> QED
  BY <1>2, <1>3, <1>4, <1>5

LEMMA SpillKeeps ==
  ASSUME file \in Seq(Lines), NEW buf \in Seq(Lines), NEW n \in 0 .. Len(buf),
         Spill(n, buf)
  PROVE  /\ file' \in Seq(Lines) /\ buffered' \in Seq(Lines)
         /\ Wrote' = file \o buf
         /\ IsPrefix(file, file') /\ Len(file) <= Len(file')
         /\ n = Len(buf) => buffered' = <<>>
<1>1. file' = file \o SubSeq(buf, 1, n) /\ buffered' = SubSeq(buf, n + 1, Len(buf))
  BY DEF Spill
<1>2. /\ SubSeq(buf, 1, n) \in Seq(Lines)
      /\ file' \in Seq(Lines) /\ buffered' \in Seq(Lines)
      /\ Wrote' = file \o buf
  <2>1. /\ SubSeq(buf, 1, n) \in Seq(Lines)
        /\ SubSeq(buf, n + 1, Len(buf)) \in Seq(Lines)
        /\ file \o SubSeq(buf, 1, n) \in Seq(Lines)
    BY SplitParts
  <2>2. Split(file, buf, n) = file \o buf
    BY SplitJoins
  <2>3. file' \o buffered' = file \o buf
    BY <1>1, <2>2 DEF Split
  <2> QED
    BY <1>1, <2>1, <2>3 DEF Wrote
<1>3. PICK p \in Seq(Lines) : file' = file \o p
  BY <1>1, <1>2
<1>4. IsPrefix(file, file')
  BY <1>3, PrefixOfConcat
<1>5. Len(file) <= Len(file')
  BY <1>3, ConcatProperties, LenProperties
<1>6. n = Len(buf) => buffered' = <<>>
  BY <1>1, SubSeqEmpty, LenProperties
<1> QED
  BY <1>2, <1>4, <1>5, <1>6

LEMMA PrefixPointwise ==
  ASSUME NEW S, NEW s \in Seq(S), NEW t \in Seq(S)
  PROVE  IsPrefix(s, t) <=>
           Len(s) <= Len(t) /\ \A i \in 1 .. Len(s) : s[i] = t[i]
<1>1. SubSeq(s, 1, Len(s)) = s
  BY SubSeqFull
<1>2. ASSUME Len(s) <= Len(t)
      PROVE  /\ SubSeq(t, 1, Len(s)) \in Seq(S)
             /\ Len(SubSeq(t, 1, Len(s))) = Len(s)
             /\ \A i \in 1 .. Len(s) : SubSeq(t, 1, Len(s))[i] = t[i]
  <2>1. \A i \in 1 .. Len(s) : t[i] \in S
    BY <1>2, ElementOfSeq, LenProperties
  <2> QED
    BY <2>1, LenProperties, SubSeqProperties
<1>3. ASSUME IsPrefix(s, t)
      PROVE  Len(s) <= Len(t) /\ \A i \in 1 .. Len(s) : s[i] = t[i]
  BY <1>1, <1>2, <1>3 DEF IsPrefix
<1>4. ASSUME Len(s) <= Len(t), \A i \in 1 .. Len(s) : s[i] = t[i]
      PROVE  IsPrefix(s, t)
  <2>1. SubSeq(t, 1, Len(s)) = s
    BY <1>2, <1>4, SeqEqual
  <2> QED
    BY <1>1, <1>4, <2>1 DEF IsPrefix
<1> QED
  BY <1>3, <1>4

LEMMA StopIsNoLine ==
  ASSUME NEW s \in Seq(Lines), NEW acc \in Seq(Lines),
         IsPrefix(s, Append(acc, STOP))
  PROVE  IsPrefix(s, acc)
<1>1. s \in Seq(Item) /\ acc \in Seq(Item) /\ STOP \in Item
  BY SeqMonotonic DEF Item
<1>2. /\ Append(acc, STOP) \in Seq(Item)
      /\ Len(Append(acc, STOP)) = Len(acc) + 1
      /\ \A i \in 1 .. Len(acc) : Append(acc, STOP)[i] = acc[i]
      /\ Append(acc, STOP)[Len(acc) + 1] = STOP
  BY <1>1, AppendProperties
<1>3. /\ Len(s) <= Len(acc) + 1
      /\ \A i \in 1 .. Len(s) : s[i] = Append(acc, STOP)[i]
  BY <1>1, <1>2, PrefixPointwise
<1>4. Len(s) \in Nat /\ Len(acc) \in Nat
  BY LenProperties
<1>5. \A i \in 1 .. Len(s) : s[i] # STOP
  BY SinkAssumption, ElementOfSeq DEF Lines
<1>6. Len(s) # Len(acc) + 1
  BY <1>2, <1>3, <1>4, <1>5
<1>7. Len(s) <= Len(acc) /\ \A i \in 1 .. Len(s) : s[i] = acc[i]
  BY <1>2, <1>3, <1>4, <1>6
<1> QED
  BY <1>7, PrefixPointwise

LEMMA AddedIsPrefix ==
  ASSUME NEW S, NEW f \in Seq(S), NEW p \in Seq(S), NEW r \in Seq(S)
  PROVE  IsPrefix(f \o p, f \o (p \o r))
<1>1. (f \o p) \o r = f \o (p \o r)
  BY ConcatAssociative
<1>2. f \o p \in Seq(S)
  BY ConcatProperties
<1>3. IsPrefix(f \o p, (f \o p) \o r)
  BY <1>2, PrefixOfConcat
<1> QED
  BY <1>1, <1>3

LEMMA PartIsPrefix ==
  ASSUME NEW S, NEW f \in Seq(S), NEW b \in Seq(S),
         NEW p \in Seq(S), NEW r \in Seq(S), NEW q \in Seq(S)
  PROVE  IsPrefix(f \o (b \o p), (f \o b) \o ((p \o r) \o q))
<1>1. (p \o r) \o q = p \o (r \o q)
  BY ConcatAssociative
<1>2. (f \o b) \o p = f \o (b \o p)
  BY ConcatAssociative
<1>3. f \o b \in Seq(S) /\ r \o q \in Seq(S)
  BY ConcatProperties
<1>4. IsPrefix((f \o b) \o p, (f \o b) \o (p \o (r \o q)))
  BY <1>3, AddedIsPrefix
<1> QED
  BY <1>1, <1>2, <1>4

\* What is in the handle is a prefix of the lines as long as nothing failed,
\* also after a part of the batch was added to it.
LEMMA PrefixWhileWriting ==
  ASSUME TypeOK, Flow, ~error, batch \in Seq(Lines), NEW k \in 0 .. Len(batch)
  PROVE  IsPrefix(file \o (buffered \o SubSeq(batch, 1, k)), accepted)
<1> DEFINE p == SubSeq(batch, 1, k)
           r == SubSeq(batch, k + 1, Len(batch))
<1>1. /\ p \in Seq(Lines) /\ r \in Seq(Lines)
      /\ p \o r = batch
  <2>1. p \in Seq(Lines) /\ r \in Seq(Lines)
    BY SplitParts, EmptySeq
  <2>2. /\ 1 \in 1 .. Len(batch) + 1 /\ k \in 1 - 1 .. Len(batch)
        /\ Len(batch) \in k .. Len(batch)
    BY LenProperties
  <2>3. p \o r = SubSeq(batch, 1, Len(batch))
    BY <2>2, ConcatAdjacentSubSeq
  <2> QED
    BY <2>1, <2>3, SubSeqFull
<1> HIDE DEF p, r
<1>2. /\ p \in Seq(Item) /\ r \in Seq(Item) /\ queue \in Seq(Item)
      /\ file \in Seq(Item) /\ buffered \in Seq(Item)
      /\ file \in Seq(Lines) /\ buffered \in Seq(Lines) /\ accepted \in Seq(Lines)
  BY <1>1, StateSequences, SeqMonotonic DEF Item
<1>3. IsPrefix(file \o (buffered \o p), Sent)
  <2>1. IsPrefix(file \o (buffered \o p), (file \o buffered) \o ((p \o r) \o queue))
    BY <1>2, PartIsPrefix
  <2>2. (file \o buffered) \o (batch \o queue) = Sent
    BY DEF Flow, Wrote, InFlight
  <2> QED
    BY <1>1, <2>1, <2>2
<1>4. file \o (buffered \o p) \in Seq(Lines)
  BY <1>1, <1>2, ConcatProperties
<1>5. IsPrefix(file \o (buffered \o p), accepted)
  BY <1>2, <1>3, <1>4, StopIsNoLine DEF Sent
<1> QED
  BY <1>5 DEF p

LEMMA PrefixOfAppend ==
  ASSUME NEW S, NEW s \in Seq(S), NEW t \in Seq(S), NEW x \in S, IsPrefix(s, t)
  PROVE  IsPrefix(s, Append(t, x))
<1>1. /\ Append(t, x) \in Seq(S) /\ Len(Append(t, x)) = Len(t) + 1
      /\ \A i \in 1 .. Len(t) : Append(t, x)[i] = t[i]
  BY AppendProperties
<1>2. Len(s) <= Len(t) /\ \A i \in 1 .. Len(s) : s[i] = t[i]
  BY PrefixPointwise
<1>3. Len(s) \in Nat /\ Len(t) \in Nat
  BY LenProperties
<1>4. Len(s) <= Len(Append(t, x)) /\ \A i \in 1 .. Len(s) : s[i] = Append(t, x)[i]
  BY <1>1, <1>2, <1>3
<1> QED
  BY <1>1, <1>4, PrefixPointwise

LEMMA PrefixOfPrefix ==
  ASSUME NEW S, NEW s \in Seq(S), NEW r \in Seq(S), NEW t \in Seq(S),
         IsPrefix(s \o r, t)
  PROVE  IsPrefix(s, t)
<1>1. /\ s \o r \in Seq(S) /\ Len(s \o r) = Len(s) + Len(r)
      /\ Len(s) \in Nat /\ Len(r) \in Nat
  BY ConcatProperties, LenProperties
<1>2. \A i \in 1 .. Len(s) : (s \o r)[i] = s[i]
  BY <1>1, ConcatProperties
<1>3. Len(s \o r) <= Len(t) /\ \A i \in 1 .. Len(s \o r) : (s \o r)[i] = t[i]
  <2>1. ASSUME NEW w \in Seq(S), IsPrefix(w, t)
        PROVE  Len(w) <= Len(t) /\ \A i \in 1 .. Len(w) : w[i] = t[i]
    BY <2>1, PrefixPointwise
  <2> QED
    BY <1>1, <2>1
<1>4. Len(t) \in Nat
  BY LenProperties
<1>5. Len(s) <= Len(t) /\ \A i \in 1 .. Len(s) : s[i] = t[i]
  BY <1>1, <1>2, <1>3, <1>4
<1> QED
  BY <1>5, PrefixPointwise
-------------------------------------------------------------------------------
(* The inductive invariant: initially, and one lemma per action. *)

LEMMA QueueGrows ==
  ASSUME TypeOK, NEW x \in Item
  PROVE  Wrote \o (batch \o Append(queue, x)) = Append(Wrote \o (batch \o queue), x)
<1>1. Wrote \in Seq(Item) /\ batch \in Seq(Item) /\ queue \in Seq(Item)
  BY StateSequences
<1>2. GrowsBehind(Wrote, batch, queue, x)
  BY <1>1, AppendBehind
<1> QED
  BY <1>2 DEF GrowsBehind

LEMMA InitInv == Init => IInv
<1> SUFFICES ASSUME Init PROVE IInv
  OBVIOUS
<1>1. TypeOK
  <2>1. \A S : <<>> \in Seq(S) /\ Len(<<>>) = 0
    BY EmptySeq
  <2>2. 0 <= MaxLines /\ 0 <= BatchMax /\ 0 <= MaxWrites
    BY SinkAssumption
  <2>3. queue \in Seq(Lines \cup {STOP}) /\ Len(queue) <= MaxLines
    BY <2>1, <2>2 DEF Init
  <2>4. accepted \in Seq(Lines) /\ Len(accepted) <= MaxWrites
    BY <2>1, <2>2 DEF Init
  <2>5. batch \in Seq(Lines \cup {STOP}) /\ Len(batch) <= BatchMax
    BY <2>1, <2>2 DEF Init
  <2>6. /\ buffered \in Seq(Lines) /\ file \in Seq(Lines)
        /\ durable \in Nat /\ durable <= Len(file)
    BY <2>1 DEF Init
  <2>7. /\ loop \in LoopStates /\ writer \in WriterStates
        /\ stopping \in BOOLEAN /\ timedOut \in BOOLEAN
        /\ error \in BOOLEAN /\ closed \in BOOLEAN
    BY DEF Init, LoopStates, WriterStates
  <2> QED
    BY <2>3, <2>4, <2>5, <2>6, <2>7 DEF TypeOK
<1>2. /\ <<>> \o <<>> = <<>>
      /\ IsPrefix(<<>> \o <<>>, <<>>)
  <2>1. <<>> \in Seq(Lines) /\ <<>> \o <<>> = <<>>
    BY EmptySeq, ConcatEmptySeq
  <2> QED
    BY <2>1, PrefixOfConcat
<1>3. Flow
  BY <1>2 DEF Init, Flow, Wrote, InFlight, Sent, StopTravels
<1>4. NoHole
  BY <1>2 DEF Init, NoHole
<1>5. Stages /\ Handle
  BY DEF Init, Stages, Handle, Alive
<1> QED
  BY <1>1, <1>3, <1>4, <1>5 DEF IInv

\* A step that leaves the data alone keeps what is said of the data.
LEMMA DataKept ==
  ASSUME IInv, UNCHANGED <<queue, accepted, batch, buffered, file>>,
         error' = error, StopTravels' = StopTravels
  PROVE  Flow' /\ NoHole'
<1> USE DEF IInv
<1>1. Wrote' = Wrote /\ InFlight' = InFlight /\ Sent' = Sent
  BY DEF Wrote, InFlight, Sent
<1> QED
  BY <1>1 DEF Flow, NoHole

LEMMA WriteCheckInv == IInv /\ WriteCheck => IInv'
<1> SUFFICES ASSUME IInv, WriteCheck PROVE IInv'
  OBVIOUS
<1> USE DEF WriteCheck, IInv, loopVars, threadVars, fileVars
<1>1. TypeOK'
  BY DEF TypeOK, LoopStates
<1>2. Stages' /\ Handle'
  BY DEF Stages, Handle, Alive, TypeOK
<1>3. Flow' /\ NoHole'
  BY DataKept DEF StopTravels
<1> QED
  BY <1>1, <1>2, <1>3

\* What appending a line to the queue keeps, whether the put waited or not.
LEMMA PutInv ==
  ASSUME IInv, loop \in {"putting", "waiting"}, ~Full, Put(Len(accepted) + 1),
         UNCHANGED <<threadVars, fileVars, error>>
  PROVE  IInv'
<1> USE DEF IInv
<1> DEFINE line == Len(accepted) + 1
<1>1. /\ queue' = Append(queue, line) /\ accepted' = Append(accepted, line)
      /\ loop' = "ready"
      /\ UNCHANGED <<writer, batch, stopping, timedOut>>
      /\ UNCHANGED <<buffered, file, durable, closed>> /\ error' = error
  BY DEF Put, threadVars, fileVars
<1>2. ~closed /\ Len(accepted) < MaxWrites
  BY DEF Stages
<1>3. Len(accepted) \in Nat /\ Len(queue) \in Nat
  BY StateSequences, LenProperties
<1>4. line \in Lines
  BY <1>2, <1>3, SinkAssumption DEF Lines
<1> HIDE DEF line
<1>5. /\ queue' \in Seq(Item) /\ Len(queue') = Len(queue) + 1
      /\ accepted' \in Seq(Lines) /\ Len(accepted') = Len(accepted) + 1
  BY <1>1, <1>4, StateSequences, AppendProperties DEF Item
<1>6. TypeOK'
  BY <1>1, <1>2, <1>3, <1>5, SinkAssumption DEF TypeOK, Full, Item, LoopStates
<1>7. ~stopping /\ ~StopTravels /\ ~StopTravels'
  BY <1>1 DEF Stages, StopTravels, TypeOK
<1>8. Flow'
  <2>1. Wrote \o (batch \o Append(queue, line)) = Append(Wrote \o (batch \o queue), line)
    BY <1>4, QueueGrows DEF Item
  <2>2. Wrote' = Wrote /\ InFlight' = batch \o Append(queue, line)
    BY <1>1 DEF Wrote, InFlight
  <2>3. Sent = accepted /\ Sent' = Append(accepted, line)
    BY <1>1, <1>7 DEF Sent
  <2>4. ~error => Wrote \o (batch \o queue) = accepted
    BY <2>3 DEF Flow, InFlight
  <2>5. ASSUME ~error'
        PROVE  Wrote' \o InFlight' = Sent'
    <3>1. ~error
      BY <1>1, <2>5
    <3>2. Wrote \o (batch \o queue) = accepted
      BY <2>4, <3>1
    <3>3. Wrote' \o InFlight' = Append(accepted, line)
      BY <2>1, <2>2, <3>2
    <3> QED
      BY <2>3, <3>3
  <2> QED
    BY <2>5 DEF Flow
<1>9. NoHole'
  <2>1. IsPrefix(file \o buffered, Append(accepted, line))
    BY <1>4, StateSequences, PrefixOfAppend DEF NoHole, Wrote
  <2> QED
    BY <1>1, <2>1 DEF NoHole
<1>10. Stages' /\ Handle'
  BY <1>1, <1>2, <1>7 DEF Stages, Handle, Alive, TypeOK
<1> QED
  BY <1>6, <1>8, <1>9, <1>10

LEMMA PutNowaitInv == IInv /\ PutNowait => IInv'
<1> SUFFICES ASSUME IInv, PutNowait PROVE IInv'
  OBVIOUS
<1>1. CASE ~Full
  BY <1>1, PutInv DEF PutNowait
<1>2. CASE Full
  <2> USE <1>2 DEF PutNowait, IInv, threadVars, fileVars
  <2>1. TypeOK'
    BY DEF TypeOK, LoopStates
  <2>2. Stages' /\ Handle'
    BY DEF Stages, Handle, Alive
  <2>3. Flow' /\ NoHole'
    BY DataKept DEF StopTravels
  <2> QED
    BY <2>1, <2>2, <2>3
<1> QED
  BY <1>1, <1>2

LEMMA PutWaitingInv == IInv /\ PutWaiting => IInv'
  BY PutInv DEF PutWaiting

LEMMA CloseInv == IInv /\ Close => IInv'
<1> SUFFICES ASSUME IInv, Close PROVE IInv'
  OBVIOUS
<1> USE DEF Close, IInv, threadVars, fileVars
<1>1. TypeOK'
  BY DEF TypeOK, LoopStates
<1>2. Stages' /\ Handle'
  BY DEF Stages, Handle, Alive, TypeOK
<1>3. Flow' /\ NoHole'
  BY DataKept DEF StopTravels
<1> QED
  BY <1>1, <1>2, <1>3

LEMMA PutStopInv == IInv /\ PutStop => IInv'
<1> SUFFICES ASSUME IInv, PutStop PROVE IInv'
  OBVIOUS
<1> USE DEF IInv
<1>1. /\ loop = "stopping" /\ queue' = Append(queue, STOP) /\ loop' = "joining"
      /\ ~Full
      /\ UNCHANGED <<accepted, writer, batch, stopping, timedOut>>
      /\ UNCHANGED <<buffered, file, durable, closed>> /\ error' = error
  BY DEF PutStop, threadVars, fileVars
<1>2. queue' \in Seq(Item) /\ Len(queue') = Len(queue) + 1 /\ Len(queue) \in Nat
  BY <1>1, StateSequences, AppendProperties, LenProperties DEF Item
<1>3. TypeOK'
  BY <1>1, <1>2, SinkAssumption DEF TypeOK, Full, Item, LoopStates
<1>4. ~stopping
  BY <1>1 DEF Stages, TypeOK
<1>5. Flow'
  <2>1. Wrote \o (batch \o Append(queue, STOP)) = Append(Wrote \o (batch \o queue), STOP)
    BY QueueGrows DEF Item
  <2>2. Wrote' = Wrote /\ InFlight' = batch \o Append(queue, STOP)
    BY <1>1 DEF Wrote, InFlight
  <2>3. Sent = accepted /\ Sent' = Append(accepted, STOP)
    BY <1>1, <1>4 DEF Sent, StopTravels
  <2> QED
    BY <1>1, <2>1, <2>2, <2>3 DEF Flow, InFlight
<1>6. NoHole'
  BY <1>1 DEF NoHole
<1>7. Stages' /\ Handle'
  BY <1>1, <1>4 DEF Stages, Handle, Alive, TypeOK
<1> QED
  BY <1>3, <1>5, <1>6, <1>7

LEMMA JoinInv == IInv /\ Join => IInv'
<1> SUFFICES ASSUME IInv, Join PROVE IInv'
  OBVIOUS
<1> USE DEF Join, IInv, threadVars, fileVars
<1>1. TypeOK'
  BY DEF TypeOK, LoopStates
<1>2. Stages' /\ Handle'
  BY DEF Stages, Handle, Alive, TypeOK
<1>3. NoHole'
  BY DEF NoHole
<1>4. Flow'
  <2>1. CASE error
    BY <2>1 DEF Flow
  <2>2. CASE ~error
    <3>1. stopping
      BY <2>2 DEF Stages
    <3> QED
      BY <3>1, DataKept DEF StopTravels
  <2> QED
    BY <2>1, <2>2
<1> QED
  BY <1>1, <1>2, <1>3, <1>4

\* A spill of the whole buffer, or of a part of it, moves lines only.
LEMMA SpillInv ==
  ASSUME IInv, NEW n \in 0 .. Len(buffered), Spill(n, buffered),
         UNCHANGED <<queue, accepted, batch>>,
         error' \/ (error' = error /\ StopTravels' = StopTravels)
  PROVE  Flow' /\ NoHole' /\ buffered' \in Seq(Lines) /\ file' \in Seq(Lines)
         /\ Len(file) <= Len(file')
<1> USE DEF IInv
<1>1. /\ Wrote' = file \o buffered
      /\ buffered' \in Seq(Lines) /\ file' \in Seq(Lines)
      /\ Len(file) <= Len(file')
  BY StateSequences, SpillKeeps
<1>2. NoHole'
  BY <1>1 DEF NoHole, Wrote
<1>3. Flow'
  <2>1. CASE error'
    BY <2>1 DEF Flow
  <2>2. CASE error' = error /\ StopTravels' = StopTravels
    <3>1. Wrote' = Wrote /\ InFlight' = InFlight /\ Sent' = Sent
      BY <1>1, <2>2 DEF Wrote, InFlight, Sent
    <3> QED
      BY <2>2, <3>1 DEF Flow
  <2> QED
    BY <2>1, <2>2
<1> QED
  BY <1>1, <1>2, <1>3

LEMMA CloseFlushInv == IInv /\ CloseFlush => IInv'
<1> SUFFICES ASSUME IInv, CloseFlush PROVE IInv'
  OBVIOUS
<1> USE DEF IInv
<1>1. /\ loop = "sealing"
      /\ UNCHANGED <<queue, accepted, writer, batch, stopping, timedOut>>
      /\ durable' = durable /\ closed' = closed /\ error' = error
      /\ StopTravels' = StopTravels
  BY DEF CloseFlush, threadVars, Outcome, StopTravels
<1>2. CASE closed
  <2>1. loop' = Outcome /\ file' = file /\ buffered' = buffered
    BY <1>2 DEF CloseFlush
  <2>2. loop' \in {"raised", "closed"} /\ (loop' = "closed" => ~error)
    BY <2>1 DEF Outcome
  <2>3. Flow' /\ NoHole'
    BY <1>1, <2>1, DataKept
  <2>4. TypeOK'
    BY <1>1, <2>1, <2>2 DEF TypeOK, LoopStates
  <2>5. Stages' /\ Handle'
    BY <1>1, <1>2, <2>1, <2>2 DEF Stages, Handle, Alive
  <2> QED
    BY <2>3, <2>4, <2>5
<1>3. ASSUME ~closed, NEW n \in 0 .. Len(buffered), Spill(n, buffered),
             loop' = "raised" \/ (loop' = "syncing" /\ n = Len(buffered))
      PROVE  IInv'
  <2>1. /\ Flow' /\ NoHole' /\ buffered' \in Seq(Lines) /\ file' \in Seq(Lines)
        /\ Len(file) <= Len(file')
    BY <1>1, <1>3, SpillInv
  <2>2. n = Len(buffered) => buffered' = <<>>
    BY <1>3, StateSequences, SpillKeeps
  <2>3. durable <= Len(file')
    BY <2>1, LenProperties DEF TypeOK
  <2>4. TypeOK'
    BY <1>1, <1>3, <2>1, <2>3 DEF TypeOK, LoopStates
  <2>5. Stages' /\ Handle'
    BY <1>1, <1>3, <2>2 DEF Stages, Handle, Alive
  <2> QED
    BY <2>1, <2>4, <2>5
<1>4. CASE ~closed
  <2>1. Len(buffered) \in 0 .. Len(buffered)
    BY StateSequences, LenProperties
  <2>2. \/ Spill(Len(buffered), buffered) /\ loop' = "syncing"
        \/ (\E n \in 0 .. Len(buffered) : Spill(n, buffered)) /\ loop' = "raised"
    BY <1>4 DEF CloseFlush
  <2> QED
    BY <1>3, <1>4, <2>1, <2>2
<1> QED
  BY <1>2, <1>4

LEMMA CloseSyncInv == IInv /\ CloseSync => IInv'
<1> SUFFICES ASSUME IInv, CloseSync PROVE IInv'
  OBVIOUS
<1> USE DEF IInv
<1>1. /\ loop = "syncing" /\ buffered = <<>> /\ ~closed
      /\ UNCHANGED <<queue, accepted, writer, batch, stopping, timedOut>>
      /\ UNCHANGED <<buffered, file>> /\ error' = error
      /\ \/ durable' = Len(file) /\ closed' = TRUE /\ loop' = Outcome
         \/ durable' = durable /\ closed' = closed /\ loop' = "raised"
  BY DEF CloseSync, threadVars, Handle
<1>2. loop' \in {"raised", "closed"} /\ (loop' = "closed" => ~error /\ closed')
  BY <1>1 DEF Outcome
<1>3. TypeOK'
  <2>1. Len(file) \in Nat
    BY StateSequences, LenProperties
  <2>2. durable' \in Nat /\ durable' <= Len(file) /\ closed' \in BOOLEAN
    <3>1. durable \in Nat /\ durable <= Len(file) /\ closed \in BOOLEAN
      BY DEF TypeOK
    <3>2. CASE durable' = Len(file) /\ closed' = TRUE
      BY <2>1, <3>2
    <3>3. CASE durable' = durable /\ closed' = closed
      BY <3>1, <3>3
    <3> QED
      BY <1>1, <3>2, <3>3
  <2>3. loop' \in LoopStates
    BY <1>2 DEF LoopStates
  <2>4. /\ UNCHANGED <<queue, accepted, writer, batch, stopping, timedOut>>
        /\ UNCHANGED <<buffered, file>> /\ error' = error
    BY <1>1
  <2> QED
    BY ONLY <2>2, <2>3, <2>4, TypeOK DEF TypeOK
<1>4. Flow' /\ NoHole'
  BY <1>1, <1>2, DataKept DEF StopTravels
<1>5. Stages'
  BY <1>1, <1>2 DEF Stages, Alive
<1>6. Handle'
  BY <1>1, <1>2 DEF Handle
<1> QED
  BY <1>3, <1>4, <1>5, <1>6
-------------------------------------------------------------------------------
(* The thread's actions. *)

LEMMA GetFirstInv == IInv /\ GetFirst => IInv'
<1> SUFFICES ASSUME IInv, GetFirst PROVE IInv'
  OBVIOUS
<1> USE DEF IInv
<1>1. /\ writer = "get" /\ queue # <<>> /\ writer' = "collect" /\ timedOut' = FALSE
      /\ batch' = <<Head(queue)>> /\ queue' = Tail(queue)
      /\ UNCHANGED <<loop, accepted, stopping>>
      /\ UNCHANGED <<buffered, file, durable, closed>> /\ error' = error
  BY DEF GetFirst, loopVars, fileVars
<1>2. /\ Head(queue) \in Item /\ queue' \in Seq(Item)
      /\ Len(queue') = Len(queue) - 1 /\ Len(queue) \in Nat
  BY <1>1, StateSequences, HeadTailProperties, LenProperties
<1>3. batch' \in Seq(Item) /\ Len(batch') = 1
  BY <1>1, <1>2
<1>4. TypeOK'
  <2>1. Len(queue') <= MaxLines /\ Len(batch') <= BatchMax
    BY <1>1, <1>2, <1>3, SinkAssumption DEF TypeOK
  <2>2. queue' \in Seq(Lines \cup {STOP}) /\ batch' \in Seq(Lines \cup {STOP})
    BY <1>2, <1>3 DEF Item
  <2>3. writer' \in WriterStates /\ timedOut' \in BOOLEAN
    BY <1>1 DEF WriterStates
  <2>4. /\ UNCHANGED <<loop, accepted, stopping>>
        /\ UNCHANGED <<buffered, file, durable, closed>> /\ error' = error
    BY <1>1
  <2> QED
    BY ONLY <2>1, <2>2, <2>3, <2>4, TypeOK DEF TypeOK
<1>5. ~stopping /\ batch = <<>>
  BY <1>1 DEF Stages, TypeOK
<1>6. Flow'
  <2>1. queue \in Seq(Item) /\ <<>> \in Seq(Item)
    BY StateSequences, EmptySeq
  <2>2. Append(<<>>, Head(queue)) \o Tail(queue) = <<>> \o queue
    BY <1>1, <2>1, HeadMoves
  <2>3. Append(<<>>, Head(queue)) = <<Head(queue)>>
    OBVIOUS
  <2>4. InFlight' = InFlight
    BY <1>1, <1>5, <2>2, <2>3 DEF InFlight
  <2>5. Wrote' = Wrote /\ Sent' = Sent
    BY <1>1 DEF Wrote, Sent, StopTravels
  <2> QED
    BY <1>1, <2>4, <2>5 DEF Flow
<1>7. NoHole'
  BY <1>1 DEF NoHole
<1>8. Stages' /\ Handle'
  BY <1>1, <1>5 DEF Stages, Handle, Alive
<1> QED
  BY <1>4, <1>6, <1>7, <1>8

LEMMA GetTimesOutInv == IInv /\ GetTimesOut => IInv'
<1> SUFFICES ASSUME IInv, GetTimesOut PROVE IInv'
  OBVIOUS
<1> USE DEF GetTimesOut, IInv, loopVars, fileVars
<1>1. TypeOK'
  <2>1. /\ writer' = "collect" /\ timedOut' = TRUE
        /\ UNCHANGED <<queue, loop, accepted, batch, stopping>>
        /\ UNCHANGED <<buffered, file, durable, closed>> /\ error' = error
    OBVIOUS
  <2> QED
    BY ONLY <2>1, TypeOK DEF TypeOK, WriterStates
<1>2. Stages' /\ Handle'
  BY DEF Stages, Handle, Alive, TypeOK
<1>3. Flow' /\ NoHole'
  BY DataKept DEF StopTravels
<1> QED
  BY <1>1, <1>2, <1>3

LEMMA GetMoreInv == IInv /\ GetMore => IInv'
<1> SUFFICES ASSUME IInv, GetMore PROVE IInv'
  OBVIOUS
<1> USE DEF IInv
<1>1. /\ writer = "collect" /\ queue # <<>> /\ Len(batch) < BatchMax
      /\ batch' = Append(batch, Head(queue)) /\ queue' = Tail(queue)
      /\ UNCHANGED <<loop, accepted, writer, stopping, timedOut>>
      /\ UNCHANGED <<buffered, file, durable, closed>> /\ error' = error
  BY DEF GetMore, BatchOpen, loopVars, fileVars
<1>2. /\ Head(queue) \in Item /\ queue' \in Seq(Item)
      /\ Len(queue') = Len(queue) - 1 /\ Len(queue) \in Nat /\ Len(batch) \in Nat
  BY <1>1, StateSequences, HeadTailProperties, LenProperties
<1>3. batch' \in Seq(Item) /\ Len(batch') = Len(batch) + 1
  BY <1>1, <1>2, StateSequences, AppendProperties
<1>4. TypeOK'
  <2>1. Len(queue') <= MaxLines /\ Len(batch') <= BatchMax
    BY <1>1, <1>2, <1>3, SinkAssumption DEF TypeOK
  <2>2. queue' \in Seq(Lines \cup {STOP}) /\ batch' \in Seq(Lines \cup {STOP})
    BY <1>2, <1>3 DEF Item
  <2>3. /\ UNCHANGED <<loop, accepted, writer, stopping, timedOut>>
        /\ UNCHANGED <<buffered, file, durable, closed>> /\ error' = error
    BY <1>1
  <2> QED
    BY ONLY <2>1, <2>2, <2>3, TypeOK DEF TypeOK
<1>5. Flow'
  <2>1. InFlight' = InFlight
    BY <1>1, StateSequences, HeadMoves DEF InFlight
  <2>2. Wrote' = Wrote /\ Sent' = Sent
    BY <1>1 DEF Wrote, Sent, StopTravels
  <2> QED
    BY <1>1, <2>1, <2>2 DEF Flow
<1>6. NoHole'
  BY <1>1 DEF NoHole
<1>7. Stages' /\ Handle'
  BY <1>1 DEF Stages, Handle, Alive
<1> QED
  BY <1>4, <1>5, <1>6, <1>7

\* While nothing failed, a STOP in the batch is the last thing in the pipe.
LEMMA StopIsLast ==
  ASSUME IInv, ~error
  PROVE  /\ \A i \in 1 .. Len(batch) : batch[i] = STOP => i = Len(batch) /\ queue = <<>>
         /\ \A i \in 1 .. Len(batch) : batch[i] = STOP => StopTravels
<1> USE DEF IInv
<1>1. /\ Wrote \in Seq(Item) /\ batch \in Seq(Item) /\ queue \in Seq(Item)
      /\ accepted \in Seq(Lines)
  BY StateSequences
<1>2. Wrote \o (batch \o queue) = Sent
  BY DEF Flow, InFlight
<1>3. Wrote \o (batch \o queue) \in {accepted, Append(accepted, STOP)}
  BY <1>2 DEF Sent
<1>4. /\ \A i \in 1 .. Len(batch) : batch[i] = STOP => i = Len(batch) /\ queue = <<>>
      /\ \A i \in 1 .. Len(batch) :
            batch[i] = STOP => Wrote \o (batch \o queue) = Append(accepted, STOP)
  BY <1>1, <1>3, OnlyLastIsStop
<1>5. Append(accepted, STOP) # accepted
  <2>1. /\ accepted \in Seq(Item) /\ STOP \in Item
    BY StateSequences DEF Item
  <2>2. Len(Append(accepted, STOP)) = Len(accepted) + 1 /\ Len(accepted) \in Nat
    BY <2>1, AppendProperties, LenProperties
  <2> QED
    BY <2>2
<1> QED
  BY <1>2, <1>4, <1>5 DEF Sent

LEMMA FrontProperties ==
  ASSUME NEW S, NEW s \in Seq(S), s # <<>>
  PROVE  /\ Front(s) \in Seq(S) /\ Len(Front(s)) = Len(s) - 1
         /\ \A i \in 1 .. Len(Front(s)) : Front(s)[i] = s[i]
<1>1. Len(s) \in Nat \ {0}
  BY LenProperties, EmptySeq
<1>2. \A i \in 1 .. Len(s) - 1 : s[i] \in S
  BY <1>1, ElementOfSeq
<1>3. PICK n \in Nat : n = Len(s) - 1
  BY <1>1
<1>4. /\ SubSeq(s, 1, n) \in Seq(S)
      /\ Len(SubSeq(s, 1, n)) = IF 1 <= n THEN n - 1 + 1 ELSE 0
      /\ \A i \in 1 .. n - 1 + 1 : SubSeq(s, 1, n)[i] = s[1 + i - 1]
  BY <1>2, <1>3, SubSeqProperties
<1>5. Len(SubSeq(s, 1, n)) = n /\ \A i \in 1 .. n : SubSeq(s, 1, n)[i] = s[i]
  BY <1>3, <1>4
<1> QED
  BY <1>3, <1>4, <1>5 DEF Front

\* A batch without STOP is a batch of lines.
LEMMA BatchOfLines ==
  ASSUME NEW b \in Seq(Item), \A i \in 1 .. Len(b) : b[i] # STOP
  PROVE  b \in Seq(Lines)
<1>1. Len(b) \in Nat /\ b = [i \in 1 .. Len(b) |-> b[i]]
  BY LenProperties
<1>2. \A i \in 1 .. Len(b) : b[i] \in Lines
  BY ElementOfSeq DEF Item
<1> QED
  BY <1>1, <1>2, IsASeq

LEMMA BatchEndsInv == IInv /\ BatchEnds => IInv'
<1> SUFFICES ASSUME IInv, BatchEnds PROVE IInv'
  OBVIOUS
<1> USE DEF IInv
<1>1. /\ writer = "collect" /\ writer' = "write" /\ stopping' = StopTaken
      /\ batch' = IF StopTaken THEN Front(batch) ELSE batch
      /\ UNCHANGED <<queue, loop, accepted, timedOut>>
      /\ UNCHANGED <<buffered, file, durable, closed>> /\ error' = error
  BY DEF BatchEnds, loopVars, fileVars
<1>2. ~stopping /\ ~error
  BY <1>1 DEF Stages, Alive, TypeOK
<1>3. NoHole'
  BY <1>1 DEF NoHole
<1>4. batch \in Seq(Item) /\ Len(batch) \in Nat
  BY StateSequences, LenProperties
<1>5. CASE ~StopTaken
  <2>1. batch \in Seq(Lines)
    <3>1. ASSUME NEW i \in 1 .. Len(batch), batch[i] = STOP PROVE FALSE
      <4>1. i = Len(batch)
        BY <1>2, <3>1, StopIsLast
      <4>2. batch # <<>>
        BY <1>4, <3>1
      <4> QED
        BY <1>5, <3>1, <4>1, <4>2 DEF StopTaken, Last
    <3> QED
      BY <1>4, <3>1, BatchOfLines
  <2>2. batch' = batch /\ stopping' = FALSE
    BY <1>1, <1>5
  <2>3. TypeOK'
    <3>1. writer' \in WriterStates
      BY <1>1 DEF WriterStates
    <3>2. /\ UNCHANGED <<queue, loop, accepted, timedOut>>
          /\ UNCHANGED <<buffered, file, durable, closed>> /\ error' = error
      BY <1>1
    <3> QED
      BY ONLY <2>2, <3>1, <3>2, TypeOK DEF TypeOK
  <2>4. Flow'
    <3>1. StopTravels' = StopTravels
      BY <1>1, <1>2, <2>2 DEF StopTravels
    <3> QED
      BY <1>1, <2>2, <3>1, DataKept
  <2>5. Stages' /\ Handle'
    BY <1>1, <1>2, <2>1, <2>2 DEF Stages, Handle, Alive
  <2> QED
    BY <1>3, <2>3, <2>4, <2>5
<1>6. CASE StopTaken
  <2> DEFINE front == Front(batch)
  <2>1. batch # <<>> /\ batch[Len(batch)] = STOP
    BY <1>6 DEF StopTaken, Last
  <2>2. Len(batch) \in 1 .. Len(batch)
    BY <1>4, <2>1, EmptySeq
  <2>3. queue = <<>> /\ StopTravels
    BY <1>2, <2>1, <2>2, StopIsLast
  <2>4. /\ front \in Seq(Item) /\ Len(front) = Len(batch) - 1
        /\ \A i \in 1 .. Len(front) : front[i] = batch[i]
    BY <1>4, <2>1, FrontProperties
  <2>5. batch = Append(front, STOP)
    BY <1>4, <2>1, <2>2, <2>4, AppendProperties, SeqEqual DEF Item
  <2>6. front \in Seq(Lines)
    <3>1. \A i \in 1 .. Len(front) : front[i] # STOP
      BY <1>2, <1>4, <2>4, StopIsLast
    <3> HIDE DEF front
    <3> QED
      BY <2>4, <3>1, BatchOfLines
  <2> HIDE DEF front
  <2>7. batch' = front /\ stopping' = TRUE
    BY <1>1, <1>6 DEF front
  <2>8. TypeOK'
    <3>1. writer' \in WriterStates
      BY <1>1 DEF WriterStates
    <3>2. batch' \in Seq(Lines \cup {STOP}) /\ Len(batch') <= BatchMax
      BY <1>4, <2>4, <2>7, SinkAssumption DEF TypeOK, Item
    <3>3. /\ UNCHANGED <<queue, loop, accepted, timedOut>>
          /\ UNCHANGED <<buffered, file, durable, closed>> /\ error' = error
      BY <1>1
    <3> QED
      BY ONLY <2>7, <3>1, <3>2, <3>3, TypeOK DEF TypeOK
  <2>9. Flow'
    <3>1. Wrote \in Seq(Item) /\ accepted \in Seq(Item) /\ STOP \in Item
      BY StateSequences DEF Item
    <3>2. batch \o queue = batch /\ front \o queue = front
      BY <1>4, <2>3, <2>4, ConcatEmptySeq
    <3>3. Wrote \o batch = Append(accepted, STOP)
      BY <1>2, <2>3, <3>2 DEF Flow, InFlight, Sent
    <3>4. Wrote \o batch = Append(Wrote \o front, STOP)
      BY <2>4, <2>5, <3>1, AppendBack
    <3>5. Wrote \o front \in Seq(Item)
      BY <2>4, <3>1, ConcatProperties
    <3>6. Wrote \o front = accepted
      <4>1. ASSUME NEW w \in Seq(Item), Append(accepted, STOP) = Append(w, STOP)
            PROVE  w = accepted
        BY <3>1, <4>1, AppendInjective
      <4> QED
        BY <3>3, <3>4, <3>5, <4>1
    <3>7. Wrote' = Wrote /\ InFlight' = front /\ Sent' = accepted
      BY <1>1, <2>7, <3>2 DEF Wrote, InFlight, Sent, StopTravels
    <3> QED
      BY <3>6, <3>7 DEF Flow
  <2>10. Stages' /\ Handle'
    <3>1. loop = "joining"
      BY <2>3 DEF StopTravels
    <3> QED
      BY <1>1, <1>2, <2>3, <2>6, <2>7, <3>1 DEF Stages, Handle, Alive
  <2> QED
    BY <1>3, <2>8, <2>9, <2>10
<1> QED
  BY <1>5, <1>6

LEMMA WriteBatchInv == IInv /\ WriteBatch => IInv'
<1> SUFFICES ASSUME IInv, WriteBatch PROVE IInv'
  OBVIOUS
<1> USE DEF IInv
<1>1. PICK kept \in 0 .. Len(batch) :
        LET buf == buffered \o SubSeq(batch, 1, kept) IN
        /\ \E n \in 0 .. Len(buf) : Spill(n, buf)
        /\ \/ kept = Len(batch) /\ writer' = "flush" /\ UNCHANGED error
           \/ "write" \in Faults /\ batch # <<>> /\ Fail
  BY DEF WriteBatch
<1> DEFINE part == SubSeq(batch, 1, kept)
           buf == buffered \o part
<1>2. PICK n \in 0 .. Len(buf) : Spill(n, buf)
  BY <1>1
<1>3. /\ writer = "write" /\ batch' = <<>>
      /\ UNCHANGED <<queue, loop, accepted, stopping, timedOut, durable, closed>>
  BY DEF WriteBatch, loopVars
<1>4. \/ kept = Len(batch) /\ writer' = "flush" /\ error' = error
      \/ writer' = "exited" /\ error' = TRUE
  BY <1>1 DEF Fail
<1>5. ~error /\ batch \in Seq(Lines) /\ ~closed
      /\ loop \notin {"sealing", "syncing", "raised", "closed"}
  BY <1>3 DEF Stages, Handle, Alive
<1>6. part \in Seq(Lines)
  BY <1>5, SplitParts, EmptySeq
<1>7. kept = Len(batch) => part = batch
  BY <1>5, SubSeqFull
<1> HIDE DEF part
<1>8. buf \in Seq(Lines)
  BY <1>6, StateSequences, ConcatProperties
<1>9. IsPrefix(file \o buf, accepted)
  BY <1>5, PrefixWhileWriting DEF part
<1> HIDE DEF buf
<1>10. /\ file' \in Seq(Lines) /\ buffered' \in Seq(Lines)
       /\ Wrote' = file \o buf
       /\ Len(file) <= Len(file')
  BY <1>2, <1>8, StateSequences, SpillKeeps
<1>11. NoHole'
  BY <1>3, <1>9, <1>10 DEF NoHole, Wrote
<1>12. TypeOK'
  <2>1. batch' \in Seq(Lines \cup {STOP}) /\ Len(batch') <= BatchMax
    <3>1. <<>> \in Seq(Lines \cup {STOP}) /\ Len(<<>>) = 0
      BY EmptySeq
    <3> QED
      BY <1>3, <3>1, SinkAssumption
  <2>2. durable <= Len(file')
    BY <1>10, StateSequences, LenProperties DEF TypeOK
  <2>3. writer' \in WriterStates /\ error' \in BOOLEAN
    BY <1>4 DEF WriterStates, TypeOK
  <2>4. UNCHANGED <<queue, loop, accepted, stopping, timedOut, durable, closed>>
    BY <1>3
  <2>5. file' \in Seq(Lines) /\ buffered' \in Seq(Lines)
    BY <1>10
  <2> QED
    BY ONLY <2>1, <2>2, <2>3, <2>4, <2>5, TypeOK DEF TypeOK
<1>13. Flow'
  <2>1. CASE error'
    BY <2>1 DEF Flow
  <2>2. CASE kept = Len(batch) /\ error' = error
    <3>1. /\ batch \in Seq(Item) /\ queue \in Seq(Item)
          /\ file \in Seq(Item) /\ buffered \in Seq(Item)
      BY StateSequences
    <3>2. buf = buffered \o batch
      BY <1>7, <2>2 DEF buf
    <3>3. file \o (buffered \o batch) = Wrote \o batch
      BY ONLY <3>1, Regroup DEF Wrote
    <3>4. Wrote' = Wrote \o batch
      BY <1>10, <3>2, <3>3
    <3>5. InFlight' = queue
      BY <1>3, <3>1, ConcatEmptySeq DEF InFlight
    <3>6. (Wrote \o batch) \o queue = Wrote \o (batch \o queue)
      <4>1. Wrote \in Seq(Item) /\ batch \in Seq(Item) /\ queue \in Seq(Item)
        BY StateSequences
      <4> QED
        BY ONLY <4>1, Regroup
    <3>7. Wrote \o (batch \o queue) = Sent
      BY <1>5 DEF Flow, InFlight
    <3>8. Sent' = Sent
      BY <1>3 DEF Sent, StopTravels
    <3> QED
      BY <3>4, <3>5, <3>6, <3>7, <3>8 DEF Flow
  <2> QED
    BY <1>4, <2>1, <2>2
<1>14. Stages' /\ Handle'
  BY <1>3, <1>4, <1>5 DEF Stages, Handle, Alive
<1> QED
  BY <1>11, <1>12, <1>13, <1>14

\* Flush and DropCache: the handle spills, and the thread goes on or fails.
LEMMA HandleInv ==
  ASSUME IInv, writer \in {"flush", "drop"},
         NEW n \in 0 .. Len(buffered), Spill(n, buffered),
         UNCHANGED <<queue, loop, accepted, batch, stopping, timedOut, closed>>,
         durable' \in {durable, Len(file')},
         \/ error' = error /\ writer' \in {"drop", "get"} /\ (writer' = "get" => ~stopping)
         \/ error' = error /\ writer' = "exited" /\ stopping
         \/ error' = TRUE /\ writer' = "exited"
  PROVE  IInv'
<1> USE DEF IInv
<1>1. error' \/ (error' = error /\ StopTravels' = StopTravels)
  BY DEF StopTravels
<1>2. /\ Flow' /\ NoHole' /\ buffered' \in Seq(Lines) /\ file' \in Seq(Lines)
      /\ Len(file) <= Len(file')
  BY <1>1, SpillInv
<1>3. Len(file) \in Nat /\ Len(file') \in Nat
  BY <1>2, StateSequences, LenProperties
<1>4. durable' \in Nat /\ durable' <= Len(file')
  BY <1>2, <1>3 DEF TypeOK
<1>5. writer' \in WriterStates /\ error' \in BOOLEAN
  BY DEF WriterStates, TypeOK
<1>6. TypeOK'
  BY <1>2, <1>4, <1>5 DEF TypeOK
<1>7. ~error /\ ~closed /\ loop \notin {"sealing", "syncing", "raised", "closed"}
      /\ batch = <<>>
  BY DEF Stages, Handle, Alive
<1>8. Stages' /\ Handle'
  BY <1>7 DEF Stages, Handle, Alive
<1> QED
  BY <1>2, <1>6, <1>8

\* Not flushing and not dropping the cache: the thread only moves on.
LEMMA ThreadMovesInv ==
  ASSUME IInv, writer \in {"flush", "drop"},
         UNCHANGED <<queue, loop, accepted, batch, stopping, timedOut, closed,
                     file, buffered, durable, error>>,
         \/ writer' \in {"drop", "get"} /\ (writer' = "get" => ~stopping)
         \/ writer' = "exited" /\ stopping
  PROVE  IInv'
<1> USE DEF IInv
<1>1. Flow' /\ NoHole'
  BY DataKept DEF StopTravels
<1>2. TypeOK'
  BY DEF TypeOK, WriterStates
<1>3. Stages' /\ Handle'
  BY DEF Stages, Handle, Alive
<1> QED
  BY <1>1, <1>2, <1>3

LEMMA FlushInv == IInv /\ Flush => IInv'
<1> SUFFICES ASSUME IInv, Flush PROVE IInv'
  OBVIOUS
<1>1. /\ writer = "flush" /\ Len(buffered) \in 0 .. Len(buffered)
      /\ UNCHANGED <<queue, loop, accepted, batch, stopping, timedOut, closed, durable>>
  BY StateSequences, LenProperties DEF Flush, loopVars, IInv
<1>2. CASE Spill(Len(buffered), buffered) /\ writer' = "drop" /\ UNCHANGED error
  BY <1>1, <1>2, HandleInv
<1>3. CASE writer' = "drop" /\ UNCHANGED <<file, buffered, error>>
  BY <1>1, <1>3, ThreadMovesInv
<1>4. CASE (\E n \in 0 .. Len(buffered) : Spill(n, buffered)) /\ Fail
  BY <1>1, <1>4, HandleInv DEF Fail
<1> QED
  BY <1>2, <1>3, <1>4 DEF Flush

LEMMA DropCacheInv == IInv /\ DropCache => IInv'
<1> SUFFICES ASSUME IInv, DropCache PROVE IInv'
  OBVIOUS
<1>1. /\ writer = "drop" /\ ~stopping /\ Len(buffered) \in 0 .. Len(buffered)
      /\ UNCHANGED <<queue, loop, accepted, batch, stopping, timedOut, closed>>
  BY StateSequences, LenProperties DEF DropCache, loopVars, IInv
<1>2. CASE Spill(Len(buffered), buffered) /\ durable' = Len(file') /\ NextIteration
  BY <1>1, <1>2, HandleInv DEF NextIteration
<1>3. CASE (\E n \in 0 .. Len(buffered) : Spill(n, buffered)) /\ Fail /\ durable' = durable
  BY <1>1, <1>3, HandleInv DEF Fail
<1> QED
  BY <1>2, <1>3 DEF DropCache

LEMMA NoDropInv == IInv /\ NoDrop => IInv'
  BY ThreadMovesInv DEF NoDrop, NextIteration, loopVars, fileVars

LEMMA StutterInv == IInv /\ UNCHANGED vars => IInv'
<1> SUFFICES ASSUME IInv, UNCHANGED vars PROVE IInv'
  OBVIOUS
<1> USE DEF IInv, vars
<1>1. TypeOK'
  BY DEF TypeOK
<1>2. Flow' /\ NoHole'
  BY DataKept DEF StopTravels
<1>3. Stages' /\ Handle'
  BY DEF Stages, Handle, Alive
<1> QED
  BY <1>1, <1>2, <1>3

LEMMA StepInv == IInv /\ [Next]_vars => IInv'
  BY WriteCheckInv, PutNowaitInv, PutWaitingInv, CloseInv, PutStopInv, JoinInv,
     CloseFlushInv, CloseSyncInv, GetFirstInv, GetTimesOutInv, GetMoreInv,
     BatchEndsInv, WriteBatchInv, FlushInv, DropCacheInv, NoDropInv, StutterInv
     DEF Next, Loop, InCall, Run

LEMMA Invariance == Spec => []IInv
  BY InitInv, StepInv, PTL DEF Spec
-------------------------------------------------------------------------------
(* The theorems. *)

\* The variables stay in their domains; in particular the queue never holds
\* more than max_lines items, whatever the two actors do.
THEOREM TypeCorrect == Spec => []TypeOK
<1>1. IInv => TypeOK
  BY DEF IInv
<1> QED
  BY <1>1, Invariance, PTL

\* Failures cut the end of the file and never make a hole in it.
THEOREM NothingMissing == Spec => []NoHole
<1>1. IInv => NoHole
  BY DEF IInv
<1> QED
  BY <1>1, Invariance, PTL

\* When the thread is gone without an error, everything accepted has been
\* handed to the file.
LEMMA Drained ==
  ASSUME IInv, ~Alive, ~error
  PROVE  Wrote = accepted
<1> USE DEF IInv
<1>1. stopping /\ queue = <<>> /\ batch = <<>>
  BY DEF Stages, Alive
<1>2. Wrote \in Seq(Lines) /\ <<>> \o <<>> = <<>>
  BY StateSequences, ConcatEmptySeq, EmptySeq
<1>3. InFlight = <<>> /\ Sent = accepted
  BY <1>1, <1>2 DEF InFlight, Sent, StopTravels
<1> QED
  BY <1>2, <1>3, ConcatEmptySeq DEF Flow

\* A close that returned leaves every accepted line in the file, durable: what
\* the docstring promises of a sealed segment, for any interleaving and any
\* failure of the calls on the file.
THEOREM SealComplete == Spec => []SealedHoldsEveryLine
<1>1. IInv => SealedHoldsEveryLine
  <2> SUFFICES ASSUME IInv, loop = "closed"
               PROVE  file = accepted /\ durable = Len(accepted)
    BY DEF SealedHoldsEveryLine
  <2>1. closed /\ ~error /\ buffered = <<>> /\ durable = Len(file) /\ ~Alive
    BY DEF IInv, Handle, Stages
  <2>2. Wrote = accepted
    BY <2>1, Drained
  <2>3. Wrote = file
    BY <2>1, StateSequences, ConcatEmptySeq DEF Wrote, IInv
  <2> QED
    BY <2>1, <2>2, <2>3
<1> QED
  BY <1>1, Invariance, PTL

\* What a step may do to the abstract log, said without the abstract module.
LEMMA StepOnTheLog ==
  ASSUME IInv, IInv', [Next]_vars
  PROVE  \/ /\ ~closed /\ accepted' \in {Append(accepted, line) : line \in Lines}
            /\ file' = file /\ closed' = closed /\ error' = error
         \/ /\ ~closed /\ ~closed' /\ accepted' = accepted
            /\ \E p \in Seq(Lines) : file' = file \o p
         \/ /\ ~closed /\ ~error /\ file = accepted
            /\ closed' /\ ~error' /\ accepted' = accepted /\ file' = file
         \/ /\ accepted' = accepted /\ file' = file
            /\ (closed /\ ~error) = (closed' /\ ~error')
<1> USE DEF IInv
<1>1. CASE PutNowait \/ PutWaiting
  <2>1. /\ loop \in {"putting", "waiting"}
        /\ \/ accepted' = Append(accepted, Len(accepted) + 1)
           \/ accepted' = accepted
        /\ file' = file /\ closed' = closed /\ error' = error
    BY <1>1 DEF PutNowait, PutWaiting, Put, fileVars
  <2>2. ~closed /\ Len(accepted) + 1 \in Lines
    BY <2>1, StateSequences, LenProperties, SinkAssumption DEF Stages, Lines
  <2> QED
    BY <2>1, <2>2
<1>2. CASE CloseFlush \/ WriteBatch \/ Flush \/ DropCache
  <2>1. CASE file' = file /\ closed' = closed /\ error' = error
    BY <1>2, <2>1 DEF CloseFlush, WriteBatch, Flush, DropCache, loopVars
  <2>2. ASSUME ~closed, NEW b \in Seq(Lines), NEW n \in 0 .. Len(b), Spill(n, b),
               accepted' = accepted, closed' = closed
        PROVE  ~closed' /\ \E p \in Seq(Lines) : file' = file \o p
    BY <2>2, SplitParts, EmptySeq DEF Spill
  <2>3. CASE CloseFlush
    <3>1. accepted' = accepted /\ closed' = closed /\ error' = error
      BY <2>3 DEF CloseFlush
    <3>2. Len(buffered) \in 0 .. Len(buffered)
      BY StateSequences, LenProperties
    <3>3. \/ file' = file
          \/ ~closed /\ \E n \in 0 .. Len(buffered) : Spill(n, buffered)
      BY <2>3, <3>2 DEF CloseFlush
    <3> QED
      BY <2>1, <2>2, <3>1, <3>3, StateSequences
  <2>4. CASE WriteBatch
    <3>1. ~closed /\ accepted' = accepted /\ closed' = closed /\ batch \in Seq(Lines)
      BY <2>4 DEF WriteBatch, Stages, Handle, Alive, loopVars
    <3>2. PICK kept \in 0 .. Len(batch) :
            \E n \in 0 .. Len(buffered \o SubSeq(batch, 1, kept)) :
               Spill(n, buffered \o SubSeq(batch, 1, kept))
      BY <2>4 DEF WriteBatch
    <3>3. SubSeq(batch, 1, kept) \in Seq(Lines)
      BY <3>1, SplitParts, EmptySeq
    <3>4. buffered \o SubSeq(batch, 1, kept) \in Seq(Lines)
      BY <3>3, StateSequences, ConcatProperties
    <3> QED
      BY <2>2, <3>1, <3>2, <3>4
  <2>5. CASE Flush \/ DropCache
    <3>1. ~closed /\ accepted' = accepted /\ closed' = closed
      BY <2>5 DEF Flush, DropCache, Stages, Handle, Alive, loopVars
    <3>2. Len(buffered) \in 0 .. Len(buffered)
      BY StateSequences, LenProperties
    <3>3. \/ file' = file /\ error' = error
          \/ \E n \in 0 .. Len(buffered) : Spill(n, buffered)
      BY <2>5, <3>2 DEF Flush, DropCache
    <3> QED
      BY <2>1, <2>2, <3>1, <3>3, StateSequences
  <2> QED
    BY <1>2, <2>3, <2>4, <2>5
<1>3. CASE CloseSync
  <2>1. /\ loop = "syncing" /\ accepted' = accepted /\ file' = file /\ error' = error
        /\ closed' = TRUE \/ closed' = closed
        /\ ~closed /\ ~Alive /\ buffered = <<>>
    BY <1>3 DEF CloseSync, Handle, Stages
  <2>2. ~error => file = accepted
    BY <2>1, Drained, StateSequences, ConcatEmptySeq DEF Wrote
  <2> QED
    BY <2>1, <2>2
<1>4. CASE \/ WriteCheck \/ Close \/ PutStop \/ Join
           \/ GetFirst \/ GetTimesOut \/ GetMore \/ BatchEnds \/ NoDrop
           \/ UNCHANGED vars
  <2>1. accepted' = accepted /\ file' = file /\ closed' = closed /\ error' = error
    BY <1>4 DEF WriteCheck, Close, PutStop, Join, GetFirst, GetTimesOut, GetMore,
       BatchEnds, NoDrop, NextIteration, vars, loopVars, threadVars, fileVars
  <2> QED
    BY <2>1
<1> QED
  BY <1>1, <1>2, <1>3, <1>4 DEF Next, Loop, InCall, Run

\* The sink implements the log readers rely on: lines become visible in the
\* order they were accepted, without a gap, and the file is sealed when it
\* holds all of them.
THEOREM Implementation == Spec => ImplementsSegmentLog
<1>1. Init => Log!LogInit
  BY DEF Init, Log!LogInit
<1>2. ASSUME IInv, IInv', [Next]_vars
      PROVE  [Log!LogNext]_(Log!logVars)
  <2>1. CASE /\ ~closed /\ accepted' \in {Append(accepted, line) : line \in Lines}
             /\ file' = file /\ closed' = closed /\ error' = error
    BY <2>1 DEF Log!LogNext, Log!Accept, Log!logVars
  <2>2. CASE /\ ~closed /\ ~closed' /\ accepted' = accepted
             /\ \E p \in Seq(Lines) : file' = file \o p
    <3>1. IsPrefix(file, file')
      BY <1>2, <2>2, StateSequences, PrefixOfConcat DEF IInv
    <3>2. IsPrefix(file', accepted)
      <4>1. TypeOK' /\ NoHole'
        BY <1>2 DEF IInv
      <4>2. IsPrefix(file' \o buffered', accepted)
        BY <2>2, <4>1 DEF NoHole
      <4>3. file' \in Seq(Lines) /\ buffered' \in Seq(Lines) /\ accepted \in Seq(Lines)
        BY <2>2, <4>1 DEF TypeOK
      <4> QED
        BY <4>2, <4>3, PrefixOfPrefix
    <3> QED
      BY <2>2, <3>1, <3>2 DEF Log!LogNext, Log!Publish, IsPrefix, Log!IsPrefix
  <2>3. CASE /\ ~closed /\ ~error /\ file = accepted
             /\ closed' /\ ~error' /\ accepted' = accepted /\ file' = file
    BY <2>3 DEF Log!LogNext, Log!Seal
  <2>4. CASE /\ accepted' = accepted /\ file' = file
             /\ (closed /\ ~error) = (closed' /\ ~error')
    BY <2>4 DEF Log!logVars
  <2> QED
    BY <1>2, <2>1, <2>2, <2>3, <2>4, StepOnTheLog
<1>3. Spec => [][Log!LogNext]_(Log!logVars)
  BY <1>2, Invariance, PTL DEF Spec
<1> QED
  BY <1>1, <1>3, PTL DEF Spec, ImplementsSegmentLog, Log!LogSpec
===============================================================================
