------------------------------ MODULE CaptureProofs ------------------------------
(***************************************************************************)
(* The captures, for every number of frames, segments, containers and      *)
(* troubles.  Of a run (CaptureRun): a sealed segment holds what its sinks *)
(* were given and never changes, a completed run has its duration and its  *)
(* last status, and what a collection claims is in its files.  Of a        *)
(* capture with recovery (RecoveryCapture): an eligible row is made of     *)
(* windows after the last bad boundary, each in cadence and in time.       *)
(***************************************************************************)
EXTENDS CaptureRun, RecoveryCapture, SequenceTheorems, FiniteSetTheorems, TLAPS

-------------------------------------------------------------------------------
(* Sums over finite sets. *)

LEMMA Smallest ==
  ASSUME NEW S, IsFiniteSet(S), NEW Wrong, Wrong \subseteq SUBSET S, Wrong # {}
  PROVE  \E m \in Wrong : \A x \in m : m \ {x} \notin Wrong
<1> DEFINE less == StrictSubsetOrdering(S)
<1>1. PICK m \in Wrong : \A s \in Wrong : <<s, m>> \notin less
  <2>1. IsWellFoundedOn(less, FiniteSubsetsOf(S))
    BY FS_StrictSubsetOrderingWellFounded
  <2>2. Wrong \subseteq FiniteSubsetsOf(S)
    BY FS_Subset DEF FiniteSubsetsOf
  <2> HIDE DEF less
  <2> QED
    BY <2>1, <2>2, WFMin
<1>2. ASSUME NEW x \in m PROVE <<m \ {x}, m>> \in less
  BY <1>2 DEF StrictSubsetOrdering
<1> QED
  BY <1>1, <1>2

\* What a set of sets contains when adding an element does not lead out of it.
LEMMA BySubsets ==
  ASSUME NEW S, IsFiniteSet(S), NEW P, {} \in P,
         \A s \in SUBSET S : \A x \in S \ s : s \in P => s \cup {x} \in P
  PROVE  \A s \in SUBSET S : s \in P
<1> DEFINE Wrong == {s \in SUBSET S : s \notin P}
<1> SUFFICES ASSUME Wrong # {} PROVE FALSE
  OBVIOUS
<1>1. Wrong \subseteq SUBSET S
  OBVIOUS
<1> HIDE DEF Wrong
<1>2. PICK m \in Wrong : \A x \in m : m \ {x} \notin Wrong
  BY <1>1, Smallest
<1>3. m \in SUBSET S /\ m \notin P /\ m # {}
  BY <1>2 DEF Wrong
<1>4. PICK x \in m : TRUE
  BY <1>3
<1>5. m \ {x} \in SUBSET S /\ x \in S \ (m \ {x}) /\ (m \ {x}) \cup {x} = m
  BY <1>3
<1> QED
  BY <1>2, <1>3, <1>5 DEF Wrong

\* A total of f over every subset of S, whatever the order of adding.
Totals(g, f, S) ==
  /\ g \in [SUBSET S -> Int] /\ g[{}] = 0
  /\ \A s \in SUBSET S : \A x \in s : g[s] = f[x] + g[s \ {x}]

LEMMA TotalsExist ==
  ASSUME NEW S, IsFiniteSet(S), NEW f, \A x \in S : f[x] \in Int
  PROVE  \E g : Totals(g, f, S)
<1> DEFINE P == {s \in SUBSET S : \E g : Totals(g, f, s)}
<1>1. {} \in P
  <2> DEFINE g == [s \in SUBSET {} |-> 0]
  <2>1. g \in [SUBSET {} -> Int] /\ g[{}] = 0
    OBVIOUS
  <2> HIDE DEF g
  <2>2. Totals(g, f, {})
    BY <2>1 DEF Totals
  <2> QED
    BY <2>2
<1>2. ASSUME NEW s \in SUBSET S, NEW y \in S \ s, s \in P
      PROVE  s \cup {y} \in P
  <2>1. PICK h : Totals(h, f, s)
    BY <1>2
  <2>2. f[y] \in Int
    OBVIOUS
  <2> DEFINE T == s \cup {y}
             g == [t \in SUBSET T |-> IF y \in t THEN f[y] + h[t \ {y}] ELSE h[t]]
  <2>3. \A t \in SUBSET s : h[t] \in Int
    BY <2>1 DEF Totals
  <2>4. \A t \in SUBSET T : /\ t \ {y} \in SUBSET s
                            /\ y \notin t => t \in SUBSET s
                            /\ g[t] = IF y \in t THEN f[y] + h[t \ {y}] ELSE h[t]
    OBVIOUS
  <2>5. g \in [SUBSET T -> Int] /\ g[{}] = 0
    <3>1. \A t \in SUBSET T : g[t] \in Int
      BY <2>2, <2>3, <2>4
    <3>2. h[{}] = 0
      BY <2>1 DEF Totals
    <3> QED
      BY <3>1, <3>2
  <2> HIDE DEF g
  <2>6. ASSUME NEW t \in SUBSET T, NEW x \in t
        PROVE  g[t] = f[x] + g[t \ {x}]
    <3> DEFINE u == t \ {x}
    <3>1. u \in SUBSET T /\ t \ {y} \in SUBSET s
      OBVIOUS
    <3>2. CASE y \notin t
      <4>1. t \in SUBSET s /\ y \notin u
        BY <3>2
      <4>2. h[t] = f[x] + h[u]
        BY <2>1, <4>1 DEF Totals
      <4> HIDE DEF u
      <4> QED
        BY <2>4, <3>1, <3>2, <4>1, <4>2 DEF u
    <3>3. CASE y \in t /\ x = y
      <4>1. y \notin u /\ g[u] = h[u]
        BY <2>4, <3>1, <3>3
      <4>2. g[t] = f[y] + h[t \ {y}]
        BY <2>4, <3>3
      <4> QED
        BY <3>3, <4>1, <4>2
    <3>4. CASE y \in t /\ x # y
      <4>1. g[t] = f[y] + h[t \ {y}]
        BY <2>4, <3>4
      <4>2. h[t \ {y}] = f[x] + h[(t \ {y}) \ {x}]
        BY <2>1, <3>1, <3>4 DEF Totals
      <4>3. g[u] = f[y] + h[u \ {y}]
        BY <2>4, <3>1, <3>4
      <4>4. u \ {y} = (t \ {y}) \ {x}
        OBVIOUS
      <4>5. (t \ {y}) \ {x} \in SUBSET s
        BY <3>1
      <4>6. PICK n \in Int : n = h[(t \ {y}) \ {x}]
        BY <2>3, <4>5
      <4>7. f[x] \in Int /\ f[y] \in Int
        BY <2>2
      <4>8. g[t] = f[y] + (f[x] + n) /\ g[u] = f[y] + n
        BY <4>1, <4>2, <4>3, <4>4, <4>6
      <4> QED
        BY <4>7, <4>8
    <3> QED
      BY <3>2, <3>3, <3>4
  <2>7. Totals(g, f, T)
    BY <2>5, <2>6 DEF Totals
  <2> QED
    BY <2>7
<1> HIDE DEF P
<1>3. S \in P
  BY <1>1, <1>2, BySubsets
<1> QED
  BY <1>3 DEF P

\* A fold over S that adds f[x] for a chosen x, and goes on without it.
Folds(h, f, S) ==
  h = [s \in SUBSET S |-> IF s = {} THEN 0
                          ELSE f[CHOOSE x \in s : TRUE] + h[s \ {CHOOSE x \in s : TRUE}]]

LEMMA FoldsAreTotals ==
  ASSUME NEW S, IsFiniteSet(S), NEW f, NEW g, Totals(g, f, S)
  PROVE  /\ Folds(g, f, S)
         /\ \A h : Folds(h, f, S) => h = g
<1>1. Folds(g, f, S)
  <2> DEFINE c(s) == CHOOSE x \in s : TRUE
  <2>1. ASSUME NEW s \in SUBSET S
        PROVE  g[s] = IF s = {} THEN 0 ELSE f[c(s)] + g[s \ {c(s)}]
    <3>1. s # {} => c(s) \in s
      OBVIOUS
    <3> HIDE DEF c
    <3> QED
      BY <3>1 DEF Totals
  <2>2. g = [s \in SUBSET S |-> g[s]]
    BY DEF Totals
  <2> QED
    BY <2>1, <2>2 DEF Folds
<1>2. ASSUME NEW h, Folds(h, f, S)
      PROVE  h = g
  <2> DEFINE Wrong == {s \in SUBSET S : h[s] # g[s]}
  <2>1. \A s \in SUBSET S : h[s] = IF s = {} THEN 0
                  ELSE f[CHOOSE x \in s : TRUE] + h[s \ {CHOOSE x \in s : TRUE}]
    BY <1>2 DEF Folds
  <2>2. \A s \in SUBSET S : g[s] = IF s = {} THEN 0
                  ELSE f[CHOOSE x \in s : TRUE] + g[s \ {CHOOSE x \in s : TRUE}]
    BY <1>1 DEF Folds
  <2>3. Wrong = {}
    <3> SUFFICES ASSUME Wrong # {} PROVE FALSE
      OBVIOUS
    <3>1. Wrong \subseteq SUBSET S
      OBVIOUS
    <3> HIDE DEF Wrong
    <3>2. PICK s \in Wrong : \A x \in s : s \ {x} \notin Wrong
      BY <3>1, Smallest
    <3>3. s \in SUBSET S /\ h[s] # g[s]
      BY <3>2 DEF Wrong
    <3>4. s # {}
      BY <2>1, <2>2, <3>3
    <3>5. PICK c \in s : c = CHOOSE x \in s : TRUE
      BY <3>4
    <3>6. h[s \ {c}] = g[s \ {c}]
      BY <3>2, <3>3 DEF Wrong
    <3> QED
      BY <2>1, <2>2, <3>3, <3>4, <3>5, <3>6
  <2>4. h = [s \in SUBSET S |-> h[s]] /\ g = [s \in SUBSET S |-> g[s]]
    BY <1>2 DEF Folds, Totals
  <2> QED
    BY <2>3, <2>4
<1> QED
  BY <1>1, <1>2

Sum(f, S) == MapThenSumSet(LAMBDA x : f[x], S)

LEMMA SumIsTotal ==
  ASSUME NEW S, IsFiniteSet(S), NEW f, NEW g, Totals(g, f, S)
  PROVE  Sum(f, S) = g[S]
<1>1. Folds(g, f, S) /\ \A h : Folds(h, f, S) => h = g
  BY FoldsAreTotals
<1>2. PICK h : Folds(h, f, S) /\ Sum(f, S) = h[S]
  BY <1>1 DEF Folds, Sum, MapThenSumSet, MapThenFoldSet
<1> QED
  BY <1>1, <1>2

\* A sum is what it is without an element, and that element.
LEMMA SumStep ==
  ASSUME NEW S, IsFiniteSet(S), NEW f, \A x \in S : f[x] \in Int
  PROVE  /\ Sum(f, S) \in Int /\ Sum(f, {}) = 0
         /\ \A x \in S : Sum(f, S) = f[x] + Sum(f, S \ {x})
<1>1. PICK g : Totals(g, f, S)
  BY TotalsExist
<1>2. ASSUME NEW s \in SUBSET S PROVE Sum(f, s) = g[s]
  <2>1. IsFiniteSet(s)
    BY FS_Subset
  <2> DEFINE k == [t \in SUBSET s |-> g[t]]
  <2>2. Totals(k, f, s)
    <3>1. k \in [SUBSET s -> Int] /\ k[{}] = 0
      BY <1>1 DEF Totals
    <3>2. \A t \in SUBSET s : \A x \in t : k[t] = f[x] + k[t \ {x}]
      BY <1>1 DEF Totals
    <3> HIDE DEF k
    <3> QED
      BY <3>1, <3>2 DEF Totals
  <2>3. k[s] = g[s]
    OBVIOUS
  <2> HIDE DEF k
  <2> QED
    BY <2>1, <2>2, <2>3, SumIsTotal
<1>3. Sum(f, S) = g[S] /\ Sum(f, {}) = g[{}] /\ \A x \in S : Sum(f, S \ {x}) = g[S \ {x}]
  BY <1>2
<1> QED
  BY <1>1, <1>3 DEF Totals

LEMMA SumOfMore ==
  ASSUME NEW S, IsFiniteSet(S), NEW f, NEW g,
         \A x \in S : f[x] \in Int /\ g[x] \in Int /\ f[x] <= g[x]
  PROVE  Sum(f, S) <= Sum(g, S)
<1> DEFINE Wrong == {s \in SUBSET S : ~(Sum(f, s) <= Sum(g, s))}
<1>1. \A s \in SUBSET S : IsFiniteSet(s)
  BY FS_Subset
<1>2. Wrong = {}
  <2> SUFFICES ASSUME Wrong # {} PROVE FALSE
    OBVIOUS
  <2>1. Wrong \subseteq SUBSET S
    OBVIOUS
  <2> HIDE DEF Wrong
  <2>2. PICK s \in Wrong : \A x \in s : s \ {x} \notin Wrong
    BY <2>1, Smallest
  <2>3. s \in SUBSET S /\ ~(Sum(f, s) <= Sum(g, s)) /\ IsFiniteSet(s)
    BY <1>1, <2>2 DEF Wrong
  <2>4. s # {}
    <3>1. Sum(f, {}) = 0 /\ Sum(g, {}) = 0
      BY SumStep
    <3> QED
      BY <2>3, <3>1
  <2>5. PICK x \in s : TRUE
    BY <2>4
  <2>6. Sum(f, s \ {x}) <= Sum(g, s \ {x})
    BY <2>2, <2>3 DEF Wrong
  <2>7. /\ Sum(f, s) = f[x] + Sum(f, s \ {x}) /\ Sum(g, s) = g[x] + Sum(g, s \ {x})
        /\ f[x] \in Int /\ g[x] \in Int /\ f[x] <= g[x]
    BY <2>3, SumStep
  <2>8. Sum(f, s \ {x}) \in Int /\ Sum(g, s \ {x}) \in Int
    <3>1. IsFiniteSet(s \ {x}) /\ \A y \in s \ {x} : f[y] \in Int /\ g[y] \in Int
      BY <1>1, <2>3
    <3> QED
      BY <3>1, SumStep
  <2> QED
    BY <2>3, <2>6, <2>7, <2>8
<1> QED
  BY <1>2

LEMMA SumIsNat ==
  ASSUME NEW S, IsFiniteSet(S), NEW f, \A x \in S : f[x] \in Nat
  PROVE  Sum(f, S) \in Nat
<1> DEFINE Wrong == {s \in SUBSET S : Sum(f, s) \notin Nat}
<1>1. Wrong = {}
  <2> SUFFICES ASSUME Wrong # {} PROVE FALSE
    OBVIOUS
  <2>1. Wrong \subseteq SUBSET S
    OBVIOUS
  <2> HIDE DEF Wrong
  <2>2. PICK s \in Wrong : \A x \in s : s \ {x} \notin Wrong
    BY <2>1, Smallest
  <2>3. s \in SUBSET S /\ Sum(f, s) \notin Nat
    BY <2>2 DEF Wrong
  <2>4. /\ Sum(f, {}) = 0
        /\ \A x \in s : Sum(f, s) = f[x] + Sum(f, s \ {x})
    <3>1. IsFiniteSet(s) /\ \A x \in s : f[x] \in Int
      BY <2>3, FS_Subset
    <3> QED
      BY <3>1, SumStep
  <2>5. PICK x \in s : TRUE
    <3>1. s # {}
      BY <2>3, <2>4
    <3> QED
      BY <3>1
  <2>6. Sum(f, s \ {x}) \in Nat
    BY <2>2, <2>3 DEF Wrong
  <2>7. f[x] \in Nat
    BY <2>3
  <2> QED
    BY <2>3, <2>4, <2>6, <2>7
<1> QED
  BY <1>1

LEMMA SumOfSame ==
  ASSUME NEW S, IsFiniteSet(S), NEW f, NEW g, \A x \in S : f[x] \in Int /\ f[x] = g[x]
  PROVE  Sum(f, S) = Sum(g, S)
<1>1. Sum(f, S) <= Sum(g, S) /\ Sum(g, S) <= Sum(f, S)
  BY SumOfMore
<1>2. Sum(f, S) \in Int /\ Sum(g, S) \in Int
  <2>1. \A x \in S : g[x] \in Int
    OBVIOUS
  <2> QED
    BY <2>1, SumStep
<1> QED
  BY <1>1, <1>2

\* A sum with one more element, or with more at one element.
LEMMA SumWithOne ==
  ASSUME NEW S, IsFiniteSet(S), NEW f, \A y \in S : f[y] \in Int,
         NEW x, x \notin S, f[x] \in Int
  PROVE  Sum(f, S \cup {x}) = f[x] + Sum(f, S)
<1>1. IsFiniteSet(S \cup {x}) /\ \A y \in S \cup {x} : f[y] \in Int
  BY FS_AddElement
<1>2. (S \cup {x}) \ {x} = S
  OBVIOUS
<1>3. Sum(f, S \cup {x}) = f[x] + Sum(f, (S \cup {x}) \ {x})
  BY <1>1, SumStep
<1> QED
  BY <1>2, <1>3

LEMMA SumWithMore ==
  ASSUME NEW S, IsFiniteSet(S), NEW f, NEW g, NEW x \in S,
         \A y \in S : f[y] \in Int /\ g[y] \in Int,
         g[x] = f[x] + 1, \A y \in S \ {x} : g[y] = f[y]
  PROVE  Sum(g, S) = Sum(f, S) + 1
<1>1. IsFiniteSet(S \ {x}) /\ \A y \in S \ {x} : f[y] \in Int /\ f[y] = g[y]
  BY FS_Subset
<1>2. Sum(f, S \ {x}) = Sum(g, S \ {x}) /\ Sum(f, S \ {x}) \in Int
  BY <1>1, SumOfSame, SumStep
<1>3. Sum(f, S) = f[x] + Sum(f, S \ {x}) /\ Sum(g, S) = g[x] + Sum(g, S \ {x})
  BY SumStep
<1>4. f[x] \in Int /\ g[x] = f[x] + 1
  OBVIOUS
<1> QED
  BY ONLY <1>2, <1>3, <1>4

LEMMA Least ==
  ASSUME NEW S, S \subseteq Nat, S # {}
  PROVE  \E m \in S : \A s \in S : m <= s
<1> DEFINE less == {pair \in Nat \X Nat : pair[1] < pair[2]}
<1>1. PICK m \in S : \A s \in S : <<s, m>> \notin less
  <2>1. IsWellFoundedOn(less, Nat)
    BY NatLessThanWellFounded DEF OpToRel
  <2> HIDE DEF less
  <2> QED
    BY <2>1, WFMin
<1>2. ASSUME NEW s \in S PROVE m <= s
  <2>1. s \in Nat /\ m \in Nat
    OBVIOUS
  <2>2. s < m => <<s, m>> \in less
    BY <2>1
  <2> HIDE DEF less
  <2> QED
    BY <1>1, <2>1, <2>2
<1> QED
  BY <1>2

LEMMA MaxOfFinite ==
  ASSUME NEW S \in SUBSET Nat, S # {}, NEW n \in Nat, \A x \in S : x < n
  PROVE  \E x \in S : \A y \in S : x >= y
<1> SUFFICES ASSUME \A x \in S : \E y \in S : y > x PROVE FALSE
  OBVIOUS
<1> DEFINE T == {k \in Nat : \E x \in S : x + k = n}
<1>1. T # {} /\ T \subseteq Nat
  <2>1. PICK x \in S : TRUE
    OBVIOUS
  <2>2. n - x \in Nat /\ x + (n - x) = n
    BY <2>1
  <2> QED
    BY <2>2
<1> HIDE DEF T
<1>2. PICK k \in T : \A j \in T : k <= j
  BY <1>1, Least
<1>3. PICK x \in S : x + k = n /\ k \in Nat
  BY <1>2 DEF T
<1>4. PICK y \in S : y > x
  BY <1>3
<1>5. n - y \in Nat /\ y + (n - y) = n /\ n - y < k
  BY <1>3, <1>4
<1>6. n - y \in T
  BY <1>5 DEF T
<1> QED
  BY <1>2, <1>3, <1>5, <1>6
-------------------------------------------------------------------------------
(* The inductive invariant. *)

IsDoc(d) ==
  /\ d = [state |-> d.state, done |-> d.done, segments |-> d.segments, max |-> d.max,
          paused |-> d.paused]
  /\ d.done \in Nat /\ d.segments \in Nat

Documents == {pending, writing, status, terminal}

DocsOK == IsDoc(doc) /\ \A d \in Documents : d = NoDoc \/ IsDoc(d)

\* The directories are numbered without a hole, and no document is ahead of them.
NumbersOK ==
  \E top \in 0 .. MaxSegments :
    /\ made = 1 .. top
    /\ doc.segments <= top
    /\ \A d \in Documents : d = NoDoc \/ d.segments <= top

FilesOK ==
  /\ given \in [Segments -> Nat] /\ file \in [Segments -> Nat] /\ lost \in [Segments -> Nat]
  /\ seals \in [Segments -> Int]
  /\ \A n \in Segments :
       /\ file[n] + lost[n] <= given[n]
       /\ n \notin made => lost[n] = 0
       /\ seals[n] # NotSealed =>
            n \in made /\ seals[n] = file[n] /\ seals[n] + lost[n] = given[n]

\* The segment the process is in is the newest and not sealed, and no write of it
\* has failed before it is left; before the seal its files are complete.
PlaceOK ==
  /\ at \in {"segment", "checkpoint", "closing"} =>
       Current \in made /\ seals[Current] = NotSealed /\ \A n \in made : n <= Current
  /\ at \in {"segment", "checkpoint"} => lost[Current] = 0
  /\ at = "seal" \/ (at = "save" /\ kind # "worker") =>
       Current \in made /\ file[Current] + lost[Current] = given[Current]

\* Towards the end of a run nothing writes STATUS.json but the process.
EndOK ==
  /\ kind # "worker" => pending = NoDoc /\ writing = NoDoc
  /\ at \in {"ending", "final"} => stop \/ doc.done >= Seconds
  /\ at \in {"final", "terminal"} => pending = NoDoc /\ writing = NoDoc
  /\ at = "terminal" => doc.done >= Seconds /\ (kind = "worker" => status = doc)
  /\ terminal # NoDoc =>
       /\ pending = NoDoc /\ writing = NoDoc
       /\ at \in {"down", "finished"}
       /\ terminal.done >= Seconds /\ (kind = "worker" => status = terminal)

IInv == DocsOK /\ NumbersOK /\ FilesOK /\ PlaceOK /\ EndOK

LEMMA InitiallyOK == Init => IInv
<1> SUFFICES ASSUME Init PROVE IInv
  OBVIOUS
<1>1. DocsOK
  BY CaptureAssumption DEF Init, DocsOK, Documents, IsDoc, Registered
<1>2. NumbersOK
  <2>1. made = 1 .. 0 /\ 0 \in 0 .. MaxSegments
    BY CaptureAssumption DEF Init
  <2> QED
    BY <2>1 DEF Init, NumbersOK, Documents, Registered
<1>3. FilesOK
  BY DEF Init, FilesOK, NotSealed
<1>4. PlaceOK /\ EndOK
  BY DEF Init, PlaceOK, EndOK
<1> QED
  BY <1>1, <1>2, <1>3, <1>4 DEF IInv

-------------------------------------------------------------------------------
(* Steps. *)

\* The steps that leave the segments alone.
Elsewhere ==
  \/ Start \/ WaitForStorage \/ ExpandBudget \/ ResumeAfterPause \/ EndRun \/ Checkpoint
  \/ EndSegment \/ LoaderGone \/ (\E s \in Sinks : SinkDies(s)) \/ SaveClosed \/ SealFails
  \/ JoinWriter \/ Final \/ WriteTerminal \/ StateThread \/ Signal \/ StorageLow \/ StorageBack

\* The failed writes.
WriteFails == FrameFails \/ WriteRaises \/ CheckpointFails

LEMMA Steps ==
  Next => \/ Elsewhere \/ WriteFails \/ OpenSegment \/ Frame \/ BadFrame \/ Spill \/ CheckpointFlush
          \/ (\E s \in Sinks : CloseSink(s)) \/ Seal \/ Leave \/ Stopped \/ Kill
BY DEF Next, Proceed, Elsewhere, WriteFails

\* A failed write leads out of the segment: a frame more that is not whole, or
\* none, and a part of what is not in the file lost.
LEMMA FailedWrite ==
  ASSUME IInv, WriteFails
  PROVE  /\ at \in {"segment", "checkpoint"} /\ at' = "closing"
         /\ Current' = Current /\ Current \in made /\ Current \in Segments
         /\ IsDoc(doc') /\ UNCHANGED <<kind, threadVars, terminal, made, file, seals, last>>
         /\ given' \in [Segments -> Nat] /\ lost' \in [Segments -> Nat]
         /\ \A n \in Segments \ {Current} : given'[n] = given[n] /\ lost'[n] = lost[n]
         /\ file[Current] + lost'[Current] <= given'[Current]
         /\ \/ doc'.done = doc.done /\ given'[Current] \in {given[Current], given[Current] + 1}
            \/ /\ at = "segment" /\ last /\ doc'.done = doc.done + 1
               /\ given'[Current] = given[Current] + 1
<1>1. at \in {"segment", "checkpoint"}
  BY DEF WriteFails, FrameFails, WriteRaises, AbandonFrame, CheckpointFails, Buffered
<1>2. Current \in made /\ Current \in Segments
  <2>1. made \subseteq Segments
    BY CaptureAssumption DEF IInv, NumbersOK, Segments
  <2> QED
    BY <1>1, <2>1 DEF IInv, PlaceOK
<1>3. given \in [Segments -> Nat] /\ lost \in [Segments -> Nat] /\ file \in [Segments -> Nat]
  BY DEF IInv, FilesOK
<1>4. IsDoc(doc)
  BY DEF IInv, DocsOK
<1>5. CASE FrameFails \/ WriteRaises
  <2>1. AbandonFrame
    BY <1>5 DEF FrameFails, WriteRaises
  <2>2. /\ at = "segment" /\ at' = "closing"
        /\ UNCHANGED <<kind, threadVars, terminal, made, file, seals, last>>
        /\ given' = [given EXCEPT ![Current] = @ + 1]
    BY <2>1 DEF AbandonFrame, Buffered, ToClosing, Give
  <2>3. PICK counted \in BOOLEAN : doc' = [doc EXCEPT !.done = Counted(counted)]
    BY <2>1 DEF AbandonFrame
  <2>4. PICK k \in 1 .. given'[Current] - file[Current] : lost' = [lost EXCEPT ![Current] = k]
    BY <2>1 DEF AbandonFrame
  <2>5. given'[Current] = given[Current] + 1 /\ given' \in [Segments -> Nat]
    BY <1>2, <1>3, <2>2
  <2>6. k \in Nat /\ file[Current] + k <= given'[Current]
    BY <1>2, <1>3, <2>4, <2>5
  <2>7. /\ \/ doc'.done = doc.done
           \/ last /\ doc'.done = doc.done + 1
        /\ IsDoc(doc') /\ Current' = Current
    BY <1>4, <2>3 DEF Counted, IsDoc, Current
  <2>8. lost' \in [Segments -> Nat] /\ lost'[Current] = k
    BY <1>2, <1>3, <2>4, <2>6
  <2>9. \A n \in Segments \ {Current} : given'[n] = given[n] /\ lost'[n] = lost[n]
    BY <1>3, <2>2, <2>4
  <2> QED
    BY <1>2, <2>2, <2>5, <2>6, <2>7, <2>8, <2>9
<1>6. CASE CheckpointFails
  <2>1. /\ at' = "closing"
        /\ UNCHANGED <<kind, doc, threadVars, terminal, made, given, file, seals, last>>
    BY <1>6 DEF CheckpointFails, ToClosing
  <2>2. PICK k \in 0 .. given[Current] - file[Current] : lost' = [lost EXCEPT ![Current] = k]
    BY <1>6 DEF CheckpointFails
  <2>3. k \in Nat /\ file[Current] + k <= given[Current]
    BY <1>2, <1>3, <2>2
  <2>4. lost' \in [Segments -> Nat] /\ lost'[Current] = k
    BY <1>2, <1>3, <2>2, <2>3
  <2>5. \A n \in Segments \ {Current} : lost'[n] = lost[n]
    BY <1>3, <2>2
  <2> QED
    BY <1>1, <1>2, <1>3, <1>4, <2>1, <2>3, <2>4, <2>5 DEF Current
<1> QED
  BY <1>5, <1>6 DEF WriteFails

LEMMA ElsewhereLeavesSegments == Elsewhere => UNCHANGED segVars
BY DEF Elsewhere, Start, WaitForStorage, ExpandBudget, ResumeAfterPause, EndRun, Checkpoint,
       EndSegment, LoaderGone, SinkDies, SaveClosed, SealFails, JoinWriter, Final, WriteTerminal,
       StateThread, TakeState, WriteState, Signal, StorageLow, StorageBack

\* The next segment is the one behind all directories.
LEMMA NextIsNewest ==
  ASSUME NumbersOK, DocsOK, OpenSegment
  PROVE  /\ NextNumber \in Segments /\ NextNumber \notin made
         /\ made' = 1 .. NextNumber
         /\ doc'.segments = NextNumber
         /\ \A d \in Documents : d = NoDoc \/ d.segments <= NextNumber
         /\ IsDoc(doc')
<1>1. PICK top \in 0 .. MaxSegments :
        /\ made = 1 .. top /\ doc.segments <= top
        /\ \A d \in Documents : d = NoDoc \/ d.segments <= top
  BY DEF NumbersOK
<1> DEFINE S == {n \in Segments : n > doc.segments /\ n \notin made}
<1>2. doc.segments \in Nat /\ MaxSegments \in Nat
  BY CaptureAssumption DEF DocsOK, IsDoc
<1>3. top + 1 \in S
  <2>1. PICK n \in Segments : n > doc.segments /\ n \notin made
    BY DEF OpenSegment
  <2> QED
    BY <1>1, <1>2, <2>1 DEF Segments
<1>4. \A n \in S : n \in Int /\ top + 1 <= n
  BY <1>1 DEF Segments
<1> HIDE DEF S
<1>5. Min(S) = top + 1
  BY <1>3, <1>4 DEF Min
<1>6. NextNumber = top + 1 /\ top + 1 \in Segments /\ top + 1 \notin made
  BY <1>3, <1>5 DEF NextNumber, S
<1>7. made' = 1 .. NextNumber
  BY <1>1, <1>6 DEF OpenSegment
<1>8. doc' = [doc EXCEPT !.segments = NextNumber] /\ IsDoc(doc)
  BY DEF OpenSegment, DocsOK
<1>9. IsDoc(doc') /\ doc'.segments = NextNumber
  BY <1>6, <1>8 DEF IsDoc, Segments
<1>10. \A d \in Documents : d = NoDoc \/ d.segments <= NextNumber
  BY <1>1, <1>6 DEF DocsOK, IsDoc
<1> QED
  BY <1>6, <1>7, <1>9, <1>10

-------------------------------------------------------------------------------
(* Documents. *)

LEMMA RegisteredIsDoc == IsDoc(Registered) /\ Registered.segments = 0
BY DEF IsDoc, Registered

LEMMA DocumentsKept == IInv /\ Next => DocsOK' /\ NumbersOK'
<1> SUFFICES ASSUME IInv, Next PROVE DocsOK' /\ NumbersOK'
  OBVIOUS
<1> USE DEF Documents
<1>1. CASE OpenSegment
  <2>1. UNCHANGED <<threadVars, terminal>>
    BY <1>1 DEF OpenSegment
  <2>2. DocsOK'
    BY <1>1, <2>1, NextIsNewest DEF IInv, DocsOK, threadVars
  <2>3. NumbersOK'
    <3>1. NextNumber \in 0 .. MaxSegments
      BY <1>1, NextIsNewest, CaptureAssumption DEF IInv, Segments
    <3>2. doc'.segments <= NextNumber
      BY <1>1, <3>1, NextIsNewest DEF IInv
    <3> QED
      BY <1>1, <2>1, <3>1, <3>2, NextIsNewest DEF IInv, NumbersOK, threadVars
  <2> QED
    BY <2>2, <2>3
<1>2. CASE Start
  <2>1. /\ UNCHANGED <<threadVars, terminal, made>>
        /\ doc' = IF status = NoDoc THEN Registered ELSE status
    BY <1>2 DEF Start, segVars
  <2>2. IsDoc(doc')
    BY <2>1, RegisteredIsDoc DEF IInv, DocsOK
  <2>3. DocsOK'
    BY <2>1, <2>2 DEF IInv, DocsOK, threadVars
  <2>4. PICK top \in 0 .. MaxSegments :
          /\ made = 1 .. top /\ doc.segments <= top
          /\ \A d \in Documents : d = NoDoc \/ d.segments <= top
    BY DEF IInv, NumbersOK
  <2>5. doc'.segments <= top
    BY <2>1, <2>4, RegisteredIsDoc
  <2> QED
    BY <2>1, <2>3, <2>4, <2>5 DEF NumbersOK, threadVars
<1>3. CASE \/ EndRun \/ EndSegment \/ LoaderGone \/ (\E s \in Sinks : SinkDies(s)) \/ SealFails
           \/ JoinWriter \/ Signal \/ StorageLow \/ StorageBack \/ Spill \/ CheckpointFlush \/ Seal
           \/ (\E s \in Sinks : CloseSink(s))
  <2>1. UNCHANGED <<doc, threadVars, terminal, made>>
    BY <1>3 DEF EndRun, EndSegment, LoaderGone, SinkDies, SealFails, JoinWriter, Signal,
                StorageLow, StorageBack, Spill, CheckpointFlush, Seal, CloseSink, segVars
  <2> QED
    BY <2>1 DEF IInv, DocsOK, NumbersOK, threadVars
<1>4. CASE WaitForStorage
  <2>1. PICK paused : doc' = [doc EXCEPT !.state = "waiting", !.paused = paused]
    BY <1>4, Zenon DEF WaitForStorage
  <2>2. Save(doc') /\ UNCHANGED <<terminal, made>>
    BY <1>4 DEF WaitForStorage, segVars
  <2> QED
    BY <2>1, <2>2 DEF Save, IInv, DocsOK, IsDoc, NumbersOK, threadVars
<1>5. CASE ExpandBudget
  <2>1. PICK max : doc' = [doc EXCEPT !.state = "expanded", !.max = max]
    BY <1>5, Zenon DEF ExpandBudget
  <2>2. Save(doc') /\ UNCHANGED <<terminal, made>>
    BY <1>5 DEF ExpandBudget, segVars
  <2> QED
    BY <2>1, <2>2 DEF Save, IInv, DocsOK, IsDoc, NumbersOK, threadVars
<1>6. CASE ResumeAfterPause
  BY <1>6 DEF ResumeAfterPause, Save, IInv, DocsOK, IsDoc, NumbersOK, segVars, threadVars
<1>7. CASE Frame \/ BadFrame
  <2>1. PICK done \in {doc.done, doc.done + 1} : doc' = [doc EXCEPT !.done = done]
    BY <1>7 DEF Frame, BadFrame, Counted
  <2>2. UNCHANGED <<threadVars, terminal, made>>
    BY <1>7 DEF Frame, BadFrame
  <2> QED
    BY <2>1, <2>2 DEF IInv, DocsOK, IsDoc, NumbersOK, threadVars
<1>8. CASE Checkpoint
  BY <1>8 DEF Checkpoint, Save, IInv, DocsOK, IsDoc, NumbersOK, segVars, threadVars
<1>9. CASE SaveClosed
  BY <1>9 DEF SaveClosed, Save, IInv, DocsOK, IsDoc, NumbersOK, segVars, threadVars
<1>10. CASE Final
  BY <1>10 DEF Final, IInv, DocsOK, IsDoc, NumbersOK, segVars, threadVars
<1>11. CASE WriteTerminal
  BY <1>11 DEF WriteTerminal, IInv, DocsOK, NumbersOK, segVars, threadVars
<1>12. CASE StateThread
  BY <1>12 DEF StateThread, TakeState, WriteState, IInv, DocsOK, NumbersOK, segVars
<1>13. CASE Leave \/ Stopped \/ Kill
  <2>1. /\ UNCHANGED <<status, terminal, made>>
        /\ doc' = Registered /\ pending' = NoDoc /\ writing' = NoDoc
    BY <1>13 DEF Leave, Stopped, Kill, Gone
  <2> QED
    BY <2>1, RegisteredIsDoc DEF IInv, DocsOK, NumbersOK
<1>14. CASE WriteFails
  <2>1. /\ UNCHANGED <<threadVars, terminal, made>> /\ IsDoc(doc')
        /\ doc'.segments = doc.segments
    BY <1>14, FailedWrite DEF Current
  <2> QED
    BY <2>1 DEF IInv, DocsOK, NumbersOK, threadVars
<1> QED
  BY <1>1, <1>2, <1>3, <1>4, <1>5, <1>6, <1>7, <1>8, <1>9, <1>10, <1>11, <1>12, <1>13, <1>14,
     Steps DEF Elsewhere

-------------------------------------------------------------------------------
(* Files and seals. *)

\* Files that grow within what the sinks were given, of a segment that is not
\* sealed or complete, break no seal.
LEMMA GrowthKeepsSeals ==
  ASSUME FilesOK, UNCHANGED <<made, seals>>,
         given' \in [Segments -> Nat], file' \in [Segments -> Nat], lost' \in [Segments -> Nat],
         \A n \in Segments :
           /\ file'[n] + lost'[n] <= given'[n]
           /\ n \notin made => lost'[n] = 0
           /\ seals[n] # NotSealed =>
                file'[n] = file[n] /\ lost'[n] = lost[n] /\ given'[n] = given[n]
  PROVE  FilesOK'
BY DEF FilesOK

LEMMA MadeAreSegments == NumbersOK => made \subseteq Segments
BY CaptureAssumption DEF NumbersOK, Segments

\* What a flush leaves in the files.
LEMMA FlushFills ==
  ASSUME FilesOK, Current \in Segments
  PROVE  /\ Flushed \in [Segments -> Nat]
         /\ \A n \in Segments : Flushed[n] = IF n = Current THEN given[n] - lost[n] ELSE file[n]
         /\ \A n \in Segments : file[n] <= Flushed[n] /\ Flushed[n] + lost[n] <= given[n]
<1>1. given[Current] - lost[Current] \in Nat
  BY DEF FilesOK
<1> QED
  BY <1>1 DEF Flushed, FilesOK

LEMMA FilesKept == IInv /\ Next => FilesOK'
<1> SUFFICES ASSUME IInv, Next PROVE FilesOK'
  OBVIOUS
<1>1. CASE Elsewhere
  BY <1>1, ElsewhereLeavesSegments DEF IInv, FilesOK, segVars
<1>2. CASE OpenSegment
  <2>1. made \subseteq made' /\ UNCHANGED <<given, file, lost, seals>>
    BY <1>2 DEF OpenSegment
  <2> QED
    BY <2>1 DEF IInv, FilesOK
<1>3. CASE Frame \/ BadFrame
  <2>1. /\ given' = [given EXCEPT ![Current] = @ + 1] /\ UNCHANGED <<made, file, lost, seals>>
        /\ at = "segment"
    BY <1>3 DEF Frame, BadFrame, Give, Buffered
  <2>2. Current \in Segments /\ seals[Current] = NotSealed
    BY <2>1, MadeAreSegments DEF IInv, PlaceOK
  <2>3. \A n \in Segments : given'[n] = IF n = Current THEN given[n] + 1 ELSE given[n]
    BY <2>1, <2>2 DEF IInv, FilesOK
  <2>4. given' \in [Segments -> Nat]
    <3>1. given[Current] + 1 \in Nat
      BY <2>2 DEF IInv, FilesOK
    <3> QED
      BY <2>1, <3>1 DEF IInv, FilesOK
  <2>5. \A n \in Segments : file[n] + lost[n] <= given'[n]
    BY <2>3 DEF IInv, FilesOK
  <2> QED
    BY <2>1, <2>2, <2>3, <2>4, <2>5, GrowthKeepsSeals DEF IInv, FilesOK
<1>4. CASE Spill
  <2>1. /\ file' = [file EXCEPT ![Current] = @ + 1] /\ UNCHANGED <<made, given, lost, seals>>
        /\ Current \in made /\ file[Current] + lost[Current] < given[Current]
    BY <1>4 DEF Spill
  <2>2. Current \in Segments
    BY <2>1, MadeAreSegments DEF IInv
  <2>3. file' \in [Segments -> Nat] /\ \A n \in Segments : file'[n] + lost[n] <= given[n]
    BY <2>1, <2>2 DEF IInv, FilesOK
  <2>4. \A n \in Segments : seals[n] # NotSealed => file'[n] = file[n]
    BY <2>1, <2>2 DEF IInv, FilesOK
  <2> QED
    BY <2>1, <2>3, <2>4, GrowthKeepsSeals DEF IInv, FilesOK
<1>5. CASE CheckpointFlush
  <2>1. file' = Flushed /\ UNCHANGED <<made, given, lost, seals>> /\ at = "segment"
    BY <1>5 DEF CheckpointFlush
  <2>2. Current \in Segments /\ seals[Current] = NotSealed
    BY <2>1, MadeAreSegments DEF IInv, PlaceOK
  <2> QED
    BY <2>1, <2>2, FlushFills, GrowthKeepsSeals DEF IInv, FilesOK
<1>6. ASSUME NEW s \in Sinks, CloseSink(s) PROVE FilesOK'
  <2>1. file' \in {file, Flushed} /\ UNCHANGED <<made, given, lost, seals>> /\ at = "closing"
    BY <1>6 DEF CloseSink
  <2>2. Current \in Segments /\ seals[Current] = NotSealed
    BY <2>1, MadeAreSegments DEF IInv, PlaceOK
  <2>3. CASE file' = file
    BY <2>1, <2>3 DEF IInv, FilesOK
  <2>4. CASE file' = Flushed
    BY <2>1, <2>2, <2>4, FlushFills, GrowthKeepsSeals DEF IInv, FilesOK
  <2> QED
    BY <2>1, <2>3, <2>4
<1>7. CASE Seal
  <2>1. /\ seals' = [seals EXCEPT ![Current] = file[Current]]
        /\ UNCHANGED <<made, given, file, lost>> /\ at = "seal"
    BY <1>7 DEF Seal
  <2>2. Current \in made /\ Current \in Segments /\ file[Current] + lost[Current] = given[Current]
    BY <2>1, MadeAreSegments DEF IInv, PlaceOK
  <2> QED
    BY <2>1, <2>2 DEF IInv, FilesOK
<1>8. CASE Leave
  <2>1. PICK k \in file[Current] .. given[Current] - lost[Current] :
          file' = [file EXCEPT ![Current] = k]
    BY <1>8 DEF Leave
  <2>2. given' = [n \in Segments |-> file'[n] + lost[n]] /\ UNCHANGED <<made, lost, seals>>
    BY <1>8 DEF Leave, Gone
  <2>3. \A n \in Segments : file'[n] = IF n = Current THEN k ELSE file[n]
    BY <2>1 DEF IInv, FilesOK
  <2>4. ASSUME Current \in Segments
        PROVE  k \in Nat /\ file[Current] <= k /\ k + lost[Current] <= given[Current]
    BY <2>1, <2>4 DEF IInv, FilesOK
  <2>5. file' \in [Segments -> Nat] /\ \A n \in Segments : file[n] <= file'[n]
                                                        /\ file'[n] + lost[n] <= given[n]
    <3>1. CASE Current \in Segments
      <4>1. file' \in [Segments -> Nat]
        BY <2>1, <2>4, <3>1 DEF IInv, FilesOK
      <4>2. ASSUME NEW n \in Segments
            PROVE  file[n] <= file'[n] /\ file'[n] + lost[n] <= given[n]
        <5>1. file[n] \in Nat /\ file[n] + lost[n] <= given[n]
          BY DEF IInv, FilesOK
        <5>2. CASE n = Current
          BY <2>3, <2>4, <3>1, <5>2
        <5>3. CASE n # Current
          BY <2>3, <5>1, <5>3
        <5> QED
          BY <5>2, <5>3
      <4> QED
        BY <4>1, <4>2
    <3>2. CASE Current \notin Segments
      <4>1. file' = file
        BY <2>1, <3>2 DEF IInv, FilesOK
      <4> QED
        BY <4>1 DEF IInv, FilesOK
    <3> QED
      BY <3>1, <3>2
  <2>6. given' \in [Segments -> Nat] /\ \A n \in Segments : given'[n] = file'[n] + lost[n]
    BY <2>2, <2>5 DEF IInv, FilesOK
  <2>7. \A n \in Segments : seals[n] # NotSealed => file'[n] = file[n] /\ given'[n] = given[n]
    BY <2>5, <2>6 DEF IInv, FilesOK
  <2> QED
    BY <2>2, <2>5, <2>6, <2>7, GrowthKeepsSeals DEF IInv, FilesOK
<1>9. CASE Stopped \/ Kill
  <2>1. /\ given' = [n \in Segments |-> file[n] + lost[n]]
        /\ UNCHANGED <<made, file, lost, seals>>
    BY <1>9 DEF Stopped, Kill, Gone
  <2>2. given' \in [Segments -> Nat] /\ \A n \in Segments : given'[n] = file[n] + lost[n]
    BY <2>1 DEF IInv, FilesOK
  <2>3. \A n \in Segments : seals[n] # NotSealed => given'[n] = given[n]
    BY <2>2 DEF IInv, FilesOK
  <2> QED
    BY <2>1, <2>2, <2>3, GrowthKeepsSeals DEF IInv, FilesOK
<1>10. CASE WriteFails
  <2>1. /\ at \in {"segment", "checkpoint"} /\ Current \in made /\ Current \in Segments
        /\ UNCHANGED <<made, file, seals>>
        /\ given' \in [Segments -> Nat] /\ lost' \in [Segments -> Nat]
        /\ \A n \in Segments \ {Current} : given'[n] = given[n] /\ lost'[n] = lost[n]
        /\ file[Current] + lost'[Current] <= given'[Current]
    BY <1>10, FailedWrite
  <2>2. seals[Current] = NotSealed
    BY <2>1 DEF IInv, PlaceOK
  <2>3. \A n \in Segments : n = Current \/ n \in Segments \ {Current}
    OBVIOUS
  <2>4. \A n \in Segments : file[n] + lost'[n] <= given'[n]
    BY <2>1, <2>3 DEF IInv, FilesOK
  <2>5. \A n \in Segments : n \notin made => lost'[n] = 0
    BY <2>1, <2>3 DEF IInv, FilesOK
  <2>6. \A n \in Segments : seals[n] # NotSealed => lost'[n] = lost[n] /\ given'[n] = given[n]
    BY <2>1, <2>2, <2>3
  <2> QED
    BY <2>1, <2>4, <2>5, <2>6, GrowthKeepsSeals DEF IInv, FilesOK
<1> QED
  BY <1>1, <1>2, <1>3, <1>4, <1>5, <1>6, <1>7, <1>8, <1>9, <1>10, Steps

-------------------------------------------------------------------------------
(* Places. *)

LEMMA PlaceKept == IInv /\ Next => PlaceOK'
<1> SUFFICES ASSUME IInv, Next PROVE PlaceOK'
  OBVIOUS
<1> USE DEF Current
<1>1. CASE \/ Start \/ WaitForStorage \/ ExpandBudget \/ ResumeAfterPause \/ EndRun \/ JoinWriter
           \/ Final \/ WriteTerminal \/ Leave \/ Stopped \/ Kill \/ SealFails
  BY <1>1 DEF Start, WaitForStorage, ExpandBudget, ResumeAfterPause, EndRun, JoinWriter, Final,
              WriteTerminal, Leave, Stopped, Kill, Gone, SealFails, IInv, PlaceOK
<1>2. CASE OpenSegment
  <2>1. NextNumber \in Segments /\ NextNumber \notin made /\ made' = 1 .. NextNumber
        /\ doc'.segments = NextNumber
    BY <1>2, NextIsNewest DEF IInv
  <2>2. at' = "segment" /\ UNCHANGED <<seals, kind>>
    BY <1>2 DEF OpenSegment
  <2>3. seals[NextNumber] = NotSealed /\ lost'[NextNumber] = 0
    <3>1. UNCHANGED lost
      BY <1>2 DEF OpenSegment
    <3> QED
      BY <2>1, <3>1 DEF IInv, FilesOK
  <2> QED
    BY <2>1, <2>2, <2>3 DEF PlaceOK, Segments
<1>3. CASE Frame \/ BadFrame
  <2>1. PICK done : doc' = [doc EXCEPT !.done = done]
    BY <1>3 DEF Frame, BadFrame
  <2>2. UNCHANGED <<at, kind, made, lost, seals>> /\ at = "segment"
    BY <1>3 DEF Frame, BadFrame, Buffered
  <2>3. doc'.segments = doc.segments
    BY <2>1 DEF IInv, DocsOK, IsDoc
  <2> QED
    BY <2>2, <2>3 DEF IInv, PlaceOK
<1>4. CASE Spill
  <2>1. UNCHANGED <<at, kind, doc, made, given, lost, seals>>
        /\ file[Current] + lost[Current] < given[Current] /\ Current \in made
    BY <1>4 DEF Spill
  <2> QED
    BY <2>1, MadeAreSegments DEF IInv, FilesOK, PlaceOK
<1>5. CASE CheckpointFlush
  BY <1>5 DEF CheckpointFlush, IInv, PlaceOK
<1>6. CASE Checkpoint
  <2>1. /\ doc' = [doc EXCEPT !.state = "running"] /\ UNCHANGED <<kind, made, lost, seals>>
        /\ at' \in {"segment", "closing"} /\ at \in {"segment", "checkpoint"}
    BY <1>6 DEF Checkpoint, segVars
  <2> QED
    BY <2>1 DEF IInv, DocsOK, IsDoc, PlaceOK
<1>7. CASE EndSegment \/ LoaderGone \/ \E s \in Sinks : SinkDies(s)
  BY <1>7 DEF EndSegment, LoaderGone, SinkDies, ToClosing, segVars, IInv, PlaceOK
<1>8. ASSUME NEW s \in Sinks, CloseSink(s) PROVE PlaceOK'
  <2>1. UNCHANGED <<kind, doc, made, given, lost, seals>> /\ at = "closing"
    BY <1>8 DEF CloseSink
  <2>2. Current \in made /\ Current \in Segments
    BY <2>1, MadeAreSegments DEF IInv, PlaceOK
  <2>3. \/ at' = at
        \/ at' = "leaving"
        \/ at' = AfterSinks /\ file' = Flushed
    BY <1>8 DEF CloseSink, AfterFailedClose
  <2>4. Flushed[Current] + lost[Current] = given[Current]
    <3>1. Flushed[Current] = given[Current] - lost[Current]
      BY <2>2, FlushFills DEF IInv
    <3> QED
      BY <2>2, <3>1 DEF IInv, FilesOK
  <2> QED
    BY <2>1, <2>2, <2>3, <2>4 DEF AfterSinks, Worker, IInv, PlaceOK
<1>9. CASE Seal
  BY <1>9 DEF Seal, AfterSegment, Worker, IInv, PlaceOK
<1>10. CASE SaveClosed
  <2>1. /\ doc' = [doc EXCEPT !.state = "segment_closed"]
        /\ UNCHANGED <<kind, made, given, file, lost>>
        /\ at = "save" /\ at' = IF Worker THEN AfterSegment ELSE "seal"
    BY <1>10 DEF SaveClosed, segVars
  <2>2. doc'.segments = doc.segments
    BY <2>1 DEF IInv, DocsOK, IsDoc
  <2> QED
    BY <2>1, <2>2 DEF AfterSegment, Worker, IInv, PlaceOK
<1>11. CASE StateThread \/ Signal \/ StorageLow \/ StorageBack
  BY <1>11 DEF StateThread, TakeState, WriteState, Signal, StorageLow, StorageBack, segVars, IInv,
               PlaceOK
<1>12. CASE WriteFails
  <2>1. /\ at \in {"segment", "checkpoint"} /\ at' = "closing"
        /\ doc'.segments = doc.segments /\ UNCHANGED <<kind, made, seals>>
    BY <1>12, FailedWrite
  <2> QED
    BY <2>1 DEF IInv, PlaceOK
<1> QED
  BY <1>1, <1>2, <1>3, <1>4, <1>5, <1>6, <1>7, <1>8, <1>9, <1>10, <1>11, <1>12, Steps
     DEF Elsewhere

-------------------------------------------------------------------------------
(* The end of a run. *)

LEMMA EndKept == IInv /\ Next => EndOK'
<1> SUFFICES ASSUME IInv, Next PROVE EndOK'
  OBVIOUS
<1> USE DEF IInv, EndOK, threadVars, Worker
<1>1. CASE Start
  BY <1>1 DEF Start
<1>2. CASE WaitForStorage \/ ExpandBudget \/ ResumeAfterPause
  BY <1>2 DEF WaitForStorage, ExpandBudget, ResumeAfterPause, Cleared, Save
<1>3. CASE \/ OpenSegment \/ Spill \/ CheckpointFlush \/ EndSegment \/ LoaderGone
           \/ \E s \in Sinks : SinkDies(s)
  BY <1>3 DEF OpenSegment, Cleared, Spill, CheckpointFlush, EndSegment, LoaderGone, SinkDies,
              ToClosing
<1>4. CASE Frame \/ BadFrame
  BY <1>4 DEF Frame, BadFrame, Buffered
<1>5. CASE Checkpoint \/ SaveClosed
  BY <1>5 DEF Checkpoint, SaveClosed, Save, AfterSegment
<1>6. ASSUME NEW s \in Sinks, CloseSink(s) PROVE EndOK'
  BY <1>6 DEF CloseSink, AfterSinks, AfterFailedClose
<1>7. CASE Seal \/ SealFails
  BY <1>7 DEF Seal, SealFails, AfterSegment
<1>8. CASE Leave \/ Stopped \/ Kill
  BY <1>8 DEF Leave, Stopped, Kill, Gone, Running
<1>9. CASE EndRun
  <2>1. stop \/ doc.done >= Seconds
    <3>1. doc.done \in Int /\ Seconds \in Int
      BY CaptureAssumption DEF DocsOK, IsDoc
    <3>2. stop \/ ~(doc.done < Seconds)
      BY <1>9 DEF EndRun, Wanted
    <3> QED
      BY <3>1, <3>2
  <2> QED
    BY <1>9, <2>1 DEF EndRun
<1>10. CASE JoinWriter
  BY <1>10 DEF JoinWriter, WriterDone
<1>11. CASE Final
  BY <1>11 DEF Final, DocsOK, IsDoc
<1>12. CASE WriteTerminal
  BY <1>12 DEF WriteTerminal, DocsOK, IsDoc
<1>13. CASE StateThread
  BY <1>13 DEF StateThread, TakeState, WriteState
<1>14. CASE Signal \/ StorageLow \/ StorageBack
  BY <1>14 DEF Signal, Running, StorageLow, StorageBack
<1>15. CASE WriteFails
  <2>1. /\ at \in {"segment", "checkpoint"} /\ at' = "closing"
        /\ UNCHANGED <<kind, threadVars, terminal>>
    BY <1>15, FailedWrite
  <2> QED
    BY <2>1
<1> QED
  BY <1>1, <1>2, <1>3, <1>4, <1>5, <1>6, <1>7, <1>8, <1>9, <1>10, <1>11, <1>12, <1>13, <1>14,
     <1>15, Steps DEF Elsewhere

-------------------------------------------------------------------------------
\* IInv is an invariant of every run.
THEOREM Invariance == Spec => []IInv
<1>1. IInv /\ UNCHANGED vars => IInv'
  BY DEF vars, threadVars, segVars, frameVars, IInv, DocsOK, Documents, NumbersOK, FilesOK, PlaceOK,
         EndOK, Current
<1>2. IInv /\ [Next]_vars => IInv'
  BY <1>1, DocumentsKept, FilesKept, PlaceKept, EndKept DEF IInv
<1> QED
  BY <1>2, InitiallyOK, PTL DEF Spec

\* A sealed segment holds what its sinks were given, and the open segment is
\* the newest one.
THEOREM SegmentsHold == Spec => []SealsHold
<1>1. IInv => SealsHold
  BY DEF IInv, FilesOK, PlaceOK, SealsHold
<1> QED
  BY <1>1, Invariance, PTL

\* The last word on a run that is completed is that it is.
THEOREM CompletedIsFinal == Spec => []CompletionIsFinal
<1>1. IInv => CompletionIsFinal
  BY DEF IInv, EndOK, CompletionIsFinal
<1> QED
  BY <1>1, Invariance, PTL

\* A step never changes what a seal promises: neither the seal nor the files.
THEOREM SealsAreForEver ==
  Spec => [][\A n \in Segments : seals[n] # NotSealed =>
               seals'[n] = seals[n] /\ file'[n] = file[n]]_vars
<1> DEFINE Stay == \A n \in Segments : seals[n] # NotSealed =>
                     seals'[n] = seals[n] /\ file'[n] = file[n]
<1>1. IInv /\ Next => Stay
  <2> SUFFICES ASSUME IInv, Next, NEW n \in Segments, seals[n] # NotSealed
               PROVE  seals'[n] = seals[n] /\ file'[n] = file[n]
    OBVIOUS
  <2>1. /\ seals[n] = file[n] /\ file[n] + lost[n] = given[n]
        /\ file[n] \in Nat /\ lost[n] \in Nat /\ given[n] \in Nat
    BY DEF IInv, FilesOK
  <2>2. CASE Elsewhere
    BY <2>2, ElsewhereLeavesSegments DEF segVars
  <2>3. CASE OpenSegment \/ Frame \/ BadFrame \/ Stopped \/ Kill
    BY <2>3 DEF OpenSegment, Frame, BadFrame, Stopped, Kill
  <2>4. CASE Spill
    BY <2>1, <2>4 DEF Spill, IInv, FilesOK
  <2>5. CASE CheckpointFlush
    BY <2>1, <2>5 DEF CheckpointFlush, Flushed, IInv, FilesOK
  <2>6. CASE \E s \in Sinks : CloseSink(s)
    BY <2>1, <2>6 DEF CloseSink, Flushed, IInv, FilesOK
  <2>7. CASE Seal
    BY <2>1, <2>7 DEF Seal, IInv, FilesOK
  <2>8. CASE Leave
    <3>1. PICK k \in file[Current] .. given[Current] - lost[Current] :
            file' = [file EXCEPT ![Current] = k]
      BY <2>8 DEF Leave
    <3>2. n = Current => k = file[n]
      BY <2>1, <3>1
    <3>3. file'[n] = file[n]
      BY <3>1, <3>2 DEF IInv, FilesOK
    <3> QED
      BY <2>8, <3>3 DEF Leave
  <2>9. CASE WriteFails
    BY <2>9, FailedWrite
  <2> QED
    BY <2>2, <2>3, <2>4, <2>5, <2>6, <2>7, <2>8, <2>9, Steps
<1>2. IInv /\ UNCHANGED vars => Stay
  BY DEF vars, segVars
<1>3. IInv /\ [Next]_vars => [Stay]_vars
  BY <1>1, <1>2
<1> HIDE DEF Stay
<1>4. Spec => [][Stay]_vars
  BY <1>3, Invariance, PTL DEF Spec
<1> QED
  BY <1>4 DEF Stay

-------------------------------------------------------------------------------
(* What a collection claims. *)

Complete == \A n \in made : Held[n] = given[n]

\* Every document claims at most what the files hold, the process what its
\* sinks were given; only the files of an open segment are behind.  The boundary
\* that an interval is counted from is of a frame of the segment.
ClaimsOK ==
  kind # "worker" =>
    /\ \A d \in {status, terminal} : d # NoDoc => d.done <= Sum(Between(Held), made)
    /\ doc.done <= Sum(Between(given), made)
    /\ \A n \in made : n = Current \/ Held[n] = given[n]
    /\ at \notin {"segment", "closing", "leaving"} => Complete
    /\ at \in {"segment", "checkpoint"} /\ last => given[Current] > 0

LEMMA MadeIsFinite == NumbersOK => IsFiniteSet(made)
BY CaptureAssumption, FS_Interval DEF NumbersOK

LEMMA HeldOfFiles ==
  ASSUME FilesOK
  PROVE  /\ Held \in [Segments -> Nat] /\ given \in [Segments -> Nat]
         /\ \A n \in Segments : Held[n] = file[n] + lost[n] /\ Held[n] <= given[n]
BY DEF FilesOK, Held

\* More frames in a segment are no fewer intervals.
LEMMA IntervalsOfMore ==
  ASSUME NEW M \in SUBSET Segments, IsFiniteSet(M),
         NEW f \in [Segments -> Nat], NEW g \in [Segments -> Nat], \A n \in M : f[n] <= g[n]
  PROVE  /\ Sum(Between(f), M) \in Nat /\ Sum(Between(g), M) \in Nat
         /\ Sum(Between(f), M) <= Sum(Between(g), M)
<1>1. \A n \in M : /\ Between(f)[n] \in Nat /\ Between(g)[n] \in Nat
                   /\ Between(f)[n] <= Between(g)[n]
  BY DEF Between
<1>2. Sum(Between(f), M) \in Nat /\ Sum(Between(g), M) \in Nat
  BY <1>1, SumIsNat
<1>3. Sum(Between(f), M) <= Sum(Between(g), M)
  BY <1>1, SumOfMore
<1> QED
  BY <1>2, <1>3

\* A frame more in a segment that has one is one interval more.
LEMMA IntervalsOfOne ==
  ASSUME NEW M \in SUBSET Segments, IsFiniteSet(M),
         NEW f \in [Segments -> Nat], NEW g \in [Segments -> Nat],
         NEW c \in M, f[c] > 0, g[c] = f[c] + 1, \A n \in M \ {c} : g[n] = f[n]
  PROVE  Sum(Between(g), M) = Sum(Between(f), M) + 1
<1>1. \A n \in M : Between(f)[n] \in Int /\ Between(g)[n] \in Int
  BY DEF Between
<1>2. Between(g)[c] = Between(f)[c] + 1
  BY DEF Between
<1>3. \A n \in M \ {c} : Between(g)[n] = Between(f)[n]
  BY DEF Between
<1> QED
  BY <1>1, <1>2, <1>3, SumWithMore

\* A new segment adds what it has.
LEMMA IntervalsOfOpened ==
  ASSUME NEW M \in SUBSET Segments, IsFiniteSet(M), NEW f \in [Segments -> Nat],
         NEW c \in Segments, c \notin M
  PROVE  /\ Sum(Between(f), M \cup {c}) \in Nat
         /\ Sum(Between(f), M) <= Sum(Between(f), M \cup {c})
<1>1. \A n \in M \cup {c} : Between(f)[n] \in Nat
  BY DEF Between
<1>2. Sum(Between(f), M) \in Nat
  BY <1>1, SumIsNat
<1>3. Sum(Between(f), M \cup {c}) = Between(f)[c] + Sum(Between(f), M)
  BY <1>1, SumWithOne
<1> QED
  BY <1>1, <1>2, <1>3

LEMMA InitiallyBacked == Init => ClaimsOK
<1> SUFFICES ASSUME Init PROVE ClaimsOK
  OBVIOUS
<1>1. /\ made = {} /\ status = NoDoc /\ terminal = NoDoc /\ doc.done = 0
      /\ at = "down" /\ given \in [Segments -> Nat]
  BY DEF Init, Registered
<1>2. IsFiniteSet(made) /\ made \subseteq Segments
  BY <1>1, FS_EmptySet
<1>3. Sum(Between(given), made) \in Nat
  BY <1>1, <1>2, IntervalsOfMore
<1> QED
  BY <1>1, <1>3 DEF ClaimsOK, Complete

\* Elsewhere a collection only writes its own document, and only when the
\* files are complete.
LEMMA ElsewhereWrites ==
  ASSUME IInv, Elsewhere, kind # "worker"
  PROVE  /\ UNCHANGED segVars
         /\ \/ doc'.done = doc.done /\ doc'.segments = doc.segments
            \/ at = "down" /\ doc' # NoDoc /\ doc' \in {status, Registered}
         /\ terminal' = terminal \/ (terminal' = doc /\ at = "terminal")
         /\ \/ status' = status
            \/ status' = doc' /\ doc'.done = doc.done /\ at \in {"loop", "cleared", "checkpoint", "save"}
         /\ at \in {"segment", "closing", "leaving"} => at' \in {"segment", "closing", "leaving"}
         /\ at' \in {"segment", "checkpoint"} =>
              at \in {"segment", "checkpoint"} /\ last' = last
<1>1. IsDoc(doc)
  BY DEF IInv, DocsOK
<1>2. UNCHANGED segVars
  BY ElsewhereLeavesSegments
<1>3. CASE Start
  <2>1. Registered # NoDoc
    BY DEF Registered, NoDoc
  <2>2. /\ at = "down" /\ UNCHANGED <<status, terminal>>
        /\ doc' = IF status = NoDoc THEN Registered ELSE status
        /\ at' \notin {"segment", "checkpoint"}
    BY <1>3 DEF Start, threadVars
  <2> QED
    BY <1>2, <2>1, <2>2
<1>4. CASE WaitForStorage \/ ExpandBudget \/ ResumeAfterPause \/ SaveClosed
  <2> DEFINE Kept == \/ \E s, p : doc' = [doc EXCEPT !.state = s, !.paused = p]
                     \/ \E s, x : doc' = [doc EXCEPT !.state = s, !.max = x]
                     \/ \E s : doc' = [doc EXCEPT !.state = s]
                     \/ \E p : doc' = [doc EXCEPT !.paused = p]
  <2>1. WaitForStorage => Kept
    BY Zenon DEF WaitForStorage
  <2>2. ExpandBudget => Kept
    BY Zenon DEF ExpandBudget
  <2>3. ResumeAfterPause => Kept
    BY Zenon DEF ResumeAfterPause
  <2>4. SaveClosed => Kept
    BY Zenon DEF SaveClosed
  <2>5. Kept
    BY <1>4, <2>1, <2>2, <2>3, <2>4
  <2>6. /\ status' = doc' /\ UNCHANGED terminal /\ at \in {"loop", "cleared", "save"}
        /\ at' \notin {"segment", "checkpoint"}
    BY <1>4 DEF WaitForStorage, ExpandBudget, ResumeAfterPause, Cleared, SaveClosed, AfterSegment,
                Save, Worker
  <2>7. doc'.done = doc.done /\ doc'.segments = doc.segments
    BY <1>1, <2>5 DEF IsDoc
  <2> QED
    BY <1>2, <2>6, <2>7
<1>5. CASE Checkpoint
  <2>1. /\ doc' = [doc EXCEPT !.state = "running"] /\ status' = doc'
        /\ UNCHANGED <<terminal, last>> /\ at = "checkpoint"
    BY <1>5 DEF Checkpoint, Save, Worker
  <2>2. doc'.done = doc.done /\ doc'.segments = doc.segments
    BY <1>1, <2>1 DEF IsDoc
  <2> QED
    BY <1>2, <2>1, <2>2
<1>6. CASE Final
  <2>1. /\ doc' = [doc EXCEPT !.state = "completed"] /\ status' = status
        /\ UNCHANGED terminal /\ at = "final" /\ at' = "terminal"
    BY <1>6 DEF Final, Worker, threadVars
  <2>2. doc'.done = doc.done /\ doc'.segments = doc.segments
    BY <1>1, <2>1 DEF IsDoc
  <2> QED
    BY <1>2, <2>1, <2>2
<1>7. CASE EndRun \/ EndSegment \/ LoaderGone \/ SealFails \/ JoinWriter \/ WriteTerminal
  BY <1>2, <1>7 DEF EndRun, EndSegment, LoaderGone, SealFails, JoinWriter, WriteTerminal,
                    ToClosing, threadVars
<1>10. ~\E s \in Sinks : SinkDies(s)
  BY DEF SinkDies, Worker
<1>8. CASE StateThread
  BY <1>8 DEF StateThread, TakeState, WriteState, IInv, EndOK
<1>9. CASE Signal \/ StorageLow \/ StorageBack
  BY <1>2, <1>9 DEF Signal, StorageLow, StorageBack, threadVars, frameVars
<1> QED
  BY <1>3, <1>4, <1>5, <1>6, <1>7, <1>8, <1>9, <1>10 DEF Elsewhere

LEMMA ElsewhereKeepsKind == Elsewhere => kind' = kind
BY DEF Elsewhere, Start, WaitForStorage, ExpandBudget, ResumeAfterPause, EndRun, Checkpoint,
       EndSegment, LoaderGone, SinkDies, SaveClosed, SealFails, JoinWriter, Final, WriteTerminal,
       StateThread, TakeState, WriteState, Signal, StorageLow, StorageBack

LEMMA ClaimsKept == IInv /\ IInv' /\ ClaimsOK /\ Next => ClaimsOK'
<1> SUFFICES ASSUME IInv, IInv', ClaimsOK, Next PROVE ClaimsOK'
  OBVIOUS
<1>1. CASE kind = "worker"
  <2>1. kind' = kind
    BY Steps, ElsewhereKeepsKind, FailedWrite
       DEF OpenSegment, Frame, BadFrame, Spill, CheckpointFlush, CloseSink, Seal, Leave, Stopped, Kill
  <2> QED
    BY <1>1, <2>1 DEF ClaimsOK
<1>2. CASE kind # "worker"
  <2> DEFINE claimed == Sum(Between(Held), made)
             taken == Sum(Between(given), made)
  <2>1. /\ \A d \in {status, terminal} : d # NoDoc => d.done <= claimed
        /\ doc.done <= taken
        /\ \A n \in made : n = Current \/ Held[n] = given[n]
        /\ at \notin {"segment", "closing", "leaving"} => Complete
        /\ at \in {"segment", "checkpoint"} /\ last => given[Current] > 0
    BY <1>2 DEF ClaimsOK
  <2>2. IsFiniteSet(made) /\ made \in SUBSET Segments
    BY MadeIsFinite, MadeAreSegments DEF IInv
  <2>3. /\ Held \in [Segments -> Nat] /\ given \in [Segments -> Nat]
        /\ \A n \in Segments : Held[n] = file[n] + lost[n] /\ Held[n] <= given[n]
        /\ file \in [Segments -> Nat] /\ lost \in [Segments -> Nat]
    BY HeldOfFiles DEF IInv, FilesOK
  <2>4. /\ Held' \in [Segments -> Nat] /\ given' \in [Segments -> Nat]
        /\ \A n \in Segments : Held'[n] = file'[n] + lost'[n] /\ Held'[n] <= given'[n]
    BY DEF IInv, FilesOK, Held
  <2>5. doc.done \in Nat /\ \A d \in {status, terminal} : d # NoDoc => d.done \in Nat
    BY DEF IInv, DocsOK, IsDoc, Documents
  <2>6. claimed \in Nat /\ taken \in Nat /\ claimed <= taken
    BY <2>2, <2>3, IntervalsOfMore
  <2>7. Complete => claimed = taken
    <3>1. ASSUME Complete PROVE taken <= claimed
      BY <2>2, <2>3, <3>1, IntervalsOfMore DEF Complete
    <3> QED
      BY <2>6, <3>1
  <2> HIDE DEF claimed, taken
  \* The files of the same segments hold as much as before, or more.
  <2>8. ASSUME UNCHANGED <<made, status, terminal>>, \A n \in made : Held[n] <= Held'[n]
        PROVE  \A d \in {status', terminal'} : d # NoDoc => d.done <= Sum(Between(Held), made)'
    <3>1. PICK h \in [Segments -> Nat] : h = Held'
      BY <2>4
    <3>2. Sum(Between(h), made) \in Nat /\ claimed <= Sum(Between(h), made)
      BY <2>2, <2>3, <2>8, <3>1, IntervalsOfMore DEF claimed
    <3>3. Sum(Between(Held), made)' = Sum(Between(h), made)
      BY <2>8, <3>1
    <3> QED
      BY <2>1, <2>5, <2>6, <2>8, <3>2, <3>3
  \* The same sinks were given as much as before, or more.
  <2>9. ASSUME UNCHANGED made, \A n \in made : given[n] <= given'[n]
        PROVE  /\ Sum(Between(given), made)' \in Nat
               /\ taken <= Sum(Between(given), made)'
    <3>1. PICK g \in [Segments -> Nat] : g = given'
      BY <2>4
    <3>2. Sum(Between(g), made) \in Nat /\ taken <= Sum(Between(g), made)
      BY <2>2, <2>3, <2>9, <3>1, IntervalsOfMore DEF taken
    <3> QED
      BY <2>9, <3>1, <3>2
  \* A frame more behind one that the segment has.
  <2>10. ASSUME UNCHANGED made, Current \in made, given[Current] > 0,
                given'[Current] = given[Current] + 1,
                \A n \in made \ {Current} : given'[n] = given[n]
         PROVE  Sum(Between(given), made)' = taken + 1
    <3>1. PICK g \in [Segments -> Nat] : g = given'
      BY <2>4
    <3>2. PICK c \in made : c = Current
      BY <2>10
    <3>3. g[c] = given[c] + 1 /\ given[c] > 0 /\ \A n \in made \ {c} : g[n] = given[n]
      BY <2>10, <3>1, <3>2
    <3>4. Sum(Between(g), made) = taken + 1
      BY <2>2, <2>3, <3>3, IntervalsOfOne DEF taken
    <3> QED
      BY <2>10, <3>1, <3>4
  <2>11. CASE Elsewhere
    <3>1. /\ UNCHANGED <<made, given, file, lost>>
          /\ \/ doc'.done = doc.done /\ doc'.segments = doc.segments
             \/ at = "down" /\ doc' # NoDoc /\ doc' \in {status, Registered}
          /\ terminal' = terminal \/ (terminal' = doc /\ at = "terminal")
          /\ \/ status' = status
             \/ /\ status' = doc' /\ doc'.done = doc.done
                /\ at \in {"loop", "cleared", "checkpoint", "save"}
          /\ at \in {"segment", "closing", "leaving"} => at' \in {"segment", "closing", "leaving"}
          /\ at' \in {"segment", "checkpoint"} =>
               at \in {"segment", "checkpoint"} /\ last' = last
      BY <1>2, <2>11, ElsewhereWrites DEF segVars
    <3>2. Held' = Held
      BY <3>1 DEF Held
    <3>3. at \notin {"segment", "closing", "leaving"} => doc.done <= claimed
      BY <2>1, <2>7
    <3>4. \A d \in {status', terminal'} : d # NoDoc => d.done <= claimed
      BY <2>1, <3>1, <3>3
    <3>5. doc'.done <= taken
      BY <2>1, <2>5, <2>6, <3>1 DEF Registered
    <3>6. \A n \in made : n = Current' \/ Held[n] = given[n]
      BY <2>1, <3>1 DEF Current, Complete
    <3>7. at' \notin {"segment", "closing", "leaving"} => Complete
      BY <2>1, <3>1
    <3>8. at' \in {"segment", "checkpoint"} /\ last' => given[Current'] > 0
      BY <2>1, <3>1 DEF Current
    <3> QED
      BY <3>1, <3>2, <3>4, <3>5, <3>6, <3>7, <3>8 DEF ClaimsOK, Complete, claimed, taken
  <2>12. CASE OpenSegment
    <3>1. /\ NextNumber \in Segments /\ NextNumber \notin made /\ doc'.segments = NextNumber
          /\ made' = made \cup {NextNumber}
          /\ UNCHANGED <<status, terminal, given, file, lost>>
          /\ at \in {"loop", "cleared"} /\ at' = "segment" /\ last' = FALSE
      BY <2>12, NextIsNewest DEF OpenSegment, Cleared, IInv, threadVars
    <3>2. doc'.done = doc.done
      BY <2>12 DEF OpenSegment, IInv, DocsOK, IsDoc
    <3>3. Held' = Held
      BY <3>1 DEF Held
    <3>4. /\ Sum(Between(Held), made') \in Nat /\ claimed <= Sum(Between(Held), made')
          /\ Sum(Between(given), made') \in Nat /\ taken <= Sum(Between(given), made')
      BY <2>2, <2>3, <3>1, IntervalsOfOpened DEF claimed, taken
    <3>5. \A d \in {status, terminal} : d # NoDoc => d.done <= Sum(Between(Held), made')
      BY <2>1, <2>5, <2>6, <3>4
    <3>6. doc'.done <= Sum(Between(given), made')
      BY <2>1, <2>5, <2>6, <3>2, <3>4
    <3>7. \A n \in made' : n = Current' \/ Held[n] = given[n]
      BY <2>1, <3>1 DEF Current, Complete
    <3> QED
      BY <3>1, <3>3, <3>5, <3>6, <3>7 DEF ClaimsOK
  <2>13. CASE Frame \/ BadFrame
    <3>1. /\ given' = [given EXCEPT ![Current] = @ + 1] /\ at = "segment" /\ at' = at
          /\ UNCHANGED <<made, file, lost, status, terminal>>
          /\ \E counted \in BOOLEAN : doc' = [doc EXCEPT !.done = Counted(counted)]
      BY <2>13 DEF Frame, BadFrame, Give, Buffered, threadVars
    <3>2. /\ \/ doc'.done = doc.done
             \/ last /\ doc'.done = doc.done + 1
          /\ doc'.segments = doc.segments
      BY <3>1 DEF IInv, DocsOK, IsDoc, Counted
    <3>3. Current \in made
      BY <3>1 DEF IInv, PlaceOK
    <3>4. \A n \in Segments : given'[n] = IF n = Current THEN given[n] + 1 ELSE given[n]
      BY <2>3, <3>1
    <3>5. Held' = Held /\ Current' = Current
      BY <3>1, <3>2 DEF Held, Current
    <3>6. \A d \in {status', terminal'} : d # NoDoc => d.done <= Sum(Between(Held), made)'
      BY <2>2, <2>3, <2>8, <3>1, <3>5
    <3>7. doc'.done <= Sum(Between(given), made)'
      <4>1. CASE doc'.done = doc.done
        <5>1. \A n \in made : given[n] <= given'[n]
          BY <2>2, <2>3, <3>4
        <5> QED
          BY <2>1, <2>5, <2>6, <2>9, <3>1, <4>1, <5>1
      <4>2. CASE last /\ doc'.done = doc.done + 1
        <5>1. given[Current] > 0 /\ given'[Current] = given[Current] + 1
          BY <2>1, <2>2, <3>1, <3>3, <3>4, <4>2
        <5>2. \A n \in made \ {Current} : given'[n] = given[n]
          BY <2>2, <3>4
        <5>3. Sum(Between(given), made)' = taken + 1
          BY <2>10, <3>1, <3>3, <5>1, <5>2
        <5> QED
          BY <2>1, <2>5, <2>6, <4>2, <5>3
      <4> QED
        BY <3>2, <4>1, <4>2
    <3>8. \A n \in made : n = Current' \/ Held'[n] = given'[n]
      BY <2>1, <2>2, <3>4, <3>5
    <3>9. given'[Current'] > 0
      BY <2>2, <2>3, <3>3, <3>4, <3>5
    <3> QED
      BY <3>1, <3>6, <3>7, <3>8, <3>9 DEF ClaimsOK
  \* Steps that only write more into the files of the segment.
  <2>14. ASSUME UNCHANGED <<made, given, lost, doc, status, terminal, last>>,
                \A n \in made : file[n] <= file'[n],
                at' \notin {"segment", "closing", "leaving"} => Complete',
                at' \in {"segment", "checkpoint"} => at \in {"segment", "checkpoint"}
         PROVE  ClaimsOK'
    <3>1. \A n \in made : Held[n] <= Held'[n] /\ Held'[n] <= given[n]
      <4>1. \A n \in made : file[n] \in Nat /\ file'[n] \in Nat /\ lost[n] \in Nat
        BY <2>2, <2>14 DEF IInv, FilesOK
      <4>2. ASSUME NEW n \in made
            PROVE  Held[n] = file[n] + lost[n] /\ Held'[n] = file'[n] + lost[n] /\ Held'[n] <= given[n]
        <5>1. n \in Segments /\ lost' = lost /\ given' = given
          BY <2>2, <2>14
        <5> QED
          BY <2>3, <2>4, <5>1
      <4> QED
        BY <2>14, <4>1, <4>2
    <3>2. \A d \in {status', terminal'} : d # NoDoc => d.done <= Sum(Between(Held), made)'
      BY <2>8, <2>14, <3>1
    <3>3. Sum(Between(given), made)' = taken
      BY <2>14 DEF taken
    <3>4. \A n \in made : n = Current \/ Held'[n] = given[n]
      <4>1. ASSUME NEW n \in made, n # Current
            PROVE  Held'[n] = given[n]
        <5>1. Held[n] = given[n] /\ Held[n] <= Held'[n] /\ Held'[n] <= given[n]
          BY <2>1, <3>1, <4>1
        <5>2. n \in Segments
          BY <2>2
        <5>3. Held'[n] \in Nat /\ given[n] \in Nat
          BY <2>3, <2>4, <5>2
        <5> QED
          BY <5>1, <5>3
      <4> QED
        BY <4>1
    <3> QED
      BY <2>1, <2>14, <3>2, <3>3, <3>4 DEF ClaimsOK, Current
  <2>15. CASE Spill
    <3>1. /\ file' = [file EXCEPT ![Current] = @ + 1]
          /\ file[Current] + lost[Current] < given[Current]
          /\ UNCHANGED <<made, given, lost, doc, status, terminal, at, last>> /\ Current \in made
      BY <2>15 DEF Spill, threadVars, frameVars
    <3>2. \A n \in made : file[n] <= file'[n]
      BY <2>2, <2>3, <3>1
    <3>3. at \in {"segment", "closing", "leaving"}
      BY <2>1, <2>2, <2>3, <3>1 DEF Complete
    <3> QED
      BY <2>14, <3>1, <3>2, <3>3
  <2>16. CASE CheckpointFlush \/ \E s \in Sinks : CloseSink(s)
    <3>1. /\ UNCHANGED <<made, given, lost, doc, status, terminal, last>>
          /\ at \in {"segment", "closing"} /\ file' \in {file, Flushed}
          /\ at' \in {"closing", "leaving"} \/ file' = Flushed
          /\ at' \in {"segment", "checkpoint"} => at = "segment"
      BY <2>16 DEF CheckpointFlush, CloseSink, AfterSinks, AfterFailedClose, threadVars, frameVars
    <3>2. Current \in made /\ Current \in Segments
      BY <2>2, <3>1 DEF IInv, PlaceOK
    <3>3. /\ \A n \in Segments : file[n] <= Flushed[n]
          /\ \A n \in Segments : Flushed[n] = IF n = Current THEN given[n] - lost[n] ELSE file[n]
      BY <3>2, FlushFills DEF IInv
    <3>4. \A n \in made : file[n] <= file'[n]
      BY <2>2, <2>3, <3>1, <3>3
    <3>5. file' = Flushed => Complete'
      <4>1. SUFFICES ASSUME file' = Flushed, NEW n \in made PROVE Held'[n] = given[n]
        BY <3>1 DEF Complete
      <4>2. Held'[n] = Flushed[n] + lost[n] /\ Held[n] = file[n] + lost[n]
        BY <2>2, <2>3, <2>4, <3>1, <4>1
      <4> QED
        BY <2>1, <2>2, <2>3, <3>3, <4>1, <4>2
    <3> QED
      BY <2>14, <3>1, <3>4, <3>5
  <2>17. CASE Seal
    <3>1. /\ UNCHANGED <<made, given, file, lost, doc, status, terminal, last>> /\ at = "seal"
          /\ at' \notin {"segment", "checkpoint"}
      BY <2>17 DEF Seal, AfterSegment, threadVars, frameVars
    <3>2. Complete'
      BY <2>1, <3>1 DEF Complete, Held
    <3>3. \A n \in made : file[n] <= file'[n]
      BY <2>2, <2>3, <3>1
    <3> QED
      BY <2>14, <3>1, <3>2, <3>3
  <2>18. CASE WriteFails
    <3>1. /\ at \in {"segment", "checkpoint"} /\ at' = "closing"
          /\ Current' = Current /\ Current \in made /\ Current \in Segments
          /\ UNCHANGED <<status, terminal, made, file>>
          /\ \A n \in Segments \ {Current} : given'[n] = given[n] /\ lost'[n] = lost[n]
          /\ \/ doc'.done = doc.done /\ given'[Current] \in {given[Current], given[Current] + 1}
             \/ /\ at = "segment" /\ last /\ doc'.done = doc.done + 1
                /\ given'[Current] = given[Current] + 1
      BY <2>18, FailedWrite DEF threadVars
    <3>2. lost[Current] = 0 /\ lost'[Current] \in Nat
      BY <3>1 DEF IInv, PlaceOK, FilesOK
    <3>3. \A n \in made : n = Current \/ n \in Segments \ {Current}
      BY <2>2
    <3>4. \A n \in made : Held[n] <= Held'[n]
      BY <2>2, <2>3, <2>4, <3>1, <3>2, <3>3
    <3>5. \A d \in {status', terminal'} : d # NoDoc => d.done <= Sum(Between(Held), made)'
      BY <2>8, <3>1, <3>4
    <3>6. doc'.done <= Sum(Between(given), made)'
      <4>1. CASE doc'.done = doc.done
        <5>1. \A n \in made : given[n] <= given'[n]
          BY <2>2, <2>3, <3>1, <3>3
        <5> QED
          BY <2>1, <2>5, <2>6, <2>9, <3>1, <4>1, <5>1
      <4>2. CASE last /\ at = "segment" /\ doc'.done = doc.done + 1
        <5>1. given[Current] > 0 /\ given'[Current] = given[Current] + 1
          BY <2>1, <2>3, <2>5, <3>1, <4>2
        <5>2. \A n \in made \ {Current} : given'[n] = given[n]
          BY <3>1, <3>3
        <5>3. Sum(Between(given), made)' = taken + 1
          BY <2>10, <3>1, <5>1, <5>2
        <5> QED
          BY <2>1, <2>5, <2>6, <4>2, <5>3
      <4> QED
        BY <3>1, <4>1, <4>2
    <3>7. \A n \in made : n = Current \/ Held'[n] = given'[n]
      <4>1. \A n \in made : n = Current \/ Held'[n] = Held[n]
        BY <2>2, <2>3, <2>4, <3>1, <3>3
      <4> QED
        BY <2>1, <3>1, <3>3, <4>1
    <3> QED
      BY <3>1, <3>5, <3>6, <3>7 DEF ClaimsOK
  <2>19. CASE Leave \/ Stopped \/ Kill
    <3>1. /\ given' = [n \in Segments |-> file'[n] + lost[n]] /\ doc' = Registered
          /\ UNCHANGED <<made, status, terminal, lost>> /\ at' = "down"
          /\ \/ file' = file
             \/ \E k \in file[Current] .. given[Current] - lost[Current] :
                  file' = [file EXCEPT ![Current] = k]
      BY <2>19 DEF Leave, Stopped, Kill, Gone
    <3>2. Held' = given'
      BY <3>1 DEF Held
    <3>3. \A n \in made : file[n] <= file'[n]
      BY <2>2, <2>3, <3>1
    <3>4. \A n \in made : Held[n] <= Held'[n]
      <4>1. \A n \in made : file[n] \in Nat /\ file'[n] \in Nat /\ lost[n] \in Nat
        BY <2>2, <2>3, <3>1 DEF IInv, FilesOK
      <4> QED
        BY <2>2, <2>3, <2>4, <3>1, <3>3, <4>1
    <3>5. \A d \in {status', terminal'} : d # NoDoc => d.done <= Sum(Between(Held), made)'
      BY <2>8, <3>1, <3>4
    <3>6. Sum(Between(given), made)' \in Nat
      <4>1. PICK g \in [Segments -> Nat] : g = given'
        BY <2>4
      <4>2. Sum(Between(g), made) \in Nat
        BY <2>2, <4>1, IntervalsOfMore
      <4> QED
        BY <3>1, <4>1, <4>2
    <3>7. doc'.done = 0
      BY <3>1 DEF Registered
    <3> QED
      BY <3>1, <3>2, <3>5, <3>6, <3>7 DEF ClaimsOK, Complete
  <2> QED
    BY <2>11, <2>12, <2>13, <2>15, <2>16, <2>17, <2>18, <2>19, Steps
<1> QED
  BY <1>1, <1>2

\* A document of a collection never claims more than its files hold, also when
\* the process is killed right after it is written.
THEOREM CollectionsAreBacked == Spec => []ClaimsAreBacked
<1>1. ClaimsOK /\ UNCHANGED vars => ClaimsOK'
  BY DEF vars, threadVars, segVars, frameVars, ClaimsOK, Complete, Current, Held
<1>2. IInv /\ IInv' /\ ClaimsOK /\ [Next]_vars => ClaimsOK'
  BY <1>1, ClaimsKept
<1>3. ClaimsOK /\ IInv => ClaimsAreBacked
  <2>1. IntervalsOf(Held) = Sum(Between(Held), made)
    BY DEF IntervalsOf, Sum
  <2> QED
    BY <2>1, CaptureAssumption DEF ClaimsOK, ClaimsAreBacked
<1> QED
  BY <1>2, <1>3, InitiallyBacked, Invariance, PTL DEF Spec

-------------------------------------------------------------------------------
-------------------------------------------------------------------------------
(* Histories. *)

\* The windows of a history begin after from, follow each other, and end
\* before until.
Clean(history, from, until) ==
  /\ history \in Seq(Windows)
  /\ \A i \in 1 .. Len(history) :
       /\ history[i].good
       /\ from <= history[i].start /\ history[i].end <= until
       /\ i > 1 => history[i - 1].end <= history[i].start

LEMMA EmptyIsClean ==
  ASSUME NEW from \in Nat, NEW until \in Nat
  PROVE  Clean(<<>>, from, until)
BY DEF Clean

LEMMA LaterIsClean ==
  ASSUME NEW history, NEW from \in Nat, NEW until \in Nat, NEW later \in Nat,
         Clean(history, from, until), until <= later
  PROVE  Clean(history, from, later)
<1>1. history \in Seq(Windows)
  BY DEF Clean
<1>2. \A i \in 1 .. Len(history) : history[i] \in Windows
  BY <1>1, ElementOfSeq
<1> QED
  BY <1>2 DEF Clean, Windows

LEMMA TailIsClean ==
  ASSUME NEW history, NEW from \in Nat, NEW until \in Nat, Clean(history, from, until),
         history # <<>>
  PROVE  Clean(Tail(history), from, until)
<1>1. /\ Tail(history) \in Seq(Windows)
      /\ Len(Tail(history)) = Len(history) - 1
      /\ \A i \in 1 .. Len(Tail(history)) : Tail(history)[i] = history[i + 1]
  BY HeadTailProperties DEF Clean
<1>2. Len(history) \in Nat
  BY LenProperties DEF Clean
<1>3. ASSUME NEW i \in 1 .. Len(Tail(history))
      PROVE  /\ Tail(history)[i].good
             /\ from <= Tail(history)[i].start /\ Tail(history)[i].end <= until
             /\ i > 1 => Tail(history)[i - 1].end <= Tail(history)[i].start
  <2>1. i + 1 \in 1 .. Len(history) /\ (i > 1 => i - 1 \in 1 .. Len(Tail(history)))
    BY <1>1, <1>2
  <2>2. i > 1 => Tail(history)[i - 1] = history[(i + 1) - 1]
    BY <1>1, <2>1
  <2> QED
    BY <1>1, <2>1, <2>2 DEF Clean
<1> QED
  BY <1>1, <1>3 DEF Clean

\* A good window that begins where the history ended continues it.
LEMMA AppendIsClean ==
  ASSUME NEW history, NEW from \in Nat, NEW until \in Nat, NEW later \in Nat,
         Clean(history, from, until), NEW window \in Windows, window.good,
         from <= window.start, until <= window.start, until <= later, window.end <= later
  PROVE  Clean(Append(history, window), from, later)
<1> DEFINE longer == Append(history, window)
<1>1. /\ history \in Seq(Windows) /\ Len(history) \in Nat
      /\ \A i \in 1 .. Len(history) : history[i] \in Windows
  BY LenProperties, ElementOfSeq DEF Clean
<1>2. /\ longer \in Seq(Windows) /\ Len(longer) = Len(history) + 1
      /\ \A i \in 1 .. Len(history) : longer[i] = history[i]
      /\ longer[Len(history) + 1] = window
  BY <1>1, AppendProperties
<1> HIDE DEF longer
<1>3. ASSUME NEW i \in 1 .. Len(longer)
      PROVE  /\ longer[i].good
             /\ from <= longer[i].start /\ longer[i].end <= later
             /\ i > 1 => longer[i - 1].end <= longer[i].start
  <2>1. CASE i \in 1 .. Len(history)
    <3>1. i > 1 => i - 1 \in 1 .. Len(history)
      BY <1>1, <2>1
    <3>2. longer[i] = history[i] /\ (i > 1 => longer[i - 1] = history[i - 1])
      BY <1>2, <2>1, <3>1
    <3>3. history[i].end \in Nat
      BY <1>1, <2>1 DEF Windows
    <3> QED
      BY <2>1, <3>2, <3>3 DEF Clean
  <2>2. CASE i = Len(history) + 1
    <3>1. longer[i] = window
      BY <1>2, <2>2
    <3>2. i > 1 => /\ longer[i - 1] = history[i - 1] /\ history[i - 1] \in Windows
                   /\ history[i - 1].end <= until
      BY <1>1, <1>2, <2>2 DEF Clean
    <3> QED
      BY <3>1, <3>2 DEF Windows
  <2> QED
    BY <1>1, <1>2, <2>1, <2>2
<1> QED
  BY <1>2, <1>3 DEF Clean, longer

\* The history of rolling_windows keeps that, and its length.
LEMMA ExtendedIsClean ==
  ASSUME NEW history, NEW from \in Nat, NEW until \in Nat, NEW later \in Nat,
         Clean(history, from, until), Len(history) <= Rolling,
         NEW window \in Windows, window.good,
         from <= window.start, until <= window.start, until <= later, window.end <= later
  PROVE  /\ Clean(Extended(history, window), from, later)
         /\ Len(Extended(history, window)) <= Rolling
<1>1. history \in Seq(Windows) /\ Len(history) \in Nat /\ Rolling \in Nat \ {0}
  BY LenProperties, ProfileAssumption DEF Clean
<1>2. CASE Len(history) < Rolling
  <2>1. Len(Append(history, window)) = Len(history) + 1
    BY <1>1, AppendProperties
  <2> QED
    BY <1>1, <1>2, <2>1, AppendIsClean DEF Extended
<1>3. CASE ~(Len(history) < Rolling)
  <2>1. history # <<>>
    BY <1>1, <1>3, EmptySeq
  <2>2. /\ Tail(history) \in Seq(Windows) /\ Len(Tail(history)) = Len(history) - 1
    BY <1>1, <2>1, HeadTailProperties
  <2>3. Clean(Tail(history), from, until)
    BY <2>1, TailIsClean
  <2>4. Len(Append(Tail(history), window)) = Len(history)
    BY <1>1, <2>2, AppendProperties
  <2> QED
    BY <1>3, <2>3, <2>4, AppendIsClean DEF Extended
<1> QED
  BY <1>2, <1>3
-------------------------------------------------------------------------------
(* Builders. *)

\* A builder between boundaries, of which from was the last bad one and until
\* the last.
BuilderOK(b, from, until) ==
  /\ b \in [previous : Nat \cup {NoTime}, history : Seq(Windows)]
  /\ Len(b.history) <= Rolling
  /\ IF b.previous = NoTime THEN b.history = <<>>
     ELSE /\ from <= b.previous /\ b.previous <= until
          /\ Clean(b.history, from, b.previous)

LEMMA FreshIsOK ==
  ASSUME NEW from, NEW until
  PROVE  BuilderOK(Fresh, from, until)
<1>1. Fresh \in [previous : Nat \cup {NoTime}, history : Seq(Windows)] /\ Len(Fresh.history) = 0
  BY DEF Fresh, NoTime
<1> QED
  BY <1>1, ProfileAssumption DEF BuilderOK, Fresh

LEMMA BaselineIsOK ==
  ASSUME NEW from \in Nat, NEW now \in Nat, from <= now
  PROVE  BuilderOK(Baseline(now), from, now)
<1>1. /\ Baseline(now) \in [previous : Nat \cup {NoTime}, history : Seq(Windows)]
      /\ Len(Baseline(now).history) = 0
  BY DEF Baseline
<1> QED
  BY <1>1, EmptyIsClean, ProfileAssumption DEF BuilderOK, Baseline, NoTime

\* A container that makes no row at a boundary keeps its history ...
LEMMA TouchedIsOK ==
  ASSUME NEW b, NEW from \in Nat, NEW until \in Nat, NEW now \in Nat,
         BuilderOK(b, from, until), from <= now, until <= now
  PROVE  BuilderOK([b EXCEPT !.previous = now], from, now)
<1> DEFINE next == [b EXCEPT !.previous = now]
<1>1. /\ next \in [previous : Nat \cup {NoTime}, history : Seq(Windows)]
      /\ next.previous = now /\ next.history = b.history /\ now # NoTime
  BY DEF BuilderOK, NoTime
<1> HIDE DEF next
<1>2. CASE b.previous = NoTime
  BY <1>1, <1>2, EmptyIsClean DEF BuilderOK
<1>3. CASE b.previous # NoTime
  <2>1. b.previous \in Nat /\ b.previous <= now /\ Clean(b.history, from, b.previous)
    BY <1>3 DEF BuilderOK
  <2> QED
    BY <1>1, <2>1, LaterIsClean DEF BuilderOK
<1> QED
  BY <1>2, <1>3 DEF next

\* ... and one of which there is nothing at a boundary keeps it too.
LEMMA UntouchedIsOK ==
  ASSUME NEW b, NEW from \in Nat, NEW until \in Nat, NEW now \in Nat,
         BuilderOK(b, from, until), until <= now
  PROVE  BuilderOK(b, from, now)
BY DEF BuilderOK, NoTime

\* A good window extends the history.
LEMMA ExtendedIsOK ==
  ASSUME NEW b, NEW from \in Nat, NEW until \in Nat, NEW now \in Nat,
         BuilderOK(b, from, until), until <= now, b.previous # NoTime
  PROVE  LET window == [start |-> b.previous, end |-> now, good |-> TRUE]
         IN /\ BuilderOK([previous |-> now, history |-> Extended(b.history, window)], from, now)
            /\ Clean(Append(b.history, window), from, now)
<1> DEFINE window == [start |-> b.previous, end |-> now, good |-> TRUE]
           longer == Extended(b.history, window)
<1>1. /\ b.previous \in Nat /\ from <= b.previous /\ b.previous <= now
      /\ Clean(b.history, from, b.previous) /\ Len(b.history) <= Rolling
  BY DEF BuilderOK
<1>2. /\ window \in Windows /\ window.good
      /\ window.start = b.previous /\ window.end = now
  BY <1>1 DEF Windows
<1> HIDE DEF window
<1>3. Clean(longer, from, now) /\ Len(longer) <= Rolling
  BY <1>1, <1>2, ExtendedIsClean
<1>4. Clean(Append(b.history, window), from, now)
  BY <1>1, <1>2, AppendIsClean
<1> HIDE DEF longer
<1>5. BuilderOK([previous |-> now, history |-> longer], from, now)
  <2>1. longer \in Seq(Windows) /\ now # NoTime /\ from <= now
    BY <1>1, <1>3 DEF Clean, NoTime
  <2> QED
    BY <1>3, <2>1 DEF BuilderOK
<1> QED
  BY <1>4, <1>5 DEF window, longer
-------------------------------------------------------------------------------
(* Boundaries. *)

\* The tracker and the last boundary.
TrackerOK ==
  /\ live \subseteq Containers /\ targets \subseteq Containers /\ metadata \subseteq Containers
  /\ frames \in Nat /\ irregular \in Nat /\ end \in Nat /\ known \subseteq Containers
  /\ clean \in Nat /\ incidents \in Nat /\ excluded \in Nat
  /\ incident \in BOOLEAN /\ since \in Nat /\ fatal \in BOOLEAN
  /\ lastBad \in Nat /\ lastBad <= end

BuildersOK ==
  /\ builders = [c \in Containers |-> builders[c]]
  /\ \A c \in Containers : BuilderOK(builders[c], lastBad, end)

RecoveryInv == TrackerOK /\ BuildersOK /\ EligibleRowsAreClean

LEMMA InitiallyClean == RecoveryInit => RecoveryInv
<1> SUFFICES ASSUME RecoveryInit PROVE RecoveryInv
  OBVIOUS
<1>1. TrackerOK
  <2>1. live \subseteq Containers /\ targets \subseteq Containers
        /\ metadata \subseteq Containers /\ known \subseteq Containers
    BY DEF RecoveryInit
  <2>2. /\ frames \in Nat /\ irregular \in Nat /\ end \in Nat /\ clean \in Nat
        /\ incidents \in Nat /\ excluded \in Nat /\ since \in Nat
        /\ lastBad \in Nat /\ lastBad <= end
    BY DEF RecoveryInit
  <2>3. incident \in BOOLEAN /\ fatal \in BOOLEAN
    BY DEF RecoveryInit
  <2> QED
    BY <2>1, <2>2, <2>3 DEF TrackerOK
<1>2. BuildersOK
  BY FreshIsOK DEF RecoveryInit, BuildersOK
<1> QED
  BY <1>1, <1>2 DEF RecoveryInit, RecoveryInv, EligibleRowsAreClean

\* The tracker's step.
LEMMA StepKeepsTracker ==
  ASSUME TrackerOK, NEW interval \in Intervals, NEW lag \in Lags, NEW hard \in BOOLEAN,
         Step(interval, lag, hard), end' = end + interval
  PROVE  /\ clean' \in Nat /\ incidents' \in Nat /\ excluded' \in Nat
         /\ incident' \in BOOLEAN /\ since' \in Nat /\ fatal' \in BOOLEAN
         /\ lastBad' \in Nat /\ lastBad' <= end' /\ lastBad <= lastBad'
         /\ end' \in Nat /\ end <= end'
         /\ lastBad' = IF Bad(interval, lag) THEN end' ELSE lastBad
<1> DEFINE bad == Bad(interval, lag)
           now == end + interval
           start == IF Opens(bad) THEN IF First THEN now ELSE end ELSE since
           in == incident \/ bad
           spent == excluded + (IF in /\ ~First THEN interval ELSE 0)
           count == incidents + (IF Opens(bad) THEN 1 ELSE 0)
<1>1. interval \in Nat /\ now \in Nat /\ end <= now /\ lastBad <= now
  BY ProfileAssumption DEF TrackerOK
<1>2. clean' \in Nat
  BY DEF Step, CleanAfter, TrackerOK
<1>3. count \in Nat /\ spent \in Nat /\ start \in Nat
  BY <1>1 DEF TrackerOK
<1>4. incidents' = count /\ excluded' = spent /\ since' = IF in THEN start ELSE 0
  BY DEF Step
<1>5. fatal' \in BOOLEAN /\ incident' \in BOOLEAN
  BY DEF Step
<1>6. lastBad' = IF bad THEN now ELSE lastBad
  BY DEF Step
<1> HIDE DEF count, spent, start, in
<1>7. lastBad' \in Nat /\ lastBad' <= now /\ lastBad <= lastBad'
  BY <1>1, <1>6 DEF TrackerOK
<1>8. incidents' \in Nat /\ excluded' \in Nat /\ since' \in Nat
  BY <1>3, <1>4
<1> QED
  BY <1>1, <1>2, <1>5, <1>6, <1>7, <1>8

\* What a boundary makes of the builders and the rows.
LEMMA FrameKeepsBuilders ==
  ASSUME TrackerOK, BuildersOK,
         NEW interval \in Intervals, NEW lag \in Lags, NEW hard \in BOOLEAN,
         NEW quiet \in SUBSET Containers, NEW slow \in SUBSET Containers,
         NEW stale \in BOOLEAN,
         Assembled(interval, lag, hard, quiet, slow, stale)
  PROVE  BuildersOK' /\ EligibleRowsAreClean'
<1> DEFINE now == end + interval
           bad == Bad(interval, lag)
           named == IF stale THEN known ELSE metadata
           seen == targets \cap named
           sampled == {c \in seen : builders[c].previous # NoTime /\ c \in live \ quiet}
           InCadence(c) == now - builders[c].previous \in MinInterval .. MaxInterval
           Late(c) == c \in slow \/ lag > MaxLag \/ lag < -10
           Made(c) == Window(c, now, InCadence(c) /\ ~Late(c))
           Next_(c) == IF c \notin sampled THEN [builders[c] EXCEPT !.previous = now]
                       ELSE IF Spoils(InCadence(c), Late(c)) THEN Baseline(now)
                       ELSE [previous |-> now, history |-> Extended(builders[c].history, Made(c))]
           Row(c) == [container |-> c,
                      windows |-> Append(builders[c].history, Made(c)),
                      eligible |-> /\ InCadence(c) /\ ~Late(c)
                                   /\ ~fatal' /\ Ready(bad, clean')
                                   /\ Len(builders[c].history) >= Rolling]
           After(c) == IF bad THEN IF c \in seen THEN Baseline(now) ELSE Fresh
                       ELSE IF c \in seen THEN Next_(c) ELSE builders[c]
<1>1. /\ Step(interval, lag, hard) /\ end' = now
      /\ rows' = {Row(c) : c \in sampled}
      /\ builders' = [c \in Containers |-> After(c)]
  BY DEF Assembled
<1>2. /\ lastBad' \in Nat /\ now \in Nat /\ end \in Nat /\ lastBad \in Nat
      /\ lastBad' <= now /\ end <= now
      /\ lastBad' = IF bad THEN now ELSE lastBad
  BY <1>1, StepKeepsTracker DEF TrackerOK
<1>3. sampled \subseteq seen /\ seen \subseteq Containers
  BY DEF TrackerOK
<1>4. \A c \in sampled : builders[c].previous # NoTime
  OBVIOUS
<1>5. \A c \in sampled : ~Spoils(InCadence(c), Late(c)) =>
        Made(c) = [start |-> builders[c].previous, end |-> now, good |-> TRUE]
  BY DEF Spoils, Window
<1>6. \A c \in sampled : Row(c).eligible =>
        /\ ~bad /\ Len(builders[c].history) >= Rolling
        /\ ~Spoils(InCadence(c), Late(c))
  BY DEF Ready, Spoils
<1>7. \A c \in sampled : Row(c).windows = Append(builders[c].history, Made(c))
  OBVIOUS
<1> HIDE DEF now, bad, seen, sampled, InCadence, Late, Made, Row
<1>8. ASSUME NEW c \in Containers PROVE BuilderOK(builders'[c], lastBad', now)
  <2>1. builders'[c] = After(c) /\ BuilderOK(builders[c], lastBad, end)
    BY <1>1 DEF BuildersOK
  <2>2. CASE bad
    <3>1. builders'[c] = IF c \in seen THEN Baseline(now) ELSE Fresh
      BY <2>1, <2>2
    <3> QED
      BY <1>2, <3>1, FreshIsOK, BaselineIsOK
  <2>3. CASE ~bad /\ c \notin seen
    BY <1>2, <2>1, <2>3, UntouchedIsOK
  <2>4. CASE ~bad /\ c \in seen /\ c \notin sampled
    BY <1>2, <2>1, <2>4, TouchedIsOK
  <2>5. CASE ~bad /\ c \in sampled /\ Spoils(InCadence(c), Late(c))
    BY <1>2, <1>3, <2>1, <2>5, BaselineIsOK
  <2>6. CASE ~bad /\ c \in sampled /\ ~Spoils(InCadence(c), Late(c))
    <3>1. builders'[c] = [previous |-> now, history |-> Extended(builders[c].history, Made(c))]
      BY <1>3, <2>1, <2>6
    <3> QED
      BY <1>2, <1>4, <1>5, <2>1, <2>6, <3>1, ExtendedIsOK
  <2> QED
    BY <1>3, <2>2, <2>3, <2>4, <2>5, <2>6
<1>9. BuildersOK'
  <2>1. builders' = [c \in Containers |-> builders'[c]]
    BY <1>1
  <2> QED
    BY <1>1, <1>8, <2>1 DEF BuildersOK
<1>10. ASSUME NEW c \in sampled, Row(c).eligible
       PROVE  /\ Len(Row(c).windows) = Rolling + 1
              /\ \A i \in DOMAIN Row(c).windows :
                   /\ Row(c).windows[i].good
                   /\ Row(c).windows[i].start >= lastBad'
                   /\ i > 1 => Row(c).windows[i - 1].end <= Row(c).windows[i].start
  <2> DEFINE history == builders[c].history
             windows == Row(c).windows
  <2>1. BuilderOK(builders[c], lastBad, end) /\ c \in Containers
    BY <1>3 DEF BuildersOK
  <2>2. ~bad /\ Len(history) >= Rolling /\ windows = Append(history, Made(c))
    BY <1>6, <1>7, <1>10
  <2>3. Made(c) = [start |-> builders[c].previous, end |-> now, good |-> TRUE]
    BY <1>5, <1>6, <1>10
  <2>4. Clean(windows, lastBad, now)
    BY <1>2, <1>4, <2>1, <2>2, <2>3, ExtendedIsOK
  <2>5. history \in Seq(Windows) /\ Len(history) <= Rolling /\ Len(history) \in Nat
    BY <2>1, LenProperties DEF BuilderOK
  <2>6. Made(c) \in Windows
    <3>1. builders[c].previous \in Nat
      BY <1>4, <2>1 DEF BuilderOK
    <3> QED
      BY <1>2, <2>3, <3>1 DEF Windows
  <2>7. Len(windows) = Rolling + 1
    BY <2>2, <2>5, <2>6, AppendProperties, ProfileAssumption
  <2> HIDE DEF windows
  <2>8. \A i \in DOMAIN windows : i \in 1 .. Len(windows) /\ windows[i].start \in Nat
    <3>1. windows \in Seq(Windows)
      BY <2>4 DEF Clean
    <3>2. DOMAIN windows = 1 .. Len(windows)
      BY <3>1, LenProperties
    <3>3. \A i \in 1 .. Len(windows) : windows[i] \in Windows
      BY <3>1, ElementOfSeq
    <3> QED
      BY <3>2, <3>3 DEF Windows
  <2>9. \A i \in DOMAIN windows :
          /\ windows[i].good /\ windows[i].start >= lastBad'
          /\ i > 1 => windows[i - 1].end <= windows[i].start
    BY <1>2, <2>2, <2>4, <2>8 DEF Clean
  <2> QED
    BY <2>7, <2>9 DEF windows
<1>11. EligibleRowsAreClean'
  BY <1>1, <1>10 DEF EligibleRowsAreClean
<1> QED
  BY <1>9, <1>11

LEMMA BoundaryKeeps == RecoveryInv /\ Boundary => RecoveryInv'
<1> SUFFICES ASSUME RecoveryInv, Boundary PROVE RecoveryInv'
  OBVIOUS
<1>1. PICK interval \in Intervals, lag \in Lags, hard \in BOOLEAN, stale \in BOOLEAN,
           quiet \in SUBSET Containers, slow \in SUBSET Containers :
        /\ Assembled(interval, lag, hard, quiet, slow, stale)
        /\ irregular' = irregular + (Count(interval # Regular) + Count(lag # 0) + Count(hard)
                                   + Count(stale)) + Cardinality(quiet) + Cardinality(slow)
  BY DEF Boundary
<1>2. BuildersOK' /\ EligibleRowsAreClean'
  BY <1>1, FrameKeepsBuilders DEF RecoveryInv
<1>3. Step(interval, lag, hard) /\ end' = end + interval /\ frames' = frames + 1
      /\ known' = IF stale THEN known ELSE metadata
  BY <1>1 DEF Assembled
<1>4. Cardinality(quiet) \in Nat /\ Cardinality(slow) \in Nat
  BY FS_CardinalityType, FS_Subset, ProfileAssumption
<1>5. irregular' \in Nat
  BY <1>1, <1>4 DEF Count, RecoveryInv, TrackerOK
<1>6. TrackerOK'
  <2>1. /\ clean' \in Nat /\ incidents' \in Nat /\ excluded' \in Nat
        /\ incident' \in BOOLEAN /\ since' \in Nat /\ fatal' \in BOOLEAN
        /\ lastBad' \in Nat /\ lastBad' <= end' /\ end' \in Nat
    BY <1>3, StepKeepsTracker DEF RecoveryInv
  <2>2. live' = live /\ targets' = targets /\ metadata' = metadata
    BY DEF Boundary, resolverVars
  <2> QED
    BY <1>3, <1>5, <2>1, <2>2 DEF RecoveryInv, TrackerOK
<1> QED
  BY <1>2, <1>6 DEF RecoveryInv

LEMMA ResolverKeeps == RecoveryInv /\ (Change \/ WriteTargets \/ WriteMetadata) => RecoveryInv'
<1> SUFFICES ASSUME RecoveryInv, Change \/ WriteTargets \/ WriteMetadata PROVE RecoveryInv'
  OBVIOUS
<1>1. /\ UNCHANGED <<frames, end, known, trackerVars, builders, rows, lastBad>>
      /\ irregular' \in {irregular, irregular + 1}
      /\ live' \subseteq Containers /\ targets' \subseteq Containers
      /\ metadata' \subseteq Containers
  BY DEF Change, WriteTargets, WriteMetadata, RecoveryInv, TrackerOK
<1>2. TrackerOK'
  BY <1>1 DEF RecoveryInv, TrackerOK, trackerVars
<1>3. BuildersOK' /\ EligibleRowsAreClean'
  BY <1>1 DEF RecoveryInv, BuildersOK, EligibleRowsAreClean
<1> QED
  BY <1>2, <1>3 DEF RecoveryInv

\* RecoveryInv is an invariant of the capture.
THEOREM RecoveryInvariance == RecoverySpec => []RecoveryInv
<1>1. RecoveryInit => RecoveryInv
  BY InitiallyClean
<1>2. RecoveryInv /\ [RecoveryNext]_recoveryVars => RecoveryInv'
  <2>1. RecoveryInv /\ UNCHANGED recoveryVars => RecoveryInv'
    BY DEF RecoveryInv, TrackerOK, BuildersOK, EligibleRowsAreClean, recoveryVars, resolverVars, trackerVars
  <2> QED
    BY <2>1, BoundaryKeeps, ResolverKeeps DEF RecoveryNext
<1> QED
  BY <1>1, <1>2, PTL DEF RecoverySpec

\* Every variable has its type, and no history is longer than rolling_windows.
THEOREM TypeCorrect == RecoverySpec => []RecoveryTypeOK
<1>1. RecoveryInv => RecoveryTypeOK
  <2> SUFFICES ASSUME RecoveryInv PROVE RecoveryTypeOK
    OBVIOUS
  <2>1. \A c \in Containers :
          /\ builders[c] \in [previous : Nat \cup {NoTime}, history : Seq(Windows)]
          /\ Len(builders[c].history) <= Rolling
    BY DEF RecoveryInv, BuildersOK, BuilderOK
  <2>2. builders \in [Containers -> [previous : Nat \cup {NoTime}, history : Seq(Windows)]]
    BY <2>1 DEF RecoveryInv, BuildersOK
  <2> QED
    BY <2>1, <2>2 DEF RecoveryInv, TrackerOK, RecoveryTypeOK
<1> QED
  BY <1>1, RecoveryInvariance, PTL

\* An eligible row is made of windows after the last bad boundary, in cadence,
\* in time and in order.
THEOREM RowsAreClean == RecoverySpec => []EligibleRowsAreClean
<1>1. RecoveryInv => EligibleRowsAreClean
  BY DEF RecoveryInv
<1> QED
  BY <1>1, RecoveryInvariance, PTL

-------------------------------------------------------------------------------
(* The journal. *)

Entries == [interval : Nat, bad : BOOLEAN, ready : BOOLEAN]

Inside(J, i) == \E j \in 1 .. i : J[j].bad /\ \A k \in j .. i - 1 : ~J[k].ready
Spent(J, S) == MapThenSumSet(LAMBDA i : J[i].interval, S)
AllInside(J) == {i \in DOMAIN J : Inside(J, i)}
StillOpen(J) == {i \in AllInside(J) : ~J[i].ready}
Begins(J) == {i \in DOMAIN J : J[i].bad /\ (i > 1 => J[i - 1].ready \/ ~Inside(J, i - 1))}
SinceBegin(J) == {i \in DOMAIN J : i >= Max(Begins(J))}
Costs(J) == [i \in DOMAIN J |-> J[i].interval]

LEMMA SpentIsSum ==
  ASSUME NEW J \in Seq(Entries), NEW S \in SUBSET (DOMAIN J)
  PROVE  /\ Spent(J, S) = Sum(Costs(J), S) /\ IsFiniteSet(S)
         /\ \A i \in S : Costs(J)[i] = J[i].interval /\ J[i].interval \in Nat
<1> DEFINE f == Costs(J)
           byJournal(h) ==
             h = [s \in SUBSET S |-> IF s = {} THEN 0
                    ELSE J[CHOOSE x \in s : TRUE].interval + h[s \ {CHOOSE x \in s : TRUE}]]
<1>1. \A i \in DOMAIN J : J[i] \in Entries
  OBVIOUS
<1>2. \A i \in S : f[i] = J[i].interval /\ f[i] \in Nat
  BY <1>1 DEF Costs, Entries
<1>3. IsFiniteSet(S)
  <2>1. DOMAIN J = 1 .. Len(J) /\ Len(J) \in Nat
    OBVIOUS
  <2>2. IsFiniteSet(DOMAIN J)
    BY <2>1, FS_Interval
  <2> QED
    BY <2>2, FS_Subset
<1>4. ASSUME NEW h PROVE byJournal(h) <=> Folds(h, f, S)
  <2>1. ASSUME NEW s \in SUBSET S
        PROVE  (IF s = {} THEN 0
                  ELSE J[CHOOSE x \in s : TRUE].interval + h[s \ {CHOOSE x \in s : TRUE}])
             = (IF s = {} THEN 0
                  ELSE f[CHOOSE x \in s : TRUE] + h[s \ {CHOOSE x \in s : TRUE}])
    <3>1. CASE s = {}
      BY <3>1
    <3>2. CASE s # {}
      <4>1. PICK c \in s : c = CHOOSE x \in s : TRUE
        BY <3>2
      <4>2. f[c] = J[c].interval
        BY <1>2
      <4> HIDE DEF f
      <4> QED
        BY <3>2, <4>1, <4>2
    <3> QED
      BY <3>1, <3>2
  <2> HIDE DEF f
  <2> QED
    BY <2>1 DEF Folds
<1> HIDE DEF f
<1>5. PICK g : Totals(g, f, S)
  BY <1>2, <1>3, TotalsExist
<1>6. Folds(g, f, S) /\ \A h : Folds(h, f, S) => h = g
  BY <1>3, <1>5, FoldsAreTotals
<1>7. byJournal(g) /\ \A h : byJournal(h) => h = g
  BY <1>4, <1>6
<1>8. Spent(J, S) = g[S]
  BY <1>7 DEF Spent, MapThenSumSet, MapThenFoldSet
<1>9. Sum(f, S) = g[S]
  BY <1>3, <1>5, SumIsTotal
<1> QED
  BY <1>2, <1>3, <1>8, <1>9 DEF f

\* K is J and r, its n-th entry, which is inside when it is bad or the journal
\* ends in an incident.
Extends(K, J, r, n) ==
  /\ K \in Seq(Entries) /\ DOMAIN K = DOMAIN J \cup {n} /\ n \notin DOMAIN J
  /\ DOMAIN J = 1 .. Len(J) /\ Len(J) \in Nat /\ Len(K) = n /\ n = Len(J) + 1
  /\ K[n] = r /\ \A i \in DOMAIN J : K[i] = J[i]
  /\ \A i \in DOMAIN J : i \in AllInside(K) <=> i \in AllInside(J)
  /\ n \in AllInside(K) <=> r.bad \/ Len(J) \in StillOpen(J)

LEMMA OneMoreEntry ==
  ASSUME NEW J \in Seq(Entries), NEW r \in Entries
  PROVE  Extends(Append(J, r), J, r, Len(J) + 1)
<1> DEFINE K == Append(J, r)
           n == Len(J) + 1
<1>1. /\ K \in Seq(Entries) /\ DOMAIN K = DOMAIN J \cup {n} /\ n \notin DOMAIN J
      /\ DOMAIN J = 1 .. Len(J) /\ Len(J) \in Nat /\ Len(K) = n
      /\ K[n] = r /\ \A i \in DOMAIN J : K[i] = J[i]
  OBVIOUS
<1>2. ASSUME NEW i \in DOMAIN J PROVE Inside(K, i) <=> Inside(J, i)
  <2>1. \A j \in 1 .. i : K[j] = J[j] /\ \A k \in j .. i - 1 : K[k] = J[k]
    BY <1>1
  <2> QED
    BY <2>1 DEF Inside
<1>3. ASSUME Inside(K, n)
      PROVE  r.bad \/ (Len(J) > 0 /\ Inside(J, Len(J)) /\ ~J[Len(J)].ready)
  <2>1. PICK j \in 1 .. n : K[j].bad /\ \A k \in j .. n - 1 : ~K[k].ready
    BY <1>3 DEF Inside
  <2>2. CASE j = n
    BY <1>1, <2>1, <2>2
  <2>3. CASE j # n
    <3>1. j \in 1 .. Len(J) /\ n - 1 = Len(J) /\ Len(J) \in Nat
      BY <1>1, <2>3
    <3>2. \A k \in j .. Len(J) : ~J[k].ready
      <4> TAKE k \in j .. Len(J)
      <4>1. k \in DOMAIN J /\ k \in j .. n - 1
        BY <1>1, <3>1
      <4> QED
        BY <1>1, <2>1, <4>1
    <3>3. J[j].bad
      BY <1>1, <2>1, <3>1
    <3>4. Inside(J, Len(J))
      <4>1. \A k \in j .. Len(J) - 1 : ~J[k].ready
        BY <3>1, <3>2
      <4> QED
        BY <3>1, <3>3, <4>1 DEF Inside
    <3>5. Len(J) > 0 /\ Len(J) \in j .. Len(J)
      BY <3>1
    <3> QED
      BY <3>2, <3>4, <3>5
  <2> QED
    BY <2>2, <2>3
<1>4. ASSUME r.bad PROVE Inside(K, n)
  <2>1. n \in 1 .. n /\ n .. n - 1 = {}
    BY <1>1
  <2> QED
    BY <1>1, <1>4, <2>1 DEF Inside
<1>5. ASSUME Len(J) > 0, Inside(J, Len(J)), ~J[Len(J)].ready PROVE Inside(K, n)
  <2>1. PICK j \in 1 .. Len(J) : J[j].bad /\ \A k \in j .. Len(J) - 1 : ~J[k].ready
    BY <1>5 DEF Inside
  <2>2. j \in 1 .. n /\ K[j].bad
    BY <1>1, <2>1
  <2>3. ASSUME NEW k \in j .. n - 1 PROVE ~K[k].ready
    <3>1. k \in DOMAIN J /\ (k = Len(J) \/ k \in j .. Len(J) - 1)
      <4>1. j \in Nat /\ k \in j .. n - 1 /\ 1 <= j /\ n = Len(J) + 1
        BY <2>1, <2>3
      <4>2. PICK len \in Nat : len = Len(J)
        BY <1>1
      <4>3. k \in 1 .. len /\ (k = len \/ k \in j .. len - 1)
        BY <4>1, <4>2
      <4> QED
        BY <1>1, <4>2, <4>3
    <3> QED
      BY <1>1, <1>5, <2>1, <3>1
  <2> QED
    BY <2>2, <2>3 DEF Inside
<1>6. \A i \in DOMAIN J : i \in AllInside(K) <=> i \in AllInside(J)
  BY <1>1, <1>2 DEF AllInside
<1>7. Len(J) \in AllInside(J) <=> Len(J) > 0 /\ Inside(J, Len(J))
  BY <1>1 DEF AllInside
<1>8. n \in AllInside(K) <=> Inside(K, n)
  BY <1>1 DEF AllInside
<1>9. Len(J) \in StillOpen(J) <=> Len(J) > 0 /\ Inside(J, Len(J)) /\ ~J[Len(J)].ready
  BY <1>7 DEF StillOpen
<1>10. n \in AllInside(K) <=> r.bad \/ Len(J) \in StillOpen(J)
  BY <1>3, <1>4, <1>5, <1>8, <1>9
<1> QED
  BY <1>1, <1>6, <1>10 DEF Extends

SpentWith(K, J, r, n, S) ==
  /\ Spent(J, S) \in Nat
  /\ Spent(K, S) = Spent(J, S)
  /\ Spent(K, S \cup {n}) = Spent(J, S) + r.interval

LEMMA OneMoreSpent ==
  ASSUME NEW J \in Seq(Entries), NEW r \in Entries, NEW K, NEW n, Extends(K, J, r, n),
         NEW S \in SUBSET (DOMAIN J)
  PROVE  SpentWith(K, J, r, n, S)
<1>1. /\ K \in Seq(Entries) /\ DOMAIN K = DOMAIN J \cup {n} /\ n \notin DOMAIN J
      /\ K[n] = r /\ \A i \in DOMAIN J : K[i] = J[i]
  BY DEF Extends
<1>2. /\ Spent(J, S) = Sum(Costs(J), S) /\ IsFiniteSet(S)
      /\ \A i \in S : Costs(J)[i] = J[i].interval /\ J[i].interval \in Nat
  BY SpentIsSum
<1>3. /\ Spent(K, S) = Sum(Costs(K), S) /\ Spent(K, S \cup {n}) = Sum(Costs(K), S \cup {n})
      /\ \A i \in S \cup {n} : Costs(K)[i] = K[i].interval /\ K[i].interval \in Nat
  <2>1. S \in SUBSET (DOMAIN K) /\ S \cup {n} \in SUBSET (DOMAIN K)
    BY <1>1
  <2> QED
    BY <1>1, <2>1, SpentIsSum
<1>4. \A i \in S : Costs(K)[i] \in Int /\ Costs(K)[i] = Costs(J)[i]
  BY <1>1, <1>2, <1>3
<1>5. Sum(Costs(K), S) = Sum(Costs(J), S)
  BY <1>2, <1>4, SumOfSame
<1>6. Sum(Costs(J), S) \in Nat
  BY <1>2, SumIsNat
<1>7. Sum(Costs(K), S \cup {n}) = Costs(K)[n] + Sum(Costs(K), S)
  <2>1. n \notin S /\ Costs(K)[n] \in Int
    BY <1>1, <1>3
  <2> QED
    BY <1>2, <1>4, <2>1, SumWithOne
<1>8. Costs(K)[n] = r.interval /\ r.interval \in Nat
  BY <1>1, <1>3
<1> QED
  BY ONLY <1>2, <1>3, <1>5, <1>6, <1>7, <1>8 DEF SpentWith

-------------------------------------------------------------------------------
(* Incidents and their budgets. *)

JournalOK ==
  /\ journal \in Seq(Entries) /\ frames = Len(journal)
  /\ incident <=> frames \in StillOpen(journal)

SpentOK ==
  /\ incidents = Cardinality(Begins(journal))
  /\ excluded = Spent(journal, AllInside(journal))
  /\ incident => /\ Begins(journal) # {}
                 /\ end - since = Spent(journal, SinceBegin(journal))

BudgetsOK ==
  ~fatal => /\ incidents <= MaxIncidents /\ excluded <= MaxExcluded
            /\ incident => end - since <= MaxIncident

AccountOK == JournalOK /\ SpentOK /\ BudgetsOK

\* The sets of boundaries that the accounts are about, one boundary later.
LEMMA LaterSets ==
  ASSUME NEW J \in Seq(Entries), NEW r \in Entries, NEW K, NEW n, Extends(K, J, r, n),
         NEW open \in BOOLEAN, open <=> Len(J) \in StillOpen(J)
  PROVE  /\ AllInside(K) = IF r.bad \/ open THEN AllInside(J) \cup {n} ELSE AllInside(J)
         /\ Begins(K) = IF r.bad /\ ~open THEN Begins(J) \cup {n} ELSE Begins(J)
         /\ r.bad /\ ~open => SinceBegin(K) = {n}
         /\ open /\ Begins(J) # {} => SinceBegin(K) = SinceBegin(J) \cup {n}
         /\ IsFiniteSet(Begins(J)) /\ n \notin Begins(J)
<1>1. /\ K \in Seq(Entries) /\ DOMAIN K = DOMAIN J \cup {n} /\ n \notin DOMAIN J
      /\ DOMAIN J = 1 .. Len(J) /\ Len(J) \in Nat /\ Len(K) = n /\ n = Len(J) + 1
      /\ K[n] = r /\ \A i \in DOMAIN J : K[i] = J[i]
      /\ \A i \in DOMAIN J : i \in AllInside(K) <=> i \in AllInside(J)
      /\ n \in AllInside(K) <=> r.bad \/ open
  BY DEF Extends
<1>2. AllInside(K) = IF r.bad \/ open THEN AllInside(J) \cup {n} ELSE AllInside(J)
  <2>1. AllInside(K) \subseteq DOMAIN K /\ AllInside(J) \subseteq DOMAIN J
    BY DEF AllInside
  <2>2. \A i : i \in AllInside(K) <=> i \in AllInside(J) \/ (i = n /\ n \in AllInside(K))
    BY <1>1, <2>1
  <2>3. CASE r.bad \/ open
    BY <1>1, <2>2, <2>3
  <2>4. CASE ~(r.bad \/ open)
    BY <1>1, <2>2, <2>4
  <2> QED
    BY <2>3, <2>4
<1>3. Begins(K) = IF r.bad /\ ~open THEN Begins(J) \cup {n} ELSE Begins(J)
  <2> DEFINE opens(H, i) == H[i].bad /\ (i > 1 => H[i - 1].ready \/ i - 1 \notin AllInside(H))
  <2>1. ASSUME NEW i \in DOMAIN J PROVE opens(K, i) <=> opens(J, i)
    <3>1. i > 1 => i - 1 \in DOMAIN J
      BY <1>1
    <3> QED
      BY <1>1, <3>1
  <2>2. opens(K, n) <=> r.bad /\ ~open
    <3>1. (n > 1 <=> Len(J) > 0) /\ n - 1 = Len(J)
      BY <1>1
    <3>2. opens(K, n) <=> r.bad /\ (Len(J) > 0 => K[Len(J)].ready \/ Len(J) \notin AllInside(K))
      BY <1>1, <3>1
    <3>3. CASE Len(J) > 0
      <4>1. Len(J) \in DOMAIN J
        BY <1>1, <3>3
      <4>2. K[Len(J)] = J[Len(J)] /\ (Len(J) \in AllInside(K) <=> Len(J) \in AllInside(J))
        BY <1>1, <4>1
      <4> QED
        BY <3>2, <3>3, <4>2 DEF StillOpen
    <3>4. CASE ~(Len(J) > 0)
      <4>1. Len(J) \notin AllInside(J)
        BY <1>1, <3>4 DEF AllInside
      <4> QED
        BY <3>2, <3>4, <4>1 DEF StillOpen
    <3> QED
      BY <3>3, <3>4
  <2>3. Begins(K) = {i \in DOMAIN K : opens(K, i)} /\ Begins(J) = {i \in DOMAIN J : opens(J, i)}
    <3>1. \A H : \A i \in DOMAIN H : i > 1 /\ i - 1 \in DOMAIN H =>
            (Inside(H, i - 1) <=> i - 1 \in AllInside(H))
      BY DEF AllInside
    <3>2. \A i \in DOMAIN K : i > 1 => i - 1 \in DOMAIN K
      BY <1>1
    <3>3. \A i \in DOMAIN J : i > 1 => i - 1 \in DOMAIN J
      BY <1>1
    <3> QED
      BY <3>1, <3>2, <3>3 DEF Begins
  <2> HIDE DEF opens
  <2> QED
    BY <1>1, <2>1, <2>2, <2>3
<1>4. IsFiniteSet(Begins(J)) /\ n \notin Begins(J) /\ \A i \in Begins(J) : i \in Nat /\ i < n
  <2>1. Begins(J) \in SUBSET (1 .. Len(J)) /\ IsFiniteSet(1 .. Len(J))
    BY <1>1, FS_Interval DEF Begins
  <2>2. IsFiniteSet(Begins(J))
    BY <2>1, FS_Subset
  <2> QED
    BY <1>1, <2>1, <2>2
<1>5. ASSUME r.bad /\ ~open PROVE SinceBegin(K) = {n}
  <2>1. Max(Begins(K)) = n
    <3>1. n \in Begins(K) /\ \A i \in Begins(K) : i \in Nat /\ i <= n
      BY <1>1, <1>3, <1>4, <1>5
    <3>2. PICK S : S = Begins(K)
      OBVIOUS
    <3>3. n \in S /\ \A i \in S : n >= i /\ i \in Nat
      BY <1>1, <3>1, <3>2
    <3>4. \A x \in S : (\A y \in S : x >= y) => x = n
      BY <3>3
    <3>5. Max(S) = n
      BY <3>3, <3>4 DEF Max
    <3> QED
      BY <3>2, <3>5
  <2> QED
    BY <1>1, <2>1 DEF SinceBegin
<1>6. ASSUME open, Begins(J) # {} PROVE SinceBegin(K) = SinceBegin(J) \cup {n}
  <2>1. Begins(K) = Begins(J)
    BY <1>3, <1>6
  <2>2. Max(Begins(J)) \in Begins(J)
    <3>1. \E x \in Begins(J) : \A y \in Begins(J) : x >= y
      <4>1. PICK S : S = Begins(J)
        OBVIOUS
      <4>2. S \in SUBSET Nat /\ S # {} /\ n \in Nat /\ \A i \in S : i < n
        BY <1>1, <1>4, <1>6, <4>1
      <4>3. \E x \in S : \A y \in S : x >= y
        BY <4>2, MaxOfFinite
      <4> QED
        BY <4>1, <4>3
    <3> QED
      BY <3>1 DEF Max
  <2>3. PICK m \in Nat : m = Max(Begins(J)) /\ m < n
    BY <1>4, <2>2
  <2> QED
    BY <1>1, <2>1, <2>3 DEF SinceBegin
<1> QED
  BY <1>2, <1>3, <1>4, <1>5, <1>6

LEMMA InitiallyAccounted == RecoveryInit => AccountOK
<1> SUFFICES ASSUME RecoveryInit PROVE AccountOK
  OBVIOUS
<1>1. /\ journal = <<>> /\ frames = 0 /\ incidents = 0 /\ excluded = 0 /\ incident = FALSE
  BY DEF RecoveryInit
<1>2. Begins(<<>>) = {} /\ AllInside(<<>>) = {}
  BY DEF Begins, AllInside
<1>3. <<>> \in Seq(Entries) /\ {} \in SUBSET (DOMAIN <<>>)
  OBVIOUS
<1>4. Spent(<<>>, {}) = 0
  <2>1. Spent(<<>>, {}) = Sum(Costs(<<>>), {})
    BY <1>3, SpentIsSum
  <2>2. Sum(Costs(<<>>), {}) = 0
    BY SumStep, FS_EmptySet
  <2> QED
    BY <2>1, <2>2
<1>5. JournalOK
  <2>1. StillOpen(<<>>) = {} /\ Len(<<>>) = 0
    BY <1>2 DEF StillOpen
  <2> QED
    BY <1>1, <1>3, <2>1 DEF JournalOK
<1>6. SpentOK
  BY <1>1, <1>2, <1>4, FS_EmptySet DEF SpentOK
<1>7. BudgetsOK
  BY <1>1, ProfileAssumption DEF BudgetsOK
<1> QED
  BY <1>5, <1>6, <1>7 DEF AccountOK

LEMMA AccountKept ==
  ASSUME AccountOK, TrackerOK, ~fatal,
         NEW interval \in Intervals, NEW lag \in Lags, NEW hard \in BOOLEAN,
         Step(interval, lag, hard), frames' = frames + 1, end' = end + interval
  PROVE  AccountOK'
<1> DEFINE n == frames + 1
           cost == IF First THEN 0 ELSE interval
           now == end + interval
<1>1. PICK bad \in BOOLEAN : bad = Bad(interval, lag)
  BY DEF Bad, BadCadence
<1>2. PICK ready \in BOOLEAN : ready = Ready(bad, clean')
  BY DEF Ready
<1>3. PICK in \in BOOLEAN : in <=> incident \/ bad
  OBVIOUS
<1>4. PICK opens \in BOOLEAN : opens <=> bad /\ ~incident
  OBVIOUS
<1>5. PICK start : start = IF opens THEN IF First THEN now ELSE end ELSE since
  OBVIOUS
<1>6. PICK r : r = [interval |-> cost, bad |-> bad, ready |-> ready]
  OBVIOUS
<1>7. /\ incidents' = incidents + (IF opens THEN 1 ELSE 0)
      /\ excluded' = excluded + (IF in /\ ~First THEN interval ELSE 0)
      /\ since' = (IF in THEN start ELSE 0)
      /\ incident' = (in /\ ~ready)
      /\ journal' = Append(journal, r)
  BY <1>1, <1>2, <1>3, <1>4, <1>5, <1>6 DEF Step, Opens
<1>8. ~fatal' => /\ ~(in /\ now - start > MaxIncident)
                 /\ ~(incidents' > MaxIncidents) /\ ~(excluded' > MaxExcluded)
  BY <1>1, <1>2, <1>3, <1>4, <1>5 DEF Step, Opens
<1>9. /\ interval \in Nat /\ end \in Nat /\ since \in Nat /\ excluded \in Nat /\ incidents \in Nat
      /\ frames \in Nat /\ cost \in Nat /\ start \in Nat
  BY <1>5, ProfileAssumption DEF TrackerOK
<1>10. journal \in Seq(Entries) /\ n = Len(journal) + 1 /\ r \in Entries
  BY <1>6, <1>9 DEF AccountOK, JournalOK, Entries
<1>11. PICK J \in Seq(Entries) : J = journal
  BY <1>10
<1>12. PICK K : K = Append(J, r) /\ Extends(K, J, r, n)
  BY <1>10, <1>11, OneMoreEntry
<1>13. PICK open \in BOOLEAN : open <=> incident
  BY DEF TrackerOK
<1>14. open <=> Len(J) \in StillOpen(J)
  BY <1>11, <1>13 DEF AccountOK, JournalOK
<1>15. /\ AllInside(K) = (IF r.bad \/ open THEN AllInside(J) \cup {n} ELSE AllInside(J))
       /\ Begins(K) = (IF r.bad /\ ~open THEN Begins(J) \cup {n} ELSE Begins(J))
       /\ r.bad /\ ~open => SinceBegin(K) = {n}
       /\ open /\ Begins(J) # {} => SinceBegin(K) = SinceBegin(J) \cup {n}
       /\ IsFiniteSet(Begins(J)) /\ n \notin Begins(J)
  <2> HIDE DEF n
  <2> QED
    BY <1>10, <1>12, <1>14, LaterSets
<1>16. /\ K \in Seq(Entries) /\ Len(K) = n /\ K[n] = r
       /\ n \in AllInside(K) <=> r.bad \/ open
  <2> HIDE DEF n
  <2> QED
    BY <1>12, <1>14 DEF Extends
<1>17. /\ r.bad = bad /\ r.ready = ready /\ r.interval = cost /\ journal' = K /\ (First <=> frames = 0)
       /\ opens <=> r.bad /\ ~open
       /\ in <=> r.bad \/ open
  BY <1>3, <1>4, <1>6, <1>7, <1>11, <1>12, <1>13 DEF First
<1>18. \A S \in SUBSET (DOMAIN J) : /\ Spent(J, S) \in Nat
                                   /\ Spent(K, S) = Spent(J, S)
                                   /\ Spent(K, S \cup {n}) = Spent(J, S) + cost
  <2> HIDE DEF n, cost
  <2> TAKE S \in SUBSET (DOMAIN J)
  <2>1. J \in Seq(Entries) /\ r \in Entries /\ Extends(K, J, r, n) /\ S \in SUBSET (DOMAIN J)
    BY <1>10, <1>12
  <2>2. SpentWith(K, J, r, n, S)
    BY ONLY <2>1, OneMoreSpent
  <2> QED
    BY <1>17, <2>2 DEF SpentWith
<1> HIDE DEF n, cost, now
<1>19. ready => ~bad
  BY <1>2 DEF Ready
<1>20. incidents' = Cardinality(Begins(K))
  <2>1. incidents = Cardinality(Begins(J))
    BY <1>11 DEF AccountOK, SpentOK
  <2>2. Cardinality(Begins(J) \cup {n}) = Cardinality(Begins(J)) + 1
    BY <1>15, FS_AddElement
  <2>3. CASE opens
    <3>1. Begins(K) = Begins(J) \cup {n}
      BY <1>15, <1>17, <2>3
    <3> QED
      BY <1>7, <2>1, <2>2, <2>3, <3>1
  <2>4. CASE ~opens
    <3>1. Begins(K) = Begins(J)
      BY <1>15, <1>17, <2>4
    <3> QED
      BY <1>7, <1>9, <2>1, <2>4, <3>1
  <2> QED
    BY <2>3, <2>4
<1>21. excluded' = Spent(K, AllInside(K))
  <2>1. excluded = Spent(J, AllInside(J)) /\ AllInside(J) \in SUBSET (DOMAIN J)
    BY <1>11 DEF AccountOK, SpentOK, AllInside
  <2>2. excluded' = excluded + (IF in THEN cost ELSE 0)
    BY <1>7, <1>9 DEF cost
  <2>3. CASE in
    <3>1. AllInside(K) = AllInside(J) \cup {n}
      BY <1>15, <1>17, <2>3
    <3>2. Spent(K, AllInside(K)) = Spent(J, AllInside(J)) + cost
      BY <1>18, <2>1, <3>1
    <3>3. excluded' = excluded + cost
      BY <2>2, <2>3
    <3> QED
      BY <2>1, <3>2, <3>3
  <2>4. CASE ~in
    <3>1. AllInside(K) = AllInside(J)
      BY <1>15, <1>17, <2>4
    <3>2. Spent(K, AllInside(K)) = Spent(J, AllInside(J))
      BY <1>18, <2>1, <3>1
    <3>3. excluded' = excluded
      BY <1>9, <2>2, <2>4
    <3> QED
      BY <2>1, <3>2, <3>3
  <2> QED
    BY <2>3, <2>4
<1>22. in => Begins(K) # {} /\ now - start = Spent(K, SinceBegin(K))
  <2>1. SinceBegin(J) \in SUBSET (DOMAIN J) /\ {} \in SUBSET (DOMAIN J)
    BY DEF SinceBegin
  <2>2. CASE opens
    <3>1. Begins(K) # {} /\ SinceBegin(K) = {} \cup {n}
      BY <1>15, <1>17, <2>2
    <3>2. Spent(K, SinceBegin(K)) = Spent(J, {}) + cost
      BY <1>18, <2>1, <3>1
    <3>3. Spent(J, {}) = 0
      <4>1. Spent(J, {}) = Sum(Costs(J), {})
        BY <2>1, SpentIsSum
      <4>2. Sum(Costs(J), {}) = 0
        BY SumStep, FS_EmptySet
      <4> QED
        BY <4>1, <4>2
    <3>4. now - start = cost
      BY <1>5, <1>9, <2>2 DEF cost, now
    <3> QED
      BY <1>9, <3>1, <3>2, <3>3, <3>4
  <2>3. CASE ~opens /\ in
    <3>1. open /\ start = since
      BY <1>5, <1>17, <2>3
    <3>2. Begins(J) # {} /\ end - since = Spent(J, SinceBegin(J))
      BY <1>11, <1>13, <3>1 DEF AccountOK, SpentOK
    <3>3. Begins(K) = Begins(J) /\ SinceBegin(K) = SinceBegin(J) \cup {n}
      BY <1>15, <3>1, <3>2
    <3>4. Spent(K, SinceBegin(K)) = Spent(J, SinceBegin(J)) + cost
      BY <1>18, <2>1, <3>3
    <3>5. cost = interval
      <4>1. frames \in StillOpen(journal)
        BY <1>13, <3>1 DEF AccountOK, JournalOK
      <4>2. frames \in DOMAIN journal /\ 0 \notin DOMAIN journal
        BY <1>10, <4>1 DEF StillOpen, AllInside
      <4> QED
        BY <4>2 DEF cost, First
    <3> QED
      BY <1>9, <3>1, <3>2, <3>3, <3>4, <3>5 DEF now
  <2> QED
    BY <2>2, <2>3
<1>23. JournalOK'
  <2>1. frames' = n /\ n > 0
    BY <1>9 DEF n
  <2>2. incident' <=> n \in StillOpen(K)
    BY <1>7, <1>16, <1>17 DEF StillOpen
  <2> QED
    BY <1>16, <1>17, <2>1, <2>2 DEF JournalOK
<1>24. SpentOK'
  <2>1. incident' => in /\ end' - since' = now - start
    BY <1>7, <1>9 DEF now
  <2> QED
    BY <1>17, <1>20, <1>21, <1>22, <2>1 DEF SpentOK
<1>25. BudgetsOK'
  <2>1. incidents' \in Nat /\ excluded' \in Nat
    BY <1>7, <1>9
  <2>2. incident' => in /\ end' - since' = now - start
    BY <1>7, <1>9 DEF now
  <2>3. now - start \in Int
    BY <1>9 DEF now
  <2> QED
    BY <1>8, <2>1, <2>2, <2>3, ProfileAssumption DEF BudgetsOK
<1> QED
  BY <1>23, <1>24, <1>25 DEF AccountOK

\* What the tracker spends of its budgets is what the journal says, whatever
\* the cadence, the lags and the profile; without an error no budget is exceeded.
THEOREM IncidentsAreCounted == RecoverySpec => []IncidentsAreAccounted
<1>1. AccountOK /\ RecoveryInv /\ Boundary => AccountOK'
  <2> SUFFICES ASSUME AccountOK, RecoveryInv, Boundary PROVE AccountOK'
    OBVIOUS
  <2>1. PICK interval \in Intervals, lag \in Lags, hard \in BOOLEAN, stale \in BOOLEAN,
             quiet \in SUBSET Containers, slow \in SUBSET Containers :
          Assembled(interval, lag, hard, quiet, slow, stale)
    BY DEF Boundary
  <2>2. Step(interval, lag, hard) /\ end' = end + interval /\ frames' = frames + 1 /\ ~fatal
    BY <2>1 DEF Assembled, Boundary
  <2> QED
    BY <2>2, AccountKept DEF RecoveryInv
<1>2. AccountOK /\ (UNCHANGED recoveryVars \/ Change \/ WriteTargets \/ WriteMetadata) => AccountOK'
  BY DEF recoveryVars, trackerVars, Change, WriteTargets, WriteMetadata, AccountOK, JournalOK,
         SpentOK, BudgetsOK
<1>3. AccountOK /\ RecoveryInv /\ [RecoveryNext]_recoveryVars => AccountOK'
  BY <1>1, <1>2 DEF RecoveryNext
<1>4. AccountOK => IncidentsAreAccounted
  <2> SUFFICES ASSUME AccountOK PROVE IncidentsAreAccounted
    OBVIOUS
  <2>1. Starts = Begins(journal)
    BY DEF Starts, Begins, Boundaries, InIncident, Inside
  <2>2. \A S : Duration(S) = Spent(journal, S)
    BY DEF Duration, Spent
  <2>3. {i \in Boundaries : InIncident(i)} = AllInside(journal)
    BY DEF AllInside, Boundaries, InIncident, Inside
  <2>4. {i \in Boundaries : i >= Max(Starts)} = SinceBegin(journal)
    BY <2>1 DEF SinceBegin, Boundaries
  <2> QED
    BY <2>1, <2>2, <2>3, <2>4 DEF AccountOK, SpentOK, BudgetsOK, IncidentsAreAccounted
<1> QED
  BY <1>3, <1>4, InitiallyAccounted, RecoveryInvariance, PTL DEF RecoverySpec
===============================================================================
