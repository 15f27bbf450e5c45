------------------------ MODULE SyscallCountersProofs ------------------------
(***************************************************************************)
(* Proofs about SyscallCounters, for every set of cgroups, allow list,     *)
(* number of CPUs, map size and bound: no program adds to an element of    *)
(* another cgroup, the worker rejects a frame for nothing but skips, and a *)
(* window counts exactly the calls between the two copies it is taken      *)
(* from.                                                                   *)
(***************************************************************************)
EXTENDS SyscallCounters, Integers, WellFoundedInduction, TLAPS

Runs == [pc : {"count", "skip"}, cg : Cgroups, id : Ids, skipped : BOOLEAN,
         element : Elements]

\* What the two arguments need of the types.
Shape ==
  /\ program \in [Cpus -> {Idle} \cup Runs]
  /\ pc \in {"add", "snapshot", "asleep", "stopped"}
  /\ IsInjective(pulse_cgroups) /\ Range(pulse_cgroups) \subseteq Elements
  /\ attached \in BOOLEAN
  /\ ~attached => \A c \in Cpus : program[c] = Idle

\* The element of a run is its cgroup's, or nobody's.  It can be nobody's
\* only between the deletions and the end of the sleep, and only in a run
\* the sleep waits for: a free element is given away with no run on it.
Owns(c) == /\ program[c].cg \in DOMAIN pulse_cgroups
           /\ pulse_cgroups[program[c].cg] = program[c].element
Orphan(c) == /\ program[c].element \notin Range(pulse_cgroups)
             /\ program[c].cg \notin DOMAIN pulse_cgroups

Elemental ==
  \A c \in Cpus : program[c] # Idle =>
    \/ Owns(c)
    \/ /\ Orphan(c)
       /\ pc \in {"snapshot", "asleep"}
       /\ pc = "asleep" => c \in running

OwnInv == Shape /\ Elemental

LEMMA RunTypes ==
  ASSUME NEW run \in {Idle} \cup Runs, run # Idle
  PROVE  /\ run \in Runs
         /\ [run EXCEPT !.pc = "skip"] \in Runs
         /\ [run EXCEPT !.pc = "skip"].cg = run.cg
         /\ [run EXCEPT !.pc = "skip"].element = run.element
  BY DEF Runs

LEMMA OwnInvInit == Init => OwnInv
  BY DEF Init, OwnInv, Shape, Elemental, Nothing, IsInjective, Range

\* A step on one CPU: a run begins, goes on with its skip, or ends.
LEMMA OwnInvProgram ==
  ASSUME OwnInv, NEW c \in Cpus, Program(c)
  PROVE  OwnInv'
<1> USE DEF OwnInv
<1>u. /\ UNCHANGED <<pulse_cgroups, pc, attached>> /\ attached
      /\ running' = running \/ running' = running \ {c}
  <2>1. CASE \E g \in Cgroups, i \in Ids, skipped \in BOOLEAN : Enter(c, g, i, skipped)
    BY <2>1 DEF Enter, mapVars, loaderVars
  <2>2. CASE Count(c)
    BY <2>2 DEF Count, Return, loaderVars, Shape, Idle
  <2>3. CASE CountSkip(c)
    BY <2>3 DEF CountSkip, Return, loaderVars, Shape, Idle
  <2> QED  BY <2>1, <2>2, <2>3 DEF Program
<1>c. \/ /\ program' = [program EXCEPT ![c] = Idle]
      \/ /\ running' = running
         /\ \E run \in Runs :
              /\ program' = [program EXCEPT ![c] = run]
              /\ \/ /\ run.cg \in DOMAIN pulse_cgroups
                    /\ pulse_cgroups[run.cg] = run.element
                 \/ /\ program[c] # Idle
                    /\ run.cg = program[c].cg /\ run.element = program[c].element
  <2>1. ASSUME NEW g \in Cgroups, NEW i \in Ids, NEW skipped \in BOOLEAN,
               Enter(c, g, i, skipped)
        PROVE  \E run \in Runs :
                 /\ running' = running
                 /\ program' = [program EXCEPT ![c] = run]
                 /\ run.cg \in DOMAIN pulse_cgroups
                 /\ pulse_cgroups[run.cg] = run.element
    <3> DEFINE run == [pc |-> "count", cg |-> g, id |-> i, skipped |-> skipped,
                       element |-> pulse_cgroups[g]]
    <3>1. pulse_cgroups[g] \in Elements
      BY <2>1 DEF Enter, Shape, Range
    <3>2. run \in Runs
      BY <3>1 DEF Runs
    <3> QED  BY <2>1, <3>2 DEF Enter
  <2>2. CASE Count(c)
    <3>1. program[c] \in {Idle} \cup Runs /\ program[c] # Idle
      BY <2>2 DEF Count, Shape, Idle
    <3>2. CASE program[c].skipped
      BY <2>2, <3>1, <3>2, RunTypes DEF Count, Shape
    <3>3. CASE ~program[c].skipped
      BY <2>2, <3>3 DEF Count, Return
    <3> QED  BY <3>2, <3>3
  <2>3. CASE CountSkip(c)
    BY <2>3 DEF CountSkip, Return
  <2> QED  BY <2>1, <2>2, <2>3 DEF Program
<1>1. Shape'
  BY <1>u, <1>c DEF Shape
<1>2. Elemental'
  <2> SUFFICES ASSUME NEW d \in Cpus, program'[d] # Idle
               PROVE  \/ Owns(d)'
                      \/ /\ Orphan(d)'
                         /\ pc' \in {"snapshot", "asleep"}
                         /\ pc' = "asleep" => d \in running'
    BY DEF Elemental
  <2>1. CASE d # c
    BY <1>u, <1>c, <2>1 DEF Shape, Elemental, Owns, Orphan
  <2>2. CASE d = c
    BY <1>u, <1>c, <2>2 DEF Shape, Elemental, Owns, Orphan
  <2> QED  BY <2>1, <2>2
<1> QED  BY <1>1, <1>2

LEMMA OwnInvLoader ==
  ASSUME OwnInv, [Next]_vars, ~\E c \in Cpus : Program(c)
  PROVE  OwnInv'
<1> USE DEF OwnInv
<1> DEFINE Same == UNCHANGED <<pulse_cgroups, program, attached>>
<1>1. CASE FindTarget
  BY <1>1 DEF FindTarget, mapVars, kernelVars, Shape, Elemental, Owns, Orphan
<1>2. CASE AddTarget
  <2>1. PICK e \in Free : pulse_cgroups' = With(pulse_cgroups, Key, e)
    BY <1>2 DEF AddTarget
  <2>2. /\ Key \notin DOMAIN pulse_cgroups /\ pc = "add"
        /\ UNCHANGED <<program, attached, pc, running>>
    BY <1>2 DEF AddTarget, kernelVars
  <2>3. /\ DOMAIN pulse_cgroups' = DOMAIN pulse_cgroups \cup {Key}
        /\ pulse_cgroups'[Key] = e
        /\ \A g \in DOMAIN pulse_cgroups : pulse_cgroups'[g] = pulse_cgroups[g]
    BY <2>1, <2>2 DEF With
  <2>4. IsInjective(pulse_cgroups') /\ Range(pulse_cgroups') \subseteq Elements
    BY <2>3 DEF Shape, IsInjective, Range, Free
  <2>5. Elemental'
    BY <2>2, <2>3 DEF Elemental, Owns
  <2> QED  BY <2>2, <2>4, <2>5 DEF Shape
<1>3. CASE MapFull
  BY <1>3 DEF MapFull, mapVars, kernelVars, Shape, Elemental, Owns, Orphan
<1>4. CASE DeleteTargets
  <2>1. /\ pc = "add" /\ UNCHANGED program /\ attached'
        /\ pulse_cgroups' = Restrict(pulse_cgroups, Kept)
        /\ \/ attached /\ pc' = "snapshot"
           \/ ~attached /\ pc' = "asleep"
    BY <1>4 DEF DeleteTargets, Sleep, Shape
  <2>2. /\ DOMAIN pulse_cgroups' \subseteq DOMAIN pulse_cgroups
        /\ \A g \in DOMAIN pulse_cgroups' : pulse_cgroups'[g] = pulse_cgroups[g]
    BY <2>1 DEF Restrict, Kept
  <2>3. Shape'
    BY <2>1, <2>2 DEF Shape, IsInjective, Range
  <2>4. Elemental'
    BY <2>1, <2>2 DEF Shape, Elemental, Owns, Orphan, IsInjective, Range
  <2> QED  BY <2>3, <2>4
<1>5. CASE Wake
  BY <1>5 DEF Wake, ReadAllowList, mapVars, kernelVars, Shape, Elemental, Owns, Orphan
<1>6. CASE NextKey
  BY <1>6 DEF NextKey, mapVars, kernelVars, Shape, Elemental, Owns, Orphan
<1>7. CASE CopyWord
  BY <1>7 DEF CopyWord, mapVars, kernelVars, Shape, Elemental, Owns, Orphan
<1>8. CASE EndFrame
  BY <1>8 DEF EndFrame, Sleep, mapVars, Shape, Elemental, Owns, Orphan
<1>9. CASE NewSegment
  BY <1>9 DEF NewSegment, ReadAllowList, Nothing, Shape, Elemental, IsInjective, Range
<1>10. CASE UNCHANGED vars
  BY <1>10 DEF vars, mapVars, kernelVars, loaderVars, Shape, Elemental, Owns, Orphan
<1> QED
  BY <1>1, <1>2, <1>3, <1>4, <1>5, <1>6, <1>7, <1>8, <1>9, <1>10 DEF Next

\* A run of a program never adds to an element that belongs to another
\* cgroup: a deleted element is free at once (loader.c:125), and yet no
\* target is added before the runs that held it have ended.
THEOREM ElementsAreOwn == Spec => []OwnElement
<1>1. OwnInv => OwnElement
  BY DEF OwnInv, Shape, Elemental, Owns, Orphan, OwnElement, IsInjective, Range
<1>2. OwnInv /\ [Next]_vars => OwnInv'
  BY OwnInvProgram, OwnInvLoader
<1> QED  BY <1>1, <1>2, OwnInvInit, PTL DEF Spec
-------------------------------------------------------------------------------
\* The keys that are printed are the keys that were read from the allow
\* list, and the worker's two baselines hold the same counts.
FrameInv ==
  /\ pc # "snapshot" => pending = Nothing
  /\ pc = "add" => desired \ todo \subseteq DOMAIN pulse_cgroups
  /\ pc = "snapshot" => /\ DOMAIN pulse_cgroups = desired
                        /\ todo \cup DOMAIN pending = desired
  /\ DOMAIN previous \subseteq DOMAIN stream
  /\ \A g \in DOMAIN previous : previous[g] = [i \in Ids |-> stream[g].words[i]]
  /\ rejected \subseteq {"integrity", "skips"}

LEMMA FrameInvInit == Init => FrameInv
  BY DEF Init, FrameInv, Nothing

\* The two deltas of a cgroup agree, so their totals do.
LEMMA DeltasAgree ==
  ASSUME FrameInv, NEW g, HasDelta(g)
  PROVE  FullDelta(g) = Restrict(FeatureDelta(g), Ids)
<1>1. Ids \subseteq Words
  BY CountersAssumption DEF Ids, Words, Skip
<1>2. g \in DOMAIN previous /\ Base[g] = previous[g]
  BY DEF HasDelta, Base, Nothing
<1>3. \A i \in Ids : Base[g][i] = stream[g].words[i]
  BY <1>2 DEF FrameInv
<1> QED  BY <1>1, <1>3 DEF FullDelta, FeatureDelta, Delta, Restrict

LEMMA OnlySkips ==
  ASSUME FrameInv, pc = "snapshot", todo = {}
  PROVE  Errors \subseteq {"integrity", "skips"}
<1>1. Cardinality(Snapshots) = Cardinality(desired)
  BY DEF FrameInv, Snapshots
<1>2. ASSUME NEW g \in Snapshots, HasDelta(g)
      PROVE  Total(FullDelta(g)) = Total(Restrict(FeatureDelta(g), Ids))
  BY <1>2, DeltasAgree
<1> QED  BY <1>1, <1>2 DEF Errors

LEMMA FrameInvFrame ==
  ASSUME FrameInv, EndFrame
  PROVE  FrameInv'
<1>1. /\ pc' = "asleep" /\ pending' = Nothing /\ Frame
      /\ rejected' \subseteq {"integrity", "skips"}
  BY OnlySkips DEF EndFrame, Sleep, Frame
<1>2. /\ DOMAIN previous' \subseteq DOMAIN stream'
      /\ \A g \in DOMAIN previous' : previous'[g] = [i \in Ids |-> stream'[g].words[i]]
  <2>1. CASE Errors = {}
    <3>1. /\ DOMAIN Base \subseteq DOMAIN stream
          /\ \A g \in DOMAIN Base : Base[g] = [i \in Ids |-> stream[g].words[i]]
      BY DEF FrameInv, Base, Nothing
    <3>2. /\ previous' = [g \in DOMAIN Base \cup Snapshots |->
               IF g \in Snapshots THEN [i \in Ids |-> pending[g][i]] ELSE Base[g]]
          /\ stream' = [g \in DOMAIN stream \cup Snapshots |->
               IF g \in Snapshots THEN Baseline(g) ELSE stream[g]]
      BY <1>1, <2>1 DEF Frame
    <3>3. \A g : Baseline(g).words = pending[g]
      BY DEF Baseline
    <3> QED  BY <3>1, <3>2, <3>3
  <2>2. CASE Errors # {}
    BY <1>1, <2>2 DEF Frame, Nothing
  <2> QED  BY <2>1, <2>2
<1> QED  BY <1>1, <1>2 DEF FrameInv

LEMMA FrameInvStep == FrameInv /\ [Next]_vars => FrameInv'
<1> SUFFICES ASSUME FrameInv, [Next]_vars PROVE FrameInv'
  OBVIOUS
<1> USE DEF FrameInv
<1>1. CASE \E c \in Cpus : Program(c)
  BY <1>1 DEF Program, Enter, Count, CountSkip, mapVars, loaderVars, workerVars
<1>2. CASE FindTarget
  BY <1>2 DEF FindTarget, mapVars, workerVars
<1>3. CASE AddTarget
  BY <1>3 DEF AddTarget, With, workerVars
<1>4. CASE MapFull
  BY <1>4 DEF MapFull, mapVars, workerVars
<1>5. CASE DeleteTargets
  BY <1>5 DEF DeleteTargets, Sleep, Restrict, Kept, Nothing, workerVars
<1>6. CASE Wake
  BY <1>6 DEF Wake, ReadAllowList, mapVars
<1>7. CASE NextKey
  BY <1>7 DEF NextKey, With, mapVars, workerVars
<1>8. CASE CopyWord
  BY <1>8 DEF CopyWord, mapVars, workerVars
<1>9. CASE EndFrame
  BY <1>9, FrameInvFrame
<1>10. CASE NewSegment
  BY <1>10 DEF NewSegment, ReadAllowList, Nothing
<1>11. CASE UNCHANGED vars
  BY <1>11 DEF vars, mapVars, loaderVars, workerVars
<1> QED
  BY <1>1, <1>2, <1>3, <1>4, <1>5, <1>6, <1>7, <1>8, <1>9, <1>10, <1>11 DEF Next

\* The frame's cardinality check (matched_worker.py:235) and the comparison
\* of the two deltas (line 253) never reject a frame, although the first
\* compares what two loops of the loader counted and the second baselines
\* that are reset in different places.
THEOREM OnlySkipsReject == Spec => []RejectedForSkips
<1>1. FrameInv => RejectedForSkips
  BY DEF FrameInv, RejectedForSkips
<1> QED  BY <1>1, FrameInvInit, FrameInvStep, PTL DEF Spec
-------------------------------------------------------------------------------
(* Sums over the CPUs.  A recursive function would need an induction; the  *)
(* invariant carries the partial sums instead.                             *)

\* s has the sums of word i over the first CPUs.
Sums(v, i, s) ==
  /\ s \in [0 .. NCpus -> Int] /\ s[0] = 0
  /\ \A c \in Cpus : s[c] = s[c - 1] + v[c][i]

LEMMA SumsOfSame ==
  ASSUME NEW v, NEW w, NEW i, NEW s, Sums(v, i, s), \A c \in Cpus : w[c][i] = v[c][i]
  PROVE  Sums(w, i, s)
BY DEF Sums

LEMMA SumsOfZero ==
  ASSUME NEW i \in Ids
  PROVE  \E s : Sums(Zero, i, s)
<1>1. NCpus \in Nat \ {0} /\ NIds \in Nat \ {0}
  BY CountersAssumption
<1>2. \A c \in Cpus : Zero[c][i] = 0
  BY <1>1 DEF Zero, Words, Skip, Ids
<1>3. PICK s : s = [n \in 0 .. NCpus |-> 0]
  OBVIOUS
<1>4. \A c \in Cpus : c \in 0 .. NCpus /\ c - 1 \in 0 .. NCpus
  BY <1>1 DEF Cpus
<1>5. Sums(Zero, i, s)
  BY <1>1, <1>2, <1>3, <1>4 DEF Sums
<1>6. QED
  BY <1>5

\* One more call on CPU c.
LEMMA SumsOfOneMore ==
  ASSUME NEW v, NEW w, NEW i, NEW s, Sums(v, i, s), NEW c \in Cpus,
         \A d \in Cpus : v[d][i] \in Int, w[c][i] = v[c][i] + 1,
         \A d \in Cpus : d # c => w[d][i] = v[d][i]
  PROVE  \E t : /\ Sums(w, i, t)
                /\ \A n \in 0 .. NCpus : t[n] = IF n < c THEN s[n] ELSE s[n] + 1
<1>1. NCpus \in Nat \ {0} /\ c \in 1 .. NCpus /\ s \in [0 .. NCpus -> Int] /\ s[0] = 0
  BY CountersAssumption DEF Cpus, Sums
<1>2. PICK t : t = [n \in 0 .. NCpus |-> IF n < c THEN s[n] ELSE s[n] + 1]
  OBVIOUS
<1>3. t \in [0 .. NCpus -> Int] /\ t[0] = 0
  BY <1>1, <1>2
<1>4. ASSUME NEW d \in Cpus
      PROVE  t[d] = t[d - 1] + w[d][i]
  <2>1. d \in 0 .. NCpus /\ d - 1 \in 0 .. NCpus /\ s[d] = s[d - 1] + v[d][i]
    BY <1>1 DEF Cpus, Sums
  <2>2. s[d] \in Int /\ s[d - 1] \in Int
    BY <1>1, <2>1
  <2>3. CASE d < c
    <3>1. w[d][i] = v[d][i] /\ d - 1 < c
      BY <2>1, <2>3, <1>1
    <3>2. t[d] = s[d] /\ t[d - 1] = s[d - 1]
      BY <2>1, <2>3, <3>1, <1>2
    <3>3. QED
      BY <3>1, <3>2, <2>1
  <2>4. CASE d = c
    <3>1. t[d] = s[d] + 1 /\ t[d - 1] = s[d - 1]
      BY <2>1, <2>4, <1>1, <1>2
    <3>2. w[d][i] = v[d][i] + 1 /\ v[d][i] \in Int
      BY <2>4
    <3>3. QED
      BY ONLY <3>1, <3>2, <2>1, <2>2
  <2>5. CASE d > c
    <3>1. w[d][i] = v[d][i] /\ ~(d < c) /\ ~(d - 1 < c)
      BY <2>1, <2>5, <1>1
    <3>2. t[d] = s[d] + 1 /\ t[d - 1] = s[d - 1] + 1
      BY <2>1, <3>1, <1>2
    <3>3. v[d][i] \in Int
      OBVIOUS
    <3>4. QED
      BY ONLY <3>1, <3>2, <3>3, <2>1, <2>2
  <2>6. QED
    BY <2>3, <2>4, <2>5, <1>1, <2>1
<1>5. Sums(w, i, t)
  BY ONLY <1>3, <1>4 DEF Sums
<1>6. \A n \in 0 .. NCpus : t[n] = IF n < c THEN s[n] ELSE s[n] + 1
  BY ONLY <1>2
<1> QED
  BY ONLY <1>5, <1>6
-------------------------------------------------------------------------------
(* The order of the copies.                                                *)

\* Of the first n copies, those of word i are on the CPUs up to this one.
Copied(i, n) == IF i < WordOf(n) THEN CpuOf(n) ELSE CpuOf(n) - 1

LEMMA PlaceOfCopy ==
  ASSUME NEW n \in Nat
  PROVE  /\ CpuOf(n) \in Nat \ {0} /\ WordOf(n) \in 1 .. Skip
         /\ n = (CpuOf(n) - 1) * Skip + WordOf(n) - 1
<1>1. PICK m : m = Skip /\ m \in Nat \ {0}
  BY CountersAssumption DEF Skip
<1>2. n \div m \in Nat /\ n % m \in 0 .. m - 1 /\ n = (n \div m) * m + (n % m)
  BY ONLY <1>1, n \in Nat
<1>3. PICK q, r : q = n \div m /\ r = n % m
  OBVIOUS
<1>4. CpuOf(n) = q + 1 /\ WordOf(n) = r + 1
  BY <1>1, <1>3 DEF CpuOf, WordOf
<1>5. q \in Nat /\ r \in 0 .. m - 1 /\ n = q * m + r
  BY <1>2, <1>3
<1>6. q + 1 - 1 = q
  BY <1>5
<1>7. QED
  BY <1>1, <1>4, <1>5, <1>6

LEMMA OnePlace ==
  ASSUME NEW m \in Nat \ {0}, NEW a \in Nat, NEW b \in Nat, NEW q \in Nat, NEW r \in Nat,
         a < m, q < m, b * m + a = r * m + q
  PROVE  a = q /\ b = r
<1>1. b * m \in Nat /\ r * m \in Nat
  OBVIOUS
<1>2. CASE b < r
  <2>1. PICK d \in Nat : r = b + 1 + d
    <3>1. r - b - 1 \in Nat /\ r = b + 1 + (r - b - 1)
      BY <1>2
    <3>2. QED
      BY <3>1
  <2>2. r * m = b * m + m + d * m /\ d * m \in Nat
    BY <2>1
  <2>3. QED
    BY <2>2, <1>1
<1>3. CASE r < b
  <2>1. PICK d \in Nat : b = r + 1 + d
    <3>1. b - r - 1 \in Nat /\ b = r + 1 + (b - r - 1)
      BY <1>3
    <3>2. QED
      BY <3>1
  <2>2. b * m = r * m + m + d * m /\ d * m \in Nat
    BY <2>1
  <2>3. QED
    BY <2>2, <1>1
<1>4. CASE b = r
  BY <1>4, <1>1
<1>5. QED
  BY <1>2, <1>3, <1>4

LEMMA NextPlace ==
  ASSUME NEW n \in Nat
  PROVE  \/ WordOf(n) < Skip /\ WordOf(n + 1) = WordOf(n) + 1 /\ CpuOf(n + 1) = CpuOf(n)
         \/ WordOf(n) = Skip /\ WordOf(n + 1) = 1 /\ CpuOf(n + 1) = CpuOf(n) + 1
<1>1. PICK m : m = Skip /\ m \in Nat \ {0}
  BY CountersAssumption DEF Skip
<1>2. PICK q, r : /\ q = CpuOf(n) - 1 /\ r = WordOf(n) - 1 /\ q \in Nat /\ r \in Nat /\ r < m
                  /\ CpuOf(n) = q + 1 /\ WordOf(n) = r + 1 /\ n = q * m + r
  <2>1. /\ CpuOf(n) \in Nat \ {0} /\ WordOf(n) \in 1 .. m
        /\ n = (CpuOf(n) - 1) * m + WordOf(n) - 1
    BY <1>1, PlaceOfCopy
  <2>2. PICK q, r : q = CpuOf(n) - 1 /\ r = WordOf(n) - 1
    OBVIOUS
  <2>3. /\ q \in Nat /\ r \in Nat /\ r < m /\ CpuOf(n) = q + 1 /\ WordOf(n) = r + 1
    BY <2>1, <2>2, <1>1
  <2>4. q * m \in Nat /\ n = q * m + WordOf(n) - 1
    BY <2>1, <2>2, <2>3, <1>1
  <2>5. n = q * m + r
    BY <2>3, <2>4
  <2>6. QED
    BY <2>2, <2>3, <2>5
<1>3. PICK b, a : /\ b = CpuOf(n + 1) - 1 /\ a = WordOf(n + 1) - 1 /\ b \in Nat /\ a \in Nat
                  /\ a < m /\ CpuOf(n + 1) = b + 1 /\ WordOf(n + 1) = a + 1
                  /\ n + 1 = b * m + a
  <2>0. PICK k \in Nat : k = n + 1
    OBVIOUS
  <2>1. /\ CpuOf(k) \in Nat \ {0} /\ WordOf(k) \in 1 .. m
        /\ k = (CpuOf(k) - 1) * m + WordOf(k) - 1
    BY <1>1, PlaceOfCopy
  <2>2. PICK b, a : b = CpuOf(k) - 1 /\ a = WordOf(k) - 1
    OBVIOUS
  <2>3. /\ b \in Nat /\ a \in Nat /\ a < m /\ CpuOf(k) = b + 1 /\ WordOf(k) = a + 1
    BY <2>1, <2>2, <1>1
  <2>4. b * m \in Nat /\ k = b * m + WordOf(k) - 1
    BY <2>1, <2>2, <2>3, <1>1
  <2>5. k = b * m + a
    BY <2>3, <2>4
  <2>6. QED
    BY <2>0, <2>2, <2>3, <2>5
<1>4. PICK x, y : x = q * m /\ y = b * m /\ x \in Nat /\ y \in Nat /\ (q + 1) * m = x + m
  BY <1>1, <1>2, <1>3
<1>5. n = x + r /\ n + 1 = y + a
  BY <1>2, <1>3, <1>4
<1>6. CASE r + 1 < m
  <2>1. PICK t \in Nat : t = r + 1
    BY <1>2
  <2>2. y + a = x + t /\ t < m
    <3>1. /\ x \in Nat /\ y \in Nat /\ r \in Nat /\ a \in Nat /\ m \in Nat /\ n \in Nat
          /\ n = x + r /\ n + 1 = y + a /\ r + 1 < m /\ t = r + 1
      BY <1>1, <1>2, <1>3, <1>4, <1>5, <1>6, <2>1
    <3>2. QED
      BY ONLY <3>1
  <2>3. /\ m \in Nat \ {0} /\ a \in Nat /\ b \in Nat /\ t \in Nat /\ q \in Nat
        /\ a < m /\ t < m /\ b * m + a = q * m + t
    BY <1>1, <1>2, <1>3, <2>1, <2>2, <1>4
  <2>4. a = t /\ b = q
    BY ONLY <2>3, OnePlace
  <2>5. QED
    BY <1>1, <1>2, <1>3, <1>6, <2>1, <2>4
<1>7. CASE ~(r + 1 < m)
  <2>1. r + 1 = m
    BY <1>1, <1>2, <1>7
  <2>2. PICK u \in Nat, z \in Nat : u = q + 1 /\ z = 0
    BY <1>2
  <2>3. y + a = x + m
    BY <1>2, <1>3, <1>4, <1>5, <2>1
  <2>4. b * m + a = u * m + z /\ z < m
    BY <2>2, <2>3, <1>1, <1>4
  <2>5. /\ m \in Nat \ {0} /\ a \in Nat /\ b \in Nat /\ z \in Nat /\ u \in Nat
        /\ a < m /\ z < m /\ b * m + a = u * m + z
    BY <1>1, <1>2, <1>3, <2>2, <2>4
  <2>6. a = z /\ b = u
    BY ONLY <2>5, OnePlace
  <2>7. WordOf(n) = Skip /\ WordOf(n + 1) = 1
    BY <1>1, <1>2, <1>3, <2>1, <2>2, <2>6
  <2>8. CpuOf(n + 1) = u + 1 /\ CpuOf(n) = u
    BY <1>2, <1>3, <2>2, <2>6
  <2>9. QED
    BY <2>7, <2>8
<1>8. QED
  BY <1>6, <1>7

LEMMA PlaceInRange ==
  ASSUME NEW n \in Nat, n < Copies
  PROVE  CpuOf(n) \in Cpus /\ WordOf(n) \in Words
<1>1. PICK m, b, w : /\ m = Skip /\ b = CpuOf(n) - 1 /\ w = WordOf(n)
                     /\ m \in Nat \ {0} /\ b \in Nat /\ w \in 1 .. m
                     /\ CpuOf(n) = b + 1 /\ n = b * m + w - 1
  <2>1. Skip \in Nat \ {0}
    BY CountersAssumption DEF Skip
  <2>2. PICK m, b, w : m = Skip /\ b = CpuOf(n) - 1 /\ w = WordOf(n)
    OBVIOUS
  <2>3. CpuOf(n) \in Nat \ {0} /\ w \in 1 .. m /\ n = b * m + w - 1
    BY <2>2, PlaceOfCopy
  <2>4. b \in Nat /\ CpuOf(n) = b + 1
    BY <2>2, <2>3
  <2>5. QED
    BY <2>1, <2>2, <2>3, <2>4
<1>2. PICK N \in Nat \ {0} : N = NCpus
  BY CountersAssumption
<1>3. n < N * m
  BY <1>1, <1>2 DEF Copies
<1>4. CASE N <= b
  <2>1. PICK d \in Nat : b = N + d
    <3>1. b - N \in Nat /\ b = N + (b - N)
      BY <1>1, <1>2, <1>4
    <3>2. QED
      BY <3>1
  <2>2. b * m = N * m + d * m /\ d * m \in Nat /\ N * m \in Nat
    <3>1. m \in Nat /\ b \in Nat /\ N \in Nat /\ d \in Nat /\ b = N + d
      BY <1>1, <1>2, <2>1
    <3>2. QED
      BY ONLY <3>1
  <2>3. PICK x, y, z : x = b * m /\ y = N * m /\ z = d * m
    OBVIOUS
  <2>4. x = y + z /\ z \in Nat /\ y \in Nat /\ n = x + w - 1 /\ n < y /\ w \in 1 .. m
    BY <2>2, <2>3, <1>1, <1>3
  <2>5. QED
    BY ONLY <2>4, <1>1
<1>5. CASE b < N
  BY <1>1, <1>2, <1>5 DEF Cpus, Words
<1>6. QED
  BY <1>1, <1>2, <1>4, <1>5

LEMMA LastPlace ==
  ASSUME NEW n \in Nat, n + 1 = Copies
  PROVE  CpuOf(n) = NCpus /\ WordOf(n) = Skip
<1>1. PICK m, b, a : /\ m = Skip /\ b = CpuOf(n) - 1 /\ a = WordOf(n) - 1
                     /\ m \in Nat \ {0} /\ b \in Nat /\ a \in Nat /\ a < m
                     /\ CpuOf(n) = b + 1 /\ WordOf(n) = a + 1 /\ n = b * m + WordOf(n) - 1
  <2>1. Skip \in Nat \ {0}
    BY CountersAssumption DEF Skip
  <2>2. PICK m, b, a : m = Skip /\ b = CpuOf(n) - 1 /\ a = WordOf(n) - 1
    OBVIOUS
  <2>3. CpuOf(n) \in Nat \ {0} /\ WordOf(n) \in 1 .. m /\ n = b * m + WordOf(n) - 1
    BY <2>2, PlaceOfCopy
  <2>4. b \in Nat /\ a \in Nat /\ a < m /\ CpuOf(n) = b + 1 /\ WordOf(n) = a + 1
    BY <2>1, <2>2, <2>3
  <2>5. QED
    BY <2>1, <2>2, <2>3, <2>4
<1>2. PICK r \in Nat : NCpus = r + 1
  <2>1. NCpus - 1 \in Nat /\ NCpus = (NCpus - 1) + 1
    BY CountersAssumption
  <2>2. QED
    BY <2>1
<1>3. PICK q \in Nat : m = q + 1
  <2>1. m - 1 \in Nat /\ m = (m - 1) + 1
    BY <1>1
  <2>2. QED
    BY <2>1
<1>4. PICK x, y : x = b * m /\ y = r * m /\ x \in Nat /\ y \in Nat /\ (r + 1) * m = y + m
  BY <1>1, <1>2
<1>5. n + 1 = y + m
  BY <1>1, <1>2, <1>4 DEF Copies
<1>6. n = x + a
  BY <1>1, <1>4
<1>7. y + q = x + a
  BY <1>1, <1>3, <1>4, <1>5, <1>6
<1>8. /\ m \in Nat \ {0} /\ a \in Nat /\ b \in Nat /\ q \in Nat /\ r \in Nat
      /\ a < m /\ q < m /\ b * m + a = r * m + q
  <2>1. b * m + a = r * m + q
    BY <1>4, <1>7
  <2>2. q < m
    BY <1>1, <1>3
  <2>3. QED
    BY <2>1, <2>2, <1>1, <1>2, <1>3
<1>9. a = q /\ b = r
  BY ONLY <1>8, OnePlace
<1>10. QED
  BY <1>1, <1>2, <1>3, <1>9

\* One copy: the word's CPUs are one more, those of the other words the same.
LEMMA OneMoreCopied ==
  ASSUME NEW n \in Nat, n < Copies
  PROVE  /\ Copied(WordOf(n), n) = CpuOf(n) - 1
         /\ Copied(WordOf(n), n + 1) = CpuOf(n)
         /\ \A i \in Words : i # WordOf(n) => Copied(i, n + 1) = Copied(i, n)
<1>1. PICK w, c : /\ w = WordOf(n) /\ c = CpuOf(n) /\ w \in 1 .. Skip /\ c \in Nat
                  /\ \/ w < Skip /\ WordOf(n + 1) = w + 1 /\ CpuOf(n + 1) = c
                     \/ w = Skip /\ WordOf(n + 1) = 1 /\ CpuOf(n + 1) = c + 1
  BY NextPlace, PlaceOfCopy
<1>2. Copied(w, n) = c - 1
  BY <1>1 DEF Copied
<1>3. Copied(w, n + 1) = c
  BY <1>1 DEF Copied
<1>4. ASSUME NEW i \in Words, i # w
      PROVE  Copied(i, n + 1) = Copied(i, n)
  <2>1. i \in 1 .. Skip /\ Skip \in Nat
    BY CountersAssumption DEF Words, Skip
  <2>2. CASE w < Skip
    <3>1. i < w + 1 <=> i < w
      BY <2>1, <1>1, <1>4
    <3>2. WordOf(n + 1) = w + 1 /\ CpuOf(n + 1) = c
      BY <2>2, <1>1
    <3>3. QED
      BY <3>1, <3>2, <1>1 DEF Copied
  <2>3. CASE w = Skip
    <3>1. i < w /\ ~(i < 1)
      BY <2>1, <2>3, <1>1, <1>4
    <3>2. WordOf(n + 1) = 1 /\ CpuOf(n + 1) = c + 1
      BY <2>3, <2>1, <1>1
    <3>3. QED
      BY <3>1, <3>2, <1>1 DEF Copied
  <2>4. QED
    BY <2>2, <2>3, <1>1
<1>5. QED
  BY <1>1, <1>2, <1>3, <1>4

LEMMA NothingCopied ==
  ASSUME NEW i \in Ids
  PROVE  Copied(i, 0) = 0
<1>1. PICK m : m = Skip /\ m \in Nat \ {0} /\ i \in Nat \ {0}
  BY CountersAssumption DEF Skip, Ids
<1>2. 0 \div m = 0 /\ 0 % m = 0
  BY ONLY <1>1
<1>3. CpuOf(0) = 1 /\ WordOf(0) = 1
  BY <1>1, <1>2 DEF CpuOf, WordOf
<1>4. QED
  BY <1>1, <1>3 DEF Copied

\* When the last word is copied, every syscall's word is on every CPU.
LEMMA AllCopied ==
  ASSUME NEW n \in Nat, n + 1 = Copies, NEW i \in Ids
  PROVE  i # WordOf(n) /\ Copied(i, n) = NCpus
<1>1. WordOf(n) = Skip /\ CpuOf(n) = NCpus /\ i < Skip
  BY LastPlace, CountersAssumption DEF Skip, Ids
<1>2. QED
  BY <1>1, CountersAssumption DEF Copied, Skip, Ids
-------------------------------------------------------------------------------
(* What a copy counted.  While a cgroup stays in the map, the sum of its   *)
(* element's words over the CPUs and the number of its calls differ by a   *)
(* constant: what the element began with.  A copy is not one step, but     *)
(* what it added up and what it has still to read bound it from below, and *)
(* the calls made so far from above.                                       *)

\* The last frame, seen from the loader's place in the next one.
Newest == IF pc = "asleep" THEN clock ELSE clock - 1

\* The cgroup was in the last frame, and its baseline is of that frame.
Steady(g) == g \in DOMAIN stream /\ stream[g].boundary = Newest

BaselineBegan(g) == IF g \in DOMAIN pending THEN reads[g].before[1] ELSE reads[g].began
BaselineEnded(g) == IF g \in DOMAIN pending THEN reads[g].before[2] ELSE reads[g].ended

Within(x, from, to, off) == from + off <= x /\ x <= to + off

\* What is still to copy, for the key that is being copied.
ToCopy(i, s) == s[NCpus] - s[Copied(i, at)]

Holds(g, i, s, off) ==
  /\ off \in Int
  /\ Sums(counters[pulse_cgroups[g]], i, s)
  /\ s[NCpus] = made[g][i] + off
  /\ Steady(g) => Within(stream[g].words[i], BaselineBegan(g)[i], BaselineEnded(g)[i], off)
  /\ g \in DOMAIN pending /\ g # key =>
       Within(pending[g][i], reads[g].began[i], reads[g].ended[i], off)
  /\ g = key =>
       Within(pending[g][i] + ToCopy(i, s), reads[g].began[i], made[g][i], off)

CopiesHold == \A g \in DOMAIN pulse_cgroups, i \in Ids : \E s, off : Holds(g, i, s, off)

CountTypes ==
  /\ counters \in [Elements -> PerCpu] /\ per_cpu \in PerCpu
  /\ \A i \in Ids : \E s : Sums(per_cpu, i, s)
  /\ made \in [Cgroups -> [Ids -> Nat]]
  /\ DOMAIN pulse_cgroups \subseteq Cgroups
  /\ desired \subseteq Cgroups /\ todo \subseteq Cgroups
  /\ clock \in Nat

PlaceInFrame ==
  /\ at \in Nat /\ at < Copies
  /\ key = 0 => at = 0
  /\ key # 0 => pc = "snapshot" /\ key \in DOMAIN pending
  /\ pc = "snapshot" => todo \subseteq DOMAIN pulse_cgroups
  /\ DOMAIN pending \subseteq DOMAIN pulse_cgroups
  /\ \A g \in DOMAIN pending : pending[g] \in Counts /\ g \notin todo

MadeCounts == [Ids -> Nat]
Reads == [began : MadeCounts, ended : MadeCounts,
          before : {<<>>} \cup (MadeCounts \X MadeCounts)]

ReadTypes ==
  /\ \A g \in DOMAIN reads : reads[g] \in Reads
  /\ DOMAIN pending \subseteq DOMAIN reads

Baselines ==
  /\ \A g \in DOMAIN stream : /\ stream[g].words \in Counts
                              /\ stream[g].boundary \in Nat /\ stream[g].boundary <= Newest
  /\ ~attached => stream = Nothing
  /\ pc = "snapshot" => attached
  /\ \A g \in DOMAIN stream : Steady(g) /\ pc \in {"add", "asleep"} => g \in DOMAIN pulse_cgroups
  /\ \A g \in DOMAIN stream : Steady(g) /\ g \in DOMAIN pulse_cgroups =>
       /\ g \in DOMAIN reads
       /\ g \in DOMAIN pending => reads[g].before # <<>>

CopyInv == CountTypes /\ PlaceInFrame /\ ReadTypes /\ Baselines /\ CopiesHold /\ WindowsExact

\* A step that leaves a cgroup's counts and the frame alone.
LEMMA HoldsStays ==
  ASSUME NEW g, NEW i, NEW s, NEW off, Holds(g, i, s, off),
         \A c \in Cpus : counters'[pulse_cgroups'[g]][c][i] = counters[pulse_cgroups[g]][c][i],
         made'[g][i] = made[g][i],
         pending' = pending, reads' = reads, key' = key, at' = at, stream' = stream,
         Steady(g)' => Steady(g)
  PROVE  Holds(g, i, s, off)'
<1>1. Sums(counters'[pulse_cgroups'[g]], i, s)
  BY SumsOfSame DEF Holds
<1>2. Sums(counters[pulse_cgroups[g]], i, s)'
  BY <1>1 DEF Sums
<1>3. BaselineBegan(g)' = BaselineBegan(g) /\ BaselineEnded(g)' = BaselineEnded(g)
  BY DEF BaselineBegan, BaselineEnded
<1>4. ToCopy(i, s)' = ToCopy(i, s)
  BY DEF ToCopy, Copied, WordOf, CpuOf
<1>5. (Steady(g) => Within(stream[g].words[i], BaselineBegan(g)[i], BaselineEnded(g)[i], off))'
  BY <1>3 DEF Holds, Within
<1>6. QED
  BY <1>2, <1>4, <1>5 DEF Holds, Within

\* One word more on one CPU, in one element.
OneMore(old, new, e, c, w) ==
  /\ new \in [Elements -> PerCpu]
  /\ new[e][c][w] = old[e][c][w] + 1
  /\ \A f \in Elements, d \in Cpus, x \in Words :
       f # e \/ d # c \/ x # w => new[f][d][x] = old[f][d][x]

LEMMA OneWordAdded ==
  ASSUME NEW old \in [Elements -> PerCpu], NEW e \in Elements, NEW c \in Cpus, NEW w \in Words,
         NEW new, new = [old EXCEPT ![e][c][w] = old[e][c][w] + 1]
  PROVE  OneMore(old, new, e, c, w)
<1>1. old \in [Elements -> [Cpus -> [Words -> Nat]]]
  BY DEF PerCpu, Counts
<1>2. new \in [Elements -> [Cpus -> [Words -> Nat]]]
  <2>1. old[e] \in [Cpus -> [Words -> Nat]] /\ old[e][c] \in [Words -> Nat]
        /\ old[e][c][w] \in Nat
    BY <1>1
  <2>2. PICK row : row = [old[e][c] EXCEPT ![w] = old[e][c][w] + 1]
    OBVIOUS
  <2>3. row \in [Words -> Nat]
    BY <2>1, <2>2
  <2>4. PICK cpus : cpus = [old[e] EXCEPT ![c] = row]
    OBVIOUS
  <2>5. cpus \in [Cpus -> [Words -> Nat]]
    BY <2>1, <2>3, <2>4
  <2>6. new = [old EXCEPT ![e] = cpus]
    BY <2>2, <2>4
  <2> QED
    BY <1>1, <2>5, <2>6
<1>3. new[e][c][w] = old[e][c][w] + 1
  BY <1>1
<1>4. ASSUME NEW f \in Elements, NEW d \in Cpus, NEW x \in Words, f # e \/ d # c \/ x # w
      PROVE  new[f][d][x] = old[f][d][x]
  BY <1>1, <1>4
<1> QED
  BY <1>2, <1>3, <1>4 DEF OneMore, PerCpu, Counts

LEMMA ElementOf ==
  ASSUME Shape, NEW g \in DOMAIN pulse_cgroups
  PROVE  pulse_cgroups[g] \in Elements
BY DEF Shape, Range
LEMMA CopyInvInit == Init => CopyInv
<1> SUFFICES ASSUME Init PROVE CopyInv
  OBVIOUS
<1>1. /\ NCpus \in Nat \ {0} /\ NIds \in Nat \ {0}
      /\ Cgroups \subseteq Nat /\ Lists \subseteq SUBSET Cgroups
  BY CountersAssumption
<1>2. Skip \in Nat \ {0} /\ 0 < Copies
  BY <1>1 DEF Skip, Copies
<1>3. Zero \in PerCpu /\ counters \in [Elements -> PerCpu]
  BY DEF Init, Zero, PerCpu, Counts
<1>4. CountTypes
  BY <1>1, <1>3, SumsOfZero DEF Init, CountTypes, Nothing
<1>5. PlaceInFrame
  BY <1>2 DEF Init, PlaceInFrame, Nothing
<1>6. ReadTypes
  BY DEF Init, ReadTypes, Nothing
<1>7. Baselines
  BY DEF Init, Baselines, Nothing
<1>8. CopiesHold /\ WindowsExact
  BY DEF Init, CopiesHold, WindowsExact, Nothing
<1> QED
  BY <1>4, <1>5, <1>6, <1>7, <1>8 DEF CopyInv

\* A step that changes neither counts nor the loader's or worker's state.
LEMMA CopyInvSame ==
  ASSUME CopyInv,
         UNCHANGED <<mapVars, attached, made, loaderVars, workerVars, reads>>
  PROVE  CopyInv'
<1>1. UNCHANGED <<pulse_cgroups, counters, attached, made, pc, desired, todo, per_cpu,
                  key, at, pending, clock, stream, windows, reads>>
  BY DEF mapVars, loaderVars, workerVars
<1>2. CountTypes'
  BY <1>1 DEF CopyInv, CountTypes, Sums
<1>3. PlaceInFrame' /\ ReadTypes' /\ WindowsExact'
  BY <1>1 DEF CopyInv, PlaceInFrame, ReadTypes, WindowsExact
<1>4. Baselines'
  BY <1>1 DEF CopyInv, Baselines, Steady, Newest
<1>5. CopiesHold'
  <2> SUFFICES ASSUME NEW g \in DOMAIN pulse_cgroups, NEW i \in Ids
               PROVE  \E s, off : Holds(g, i, s, off)'
    BY <1>1 DEF CopiesHold
  <2>1. PICK s, off : Holds(g, i, s, off)
    BY DEF CopyInv, CopiesHold
  <2>2. Steady(g)' => Steady(g)
    BY <1>1 DEF Steady, Newest
  <2>3. Holds(g, i, s, off)'
    BY <1>1, <2>1, <2>2, HoldsStays
  <2> QED
    BY <2>3
<1> QED
  BY <1>2, <1>3, <1>4, <1>5 DEF CopyInv

\* A step on one CPU changes nothing the loader and the worker keep.
LEMMA OthersStay ==
  ASSUME CopyInv, UNCHANGED <<pulse_cgroups, attached, loaderVars, workerVars, reads>>,
         counters' \in [Elements -> PerCpu], made' \in [Cgroups -> [Ids -> Nat]]
  PROVE  CountTypes' /\ PlaceInFrame' /\ ReadTypes' /\ Baselines' /\ WindowsExact'
<1>1. UNCHANGED <<pulse_cgroups, attached, pc, desired, todo, per_cpu,
                  key, at, pending, clock, stream, windows, reads>>
  BY DEF loaderVars, workerVars
<1>2. CountTypes'
  BY <1>1 DEF CopyInv, CountTypes, Sums
<1>3. PlaceInFrame' /\ ReadTypes' /\ WindowsExact'
  BY <1>1 DEF CopyInv, PlaceInFrame, ReadTypes, WindowsExact
<1>4. Baselines'
  BY <1>1 DEF CopyInv, Baselines, Steady, Newest
<1> QED
  BY <1>2, <1>3, <1>4

LEMMA CopiedInRange ==
  ASSUME NEW n \in Nat, n < Copies, NEW i
  PROVE  Copied(i, n) \in 0 .. NCpus
<1>1. CpuOf(n) \in 1 .. NCpus /\ NCpus \in Nat
  BY PlaceInRange, CountersAssumption DEF Cpus
<1> QED
  BY <1>1 DEF Copied

\* The run adds to the element of its cgroup, or to one that is nobody's.
LEMMA RunOf ==
  ASSUME OwnInv, NEW c \in Cpus, program[c] # Idle
  PROVE  /\ program[c] \in Runs
         /\ \A g \in DOMAIN pulse_cgroups :
              pulse_cgroups[g] = program[c].element <=> g = program[c].cg
<1>1. program[c] \in Runs
  BY DEF OwnInv, Shape
<1>2. CASE Owns(c)
  BY <1>1, <1>2 DEF OwnInv, Shape, Owns, IsInjective
<1>3. CASE Orphan(c)
  BY <1>1, <1>3 DEF Orphan, Range
<1> QED
  BY <1>1, <1>2, <1>3 DEF OwnInv, Elemental

LEMMA CallCounted ==
  ASSUME CopyInv, NEW g \in DOMAIN pulse_cgroups, NEW i \in Ids, NEW s, NEW off,
         Holds(g, i, s, off), NEW c \in Cpus,
         counters'[pulse_cgroups[g]][c][i] = counters[pulse_cgroups[g]][c][i] + 1,
         \A d \in Cpus : counters[pulse_cgroups[g]][d][i] \in Int,
         \A d \in Cpus : d # c =>
           counters'[pulse_cgroups[g]][d][i] = counters[pulse_cgroups[g]][d][i],
         made[g][i] \in Nat, made'[g][i] = made[g][i] + 1,
         UNCHANGED <<pulse_cgroups, loaderVars, workerVars, reads>>
  PROVE  \E t : Holds(g, i, t, off)'
<1>1. UNCHANGED <<pulse_cgroups, pc, key, at, pending, clock, stream, reads>>
  BY DEF loaderVars, workerVars
<1>2. Sums(counters[pulse_cgroups[g]], i, s)
  BY DEF Holds
<1>3. PICK t : /\ Sums(counters'[pulse_cgroups[g]], i, t)
               /\ \A n \in 0 .. NCpus : t[n] = IF n < c THEN s[n] ELSE s[n] + 1
  <2>1. PICK v, w : v = counters[pulse_cgroups[g]] /\ w = counters'[pulse_cgroups[g]]
    OBVIOUS
  <2>2. /\ Sums(v, i, s) /\ w[c][i] = v[c][i] + 1 /\ \A d \in Cpus : v[d][i] \in Int
        /\ \A d \in Cpus : d # c => w[d][i] = v[d][i]
    BY <1>2, <2>1
  <2>3. \E t : /\ Sums(w, i, t)
              /\ \A n \in 0 .. NCpus : t[n] = IF n < c THEN s[n] ELSE s[n] + 1
    BY ONLY <2>2, SumsOfOneMore, c \in Cpus
  <2> QED
    BY <2>1, <2>3
<1>4. Sums(counters[pulse_cgroups[g]], i, t)'
  BY <1>1, <1>3 DEF Sums
<1>5. NCpus \in Nat /\ c <= NCpus /\ NCpus \in 0 .. NCpus /\ ~(NCpus < c) /\ c \in Nat
      /\ s \in [0 .. NCpus -> Int]
  BY <1>2, CountersAssumption DEF Cpus, Sums
<1>6. s[NCpus] \in Int /\ t[NCpus] = s[NCpus] + 1
  BY <1>3, <1>5
<1>7. off \in Int /\ s[NCpus] = made[g][i] + off
  BY DEF Holds
<1>8. t[NCpus] = made'[g][i] + off
  BY <1>6, <1>7
<1>9. BaselineBegan(g)' = BaselineBegan(g) /\ BaselineEnded(g)' = BaselineEnded(g)
      /\ (Steady(g)' <=> Steady(g))
  BY <1>1 DEF BaselineBegan, BaselineEnded, Steady, Newest
<1>10. (Steady(g) => Within(stream[g].words[i], BaselineBegan(g)[i], BaselineEnded(g)[i], off))'
  BY <1>1, <1>9 DEF Holds, Within
<1>11. ASSUME g = key
       PROVE  Within(pending[g][i] + ToCopy(i, t), reads[g].began[i], made'[g][i], off)
  <2>1. at \in Nat /\ at < Copies /\ g \in DOMAIN pending /\ g \in Cgroups
    BY <1>11, CountersAssumption DEF CopyInv, PlaceInFrame, CountTypes
  <2>2. pending[g][i] \in Nat /\ reads[g].began[i] \in Nat
    <3>1. i \in Words
      BY CountersAssumption DEF Words, Skip, Ids
    <3>2. pending[g] \in [Words -> Nat]
      BY <2>1 DEF CopyInv, PlaceInFrame, Counts
    <3>3. reads[g].began \in [Ids -> Nat]
      BY <2>1 DEF CopyInv, PlaceInFrame, ReadTypes, Reads, MadeCounts
    <3> QED
      BY <3>1, <3>2, <3>3
  <2>3. PICK k \in 0 .. NCpus : k = Copied(i, at)
    BY <2>1, CopiedInRange
  <2>4. s[k] \in Int /\ t[k] \in {s[k], s[k] + 1}
    BY <1>3, <1>5
  <2>5. PICK p, b, m, S, T, x, y :
          /\ p = pending[g][i] /\ b = reads[g].began[i] /\ m = made[g][i]
          /\ S = s[NCpus] /\ T = t[NCpus] /\ x = s[k] /\ y = t[k]
    OBVIOUS
  <2>6. b + off <= p + (S - x) /\ p + (S - x) <= m + off
    BY <1>11, <2>3, <2>5 DEF Holds, Within, ToCopy
  <2>7. /\ p \in Nat /\ b \in Nat /\ m \in Nat /\ S \in Int /\ x \in Int /\ off \in Int
        /\ T = S + 1 /\ y \in {x, x + 1}
    BY <2>2, <2>4, <2>5, <1>6, <1>7
  <2>8. b + off <= p + (T - y) /\ p + (T - y) <= m + 1 + off
    BY ONLY <2>6, <2>7
  <2> QED
    BY <2>3, <2>5, <2>8 DEF Within, ToCopy
<1>12. Copied(i, at)' = Copied(i, at)
  BY <1>1 DEF Copied, WordOf, CpuOf
<1>13. (g = key => Within(pending[g][i] + ToCopy(i, t), reads[g].began[i], made[g][i], off))'
  BY <1>1, <1>11, <1>12 DEF Within, ToCopy
<1>14. (g \in DOMAIN pending /\ g # key =>
          Within(pending[g][i], reads[g].began[i], reads[g].ended[i], off))'
  BY <1>1 DEF Holds, Within
<1>15. Holds(g, i, t, off)'
  BY <1>1, <1>4, <1>7, <1>8, <1>10, <1>13, <1>14 DEF Holds
<1> QED
  BY <1>15

LEMMA CopyInvCount ==
  ASSUME OwnInv, CopyInv, NEW c \in Cpus, Count(c)
  PROVE  CopyInv'
<1>1. PICK run, e, j : run = program[c] /\ e = run.element /\ j = run.id
  OBVIOUS
<1>2. /\ run \in Runs
      /\ \A g \in DOMAIN pulse_cgroups : pulse_cgroups[g] = e <=> g = run.cg
  <2>1. program[c] # Idle
    BY DEF Count, Idle
  <2> QED
    BY <1>1, <2>1, RunOf
<1>3. e \in Elements /\ run.cg \in Cgroups /\ j \in Ids /\ j \in Words
  BY <1>1, <1>2, CountersAssumption DEF Runs, Ids, Words, Skip
<1>4. UNCHANGED <<pulse_cgroups, attached, loaderVars, workerVars, reads>>
  BY DEF Count
<1>5. /\ counters' = [counters EXCEPT ![e][c][j] = @ + 1]
      /\ made' = [made EXCEPT ![run.cg][j] = @ + 1]
  BY <1>1 DEF Count, Add
<1>6. CountTypes
  BY DEF CopyInv
<1>7. /\ counters' \in [Elements -> PerCpu]
      /\ counters'[e][c][j] = counters[e][c][j] + 1
      /\ \A f \in Elements, d \in Cpus, x \in Words :
           f # e \/ d # c \/ x # j => counters'[f][d][x] = counters[f][d][x]
  <2>1. counters \in [Elements -> PerCpu]
        /\ counters' = [counters EXCEPT ![e][c][j] = counters[e][c][j] + 1]
    BY <1>5, <1>6 DEF CountTypes
  <2>2. OneMore(counters, counters', e, c, j)
    BY ONLY <1>3, <2>1, OneWordAdded, c \in Cpus
  <2> QED
    BY <2>2 DEF OneMore
<1>8. /\ made \in [Cgroups -> [Ids -> Nat]]
      /\ made' \in [Cgroups -> [Ids -> Nat]]
      /\ made'[run.cg][j] = made[run.cg][j] + 1
      /\ \A g \in Cgroups, i \in Ids :
           g # run.cg \/ i # j => made'[g][i] = made[g][i]
  BY <1>3, <1>5, <1>6 DEF CountTypes
<1>9. CopiesHold'
  <2> SUFFICES ASSUME NEW g \in DOMAIN pulse_cgroups, NEW i \in Ids
               PROVE  \E s, off : Holds(g, i, s, off)'
    BY <1>4 DEF CopiesHold
  <2>1. PICK s, off : Holds(g, i, s, off)
    BY DEF CopyInv, CopiesHold
  <2>2. g \in Cgroups /\ pulse_cgroups[g] \in Elements /\ i \in Words
    BY <1>6, CountersAssumption, ElementOf DEF CountTypes, OwnInv, Ids, Words, Skip
  <2>3. CASE g = run.cg /\ i = j
    <3>1. pulse_cgroups[g] = e
      BY <1>2, <2>3
    <3>2. /\ counters'[pulse_cgroups[g]][c][i] = counters[pulse_cgroups[g]][c][i] + 1
          /\ \A d \in Cpus : d # c =>
               counters'[pulse_cgroups[g]][d][i] = counters[pulse_cgroups[g]][d][i]
      BY <1>7, <2>2, <2>3, <3>1
    <3>3. \A d \in Cpus : counters[pulse_cgroups[g]][d][i] \in Int
      BY <1>6, <2>2 DEF CountTypes, PerCpu, Counts
    <3>4. made[g][i] \in Nat /\ made'[g][i] = made[g][i] + 1
      BY <1>8, <2>2, <2>3
    <3> QED
      BY <1>4, <2>1, <3>2, <3>3, <3>4, CallCounted
  <2>4. CASE ~(g = run.cg /\ i = j)
    <3>1. made'[g][i] = made[g][i]
      BY <1>8, <2>2, <2>4
    <3>2. \A d \in Cpus :
            counters'[pulse_cgroups'[g]][d][i] = counters[pulse_cgroups[g]][d][i]
      BY <1>2, <1>4, <1>7, <2>2, <2>4
    <3>3. UNCHANGED <<pc, key, at, pending, clock, stream, reads>>
      BY <1>4 DEF loaderVars, workerVars
    <3>4. Steady(g)' => Steady(g)
      BY <3>3 DEF Steady, Newest
    <3>5. Holds(g, i, s, off)'
      BY <2>1, <3>1, <3>2, <3>3, <3>4, HoldsStays
    <3> QED
      BY <3>5
  <2> QED
    BY <2>3, <2>4
<1>10. CountTypes' /\ PlaceInFrame' /\ ReadTypes' /\ Baselines' /\ WindowsExact'
  BY <1>4, <1>7, <1>8, OthersStay
<1> QED
  BY <1>9, <1>10 DEF CopyInv

LEMMA CopyInvCountSkip ==
  ASSUME OwnInv, CopyInv, NEW c \in Cpus, CountSkip(c)
  PROVE  CopyInv'
<1>1. PICK e : e = program[c].element
  OBVIOUS
<1>2. e \in Elements
  <2>1. program[c] # Idle
    BY DEF CountSkip, Idle
  <2> QED
    BY <1>1, <2>1, RunOf DEF Runs
<1>3. UNCHANGED <<pulse_cgroups, attached, made, loaderVars, workerVars, reads>>
  BY DEF CountSkip
<1>4. counters' = [counters EXCEPT ![e][c][Skip] = @ + 1] /\ Skip \in Words
  BY <1>1, CountersAssumption DEF CountSkip, Add, Words, Skip
<1>5. CountTypes
  BY DEF CopyInv
<1>6. /\ counters' \in [Elements -> PerCpu]
      /\ \A f \in Elements, d \in Cpus, x \in Words :
           f # e \/ d # c \/ x # Skip => counters'[f][d][x] = counters[f][d][x]
  <2>1. PICK w : w = Skip
    OBVIOUS
  <2>2. /\ counters \in [Elements -> PerCpu] /\ w \in Words
        /\ counters' = [counters EXCEPT ![e][c][w] = counters[e][c][w] + 1]
    BY <1>4, <1>5, <2>1 DEF CountTypes
  <2>3. OneMore(counters, counters', e, c, w)
    BY ONLY <1>2, <2>2, OneWordAdded, c \in Cpus
  <2> QED
    BY <2>1, <2>3 DEF OneMore
<1>7. CopiesHold'
  <2> SUFFICES ASSUME NEW g \in DOMAIN pulse_cgroups, NEW i \in Ids
               PROVE  \E s, off : Holds(g, i, s, off)'
    BY <1>3 DEF CopiesHold
  <2>1. PICK s, off : Holds(g, i, s, off)
    BY DEF CopyInv, CopiesHold
  <2>2. pulse_cgroups[g] \in Elements /\ i \in Words /\ i # Skip
    BY CountersAssumption, ElementOf DEF OwnInv, Ids, Words, Skip
  <2>3. \A d \in Cpus :
          counters'[pulse_cgroups'[g]][d][i] = counters[pulse_cgroups[g]][d][i]
    BY <1>3, <1>6, <2>2
  <2>4. UNCHANGED <<pc, key, at, pending, clock, stream, reads>>
    BY <1>3 DEF loaderVars, workerVars
  <2>5. Steady(g)' => Steady(g)
    BY <2>4 DEF Steady, Newest
  <2>6. Holds(g, i, s, off)'
    BY <1>3, <2>1, <2>3, <2>4, <2>5, HoldsStays
  <2> QED
    BY <2>6
<1>8. CountTypes' /\ PlaceInFrame' /\ ReadTypes' /\ Baselines' /\ WindowsExact'
  <2>1. made' \in [Cgroups -> [Ids -> Nat]]
    BY <1>3, <1>5 DEF CountTypes
  <2> QED
    BY <1>3, <1>6, <2>1, OthersStay
<1> QED
  BY <1>7, <1>8 DEF CopyInv
LEMMA MinOfNumbers ==
  ASSUME NEW T, T \subseteq Nat, T # {}
  PROVE  Min(T) \in T
<1> DEFINE less == {pair \in Nat \X Nat : pair[1] < pair[2]}
<1>1. IsWellFoundedOn(less, Nat)
  BY NatLessThanWellFounded DEF OpToRel
<1>2. PICK t \in T : \A u \in T : <<u, t>> \notin less
  <2> HIDE DEF less
  <2> QED
    BY <1>1, WFMin
<1>3. ASSUME NEW u \in T
      PROVE  t <= u
  <2>1. u \in Nat /\ t \in Nat
    OBVIOUS
  <2>2. u < t => <<u, t>> \in less
    BY <2>1
  <2> HIDE DEF less
  <2>3. ~(u < t)
    BY <1>2, <2>2
  <2>4. QED
    BY <2>1, <2>3
<1>4. QED
  BY <1>3 DEF Min

\* Between the deletions and the next snapshots there is no frame.
LEMMA NoFrame ==
  ASSUME CopyInv, FrameInv, pc # "snapshot"
  PROVE  pending = Nothing /\ DOMAIN pending = {} /\ key = 0 /\ at = 0
BY DEF CopyInv, PlaceInFrame, FrameInv, Nothing

LEMMA CopyInvFindTarget ==
  ASSUME CopyInv, OwnInv, FindTarget
  PROVE  CopyInv'
<1>1. PICK k : k = Key /\ k \in DOMAIN pulse_cgroups /\ per_cpu' = counters[pulse_cgroups[k]]
               /\ todo' = todo \ {k}
  BY DEF FindTarget
<1>2. UNCHANGED <<pulse_cgroups, counters, attached, made, pc, desired,
                  key, at, pending, clock, stream, windows, reads>>
  BY DEF FindTarget, mapVars, kernelVars, workerVars
<1>3. CountTypes'
  <2>1. pulse_cgroups[k] \in Elements
    BY <1>1, ElementOf DEF OwnInv
  <2>2. per_cpu' \in PerCpu
    BY <1>1, <2>1 DEF CopyInv, CountTypes
  <2>3. ASSUME NEW i \in Ids
        PROVE  \E s : Sums(per_cpu', i, s)
    BY <1>1 DEF CopyInv, CopiesHold, Holds
  <2>4. \A i \in Ids : (\E s : Sums(per_cpu, i, s))'
    BY <2>3 DEF Sums
  <2> QED
    BY <1>1, <1>2, <2>2, <2>4 DEF CopyInv, CountTypes
<1>4. PlaceInFrame' /\ ReadTypes' /\ WindowsExact'
  BY <1>1, <1>2 DEF CopyInv, PlaceInFrame, ReadTypes, WindowsExact
<1>5. Baselines'
  BY <1>2 DEF CopyInv, Baselines, Steady, Newest
<1>6. CopiesHold'
  <2> SUFFICES ASSUME NEW g \in DOMAIN pulse_cgroups, NEW i \in Ids
               PROVE  \E s, off : Holds(g, i, s, off)'
    BY <1>2 DEF CopiesHold
  <2>1. PICK s, off : Holds(g, i, s, off)
    BY DEF CopyInv, CopiesHold
  <2>2. Steady(g)' => Steady(g)
    BY <1>2 DEF Steady, Newest
  <2>3. Holds(g, i, s, off)'
    BY <1>2, <2>1, <2>2, HoldsStays
  <2> QED
    BY <2>3
<1> QED
  BY <1>3, <1>4, <1>5, <1>6 DEF CopyInv

\* A new key has no baseline: a cgroup with one is in the map until the
\* next frame.  Its element may begin with any counts.
LEMMA CopyInvAddTarget ==
  ASSUME CopyInv, OwnInv, FrameInv, AddTarget
  PROVE  CopyInv'
<1>1. PICK k : k = Key
  OBVIOUS
<1>2. k \in todo /\ k \in Cgroups /\ k \in Nat \ {0}
  <2>1. todo # {} /\ todo \subseteq Nat /\ todo \subseteq Cgroups /\ Cgroups \subseteq Nat \ {0}
    BY CountersAssumption DEF AddTarget, CopyInv, CountTypes
  <2>2. Min(todo) \in todo
    BY <2>1, MinOfNumbers
  <2> QED
    BY <1>1, <2>1, <2>2 DEF Key
<1>3. PICK e \in Free : /\ pulse_cgroups' = With(pulse_cgroups, k, e)
                        /\ counters' = [counters EXCEPT ![e] = per_cpu]
  BY <1>1 DEF AddTarget
<1>4. /\ k \notin DOMAIN pulse_cgroups /\ pc = "add" /\ todo' = todo \ {k}
      /\ UNCHANGED <<attached, made, pc, desired, per_cpu, key, at, pending, clock,
                     stream, windows, reads>>
  BY <1>1 DEF AddTarget, kernelVars, workerVars
<1>5. /\ DOMAIN pulse_cgroups' = DOMAIN pulse_cgroups \cup {k} /\ pulse_cgroups'[k] = e
      /\ \A g \in DOMAIN pulse_cgroups : pulse_cgroups'[g] = pulse_cgroups[g]
  BY <1>3, <1>4 DEF With
<1>6. e \in Elements /\ \A g \in DOMAIN pulse_cgroups : pulse_cgroups[g] # e
  BY <1>3 DEF Free, Range
<1>7. /\ counters' \in [Elements -> PerCpu] /\ counters'[e] = per_cpu
      /\ \A f \in Elements : f # e => counters'[f] = counters[f]
  BY <1>3, <1>6 DEF CopyInv, CountTypes
<1>8. pending = Nothing /\ DOMAIN pending = {} /\ key = 0 /\ at = 0
  BY <1>4, NoFrame
<1>9. CountTypes'
  BY <1>2, <1>4, <1>5, <1>7 DEF CopyInv, CountTypes, Sums
<1>10. PlaceInFrame' /\ ReadTypes' /\ WindowsExact'
  BY <1>4, <1>5, <1>8 DEF CopyInv, PlaceInFrame, ReadTypes, WindowsExact
<1>11. \A g : Steady(g)' => Steady(g)
  BY <1>4 DEF Steady, Newest
<1>12. \A g : Steady(g) => g \in DOMAIN stream /\ g \in DOMAIN pulse_cgroups
  BY <1>4 DEF CopyInv, Baselines, Steady
<1>13. Baselines'
  BY <1>4, <1>5, <1>8, <1>11, <1>12 DEF CopyInv, Baselines, Newest
<1>14. CopiesHold'
  <2> SUFFICES ASSUME NEW g \in DOMAIN pulse_cgroups', NEW i \in Ids
               PROVE  \E s, off : Holds(g, i, s, off)'
    BY DEF CopiesHold
  <2>1. CASE g \in DOMAIN pulse_cgroups
    <3>1. PICK s, off : Holds(g, i, s, off)
      BY <2>1 DEF CopyInv, CopiesHold
    <3>2. counters'[pulse_cgroups'[g]] = counters[pulse_cgroups[g]]
      BY <1>5, <1>6, <1>7, <2>1, ElementOf DEF OwnInv
    <3>3. Holds(g, i, s, off)'
      BY <1>4, <1>11, <3>1, <3>2, HoldsStays
    <3> QED
      BY <3>3
  <2>2. CASE g \notin DOMAIN pulse_cgroups
    <3>1. g = k
      BY <1>5, <2>2
    <3>2. PICK s : Sums(per_cpu, i, s)
      BY DEF CopyInv, CountTypes
    <3>3. s[NCpus] \in Int /\ made[g][i] \in Nat
      BY <1>2, <3>1, <3>2, CountersAssumption DEF Sums, CopyInv, CountTypes
    <3>4. PICK off : off = s[NCpus] - made[g][i]
      OBVIOUS
    <3>5. off \in Int /\ s[NCpus] = made[g][i] + off
      BY <3>3, <3>4
    <3>6. ~Steady(g)' /\ g \notin DOMAIN pending' /\ g # key'
      BY <1>2, <1>4, <1>8, <1>11, <1>12, <2>2, <3>1
    <3>7. counters'[pulse_cgroups'[g]] = per_cpu /\ made' = made
      BY <1>4, <1>5, <1>7, <3>1
    <3>8. Sums(counters[pulse_cgroups[g]], i, s)'
      BY <3>2, <3>7 DEF Sums
    <3>9. Holds(g, i, s, off)'
      BY <3>5, <3>6, <3>7, <3>8 DEF Holds
    <3> QED
      BY <3>9
  <2> QED
    BY <2>1, <2>2
<1> QED
  BY <1>9, <1>10, <1>13, <1>14 DEF CopyInv

LEMMA CopyInvMapFull ==
  ASSUME CopyInv, FrameInv, MapFull
  PROVE  CopyInv'
<1>1. /\ pc = "add" /\ pc' = "stopped"
      /\ UNCHANGED <<pulse_cgroups, counters, attached, made, desired, todo, per_cpu,
                     key, at, pending, clock, stream, windows, reads>>
  BY DEF MapFull, mapVars, kernelVars, workerVars
<1>2. pending = Nothing /\ DOMAIN pending = {} /\ key = 0 /\ at = 0
  BY <1>1, NoFrame
<1>3. CountTypes' /\ PlaceInFrame' /\ ReadTypes' /\ WindowsExact'
  BY <1>1, <1>2 DEF CopyInv, CountTypes, PlaceInFrame, ReadTypes, WindowsExact, Sums
<1>4. \A g : Steady(g)' <=> Steady(g)
  BY <1>1 DEF Steady, Newest
<1>5. Baselines'
  BY <1>1, <1>4 DEF CopyInv, Baselines, Newest
<1>6. CopiesHold'
  <2> SUFFICES ASSUME NEW g \in DOMAIN pulse_cgroups, NEW i \in Ids
               PROVE  \E s, off : Holds(g, i, s, off)'
    BY <1>1 DEF CopiesHold
  <2>1. PICK s, off : Holds(g, i, s, off)
    BY DEF CopyInv, CopiesHold
  <2>2. Holds(g, i, s, off)'
    BY <1>1, <1>4, <2>1, HoldsStays
  <2> QED
    BY <2>2
<1> QED
  BY <1>3, <1>5, <1>6 DEF CopyInv

LEMMA CopyInvDeleteTargets ==
  ASSUME CopyInv, FrameInv, DeleteTargets
  PROVE  CopyInv'
<1>1. /\ pc = "add" /\ todo = {} /\ attached' /\ per_cpu' = Zero
      /\ pulse_cgroups' = Restrict(pulse_cgroups, Kept)
      /\ \/ attached /\ pc' = "snapshot" /\ todo' = DOMAIN pulse_cgroups'
         \/ ~attached /\ pc' = "asleep" /\ todo' = todo
      /\ UNCHANGED <<counters, made, desired, key, at, pending, clock, stream, windows, reads>>
  BY DEF DeleteTargets, Sleep, workerVars
<1>2. /\ DOMAIN pulse_cgroups' \subseteq DOMAIN pulse_cgroups
      /\ \A g \in DOMAIN pulse_cgroups' : pulse_cgroups'[g] = pulse_cgroups[g]
  BY <1>1 DEF Restrict, Kept
<1>3. pending = Nothing /\ DOMAIN pending = {} /\ key = 0 /\ at = 0
  BY <1>1, NoFrame
<1>4. CountTypes'
  <2>1. per_cpu' \in PerCpu
    BY <1>1 DEF Zero, PerCpu, Counts
  <2>2. \A i \in Ids : (\E s : Sums(per_cpu, i, s))'
    BY <1>1, SumsOfZero DEF Sums
  <2>3. todo' \subseteq Cgroups /\ DOMAIN pulse_cgroups' \subseteq Cgroups
    BY <1>1, <1>2 DEF CopyInv, CountTypes
  <2> QED
    BY <1>1, <2>1, <2>2, <2>3 DEF CopyInv, CountTypes
<1>5. PlaceInFrame' /\ ReadTypes' /\ WindowsExact'
  BY <1>1, <1>3 DEF CopyInv, PlaceInFrame, ReadTypes, WindowsExact
<1>6. \A g : Steady(g)' => Steady(g) /\ pc' = "snapshot"
  BY <1>1 DEF CopyInv, Baselines, Steady, Newest, Nothing
<1>8. Baselines'
  BY <1>1, <1>2, <1>3, <1>6 DEF CopyInv, Baselines, Newest, Nothing
<1>9. CopiesHold'
  <2> SUFFICES ASSUME NEW g \in DOMAIN pulse_cgroups', NEW i \in Ids
               PROVE  \E s, off : Holds(g, i, s, off)'
    BY DEF CopiesHold
  <2>1. PICK s, off : Holds(g, i, s, off)
    BY <1>2 DEF CopyInv, CopiesHold
  <2>2. counters'[pulse_cgroups'[g]] = counters[pulse_cgroups[g]]
    BY <1>1, <1>2
  <2>3. Holds(g, i, s, off)'
    BY <1>1, <1>6, <2>1, <2>2, HoldsStays
  <2> QED
    BY <2>3
<1> QED
  BY <1>4, <1>5, <1>8, <1>9 DEF CopyInv

\* A late frame leaves every baseline behind.
LEMMA CopyInvWake ==
  ASSUME CopyInv, FrameInv, Wake
  PROVE  CopyInv'
<1>1. /\ pc = "asleep" /\ pc' \in {"add", "stopped"} /\ clock' \in {clock + 1, clock + 2}
      /\ desired' \in Lists /\ todo' = desired' /\ per_cpu' = Zero /\ windows' = {}
      /\ UNCHANGED <<pulse_cgroups, counters, attached, made, key, at, pending, stream, reads>>
  BY DEF Wake, ReadAllowList, mapVars, kernelVars
<1>2. pending = Nothing /\ DOMAIN pending = {} /\ key = 0 /\ at = 0
  BY <1>1, NoFrame
<1>3. CountTypes'
  <2>1. per_cpu' \in PerCpu
    BY <1>1 DEF Zero, PerCpu, Counts
  <2>2. \A i \in Ids : (\E s : Sums(per_cpu, i, s))'
    BY <1>1, SumsOfZero DEF Sums
  <2>3. desired' \subseteq Cgroups /\ todo' \subseteq Cgroups /\ clock' \in Nat
    BY <1>1, CountersAssumption DEF CopyInv, CountTypes
  <2> QED
    BY <1>1, <2>1, <2>2, <2>3 DEF CopyInv, CountTypes
<1>4. PlaceInFrame' /\ ReadTypes' /\ WindowsExact'
  BY <1>1, <1>2 DEF CopyInv, PlaceInFrame, ReadTypes, WindowsExact
<1>5. /\ clock \in Nat
      /\ \A g \in DOMAIN stream : stream[g].boundary \in Nat /\ stream[g].boundary <= clock
  BY <1>1 DEF CopyInv, CountTypes, Baselines, Newest
<1>6. Newest = clock /\ Newest' \in {clock, clock + 1}
  <2>1. pc' # "asleep"
    BY <1>1
  <2>2. Newest = clock /\ Newest' = clock' - 1
    BY <1>1, <2>1 DEF Newest
  <2>3. clock \in Nat /\ clock' \in {clock + 1, clock + 2}
    BY <1>1, <1>5
  <2>4. clock' - 1 \in {clock, clock + 1}
    <3>1. CASE clock' = clock + 1
      BY <2>3, <3>1
    <3>2. CASE clock' = clock + 2
      BY <2>3, <3>2
    <3> QED
      BY <2>3, <3>1, <3>2
  <2> QED
    BY <2>2, <2>4
<1>7. \A g : Steady(g)' => Steady(g)
  BY <1>1, <1>5, <1>6 DEF Steady
<1>8. \A g \in DOMAIN stream' : /\ stream'[g].words \in Counts
        /\ stream'[g].boundary \in Nat /\ stream'[g].boundary <= Newest'
  BY <1>1, <1>5, <1>6 DEF CopyInv, Baselines
<1>9. Baselines'
  BY <1>1, <1>2, <1>7, <1>8 DEF CopyInv, Baselines
<1>10. CopiesHold'
  <2> SUFFICES ASSUME NEW g \in DOMAIN pulse_cgroups, NEW i \in Ids
               PROVE  \E s, off : Holds(g, i, s, off)'
    BY <1>1 DEF CopiesHold
  <2>1. PICK s, off : Holds(g, i, s, off)
    BY DEF CopyInv, CopiesHold
  <2>2. Holds(g, i, s, off)'
    BY <1>1, <1>7, <2>1, HoldsStays
  <2> QED
    BY <2>2
<1> QED
  BY <1>3, <1>4, <1>9, <1>10 DEF CopyInv

LEMMA CopyInvNewSegment ==
  ASSUME CopyInv, NewSegment
  PROVE  CopyInv'
<1>1. /\ pulse_cgroups' = Nothing /\ counters' = [e \in Elements |-> Zero] /\ ~attached'
      /\ desired' \in Lists /\ todo' = desired' /\ per_cpu' = Zero /\ clock' = clock + 2
      /\ pc' \in {"add", "stopped"} /\ key' = 0 /\ at' = 0 /\ pending' = Nothing
      /\ stream' = Nothing /\ windows' = {} /\ reads' = Nothing /\ made' = made
  BY DEF NewSegment, ReadAllowList
<1>2. CountTypes'
  <2>1. Zero \in PerCpu
    BY DEF Zero, PerCpu, Counts
  <2>2. \A i \in Ids : (\E s : Sums(per_cpu, i, s))'
    BY <1>1, SumsOfZero DEF Sums
  <2>3. desired' \subseteq Cgroups /\ todo' \subseteq Cgroups /\ clock' \in Nat
    BY <1>1, CountersAssumption DEF CopyInv, CountTypes
  <2> QED
    BY <1>1, <2>1, <2>2, <2>3 DEF CopyInv, CountTypes, Nothing
<1>3. PlaceInFrame'
  <2>1. 0 < Copies
    BY CountersAssumption DEF Copies, Skip
  <2> QED
    BY <1>1, <2>1 DEF PlaceInFrame, Nothing
<1>4. ReadTypes' /\ Baselines' /\ CopiesHold' /\ WindowsExact'
  BY <1>1 DEF ReadTypes, Baselines, CopiesHold, WindowsExact, Nothing, Steady
<1> QED
  BY <1>2, <1>3, <1>4 DEF CopyInv

\* A copy begins: nothing is added up, and everything is still to copy.
LEMMA CopyInvNextKey ==
  ASSUME CopyInv, FrameInv, NextKey
  PROVE  CopyInv'
<1>1. PICK k \in todo : /\ key' = k /\ todo' = todo \ {k}
        /\ pending' = With(pending, k, [w \in Words |-> 0])
        /\ reads' = With(reads, k,
             [began |-> made[k], ended |-> made[k],
              before |-> IF k \in DOMAIN reads THEN <<reads[k].began, reads[k].ended>> ELSE <<>>])
  BY DEF NextKey
<1>2. /\ pc = "snapshot" /\ key = 0
      /\ UNCHANGED <<pulse_cgroups, counters, attached, made, pc, desired, per_cpu, at, clock,
                     stream, windows>>
  BY DEF NextKey, mapVars, kernelVars, workerVars
<1>3. /\ at = 0 /\ k \in DOMAIN pulse_cgroups /\ k \in Cgroups /\ k \in Nat \ {0}
      /\ k \notin DOMAIN pending
  BY <1>1, <1>2, CountersAssumption DEF CopyInv, PlaceInFrame, CountTypes
<1>4. /\ DOMAIN pending' = DOMAIN pending \cup {k} /\ pending'[k] = [w \in Words |-> 0]
      /\ \A g \in DOMAIN pending : pending'[g] = pending[g]
  BY <1>1, <1>3 DEF With
<1>5. /\ DOMAIN reads' = DOMAIN reads \cup {k}
      /\ reads'[k] = [began |-> made[k], ended |-> made[k],
           before |-> IF k \in DOMAIN reads THEN <<reads[k].began, reads[k].ended>> ELSE <<>>]
      /\ \A g \in DOMAIN reads : g # k => reads'[g] = reads[g]
  BY <1>1 DEF With
<1>6. CountTypes'
  BY <1>1, <1>2 DEF CopyInv, CountTypes, Sums
<1>7. PlaceInFrame'
  <2>1. pending'[k] \in Counts
    BY <1>4 DEF Counts
  <2> QED
    BY <1>1, <1>2, <1>3, <1>4, <2>1 DEF CopyInv, PlaceInFrame
<1>8. made[k] \in MadeCounts
  BY <1>3 DEF CopyInv, CountTypes, MadeCounts
<1>9. ReadTypes'
  <2>1. reads'[k] \in Reads
    <3>1. CASE k \in DOMAIN reads
      <4>1. reads[k].began \in MadeCounts /\ reads[k].ended \in MadeCounts
        BY <3>1 DEF CopyInv, ReadTypes, Reads
      <4> QED
        BY <1>5, <1>8, <3>1, <4>1 DEF Reads
    <3>2. CASE k \notin DOMAIN reads
      BY <1>5, <1>8, <3>2 DEF Reads
    <3> QED
      BY <3>1, <3>2
  <2> QED
    BY <1>4, <1>5, <2>1 DEF CopyInv, ReadTypes
<1>10. \A g : Steady(g)' <=> Steady(g)
  BY <1>2 DEF Steady, Newest
<1>11. Baselines'
  <2>1. ASSUME NEW g \in DOMAIN stream, Steady(g), g \in DOMAIN pulse_cgroups
        PROVE  /\ g \in DOMAIN reads'
               /\ g \in DOMAIN pending' => reads'[g].before # <<>>
    <3>1. /\ g \in DOMAIN reads
          /\ g \in DOMAIN pending => reads[g].before # <<>>
      BY <2>1 DEF CopyInv, Baselines
    <3>2. CASE g = k
      BY <1>5, <3>1, <3>2
    <3>3. CASE g # k
      BY <1>4, <1>5, <3>1, <3>3
    <3> QED
      BY <3>2, <3>3
  <2> QED
    BY <1>2, <1>10, <2>1 DEF CopyInv, Baselines, Newest
<1>12. ASSUME NEW g \in DOMAIN pulse_cgroups, NEW i \in Ids
       PROVE  \E s, off : Holds(g, i, s, off)'
  <2>1. PICK s, off : Holds(g, i, s, off)
    BY DEF CopyInv, CopiesHold
  <2>2. Sums(counters[pulse_cgroups[g]], i, s)'
    BY <1>2, <2>1 DEF Holds, Sums
  <2>3. off \in Int /\ s[NCpus] = made[g][i] + off
    BY <2>1 DEF Holds
  <2>4. g # key /\ g \in Cgroups
    BY <1>2, CountersAssumption DEF CopyInv, CountTypes
  <2>5. CASE g # k
    <3>1. /\ g \in DOMAIN pending' <=> g \in DOMAIN pending
          /\ g \in DOMAIN pending => /\ pending'[g] = pending[g]
                                     /\ g \in DOMAIN reads /\ reads'[g] = reads[g]
          /\ g \in DOMAIN reads => reads'[g] = reads[g]
      BY <1>4, <1>5, <2>5 DEF CopyInv, ReadTypes
    <3>2. Steady(g) => g \in DOMAIN reads
      BY DEF CopyInv, Baselines, Steady
    <3>3. Steady(g) => BaselineBegan(g)' = BaselineBegan(g) /\ BaselineEnded(g)' = BaselineEnded(g)
      BY <3>1, <3>2 DEF BaselineBegan, BaselineEnded
    <3>4. (Steady(g) => Within(stream[g].words[i], BaselineBegan(g)[i], BaselineEnded(g)[i], off))'
      BY <1>2, <1>10, <2>1, <3>3 DEF Holds, Within
    <3>5. (g \in DOMAIN pending => Within(pending[g][i], reads[g].began[i], reads[g].ended[i], off))'
      BY <2>1, <2>4, <3>1 DEF Holds, Within
    <3>6. g # key'
      BY <1>1, <2>5
    <3>7. Holds(g, i, s, off)'
      BY <1>2, <2>2, <2>3, <3>4, <3>5, <3>6 DEF Holds
    <3> QED
      BY <3>7
  <2>6. CASE g = k
    <3>1. Steady(g) => /\ g \in DOMAIN reads
                       /\ BaselineBegan(g)' = BaselineBegan(g) /\ BaselineEnded(g)' = BaselineEnded(g)
      <4>1. Steady(g) => g \in DOMAIN reads
        BY DEF CopyInv, Baselines, Steady
      <4>2. g \in DOMAIN pending' /\ g \notin DOMAIN pending
        BY <1>3, <1>4, <2>6
      <4>3. g \in DOMAIN reads => reads'[g].before = <<reads[g].began, reads[g].ended>>
        BY <1>5, <2>6
      <4> QED
        BY <4>1, <4>2, <4>3 DEF BaselineBegan, BaselineEnded
    <3>2. (Steady(g) => Within(stream[g].words[i], BaselineBegan(g)[i], BaselineEnded(g)[i], off))'
      BY <1>2, <1>10, <2>1, <3>1 DEF Holds, Within
    <3>3. Copied(i, at)' = 0
      <4>1. Copied(i, 0) = 0 /\ at' = 0
        BY <1>2, <1>3, NothingCopied
      <4> QED
        BY <4>1 DEF Copied, WordOf, CpuOf
    <3>4. pending'[g][i] = 0 /\ reads'[g].began = made[g] /\ made' = made
      <4>1. i \in Words
        BY CountersAssumption DEF Ids, Words, Skip
      <4> QED
        BY <1>2, <1>4, <1>5, <2>6, <4>1
    <3>5. s[0] = 0 /\ s[NCpus] \in Int /\ made[g][i] \in Nat
      BY <2>1, <2>4, CountersAssumption DEF Holds, Sums, CopyInv, CountTypes
    <3>6. PICK S, m : S = s[NCpus] /\ m = made[g][i]
      OBVIOUS
    <3>7. m + off <= 0 + (S - 0) /\ 0 + (S - 0) <= m + off
      BY ONLY <3>5, <3>6, <2>3
    <3>8. (g = key => Within(pending[g][i] + ToCopy(i, s), reads[g].began[i], made[g][i], off))'
      BY <3>3, <3>4, <3>5, <3>6, <3>7 DEF Within, ToCopy
    <3>9. g = key'
      BY <1>1, <2>6
    <3>10. Holds(g, i, s, off)'
      BY <1>2, <2>2, <2>3, <3>2, <3>8, <3>9 DEF Holds
    <3> QED
      BY <3>10
  <2> QED
    BY <2>5, <2>6
<1>13. CopiesHold'
  BY <1>2, <1>12 DEF CopiesHold
<1>14. WindowsExact'
  BY <1>2 DEF CopyInv, WindowsExact
<1> QED
  BY <1>6, <1>7, <1>9, <1>11, <1>13, <1>14 DEF CopyInv

\* One word more is in the copy and one less to copy; the last word ends it.
LEMMA CopyInvCopyWord ==
  ASSUME CopyInv, OwnInv, CopyWord
  PROVE  CopyInv'
<1>1. PICK k, n, c, w : k = key /\ n = at /\ c = CpuOf(n) /\ w = WordOf(n)
  OBVIOUS
<1>2. /\ pc = "snapshot" /\ k # 0
      /\ UNCHANGED <<pulse_cgroups, counters, attached, made, pc, desired, todo, per_cpu, clock,
                     stream, windows>>
  BY <1>1 DEF CopyWord, mapVars, kernelVars, workerVars
<1>3. /\ n \in Nat /\ n < Copies /\ k \in DOMAIN pending /\ k \in DOMAIN pulse_cgroups
      /\ k \in DOMAIN reads /\ k \in Cgroups
      /\ pending[k] \in [Words -> Nat] /\ reads[k] \in Reads
  BY <1>1, <1>2 DEF CopyInv, PlaceInFrame, ReadTypes, CountTypes, Counts
<1>4. c \in Cpus /\ w \in Words
  BY <1>1, <1>3, PlaceInRange
<1>5. PICK x : x = counters[pulse_cgroups[k]][c][w] /\ x \in Nat
  <2>1. pulse_cgroups[k] \in Elements
    BY <1>3, ElementOf DEF OwnInv
  <2> QED
    BY <1>4, <2>1 DEF CopyInv, CountTypes, PerCpu, Counts
<1>6. pending' = [pending EXCEPT ![k][w] = pending[k][w] + x]
  BY <1>1, <1>5 DEF CopyWord
<1>7. /\ DOMAIN pending' = DOMAIN pending /\ pending'[k] \in [Words -> Nat]
      /\ pending'[k][w] = pending[k][w] + x
      /\ \A i \in Words : i # w => pending'[k][i] = pending[k][i]
      /\ \A g \in DOMAIN pending : g # k => pending'[g] = pending[g]
  <2>1. PICK row : row = [pending[k] EXCEPT ![w] = pending[k][w] + x]
    OBVIOUS
  <2>2. /\ row \in [Words -> Nat] /\ row[w] = pending[k][w] + x
        /\ \A i \in Words : i # w => row[i] = pending[k][i]
    BY <1>3, <1>4, <1>5, <2>1
  <2>3. pending' = [pending EXCEPT ![k] = row]
    BY <1>6, <2>1
  <2>4. /\ DOMAIN pending' = DOMAIN pending /\ pending'[k] = row
        /\ \A g \in DOMAIN pending : g # k => pending'[g] = pending[g]
    BY <1>3, <2>3
  <2> QED
    BY <2>2, <2>4
<1>8. \/ /\ n + 1 = Copies /\ at' = 0 /\ key' = 0
         /\ reads' = [reads EXCEPT ![k].ended = made[k]]
      \/ /\ n + 1 # Copies /\ at' = n + 1 /\ key' = k /\ reads' = reads
  BY <1>1 DEF CopyWord
<1>9. /\ DOMAIN reads' = DOMAIN reads
      /\ \A g \in DOMAIN reads : /\ g # k => reads'[g] = reads[g]
                                 /\ reads'[g].began = reads[g].began
                                 /\ reads'[g].before = reads[g].before
      /\ reads'[k] \in Reads
      /\ key' = 0 => reads'[k].ended = made[k]
  <2>1. CASE n + 1 = Copies
    <3>1. PICK r : r = [reads[k] EXCEPT !.ended = made[k]]
      OBVIOUS
    <3>2. made[k] \in MadeCounts
      BY <1>3 DEF CopyInv, CountTypes, MadeCounts
    <3>3. /\ r \in Reads /\ r.ended = made[k] /\ r.began = reads[k].began
          /\ r.before = reads[k].before
      BY <1>3, <3>1, <3>2 DEF Reads
    <3>4. reads' = [reads EXCEPT ![k] = r]
      BY <1>8, <2>1, <3>1
    <3> QED
      BY <1>3, <3>3, <3>4
  <2>2. CASE n + 1 # Copies
    BY <1>2, <1>3, <1>8, <2>2
  <2> QED
    BY <2>1, <2>2
<1>10. CountTypes'
  BY <1>2 DEF CopyInv, CountTypes, Sums
<1>11. PlaceInFrame'
  <2>1. at' \in Nat /\ at' < Copies /\ key' \in {0, k} /\ (key' = 0 => at' = 0)
    <3>1. n + 1 # Copies => n + 1 < Copies
      <4>1. Copies \in Nat
        BY CountersAssumption DEF Copies, Skip
      <4> QED
        BY ONLY <1>3, <4>1
    <3>2. 0 < Copies
      BY CountersAssumption DEF Copies, Skip
    <3> QED
      BY <1>2, <1>3, <1>8, <3>1, <3>2
  <2>2. \A g \in DOMAIN pending' : pending'[g] \in Counts /\ g \notin todo'
    BY <1>2, <1>3, <1>7 DEF CopyInv, PlaceInFrame, Counts
  <2> QED
    BY <1>2, <1>3, <1>7, <2>1, <2>2 DEF CopyInv, PlaceInFrame
<1>12. ReadTypes'
  BY <1>3, <1>7, <1>9 DEF CopyInv, ReadTypes
<1>13. \A g : Steady(g)' <=> Steady(g)
  BY <1>2 DEF Steady, Newest
<1>14. Baselines'
  BY <1>2, <1>7, <1>9, <1>13 DEF CopyInv, Baselines, Newest
<1>15. ASSUME NEW g \in DOMAIN pulse_cgroups, NEW i \in Ids
       PROVE  \E s, off : Holds(g, i, s, off)'
  <2>1. PICK s, off : Holds(g, i, s, off)
    BY DEF CopyInv, CopiesHold
  <2>2. Sums(counters[pulse_cgroups[g]], i, s)'
    BY <1>2, <2>1 DEF Holds, Sums
  <2>3. off \in Int /\ s[NCpus] = made[g][i] + off
    BY <2>1 DEF Holds
  <2>4. (Steady(g) => Within(stream[g].words[i], BaselineBegan(g)[i], BaselineEnded(g)[i], off))'
    <3>1. Steady(g) => g \in DOMAIN reads
      BY DEF CopyInv, Baselines, Steady
    <3>2. Steady(g) => BaselineBegan(g)' = BaselineBegan(g) /\ BaselineEnded(g)' = BaselineEnded(g)
      BY <1>3, <1>7, <1>9, <3>1 DEF BaselineBegan, BaselineEnded
    <3> QED
      BY <1>2, <1>13, <2>1, <3>2 DEF Holds, Within
  <2>5. CASE g # k
    <3>1. (g \in DOMAIN pending => Within(pending[g][i], reads[g].began[i], reads[g].ended[i], off))'
      BY <1>1, <1>7, <1>9, <2>1, <2>5 DEF Holds, Within, CopyInv, ReadTypes
    <3>2. g # key'
      <4>1. g # 0
        BY CountersAssumption DEF CopyInv, CountTypes
      <4> QED
        BY <1>8, <2>5, <4>1
    <3>3. Holds(g, i, s, off)'
      BY <1>2, <2>2, <2>3, <2>4, <3>1, <3>2 DEF Holds
    <3> QED
      BY <3>3
  <2>6. CASE g = k
    <3>0. i \in Words
      BY CountersAssumption DEF Ids, Words, Skip
    <3>1. Within(pending[g][i] + ToCopy(i, s), reads[g].began[i], made[g][i], off)
      BY <1>1, <2>1, <2>6 DEF Holds
    <3>2. PICK S, y, p, b, m : /\ S = s[NCpus] /\ y = s[Copied(i, n)] /\ p = pending[g][i]
                               /\ b = reads[g].began[i] /\ m = made[g][i]
      OBVIOUS
    <3>3. b + off <= p + (S - y) /\ p + (S - y) <= m + off
      BY <1>1, <3>1, <3>2 DEF Within, ToCopy
    <3>4. s \in [0 .. NCpus -> Int] /\ Copied(i, n) \in 0 .. NCpus /\ NCpus \in 0 .. NCpus
      BY <1>3, <2>1, CopiedInRange, CountersAssumption DEF Holds, Sums
    <3>5. S \in Int /\ y \in Int /\ p \in Nat /\ b \in Nat /\ m \in Nat
      <4>1. b \in Nat
        BY <1>3, <2>6, <3>2 DEF Reads, MadeCounts
      <4> QED
        BY <1>3, <2>6, <3>0, <3>2, <3>4, <4>1 DEF CopyInv, CountTypes
    <3>6. CASE n + 1 = Copies
      <4>1. i # w /\ Copied(i, n) = NCpus
        BY <1>1, <1>3, <3>6, AllCopied
      <4>2. pending'[g][i] = p
        BY <1>7, <2>6, <3>0, <3>2, <4>1
      <4>3. b + off <= p /\ p <= m + off
        BY <2>3, <3>2, <3>3, <3>5, <4>1
      <4>4. key' = 0 /\ g # 0
        BY <1>2, <1>8, <2>6, <3>6
      <4>5. reads'[g].began[i] = b /\ reads'[g].ended[i] = m
        BY <1>3, <1>9, <2>6, <3>2, <4>4
      <4>6. (g \in DOMAIN pending /\ g # key =>
               Within(pending[g][i], reads[g].began[i], reads[g].ended[i], off))'
        BY <4>2, <4>3, <4>5 DEF Within
      <4>7. Holds(g, i, s, off)'
        BY <1>2, <2>2, <2>3, <2>4, <4>4, <4>6 DEF Holds
      <4> QED
        BY <4>7
    <3>7. CASE n + 1 # Copies
      <4>1. at' = n + 1 /\ key' = k /\ reads' = reads
        BY <1>8, <3>7
      <4>2. Copied(i, at)' = Copied(i, n + 1)
        BY <4>1 DEF Copied, WordOf, CpuOf
      <4>3. PICK q, z : q = pending'[g][i] /\ z = s[Copied(i, n + 1)]
        OBVIOUS
      <4>4. q + (S - z) = p + (S - y)
        <5>1. CASE i = w
          <6>1. Copied(i, n) = c - 1 /\ Copied(i, n + 1) = c
            BY <1>1, <1>3, <5>1, OneMoreCopied
          <6>2. z = y + x
            <7>1. s[c] = s[c - 1] + counters[pulse_cgroups[g]][c][i]
              BY <1>4, <2>1 DEF Holds, Sums
            <7> QED
              BY <1>5, <2>6, <3>2, <4>3, <5>1, <6>1, <7>1
          <6>3. q = p + x
            BY <1>7, <2>6, <3>2, <4>3, <5>1
          <6> QED
            BY ONLY <1>5, <3>5, <6>2, <6>3
        <5>2. CASE i # w
          <6>1. Copied(i, n + 1) = Copied(i, n)
            BY <1>1, <1>3, <3>0, <5>2, OneMoreCopied
          <6> QED
            BY <1>7, <2>6, <3>0, <3>2, <4>3, <5>2, <6>1
        <5> QED
          BY <5>1, <5>2
      <4>5. (g = key => Within(pending[g][i] + ToCopy(i, s), reads[g].began[i], made[g][i], off))'
        BY <1>2, <3>2, <3>3, <4>1, <4>2, <4>3, <4>4 DEF Within, ToCopy
      <4>6. g = key'
        BY <2>6, <4>1
      <4>7. Holds(g, i, s, off)'
        BY <1>2, <2>2, <2>3, <2>4, <4>5, <4>6 DEF Holds
      <4> QED
        BY <4>7
    <3> QED
      BY <3>6, <3>7
  <2> QED
    BY <2>5, <2>6
<1>16. CopiesHold' /\ WindowsExact'
  BY <1>2, <1>15 DEF CopiesHold, CopyInv, WindowsExact
<1> QED
  BY <1>10, <1>11, <1>12, <1>14, <1>16 DEF CopyInv

\* A window's counts are the difference of two copies of the same element.
LEMMA WindowCounts ==
  ASSUME CopyInv, OwnInv, FrameInv, pc = "snapshot", key = 0,
         NEW g \in Snapshots, HasFeature(g), HasDelta(g), NEW i \in Ids
  PROVE  /\ Window(g).delta[i] >= reads[g].began[i] - reads[g].before[2][i]
         /\ Window(g).delta[i] <= reads[g].ended[i] - reads[g].before[1][i]
<1>1. g \in DOMAIN pending /\ g \in DOMAIN pulse_cgroups /\ g \in Cgroups /\ g # key
  BY CountersAssumption DEF CopyInv, PlaceInFrame, CountTypes, Snapshots
<1>2. g \in DOMAIN stream /\ Steady(g)
  <2>1. g \in DOMAIN stream /\ clock - stream[g].boundary = 1
    BY DEF HasFeature, Reset, InCadence
  <2>2. clock \in Nat /\ stream[g].boundary \in Nat
    BY <2>1 DEF CopyInv, CountTypes, Baselines
  <2>3. PICK b : b = stream[g].boundary
    OBVIOUS
  <2>4. b = clock - 1
    BY ONLY <2>1, <2>2, <2>3
  <2> QED
    BY <2>1, <2>3, <2>4 DEF Steady, Newest
<1>3. PICK s, off : Holds(g, i, s, off)
  BY <1>1 DEF CopyInv, CopiesHold
<1>4. /\ Within(stream[g].words[i], reads[g].before[1][i], reads[g].before[2][i], off)
      /\ Within(pending[g][i], reads[g].began[i], reads[g].ended[i], off)
  BY <1>1, <1>2, <1>3 DEF Holds, BaselineBegan, BaselineEnded
<1>5. /\ reads[g].before \in MadeCounts \X MadeCounts
      /\ reads[g].began \in MadeCounts /\ reads[g].ended \in MadeCounts
  BY <1>1, <1>2 DEF CopyInv, Baselines, ReadTypes, Reads
<1>6. i \in Words
  BY CountersAssumption DEF Ids, Words, Skip
<1>7. Window(g).delta[i] = pending[g][i] - stream[g].words[i]
  <2>1. g \in DOMAIN previous /\ Base[g] = previous[g]
    BY DEF HasDelta, Base, Nothing
  <2>2. Base[g][i] = stream[g].words[i]
    BY <2>1 DEF FrameInv
  <2> QED
    BY <2>2 DEF Window, FullDelta, Delta
<1>8. PICK p, q, b, e, x, y :
        /\ p = pending[g][i] /\ q = stream[g].words[i]
        /\ b = reads[g].began[i] /\ e = reads[g].ended[i]
        /\ x = reads[g].before[1][i] /\ y = reads[g].before[2][i]
  OBVIOUS
<1>9. /\ p \in Nat /\ q \in Nat /\ b \in Nat /\ e \in Nat /\ x \in Nat /\ y \in Nat
      /\ off \in Int
  <2>1. x \in Nat /\ y \in Nat /\ b \in Nat /\ e \in Nat
    BY <1>5, <1>8 DEF MadeCounts
  <2>2. p \in Nat /\ q \in Nat
    BY <1>1, <1>2, <1>6, <1>8 DEF CopyInv, PlaceInFrame, Baselines, Counts
  <2> QED
    BY <1>3, <2>1, <2>2 DEF Holds
<1>10. x + off <= q /\ q <= y + off /\ b + off <= p /\ p <= e + off
  BY <1>4, <1>8 DEF Within
<1>11. p - q >= b - y /\ p - q <= e - x
  BY ONLY <1>9, <1>10
<1> QED
  BY <1>7, <1>8, <1>11

LEMMA CopyInvEndFrame ==
  ASSUME CopyInv, OwnInv, FrameInv, EndFrame
  PROVE  CopyInv'
<1>1. /\ pc = "snapshot" /\ key = 0 /\ todo = {} /\ Frame
      /\ pc' = "asleep" /\ pending' = Nothing
      /\ UNCHANGED <<pulse_cgroups, counters, attached, made, desired, todo,
                     per_cpu, key, at, clock, reads>>
  BY DEF EndFrame, Sleep, mapVars
<1>2. CountTypes' /\ PlaceInFrame' /\ ReadTypes'
  BY <1>1 DEF CopyInv, CountTypes, PlaceInFrame, ReadTypes, Sums, Nothing
<1>3. clock \in Nat /\ Newest = clock - 1 /\ Newest' = clock
  BY <1>1 DEF CopyInv, CountTypes, Newest
<1>4. CASE Errors # {}
  <2>1. stream' = Nothing /\ windows' = {}
    BY <1>1, <1>4 DEF Frame
  <2>2. Baselines' /\ WindowsExact'
    BY <1>1, <2>1 DEF CopyInv, Baselines, WindowsExact, Nothing
  <2>3. ASSUME NEW g \in DOMAIN pulse_cgroups, NEW i \in Ids
        PROVE  \E s, off : Holds(g, i, s, off)'
    <3>1. PICK s, off : Holds(g, i, s, off)
      BY DEF CopyInv, CopiesHold
    <3>2. /\ off \in Int /\ s[NCpus] = made'[g][i] + off
          /\ Sums(counters[pulse_cgroups[g]], i, s)'
      BY <1>1, <3>1 DEF Holds, Sums
    <3>3. ~Steady(g)' /\ g \notin DOMAIN pending'
      BY <1>1, <2>1 DEF Steady, Nothing
    <3>4. g # key'
      BY <1>1, CountersAssumption DEF CopyInv, CountTypes
    <3>5. Holds(g, i, s, off)'
      BY <3>2, <3>3, <3>4 DEF Holds
    <3> QED
      BY <3>5
  <2> QED
    BY <1>1, <1>2, <2>2, <2>3 DEF CopyInv, CopiesHold
<1>5. CASE Errors = {}
  <2>1. /\ stream' = [g \in DOMAIN stream \cup Snapshots |->
               IF g \in Snapshots THEN Baseline(g) ELSE stream[g]]
        /\ windows' = {Window(g) : g \in {h \in Snapshots : HasFeature(h) /\ HasDelta(h)}}
    BY <1>1, <1>5 DEF Frame
  <2>2. /\ DOMAIN stream' = DOMAIN stream \cup DOMAIN pending
        /\ \A g \in DOMAIN pending : /\ stream'[g].boundary = clock
                                     /\ stream'[g].words = pending[g]
        /\ \A g \in DOMAIN stream : g \notin DOMAIN pending => stream'[g] = stream[g]
    BY <2>1 DEF Baseline, Snapshots
  <2>3. \A g : Steady(g)' <=> g \in DOMAIN pending
    <3>1. ASSUME NEW g \in DOMAIN stream, g \notin DOMAIN pending
          PROVE  stream'[g].boundary # clock
      <4>1. PICK b : b = stream[g].boundary
        OBVIOUS
      <4>2. b \in Nat /\ b <= clock - 1
        BY <1>3, <4>1 DEF CopyInv, Baselines
      <4>3. b # clock
        BY ONLY <1>3, <4>2
      <4> QED
        BY <2>2, <3>1, <4>1, <4>3
    <3> QED
      BY <1>3, <2>2, <3>1 DEF Steady
  <2>4. Baselines'
    <3>1. \A g \in DOMAIN stream' : /\ stream'[g].words \in Counts
            /\ stream'[g].boundary \in Nat /\ stream'[g].boundary <= clock
      <4>1. ASSUME NEW g \in DOMAIN pending
            PROVE  /\ stream'[g].words \in Counts
                   /\ stream'[g].boundary \in Nat /\ stream'[g].boundary <= clock
        BY <1>3, <2>2 DEF CopyInv, PlaceInFrame
      <4>2. ASSUME NEW g \in DOMAIN stream, g \notin DOMAIN pending
            PROVE  /\ stream'[g].words \in Counts
                   /\ stream'[g].boundary \in Nat /\ stream'[g].boundary <= clock
        <5>1. PICK b : b = stream[g].boundary
          OBVIOUS
        <5>2. b \in Nat /\ b <= clock - 1 /\ stream[g].words \in Counts
          BY <1>3, <5>1 DEF CopyInv, Baselines
        <5>3. b <= clock
          BY ONLY <1>3, <5>2
        <5> QED
          BY <2>2, <4>2, <5>1, <5>2, <5>3
      <4> QED
        BY <2>2, <4>1, <4>2
    <3>2. attached'
      BY <1>1 DEF CopyInv, Baselines
    <3>3. \A g \in DOMAIN pending : g \in DOMAIN pulse_cgroups /\ g \in DOMAIN reads
      BY DEF CopyInv, PlaceInFrame, ReadTypes
    <3> QED
      BY <1>1, <1>3, <2>3, <3>1, <3>2, <3>3 DEF Baselines, Nothing
  <2>5. ASSUME NEW g \in DOMAIN pulse_cgroups, NEW i \in Ids
        PROVE  \E s, off : Holds(g, i, s, off)'
    <3>1. PICK s, off : Holds(g, i, s, off)
      BY DEF CopyInv, CopiesHold
    <3>2. /\ off \in Int /\ s[NCpus] = made'[g][i] + off
          /\ Sums(counters[pulse_cgroups[g]], i, s)'
      BY <1>1, <3>1 DEF Holds, Sums
    <3>3. g # key /\ g # key' /\ g \notin DOMAIN pending'
      BY <1>1, CountersAssumption DEF CopyInv, CountTypes, Nothing
    <3>4. g \in DOMAIN pending => Within(pending[g][i], reads[g].began[i], reads[g].ended[i], off)
      BY <3>1, <3>3 DEF Holds
    <3>5. BaselineBegan(g)' = reads[g].began /\ BaselineEnded(g)' = reads[g].ended
      BY <1>1, <3>3 DEF BaselineBegan, BaselineEnded
    <3>6. (Steady(g) => Within(stream[g].words[i], BaselineBegan(g)[i], BaselineEnded(g)[i], off))'
      BY <2>2, <2>3, <3>4, <3>5 DEF Within
    <3>7. Holds(g, i, s, off)'
      BY <3>2, <3>3, <3>6 DEF Holds
    <3> QED
      BY <3>7
  <2>6. WindowsExact'
    <3>1. ASSUME NEW v \in windows', NEW i \in Ids
          PROVE  /\ v.delta[i] >= v.read.began[i] - v.read.before[2][i]
                 /\ v.delta[i] <= v.read.ended[i] - v.read.before[1][i]
      <4>1. PICK g \in Snapshots : HasFeature(g) /\ HasDelta(g) /\ v = Window(g)
        BY <2>1, <3>1
      <4>2. v.read = reads[g]
        BY <4>1 DEF Window
      <4> QED
        BY <1>1, <4>1, <4>2, WindowCounts
    <3> QED
      BY <3>1 DEF WindowsExact
  <2> QED
    BY <1>1, <1>2, <2>4, <2>5, <2>6 DEF CopyInv, CopiesHold
<1> QED
  BY <1>4, <1>5

LEMMA CopyInvStep == OwnInv /\ FrameInv /\ CopyInv /\ [Next]_vars => CopyInv'
<1> SUFFICES ASSUME OwnInv, FrameInv, CopyInv, [Next]_vars PROVE CopyInv'
  OBVIOUS
<1>1. ASSUME NEW c \in Cpus, Program(c) PROVE CopyInv'
  <2>1. ASSUME NEW g \in Cgroups, NEW i \in Ids, NEW skipped \in BOOLEAN,
               Enter(c, g, i, skipped)
        PROVE  CopyInv'
    BY <2>1, CopyInvSame DEF Enter
  <2> QED
    BY <1>1, <2>1, CopyInvCount, CopyInvCountSkip DEF Program
<1>2. CASE FindTarget
  BY <1>2, CopyInvFindTarget
<1>3. CASE AddTarget
  BY <1>3, CopyInvAddTarget
<1>4. CASE MapFull
  BY <1>4, CopyInvMapFull
<1>5. CASE DeleteTargets
  BY <1>5, CopyInvDeleteTargets
<1>6. CASE Wake
  BY <1>6, CopyInvWake
<1>7. CASE NextKey
  BY <1>7, CopyInvNextKey
<1>8. CASE CopyWord
  BY <1>8, CopyInvCopyWord
<1>9. CASE EndFrame
  BY <1>9, CopyInvEndFrame
<1>10. CASE NewSegment
  BY <1>10, CopyInvNewSegment
<1>11. CASE UNCHANGED vars
  BY <1>11, CopyInvSame DEF vars, kernelVars
<1> QED
  BY <1>1, <1>2, <1>3, <1>4, <1>5, <1>6, <1>7, <1>8, <1>9, <1>10, <1>11 DEF Next

\* A window counts calls of its own cgroup, all that were made between the
\* two copies it is taken from and none that was made outside of them: the
\* words are read one by one while the programs go on (loader.c:211), an
\* inserted element begins with the words of another one (line 103), and
\* both of the worker's baselines outlive a frame that is late.
THEOREM WindowsAreExact == Spec => []WindowsExact
<1>1. CopyInv => WindowsExact
  BY DEF CopyInv
<1>2. OwnInv /\ [Next]_vars => OwnInv'
  BY OwnInvProgram, OwnInvLoader
<1> QED
  BY <1>1, <1>2, OwnInvInit, FrameInvInit, FrameInvStep, CopyInvInit, CopyInvStep, PTL DEF Spec
===============================================================================
