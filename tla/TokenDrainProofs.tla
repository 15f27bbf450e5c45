--------------------------- MODULE TokenDrainProofs ---------------------------
(***************************************************************************)
(* The drain of the token grams for every number of threads, cgroups, keys *)
(* and half seconds: a window is printed once and complete, because behind *)
(* the guard no program works on a window that is drained, and every gram  *)
(* is a run of one thread's tokens in one cgroup.                          *)
(***************************************************************************)
EXTENDS TokenDrain, TLAPS

-------------------------------------------------------------------------------
(* The inductive invariant. *)

IsCount(f) ==
  /\ f = [k \in DOMAIN f |-> f[k]]
  /\ \A k \in DOMAIN f : f[k] \in Nat

TimesOK == clock \in Nat /\ now \in Nat /\ now <= Window(clock)

MapsOK ==
  /\ IsCount(grams) /\ IsCount(counted) /\ IsCount(failed)
  /\ DOMAIN grams \subseteq DOMAIN counted /\ DOMAIN failed \subseteq DOMAIN counted
  /\ \A k \in DOMAIN counted : k.window \in Nat

\* A program works on the half second it began in, which has not been drained;
\* an element it found is still in the map.
ProgramOK(t) ==
  Busy(t) =>
    /\ run[t].key.window \in Nat
    /\ run[t].key.window >= now /\ run[t].key.window <= Window(clock)
    /\ ~InGuard(clock) => run[t].key.window = Window(clock)
    /\ run[t].step = "add" => run[t].key \in DOMAIN grams

ProgramsOK ==
  /\ run = [t \in Threads |-> run[t]]
  /\ \A t \in Threads : ProgramOK(t)

\* What the programs counted is in the map or was refused.
Accounted(k) == Of(grams, k) + Of(failed, k) = Of(counted, k)

\* The window was drained, in this drain or in an earlier one.
Drained(w) ==
  /\ w < now
  /\ pc \in {"sleep", "snapshots", "copy"} => \A g \in DOMAIN grams : w < g.window

AccountsOK ==
  /\ \A k \in DOMAIN counted : Accounted(k) \/ Drained(k.window)
  /\ \A line \in DOMAIN lines :
       line.window \in Nat /\ Drained(line.window) /\ lines[line] = <<lines[line][1]>>

\* What the loader has read of a closed window is what is in the map.
LoaderOK ==
  /\ pc \in {"sleep", "snapshots"} => \A g \in DOMAIN grams : g.window >= now
  /\ pc = "copy" =>
       /\ DOMAIN copy \subseteq DOMAIN grams
       /\ \A k \in DOMAIN copy : k.window < now => copy[k] = grams[k]
  /\ pc \in {"copy", "delete"} => \A g \in DOMAIN grams : g.window < now => g \in left
  /\ pc = "delete" => \A k \in left : k.window < now

IInv ==
  /\ TimesOK /\ MapsOK /\ ProgramsOK /\ AccountsOK /\ LoaderOK
  /\ WindowsAreComplete

LEMMA Halves ==
  ASSUME NEW c \in Nat
  PROVE  /\ Window(c) \in Nat /\ Window(c + 1) >= Window(c)
         /\ InGuard(c) => Window(c + 1) = Window(c)
         /\ InGuard(c) <=> ~InGuard(c + 1)
BY DEF Window, InGuard

\* One more of the key.
OneMore(f, g, key) ==
  /\ IsCount(g) /\ DOMAIN g = DOMAIN f \cup {key}
  /\ \A k : Of(g, k) = Of(f, k) + (IF k = key THEN 1 ELSE 0)

LEMMA PlusIsOneMore == ASSUME NEW f, IsCount(f), NEW key PROVE OneMore(f, Plus(f, key, 1), key)
BY DEF OneMore, IsCount, Plus, Of

LEMMA OfNat == ASSUME NEW f, IsCount(f) PROVE \A k : Of(f, k) \in Nat
BY DEF IsCount, Of

LEMMA InitiallyOK == Init => IInv
<1> SUFFICES ASSUME Init PROVE IInv
  OBVIOUS
<1>1. TimesOK
  BY Halves DEF Init, TimesOK, Window
<1>2. MapsOK
  BY DEF Init, MapsOK, IsCount, EmptyMap
<1>3. ProgramsOK
  BY DEF Init, ProgramsOK, ProgramOK, Busy
<1>4. AccountsOK /\ LoaderOK /\ WindowsAreComplete
  BY DEF Init, AccountsOK, LoaderOK, WindowsAreComplete, EmptyMap
<1> QED
  BY <1>1, <1>2, <1>3, <1>4 DEF IInv

-------------------------------------------------------------------------------
(* Steps of the programs. *)

LEMMA Untouched ==
  ASSUME IInv, UNCHANGED <<clock, grams, pc, now, copy, left, lines, counted, failed>>
  PROVE  TimesOK' /\ MapsOK' /\ AccountsOK' /\ LoaderOK' /\ WindowsAreComplete'
<1>1. TimesOK' /\ MapsOK'
  BY DEF IInv, TimesOK, MapsOK, IsCount, Window
<1>2. AccountsOK'
  BY DEF IInv, AccountsOK, Accounted, Drained, Of
<1>3. LoaderOK'
  BY DEF IInv, LoaderOK
<1>4. WindowsAreComplete'
  BY DEF IInv, WindowsAreComplete, Of
<1> QED
  BY <1>1, <1>2, <1>3, <1>4

\* A new gram is of the half second that is now.
LEMMA Begins ==
  ASSUME TimesOK, ProgramsOK, NEW t \in Threads, NEW tokens, UNCHANGED <<clock, now, grams>>,
         run' = [run EXCEPT ![t] = At(Key(cgroup[t], clock, tokens), "lookup")]
  PROVE  ProgramsOK'
<1> DEFINE step == At(Key(cgroup[t], clock, tokens), "lookup")
<1>1. step.step = "lookup" /\ step.key.window = Window(clock)
  BY DEF At, Key
<1>2. Window(clock) \in Nat /\ now <= Window(clock)
  BY Halves DEF TimesOK
<1> HIDE DEF step
<1>3. run' = [u \in Threads |-> run'[u]] /\ \A u \in Threads : run'[u] = IF u = t THEN step ELSE run[u]
  BY DEF ProgramsOK, step
<1>4. ASSUME NEW u \in Threads PROVE ProgramOK(u)'
  <2>1. CASE u = t
    BY <1>1, <1>2, <1>3, <2>1 DEF ProgramOK, Busy, TimesOK
  <2>2. CASE u # t
    <3>1. run'[u] = run[u] /\ ProgramOK(u)
      BY <1>3, <2>2 DEF ProgramsOK
    <3> QED
      BY <3>1 DEF ProgramOK, Busy
  <2> QED
    BY <2>1, <2>2
<1> QED
  BY <1>3, <1>4 DEF ProgramsOK

LEMMA UnchangedRuns ==
  ASSUME ProgramsOK, UNCHANGED <<clock, now, grams, run>>
  PROVE  ProgramsOK'
BY DEF ProgramsOK, ProgramOK, Busy

LEMMA Calling ==
  ASSUME IInv, NEW t \in Threads,
         (\E call \in Calls : EnterCall(t, call)) \/ ReturnFromCall(t) \/ Evict(t) \/ Move(t)
  PROVE  IInv'
<1>1. UNCHANGED <<clock, grams, pc, now, copy, left, lines, counted, failed>>
  BY DEF EnterCall, ReturnFromCall, Evict, Move, loaderVars, countVars
<1>2. \/ UNCHANGED run
      \/ \E tokens : run' = [run EXCEPT ![t] = At(Key(cgroup[t], clock, tokens), "lookup")]
  BY DEF EnterCall, ReturnFromCall, Evict, Move, Emit
<1>3. ProgramsOK'
  BY <1>1, <1>2, Begins, UnchangedRuns DEF IInv
<1> QED
  BY <1>1, <1>3, Untouched DEF IInv

LEMMA Continues ==
  ASSUME ProgramsOK, NEW t \in Threads, Busy(t), NEW step, UNCHANGED <<clock, now>>,
         DOMAIN grams \subseteq DOMAIN grams', run' = [run EXCEPT ![t] = step],
         \/ step = Idle
         \/ step.key = run[t].key /\ (step.step = "add" => step.key \in DOMAIN grams')
  PROVE  ProgramsOK'
<1>1. run' = [u \in Threads |-> run'[u]] /\ \A u \in Threads : run'[u] = IF u = t THEN step ELSE run[u]
  BY DEF ProgramsOK
<1>2. ASSUME NEW u \in Threads PROVE ProgramOK(u)'
  <2>1. CASE u = t
    BY <1>1, <2>1 DEF ProgramsOK, ProgramOK, Busy
  <2>2. CASE u # t
    <3>1. run'[u] = run[u] /\ ProgramOK(u)
      BY <1>1, <2>2 DEF ProgramsOK
    <3> QED
      BY <3>1 DEF ProgramOK, Busy
  <2> QED
    BY <2>1, <2>2
<1> QED
  BY <1>1, <1>2 DEF ProgramsOK

LEMMA Looking ==
  ASSUME IInv, NEW t \in Threads,
         \/ LookupGram(t)
         \/ InsertGram(t) /\ ~Insertable(run[t].key)
         \/ LookupAgain(t) /\ run[t].key \in DOMAIN grams
  PROVE  IInv'
<1>1. Busy(t) /\ UNCHANGED <<clock, grams, pc, now, copy, left, lines, counted, failed>>
  BY DEF LookupGram, InsertGram, LookupAgain, ProgramStep, loaderVars, countVars
<1>2. PICK step :
        /\ run' = [run EXCEPT ![t] = step] /\ step.key = run[t].key
        /\ step.step = "add" => step.key \in DOMAIN grams
  <2>1. PICK name : /\ run' = [run EXCEPT ![t] = At(run[t].key, name)]
                    /\ name = "add" => run[t].key \in DOMAIN grams
    BY DEF LookupGram, InsertGram, LookupAgain, Continue
  <2>2. At(run[t].key, name).key = run[t].key /\ At(run[t].key, name).step = name
    BY DEF At
  <2> WITNESS At(run[t].key, name)
  <2> QED
    BY <2>1, <2>2
<1>3. ProgramsOK'
  BY <1>1, <1>2, Continues DEF IInv
<1> QED
  BY <1>1, <1>3, Untouched DEF IInv

\* A gram is counted in the map or as one that failed.
Counts(t) ==
  \/ AddGram(t)
  \/ InsertGram(t) /\ Insertable(run[t].key)
  \/ LookupAgain(t) /\ run[t].key \notin DOMAIN grams

\* What such a step does to the counts: the key gains one on both sides.
Gains(key) ==
  /\ IsCount(grams') /\ IsCount(counted') /\ IsCount(failed')
  /\ DOMAIN grams \subseteq DOMAIN grams' /\ DOMAIN grams' \subseteq DOMAIN grams \cup {key}
  /\ DOMAIN failed' \subseteq DOMAIN failed \cup {key}
  /\ DOMAIN counted' = DOMAIN counted \cup {key}
  /\ \A k : k # key => /\ Of(grams', k) = Of(grams, k)
                       /\ Of(failed', k) = Of(failed, k)
                       /\ Of(counted', k) = Of(counted, k)
  /\ Accounted(key) => Accounted(key)'
  /\ \A k \in DOMAIN grams : k # key => grams'[k] = grams[k]

LEMMA CountsGain ==
  ASSUME MapsOK, ProgramsOK, NEW t \in Threads, Counts(t), NEW key, key = run[t].key
  PROVE  Gains(key)
<1>1. IsCount(grams) /\ IsCount(counted) /\ IsCount(failed)
  BY DEF MapsOK
<1>2. counted' = Plus(counted, key, 1)
  BY DEF Counts, AddGram, InsertGram, LookupAgain
<1>3. /\ IsCount(counted') /\ DOMAIN counted' = DOMAIN counted \cup {key}
      /\ \A k : Of(counted', k) = Of(counted, k) + (IF k = key THEN 1 ELSE 0)
  <2>1. OneMore(counted, counted', key)
    BY <1>1, <1>2, PlusIsOneMore
  <2> QED
    BY <2>1 DEF OneMore
<1>nat. \A k : Of(counted, k) \in Nat /\ Of(grams, k) \in Nat /\ Of(failed, k) \in Nat
  BY <1>1, OfNat
<1>4. CASE AddGram(t)
  <2>1. key \in DOMAIN grams
    BY <1>4 DEF AddGram, ProgramStep, ProgramsOK, ProgramOK
  <2>2. grams' = Plus(grams, key, 1) /\ failed' = failed
    BY <1>4, <2>1 DEF AddGram, AddToElement
  <2>3. /\ IsCount(grams') /\ DOMAIN grams' = DOMAIN grams
        /\ \A k : Of(grams', k) = Of(grams, k) + (IF k = key THEN 1 ELSE 0)
    <3>1. OneMore(grams, grams', key)
      BY <1>1, <2>2, PlusIsOneMore
    <3> QED
      BY <2>1, <3>1 DEF OneMore
  <2>4. \A k \in DOMAIN grams : k # key => grams'[k] = grams[k]
    BY <1>1, <2>1, <2>2 DEF Plus, IsCount
  <2>5. \A k : Of(failed', k) = Of(failed, k)
    BY <2>2 DEF Of
  <2>6. Accounted(key) => Accounted(key)'
    BY <1>3, <1>nat, <2>3, <2>5 DEF Accounted
  <2>7. \A k : k # key => Of(grams', k) = Of(grams, k) /\ Of(counted', k) = Of(counted, k)
    BY <1>3, <1>nat, <2>3
  <2> QED
    BY <1>1, <1>3, <2>2, <2>3, <2>4, <2>5, <2>6, <2>7 DEF Gains
<1>5. CASE InsertGram(t) /\ Insertable(key)
  <2>1. /\ key \notin DOMAIN grams /\ failed' = failed
        /\ grams' = [k \in DOMAIN grams \cup {key} |-> IF k = key THEN 1 ELSE grams[k]]
    BY <1>5 DEF InsertGram, Insertable
  <2>2. IsCount(grams') /\ DOMAIN grams' = DOMAIN grams \cup {key}
    BY <1>1, <2>1 DEF IsCount
  <2>3. \A k : Of(grams', k) = Of(grams, k) + (IF k = key THEN 1 ELSE 0)
    BY <1>1, <2>1 DEF Of, IsCount
  <2>4. \A k \in DOMAIN grams : k # key => grams'[k] = grams[k]
    BY <2>1
  <2>5. \A k : Of(failed', k) = Of(failed, k)
    BY <2>1 DEF Of
  <2>6. Accounted(key) => Accounted(key)'
    BY <1>3, <1>nat, <2>3, <2>5 DEF Accounted
  <2>7. \A k : k # key => Of(grams', k) = Of(grams, k) /\ Of(counted', k) = Of(counted, k)
    BY <1>3, <1>nat, <2>3
  <2> QED
    BY <1>1, <1>3, <2>1, <2>2, <2>4, <2>5, <2>6, <2>7 DEF Gains
<1>6. CASE LookupAgain(t) /\ key \notin DOMAIN grams
  <2>1. failed' = Plus(failed, key, 1) /\ grams' = grams
    BY <1>6 DEF LookupAgain
  <2>2. /\ IsCount(failed') /\ DOMAIN failed' = DOMAIN failed \cup {key}
        /\ \A k : Of(failed', k) = Of(failed, k) + (IF k = key THEN 1 ELSE 0)
    <3>1. OneMore(failed, failed', key)
      BY <1>1, <2>1, PlusIsOneMore
    <3> QED
      BY <3>1 DEF OneMore
  <2>3. \A k : Of(grams', k) = Of(grams, k)
    BY <2>1 DEF Of
  <2>4. Accounted(key) => Accounted(key)'
    BY <1>3, <1>nat, <2>2, <2>3 DEF Accounted
  <2>5. \A k : k # key => Of(failed', k) = Of(failed, k) /\ Of(counted', k) = Of(counted, k)
    BY <1>3, <1>nat, <2>2
  <2> QED
    BY <1>1, <1>3, <2>1, <2>2, <2>3, <2>4, <2>5 DEF Gains
<1> QED
  BY <1>4, <1>5, <1>6 DEF Counts

LEMMA Counting ==
  ASSUME IInv, NEW t \in Threads, Counts(t)
  PROVE  IInv'
<1> PICK key : key = run[t].key
  OBVIOUS
<1>1. /\ Busy(t) /\ UNCHANGED <<clock, pc, now, copy, left, lines>>
      /\ run' = [run EXCEPT ![t] = Idle]
  BY DEF Counts, AddGram, InsertGram, LookupAgain, ProgramStep, loaderVars, Continue
<1>2. Gains(key)
  BY CountsGain DEF IInv
<1>3. key.window \in Nat /\ key.window >= now
  BY <1>1 DEF IInv, ProgramsOK, ProgramOK
<1>4. now \in Nat
  BY DEF IInv, TimesOK
<1>5. TimesOK' /\ MapsOK'
  <2>1. TimesOK'
    BY <1>1 DEF IInv, TimesOK, Window
  <2>2. DOMAIN grams' \subseteq DOMAIN counted' /\ DOMAIN failed' \subseteq DOMAIN counted'
    BY <1>2 DEF IInv, MapsOK, Gains
  <2> QED
    BY <1>2, <1>3, <2>1, <2>2 DEF IInv, MapsOK, Gains
<1>6. ProgramsOK'
  BY <1>1, <1>2, Continues DEF IInv, Gains
<1>7. \A w \in Nat : Drained(w) => Drained(w)'
  <2>1. \A g \in DOMAIN grams' : g = key \/ g \in DOMAIN grams
    BY <1>2 DEF Gains
  <2>2. ASSUME NEW w \in Nat, Drained(w) PROVE Drained(w)'
    BY <1>1, <1>3, <1>4, <2>1, <2>2 DEF Drained
  <2> QED
    BY <2>2
<1>8. \A k : k # key => (Accounted(k) <=> Accounted(k)')
  BY <1>2 DEF Gains, Accounted
<1>9. Accounted(key)'
  <2>1. ~Drained(key.window)
    BY <1>3, <1>4 DEF Drained
  <2>2. key \notin DOMAIN counted => Accounted(key)
    BY DEF IInv, MapsOK, Accounted, Of
  <2> QED
    BY <1>2, <2>1, <2>2 DEF IInv, AccountsOK, Gains
<1>10. AccountsOK'
  <2>1. \A k \in DOMAIN counted' : k = key \/ k \in DOMAIN counted
    BY <1>2 DEF Gains
  <2> QED
    BY <1>1, <1>3, <1>7, <1>8, <1>9, <2>1 DEF IInv, AccountsOK, MapsOK
<1>11. LoaderOK'
  <2>1. \A g \in DOMAIN grams' : g = key \/ g \in DOMAIN grams
    BY <1>2 DEF Gains
  <2>2. ~(key.window < now)
    BY <1>3, <1>4
  <2>3. \A k \in DOMAIN copy : k.window < now /\ k \in DOMAIN grams => grams'[k] = grams[k]
    BY <1>2, <2>2 DEF Gains
  <2>4. DOMAIN grams \subseteq DOMAIN grams'
    BY <1>2 DEF Gains
  <2> QED
    BY <1>1, <1>3, <2>1, <2>2, <2>3, <2>4 DEF IInv, LoaderOK
<1>12. WindowsAreComplete'
  <2>1. \A line \in DOMAIN lines : line.window # key.window
    BY <1>3, <1>4 DEF IInv, AccountsOK, Drained
  <2>2. \A k \in DOMAIN counted' : k = key \/ k \in DOMAIN counted
    BY <1>2 DEF Gains
  <2>3. \A k : k # key => Of(failed', k) = Of(failed, k) /\ Of(counted', k) = Of(counted, k)
    BY <1>2 DEF Gains
  <2> QED
    BY <1>1, <2>1, <2>2, <2>3 DEF IInv, WindowsAreComplete, Of
<1> QED
  BY <1>5, <1>6, <1>10, <1>11, <1>12 DEF IInv

-------------------------------------------------------------------------------
(* Steps of the loader. *)

LEMMA Ticking == ASSUME IInv, Tick PROVE IInv'
<1>1. UNCHANGED <<run, grams, pc, now, copy, left, lines, counted, failed>> /\ clock' = clock + 1
  BY DEF Tick, threadVars, loaderVars, countVars
<1>2. clock \in Nat /\ now \in Nat /\ now <= Window(clock)
  BY DEF IInv, TimesOK
<1>3. /\ Window(clock) \in Nat /\ Window(clock') \in Nat /\ Window(clock') >= Window(clock)
      /\ InGuard(clock) => Window(clock') = Window(clock)
      /\ InGuard(clock) <=> ~InGuard(clock')
  <2>1. clock' \in Nat
    BY <1>1, <1>2
  <2> QED
    BY <1>1, <1>2, <2>1, Halves
<1>4. TimesOK'
  BY <1>1, <1>2, <1>3 DEF TimesOK, Window
<1>5. ASSUME NEW t \in Threads PROVE ProgramOK(t)'
  <2>1. ProgramOK(t) /\ (InGuard(clock) /\ Busy(t) => run[t].key.window = Window(clock))
    BY DEF IInv, ProgramsOK, Tick
  <2> QED
    BY <1>1, <1>2, <1>3, <2>1 DEF ProgramOK, Busy, Window, InGuard
<1>6. ProgramsOK'
  BY <1>1, <1>5 DEF IInv, ProgramsOK
<1>7. MapsOK' /\ AccountsOK' /\ LoaderOK' /\ WindowsAreComplete'
  BY <1>1 DEF IInv, MapsOK, IsCount, AccountsOK, Accounted, Drained, LoaderOK, WindowsAreComplete, Of
<1> QED
  BY <1>4, <1>6, <1>7 DEF IInv

\* Steps that leave the map, the lines and the half second of the drain alone.
LEMMA Placing ==
  ASSUME IInv, UNCHANGED <<clock, run, grams, now, lines, counted, failed>>
  PROVE  TimesOK' /\ MapsOK' /\ ProgramsOK' /\ WindowsAreComplete'
<1>1. TimesOK' /\ MapsOK' /\ ProgramsOK'
  BY DEF IInv, TimesOK, Window, MapsOK, IsCount, ProgramsOK, ProgramOK, Busy, InGuard
<1>2. WindowsAreComplete'
  BY DEF IInv, WindowsAreComplete, Of
<1> QED
  BY <1>1, <1>2

LEMMA Waking == ASSUME IInv, Wake \/ Stop PROVE IInv'
<1>1. UNCHANGED <<clock, run, grams, now, lines, counted, failed>>
  BY DEF Wake, Stop, threadVars, countVars
<1>2. \/ pc = "sleep" /\ pc' = "snapshots" /\ UNCHANGED <<copy, left>>
      \/ pc' = "stopped"
  BY DEF Wake, Stop
<1>3. AccountsOK' /\ LoaderOK'
  BY <1>1, <1>2 DEF IInv, AccountsOK, Accounted, Drained, LoaderOK, Of
<1> QED
  BY <1>1, <1>3, Placing DEF IInv

LEMMA Beginning == ASSUME IInv, BeginDrain PROVE IInv'
<1>1. /\ UNCHANGED <<clock, run, grams, lines, counted, failed>>
      /\ pc = "snapshots" /\ pc' = "copy" /\ now' = Window(clock) /\ ~InGuard(clock)
      /\ left' = DOMAIN grams /\ copy' = EmptyMap
  BY DEF BeginDrain, Rested, threadVars, countVars
<1>2. clock \in Nat /\ now \in Nat /\ now' \in Nat /\ now <= now'
  BY <1>1, Halves DEF IInv, TimesOK
<1>3. TimesOK' /\ MapsOK'
  BY <1>1, <1>2 DEF IInv, TimesOK, Window, MapsOK, IsCount
<1>4. ProgramsOK'
  BY <1>1, <1>2 DEF IInv, ProgramsOK, ProgramOK, Busy, Window, InGuard
<1>5. AccountsOK'
  <2>1. ASSUME NEW w \in Nat, Drained(w) PROVE Drained(w)'
    BY <1>1, <1>2, <2>1 DEF Drained
  <2> QED
    BY <1>1, <2>1 DEF IInv, MapsOK, AccountsOK, Accounted, Of
<1>6. LoaderOK'
  BY <1>1 DEF LoaderOK, EmptyMap
<1>7. WindowsAreComplete'
  BY <1>1 DEF IInv, WindowsAreComplete, Of
<1> QED
  BY <1>3, <1>4, <1>5, <1>6, <1>7 DEF IInv

LEMMA Copying == ASSUME IInv, CopyGram PROVE IInv'
<1>1. /\ UNCHANGED <<clock, run, grams, now, left, lines, counted, failed, pc>> /\ pc = "copy"
      /\ \E key \in DOMAIN grams \ DOMAIN copy :
            copy' = [k \in DOMAIN copy \cup {key} |-> IF k = key THEN grams[k] ELSE copy[k]]
  BY DEF CopyGram, threadVars, countVars
<1>2. AccountsOK'
  BY <1>1 DEF IInv, AccountsOK, Accounted, Drained, Of
<1>3. LoaderOK'
  BY <1>1 DEF IInv, LoaderOK
<1> QED
  BY <1>1, <1>2, <1>3, Placing DEF IInv

LEMMA Deleting == ASSUME IInv, DeleteGram PROVE IInv'
<1>1. PICK key \in left :
        grams' = Restrict(grams, DOMAIN grams \ {key}) /\ left' = left \ {key}
  BY DEF DeleteGram
<1>2. UNCHANGED <<clock, run, now, lines, counted, failed, pc, copy>> /\ pc = "delete"
  BY DEF DeleteGram, threadVars, countVars
<1>3. key.window < now
  BY <1>1, <1>2 DEF IInv, LoaderOK
<1>4. /\ IsCount(grams') /\ DOMAIN grams' = DOMAIN grams \ {key}
      /\ \A k : k # key => Of(grams', k) = Of(grams, k)
  BY <1>1 DEF IInv, MapsOK, IsCount, Restrict, Of
<1>5. TimesOK' /\ MapsOK'
  BY <1>2, <1>4 DEF IInv, TimesOK, Window, MapsOK, IsCount
<1>6. ASSUME NEW t \in Threads PROVE ProgramOK(t)'
  <2>1. ProgramOK(t) /\ now \in Nat
    BY DEF IInv, ProgramsOK, TimesOK
  <2>2. Busy(t) => run[t].key # key
    BY <1>3, <2>1 DEF ProgramOK
  <2> QED
    BY <1>2, <1>4, <2>1, <2>2 DEF ProgramOK, Busy, Window, InGuard
<1>7. ProgramsOK'
  BY <1>2, <1>6 DEF IInv, ProgramsOK
<1>8. AccountsOK'
  <2>1. \A w : Drained(w)' <=> w < now
    BY <1>2 DEF Drained
  <2>2. \A k \in DOMAIN counted : Accounted(k)' \/ k.window < now
    BY <1>2, <1>3, <1>4 DEF IInv, AccountsOK, Accounted, Drained, Of
  <2> QED
    BY <1>2, <2>1, <2>2 DEF IInv, AccountsOK, Drained
<1>9. LoaderOK'
  BY <1>1, <1>2, <1>4 DEF IInv, LoaderOK
<1>10. WindowsAreComplete'
  BY <1>2 DEF IInv, WindowsAreComplete, Of
<1> QED
  BY <1>5, <1>7, <1>8, <1>9, <1>10 DEF IInv

LEMMA Ending == ASSUME IInv, EndDrain PROVE IInv'
<1>1. /\ UNCHANGED <<clock, run, grams, now, left, lines, counted, failed>>
      /\ pc = "delete" /\ pc' = "sleep" /\ left = {}
  BY DEF EndDrain, threadVars, countVars
<1>2. \A g \in DOMAIN grams : g.window \in Nat /\ g.window >= now
  BY <1>1 DEF IInv, LoaderOK, MapsOK, TimesOK
<1>3. AccountsOK'
  <2>1. ASSUME NEW w \in Nat, Drained(w) PROVE Drained(w)'
    BY <1>1, <1>2, <2>1 DEF Drained, IInv, TimesOK
  <2> QED
    BY <1>1, <2>1 DEF IInv, MapsOK, AccountsOK, Accounted, Of
<1>4. LoaderOK'
  BY <1>1, <1>2 DEF LoaderOK
<1> QED
  BY <1>1, <1>3, <1>4, Placing DEF IInv

NewLines == {line \in LinesOf(Old) : line.cgroup \in targets}

\* A line is printed for a half second no line was printed for before.
LEMMA NewAreNew ==
  ASSUME IInv, pc = "copy", NEW line \in NewLines
  PROVE  /\ line \notin DOMAIN lines /\ line.window \in Nat /\ line.window < now
         /\ \A w : Drained(w) => w # line.window
<1>1. PICK key \in Old : line = [cgroup |-> key.cgroup, window |-> key.window]
  BY DEF NewLines, LinesOf
<1>2. key \in DOMAIN grams /\ key.window < now /\ line.window = key.window
  BY <1>1 DEF Old, Closed, IInv, LoaderOK
<1>3. key.window \in Nat
  BY <1>2 DEF IInv, MapsOK
<1>4. ASSUME NEW w, Drained(w) PROVE w # line.window
  BY <1>2, <1>3, <1>4 DEF Drained
<1>5. line \notin DOMAIN lines
  BY <1>4 DEF IInv, AccountsOK
<1> QED
  BY <1>2, <1>3, <1>4, <1>5

\* The line holds what the programs counted and the map took.
LEMMA ContentIsComplete ==
  ASSUME IInv, pc = "copy", left \subseteq DOMAIN copy, NEW line \in NewLines,
         NEW key \in DOMAIN counted \cup DOMAIN Content(line),
         key.cgroup = line.cgroup, key.window = line.window
  PROVE  Of(Content(line), key) + Of(failed, key) = Of(counted, key)
<1>1. line.window < now /\ ~Drained(key.window)
  BY NewAreNew
<1>2. /\ DOMAIN Content(line) = {k \in Old : k.cgroup = line.cgroup /\ k.window = line.window}
      /\ \A k \in DOMAIN Content(line) : Content(line)[k] = copy[k]
  BY DEF Content, Restrict
<1>3. DOMAIN Content(line) \subseteq DOMAIN counted
  BY <1>2 DEF Old, IInv, LoaderOK, MapsOK
<1>4. Accounted(key)
  BY <1>1, <1>3 DEF IInv, AccountsOK
<1>5. CASE key \in DOMAIN grams
  <2>1. key \in DOMAIN copy /\ copy[key] = grams[key]
    BY <1>1, <1>5 DEF IInv, LoaderOK
  <2>2. key \in DOMAIN Content(line) /\ Content(line)[key] = grams[key]
    BY <1>1, <1>2, <2>1 DEF Old, Closed
  <2> QED
    BY <1>4, <1>5, <2>2 DEF Accounted, Of
<1>6. CASE key \notin DOMAIN grams
  <2>1. key \notin DOMAIN Content(line)
    BY <1>2, <1>6 DEF Old, IInv, LoaderOK
  <2> QED
    BY <1>4, <1>6, <2>1 DEF Accounted, Of
<1> QED
  BY <1>5, <1>6

LEMMA Printing == ASSUME IInv, PrintLines PROVE IInv'
<1>1. /\ UNCHANGED <<clock, run, grams, now, copy, counted, failed>>
      /\ pc = "copy" /\ pc' = "delete" /\ left \subseteq DOMAIN copy /\ left' = Old
  BY DEF PrintLines, threadVars, countVars
<1>2. lines' = [line \in DOMAIN lines \cup NewLines |->
                  (IF line \in DOMAIN lines THEN lines[line] ELSE <<>>) \o
                  (IF line \in NewLines THEN <<Content(line)>> ELSE <<>>)]
  BY DEF PrintLines, NewLines
<1>3. ASSUME NEW line \in DOMAIN lines
      PROVE  line \in DOMAIN lines' /\ lines'[line] = <<lines[line][1]>>
  <2>1. line \notin NewLines
    BY <1>1, NewAreNew
  <2>2. lines[line] = <<lines[line][1]>>
    BY DEF IInv, AccountsOK
  <2> DEFINE first == lines[line][1]
  <2> HIDE DEF first
  <2>3. <<first>> \o <<>> = <<first>>
    OBVIOUS
  <2> QED
    BY <1>2, <2>1, <2>2, <2>3 DEF first
<1>4. ASSUME NEW line \in NewLines
      PROVE  line \in DOMAIN lines' /\ lines'[line] = <<Content(line)>>
  <2>1. line \notin DOMAIN lines
    BY <1>1, NewAreNew
  <2> DEFINE content == Content(line)
  <2> HIDE DEF content
  <2>2. <<>> \o <<content>> = <<content>>
    OBVIOUS
  <2> QED
    BY <1>2, <2>1, <2>2 DEF content
<1>5. DOMAIN lines' = DOMAIN lines \cup NewLines
  BY <1>2
<1>6. TimesOK' /\ MapsOK' /\ ProgramsOK'
  BY <1>1 DEF IInv, TimesOK, Window, MapsOK, IsCount, ProgramsOK, ProgramOK, Busy, InGuard
<1>7. AccountsOK'
  <2>1. \A w : Drained(w)' <=> w < now
    BY <1>1 DEF Drained
  <2>2. \A k \in DOMAIN counted' : Accounted(k)' \/ Drained(k.window)'
    BY <1>1, <2>1 DEF IInv, AccountsOK, Accounted, Drained, Of
  <2>3. ASSUME NEW line \in DOMAIN lines
        PROVE  line.window \in Nat /\ line.window < now /\ lines'[line] = <<lines'[line][1]>>
    BY <1>3 DEF IInv, AccountsOK, Drained
  <2>4. ASSUME NEW line \in NewLines
        PROVE  line.window \in Nat /\ line.window < now /\ lines'[line] = <<lines'[line][1]>>
    BY <1>1, <1>4, NewAreNew
  <2> QED
    BY <1>5, <2>1, <2>2, <2>3, <2>4 DEF AccountsOK
<1>8. LoaderOK'
  <2>1. \A g \in DOMAIN grams : g.window < now => g \in Old
    BY <1>1 DEF IInv, LoaderOK, Old, Closed
  <2>2. \A k \in Old : k.window < now
    BY DEF Old, Closed
  <2> QED
    BY <1>1, <2>1, <2>2 DEF LoaderOK
<1>9. WindowsAreComplete'
  <2>1. ASSUME NEW line \in DOMAIN lines
        PROVE  /\ Len(lines'[line]) = 1
               /\ \A key \in DOMAIN counted \cup DOMAIN lines'[line][1] :
                    key.cgroup = line.cgroup /\ key.window = line.window =>
                      Of(lines'[line][1], key) + Of(failed, key) = Of(counted, key)
    <3>1. lines'[line][1] = lines[line][1] /\ Len(lines'[line]) = 1
      BY <1>3
    <3> QED
      BY <3>1 DEF IInv, WindowsAreComplete
  <2>2. ASSUME NEW line \in NewLines
        PROVE  /\ Len(lines'[line]) = 1
               /\ \A key \in DOMAIN counted \cup DOMAIN lines'[line][1] :
                    key.cgroup = line.cgroup /\ key.window = line.window =>
                      Of(lines'[line][1], key) + Of(failed, key) = Of(counted, key)
    <3>1. lines'[line][1] = Content(line) /\ Len(lines'[line]) = 1
      BY <1>4
    <3> QED
      BY <1>1, <3>1, ContentIsComplete
  <2> QED
    BY <1>1, <1>5, <2>1, <2>2 DEF WindowsAreComplete, Of
<1> QED
  BY <1>6, <1>7, <1>8, <1>9 DEF IInv

-------------------------------------------------------------------------------
(* The theorems. *)

LEMMA Stepping == ASSUME IInv, [Next]_vars PROVE IInv'
<1>1. CASE UNCHANGED vars
  <2>1. UNCHANGED <<clock, run, grams, pc, now, copy, left, lines, counted, failed>>
    BY <1>1 DEF vars, threadVars, loaderVars, countVars
  <2> QED
    BY <2>1, Untouched, UnchangedRuns DEF IInv
<1>2. CASE Tick
  BY <1>2, Ticking
<1>3. CASE Loader
  BY <1>3, Waking, Beginning, Copying, Printing, Deleting, Ending DEF Loader
<1>4. ASSUME NEW t \in Threads, Program(t) PROVE IInv'
  <2>1. \/ (\E call \in Calls : EnterCall(t, call)) \/ ReturnFromCall(t) \/ Evict(t) \/ Move(t)
        \/ LookupGram(t) \/ AddGram(t) \/ InsertGram(t) \/ LookupAgain(t)
    BY <1>4 DEF Program
  <2> QED
    BY <2>1, Calling, Looking, Counting DEF Counts
<1> QED
  BY <1>1, <1>2, <1>3, <1>4 DEF Next

\* The invariant behind the two theorems: programs work on half seconds that
\* were not drained, and what they counted is in the map, refused, or drained.
THEOREM Invariance == Spec => []IInv
BY InitiallyOK, Stepping, PTL DEF Spec

\* Every printed window is printed once and holds all grams of its half second
\* (drain_grams against pulse_tok_emit), given programs that end in the guard.
THEOREM WindowsComplete == Spec => []WindowsAreComplete
<1>1. IInv => WindowsAreComplete
  BY DEF IInv
<1> QED
  BY <1>1, Invariance, PTL

\* Behind a drain the map holds no closed window, and no program will bring one.
THEOREM ClosedAreGone == Spec => []ClosedWindowsAreGone
<1>1. IInv => ClosedWindowsAreGone
  BY DEF IInv, ClosedWindowsAreGone, LoaderOK, ProgramsOK, ProgramOK
<1> QED
  BY <1>1, Invariance, PTL

\* What was drained is settled: no later drain changes a printed line or prints a
\* second one, and no program counts or refuses a gram for a half second before
\* the one of the drain (pulse_tok_emit against drain_grams).
DrainedIsFinal ==
  [][/\ \A line \in DOMAIN lines : line \in DOMAIN lines' /\ lines'[line] = lines[line]
     /\ \A key \in DOMAIN counted' :
          key.window < now => /\ Of(counted', key) = Of(counted, key)
                              /\ Of(failed', key) = Of(failed, key)]_vars

THEOREM DrainsSettle == Spec => DrainedIsFinal
<1> DEFINE LinesStay == \A line \in DOMAIN lines :
                          line \in DOMAIN lines' /\ lines'[line] = lines[line]
           CountsStay == \A key \in DOMAIN counted' :
                           key.window < now => /\ Of(counted', key) = Of(counted, key)
                                               /\ Of(failed', key) = Of(failed, key)
<1>1. ASSUME IInv, [Next]_vars PROVE LinesStay
  <2>1. CASE PrintLines
    <3>1. /\ pc = "copy"
          /\ lines' = [line \in DOMAIN lines \cup NewLines |->
                         (IF line \in DOMAIN lines THEN lines[line] ELSE <<>>) \o
                         (IF line \in NewLines THEN <<Content(line)>> ELSE <<>>)]
      BY <2>1 DEF PrintLines, NewLines
    <3> SUFFICES ASSUME NEW line \in DOMAIN lines
                 PROVE  line \in DOMAIN lines' /\ lines'[line] = lines[line]
      OBVIOUS
    <3>2. line \notin NewLines
      BY <1>1, <3>1, NewAreNew
    <3>3. PICK first : lines[line] = <<first>>
      BY <1>1 DEF IInv, AccountsOK
    <3>4. <<first>> \o <<>> = <<first>>
      OBVIOUS
    <3> QED
      BY <3>1, <3>2, <3>3, <3>4
  <2>2. CASE ~PrintLines
    <3>1. lines' = lines
      BY <1>1, <2>2 DEF Next, Tick, Loader, Program, Wake, BeginDrain, CopyGram, DeleteGram,
         EndDrain, Stop, EnterCall, ReturnFromCall, LookupGram, AddGram, InsertGram,
         LookupAgain, ProgramStep, Evict, Move, loaderVars, vars
    <3> QED
      BY <3>1
  <2> QED
    BY <2>1, <2>2
<1>2. ASSUME IInv, [Next]_vars PROVE CountsStay
  <2>1. CASE UNCHANGED countVars
    BY <2>1 DEF countVars, Of
  <2>2. ASSUME NEW t \in Threads, AddGram(t) \/ InsertGram(t) \/ LookupAgain(t)
        PROVE  CountsStay
    <3>1. PICK key : key = run[t].key
      OBVIOUS
    <3>2. Busy(t)
      BY <2>2 DEF AddGram, InsertGram, LookupAgain, ProgramStep
    <3>3. key.window \in Nat /\ key.window >= now /\ now \in Nat
      BY <1>2, <3>1, <3>2 DEF IInv, ProgramsOK, ProgramOK, TimesOK
    <3>4. /\ counted' = counted \/ counted' = Plus(counted, key, 1)
          /\ failed' = failed \/ failed' = Plus(failed, key, 1)
      BY <2>2, <3>1 DEF AddGram, InsertGram, LookupAgain, countVars
    <3>5. IsCount(counted) /\ IsCount(failed)
      BY <1>2 DEF IInv, MapsOK
    <3>6. ASSUME NEW other, other # key
          PROVE  Of(counted', other) = Of(counted, other) /\ Of(failed', other) = Of(failed, other)
      BY <3>4, <3>5, <3>6 DEF Of, Plus, IsCount
    <3>7. \A other \in DOMAIN counted' : other.window < now => other # key
      BY <3>3
    <3> QED
      BY <3>6, <3>7
  <2>3. \/ UNCHANGED countVars
        \/ \E t \in Threads : AddGram(t) \/ InsertGram(t) \/ LookupAgain(t)
    BY <1>2 DEF Next, Tick, Loader, Program, Wake, BeginDrain, CopyGram, PrintLines, DeleteGram,
       EndDrain, Stop, EnterCall, ReturnFromCall, LookupGram, Evict, Move, vars
  <2> HIDE DEF CountsStay
  <2> QED
    BY <2>1, <2>2, <2>3
<1>3. IInv /\ [Next]_vars => [LinesStay /\ CountsStay]_vars
  BY <1>1, <1>2
<1> QED
  BY <1>3, Invariance, PTL DEF Spec, DrainedIsFinal

-------------------------------------------------------------------------------
(* Grams are runs of tokens. *)

Tokens == Calls \cup {None}
Stories == Seq(Cgroups \X Tokens)

\* The token was given that many places before the n-th.
Given(st, n, c, token, back) == n > back /\ st[n - back] = <<c, token>>

\* The last tokens of a story are these, those at the front may be missing.
Ends(st, c, tokens) ==
  \A i \in 1 .. Slots : tokens[i] # None => Given(st, Len(st), c, tokens[i], Slots - i)

RunAt(st, n, c, tokens) ==
  \A i \in 1 .. Slots + 1 : tokens[i] # None => Given(st, n, c, tokens[i], Slots + 1 - i)

IsRun(key) ==
  \E t \in Threads : \E n \in 1 .. Len(story[t]) : RunAt(story[t], n, key.cgroup, key.tokens)

IsHistory(tokens) == tokens \in Seq(Tokens) /\ Len(tokens) = Slots

EntryOK(t, s) ==
  /\ s = [cgroup |-> s.cgroup, tokens |-> s.tokens, pending |-> s.pending]
  /\ s.cgroup \in Cgroups /\ IsHistory(s.tokens) /\ Ends(story[t], s.cgroup, s.tokens)

TaskOK(t) == task[t] = {} \/ \E s : task[t] = {s} /\ EntryOK(t, s)

RunsOK ==
  /\ cgroup \in [Threads -> Cgroups]
  /\ inCall \in [Threads -> Calls \cup {"no"}]
  /\ story \in [Threads -> Stories]
  /\ task = [t \in Threads |-> task[t]] /\ run = [t \in Threads |-> run[t]]
  /\ \A t \in Threads : TaskOK(t) /\ (Busy(t) => IsRun(run[t].key))
  /\ \A key \in DOMAIN counted : IsRun(key)

LEMMA EmptyHistory == IsHistory(NoTokens) /\ \A st, c : Ends(st, c, NoTokens)
<1>1. Slots \in Nat
  BY TokenAssumption
<1>2. NoTokens \in Seq(Tokens) /\ Len(NoTokens) = Slots
  BY <1>1 DEF NoTokens, Tokens
<1> QED
  BY <1>2 DEF IsHistory, Ends, NoTokens

LEMMA GivenBefore ==
  ASSUME NEW st, NEW after, NEW size \in Nat, NEW back \in Nat, NEW c, NEW token,
         \A i \in 1 .. size : after[i] = st[i], Given(st, size, c, token, back)
  PROVE  Given(after, size + 1, c, token, back + 1)
<1> DEFINE n == size + 1
           b == back + 1
<1>1. size > back /\ st[size - back] = <<c, token>>
  BY DEF Given
<1>2. size - back \in 1 .. size /\ n - b = size - back /\ n > b
  BY <1>1
<1> HIDE DEF n, b
<1>3. after[n - b] = <<c, token>>
  BY <1>1, <1>2
<1>4. Given(after, n, c, token, b)
  BY <1>2, <1>3 DEF Given
<1> QED
  BY <1>4 DEF n, b

\* The token a history moves on by ends a run.
LEMMA EmittedIsRun ==
  ASSUME NEW st \in Stories, NEW c \in Cgroups, NEW tokens, IsHistory(tokens),
         Ends(st, c, tokens), NEW token \in Tokens,
         NEW after, after = Append(st, <<c, token>>), NEW gram, gram = Append(tokens, token)
  PROVE  /\ after \in Stories /\ RunAt(after, Len(after), c, gram)
         /\ IsHistory(Tail(gram)) /\ Ends(after, c, Tail(gram))
<1>1. Slots \in Nat /\ Slots > 0
  BY TokenAssumption
<1> DEFINE pair == <<c, token>>
           size == Len(st)
<1>2. pair \in Cgroups \X Tokens
  OBVIOUS
<1>3. size \in Nat
  BY DEF Stories
<1> HIDE DEF pair
<1>4. /\ after \in Stories /\ Len(after) = size + 1 /\ after[size + 1] = pair
      /\ \A i \in 1 .. size : after[i] = st[i]
  BY <1>2 DEF Stories, pair
<1>5. /\ gram \in Seq(Tokens) /\ Len(gram) = Slots + 1 /\ gram[Slots + 1] = token
      /\ \A i \in 1 .. Slots : gram[i] = tokens[i]
  BY <1>1 DEF IsHistory
<1>6. /\ Tail(gram) \in Seq(Tokens) /\ Len(Tail(gram)) = Slots
      /\ \A i \in 1 .. Slots : Tail(gram)[i] = gram[i + 1]
  BY <1>1, <1>5
<1> DEFINE rest == Tail(gram)
<1> HIDE DEF size, rest
<1>7. ASSUME NEW i \in 1 .. Slots + 1, gram[i] # None
      PROVE  Given(after, size + 1, c, gram[i], Slots + 1 - i)
  <2>1. CASE i = Slots + 1
    <3>1. Slots + 1 - i = 0
      BY <1>1, <2>1
    <3>2. size + 1 > 0 /\ size + 1 - 0 = size + 1
      BY <1>3
    <3>3. Given(after, size + 1, c, token, 0)
      BY <1>4, <3>2 DEF pair, Given
    <3> QED
      BY <1>5, <2>1, <3>1, <3>3
  <2>2. CASE i \in 1 .. Slots
    <3> DEFINE back == Slots - i
    <3>1. back \in Nat /\ Slots + 1 - i = back + 1
      BY <1>1, <2>2
    <3>2. Given(st, size, c, gram[i], back)
      BY <1>5, <1>7, <2>2 DEF Ends, size
    <3> HIDE DEF back
    <3>3. Given(after, size + 1, c, gram[i], back + 1)
      BY <1>3, <1>4, <3>1, <3>2, GivenBefore
    <3> QED
      BY <3>1, <3>3
  <2>3. i = Slots + 1 \/ i \in 1 .. Slots
    BY <1>1
  <2> QED
    BY <2>1, <2>2, <2>3
<1>8. RunAt(after, Len(after), c, gram)
  BY <1>4, <1>7 DEF RunAt
<1>9. ASSUME NEW i \in 1 .. Slots, rest[i] # None
      PROVE  Given(after, Len(after), c, rest[i], Slots - i)
  <2>1. i + 1 \in 1 .. Slots + 1 /\ Slots + 1 - (i + 1) = Slots - i
    BY <1>1
  <2>2. rest[i] = gram[i + 1]
    BY <1>6 DEF rest
  <2>3. Given(after, size + 1, c, gram[i + 1], Slots + 1 - (i + 1))
    BY <1>7, <1>9, <2>1, <2>2
  <2>4. Given(after, size + 1, c, rest[i], Slots - i)
    BY <2>1, <2>2, <2>3
  <2> QED
    BY <1>4, <2>4
<1>10. Ends(after, c, rest)
  BY <1>9 DEF Ends
<1> QED
  BY <1>4, <1>6, <1>8, <1>10 DEF IsHistory, rest

\* A run stays one when the story goes on.
LEMMA RunStays ==
  ASSUME NEW st \in Stories, NEW pair \in Cgroups \X Tokens, NEW n \in 1 .. Len(st),
         NEW c, NEW tokens, RunAt(st, n, c, tokens), NEW after, after = Append(st, pair)
  PROVE  n \in 1 .. Len(after) /\ RunAt(after, n, c, tokens)
<1> DEFINE size == Len(st)
<1>1. size \in Nat /\ Len(after) = size + 1 /\ \A i \in 1 .. size : after[i] = st[i]
  BY DEF Stories
<1>2. Slots \in Nat /\ size \in Nat /\ n \in 1 .. size
  BY <1>1, TokenAssumption
<1> HIDE DEF size
<1>3. n \in 1 .. Len(after)
  BY <1>1, <1>2
<1>4. ASSUME NEW i \in 1 .. Slots + 1, tokens[i] # None
      PROVE  Given(after, n, c, tokens[i], Slots + 1 - i)
  <2> DEFINE back == Slots + 1 - i
  <2>1. back \in Nat
    BY <1>2
  <2>2. Given(st, n, c, tokens[i], back)
    BY <1>4 DEF RunAt
  <2> HIDE DEF back
  <2>3. n > back /\ n - back \in 1 .. size
    BY <1>2, <2>1, <2>2 DEF Given
  <2>4. Given(after, n, c, tokens[i], back)
    BY <1>1, <2>2, <2>3 DEF Given
  <2> QED
    BY <2>4 DEF back
<1> QED
  BY <1>3, <1>4 DEF RunAt

LEMMA RunsInitially == Init => RunsOK
<1> SUFFICES ASSUME Init PROVE RunsOK
  OBVIOUS
<1>1. /\ cgroup \in [Threads -> Cgroups] /\ inCall \in [Threads -> Calls \cup {"no"}]
      /\ story \in [Threads -> Stories]
      /\ task = [t \in Threads |-> task[t]] /\ run = [t \in Threads |-> run[t]]
  BY DEF Init, Stories
<1>2. \A t \in Threads : task[t] = {} /\ ~Busy(t)
  BY DEF Init, Busy
<1> QED
  BY <1>1, <1>2 DEF Init, RunsOK, TaskOK, EmptyMap

\* What the state of a thread gives is a history of the thread.
LEMMA StateIsHistory ==
  ASSUME NEW t \in Threads, TaskOK(t), task[t] # {}
  PROVE  EntryOK(t, State(t))
BY DEF TaskOK, State

LEMMA HistoryIsHistory ==
  ASSUME NEW t \in Threads, TaskOK(t)
  PROVE  IsHistory(History(t)) /\ Ends(story[t], cgroup[t], History(t))
<1>1. CASE task[t] = {} \/ State(t).cgroup # cgroup[t]
  BY <1>1, EmptyHistory DEF History
<1>2. CASE task[t] # {} /\ State(t).cgroup = cgroup[t]
  BY <1>2, StateIsHistory DEF History, EntryOK
<1> QED
  BY <1>1, <1>2

LEMMA StorySame ==
  ASSUME UNCHANGED story
  PROVE  /\ \A key : IsRun(key) => IsRun(key)'
         /\ \A t, s : EntryOK(t, s) => EntryOK(t, s)'
BY DEF IsRun, EntryOK

LEMMA Remembering ==
  ASSUME RunsOK, NEW t \in Threads, NEW c \in Cgroups, NEW tokens, NEW pending,
         IsHistory(tokens), Ends(story[t], c, tokens), Remember(t, c, tokens, pending),
         UNCHANGED <<cgroup, run, story, counted>>, inCall' \in [Threads -> Calls \cup {"no"}]
  PROVE  RunsOK'
<1> DEFINE entry == [cgroup |-> c, tokens |-> tokens, pending |-> pending]
<1>1. EntryOK(t, entry)'
  BY DEF EntryOK
<1> HIDE DEF entry
<1>2. /\ task' = [u \in Threads |-> task'[u]]
      /\ \A u \in Threads : task'[u] = IF u = t THEN {entry} ELSE task[u]
  BY DEF RunsOK, Remember, entry
<1>3. ASSUME NEW u \in Threads PROVE TaskOK(u)'
  <2>1. CASE u = t
    BY <1>1, <1>2, <2>1 DEF TaskOK
  <2>2. CASE u # t
    BY <1>2, <2>2, StorySame DEF RunsOK, TaskOK
  <2> QED
    BY <2>1, <2>2
<1>4. \A u \in Threads : Busy(u)' => IsRun(run[u].key)
  BY DEF RunsOK, Busy
<1> QED
  BY <1>2, <1>3, <1>4, StorySame DEF RunsOK, Busy

LEMMA Emitting ==
  ASSUME RunsOK, NEW t \in Threads, NEW tokens, NEW token \in Calls, IsHistory(tokens),
         Ends(story[t], cgroup[t], tokens), Emit(t, tokens, token),
         UNCHANGED <<cgroup, counted>>, inCall' \in [Threads -> Calls \cup {"no"}]
  PROVE  RunsOK'
<1> DEFINE gram == Append(tokens, token)
           c == cgroup[t]
           after == Append(story[t], <<c, token>>)
           step == At(Key(c, clock, gram), "lookup")
           entry == [cgroup |-> c, tokens |-> Tail(gram), pending |-> FALSE]
<1>1. /\ run' = [run EXCEPT ![t] = step] /\ story' = [story EXCEPT ![t] = after]
      /\ task' = [task EXCEPT ![t] = {entry}]
  BY DEF Emit, Remember
<1>2. c \in Cgroups /\ story[t] \in Stories /\ token \in Tokens
  BY DEF RunsOK, Tokens
<1>3. /\ after \in Stories /\ RunAt(after, Len(after), c, gram)
      /\ IsHistory(Tail(gram)) /\ Ends(after, c, Tail(gram))
  BY <1>2, EmittedIsRun
<1>4. step.key.cgroup = c /\ step.key.tokens = gram
  BY DEF At, Key
<1>5. /\ entry = [cgroup |-> entry.cgroup, tokens |-> entry.tokens, pending |-> entry.pending]
      /\ entry.cgroup = c /\ entry.tokens = Tail(gram)
  OBVIOUS
<1>6. Len(after) \in 1 .. Len(after)
  BY <1>2 DEF Stories
<1> DEFINE pair == <<c, token>>
<1>7. pair \in Cgroups \X Tokens
  BY <1>2
<1>8. after = Append(story[t], pair)
  OBVIOUS
<1> HIDE DEF gram, c, after, step, entry, pair
<1>9. /\ task' = [u \in Threads |-> task'[u]] /\ run' = [u \in Threads |-> run'[u]]
      /\ \A u \in Threads : task'[u] = IF u = t THEN {entry} ELSE task[u]
      /\ \A u \in Threads : run'[u] = IF u = t THEN step ELSE run[u]
      /\ \A u \in Threads : story'[u] = IF u = t THEN after ELSE story[u]
      /\ story' \in [Threads -> Stories]
  BY <1>1, <1>3 DEF RunsOK
<1>10. ASSUME NEW key, IsRun(key) PROVE IsRun(key)'
  <2>0. PICK u \in Threads : \E n \in 1 .. Len(story[u]) : RunAt(story[u], n, key.cgroup, key.tokens)
    BY <1>10 DEF IsRun
  <2>1. PICK n \in 1 .. Len(story[u]) : RunAt(story[u], n, key.cgroup, key.tokens)
    BY <2>0
  <2>2. n \in 1 .. Len(story'[u]) /\ RunAt(story'[u], n, key.cgroup, key.tokens)
    <3>1. CASE u = t
      BY <1>2, <1>7, <1>8, <1>9, <2>1, <3>1, RunStays
    <3>2. CASE u # t
      BY <1>9, <2>1, <3>2
    <3> QED
      BY <3>1, <3>2
  <2> QED
    BY <2>2 DEF IsRun
<1>11. ASSUME NEW u \in Threads PROVE TaskOK(u)'
  <2>1. CASE u = t
    <3>1. task'[t] = {entry} /\ story'[t] = after
      BY <1>9
    <3>2. PICK e : e = entry
      OBVIOUS
    <3>3. EntryOK(t, e)'
      BY <1>2, <1>3, <1>5, <3>1, <3>2 DEF EntryOK
    <3> QED
      BY <2>1, <3>1, <3>2, <3>3 DEF TaskOK
  <2>2. CASE u # t
    BY <1>9, <2>2 DEF RunsOK, TaskOK, EntryOK
  <2> QED
    BY <2>1, <2>2
<1>12. ASSUME NEW u \in Threads, Busy(u)' PROVE IsRun(run[u].key)'
  <2>1. CASE u = t
    <3>1. run'[t] = step /\ story'[t] = after
      BY <1>9
    <3> QED
      BY <1>3, <1>4, <1>6, <2>1, <3>1 DEF IsRun
  <2>2. CASE u # t
    <3>1. run'[u] = run[u] /\ IsRun(run[u].key)
      BY <1>9, <1>12, <2>2 DEF RunsOK, Busy
    <3>2. \A key : IsRun(key) => IsRun(key)'
      BY <1>10
    <3>3. PICK key : key = run[u].key
      OBVIOUS
    <3>4. IsRun(key)' /\ run'[u].key = key
      BY <3>1, <3>2, <3>3
    <3> QED
      BY <3>4 DEF IsRun
  <2> QED
    BY <2>1, <2>2
<1> QED
  BY <1>9, <1>10, <1>11, <1>12 DEF RunsOK

\* Steps that give no token.
LEMMA NoToken ==
  ASSUME RunsOK, UNCHANGED story,
         cgroup' \in [Threads -> Cgroups], inCall' \in [Threads -> Calls \cup {"no"}],
         task' = [t \in Threads |-> task'[t]], run' = [t \in Threads |-> run'[t]],
         \A t \in Threads : task'[t] = task[t] \/ task'[t] = {},
         \A t \in Threads : run'[t] # Idle => Busy(t) /\ run'[t].key = run[t].key,
         \A key \in DOMAIN counted' :
           key \in DOMAIN counted \/ \E t \in Threads : Busy(t) /\ run[t].key = key
  PROVE  RunsOK'
<1>1. ASSUME NEW t \in Threads PROVE TaskOK(t)'
  BY StorySame DEF RunsOK, TaskOK
<1>2. ASSUME NEW t \in Threads, Busy(t)' PROVE IsRun(run[t].key)'
  <2>1. PICK key : key = run[t].key
    OBVIOUS
  <2>2. IsRun(key) /\ run'[t].key = key
    BY <1>2, <2>1 DEF RunsOK, Busy
  <2>3. IsRun(key)'
    BY <2>2, StorySame
  <2> QED
    BY <2>2, <2>3 DEF IsRun
<1>3. ASSUME NEW key \in DOMAIN counted' PROVE IsRun(key)'
  <2>1. IsRun(key)
    BY <1>3 DEF RunsOK
  <2> QED
    BY <2>1, StorySame
<1> QED
  BY <1>1, <1>2, <1>3 DEF RunsOK

LEMMA CallsKeepRuns ==
  ASSUME RunsOK, NEW t \in Threads,
         (\E call \in Calls : EnterCall(t, call)) \/ ReturnFromCall(t)
  PROVE  RunsOK'
<1>1. TaskOK(t) /\ cgroup[t] \in Cgroups
  BY DEF RunsOK
<1>2. UNCHANGED <<cgroup, counted>>
  BY DEF EnterCall, ReturnFromCall, countVars
<1>3. inCall' \in [Threads -> Calls \cup {"no"}]
  BY DEF EnterCall, ReturnFromCall, RunsOK
<1>4. CASE UNCHANGED <<task, run, story>>
  BY <1>2, <1>3, <1>4, NoToken DEF RunsOK, Busy
<1>5. ASSUME NEW call \in Calls, EnterCall(t, call), ~UNCHANGED <<task, run, story>> PROVE RunsOK'
  <2>1. IsHistory(History(t)) /\ Ends(story[t], cgroup[t], History(t))
    BY <1>1, HistoryIsHistory
  <2>2. CASE Remember(t, cgroup[t], History(t), TRUE) /\ UNCHANGED <<run, story>>
    BY <1>1, <1>2, <1>3, <2>1, <2>2, Remembering
  <2>3. CASE Emit(t, History(t), call)
    BY <1>2, <1>3, <2>1, <2>3, Emitting
  <2> QED
    BY <1>5, <2>2, <2>3 DEF EnterCall
<1>6. ASSUME ReturnFromCall(t), ~UNCHANGED <<task, run, story>> PROVE RunsOK'
  <2>1. EntryOK(t, State(t))
    BY <1>1, <1>6, StateIsHistory DEF ReturnFromCall
  <2>2. CASE Remember(t, State(t).cgroup, State(t).tokens, FALSE) /\ UNCHANGED <<run, story>>
    BY <1>2, <1>3, <2>1, <2>2, Remembering DEF EntryOK
  <2>3. CASE State(t).cgroup = cgroup[t] /\ Emit(t, State(t).tokens, inCall[t])
    <3>1. inCall[t] \in Calls
      BY <1>6 DEF ReturnFromCall, RunsOK
    <3> QED
      BY <1>2, <1>3, <2>1, <2>3, <3>1, Emitting DEF EntryOK
  <2> QED
    BY <1>6, <2>2, <2>3 DEF ReturnFromCall
<1> QED
  BY <1>4, <1>5, <1>6

LEMMA RunsStep == ASSUME RunsOK, [Next]_vars PROVE RunsOK'
<1>1. CASE UNCHANGED vars \/ Tick \/ Loader
  <2>1. UNCHANGED <<cgroup, inCall, task, run, story, counted>>
    BY <1>1 DEF vars, threadVars, countVars, Tick, Loader, Wake, BeginDrain, CopyGram, PrintLines,
                DeleteGram, EndDrain, Stop
  <2> QED
    BY <2>1, NoToken DEF RunsOK, Busy
<1>2. ASSUME NEW t \in Threads, Program(t) PROVE RunsOK'
  <2>1. CASE (\E call \in Calls : EnterCall(t, call)) \/ ReturnFromCall(t)
    BY <2>1, CallsKeepRuns
  <2>2. CASE Evict(t) \/ Move(t)
    <3>1. UNCHANGED <<inCall, run, story, counted>>
      BY <2>2 DEF Evict, Move, countVars
    <3>2. cgroup' \in [Threads -> Cgroups]
      BY <2>2 DEF Evict, Move, RunsOK
    <3>3. task' = [u \in Threads |-> task'[u]] /\ \A u \in Threads : task'[u] = task[u] \/ task'[u] = {}
      BY <2>2 DEF Evict, Move, RunsOK
    <3> QED
      BY <3>1, <3>2, <3>3, NoToken DEF RunsOK, Busy
  <2>3. CASE LookupGram(t) \/ AddGram(t) \/ InsertGram(t) \/ LookupAgain(t)
    <3>1. Busy(t) /\ UNCHANGED <<cgroup, inCall, task, story>>
      BY <2>3 DEF LookupGram, AddGram, InsertGram, LookupAgain, ProgramStep
    <3>2. PICK step : run' = [run EXCEPT ![t] = step] /\ (step = Idle \/ step.key = run[t].key)
      <4>1. \/ run' = [run EXCEPT ![t] = Idle]
            \/ \E name : run' = [run EXCEPT ![t] = At(run[t].key, name)]
        BY <2>3 DEF LookupGram, AddGram, InsertGram, LookupAgain, Continue
      <4>2. \A name : At(run[t].key, name).key = run[t].key
        BY DEF At
      <4> QED
        BY <4>1, <4>2
    <3>3. /\ run' = [u \in Threads |-> run'[u]]
          /\ \A u \in Threads : run'[u] # Idle => Busy(u) /\ run'[u].key = run[u].key
      BY <3>1, <3>2 DEF RunsOK, Busy
    <3>4. counted' = counted \/ counted' = Plus(counted, run[t].key, 1)
      BY <2>3 DEF LookupGram, AddGram, InsertGram, LookupAgain, countVars
    <3>5. DOMAIN Plus(counted, run[t].key, 1) = DOMAIN counted \cup {run[t].key}
      BY DEF Plus
    <3>6. \A key \in DOMAIN counted' :
            key \in DOMAIN counted \/ \E u \in Threads : Busy(u) /\ run[u].key = key
      BY <3>1, <3>4, <3>5
    <3> QED
      BY <3>1, <3>3, <3>6, NoToken DEF RunsOK
  <2> QED
    BY <1>2, <2>1, <2>2, <2>3 DEF Program
<1> QED
  BY <1>1, <1>2 DEF Next

\* Every gram is a run of tokens of one thread in one cgroup (pulse_tok_emit with
\* pulse_tok_reset), over calls outside the monitored cgroups and lost entries.
THEOREM GramsOfRuns == Spec => []GramsAreRuns
<1>1. Init => RunsOK
  BY RunsInitially
<1>2. RunsOK /\ [Next]_vars => RunsOK'
  BY RunsStep
<1>3. RunsOK => GramsAreRuns
  <2> SUFFICES ASSUME RunsOK, NEW key \in DOMAIN counted
               PROVE  \E t \in Threads : \E n \in 1 .. Len(story[t]) :
                        \A i \in 1 .. Slots + 1 :
                          key.tokens[i] # None =>
                            /\ n > Slots + 1 - i
                            /\ story[t][n - (Slots + 1 - i)] = <<key.cgroup, key.tokens[i]>>
    BY DEF GramsAreRuns
  <2> QED
    BY DEF RunsOK, IsRun, RunAt, Given
<1> QED
  BY <1>1, <1>2, <1>3, PTL DEF Spec

===============================================================================
