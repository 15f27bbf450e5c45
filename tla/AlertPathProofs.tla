---------------------------- MODULE AlertPathProofs ----------------------------
(***************************************************************************)
(* From a positive row to the files of its case: the alert bridge for      *)
(* every number of containers, episodes and pushes, and the RCA service    *)
(* for every number of triggers, cases and crashes.  Each has an inductive *)
(* invariant of its own; they share the facts about data.                  *)
(***************************************************************************)
EXTENDS AlertBridge, RcaService, SequenceTheorems, FiniteSetTheorems, TLAPS

-------------------------------------------------------------------------------
(* Numbers. *)

LEMMA Least ==
  ASSUME NEW S, S \subseteq Nat, S # {}
  PROVE  \E m \in S : \A s \in S : m <= s
<1> DEFINE less == {pair \in Nat \X Nat : pair[1] < pair[2]}
<1>1. PICK m \in S : \A s \in S : <<s, m>> \notin less
  <2>1. IsWellFoundedOn(less, Nat)
    BY NatLessThanWellFounded DEF OpToRel
  <2> HIDE DEF less
  <2> QED
    BY <2>1, WFMin
<1>2. ASSUME NEW s \in S PROVE m <= s
  <2>1. s \in Nat /\ m \in Nat
    OBVIOUS
  <2>2. s < m => <<s, m>> \in less
    BY <2>1
  <2> HIDE DEF less
  <2> QED
    BY <1>1, <2>1, <2>2
<1> QED
  BY <1>2

\* Induction from a up to b, for the numbers in a set.
LEMMA Upwards ==
  ASSUME NEW a \in Nat, NEW b \in Nat, NEW S, a \in S,
         \A i \in a .. b : i < b /\ i \in S => i + 1 \in S
  PROVE  \A i \in a .. b : i \in S
<1> DEFINE Bad == {i \in a .. b : i \notin S}
<1> SUFFICES ASSUME Bad # {} PROVE FALSE
  OBVIOUS
<1>1. PICK m \in Bad : \A s \in Bad : m <= s
  <2>1. Bad \subseteq Nat
    OBVIOUS
  <2> HIDE DEF Bad
  <2> QED
    BY <2>1, Least
<1>2. m # a /\ m - 1 \in a .. b /\ m - 1 < b
  BY <1>1
<1>3. m - 1 \in S
  BY <1>1, <1>2
<1> QED
  BY <1>1, <1>2, <1>3
-------------------------------------------------------------------------------
(* The inductive invariant. *)

Episodes ==
  [container : Containers, kind : Kinds, received : Nat, lastSeen : Nat,
   lastPush : Nat, ended : Nat, rca : BOOLEAN, pushed : BOOLEAN,
   triggered : BOOLEAN]

Retries == [due : Nat, push : Pushes, attempt : Nat \ {0}]

Jobs == [at : {"post", "note"}, push : Pushes, attempt : Nat \ {0}]

BridgeTypes ==
  /\ clock \in Nat
  /\ episode \in Seq(Episodes) /\ Len(episode) <= MaxEpisodes
  /\ known \subseteq DOMAIN episode
  /\ active \in [Containers -> {0} \cup known]
  /\ delivered \subseteq Paths \X DOMAIN episode

PostTypes ==
  /\ pushes \in Seq(Pushes) /\ retries \in Seq(Retries)
  /\ job = Idle \/ job \in Jobs
  /\ fires \in [Ids -> Nat] /\ failed \in [{0} \cup Ids -> Nat]

LogTypes ==
  /\ triggerLines \in [Ids -> Nat] /\ deliveries \in [Paths \X Ids -> Nat]

\* The open episode of a container is the one that is known and has no end.
OpenOnes ==
  /\ \A e \in known : episode[e].ended = 0 => active[episode[e].container] = e
  /\ \A c \in Containers : active[c] # 0 =>
       episode[active[c]].container = c /\ episode[active[c]].ended = 0

Times ==
  \A e \in DOMAIN episode :
    /\ episode[e].lastSeen <= clock
    /\ episode[e].ended # 0 => /\ episode[e].ended <= clock
                               /\ episode[e].lastSeen + ResolveAfter < episode[e].ended

\* An alert of an episode that ends at the time ends is over, or it ends in
\* time after the last row.
Expires(e, ends) ==
  \/ ends <= clock
  \/ e \in DOMAIN episode /\ ends <= Ends(episode[e].lastSeen)

\* A push that was posted attempt - 1 times.
PushOK(p, attempt) ==
  /\ Expires(p.id, p.ends)
  /\ p.tracked => ~p.triage /\ failed[p.id] + 1 >= attempt

Queues ==
  /\ \A p \in Range(pushes) : PushOK(p, 1)
  /\ \A r \in Range(retries) : PushOK(r.push, r.attempt)
  /\ job # Idle => PushOK(job.push, job.attempt)
  /\ job # Idle /\ job.at = "note" => job.push.tracked
  /\ \A e \in Ids : Expires(e, fires[e])

\* The episode ended so long ago that no alert of it fires.
Over(e) == /\ e \in DOMAIN episode
           /\ episode[e].ended # 0 /\ episode[e].ended + ForgetAfter < clock

Once ==
  /\ \A p \in Paths, e \in Ids :
       /\ deliveries[<<p, e>>] <= 1
       /\ deliveries[<<p, e>>] = 0 \/ <<p, e>> \in delivered \/ Over(e)
  /\ \A e \in Ids :
       /\ triggerLines[e] <= 1
       /\ triggerLines[e] = 0 \/ (e \in DOMAIN episode /\ episode[e].triggered)
  /\ \A e \in known : episode[e].triggered <=> \E p \in Paths : <<p, e>> \in delivered

Bridge == BridgeTypes /\ OpenOnes /\ Times

Inv == /\ Bridge /\ PostTypes /\ LogTypes
       /\ EpisodesAreSeparate /\ Queues /\ StartArrives /\ Once
-------------------------------------------------------------------------------
(* Data. *)

IsFlattening(f, seqs, m) ==
  f = [i \in 1 .. m |-> IF i = 1 THEN seqs[i] ELSE f[i - 1] \o seqs[i]]

\* What a flattened sequence of sequences is made of.
LEMMA Flattened ==
  ASSUME NEW S, NEW seqs \in Seq(Seq(S))
  PROVE  FlattenSeq(seqs) \in Seq(S)
<1> DEFINE n == Len(seqs)
           Exists == {m \in 1 .. n : \E f : IsFlattening(f, seqs, m)}
<1>1. n \in Nat /\ \A i \in 1 .. n : seqs[i] \in Seq(S)
  OBVIOUS
<1>2. CASE n = 0
  <2>1. seqs = <<>>
    BY <1>2, EmptySeq
  <2> QED
    BY <1>2, <2>1 DEF FlattenSeq
<1>3. CASE n # 0
  <2>1. \E f : IsFlattening(f, seqs, n)
    <3>1. 1 \in Exists
      <4> DEFINE f == [i \in 1 .. 1 |-> seqs[i]]
      <4>1. f = [i \in 1 .. 1 |-> IF i = 1 THEN seqs[i] ELSE f[i - 1] \o seqs[i]]
        OBVIOUS
      <4> HIDE DEF f
      <4>2. IsFlattening(f, seqs, 1)
        BY <4>1 DEF IsFlattening
      <4> QED
        BY <1>1, <1>3, <4>2
    <3>2. ASSUME NEW m \in 1 .. n, m < n, m \in Exists
          PROVE  m + 1 \in Exists
      <4>1. PICK f : IsFlattening(f, seqs, m)
        BY <3>2
      <4> DEFINE last == f[m] \o seqs[m + 1]
                 g == [i \in 1 .. m + 1 |-> IF i <= m THEN f[i] ELSE last]
      <4> HIDE DEF last
      <4>2. m \in Nat /\ m >= 1
        BY <1>1
      <4>3. ASSUME NEW i \in 1 .. m + 1
            PROVE  g[i] = IF i = 1 THEN seqs[i] ELSE g[i - 1] \o seqs[i]
        <5>1. CASE i = 1
          BY <4>1, <4>2, <5>1 DEF IsFlattening
        <5>2. CASE i # 1 /\ i <= m
          <6>1. i \in 1 .. m /\ i - 1 \in 1 .. m /\ i - 1 \in 1 .. m + 1
            BY <4>2, <5>2
          <6>2. f[i] = f[i - 1] \o seqs[i]
            BY <4>1, <5>2, <6>1 DEF IsFlattening
          <6>3. g[i] = f[i] /\ g[i - 1] = f[i - 1]
            BY <6>1
          <6> HIDE DEF g
          <6> QED
            BY <5>2, <6>2, <6>3
        <5>3. CASE i # 1 /\ ~(i <= m)
          <6>1. i = m + 1 /\ i - 1 = m /\ m \in 1 .. m + 1
            BY <4>2, <5>3
          <6>2. g[i] = last /\ g[m] = f[m]
            BY <5>3, <6>1
          <6> HIDE DEF g
          <6> QED
            BY <5>3, <6>1, <6>2 DEF last
        <5> QED
          BY <5>1, <5>2, <5>3
      <4>4. g = [i \in 1 .. m + 1 |-> g[i]]
        OBVIOUS
      <4> HIDE DEF g
      <4>5. IsFlattening(g, seqs, m + 1)
        BY <4>3, <4>4 DEF IsFlattening
      <4> QED
        BY <1>1, <3>2, <4>5
    <3> HIDE DEF Exists
    <3>3. \A i \in 1 .. n : i \in Exists
      BY <1>1, <1>3, <3>1, <3>2, Upwards
    <3>4. n \in 1 .. n
      BY <1>1, <1>3
    <3> QED
      BY <3>3, <3>4 DEF Exists
  <2>2. PICK f : IsFlattening(f, seqs, n) /\ FlattenSeq(seqs) = f[n]
    BY <1>3, <2>1 DEF FlattenSeq, IsFlattening
  <2> DEFINE Typed == {i \in 1 .. n : f[i] \in Seq(S)}
  <2>3. 1 \in Typed
    BY <1>1, <1>3, <2>2 DEF IsFlattening
  <2>4. ASSUME NEW i \in 1 .. n, i < n, i \in Typed
        PROVE  i + 1 \in Typed
    <3>1. i + 1 \in 1 .. n /\ i + 1 # 1 /\ (i + 1) - 1 = i
      BY <1>1, <2>4
    <3>2. f[i + 1] = f[(i + 1) - 1] \o seqs[i + 1]
      BY <2>2, <3>1 DEF IsFlattening
    <3>3. f[i + 1] = f[i] \o seqs[i + 1]
      BY <3>1, <3>2
    <3>4. f[i] \in Seq(S) /\ seqs[i + 1] \in Seq(S)
      BY <1>1, <2>4, <3>1
    <3>5. f[i] \o seqs[i + 1] \in Seq(S)
      BY <3>4, ConcatProperties
    <3> QED
      BY <3>1, <3>3, <3>5
  <2> HIDE DEF Typed
  <2>5. \A i \in 1 .. n : i \in Typed
    BY <1>1, <1>3, <2>3, <2>4, Upwards
  <2>6. n \in 1 .. n
    BY <1>1, <1>3
  <2> QED
    BY <2>2, <2>5, <2>6 DEF Typed
<1> QED
  BY <1>2, <1>3

LEMMA RangeOfAppend ==
  ASSUME NEW S, NEW s \in Seq(S), NEW x
  PROVE  Range(Append(s, x)) = Range(s) \cup {x}
<1>1. Len(s) \in Nat
  OBVIOUS
<1>2. DOMAIN Append(s, x) = 1 .. Len(s) + 1 /\ DOMAIN s = 1 .. Len(s)
  OBVIOUS
<1>3. \A i \in 1 .. Len(s) : Append(s, x)[i] = s[i]
  OBVIOUS
<1>4. Append(s, x)[Len(s) + 1] = x
  OBVIOUS
<1> DEFINE t == Append(s, x)
<1> HIDE DEF t
<1>5. \A i \in DOMAIN t : i \in DOMAIN s \/ i = Len(s) + 1
  BY <1>1, <1>2 DEF t
<1> QED
  BY <1>1, <1>2, <1>3, <1>4, <1>5 DEF Range, t

LEMMA RangeOfTail ==
  ASSUME NEW S, NEW s \in Seq(S), s # <<>>
  PROVE  /\ Range(s) = {Head(s)} \cup Range(Tail(s))
         /\ Head(s) \in S /\ Tail(s) \in Seq(S)
<1>1. Len(s) \in Nat /\ Len(s) # 0 /\ DOMAIN s = 1 .. Len(s)
  BY EmptySeq
<1>2. /\ Head(s) = s[1] /\ Head(s) \in S /\ Tail(s) \in Seq(S)
      /\ DOMAIN Tail(s) = 1 .. Len(s) - 1
      /\ \A i \in 1 .. Len(s) - 1 : Tail(s)[i] = s[i + 1]
  BY <1>1, HeadTailProperties
<1> DEFINE t == Tail(s)
           h == Head(s)
<1> HIDE DEF t, h
<1>3. \A i \in DOMAIN s : i = 1 \/ (i - 1 \in DOMAIN t /\ t[i - 1] = s[i])
  BY <1>1, <1>2 DEF t
<1>4. \A i \in DOMAIN t : i + 1 \in DOMAIN s /\ t[i] = s[i + 1]
  BY <1>1, <1>2 DEF t
<1>5. 1 \in DOMAIN s /\ h = s[1]
  BY <1>1, <1>2 DEF h
<1>6. Range(s) = {h} \cup Range(t)
  BY <1>3, <1>4, <1>5 DEF Range
<1> QED
  BY <1>2, <1>6 DEF h, t
-------------------------------------------------------------------------------
(* What time, and the flags of an episode, leave as it is. *)

Grows ==
  /\ clock <= clock'
  /\ \A e \in DOMAIN episode :
       /\ e \in DOMAIN episode' /\ episode[e].lastSeen <= episode'[e].lastSeen
       /\ episode[e].ended # 0 => episode'[e].ended = episode[e].ended

Flags ==
  /\ clock' = clock /\ known' = known /\ active' = active
  /\ episode' \in Seq(Episodes) /\ Len(episode') = Len(episode)
  /\ \A e \in DOMAIN episode :
       /\ episode'[e].container = episode[e].container
       /\ episode'[e].kind = episode[e].kind
       /\ episode'[e].received = episode[e].received
       /\ episode'[e].lastSeen = episode[e].lastSeen
       /\ episode'[e].ended = episode[e].ended

FailuresGrow == \A i \in {0} \cup Ids : failed[i] <= failed'[i]

LEMMA Typed ==
  ASSUME BridgeTypes
  PROVE  /\ clock \in Nat /\ Len(episode) \in Nat
         /\ DOMAIN episode = 1 .. Len(episode) /\ DOMAIN episode \subseteq Ids
         /\ \A e \in DOMAIN episode :
              /\ e \in Nat /\ e # 0 /\ e \in Ids
              /\ episode[e] \in Episodes
              /\ episode[e].container \in Containers
              /\ episode[e].received \in Nat /\ episode[e].lastSeen \in Nat
              /\ episode[e].lastPush \in Nat /\ episode[e].ended \in Nat
              /\ episode[e].rca \in BOOLEAN /\ episode[e].pushed \in BOOLEAN
              /\ episode[e].triggered \in BOOLEAN
<1>1. episode \in Seq(Episodes) /\ Len(episode) <= MaxEpisodes /\ clock \in Nat
  BY DEF BridgeTypes
<1>2. MaxEpisodes \in Nat
  BY BridgeAssumption
<1>3. Len(episode) \in Nat /\ DOMAIN episode = 1 .. Len(episode)
  BY <1>1
<1>4. \A e \in DOMAIN episode : e \in Nat /\ e # 0 /\ e \in Ids /\ episode[e] \in Episodes
  BY <1>1, <1>2, <1>3 DEF Ids
<1> QED
  BY <1>1, <1>3, <1>4 DEF Episodes

LEMMA Constants ==
  /\ ResolveAfter \in Nat /\ Refresh \in Nat /\ RetryAfter \in Nat
  /\ ForgetAfter \in Nat /\ Stale \in Nat /\ Stall \in Nat /\ CaseWait \in Nat
  /\ MaxEpisodes \in Nat /\ PushAttempts \in Nat /\ PushAttempts >= 1
  /\ ForgetAfter >= 3 * Refresh /\ ForgetAfter >= Stale
BY BridgeAssumption

LEMMA ExpiresGrows ==
  ASSUME BridgeTypes, BridgeTypes', Grows,
         NEW e, NEW ends \in Nat, Expires(e, ends)
  PROVE  Expires(e, ends)'
<1>1. CASE ends <= clock
  <2>1. clock \in Nat /\ clock' \in Nat /\ clock <= clock'
    BY DEF BridgeTypes, Grows
  <2> QED
    BY <1>1, <2>1 DEF Expires
<1>2. CASE e \in DOMAIN episode /\ ends <= Ends(episode[e].lastSeen)
  <2>1. episode[e].lastSeen \in Nat /\ Refresh \in Nat
    BY <1>2, Typed, Constants
  <2>2. e \in DOMAIN episode' /\ episode[e].lastSeen <= episode'[e].lastSeen
    BY <1>2 DEF Grows
  <2>3. episode'[e].lastSeen \in Nat
    <3>1. episode' \in Seq(Episodes)
      BY DEF BridgeTypes
    <3>2. episode'[e] \in Episodes
      BY <2>2, <3>1
    <3> QED
      BY <3>2 DEF Episodes
  <2> QED
    BY <1>2, <2>1, <2>2, <2>3 DEF Expires, Ends
<1> QED
  BY <1>1, <1>2 DEF Expires

LEMMA OverGrows ==
  ASSUME BridgeTypes, BridgeTypes', Grows, NEW e, Over(e)
  PROVE  Over(e)'
<1>1. /\ e \in DOMAIN episode /\ episode[e].ended # 0
      /\ episode[e].ended + ForgetAfter < clock
  BY DEF Over
<1>2. e \in DOMAIN episode' /\ episode'[e].ended = episode[e].ended
  BY <1>1 DEF Grows
<1>3. /\ clock \in Nat /\ clock' \in Nat /\ clock <= clock'
      /\ episode[e].ended \in Nat /\ ForgetAfter \in Nat
  BY <1>1, Typed, Constants DEF Grows, BridgeTypes
<1> QED
  BY <1>1, <1>2, <1>3 DEF Over

LEMMA PushOKGrows ==
  ASSUME BridgeTypes, BridgeTypes', PostTypes, PostTypes', Grows, FailuresGrow,
         NEW p \in Pushes, NEW attempt \in Nat, PushOK(p, attempt)
  PROVE  PushOK(p, attempt)'
<1>1. p.id \in Ids /\ p.ends \in Nat
  BY DEF Pushes
<1>2. Expires(p.id, p.ends)'
  BY <1>1, ExpiresGrows DEF PushOK
<1>3. failed[p.id] \in Nat /\ failed'[p.id] \in Nat /\ failed[p.id] <= failed'[p.id]
  BY <1>1 DEF PostTypes, FailuresGrow
<1>4. p.tracked => ~p.triage /\ failed'[p.id] + 1 >= attempt
  BY <1>3 DEF PushOK
<1> QED
  BY <1>2, <1>4 DEF PushOK

LEMMA FlagsKeep ==
  ASSUME Bridge, EpisodesAreSeparate, Flags,
         delivered' \subseteq Paths \X DOMAIN episode
  PROVE  Bridge' /\ EpisodesAreSeparate' /\ Grows
<1> USE DEF Bridge
<1>1. DOMAIN episode' = DOMAIN episode /\ DOMAIN episode = 1 .. Len(episode)
  BY Typed DEF Flags
<1>2. BridgeTypes'
  BY <1>1 DEF BridgeTypes, Flags
<1>3. OpenOnes'
  <2>1. known \subseteq DOMAIN episode /\ active \in [Containers -> {0} \cup known]
    BY DEF BridgeTypes
  <2> QED
    BY <1>1, <2>1 DEF OpenOnes, Flags
<1>4. Times'
  BY <1>1 DEF Times, Flags
<1>5. EpisodesAreSeparate'
  BY <1>1 DEF EpisodesAreSeparate, Flags
<1>6. Grows
  BY <1>1, Typed DEF Grows, Flags
<1> QED
  BY <1>2, <1>3, <1>4, <1>5, <1>6
-------------------------------------------------------------------------------
(* The start of an episode stays on its way. *)

Arrives(e) ==
  /\ episode[e].pushed \/ Pending(e) \/ failed[e] >= PushAttempts
  /\ episode[e].kind = "tripwire_alert" =>
       \/ e \in triaged \/ failed[0] > 0
       \/ \E p \in Outstanding : p.id = e /\ p.triage

\* A push q that is no longer outstanding has arrived, or failed for good.
LEMMA ArrivesKept ==
  ASSUME PostTypes, PostTypes', FailuresGrow, triaged \subseteq triaged',
         NEW q, Outstanding \subseteq Outstanding' \cup {q},
         NEW e \in Ids, Arrives(e),
         episode'[e].kind = episode[e].kind,
         episode[e].pushed => episode'[e].pushed,
         q \notin Outstanding' /\ q.id = e /\ q.tracked =>
           episode'[e].pushed \/ failed'[e] >= PushAttempts,
         q \notin Outstanding' /\ q.id = e /\ q.triage =>
           e \in triaged' \/ failed'[0] > 0
  PROVE  Arrives(e)'
<1>1. /\ \A i \in {0} \cup Ids : failed[i] \in Nat /\ failed'[i] \in Nat
      /\ \A i \in {0} \cup Ids : failed[i] <= failed'[i]
      /\ PushAttempts \in Nat
  BY Constants DEF PostTypes, FailuresGrow
<1>2. /\ failed[e] >= PushAttempts => failed'[e] >= PushAttempts
      /\ failed[0] > 0 => failed'[0] > 0
  <2>1. /\ failed[e] \in Nat /\ failed'[e] \in Nat /\ failed[e] <= failed'[e]
        /\ failed[0] \in Nat /\ failed'[0] \in Nat /\ failed[0] <= failed'[0]
    BY <1>1
  <2> QED
    BY ONLY <2>1, <1>1
<1>3. (episode[e].pushed \/ Pending(e) \/ failed[e] >= PushAttempts)'
  <2>1. CASE Pending(e)
    <3>1. PICK p \in Outstanding : p.id = e /\ p.tracked
      BY <2>1 DEF Pending
    <3> QED
      BY <3>1 DEF Pending
  <2> QED
    BY <1>2, <2>1 DEF Arrives
<1>4. (episode[e].kind = "tripwire_alert" =>
        \/ e \in triaged \/ failed[0] > 0
        \/ \E p \in Outstanding : p.id = e /\ p.triage)'
  BY <1>2 DEF Arrives
<1> QED
  BY <1>3, <1>4 DEF Arrives

\* Of an action that changes no episode but in its flags.
LEMMA StartStays ==
  ASSUME BridgeTypes, PostTypes, PostTypes', Flags, FailuresGrow,
         triaged \subseteq triaged',
         \A e \in known : episode[e].pushed => episode'[e].pushed,
         NEW q, Outstanding \subseteq Outstanding' \cup {q},
         q \notin Outstanding' /\ q.id \in known /\ q.tracked =>
           episode'[q.id].pushed \/ failed'[q.id] >= PushAttempts,
         q \notin Outstanding' /\ q.id \in known /\ q.triage =>
           q.id \in triaged' \/ failed'[0] > 0,
         StartArrives
  PROVE  StartArrives'
<1> SUFFICES ASSUME NEW e \in known PROVE Arrives(e)'
  BY DEF StartArrives, Arrives, Flags
<1>1. e \in Ids /\ e \in DOMAIN episode
  BY Typed DEF BridgeTypes
<1>2. Arrives(e)
  BY DEF StartArrives, Arrives
<1>3. episode'[e].kind = episode[e].kind
  BY <1>1 DEF Flags
<1>4. episode[e].pushed => episode'[e].pushed
  OBVIOUS
<1>5. /\ q \notin Outstanding' /\ q.id = e /\ q.tracked =>
           episode'[e].pushed \/ failed'[e] >= PushAttempts
      /\ q \notin Outstanding' /\ q.id = e /\ q.triage =>
           e \in triaged' \/ failed'[0] > 0
  OBVIOUS
<1> QED
  BY <1>1, <1>2, <1>3, <1>4, <1>5, ArrivesKept
-------------------------------------------------------------------------------
(* The push thread. *)

LEMMA Quiet ==
  ASSUME BridgeTypes, UNCHANGED <<clock, bridgeVars>>
  PROVE  Flags /\ delivered' \subseteq Paths \X DOMAIN episode
<1>1. /\ clock' = clock /\ episode' = episode /\ known' = known
      /\ active' = active /\ delivered' = delivered
  BY DEF bridgeVars
<1> QED
  BY <1>1 DEF BridgeTypes, Flags

LEMMA OnceKept ==
  ASSUME BridgeTypes, BridgeTypes', Grows, Once,
         deliveries' = deliveries, triggerLines' = triggerLines,
         delivered' = delivered, known' = known,
         \A e \in DOMAIN episode : episode'[e].triggered = episode[e].triggered
  PROVE  Once'
<1>1. ASSUME NEW p \in Paths, NEW e \in Ids
      PROVE  /\ deliveries'[<<p, e>>] <= 1
             /\ deliveries'[<<p, e>>] = 0 \/ <<p, e>> \in delivered' \/ Over(e)'
  BY OverGrows DEF Once
<1>2. ASSUME NEW e \in Ids
      PROVE  /\ triggerLines'[e] <= 1
             /\ triggerLines'[e] = 0 \/ (e \in DOMAIN episode' /\ episode'[e].triggered)
  BY DEF Once, Grows
<1>3. \A e \in known' :
        episode'[e].triggered <=> \E p \in Paths : <<p, e>> \in delivered'
  BY DEF Once, BridgeTypes
<1> QED
  BY <1>1, <1>2, <1>3 DEF Once

LEMMA InHands ==
  ASSUME PostTypes
  PROVE  /\ job.at = "idle" <=> job = Idle
         /\ job # Idle => /\ job \in Jobs /\ job.push \in Pushes
                          /\ job.attempt \in Nat /\ job.attempt >= 1
                          /\ job.push.id \in Ids /\ job.push.ends \in Nat
                          /\ InHand = {job.push} /\ job.push \in Outstanding
         /\ job = Idle => InHand = {}
<1>1. Idle.at = "idle"
  BY DEF Idle
<1>2. ASSUME job # Idle
      PROVE  /\ job \in Jobs /\ job.push \in Pushes /\ job.at # "idle"
             /\ job.attempt \in Nat /\ job.attempt >= 1
             /\ job.push.id \in Ids /\ job.push.ends \in Nat
  <2>1. job \in Jobs
    BY <1>2 DEF PostTypes
  <2>2. job.push \in Pushes /\ job.at \in {"post", "note"} /\ job.attempt \in Nat \ {0}
    BY <2>1 DEF Jobs
  <2> QED
    BY <2>1, <2>2 DEF Pushes
<1>3. job # Idle => InHand = {job.push} /\ job.push \in Outstanding
  BY DEF InHand, Outstanding
<1> QED
  BY <1>1, <1>2, <1>3 DEF InHand

\* What is in Alertmanager's hands, and in whose hands a push is, when a
\* push is taken from a queue.
LEMMA PushTaken ==
  ASSUME Inv, TakePush
  PROVE  PostTypes' /\ Queues' /\ Outstanding' = Outstanding
<1>1. BridgeTypes /\ PostTypes /\ Queues
  BY DEF Inv, Bridge
<1> DEFINE p == Head(pushes)
<1>2. pushes \in Seq(Pushes) /\ pushes # <<>> /\ job = Idle
  BY <1>1, InHands DEF TakePush, PostTypes
<1>3. /\ Range(pushes) = {p} \cup Range(pushes')
      /\ p \in Pushes /\ pushes' \in Seq(Pushes)
  BY <1>2, RangeOfTail DEF TakePush
<1> HIDE DEF p
<1>4. job' = [at |-> "post", push |-> p, attempt |-> 1]
  BY DEF TakePush, p
<1>5. job' \in Jobs /\ job'.push = p /\ job'.attempt = 1 /\ job'.at = "post"
  BY <1>3, <1>4 DEF Jobs
<1>6. UNCHANGED <<retries, fires, failed, clock, episode>>
  BY DEF TakePush, outerVars, historyVars, bridgeVars
<1>7. PostTypes'
  BY <1>1, <1>3, <1>5, <1>6 DEF PostTypes
<1>8. job' # Idle
  BY <1>5 DEF Idle
<1>9. \A q, a : PushOK(q, a)' <=> PushOK(q, a)
  BY <1>6 DEF PushOK, Expires
<1>10. Queues'
  <2>1. \A e \in Ids : Expires(e, fires[e])'
    BY <1>1, <1>6 DEF Queues, Expires
  <2>2. /\ \A q \in Range(pushes') : PushOK(q, 1)
        /\ \A r \in Range(retries') : PushOK(r.push, r.attempt)
        /\ PushOK(p, 1)
    BY <1>1, <1>3, <1>6 DEF Queues
  <2> QED
    BY <1>5, <1>9, <2>1, <2>2 DEF Queues
<1>11. Outstanding' = Outstanding
  <2>1. InHand = {} /\ InHand' = {p}
    BY <1>2, <1>5, <1>8 DEF InHand
  <2> QED
    BY <1>3, <1>6, <2>1 DEF Outstanding
<1> QED
  BY <1>7, <1>10, <1>11

LEMMA RetryTaken ==
  ASSUME Inv, TakeRetry
  PROVE  PostTypes' /\ Queues' /\ Outstanding' = Outstanding
<1>1. BridgeTypes /\ PostTypes /\ Queues
  BY DEF Inv, Bridge
<1> DEFINE h == Head(retries)
<1>2. retries \in Seq(Retries) /\ retries # <<>> /\ job = Idle
  BY <1>1, InHands DEF TakeRetry, RetryDue, PostTypes
<1>3. /\ Range(retries) = {h} \cup Range(retries')
      /\ h \in Retries /\ retries' \in Seq(Retries)
  BY <1>2, RangeOfTail DEF TakeRetry
<1> HIDE DEF h
<1>4. job' = [at |-> "post", push |-> h.push, attempt |-> h.attempt]
  BY DEF TakeRetry, h
<1>5. /\ job' \in Jobs /\ job'.push = h.push
      /\ job'.attempt = h.attempt /\ job'.at = "post"
  BY <1>3, <1>4 DEF Jobs, Retries
<1>6. UNCHANGED <<pushes, fires, failed, clock, episode>>
  BY DEF TakeRetry, outerVars, historyVars, bridgeVars
<1>7. PostTypes'
  BY <1>1, <1>3, <1>5, <1>6 DEF PostTypes
<1>8. job' # Idle
  BY <1>5 DEF Idle
<1>9. \A q, a : PushOK(q, a)' <=> PushOK(q, a)
  BY <1>6 DEF PushOK, Expires
<1>10. Queues'
  <2>1. \A e \in Ids : Expires(e, fires[e])'
    BY <1>1, <1>6 DEF Queues, Expires
  <2>2. /\ \A q \in Range(pushes') : PushOK(q, 1)
        /\ \A r \in Range(retries') : PushOK(r.push, r.attempt)
        /\ PushOK(h.push, h.attempt)
    BY <1>1, <1>3, <1>6 DEF Queues
  <2> QED
    BY <1>5, <1>9, <2>1, <2>2 DEF Queues
<1>11. Outstanding' = Outstanding
  <2>1. InHand = {} /\ InHand' = {h.push}
    BY <1>2, <1>5, <1>8 DEF InHand
  <2>2. {r.push : r \in Range(retries)} = {h.push} \cup {r.push : r \in Range(retries')}
    BY <1>3
  <2> QED
    BY <1>6, <2>1, <2>2 DEF Outstanding
<1> QED
  BY <1>7, <1>10, <1>11

\* Alertmanager takes a push that may be posted.
LEMMA TakenOK ==
  ASSUME Inv, job # Idle, Taken(job.push) \/ UNCHANGED <<fires, triaged>>,
         UNCHANGED <<clock, episode>>
  PROVE  /\ fires' \in [Ids -> Nat] /\ triaged \subseteq triaged'
         /\ \A e \in Ids : Expires(e, fires'[e])
<1>1. PostTypes /\ Queues
  BY DEF Inv
<1>2. /\ job.push.id \in Ids /\ job.push.ends \in Nat
      /\ Expires(job.push.id, job.push.ends)
  BY <1>1, InHands DEF Queues, PushOK
<1>3. fires \in [Ids -> Nat] /\ \A e \in Ids : Expires(e, fires[e])
  BY <1>1 DEF PostTypes, Queues
<1>4. fires' = fires \/ fires' = [fires EXCEPT ![job.push.id] = job.push.ends]
  BY DEF Taken
<1>5. triaged \subseteq triaged'
  BY DEF Taken
<1> QED
  BY <1>2, <1>3, <1>4, <1>5

LEMMA PostSucceeded ==
  ASSUME Inv, PostSucceeds
  PROVE  /\ PostTypes' /\ Queues'
         /\ job' # Idle \/ ~job.push.tracked
         /\ triaged \subseteq triaged'
         /\ Outstanding \subseteq Outstanding' \cup {job.push}
         /\ job.push \notin Outstanding' =>
              /\ ~job.push.tracked
              /\ job.push.triage => job.push.id \in triaged'
<1>1. PostTypes /\ Queues
  BY DEF Inv
<1>2. job.at = "post" /\ job # Idle
  BY <1>1, InHands DEF PostSucceeds
<1>3. /\ job \in Jobs /\ job.push \in Pushes /\ InHand = {job.push}
      /\ PushOK(job.push, job.attempt)
  BY <1>1, <1>2, InHands DEF Queues
<1>4. UNCHANGED <<pushes, retries, failed, clock, episode>>
  BY DEF PostSucceeds, historyVars, bridgeVars
<1>5. /\ fires' \in [Ids -> Nat] /\ triaged \subseteq triaged'
      /\ \A e \in Ids : Expires(e, fires'[e])
  BY <1>2, <1>4, TakenOK DEF PostSucceeds
<1>6. \A q, a : PushOK(q, a)' <=> PushOK(q, a)
  BY <1>4 DEF PushOK, Expires
<1>7. \A e, n : Expires(e, n)' <=> Expires(e, n)
  BY <1>4 DEF Expires
<1>8. CASE job.push.tracked
  <2>1. job' = [job EXCEPT !.at = "note"]
    BY <1>8 DEF PostSucceeds
  <2>2. /\ job' \in Jobs /\ job'.push = job.push
        /\ job'.attempt = job.attempt /\ job'.at = "note"
    BY <1>3, <2>1 DEF Jobs
  <2>3. job' # Idle
    BY <2>2 DEF Idle
  <2>4. PostTypes'
    BY <1>1, <1>4, <1>5, <2>2 DEF PostTypes
  <2>5. Queues'
    <3>1. \A e \in Ids : Expires(e, fires[e])'
      BY <1>5, <1>4 DEF Expires
    <3>2. /\ \A q \in Range(pushes') : PushOK(q, 1)
          /\ \A r \in Range(retries') : PushOK(r.push, r.attempt)
      BY <1>1, <1>4 DEF Queues
    <3> QED
      BY <1>3, <1>6, <1>8, <2>2, <3>1, <3>2 DEF Queues
  <2>6. InHand' = {job.push}
    BY <2>2, <2>3 DEF InHand
  <2>7. Outstanding' = Outstanding
    BY <1>3, <1>4, <2>6 DEF Outstanding
  <2>8. job.push \in Outstanding'
    BY <2>6 DEF Outstanding
  <2> QED
    BY <1>5, <2>3, <2>4, <2>5, <2>7, <2>8
<1>9. CASE ~job.push.tracked
  <2>1. job' = Idle
    BY <1>9 DEF PostSucceeds
  <2>2. PostTypes'
    BY <1>1, <1>4, <1>5, <2>1 DEF PostTypes
  <2>3. Queues'
    <3>1. \A e \in Ids : Expires(e, fires[e])'
      BY <1>5, <1>4 DEF Expires
    <3>2. /\ \A q \in Range(pushes') : PushOK(q, 1)
          /\ \A r \in Range(retries') : PushOK(r.push, r.attempt)
      BY <1>1, <1>4 DEF Queues
    <3> QED
      BY <1>6, <2>1, <3>1, <3>2 DEF Queues
  <2>4. Outstanding \subseteq Outstanding' \cup {job.push}
    BY <1>3, <1>4 DEF Outstanding
  <2>5. job.push.triage => job.push.id \in triaged'
    BY DEF PostSucceeds, Taken
  <2> QED
    BY <1>5, <1>9, <2>2, <2>3, <2>4, <2>5
<1> QED
  BY <1>8, <1>9

LEMMA Noted ==
  ASSUME Inv, Note
  PROVE  /\ Flags /\ PostTypes' /\ Queues'
         /\ Outstanding \subseteq Outstanding' \cup {job.push}
         /\ \A e \in DOMAIN episode : /\ episode[e].pushed => episode'[e].pushed
                                      /\ episode'[e].triggered = episode[e].triggered
         /\ job.push.id \in known => episode'[job.push.id].pushed
         /\ ~job.push.triage
<1>1. PostTypes /\ Queues /\ BridgeTypes
  BY DEF Inv, Bridge
<1>2. job.at = "note" /\ job # Idle
  BY <1>1, InHands DEF Note
<1>3. /\ job \in Jobs /\ job.push \in Pushes /\ InHand = {job.push}
      /\ PushOK(job.push, job.attempt) /\ job.push.tracked
  BY <1>1, <1>2, InHands DEF Queues
<1>4. UNCHANGED <<clock, pushes, retries, known, active, failed, fires>> /\ job' = Idle
  BY DEF Note, historyVars, outerVars
<1> DEFINE e == job.push.id
<1>5. episode' = IF e \in known THEN [episode EXCEPT ![e].pushed = TRUE] ELSE episode
  BY DEF Note
<1>6. episode \in Seq(Episodes) /\ known \subseteq DOMAIN episode
  BY <1>1 DEF BridgeTypes
<1> HIDE DEF e
<1>7. /\ Flags
      /\ \A i \in DOMAIN episode : /\ episode[i].pushed => episode'[i].pushed
                                   /\ episode'[i].triggered = episode[i].triggered
      /\ e \in known => episode'[e].pushed
  <2>1. CASE e \notin known
    BY <1>4, <1>5, <1>6, <2>1 DEF Flags
  <2>2. CASE e \in known
    <3> DEFINE new == [episode[e] EXCEPT !.pushed = TRUE]
    <3>1. episode[e] \in Episodes /\ e \in DOMAIN episode
      BY <1>6, <2>2
    <3>2. /\ new \in Episodes /\ new.pushed
          /\ new.container = episode[e].container /\ new.kind = episode[e].kind
          /\ new.received = episode[e].received /\ new.lastSeen = episode[e].lastSeen
          /\ new.ended = episode[e].ended /\ new.triggered = episode[e].triggered
      BY <3>1 DEF Episodes
    <3>3. episode' = [episode EXCEPT ![e] = new]
      BY <1>5, <2>2
    <3> HIDE DEF new
    <3>4. /\ episode' \in Seq(Episodes) /\ Len(episode') = Len(episode)
          /\ \A i \in DOMAIN episode : episode'[i] = IF i = e THEN new ELSE episode[i]
      BY <1>6, <3>1, <3>2, <3>3
    <3> QED
      BY <1>4, <3>1, <3>2, <3>4 DEF Flags
  <2> QED
    BY <2>1, <2>2
<1>8. PostTypes'
  BY <1>1, <1>4 DEF PostTypes
<1>9. \A i, n : Expires(i, n) => Expires(i, n)'
  BY <1>4, <1>6, <1>7, Typed, <1>1 DEF Expires, Flags
<1>10. Queues'
  <2>1. \A q, a : PushOK(q, a) => PushOK(q, a)'
    BY <1>4, <1>9 DEF PushOK
  <2> QED
    BY <1>1, <1>4, <1>9, <2>1 DEF Queues
<1>11. Outstanding \subseteq Outstanding' \cup {job.push}
  BY <1>3, <1>4 DEF Outstanding
<1>12. ~job.push.triage
  BY <1>3 DEF PushOK
<1> QED
  BY <1>7, <1>8, <1>10, <1>11, <1>12 DEF e

LEMMA PostFailed ==
  ASSUME Inv, PostFails
  PROVE  /\ PostTypes' /\ Queues' /\ FailuresGrow
         /\ triaged \subseteq triaged'
         /\ Outstanding \subseteq Outstanding' \cup {job.push}
         /\ job.push \notin Outstanding' =>
              /\ job.push.tracked => failed'[job.push.id] >= PushAttempts
              /\ job.push.triage => failed'[0] > 0
<1>0. PICK p, a, r : /\ p = job.push /\ a = job.attempt
                    /\ r = [due |-> clock + RetryAfter, push |-> p, attempt |-> a + 1]
  OBVIOUS
<1>1. PostTypes /\ Queues /\ BridgeTypes
  BY DEF Inv, Bridge
<1>2. job.at = "post" /\ job # Idle
  BY <1>1, InHands DEF PostFails
<1> DEFINE i == IF p.tracked THEN p.id ELSE 0
<1>3. /\ p \in Pushes /\ InHand = {p} /\ PushOK(p, a)
      /\ p.id \in Ids /\ a \in Nat /\ a >= 1
      /\ p.tracked \in BOOLEAN
  BY <1>0, <1>1, <1>2, InHands DEF Queues, Pushes
<1>4. /\ UNCHANGED <<pushes, clock, episode>> /\ job' = Idle
      /\ failed' = [failed EXCEPT ![i] = @ + 1]
      /\ retries' = IF Retried(p, a) THEN Append(retries, r) ELSE retries
  BY <1>0 DEF PostFails, bridgeVars
<1>5. /\ fires' \in [Ids -> Nat] /\ triaged \subseteq triaged'
      /\ \A e \in Ids : Expires(e, fires'[e])
  BY <1>2, <1>4, TakenOK DEF PostFails
<1>6. failed \in [{0} \cup Ids -> Nat] /\ retries \in Seq(Retries)
  BY <1>1 DEF PostTypes
<1>7. r \in Retries /\ r.push = p /\ r.attempt = a + 1
  <2>1. clock + RetryAfter \in Nat /\ a + 1 \in Nat \ {0}
    BY <1>1, <1>3, Constants DEF BridgeTypes
  <2> QED
    BY <1>0, <1>3, <2>1 DEF Retries
<1>8. i \in {0} \cup Ids
  BY <1>3
<1>9. (p.tracked => i = p.id) /\ (~p.tracked => i = 0)
  OBVIOUS
<1> HIDE DEF i
<1>10. /\ failed' \in [{0} \cup Ids -> Nat] /\ failed'[i] = failed[i] + 1
       /\ failed[i] \in Nat /\ FailuresGrow
  BY <1>4, <1>6, <1>8 DEF FailuresGrow
<1>11. /\ retries' \in Seq(Retries)
       /\ Range(retries') \subseteq Range(retries) \cup {r}
       /\ Range(retries) \subseteq Range(retries')
       /\ Retried(p, a) => r \in Range(retries')
  BY <1>4, <1>6, <1>7, RangeOfAppend
<1>12. PostTypes'
  BY <1>1, <1>4, <1>5, <1>10, <1>11 DEF PostTypes
<1>13. BridgeTypes' => \A q \in Pushes, n \in Nat : PushOK(q, n) => PushOK(q, n)'
  <2>1. Grows
    BY <1>1, <1>4, Typed DEF Grows, BridgeTypes
  <2> QED
    BY <1>1, <1>10, <1>12, <2>1, PushOKGrows
<1>14. BridgeTypes'
  BY <1>1, <1>4 DEF PostFails, BridgeTypes, bridgeVars
<1>15. p.tracked => failed'[p.id] >= a
  <2>1. p.tracked => failed[p.id] + 1 >= a
    BY <1>3 DEF PushOK
  <2> QED
    BY <1>9, <1>10, <2>1
<1>16. Retried(p, a) => PushOK(p, a + 1)'
  <2> SUFFICES ASSUME Retried(p, a) PROVE PushOK(p, a + 1)'
    OBVIOUS
  <2>1. p.tracked
    BY DEF Retried
  <2>2. Expires(p.id, p.ends)' /\ ~p.triage
    BY <1>3, <1>13, <1>14, <2>1 DEF PushOK
  <2>3. failed'[p.id] + 1 >= a + 1
    <3>1. failed'[p.id] \in Nat
      BY <1>3, <1>10
    <3> QED
      BY <1>3, <1>15, <2>1, <3>1
  <2> QED
    BY <2>1, <2>2, <2>3 DEF PushOK
<1>17. Queues'
  <2>1. \A e \in Ids : Expires(e, fires[e])'
    BY <1>5, <1>4 DEF Expires
  <2>2. \A q \in Range(pushes') : PushOK(q, 1)'
    <3>1. \A q \in Range(pushes) : q \in Pushes
      BY <1>1 DEF PostTypes, Range
    <3> QED
      BY <1>1, <1>4, <1>13, <1>14, <3>1 DEF Queues
  <2>3. \A q \in Range(retries) : PushOK(q.push, q.attempt)'
    <3>1. \A q \in Range(retries) : q \in Retries
      BY <1>6 DEF Range
    <3>2. \A q \in Range(retries) : q.push \in Pushes /\ q.attempt \in Nat
      BY <3>1 DEF Retries
    <3> QED
      BY <1>1, <1>13, <1>14, <3>2 DEF Queues
  <2>4. \A q \in Range(retries') : PushOK(q.push, q.attempt)'
    <3>1. CASE Retried(p, a)
      BY <1>7, <1>11, <1>16, <2>3, <3>1
    <3>2. CASE ~Retried(p, a)
      BY <1>4, <2>3, <3>2
    <3> QED
      BY <3>1, <3>2
  <2> QED
    BY <1>4, <2>1, <2>2, <2>4 DEF Queues
<1>18. Outstanding \subseteq Outstanding' \cup {p}
  BY <1>3, <1>4, <1>11 DEF Outstanding
<1>19. ASSUME p \notin Outstanding'
       PROVE  /\ p.tracked => failed'[p.id] >= PushAttempts
              /\ p.triage => failed'[0] > 0
  <2>1. ~Retried(p, a)
    BY <1>7, <1>11, <1>19 DEF Outstanding
  <2>2. ASSUME p.tracked PROVE failed'[p.id] >= PushAttempts
    <3>1. a >= PushAttempts
      BY <1>3, <2>1, <2>2, Constants DEF Retried
    <3>2. failed'[p.id] \in Nat
      BY <1>3, <1>10
    <3> QED
      BY <1>3, <1>15, <2>2, <3>1, <3>2, Constants
  <2>3. p.triage => ~p.tracked
    BY <1>3 DEF PushOK
  <2>4. ~p.tracked => failed'[0] > 0
    BY <1>9, <1>10
  <2> QED
    BY <2>2, <2>3, <2>4
<1> QED
  BY <1>0, <1>5, <1>10, <1>12, <1>17, <1>18, <1>19

LEMMA PushThreadInv ==
  ASSUME Inv, PushThread
  PROVE  Inv'
<1>1. /\ Bridge /\ BridgeTypes /\ PostTypes /\ LogTypes
      /\ EpisodesAreSeparate /\ Queues /\ StartArrives /\ Once
  BY DEF Inv, Bridge
<1>2. /\ UNCHANGED <<clock, known, active, delivered, triggerLines, deliveries>>
      /\ LogTypes'
  BY <1>1 DEF PushThread, TakeRetry, TakePush, PostSucceeds, Note, PostFails,
              bridgeVars, historyVars, LogTypes
<1>3. /\ Flags /\ delivered' \subseteq Paths \X DOMAIN episode
      /\ \A e \in DOMAIN episode : episode'[e].triggered = episode[e].triggered
  <2>1. CASE Note
    BY <1>1, <1>2, <2>1, Noted DEF BridgeTypes
  <2>2. CASE TakeRetry \/ TakePush \/ PostSucceeds \/ PostFails
    <3>1. UNCHANGED <<clock, bridgeVars>>
      BY <2>2 DEF TakeRetry, TakePush, PostSucceeds, PostFails
    <3>2. episode' = episode
      BY <3>1 DEF bridgeVars
    <3> QED
      BY <1>1, <3>1, <3>2, Quiet
  <2> QED
    BY <2>1, <2>2 DEF PushThread
<1>4. Bridge' /\ EpisodesAreSeparate' /\ Grows
  BY <1>1, <1>3, FlagsKeep
<1>5. Once'
  BY <1>1, <1>2, <1>3, <1>4, OnceKept DEF Bridge
<1>6. PostTypes' /\ Queues'
  BY PushTaken, RetryTaken, PostSucceeded, Noted, PostFailed DEF PushThread
<1>7. StartArrives'
  <2>1. CASE TakeRetry \/ TakePush
    <3>1. UNCHANGED <<episode, failed, triaged>>
      BY <2>1 DEF TakeRetry, TakePush, bridgeVars, outerVars, historyVars
    <3>2. Outstanding' = Outstanding
      BY <2>1, RetryTaken, PushTaken
    <3>3. \A e : /\ Pending(e)' <=> Pending(e)
                 /\ (\E p \in Outstanding : p.id = e /\ p.triage)' <=>
                       \E p \in Outstanding : p.id = e /\ p.triage
      BY <3>2 DEF Pending
    <3> QED
      BY <1>1, <1>2, <3>1, <3>3, Zenon DEF StartArrives
  <2>2. CASE PostSucceeds
    <3>1. UNCHANGED <<episode, failed>>
      BY <2>2 DEF PostSucceeds, bridgeVars, historyVars
    <3>2. FailuresGrow
      BY <1>1, <3>1 DEF FailuresGrow, PostTypes
    <3>3. PICK q : q = job.push
      OBVIOUS
    <3>4. /\ triaged \subseteq triaged' /\ Outstanding \subseteq Outstanding' \cup {q}
          /\ q \notin Outstanding' => /\ ~q.tracked
                                      /\ q.triage => q.id \in triaged'
      BY <2>2, <3>3, PostSucceeded
    <3>5. \A e \in known : episode[e].pushed => episode'[e].pushed
      BY <3>1
    <3>6. /\ q \notin Outstanding' /\ q.id \in known /\ q.tracked =>
                episode'[q.id].pushed \/ failed'[q.id] >= PushAttempts
          /\ q \notin Outstanding' /\ q.id \in known /\ q.triage =>
                q.id \in triaged' \/ failed'[0] > 0
      BY <3>4
    <3> QED
      BY <1>1, <1>3, <1>6, <3>2, <3>4, <3>5, <3>6, StartStays, Zenon
  <2>3. CASE Note
    <3>1. UNCHANGED <<failed, triaged>>
      BY <2>3 DEF Note, outerVars, historyVars
    <3>2. FailuresGrow
      BY <1>1, <3>1 DEF FailuresGrow, PostTypes
    <3>3. known \subseteq DOMAIN episode
      BY <1>1 DEF BridgeTypes
    <3>4. PICK q : q = job.push
      OBVIOUS
    <3>5. /\ Outstanding \subseteq Outstanding' \cup {q}
          /\ \A e \in known : episode[e].pushed => episode'[e].pushed
          /\ q.id \in known => episode'[q.id].pushed
          /\ ~q.triage
      BY <2>3, <3>3, <3>4, Noted
    <3> QED
      BY <1>1, <1>3, <1>6, <3>1, <3>2, <3>5, StartStays
  <2>4. CASE PostFails
    <3>1. UNCHANGED episode
      BY <2>4 DEF PostFails, bridgeVars
    <3>2. PICK q : q = job.push
      OBVIOUS
    <3>3. /\ FailuresGrow /\ triaged \subseteq triaged'
          /\ Outstanding \subseteq Outstanding' \cup {q}
          /\ q \notin Outstanding' =>
               /\ q.tracked => failed'[q.id] >= PushAttempts
               /\ q.triage => failed'[0] > 0
      BY <2>4, <3>2, PostFailed
    <3> QED
      BY <1>1, <1>3, <1>6, <3>1, <3>3, StartStays
  <2> QED
    BY <2>1, <2>2, <2>3, <2>4 DEF PushThread
<1> QED
  BY <1>2, <1>4, <1>5, <1>6, <1>7 DEF Inv
-------------------------------------------------------------------------------
(* The webhook and the surroundings. *)

\* No alert of an episode fires that ended long ago.
LEMMA OverIsSilent ==
  ASSUME Inv, NEW path \in Paths, NEW e \in Ids, Over(e)
  PROVE  ~Firing(path, e)
<1>1. /\ e \in DOMAIN episode /\ episode[e].ended # 0
      /\ episode[e].ended + ForgetAfter < clock
  BY DEF Over
<1>2. BridgeTypes /\ OpenOnes /\ Times /\ Expires(e, fires[e]) /\ fires[e] \in Nat
  BY DEF Inv, Bridge, Queues, PostTypes
<1>3. /\ clock \in Nat /\ episode[e].ended \in Nat /\ episode[e].lastSeen \in Nat
      /\ e # 0 /\ episode[e].container \in Containers
  BY <1>1, <1>2, Typed
<1>4. episode[e].lastSeen + ResolveAfter < episode[e].ended
  BY <1>1, <1>2 DEF Times
<1>5. /\ ResolveAfter \in Nat /\ ForgetAfter \in Nat /\ Refresh \in Nat /\ Stale \in Nat
      /\ ForgetAfter >= 3 * Refresh /\ ForgetAfter >= Stale
  BY Constants
<1>6. ~(clock < fires[e])
  <2>1. CASE fires[e] <= clock
    BY <1>2, <1>3, <2>1
  <2>2. CASE fires[e] <= episode[e].lastSeen + 3 * Refresh
    <3>1. fires[e] \in Nat
      BY <1>2
    <3>2. 3 * Refresh \in Nat
      BY <1>5
    <3> QED
      BY ONLY <1>1, <1>3, <1>4, <1>5, <2>2, <3>1, <3>2
  <2> QED
    BY <1>2, <2>1, <2>2 DEF Expires, Ends
<1>7. ~Open(e)
  BY <1>1, <1>2, <1>3 DEF Open, OpenOnes
<1>8. ~(clock <= LastShown(e) + Stale)
  BY <1>1, <1>3, <1>5 DEF LastShown
<1> QED
  BY <1>6, <1>7, <1>8 DEF Firing

LEMMA WebhookInv ==
  ASSUME Inv, NEW path \in Paths, NEW e \in Ids, Webhook(path, e)
  PROVE  Inv'
<1>1. /\ Bridge /\ BridgeTypes /\ PostTypes /\ LogTypes
      /\ EpisodesAreSeparate /\ Queues /\ StartArrives /\ Once
  BY DEF Inv, Bridge
<1>2. /\ e \in DOMAIN episode /\ <<path, e>> \notin delivered
      /\ delivered' = delivered \cup {<<path, e>>}
      /\ deliveries' = [deliveries EXCEPT ![<<path, e>>] = @ + 1]
      /\ UNCHANGED <<clock, pushes, retries, job, known, active, fires, triaged, failed>>
  BY DEF Webhook, threadVars, outerVars
<1> DEFINE triggering == e \in known /\ ~episode[e].triggered
<1>3. /\ episode' = IF triggering THEN [episode EXCEPT ![e].triggered = TRUE]
                                  ELSE episode
      /\ triggerLines' = IF triggering THEN [triggerLines EXCEPT ![e] = @ + 1] ELSE triggerLines
  BY DEF Webhook
<1> HIDE DEF triggering
<1>4. episode \in Seq(Episodes) /\ known \subseteq DOMAIN episode
  BY <1>1 DEF BridgeTypes
<1>5. /\ Flags
      /\ \A i \in DOMAIN episode : /\ episode'[i].pushed = episode[i].pushed
                                   /\ i # e => episode'[i].triggered = episode[i].triggered
      /\ episode'[e].triggered = (triggering \/ episode[e].triggered)
  <2>1. CASE ~triggering
    <3>1. episode[e].triggered \in BOOLEAN
      BY <1>1, <1>2, Typed
    <3> QED
      BY <1>2, <1>3, <1>4, <2>1, <3>1 DEF Flags
  <2>2. CASE triggering
    <3> DEFINE new == [episode[e] EXCEPT !.triggered = TRUE]
    <3>1. episode[e] \in Episodes
      BY <1>2, <1>4
    <3>2. /\ new \in Episodes /\ new.triggered = TRUE
          /\ new.container = episode[e].container /\ new.kind = episode[e].kind
          /\ new.received = episode[e].received /\ new.lastSeen = episode[e].lastSeen
          /\ new.ended = episode[e].ended /\ new.pushed = episode[e].pushed
      BY <3>1 DEF Episodes
    <3>3. episode' = [episode EXCEPT ![e] = new]
      BY <1>3, <2>2
    <3> HIDE DEF new
    <3>4. /\ episode' \in Seq(Episodes) /\ Len(episode') = Len(episode)
          /\ \A i \in DOMAIN episode : episode'[i] = IF i = e THEN new ELSE episode[i]
      BY <1>2, <1>4, <3>1, <3>2, <3>3
    <3>5. Flags
      BY <1>2, <3>2, <3>4 DEF Flags
    <3>6. episode'[e].triggered = TRUE
      BY <1>2, <3>2, <3>4
    <3> QED
      BY <2>2, <3>2, <3>4, <3>5, <3>6
  <2> QED
    BY <2>1, <2>2
<1>6. delivered' \subseteq Paths \X DOMAIN episode
  BY <1>1, <1>2 DEF BridgeTypes
<1>7. Bridge' /\ EpisodesAreSeparate' /\ Grows
  BY <1>1, <1>5, <1>6, FlagsKeep
<1>8. PostTypes'
  BY <1>1, <1>2 DEF PostTypes
<1>9. <<path, e>> \in Paths \X Ids
  OBVIOUS
<1>10. /\ triggerLines \in [Ids -> Nat] /\ deliveries \in [Paths \X Ids -> Nat]
  BY <1>1 DEF LogTypes
<1>11. LogTypes'
  BY <1>2, <1>3, <1>9, <1>10 DEF LogTypes
<1>12. FailuresGrow
  BY <1>1, <1>2 DEF FailuresGrow, PostTypes
<1>13. Queues'
  <2>1. \A i, n : Expires(i, n) => Expires(i, n)'
    BY <1>1, <1>2, <1>5, Typed DEF Expires, Flags
  <2>2. \A q, a : PushOK(q, a) => PushOK(q, a)'
    BY <1>2, <2>1 DEF PushOK
  <2> QED
    BY <1>1, <1>2, <2>1, <2>2 DEF Queues
<1>14. StartArrives'
  <2>1. Outstanding' = Outstanding
    BY <1>2 DEF Outstanding, InHand
  <2>2. PICK q : q \notin Outstanding' /\ ~q.tracked /\ ~q.triage
    <3>1. \E q : q \notin Outstanding /\ ~q.tracked /\ ~q.triage
      <4>1. \A q \in Outstanding : q \in Pushes
        <5>1. \A q \in Range(pushes) : q \in Pushes
          BY <1>1 DEF PostTypes, Range
        <5>2. \A q \in Range(retries) : q \in Retries
          BY <1>1 DEF PostTypes, Range
        <5>3. \A q \in Range(retries) : q.push \in Pushes
          BY <5>2 DEF Retries
        <5> QED
          BY <1>1, <5>1, <5>3, InHands DEF Outstanding
      <4> DEFINE q == [id |-> 0, tracked |-> FALSE, triage |-> FALSE]
      <4>2. q.id = 0 /\ ~q.tracked /\ ~q.triage
        OBVIOUS
      <4>3. q \notin Pushes
        BY <4>2 DEF Pushes, Ids
      <4> QED
        BY <4>1, <4>2, <4>3
    <3> QED
      BY <2>1, <3>1
  <2>3. \A i \in known : episode[i].pushed => episode'[i].pushed
    BY <1>4, <1>5
  <2> QED
    BY <1>1, <1>2, <1>5, <1>8, <1>12, <2>1, <2>2, <2>3, StartStays
<1>15. Once'
  <2>1. ASSUME NEW p \in Paths, NEW i \in Ids
        PROVE  /\ deliveries'[<<p, i>>] <= 1
               /\ deliveries'[<<p, i>>] = 0 \/ <<p, i>> \in delivered' \/ Over(i)'
    <3>1. CASE <<p, i>> = <<path, e>>
      <4>1. Firing(path, e)
        BY DEF Webhook
      <4>2. ~Over(e)
        BY <4>1, OverIsSilent
      <4>3. deliveries[<<path, e>>] = 0
        BY <1>1, <1>2, <4>2 DEF Once
      <4> QED
        BY <1>2, <1>9, <1>10, <3>1, <4>3
    <3>2. CASE <<p, i>> # <<path, e>>
      <4>1. deliveries'[<<p, i>>] = deliveries[<<p, i>>]
        BY <1>2, <1>9, <1>10, <3>2
      <4>2. Over(i) => Over(i)'
        BY <1>1, <1>7, OverGrows DEF Bridge
      <4> QED
        BY <1>1, <1>2, <4>1, <4>2 DEF Once
    <3> QED
      BY <3>1, <3>2
  <2>2. ASSUME NEW i \in Ids
        PROVE  /\ triggerLines'[i] <= 1
               /\ triggerLines'[i] = 0 \/ (i \in DOMAIN episode' /\ episode'[i].triggered)
    <3>1. DOMAIN episode' = DOMAIN episode
      BY <1>4, <1>5 DEF Flags
    <3>2. /\ triggerLines[i] <= 1
          /\ triggerLines[i] = 0 \/ (i \in DOMAIN episode /\ episode[i].triggered)
      BY <1>1 DEF Once
    <3>3. CASE i = e /\ triggering
      <4>1. triggerLines[e] = 0
        BY <3>2, <3>3 DEF triggering
      <4>2. triggerLines'[e] = triggerLines[e] + 1
        BY <1>3, <1>10, <3>3
      <4>3. triggerLines'[i] = 1
        BY <3>3, <4>1, <4>2
      <4>4. i \in DOMAIN episode' /\ episode'[i].triggered
        BY <1>2, <1>5, <3>1, <3>3
      <4> QED
        BY <4>3, <4>4
    <3>4. CASE ~(i = e /\ triggering)
      <4>1. triggerLines'[i] = triggerLines[i]
        BY <1>3, <1>10, <3>4
      <4>2. i \in DOMAIN episode /\ episode[i].triggered => episode'[i].triggered
        BY <1>5
      <4> QED
        BY <3>1, <3>2, <4>1, <4>2
    <3> QED
      BY <3>3, <3>4
  <2>3. ASSUME NEW i \in known
        PROVE  episode'[i].triggered <=> \E p \in Paths : <<p, i>> \in delivered'
    <3>1. CASE i = e
      BY <1>2, <1>5, <3>1 DEF triggering
    <3>2. CASE i # e
      <4>1. episode'[i].triggered = episode[i].triggered
        BY <1>4, <1>5, <3>2
      <4>2. \A p : <<p, i>> \in delivered' <=> <<p, i>> \in delivered
        BY <1>2, <3>2
      <4> QED
        BY <1>1, <4>1, <4>2 DEF Once
    <3> QED
      BY <3>1, <3>2
  <2> QED
    BY <1>2, <2>1, <2>2, <2>3 DEF Once
<1> QED
  BY <1>7, <1>8, <1>11, <1>13, <1>14, <1>15 DEF Inv

\* What changes none of the variables the invariant is about.
LEMMA QuietInv ==
  ASSUME Inv, UNCHANGED <<clock, threadVars, episode, known, active, delivered,
                          fires, triaged, historyVars>>
  PROVE  Inv'
BY DEF Inv, Bridge, BridgeTypes, PostTypes, LogTypes, OpenOnes, Times,
       EpisodesAreSeparate, Queues, PushOK, Expires, StartArrives, Pending,
       Outstanding, InHand, Once, Over, threadVars, historyVars

LEMMA RestartInv ==
  ASSUME Inv, Restart
  PROVE  Inv'
<1>1. /\ Bridge /\ BridgeTypes /\ PostTypes /\ LogTypes /\ OpenOnes /\ Times
      /\ EpisodesAreSeparate /\ Queues /\ StartArrives /\ Once
  BY DEF Inv, Bridge
<1>2. /\ known' = {} /\ active' = [c \in Containers |-> 0] /\ delivered' = {}
      /\ pushes' = <<>> /\ retries' = <<>> /\ job' = Idle
      /\ deliveries' = [d \in Paths \X Ids |-> 0]
      /\ UNCHANGED <<clock, episode, fires, failed, triggerLines>>
  BY DEF Restart, outerVars
<1>3. Bridge'
  BY <1>1, <1>2 DEF Bridge, BridgeTypes, OpenOnes, Times
<1>4. PostTypes' /\ LogTypes'
  BY <1>1, <1>2 DEF PostTypes, LogTypes
<1>5. EpisodesAreSeparate'
  BY <1>1, <1>2 DEF EpisodesAreSeparate
<1>6. Queues'
  <2>1. Range(pushes') = {} /\ Range(retries') = {}
    BY <1>2 DEF Range
  <2>2. \A e \in Ids : Expires(e, fires[e])'
    BY <1>1, <1>2 DEF Queues, Expires
  <2> QED
    BY <1>2, <2>1, <2>2 DEF Queues
<1>7. StartArrives'
  BY <1>2 DEF StartArrives
<1>8. Once'
  <2>1. \A p \in Paths, e \in Ids : deliveries'[<<p, e>>] = 0
    BY <1>2
  <2> QED
    BY <1>1, <1>2, <2>1 DEF Once
<1> QED
  BY <1>3, <1>4, <1>5, <1>6, <1>7, <1>8 DEF Inv

LEMMA InvInit ==
  ASSUME Init
  PROVE  Inv
<1>1. MaxEpisodes \in Nat
  BY Constants
<1>2. Bridge
  BY <1>1 DEF Init, Bridge, BridgeTypes, OpenOnes, Times
<1>3. PostTypes /\ LogTypes
  BY DEF Init, PostTypes, LogTypes
<1>4. Range(pushes) = {} /\ Range(retries) = {}
  BY DEF Init, Range
<1>5. Queues
  BY <1>4 DEF Init, Queues, Expires
<1>6. EpisodesAreSeparate /\ StartArrives
  BY DEF Init, EpisodesAreSeparate, StartArrives
<1>7. Once
  BY DEF Init, Once
<1> QED
  BY <1>2, <1>3, <1>5, <1>6, <1>7 DEF Inv
-------------------------------------------------------------------------------
(* The main thread. *)

\* Pushes are put at the end of the queue.
LEMMA Queued ==
  ASSUME BridgeTypes, BridgeTypes', PostTypes, Queues, Grows,
         UNCHANGED <<retries, job, fires, failed>>,
         NEW t \in Seq(Pushes), pushes' = pushes \o t,
         \A p \in Range(t) : PushOK(p, 1)'
  PROVE  /\ PostTypes' /\ Queues' /\ FailuresGrow
         /\ Outstanding \subseteq Outstanding' /\ Range(t) \subseteq Outstanding'
<1>1. pushes \in Seq(Pushes) /\ retries \in Seq(Retries)
  BY DEF PostTypes
<1>2. pushes \o t \in Seq(Pushes) /\ Range(pushes \o t) = Range(pushes) \cup Range(t)
  BY <1>1, ConcatProperties, RangeConcatenation
<1>3. PostTypes' /\ FailuresGrow
  BY <1>2 DEF PostTypes, FailuresGrow
<1>4. ASSUME NEW p \in Pushes, NEW a \in Nat, PushOK(p, a) PROVE PushOK(p, a)'
  BY <1>3, <1>4, PushOKGrows
<1>5. \A p \in Range(pushes') : PushOK(p, 1)'
  <2>1. \A p \in Range(pushes) : p \in Pushes
    BY <1>1 DEF Range
  <2>2. \A p \in Range(pushes) : PushOK(p, 1)'
    BY <1>4, <2>1 DEF Queues
  <2> QED
    BY <1>2, <2>2
<1>6. \A r \in Range(retries) : PushOK(r.push, r.attempt)'
  <2>1. \A r \in Range(retries) : r \in Retries
    BY <1>1 DEF Range
  <2>2. \A r \in Range(retries) : r.push \in Pushes /\ r.attempt \in Nat
    BY <2>1 DEF Retries
  <2> QED
    BY <1>4, <2>2 DEF Queues
<1>7. ASSUME job # Idle PROVE PushOK(job.push, job.attempt)'
  <2>1. PICK p, a : p = job.push /\ a = job.attempt
    OBVIOUS
  <2>2. p \in Pushes /\ a \in Nat /\ PushOK(p, a)
    BY <1>7, <2>1, InHands DEF Queues
  <2>3. PushOK(p, a)'
    BY <1>4, <2>2
  <2> QED
    BY <2>1, <2>3
<1>8. \A e \in Ids : Expires(e, fires[e])'
  <2> SUFFICES ASSUME NEW e \in Ids PROVE Expires(e, fires[e])'
    OBVIOUS
  <2>1. PICK n : n = fires[e]
    OBVIOUS
  <2>2. n \in Nat /\ Expires(e, n)
    BY <2>1 DEF PostTypes, Queues
  <2>3. Expires(e, n)'
    BY <2>2, ExpiresGrows
  <2> QED
    BY <2>1, <2>3
<1>9. Queues'
  BY <1>5, <1>6, <1>7, <1>8 DEF Queues
<1>10. Outstanding \subseteq Outstanding' /\ Range(t) \subseteq Outstanding'
  BY <1>2 DEF Outstanding, InHand
<1> QED
  BY <1>3, <1>9, <1>10

\* A row of a container whose episode is open.
LEMMA SeenInv ==
  ASSUME Inv, NEW c \in Containers, NEW kind \in Kinds, Ingest(c, kind), active[c] # 0
  PROVE  Inv'
<1>1. /\ Bridge /\ BridgeTypes /\ OpenOnes /\ Times /\ PostTypes /\ LogTypes
      /\ EpisodesAreSeparate /\ Queues /\ StartArrives /\ Once
  BY DEF Inv, Bridge
<1>2. PICK a : a = active[c]
  OBVIOUS
<1>3. /\ episode \in Seq(Episodes) /\ known \subseteq DOMAIN episode
      /\ active \in [Containers -> {0} \cup known] /\ clock \in Nat
  BY <1>1 DEF BridgeTypes
<1>4. /\ a \in known /\ a \in DOMAIN episode /\ a \in Nat /\ episode[a] \in Episodes
      /\ episode[a].container = c /\ episode[a].ended = 0
  BY <1>1, <1>2, <1>3, Typed DEF OpenOnes
<1>5. /\ episode' = [episode EXCEPT ![a].lastSeen = clock]
      /\ UNCHANGED <<clock, known, active, pushes, retries, job, delivered, indexed,
                     cases, fires, triaged, failed, triggerLines, deliveries, restarts>>
  BY <1>2 DEF Ingest, Seen, outerVars, historyVars
<1> DEFINE new == [episode[a] EXCEPT !.lastSeen = clock]
<1>6. /\ new \in Episodes /\ new.lastSeen = clock
      /\ new.container = episode[a].container /\ new.kind = episode[a].kind
      /\ new.received = episode[a].received /\ new.ended = episode[a].ended
      /\ new.pushed = episode[a].pushed /\ new.triggered = episode[a].triggered
  BY <1>3, <1>4 DEF Episodes
<1>7. episode' = [episode EXCEPT ![a] = new]
  BY <1>5
<1> HIDE DEF new
<1>8. /\ episode' \in Seq(Episodes) /\ Len(episode') = Len(episode)
      /\ DOMAIN episode' = DOMAIN episode
      /\ \A e \in DOMAIN episode : episode'[e] = IF e = a THEN new ELSE episode[e]
  BY <1>3, <1>4, <1>6, <1>7
<1>9. \A e \in DOMAIN episode :
        /\ episode'[e].container = episode[e].container
        /\ episode'[e].kind = episode[e].kind
        /\ episode'[e].received = episode[e].received
        /\ episode'[e].ended = episode[e].ended
        /\ episode'[e].pushed = episode[e].pushed
        /\ episode'[e].triggered = episode[e].triggered
        /\ e # a => episode'[e].lastSeen = episode[e].lastSeen
        /\ episode'[a].lastSeen = clock
  BY <1>4, <1>6, <1>8
<1>10. BridgeTypes'
  BY <1>1, <1>5, <1>8 DEF BridgeTypes
<1>11. OpenOnes'
  BY <1>1, <1>3, <1>5, <1>9 DEF OpenOnes
<1>12. Times'
  <2> SUFFICES ASSUME NEW e \in DOMAIN episode
               PROVE  /\ episode'[e].lastSeen <= clock
                      /\ episode'[e].ended # 0 =>
                           /\ episode'[e].ended <= clock
                           /\ episode'[e].lastSeen + ResolveAfter < episode'[e].ended
    BY <1>5, <1>8 DEF Times
  <2>1. CASE e = a
    BY <1>3, <1>4, <1>9, <2>1
  <2>2. CASE e # a
    BY <1>1, <1>9, <2>2 DEF Times
  <2> QED
    BY <2>1, <2>2
<1>13. Grows
  <2>1. \A e \in DOMAIN episode : episode[e].lastSeen <= episode'[e].lastSeen
    <3> SUFFICES ASSUME NEW e \in DOMAIN episode
                 PROVE  episode[e].lastSeen <= episode'[e].lastSeen
      OBVIOUS
    <3>1. episode[e].lastSeen \in Nat /\ episode[e].lastSeen <= clock
      BY <1>1, Typed DEF Times
    <3> QED
      BY <1>9, <3>1
  <2> QED
    BY <1>3, <1>5, <1>8, <1>9, <2>1 DEF Grows
<1>14. PostTypes' /\ LogTypes'
  BY <1>1, <1>5 DEF PostTypes, LogTypes
<1>15. EpisodesAreSeparate'
  <2> SUFFICES ASSUME NEW d \in DOMAIN episode, NEW e \in DOMAIN episode,
                      d < e, episode[d].container = episode[e].container
               PROVE  IF episode'[d].ended # 0
                      THEN episode'[e].received > episode'[d].lastSeen + ResolveAfter
                      ELSE d \notin known
    BY <1>5, <1>8, <1>9 DEF EpisodesAreSeparate
  <2>1. episode[d].ended # 0 => d # a
    BY <1>4
  <2>2. IF episode[d].ended # 0
        THEN episode[e].received > episode[d].lastSeen + ResolveAfter
        ELSE d \notin known
    BY <1>1 DEF EpisodesAreSeparate
  <2> QED
    BY <1>9, <2>1, <2>2
<1>16. Queues'
  <2>1. /\ <<>> \in Seq(Pushes) /\ Range(<<>>) = {} /\ pushes \o <<>> = pushes
    <3>1. pushes \in Seq(Pushes)
      BY <1>1 DEF PostTypes
    <3> QED
      BY <3>1 DEF Range
  <2>2. \A p \in Range(<<>>) : PushOK(p, 1)'
    BY <2>1
  <2>3. UNCHANGED <<retries, job, fires, failed>> /\ pushes' = pushes \o <<>>
    BY <1>5, <2>1
  <2> QED
    BY <1>1, <1>10, <1>13, <2>1, <2>2, <2>3, Queued
<1>17. StartArrives'
  <2>1. Outstanding' = Outstanding
    BY <1>5 DEF Outstanding, InHand
  <2>2. \A e : /\ Pending(e)' <=> Pending(e)
               /\ (\E p \in Outstanding : p.id = e /\ p.triage)' <=>
                     \E p \in Outstanding : p.id = e /\ p.triage
    BY <2>1 DEF Pending
  <2>3. \A e \in known : /\ episode'[e].pushed = episode[e].pushed
                         /\ episode'[e].kind = episode[e].kind
    BY <1>3, <1>9
  <2> QED
    BY <1>1, <1>5, <2>2, <2>3, Zenon DEF StartArrives
<1>18. Once'
  BY <1>1, <1>5, <1>9, <1>10, <1>13, OnceKept
<1> QED
  BY <1>10, <1>11, <1>12, <1>14, <1>15, <1>16, <1>17, <1>18 DEF Inv, Bridge

\* The first pushes of an episode.
LEMMA FirstPushes ==
  ASSUME clock \in Nat, NEW e \in Ids, NEW kind,
         NEW t, t = StartPushes(e, kind)
  PROVE  /\ t \in Seq(Pushes)
         /\ \A p \in Range(t) : /\ p.id = e /\ (p.tracked => ~p.triage)
                                /\ p.ends = Ends(clock) \/ p.ends = 0
         /\ \E p \in Range(t) : p.id = e /\ p.tracked
         /\ kind = "tripwire_alert" => \E p \in Range(t) : p.id = e /\ p.triage
<1> DEFINE ends == Ends(clock)
           p == [id |-> e, tracked |-> TRUE, ends |-> ends, triage |-> FALSE]
           q == [id |-> e, tracked |-> FALSE, ends |-> 0, triage |-> TRUE]
<1>1. ends \in Nat
  BY Constants DEF Ends
<1> HIDE DEF ends
<1>2. /\ p \in Pushes /\ p.id = e /\ p.tracked /\ ~p.triage /\ p.ends = ends
      /\ q \in Pushes /\ q.id = e /\ ~q.tracked /\ q.triage /\ q.ends = 0
  BY <1>1 DEF Pushes
<1>3. t = IF kind = "tripwire_alert" THEN <<p>> \o <<q>> ELSE <<p>> \o <<>>
  BY DEF StartPushes, ends
<1> HIDE DEF p, q
<1>4. CASE kind = "tripwire_alert"
  <2>1. <<p>> \in Seq(Pushes) /\ <<q>> \in Seq(Pushes)
    BY <1>2
  <2>2. t = <<p>> \o <<q>>
    BY <1>3, <1>4
  <2>3. t \in Seq(Pushes) /\ Range(t) = Range(<<p>>) \cup Range(<<q>>)
    BY <2>1, <2>2, ConcatProperties, RangeConcatenation
  <2>4. ASSUME NEW x PROVE Range(<<x>>) = {x}
    <3>1. DOMAIN <<x>> = {1} /\ <<x>>[1] = x
      OBVIOUS
    <3> QED
      BY <3>1 DEF Range
  <2> QED
    BY <1>2, <2>3, <2>4 DEF ends
<1>5. CASE kind # "tripwire_alert"
  <2>1. t = <<p>>
    BY <1>3, <1>5
  <2>2. t \in Seq(Pushes) /\ Range(t) = {p}
    BY <1>2, <2>1 DEF Range
  <2> QED
    BY <1>2, <1>5, <2>2 DEF ends
<1> QED
  BY <1>4, <1>5

\* A row that starts an episode.
LEMMA StartedInv ==
  ASSUME Inv, NEW c \in Containers, NEW kind \in Kinds, Ingest(c, kind), active[c] = 0
  PROVE  Inv'
<1>1. /\ Bridge /\ BridgeTypes /\ OpenOnes /\ Times /\ PostTypes /\ LogTypes
      /\ EpisodesAreSeparate /\ Queues /\ StartArrives /\ Once
  BY DEF Inv, Bridge
<1>2. /\ episode \in Seq(Episodes) /\ known \subseteq DOMAIN episode
      /\ active \in [Containers -> {0} \cup known] /\ clock \in Nat
      /\ Len(episode) \in Nat /\ DOMAIN episode = 1 .. Len(episode)
  BY <1>1, Typed DEF BridgeTypes
<1>3. PICK n, t, new : /\ n = Len(episode) + 1 /\ t = StartPushes(n, kind)
                       /\ new = NewEpisode(c, kind)
  OBVIOUS
<1>4. /\ n <= MaxEpisodes /\ episode' = Append(episode, new)
      /\ known' = known \cup {n} /\ active' = [active EXCEPT ![c] = n]
      /\ pushes' = pushes \o t
      /\ UNCHANGED <<clock, retries, job, delivered, fires, triaged, failed,
                     triggerLines, deliveries>>
  BY <1>3 DEF Ingest, outerVars, historyVars
<1>5. /\ new \in Episodes /\ new.container = c /\ new.kind = kind
      /\ new.received = clock /\ new.lastSeen = clock /\ new.ended = 0
      /\ new.pushed = FALSE /\ new.triggered = FALSE
  BY <1>2, <1>3 DEF NewEpisode, Episodes
<1>6. /\ n \in Nat /\ n # 0 /\ n \in Ids /\ n \notin DOMAIN episode
      /\ \A e \in DOMAIN episode : e < n
  BY <1>2, <1>3, <1>4 DEF Ids
<1>7. /\ episode' \in Seq(Episodes) /\ Len(episode') = n
      /\ DOMAIN episode' = DOMAIN episode \cup {n}
      /\ episode'[n] = new
      /\ \A e \in DOMAIN episode : episode'[e] = episode[e] /\ e # n
  <2>1. /\ episode' \in Seq(Episodes) /\ Len(episode') = n
        /\ DOMAIN episode' = 1 .. n /\ episode'[n] = new
    BY <1>2, <1>3, <1>4, <1>5
  <2>2. \A e \in DOMAIN episode : episode'[e] = episode[e] /\ e # n
    BY <1>2, <1>3, <1>4, <1>5
  <2>3. 1 .. n = (1 .. Len(episode)) \cup {n}
    BY <1>2, <1>3
  <2> QED
    BY <1>2, <2>1, <2>2, <2>3
<1>8. BridgeTypes'
  BY <1>1, <1>2, <1>4, <1>7 DEF BridgeTypes
<1>9. Grows
  BY <1>2, <1>4, <1>7, Typed, <1>1 DEF Grows
<1>10. OpenOnes'
  <2>1. ASSUME NEW e \in known', episode'[e].ended = 0
        PROVE  active'[episode'[e].container] = e
    <3>1. CASE e = n
      BY <1>2, <1>4, <1>5, <1>7, <3>1
    <3>2. CASE e # n
      <4>1. e \in known /\ e \in DOMAIN episode /\ episode'[e] = episode[e]
        BY <1>2, <1>4, <1>7, <3>2
      <4>2. active[episode[e].container] = e /\ e # 0
        BY <1>1, <2>1, <4>1, Typed DEF OpenOnes
      <4>3. episode[e].container # c
        BY <4>2
      <4> QED
        BY <1>1, <1>2, <1>4, <4>1, <4>2, <4>3, Typed
    <3> QED
      BY <3>1, <3>2
  <2>2. ASSUME NEW d \in Containers, active'[d] # 0
        PROVE  episode'[active'[d]].container = d /\ episode'[active'[d]].ended = 0
    <3>1. CASE d = c
      BY <1>2, <1>4, <1>5, <1>7, <3>1
    <3>2. CASE d # c
      <4>1. active'[d] = active[d] /\ active[d] \in DOMAIN episode
        BY <1>2, <1>4, <2>2, <3>2
      <4> QED
        BY <1>1, <1>7, <2>2, <4>1 DEF OpenOnes
    <3> QED
      BY <3>1, <3>2
  <2> QED
    BY <2>1, <2>2 DEF OpenOnes
<1>11. Times'
  BY <1>1, <1>2, <1>4, <1>5, <1>7 DEF Times
<1>12. LogTypes'
  BY <1>1, <1>4 DEF LogTypes
<1>13. EpisodesAreSeparate'
  <2> SUFFICES ASSUME NEW d \in DOMAIN episode', NEW e \in DOMAIN episode',
                      d < e, episode'[d].container = episode'[e].container
               PROVE  IF episode'[d].ended # 0
                      THEN episode'[e].received > episode'[d].lastSeen + ResolveAfter
                      ELSE d \notin known'
    BY DEF EpisodesAreSeparate
  <2>1. d \in DOMAIN episode /\ d # n /\ episode'[d] = episode[d]
    <3>1. d # n
      <4>1. CASE e = n
        BY <1>6, <4>1
      <4>2. CASE e # n
        BY <1>2, <1>6, <1>7, <4>2
      <4> QED
        BY <4>1, <4>2
    <3> QED
      BY <1>7, <3>1
  <2>2. CASE e # n
    <3>1. e \in DOMAIN episode /\ episode'[e] = episode[e]
      BY <1>7, <2>2
    <3>2. IF episode[d].ended # 0
          THEN episode[e].received > episode[d].lastSeen + ResolveAfter
          ELSE d \notin known
      BY <1>1, <2>1, <3>1 DEF EpisodesAreSeparate
    <3> QED
      BY <1>4, <2>1, <3>1, <3>2
  <2>3. CASE e = n
    <3>1. episode'[e].received = clock /\ episode[d].container = c
      BY <1>5, <1>7, <2>1, <2>3
    <3>2. ASSUME episode[d].ended # 0
          PROVE  clock > episode[d].lastSeen + ResolveAfter
      <4>1. /\ episode[d].ended <= clock
            /\ episode[d].lastSeen + ResolveAfter < episode[d].ended
        BY <1>1, <2>1, <3>2 DEF Times
      <4>2. /\ episode[d].ended \in Nat /\ episode[d].lastSeen \in Nat
            /\ ResolveAfter \in Nat
        BY <1>1, <2>1, Typed, Constants
      <4> QED
        BY ONLY <1>2, <4>1, <4>2
    <3>3. episode[d].ended = 0 => d \notin known
      <4>1. d # 0
        BY <1>1, <2>1, Typed
      <4> QED
        BY <1>1, <3>1, <4>1 DEF OpenOnes
    <3> QED
      BY <1>4, <2>1, <3>1, <3>2, <3>3
  <2> QED
    BY <2>2, <2>3
<1>14. /\ t \in Seq(Pushes)
       /\ \A p \in Range(t) : /\ p.id = n /\ (p.tracked => ~p.triage)
                              /\ p.ends = Ends(clock) \/ p.ends = 0
       /\ \E p \in Range(t) : p.id = n /\ p.tracked
       /\ kind = "tripwire_alert" => \E p \in Range(t) : p.id = n /\ p.triage
  BY <1>2, <1>3, <1>6, FirstPushes
<1>15. \A p \in Range(t) : PushOK(p, 1)'
  <2> SUFFICES ASSUME NEW p \in Range(t) PROVE PushOK(p, 1)'
    OBVIOUS
  <2>1. p.id = n /\ (p.tracked => ~p.triage) /\ (p.ends = Ends(clock) \/ p.ends = 0)
    BY <1>14
  <2>2. failed'[n] \in Nat
    BY <1>1, <1>4, <1>6 DEF PostTypes
  <2>3. failed'[n] + 1 >= 1
    BY <2>2
  <2>4. Ends(clock) \in Nat
    BY <1>2, Constants DEF Ends
  <2>5. n \in DOMAIN episode' /\ Ends(episode'[n].lastSeen) = Ends(clock)
    BY <1>5, <1>7
  <2>6. Expires(n, p.ends)'
    BY <1>2, <1>4, <2>1, <2>4, <2>5 DEF Expires
  <2> QED
    BY <2>1, <2>3, <2>6 DEF PushOK
<1>16. /\ PostTypes' /\ Queues' /\ FailuresGrow
       /\ Outstanding \subseteq Outstanding' /\ Range(t) \subseteq Outstanding'
  BY <1>1, <1>4, <1>8, <1>9, <1>14, <1>15, Queued
<1>17. StartArrives'
  <2> SUFFICES ASSUME NEW e \in known' PROVE Arrives(e)'
    BY DEF StartArrives, Arrives
  <2>1. CASE e = n
    <3>1. Pending(e)'
      BY <1>14, <1>16, <2>1 DEF Pending
    <3>2. episode'[e].kind = "tripwire_alert" =>
            \E p \in Outstanding' : p.id = e /\ p.triage
      BY <1>5, <1>7, <1>14, <1>16, <2>1
    <3> QED
      BY <3>1, <3>2 DEF Arrives
  <2>2. CASE e # n
    <3>1. e \in known /\ e \in DOMAIN episode /\ e \in Ids /\ episode'[e] = episode[e]
      BY <1>1, <1>2, <1>4, <1>7, <2>2, Typed
    <3>2. Arrives(e)
      BY <1>1, <3>1 DEF StartArrives, Arrives
    <3>3. PICK q : q.id = 0 /\ q.id # e
      <4>1. [id |-> 0].id = 0 /\ e # 0
        BY <1>1, <3>1, Typed
      <4> QED
        BY <4>1
    <3>4. q.id # e /\ Outstanding \subseteq Outstanding' \cup {q} /\ triaged \subseteq triaged'
      BY <1>4, <1>16, <3>3
    <3>5. /\ q \notin Outstanding' /\ q.id = e /\ q.tracked =>
               episode'[e].pushed \/ failed'[e] >= PushAttempts
          /\ q \notin Outstanding' /\ q.id = e /\ q.triage =>
               e \in triaged' \/ failed'[0] > 0
      BY <3>4
    <3> QED
      BY <1>1, <1>16, <3>1, <3>2, <3>4, <3>5, ArrivesKept
  <2> QED
    BY <2>1, <2>2
<1>18. Once'
  <2>1. \A p \in Paths : <<p, n>> \notin delivered
    BY <1>1, <1>6 DEF BridgeTypes
  <2>2. ASSUME NEW p \in Paths, NEW e \in Ids
        PROVE  /\ deliveries'[<<p, e>>] <= 1
               /\ deliveries'[<<p, e>>] = 0 \/ <<p, e>> \in delivered' \/ Over(e)'
    BY <1>1, <1>4, <1>8, <1>9, OverGrows DEF Once
  <2>3. ASSUME NEW e \in Ids
        PROVE  /\ triggerLines'[e] <= 1
               /\ triggerLines'[e] = 0 \/ (e \in DOMAIN episode' /\ episode'[e].triggered)
    BY <1>1, <1>4, <1>7 DEF Once
  <2>4. ASSUME NEW e \in known'
        PROVE  episode'[e].triggered <=> \E p \in Paths : <<p, e>> \in delivered'
    <3>1. CASE e = n
      BY <1>4, <1>5, <1>7, <2>1, <3>1
    <3>2. CASE e # n
      <4>1. e \in known /\ episode'[e] = episode[e]
        BY <1>2, <1>4, <1>7, <3>2
      <4> QED
        BY <1>1, <1>4, <4>1 DEF Once
    <3> QED
      BY <3>1, <3>2
  <2> QED
    BY <2>2, <2>3, <2>4 DEF Once
<1> QED
  BY <1>8, <1>10, <1>11, <1>12, <1>13, <1>16, <1>17, <1>18 DEF Inv, Bridge

LEMMA TickedEpisode ==
  ASSUME BridgeTypes, NEW now \in Nat, NEW e \in DOMAIN episode,
         NEW t, t = Ticked(e, now)
  PROVE  /\ t \in Episodes
         /\ t.container = episode[e].container /\ t.kind = episode[e].kind
         /\ t.received = episode[e].received /\ t.lastSeen = episode[e].lastSeen
         /\ t.rca = episode[e].rca /\ t.pushed = episode[e].pushed
         /\ t.triggered = episode[e].triggered
         /\ t.ended = IF Resolves(e, now) THEN now ELSE episode[e].ended
<1>1. episode[e] \in Episodes
  BY Typed
<1>2. CASE Resolves(e, now)
  <2>1. t = [episode[e] EXCEPT !.ended = now]
    BY <1>2 DEF Ticked
  <2> QED
    BY <1>1, <1>2, <2>1 DEF Episodes
<1>3. CASE ~Resolves(e, now) /\ Refreshes(e, now)
  <2>1. t = [episode[e] EXCEPT !.lastPush = now]
    BY <1>3 DEF Ticked
  <2> QED
    BY <1>1, <1>3, <2>1 DEF Episodes
<1>4. CASE ~Resolves(e, now) /\ ~Refreshes(e, now)
  <2>1. t = episode[e]
    BY <1>4 DEF Ticked
  <2> QED
    BY <1>1, <1>4, <2>1
<1> QED
  BY <1>2, <1>3, <1>4

LEMMA TickedEpisodes ==
  ASSUME BridgeTypes, NEW now \in Nat, Tick(now)
  PROVE  /\ episode' \in Seq(Episodes) /\ Len(episode') = Len(episode)
         /\ DOMAIN episode' = DOMAIN episode
         /\ \A e \in DOMAIN episode :
              /\ episode'[e].container = episode[e].container
              /\ episode'[e].kind = episode[e].kind
              /\ episode'[e].received = episode[e].received
              /\ episode'[e].lastSeen = episode[e].lastSeen
              /\ episode'[e].pushed = episode[e].pushed
              /\ episode'[e].triggered = episode[e].triggered
              /\ episode'[e].ended = IF Resolves(e, now) THEN now ELSE episode[e].ended
<1> DEFINE F(e) == [Ticked(e, now) EXCEPT !.rca = @ \/ Attaches(e, now)]
<1>1. episode' = [e \in DOMAIN episode |-> F(e)]
  BY DEF Tick
<1>2. ASSUME NEW e \in DOMAIN episode
      PROVE  /\ F(e) \in Episodes
             /\ F(e).container = episode[e].container
             /\ F(e).kind = episode[e].kind
             /\ F(e).received = episode[e].received
             /\ F(e).lastSeen = episode[e].lastSeen
             /\ F(e).pushed = episode[e].pushed
             /\ F(e).triggered = episode[e].triggered
             /\ F(e).ended = IF Resolves(e, now) THEN now ELSE episode[e].ended
  <2>1. PICK t : t = Ticked(e, now)
    OBVIOUS
  <2>2. PICK rca \in BOOLEAN : rca = (t.rca \/ Attaches(e, now))
    OBVIOUS
  <2>3. F(e) = [t EXCEPT !.rca = rca]
    <3>1. F(e) = [t EXCEPT !.rca = @ \/ Attaches(e, now)]
      BY <2>1
    <3> HIDE DEF F
    <3> QED
      BY <2>2, <3>1
  <2> HIDE DEF F
  <2>4. /\ t \in Episodes
        /\ t.container = episode[e].container /\ t.kind = episode[e].kind
        /\ t.received = episode[e].received /\ t.lastSeen = episode[e].lastSeen
        /\ t.pushed = episode[e].pushed /\ t.triggered = episode[e].triggered
        /\ t.ended = IF Resolves(e, now) THEN now ELSE episode[e].ended
    BY <2>1, TickedEpisode
  <2>5. /\ F(e) \in Episodes
        /\ F(e).container = t.container /\ F(e).kind = t.kind
        /\ F(e).received = t.received /\ F(e).lastSeen = t.lastSeen
        /\ F(e).pushed = t.pushed /\ F(e).triggered = t.triggered
        /\ F(e).ended = t.ended
    BY <2>3, <2>4 DEF Episodes
  <2> QED
    BY <2>4, <2>5
<1>3. episode \in Seq(Episodes) /\ Len(episode) \in Nat /\ DOMAIN episode = 1 .. Len(episode)
  BY Typed DEF BridgeTypes
<1> HIDE DEF F
<1>4. episode' \in Seq(Episodes) /\ Len(episode') = Len(episode)
  BY <1>1, <1>2, <1>3
<1> QED
  BY <1>1, <1>2, <1>4

\* What a tick queues.
LEMMA TickQueues ==
  ASSUME BridgeTypes, Times, PostTypes, NEW now \in Nat, clock <= now, Tick(now)
  PROVE  \E t \in Seq(Pushes) : /\ pushes' = pushes \o t
                                /\ \A p \in Range(t) : PushOK(p, 1)'
<1> DEFINE S == {p \in Pushes : PushOK(p, 1)'}
<1>1. /\ clock' = now /\ failed' = failed /\ DOMAIN episode' = DOMAIN episode
      /\ failed \in [{0} \cup Ids -> Nat]
  BY TickedEpisodes DEF Tick, historyVars, PostTypes
<1>2. ASSUME NEW e \in DOMAIN episode, NEW p,
             p \in Pushes, p.id = e, p.tracked => ~p.triage,
             p.ends <= now \/ p.ends = Ends(episode[e].lastSeen)
      PROVE  p \in S
  <2>1. failed'[e] \in Nat
    BY <1>1, Typed
  <2>2. failed'[e] + 1 >= 1
    BY <2>1
  <2>3. Ends(episode[e].lastSeen) \in Nat
    BY Typed, Constants DEF Ends
  <2>4. episode'[e].lastSeen = episode[e].lastSeen
    BY TickedEpisodes
  <2>5. Expires(p.id, p.ends)'
    BY <1>1, <1>2, <2>3, <2>4 DEF Expires
  <2> QED
    BY <1>2, <2>2, <2>5 DEF PushOK
<1> HIDE DEF S
<1>3. ASSUME NEW e \in DOMAIN episode
      PROVE  TickPushes(e, now) \in Seq(S)
  <2>1. e \in Ids /\ episode[e].lastSeen \in Nat /\ Ends(episode[e].lastSeen) \in Nat
    BY Typed, Constants DEF Ends
  <2>2. PICK p, q :
          /\ p = [id |-> e, tracked |-> FALSE, ends |-> now, triage |-> FALSE]
          /\ q = [id |-> e, tracked |-> TRUE, ends |-> Ends(episode[e].lastSeen),
                  triage |-> FALSE]
    OBVIOUS
  <2>3. p \in S /\ q \in S
    <3>1. p \in Pushes /\ q \in Pushes
      BY <2>1, <2>2 DEF Pushes
    <3> QED
      BY <1>2, <2>2, <3>1
  <2>4. <<p>> \in Seq(S) /\ <<q>> \in Seq(S) /\ <<>> \in Seq(S)
    BY <2>3
  <2>5. TickPushes(e, now) \in {<<p>>, <<q>>, <<>>}
    BY <2>2 DEF TickPushes
  <2> QED
    BY <2>4, <2>5
<1>4. ASSUME NEW e \in DOMAIN episode
      PROVE  CasePushes(e, now) \in Seq(S)
  <2>1. PICK t : t = Ticked(e, now)
    OBVIOUS
  <2>2. PICK n : n = IF t.ended # 0 THEN t.ended ELSE Ends(episode[e].lastSeen)
    OBVIOUS
  <2>3. n \in Nat /\ (n <= now \/ n = Ends(episode[e].lastSeen))
    <3>1. /\ t.ended = IF Resolves(e, now) THEN now ELSE episode[e].ended
          /\ episode[e].ended \in Nat /\ episode[e].lastSeen \in Nat
      BY <2>1, Typed, TickedEpisode
    <3>2. episode[e].ended # 0 => episode[e].ended <= now
      <4>1. episode[e].ended # 0 => episode[e].ended <= clock
        BY DEF Times
      <4> QED
        BY <3>1, <4>1, Typed
    <3>3. Ends(episode[e].lastSeen) \in Nat
      BY <3>1, Constants DEF Ends
    <3> QED
      BY <2>2, <3>1, <3>2, <3>3
  <2>4. PICK p : p = [id |-> e, tracked |-> FALSE, triage |-> TRUE, ends |-> n]
    OBVIOUS
  <2>5. p \in S
    <3>1. p \in Pushes
      BY <2>3, <2>4, Typed DEF Pushes
    <3> QED
      BY <1>2, <2>3, <2>4, <3>1
  <2>6. <<p>> \in Seq(S) /\ <<>> \in Seq(S)
    BY <2>5
  <2>7. CasePushes(e, now) \in {<<p>>, <<>>}
    BY <2>1, <2>2, <2>4 DEF CasePushes
  <2> QED
    BY <2>6, <2>7
<1> DEFINE a == [e \in DOMAIN episode |-> TickPushes(e, now)]
           b == [e \in DOMAIN episode |-> CasePushes(e, now)]
<1>5. a \in Seq(Seq(S)) /\ b \in Seq(Seq(S))
  <2>1. Len(episode) \in Nat /\ DOMAIN episode = 1 .. Len(episode)
    BY Typed
  <2> QED
    BY <1>3, <1>4, <2>1
<1>6. pushes' = pushes \o FlattenSeq(a) \o FlattenSeq(b)
  BY DEF Tick, OfAll
<1> HIDE DEF a, b
<1>7. PICK f, g : f = FlattenSeq(a) /\ g = FlattenSeq(b)
  OBVIOUS
<1>8. f \in Seq(S) /\ g \in Seq(S)
  BY <1>5, <1>7, Flattened
<1>9. PICK t : t = f \o g
  OBVIOUS
<1>10. t \in Seq(S)
  BY <1>8, <1>9, ConcatProperties
<1>11. S \subseteq Pushes
  BY DEF S
<1>12. t \in Seq(Pushes) /\ Range(t) \subseteq S
  BY <1>10, <1>11 DEF Range
<1>13. pushes' = pushes \o t
  <2>1. pushes \in Seq(Pushes) /\ f \in Seq(Pushes) /\ g \in Seq(Pushes)
    BY <1>8, <1>11 DEF PostTypes
  <2>2. pushes' = (pushes \o f) \o g
    BY <1>6, <1>7
  <2>3. (pushes \o f) \o g = pushes \o (f \o g)
    BY ONLY <2>1, ConcatAssociative
  <2> QED
    BY ONLY <1>9, <2>2, <2>3
<1> QED
  BY <1>12, <1>13 DEF S

LEMMA TickInv ==
  ASSUME Inv, NEW now \in Nat, clock <= now, Tick(now)
  PROVE  Inv'
<1>1. /\ Bridge /\ BridgeTypes /\ OpenOnes /\ Times /\ PostTypes /\ LogTypes
      /\ EpisodesAreSeparate /\ Queues /\ StartArrives /\ Once
  BY DEF Inv, Bridge
<1>2. /\ clock' = now /\ known' = known \ Forgotten(now)
      /\ active' = [c \in Containers |->
                      IF active[c] # 0 /\ Resolves(active[c], now) THEN 0 ELSE active[c]]
      /\ delivered' = {d \in delivered : d[2] \notin Forgotten(now)}
      /\ UNCHANGED <<retries, job, fires, triaged, failed, triggerLines, deliveries>>
  BY DEF Tick, outerVars, historyVars
<1>3. /\ episode' \in Seq(Episodes) /\ Len(episode') = Len(episode)
      /\ DOMAIN episode' = DOMAIN episode
      /\ \A e \in DOMAIN episode :
           /\ episode'[e].container = episode[e].container
           /\ episode'[e].kind = episode[e].kind
           /\ episode'[e].received = episode[e].received
           /\ episode'[e].lastSeen = episode[e].lastSeen
           /\ episode'[e].pushed = episode[e].pushed
           /\ episode'[e].triggered = episode[e].triggered
           /\ episode'[e].ended = IF Resolves(e, now) THEN now ELSE episode[e].ended
  BY <1>1, TickedEpisodes
<1>4. /\ known \subseteq DOMAIN episode
      /\ active \in [Containers -> {0} \cup known] /\ clock \in Nat
      /\ delivered \subseteq Paths \X DOMAIN episode
  BY <1>1 DEF BridgeTypes
<1>5. \A e \in DOMAIN episode :
        /\ e # 0 /\ e \in Ids /\ episode[e].container \in Containers
        /\ episode[e].lastSeen \in Nat /\ episode[e].ended \in Nat
        /\ episode[e].received \in Nat
  BY <1>1, Typed
\* What resolves is open, and what is forgotten has ended.
<1>6. ASSUME NEW e \in DOMAIN episode, Resolves(e, now)
      PROVE  /\ e \in known /\ active[episode[e].container] = e /\ episode[e].ended = 0
             /\ episode[e].lastSeen + ResolveAfter < now /\ now # 0
  <2>1. active[episode[e].container] = e /\ now - episode[e].lastSeen > ResolveAfter
    BY <1>6 DEF Resolves, Open
  <2>2. e \in known /\ episode[e].ended = 0
    BY <1>1, <1>4, <1>5, <2>1 DEF OpenOnes
  <2>3. episode[e].lastSeen \in Nat /\ ResolveAfter \in Nat
    BY <1>5, Constants
  <2>4. episode[e].lastSeen + ResolveAfter < now /\ now # 0
    BY ONLY <2>1, <2>3, now \in Nat
  <2> QED
    BY <2>1, <2>2, <2>4
<1>7. ASSUME NEW e \in Forgotten(now)
      PROVE  /\ e \in DOMAIN episode /\ episode'[e].ended # 0
             /\ episode'[e].ended + ForgetAfter < now
  <2>1. PICK t : t = Ticked(e, now)
    OBVIOUS
  <2>2. e \in DOMAIN episode /\ t.ended # 0 /\ now - t.ended > ForgetAfter
    BY <1>4, <1>7, <2>1 DEF Forgotten
  <2>3. t.ended = episode'[e].ended
    BY <1>1, <1>3, <2>1, <2>2, TickedEpisode
  <2>4. episode'[e].ended \in Nat
    BY <1>3, <1>5, <2>2
  <2>5. ForgetAfter \in Nat
    BY Constants
  <2>6. t.ended \in Nat
    BY <2>3, <2>4
  <2>7. t.ended + ForgetAfter < now
    BY ONLY <2>2, <2>5, <2>6, now \in Nat
  <2> QED
    BY <2>2, <2>3, <2>7
<1>8. ASSUME NEW c \in Containers, active'[c] # 0
      PROVE  /\ active'[c] = active[c] /\ active[c] # 0 /\ active[c] \in known
             /\ episode'[active[c]].ended = 0 /\ episode'[active[c]].container = c
  <2>1. active'[c] = active[c] /\ active[c] # 0 /\ ~Resolves(active[c], now)
    BY <1>2, <1>8
  <2>2. /\ active[c] \in known /\ active[c] \in DOMAIN episode
        /\ episode[active[c]].ended = 0 /\ episode[active[c]].container = c
    BY <1>1, <1>4, <2>1 DEF OpenOnes
  <2> QED
    BY <1>3, <2>1, <2>2
<1>9. BridgeTypes'
  <2>1. active' \in [Containers -> {0} \cup known']
    <3>1. ASSUME NEW c \in Containers PROVE active'[c] \in {0} \cup known'
      <4>1. CASE active'[c] = 0
        BY <4>1
      <4>2. CASE active'[c] # 0
        <5>1. active[c] \notin Forgotten(now)
          BY <1>7, <1>8, <4>2
        <5> QED
          BY <1>2, <1>8, <4>2, <5>1
      <4> QED
        BY <4>1, <4>2
    <3>2. active' = [c \in Containers |-> active'[c]]
      BY <1>2
    <3> QED
      BY <3>1, <3>2
  <2> QED
    BY <1>1, <1>2, <1>3, <1>4, <2>1 DEF BridgeTypes
<1>10. Grows
  BY <1>2, <1>3, <1>5, <1>6 DEF Grows
<1>11. OpenOnes'
  <2>1. ASSUME NEW e \in known', episode'[e].ended = 0
        PROVE  active'[episode'[e].container] = e
    <3>1. e \in known /\ e \in DOMAIN episode
      BY <1>2, <1>4
    <3>2. ~Resolves(e, now) /\ episode[e].ended = 0
      BY <1>3, <1>6, <2>1, <3>1
    <3>3. active[episode[e].container] = e
      BY <1>1, <3>1, <3>2 DEF OpenOnes
    <3> QED
      BY <1>2, <1>3, <1>5, <3>1, <3>2, <3>3
  <2> QED
    BY <1>8, <2>1 DEF OpenOnes
<1>12. Times'
  <2> SUFFICES ASSUME NEW e \in DOMAIN episode
               PROVE  /\ episode'[e].lastSeen <= now
                      /\ episode'[e].ended # 0 =>
                           /\ episode'[e].ended <= now
                           /\ episode'[e].lastSeen + ResolveAfter < episode'[e].ended
    BY <1>2, <1>3 DEF Times
  <2>1. /\ episode[e].lastSeen <= clock
        /\ episode[e].ended # 0 =>
             /\ episode[e].ended <= clock
             /\ episode[e].lastSeen + ResolveAfter < episode[e].ended
    BY <1>1 DEF Times
  <2>2. episode'[e].lastSeen <= now
    BY <1>3, <1>4, <1>5, <2>1
  <2>3. CASE Resolves(e, now)
    BY <1>3, <1>6, <2>2, <2>3
  <2>4. CASE ~Resolves(e, now)
    <3>1. episode'[e].ended = episode[e].ended /\ episode'[e].lastSeen = episode[e].lastSeen
      BY <1>3, <2>4
    <3>2. episode[e].ended # 0 => episode[e].ended <= now
      BY <1>4, <1>5, <2>1
    <3> QED
      BY <2>1, <2>2, <3>1, <3>2
  <2> QED
    BY <2>3, <2>4
<1>13. LogTypes'
  BY <1>1, <1>2 DEF LogTypes
<1>14. EpisodesAreSeparate'
  <2> SUFFICES ASSUME NEW d \in DOMAIN episode, NEW e \in DOMAIN episode,
                      d < e, episode[d].container = episode[e].container
               PROVE  IF episode'[d].ended # 0
                      THEN episode'[e].received > episode'[d].lastSeen + ResolveAfter
                      ELSE d \notin known'
    BY <1>3 DEF EpisodesAreSeparate
  <2>1. IF episode[d].ended # 0
        THEN episode[e].received > episode[d].lastSeen + ResolveAfter
        ELSE d \notin known
    BY <1>1 DEF EpisodesAreSeparate
  <2>2. CASE episode[d].ended # 0
    BY <1>3, <1>6, <2>1, <2>2
  <2>3. CASE episode[d].ended = 0
    <3>1. ~Resolves(d, now)
      BY <1>6, <2>1, <2>3
    <3> QED
      BY <1>2, <1>3, <2>1, <2>3, <3>1
  <2> QED
    BY <2>2, <2>3
<1>15. PICK t \in Seq(Pushes) : pushes' = pushes \o t /\ \A p \in Range(t) : PushOK(p, 1)'
  BY <1>1, TickQueues
<1>16. /\ PostTypes' /\ Queues' /\ FailuresGrow
       /\ Outstanding \subseteq Outstanding'
  BY <1>1, <1>2, <1>9, <1>10, <1>15, Queued
<1>17. StartArrives'
  <2> SUFFICES ASSUME NEW e \in known' PROVE Arrives(e)'
    BY DEF StartArrives, Arrives
  <2>1. e \in known /\ e \in DOMAIN episode /\ e \in Ids /\ e # 0
    BY <1>2, <1>4, <1>5
  <2>2. Arrives(e)
    BY <1>1, <2>1 DEF StartArrives, Arrives
  <2>3. PICK q : q.id # e
    <3>1. [id |-> 0].id = 0
      OBVIOUS
    <3> QED
      BY <2>1, <3>1
  <2>4. Outstanding \subseteq Outstanding' \cup {q} /\ triaged \subseteq triaged'
    BY <1>2, <1>16
  <2>5. episode'[e].kind = episode[e].kind /\ (episode[e].pushed => episode'[e].pushed)
    BY <1>3, <2>1
  <2>6. /\ q \notin Outstanding' /\ q.id = e /\ q.tracked =>
             episode'[e].pushed \/ failed'[e] >= PushAttempts
        /\ q \notin Outstanding' /\ q.id = e /\ q.triage =>
             e \in triaged' \/ failed'[0] > 0
    BY <2>3
  <2> QED
    BY <1>1, <1>16, <2>1, <2>2, <2>4, <2>5, <2>6, ArrivesKept
<1>18. Once'
  <2>1. ASSUME NEW p \in Paths, NEW e \in Ids
        PROVE  /\ deliveries'[<<p, e>>] <= 1
               /\ deliveries'[<<p, e>>] = 0 \/ <<p, e>> \in delivered' \/ Over(e)'
    <3>1. /\ deliveries[<<p, e>>] <= 1
          /\ deliveries[<<p, e>>] = 0 \/ <<p, e>> \in delivered \/ Over(e)
      BY <1>1 DEF Once
    <3>2. Over(e) => Over(e)'
      BY <1>1, <1>9, <1>10, OverGrows
    <3>3. e \in Forgotten(now) => Over(e)'
      BY <1>2, <1>3, <1>7 DEF Over
    <3>4. <<p, e>> \in delivered /\ e \notin Forgotten(now) => <<p, e>> \in delivered'
      BY <1>2
    <3> QED
      BY <1>2, <3>1, <3>2, <3>3, <3>4
  <2>2. ASSUME NEW e \in Ids
        PROVE  /\ triggerLines'[e] <= 1
               /\ triggerLines'[e] = 0 \/ (e \in DOMAIN episode' /\ episode'[e].triggered)
    BY <1>1, <1>2, <1>3 DEF Once
  <2>3. ASSUME NEW e \in known'
        PROVE  episode'[e].triggered <=> \E p \in Paths : <<p, e>> \in delivered'
    <3>1. e \in known /\ e \in DOMAIN episode /\ e \notin Forgotten(now)
      BY <1>2, <1>4
    <3>2. \A p : <<p, e>> \in delivered' <=> <<p, e>> \in delivered
      BY <1>2, <3>1
    <3> QED
      BY <1>1, <1>3, <3>1, <3>2 DEF Once
  <2> QED
    BY <2>1, <2>2, <2>3 DEF Once
<1> QED
  BY <1>9, <1>11, <1>12, <1>13, <1>14, <1>16, <1>17, <1>18 DEF Inv, Bridge
-------------------------------------------------------------------------------
(* The theorems. *)

LEMMA Invariance == Spec => []Inv
<1>1. Init => Inv
  BY InvInit
<1>2. Inv /\ [Next]_vars => Inv'
  <2> SUFFICES ASSUME Inv, [Next]_vars PROVE Inv'
    OBVIOUS
  <2>1. ASSUME NEW c \in Containers, NEW kind \in Kinds, Ingest(c, kind) PROVE Inv'
    BY <2>1, SeenInv, StartedInv
  <2>2. CASE Ticks
    <3>1. clock \in Nat /\ Stall \in Nat
      BY Constants DEF Inv, Bridge, BridgeTypes
    <3>2. PICK step \in 1 .. Stall : Tick(clock + step)
      BY <2>2 DEF Ticks
    <3>3. PICK now : now = clock + step
      OBVIOUS
    <3>4. now \in Nat /\ clock <= now /\ Tick(now)
      BY <3>1, <3>2, <3>3
    <3> QED
      BY <3>4, TickInv
  <2>3. CASE PushThread
    BY <2>3, PushThreadInv
  <2>4. ASSUME NEW path \in Paths, NEW e \in Ids, Webhook(path, e) PROVE Inv'
    BY <2>4, WebhookInv
  <2>5. ASSUME NEW e \in Ids, CaseWritten(e) PROVE Inv'
    BY <2>5, QuietInv DEF CaseWritten, bridgeVars
  <2>6. CASE Restart
    BY <2>6, RestartInv
  <2>7. CASE UNCHANGED vars
    BY <2>7, QuietInv DEF vars, bridgeVars, outerVars
  <2> QED
    BY <2>1, <2>2, <2>3, <2>4, <2>5, <2>6, <2>7 DEF Next
<1> QED
  BY <1>1, <1>2, PTL DEF Spec

\* Two episodes of a container are a silence apart (tick(), ingest()): no
\* number of rows, restarts or stalls of the main thread makes two overlap.
THEOREM SilenceSeparatesEpisodes == Spec => []EpisodesAreSeparate
<1>1. Inv => EpisodesAreSeparate
  BY DEF Inv
<1> QED
  BY <1>1, Invariance, PTL

\* Whatever is lost, retried or overtaken, an alert ends three refresh periods
\* after the last row of its episode.
THEOREM AlertsExpire == Spec => []AlertExpires
<1>1. ASSUME Inv PROVE AlertExpires
  <2> SUFFICES ASSUME NEW e \in DOMAIN episode, clock < fires[e]
               PROVE  clock < Ends(episode[e].lastSeen)
    BY DEF AlertExpires
  <2>1. e \in Ids /\ episode[e].lastSeen \in Nat /\ clock \in Nat
    BY <1>1, Typed DEF Inv, Bridge, BridgeTypes
  <2>2. fires[e] \in Nat /\ Expires(e, fires[e])
    BY <1>1, <2>1 DEF Inv, PostTypes, Queues
  <2>3. Ends(episode[e].lastSeen) \in Nat
    BY <2>1, Constants DEF Ends
  <2> QED
    BY <2>1, <2>2, <2>3 DEF Expires
<1> QED
  BY <1>1, Invariance, PTL

\* The start of a known episode was taken, is on its way, or failed as often
\* as the bridge tries.
THEOREM StartsArrive == Spec => []StartArrives
<1>1. Inv => StartArrives
  BY DEF Inv
<1> QED
  BY <1>1, Invariance, PTL

\* One trigger per episode: on_delivery() never sees an episode again that the
\* bridge has forgotten, because no alert fires for as long as it remembers.
THEOREM DeliveriesAreSingle == Spec => []DeliveredOnce
<1>1. ASSUME Inv PROVE DeliveredOnce
  <2>1. Once
    BY <1>1 DEF Inv
  <2>2. \A d \in Paths \X Ids : deliveries[d] <= 1
    BY <2>1 DEF Once
  <2>3. /\ \A e \in Ids : triggerLines[e] <= 1
        /\ \A e \in known : episode[e].triggered <=>
                              \E p \in Paths : <<p, e>> \in delivered
    BY <2>1 DEF Once
  <2> QED
    BY <2>2, <2>3 DEF DeliveredOnce
<1> QED
  BY <1>1, Invariance, PTL
-------------------------------------------------------------------------------
(* What no step does to an episode. *)

IsOver(e) == episode[e].ended # 0 \/ e \notin known

Continued(e) ==
  /\ e \in DOMAIN episode'
  /\ episode'[e].container = episode[e].container
  /\ episode'[e].received = episode[e].received
  /\ episode[e].triggered => episode'[e].triggered
  /\ IF IsOver(e)
     THEN /\ episode'[e].ended = episode[e].ended
          /\ episode'[e].lastSeen = episode[e].lastSeen
          /\ e \in known' => e \in known
     ELSE /\ episode[e].lastSeen <= episode'[e].lastSeen
          /\ episode'[e].ended \in {0, clock'}

EpisodesContinue == [][\A e \in DOMAIN episode : Continued(e)]_vars

\* An episode that ended, or that a restart lost, gets no further row and no
\* other end, and is not known again (ingest(), tick()); an open one keeps its
\* container and start, and its last row never moves back.
THEOREM OverIsFinal == Spec => EpisodesContinue
<1>1. ASSUME Inv, [Next]_vars, NEW e \in DOMAIN episode PROVE Continued(e)
  <2>1. /\ Bridge /\ BridgeTypes /\ OpenOnes /\ Times
        /\ episode \in Seq(Episodes) /\ known \subseteq DOMAIN episode
        /\ active \in [Containers -> {0} \cup known] /\ clock \in Nat
        /\ Len(episode) \in Nat /\ DOMAIN episode = 1 .. Len(episode)
    BY <1>1, Typed DEF Inv, Bridge, BridgeTypes
  <2>2. /\ episode[e] \in Episodes /\ episode[e].container \in Containers
        /\ episode[e].lastSeen \in Nat /\ episode[e].ended \in Nat
        /\ episode[e].lastSeen <= clock
    BY <1>1, <2>1, Typed DEF Times
  <2>3. ASSUME UNCHANGED <<episode, known>> PROVE Continued(e)
    BY <1>1, <2>2, <2>3 DEF Continued, IsOver
  <2>4. ASSUME NEW a \in DOMAIN episode, NEW new \in Episodes,
               episode' = [episode EXCEPT ![a] = new], UNCHANGED known,
               new.container = episode[a].container,
               new.received = episode[a].received,
               new.lastSeen = episode[a].lastSeen, new.ended = episode[a].ended,
               episode[a].triggered => new.triggered
        PROVE  Continued(e)
    <3>1. /\ e \in DOMAIN episode'
          /\ episode'[e] = IF e = a THEN new ELSE episode[e]
      BY <1>1, <2>1, <2>4
    <3> QED
      BY <2>2, <2>4, <3>1 DEF Continued, IsOver
  <2>5. ASSUME NEW c \in Containers, NEW kind \in Kinds, Ingest(c, kind)
        PROVE  Continued(e)
    <3>1. CASE active[c] # 0
      <4>1. PICK a : a = active[c]
        OBVIOUS
      <4>2. a \in known /\ a \in DOMAIN episode /\ episode[a].ended = 0
        BY <2>1, <2>5, <3>1, <4>1 DEF OpenOnes
      <4>3. /\ episode' = [episode EXCEPT ![a].lastSeen = clock]
            /\ UNCHANGED <<known, clock>>
        BY <2>5, <3>1, <4>1 DEF Ingest, Seen
      <4>4. PICK new : new = [episode[a] EXCEPT !.lastSeen = clock]
        OBVIOUS
      <4>5. episode[a] \in Episodes
        BY <2>1, <4>2
      <4>6. /\ new.container = episode[a].container
            /\ new.received = episode[a].received /\ new.lastSeen = clock
            /\ new.ended = episode[a].ended /\ new.triggered = episode[a].triggered
        BY <4>4, <4>5 DEF Episodes
      <4>7. e \in DOMAIN episode' /\ episode'[e] = IF e = a THEN new ELSE episode[e]
        BY <1>1, <2>1, <4>2, <4>3, <4>4
      <4> QED
        BY <2>2, <4>2, <4>3, <4>6, <4>7 DEF Continued, IsOver
    <3>2. CASE active[c] = 0
      <4>1. PICK n, new : n = Len(episode) + 1 /\ new = NewEpisode(c, kind)
        OBVIOUS
      <4>2. episode' = Append(episode, new) /\ known' = known \cup {n}
        BY <2>5, <3>2, <4>1 DEF Ingest
      <4>3. new \in Episodes /\ e # n
        BY <1>1, <2>1, <2>5, <4>1 DEF NewEpisode, Episodes
      <4>4. e \in DOMAIN episode' /\ episode'[e] = episode[e]
        BY <1>1, <2>1, <4>2, <4>3
      <4> QED
        BY <2>2, <4>2, <4>3, <4>4 DEF Continued, IsOver
    <3> QED
      BY <3>1, <3>2
  <2>6. CASE Ticks
    <3>1. PICK step \in 1 .. Stall : Tick(clock + step)
      BY <2>6 DEF Ticks
    <3>2. PICK now : now = clock + step
      OBVIOUS
    <3>3. now \in Nat /\ Tick(now)
      <4>1. Stall \in Nat
        BY Constants
      <4>2. now \in Nat
        BY <2>1, <3>2, <4>1
      <4> QED
        BY <3>1, <3>2, <4>2
    <3>4. clock' = now
      BY <3>3 DEF Tick
    <3>5. /\ e \in DOMAIN episode'
          /\ episode'[e].container = episode[e].container
          /\ episode'[e].received = episode[e].received
          /\ episode'[e].lastSeen = episode[e].lastSeen
          /\ episode'[e].triggered = episode[e].triggered
          /\ episode'[e].ended = IF Resolves(e, now) THEN now ELSE episode[e].ended
      BY <1>1, <2>1, <3>3, TickedEpisodes
    <3>6. known' \subseteq known
      BY <3>3 DEF Tick
    <3>7. Resolves(e, now) => e \in known /\ episode[e].ended = 0
      <4>1. ASSUME Open(e) PROVE e \in known /\ episode[e].ended = 0
        BY <1>1, <2>1, <2>2, <4>1 DEF Open, OpenOnes
      <4> QED
        BY <4>1 DEF Resolves
    <3> QED
      BY <2>2, <3>4, <3>5, <3>6, <3>7 DEF Continued, IsOver
  <2>7. CASE PushThread
    <3>1. CASE TakeRetry \/ TakePush \/ PostSucceeds \/ PostFails
      BY <2>3, <3>1 DEF TakeRetry, TakePush, PostSucceeds, PostFails, bridgeVars
    <3>2. CASE Note
      <4>1. CASE job.push.id \notin known
        BY <2>3, <3>2, <4>1 DEF Note
      <4>2. CASE job.push.id \in known
        <5>1. PICK a : a = job.push.id
          OBVIOUS
        <5>2. PICK new : new = [episode[a] EXCEPT !.pushed = TRUE]
          OBVIOUS
        <5>3. a \in DOMAIN episode /\ episode[a] \in Episodes
          BY <2>1, <4>2, <5>1
        <5>4. episode' = [episode EXCEPT ![a] = new] /\ UNCHANGED known
          BY <3>2, <4>2, <5>1, <5>2 DEF Note
        <5>5. /\ new \in Episodes /\ new.container = episode[a].container
              /\ new.received = episode[a].received
              /\ new.lastSeen = episode[a].lastSeen /\ new.ended = episode[a].ended
              /\ new.triggered = episode[a].triggered
          BY <5>2, <5>3 DEF Episodes
        <5> QED
          BY <2>4, <5>3, <5>4, <5>5
      <4> QED
        BY <4>1, <4>2
    <3> QED
      BY <2>7, <3>1, <3>2 DEF PushThread
  <2>8. ASSUME NEW path \in Paths, NEW a \in Ids, Webhook(path, a)
        PROVE  Continued(e)
    <3>1. CASE a \in known /\ ~episode[a].triggered
      <4>1. PICK new : new = [episode[a] EXCEPT !.triggered = TRUE]
        OBVIOUS
      <4>2. a \in DOMAIN episode /\ episode[a] \in Episodes
        BY <2>1, <2>8 DEF Webhook
      <4>3. episode' = [episode EXCEPT ![a] = new] /\ UNCHANGED known
        BY <2>8, <3>1, <4>1 DEF Webhook
      <4>4. /\ new \in Episodes /\ new.container = episode[a].container
            /\ new.received = episode[a].received
            /\ new.lastSeen = episode[a].lastSeen /\ new.ended = episode[a].ended
            /\ new.triggered
        BY <4>1, <4>2 DEF Episodes
      <4> QED
        BY <2>4, <4>2, <4>3, <4>4
    <3>2. CASE ~(a \in known /\ ~episode[a].triggered)
      BY <2>3, <2>8, <3>2 DEF Webhook
    <3> QED
      BY <3>1, <3>2
  <2>9. ASSUME NEW a \in Ids, CaseWritten(a) PROVE Continued(e)
    BY <2>3, <2>9 DEF CaseWritten, bridgeVars
  <2>10. CASE Restart
    <3>1. episode' = episode /\ known' = {}
      BY <2>10 DEF Restart
    <3> QED
      BY <1>1, <2>2, <3>1 DEF Continued, IsOver
  <2>11. CASE UNCHANGED vars
    BY <2>3, <2>11 DEF vars, bridgeVars
  <2> QED
    BY <1>1, <2>5, <2>6, <2>7, <2>8, <2>9, <2>10, <2>11 DEF Next
<1>2. Inv /\ [Next]_vars => [\A e \in DOMAIN episode : Continued(e)]_vars
  BY <1>1
<1> QED
  BY <1>2, Invariance, PTL DEF Spec, EpisodesContinue
-------------------------------------------------------------------------------
(* The inductive invariant, of the database as the service sees it and as  *)
(* it was committed.                                                       *)

Case == [id : Nat, container : Containers, created : Nat, emitted : BOOLEAN,
         followUp : BOOLEAN]

Databases == [cursor : Int, open : SUBSET Case, gone : SUBSET [case : Case, at : Nat],
              first : Int, judged : [TriggerIds -> Nat]]

TypedDb(d) ==
  /\ d \in Databases
  /\ d.cursor <= Len(triggers)
  /\ \/ d.cursor = NoCursor /\ d.first = NoCursor
     \/ 0 <= d.first /\ d.first <= d.cursor

\* A case has the number of a trigger that was read, and later ones are newer.
Ordered(d) ==
  /\ \A k \in AllCases(d) : 1 <= k.id /\ k.id <= d.cursor /\ k.created <= clock
  /\ \A j, k \in AllCases(d) : /\ j.id = k.id => j = k
                               /\ j.id < k.id => j.created <= k.created
  /\ \A g \in d.gone : g.at <= clock /\ g.case.emitted

Earlier(d, k) == {j \in AllCases(d) : /\ j # k /\ j.container = k.container
                                      /\ j.id < k.id /\ KnownAt(d, j, k.created)}

FollowUpsBefore(d, k) ==
  {j \in Earlier(d, k) : j.followUp /\ k.created - j.created < Cooldown}

Apart(d) ==
  \A k \in AllCases(d) :
    /\ \A j \in Earlier(d, k) : /\ k.created - j.created >= FollowUpMin
                                /\ k.followUp \/ k.created - j.created >= Cooldown
    /\ k.followUp => Cardinality(Numbers(FollowUpsBefore(d, k))) < FollowUpMax

Judged(d) ==
  \A n \in d.first + 1 .. d.cursor :
    \E k \in AllCases(d) :
      /\ k.container = triggers[n].container
      /\ k.created <= d.judged[n] /\ d.judged[n] - k.created < Cooldown

\* Retention may have unlinked the files before a crash.
Passed(d, k) ==
  Cardinality(Numbers(AsNew(d, k))) + (Len(triggers) - k.id) >= MaxCases

Written(d) == \A k \in d.open : k.emitted => k.id \in files \/ Passed(d, k)

Facts(d) == TypedDb(d) /\ Ordered(d) /\ Apart(d) /\ Judged(d)

Sound(d) == Facts(d) /\ Written(d)

\* Only whether it was emitted changes in a case.
Same(j, k) == /\ j.id = k.id /\ j.container = k.container
              /\ j.created = k.created /\ j.followUp = k.followUp

\* What was committed is what the service sees, up to the committed cursor.
Continues(d, e) ==
  /\ e.cursor <= d.cursor
  /\ \A j \in AllCases(e) : \E k \in AllCases(d) : Same(j, k)
  /\ \A k \in AllCases(d) : k.id <= e.cursor => \E j \in AllCases(e) : Same(j, k)

World == /\ clock \in Nat
         /\ triggers \in Seq(Triggers) /\ Len(triggers) <= MaxTriggers

RcaInv == World /\ Sound(db) /\ Sound(disk) /\ Continues(db, disk)
-------------------------------------------------------------------------------
(* Data. *)

LEMMA NotMore ==
  ASSUME NEW S, NEW T, IsFiniteSet(S), T \subseteq S
  PROVE  /\ Cardinality(S) \in Nat /\ Cardinality(T) \in Nat
         /\ Cardinality(T) <= Cardinality(S)
  BY FS_Subset, FS_CardinalityType

\* Cases have different numbers, so counting them is counting their numbers.
LEMMA CountingNumbers ==
  ASSUME NEW d, TypedDb(d), Ordered(d), NEW S \in SUBSET AllCases(d)
  PROVE  /\ IsFiniteSet(S) /\ IsFiniteSet(Numbers(S))
         /\ Cardinality(S) = Cardinality(Numbers(S))
         /\ Cardinality(S) \in Nat
         /\ Numbers(S) \subseteq 1 .. d.cursor
<1>1. d.cursor \in Int /\ \A k \in AllCases(d) : k.id \in Nat
  BY DEF TypedDb, Databases, AllCases, Case
<1>2. Numbers(S) \subseteq 1 .. d.cursor
  BY <1>1 DEF Ordered, Numbers
<1>3. IsFiniteSet(Numbers(S))
  BY <1>1, <1>2, FS_Interval, FS_Subset
<1> DEFINE number == [k \in S |-> k.id]
<1>4. number \in Injection(S, Numbers(S)) /\ number \in Surjection(S, Numbers(S))
  BY DEF Ordered, Numbers, Injection, IsInjective, Surjection
<1> HIDE DEF number
<1> QED
  BY <1>2, <1>3, <1>4, FS_Injection, FS_CardinalityType

\* The newest case of a container.
LEMMA RecentExists ==
  ASSUME NEW d, TypedDb(d), Ordered(d), clock \in Nat, NEW x, NEW j \in CasesOf(d, x)
  PROVE  \E k \in CasesOf(d, x) : IsRecent(d, k) /\ j.created <= k.created
<1> DEFINE ages == {clock - k.created : k \in CasesOf(d, x)}
<1>1. \A k \in CasesOf(d, x) : k.created \in Nat /\ k.created <= clock /\ k.container = x
  BY DEF CasesOf, TypedDb, Databases, Ordered, AllCases, Case
<1>2. PICK age \in ages : \A a \in ages : age <= a
  <2>1. ages \subseteq Nat /\ ages # {}
    BY <1>1
  <2> HIDE DEF ages
  <2> QED
    BY <2>1, Least
<1>3. PICK k \in CasesOf(d, x) : age = clock - k.created
  OBVIOUS
<1>4. \A other \in CasesOf(d, x) : other.created <= k.created
  <2> SUFFICES ASSUME NEW other \in CasesOf(d, x) PROVE other.created <= k.created
    OBVIOUS
  <2>1. clock - k.created <= clock - other.created
    BY <1>2, <1>3
  <2> QED
    BY <1>1, <2>1
<1> QED
  BY <1>1, <1>4 DEF IsRecent
-------------------------------------------------------------------------------
(* A trigger is observed. *)

Covering(d, n) == {k \in CasesOf(d, triggers[n].container) :
                     IsRecent(d, k) /\ Within(k, Cooldown)}

Grouped(d, n) ==
  \E k \in Covering(d, n) : ~FollowUpAllowed(d, k, triggers[n].fresh)

LEMMA ObserveFields ==
  ASSUME World, NEW d, TypedDb(d), d.cursor # NoCursor,
         NEW n \in Nat, n = d.cursor + 1, n <= Len(triggers)
  PROVE  /\ Observe(d, n) \in Databases
         /\ Observe(d, n).cursor = n
         /\ Observe(d, n).first = d.first
         /\ Observe(d, n).gone = d.gone
         /\ Observe(d, n).judged[n] = clock
         /\ \A i \in TriggerIds : i # n => Observe(d, n).judged[i] = d.judged[i]
         /\ Grouped(d, n) => Observe(d, n).open = d.open
         /\ ~Grouped(d, n) =>
              Observe(d, n).open = d.open \cup {NewCase(n, Covering(d, n) # {})}
         /\ NewCase(n, Covering(d, n) # {}) \in Case
         /\ triggers[n] \in Triggers /\ n \in TriggerIds
<1>1. triggers[n] \in Triggers /\ n \in TriggerIds
  <2>1. d.cursor >= 0 /\ n >= 1
    BY DEF TypedDb, NoCursor, Databases
  <2>2. MaxTriggers \in Nat
    BY ServiceAssumption
  <2> QED
    BY <2>1, <2>2 DEF World, TriggerIds
<1>2. NewCase(n, Covering(d, n) # {}) \in Case
  BY <1>1 DEF NewCase, Case, World, Triggers
<1>3. Observe(d, n) =
        [d EXCEPT !.cursor = n, !.judged[n] = clock,
                  !.open = IF Grouped(d, n) THEN @
                           ELSE @ \cup {NewCase(n, Covering(d, n) # {})}]
  BY DEF Observe, Grouped, Covering
<1> DEFINE c == NewCase(n, Covering(d, n) # {})
           g == Grouped(d, n)
<1> HIDE DEF c, g
<1>4. Observe(d, n) =
        [d EXCEPT !.cursor = n, !.judged[n] = clock,
                  !.open = IF g THEN @ ELSE @ \cup {c}]
  BY <1>3 DEF c, g
<1>5. c \in Case
  BY <1>2 DEF c
<1>6. clock \in Nat /\ d \in Databases
  BY DEF World, TypedDb
<1>7. /\ Observe(d, n) \in Databases
      /\ Observe(d, n).cursor = n
      /\ Observe(d, n).first = d.first
      /\ Observe(d, n).gone = d.gone
      /\ Observe(d, n).judged = [d.judged EXCEPT ![n] = clock]
      /\ Observe(d, n).open = IF g THEN d.open ELSE d.open \cup {c}
  <2> DEFINE after == [d.judged EXCEPT ![n] = clock]
             opened == IF g THEN d.open ELSE d.open \cup {c}
  <2>1. /\ d = [cursor |-> d.cursor, open |-> d.open, gone |-> d.gone,
                first |-> d.first, judged |-> d.judged]
        /\ d.judged \in [TriggerIds -> Nat] /\ d.open \subseteq Case
        /\ d.gone \in SUBSET [case : Case, at : Nat] /\ d.first \in Int
    BY <1>6 DEF Databases
  <2>2. after \in [TriggerIds -> Nat]
    BY <1>1, <1>6, <2>1
  <2>3. opened \in SUBSET Case
    BY <1>5, <2>1
  <2>4. Observe(d, n) = [cursor |-> n, open |-> opened, gone |-> d.gone,
                         first |-> d.first, judged |-> after]
    BY <1>4, <2>1
  <2> HIDE DEF after, opened
  <2>5. Observe(d, n) \in Databases
    BY <2>1, <2>2, <2>3, <2>4 DEF Databases
  <2>6. /\ Observe(d, n).cursor = n
        /\ Observe(d, n).first = d.first
        /\ Observe(d, n).gone = d.gone
        /\ Observe(d, n).judged = after
        /\ Observe(d, n).open = opened
    BY <2>4
  <2> QED
    BY <2>5, <2>6 DEF after, opened
<1>8. d.judged \in [TriggerIds -> Nat]
  BY <1>6 DEF Databases
<1>9. /\ Observe(d, n).judged[n] = clock
      /\ \A i \in TriggerIds : i # n => Observe(d, n).judged[i] = d.judged[i]
  BY <1>1, <1>7, <1>8
<1> QED
  BY <1>1, <1>2, <1>7, <1>9 DEF c, g

\* What the observation of trigger n leaves alone, and what it notes.
NotedRead(d, n, after) ==
  /\ after \in Databases
  /\ after.cursor = n /\ after.first = d.first /\ after.gone = d.gone
  /\ after.judged[n] = clock
  /\ \A i \in TriggerIds : i # n => after.judged[i] = d.judged[i]

Reading(d, n) ==
  /\ World /\ Sound(d) /\ d.cursor # NoCursor
  /\ n \in Nat /\ n = d.cursor + 1 /\ n <= Len(triggers)

\* A case of the container is recent, and no follow-up is allowed.
LEMMA ObserveGrouped ==
  ASSUME NEW d, NEW n, Reading(d, n), NEW after, NotedRead(d, n, after),
         after.open = d.open, NEW k \in Covering(d, n),
         NEW e, TypedDb(e), Continues(d, e)
  PROVE  Sound(after) /\ Continues(after, e)
<1> USE DEF Reading, Sound, Facts
<1>1. AllCases(after) = AllCases(d)
  BY DEF NotedRead, AllCases
<1>2. d.cursor \in Int /\ d.first \in Int /\ 0 <= d.first /\ d.first <= d.cursor
  BY DEF TypedDb, Databases, NoCursor
<1>10. n \in Nat /\ TriggerIds = 1 .. MaxTriggers /\ MaxTriggers \in Nat /\ n <= MaxTriggers
  <2>1. Len(triggers) \in Nat /\ MaxTriggers \in Nat
    BY ServiceAssumption DEF World
  <2> QED
    BY <2>1 DEF World, TriggerIds
<1>3. \A j, t : KnownAt(after, j, t) <=> KnownAt(d, j, t)
  BY DEF NotedRead, KnownAt
<1>4. TypedDb(after)
  BY <1>2 DEF TypedDb, NotedRead
<1>5. Ordered(after)
  <2>1. \A c \in AllCases(d) : c.id \in Nat
    BY DEF TypedDb, Databases, AllCases, Case
  <2> QED
    BY <1>1, <1>2, <2>1 DEF Ordered, NotedRead
<1>6. Apart(after)
  <2>1. \A c : Earlier(after, c) = Earlier(d, c)
    BY <1>1, <1>3 DEF Earlier
  <2> QED
    BY <1>1, <2>1 DEF Apart, FollowUpsBefore
<1>7. Judged(after)
  <2>1. /\ k \in AllCases(d) /\ k.container = triggers[n].container
        /\ k.created <= clock /\ clock - k.created < Cooldown
    BY DEF Covering, CasesOf, Within, AllCases, Ordered
  <2> SUFFICES ASSUME NEW i \in d.first + 1 .. n
               PROVE  \E c \in AllCases(d) :
                        /\ c.container = triggers[i].container
                        /\ c.created <= after.judged[i]
                        /\ after.judged[i] - c.created < Cooldown
    BY <1>1 DEF Judged, NotedRead
  <2>2. CASE i = n
    BY <2>1, <2>2 DEF NotedRead
  <2>3. CASE i # n
    <3>1. i \in d.first + 1 .. d.cursor /\ i \in TriggerIds
      BY <1>2, <1>10, <2>3
    <3> QED
      BY <2>3, <3>1 DEF NotedRead, Judged
  <2> QED
    BY <2>2, <2>3
<1>8. Written(after)
  BY <1>1 DEF Written, Passed, AsNew
<1>9. Continues(after, e)
  <2>1. e.cursor <= d.cursor => e.cursor <= n
    BY <1>2 DEF TypedDb, Databases
  <2> QED
    BY <1>1, <2>1 DEF Continues, NotedRead
<1> QED
  BY <1>4, <1>5, <1>6, <1>7, <1>8, <1>9

\* A case is opened: the first of its container, after a cooldown, or as a
\* follow-up.
LEMMA ObserveNew ==
  ASSUME NEW d, NEW n, Reading(d, n), NEW after, NotedRead(d, n, after),
         ~Grouped(d, n), NEW c \in Case, c = NewCase(n, Covering(d, n) # {}),
         after.open = d.open \cup {c},
         NEW e, TypedDb(e), Continues(d, e)
  PROVE  Sound(after) /\ Continues(after, e)
<1> USE DEF Reading, Sound, Facts
<1>1. AllCases(after) = AllCases(d) \cup {c}
  BY DEF NotedRead, AllCases
<1>2. /\ d.cursor \in Int /\ d.first \in Int /\ 0 <= d.first /\ d.first <= d.cursor
      /\ clock \in Nat /\ Len(triggers) \in Nat
  BY DEF TypedDb, Databases, NoCursor, World
<1>3. n \in Nat /\ TriggerIds = 1 .. MaxTriggers /\ MaxTriggers \in Nat /\ n <= MaxTriggers
  BY <1>2, ServiceAssumption DEF World, TriggerIds
<1>4. /\ c.id = n /\ c.container = triggers[n].container /\ c.created = clock
      /\ c.emitted = FALSE /\ c.followUp = (Covering(d, n) # {})
  BY DEF NewCase
<1>5. \A k \in AllCases(d) : /\ k.id \in Nat /\ k.id < n /\ k.created \in Nat
                             /\ k.created <= clock /\ k # c /\ k.id <= d.cursor
  BY <1>2, <1>4 DEF TypedDb, Databases, AllCases, Case, Ordered
<1>6. \A t : \A j \in AllCases(d) : KnownAt(after, j, t) <=> KnownAt(d, j, t)
  BY <1>5 DEF NotedRead, KnownAt, AllCases
<1>7. TypedDb(after)
  BY <1>2 DEF TypedDb, NotedRead
<1>8. Ordered(after)
  BY <1>1, <1>2, <1>4, <1>5 DEF Ordered, NotedRead
<1>9. \A k \in AllCases(d) : Earlier(after, k) = Earlier(d, k)
  BY <1>1, <1>4, <1>5, <1>6 DEF Earlier
<1>10. Earlier(after, c) \subseteq CasesOf(d, c.container)
  <2> SUFFICES ASSUME NEW j \in Earlier(after, c) PROVE j \in CasesOf(d, c.container)
    OBVIOUS
  <2>1. j \in AllCases(d) /\ KnownAt(d, j, clock) /\ j.container = c.container
    BY <1>1, <1>4, <1>6 DEF Earlier
  <2>2. \A g \in d.gone : g.at \in Nat /\ g.at <= clock
    BY DEF TypedDb, Databases, Ordered
  <2>3. \A g \in d.gone : ~(g.at > clock)
    BY <1>2, <2>2
  <2> QED
    BY <2>1, <2>3 DEF KnownAt, CasesOf
<1>11. \A j \in Earlier(after, c) : /\ c.created - j.created >= FollowUpMin
                                    /\ c.followUp \/ c.created - j.created >= Cooldown
  <2> SUFFICES ASSUME NEW j \in Earlier(after, c)
               PROVE  /\ clock - j.created >= FollowUpMin
                      /\ c.followUp \/ clock - j.created >= Cooldown
    BY <1>4
  <2>1. j \in CasesOf(d, c.container) /\ j \in AllCases(d)
    BY <1>10 DEF CasesOf, AllCases
  <2>2. PICK k \in CasesOf(d, c.container) : IsRecent(d, k) /\ j.created <= k.created
    BY <1>2, <2>1, RecentExists
  <2>3. /\ k \in AllCases(d) /\ k.created \in Nat /\ j.created \in Nat
        /\ FollowUpMin \in Nat /\ Cooldown \in Nat /\ FollowUpMin <= Cooldown
    BY <1>5, <2>1, <2>2, ServiceAssumption DEF CasesOf, AllCases
  <2>4. CASE Within(k, Cooldown)
    <3>1. k \in Covering(d, n)
      BY <1>4, <2>2, <2>4 DEF Covering
    <3>2. c.followUp /\ ~Within(k, FollowUpMin)
      BY <1>4, <3>1 DEF Grouped, FollowUpAllowed
    <3> QED
      BY <1>2, <2>2, <2>3, <3>2 DEF Within
  <2>5. CASE ~Within(k, Cooldown)
    BY <1>2, <2>2, <2>3, <2>5 DEF Within
  <2> QED
    BY <2>4, <2>5
<1>12. c.followUp => Cardinality(Numbers(FollowUpsBefore(after, c))) < FollowUpMax
  <2> SUFFICES ASSUME c.followUp
               PROVE  Cardinality(Numbers(FollowUpsBefore(after, c))) < FollowUpMax
    OBVIOUS
  <2> DEFINE seen == FollowUps(d, c.container)
  <2>1. PICK k \in Covering(d, n) : TRUE
    BY <1>4
  <2>2. Cardinality(seen) < FollowUpMax
    BY <1>4, <2>1 DEF Grouped, FollowUpAllowed, Covering, CasesOf
  <2>3. Numbers(FollowUpsBefore(after, c)) \subseteq Numbers(seen)
    BY <1>4, <1>10 DEF FollowUpsBefore, FollowUps, Within, Numbers
  <2>4. seen \in SUBSET AllCases(d)
    BY DEF FollowUps, CasesOf, AllCases
  <2> HIDE DEF seen
  <2>5. /\ IsFiniteSet(Numbers(seen)) /\ Cardinality(seen) = Cardinality(Numbers(seen))
        /\ Cardinality(seen) \in Nat
    BY <2>4, CountingNumbers
  <2>6. /\ Cardinality(Numbers(FollowUpsBefore(after, c))) \in Nat
        /\ Cardinality(Numbers(FollowUpsBefore(after, c))) <= Cardinality(Numbers(seen))
    BY <2>3, <2>5, NotMore
  <2>7. FollowUpMax \in Nat
    BY ServiceAssumption
  <2> QED
    BY <2>2, <2>5, <2>6, <2>7
<1>13. Apart(after)
  BY <1>1, <1>9, <1>11, <1>12 DEF Apart, FollowUpsBefore
<1>14. Judged(after)
  <2> SUFFICES ASSUME NEW i \in d.first + 1 .. n
               PROVE  \E k \in AllCases(after) :
                        /\ k.container = triggers[i].container
                        /\ k.created <= after.judged[i]
                        /\ after.judged[i] - k.created < Cooldown
    BY DEF Judged, NotedRead
  <2>1. CASE i = n
    <3>1. Cooldown \in Nat /\ Cooldown > 0
      BY ServiceAssumption
    <3>2. after.judged[i] = clock
      BY <2>1 DEF NotedRead
    <3>3. clock <= clock /\ clock - clock < Cooldown
      BY <1>2, <3>1
    <3> QED
      BY <1>1, <1>4, <2>1, <3>2, <3>3
  <2>2. CASE i # n
    <3>1. i \in d.first + 1 .. d.cursor /\ i \in TriggerIds
      BY <1>2, <1>3, <2>2
    <3> QED
      BY <1>1, <2>2, <3>1 DEF NotedRead, Judged
  <2> QED
    BY <2>1, <2>2
<1>15. Written(after)
  <2>1. ASSUME NEW k \in d.open PROVE Passed(after, k) <=> Passed(d, k)
    <3>1. AsNew(after, k) = AsNew(d, k)
      BY <1>1, <1>4, <1>5 DEF AsNew, AllCases
    <3> QED
      BY <3>1 DEF Passed
  <2> QED
    BY <1>4, <2>1 DEF Written
<1>16. Continues(after, e)
  <2>1. e.cursor \in Int /\ e.cursor <= d.cursor
    BY DEF TypedDb, Databases, Continues
  <2>2. e.cursor <= n /\ ~(c.id <= e.cursor)
    BY <1>2, <1>4, <2>1
  <2> QED
    BY <1>1, <2>2 DEF Continues, NotedRead
<1> QED
  BY <1>7, <1>8, <1>13, <1>14, <1>15, <1>16

\* The trigger after the cursor is observed.
LEMMA ObserveSound ==
  ASSUME NEW d, NEW n, Reading(d, n), NEW e, TypedDb(e), Continues(d, e)
  PROVE  /\ Sound(Observe(d, n)) /\ Continues(Observe(d, n), e)
         /\ Observe(d, n).cursor = n
<1> DEFINE c == NewCase(n, Covering(d, n) # {})
           after == Observe(d, n)
<1>1. /\ NotedRead(d, n, after) /\ c \in Case
      /\ Grouped(d, n) => after.open = d.open
      /\ ~Grouped(d, n) => after.open = d.open \cup {c}
  BY ObserveFields DEF NotedRead, Reading, Sound, Facts
<1> HIDE DEF after
<1>2. CASE Grouped(d, n)
  <2>1. PICK k \in Covering(d, n) : TRUE
    BY <1>2 DEF Grouped
  <2> QED
    BY <1>1, <1>2, <2>1, ObserveGrouped DEF NotedRead, after
<1>3. CASE ~Grouped(d, n)
  BY <1>1, <1>3, ObserveNew DEF NotedRead, after
<1> QED
  BY <1>2, <1>3

\* The history of the reading: the database after each trigger.
IsReading(f, m) ==
  f = [n \in db.cursor .. m |-> IF n = db.cursor THEN db ELSE Observe(f[n - 1], n)]

LEMMA ReadingExists ==
  ASSUME World, db.cursor \in Nat, db.cursor <= Len(triggers)
  PROVE  \E f : IsReading(f, Len(triggers))
<1> DEFINE S == {m \in db.cursor .. Len(triggers) : \E f : IsReading(f, m)}
<1>1. Len(triggers) \in Nat
  BY DEF World
<1>2. db.cursor \in S
  <2> DEFINE f == [n \in db.cursor .. db.cursor |-> db]
  <2>1. IsReading(f, db.cursor)
    BY DEF IsReading
  <2> QED
    BY <1>1, <2>1
<1>3. ASSUME NEW m \in db.cursor .. Len(triggers), m < Len(triggers), m \in S
      PROVE  m + 1 \in S
  <2>1. PICK f : IsReading(f, m)
    BY <1>3
  <2> DEFINE g == [n \in db.cursor .. m + 1 |->
                     IF n <= m THEN f[n] ELSE Observe(f[m], n)]
  <2>2. ASSUME NEW n \in db.cursor .. m + 1
        PROVE  g[n] = IF n = db.cursor THEN db ELSE Observe(g[n - 1], n)
    <3>1. m \in Nat /\ n \in Nat
      BY <1>1
    <3>2. CASE n = db.cursor
      BY <2>1, <3>1, <3>2 DEF IsReading
    <3>3. CASE n # db.cursor /\ n <= m
      <4>1. n \in db.cursor .. m /\ n - 1 \in db.cursor .. m /\ n - 1 \in db.cursor .. m + 1
        BY <3>1, <3>3
      <4>2. f[n] = Observe(f[n - 1], n)
        BY <2>1, <3>3, <4>1 DEF IsReading
      <4>3. g[n] = f[n] /\ g[n - 1] = f[n - 1]
        BY <4>1
      <4> HIDE DEF g
      <4> QED
        BY <3>3, <4>2, <4>3
    <3>4. CASE n # db.cursor /\ ~(n <= m)
      <4>1. n = m + 1 /\ n - 1 = m /\ m \in db.cursor .. m + 1
        BY <3>1, <3>4
      <4>2. g[n] = Observe(f[m], n) /\ g[m] = f[m]
        BY <3>4, <4>1
      <4> HIDE DEF g
      <4> QED
        BY <3>4, <4>1, <4>2
    <3> QED
      BY <3>2, <3>3, <3>4
  <2>3. g = [n \in db.cursor .. m + 1 |-> g[n]]
    OBVIOUS
  <2> HIDE DEF g
  <2>4. IsReading(g, m + 1)
    BY <2>2, <2>3 DEF IsReading
  <2> QED
    BY <1>1, <1>3, <2>4
<1> HIDE DEF S
<1>4. Len(triggers) \in S
  <2>1. \A i \in db.cursor .. Len(triggers) : i \in S
    BY <1>1, <1>2, <1>3, Upwards
  <2> QED
    BY <1>1, <2>1
<1> QED
  BY <1>4 DEF S

LEMMA AllObservedSound ==
  ASSUME World, Sound(db), db.cursor # NoCursor, TypedDb(disk), Continues(db, disk)
  PROVE  Sound(AllObserved) /\ Continues(AllObserved, disk)
<1>1. /\ Len(triggers) \in Nat /\ db.cursor \in Nat /\ db.cursor <= Len(triggers)
  BY DEF World, Sound, Facts, TypedDb, Databases, NoCursor
<1>2. PICK f : IsReading(f, Len(triggers)) /\ AllObserved = f[Len(triggers)]
  BY <1>1, ReadingExists DEF IsReading, AllObserved
<1> DEFINE Good(n) == Sound(f[n]) /\ Continues(f[n], disk) /\ f[n].cursor = n
           S == {n \in db.cursor .. Len(triggers) : Good(n)}
<1>3. db.cursor \in S
  <2>1. f[db.cursor] = db
    BY <1>1, <1>2 DEF IsReading
  <2> QED
    BY <1>1, <2>1
<1>4. ASSUME NEW n \in db.cursor .. Len(triggers), n < Len(triggers), n \in S
      PROVE  n + 1 \in S
  <2>1. f[n + 1] = Observe(f[n], n + 1)
    <3>1. n + 1 \in db.cursor .. Len(triggers) /\ n + 1 # db.cursor /\ (n + 1) - 1 = n
      BY <1>1, <1>4
    <3>2. f[n + 1] = Observe(f[(n + 1) - 1], n + 1)
      BY <1>2, <3>1 DEF IsReading
    <3> QED
      BY <3>1, <3>2
  <2>2. Reading(f[n], n + 1)
    BY <1>1, <1>4 DEF Reading, NoCursor
  <2>3. Good(n + 1)
    BY <1>4, <2>1, <2>2, ObserveSound
  <2> QED
    BY <1>1, <1>4, <2>3
<1> HIDE DEF S
<1>5. Len(triggers) \in S
  <2>1. \A i \in db.cursor .. Len(triggers) : i \in S
    BY <1>1, <1>3, <1>4, Upwards
  <2> QED
    BY <1>1, <2>1
<1> QED
  BY <1>2, <1>5 DEF S
-------------------------------------------------------------------------------
(* The same cases, emitted or deleted. *)

Kept(d, after) ==
  /\ after \in Databases
  /\ after.cursor = d.cursor /\ after.first = d.first /\ after.judged = d.judged
  /\ \A k \in AllCases(after) : \E j \in AllCases(d) :
       /\ Same(j, k)
       /\ \A t \in Nat : t <= clock /\ KnownAt(after, k, t) => KnownAt(d, j, t)
  /\ \A j \in AllCases(d) : \E k \in AllCases(after) : Same(j, k)
  /\ \A j, k \in AllCases(after) : j.id = k.id => j = k
  /\ \A g \in after.gone : g.at <= clock /\ g.case.emitted

LEMMA KeptFacts ==
  ASSUME World, NEW d, Facts(d), NEW after, Kept(d, after)
  PROVE  /\ Facts(after)
         /\ \A e : Continues(d, e) => Continues(after, e)
         /\ \A j \in AllCases(d), k \in AllCases(after) :
              j.id = k.id => Same(j, k) /\ Numbers(AsNew(after, k)) = Numbers(AsNew(d, j))
<1> USE DEF Facts
<1>0. /\ \A k \in AllCases(after) : k.id \in Nat /\ k.created \in Nat
      /\ \A k \in AllCases(d) : k.id \in Nat /\ k.created \in Nat
  BY DEF Kept, TypedDb, Databases, AllCases, Case
<1>1. TypedDb(after)
  BY DEF TypedDb, Kept
<1>2. ASSUME NEW j \in AllCases(d), NEW k \in AllCases(after), j.id = k.id
      PROVE  /\ Same(j, k)
             /\ \A t \in Nat : t <= clock /\ KnownAt(after, k, t) => KnownAt(d, j, t)
  <2>1. PICK i \in AllCases(d) :
          /\ Same(i, k)
          /\ \A t \in Nat : t <= clock /\ KnownAt(after, k, t) => KnownAt(d, i, t)
    BY DEF Kept
  <2>2. i = j
    BY <1>2, <2>1 DEF Ordered, Same
  <2> QED
    BY <2>1, <2>2
<1>3. Ordered(after)
  <2>1. \A k \in AllCases(after) : 1 <= k.id /\ k.id <= after.cursor /\ k.created <= clock
    BY DEF Kept, Same, Ordered
  <2>2. ASSUME NEW j \in AllCases(after), NEW k \in AllCases(after), j.id < k.id
        PROVE  j.created <= k.created
    <3>1. PICK i \in AllCases(d) : Same(i, j)
      BY DEF Kept
    <3>2. PICK l \in AllCases(d) : Same(l, k)
      BY DEF Kept
    <3> QED
      BY <2>2, <3>1, <3>2 DEF Same, Ordered
  <2> QED
    BY <2>1, <2>2 DEF Ordered, Kept
<1>4. ASSUME NEW j \in AllCases(d), NEW k \in AllCases(after), j.id = k.id,
             NEW i \in Earlier(after, k)
      PROVE  \E h \in Earlier(d, j) : Same(h, i)
  <2>1. PICK h \in AllCases(d) :
          /\ Same(h, i)
          /\ \A t \in Nat : t <= clock /\ KnownAt(after, i, t) => KnownAt(d, h, t)
    BY DEF Kept, Earlier
  <2>2. Same(j, k)
    BY <1>2, <1>4
  <2>3. k.created \in Nat /\ k.created <= clock
    BY <1>0, <1>3 DEF Ordered
  <2>4. h.id # j.id /\ h.id < j.id /\ h.container = j.container
    BY <1>0, <1>4, <2>1, <2>2 DEF Earlier, Same
  <2>5. KnownAt(d, h, j.created)
    BY <2>1, <2>2, <2>3 DEF Earlier, Same
  <2> QED
    BY <2>1, <2>4, <2>5 DEF Earlier
<1>5. Apart(after)
  <2> SUFFICES ASSUME NEW k \in AllCases(after)
               PROVE  /\ \A i \in Earlier(after, k) :
                           /\ k.created - i.created >= FollowUpMin
                           /\ k.followUp \/ k.created - i.created >= Cooldown
                      /\ k.followUp =>
                           Cardinality(Numbers(FollowUpsBefore(after, k))) < FollowUpMax
    BY DEF Apart
  <2>1. PICK j \in AllCases(d) : Same(j, k)
    BY DEF Kept
  <2>2. \A i \in Earlier(after, k) : \E h \in Earlier(d, j) : Same(h, i)
    BY <1>4, <2>1 DEF Same
  <2>3. ASSUME NEW i \in Earlier(after, k)
        PROVE  /\ k.created - i.created >= FollowUpMin
               /\ k.followUp \/ k.created - i.created >= Cooldown
    <3>1. PICK h \in Earlier(d, j) : Same(h, i)
      BY <2>2
    <3> QED
      BY <2>1, <3>1 DEF Apart, Same
  <2>4. ASSUME k.followUp
        PROVE  Cardinality(Numbers(FollowUpsBefore(after, k))) < FollowUpMax
    <3>1. Cardinality(Numbers(FollowUpsBefore(d, j))) < FollowUpMax
      BY <2>1, <2>4 DEF Apart, Same
    <3>2. Numbers(FollowUpsBefore(after, k)) \subseteq Numbers(FollowUpsBefore(d, j))
      BY <2>1, <2>2 DEF FollowUpsBefore, Numbers, Same
    <3>3. FollowUpsBefore(d, j) \in SUBSET AllCases(d)
      BY DEF FollowUpsBefore, Earlier
    <3>4. IsFiniteSet(Numbers(FollowUpsBefore(d, j)))
      BY <3>3, CountingNumbers
    <3>5. FollowUpMax \in Nat
      BY ServiceAssumption
    <3> QED
      BY <3>1, <3>2, <3>4, <3>5, NotMore
  <2> QED
    BY <2>3, <2>4
<1>6. Judged(after)
  <2> SUFFICES ASSUME NEW n \in d.first + 1 .. d.cursor
               PROVE  \E k \in AllCases(after) :
                        /\ k.container = triggers[n].container
                        /\ k.created <= d.judged[n]
                        /\ d.judged[n] - k.created < Cooldown
    BY DEF Judged, Kept
  <2>1. PICK j \in AllCases(d) : /\ j.container = triggers[n].container
                                 /\ j.created <= d.judged[n]
                                 /\ d.judged[n] - j.created < Cooldown
    BY DEF Judged
  <2>2. PICK k \in AllCases(after) : Same(j, k)
    BY DEF Kept
  <2> QED
    BY <2>1, <2>2 DEF Same
<1>7. ASSUME NEW e, Continues(d, e)
      PROVE  Continues(after, e)
  <2>1. \A j \in AllCases(e) : \E k \in AllCases(after) : Same(j, k)
    BY <1>7 DEF Continues, Kept, Same
  <2>2. \A k \in AllCases(after) : k.id <= e.cursor => \E j \in AllCases(e) : Same(j, k)
    <3> SUFFICES ASSUME NEW k \in AllCases(after), k.id <= e.cursor
                 PROVE  \E j \in AllCases(e) : Same(j, k)
      OBVIOUS
    <3>1. PICK i \in AllCases(d) : Same(i, k)
      BY DEF Kept
    <3>2. PICK j \in AllCases(e) : Same(j, i)
      BY <1>7, <3>1 DEF Continues, Same
    <3> QED
      BY <3>1, <3>2 DEF Same
  <2> QED
    BY <1>7, <2>1, <2>2 DEF Continues, Kept
<1>8. ASSUME NEW j \in AllCases(d), NEW k \in AllCases(after), j.id = k.id
      PROVE  Numbers(AsNew(after, k)) = Numbers(AsNew(d, j))
  <2>1. Same(j, k)
    BY <1>2, <1>8
  <2>2. \A i \in AsNew(after, k) : \E h \in AsNew(d, j) : h.id = i.id
    BY <2>1 DEF Kept, AsNew, Same
  <2>3. \A h \in AsNew(d, j) : \E i \in AsNew(after, k) : h.id = i.id
    BY <2>1 DEF Kept, AsNew, Same
  <2> QED
    BY <2>2, <2>3 DEF Numbers
<1> QED
  BY <1>1, <1>2, <1>3, <1>5, <1>6, <1>7, <1>8
-------------------------------------------------------------------------------
(* The steps. *)

LEMMA EmitKept ==
  ASSUME World, Facts(db), NEW done \in SUBSET Ready, NEW after,
         after = [db EXCEPT !.open = (@ \ done) \cup
                                     {[k EXCEPT !.emitted = TRUE] : k \in done}]
  PROVE  /\ Kept(db, after)
         /\ \A k \in after.open : k.emitted => k.id \in Numbers(done) \/ k \in db.open
<1> USE DEF Facts
<1> DEFINE marked == {[k EXCEPT !.emitted = TRUE] : k \in done}
<1>1. db \in Databases /\ db.open \subseteq Case /\ done \subseteq db.open
  BY DEF TypedDb, Databases, Ready
<1>2. \A k \in done : /\ [k EXCEPT !.emitted = TRUE] \in Case
                      /\ Same(k, [k EXCEPT !.emitted = TRUE])
                      /\ [k EXCEPT !.emitted = TRUE].emitted
                      /\ ~k.emitted
  BY <1>1 DEF Case, Same, Ready
<1>3. marked \subseteq Case
  BY <1>2
<1>4. /\ after.cursor = db.cursor /\ after.first = db.first
      /\ after.judged = db.judged /\ after.gone = db.gone
      /\ after.open = (db.open \ done) \cup marked
      /\ after \in Databases
  <2> DEFINE opened == (db.open \ done) \cup marked
  <2>1. opened \in SUBSET Case
    BY <1>1, <1>3
  <2>2. after = [db EXCEPT !.open = opened]
    OBVIOUS
  <2> HIDE DEF opened
  <2>3. after \in Databases /\ after.open = opened
    BY <1>1, <2>1, <2>2 DEF Databases
  <2>4. /\ after.cursor = db.cursor /\ after.first = db.first
        /\ after.judged = db.judged /\ after.gone = db.gone
    BY <1>1, <2>2 DEF Databases
  <2> QED
    BY <2>3, <2>4 DEF opened
<1>5. \A g \in db.gone : g.case \in AllCases(db) /\ g.case.emitted /\ g.at <= clock
  BY DEF AllCases, Ordered
<1> HIDE DEF marked
<1>6. \A k \in AllCases(after) :
        \/ k \in AllCases(db) /\ k \notin done
        \/ k \in marked
  BY <1>2, <1>4, <1>5 DEF AllCases
<1>7. \A k \in marked : \E j \in done : Same(j, k) /\ k.emitted
  BY <1>2 DEF marked
<1>8. \A j \in done : \E k \in marked : Same(j, k)
  BY <1>2 DEF marked
<1>9. ASSUME NEW k \in AllCases(after)
      PROVE  \E j \in AllCases(db) :
               /\ Same(j, k)
               /\ \A t \in Nat : t <= clock /\ KnownAt(after, k, t) => KnownAt(db, j, t)
  <2>1. CASE k \in AllCases(db) /\ k \notin done
    <3>1. \A t : KnownAt(after, k, t) => KnownAt(db, k, t)
      <4>1. k \in after.open => k \in db.open
        <5>1. ASSUME k \in marked PROVE k \in db.open
          <6>1. PICK j \in done : Same(j, k) /\ k.emitted
            BY <1>7, <5>1
          <6>2. j = k
            BY <1>1, <2>1, <6>1 DEF Same, Ordered, AllCases
          <6> QED
            BY <2>1, <6>2
        <5> QED
          BY <1>4, <5>1
      <4> QED
        BY <1>4, <4>1 DEF KnownAt
    <3> QED
      BY <2>1, <3>1 DEF Same
  <2>2. CASE k \in marked
    <3>1. PICK j \in done : Same(j, k)
      BY <1>7, <2>2
    <3>2. j \in db.open
      BY <1>1, <3>1
    <3> QED
      BY <3>1, <3>2 DEF AllCases, KnownAt
  <2> QED
    BY <1>6, <2>1, <2>2
<1>10. \A j \in AllCases(db) : \E k \in AllCases(after) : Same(j, k)
  <2>1. \A j \in done : \E k \in AllCases(after) : Same(j, k)
    BY <1>4, <1>8 DEF AllCases
  <2>2. \A j \in AllCases(db) : j \notin done => j \in AllCases(after)
    BY <1>4 DEF AllCases
  <2> QED
    BY <2>1, <2>2 DEF Same
<1>11. ASSUME NEW j \in AllCases(after), NEW k \in AllCases(after), j.id = k.id
       PROVE  j = k
  <2>1. \A c \in marked : c \in Case /\ c.emitted = TRUE
    BY <1>2 DEF marked
  <2>2. CASE j \in marked /\ k \in marked
    <3>1. PICK i \in done : Same(i, j)
      BY <1>7, <2>2
    <3>2. PICK h \in done : Same(h, k)
      BY <1>7, <2>2
    <3>3. Same(j, k)
      BY <1>1, <1>11, <3>1, <3>2 DEF Same, Ordered, AllCases
    <3> QED
      BY <2>1, <2>2, <3>3 DEF Same, Case
  <2>3. ASSUME NEW c \in marked, NEW b \in AllCases(db), b \notin done PROVE c.id # b.id
    <3>1. PICK i \in done : Same(i, c)
      BY <1>7
    <3> QED
      BY <1>1, <2>3, <3>1 DEF Same, Ordered, AllCases
  <2> QED
    BY <1>6, <1>11, <2>2, <2>3 DEF Ordered
<1>12. Kept(db, after)
  BY <1>4, <1>5, <1>9, <1>10, <1>11 DEF Kept
<1>13. \A k \in marked : k.id \in Numbers(done)
  BY <1>7 DEF Same, Numbers
<1> QED
  BY <1>4, <1>12, <1>13

LEMMA WithoutKept ==
  ASSUME World, Facts(db), NEW expired \in SUBSET Emitted
  PROVE  /\ Kept(db, Without(expired))
         /\ Without(expired).open = db.open \ expired
<1> USE DEF Facts
<1> DEFINE after == Without(expired)
           deleted == {[case |-> k, at |-> clock] : k \in expired}
<1>1. /\ db \in Databases /\ expired \subseteq db.open /\ db.open \subseteq Case
      /\ clock \in Nat /\ \A k \in expired : k.emitted
  BY DEF TypedDb, Databases, Emitted, World
<1>2. deleted \subseteq [case : Case, at : Nat]
  BY <1>1
<1>3. /\ \A g \in deleted : g.case \in expired /\ g.at = clock
      /\ \A k \in expired : \E g \in deleted : g.case = k
  <2>1. ASSUME NEW k \in expired PROVE \E g \in deleted : g.case = k
    <3>1. [case |-> k, at |-> clock] \in deleted
      OBVIOUS
    <3>2. [case |-> k, at |-> clock].case = k
      OBVIOUS
    <3> HIDE DEF deleted
    <3> QED
      BY <3>1, <3>2
  <2>2. \A g \in deleted : g.case \in expired /\ g.at = clock
    OBVIOUS
  <2> QED
    BY <2>1, <2>2
<1>4. /\ after.cursor = db.cursor /\ after.first = db.first
      /\ after.judged = db.judged /\ after.gone = db.gone \cup deleted
      /\ after.open = db.open \ expired
      /\ after \in Databases
  <2> DEFINE left == db.open \ expired
             away == db.gone \cup deleted
  <2>1. left \in SUBSET Case /\ away \in SUBSET [case : Case, at : Nat]
    BY <1>1, <1>2 DEF Databases
  <2>2. after = [db EXCEPT !.open = left, !.gone = away]
    BY DEF Without
  <2> HIDE DEF left, away, after
  <2>3. after \in Databases /\ after.open = left /\ after.gone = away
    BY <1>1, <2>1, <2>2 DEF Databases
  <2>4. /\ after.cursor = db.cursor /\ after.first = db.first
        /\ after.judged = db.judged
    BY <1>1, <2>2 DEF Databases
  <2> QED
    BY <2>3, <2>4 DEF left, away
<1> HIDE DEF after, deleted
<1>5. AllCases(after) = AllCases(db)
  BY <1>1, <1>3, <1>4 DEF AllCases
<1>6. ASSUME NEW k, NEW t \in Nat, t <= clock, KnownAt(after, k, t)
      PROVE  KnownAt(db, k, t)
  BY <1>1, <1>3, <1>4, <1>6 DEF KnownAt
<1>7. \A k : Same(k, k)
  BY DEF Same
<1>8. \A g \in after.gone : g.at <= clock /\ g.case.emitted
  BY <1>1, <1>3, <1>4 DEF Ordered
<1>9. \A j, k \in AllCases(after) : j.id = k.id => j = k
  BY <1>5 DEF Ordered
<1> QED
  BY <1>4, <1>5, <1>6, <1>7, <1>8, <1>9 DEF Kept, after

\* A crash in maintenance(): the files that are gone belong to cases that as
\* many others have passed as retention keeps.
LEMMA UnlinkedArePassed ==
  ASSUME World, Facts(db), Facts(disk), Continues(db, disk), NEW expired \in Expired,
         NEW k \in disk.open, k.id \in Numbers(expired)
  PROVE  Passed(disk, k)
<1> USE DEF Facts
<1>1. PICK kept \in Newest(Emitted) : expired = Emitted \ kept
  BY DEF Expired
<1>2. Emitted \subseteq AllCases(db) /\ kept \subseteq Emitted
  BY <1>1 DEF Emitted, AllCases, Newest
<1>3. PICK c \in expired : c.id = k.id
  BY DEF Numbers
<1>4. c \in Emitted /\ c \notin kept /\ c \in AllCases(db) /\ k \in AllCases(disk)
  BY <1>1, <1>2, <1>3 DEF AllCases
<1>5. Same(k, c)
  <2>1. PICK b \in AllCases(db) : Same(k, b)
    BY <1>4 DEF Continues
  <2>2. b = c
    BY <1>3, <1>4, <2>1 DEF Same, Ordered
  <2> QED
    BY <2>1, <2>2
<1>6. /\ IsFiniteSet(Emitted) /\ IsFiniteSet(kept) /\ IsFiniteSet(Numbers(kept))
      /\ Cardinality(kept) = Cardinality(Numbers(kept))
      /\ Cardinality(kept) \in Nat /\ Cardinality(Emitted) \in Nat
  BY <1>2, CountingNumbers
<1>7. MaxCases \in Nat
  BY ServiceAssumption
<1>8. Cardinality(kept) = MaxCases
  <2>1. Cardinality(kept) # Cardinality(Emitted)
    BY <1>2, <1>4, <1>6, FS_Subset
  <2> QED
    BY <1>1, <1>6, <1>7, <2>1 DEF Newest
<1>9. /\ k.id \in Nat /\ Len(triggers) \in Nat
      /\ k.id <= disk.cursor /\ disk.cursor \in Int
      /\ \A j \in AllCases(db) : j.id \in Nat /\ j.id <= Len(triggers)
                                 /\ j.created \in Nat
  <2>1. \A j \in AllCases(db) : j.id \in Nat /\ j.created \in Nat /\ j.id <= db.cursor
    BY DEF TypedDb, Databases, AllCases, Case, Ordered
  <2>2. db.cursor \in Int /\ db.cursor <= Len(triggers) /\ Len(triggers) \in Nat
    BY DEF TypedDb, Databases, World
  <2>3. k.id \in Nat /\ k.id <= disk.cursor /\ disk.cursor \in Int
    BY <1>4 DEF TypedDb, Databases, AllCases, Case, Ordered
  <2> QED
    BY <2>1, <2>2, <2>3
<1> DEFINE new == Numbers(AsNew(disk, k))
           later == k.id + 1 .. Len(triggers)
<1>10. ASSUME NEW j \in kept
       PROVE  j.id \in new \cup later
  <2>1. j \in AllCases(db) /\ j.created >= c.created /\ j # c
    BY <1>1, <1>2, <1>4 DEF Newest
  <2>2. j.id # c.id
    BY <1>4, <2>1 DEF Ordered
  <2>3. CASE j.id > k.id
    BY <1>9, <2>1, <2>3
  <2>4. CASE j.id < k.id
    <3>1. j.created = c.created
      BY <1>3, <1>4, <1>9, <2>1, <2>4 DEF Ordered
    <3>2. j.id <= disk.cursor
      BY <1>9, <2>1, <2>4
    <3>3. PICK i \in AllCases(disk) : Same(i, j)
      BY <2>1, <3>2 DEF Continues
    <3>4. i \in AsNew(disk, k)
      BY <1>5, <2>4, <3>1, <3>3 DEF AsNew, Same
    <3> QED
      BY <3>3, <3>4 DEF Numbers, Same
  <2> QED
    BY <1>3, <1>9, <2>1, <2>2, <2>3, <2>4
<1>11. Numbers(kept) \subseteq new \cup later
  BY <1>10 DEF Numbers
<1>12. IsFiniteSet(new) /\ Cardinality(new) \in Nat
  <2>1. AsNew(disk, k) \in SUBSET AllCases(disk)
    BY DEF AsNew
  <2>2. IsFiniteSet(new)
    BY <2>1, CountingNumbers
  <2> QED
    BY <2>2, FS_CardinalityType
<1>13. k.id <= Len(triggers)
  BY <1>9, <1>3, <1>4
<1>14. IsFiniteSet(later) /\ Cardinality(later) = Len(triggers) - k.id
  <2>1. k.id + 1 \in Int /\ Len(triggers) \in Int
    BY <1>9
  <2>2. /\ IsFiniteSet(later)
        /\ Cardinality(later) = IF k.id + 1 > Len(triggers) THEN 0
                                ELSE Len(triggers) - (k.id + 1) + 1
    BY <2>1, FS_Interval
  <2> QED
    BY <1>9, <1>13, <2>2
<1> HIDE DEF new, later
<1>15. /\ IsFiniteSet(new \cup later)
       /\ Cardinality(new \cup later) <= Cardinality(new) + Cardinality(later)
  <2>1. /\ IsFiniteSet(new \cup later)
        /\ Cardinality(new \cup later) =
             Cardinality(new) + Cardinality(later) - Cardinality(new \cap later)
    BY <1>12, <1>14, FS_Union
  <2>2. Cardinality(new \cap later) \in Nat
    BY <1>12, NotMore
  <2> QED
    BY <1>9, <1>12, <1>13, <1>14, <2>1, <2>2
<1>16. Cardinality(Numbers(kept)) <= Cardinality(new \cup later)
  BY <1>11, <1>15, NotMore
<1>17. Cardinality(new \cup later) \in Nat
  BY <1>15, FS_CardinalityType
<1>18. Cardinality(new) + (Len(triggers) - k.id) >= MaxCases
  BY <1>6, <1>7, <1>8, <1>9, <1>12, <1>14, <1>15, <1>16, <1>17
<1> QED
  BY <1>18 DEF Passed, new

\* What holds of a database in the next state, once it is known which it is.
LEMMA NextDb ==
  ASSUME NEW d, d = db', Facts(d)', Written(d)'
  PROVE  Sound(db)'
  BY DEF Sound, Facts, TypedDb, Ordered, Apart, Judged, Written, AllCases, Earlier,
         KnownAt, FollowUpsBefore, Passed, AsNew

LEMMA NextDisk ==
  ASSUME NEW d, d = disk', Facts(d)', Written(d)'
  PROVE  Sound(disk)'
  BY DEF Sound, Facts, TypedDb, Ordered, Apart, Judged, Written, AllCases, Earlier,
         KnownAt, FollowUpsBefore, Passed, AsNew

LEMMA NextContinues ==
  ASSUME NEW d, NEW e, d = db', e = disk', Continues(d, e)
  PROVE  Continues(db, disk)'
  BY DEF Continues, AllCases, Same

LEMMA SameFacts ==
  ASSUME NEW d, UNCHANGED <<clock, triggers>>, Facts(d)
  PROVE  Facts(d)'
  BY DEF Facts, TypedDb, Ordered, Apart, Judged, AllCases, Earlier, KnownAt,
         FollowUpsBefore

LEMMA SameWritten ==
  ASSUME NEW d, UNCHANGED triggers, Written(d), files \subseteq files'
  PROVE  Written(d)'
  BY DEF Written, Passed, AsNew, AllCases

\* Time passes and triggers come.
LEMMA LaterSound ==
  ASSUME World, NEW d, Sound(d), clock' \in Nat, clock <= clock',
         \/ triggers' = triggers
         \/ \E trigger \in Triggers : triggers' = Append(triggers, trigger),
         UNCHANGED files
  PROVE  Facts(d)' /\ Written(d)'
<1> USE DEF Sound, Facts
<1>1. /\ Len(triggers) \in Nat /\ Len(triggers') \in Nat /\ clock \in Nat
      /\ Len(triggers) <= Len(triggers')
      /\ \A i \in 1 .. Len(triggers) : triggers'[i] = triggers[i]
  BY DEF World
<1>2. TypedDb(d)'
  BY <1>1 DEF TypedDb, Databases
<1>3. Ordered(d)'
  <2>1. /\ \A k \in AllCases(d) : k.created \in Nat
        /\ \A g \in d.gone : g.at \in Nat
    BY DEF TypedDb, Databases, AllCases, Case
  <2> QED
    BY <1>1, <2>1 DEF Ordered, AllCases
<1>4. Apart(d)'
  BY DEF Apart, AllCases, Earlier, KnownAt, FollowUpsBefore
<1>5. Judged(d)'
  <2>1. \A n \in d.first + 1 .. d.cursor : n \in 1 .. Len(triggers)
    BY <1>1 DEF TypedDb, Databases, NoCursor
  <2>2. \A n \in d.first + 1 .. d.cursor : triggers'[n] = triggers[n]
    BY <1>1, <2>1
  <2> QED
    BY <2>2 DEF Judged, AllCases
<1>6. Written(d)'
  <2> SUFFICES ASSUME NEW k \in d.open, Passed(d, k) PROVE Passed(d, k)'
    BY DEF Written
  <2> DEFINE new == Cardinality(Numbers(AsNew(d, k)))
  <2>1. new \in Nat /\ k.id \in Nat /\ MaxCases \in Nat
    <3>1. AsNew(d, k) \in SUBSET AllCases(d)
      BY DEF AsNew
    <3>2. IsFiniteSet(Numbers(AsNew(d, k)))
      BY <3>1, CountingNumbers
    <3> QED
      BY <3>2, FS_CardinalityType, ServiceAssumption DEF TypedDb, Databases, Case
  <2>2. new + (Len(triggers) - k.id) >= MaxCases
    BY DEF Passed
  <2>3. Passed(d, k)' <=> new + (Len(triggers') - k.id) >= MaxCases
    BY DEF Passed, AsNew, AllCases
  <2> HIDE DEF new
  <2> QED
    BY <1>1, <2>1, <2>2, <2>3
<1> QED
  BY <1>2, <1>3, <1>4, <1>5, <1>6

LEMMA RcaInvInit == RcaInit => RcaInv
<1> SUFFICES ASSUME RcaInit PROVE RcaInv
  OBVIOUS
<1>1. EmptyDb \in Databases /\ EmptyDb.open = {} /\ EmptyDb.gone = {}
      /\ EmptyDb.cursor = NoCursor /\ EmptyDb.first = NoCursor
  BY DEF EmptyDb, Databases, NoCursor
<1>2. AllCases(EmptyDb) = {}
  BY <1>1 DEF AllCases
<1>3. World
  BY ServiceAssumption DEF RcaInit, World
<1>4. TypedDb(EmptyDb) /\ Ordered(EmptyDb) /\ Apart(EmptyDb) /\ Judged(EmptyDb)
      /\ Written(EmptyDb)
  <2>1. Judged(EmptyDb)
    <3>1. NoCursor + 1 .. NoCursor = {}
      BY DEF NoCursor
    <3> QED
      BY <1>1, <3>1 DEF Judged
  <2> QED
    BY <1>1, <1>2, <2>1 DEF RcaInit, TypedDb, Ordered, Apart, Written, NoCursor
<1>5. Continues(EmptyDb, EmptyDb)
  BY <1>1, <1>2 DEF Continues, NoCursor
<1> QED
  BY <1>3, <1>4, <1>5 DEF RcaInit, RcaInv, Sound, Facts

\* The service's database is replaced, and the committed one by one of the two.
LEMMA InvReplaced ==
  ASSUME RcaInv, NEW d, NEW e, d = db', e = disk',
         Facts(d), Facts(e), Continues(d, e), Written(d)', Written(e)',
         UNCHANGED <<clock, triggers>>
  PROVE  RcaInv'
<1>1. Facts(d)' /\ Facts(e)'
  BY SameFacts
<1>2. Sound(db)' /\ Sound(disk)'
  BY <1>1, NextDb, NextDisk
<1>3. Continues(db, disk)'
  BY NextContinues
<1> QED
  BY <1>2, <1>3 DEF RcaInv, World

\* The first reading only notes where the file ends.
LEMMA InvFirst ==
  ASSUME RcaInv, db.cursor = NoCursor,
         db' = [db EXCEPT !.cursor = Len(triggers), !.first = Len(triggers)],
         UNCHANGED <<clock, triggers, disk, files>>
  PROVE  RcaInv'
<1> USE DEF RcaInv, Sound, Facts
<1> DEFINE end == Len(triggers)
<1>1. PICK d : d = db'
  OBVIOUS
<1>2. end \in Nat /\ db \in Databases
  BY DEF World, TypedDb
<1> HIDE DEF end
<1>3. /\ d \in Databases /\ d.cursor = end /\ d.first = end
      /\ d.open = db.open /\ d.gone = db.gone /\ d.judged = db.judged
  <2>1. db = [cursor |-> db.cursor, open |-> db.open, gone |-> db.gone,
              first |-> db.first, judged |-> db.judged]
    BY <1>2 DEF Databases
  <2>2. d = [cursor |-> end, open |-> db.open, gone |-> db.gone,
             first |-> end, judged |-> db.judged]
    BY <1>1, <2>1 DEF end
  <2> QED
    BY <1>2, <2>2 DEF Databases
<1>4. AllCases(db) = {} /\ AllCases(disk) = {}
  <2>1. AllCases(db) = {}
    BY <1>2 DEF Ordered, NoCursor, AllCases, Databases, Case
  <2> QED
    BY <2>1 DEF Continues
<1>5. AllCases(d) = {} /\ d.open = {} /\ d.gone = {}
  BY <1>3, <1>4 DEF AllCases
<1>6. Facts(d) /\ Written(d)
  <2>1. end + 1 .. end = {}
    BY <1>2
  <2> QED
    BY <1>2, <1>3, <1>5, <2>1 DEF TypedDb, Ordered, Apart, Judged, Written, end
<1>7. Continues(d, disk)
  BY <1>2, <1>3, <1>4, <1>5 DEF Continues, NoCursor, TypedDb, Databases
<1>8. PICK e : e = disk'
  OBVIOUS
<1>9. e = disk /\ Facts(e) /\ Written(e) /\ Continues(d, e)
  BY <1>7, <1>8
<1>10. Written(d)' /\ Written(e)'
  BY <1>6, <1>9, SameWritten
<1> QED
  BY <1>1, <1>6, <1>8, <1>9, <1>10, InvReplaced

LEMMA SelfContinues ==
  ASSUME NEW d, TypedDb(d)
  PROVE  Continues(d, d)
  BY DEF Continues, Same, TypedDb, Databases

LEMMA InvTail == RcaInv /\ TailTriggers => RcaInv'
<1> SUFFICES ASSUME RcaInv, TailTriggers PROVE RcaInv'
  OBVIOUS
<1> USE DEF RcaInv, Sound
<1>1. CASE db.cursor = NoCursor
  BY <1>1, InvFirst DEF TailTriggers
<1>2. CASE db.cursor # NoCursor
  <2>1. db' = AllObserved /\ UNCHANGED <<clock, triggers, disk, files>>
    BY <1>2 DEF TailTriggers
  <2>2. PICK d, e : d = db' /\ e = disk'
    OBVIOUS
  <2>3. d = AllObserved /\ e = disk
    BY <2>1, <2>2
  <2>4. Sound(d) /\ Continues(d, disk)
    BY <1>2, <2>3, AllObservedSound DEF Facts
  <2>5. Facts(e) /\ Written(e) /\ Continues(d, e)
    BY <2>3, <2>4
  <2>6. Written(d)' /\ Written(e)'
    BY <2>1, <2>4, <2>5, SameWritten
  <2> QED
    BY <2>1, <2>2, <2>4, <2>5, <2>6, InvReplaced
<1> QED
  BY <1>1, <1>2

LEMMA InvEmit == RcaInv /\ Emit => RcaInv'
<1> SUFFICES ASSUME RcaInv, Emit PROVE RcaInv'
  OBVIOUS
<1> USE DEF RcaInv, Sound
<1>1. PICK done \in SUBSET Ready \ {{}} :
        /\ files' = files \cup Numbers(done)
        /\ db' = [db EXCEPT !.open = (@ \ done) \cup
                                     {[k EXCEPT !.emitted = TRUE] : k \in done}]
        /\ UNCHANGED <<clock, triggers, disk, startedAt, crashes>>
  BY DEF Emit
<1>2. PICK d, e : d = db' /\ e = disk'
  OBVIOUS
<1>3. /\ Kept(db, d)
      /\ \A k \in d.open : k.emitted => k.id \in Numbers(done) \/ k \in db.open
  BY <1>1, <1>2, EmitKept
<1>4. e = disk /\ Facts(e) /\ Written(e)
  BY <1>1, <1>2
<1>5. Facts(d) /\ Continues(d, e)
  BY <1>3, <1>4, KeptFacts
<1>6. Written(d)'
  <2> SUFFICES ASSUME NEW k \in d.open, k.emitted
               PROVE  k.id \in files' \/ Passed(d, k)'
    BY DEF Written
  <2>1. CASE k.id \in Numbers(done)
    BY <1>1, <2>1
  <2>2. CASE k \in db.open
    <3>1. k.id \in files \/ Passed(db, k)
      BY <2>2 DEF Written
    <3>2. k \in AllCases(db) /\ k \in AllCases(d)
      BY <2>2 DEF AllCases
    <3>3. Numbers(AsNew(d, k)) = Numbers(AsNew(db, k))
      BY <1>3, <3>2, KeptFacts
    <3>4. Passed(db, k) => Passed(d, k)
      BY <3>3 DEF Passed
    <3>5. Passed(d, k) => Passed(d, k)'
      BY <1>1 DEF Passed, AsNew, AllCases
    <3> QED
      BY <1>1, <3>1, <3>4, <3>5
  <2> QED
    BY <1>3, <2>1, <2>2
<1>7. Written(e)'
  BY <1>1, <1>4, SameWritten
<1> QED
  BY <1>1, <1>2, <1>4, <1>5, <1>6, <1>7, InvReplaced

LEMMA InvMaintenance == RcaInv /\ Maintenance => RcaInv'
<1> SUFFICES ASSUME RcaInv, Maintenance PROVE RcaInv'
  OBVIOUS
<1> USE DEF RcaInv, Sound
<1>1. PICK expired \in Expired :
        /\ files' = files \ Numbers(expired) /\ db' = Without(expired)
        /\ disk' = db' /\ UNCHANGED <<clock, triggers>>
  BY DEF Maintenance
<1>2. PICK d : d = db'
  OBVIOUS
<1>3. expired \in SUBSET Emitted
  BY DEF Expired
<1>4. Kept(db, d) /\ d.open = db.open \ expired
  BY <1>1, <1>2, <1>3, WithoutKept
<1>5. Facts(d)
  BY <1>4, KeptFacts
<1>6. Continues(d, d)
  BY <1>5, SelfContinues DEF Facts
<1>7. Written(d)'
  <2> SUFFICES ASSUME NEW k \in d.open, k.emitted
               PROVE  k.id \in files' \/ Passed(d, k)'
    BY DEF Written
  <2>1. k \in db.open /\ k \notin expired /\ k \in AllCases(db) /\ k \in AllCases(d)
    BY <1>4 DEF AllCases
  <2>2. k.id \in files \/ Passed(db, k)
    BY <2>1 DEF Written
  <2>3. k.id \notin Numbers(expired)
    BY <1>3, <2>1 DEF Numbers, Emitted, AllCases, Facts, Ordered
  <2>4. Numbers(AsNew(d, k)) = Numbers(AsNew(db, k))
    BY <1>4, <2>1, KeptFacts
  <2>5. Passed(db, k) => Passed(d, k)
    BY <2>4 DEF Passed
  <2>6. Passed(d, k) => Passed(d, k)'
    BY <1>1 DEF Passed, AsNew, AllCases
  <2> QED
    BY <1>1, <2>2, <2>3, <2>5, <2>6
<1> QED
  BY <1>1, <1>2, <1>5, <1>6, <1>7, InvReplaced

LEMMA InvShutdown == RcaInv /\ Shutdown => RcaInv'
<1> SUFFICES ASSUME RcaInv, Shutdown PROVE RcaInv'
  OBVIOUS
<1> USE DEF RcaInv, Sound
<1>1. PICK d : d = db'
  OBVIOUS
<1>2. /\ d = db /\ d = disk' /\ files' = files /\ UNCHANGED <<clock, triggers>>
  BY <1>1 DEF Shutdown, Restarted
<1>3. Facts(d) /\ Written(d) /\ Continues(d, d)
  BY <1>2, SelfContinues DEF Facts
<1>4. Written(d)'
  BY <1>2, <1>3, SameWritten
<1> QED
  BY <1>1, <1>2, <1>3, <1>4, InvReplaced

LEMMA InvCrash == RcaInv /\ Crash => RcaInv'
<1> SUFFICES ASSUME RcaInv, Crash PROVE RcaInv'
  OBVIOUS
<1> USE DEF RcaInv, Sound
<1>0. PICK expired \in Expired :
        \E unlinked \in SUBSET Numbers(expired) : Restarted(disk, files \ unlinked)
  BY DEF Crash
<1>1. PICK unlinked \in SUBSET Numbers(expired) : Restarted(disk, files \ unlinked)
  BY <1>0
<1>2. PICK d : d = db'
  OBVIOUS
<1>3. /\ d = disk /\ d = disk' /\ files' = files \ unlinked
      /\ UNCHANGED <<clock, triggers>>
  BY <1>1, <1>2 DEF Restarted
<1>4. Facts(d) /\ Written(d) /\ Continues(d, d)
  BY <1>3, SelfContinues DEF Facts
<1>5. Written(d)'
  <2> SUFFICES ASSUME NEW k \in d.open, k.emitted
               PROVE  k.id \in files' \/ Passed(d, k)'
    BY DEF Written
  <2>1. k.id \in unlinked => Passed(disk, k)
    BY <1>1, <1>3, UnlinkedArePassed
  <2>2. k.id \in files \/ Passed(d, k)
    BY <1>4 DEF Written
  <2>3. Passed(d, k) => Passed(d, k)'
    BY <1>3 DEF Passed, AsNew, AllCases
  <2> QED
    BY <1>3, <2>1, <2>2, <2>3
<1> QED
  BY <1>2, <1>3, <1>4, <1>5, InvReplaced

LEMMA InvLater ==
  ASSUME RcaInv, Advance \/ \E trigger \in Triggers : Deliver(trigger)
  PROVE  RcaInv'
<1> USE DEF RcaInv, Sound
<1>1. PICK d, e : d = db' /\ e = disk'
  OBVIOUS
<1>2. /\ UNCHANGED <<db, disk, files>>
      /\ clock' \in Nat /\ clock <= clock'
      /\ \/ triggers' = triggers
         \/ \E trigger \in Triggers : triggers' = Append(triggers, trigger)
      /\ triggers' = triggers \/ Len(triggers) < MaxTriggers
  BY DEF Advance, Deliver, World
<1>3. d = db /\ e = disk
  BY <1>1, <1>2
<1>4. Sound(d) /\ Sound(e) /\ Continues(d, e)
  BY <1>3
<1>5. Facts(d)' /\ Written(d)' /\ Facts(e)' /\ Written(e)'
  BY <1>2, <1>4, LaterSound
<1>6. Sound(db)' /\ Sound(disk)' /\ Continues(db, disk)'
  BY <1>1, <1>4, <1>5, NextDb, NextDisk, NextContinues
<1>7. World'
  <2>1. MaxTriggers \in Nat /\ Len(triggers) \in Nat
    BY ServiceAssumption DEF World
  <2>2. CASE triggers' = triggers
    BY <1>2, <2>2 DEF World
  <2>3. CASE triggers' # triggers
    <3>1. PICK trigger \in Triggers : triggers' = Append(triggers, trigger)
      BY <1>2, <2>3
    <3>2. triggers' \in Seq(Triggers) /\ Len(triggers') = Len(triggers) + 1
      BY <3>1 DEF World
    <3> QED
      BY <1>2, <2>1, <2>3, <3>2 DEF World
  <2> QED
    BY <2>2, <2>3
<1> QED
  BY <1>6, <1>7

LEMMA InvStep == RcaInv /\ [RcaNext]_rcaVars => RcaInv'
<1> SUFFICES ASSUME RcaInv, [RcaNext]_rcaVars PROVE RcaInv'
  OBVIOUS
<1>1. CASE UNCHANGED rcaVars
  BY <1>1 DEF rcaVars, RcaInv, World, Sound, Facts, TypedDb, Ordered, Apart, Judged, Written,
     AllCases, Earlier, KnownAt, FollowUpsBefore, Passed, AsNew, Continues
<1> QED
  BY <1>1, InvTail, InvEmit, InvMaintenance, InvShutdown, InvCrash, InvLater DEF RcaNext

LEMMA RcaInvariance == RcaSpec => []RcaInv
  BY RcaInvInit, InvStep, PTL DEF RcaSpec

\* Cases of a container are a cooldown apart, or follow-ups ten seconds apart
\* and at most five per cooldown, whatever crashes took back and was judged
\* again, and whatever retention deleted.
THEOREM CasesKeepTheirDistance == RcaSpec => []CasesApart
<1>1. RcaInv => CasesApart
  <2> SUFFICES ASSUME RcaInv, NEW k \in AllCases(db)
               PROVE  /\ \A j \in Earlier(db, k) :
                           /\ k.created - j.created >= FollowUpMin
                           /\ k.followUp \/ k.created - j.created >= Cooldown
                      /\ k.followUp => Cardinality(FollowUpsBefore(db, k)) < FollowUpMax
    BY DEF CasesApart, Earlier, FollowUpsBefore
  <2>1. Cardinality(FollowUpsBefore(db, k)) = Cardinality(Numbers(FollowUpsBefore(db, k)))
    BY CountingNumbers DEF RcaInv, Sound, Facts, FollowUpsBefore, Earlier
  <2> QED
    BY <2>1 DEF RcaInv, Sound, Facts, Apart
<1> QED
  BY <1>1, RcaInvariance, PTL

\* No crash leaves a trigger behind the committed cursor without a case.
THEOREM TriggersHaveCases == RcaSpec => []EveryTriggerHasACase
<1>1. RcaInv => EveryTriggerHasACase
  BY DEF RcaInv, Sound, Facts, Judged, EveryTriggerHasACase
<1> QED
  BY <1>1, RcaInvariance, PTL

\* A case committed as emitted has its files, unless retention was at it.
THEOREM CommittedCasesHaveFiles == RcaSpec => []EmittedCasesHaveFiles
<1>1. RcaInv => EmittedCasesHaveFiles
  BY DEF RcaInv, Sound, Written, Passed, EmittedCasesHaveFiles
<1> QED
  BY <1>1, RcaInvariance, PTL

\* What was committed stays: the cursor never moves back, every case keeps its
\* number, container and time, emitted or deleted, and no crash, replay or
\* restart adds a case for a trigger behind the committed cursor.
CommitsExtend == [][Continues(disk', disk)]_rcaVars

THEOREM CommitsStay == RcaSpec => CommitsExtend
<1>1. ASSUME RcaInv, [RcaNext]_rcaVars PROVE Continues(disk', disk)
  <2>1. /\ World /\ Facts(db) /\ Continues(db, disk) /\ Continues(disk, disk)
    BY <1>1, SelfContinues DEF RcaInv, Sound, Facts
  <2>2. CASE disk' = disk
    BY <2>1, <2>2
  <2>3. CASE Maintenance
    <3>1. PICK expired \in Expired : disk' = Without(expired)
      BY <2>3 DEF Maintenance
    <3>2. PICK d : d = disk'
      OBVIOUS
    <3>3. expired \in SUBSET Emitted
      BY DEF Expired
    <3>4. Kept(db, d)
      BY <2>1, <3>1, <3>2, <3>3, WithoutKept
    <3> QED
      BY <2>1, <3>2, <3>4, KeptFacts
  <2>4. CASE Shutdown
    BY <2>1, <2>4 DEF Shutdown, Restarted
  <2> QED
    BY <1>1, <2>2, <2>3, <2>4 DEF RcaNext, TailTriggers, Emit, Crash, Restarted,
       Deliver, Advance, rcaVars
<1>2. RcaInv /\ [RcaNext]_rcaVars => [Continues(disk', disk)]_rcaVars
  BY <1>1
<1> QED
  BY <1>2, RcaInvariance, PTL DEF RcaSpec, CommitsExtend
===============================================================================
