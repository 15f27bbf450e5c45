---------------------------- MODULE RecoveryCapture ----------------------------
(***************************************************************************)
(* A capture with telemetry recovery: the collector (collector/capture.py  *)
(* run) assembles one snapshot per container and boundary, RecoveryTracker *)
(* (collector/telemetry_recovery.py) decides from the cadence, the lag and *)
(* the integrity counters whether the boundary can be scored, and one      *)
(* PulseFeatureBuilder per container makes rows out of the deltas and a    *)
(* rolling history.  The resolver (collector/cgroup_resolver.py) writes    *)
(* the list of targets and the metadata one after the other; the loader    *)
(* takes its targets from the one, the collector its names from the other. *)
(* Times are tenths of a second.                                           *)
(***************************************************************************)
EXTENDS Integers, Sequences, FiniteSetsExt, Functions

CONSTANTS
  Containers,
  MinInterval, MaxInterval,   \* interval_min_seconds, interval_max_seconds
  MaxGap,                     \* maximum_recoverable_gap_seconds
  MaxLag,                     \* maximum_ingest_lag_seconds
  MaxIncident, MaxIncidents, MaxExcluded,  \* the budgets of incidents
  Rolling,                    \* rolling_windows
  Intervals, Lags,            \* intervals and lags of boundaries that occur
  Regular,                    \* the interval of the loader
  MaxFrames,                  \* bound on boundaries
  MaxIrregular                \* bound on what differs from a regular boundary

\* validate_profile, and the inputs.
ASSUME ProfileAssumption ==
  /\ IsFiniteSet(Containers)
  /\ MinInterval \in Nat \ {0} /\ MaxInterval \in Nat /\ MaxGap \in Nat /\ MaxLag \in Nat
  /\ MinInterval < MaxInterval /\ MaxInterval < MaxGap
  /\ MaxIncident \in Nat /\ MaxIncidents \in Nat \ {0} /\ MaxExcluded \in Nat
  /\ MaxGap <= MaxIncident /\ MaxIncident <= MaxExcluded
  /\ Rolling \in Nat \ {0}
  /\ Intervals \subseteq Nat \ {0} /\ Lags \subseteq Int
  /\ Regular \in Intervals /\ Regular \in MinInterval .. MaxInterval
  /\ MaxFrames \in Nat /\ MaxIrregular \in Nat

VARIABLES
  live,      \* containers that run
  targets,   \* the allow list
  metadata,  \* the metadata file
  frames,    \* boundaries so far
  irregular, \* how much was not regular
  end,       \* previous_end: the last boundary
  known,     \* the metadata the collector read last
  clean, incidents, excluded,  \* of the tracker
  incident,  \* it is in an incident
  since,     \* incident_start
  fatal,     \* it has errors
  builders,  \* per container: the last snapshot's time and the history
  rows,      \* the feature rows of the last boundary
  lastBad,   \* the last bad boundary, or 0
  journal    \* per boundary: interval, bad, ready

resolverVars == <<live, targets, metadata>>
trackerVars  == <<clean, incidents, excluded, incident, since, fatal>>
recoveryVars == <<resolverVars, frames, irregular, end, known, trackerVars, builders, rows, lastBad,
          journal>>

NoTime == -1
Fresh == [previous |-> NoTime, history |-> <<>>]
-------------------------------------------------------------------------------
RecoveryInit ==
  /\ live = Containers /\ targets = Containers /\ metadata = Containers
  /\ frames = 0 /\ irregular = 0 /\ end = 0 /\ known = {}
  /\ clean = 0 /\ incidents = 0 /\ excluded = 0 /\ incident = FALSE /\ since = 0
  /\ fatal = FALSE
  /\ builders = [c \in Containers |-> Fresh]
  /\ rows = {} /\ lastBad = 0 /\ journal = <<>>

(* The resolver, and the containers. *)

Change ==
  /\ irregular < MaxIrregular /\ irregular' = irregular + 1
  /\ \E c \in Containers : live' = (live \cup {c}) \ (live \cap {c})
  /\ UNCHANGED <<targets, metadata, frames, end, known, trackerVars, builders, rows, lastBad,
                 journal>>

\* refresh, first file.
WriteTargets ==
  /\ targets # live
  /\ targets' = live
  /\ UNCHANGED <<live, metadata, frames, irregular, end, known, trackerVars, builders, rows,
                 lastBad, journal>>

\* refresh, second file: what the containers were when the first was written.
WriteMetadata ==
  /\ metadata # targets
  /\ metadata' = targets
  /\ UNCHANGED <<live, targets, frames, irregular, end, known, trackerVars, builders, rows,
                 lastBad, journal>>
-------------------------------------------------------------------------------
(* RecoveryTracker.step. *)

First == frames = 0

BadCadence(interval) == ~First /\ interval \notin MinInterval .. MaxInterval

Bad(interval, lag) == BadCadence(interval) \/ lag > MaxLag

\* Errors that do not depend on the incidents.
Fails(interval, lag, hard) ==
  \/ hard
  \/ lag < -10 \/ lag > MaxIncident
  \/ ~First /\ interval > MaxGap

Ready(bad, count) == ~bad /\ count > Rolling

CleanAfter(bad) == IF bad THEN 0 ELSE IF First THEN clean ELSE clean + 1

\* Mistake: a bad boundary inside an incident is a new incident.
OpensAlways(bad) == bad

Opens(bad) == bad /\ ~incident

Step(interval, lag, hard) ==
  LET bad   == Bad(interval, lag)
      now   == end + interval
      start == IF Opens(bad) THEN IF First THEN now ELSE end ELSE since
      in    == incident \/ bad
      spent == excluded + (IF in /\ ~First THEN interval ELSE 0)
      count == incidents + (IF Opens(bad) THEN 1 ELSE 0)
  IN /\ clean' = CleanAfter(bad)
     /\ incidents' = count
     /\ since' = IF in THEN start ELSE 0
     /\ excluded' = spent
     /\ fatal' = \/ fatal \/ Fails(interval, lag, hard)
                 \/ in /\ now - start > MaxIncident
                 \/ count > MaxIncidents
                 \/ spent > MaxExcluded
     /\ incident' = (in /\ ~Ready(bad, clean'))
     /\ lastBad' = IF bad THEN now ELSE lastBad
     /\ journal' = Append(journal, [interval |-> IF First THEN 0 ELSE interval, bad |-> bad,
                                    ready |-> Ready(bad, clean')])
-------------------------------------------------------------------------------
(* The rows of a boundary. *)

Window(c, now, good) == [start |-> builders[c].previous, end |-> now, good |-> good]

Baseline(now) == [previous |-> now, history |-> <<>>]

\* Mistake: a deque without maxlen.
ExtendedForEver(history, window) == Append(history, window)

\* deque(maxlen=rolling_windows)
Extended(history, window) ==
  IF Len(history) < Rolling THEN Append(history, window) ELSE Append(Tail(history), window)

\* Mistake: only a boundary out of cadence starts the history again.
SpoilsCadence(inCadence, late) == ~inCadence

\* reason in {"source_cadence", "feature_ingest_lag"}
Spoils(inCadence, late) == ~inCadence \/ late

\* One boundary: the loader's snapshots of the targets, of which quiet made no
\* call and the rows of slow are emitted late; with stale, reading the
\* metadata fails and the last generation is kept.
Assembled(interval, lag, hard, quiet, slow, stale) ==
  LET now  == end + interval
      bad  == Bad(interval, lag)
      named == IF stale THEN known ELSE metadata
      seen == targets \cap named
      sampled == {c \in seen : builders[c].previous # NoTime /\ c \in live \ quiet}
      InCadence(c) == now - builders[c].previous \in MinInterval .. MaxInterval
      Late(c) == c \in slow \/ lag > MaxLag \/ lag < -10
      Made(c) == Window(c, now, InCadence(c) /\ ~Late(c))
      Next_(c) == IF c \notin sampled THEN [builders[c] EXCEPT !.previous = now]
                  ELSE IF Spoils(InCadence(c), Late(c)) THEN Baseline(now)
                  ELSE [previous |-> now, history |-> Extended(builders[c].history, Made(c))]
  IN /\ Step(interval, lag, hard)
     /\ end' = now /\ frames' = frames + 1 /\ known' = named
     /\ rows' = {[container |-> c,
                  windows |-> Append(builders[c].history, Made(c)),
                  eligible |-> /\ InCadence(c) /\ ~Late(c)
                               /\ ~fatal' /\ Ready(bad, clean')
                               /\ Len(builders[c].history) >= Rolling] : c \in sampled}
     /\ builders' = [c \in Containers |->
                       IF bad THEN IF c \in seen THEN Baseline(now) ELSE Fresh
                       ELSE IF c \in seen THEN Next_(c) ELSE builders[c]]

Count(condition) == IF condition THEN 1 ELSE 0

\* After a fatal boundary run raises.
Boundary ==
  /\ ~fatal /\ frames < MaxFrames
  /\ \E interval \in Intervals, lag \in Lags, hard, stale \in BOOLEAN :
       LET odd == Count(interval # Regular) + Count(lag # 0) + Count(hard) + Count(stale)
       IN /\ irregular + odd <= MaxIrregular
          /\ \E quiet, slow \in SUBSET Containers :
               /\ irregular' = irregular + odd + Cardinality(quiet) + Cardinality(slow)
               /\ irregular' <= MaxIrregular
               /\ Assembled(interval, lag, hard, quiet, slow, stale)
  /\ UNCHANGED resolverVars
-------------------------------------------------------------------------------
RecoveryNext == Change \/ WriteTargets \/ WriteMetadata \/ Boundary

RecoverySpec == RecoveryInit /\ [][RecoveryNext]_recoveryVars
-------------------------------------------------------------------------------
Windows == [start : Nat, end : Nat, good : BOOLEAN]

RecoveryTypeOK ==
  /\ live \subseteq Containers /\ targets \subseteq Containers /\ metadata \subseteq Containers
  /\ frames \in Nat /\ irregular \in Nat /\ end \in Nat /\ known \subseteq Containers
  /\ clean \in Nat /\ incidents \in Nat /\ excluded \in Nat
  /\ incident \in BOOLEAN /\ since \in Nat /\ fatal \in BOOLEAN
  /\ builders \in [Containers -> [previous : Nat \cup {NoTime}, history : Seq(Windows)]]
  /\ \A c \in Containers : Len(builders[c].history) <= Rolling
  /\ lastBad \in Nat

\* An eligible row, its rolling history included, is made of windows after the
\* last bad boundary, each in cadence and emitted in time: whatever was late,
\* idle, unnamed, gone or back in between.
EligibleRowsAreClean ==
  \A row \in rows : row.eligible =>
    /\ Len(row.windows) = Rolling + 1
    /\ \A i \in DOMAIN row.windows :
         /\ row.windows[i].good
         /\ row.windows[i].start >= lastBad
         /\ i > 1 => row.windows[i - 1].end <= row.windows[i].start

\* What the tracker spends of its budgets is what an independent reading of
\* the journal finds: incidents reach from the boundary before the first bad
\* one to the one that is ready again; without an error no budget is exceeded.
InIncident(i) ==
  \E j \in 1 .. i : journal[j].bad /\ \A k \in j .. i - 1 : ~journal[k].ready
Duration(S) == MapThenSumSet(LAMBDA i : journal[i].interval, S)
Boundaries == DOMAIN journal
Starts == {i \in Boundaries : journal[i].bad /\ (i > 1 => journal[i - 1].ready \/ ~InIncident(i - 1))}

IncidentsAreAccounted ==
  /\ incidents = Cardinality(Starts)
  /\ excluded = Duration({i \in Boundaries : InIncident(i)})
  /\ ~fatal => /\ incidents <= MaxIncidents /\ excluded <= MaxExcluded
               /\ incident => Duration({i \in Boundaries : i >= Max(Starts)}) <= MaxIncident
===============================================================================
