--------------------------- MODULE LiveRecalibration ---------------------------
(***************************************************************************)
(* Rolling calibration of the live worker (pipeline/live_recalibration.py) *)
(* on the score buffer (pipeline/retention.py).  The scoring loop of every *)
(* node appends the scores of a window to one file per hour; a thread      *)
(* copies finished hours to a directory all nodes share, and once per      *)
(* refresh reads the last hours of all nodes into the calibration arrays   *)
(* of its own models, which the loop swaps in between two frames.  A       *)
(* refresh changes nothing another node can see, so the arrays of one      *)
(* node, Me, are followed, and of all nodes the buffer and the shared copy.*)
(*                                                                         *)
(* A score is the window it belongs to; arrays, which are sorted, say how  *)
(* often they hold each window (window 0: a record made of halves of two). *)
(* Windows that are not eligible, or end in an interval of the campaign,   *)
(* are filtered row by row and left out here.  A record is two pieces, so  *)
(* that a write can tear it.  An hour has three phases:     *)
(* before the publish delay, before the refresh delay, after both.  A      *)
(* window is scored within the publish delay of its end: the loader's pipe *)
(* holds a few frames.                                                     *)
(***************************************************************************)
EXTENDS Integers, SequencesExt, Functions

CONSTANTS
  N,              \* the nodes are 1 .. N, in the order of their names
  Me,             \* the node whose arrays are followed
  Windows,        \* numbers of the windows that may be scored
  Workloads,
  WorkloadOf,     \* the workload of a window
  WindowHours, RefreshHours, KeepHours, RetentionHours, MinimumExamples,
  LastHour,       \* bound on the clock
  MaxTroubles     \* bound on processes that end, torn records, failed operations

ASSUME RecalibrationAssumption ==
  /\ N \in Nat /\ Me \in 1 .. N
  /\ Windows \subseteq Nat \ {0} /\ WorkloadOf \in [Windows -> Workloads]
  /\ WindowHours \in 1 .. 47 /\ RefreshHours \in 1 .. 24
  /\ KeepHours \in Nat /\ KeepHours >= WindowHours + 1
  /\ RetentionHours \in 1 .. 48 /\ MinimumExamples \in Nat \ {0}
  /\ LastHour \in Nat /\ MaxTroubles \in Nat

VARIABLES
  now,        \* the time, three phases to the hour
  troubles,   \* how often a process ended, a record was torn, an operation failed
  scored,     \* per window, the node and hour of its decision row; <<>> before
  file, side, \* score buffer: pieces of an hour's .bin, workloads of its .json
  open,       \* per node, the hour its buffer has open; -1 without one
  torn,       \* node and hour of records that were torn
  bin, json,  \* the shared copy, in the same form
  published,  \* per node, the hours its process has published
  thread,     \* per node, [step, at]: its place in tick, the time tick began
  refreshed,  \* of Me: hours whose refresh began
  cache,      \* of Me: records of the hours read so far
  build,      \* of Me: [hour, todo, parts, missing] of the refresh under way
  ready,      \* of Me: built refreshes for the loop
  arrays,     \* of Me: the arrays of a workload's model; no window: the bundle's
  epoch,      \* of Me
  used,       \* of Me: [life, epoch, arrays] that decision rows may have
  logs, log,  \* of Me: rows on their way, rows of recalibration.jsonl
  life, born, \* of Me: number of the process, rows of the log when it began
  lost        \* of Me: rows of the log were lost since

diskVars   == <<scored, file, side, open, torn>>
sharedVars == <<bin, json, published>>
workVars   == <<refreshed, cache, build>>
modelVars  == <<arrays, epoch, used>>
lifeVars   == <<life, born, lost>>
vars == <<now, troubles, diskVars, sharedVars, thread, workVars, ready, modelVars,
          logs, log, lifeVars>>

Nodes == 1 .. N
Hours == 0 .. LastHour
HourOf(t) == t \div 3
PhaseOf(t) == t % 3
Bundle == [k \in Workloads |-> [w \in Windows \cup {0} |-> 0]]
NoBuild == [hour |-> 0, todo |-> {}, parts |-> {}, missing |-> {}]
Idle == [step |-> "idle", at |-> 0]
PerHour(x) == [n \in Nodes |-> [h \in Hours |-> x]]
-------------------------------------------------------------------------------
Init ==
  /\ now = 0 /\ troubles = 0
  /\ scored = [w \in Windows |-> <<>>]
  /\ file = PerHour(<<>>) /\ side = PerHour(<<>>) /\ torn = {}
  /\ open = [n \in Nodes |-> -1]
  /\ bin = PerHour(<<>>) /\ json = PerHour(<<>>)
  /\ published = [n \in Nodes |-> {}] /\ thread = [n \in Nodes |-> Idle]
  /\ refreshed = {} /\ cache = <<>> /\ build = NoBuild /\ ready = <<>>
  /\ arrays = Bundle /\ epoch = 0
  /\ used = {[life |-> 0, epoch |-> 0, arrays |-> Bundle]}
  /\ logs = <<>> /\ log = <<>> /\ life = 0 /\ born = 0 /\ lost = FALSE

Advance ==
  /\ HourOf(now + 1) <= LastHour
  /\ now' = now + 1
  /\ UNCHANGED <<troubles, diskVars, sharedVars, thread, workVars, ready, modelVars,
                 logs, log, lifeVars>>

Trouble == troubles < MaxTroubles /\ troubles' = troubles + 1
-------------------------------------------------------------------------------
(* The scoring loop. *)

\* Hours a node's retention keeps when it opens the file of hour h.
Retained(h) == {k \in Hours : k = h \/ 3 * (k + 1) >= now - 3 * RetentionHours}

Kept(n, h, files) ==
  [k \in Hours |-> IF open[n] = h \/ k \in Retained(h) THEN files[k] ELSE <<>>]

WithWorkload(names, k) == IF k \in ToSet(names) THEN names ELSE Append(names, k)

\* Mistake: a file opened again starts with no workloads.
NamesForgotten(n, h, k) ==
  IF open[n] = h THEN WithWorkload(side[n][h], k) ELSE <<k>>

\* The sidecar of the hour when a row of workload k is added.
Names(n, h, k) == WithWorkload(side[n][h], k)

Pieces(w, index) == <<<<w, index, 1>>, <<w, index, 2>>>>

\* scores.add(decision), then flush; count pieces of the record get out.
Add(n, w, h, count) ==
  LET names == Names(n, h, WorkloadOf[w])
      index == CHOOSE i \in DOMAIN names : names[i] = WorkloadOf[w]
      sides == Kept(n, h, side[n])
      files == Kept(n, h, file[n])
  IN /\ side' = [side EXCEPT ![n] = [sides EXCEPT ![h] = names]]
     /\ file' = [file EXCEPT ![n] = [files EXCEPT
                   ![h] = files[h] \o SubSeq(Pieces(w, index), 1, count)]]

\* Window w of the hour, or of the last one within the publish delay.  They
\* are numbered in the order they are scored in.  That none is scored later is an
\* assumption on the pipe and the loop; nothing in the code refuses such a window.
Due(w, h) ==
  /\ scored[w] = <<>> /\ \A v \in Windows : v < w => scored[v] # <<>>
  /\ h = HourOf(now) \/ (PhaseOf(now) = 0 /\ h = HourOf(now) - 1)

Frame(n, w, h) ==
  /\ Due(w, h)
  /\ n = Me => ready = <<>>
  /\ scored' = [scored EXCEPT ![w] = <<n, h>>]
  /\ Add(n, w, h, 2)
  /\ open' = [open EXCEPT ![n] = h]
  /\ UNCHANGED <<now, troubles, torn, sharedVars, thread, workVars, ready, modelVars,
                 logs, log, lifeVars>>

\* Workloads a queued calibration has enough examples for.
Swapped(cal) == {k \in Workloads : FoldFunction(+, 0, cal[k]) >= MinimumExamples}

\* Mistake: the epoch moves only when every workload was swapped.
NextEpochWhenAll(swapped) == IF swapped = Workloads THEN epoch + 1 ELSE epoch

NextEpoch(swapped) == IF swapped = {} THEN epoch ELSE epoch + 1

\* Mistake: the row is written before the epoch moves.
RowOfOldEpoch(entry, swapped) ==
  [event |-> IF swapped = {} THEN "unchanged" ELSE "applied", epoch |-> epoch,
   hour |-> entry.hour, swapped |-> swapped, missing |-> entry.missing]

RowOf(entry, swapped) ==
  [event |-> IF swapped = {} THEN "unchanged" ELSE "applied", epoch |-> epoch',
   hour |-> entry.hour, swapped |-> swapped, missing |-> entry.missing]

\* One round of apply's loop; a frame goes on when the queue is empty.
Apply ==
  /\ ready # <<>>
  /\ ready' = Tail(ready)
  /\ LET entry == Head(ready)
         swapped == Swapped(entry.cal)
     IN /\ arrays' = [k \in Workloads |-> IF k \in swapped THEN entry.cal[k] ELSE arrays[k]]
        /\ epoch' = NextEpoch(swapped)
        /\ logs' = Append(logs, RowOf(entry, swapped))
  /\ used' = used \cup {[life |-> life, epoch |-> epoch', arrays |-> arrays']}
  /\ UNCHANGED <<now, troubles, diskVars, sharedVars, thread, workVars, log, lifeVars>>
-------------------------------------------------------------------------------
(* The thread: tick. *)

\* Mistake: an hour is published as soon as it ends.
PublishDueAtOnce(n) ==
  /\ thread[n] = Idle
  /\ HourOf(now) > 0 /\ HourOf(now) - 1 \notin published[n]

PublishDue(n) ==
  /\ thread[n] = Idle /\ PhaseOf(now) >= 1
  /\ HourOf(now) > 0 /\ HourOf(now) - 1 \notin published[n]

\* The end of publish: the hour counts as published, old hours go.
Publishes(n, hour, bins, names) ==
  LET gone == {k \in Hours : k < hour - KeepHours /\ names[k] # <<>>}
      Keep(files) == [k \in Hours |-> IF k \in gone THEN <<>> ELSE files[k]]
  IN /\ published' = [published EXCEPT ![n] = @ \cup {hour}]
     /\ bin' = [bin EXCEPT ![n] = Keep(bins)]
     /\ json' = [json EXCEPT ![n] = Keep(names)]

\* Only Me's thread goes on to a refresh that is followed.
AfterPublish(n, at) ==
  thread' = [thread EXCEPT ![n] = IF n = Me THEN [step |-> "refresh", at |-> at] ELSE Idle]

\* The .bin of the hour gets its name in the shared directory.
PublishBin(n) ==
  LET hour == HourOf(now) - 1 IN
  /\ PublishDue(n) /\ side[n][hour] # <<>>
  /\ bin' = [bin EXCEPT ![n][hour] = file[n][hour]]
  /\ thread' = [thread EXCEPT ![n] = [step |-> "sidecar", at |-> now]]
  /\ UNCHANGED <<now, troubles, diskVars, json, published, workVars, ready, modelVars,
                 logs, log, lifeVars>>

\* Then the sidecar, which makes the hour visible.
PublishSide(n) ==
  LET hour == HourOf(thread[n].at) - 1 IN
  /\ thread[n].step = "sidecar" /\ side[n][hour] # <<>>
  /\ Publishes(n, hour, bin[n], [json[n] EXCEPT ![hour] = side[n][hour]])
  /\ AfterPublish(n, thread[n].at)
  /\ UNCHANGED <<now, troubles, diskVars, workVars, ready, modelVars, logs, log, lifeVars>>

\* The hour has no files: it counts as published all the same.
PublishNothing(n) ==
  LET hour == HourOf(now) - 1 IN
  /\ PublishDue(n) /\ side[n][hour] = <<>>
  /\ Publishes(n, hour, bin[n], json[n])
  /\ AfterPublish(n, now)
  /\ UNCHANGED <<now, troubles, diskVars, workVars, ready, modelVars, logs, log, lifeVars>>

Failure == [event |-> "failure", epoch |-> 0, hour |-> 0, swapped |-> {}, missing |-> {}]

\* An exception in publish ends the tick, the refresh of this tick with it.
PublishFails(n) ==
  /\ thread[n].step = "sidecar"
  /\ \/ side[n][HourOf(thread[n].at) - 1] = <<>> /\ UNCHANGED troubles
     \/ Trouble
  /\ thread' = [thread EXCEPT ![n] = Idle]
  /\ logs' = IF n = Me THEN Append(logs, Failure) ELSE logs
  /\ UNCHANGED <<now, diskVars, sharedVars, workVars, ready, modelVars, log, lifeVars>>

RefreshDue(at) ==
  HourOf(at) % RefreshHours = 0 /\ PhaseOf(at) = 2 /\ HourOf(at) \notin refreshed

\* The second half of tick, after a publish or without one.
AtRefresh(at) ==
  \/ thread[Me].step = "refresh" /\ at = thread[Me].at
  \/ thread[Me] = Idle /\ ~PublishDue(Me) /\ at = now

Span(hour) == hour - WindowHours .. hour - 1

\* Every hour of the window.  A node without a shared directory, which the code
\* does not list, has its hours missing here: what is read is the same.
Keys(hour) == Nodes \X Span(hour)

StartBuild ==
  \E at \in {now, thread[Me].at} :
    /\ AtRefresh(at) /\ RefreshDue(at)
    /\ refreshed' = refreshed \cup {HourOf(at)}
    /\ cache' = Restrict(cache, {x \in DOMAIN cache : x[2] >= HourOf(at) - WindowHours})
    /\ build' = [NoBuild EXCEPT !.hour = HourOf(at), !.todo = Keys(HourOf(at))]
    /\ thread' = [thread EXCEPT ![Me] = [step |-> "build", at |-> at]]
    /\ UNCHANGED <<now, troubles, diskVars, sharedVars, ready, modelVars, logs, log, lifeVars>>

NoRefresh ==
  /\ thread[Me].step = "refresh" /\ ~RefreshDue(thread[Me].at)
  /\ thread' = [thread EXCEPT ![Me] = Idle]
  /\ UNCHANGED <<now, troubles, diskVars, sharedVars, workVars, ready, modelVars,
                 logs, log, lifeVars>>

\* Two pieces as a record: its workload by the sidecar, its window.  Halves
\* of two records are a record of any workload, or of none.
Resolve(p, q, names, noise) ==
  IF p[1] = q[1] /\ p[3] = 1 /\ q[3] = 2
  THEN {<<names[i], p[1]>> : i \in {p[2]} \cap DOMAIN names}
  ELSE {<<names[i], 0>> : i \in {noise} \cap DOMAIN names}

\* The records of a shared hour.
Records(key, noise) ==
  LET pieces == bin[key[1]][key[2]]
      names == json[key[1]][key[2]]
  IN UNION {{[key |-> key, at |-> i, workload |-> r[1], window |-> r[2]] :
               r \in Resolve(pieces[2 * i - 1], pieces[2 * i], names, noise)} :
            i \in 1 .. Len(pieces) \div 2}

Shared(n, h) == IF h \in Hours THEN json[n][h] ELSE <<>>

\* _read: the cached hour, a missing one, or the shared copy.
ReadHour(key) ==
  LET names == Shared(key[1], key[2]) IN
  \/ /\ key \in DOMAIN cache
     /\ build' = [build EXCEPT !.todo = @ \ {key}, !.parts = @ \cup cache[key]]
     /\ UNCHANGED cache
  \/ /\ key \notin DOMAIN cache /\ names = <<>>
     /\ build' = [build EXCEPT !.todo = @ \ {key}, !.missing = @ \cup {key}]
     /\ UNCHANGED cache
  \/ /\ key \notin DOMAIN cache /\ names # <<>>
     /\ \E noise \in IF key \in torn THEN 0 .. Len(names) ELSE {0} :
          cache' = [x \in DOMAIN cache \cup {key} |->
                     IF x = key THEN Records(key, noise) ELSE cache[x]]
     /\ build' = [build EXCEPT !.todo = @ \ {key}, !.parts = @ \cup cache'[key]]

\* Node after node, hour after hour.
Read ==
  /\ thread[Me].step = "build"
  /\ \E key \in build.todo :
       /\ \A x \in build.todo : key[1] < x[1] \/ (key[1] = x[1] /\ key[2] <= x[2])
       /\ ReadHour(key)
  /\ UNCHANGED <<now, troubles, diskVars, sharedVars, thread, refreshed, ready, modelVars,
                 logs, log, lifeVars>>

\* The sorted scores of a workload: how often each occurs.
Calibration(records, k) ==
  [w \in Windows \cup {0} |-> Cardinality({r \in records : r.workload = k /\ r.window = w})]

\* Mistake: a refresh that misses an hour is dropped.
PutIfComplete(entry) == ready' = IF entry.missing = {} THEN Append(ready, entry) ELSE ready

Put(entry) == ready' = Append(ready, entry)

FinishBuild ==
  /\ thread[Me].step = "build" /\ build.todo = {}
  /\ Put([hour |-> build.hour, missing |-> build.missing,
          cal |-> [k \in Workloads |-> Calibration(build.parts, k)]])
  /\ thread' = [thread EXCEPT ![Me] = Idle]
  /\ build' = NoBuild
  /\ UNCHANGED <<now, troubles, diskVars, sharedVars, refreshed, cache, modelVars,
                 logs, log, lifeVars>>

\* An exception in build: the hour stays refreshed, the arrays stay.
BuildFails ==
  /\ thread[Me].step = "build"
  /\ Trouble
  /\ thread' = [thread EXCEPT ![Me] = Idle]
  /\ build' = NoBuild
  /\ logs' = Append(logs, Failure)
  /\ UNCHANGED <<now, diskVars, sharedVars, refreshed, cache, ready, modelVars, log, lifeVars>>

\* write_logs takes the rows off the queue before it opens the file.
WriteLogs ==
  /\ thread[Me] = Idle /\ logs # <<>>
  /\ logs' = <<>>
  /\ \/ log' = log \o logs /\ UNCHANGED <<lost, troubles>>
     \/ Trouble /\ lost' = TRUE /\ UNCHANGED log
  /\ UNCHANGED <<now, diskVars, sharedVars, thread, workVars, ready, modelVars, life, born>>
-------------------------------------------------------------------------------
(* The end of a process and the next one. *)

\* What a new process of node n knows; kept rows reach the log.
NewProcess(n, kept) ==
  /\ Trouble
  /\ open' = [open EXCEPT ![n] = -1]
  /\ published' = [published EXCEPT ![n] = {}]
  /\ thread' = [thread EXCEPT ![n] = Idle]
  /\ IF n = Me
     THEN /\ refreshed' = {} /\ cache' = <<>> /\ build' = NoBuild /\ ready' = <<>>
          /\ arrays' = Bundle /\ epoch' = 0
          /\ log' = log \o kept /\ logs' = <<>>
          /\ life' = life + 1 /\ born' = Len(log') /\ lost' = FALSE
          /\ used' = used \cup {[life |-> life', epoch |-> 0, arrays |-> Bundle]}
     ELSE UNCHANGED <<workVars, ready, modelVars, logs, log, lifeVars>>
  /\ UNCHANGED <<now, bin, json>>

\* SIGTERM: close writes what is queued.
Stop ==
  /\ NewProcess(Me, logs)
  /\ UNCHANGED <<scored, file, side, torn>>

Killed(n) ==
  /\ NewProcess(n, <<>>)
  /\ UNCHANGED <<scored, file, side, torn>>

\* The disk is full, or the process is killed, inside a record.
TornFrame(n, w, h) ==
  /\ Due(w, h)
  /\ NewProcess(n, <<>>)
  /\ Add(n, w, h, 1)
  /\ scored' = [scored EXCEPT ![w] = <<0, h>>]
  /\ torn' = torn \cup {<<n, h>>}
-------------------------------------------------------------------------------
Thread(n) == PublishBin(n) \/ PublishSide(n) \/ PublishNothing(n) \/ PublishFails(n)

Refresh == StartBuild \/ NoRefresh \/ Read \/ FinishBuild \/ BuildFails

Next ==
  \/ Advance \/ Apply \/ Refresh \/ WriteLogs \/ Stop
  \/ \E n \in Nodes : \/ Thread(n) \/ Killed(n)
                      \/ \E w \in Windows, h \in Hours : Frame(n, w, h) \/ TornFrame(n, w, h)

Spec == Init /\ [][Next]_vars
-------------------------------------------------------------------------------
Calibrations == [Workloads -> [Windows \cup {0} -> Nat]]
LogRows == [event : {"applied", "unchanged", "failure"}, epoch : Nat, hour : Nat,
            swapped : SUBSET Workloads, missing : SUBSET (Nodes \X Int)]

\* The epoch counts at most the refreshes of the process.
TypeOK ==
  /\ now \in 0 .. 3 * LastHour + 2 /\ troubles \in 0 .. MaxTroubles
  /\ scored \in [Windows -> {<<>>} \cup ((0 .. N) \X Hours)]
  /\ \A f \in {file, bin} : f \in [Nodes -> [Hours -> Seq(Windows \X (Nat \ {0}) \X {1, 2})]]
  /\ \A f \in {side, json} : f \in [Nodes -> [Hours -> Seq(Workloads)]]
  /\ open \in [Nodes -> Hours \cup {-1}] /\ torn \subseteq Nodes \X Hours
  /\ published \in [Nodes -> SUBSET Hours] /\ refreshed \subseteq Hours
  /\ thread \in [Nodes -> [step : {"idle", "sidecar", "refresh", "build"}, at : 0 .. now]]
  /\ \A i \in DOMAIN ready : ready[i].cal \in Calibrations
  /\ arrays \in Calibrations /\ epoch \in 0 .. Cardinality(refreshed)
  /\ used \subseteq [life : 0 .. life, epoch : Nat, arrays : Calibrations]
  /\ log \in Seq(LogRows) /\ logs \in Seq(LogRows) /\ born \in 0 .. Len(log)
  /\ life \in Nat /\ lost \in BOOLEAN

\* The hours a refresh at hour was built from, given what it missed.
HoursRead(hour, missing) == Keys(hour) \ missing

\* An array of workload k is the windows of these hours: every window a node
\* scored in one of them, each once, none of another hour or workload; a torn
\* record damages its own hour only.
IsWholeHours(array, k, read) ==
  /\ \A w \in Windows :
       \/ scored[w] \in read \cap torn
       \/ array[w] = IF scored[w] \in read /\ WorkloadOf[w] = k THEN 1 ELSE 0
  /\ read \cap torn = {} => array[0] = 0

\* A calibration is the windows of whole hours, those of its span that it does
\* not list as missing.
CalibrationIsWholeHours ==
  \A i \in DOMAIN ready : \A k \in Workloads :
    IsWholeHours(ready[i].cal[k], k, HoursRead(ready[i].hour, ready[i].missing))

\* No step changes a shared hour that another node may have read, but to remove
\* it: what is published again after a restart is the same.
SharedHoursAreFinal ==
  [][\A n \in Nodes, h \in Hours : json[n][h] # <<>> =>
       \/ bin'[n][h] = bin[n][h] /\ json'[n][h] = json[n][h]
       \/ bin'[n][h] = <<>> /\ json'[n][h] = <<>>]_vars

\* The calibration a row of the log stands for, read again from the shared copy.
Rebuild(row, k) ==
  Calibration(UNION {Records(x, 0) : x \in HoursRead(row.hour, row.missing)}, k)

StillShared(row) ==
  \A x \in HoursRead(row.hour, row.missing) : Shared(x[1], x[2]) # <<>> /\ x \notin torn

\* Places of the rows of this process, up to an epoch, that swapped the arrays of k.
Entries(rows, k, upTo) ==
  {i \in born + 1 .. Len(rows) :
     rows[i].event = "applied" /\ rows[i].epoch <= upTo /\ k \in rows[i].swapped}

\* The arrays behind a decision row of this process are those of the last
\* logged refresh up to its epoch that swapped its workload, and can be built
\* again from the shared copy ("so the p-values can be recomputed offline"),
\* unless rows of the log were lost.
RowsCanBeRecomputed ==
  LET rows == log \o logs IN
  \A u \in used, k \in Workloads : u.life = life /\ ~lost =>
    LET entries == Entries(rows, k, u.epoch) IN
    /\ entries = {} => u.arrays[k] = Bundle[k]
    /\ \A i \in entries : (\A j \in entries : j <= i) /\ StillShared(rows[i])
         => u.arrays[k] = Rebuild(rows[i], k)

\* Two decision rows of one process with the same epoch were scored with the
\* same arrays ("the epoch names a calibration state").
EpochNamesOneState ==
  \A u, v \in used : u.life = v.life /\ u.epoch = v.epoch => u.arrays = v.arrays

\* Every refresh a process began is under way, waits for the loop or left a
\* row: applied, unchanged or a failure (a build that raises is not tried again).
EveryRefreshIsAccounted ==
  ~lost => Cardinality(refreshed) <= (IF thread[Me].step = "build" THEN 1 ELSE 0) + Len(ready)
                                     + Len(logs) + Len(log) - born
===============================================================================
