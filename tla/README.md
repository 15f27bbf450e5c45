# Sentinel Pulse in TLA+

Sentinel Pulse (`src/sentinel_pulse/`) watches the containers of a Kubernetes
cluster. eBPF programs count system calls per container; every half second a
worker on each node turns the counts into a window, scores it and, when enough
windows of a container are anomalous, writes a *preview* row. The alert bridge
makes episodes and alerts of these rows, the RCA service makes evidence cases.
Nothing is blocked: a lost row is an attack nobody hears of, a false one is a
call at night, and both happen silently. This directory holds the
specifications of the parts where that is decided by the order of steps.

    BPF programs --map--> loader --pipe--> matched worker <--TCP--> peers
                                              |  AsyncSink
                                              v
                                segments/sNNNNN/decisions.jsonl
                                   |                   |
                                   | follower (ssh)    | follower (ssh)
                                   v                   v
     Alertmanager <--push-- alert bridge          RCA service
     Prometheus   --pull-->    |  ^                  |
            \---- webhook ----/   |                  |
                 triggers.jsonl --|----------------->|
                                  \---- cases/ ------/

## 1. Inventory

| part (source under `src/sentinel_pulse/`) | state it keeps | operations | what is hard about it | what makes it correct |
|---|---|---|---|---|
| **Kernel counters** `ebpf/pulse_counter.bpf.c` | map `pulse_cgroups` (a value per CPU), last call per task, failures | `pulse_record_call` on `sys_enter` and on a seccomp skip | no lock: the loader reads and changes the map under running programs | a call is counted once, for its own cgroup |
| **Loader** `ebpf/pulse_counter_loader.c` | keys of the map, a buffer it uses for lookups *and* inserts | `refresh_targets`, `print_snapshots`, drain of tokens | inserts before deletes in a map that may be full; elements are reused at once | the printed keys are the allow list's; a snapshot is the counters' |
| **Token probe** `ebpf/pulse_tokens.bpf.h`, `drain_grams` of the loader | map `pulse_grams` (keys name the half second), last tokens per thread in an LRU map | `pulse_tok_emit` on entry, skip and return; drain after a boundary | no lock between drain and programs; history outlives moves and evictions | a closed window is printed once and whole; a gram is a run of one thread in one cgroup |
| **Resolver** `collector/cgroup_resolver.py` | allow list and metadata, two files | `refresh` every 15 s | two files that change one after the other | the two agree for the targets in use |
| **Features** `collector/features.py`, `extended_capture.py` | the last snapshot and ten rates per container | `snapshot`, `ingest` | baselines reset in several places | a window is the difference of two snapshots of one container |
| **Matched worker** `pipeline/matched_worker.py` | counts of the last frame, histories, segment, `STATUS.json` | frame, rejection of a frame, checkpoint, new segment, resume | two baselines in one process; crash, full disk, loader death | windows are exact; a rejected frame leaves nothing behind |
| **AsyncSink** `pipeline/async_sink.py` | queue, thread, handle, error | `write`, `_run`, `close` | two threads, any call may fail | a sealed file holds every line |
| **Peer exchange** `pipeline/peer_exchange.py` | a queue per subscriber, an inbound queue | `publish`, `drain`, accept, follow | loses windows by design | a loss never hides an alert |
| **Novelty, policy** `detector/novelty.py`, `candidate_policy.py`, `confirmation.py` | windows of the last span, deque of *n* flags | `observe`, `evaluate`, `update` | history over gaps and segments | *k* of the last *n* consecutive windows |
| **Tripwire** `rules/tripwire.py` | the reference of a workload | `observe`, `judge` | reference complete only after a grace | as above, once it judges |
| **Detector models** `detector/*` | calibration arrays | scoring, fitting | numerical | out of scope (floating point) |
| **Live recalibration** `pipeline/live_recalibration.py`, `retention.py` | hours of scores, shared hours, epoch | `tick`, `publish`, `build`, `apply`, `add` | thread beside the loop, shared directory, crash | an epoch names one calibration state; every refresh leaves a row |
| **Followers** in `ops/alert_bridge.py`, `rca/service.py`; `detector/candidate_shadow.py`, `common.py` | segment, offset, a torn line | read, look for a newer segment, switch | read and look are two steps | whole lines, in order, segment drained |
| **Alert bridge** `ops/alert_bridge.py` | episodes, pushes, retries, delivered keys | `ingest`, `tick`, `attach_cases`, push thread, `webhook`, `metrics` | three kinds of threads, retries, restart | episodes apart, alerts end, one trigger each |
| **RCA service** `rca/service.py` | SQLite: cursor, cases, events; case files | `tail_triggers`, `observe_trigger`, `emit_cases`, `maintenance` | files and transaction are not atomic; crash | every trigger has a case; cases are bounded |
| **RCA analysis** `rca/tree.py`, `ranking.py`, `triage.py`, `connect.py`, `runtime_tree.py` | none | pure functions | corner cases of ordering and ties | deterministic, bounded |
| **Recovery** `collector/capture.py`, `telemetry_recovery.py` | incidents, budgets, errors, a builder per container | `step`, `replay`, `ingest` | three things forget together; sticky errors, budgets | no window over an incident |
| **Runs** `collector/extended_collection.py`, `matched_worker.run`, `AsyncState` | `STATUS.json`, segment directories, `TERMINAL.json` | segment, checkpoint, seal, resume, wait for storage | crash between any two writes, failing close, a thread for the status | a seal is true for ever; a resumed run completes |
| **Offline** `attack/`, `lidds/`, `syscall_study/`, `scripts/` | none | evaluation of recorded files | none concurrent | out of scope |

The parts interact by a pipe (loader, worker), TCP (peers), append-only files
read over ssh (worker to bridge and RCA service), HTTP (bridge, Alertmanager,
Prometheus), one trigger file (bridge to RCA service) and a directory of case
files (RCA service to bridge). `PROJECT.json` lists the hazards of each part at
the line where they bite.

## 2. Modules

| module | models | state and actions |
|---|---|---|
| `SegmentLog` | what a JSONL file of a segment promises (abstract) | `given`, `visible`, `sealed`; `Accept`, `Publish`, `Seal` |
| `AsyncSink` | `AsyncSink` | one action per step between two blocking points of `write`, `close` and `_run`; `loop` and `writer` are the places of the scoring loop and of the thread; any call on the file may raise |
| `CaptureRun` | the runs of the matched worker (with `AsyncState`) and of the extended collection; `kind` says which | `doc` in memory, `status` and `terminal` on disk, per segment what its sinks were given, what the files hold, what a failed write `lost`, the seal; `Start` (resume), `OpenSegment`, `Frame`, `Checkpoint`, `CloseSink`, `Seal`, `WaitForStorage`, `ExpandBudget`; `Kill`, `Signal`, `LoaderGone`, failing closes and writes at any place; `SinkDies` ends the thread of a sink, also under a loop that waits in `put` (place "blocked"), `WriteRaises` is the next write to it |
| `SegmentFollowers` | writer of the segments and both follower scripts | a line is two pieces so that reads tear it; `Read`, `Look`, `CheckBridge`, `CheckRca`, `Reconnect`; the writer spills at any byte, closes, is killed |
| `CandidateShadow` | the segmented follower and the histories of the shadow scorer | `ReadLine`, `ReadNothing`, `LookForTerminal`, `OpenNext` beside a collection that spills, seals or dies; `histories` with eviction, `stacked` what the last score was computed from |
| `SyscallCounters` | BPF programs, loader, frame core of the worker | `Enter`, `Count`, `CountSkip` per CPU; `FindTarget`, `AddTarget`, `MapFull`, `DeleteTargets`, `NextKey`, `CopyWord` (one word at a time), `EndFrame` with the worker's `Frame`; `NewSegment` |
| `TokenDrain` | token programs, map of grams, drain of the loader | per thread `EnterCall`, `ReturnFromCall`, then `LookupGram`, `AddGram`, `InsertGram`, `LookupAgain`, each a step of its own; `Wake`, `BeginDrain`, `CopyGram` (one key at a time), `PrintLines`, `DeleteGram`, `EndDrain`, `Stop`; `Evict` and `Move` are the kernel's. `story` and `counted` are what really happened |
| `RecoveryCapture` | capture with recovery: snapshots, tracker, builders, resolver | `Boundary` with any interval and lag, idle, slow and unnamed containers; `WriteTargets` and `WriteMetadata` apart; `journal` holds the boundaries |
| `PeerPolicy` | exchange, novelty, discount, confirmation, tripwire | `Connect`, `Disconnect`, `Publish`, `Transfer`, `Frame`; beside the worker's decision the one of a *twin* that hears every window |
| `LiveRecalibration` | score buffers, shared hours, the recalibration thread and the swap | `file`/`side` per node and hour, `bin`/`json` their shared copies; a sorted array of scores is the count of each window in it; `Frame` (with `Apply`), `PublishBin`, `PublishSide`, `StartBuild`, `Read`, `FinishBuild`, `WriteLogs`; `Stop`, `Killed`, `TornFrame`, `PublishFails`, `BuildFails` |
| `AlertBridge` | alert bridge with Alertmanager and Prometheus | `Ingest`, `Tick`, `Ticks`, the push thread's `TakePush`, `PostSucceeds`, `PostFails`, `Note`, `TakeRetry`; `Webhook`, `Restart`; one action per critical section of the lock |
| `RcaService` | cases of the RCA service | `db` is the open transaction, `disk` the committed one; `Deliver`, `TailTriggers`, `Emit`, `Maintenance`, `Shutdown`, `Crash`, `Advance` |
| `AlertPath` | what bridge and RCA service share: the containers, one host's clock and its bound | no action of its own |
| `MC...` (four) | values and symmetry for TLC | elements, threads, cgroups are interchangeable |
| `...Proofs` (eight) | proofs | section 5 |

Where the components meet: what `AsyncSink` puts in the file (a prefix, by
`SegmentLog`) is what the writer of `SegmentFollowers` spills, and its failing
close is the one of `CaptureRun`; the seals of `CaptureRun` are the
`TERMINAL.json` that `CandidateShadow` waits for, and its newest segment the one
`SegmentFollowers` looks for; the windows of `SyscallCounters` are the frames of
`PeerPolicy` and `LiveRecalibration`; the preview rows of `PeerPolicy` are the
rows `AlertBridge` ingests; its `triggers` are those `RcaService` reads, and the
files `RcaService` writes are the `cases` of `AlertBridge`. The models are
composed only where the interaction itself is hard: `SyscallCounters`
(programs, loader, worker), `TokenDrain` (programs, loader), `PeerPolicy`
(exchange, policy, tripwire), `RecoveryCapture` (resolver, loader, capture,
tracker), `CandidateShadow` (collection, follower, scorer). Where one module
of proofs is about two components, the names of one of them carry a prefix
(`Rca`, `Recovery`, `Shadow`): both are extended there, not composed.

Operators whose comment begins with "Mistake" are plausible bugs of the
definition that follows; no specification uses them (see the end of section 3).

## 3. Runs

`tlc -config <cfg> <module>`; CHECK_DEADLOCK is off where the clock or a count
is bounded, where a run ends, or where the code itself can stop for ever.

| run | shows | bounds, and why they are enough |
|---|---|---|
| `async_sink` | no line lost, reordered or duplicated; a successful close leaves a complete durable file; implements `SegmentLog`; lines get into the file without a close; calls return, except on the full queue of a dead thread | queue of 2, batches of 2, 4 lines: the producer blocks, batches fill, STOP comes alone and behind lines; every call fails once anywhere |
| `async_sink_error_hangs` | *finding*: after a write error the loop can hang in `put` | the smallest queue |
| `capture_run` | a seal holds every line but those a failed write took, and never changes, the open segment is the newest; a completed run has its duration and its last status; the time a checkpoint of the collection claims lies between frames in its files, or taken by a failed write; the run completes, or its worker is blocked for ever on the full queue of a dead sink | both programs, 2 frames (the duration is reached in one segment or over several), 2 troubles of any kind at any step: a kill while a failing close is on its way out, a full disk after a restart, both sinks dead; 6 segments are never all used |
| `segment_followers` | printed text is whole lines in order; the bridge drains a segment before it leaves; lines are printed | 3 segments (one can be skipped), 3 lines of 2 pieces, 2 connections |
| `candidate_shadow` | a scored context is consecutive, whole windows of one container; the follower takes the last whole line; it leaves sealed segments | 2 containers over 1 history: eviction; 3 rows over 2 segments: one is lost in between; intervals of 5 and 9 tenths around a largest gap of 8 |
| `syscall_counters` | a window counts all calls between two copies, none twice or of another cgroup; no program touches a foreign element; frames are rejected for skips only | 3 cgroups over a map of 2 elements: a list that does not fit, a target that leaves and returns, an element with another's counts; 2 calls, 1 failed update; 4 half seconds hold two windows, or one and a gap |
| `token_drain` | a window is printed once and whole; nothing old stays in the map; grams are runs | 2 threads on their CPUs race for a key; a map of 1 key refuses the second; 5 half units hold two drains; 1 move, eviction or new list, 2 calls of either kind. Larger maps, more slots and lines of several keys are covered by the proofs |
| `recovery_capture` | an eligible row and its history are clean windows after the last bad boundary; the budgets are what the journal says | histories of 2 fill in 4 boundaries, so 9 hold one full history before and one after an incident; intervals that are regular, short, recoverable (9), not within the budgets (30), beyond repair (31); 3 troubles |
| `peer_policy` | a lost window never takes a preview or a judged alert away; preview is *k* of *n* consecutive windows | one syscall id (novelty is per set, so one id that is or is not in it decides), 2 of 2, queue of 1 and 2 peer windows: one is lost; 3 windows make a run, a gap, an overlap |
| `live_recalibration` | a calibration is whole hours; the rows of the log rebuild the arrays behind a decision; an epoch names one state; every refresh leaves a row; a shared hour does not change | 2 nodes (one may be missing), 2 windows of 2 workloads, a span of 2 of 3 hours slides once over the cache; 1 trouble: restart, kill, torn record, failed publication, build or log write |
| `alert_bridge` | episodes of a container are apart; an alert ends three refreshes after its last row at the latest; a start arrives or failed twice; one trigger per episode | 1 container (the code keeps containers apart by key), 2 episodes, 7 units: the clock passes the time an episode is forgotten; 2 troubles together, failed posts and restarts, so a post can fail twice, or once around a restart; 1 case |
| `rca_service` | cases apart, follow-ups capped; a read trigger has a case; committed emitted cases have files; cases are written | 3 triggers (case, follow-up or refused, case after the cooldown), 1 crash anywhere, retention of 1 case |

Each property of a passing run has a mutant in `PROJECT.json`: one of the
"Mistake" operators (a missing reset, a wrong bound, a key that forgets a part)
takes the place of the definition, and the run then finds the property violated.

### Fairness

* `AsyncSink`: the operating system schedules the thread, and a scoring loop
  that is *inside* a call (`InCall`); nothing forces the loop to call. Only
  the finding's specification (`BusySpec`) has the loop go on writing, which is
  what the worker does.
* `CaptureRun`: the units have `Restart=on-failure` and
  `StartLimitIntervalSec=0` (`matched_services.py:36` and `:52-56`,
  `systemd/sentinel-pulse-extended-collection.service`), so `Start` is fair; a
  process that is not blocked runs, as does the state thread, the loader sends a
  frame every half second, a full disk is cleared some time. At "blocked" no
  action of the process is enabled: the units have no watchdog, and a process
  that does not end is not restarted, so only a kill (a trouble, not fair) leads
  on. Calls on the file system are assumed to return, with success or an error.
  Troubles are not fair, and bounded.
* `SegmentFollowers`, `CandidateShadow`: the readers are `while True` loops; the
  worker and the collection may stop.
* `RcaService`: `run()` calls the three operations in turn for ever, and time
  passes. Crashes and triggers are not fair.
* The other modules have safety properties only.

### Assumptions

* A run of a BPF program ends within the loader's half-second sleep, and
  programs on one CPU do not interrupt each other (raw tracepoints run with
  preemption off). `OwnElement` depends on the first. The kernel copies a value
  word by word in ascending order; a 64-bit word is read whole. The lookup in
  `refresh_targets`, whose result is only used as a starting value, is one step.
* `TokenDrain`: a program ends within the 20 ms of `PULSE_DRAIN_GUARD_NS` (the
  comment at `pulse_counter_loader.c:293` says microseconds). The loader reads
  the clock for `now_window` once more behind the snapshots; they are assumed to
  take less than the rest of the half second, so that `now_window` is not read
  inside the next guard. The interval is 500 ms. A failing insert into the LRU
  map leaves the thread without an entry, like an eviction.
* `CandidateShadow`: the boundaries of the collector are so regular that two of
  its intervals never fit into one `max_gap_seconds` (`ShadowAssumption`);
  otherwise a lost row in between could not be seen from the times.
* `LiveRecalibration`: a window is scored before the publish delay (60 s) after
  its hour has passed (`Due`). The pipe and the loop would have to be that far
  behind to break it; neither `ScoreBuffer.add` (`retention.py:64`) nor the frame
  (`matched_worker.py:284`) checks it. `SharedHoursAreFinal` and
  `CalibrationIsWholeHours` rest on it: a later window would be in the file and
  not in the shared copy.
* The pipe from loader to worker is first in, first out and loses nothing.
* A killed process leaves a prefix of what it wrote in the file.
* Alertmanager replaces an alert by a later one with the same labels, and may
  repeat a firing alert to the webhook at any time.

## 4. Findings

`async_sink_error_hangs`: `async_sink.py:40` and `:89` wait on a full queue
without looking at `self.error` again. When the thread dies meanwhile, the
scoring loop waits for ever, against the test that a write error surfaces. What
this means for a run is in `CaptureRun`: the worker stays at "blocked" without
`TERMINAL.json`, and the service manager does not start it again. `RunCompletes`
names this as the one way not to complete.

What the models also show, without a run of its own. Each is a behaviour the
model of the component contains, and the properties above are stated so that
they say what holds beside it:

* `rca/service.py:56-60` reads the rest of a segment into its buffer and then
  clears it; whole lines are lost, against the comment at line 35. The bridge's
  script seeks back and is correct (`BridgeDrains` is about it alone).
* The counter of skips is copied after the counter of calls
  (`pulse_counter.bpf.c:216` and `:233`), so a skip can be seen without its
  call; `extended_capture.py:34` and `:57` then raise, which throws away the
  frame and the histories of all containers (`RejectedForSkips`: for nothing
  else). With the frame its token rows are lost (`matched_worker.py:312`).
* A lost peer window can leave the tripwire with `no_reference`
  (`tripwire.py:78`), so that it never alerts; hence `JudgedAlertsMore` speaks
  of windows it judges. `peer_exchange.py:6-7` promises more.
* Pushes without an episode, the triage alerts, are never retried
  (`alert_bridge.py:180`, `:342`): the second part of `StartArrives`.
* A case file written before a crash and not written again (`rca/service.py:523`,
  `:535-541`) is in no row of the database, and retention never finds it.
* After a restart the epochs begin at zero again while `recalibration.jsonl` is
  appended to (`live_recalibration.py:85`, `:208`): in the whole log one number
  stands for two states, against `live_recalibration.py:9-10`;
  `live_recalibration_check.py:61` and `:79` key on the epoch alone.
  `EpochNamesOneState` and `RowsCanBeRecomputed` hold within a process.
* After a failed write CPython's text file has dropped the chunk it could not
  write, and a later flush of the same file succeeds. The collection therefore
  leaves a segment with an `OSError`, flushes, and seals it without the lost
  lines (`extended_collection.py:135`, `:201-206`), and `STATUS.json` counts
  their time; so does the worker for its plain files (`matched_worker.py:331-337`).
  `SealsHold` and `ClaimsAreBacked` hold less what was `lost`, which is zero
  until a write or flush of the segment has failed.
* The follower of the shadow scorer stays with the segment of a killed
  collection for ever, because that one is never sealed (`candidate_shadow.py:105`),
  and leaves a sealed one without reading again.
* The history of a thread goes on over a stay in a cgroup that is no target
  (`pulse_counter.bpf.c:263-264`: "a thread that moved cgroup starts a new
  history"); `story` in `TokenDrain` has the monitored tokens only, and
  `GramsAreRuns` is about these.

## 5. Proofs

`tlapm` checks every theorem; none depends on a bound of the configurations.

**`AsyncSinkProofs`** (every capacity, batch size and number of lines):
`TypeCorrect`, `NothingMissing` (what reached the handle is a prefix of what was
accepted), `SealComplete` and `Implementation` (`AsyncSink` implements
`SegmentLog`). `SealedHoldsEveryLine` is not inductive: a closed file says
nothing of the queue. The invariant `IInv` adds where the lines are (`Flow`:
file, buffer, batch and queue together are the accepted lines, unless a call
failed), and where STOP is (last, once, and only behind all lines), so an empty
queue at the end of the thread means that all lines are in the handle.

**`CaptureProofs`**, of `CaptureRun` (every duration, budget, number of segments
and troubles): `SegmentsHold`, `CompletedIsFinal`, and `SealsAreForEver`, that no
step changes a seal or the files of a sealed segment. The next number comes from
a checkpoint that may be old, so the invariant says that the directories are
numbered without a hole and that no document, in memory, with the state thread
or on disk, is ahead of them; `PlaceOK` ties the place of the process to an
unsealed newest segment whose files are complete before the seal, `EndOK` says
that the state thread is idle when the last status is written.
`CollectionsAreBacked` (`ClaimsAreBacked`): the documents of a collection claim at
most the intervals that lie between what the segments' files hold or a failed
write took, one less than the frames of each segment, and outside of a segment
what its sinks were given is in the files or lost; the lemmas on sums over a
finite set give what one more frame does to the sum. Both are stated for failing
writes too: `Flushed` brings everything but the lost frames into the files.

Of `RecoveryCapture` (every profile, container set and sequence of boundaries):
`TypeCorrect` and `RowsAreClean`. Between boundaries every builder holds
consecutive good windows that begin after the last bad boundary and end by its
last snapshot (`BuilderOK`, `Clean`): the tracker, the builders and the
eligibility forget together although each has its own condition.
`IncidentsAreCounted` (`IncidentsAreAccounted`): incident, excluded and longest
time are recomputed from the journal of all boundaries; a new boundary adds its
interval to the sums of the incident it continues or opens, and to no other.

**`SegmentFollowersProofs`** (every number of lines, segments, connections):
`LinesInOrder` and `BridgeLeavesDrained`. A reader sees torn text, so the
invariant is about texts: file and buffer together are one fine text (every
line two pieces side by side, numbers rising), also from segment to segment
(`Streams`); what was printed lies below all that is not behind the script
(`OutBehind`); the buffer joins what was read and what comes (`JunctionOK`);
`BridgeOK` adds what the bridge's seek back leaves.

**`DetectorProofs`**, of `PeerPolicy` (every *k*, *n*, gap, span, queue bound and
syscall set): `TypeCorrect`, `LossesKeepPreviews`, `LossesKeepJudgedAlerts`. A
preview depends on earlier windows, so the property of one row is not inductive
either. The invariant compares the worker with its twin: what the worker holds of
the peer is part of what was published (`PartOfSent`), hence the discount is
smaller and every flag set in the twin's deque is set in the worker's; the count
of flags is monotone in that order. `ConfirmsKOfN` (`KOfNConsecutive`): the deque
is emptied at a gap and bounded, the property counts over the whole history; the
invariant says that the deque is the flags of the last *n* windows of the longest
consecutive run at the history's end.

Of `CandidateShadow` (every cadence of `ShadowAssumption` and every bound):
`ShadowTypeCorrect` and `ContextsHoldConsecutiveWindows`
(`ContextsAreContiguous`). The scorer sees times, not which rows were lost. The
invariant has a timeline (boundaries are an interval apart, one row per container
and boundary), says that a file or a buffer holds only rows that were made, and
that every history is a chain of successive rows. The step needs the cadence: two
rows that are `MaxWindowGap` apart have no third between them, which would leave
two intervals in the gap.

**`SyscallCountersProofs`** (every number of cgroups, CPUs, syscalls and
elements, every allow list): `ElementsAreOwn`, `OnlySkipsReject`,
`WindowsAreExact`. For the first, the element of a running program is its
cgroup's or nobody's, and nobody's only between the deletions and the end of a
sleep that waits for that very run (`Elemental`): so no element is given away
while a program still holds it. For the second, the loader's loop variant
(`FrameInv`: keys still to visit and pending snapshots together are the allow
list), and the equality of the worker's two baselines, which are reset under
different conditions. For the third, a number per cgroup and syscall that does not
change while the cgroup is in the map: the sum of its words over the CPUs minus
its calls, that is what the element began with (`CopiesHold`). Every copy lies
between the calls when it began and those when it ended, plus that number; for a
copy under way, what is added up and what is still to read do together. The number
cancels in a window because a baseline that a window may use (`Steady`) is of the
last frame, and its cgroup has not left the map since. The sums are carried
by the invariant as partial sums (`Sums`), and the order of the copies is
arithmetic (`PlaceOfCopy` to `AllCopied`).

**`TokenDrainProofs`** (every number of threads, cgroups, slots, keys, calls and
half seconds): `WindowsComplete`, `ClosedAreGone`, `GramsOfRuns`. The invariant
says that a program works on a window the loader has not drained (`ProgramsOK`,
from the guard), so the copy of a closed window equals the map until it is
deleted (`LoaderOK`); for each key, what was counted is in the map, was refused,
or was drained (`AccountsOK`). For the grams: the history of a thread is the
end of its story (`Ends`, `RunAt`). `DrainsSettle` is an action property of the
same invariant: a printed line never changes, and no step counts or refuses a gram
for a half second before that of the last drain.

**`LiveRecalibrationProofs`** (every number of nodes, windows and hours):
`EpochsAreStates`, `RefreshesAreAccounted`, `CalibrationsAreWholeHours`,
`RowsRebuildArrays`, `SharedHoursStay` and `TypeCorrect`. The first compares the rows with the arrays in use: the
newest epoch is theirs, and a swap opens a new one (`EpochInv`). The second counts
(`Account`): refreshes begun are those under way, waiting, written or on their way
to the log. The third follows a window from its frame to the arrays. An hour that
is over and past the publish delay gets no more windows (`ScoreStep`,
`OverStays`), so what is true of it stays true; until its files are removed, the
file of an hour without a torn record is its windows, two pieces each, with
workload numbers of its sidecar (`FileInv`); the shared copy is the same once its
sidecar is there, and between the two renames the `.bin` alone is
(`SharedInv`, `AtSidecar`); the cache and the parts of a build are whole hours
(`BuildInv`), a queued calibration counts each window of them once (`ReadyInv`,
`CalibrationOfHours`). The fourth adds, for every decision row, that the last
logged refresh up to its epoch that swapped the workload is what its array stands
for (`UsedInv`): whole hours without torn records are one array, so reading
the same hours again gives it (`WholeHoursAreOne`). A torn record excuses its hour
only: `HourOK` keeps what the other hours need, that no record of the damaged one
carries a window of another. `SharedHoursStay` is an action property: while the
worker still has the file an hour was published from, the shared copy equals it,
torn or not (`SameInv`), and no frame reaches that file any more, so publishing
again after a restart changes nothing. `TypeCorrect` needs a count: epochs, queued
refreshes and the one under way are at most the refreshes begun (`CountInv`).

**`AlertPathProofs`**, of `AlertBridge` (every number of containers, episodes,
pushes, retries and restarts): `SilenceSeparatesEpisodes`, `AlertsExpire`,
`StartsArrive`, `DeliveriesAreSingle`. The invariant says that the open episode of
a container is the one that is known and has no end (`OpenOnes`), that every end
is a silence after the last row (`Times`), and of every push, wherever it waits,
that the alert it makes has ended or ends in time (`Queues`). A delivery is single
because the bridge forgets an episode only when no alert of it can fire any more
(`Once`, `Over`): neither the set of deliveries nor the table of episodes says so
alone. `OverIsFinal` is an action property: an episode that ended, or that a
restart lost, gets no further row, no other end, and is not known again.

Of `RcaService` (every number of triggers, crashes and retained cases):
`CasesKeepTheirDistance`, `TriggersHaveCases`, `CommittedCasesHaveFiles`. The
invariant holds of the open transaction and of the committed one (`Sound`), and
the second is an earlier state of the first (`Continues`), so a crash goes back to
a state in which cases and cursor agree; the triggers behind it are judged again,
as the same cases. The numbers of the cases order them although several may have
the same time. `CommitsStay` is an action property: no step takes back a committed
case or cursor, or adds a case for a trigger behind the cursor (`CommitsExtend`).

The constants are assumed to be what the module says (the named ASSUME at its
head); TLC evaluates these on each run. Those that are more than types are the
code's: a refresh is later than now and the bridge tries at least once
(`BridgeAssumption`), a cooldown is positive and no shorter than the time to a
follow-up (`ServiceAssumption`), the budgets of a profile are ordered
(`ProfileAssumption`), two intervals exceed the largest gap (`ShadowAssumption`).

What the proofs changed in the statements: `EmittedCasesHaveFiles` used to count
later triggers only, which does not hold when cases of two containers are opened
at the same time: retention (`order by created desc`) chooses among these, so the
property counts them as well. `ContextsAreContiguous` says in addition that the
rows rise.

Only model-checked: all liveness properties (`LinesReachTheFile`, `CallsReturn`,
`LinesArePrinted`, `RunCompletes`, `LinesAreTaken`, `SealedSegmentsAreLeft`,
`CasesAreWritten`), which need fairness and ENABLED.
`TypeOK` of some modules is a definition without a run, and the action properties
`CommitsExtend`, `EpisodesContinue` and `DrainedIsFinal` are stated with their
theorems: the runs are spent on other properties.

## 6. Plan

Done: the path of a decision from the kernel to the case, and a theorem for every
safety property of the runs. What is left, in this order:

1. Type correctness of `AlertBridge`, `RcaService`, `CaptureRun` and
   `SyscallCounters`, whose type invariant is not a theorem yet.
2. Transition bins and the consistency retry of the legacy loader: a copy whose
   bins sum to its total is a prefix of the calls of each CPU.
3. The token rows of the worker behind `TokenDrain`: which window they join.
4. The event ring and the content of a case in `RcaService`; ranking and triage
   of cases as functions checked against a declarative reference.
5. `RotatingJsonlFollower` of `common.py`.

## 7. Not modelled, and why

Scores, feature columns and calibration ranks are floating point; they enter as
"passed or not". The contents of a token with its walk to a directory, the
scoring of grams, the wording of alerts, pages and rows, hashing and
configuration are data or text. Of the token probe the tracepoint variant is
modelled, not the 39 fexit programs that give the same tokens. TCP and ssh are
connections that are up or down. The analysis of a case (`rca/tree.py` and its
neighbours) is a chain of pure functions over strings and weights. The
wall-time limit of a capture and the estimates of availability are left out.
Probes for measurement (`syscall_histogram`, `visibility_probe`,
`seccomp_fixture`) share no state with the system.

What single definitions leave out:

* `CandidateShadow`: `--max-gap-seconds` up to 1.5 is accepted
  (`candidate_shadow.py:124`); from two intervals on `ShadowAssumption` does not
  hold, and nothing is claimed.
* `RecoveryCapture.Assembled`: empty metadata counts as a failed read
  (`capture.py:171`) and is covered by `stale`.
* `AsyncSink.CloseFlush`: a failed flush keeps the rest; the file may drop it, and
  close raises in both cases.
* `RcaService.TailTriggers`: lines that are no trigger (`service.py:283`, `:428`) open
  no case; a replaced or truncated trigger file is not read any further
  (`:417-418`); a read takes at most 1 MiB (`:421`), the rest comes with the next
  one. `Emit`: the two files of a case are one step, and only `OSError` (`:596`) ends
  it early.
* `AlertBridge.PostFails`: only the errors `push_worker` catches (`alert_bridge.py:341`);
  another one ends the push thread.
* `PeerPolicy.InReference`: all windows begin after the reference span does
  (`tripwire.py:60`). `Broken`: the tolerance of 0.25 s for an overlap
  (`confirmation.py:62`) is below the model's unit of time. Frames the worker rejects
  (`matched_worker.py:311`) are in `SyscallCounters`.
* `SyscallCounters.Reset` compares the count of every id where the code compares
  tracked ids, bins and transitions (`extended_capture.py:41-42`); `InCadence` has one
  unit for .35 to .8 s.
* `LiveRecalibration.Keys`: a node that has never published has no directory and is
  not listed (`live_recalibration.py:157`); here its hours are missing, and what is
  read is the same.

Most lines of the repository are not part of the running system: `attack/`,
`lidds/`, `syscall_study/`, `scripts/`, `docs/` and `testbed/` evaluate recorded
files, draw figures, plan or start experiments, once and by hand, without
concurrency and without state that outlives a call. The modelled share of all
lines stays small for that reason; of the services that decide, the modules
cover what keeps state.
