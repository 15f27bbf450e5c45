--------------------------- MODULE SyscallCounters ---------------------------
(***************************************************************************)
(* How a syscall becomes a number of a feature window (the matched build). *)
(* The BPF programs of ebpf/pulse_counter.bpf.c add to words of a per-CPU  *)
(* value of the map pulse_cgroups; the loader (pulse_counter_loader.c)     *)
(* keeps the map's keys equal to the allow list, reads the words one by    *)
(* one while the programs go on, and prints a frame; the matched worker    *)
(* (pipeline/matched_worker.py) checks the frame and turns it into         *)
(* windows, from two baselines of its own: the words of the last snapshot  *)
(* (collector/extended_capture.py) and the counts of the last frame        *)
(* (full_delta).  Nothing locks the words, and the map's elements are      *)
(* preallocated: one that was deleted is used again at once.               *)
(*                                                                         *)
(* The pipe between loader and worker loses and reorders nothing, and the  *)
(* worker changes nothing the loader reads, so a frame is processed in the *)
(* step that prints it.  Transition bins, tokens and the resolver's        *)
(* metadata are left out: every target is a production container.          *)
(***************************************************************************)
EXTENDS Naturals, FiniteSets, FiniteSetsExt, Functions

CONSTANTS
  Cgroups,      \* cgroup ids; 0 is none
  Lists,        \* the allow lists the resolver writes
  NCpus,        \* CPUs 1 .. NCpus
  NIds,         \* syscalls 1 .. NIds
  Elements,     \* preallocated elements of the map (its max_entries)
  MaxCalls,     \* bound on the counted calls
  MaxFails,     \* bound on the failed updates of the task map
  MaxClock      \* bound on the frames

ASSUME CountersAssumption ==
  /\ Cgroups \subseteq Nat \ {0} /\ Lists \subseteq SUBSET Cgroups
  /\ NCpus \in Nat \ {0} /\ NIds \in Nat \ {0}
  /\ MaxCalls \in Nat /\ MaxFails \in Nat /\ MaxClock \in Nat

Cpus == 1 .. NCpus
Ids == 1 .. NIds
Skip == NIds + 1          \* seccomp_skipped_or_emulated, after full_counts
Words == 1 .. Skip

VARIABLES
  pulse_cgroups,  \* key -> element, for the keys in the map
  counters,       \* element -> CPU -> word -> count
  attached,       \* the programs are attached
  program,        \* CPU -> the run of a program on it
  running,        \* CPUs still in a run that began before the loader slept
  updateFails,    \* pulse_stats: updates of pulse_last_syscall that failed
  pc,             \* the loader's place
  desired,        \* the allow list as it was read
  todo,           \* keys the loader's present loop has still to visit
  per_cpu,        \* the loader's buffer of one value per CPU
  key,            \* the key it copies
  at,             \* how many words of the key's value were copied
  pending,        \* the snapshots of the frame: key -> word -> count
  clock,          \* half seconds
  previous,       \* the worker's counts of the last frame, per cgroup
  stream,         \* the stream's boundary and words of the last snapshot
  last,           \* boundary of the last frame; 0 is none
  windows,        \* the windows of the last frame, until the next
  rejected,       \* why the last frame was rejected; {} is accepted
  made,           \* cgroup -> syscall -> calls its programs counted
  reads           \* cgroup -> made as its last two copies began and ended

mapVars    == <<pulse_cgroups, counters>>
kernelVars == <<attached, program, running, updateFails, made>>
loaderVars == <<pc, desired, todo, per_cpu, key, at, pending, clock>>
workerVars == <<previous, stream, last, windows, rejected>>
vars == <<mapVars, kernelVars, loaderVars, workerVars, reads>>

Nothing == [x \in {} |-> 0]
Idle == [pc |-> "idle"]
Zero == [c \in Cpus |-> [w \in Words |-> 0]]
With(f, x, y) == [z \in DOMAIN f \cup {x} |-> IF z = x THEN y ELSE f[z]]
Total(count) == FoldFunctionOnSet(+, 0, count, Ids)
-------------------------------------------------------------------------------
Init ==
  /\ pulse_cgroups = Nothing
  /\ counters = [e \in Elements |-> Zero]
  /\ attached = FALSE /\ program = [c \in Cpus |-> Idle] /\ running = {}
  /\ updateFails = 0
  /\ desired \in Lists /\ todo = desired
  /\ pc = IF desired = {} THEN "stopped" ELSE "add"
  /\ per_cpu = Zero
  /\ key = 0 /\ at = 0 /\ pending = Nothing /\ clock = 0
  /\ previous = Nothing /\ stream = Nothing /\ last = 0
  /\ windows = {} /\ rejected = {}
  /\ made = [g \in Cgroups |-> [i \in Ids |-> 0]]
  /\ reads = Nothing
-------------------------------------------------------------------------------
(* The BPF programs.  One runs on a CPU at a time; between its steps the   *)
(* loader may read or change the map.                                      *)

Calls == SumFunction([g \in Cgroups |-> Total(made[g])])

(* The lookup of pulse_record_call; the programs of a cgroup that is not   *)
(* in the map return.                                                      *)
Enter(c, g, i, skipped) ==
  /\ attached /\ program[c] = Idle
  /\ g \in DOMAIN pulse_cgroups
  /\ Calls + Cardinality({d \in Cpus : program[d].pc = "count"}) < MaxCalls
  /\ program' = [program EXCEPT ![c] =
       [pc |-> "count", cg |-> g, id |-> i, skipped |-> skipped,
        element |-> pulse_cgroups[g]]]
  /\ UNCHANGED <<mapVars, attached, running, updateFails, made, loaderVars,
                 workerVars, reads>>

Add(c, w) == counters' =
  [counters EXCEPT ![program[c].element][c][w] = @ + 1]

(* A run ends with the entry of pulse_last_syscall, updated in place or    *)
(* inserted; an insertion can fail, which is counted.                      *)
Return(c) ==
  /\ program' = [program EXCEPT ![c] = Idle]
  /\ running' = running \ {c}
  /\ updateFails' \in {updateFails, updateFails + 1} /\ updateFails' <= MaxFails

Count(c) ==
  /\ program[c].pc = "count"
  /\ Add(c, program[c].id)
  /\ made' = [made EXCEPT ![program[c].cg][program[c].id] = @ + 1]
  /\ IF program[c].skipped
     THEN /\ program' = [program EXCEPT ![c].pc = "skip"]
          /\ UNCHANGED <<running, updateFails>>
     ELSE Return(c)
  /\ UNCHANGED <<pulse_cgroups, attached, loaderVars, workerVars, reads>>

CountSkip(c) ==
  /\ program[c].pc = "skip"
  /\ Add(c, Skip)
  /\ Return(c)
  /\ UNCHANGED <<pulse_cgroups, attached, made, loaderVars, workerVars, reads>>

Program(c) ==
  \/ \E g \in Cgroups, i \in Ids, skipped \in BOOLEAN : Enter(c, g, i, skipped)
  \/ Count(c) \/ CountSkip(c)
-------------------------------------------------------------------------------
(* The loader: refresh_targets, first adding, then deleting.               *)

Key == Min(todo)

(* An empty list ends the loader.                                          *)
ReadAllowList ==
  /\ \E list \in Lists :
       /\ desired' = list /\ todo' = list
       /\ pc' = IF list = {} THEN "stopped" ELSE "add"
  /\ per_cpu' = Zero

(* The buffer is the value that is inserted, and what the last successful  *)
(* lookup left in it.                                                      *)
FindTarget ==
  /\ pc = "add" /\ todo # {} /\ Key \in DOMAIN pulse_cgroups
  /\ per_cpu' = counters[pulse_cgroups[Key]]
  /\ todo' = todo \ {Key}
  /\ UNCHANGED <<mapVars, kernelVars, pc, desired, key, at, pending, clock,
                 workerVars, reads>>

(* In use are the elements of all keys, deleted ones included until the    *)
(* loader deletes them.                                                    *)
FreeOfTargets == Elements \ {pulse_cgroups[g] : g \in DOMAIN pulse_cgroups \cap desired}
Free == Elements \ Range(pulse_cgroups)

AddTarget ==
  /\ pc = "add" /\ todo # {} /\ Key \notin DOMAIN pulse_cgroups
  /\ \E e \in Free :
       /\ pulse_cgroups' = With(pulse_cgroups, Key, e)
       /\ counters' = [counters EXCEPT ![e] = per_cpu]
  /\ todo' = todo \ {Key}
  /\ UNCHANGED <<kernelVars, pc, desired, per_cpu, key, at, pending, clock,
                 workerVars, reads>>

(* E2BIG is not retried.                                                   *)
MapFull ==
  /\ pc = "add" /\ todo # {} /\ Key \notin DOMAIN pulse_cgroups
  /\ Free = {}
  /\ pc' = "stopped"
  /\ UNCHANGED <<mapVars, kernelVars, desired, todo, per_cpu, key, at, pending,
                 clock, workerVars, reads>>

(* A run of a program ends while the loader sleeps, if it began before.    *)
Sleep ==
  /\ pc' = "asleep"
  /\ running' = {c \in Cpus : program[c] # Idle}

KeptAll == DOMAIN pulse_cgroups
Kept == DOMAIN pulse_cgroups \cap desired

(* The keys that are not in the list are deleted last.  The first refresh  *)
(* comes before the programs are attached; a later one is followed by the  *)
(* snapshots.                                                              *)
DeleteTargets ==
  /\ pc = "add" /\ todo = {}
  /\ pulse_cgroups' = Restrict(pulse_cgroups, Kept)
  /\ per_cpu' = Zero
  /\ attached' = TRUE
  /\ IF attached
     THEN /\ pc' = "snapshot" /\ todo' = DOMAIN pulse_cgroups'
          /\ UNCHANGED running
     ELSE UNCHANGED todo /\ Sleep
  /\ UNCHANGED <<counters, program, updateFails, made, desired, key, at,
                 pending, clock, workerVars, reads>>

Wake ==
  /\ pc = "asleep" /\ running = {}
  /\ clock' \in {clock + 1, clock + 2} /\ clock' <= MaxClock
  /\ ReadAllowList
  /\ windows' = {} /\ rejected' = {}
  /\ UNCHANGED <<mapVars, kernelVars, key, at, pending, previous, stream, last,
                 reads>>
-------------------------------------------------------------------------------
(* The snapshots.  The kernel copies the value of one CPU after the other  *)
(* and a value word by word, in the order of its words; the loader adds    *)
(* up the copies.                                                          *)

CpuOf(n) == (n \div Skip) + 1
WordOf(n) == (n % Skip) + 1
Copies == NCpus * Skip

NextKey ==
  /\ pc = "snapshot" /\ key = 0
  /\ \E g \in todo :
       /\ key' = g /\ todo' = todo \ {g}
       /\ pending' = With(pending, g, [w \in Words |-> 0])
       /\ reads' = With(reads, g,
            [began |-> made[g], ended |-> made[g],
             before |-> IF g \in DOMAIN reads
                        THEN <<reads[g].began, reads[g].ended>>
                        ELSE <<>>])
  /\ UNCHANGED <<mapVars, kernelVars, pc, desired, per_cpu, at, clock,
                 workerVars>>

CopyWord ==
  /\ pc = "snapshot" /\ key # 0
  /\ pending' = [pending EXCEPT ![key][WordOf(at)] =
                   @ + counters[pulse_cgroups[key]][CpuOf(at)][WordOf(at)]]
  /\ IF at + 1 = Copies
     THEN /\ at' = 0 /\ key' = 0
          /\ reads' = [reads EXCEPT ![key].ended = made[key]]
     ELSE /\ at' = at + 1 /\ UNCHANGED <<key, reads>>
  /\ UNCHANGED <<mapVars, kernelVars, pc, desired, todo, per_cpu, clock,
                 workerVars>>
-------------------------------------------------------------------------------
(* The worker.  A frame is in cadence .35 to .8 s after another one.       *)

InCadence(gap) == gap = 1
Snapshots == DOMAIN pending
Delta(new, old, S) == [x \in S |-> new[x] - old[x]]

(* full_delta, from the worker's previous counts; a cadence gap clears     *)
(* them.                                                                   *)
Base == IF last # 0 /\ ~InCadence(clock - last) THEN Nothing ELSE previous
HasDelta(g) == /\ g \in DOMAIN Base
               /\ \A i \in Ids : pending[g][i] >= Base[g][i]
FullDelta(g) == Delta(pending[g], Base[g], Ids)

(* ExtendedFeatureStream.snapshot.                                         *)
ResetIfLower(g) == \E w \in Words : pending[g][w] < stream[g].words[w]
Reset(g) == \/ ~InCadence(clock - stream[g].boundary)
            \/ \E w \in Words : pending[g][w] < stream[g].words[w]
HardLoss == updateFails > 0
HasFeature(g) == g \in DOMAIN stream /\ ~Reset(g) /\ ~HardLoss
FeatureDelta(g) == Delta(pending[g], stream[g].words, Words)

(* What raises: the counts that are compared, in the frame, in a snapshot, *)
(* in a window of the stream, and between the two deltas.                  *)
Errors ==
  {x \in {"targets"} : Cardinality(Snapshots) # Cardinality(desired)}
  \cup {x \in {"integrity"} : \E g \in Snapshots :
          pending[g][Skip] > Total(pending[g])}
  \cup {x \in {"skips"} : \E g \in Snapshots :
          /\ HasFeature(g)
          /\ FeatureDelta(g)[Skip] > Total(FeatureDelta(g))}
  \cup {x \in {"totals"} : \E g \in Snapshots :
          /\ HasFeature(g) /\ HasDelta(g)
          /\ Total(FullDelta(g)) # Total(Restrict(FeatureDelta(g), Ids))}

Window(g) == [cgroup_id |-> g, start |-> stream[g].boundary, end |-> clock,
              delta |-> FullDelta(g), read |-> reads[g]]

Baseline(g) == [boundary |-> clock, words |-> pending[g]]

(* An error forgets both baselines of every cgroup.                        *)
Frame ==
  /\ rejected' = Errors
  /\ IF Errors = {}
     THEN /\ last' = clock
          /\ windows' = {Window(g) : g \in {h \in Snapshots :
                                             HasFeature(h) /\ HasDelta(h)}}
          /\ previous' = [g \in DOMAIN Base \cup Snapshots |->
               IF g \in Snapshots THEN [i \in Ids |-> pending[g][i]] ELSE Base[g]]
          /\ stream' = [g \in DOMAIN stream \cup Snapshots |->
               IF g \in Snapshots THEN Baseline(g) ELSE stream[g]]
     ELSE /\ last' = 0 /\ windows' = {}
          /\ previous' = Nothing /\ stream' = Nothing

EndFrame ==
  /\ pc = "snapshot" /\ key = 0 /\ todo = {}
  /\ Frame
  /\ pending' = Nothing
  /\ Sleep
  /\ UNCHANGED <<mapVars, attached, program, updateFails, made, desired, todo,
                 per_cpu, key, at, clock, reads>>

(* The loader ended, or the worker closes the segment; the next one has a  *)
(* loader and a map of its own, and no baseline.                           *)
NewSegment ==
  /\ pc \in {"stopped", "asleep"}
  /\ clock' = clock + 2 /\ clock' <= MaxClock
  /\ pulse_cgroups' = Nothing /\ counters' = [e \in Elements |-> Zero]
  /\ attached' = FALSE /\ program' = [c \in Cpus |-> Idle] /\ running' = {}
  /\ updateFails' = 0
  /\ ReadAllowList
  /\ key' = 0 /\ at' = 0 /\ pending' = Nothing
  /\ previous' = Nothing /\ stream' = Nothing /\ last' = 0
  /\ windows' = {} /\ rejected' = {}
  /\ reads' = Nothing
  /\ UNCHANGED made

Next ==
  \/ \E c \in Cpus : Program(c)
  \/ FindTarget \/ AddTarget \/ MapFull \/ DeleteTargets
  \/ Wake \/ NextKey \/ CopyWord \/ EndFrame \/ NewSegment

Spec == Init /\ [][Next]_vars
-------------------------------------------------------------------------------
Counts == [Words -> Nat]
PerCpu == [Cpus -> Counts]
Partial(S, T) == UNION {[D -> T] : D \in SUBSET S}

(* Every variable has the type its declaration tells.                      *)
TypeOK ==
  /\ DOMAIN pulse_cgroups \subseteq Cgroups
  /\ IsInjective(pulse_cgroups) /\ Range(pulse_cgroups) \subseteq Elements
  /\ counters \in [Elements -> PerCpu] /\ per_cpu \in PerCpu
  /\ attached \in BOOLEAN /\ running \subseteq Cpus
  /\ \A c \in Cpus : \/ program[c] = Idle
                      \/ /\ program[c].pc \in {"count", "skip"}
                         /\ program[c].cg \in Cgroups /\ program[c].id \in Ids
                         /\ program[c].skipped \in BOOLEAN
                         /\ program[c].element \in Elements
  /\ updateFails \in 0 .. MaxFails
  /\ pc \in {"add", "snapshot", "asleep", "stopped"}
  /\ desired \subseteq Cgroups /\ todo \subseteq Cgroups
  /\ key \in DOMAIN pulse_cgroups \cup {0} /\ at \in 0 .. Copies - 1
  /\ \A g \in DOMAIN pending : g \in Cgroups /\ pending[g] \in Counts
  /\ clock \in 0 .. MaxClock /\ last \in 0 .. clock
  /\ \A g \in DOMAIN stream : /\ g \in Cgroups /\ stream[g].words \in Counts
                              /\ stream[g].boundary \in 1 .. clock
  /\ \A g \in DOMAIN previous : g \in Cgroups /\ previous[g] \in [Ids -> Nat]
  /\ made \in [Cgroups -> [Ids -> Nat]]

(* A window of the matched worker counts calls of its own cgroup: all that *)
(* were made between the two copies it is taken from, perhaps some of      *)
(* those made while one of them went on, and none twice or of another      *)
(* cgroup; whatever was removed from the allow list and came back, however *)
(* late a frame was, and whatever a new element of the map began with.     *)
WindowsExact ==
  \A w \in windows :
    \A i \in Ids :
      /\ w.delta[i] >= w.read.began[i] - w.read.before[2][i]
      /\ w.delta[i] <= w.read.ended[i] - w.read.before[1][i]

(* A run of a program never adds to an element that belongs to another     *)
(* cgroup by now, although a deleted element is free at once.              *)
OwnElement ==
  \A c \in Cpus : program[c] # Idle =>
    \A g \in DOMAIN pulse_cgroups :
      pulse_cgroups[g] = program[c].element => g = program[c].cg

(* The worker rejects a frame only because a skip was copied ahead of the  *)
(* call it belongs to: keys and allow list agree, and the two deltas of a  *)
(* cgroup agree, over removals, late frames, rejections and segments.      *)
RejectedForSkips == rejected \subseteq {"integrity", "skips"}
===============================================================================
