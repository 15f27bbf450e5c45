------------------------------ MODULE TokenDrain ------------------------------
(***************************************************************************)
(* The token probe (ebpf/pulse_tokens.bpf.h) and the drain of its grams    *)
(* (ebpf/pulse_counter_loader.c, drain_grams).  Programs on all CPUs count *)
(* grams in one hash map under keys that name the half second; the loader  *)
(* wakes 20 ms after a boundary, copies the map, prints the windows that   *)
(* have closed and deletes their keys, while programs go on.  No lock is   *)
(* held: what keeps a count from falling between copy and deletion is that *)
(* a program ends within those 20 ms.                                      *)
(***************************************************************************)
EXTENDS Naturals, SequencesExt, FiniteSetsExt, Functions

CONSTANTS
  Threads,     \* threads, each on a CPU of its own
  Cgroups,
  Slots,       \* tokens a thread remembers (3 in the code)
  MapSize,     \* keys the map pulse_grams holds
  MaxCalls,    \* bound on the system calls of all threads
  MaxTime,     \* bound on the clock
  MaxChanges   \* bound on moves, evictions and new lists of targets

ASSUME TokenAssumption ==
  /\ Slots \in Nat \ {0} /\ MapSize \in Nat \ {0}
  /\ MaxCalls \in Nat /\ MaxTime \in Nat /\ MaxChanges \in Nat

VARIABLES
  clock,    \* two units per half second: the guard of 20 ms and the rest
  cgroup,   \* per thread, where it is
  changes,  \* moves, evictions and new lists so far
  inCall,   \* per thread, the call it is in; "no" for none
  task,     \* per thread, its entry in pulse_last_syscall; {} for none
  run,      \* per thread, the rest of a program that counts a gram
  grams,    \* the map pulse_grams
  targets,  \* the loader's list of targets, the keys of pulse_cgroups
  pc,       \* the loader's place
  wake,     \* the half second the loader sleeps for
  now,      \* now_window of the drain
  copy,     \* what the batch lookups have read
  left,     \* keys that were there when the lookups began, then keys to delete
  lines,    \* per cgroup and window, the lines printed
  story,    \* per thread, its tokens with the cgroup, in order
  counted,  \* per key, how many grams the programs had to count
  failed    \* per key, how many of them found no place (stat 0)

threadVars == <<cgroup, changes, inCall, task, run, story>>
loaderVars == <<targets, pc, wake, now, copy, left, lines>>
countVars == <<counted, failed>>
vars == <<clock, threadVars, grams, loaderVars, countVars>>

\* A hooked call gives its token on return; any other gives it on entry, and so
\* does one that seccomp skips.
Calls == {"plain", "hooked"}
None == "none"
NoTokens == [i \in 1 .. Slots |-> None]

Window(time) == time \div 2
InGuard(time) == time % 2 = 0
Key(c, time, tokens) == [cgroup |-> c, window |-> Window(time), tokens |-> tokens]
Idle == [step |-> "idle"]
At(key, step) == [step |-> step, key |-> key]

Plus(f, key, n) == [k \in DOMAIN f \cup {key} |->
                      (IF k \in DOMAIN f THEN f[k] ELSE 0) + (IF k = key THEN n ELSE 0)]
Of(f, key) == IF key \in DOMAIN f THEN f[key] ELSE 0
EmptyMap == [k \in {} |-> 0]
-------------------------------------------------------------------------------
Init ==
  /\ clock = 0
  /\ cgroup \in [Threads -> Cgroups]
  /\ changes = 0
  /\ inCall = [t \in Threads |-> "no"]
  /\ task = [t \in Threads |-> {}]
  /\ run = [t \in Threads |-> Idle]
  /\ grams = EmptyMap
  /\ targets \in SUBSET Cgroups \ {{}}
  /\ pc = "sleep" /\ wake = 1 /\ now = 0
  /\ copy = EmptyMap /\ left = {}
  /\ lines = [line \in {} |-> <<>>]
  /\ story = [t \in Threads |-> <<>>]
  /\ counted = EmptyMap /\ failed = EmptyMap
-------------------------------------------------------------------------------
(* The programs. *)

\* Mistake: a thread takes its history along to another cgroup.
HistoryTakenAlong(t) == IF task[t] = {} THEN NoTokens ELSE (CHOOSE s \in task[t] : TRUE).tokens

State(t) == CHOOSE s \in task[t] : TRUE

\* A thread that is new, or in another cgroup than before, begins anew.
History(t) ==
  IF task[t] = {} \/ State(t).cgroup # cgroup[t] THEN NoTokens ELSE State(t).tokens

Remember(t, c, tokens, pending) ==
  task' = [task EXCEPT ![t] = {[cgroup |-> c, tokens |-> tokens, pending |-> pending]}]

\* pulse_tok_emit: the gram that ends in the token; then the history moves on.
Emit(t, tokens, token) ==
  LET gram == Append(tokens, token)
  IN /\ run' = [run EXCEPT ![t] = At(Key(cgroup[t], clock, gram), "lookup")]
     /\ Remember(t, cgroup[t], Tail(gram), FALSE)
     /\ story' = [story EXCEPT ![t] = Append(@, <<cgroup[t], token>>)]

CallsMade == Cardinality({call \in Threads \X (1 .. MaxCalls) : call[2] <= Len(story[call[1]])})

Busy(t) == run[t] # Idle

\* pulse_sys_enter, or pulse_seccomp_skip of a call that will not run.
EnterCall(t, call) ==
  /\ pc # "stopped" /\ ~Busy(t) /\ inCall[t] = "no" /\ CallsMade < MaxCalls
  /\ inCall' = [inCall EXCEPT ![t] = call]
  /\ IF cgroup[t] \notin targets
     THEN UNCHANGED <<task, run, story>>
     ELSE IF call = "hooked"
     THEN Remember(t, cgroup[t], History(t), TRUE) /\ UNCHANGED <<run, story>>
     ELSE Emit(t, History(t), call)
  /\ UNCHANGED <<clock, cgroup, changes, grams, loaderVars, countVars>>

\* pulse_tok_sys_exit.
ReturnFromCall(t) ==
  /\ pc # "stopped" /\ ~Busy(t) /\ inCall[t] # "no"
  /\ inCall' = [inCall EXCEPT ![t] = "no"]
  /\ IF task[t] = {} \/ ~State(t).pending
     THEN UNCHANGED <<task, run, story>>
     ELSE IF State(t).cgroup # cgroup[t]
     THEN Remember(t, State(t).cgroup, State(t).tokens, FALSE) /\ UNCHANGED <<run, story>>
     ELSE Emit(t, State(t).tokens, inCall[t])
  /\ UNCHANGED <<clock, cgroup, changes, grams, loaderVars, countVars>>

Continue(t, step) == run' = [run EXCEPT ![t] = step]

ProgramStep(t, from) ==
  /\ Busy(t) /\ run[t].step = from
  /\ UNCHANGED <<clock, cgroup, changes, inCall, task, story, loaderVars>>

LookupGram(t) ==
  /\ ProgramStep(t, "lookup")
  /\ Continue(t, At(run[t].key, IF run[t].key \in DOMAIN grams THEN "add" ELSE "insert"))
  /\ UNCHANGED <<grams, countVars>>

\* An element that is gone takes the sum with it.
AddToElement(key) == IF key \in DOMAIN grams THEN Plus(grams, key, 1) ELSE grams

AddGram(t) ==
  /\ ProgramStep(t, "add")
  /\ grams' = AddToElement(run[t].key)
  /\ counted' = Plus(counted, run[t].key, 1)
  /\ Continue(t, Idle)
  /\ UNCHANGED failed

\* Mistake: whoever comes second overwrites the count (BPF_ANY).
InsertableAny(key) == key \in DOMAIN grams \/ Cardinality(DOMAIN grams) < MapSize

Insertable(key) == key \notin DOMAIN grams /\ Cardinality(DOMAIN grams) < MapSize

\* Insert with BPF_NOEXIST; another CPU may have been first.
InsertGram(t) ==
  /\ ProgramStep(t, "insert")
  /\ IF Insertable(run[t].key)
     THEN /\ grams' = [k \in DOMAIN grams \cup {run[t].key} |->
                         IF k = run[t].key THEN 1 ELSE grams[k]]
          /\ counted' = Plus(counted, run[t].key, 1)
          /\ Continue(t, Idle)
     ELSE Continue(t, At(run[t].key, "again")) /\ UNCHANGED <<grams, counted>>
  /\ UNCHANGED failed

LookupAgain(t) ==
  /\ ProgramStep(t, "again")
  /\ IF run[t].key \in DOMAIN grams
     THEN Continue(t, At(run[t].key, "add")) /\ UNCHANGED countVars
     ELSE /\ failed' = Plus(failed, run[t].key, 1)
          /\ counted' = Plus(counted, run[t].key, 1)
          /\ Continue(t, Idle)
  /\ UNCHANGED grams

\* The LRU map drops a thread that was not seen for long.
Evict(t) ==
  /\ pc # "stopped" /\ ~Busy(t) /\ task[t] # {} /\ changes < MaxChanges
  /\ changes' = changes + 1
  /\ task' = [task EXCEPT ![t] = {}]
  /\ UNCHANGED <<clock, cgroup, inCall, run, story, grams, loaderVars, countVars>>

Move(t) ==
  /\ pc # "stopped" /\ ~Busy(t) /\ changes < MaxChanges
  /\ changes' = changes + 1
  /\ \E c \in Cgroups \ {cgroup[t]} : cgroup' = [cgroup EXCEPT ![t] = c]
  /\ UNCHANGED <<clock, inCall, task, run, story, grams, loaderVars, countVars>>
-------------------------------------------------------------------------------
(* The loader. *)

\* Mistake: it wakes at the boundary itself (PULSE_DRAIN_GUARD_NS = 0).
RestedAtOnce == Window(clock) >= wake

Rested == Window(clock) >= wake /\ ~InGuard(clock)

\* The list of targets is read again; then the counters are printed.
Wake ==
  /\ pc = "sleep" /\ Rested
  /\ \/ UNCHANGED <<targets, changes>>
     \/ /\ changes < MaxChanges /\ changes' = changes + 1
        /\ targets' \in SUBSET Cgroups \ {{}, targets}
  /\ pc' = "snapshots"
  /\ UNCHANGED <<clock, cgroup, inCall, task, run, story, grams, wake, now, copy, left, lines, countVars>>

Closed(key) == key.window < now

BeginDrain ==
  /\ pc = "snapshots" /\ Rested
  /\ now' = Window(clock)
  /\ left' = DOMAIN grams /\ copy' = EmptyMap
  /\ pc' = "copy"
  /\ UNCHANGED <<clock, threadVars, grams, targets, wake, lines, countVars>>

\* A bucket is read; a key that came meanwhile may be seen or not.
CopyGram ==
  /\ pc = "copy"
  /\ \E key \in DOMAIN grams \ DOMAIN copy :
       copy' = [k \in DOMAIN copy \cup {key} |-> IF k = key THEN grams[k] ELSE copy[k]]
  /\ UNCHANGED <<clock, threadVars, grams, targets, pc, wake, now, left, lines, countVars>>

Old == {key \in DOMAIN copy : Closed(key)}

LinesOf(keys) == {[cgroup |-> key.cgroup, window |-> key.window] : key \in keys}

Content(line) ==
  Restrict(copy, {key \in Old : key.cgroup = line.cgroup /\ key.window = line.window})

\* One line for each target and window; the keys of other cgroups are dropped.
PrintLines ==
  /\ pc = "copy" /\ left \subseteq DOMAIN copy
  /\ LET new == {line \in LinesOf(Old) : line.cgroup \in targets}
     IN lines' = [line \in DOMAIN lines \cup new |->
                    (IF line \in DOMAIN lines THEN lines[line] ELSE <<>>) \o
                    (IF line \in new THEN <<Content(line)>> ELSE <<>>)]
  /\ left' = Old /\ pc' = "delete"
  /\ UNCHANGED <<clock, threadVars, grams, targets, wake, now, copy, countVars>>

DeleteGram ==
  /\ pc = "delete"
  /\ \E key \in left :
       /\ grams' = Restrict(grams, DOMAIN grams \ {key})
       /\ left' = left \ {key}
  /\ UNCHANGED <<clock, threadVars, targets, pc, wake, now, copy, lines, countVars>>

EndDrain ==
  /\ pc = "delete" /\ left = {}
  /\ pc' = "sleep" /\ wake' = Window(clock) + 1 /\ copy' = EmptyMap
  /\ UNCHANGED <<clock, threadVars, grams, targets, now, left, lines, countVars>>

\* A signal ends the sleep, the list of targets is empty or unreadable, a batch
\* lookup or delete fails: the loader detaches the programs and ends, and the
\* map with it.
Stop ==
  /\ pc \in {"sleep", "copy", "delete"}
  /\ pc' = "stopped" /\ copy' = EmptyMap /\ left' = {}
  /\ UNCHANGED <<clock, threadVars, grams, targets, wake, now, lines, countVars>>
-------------------------------------------------------------------------------
\* A program that began before a boundary has ended when the guard has, and the
\* loader reaches its drain within the half second it woke in.
Tick ==
  /\ clock < MaxTime /\ pc # "stopped"
  /\ InGuard(clock) => \A t \in Threads : Busy(t) => run[t].key.window = Window(clock)
  /\ clock' = clock + 1
  /\ UNCHANGED <<threadVars, grams, loaderVars, countVars>>

Program(t) ==
  \/ \E call \in Calls : EnterCall(t, call)
  \/ ReturnFromCall(t)
  \/ LookupGram(t) \/ AddGram(t) \/ InsertGram(t) \/ LookupAgain(t)
  \/ Evict(t) \/ Move(t)

Loader == Wake \/ BeginDrain \/ CopyGram \/ PrintLines \/ DeleteGram \/ EndDrain \/ Stop

Next == Tick \/ Loader \/ \E t \in Threads : Program(t)

Spec == Init /\ [][Next]_vars
-------------------------------------------------------------------------------
\* A window is printed in one line, and the line holds every gram whose time
\* fell into it, less those that found no place in the map: none is counted
\* later, none is left over for a second line, none is another key's.
WindowsAreComplete ==
  \A line \in DOMAIN lines :
    /\ Len(lines[line]) = 1
    /\ \A key \in DOMAIN counted \cup DOMAIN lines[line][1] :
         key.cgroup = line.cgroup /\ key.window = line.window =>
           Of(lines[line][1], key) + Of(failed, key) = Of(counted, key)

\* When a drain has ended, nothing of a closed window is in the map or on its
\* way there, so the map holds two windows at most.
ClosedWindowsAreGone ==
  pc = "sleep" =>
    /\ \A key \in DOMAIN grams : key.window >= now
    /\ \A t \in Threads : Busy(t) => run[t].key.window >= now

\* A gram is tokens of one thread that follow one another in one cgroup; a gram
\* with empty slots begins where the thread came to the cgroup or was forgotten.
GramsAreRuns ==
  \A key \in DOMAIN counted :
    \E t \in Threads : \E n \in 1 .. Len(story[t]) :
      \A i \in 1 .. Slots + 1 :
        LET back == Slots + 1 - i
        IN key.tokens[i] # None =>
             /\ n > back
             /\ story[t][n - back] = <<key.cgroup, key.tokens[i]>>
===============================================================================
