------------------------------ MODULE RcaService ------------------------------
(***************************************************************************)
(* The RCA service's cases (rca/service.py), fed by the alert bridge's     *)
(* triggers.jsonl (alert_trigger_file).  One thread reads triggers, opens  *)
(* cases, writes their files when they are ready, and every few seconds    *)
(* commits the database: until then cursor and cases live in an open       *)
(* transaction, and a crash takes both back.  Files are not taken back.    *)
(* Triggers are numbered; a case has the number of the trigger that opened *)
(* it (case_id hashes the row).                                            *)
(***************************************************************************)
EXTENDS Integers, Sequences, FiniteSets, Functions, AlertPath

CONSTANTS
  Cooldown,      \* case_cooldown_seconds
  FollowUpMin,   \* follow_up_min_seconds
  FollowUpMax,   \* follow_up_max_per_cooldown
  WarmUp,        \* follow_up_novelty_seconds + before_seconds
  ReadyAfter,    \* after_seconds + case_ready_grace_seconds
  MaxCases,      \* max_cases
  MaxTriggers, MaxCrashes   \* bounds of the model

\* The configurations have 300 and 10 seconds.
ASSUME ServiceAssumption ==
  /\ {Cooldown, FollowUpMin, FollowUpMax, WarmUp, ReadyAfter, MaxCases,
      MaxTime, MaxTriggers, MaxCrashes} \subseteq Nat
  /\ Cooldown > 0 /\ FollowUpMin <= Cooldown

VARIABLES
  triggers,   \* triggers.jsonl, with what the exec log will say of each
  db,         \* the database as the service sees it
  disk,       \* the database as last committed
  files,      \* the cases whose files are in the cases directory
  startedAt,  \* self.started_at
  crashes

rcaVars == <<clock, triggers, db, disk, files, startedAt, crashes>>

TriggerIds == 1 .. MaxTriggers

\* fresh: between the previous case's window and the trigger's a binary ran
\* that had not run in the lookback (the two execs() queries).
Triggers == [container : Containers, fresh : BOOLEAN]

\* No row of the file in the table cursors yet.
NoCursor == -1

\* cursor: lines of the file read; open: the table cases; gone: cases that
\* retention deleted; first, judged: the initial cursor and when each trigger
\* was judged (history, in the database so that a crash takes it back).
EmptyDb == [cursor |-> NoCursor, open |-> {}, gone |-> {}, first |-> NoCursor,
            judged |-> [n \in TriggerIds |-> 0]]

RcaInit ==
  /\ clock = 1 /\ triggers = <<>>
  /\ db = EmptyDb /\ disk = EmptyDb
  /\ files = {} /\ startedAt = 1 /\ crashes = 0
-------------------------------------------------------------------------------
(* observe_trigger() *)

CasesOf(d, container) == {k \in d.open : k.container = container}

\* order by created desc limit 1
IsRecent(d, k) == \A other \in CasesOf(d, k.container) : other.created <= k.created

Within(k, seconds) == clock - k.created < seconds

\* Mistake: only the follow-ups too soon for another one are counted.
FollowUpsJustNow(d, container) ==
  {k \in CasesOf(d, container) : k.followUp /\ Within(k, FollowUpMin)}

FollowUps(d, container) ==
  {k \in CasesOf(d, container) : k.followUp /\ Within(k, Cooldown)}

\* _follow_up_verdict(): not too_soon, not cap, not warming_up, no_exec or
\* binary_not_new.
FollowUpAllowed(d, recent, fresh) ==
  /\ ~Within(recent, FollowUpMin)
  /\ Cardinality(FollowUps(d, recent.container)) < FollowUpMax
  /\ clock - startedAt >= WarmUp
  /\ fresh

NewCase(n, followUp) ==
  [id |-> n, container |-> triggers[n].container, created |-> clock,
   emitted |-> FALSE, followUp |-> followUp]

Observe(d, n) ==
  LET covers(k) == IsRecent(d, k) /\ Within(k, Cooldown)
      covering  == {k \in CasesOf(d, triggers[n].container) : covers(k)}
      grouped   == \E k \in covering : ~FollowUpAllowed(d, k, triggers[n].fresh)
  IN [d EXCEPT !.cursor = n,
               !.judged[n] = clock,
               !.open = IF grouped THEN @
                        ELSE @ \cup {NewCase(n, covering # {})}]
-------------------------------------------------------------------------------
(* The loop of run(). *)

\* The triggers up to the end of the file are observed one after the other.
AllObserved ==
  LET observed[n \in db.cursor .. Len(triggers)] ==
        IF n = db.cursor THEN db ELSE Observe(observed[n - 1], n)
  IN observed[Len(triggers)]

\* Mistake: the cursor is committed at once, the cases are not.
TailSavingCursor ==
  /\ IF db.cursor = NoCursor
     THEN db' = [db EXCEPT !.cursor = Len(triggers), !.first = Len(triggers)]
     ELSE /\ db.cursor < Len(triggers)
          /\ db' = AllObserved
  /\ disk' = [disk EXCEPT !.cursor = db'.cursor, !.first = db'.first,
                          !.judged = db'.judged]
  /\ UNCHANGED <<clock, triggers, files, startedAt, crashes>>

\* tail_alert_triggers(): the first time it only notes where the file ends.
TailTriggers ==
  /\ IF db.cursor = NoCursor
     THEN db' = [db EXCEPT !.cursor = Len(triggers), !.first = Len(triggers)]
     ELSE /\ db.cursor < Len(triggers)
          /\ db' = AllObserved
  /\ UNCHANGED <<clock, triggers, disk, files, startedAt, crashes>>

\* Mistake: a case is picked up only when it has the age exactly.
ReadyExactly == {k \in db.open : ~k.emitted /\ k.created = clock - ReadyAfter}

Ready == {k \in db.open : ~k.emitted /\ k.created <= clock - ReadyAfter}

Numbers(cases) == {k.id : k \in cases}

\* Mistake: the cases are marked first, then an OSError ends the writing.
EmitMarkedFirst ==
  \E done \in SUBSET Ready \ {{}} :
    /\ files' = files \cup Numbers(done)
    /\ db' = [db EXCEPT !.open = (@ \ Ready) \cup
                                 {[k EXCEPT !.emitted = TRUE] : k \in Ready}]
    /\ UNCHANGED <<clock, triggers, disk, startedAt, crashes>>

\* emit_cases(): at most 20 at a time, and an OSError ends it early.
Emit ==
  \E done \in SUBSET Ready \ {{}} :
    /\ files' = files \cup Numbers(done)
    /\ db' = [db EXCEPT !.open = (@ \ done) \cup
                                 {[k EXCEPT !.emitted = TRUE] : k \in done}]
    /\ UNCHANGED <<clock, triggers, disk, startedAt, crashes>>

\* order by created desc limit -1 offset max_cases: a choice among equals.
Newest(cases) ==
  {kept \in SUBSET cases :
     /\ Cardinality(kept) = IF Cardinality(cases) < MaxCases
                            THEN Cardinality(cases) ELSE MaxCases
     /\ \A k \in kept, other \in cases \ kept : k.created >= other.created}

Emitted == {k \in db.open : k.emitted}

Expired == {Emitted \ kept : kept \in Newest(Emitted)}

\* What retention makes of the database.
Without(expired) ==
  [db EXCEPT !.open = @ \ expired,
             !.gone = @ \cup {[case |-> k, at |-> clock] : k \in expired}]

\* maintenance(): retention and the commit.
Maintenance ==
  /\ \E expired \in Expired :
       /\ files' = files \ Numbers(expired)
       /\ db' = Without(expired)
  /\ disk' = db'
  /\ UNCHANGED <<clock, triggers, startedAt, crashes>>

Restarted(database, left) ==
  /\ db' = database /\ disk' = database
  /\ files' = left
  /\ startedAt' = clock
  /\ UNCHANGED <<clock, triggers>>

\* SIGTERM: the finally clause of run() commits.
Shutdown == startedAt < clock /\ Restarted(db, files) /\ UNCHANGED crashes

\* Killed anywhere; in maintenance() files may be unlinked already.
Crash ==
  /\ crashes < MaxCrashes
  /\ crashes' = crashes + 1
  /\ \E expired \in Expired : \E unlinked \in SUBSET Numbers(expired) :
       Restarted(disk, files \ unlinked)
-------------------------------------------------------------------------------
\* The alert bridge appends a trigger.
Deliver(trigger) ==
  /\ Len(triggers) < MaxTriggers
  /\ triggers' = Append(triggers, trigger)
  /\ UNCHANGED <<clock, db, disk, files, startedAt, crashes>>

Advance ==
  /\ clock < MaxTime
  /\ clock' = clock + 1
  /\ UNCHANGED <<triggers, db, disk, files, startedAt, crashes>>

RcaNext ==
  \/ TailTriggers \/ Emit \/ Maintenance \/ Shutdown \/ Crash
  \/ \E trigger \in Triggers : Deliver(trigger)
  \/ Advance

RcaSpec == RcaInit /\ [][RcaNext]_rcaVars

\* The loop of run() goes on, and time passes; storage errors end.
RcaFairSpec ==
  /\ RcaSpec
  /\ WF_rcaVars(TailTriggers) /\ WF_rcaVars(Emit) /\ WF_rcaVars(Maintenance) /\ WF_rcaVars(Advance)
-------------------------------------------------------------------------------
Cases == [id : TriggerIds, container : Containers, created : 1 .. MaxTime,
          emitted : BOOLEAN, followUp : BOOLEAN]

IsDatabase(d) ==
  /\ d.cursor \in {NoCursor} \cup 0 .. Len(triggers)
  /\ d.open \subseteq Cases /\ IsInjective([k \in d.open |-> k.id])
  /\ {g.case : g \in d.gone} \subseteq Cases
  /\ Numbers(d.open) \cap {g.case.id : g \in d.gone} = {}
  /\ d.judged \in [TriggerIds -> 0 .. clock]

RcaTypeOK ==
  /\ clock \in 1 .. MaxTime /\ startedAt \in 1 .. clock
  /\ triggers \in Seq(Triggers) /\ Len(triggers) <= MaxTriggers
  /\ IsDatabase(db) /\ IsDatabase(disk)
  /\ files \subseteq TriggerIds /\ crashes \in 0 .. MaxCrashes

AllCases(d) == d.open \cup {g.case : g \in d.gone}

KnownAt(d, k, time) == k \in d.open \/ \E g \in d.gone : g.case = k /\ g.at > time

\* "Bounded: >= 10 s apart, <= 5 follow-ups per cooldown": a case follows an
\* earlier one of its container after the cooldown, or is a follow-up at least
\* FollowUpMin later, and no cooldown sees more than FollowUpMax follow-ups,
\* across crashes, replays and restarts, as long as retention has not deleted
\* the earlier case.
CasesApart ==
  \A k \in AllCases(db) :
    LET earlier == {j \in AllCases(db) : /\ j # k /\ j.container = k.container
                                         /\ j.id < k.id /\ KnownAt(db, j, k.created)}
    IN /\ \A j \in earlier :
            /\ k.created - j.created >= FollowUpMin
            /\ k.followUp \/ k.created - j.created >= Cooldown
       /\ k.followUp =>
            Cardinality({j \in earlier : /\ j.followUp
                                         /\ k.created - j.created < Cooldown})
              < FollowUpMax

\* Every trigger that the service has read, and will not read again, has a
\* case of its container, opened less than a cooldown before it was judged:
\* no crash leaves a cursor behind whose cases it took back.
EveryTriggerHasACase ==
  \A n \in db.first + 1 .. db.cursor :
    \E k \in AllCases(db) :
      /\ k.container = triggers[n].container
      /\ k.created <= db.judged[n] /\ db.judged[n] - k.created < Cooldown

\* Earlier cases that are as new, for a clock of whole seconds.
AsNew(d, k) == {j \in AllCases(d) : j.id < k.id /\ j.created = k.created}

\* A case committed as emitted has its files, unless as many later triggers
\* came, or cases of the same time, as retention keeps cases: files that
\* retention unlinked before a crash belong to cases it deletes again.
EmittedCasesHaveFiles ==
  \A k \in disk.open :
    k.emitted => \/ k.id \in files
                 \/ Cardinality(Numbers(AsNew(disk, k)))
                      + (Len(triggers) - k.id) >= MaxCases

\* An opened case is written in time, unless a crash takes it back first.
CasesAreWritten ==
  \A n \in TriggerIds :
    (\E k \in db.open : k.id = n /\ ~k.emitted /\ k.created + ReadyAfter <= MaxTime)
      ~> n \in Numbers(Emitted) \/ n \notin Numbers(db.open)
===============================================================================
