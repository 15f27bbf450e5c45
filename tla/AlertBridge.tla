----------------------------- MODULE AlertBridge -----------------------------
(***************************************************************************)
(* The alert bridge (ops/alert_bridge.py).  Its main thread turns positive *)
(* rows into episodes, one open episode per container, and ticks; a second *)
(* thread posts queued alerts to Alertmanager and retries; HTTP threads    *)
(* answer Prometheus's scrapes of the gauge and Alertmanager's webhook.    *)
(* All but the queue of retries is under one lock, so every critical       *)
(* section is one action.  Alertmanager and Prometheus are external: an    *)
(* alert fires until its ends, and while it fires the webhook may hear of   *)
(* it again and again.  Time passes between two ticks of the main loop, at *)
(* least the second that attach_cases() waits between two scans.  Episodes *)
(* are numbered in the order they start (an id is the case id of the first *)
(* row: none recurs).                                                      *)
(***************************************************************************)
EXTENDS Naturals, SequencesExt, FiniteSets, AlertPath

CONSTANTS
  Kinds,         \* the kinds of rows that may come
  ResolveAfter,  \* silence that ends an episode
  Refresh,       \* period of the refreshing pushes
  RetryAfter,    \* PUSH_RETRY_SECONDS
  PushAttempts,  \* PUSH_ATTEMPTS
  CaseWait,      \* how long a new episode may get its RCA case
  ForgetAfter,   \* how long an ended episode is remembered
  Stale,         \* how long a pull alert outlives the gauge
  Stall,         \* bound on the time between two ticks
  \* Bounds of the model: time, counts (troubles: failed posts and restarts), how
  \* late a case file comes, how late a restart, and the pushes still queued
  \* when the main thread goes on.
  MaxEpisodes, MaxCaseFiles, MaxTroubles,
  MaxCaseDelay, LastRestart, MaxBacklog

ASSUME BridgeAssumption ==
  /\ Kinds \subseteq {"candidate_alert_preview", "tripwire_alert"}
  /\ {ResolveAfter, Refresh, RetryAfter, CaseWait, ForgetAfter, Stale, Stall,
      MaxEpisodes, MaxCaseFiles, MaxTroubles, MaxCaseDelay,
      LastRestart, MaxBacklog} \subseteq Nat
  /\ Refresh > 0 /\ PushAttempts \in Nat \ {0}
  /\ ForgetAfter >= 3 * Refresh /\ ForgetAfter >= Stale

VARIABLES
  episode,    \* every episode ever started, in order (history too)
  known,      \* self.episodes
  active,     \* self.active: the open episode of a container, or 0
  delivered,  \* self.delivered: <<path, episode>>
  indexed,    \* cases the index has seen
  pushes,     \* self.pushes
  retries,    \* the push thread's deque
  job,        \* the push in the push thread's hands
  cases,      \* episodes whose case file exists
  fires,      \* Alertmanager: until when an episode's alert fires, or 0
  triaged,    \* Alertmanager: the episodes whose triage alert it took
  failed,     \* failed posts per episode; 0: of the pushes without (history)
  triggerLines,   \* per episode, its lines in triggers.jsonl
  deliveries, \* per <<path, episode>>, the lines a process logged
  restarts

threadVars  == <<pushes, retries, job>>
bridgeVars  == <<episode, known, active, delivered, indexed>>
outerVars   == <<cases, fires, triaged>>
historyVars == <<failed, triggerLines, deliveries, restarts>>
vars == <<clock, threadVars, bridgeVars, outerVars, historyVars>>

Ids == 1 .. MaxEpisodes
Paths == {"push", "pull"}

\* One entry of the queue: the episode it is about, whether it carries the
\* episode (else None, and it is never tried again), the ends of the
\* SentinelPulseAnomaly alert or 0 without one, and whether there is a
\* SentinelPulseTriage alert.
Pushes == [id : Ids, tracked : BOOLEAN, ends : Nat, triage : BOOLEAN]

Idle == [at |-> "idle"]
-------------------------------------------------------------------------------
Init ==
  /\ clock = 1
  /\ episode = <<>> /\ known = {} /\ active = [c \in Containers |-> 0]
  /\ delivered = {} /\ indexed = {}
  /\ pushes = <<>> /\ retries = <<>> /\ job = Idle
  /\ cases = {}
  /\ fires = [e \in Ids |-> 0] /\ triaged = {}
  /\ failed = [e \in {0} \cup Ids |-> 0]
  /\ triggerLines = [e \in Ids |-> 0]
  /\ deliveries = [d \in Paths \X Ids |-> 0]
  /\ restarts = 0
-------------------------------------------------------------------------------
(* Rows and ticks: the main thread. *)

\* ep["rows"] += 1; ep["last_seen"] = received_at
Seen(e) == episode' = [episode EXCEPT ![e].lastSeen = clock]

NewEpisode(c, kind) ==
  [container |-> c, kind |-> kind, received |-> clock, lastSeen |-> clock,
   lastPush |-> clock, ended |-> 0, rca |-> FALSE, pushed |-> FALSE,
   triggered |-> FALSE]

\* The ends of an open episode's alert.
Ends(lastSeen) == lastSeen + 3 * Refresh

StartPushes(e, kind) ==
  <<[id |-> e, tracked |-> TRUE, ends |-> Ends(clock), triage |-> FALSE]>> \o
  IF kind = "tripwire_alert"
  THEN <<[id |-> e, tracked |-> FALSE, ends |-> 0, triage |-> TRUE]>>
  ELSE <<>>

Ingest(c, kind) ==
  /\ Len(pushes) < MaxBacklog
  /\ IF active[c] # 0
     THEN Seen(active[c]) /\ UNCHANGED <<known, active, pushes>>
     ELSE LET e == Len(episode) + 1
          IN /\ e <= MaxEpisodes
             /\ episode' = Append(episode, NewEpisode(c, kind))
             /\ known' = known \cup {e}
             /\ active' = [active EXCEPT ![c] = e]
             /\ pushes' = pushes \o StartPushes(e, kind)
  /\ UNCHANGED <<clock, retries, job, delivered, indexed, outerVars,
                 historyVars>>

Open(e) == active[episode[e].container] = e

\* Mistake: an episode ends after a silence of ResolveAfter already.
ResolvesEarly(e, now) == Open(e) /\ now - episode[e].lastSeen >= ResolveAfter

Resolves(e, now) == Open(e) /\ now - episode[e].lastSeen > ResolveAfter

Refreshes(e, now) ==
  Open(e) /\ ~Resolves(e, now) /\ now - episode[e].lastPush >= Refresh

\* The first loop of tick(): each open episode ends or is refreshed.
Ticked(e, now) ==
  IF Resolves(e, now) THEN [episode[e] EXCEPT !.ended = now]
  ELSE IF Refreshes(e, now) THEN [episode[e] EXCEPT !.lastPush = now]
  ELSE episode[e]

\* Mistake: a refresh extends the alert from the tick, not from the last row.
TickPushesFromNow(e, now) ==
  IF Resolves(e, now)
  THEN <<[id |-> e, tracked |-> FALSE, ends |-> now, triage |-> FALSE]>>
  ELSE IF Refreshes(e, now)
  THEN <<[id |-> e, tracked |-> TRUE, ends |-> Ends(now), triage |-> FALSE]>>
  ELSE <<>>

TickPushes(e, now) ==
  IF Resolves(e, now)
  THEN <<[id |-> e, tracked |-> FALSE, ends |-> now, triage |-> FALSE]>>
  ELSE IF Refreshes(e, now)
  THEN <<[id |-> e, tracked |-> TRUE, ends |-> Ends(episode[e].lastSeen),
          triage |-> FALSE]>>
  ELSE <<>>

\* attach_cases(): the episodes that get their case in this scan.
Attaches(e, now) ==
  /\ e \in (cases \ indexed) \cap known
  /\ ~episode[e].rca
  /\ now - episode[e].received <= CaseWait

CasePushes(e, now) ==
  LET ended == Ticked(e, now).ended
  IN IF Attaches(e, now)
     THEN <<[id |-> e, tracked |-> FALSE, triage |-> TRUE,
             ends |-> IF ended # 0 THEN ended ELSE Ends(episode[e].lastSeen)]>>
     ELSE <<>>

\* The last loop of tick().
Forgotten(now) ==
  {e \in known : LET ended == Ticked(e, now).ended
                 IN ended # 0 /\ now - ended > ForgetAfter}

OfAll(Of(_, _), now) == FlattenSeq([e \in DOMAIN episode |-> Of(e, now)])

\* tick(now), some time after the last one.
Tick(now) ==
  /\ now <= MaxTime /\ Len(pushes) < MaxBacklog
  /\ clock' = now
  /\ episode' = [e \in DOMAIN episode |->
                   [Ticked(e, now) EXCEPT !.rca = @ \/ Attaches(e, now)]]
  /\ active' = [c \in Containers |->
                  IF active[c] # 0 /\ Resolves(active[c], now) THEN 0 ELSE active[c]]
  /\ pushes' = pushes \o OfAll(TickPushes, now) \o OfAll(CasePushes, now)
  /\ indexed' = cases
  /\ known' = known \ Forgotten(now)
  /\ delivered' = {d \in delivered : d[2] \notin Forgotten(now)}
  /\ UNCHANGED <<retries, job, outerVars, historyVars>>
-------------------------------------------------------------------------------
(* The push thread. *)

RetryDue == retries # <<>> /\ Head(retries).due <= clock

TakeRetry ==
  /\ job.at = "idle" /\ RetryDue
  /\ job' = [at |-> "post", push |-> Head(retries).push,
             attempt |-> Head(retries).attempt]
  /\ retries' = Tail(retries)
  /\ UNCHANGED <<clock, pushes, bridgeVars, outerVars, historyVars>>

TakePush ==
  /\ job.at = "idle" /\ ~RetryDue /\ pushes # <<>>
  /\ job' = [at |-> "post", push |-> Head(pushes), attempt |-> 1]
  /\ pushes' = Tail(pushes)
  /\ UNCHANGED <<clock, retries, bridgeVars, outerVars, historyVars>>

\* Alertmanager takes the alerts of a push: the last one it gets of an
\* episode says until when the alert fires.
Taken(push) ==
  /\ fires' = IF push.ends # 0 THEN [fires EXCEPT ![push.id] = push.ends] ELSE fires
  /\ triaged' = IF push.triage THEN triaged \cup {push.id} ELSE triaged

PostSucceeds ==
  /\ job.at = "post"
  /\ Taken(job.push)
  /\ job' = IF job.push.tracked THEN [job EXCEPT !.at = "note"] ELSE Idle
  /\ UNCHANGED <<clock, pushes, retries, bridgeVars, cases, historyVars>>

\* pushed(): the first push of an episode, if it is still remembered.
Note ==
  /\ job.at = "note"
  /\ LET e == job.push.id
     IN episode' = IF e \in known THEN [episode EXCEPT ![e].pushed = TRUE]
                                  ELSE episode
  /\ job' = Idle
  /\ UNCHANGED <<clock, pushes, retries, known, active, delivered,
                 indexed, outerVars, historyVars>>

\* Mistake: the attempt that failed is not counted among the attempts.
RetriedOnceLess(push, attempt) == push.tracked /\ attempt < PushAttempts - 1

\* retry = bool(episode) and attempt < PUSH_ATTEMPTS
Retried(push, attempt) == push.tracked /\ attempt < PushAttempts

Troubles == FoldFunction(+, restarts, failed)

\* The request fails, before or after Alertmanager took the alerts.
PostFails ==
  /\ job.at = "post" /\ Troubles < MaxTroubles
  /\ Taken(job.push) \/ UNCHANGED <<fires, triaged>>
  /\ retries' = IF Retried(job.push, job.attempt)
                THEN Append(retries, [due |-> clock + RetryAfter, push |-> job.push,
                                      attempt |-> job.attempt + 1])
                ELSE retries
  /\ job' = Idle
  /\ failed' = [failed EXCEPT
                ![IF job.push.tracked THEN job.push.id ELSE 0] = @ + 1]
  /\ UNCHANGED <<clock, pushes, bridgeVars, cases, triggerLines, deliveries, restarts>>
-------------------------------------------------------------------------------
(* The HTTP threads: the gauge and the webhook. *)

\* The gauge of metrics() shows an open episode; the alert that Prometheus
\* makes of it fires while it does and a while after.
LastShown(e) == IF episode[e].ended # 0 THEN episode[e].ended ELSE episode[e].lastSeen

Firing(path, e) ==
  IF path = "push" THEN clock < fires[e]
                   ELSE Open(e) \/ clock <= LastShown(e) + Stale

\* Mistake: a trigger for each path an episode is delivered on.
WebhookPerPath(path, e) ==
  /\ e \in DOMAIN episode /\ Firing(path, e)
  /\ <<path, e>> \notin delivered
  /\ delivered' = delivered \cup {<<path, e>>}
  /\ deliveries' = [deliveries EXCEPT ![<<path, e>>] = @ + 1]
  /\ IF e \in known
     THEN /\ episode' = [episode EXCEPT ![e].triggered = TRUE]
          /\ triggerLines' = [triggerLines EXCEPT ![e] = @ + 1]
     ELSE UNCHANGED <<episode, triggerLines>>
  /\ UNCHANGED <<clock, threadVars, known, active, indexed, outerVars,
                 failed, restarts>>

\* A firing alert of one path reaches the webhook.
Webhook(path, e) ==
  /\ e \in DOMAIN episode /\ Firing(path, e)
  /\ <<path, e>> \notin delivered
  /\ delivered' = delivered \cup {<<path, e>>}
  /\ deliveries' = [deliveries EXCEPT ![<<path, e>>] = @ + 1]
  /\ IF e \in known /\ ~episode[e].triggered
     THEN /\ episode' = [episode EXCEPT ![e].triggered = TRUE]
          /\ triggerLines' = [triggerLines EXCEPT ![e] = @ + 1]
     ELSE UNCHANGED <<episode, triggerLines>>
  /\ UNCHANGED <<clock, threadVars, known, active, indexed, outerVars,
                 failed, restarts>>
-------------------------------------------------------------------------------
(* The surroundings. *)

\* The RCA service writes the case of an episode it learnt of.
CaseWritten(e) ==
  /\ e \in DOMAIN episode \ cases /\ Cardinality(cases) < MaxCaseFiles
  /\ clock <= episode[e].received + MaxCaseDelay
  /\ cases' = cases \cup {e}
  /\ UNCHANGED <<clock, threadVars, bridgeVars, fires, triaged, historyVars>>

\* The bridge is killed and starts anew: it keeps nothing, and the cases it
\* finds are indexed at once.
Restart ==
  /\ Troubles < MaxTroubles /\ clock <= LastRestart
  /\ restarts' = restarts + 1
  /\ known' = {} /\ active' = [c \in Containers |-> 0]
  /\ delivered' = {} /\ indexed' = cases
  /\ pushes' = <<>> /\ retries' = <<>> /\ job' = Idle
  /\ deliveries' = [d \in Paths \X Ids |-> 0]
  /\ UNCHANGED <<clock, episode, outerVars, failed, triggerLines>>
-------------------------------------------------------------------------------
Ticks == \E step \in 1 .. Stall : Tick(clock + step)

PushThread == TakeRetry \/ TakePush \/ PostSucceeds \/ Note \/ PostFails

Next ==
  \/ \E c \in Containers, kind \in Kinds : Ingest(c, kind)
  \/ Ticks
  \/ PushThread
  \/ \E path \in Paths, e \in Ids : Webhook(path, e)
  \/ \E e \in Ids : CaseWritten(e)
  \/ Restart

Spec == Init /\ [][Next]_vars
-------------------------------------------------------------------------------
TypeOK ==
  /\ clock \in 1 .. MaxTime
  /\ Len(episode) <= MaxEpisodes
  /\ \A e \in DOMAIN episode :
       /\ episode[e].container \in Containers /\ episode[e].kind \in Kinds
       /\ episode[e].received <= episode[e].lastSeen
       /\ {episode[e].lastSeen, episode[e].lastPush, episode[e].ended}
            \subseteq 0 .. clock
       /\ {episode[e].rca, episode[e].pushed, episode[e].triggered} \subseteq BOOLEAN
  /\ known \subseteq DOMAIN episode
  /\ active \in [Containers -> {0} \cup known]
  /\ delivered \subseteq Paths \X Ids
  /\ indexed \subseteq cases /\ cases \subseteq DOMAIN episode
  /\ Range(pushes) \subseteq Pushes
  /\ \A r \in Range(retries) :
       r.due \in Nat /\ r.push \in Pushes /\ r.attempt \in 2 .. PushAttempts
  /\ \/ job = Idle
     \/ job \in [at : {"post", "note"}, push : Pushes, attempt : 1 .. PushAttempts]
  /\ fires \in [Ids -> Nat] /\ triaged \subseteq DOMAIN episode
  /\ failed \in [{0} \cup Ids -> Nat]
  /\ triggerLines \in [Ids -> Nat] /\ deliveries \in [Paths \X Ids -> Nat]

\* Two episodes of a container are separated by a silence of more than
\* ResolveAfter (module docstring), unless a restart lost the earlier one; in
\* particular a container never has two open episodes.
EpisodesAreSeparate ==
  \A d, e \in DOMAIN episode :
    d < e /\ episode[d].container = episode[e].container =>
      IF episode[d].ended # 0
      THEN episode[e].received > episode[d].lastSeen + ResolveAfter
      ELSE d \notin known

\* Whatever is lost, retried or late, Alertmanager does not show an episode
\* as firing for longer than three refresh periods after its last row, so a
\* lost resolve, a resolve overtaken by a retry, or a dead bridge, heals.
AlertExpires ==
  \A e \in DOMAIN episode :
    clock < fires[e] => clock < Ends(episode[e].lastSeen)

InHand == IF job = Idle THEN {} ELSE {job.push}

Outstanding == Range(pushes) \cup {r.push : r \in Range(retries)} \cup InHand

Pending(e) == \E p \in Outstanding : p.id = e /\ p.tracked

\* The start of an episode reaches Alertmanager, or PushAttempts posts of the
\* episode failed ("6 of 5,181 episodes never arrived by push").  The triage
\* alert of a tripwire ("at once") has no episode and so a single attempt: it
\* arrives, or a post without an episode failed.
StartArrives ==
  \A e \in known :
    /\ episode[e].pushed \/ Pending(e) \/ failed[e] >= PushAttempts
    /\ episode[e].kind = "tripwire_alert" =>
         \/ e \in triaged \/ failed[0] > 0
         \/ \E p \in Outstanding : p.id = e /\ p.triage

\* One episode gives the RCA service one trigger, whatever the paths it is
\* delivered on, its repetitions, restarts, and what the bridge forgets; the
\* delivery of an episode on a path is logged once by one process.
DeliveredOnce ==
  /\ \A d \in Paths \X Ids : deliveries[d] <= 1
  /\ \A e \in Ids : triggerLines[e] <= 1
  /\ \A e \in known : episode[e].triggered <=> \E p \in Paths : <<p, e>> \in delivered
===============================================================================
