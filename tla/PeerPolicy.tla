------------------------------ MODULE PeerPolicy ------------------------------
(***************************************************************************)
(* What one worker decides of one container with the help of a peer: the   *)
(* exchange of window masks (pipeline/peer_exchange.py), the novelty of a  *)
(* window against the peer's (detector/novelty.py), the evidence discount  *)
(* and the k-of-n confirmation (detector/candidate_policy.py,              *)
(* confirmation.py), and tripwire A1 (rules/tripwire.py), in the order of  *)
(* the worker's loop.  Beside what the worker decides the model keeps what *)
(* it would have decided had every window of the peer been there as soon   *)
(* as it was published: the twin.  A window is one unit long; other local  *)
(* replicas of the workload are heard without loss and left out.           *)
(***************************************************************************)
EXTENDS Integers, Sequences, FiniteSets

CONSTANTS
  SysIds, Exec,      \* syscall ids, and the frozen exec set
  K, N, MaxGap,      \* confirmation
  Context,           \* windows in a context
  Span, Bucket,      \* of the peer novelty
  SpanEnd, Grace,    \* of the tripwire's reference
  MaxQueue,          \* of a subscriber and of inbound
  MaxTime, MaxSent   \* bounds of the model: the clock, the peer's windows

ASSUME PolicyAssumption ==
  /\ Exec \subseteq SysIds
  /\ K \in 1 .. N /\ N \in Nat \ {0} /\ Context \in Nat \ {0} /\ Bucket \in Nat \ {0}
  /\ {MaxGap, Span, SpanEnd, Grace, MaxQueue, MaxTime, MaxSent} \subseteq Nat

VARIABLES
  clock,      \* end of the last local window
  connected,  \* the worker is a subscriber of the peer
  outgoing,   \* the subscriber's queue at the peer
  inbound,    \* the worker's queue
  sent,       \* the peer's windows published so far
  heard,      \* those the scoring loop has observed
  own,        \* the local windows in the tripwire's reference
  context,    \* the ids of the last contiguous local windows
  lastEnd,    \* end of the last scored window, NoEnd before one
  window,     \* the deque of the last passed flags
  twin,       \* the twin's deque
  decision,   \* the last row: the worker's fields and the twin's
  scored      \* the last N scored windows, whatever lies between them (history)

linkVars == <<connected, outgoing, inbound, sent>>
loopVars == <<clock, heard, own, context, lastEnd, window, twin, decision, scored>>
vars == <<linkVars, loopVars>>

Windows == [end : Nat, ids : SUBSET SysIds]
NoEnd == -1

NoRow == [scored |-> FALSE, preview |-> FALSE, twinPreview |-> FALSE, status |-> "none",
          alert |-> FALSE, twinAlert |-> FALSE]

Init ==
  /\ clock = 0
  /\ connected = FALSE /\ outgoing = <<>> /\ inbound = <<>>
  /\ sent = {} /\ heard = {} /\ own = {}
  /\ context = <<>> /\ lastEnd = NoEnd
  /\ window = <<>> /\ twin = <<>>
  /\ decision = NoRow /\ scored = <<>>
-------------------------------------------------------------------------------
(* The exchange. *)

Connect ==
  /\ ~connected
  /\ connected' = TRUE /\ outgoing' = <<>>
  /\ UNCHANGED <<inbound, sent, loopVars>>

\* The connection breaks: the peer drops the subscriber and its queue.
Disconnect ==
  /\ connected
  /\ connected' = FALSE /\ outgoing' = <<>>
  /\ UNCHANGED <<inbound, sent, loopVars>>

\* publish(): a full queue loses the message, not the scoring loop's time.
\* The peer is one container: its windows end one after the other.
Publish(w) ==
  /\ Cardinality(sent) < MaxSent /\ \A v \in sent : v.end < w.end
  /\ sent' = sent \cup {w}
  /\ outgoing' = IF connected /\ Len(outgoing) < MaxQueue THEN Append(outgoing, w)
                                                          ELSE outgoing
  /\ UNCHANGED <<connected, inbound, loopVars>>

\* _serve() there and _follow() here: inbound.put_nowait().
Transfer ==
  /\ outgoing # <<>>
  /\ outgoing' = Tail(outgoing)
  /\ inbound' = IF Len(inbound) < MaxQueue THEN Append(inbound, Head(outgoing))
                                           ELSE inbound
  /\ UNCHANGED <<connected, sent, loopVars>>
-------------------------------------------------------------------------------
(* Novelty, discount and confirmation. *)

AsSet(s) == {s[i] : i \in DOMAIN s}

\* append() of a deque(maxlen=n)
Push(s, x, n) == Append(IF Len(s) < n THEN s ELSE Tail(s), x)

\* The windows of peers in the buckets of [end - Span, end].
InSpan(peers, end) ==
  {w \in peers : /\ (w.end \div Bucket) * Bucket >= end - Span
                 /\ w.end \div Bucket <= end \div Bucket}

IdsOf(windows) == UNION {w.ids : w \in windows}

\* Mistake: no peer in the span counts as nothing new.
DiscountedAlone(peers, end, ids) ==
  InSpan(peers, end) = {} \/ ids \subseteq IdsOf(InSpan(peers, end))

\* novel_peer == 0; without any window of a peer it is -1.
Discounted(peers, end, ids) ==
  InSpan(peers, end) # {} /\ ids \subseteq IdsOf(InSpan(peers, end))

Passes(s) == {i \in DOMAIN s : s[i]}

\* return passed and sum(window) >= self.policy.k
Confirmed(passed, s) == passed /\ Cardinality(Passes(s)) >= K

\* Mistake: a window that overlaps the last one extends it.
BrokenByGap(end) == lastEnd = NoEnd \/ end - 1 - lastEnd > MaxGap

\* start - last_end > max_gap_seconds or start < last_end - 0.25
Broken(end) == lastEnd = NoEnd \/ end - 1 - lastEnd > MaxGap \/ end - 1 < lastEnd
-------------------------------------------------------------------------------
(* Tripwire A1. *)

InReference(windows) == {w \in windows : w.end <= SpanEnd}

\* Mistake: the reference holds the ids common to its windows.
NovelToOne(windows, ids) ==
  \E id \in ids \ Exec : \E w \in InReference(windows) : id \notin w.ids

Novel(windows, ids) == ids \ (IdsOf(InReference(windows)) \cup Exec) # {}

Status(windows, end) ==
  IF end < SpanEnd + Grace THEN "reference_pending"
  ELSE IF InReference(windows) = {} THEN "no_reference"
  ELSE "judged"

Alert(windows, end, ids) == Status(windows, end) = "judged" /\ Novel(windows, ids)
-------------------------------------------------------------------------------
\* One frame of the worker: drain the exchange, observe the local window that
\* ends at end, score it, if it is scored at all, and judge it; the score is
\* low when joint_p <= alpha * alpha_scale.
Frame(end, ids, score) ==
  LET here   == heard \cup AsSet(inbound)
      ctx    == Push(IF end - 1 = clock THEN context ELSE <<>>, ids, Context)
      union  == UNION AsSet(ctx)
      passed == score = "low" /\ ~Discounted(here, end, union)
      ideal  == score = "low" /\ ~Discounted(sent, end, union)
      mine   == own \cup InReference({[end |-> end, ids |-> ids]})
  IN /\ clock' = end
     /\ heard' = here /\ inbound' = <<>>
     /\ own' = mine
     /\ context' = ctx
     /\ IF score # "none"
          THEN /\ lastEnd' = end
               /\ window' = Push(IF Broken(end) THEN <<>> ELSE window, passed, N)
               /\ twin' = Push(IF Broken(end) THEN <<>> ELSE twin, ideal, N)
               /\ scored' = Push(scored, [end |-> end, passed |-> passed], N)
          ELSE UNCHANGED <<lastEnd, window, twin, scored>>
     /\ decision' = [scored      |-> score # "none",
                     preview     |-> score # "none" /\ Confirmed(passed, window'),
                     twinPreview |-> score # "none" /\ Confirmed(ideal, twin'),
                     status      |-> Status(here \cup mine, end),
                     alert       |-> Alert(here \cup mine, end, ids),
                     twinAlert   |-> Alert(sent \cup mine, end, ids)]
     /\ UNCHANGED <<connected, outgoing, sent>>

\* The peer's window ends with the worker's next one; a local window follows
\* the last one, or comes after a gap (reset, eviction), or overlaps it.  A
\* window is not scored while the container's history warms up.
Next ==
  \/ Connect \/ Disconnect \/ Transfer
  \/ \E ids \in SUBSET SysIds : Publish([end |-> clock + 1, ids |-> ids])
  \/ \E step \in 0 .. MaxGap + 2, ids \in SUBSET SysIds, score \in {"low", "high", "none"} :
       clock + step \in 1 .. MaxTime /\ Frame(clock + step, ids, score)

Spec == Init /\ [][Next]_vars
-------------------------------------------------------------------------------
TypeOK ==
  /\ clock \in Nat /\ connected \in BOOLEAN /\ lastEnd \in Nat \cup {NoEnd}
  /\ outgoing \in Seq(Windows) /\ Len(outgoing) <= MaxQueue
  /\ inbound \in Seq(Windows) /\ Len(inbound) <= MaxQueue
  /\ sent \subseteq Windows /\ heard \subseteq Windows /\ own \subseteq Windows
  /\ context \in Seq(SUBSET SysIds) /\ Len(context) <= Context
  /\ window \in Seq(BOOLEAN) /\ twin \in Seq(BOOLEAN)
  /\ Len(window) <= N /\ Len(twin) <= N
  /\ decision \in [scored : BOOLEAN, preview : BOOLEAN, twinPreview : BOOLEAN,
                   alert : BOOLEAN, twinAlert : BOOLEAN,
                   status : {"none", "reference_pending", "no_reference", "judged"}]
  /\ scored \in Seq([end : Nat, passed : BOOLEAN]) /\ Len(scored) <= N

\* "A lost peer only means ... less discount, so the detector alerts more,
\* never less": whatever the exchange loses, drops or delays, a window that
\* would raise the preview with all the peer's windows raises it without them,
\* although the confirmation depends on earlier windows too.
PreviewsMore == decision.twinPreview => decision.preview

\* The same of the tripwire, once it judges.  (A lost peer can also leave it
\* without a reference: it then judges nothing and never alerts.)
JudgedAlertsMore ==
  decision.status = "judged" /\ decision.twinAlert => decision.alert

\* "at least k of the last n consecutive scored windows of the same container
\* [...] pass", told by the whole history: the windows are consecutive when no
\* gap and no overlap lies between them.
Consecutive(i) ==
  \A j \in i + 1 .. Len(scored) : scored[j].end - 1 - scored[j - 1].end \in 0 .. MaxGap

KOfNConsecutive ==
  LET len == Len(scored)
  IN decision.scored =>
       (decision.preview <=>
          /\ scored[len].passed
          /\ Cardinality({i \in 1 .. len :
                            i > len - N /\ Consecutive(i) /\ scored[i].passed}) >= K)
===============================================================================
