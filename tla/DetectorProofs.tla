--------------------------- MODULE DetectorProofs ----------------------------
(***************************************************************************)
(* Proofs about PeerPolicy, for every policy, queue bound and syscall set: *)
(* the losses of the exchange never take a preview away, nor an alert of   *)
(* the tripwire once it judges, and the deque that is emptied at a gap     *)
(* confirms what the whole history says.  The invariant compares the       *)
(* worker with its twin: what the worker holds of the peer is part of what *)
(* the peer published, and each flag set in the twin's deque is set in the *)
(* worker's, so the count of the flags is at least the twin's.             *)
(*                                                                         *)
(* About CandidateShadow, for every cadence that fits one window and every *)
(* bound: a history is a chain of successive rows of one container, so     *)
(* every context that is scored is contiguous.  It needs the timeline of   *)
(* the rows, and of the segment files only that what can be read is there. *)
(***************************************************************************)
EXTENDS PeerPolicy, CandidateShadow, FiniteSetTheorems, SequenceTheorems,
        WellFoundedInduction, TLAPS

USE PolicyAssumption

\* The types, in the parts an action can disturb.
LinkTypes ==
  /\ connected \in BOOLEAN
  /\ outgoing \in Seq(Windows) /\ Len(outgoing) <= MaxQueue
  /\ inbound \in Seq(Windows) /\ Len(inbound) <= MaxQueue
  /\ sent \subseteq Windows

LoopTypes ==
  /\ clock \in Nat /\ lastEnd \in Nat \cup {NoEnd}
  /\ heard \subseteq Windows /\ own \subseteq Windows
  /\ context \in Seq(SUBSET SysIds) /\ Len(context) <= Context
  /\ scored \in Seq([end : Nat, passed : BOOLEAN]) /\ Len(scored) <= N

DequeTypes ==
  /\ window \in Seq(BOOLEAN) /\ Len(window) <= N
  /\ twin \in Seq(BOOLEAN) /\ Len(twin) <= N

RowTypes ==
  decision \in [scored : BOOLEAN, preview : BOOLEAN, twinPreview : BOOLEAN,
                alert : BOOLEAN, twinAlert : BOOLEAN,
                status : {"none", "reference_pending", "no_reference", "judged"}]

\* What the worker holds of the peer, the peer has published.
PartOfSent ==
  AsSet(outgoing) \subseteq sent /\ AsSet(inbound) \subseteq sent /\ heard \subseteq sent

\* Every flag set in a is set in b.
Below(a, b) == Len(a) = Len(b) /\ \A i \in DOMAIN a : a[i] => b[i]

IInv ==
  /\ LinkTypes /\ LoopTypes /\ DequeTypes /\ RowTypes
  /\ PartOfSent /\ Below(twin, window)
  /\ PreviewsMore /\ JudgedAlertsMore
-------------------------------------------------------------------------------
(* Deques and queues. *)

LEMMA PushType ==
  ASSUME NEW S, NEW s \in Seq(S), NEW x \in S, NEW n \in Nat \ {0}, Len(s) <= n
  PROVE  Push(s, x, n) \in Seq(S) /\ Len(Push(s, x, n)) <= n
<1>1. CASE Len(s) < n
  BY <1>1 DEF Push
<1>2. CASE ~(Len(s) < n)
  <2>1. Len(s) = n /\ s # <<>>
    BY <1>2
  <2>2. Tail(s) \in Seq(S) /\ Len(Tail(s)) = n - 1
    BY <2>1
  <2>3. QED
    BY <1>2, <2>2 DEF Push
<1>3. QED
  BY <1>1, <1>2

LEMMA PushBelow ==
  ASSUME NEW a \in Seq(BOOLEAN), NEW b \in Seq(BOOLEAN), Below(a, b),
         NEW x \in BOOLEAN, NEW y \in BOOLEAN, x => y, NEW n \in Nat \ {0}
  PROVE  Below(Push(a, x, n), Push(b, y, n))
<1>1. CASE Len(a) < n
  <2>1. Push(a, x, n) = Append(a, x) /\ Push(b, y, n) = Append(b, y)
    BY <1>1 DEF Push, Below
  <2>2. QED
    BY <2>1 DEF Below
<1>2. CASE ~(Len(a) < n)
  <2>1. Push(a, x, n) = Append(Tail(a), x) /\ Push(b, y, n) = Append(Tail(b), y)
    BY <1>2 DEF Push, Below
  <2>2. a # <<>> /\ b # <<>>
    BY <1>2 DEF Below
  <2>3. Tail(a) \in Seq(BOOLEAN) /\ Tail(b) \in Seq(BOOLEAN)
    BY <2>2
  <2>4. Below(Tail(a), Tail(b))
    BY <2>2 DEF Below
  <2>5. QED
    BY <2>1, <2>3, <2>4 DEF Below
<1>3. QED
  BY <1>1, <1>2

\* What a queue held is part of what it holds and its head.
LEMMA TailSet ==
  ASSUME NEW S, NEW q \in Seq(S), q # <<>>
  PROVE  AsSet(Tail(q)) \subseteq AsSet(q) /\ Head(q) \in AsSet(q)
BY DEF AsSet

LEMMA AppendSet ==
  ASSUME NEW S, NEW q \in Seq(S), NEW x \in S
  PROVE  AsSet(Append(q, x)) = AsSet(q) \cup {x}
<1>1. Append(q, x) \in Seq(S) /\ DOMAIN Append(q, x) = 1 .. Len(q) + 1
  OBVIOUS
<1>2. \A i \in 1 .. Len(q) : Append(q, x)[i] = q[i]
  OBVIOUS
<1>3. Append(q, x)[Len(q) + 1] = x
  OBVIOUS
<1>4. DOMAIN q = 1 .. Len(q)
  OBVIOUS
<1>5. QED
  BY <1>1, <1>2, <1>3, <1>4 DEF AsSet
-------------------------------------------------------------------------------
(* Novelty, confirmation and tripwire. *)

\* More windows of the peer discount more.
LEMMA DiscountGrows ==
  ASSUME NEW A, NEW B, A \subseteq B, NEW end, NEW ids, Discounted(A, end, ids)
  PROVE  Discounted(B, end, ids)
<1>1. InSpan(A, end) \subseteq InSpan(B, end)
  BY DEF InSpan
<1>2. IdsOf(InSpan(A, end)) \subseteq IdsOf(InSpan(B, end))
  BY <1>1 DEF IdsOf
<1>3. QED
  BY <1>1, <1>2 DEF Discounted

\* A deque with the flags of another confirms what the other confirms.
LEMMA ConfirmedBelow ==
  ASSUME NEW a \in Seq(BOOLEAN), NEW b \in Seq(BOOLEAN), Below(a, b),
         NEW x \in BOOLEAN, NEW y \in BOOLEAN, x => y, Confirmed(x, a)
  PROVE  Confirmed(y, b)
<1>1. Passes(a) \subseteq Passes(b)
  BY DEF Passes, Below
<1>2. Passes(b) \subseteq 1 .. Len(b)
  BY DEF Passes
<1>3. IsFiniteSet(Passes(b))
  <2>1. Len(b) \in Int /\ 1 \in Int
    OBVIOUS
  <2>2. IsFiniteSet(1 .. Len(b))
    BY ONLY <2>1, FS_Interval
  <2>3. QED
    BY ONLY <1>2, <2>2, FS_Subset
<1>4. IsFiniteSet(Passes(a)) /\ Cardinality(Passes(a)) <= Cardinality(Passes(b))
  BY <1>1, <1>3, FS_Subset
<1>5. Cardinality(Passes(a)) \in Nat /\ Cardinality(Passes(b)) \in Nat
  BY <1>3, <1>4, FS_CardinalityType
<1>6. K \in Nat
  BY DEF PolicyAssumption
<1>7. QED
  BY <1>4, <1>5, <1>6 DEF Confirmed

\* A smaller reference is judged less often, and makes more ids new.
LEMMA ReferenceShrinks ==
  ASSUME NEW A, NEW B, A \subseteq B, NEW end, NEW ids,
         Status(A, end) = "judged", Alert(B, end, ids)
  PROVE  Alert(A, end, ids)
<1>1. IdsOf(InReference(A)) \subseteq IdsOf(InReference(B))
  BY DEF IdsOf, InReference
<1>2. Novel(A, ids)
  BY <1>1 DEF Novel, Alert
<1>3. QED
  BY <1>2 DEF Alert
-------------------------------------------------------------------------------
(* The steps. *)

LEMMA InitIInv == Init => IInv
<1>1. SUFFICES ASSUME Init PROVE IInv
  OBVIOUS
<1>2. MaxQueue \in Nat /\ N \in Nat /\ Context \in Nat
  BY DEF PolicyAssumption
<1>3. LinkTypes
  <2>1. <<>> \in Seq(Windows) /\ Len(<<>>) = 0
    OBVIOUS
  <2>2. connected \in BOOLEAN /\ outgoing = <<>> /\ inbound = <<>> /\ sent = {}
    BY <1>1 DEF Init
  <2>3. QED
    BY ONLY <1>2, <2>1, <2>2 DEF LinkTypes
<1>4. LoopTypes
  BY <1>1, <1>2 DEF Init, LoopTypes
<1>5. DequeTypes
  BY <1>1, <1>2 DEF Init, DequeTypes
<1>6. RowTypes
  BY <1>1 DEF Init, RowTypes, NoRow
<1>7. PartOfSent
  BY <1>1 DEF Init, PartOfSent, AsSet
<1>8. Below(twin, window)
  BY <1>1 DEF Init, Below
<1>9. PreviewsMore /\ JudgedAlertsMore
  BY <1>1 DEF Init, NoRow, PreviewsMore, JudgedAlertsMore
<1>10. QED
  BY <1>3, <1>4, <1>5, <1>6, <1>7, <1>8, <1>9 DEF IInv

\* The steps of the exchange: only what the queues hold changes.
LEMMA LinkIInv == IInv /\ (Connect \/ Disconnect \/ Transfer) => IInv'
<1>0. SUFFICES ASSUME IInv, Connect \/ Disconnect \/ Transfer PROVE IInv'
  OBVIOUS
<1>1. UNCHANGED <<sent, loopVars>>
  BY <1>0 DEF Connect, Disconnect, Transfer
<1>2. LoopTypes' /\ DequeTypes' /\ RowTypes' /\ Below(twin, window)'
  BY <1>0, <1>1 DEF IInv, LoopTypes, DequeTypes, RowTypes, Below, loopVars
<1>3. PreviewsMore' /\ JudgedAlertsMore'
  BY <1>0, <1>1 DEF IInv, PreviewsMore, JudgedAlertsMore, loopVars
<1>4. MaxQueue \in Nat
  BY DEF PolicyAssumption
<1>5. CASE Connect \/ Disconnect
  <2>1. LinkTypes'
    <3>1. <<>> \in Seq(Windows) /\ Len(<<>>) = 0
      OBVIOUS
    <3>2. connected' \in BOOLEAN /\ outgoing' = <<>> /\ inbound' = inbound /\ sent' = sent
      BY <1>5, <1>1 DEF Connect, Disconnect
    <3>3. QED
      BY ONLY <1>0, <1>4, <3>1, <3>2 DEF IInv, LinkTypes
  <2>2. AsSet(outgoing)' = {}
    BY <1>5 DEF AsSet, Connect, Disconnect
  <2>3. PartOfSent'
    BY <1>0, <1>5, <2>2 DEF IInv, PartOfSent, Connect, Disconnect, loopVars
  <2>4. QED
    BY <1>2, <1>3, <2>1, <2>3 DEF IInv
<1>6. CASE Transfer
  <2>1. outgoing \in Seq(Windows) /\ inbound \in Seq(Windows) /\ outgoing # <<>>
    BY <1>0, <1>6 DEF IInv, LinkTypes, Transfer
  <2>2. AsSet(Tail(outgoing)) \subseteq AsSet(outgoing) /\ Head(outgoing) \in AsSet(outgoing)
    BY <2>1, TailSet
  <2>3. Head(outgoing) \in Windows
    BY <2>1
  <2>4. AsSet(Append(inbound, Head(outgoing))) = AsSet(inbound) \cup {Head(outgoing)}
    BY <2>1, <2>3, AppendSet
  <2>5. AsSet(inbound') \subseteq sent /\ AsSet(outgoing') \subseteq sent
    BY <1>0, <1>6, <2>2, <2>4 DEF IInv, PartOfSent, Transfer
  <2>6. PartOfSent'
    BY <1>0, <1>1, <2>5 DEF IInv, PartOfSent, loopVars, AsSet
  <2>7. LinkTypes'
    BY <1>0, <1>4, <1>6, <2>1, <2>3 DEF IInv, LinkTypes, Transfer
  <2>8. QED
    BY <1>2, <1>3, <2>6, <2>7 DEF IInv
<1>7. QED
  BY <1>0, <1>5, <1>6

LEMMA PublishIInv ==
  ASSUME IInv, NEW w \in Windows, Publish(w)
  PROVE  IInv'
<1>1. UNCHANGED <<connected, inbound, loopVars>> /\ sent' = sent \cup {w}
  BY DEF Publish
<1>2. LoopTypes' /\ DequeTypes' /\ RowTypes' /\ Below(twin, window)'
  BY <1>1 DEF IInv, LoopTypes, DequeTypes, RowTypes, Below, loopVars
<1>3. PreviewsMore' /\ JudgedAlertsMore'
  BY <1>1 DEF IInv, PreviewsMore, JudgedAlertsMore, loopVars
<1>4. outgoing \in Seq(Windows) /\ MaxQueue \in Nat
  BY DEF IInv, LinkTypes, PolicyAssumption
<1>5. AsSet(Append(outgoing, w)) = AsSet(outgoing) \cup {w}
  BY <1>4, AppendSet
<1>6. outgoing' = outgoing \/ (outgoing' = Append(outgoing, w) /\ Len(outgoing) < MaxQueue)
  BY DEF Publish
<1>7. LinkTypes'
  <2>1. outgoing' \in Seq(Windows) /\ Len(outgoing') <= MaxQueue
    <3>1. CASE outgoing' = outgoing
      BY <3>1 DEF IInv, LinkTypes
    <3>2. CASE outgoing' = Append(outgoing, w) /\ Len(outgoing) < MaxQueue
      <4>1. Append(outgoing, w) \in Seq(Windows) /\ Len(Append(outgoing, w)) = Len(outgoing) + 1
        BY <1>4
      <4>2. QED
        BY <3>2, <4>1, <1>4
    <3>3. QED
      BY <3>1, <3>2, <1>6
  <2>2. sent' \subseteq Windows
    BY <1>1 DEF IInv, LinkTypes
  <2>3. QED
    BY <1>1, <2>1, <2>2 DEF IInv, LinkTypes
<1>8. AsSet(outgoing') \subseteq sent'
  BY <1>1, <1>5, <1>6 DEF IInv, PartOfSent
<1>9. PartOfSent'
  BY <1>1, <1>8 DEF IInv, PartOfSent, loopVars, AsSet
<1>10. QED
  BY <1>2, <1>3, <1>7, <1>9 DEF IInv

\* A frame, with the choices of Next.
LEMMA FrameIInv ==
  ASSUME IInv, NEW end \in Nat, NEW ids \in SUBSET SysIds,
         NEW score \in {"low", "high", "none"}, Frame(end, ids, score)
  PROVE  IInv'
<1> DEFINE here   == heard \cup AsSet(inbound)
           ctx    == Push(IF end - 1 = clock THEN context ELSE <<>>, ids, Context)
           union  == UNION AsSet(ctx)
           passed == score = "low" /\ ~Discounted(here, end, union)
           ideal  == score = "low" /\ ~Discounted(sent, end, union)
           mine   == own \cup InReference({[end |-> end, ids |-> ids]})
           win    == IF Broken(end) THEN <<>> ELSE window
           twn    == IF Broken(end) THEN <<>> ELSE twin
<1>1. /\ clock' = end /\ heard' = here /\ inbound' = <<>> /\ own' = mine
      /\ context' = ctx
      /\ UNCHANGED <<connected, outgoing, sent>>
  BY Zenon DEF Frame
<1>2. score # "none" =>
        /\ lastEnd' = end
        /\ window' = Push(win, passed, N) /\ twin' = Push(twn, ideal, N)
        /\ scored' = Push(scored, [end |-> end, passed |-> passed], N)
  BY Zenon DEF Frame
<1>3. score = "none" => UNCHANGED <<lastEnd, window, twin, scored>>
  BY Zenon DEF Frame
<1>4. decision' = [scored      |-> score # "none",
                   preview     |-> score # "none" /\ Confirmed(passed, window'),
                   twinPreview |-> score # "none" /\ Confirmed(ideal, twin'),
                   status      |-> Status(here \cup mine, end),
                   alert       |-> Alert(here \cup mine, end, ids),
                   twinAlert   |-> Alert(sent \cup mine, end, ids)]
  BY Zenon DEF Frame
<1>5. here \subseteq sent
  BY DEF IInv, PartOfSent
<1>6. passed \in BOOLEAN /\ ideal \in BOOLEAN
  OBVIOUS
<1>7. ideal => passed
  BY <1>5, DiscountGrows
<1>8. N \in Nat \ {0} /\ Context \in Nat \ {0} /\ MaxQueue \in Nat
  BY DEF PolicyAssumption
<1>9. AsSet(inbound) \subseteq Windows
  BY DEF IInv, PartOfSent, LinkTypes
<1> HIDE DEF passed, ideal
<1>10. /\ win \in Seq(BOOLEAN) /\ Len(win) <= N
       /\ twn \in Seq(BOOLEAN) /\ Len(twn) <= N /\ Below(twn, win)
  <2>1. Below(<<>>, <<>>) /\ <<>> \in Seq(BOOLEAN) /\ Len(<<>>) = 0
    BY DEF Below
  <2>2. /\ window \in Seq(BOOLEAN) /\ Len(window) <= N
        /\ twin \in Seq(BOOLEAN) /\ Len(twin) <= N /\ Below(twin, window)
    BY DEF IInv, DequeTypes
  <2>3. CASE Broken(end)
    <3>1. win = <<>> /\ twn = <<>>
      BY <2>3
    <3> HIDE DEF win, twn
    <3>2. win \in Seq(BOOLEAN) /\ twn \in Seq(BOOLEAN) /\ Below(twn, win)
      BY ONLY <2>1, <3>1
    <3>3. Len(win) = 0 /\ Len(twn) = 0
      BY ONLY <2>1, <3>1
    <3>4. QED
      BY ONLY <1>8, <3>2, <3>3
  <2>4. CASE ~Broken(end)
    <3>1. win = window /\ twn = twin
      BY <2>4
    <3>2. QED
      BY ONLY <2>2, <3>1
  <2>5. QED
    BY <2>3, <2>4
<1>11. DequeTypes' /\ Below(twin', window')
  <2>1. CASE score # "none"
    <3>1. Push(win, passed, N) \in Seq(BOOLEAN) /\ Len(Push(win, passed, N)) <= N
      BY <1>6, <1>8, <1>10, PushType
    <3>2. Push(twn, ideal, N) \in Seq(BOOLEAN) /\ Len(Push(twn, ideal, N)) <= N
      BY <1>6, <1>8, <1>10, PushType
    <3>3. Below(Push(twn, ideal, N), Push(win, passed, N))
      BY <1>6, <1>7, <1>8, <1>10, PushBelow
    <3>4. window' = Push(win, passed, N) /\ twin' = Push(twn, ideal, N)
      BY <1>2, <2>1
    <3>5. QED
      BY ONLY <3>1, <3>2, <3>3, <3>4 DEF DequeTypes
  <2>2. CASE score = "none"
    BY <1>3, <2>2 DEF IInv, DequeTypes
  <2>3. QED
    BY <2>1, <2>2
<1>12. LinkTypes'
  <2>1. <<>> \in Seq(Windows) /\ Len(<<>>) = 0
    OBVIOUS
  <2>2. QED
    BY <1>1, <1>8, <2>1 DEF IInv, LinkTypes
<1>13. LoopTypes'
  <2>1. [end |-> end, ids |-> ids] \in Windows
    BY DEF Windows
  <2>2. heard' \subseteq Windows /\ own' \subseteq Windows
    BY <1>1, <1>9, <2>1 DEF IInv, LoopTypes, InReference
  <2>3. context' \in Seq(SUBSET SysIds) /\ Len(context') <= Context
    <3>1. <<>> \in Seq(SUBSET SysIds) /\ Len(<<>>) = 0
      OBVIOUS
    <3>2. context \in Seq(SUBSET SysIds) /\ Len(context) <= Context
      BY DEF IInv, LoopTypes
    <3> DEFINE old == IF end - 1 = clock THEN context ELSE <<>>
    <3>3. old \in Seq(SUBSET SysIds) /\ Len(old) <= Context
      BY <1>8, <3>1, <3>2
    <3>4. Push(old, ids, Context) \in Seq(SUBSET SysIds) /\ Len(Push(old, ids, Context)) <= Context
      BY <1>8, <3>3, PushType
    <3>5. QED
      BY <1>1, <3>4
  <2>4. clock' \in Nat /\ lastEnd' \in Nat \cup {NoEnd}
    BY <1>1, <1>2, <1>3 DEF IInv, LoopTypes
  <2>5. scored' \in Seq([end : Nat, passed : BOOLEAN]) /\ Len(scored') <= N
    <3> DEFINE Rows == [end : Nat, passed : BOOLEAN]
    <3>1. scored \in Seq(Rows) /\ Len(scored) <= N
      BY DEF IInv, LoopTypes
    <3>2. [end |-> end, passed |-> passed] \in Rows
      BY <1>6
    <3> HIDE DEF Rows
    <3>3. Push(scored, [end |-> end, passed |-> passed], N) \in Seq(Rows)
          /\ Len(Push(scored, [end |-> end, passed |-> passed], N)) <= N
      BY <1>8, <3>1, <3>2, PushType
    <3>4. scored' \in Seq(Rows) /\ Len(scored') <= N
      BY <1>2, <1>3, <3>1, <3>3
    <3>5. QED
      BY <3>4 DEF Rows
  <2>6. QED
    BY <2>2, <2>3, <2>4, <2>5 DEF LoopTypes
<1>14. RowTypes'
  <2>1. Status(here \cup mine, end) \in {"reference_pending", "no_reference", "judged"}
    BY DEF Status
  <2>2. Confirmed(passed, window') \in BOOLEAN /\ Confirmed(ideal, twin') \in BOOLEAN
    BY DEF Confirmed
  <2>3. Alert(here \cup mine, end, ids) \in BOOLEAN /\ Alert(sent \cup mine, end, ids) \in BOOLEAN
    BY DEF Alert
  <2>4. QED
    BY ONLY <1>4, <2>1, <2>2, <2>3 DEF RowTypes
<1>15. PartOfSent'
  BY <1>1, <1>5 DEF IInv, PartOfSent, AsSet
<1>16. PreviewsMore'
  <2>1. Confirmed(ideal, twin') => Confirmed(passed, window')
    BY <1>6, <1>7, <1>11, ConfirmedBelow DEF DequeTypes
  <2>2. decision'.twinPreview = (score # "none" /\ Confirmed(ideal, twin'))
    BY <1>4
  <2>3. decision'.preview = (score # "none" /\ Confirmed(passed, window'))
    BY <1>4
  <2>4. QED
    BY <2>1, <2>2, <2>3 DEF PreviewsMore
<1>17. JudgedAlertsMore'
  <2>1. here \cup mine \subseteq sent \cup mine
    BY <1>5
  <2>2. Status(here \cup mine, end) = "judged" /\ Alert(sent \cup mine, end, ids)
          => Alert(here \cup mine, end, ids)
    BY <2>1, ReferenceShrinks
  <2>3. /\ decision'.status = Status(here \cup mine, end)
        /\ decision'.alert = Alert(here \cup mine, end, ids)
        /\ decision'.twinAlert = Alert(sent \cup mine, end, ids)
    BY <1>4
  <2>4. QED
    BY ONLY <2>2, <2>3 DEF JudgedAlertsMore
<1>18. QED
  BY <1>11, <1>12, <1>13, <1>14, <1>15, <1>16, <1>17 DEF IInv
-------------------------------------------------------------------------------
(* The theorems. *)

LEMMA StepIInv == IInv /\ [Next]_vars => IInv'
<1>0. SUFFICES ASSUME IInv, [Next]_vars PROVE IInv'
  OBVIOUS
<1>1. CASE Connect \/ Disconnect \/ Transfer
  BY <1>0, <1>1, LinkIInv
<1>2. ASSUME NEW ids \in SUBSET SysIds, Publish([end |-> clock + 1, ids |-> ids])
      PROVE  IInv'
  <2>1. [end |-> clock + 1, ids |-> ids] \in Windows
    BY <1>0 DEF IInv, LoopTypes, Windows
  <2>2. QED
    BY <1>0, <1>2, <2>1, PublishIInv
<1>3. ASSUME NEW step \in 0 .. MaxGap + 2, NEW ids \in SUBSET SysIds,
             NEW score \in {"low", "high", "none"}, Frame(clock + step, ids, score)
      PROVE  IInv'
  <2>1. clock + step \in Nat
    BY <1>0 DEF IInv, LoopTypes
  <2>2. QED
    BY <1>0, <1>3, <2>1, FrameIInv
<1>4. CASE UNCHANGED vars
  <2>1. UNCHANGED <<connected, outgoing, inbound, sent, clock, heard, own, context,
                    lastEnd, window, twin, decision, scored>>
    BY <1>4 DEF vars, linkVars, loopVars
  <2>2. QED
    BY <1>0, <2>1 DEF IInv, LinkTypes, LoopTypes, DequeTypes, RowTypes, PartOfSent, AsSet,
                      Below, PreviewsMore, JudgedAlertsMore
<1>5. QED
  BY <1>0, <1>1, <1>2, <1>3, <1>4 DEF Next

THEOREM Invariance == Spec => []IInv
<1>1. Init => IInv
  BY InitIInv
<1>2. IInv /\ [Next]_vars => IInv'
  BY StepIInv
<1>3. QED
  BY <1>1, <1>2, PTL DEF Spec

\* Type correctness: the queues and the deques keep their bounds too.
THEOREM TypeCorrect == Spec => []TypeOK
<1>1. IInv => TypeOK
  BY DEF IInv, TypeOK, LinkTypes, LoopTypes, DequeTypes, RowTypes
<1>2. QED
  BY <1>1, Invariance, PTL

\* A window that previews with every window of the peer previews without the
\* lost ones (pipeline/peer_exchange.py, "alerts more, never less").
THEOREM LossesKeepPreviews == Spec => []PreviewsMore
<1>1. IInv => PreviewsMore
  BY DEF IInv
<1>2. QED
  BY <1>1, Invariance, PTL

\* A judged window of the tripwire alerts at least as it would with them.
THEOREM LossesKeepJudgedAlerts == Spec => []JudgedAlertsMore
<1>1. IInv => JudgedAlertsMore
  BY DEF IInv
<1>2. QED
  BY <1>1, Invariance, PTL
-------------------------------------------------------------------------------
(* The confirmation, against the whole history. *)

Rows == [end : Nat, passed : BOOLEAN]

\* Window i of s follows the one before it without a gap or an overlap.
Follows(s, i) == s[i].end - 1 - s[i - 1].end \in 0 .. MaxGap

\* The deque w of length len is the flags of the longest run of consecutive
\* windows at the end of the history s of length all.
Flags(s, all, w, len) ==
  LET skip == all - len
  IN /\ skip >= 0 /\ (all > 0 => len > 0)
     /\ \A i \in 1 .. len : w[i] = s[i + skip].passed
     /\ \A i \in 2 .. len : Follows(s, i + skip)
     /\ skip > 0 => ~Follows(s, skip + 1)

IsRun(s, w) == Flags(s, Len(s), w, Len(w))

LastEnd(s) == IF s = <<>> THEN NoEnd ELSE s[Len(s)].end

RunInv == IInv /\ IsRun(scored, window) /\ lastEnd = LastEnd(scored) /\ KOfNConsecutive

\* t, of length newLen, is s with x after its len elements, without the first
\* of them when gone is 1.
Pushed(t, newLen, s, len, x, gone) ==
  /\ gone \in {0, 1} /\ newLen = len + 1 - gone
  /\ gone = 1 <=> len = N
  /\ t[newLen] = x
  /\ \A i \in 1 .. len - gone : t[i] = s[i + gone]

LEMMA PushAt ==
  ASSUME NEW S, NEW s \in Seq(S), NEW x \in S, Len(s) <= N
  PROVE  \E gone : Pushed(Push(s, x, N), Len(Push(s, x, N)), s, Len(s), x, gone)
<1>0. N \in Nat \ {0}
  BY DEF PolicyAssumption
<1>1. CASE Len(s) < N
  <2>1. Push(s, x, N) = Append(s, x)
    BY <1>1 DEF Push
  <2>2. Pushed(Append(s, x), Len(Append(s, x)), s, Len(s), x, 0)
    BY <1>0, <1>1 DEF Pushed
  <2>3. QED
    BY <2>1, <2>2
<1>2. CASE ~(Len(s) < N)
  <2>1. Push(s, x, N) = Append(Tail(s), x) /\ s # <<>> /\ Len(s) = N
    BY <1>0, <1>2 DEF Push
  <2>2. Tail(s) \in Seq(S) /\ Len(Tail(s)) = Len(s) - 1
        /\ \A i \in 1 .. Len(s) - 1 : Tail(s)[i] = s[i + 1]
    BY <2>1
  <2>3. Pushed(Append(Tail(s), x), Len(Append(Tail(s), x)), s, Len(s), x, 1)
    BY <2>1, <2>2 DEF Pushed
  <2>4. QED
    BY <2>1, <2>3
<1>3. QED
  BY <1>1, <1>2

\* A window after a gap or an overlap begins a run ...
LEMMA RunBegins ==
  ASSUME NEW s, NEW t, NEW u, NEW row, NEW all \in Nat, NEW newAll, NEW gone,
         Pushed(t, newAll, s, all, row, gone), u[1] = row.passed,
         all > 0 => row.end - 1 - s[all].end \notin 0 .. MaxGap
  PROVE  Flags(t, newAll, u, 1)
<1>0. /\ N \in Nat \ {0} /\ gone \in {0, 1} /\ newAll = all + 1 - gone
      /\ gone <= all /\ t[all + 1 - gone] = row
      /\ \A i \in 1 .. all - gone : t[i] = s[i + gone]
  BY DEF Pushed, PolicyAssumption
<1>1. ASSUME all + 1 - gone > 1
      PROVE  ~Follows(t, all + 1 - gone)
  <2>1. all - gone \in 1 .. all - gone /\ all - gone + gone = all
    BY <1>0, <1>1
  <2>2. t[all - gone] = s[all]
    BY <1>0, <2>1
  <2>3. all + 1 - gone - 1 = all - gone
    BY <1>0
  <2>4. t[all + 1 - gone - 1] = s[all]
    BY ONLY <2>2, <2>3
  <2> QED  BY <1>0, <2>1, <2>4 DEF Follows
<1>2. newAll - 1 + 1 = newAll /\ 1 + (newAll - 1) = newAll /\ newAll \in Nat \ {0}
  BY <1>0
<1> QED  BY <1>0, <1>1, <1>2 DEF Flags

\* ... and any other continues it.
LEMMA RunGoesOn ==
  ASSUME NEW s, NEW w, NEW t, NEW u, NEW row,
         NEW all \in Nat \ {0}, all <= N, NEW len \in Nat, Flags(s, all, w, len),
         NEW newAll, NEW gone, Pushed(t, newAll, s, all, row, gone),
         NEW newLen, NEW less, Pushed(u, newLen, w, len, row.passed, less),
         row.end - 1 - s[all].end \in 0 .. MaxGap
  PROVE  Flags(t, newAll, u, newLen)
<1>n. N \in Nat \ {0}
  BY DEF PolicyAssumption
<1>p. /\ gone \in {0, 1} /\ (gone = 1 <=> all = N) /\ newAll = all + 1 - gone
      /\ less \in {0, 1} /\ (less = 1 <=> len = N) /\ newLen = len + 1 - less
  BY DEF Pushed
<1>q. /\ t[all + 1 - gone] = row
      /\ \A i \in 1 .. all - gone : t[i] = s[i + gone]
      /\ u[len + 1 - less] = row.passed
      /\ \A i \in 1 .. len - less : u[i] = w[i + less]
  BY DEF Pushed
<1> USE <1>n, <1>p
<1>0. PICK skip \in Nat : all = len + skip /\ skip = all - len
  BY DEF Flags
<1>1. /\ len > 0
      /\ \A i \in 1 .. len : w[i] = s[i + skip].passed
      /\ \A i \in 2 .. len : Follows(s, i + skip)
      /\ skip > 0 => ~Follows(s, skip + 1)
  BY <1>0 DEF Flags
<1>2. PICK left \in Nat : left + gone = skip + less
  <2>1. skip + less - gone \in Nat
    BY <1>0
  <2> QED  BY <2>1
<1>3. left = (all + 1 - gone) - (len + 1 - less)
  BY <1>0, <1>2
<1>4. ASSUME NEW i \in 1 .. len + 1 - less PROVE u[i] = t[i + left].passed
  <2>1. CASE i = len + 1 - less
    <3>1. i + left = all + 1 - gone
      BY <1>3, <2>1
    <3> QED  BY <1>q, <2>1, <3>1
  <2>2. CASE i # len + 1 - less
    <3>1. i \in 1 .. len - less /\ i + less \in 1 .. len
      BY <2>2
    <3>2. i + left \in 1 .. all - gone /\ i + left + gone = (i + less) + skip
      BY <1>0, <1>2, <3>1
    <3>3. t[i + left] = s[(i + less) + skip] /\ u[i] = w[i + less]
      BY ONLY <1>q, <3>1, <3>2
    <3> QED  BY ONLY <1>1, <3>1, <3>3
  <2> QED  BY <2>1, <2>2
<1>5. ASSUME NEW i \in 2 .. len + 1 - less PROVE Follows(t, i + left)
  <2>1. CASE i = len + 1 - less
    <3>1. i + left = all + 1 - gone /\ (i + left) - 1 = all - gone /\ all - gone \in 1 .. all - gone
      BY <1>2, <1>3, <1>0, <2>1
    <3>2. all - gone + gone = all
      OBVIOUS
    <3>3. t[(i + left) - 1] = s[all] /\ t[i + left] = row
      BY ONLY <1>q, <3>1, <3>2
    <3> QED  BY ONLY <3>3, row.end - 1 - s[all].end \in 0 .. MaxGap DEF Follows
  <2>2. CASE i # len + 1 - less
    <3>1. i + less \in 2 .. len
      BY <2>2
    <3>2. /\ i + left \in 1 .. all - gone /\ (i + left) - 1 \in 1 .. all - gone
          /\ i + left + gone = (i + less) + skip
          /\ (i + left) - 1 + gone = ((i + less) + skip) - 1
      BY <1>0, <1>2, <3>1
    <3>3. t[i + left] = s[(i + less) + skip] /\ t[(i + left) - 1] = s[((i + less) + skip) - 1]
      BY ONLY <1>q, <3>2
    <3>4. Follows(s, (i + less) + skip)
      BY ONLY <1>1, <3>1
    <3> QED  BY ONLY <3>3, <3>4 DEF Follows
  <2> QED  BY <2>1, <2>2
<1>6. ASSUME left > 0 PROVE ~Follows(t, left + 1)
  <2>1. less = 0 /\ skip > 0 /\ left + gone = skip
    BY <1>0, <1>1, <1>2, <1>6
  <2>2. /\ left + 1 \in 1 .. all - gone /\ left \in 1 .. all - gone
        /\ left + 1 + gone = skip + 1 /\ (left + 1) - 1 = left /\ (skip + 1) - 1 = skip
    BY <1>0, <1>1, <1>6, <2>1
  <2>3. t[left + 1] = s[skip + 1] /\ t[(left + 1) - 1] = s[(skip + 1) - 1]
    BY ONLY <1>q, <2>1, <2>2
  <2> QED  BY ONLY <1>1, <2>1, <2>3 DEF Follows
<1>7. len + 1 - less > 0
  BY <1>1
<1> QED  BY <1>3, <1>4, <1>5, <1>6, <1>7 DEF Flags

LEMMA RunPush ==
  ASSUME NEW s \in Seq(Rows), Len(s) <= N, NEW w \in Seq(BOOLEAN), IsRun(s, w),
         NEW row \in Rows, NEW v,
         IF s # <<>> /\ row.end - 1 - s[Len(s)].end \in 0 .. MaxGap
         THEN v = w ELSE v = <<>>
  PROVE  IsRun(Push(s, row, N), Push(v, row.passed, N))
<1>1. N \in Nat \ {0} /\ row.passed \in BOOLEAN /\ Len(s) \in Nat /\ Len(w) \in Nat
  BY DEF PolicyAssumption, Rows
<1>2. Len(w) <= Len(s)
  BY <1>1 DEF IsRun, Flags
<1>3. v \in Seq(BOOLEAN) /\ Len(v) <= N
  <2>1. <<>> \in Seq(BOOLEAN) /\ Len(<<>>) = 0
    OBVIOUS
  <2>2. CASE v = w
    BY <1>1, <1>2, <2>2
  <2>3. CASE v = <<>>
    BY ONLY <1>1, <2>1, <2>3
  <2> QED  BY <2>2, <2>3
<1> DEFINE t == Push(s, row, N)
           u == Push(v, row.passed, N)
<1>4. PICK gone : Pushed(t, Len(t), s, Len(s), row, gone)
  BY PushAt
<1>5. PICK less : Pushed(u, Len(u), v, Len(v), row.passed, less)
  BY <1>1, <1>3, PushAt
<1> HIDE DEF t, u
<1>6. s = <<>> <=> Len(s) = 0
  OBVIOUS
<1>7. CASE s # <<>> /\ row.end - 1 - s[Len(s)].end \in 0 .. MaxGap
  <2>1. v = w /\ Len(s) \in Nat \ {0}
    BY <1>1, <1>6, <1>7
  <2>2. Flags(s, Len(s), w, Len(w))
    BY DEF IsRun
  <2> QED  BY ONLY <1>1, <1>4, <1>5, <1>7, <2>1, <2>2, Len(s) <= N, RunGoesOn DEF t, u, IsRun
<1>8. CASE ~(s # <<>> /\ row.end - 1 - s[Len(s)].end \in 0 .. MaxGap)
  <2>1. v = <<>> /\ Len(v) = 0
    BY <1>8
  <2>2. Len(u) = 1 /\ u[1] = row.passed
    BY <1>1, <1>5, <2>1 DEF Pushed
  <2>3. Len(s) > 0 => row.end - 1 - s[Len(s)].end \notin 0 .. MaxGap
    BY <1>6, <1>8
  <2> QED  BY ONLY <1>1, <1>4, <2>2, <2>3, RunBegins DEF t, u, IsRun
<1> QED  BY <1>7, <1>8

\* The flags that count in the deque are the passed windows of the history
\* that no gap or overlap separates from its end.
LEMMA SamePasses ==
  ASSUME NEW s \in Seq(Rows), Len(s) <= N, NEW w \in Seq(BOOLEAN), IsRun(s, w)
  PROVE  Cardinality(Passes(w)) =
         Cardinality({i \in 1 .. Len(s) :
                        /\ i > Len(s) - N
                        /\ \A j \in i + 1 .. Len(s) : Follows(s, j)
                        /\ s[i].passed})
<1> DEFINE skip == Len(s) - Len(w)
           Counted == {i \in 1 .. Len(s) : /\ i > Len(s) - N
                                           /\ \A j \in i + 1 .. Len(s) : Follows(s, j)
                                           /\ s[i].passed}
           shift == [i \in Passes(w) |-> i + skip]
<1>1. N \in Nat /\ Len(s) \in Nat /\ Len(w) \in Nat
  BY DEF PolicyAssumption
<1>2. /\ skip \in Nat /\ Len(s) = Len(w) + skip
      /\ \A i \in 1 .. Len(w) : w[i] = s[i + skip].passed
      /\ \A i \in 2 .. Len(w) : Follows(s, i + skip)
      /\ skip > 0 => ~Follows(s, skip + 1)
      /\ Len(s) > 0 => Len(w) > 0
  BY <1>1 DEF IsRun, Flags
<1>3. Passes(w) \subseteq 1 .. Len(w) /\ \A i \in 1 .. Len(w) : i \in Passes(w) <=> w[i]
  BY DEF Passes
<1> HIDE DEF skip
<1>4. ASSUME NEW i \in 1 .. Len(w), w[i]
      PROVE  i + skip \in Counted
  <2>1. i + skip \in 1 .. Len(s) /\ i + skip > Len(s) - N /\ s[i + skip].passed
    BY <1>1, <1>2, <1>4
  <2>2. ASSUME NEW j \in i + skip + 1 .. Len(s) PROVE Follows(s, j)
    <3>1. j - skip \in 2 .. Len(w) /\ (j - skip) + skip = j
      BY <1>1, <1>2
    <3> QED  BY <1>2, <3>1
  <2> QED  BY <2>1, <2>2
<1>5. ASSUME NEW i \in Counted
      PROVE  i - skip \in 1 .. Len(w) /\ w[i - skip] /\ i = (i - skip) + skip
  <2>1. i > skip
    <3> SUFFICES ASSUME i <= skip PROVE FALSE
      BY <1>1, <1>2
    <3>1. Len(w) >= 1
      BY <1>1, <1>2
    <3>2. skip > 0 /\ skip + 1 \in i + 1 .. Len(s)
      BY <1>1, <1>2, <3>1
    <3> QED  BY <1>2, <3>2
  <2>2. i - skip \in 1 .. Len(w) /\ i = (i - skip) + skip
    BY <1>1, <1>2, <2>1
  <2>3. s[i].passed
    OBVIOUS
  <2>4. w[i - skip] = s[(i - skip) + skip].passed
    BY ONLY <1>2, <2>2
  <2> QED  BY ONLY <2>2, <2>3, <2>4
<1>6. shift \in Bijection(Passes(w), Counted)
  <2>1. shift \in [Passes(w) -> Counted]
    BY <1>3, <1>4
  <2>2. \A a, b \in Passes(w) : shift[a] = shift[b] => a = b
    BY <1>2, <1>3
  <2>3. \A t \in Counted : \E a \in Passes(w) : shift[a] = t
    BY <1>3, <1>5
  <2> QED  BY <2>1, <2>2, <2>3 DEF Bijection, Injection, IsInjective, Surjection
<1>7. IsFiniteSet(Passes(w))
  <2>1. IsFiniteSet(1 .. Len(w))
    BY <1>1, FS_Interval
  <2> QED  BY ONLY <1>3, <2>1, FS_Subset
<1>8. ExistsBijection(Passes(w), Counted)
  BY ONLY <1>6 DEF ExistsBijection
<1>9. Cardinality(Counted) = Cardinality(Passes(w))
  BY ONLY <1>7, <1>8, FS_Bijection
<1> QED  BY ONLY <1>9

\* A frame that is scored adds its window to the history and its flag to the
\* deque, or to a new one when a gap or an overlap came before it.
LEMMA FrameRun ==
  ASSUME RunInv, NEW end \in Nat, NEW ids \in SUBSET SysIds,
         NEW score \in {"low", "high", "none"}, Frame(end, ids, score), IInv'
  PROVE  RunInv'
<1> DEFINE here   == heard \cup AsSet(inbound)
           ctx    == Push(IF end - 1 = clock THEN context ELSE <<>>, ids, Context)
           passed == score = "low" /\ ~Discounted(here, end, UNION AsSet(ctx))
           row    == [end |-> end, passed |-> passed]
           win    == IF Broken(end) THEN <<>> ELSE window
<1>1. score # "none" =>
        /\ lastEnd' = end
        /\ window' = Push(win, passed, N)
        /\ scored' = Push(scored, row, N)
  BY Zenon DEF Frame
<1>1a. PICK twinP, status, alert, twinA :
         decision' = [scored      |-> score # "none",
                      preview     |-> score # "none" /\ Confirmed(passed, window'),
                      twinPreview |-> twinP, status |-> status,
                      alert |-> alert, twinAlert |-> twinA]
  BY Zenon DEF Frame
<1>1b. score # "none" => (decision'.preview <=> Confirmed(passed, window'))
  BY ONLY <1>1a
<1>2. score = "none" => UNCHANGED <<lastEnd, window, scored>> /\ decision'.scored = FALSE
  <2>1. score = "none" => UNCHANGED <<lastEnd, window, scored>>
    BY Zenon DEF Frame
  <2> QED  BY <1>1a, <2>1
<1>3. row \in Rows /\ row.passed = passed /\ row.end = end /\ passed \in BOOLEAN
  BY DEF Rows
<1> HIDE DEF passed
<1>4. /\ scored \in Seq(Rows) /\ Len(scored) <= N /\ scored' \in Seq(Rows) /\ Len(scored') <= N
      /\ window \in Seq(BOOLEAN) /\ window' \in Seq(BOOLEAN)
      /\ IsRun(scored, window) /\ lastEnd = LastEnd(scored)
  BY DEF RunInv, IInv, LoopTypes, DequeTypes, Rows
<1>5. MaxGap \in Nat /\ N \in Nat \ {0}
  BY DEF PolicyAssumption
<1>6. CASE score = "none"
  BY <1>2, <1>6 DEF RunInv, KOfNConsecutive, LastEnd, IsRun, Flags, Follows
<1>7. CASE score # "none"
  <2>1. IF scored # <<>> /\ row.end - 1 - scored[Len(scored)].end \in 0 .. MaxGap
        THEN win = window ELSE win = <<>>
    <3>1. CASE scored = <<>>
      BY <1>4, <3>1 DEF LastEnd, Broken
    <3>2. CASE scored # <<>>
      <4>0. scored[Len(scored)] \in Rows
        BY <1>4, <3>2
      <4>1. scored[Len(scored)].end \in Nat /\ lastEnd = scored[Len(scored)].end
        BY <1>4, <3>2, <4>0 DEF LastEnd, Rows
      <4>2. ~Broken(end) <=> end - 1 - scored[Len(scored)].end \in 0 .. MaxGap
        <5>1. PICK before \in Nat : before = lastEnd /\ before = scored[Len(scored)].end
          BY <4>1
        <5>2. ~Broken(end) <=> end - 1 - before \in 0 .. MaxGap
          BY ONLY <1>5, <5>1, end \in Nat DEF Broken, NoEnd
        <5> QED  BY <5>1, <5>2
      <4> QED  BY <1>3, <3>2, <4>2
    <3> QED  BY <3>1, <3>2
  <2> HIDE DEF win, row
  <2>3. IsRun(Push(scored, row, N), Push(win, row.passed, N))
    BY ONLY <1>3, <1>4, <2>1, RunPush
  <2>4. IsRun(scored', window')
    BY <1>1, <1>3, <1>7, <2>3
  <2>5. scored' # <<>> /\ scored'[Len(scored')] = row
    <3>0. Push(scored, row, N) = scored' /\ row \in Rows
      BY <1>1, <1>3, <1>7
    <3>1. PICK gone : Pushed(scored', Len(scored'), scored, Len(scored), row, gone)
      BY ONLY <1>4, <3>0, PushAt
    <3>2. Len(scored') >= 1 /\ scored'[Len(scored')] = row
      BY <1>4, <1>5, <3>1 DEF Pushed
    <3> QED  BY <1>4, <3>2
  <2>6. lastEnd' = LastEnd(scored')
    BY <1>1, <1>3, <1>7, <2>5 DEF LastEnd
  <2>7. KOfNConsecutive'
    <3> DEFINE Counted == {i \in 1 .. Len(scored') :
                             /\ i > Len(scored') - N
                             /\ \A j \in i + 1 .. Len(scored') : Follows(scored', j)
                             /\ scored'[i].passed}
    <3>1. Cardinality(Passes(window')) = Cardinality(Counted)
      BY ONLY <1>4, <2>4, SamePasses
    <3>2. decision'.preview <=> scored'[Len(scored')].passed /\ Cardinality(Counted) >= K
      BY <1>1b, <1>3, <1>7, <2>5, <3>1 DEF Confirmed
    <3> QED  BY <3>2 DEF KOfNConsecutive, Consecutive, Follows
  <2> QED  BY <2>4, <2>6, <2>7 DEF RunInv
<1> QED  BY <1>6, <1>7

LEMMA RunInvInit == Init => RunInv
<1> SUFFICES ASSUME Init PROVE RunInv
  OBVIOUS
<1>1. IInv
  BY InitIInv
<1>2. scored = <<>> /\ window = <<>> /\ lastEnd = NoEnd /\ ~decision.scored
  BY DEF Init, NoRow
<1> QED  BY <1>1, <1>2 DEF RunInv, IsRun, Flags, LastEnd, KOfNConsecutive

LEMMA RunInvStep == RunInv /\ [Next]_vars => RunInv'
<1> SUFFICES ASSUME RunInv, [Next]_vars PROVE RunInv'
  OBVIOUS
<1>1. IInv'
  BY StepIInv DEF RunInv
<1>2. CASE UNCHANGED <<lastEnd, window, decision, scored>>
  BY <1>1, <1>2 DEF RunInv, IsRun, Flags, Follows, LastEnd, KOfNConsecutive, Consecutive
<1>3. ASSUME NEW step \in 0 .. MaxGap + 2, NEW ids \in SUBSET SysIds,
             NEW score \in {"low", "high", "none"}, Frame(clock + step, ids, score)
      PROVE  RunInv'
  <2>1. clock + step \in Nat
    BY DEF RunInv, IInv, LoopTypes, PolicyAssumption
  <2> QED  BY <1>1, <1>3, <2>1, FrameRun
<1>4. CASE Connect \/ Disconnect \/ Transfer
  BY <1>2, <1>4 DEF Connect, Disconnect, Transfer, loopVars
<1>5. CASE \E ids \in SUBSET SysIds : Publish([end |-> clock + 1, ids |-> ids])
  BY <1>2, <1>5 DEF Publish, loopVars
<1>6. CASE UNCHANGED vars
  BY <1>2, <1>6 DEF vars, loopVars
<1> QED  BY <1>3, <1>4, <1>5, <1>6 DEF Next

\* The deque of the last flags, emptied at a gap and bounded (confirmation.py),
\* confirms what the whole history of scored windows says it should.
THEOREM ConfirmsKOfN == Spec => []KOfNConsecutive
<1>1. RunInv => KOfNConsecutive
  BY DEF RunInv
<1> QED  BY <1>1, RunInvInit, RunInvStep, PTL DEF Spec
-------------------------------------------------------------------------------
(* CandidateShadow: the timeline of the rows and what a history is.        *)

HIDE PolicyAssumption

\* No two boundaries are closer than an interval, and a container has at most
\* one row per boundary.
Timeline ==
  /\ rows \in Seq(FeatureRows) /\ Len(rows) <= MaxRows
  /\ \A i, j \in DOMAIN rows : i < j => rows[i].end <= rows[j].end
  /\ \A i, j \in DOMAIN rows :
       i < j /\ rows[i].container = rows[j].container => rows[i].end < rows[j].end
  /\ \A i, j \in DOMAIN rows :
       rows[i].end < rows[j].end => \E g \in Gaps : rows[i].end + g <= rows[j].end

Clean(n, c) == n \in DOMAIN rows /\ rows[n].container = c /\ rows[n].intact

\* No row of c lies between p and n.
Adjacent(p, n, c) == p < n /\ \A k \in p + 1 .. n - 1 : rows[k].container # c

\* windows are successive rows of c, none of them degraded.
Chain(windows, c) ==
  /\ windows \in Seq(Nat) /\ windows # <<>>
  /\ \A i \in DOMAIN windows : Clean(windows[i], c)
  /\ \A i \in 1 .. Len(windows) - 1 : Adjacent(windows[i], windows[i + 1], c)

Histories == [container : Containers, windows : Seq(Nat)]

\* A history holds a chain no longer than a context.
IsHistory(h) ==
  /\ h \in Histories
  /\ Chain(h.windows, h.container) /\ Len(h.windows) <= HistorySize + 1

AreHistories(hs) == hs \in Seq(Histories) /\ \A i \in DOMAIN hs : IsHistory(hs[i])

HistoriesAreChains == AreHistories(histories) /\ Len(histories) <= MaxIdentities

ContextIsChain ==
  stacked = <<>> \/ (Len(stacked) = HistorySize + 1 /\ \E c \in Containers : Chain(stacked, c))

SegmentTypes ==
  /\ files \in Seq(Seq(Pieces)) /\ terminal \in Seq(BOOLEAN) /\ Len(terminal) = Len(files)
  /\ open \in BOOLEAN /\ (open => files # <<>>) /\ pending \in Seq(Pieces)

\* Only rows that were made are in a file or on the way there.
PiecesOfRows ==
  /\ \A s \in DOMAIN files : \A i \in DOMAIN files[s] : files[s][i][1] <= Len(rows)
  /\ \A i \in DOMAIN pending : pending[i][1] <= Len(rows)

CursorTypes ==
  /\ fromStart \in BOOLEAN /\ initial \in BOOLEAN /\ source \in BOOLEAN /\ eof \in BOOLEAN
  /\ number \in 0 .. Len(files) /\ offset \in Nat
  /\ source => number > 0 /\ offset <= Len(files[number])
  /\ last \in 0 .. Len(rows)

ShadowIInv ==
  /\ Timeline /\ SegmentTypes /\ PiecesOfRows /\ CursorTypes
  /\ HistoriesAreChains /\ ContextIsChain

\* Two rows of a container that are one window apart have none of its rows
\* between them: a third would leave two intervals in the gap.
LEMMA CadenceIsAdjacent ==
  ASSUME Timeline, NEW p \in DOMAIN rows, NEW n \in DOMAIN rows,
         rows[p].container = rows[n].container,
         MinGap <= rows[n].end - rows[p].end, rows[n].end - rows[p].end <= MaxWindowGap
  PROVE  Adjacent(p, n, rows[n].container)
<1>1. /\ rows \in Seq(FeatureRows) /\ DOMAIN rows = 1 .. Len(rows) /\ Len(rows) \in Nat
      /\ p \in Nat /\ n \in Nat
  BY DEF Timeline
<1>2. \A i \in DOMAIN rows : rows[i].end \in Nat
  <2>1. ASSUME NEW i \in DOMAIN rows
        PROVE  rows[i] \in FeatureRows
    BY <1>1
  <2>2. QED
    BY <2>1 DEF FeatureRows
<1>3. rows[p].end < rows[n].end
  BY <1>2, ShadowAssumption
<1>4. p < n
  <2>1. n < p => rows[n].end <= rows[p].end
    BY DEF Timeline
  <2>2. QED
    BY <2>1, <1>1, <1>2, <1>3
<1>5. ASSUME NEW k \in p + 1 .. n - 1, rows[k].container = rows[n].container
      PROVE  FALSE
  <2>1. k \in DOMAIN rows /\ p < k /\ k < n
    BY <1>1
  <2>2. rows[p].end < rows[k].end /\ rows[k].end < rows[n].end
    BY <1>5, <2>1 DEF Timeline
  <2>3. PICK g \in Gaps : rows[p].end + g <= rows[k].end
    BY <2>1, <2>2 DEF Timeline
  <2>4. PICK h \in Gaps : rows[k].end + h <= rows[n].end
    BY <2>1, <2>2 DEF Timeline
  <2>5. g + h > MaxWindowGap /\ g \in Nat /\ h \in Nat /\ MaxWindowGap \in Nat
    BY ShadowAssumption
  <2>6. QED
    BY <2>1, <2>3, <2>4, <2>5, <1>2
<1>6. QED
  BY <1>4, <1>5 DEF Adjacent

LEMMA ChainOfOne ==
  ASSUME NEW c, NEW n \in Nat, Clean(n, c)
  PROVE  Chain(<<n>>, c)
BY DEF Chain

LEMMA ChainExtended ==
  ASSUME NEW c, NEW windows, Chain(windows, c),
         NEW n \in Nat, Clean(n, c), Adjacent(Last(windows), n, c)
  PROVE  Chain(windows \o <<n>>, c)
<1> DEFINE longer == windows \o <<n>>
<1>1. /\ windows \in Seq(Nat) /\ Len(windows) \in Nat \ {0} /\ DOMAIN windows = 1 .. Len(windows)
      /\ Last(windows) = windows[Len(windows)]
  BY DEF Chain, Last
<1>2. /\ longer \in Seq(Nat) /\ Len(longer) = Len(windows) + 1 /\ longer # <<>>
      /\ longer[Len(windows) + 1] = n
      /\ \A i \in DOMAIN windows : longer[i] = windows[i]
  BY <1>1
<1> HIDE DEF longer
<1>3. ASSUME NEW i \in DOMAIN longer
      PROVE  Clean(longer[i], c)
  <2>1. i \in DOMAIN windows \/ i = Len(windows) + 1
    BY <1>1, <1>2
  <2>2. QED
    BY <2>1, <1>2 DEF Chain
<1>4. ASSUME NEW i \in 1 .. Len(windows)
      PROVE  Adjacent(longer[i], longer[i + 1], c)
  <2>1. CASE i = Len(windows)
    BY <2>1, <1>1, <1>2
  <2>2. CASE i # Len(windows)
    <3>0. Len(windows) \in Nat /\ i \in 1 .. Len(windows) /\ i # Len(windows)
      BY <2>2, <1>1
    <3>1. i \in 1 .. Len(windows) - 1
      BY ONLY <3>0
    <3>2. i \in DOMAIN windows /\ i + 1 \in DOMAIN windows
      BY <3>1, <1>1
    <3>3. QED
      BY <3>1, <3>2, <1>2 DEF Chain
  <2>3. QED
    BY <2>1, <2>2
<1>5. Chain(longer, c)
  <2>1. Len(longer) - 1 = Len(windows)
    BY <1>1, <1>2
  <2>2. QED
    BY <2>1, <1>2, <1>3, <1>4 DEF Chain
<1>6. QED
  BY <1>5 DEF longer

LEMMA ChainShortened ==
  ASSUME NEW c, NEW windows, Chain(windows, c), NEW a \in 1 .. Len(windows)
  PROVE  /\ Chain(SubSeq(windows, a, Len(windows)), c)
         /\ Len(SubSeq(windows, a, Len(windows))) = Len(windows) - a + 1
<1> DEFINE shorter == SubSeq(windows, a, Len(windows))
<1>1. windows \in Seq(Nat) /\ Len(windows) \in Nat \ {0} /\ DOMAIN windows = 1 .. Len(windows)
  BY DEF Chain
<1>2. /\ shorter \in Seq(Nat) /\ Len(shorter) = Len(windows) - a + 1
      /\ \A i \in 1 .. Len(windows) - a + 1 : shorter[i] = windows[a + i - 1]
  <2>1. \A i \in a .. Len(windows) : windows[i] \in Nat
    BY <1>1
  <2>2. QED
    BY <1>1, <2>1, SubSeqProperties
<1> HIDE DEF shorter
<1>3. DOMAIN shorter = 1 .. Len(windows) - a + 1 /\ shorter # <<>>
  BY <1>1, <1>2
<1>4. ASSUME NEW i \in DOMAIN shorter
      PROVE  Clean(shorter[i], c)
  <2>1. a + i - 1 \in DOMAIN windows /\ shorter[i] = windows[a + i - 1]
    <3>1. i \in 1 .. Len(windows) - a + 1
      BY <1>3
    <3>2. a + i - 1 \in 1 .. Len(windows)
      BY ONLY <3>1, <1>1, a \in 1 .. Len(windows)
    <3>3. QED
      BY <3>1, <3>2, <1>1, <1>2
  <2>2. QED
    BY <2>1 DEF Chain
<1>5. ASSUME NEW i \in 1 .. Len(shorter) - 1
      PROVE  Adjacent(shorter[i], shorter[i + 1], c)
  <2>1. /\ a + i - 1 \in 1 .. Len(windows) - 1 /\ shorter[i] = windows[a + i - 1]
        /\ shorter[i + 1] = windows[(a + i - 1) + 1]
    <3>1. i \in 1 .. Len(windows) - a + 1 /\ i + 1 \in 1 .. Len(windows) - a + 1
      BY <1>1, <1>2
    <3>2. a + (i + 1) - 1 = (a + i - 1) + 1 /\ a + i - 1 \in 1 .. Len(windows) - 1
      BY <1>1, <1>2
    <3>3. QED
      BY <3>1, <3>2, <1>2
  <2>2. QED
    BY <2>1 DEF Chain
<1>6. Chain(shorter, c) /\ Len(shorter) = Len(windows) - a + 1
  BY <1>2, <1>3, <1>4, <1>5 DEF Chain
<1>7. QED
  BY <1>6 DEF shorter

LEMMA MaxOfOneAnd ==
  ASSUME NEW k \in Int
  PROVE  Max({1, k}) \in Int /\ Max({1, k}) >= 1 /\ Max({1, k}) >= k /\ Max({1, k}) \in {1, k}
<1> DEFINE IsMax(x) == x \in {1, k} /\ \A y \in {1, k} : x >= y
<1>1. \E x : IsMax(x)
  <2>1. IsMax(1) \/ IsMax(k)
    OBVIOUS
  <2>2. QED
    BY <2>1
<1>2. IsMax(Max({1, k}))
  BY <1>1 DEF Max
<1>3. QED
  BY <1>2
-------------------------------------------------------------------------------
(* The collection's steps. *)

LEMMA EndsAreLate ==
  ASSUME Timeline, NEW end \in Ends
  PROVE  /\ end \in Nat
         /\ \A i \in DOMAIN rows : rows[i].end <= end
         /\ \A i \in DOMAIN rows :
              rows[i].end < end => \E g \in Gaps : rows[i].end + g <= end
<1>1. rows \in Seq(FeatureRows) /\ DOMAIN rows = 1 .. Len(rows) /\ Len(rows) \in Nat
  BY DEF Timeline
<1>2. \A i \in DOMAIN rows : rows[i].end \in Nat
  <2>1. ASSUME NEW i \in DOMAIN rows
        PROVE  rows[i] \in FeatureRows
    BY <1>1
  <2>2. QED
    BY <2>1 DEF FeatureRows
<1>3. CASE rows = <<>>
  BY <1>3 DEF Ends
<1>4. CASE rows # <<>>
  <2>1. Len(rows) \in DOMAIN rows /\ Last(rows) = rows[Len(rows)]
    BY <1>1, <1>4 DEF Last
  <2>2. PICK g \in Gaps \cup {0} : end = rows[Len(rows)].end + g
    BY <1>4, <2>1 DEF Ends
  <2>3. g \in Nat /\ (g # 0 => g \in Gaps)
    BY ShadowAssumption
  <2>4. \A i \in DOMAIN rows : rows[i].end <= rows[Len(rows)].end
    <3>1. \A i \in DOMAIN rows : i < Len(rows) \/ i = Len(rows)
      BY <1>1
    <3>2. QED
      BY <3>1, <2>1, <1>2 DEF Timeline
  <2>5. end \in Nat /\ \A i \in DOMAIN rows : rows[i].end <= end
    BY <2>1, <2>2, <2>3, <2>4, <1>2
  <2>6. ASSUME NEW i \in DOMAIN rows, rows[i].end < end
        PROVE  \E h \in Gaps : rows[i].end + h <= end
    <3>1. CASE g = 0
      <4>1. rows[i].end < rows[Len(rows)].end /\ end = rows[Len(rows)].end
        BY <3>1, <2>6, <2>2, <2>1, <1>2
      <4>2. QED
        BY <4>1, <2>1 DEF Timeline
    <3>2. CASE g # 0
      <4>1. rows[i].end + g <= end
        BY <2>1, <2>2, <2>3, <2>4, <1>2
      <4>2. QED
        BY <3>2, <4>1, <2>3
    <3>3. QED
      BY <3>1, <3>2
  <2>7. QED
    BY <2>5, <2>6
<1>5. QED
  BY <1>3, <1>4

LEMMA TimelineGrows ==
  ASSUME Timeline, Len(rows) < MaxRows, NEW row \in FeatureRows, row.end \in Ends,
         \A i \in DOMAIN rows : rows[i].container = row.container => rows[i].end < row.end,
         rows' = Append(rows, row)
  PROVE  Timeline'
<1>1. rows \in Seq(FeatureRows) /\ DOMAIN rows = 1 .. Len(rows) /\ Len(rows) \in Nat
  BY DEF Timeline
<1>2. /\ rows' \in Seq(FeatureRows) /\ Len(rows') = Len(rows) + 1
      /\ DOMAIN rows' = 1 .. Len(rows) + 1
      /\ rows'[Len(rows) + 1] = row /\ \A i \in DOMAIN rows : rows'[i] = rows[i]
  BY <1>1
<1>3. \A i \in DOMAIN rows' : i \in DOMAIN rows \/ i = Len(rows) + 1
  BY <1>1, <1>2
<1>4. /\ \A i \in DOMAIN rows : rows[i].end <= row.end
      /\ \A i \in DOMAIN rows :
           rows[i].end < row.end => \E g \in Gaps : rows[i].end + g <= row.end
  BY EndsAreLate
<1>5. ASSUME NEW i \in DOMAIN rows', NEW j \in DOMAIN rows', i < j
      PROVE  /\ rows'[i].end <= rows'[j].end
             /\ rows'[i].container = rows'[j].container => rows'[i].end < rows'[j].end
  <2>1. i \in DOMAIN rows /\ rows'[i] = rows[i]
    BY <1>1, <1>2, <1>5
  <2>2. CASE j \in DOMAIN rows
    BY <1>5, <2>1, <2>2, <1>2 DEF Timeline
  <2>3. CASE j = Len(rows) + 1
    BY <2>1, <2>3, <1>2, <1>4
  <2>4. QED
    BY <1>3, <2>2, <2>3
<1>6. ASSUME NEW i \in DOMAIN rows', NEW j \in DOMAIN rows', rows'[i].end < rows'[j].end
      PROVE  \E g \in Gaps : rows'[i].end + g <= rows'[j].end
  <2>1. CASE i \in DOMAIN rows /\ j \in DOMAIN rows
    BY <1>6, <2>1, <1>2 DEF Timeline
  <2>2. CASE i \in DOMAIN rows /\ j = Len(rows) + 1
    BY <1>6, <2>2, <1>2, <1>4
  <2>3. CASE i = Len(rows) + 1
    <3>1. row.end \in Nat
      BY DEF FeatureRows
    <3>2. ASSUME NEW k \in DOMAIN rows PROVE rows[k].end \in Nat
      <4>1. rows[k] \in FeatureRows
        BY <1>1
      <4>2. QED
        BY <4>1 DEF FeatureRows
    <3>3. CASE j \in DOMAIN rows
      <4>1. row.end < rows[j].end
        BY <1>6, <2>3, <3>3, <1>2
      <4>2. QED
        BY <4>1, <3>1, <3>2, <3>3, <1>4
    <3>4. CASE j = Len(rows) + 1
      BY <1>6, <2>3, <3>4, <3>1, <1>2
    <3>5. QED
      BY <1>3, <3>3, <3>4
  <2>4. QED
    BY <1>3, <2>1, <2>2, <2>3
<1>7. MaxRows \in Nat
  BY ShadowAssumption
<1>8. QED
  BY <1>1, <1>2, <1>5, <1>6, <1>7 DEF Timeline

\* A later row changes no chain.
LEMMA ChainsStay ==
  ASSUME Timeline, NEW row, rows' = Append(rows, row),
         NEW windows, NEW c, Chain(windows, c)
  PROVE  Chain(windows, c)'
<1>1. rows \in Seq(FeatureRows) /\ DOMAIN rows = 1 .. Len(rows) /\ Len(rows) \in Nat
  BY DEF Timeline
<1>2. /\ DOMAIN rows \subseteq DOMAIN rows'
      /\ \A i \in DOMAIN rows : rows'[i] = rows[i]
  BY <1>1
<1>3. windows \in Seq(Nat) /\ Len(windows) \in Nat /\ DOMAIN windows = 1 .. Len(windows)
  BY DEF Chain
<1>4. ASSUME NEW i \in DOMAIN windows
      PROVE  Clean(windows[i], c)'
  BY <1>2 DEF Chain, Clean
<1>5. ASSUME NEW i \in 1 .. Len(windows) - 1
      PROVE  Adjacent(windows[i], windows[i + 1], c)'
  <2>1. i \in DOMAIN windows /\ i + 1 \in DOMAIN windows
    BY <1>3
  <2>2. windows[i] \in 1 .. Len(rows) /\ windows[i + 1] \in 1 .. Len(rows)
    BY <2>1, <1>1 DEF Chain, Clean
  <2>3. \A k \in windows[i] + 1 .. windows[i + 1] - 1 : k \in DOMAIN rows
    BY <2>2, <1>1
  <2>4. Adjacent(windows[i], windows[i + 1], c)
    BY DEF Chain
  <2>5. QED
    BY <2>3, <2>4, <1>2 DEF Adjacent
<1>6. QED
  BY <1>4, <1>5 DEF Chain

LEMMA PieceType ==
  ASSUME NEW n \in 1 .. MaxRows, NEW half \in {1, 2}
  PROVE  <<n, half>> \in Pieces
BY DEF Pieces

LEMMA RowIsWritten ==
  ASSUME ShadowIInv, WriteRow
  PROVE  ShadowIInv'
<1>1. PICK c \in Containers, end \in Ends, intact \in BOOLEAN :
        /\ \A i \in DOMAIN rows : rows[i].container = c => rows[i].end < end
        /\ rows' = Append(rows, [container |-> c, end |-> end, intact |-> intact])
  BY DEF WriteRow
<1>2. /\ Timeline /\ SegmentTypes /\ PiecesOfRows /\ CursorTypes
      /\ HistoriesAreChains /\ ContextIsChain
  BY DEF ShadowIInv
<1>3. PICK row : row = [container |-> c, end |-> end, intact |-> intact]
  OBVIOUS
<1>4. /\ row \in FeatureRows /\ row.end = end /\ row.container = c
      /\ rows' = Append(rows, row)
  <2>1. end \in Nat
    BY <1>2, EndsAreLate
  <2>2. QED
    BY <1>1, <1>3, <2>1 DEF FeatureRows
<1>5. /\ Len(rows) < MaxRows
      /\ pending' = pending \o <<<<Len(rows'), 1>>, <<Len(rows'), 2>>>>
      /\ files' = files /\ terminal' = terminal /\ open' = open
      /\ fromStart' = fromStart /\ initial' = initial /\ number' = number /\ source' = source
      /\ offset' = offset /\ eof' = eof /\ last' = last
      /\ histories' = histories /\ stacked' = stacked
  BY DEF WriteRow, readerVars, followerVars, runtimeVars
<1>6. rows \in Seq(FeatureRows) /\ Len(rows) \in Nat /\ Len(rows') = Len(rows) + 1
  BY <1>2, <1>4 DEF Timeline
<1>7. Timeline'
  BY <1>1, <1>2, <1>4, <1>5, TimelineGrows
<1>8. SegmentTypes' /\ PiecesOfRows'
  <2> DEFINE first == <<Len(rows'), 1>>
             second == <<Len(rows'), 2>>
  <2>1. Len(rows') \in 1 .. MaxRows
    BY <1>5, <1>6, ShadowAssumption
  <2>2. first \in Pieces /\ second \in Pieces /\ first[1] = Len(rows') /\ second[1] = Len(rows')
    BY <2>1, PieceType
  <2>3. pending \in Seq(Pieces) /\ pending' = pending \o <<first, second>>
    BY <1>2, <1>5 DEF SegmentTypes
  <2> HIDE DEF first, second
  <2>4. /\ pending' \in Seq(Pieces) /\ DOMAIN pending' = 1 .. Len(pending) + 2
        /\ \A i \in DOMAIN pending : pending'[i] = pending[i]
        /\ pending'[Len(pending) + 1] = first /\ pending'[Len(pending) + 2] = second
    BY <2>2, <2>3
  <2>5. ASSUME NEW i \in DOMAIN pending'
        PROVE  pending'[i][1] <= Len(rows')
    <3>1. i \in DOMAIN pending \/ i = Len(pending) + 1 \/ i = Len(pending) + 2
      BY <2>3, <2>4
    <3>2. CASE i \in DOMAIN pending
      <4>1. pending'[i] = pending[i] /\ pending[i] \in Pieces /\ pending[i][1] <= Len(rows)
        BY <3>2, <1>2, <2>3, <2>4 DEF PiecesOfRows
      <4>2. pending[i][1] \in Nat
        BY <4>1 DEF Pieces
      <4>3. QED
        BY <4>1, <4>2, <1>6
    <3>3. CASE i = Len(pending) + 1 \/ i = Len(pending) + 2
      BY <3>3, <2>2, <2>4, <1>6
    <3>4. QED
      BY <3>1, <3>2, <3>3
  <2>6. ASSUME NEW s \in DOMAIN files, NEW i \in DOMAIN files[s]
        PROVE  files[s][i][1] <= Len(rows')
    <3>1. files[s] \in Seq(Pieces)
      BY <1>2 DEF SegmentTypes
    <3>2. files[s][i] \in Pieces
      BY <3>1
    <3>3. files[s][i][1] \in Nat /\ files[s][i][1] <= Len(rows)
      BY <3>2, <1>2 DEF Pieces, PiecesOfRows
    <3>4. QED
      BY <3>3, <1>6
  <2>7. QED
    BY <1>2, <1>5, <2>4, <2>5, <2>6 DEF SegmentTypes, PiecesOfRows
<1>9. CursorTypes'
  BY <1>2, <1>5, <1>6 DEF CursorTypes
<1>10. HistoriesAreChains'
  <2>1. ASSUME NEW i \in DOMAIN histories
        PROVE  IsHistory(histories[i])'
    <3>1. PICK h : h = histories[i]
      OBVIOUS
    <3>2. IsHistory(h)
      BY <1>2, <3>1 DEF HistoriesAreChains, AreHistories
    <3>3. PICK w, d : w = h.windows /\ d = h.container
      OBVIOUS
    <3>4. Chain(w, d)
      BY <3>2, <3>3 DEF IsHistory
    <3>5. Chain(w, d)'
      BY <1>2, <1>4, <3>4, ChainsStay
    <3>6. IsHistory(h)'
      BY <3>2, <3>3, <3>5 DEF IsHistory
    <3>7. h = histories[i]'
      BY <1>5, <3>1
    <3>8. QED
      BY <3>6, <3>7 DEF IsHistory, Chain, Clean, Adjacent
  <2>2. AreHistories(histories) /\ Len(histories) <= MaxIdentities
    BY <1>2 DEF HistoriesAreChains
  <2>3. histories' \in Seq(Histories) /\ Len(histories') <= MaxIdentities
    BY <2>2, <1>5 DEF AreHistories
  <2>4. DOMAIN histories' = DOMAIN histories
    BY <1>5
  <2>5. QED
    BY <2>1, <2>3, <2>4 DEF HistoriesAreChains, AreHistories
<1>11. ContextIsChain'
  <2>1. CASE stacked = <<>>
    BY <1>5, <2>1 DEF ContextIsChain
  <2>2. CASE stacked # <<>>
    <3>1. PICK w : w = stacked
      OBVIOUS
    <3>2. PICK d \in Containers : Len(w) = HistorySize + 1 /\ Chain(w, d)
      BY <1>2, <2>2, <3>1 DEF ContextIsChain
    <3>3. Chain(w, d)'
      BY <1>2, <1>4, <3>2, ChainsStay
    <3>4. w = stacked'
      BY <1>5, <3>1
    <3>5. QED
      BY <3>2, <3>3, <3>4 DEF ContextIsChain, Chain, Clean, Adjacent
  <2>3. QED
    BY <2>1, <2>2
<1>12. QED
  BY <1>7, <1>8, <1>9, <1>10, <1>11 DEF ShadowIInv

\* While no row is added, a chain stays one.
LEMMA NewHistories ==
  ASSUME NEW hs, AreHistories(hs), Len(hs) <= MaxIdentities, rows' = rows, histories' = hs
  PROVE  HistoriesAreChains'
BY DEF HistoriesAreChains, AreHistories, IsHistory, Chain, Clean, Adjacent

LEMMA NewContext ==
  ASSUME NEW windows, NEW c \in Containers, Chain(windows, c), Len(windows) = HistorySize + 1,
         rows' = rows, stacked' = windows
  PROVE  ContextIsChain'
BY DEF ContextIsChain, Chain, Clean, Adjacent

\* While the scorer does nothing either, the histories stay.
LEMMA RuntimeKept ==
  ASSUME HistoriesAreChains, ContextIsChain, rows' = rows,
         histories' = histories, stacked' = stacked
  PROVE  HistoriesAreChains' /\ ContextIsChain'
<1>1. HistoriesAreChains'
  <2>1. PICK hs : hs = histories
    OBVIOUS
  <2>2. AreHistories(hs) /\ Len(hs) <= MaxIdentities /\ histories' = hs
    BY <2>1 DEF HistoriesAreChains
  <2>3. QED
    BY <2>2, NewHistories
<1>2. ContextIsChain'
  <2>1. CASE stacked = <<>>
    BY <2>1 DEF ContextIsChain
  <2>2. CASE stacked # <<>>
    <3>1. PICK w : w = stacked
      OBVIOUS
    <3>2. PICK c \in Containers : Chain(w, c) /\ Len(w) = HistorySize + 1 /\ stacked' = w
      BY <2>2, <3>1 DEF ContextIsChain
    <3>3. QED
      BY <3>2, NewContext
  <2>3. QED
    BY <2>1, <2>2
<1>3. QED
  BY <1>1, <1>2

LEMMA TimelineKept ==
  ASSUME Timeline, rows' = rows
  PROVE  Timeline'
BY DEF Timeline

LEMMA ShadowInitially ==
  ASSUME ShadowInit
  PROVE  ShadowIInv
<1>1. Timeline
  BY ShadowAssumption DEF ShadowInit, Timeline
<1>2. SegmentTypes /\ PiecesOfRows
  <2>1. files = <<>> /\ terminal = <<>> /\ pending = <<>> /\ open = FALSE
    BY DEF ShadowInit
  <2>2. <<>> \in Seq(Seq(Pieces)) /\ <<>> \in Seq(BOOLEAN) /\ <<>> \in Seq(Pieces)
    OBVIOUS
  <2>3. DOMAIN files = {} /\ DOMAIN pending = {}
    BY <2>1
  <2>4. QED
    BY <2>1, <2>2, <2>3 DEF SegmentTypes, PiecesOfRows
<1>3. CursorTypes
  <2>1. Len(files) = 0 /\ Len(rows) = 0
    BY DEF ShadowInit
  <2>2. number \in 0 .. Len(files) /\ offset \in Nat /\ last \in 0 .. Len(rows) /\ ~source
    BY <2>1 DEF ShadowInit
  <2>3. fromStart \in BOOLEAN /\ initial \in BOOLEAN /\ source \in BOOLEAN /\ eof \in BOOLEAN
    BY Zenon DEF ShadowInit
  <2>4. QED
    BY <2>2, <2>3 DEF CursorTypes
<1>4. HistoriesAreChains /\ ContextIsChain
  BY ShadowAssumption DEF ShadowInit, HistoriesAreChains, AreHistories, ContextIsChain
<1>5. QED
  BY <1>1, <1>2, <1>3, <1>4 DEF ShadowIInv

LEMMA SegmentIsOpened ==
  ASSUME ShadowIInv, OpenSegment
  PROVE  ShadowIInv'
<1>1. /\ Timeline /\ SegmentTypes /\ PiecesOfRows /\ CursorTypes
      /\ HistoriesAreChains /\ ContextIsChain
  BY DEF ShadowIInv
<1>2. /\ files' = Append(files, <<>>) /\ terminal' = Append(terminal, FALSE) /\ open' = TRUE
      /\ rows' = rows /\ pending' = pending
      /\ fromStart' = fromStart /\ initial' = initial /\ number' = number /\ source' = source
      /\ offset' = offset /\ eof' = eof /\ last' = last
      /\ histories' = histories /\ stacked' = stacked
  BY DEF OpenSegment, readerVars, followerVars, runtimeVars
<1>3. /\ files \in Seq(Seq(Pieces)) /\ Len(files) \in Nat
      /\ terminal \in Seq(BOOLEAN) /\ Len(terminal) = Len(files)
  BY <1>1 DEF SegmentTypes
<1>4. /\ files' \in Seq(Seq(Pieces)) /\ files' # <<>> /\ Len(files') = Len(files) + 1
      /\ DOMAIN files' = 1 .. Len(files) + 1
      /\ files'[Len(files) + 1] = <<>>
      /\ \A s \in DOMAIN files : files'[s] = files[s]
  BY <1>2, <1>3
<1>5. SegmentTypes'
  BY <1>1, <1>2, <1>3, <1>4 DEF SegmentTypes
<1>6. PiecesOfRows'
  <2>1. ASSUME NEW s \in DOMAIN files', NEW i \in DOMAIN files'[s]
        PROVE  files'[s][i][1] <= Len(rows)
    <3>1. CASE s \in DOMAIN files
      BY <3>1, <1>1, <1>4 DEF PiecesOfRows
    <3>2. CASE s = Len(files) + 1
      BY <3>2, <1>4
    <3>3. QED
      BY <3>1, <3>2, <1>3, <1>4
  <2>2. QED
    BY <2>1, <1>1, <1>2 DEF PiecesOfRows
<1>7. CursorTypes'
  <2>1. source => number \in DOMAIN files
    BY <1>1, <1>3 DEF CursorTypes
  <2>2. QED
    BY <2>1, <1>1, <1>2, <1>3, <1>4 DEF CursorTypes
<1>8. QED
  BY <1>1, <1>2, <1>5, <1>6, <1>7, RuntimeKept, TimelineKept DEF ShadowIInv

LEMMA PiecesAreSpilt ==
  ASSUME ShadowIInv, Spill
  PROVE  ShadowIInv'
<1>1. /\ Timeline /\ SegmentTypes /\ PiecesOfRows /\ CursorTypes
      /\ HistoriesAreChains /\ ContextIsChain
  BY DEF ShadowIInv
<1>2. PICK n \in 1 .. Len(pending) :
        /\ files' = [files EXCEPT ![Len(files)] = @ \o SubSeq(pending, 1, n)]
        /\ pending' = SubSeq(pending, n + 1, Len(pending))
  BY DEF Spill, ToFile
<1>3. /\ open /\ terminal' = terminal /\ open' = open /\ rows' = rows
      /\ fromStart' = fromStart /\ initial' = initial /\ number' = number /\ source' = source
      /\ offset' = offset /\ eof' = eof /\ last' = last
      /\ histories' = histories /\ stacked' = stacked
  BY DEF Spill, readerVars, followerVars, runtimeVars
<1>4. /\ files \in Seq(Seq(Pieces)) /\ Len(files) \in Nat /\ files # <<>>
      /\ pending \in Seq(Pieces) /\ Len(pending) \in Nat
      /\ DOMAIN files = 1 .. Len(files)
  BY <1>1, <1>3 DEF SegmentTypes
<1>5. PICK gone, kept : gone = SubSeq(pending, 1, n) /\ kept = SubSeq(pending, n + 1, Len(pending))
  OBVIOUS
<1>6. /\ gone \in Seq(Pieces) /\ Len(gone) = n /\ \A i \in 1 .. n : gone[i] = pending[i]
      /\ kept \in Seq(Pieces) /\ Len(kept) = Len(pending) - n
      /\ \A i \in 1 .. Len(pending) - n : kept[i] = pending[i + n]
  <2>1. \A i \in 1 .. n : i \in 1 .. Len(pending)
    BY <1>4
  <2>2. gone \in Seq(Pieces) /\ Len(gone) = n /\ \A i \in 1 .. n : gone[i] = pending[i]
    BY <1>4, <1>5, <2>1, SubSeqProperties
  <2>3. \A i \in n + 1 .. Len(pending) : pending[i] \in Pieces
    BY <1>4
  <2>4. kept \in Seq(Pieces) /\ Len(kept) = Len(pending) - n
    BY <1>4, <1>5, <2>3
  <2>5. \A i \in 1 .. Len(pending) - n : kept[i] = pending[i + n]
    BY <1>4, <1>5
  <2>6. QED
    BY <2>2, <2>4, <2>5
<1>7. PICK s : s = Len(files)
  OBVIOUS
<1>8. s \in DOMAIN files /\ files[s] \in Seq(Pieces) /\ Len(files[s]) \in Nat
  BY <1>4, <1>7
<1>9. PICK longer : longer = files[s] \o gone
  OBVIOUS
<1>10. /\ longer \in Seq(Pieces) /\ Len(longer) = Len(files[s]) + n
       /\ \A i \in DOMAIN longer :
            \/ i \in DOMAIN files[s] /\ longer[i] = files[s][i]
            \/ \E j \in DOMAIN pending : longer[i] = pending[j]
  <2>1. longer \in Seq(Pieces) /\ Len(longer) = Len(files[s]) + n
    <3>1. PICK old : old = files[s]
      OBVIOUS
    <3>2. old \in Seq(Pieces) /\ gone \in Seq(Pieces) /\ longer = old \o gone
      BY <3>1, <1>6, <1>8, <1>9
    <3>3. longer \in Seq(Pieces) /\ Len(longer) = Len(old) + Len(gone)
      BY ONLY <3>2
    <3>4. QED
      BY <3>1, <3>3, <1>6
  <2>2. ASSUME NEW i \in DOMAIN longer
        PROVE  \/ i \in DOMAIN files[s] /\ longer[i] = files[s][i]
               \/ \E j \in DOMAIN pending : longer[i] = pending[j]
    <3>1. CASE i <= Len(files[s])
      BY <2>1, <3>1, <1>6, <1>8, <1>9
    <3>2. CASE ~(i <= Len(files[s]))
      <4>1. i - Len(files[s]) \in 1 .. n /\ longer[i] = gone[i - Len(files[s])]
        BY <2>1, <3>2, <1>6, <1>8, <1>9
      <4>2. i - Len(files[s]) \in DOMAIN pending
        BY <4>1, <1>4
      <4>3. QED
        BY <4>1, <4>2, <1>6
    <3>3. QED
      BY <3>1, <3>2
  <2>3. QED
    BY <2>1, <2>2
<1>11. files' = [files EXCEPT ![s] = longer] /\ pending' = kept
  BY <1>2, <1>5, <1>7, <1>9
<1>12. /\ files' \in Seq(Seq(Pieces)) /\ Len(files') = Len(files) /\ DOMAIN files' = DOMAIN files
       /\ files' # <<>> /\ files'[s] = longer
       /\ \A t \in DOMAIN files : t # s => files'[t] = files[t]
  <2>1. files' \in Seq(Seq(Pieces)) /\ Len(files') = Len(files)
    BY <1>4, <1>8, <1>10, <1>11
  <2>2. QED
    BY <2>1, <1>4, <1>8, <1>11
<1>13. SegmentTypes'
  BY <1>1, <1>3, <1>6, <1>11, <1>12 DEF SegmentTypes
<1>14. PiecesOfRows'
  <2>1. ASSUME NEW t \in DOMAIN files', NEW i \in DOMAIN files'[t]
        PROVE  files'[t][i][1] <= Len(rows)
    <3>1. CASE t = s
      BY <3>1, <1>1, <1>8, <1>10, <1>12 DEF PiecesOfRows
    <3>2. CASE t # s
      BY <3>2, <1>1, <1>12 DEF PiecesOfRows
    <3>3. QED
      BY <3>1, <3>2
  <2>2. ASSUME NEW i \in DOMAIN pending'
        PROVE  pending'[i][1] <= Len(rows)
    <3>1. i \in 1 .. Len(pending) - n
      BY <1>6, <1>11
    <3>2. i + n \in DOMAIN pending
      BY ONLY <3>1, <1>4, n \in 1 .. Len(pending)
    <3>3. QED
      BY <3>1, <3>2, <1>1, <1>6, <1>11 DEF PiecesOfRows
  <2>3. QED
    BY <2>1, <2>2, <1>3 DEF PiecesOfRows
<1>15. CursorTypes'
  <2>1. source => number \in DOMAIN files /\ offset <= Len(files[number])
    BY <1>1, <1>4 DEF CursorTypes
  <2>2. \A t \in DOMAIN files : Len(files[t]) \in Nat /\ Len(files[t]) <= Len(files'[t])
    <3>1. ASSUME NEW t \in DOMAIN files
          PROVE  Len(files[t]) \in Nat /\ Len(files[t]) <= Len(files'[t])
      <4>1. files[t] \in Seq(Pieces)
        BY <1>4
      <4>2. CASE t = s
        BY <4>2, <1>8, <1>10, <1>12
      <4>3. CASE t # s
        BY <4>1, <4>3, <1>12
      <4>4. QED
        BY <4>2, <4>3
    <3>2. QED
      BY <3>1
  <2>3. offset \in Nat
    BY <1>1 DEF CursorTypes
  <2>4. source => /\ offset <= Len(files'[number])
    <3>1. SUFFICES ASSUME source
                   PROVE  offset <= Len(files'[number])
      OBVIOUS
    <3>2. Len(files'[number]) \in Nat
      BY <3>1, <2>1, <1>12
    <3>3. QED
      BY <3>1, <3>2, <2>1, <2>2, <2>3
  <2>5. QED
    BY <2>4, <1>1, <1>3, <1>12 DEF CursorTypes
<1>16. QED
  BY <1>1, <1>3, <1>13, <1>14, <1>15, RuntimeKept, TimelineKept DEF ShadowIInv

LEMMA SegmentIsClosed ==
  ASSUME ShadowIInv, CloseSegment \/ Killed
  PROVE  ShadowIInv'
<1>1. /\ Timeline /\ SegmentTypes /\ PiecesOfRows /\ CursorTypes
      /\ HistoriesAreChains /\ ContextIsChain
  BY DEF ShadowIInv
<1>2. /\ open' = FALSE /\ pending' = <<>> /\ rows' = rows /\ files' = files
      /\ fromStart' = fromStart /\ initial' = initial /\ number' = number /\ source' = source
      /\ offset' = offset /\ eof' = eof /\ last' = last
      /\ histories' = histories /\ stacked' = stacked
  BY DEF CloseSegment, Killed, readerVars, followerVars, runtimeVars
<1>3. \/ terminal' = terminal
      \/ open /\ terminal' = [terminal EXCEPT ![Len(files)] = TRUE]
  BY DEF CloseSegment, Killed
<1>4. terminal' \in Seq(BOOLEAN) /\ Len(terminal') = Len(files)
  <2>1. terminal \in Seq(BOOLEAN) /\ Len(terminal) = Len(files)
    BY <1>1 DEF SegmentTypes
  <2>2. CASE open /\ terminal' = [terminal EXCEPT ![Len(files)] = TRUE]
    <3>1. Len(files) \in 1 .. Len(terminal)
      BY <2>1, <2>2, <1>1 DEF SegmentTypes
    <3>2. PICK S, k, x : S = BOOLEAN /\ k = Len(files) /\ x = TRUE
      OBVIOUS
    <3>3. x \in S /\ terminal \in Seq(S) /\ k \in 1 .. Len(terminal)
      BY <2>1, <3>1, <3>2
    <3>4. /\ [terminal EXCEPT ![k] = x] \in Seq(S)
          /\ Len([terminal EXCEPT ![k] = x]) = Len(terminal)
      BY ONLY <3>3, ExceptSeq
    <3>5. [terminal EXCEPT ![k] = x] = terminal'
      BY <2>2, <3>2
    <3>6. QED
      BY <2>1, <3>2, <3>4, <3>5
  <2>3. QED
    BY <1>3, <2>1, <2>2
<1>5. SegmentTypes' /\ PiecesOfRows'
  <2>1. <<>> \in Seq(Pieces) /\ DOMAIN <<>> = {}
    OBVIOUS
  <2>2. pending' \in Seq(Pieces) /\ DOMAIN pending' = {}
    BY <2>1, <1>2
  <2>3. SegmentTypes'
    BY <2>2, <1>1, <1>2, <1>4 DEF SegmentTypes
  <2>4. PiecesOfRows'
    BY <2>2, <1>1, <1>2 DEF PiecesOfRows
  <2>5. QED
    BY <2>3, <2>4
<1>6. CursorTypes'
  BY <1>1, <1>2 DEF CursorTypes
<1>7. QED
  BY <1>1, <1>2, <1>5, <1>6, RuntimeKept, TimelineKept DEF ShadowIInv
-------------------------------------------------------------------------------
(* The scorer's steps. *)

LEMMA NextIsOpened ==
  ASSUME ShadowIInv, OpenNext
  PROVE  ShadowIInv'
<1>1. /\ Timeline /\ SegmentTypes /\ PiecesOfRows /\ CursorTypes
      /\ HistoriesAreChains /\ ContextIsChain
  BY DEF ShadowIInv
<1>2. PICK s \in Selected :
        number' = s /\ offset' = IF initial /\ ~fromStart THEN Len(files[s]) ELSE 0
  BY DEF OpenNext
<1>3. /\ rows' = rows /\ files' = files /\ terminal' = terminal /\ open' = open
      /\ pending' = pending /\ last' = last /\ histories' = histories /\ stacked' = stacked
      /\ fromStart' = fromStart
  BY DEF OpenNext, writerVars, runtimeVars
<1>4. source' = TRUE /\ initial' = FALSE /\ eof' = FALSE
  BY DEF OpenNext
<1>5. s \in DOMAIN files
  BY DEF Selected, Active, Available
<1>6. /\ s \in 1 .. Len(files) /\ Len(files) \in Nat
      /\ Len(files[s]) \in Nat
  <2>1. files \in Seq(Seq(Pieces))
    BY <1>1 DEF SegmentTypes
  <2>2. files[s] \in Seq(Pieces)
    BY <2>1, <1>5
  <2>3. QED
    BY <2>1, <2>2, <1>5
<1>7. offset' \in Nat /\ offset' <= Len(files[s])
  BY <1>2, <1>6
<1>8. number' \in 0 .. Len(files') /\ number' > 0 /\ offset' <= Len(files'[number'])
  BY <1>2, <1>3, <1>6, <1>7
<1>9. CursorTypes'
  <2>1. /\ source' \in BOOLEAN /\ initial' \in BOOLEAN /\ eof' \in BOOLEAN
        /\ fromStart' \in BOOLEAN
    <3>1. fromStart \in BOOLEAN
      BY <1>1 DEF CursorTypes
    <3>2. QED
      BY <3>1, <1>3, <1>4, Zenon
  <2>2. last' \in 0 .. Len(rows')
    BY <1>1, <1>3 DEF CursorTypes
  <2>3. QED
    BY <2>1, <2>2, <1>7, <1>8 DEF CursorTypes
<1>10. SegmentTypes' /\ PiecesOfRows'
  BY <1>1, <1>3 DEF SegmentTypes, PiecesOfRows
<1>11. QED
  BY <1>1, <1>3, <1>9, <1>10, RuntimeKept, TimelineKept DEF ShadowIInv

LEMMA NothingIsRead ==
  ASSUME ShadowIInv, ReadNothing \/ LookForTerminal
  PROVE  ShadowIInv'
<1>1. /\ Timeline /\ SegmentTypes /\ PiecesOfRows /\ CursorTypes
      /\ HistoriesAreChains /\ ContextIsChain
  BY DEF ShadowIInv
<1>2. /\ rows' = rows /\ files' = files /\ terminal' = terminal /\ open' = open
      /\ pending' = pending /\ last' = last /\ histories' = histories /\ stacked' = stacked
      /\ fromStart' = fromStart /\ initial' = initial /\ number' = number
  BY DEF ReadNothing, LookForTerminal, writerVars, runtimeVars
<1>3. source
  BY DEF ReadNothing, LookForTerminal
<1>4. /\ number \in 1 .. Len(files) /\ Len(files[number]) \in Nat
      /\ offset \in Nat /\ offset <= Len(files[number])
  <2>1. files \in Seq(Seq(Pieces)) /\ number \in 1 .. Len(files)
    BY <1>1, <1>3 DEF SegmentTypes, CursorTypes
  <2>2. files[number] \in Seq(Pieces)
    BY <2>1
  <2>3. QED
    BY <2>1, <2>2, <1>1, <1>3 DEF CursorTypes
<1>5. offset' = Len(files[number]) \/ offset' = offset
  BY DEF ReadNothing, LookForTerminal
<1>6. source' \in BOOLEAN /\ eof' \in BOOLEAN
  BY Zenon, <1>1 DEF ReadNothing, LookForTerminal, CursorTypes
<1>7. CursorTypes'
  <2>1. offset' \in Nat /\ offset' <= Len(files'[number'])
    BY <1>2, <1>4, <1>5
  <2>2. number' \in 0 .. Len(files') /\ number' > 0
    BY <1>2, <1>4
  <2>3. fromStart' \in BOOLEAN /\ initial' \in BOOLEAN /\ last' \in 0 .. Len(rows')
    BY <1>1, <1>2 DEF CursorTypes
  <2>4. QED
    BY <2>1, <2>2, <2>3, <1>6 DEF CursorTypes
<1>8. SegmentTypes' /\ PiecesOfRows'
  BY <1>1, <1>2 DEF SegmentTypes, PiecesOfRows
<1>9. QED
  BY <1>1, <1>2, <1>7, <1>8, RuntimeKept, TimelineKept DEF ShadowIInv

\* The least of some natural numbers.
LEMMA MinOfNumbers ==
  ASSUME NEW T, T \subseteq Nat, T # {}
  PROVE  Min(T) \in T
<1> DEFINE less == {pair \in Nat \X Nat : pair[1] < pair[2]}
<1>1. IsWellFoundedOn(less, Nat)
  BY NatLessThanWellFounded DEF OpToRel
<1>2. PICK t \in T : \A u \in T : <<u, t>> \notin less
  <2> HIDE DEF less
  <2> QED
    BY <1>1, WFMin
<1>3. ASSUME NEW u \in T
      PROVE  t <= u
  <2>1. u \in Nat /\ t \in Nat
    OBVIOUS
  <2>2. u < t => <<u, t>> \in less
    BY <2>1
  <2> HIDE DEF less
  <2>3. ~(u < t)
    BY <1>2, <2>2
  <2>4. QED
    BY <2>1, <2>3
<1>4. QED
  BY <1>3 DEF Min

\* The line that is read is a part of the file, up to a newline.
LEMMA LineIsThere ==
  ASSUME SegmentTypes, PiecesOfRows, CursorTypes, Timeline, source, ~NoWholeLine
  PROVE  /\ Len(Line) \in Nat \ {0} /\ offset + Len(Line) <= Len(files[number])
         /\ \A i \in 1 .. Len(Line) : Line[i][1] \in DOMAIN rows
<1>1. /\ number \in DOMAIN files /\ files[number] \in Seq(Pieces)
      /\ offset \in Nat /\ offset <= Len(files[number])
      /\ rows \in Seq(FeatureRows) /\ DOMAIN rows = 1 .. Len(rows) /\ Len(rows) \in Nat
  <2>1. files \in Seq(Seq(Pieces)) /\ number \in 1 .. Len(files)
    BY DEF SegmentTypes, CursorTypes
  <2>2. QED
    BY <2>1 DEF CursorTypes, Timeline
<1>2. PICK file : file = files[number] /\ file \in Seq(Pieces) /\ Len(file) \in Nat
  BY <1>1
<1>3. /\ Unread \in Seq(Pieces) /\ Len(Unread) = Len(file) - offset
      /\ \A i \in 1 .. Len(file) - offset : Unread[i] = file[offset + i]
  <2>1. Unread = SubSeq(file, offset + 1, Len(file))
    BY <1>2 DEF Unread
  <2>2. \A i \in offset + 1 .. Len(file) : file[i] \in Pieces
    BY <1>1, <1>2
  <2>3. QED
    BY <2>1, <2>2, <1>1, <1>2
<1>4. PICK m : m = Min(LineEnds) /\ m \in 1 .. Len(file) - offset
  <2>1. LineEnds \subseteq 1 .. Len(file) - offset /\ LineEnds # {}
    BY <1>3 DEF LineEnds, NoWholeLine
  <2>2. LineEnds \subseteq Nat /\ LineEnds # {}
    BY <2>1, <1>1, <1>2
  <2>3. Min(LineEnds) \in LineEnds
    BY ONLY <2>2, MinOfNumbers
  <2>4. QED
    BY <2>1, <2>3
<1>5. PICK text : text = Unread /\ text \in Seq(Pieces) /\ m \in 1 .. Len(text)
  BY <1>1, <1>2, <1>3, <1>4
<1>6. Line = SubSeq(text, 1, m)
  BY <1>4, <1>5 DEF Line
<1>7. Len(Line) = m /\ \A i \in 1 .. m : Line[i] = text[i]
  BY <1>5, <1>6
<1>8. ASSUME NEW i \in 1 .. Len(Line)
      PROVE  Line[i][1] \in DOMAIN rows
  <2>1. i \in 1 .. Len(file) - offset /\ Line[i] = file[offset + i]
    BY <1>3, <1>4, <1>5, <1>7, <1>1, <1>2
  <2>2. offset + i \in DOMAIN file
    BY <2>1, <1>1, <1>2
  <2>3. file[offset + i] \in Pieces /\ file[offset + i][1] <= Len(rows)
    BY <2>2, <1>1, <1>2 DEF PiecesOfRows
  <2>4. file[offset + i][1] \in Nat \ {0}
    BY <2>3 DEF Pieces
  <2>5. QED
    BY <2>1, <2>3, <2>4, <1>1
<1>9. QED
  BY <1>1, <1>2, <1>4, <1>7, <1>8

\* Histories stay histories when some are left out.
LEMMA PartOfHistories ==
  ASSUME NEW hs, AreHistories(hs), NEW a \in Nat \ {0}, NEW b \in Nat, b <= Len(hs)
  PROVE  /\ AreHistories(SubSeq(hs, a, b))
         /\ Len(SubSeq(hs, a, b)) = IF a <= b THEN b - a + 1 ELSE 0
<1>1. hs \in Seq(Histories) /\ DOMAIN hs = 1 .. Len(hs) /\ Len(hs) \in Nat
  BY DEF AreHistories
<1>2. \A i \in a .. b : i \in DOMAIN hs
  BY <1>1
<1>3. PICK part : part = SubSeq(hs, a, b)
  OBVIOUS
<1>4. /\ part \in Seq(Histories) /\ Len(part) = IF a <= b THEN b - a + 1 ELSE 0
      /\ \A i \in 1 .. b - a + 1 : part[i] = hs[a + i - 1]
  <2>1. \A i \in a .. b : hs[i] \in Histories
    BY <1>1, <1>2
  <2>2. QED
    BY <1>3, <2>1, SubSeqProperties
<1>5. ASSUME NEW i \in DOMAIN part
      PROVE  IsHistory(part[i])
  <2>1. i \in 1 .. b - a + 1 /\ i \in Nat
    BY <1>4
  <2>2. a + i - 1 \in a .. b
    BY <2>1
  <2>3. part[i] = hs[a + i - 1] /\ a + i - 1 \in DOMAIN hs
    BY <1>2, <1>4, <2>1, <2>2
  <2>4. QED
    BY <2>3 DEF AreHistories
<1>6. AreHistories(part)
  BY <1>4, <1>5 DEF AreHistories
<1>7. QED
  BY <1>3, <1>4, <1>6

LEMMA JoinedHistories ==
  ASSUME NEW hs, AreHistories(hs), NEW more, AreHistories(more)
  PROVE  AreHistories(hs \o more) /\ Len(hs \o more) = Len(hs) + Len(more)
<1>1. /\ hs \in Seq(Histories) /\ Len(hs) \in Nat
      /\ more \in Seq(Histories) /\ Len(more) \in Nat
  BY DEF AreHistories
<1>2. PICK all : all = hs \o more
  OBVIOUS
<1>3. /\ all \in Seq(Histories) /\ Len(all) = Len(hs) + Len(more)
  BY <1>1, <1>2
<1>4. ASSUME NEW i \in DOMAIN all
      PROVE  IsHistory(all[i])
  <2>1. CASE i <= Len(hs)
    <3>1. all[i] = hs[i] /\ i \in DOMAIN hs
      BY <2>1, <1>1, <1>2, <1>3
    <3>2. QED
      BY <3>1 DEF AreHistories
  <2>2. CASE ~(i <= Len(hs))
    <3>1. all[i] = more[i - Len(hs)] /\ i - Len(hs) \in DOMAIN more
      BY <2>2, <1>1, <1>2, <1>3
    <3>2. QED
      BY <3>1 DEF AreHistories
  <2>3. QED
    BY <2>1, <2>2
<1>5. QED
  BY <1>2, <1>3, <1>4 DEF AreHistories

LEMMA WithoutOne ==
  ASSUME HistoriesAreChains, NEW c
  PROVE  AreHistories(Without(c)) /\ Len(Without(c)) <= Len(histories)
<1>1. AreHistories(histories) /\ Len(histories) \in Nat /\ DOMAIN histories = 1 .. Len(histories)
  BY DEF HistoriesAreChains, AreHistories
<1>2. CASE Places(c) = {}
  BY <1>1, <1>2 DEF Without
<1>3. CASE Places(c) # {}
  <2>1. PICK i : i = CHOOSE place \in Places(c) : TRUE
    OBVIOUS
  <2>2. i \in 1 .. Len(histories)
    BY <1>1, <1>3, <2>1 DEF Places
  <2>3. Without(c) = SubSeq(histories, 1, i - 1) \o SubSeq(histories, i + 1, Len(histories))
    BY <1>3, <2>1 DEF Without, RemoveAt
  <2>4. PICK front, back : /\ front = SubSeq(histories, 1, i - 1)
                           /\ back = SubSeq(histories, i + 1, Len(histories))
    OBVIOUS
  <2>5. AreHistories(front) /\ Len(front) = i - 1
    <3>1. PICK n : n = i - 1 /\ n \in Nat /\ n <= Len(histories)
      BY <2>2, <1>1
    <3>2. /\ AreHistories(SubSeq(histories, 1, n))
          /\ Len(SubSeq(histories, 1, n)) = IF 1 <= n THEN n - 1 + 1 ELSE 0
      BY <3>1, <1>1, PartOfHistories
    <3>3. QED
      BY <3>1, <3>2, <2>4
  <2>6. AreHistories(back) /\ Len(back) = Len(histories) - i
    <3>1. PICK n : n = i + 1 /\ n \in Nat \ {0}
      BY <2>2, <1>1
    <3>2. PICK l : l = Len(histories) /\ l \in Nat /\ l <= Len(histories)
      BY <1>1
    <3>3. /\ AreHistories(SubSeq(histories, n, l))
          /\ Len(SubSeq(histories, n, l)) = IF n <= l THEN l - n + 1 ELSE 0
      BY <3>1, <3>2, <1>1, PartOfHistories
    <3>4. QED
      BY <3>1, <3>2, <3>3, <2>2, <2>4
  <2>7. AreHistories(front \o back) /\ Len(front \o back) = Len(front) + Len(back)
    BY <2>5, <2>6, JoinedHistories
  <2>8. Without(c) = front \o back
    BY <2>3, <2>4
  <2>9. Len(front) + Len(back) <= Len(histories)
    BY <2>2, <2>5, <2>6, <1>1
  <2>10. QED
    BY <2>7, <2>8, <2>9
<1>4. QED
  BY <1>2, <1>3

LEMMA ChainIsCut ==
  ASSUME NEW c, NEW windows, Chain(windows, c)
  PROVE  Chain(LastWindows(windows), c) /\ Len(LastWindows(windows)) <= HistorySize + 1
<1>1. Len(windows) \in Nat \ {0} /\ HistorySize \in Nat
  BY ShadowAssumption DEF Chain
<1>2. PICK k : k = Len(windows) - HistorySize
  OBVIOUS
<1>3. PICK a : a = Max({1, k})
  OBVIOUS
<1>4. k \in Int /\ a \in Int /\ a >= 1 /\ a >= k /\ a \in {1, k}
  BY <1>1, <1>2, <1>3, MaxOfOneAnd
<1>5. a \in 1 .. Len(windows)
  BY <1>1, <1>2, <1>4
<1>6. LastWindows(windows) = SubSeq(windows, a, Len(windows))
  BY <1>2, <1>3 DEF LastWindows
<1>7. /\ Chain(SubSeq(windows, a, Len(windows)), c)
      /\ Len(SubSeq(windows, a, Len(windows))) = Len(windows) - a + 1
  BY <1>5, ChainShortened
<1>8. QED
  BY <1>1, <1>2, <1>4, <1>6, <1>7

\* What observe goes on with is a chain of the row's container.
LEMMA HistoryContinues ==
  ASSUME Timeline, NEW n \in DOMAIN rows, rows[n].intact,
         NEW h, IsHistory(h), h.container = rows[n].container, InCadence(n, h.windows)
  PROVE  Chain(h.windows \o <<n>>, rows[n].container)
<1>1. PICK w, c : w = h.windows /\ c = rows[n].container
  OBVIOUS
<1>2. Chain(w, c) /\ InCadence(n, w)
  BY <1>1 DEF IsHistory
<1>3. n \in Nat /\ Clean(n, c)
  BY <1>1 DEF Timeline, Clean
<1>4. PICK p : p = Last(w)
  OBVIOUS
<1>5. p \in DOMAIN rows /\ rows[p].container = c
  <2>1. w \in Seq(Nat) /\ Len(w) \in DOMAIN w
    BY <1>2 DEF Chain
  <2>2. Clean(w[Len(w)], c)
    BY <1>2, <2>1 DEF Chain
  <2>3. p = w[Len(w)]
    BY <1>4 DEF Last
  <2>4. QED
    BY <2>2, <2>3 DEF Clean
<1>6. MinGap <= rows[n].end - rows[p].end /\ rows[n].end - rows[p].end <= MaxWindowGap
  BY <1>2, <1>4 DEF InCadence
<1>7. Adjacent(p, n, c)
  BY <1>1, <1>5, <1>6, CadenceIsAdjacent
<1>8. Adjacent(Last(w), n, c)
  BY <1>4, <1>7
<1>9. Chain(w \o <<n>>, c)
  BY <1>2, <1>3, <1>8, ChainExtended
<1>10. QED
  BY <1>1, <1>9

LEMMA OneMoreHistory ==
  ASSUME NEW hs, AreHistories(hs), Len(hs) <= MaxIdentities, NEW h, IsHistory(h)
  PROVE  LET all == Append(hs, h)
             kept == SubSeq(all, Max({1, Len(all) - MaxIdentities + 1}), Len(all))
         IN  AreHistories(kept) /\ Len(kept) <= MaxIdentities
<1>1. hs \in Seq(Histories) /\ Len(hs) \in Nat /\ h \in Histories
  BY DEF AreHistories, IsHistory
<1>2. PICK all : all = Append(hs, h)
  OBVIOUS
<1>3. AreHistories(all) /\ Len(all) = Len(hs) + 1
  <2>1. /\ all \in Seq(Histories) /\ Len(all) = Len(hs) + 1
        /\ DOMAIN all = 1 .. Len(hs) + 1
        /\ all[Len(hs) + 1] = h /\ \A i \in DOMAIN hs : all[i] = hs[i]
    BY <1>1, <1>2
  <2>2. \A i \in DOMAIN all : i \in DOMAIN hs \/ i = Len(hs) + 1
    BY <2>1, <1>1
  <2>3. QED
    BY <2>1, <2>2 DEF AreHistories
<1>4. MaxIdentities \in Nat \ {0}
  BY ShadowAssumption
<1>5. PICK k, l : k = Len(all) - MaxIdentities + 1 /\ l = Len(all)
  OBVIOUS
<1>6. k \in Int /\ l \in Nat \ {0}
  BY <1>1, <1>3, <1>4, <1>5
<1>7. PICK a : a = Max({1, k})
  OBVIOUS
<1>8. a \in Int /\ a >= 1 /\ a >= k /\ a \in {1, k}
  BY <1>6, <1>7, MaxOfOneAnd
<1>9. a \in Nat \ {0} /\ l \in Nat /\ l <= Len(all) /\ a <= l
  BY <1>1, <1>3, <1>4, <1>5, <1>6, <1>8
<1>10. /\ AreHistories(SubSeq(all, a, l))
       /\ Len(SubSeq(all, a, l)) = IF a <= l THEN l - a + 1 ELSE 0
  BY <1>3, <1>9, PartOfHistories
<1>11. l - a + 1 <= MaxIdentities
  BY <1>3, <1>4, <1>5, <1>6, <1>8
<1>12. QED
  BY <1>2, <1>5, <1>7, <1>9, <1>10, <1>11

LEMMA RowIsObserved ==
  ASSUME Timeline, HistoriesAreChains, ContextIsChain, rows' = rows,
         NEW n \in DOMAIN rows, Observe(n)
  PROVE  HistoriesAreChains' /\ ContextIsChain'
<1> DEFINE c == rows[n].container
           kept == {h \in Held(c) : InCadence(n, h.windows)}
           base == IF kept = {} THEN <<>> ELSE (CHOOSE h \in kept : TRUE).windows
           windows == LastWindows(base \o <<n>>)
           new == [container |-> c, windows |-> windows]
           all == Append(Without(c), new)
<1>1. n \in Nat /\ c \in Containers
  <2>1. rows[n] \in FeatureRows /\ n \in Nat
    BY DEF Timeline
  <2>2. QED
    BY <2>1 DEF FeatureRows
<1>2. AreHistories(histories) /\ Len(histories) \in Nat /\ Len(histories) <= MaxIdentities
  BY DEF HistoriesAreChains, AreHistories
<1>3. AreHistories(Without(c)) /\ Len(Without(c)) <= MaxIdentities
  <2>1. AreHistories(Without(c)) /\ Len(Without(c)) <= Len(histories)
    BY WithoutOne
  <2>2. Len(Without(c)) \in Nat
    BY <2>1 DEF AreHistories
  <2>3. QED
    BY <2>1, <2>2, <1>2, ShadowAssumption
<1>4. CASE ~rows[n].intact
  <2>1. histories' = Without(c) /\ stacked' = <<>>
    BY <1>4 DEF Observe
  <2>2. PICK hs : hs = Without(c)
    OBVIOUS
  <2>3. AreHistories(hs) /\ Len(hs) <= MaxIdentities /\ histories' = hs
    BY <1>3, <2>1, <2>2
  <2>4. HistoriesAreChains'
    BY <2>3, NewHistories
  <2>5. QED
    BY <2>1, <2>4 DEF ContextIsChain
<1>5. CASE rows[n].intact
  <2>1. /\ histories' = SubSeq(all, Max({1, Len(all) - MaxIdentities + 1}), Len(all))
        /\ stacked' = IF Len(windows) = HistorySize + 1 THEN windows ELSE <<>>
    BY <1>5 DEF Observe
  <2>2. Chain(base \o <<n>>, c)
    <3>1. CASE kept = {}
      <4>1. base \o <<n>> = <<n>>
        BY <3>1
      <4>2. Chain(<<n>>, c)
        BY <1>1, <1>5, ChainOfOne DEF Clean
      <4>3. QED
        BY <4>1, <4>2
    <3>2. CASE kept # {}
      <4>1. PICK h : h = CHOOSE x \in kept : TRUE
        OBVIOUS
      <4>2. h \in kept
        BY <3>2, <4>1
      <4>3. PICK i \in DOMAIN histories : h = histories[i] /\ histories[i].container = c
        BY <4>2 DEF Held, Places
      <4>4. IsHistory(h) /\ h.container = c /\ InCadence(n, h.windows)
        BY <4>2, <4>3, <1>2 DEF AreHistories
      <4>5. Chain(h.windows \o <<n>>, rows[n].container)
        BY <4>4, <1>5, HistoryContinues
      <4>6. base = h.windows
        BY <3>2, <4>1
      <4>7. QED
        BY <4>5, <4>6
    <3>3. QED
      BY <3>1, <3>2
  <2>3. Chain(windows, c) /\ Len(windows) <= HistorySize + 1
    <3> HIDE DEF c, kept, base
    <3> QED
      BY <2>2, ChainIsCut
  <2>4. PICK w, d, h : w = windows /\ d = c /\ h = new
    OBVIOUS
  <2>5. /\ Chain(w, d) /\ Len(w) <= HistorySize + 1 /\ d \in Containers
        /\ h = [container |-> d, windows |-> w]
    BY <1>1, <2>3, <2>4
  <2>6. IsHistory(h)
    BY <2>5 DEF IsHistory, Histories, Chain
  <2>7. PICK hs : hs = histories'
    OBVIOUS
  <2>8. AreHistories(hs) /\ Len(hs) <= MaxIdentities
    <3>1. PICK rest : rest = Without(c) /\ AreHistories(rest) /\ Len(rest) <= MaxIdentities
      BY <1>3
    <3>2. all = Append(rest, h)
      BY <2>4, <3>1
    <3>3. hs = SubSeq(Append(rest, h),
                      Max({1, Len(Append(rest, h)) - MaxIdentities + 1}), Len(Append(rest, h)))
      BY <2>1, <2>7, <3>2
    <3>4. QED
      BY <3>1, <3>3, <2>6, OneMoreHistory
  <2>9. HistoriesAreChains'
    BY <2>7, <2>8, NewHistories
  <2>10. stacked' = IF Len(w) = HistorySize + 1 THEN w ELSE <<>>
    BY <2>1, <2>4
  <2>11. ContextIsChain'
    <3> HIDE DEF c, kept, base, windows, new, all
    <3>1. CASE Len(w) = HistorySize + 1
      <4>1. stacked' = w
        BY <3>1, <2>10
      <4>2. QED
        BY <4>1, <3>1, <2>5, NewContext
    <3>2. CASE Len(w) # HistorySize + 1
      BY <3>2, <2>10 DEF ContextIsChain
    <3>3. QED
      BY <3>1, <3>2
  <2>12. QED
    BY <2>9, <2>11
<1>6. QED
  BY <1>4, <1>5

LEMMA LineIsTaken ==
  ASSUME ShadowIInv, ReadLine
  PROVE  ShadowIInv'
<1>1. /\ Timeline /\ SegmentTypes /\ PiecesOfRows /\ CursorTypes
      /\ HistoriesAreChains /\ ContextIsChain
  BY DEF ShadowIInv
<1>2. /\ rows' = rows /\ files' = files /\ terminal' = terminal /\ open' = open
      /\ pending' = pending /\ fromStart' = fromStart /\ initial' = initial
      /\ number' = number /\ source' = source /\ eof' = eof
  BY DEF ReadLine, writerVars
<1>3. source /\ ~NoWholeLine /\ offset' = offset + Len(Line)
  BY DEF ReadLine
<1>4. PICK l : l = Len(Line)
  OBVIOUS
<1>5. /\ l \in Nat \ {0} /\ offset + l <= Len(files[number])
      /\ \A i \in 1 .. l : Line[i][1] \in DOMAIN rows
  BY <1>1, <1>3, <1>4, LineIsThere
<1>6. Line[1][1] \in DOMAIN rows /\ Last(Line)[1] \in DOMAIN rows
  <2>1. 1 \in 1 .. l /\ l \in 1 .. l
    BY <1>5
  <2>2. QED
    BY <2>1, <1>4, <1>5 DEF Last
<1>7. last' \in DOMAIN rows
  BY <1>6 DEF ReadLine
<1>8. HistoriesAreChains' /\ ContextIsChain'
  <2>1. CASE Len(Line) = 2
    <3>1. PICK n \in DOMAIN rows : n = Line[1][1]
      BY <1>6
    <3>2. Observe(n)
      BY <2>1, <3>1 DEF ReadLine
    <3>3. QED
      BY <1>1, <1>2, <3>2, RowIsObserved
  <2>2. CASE Len(Line) # 2
    <3>1. histories' = histories /\ stacked' = <<>>
      BY <2>2 DEF ReadLine
    <3>2. PICK hs : hs = histories
      OBVIOUS
    <3>3. AreHistories(hs) /\ Len(hs) <= MaxIdentities /\ histories' = hs
      BY <3>1, <3>2, <1>1 DEF HistoriesAreChains
    <3>4. HistoriesAreChains'
      BY <3>3, <1>2, NewHistories
    <3>5. QED
      BY <3>1, <3>4 DEF ContextIsChain
  <2>3. QED
    BY <2>1, <2>2
<1>9. CursorTypes'
  <2>1. rows \in Seq(FeatureRows) /\ Len(rows) \in Nat
    BY <1>1 DEF Timeline
  <2>2. last' \in 0 .. Len(rows')
    BY <2>1, <1>2, <1>7
  <2>3. offset' \in Nat /\ offset' <= Len(files'[number'])
    BY <1>1, <1>2, <1>3, <1>4, <1>5 DEF CursorTypes
  <2>4. QED
    BY <2>2, <2>3, <1>1, <1>2 DEF CursorTypes
<1>10. SegmentTypes' /\ PiecesOfRows'
  BY <1>1, <1>2 DEF SegmentTypes, PiecesOfRows
<1>11. QED
  BY <1>1, <1>2, <1>8, <1>9, <1>10, TimelineKept DEF ShadowIInv
-------------------------------------------------------------------------------
LEMMA ShadowInductive ==
  ASSUME ShadowIInv, [ShadowNext]_shadowVars
  PROVE  ShadowIInv'
<1>1. CASE OpenSegment
  BY <1>1, SegmentIsOpened
<1>2. CASE WriteRow
  BY <1>2, RowIsWritten
<1>3. CASE Spill
  BY <1>3, PiecesAreSpilt
<1>4. CASE CloseSegment \/ Killed
  BY <1>4, SegmentIsClosed
<1>5. CASE OpenNext
  BY <1>5, NextIsOpened
<1>6. CASE ReadNothing \/ LookForTerminal
  BY <1>6, NothingIsRead
<1>7. CASE ReadLine
  BY <1>7, LineIsTaken
<1>8. CASE UNCHANGED shadowVars
  <2>1. /\ Timeline /\ SegmentTypes /\ PiecesOfRows /\ CursorTypes
        /\ HistoriesAreChains /\ ContextIsChain
    BY DEF ShadowIInv
  <2>2. /\ rows' = rows /\ files' = files /\ terminal' = terminal /\ open' = open
        /\ pending' = pending /\ fromStart' = fromStart /\ initial' = initial
        /\ number' = number /\ source' = source /\ offset' = offset /\ eof' = eof
        /\ last' = last /\ histories' = histories /\ stacked' = stacked
    BY <1>8 DEF shadowVars, writerVars, readerVars, followerVars, runtimeVars
  <2>3. SegmentTypes' /\ PiecesOfRows' /\ CursorTypes'
    BY <2>1, <2>2 DEF SegmentTypes, PiecesOfRows, CursorTypes
  <2>4. QED
    BY <2>1, <2>2, <2>3, RuntimeKept, TimelineKept DEF ShadowIInv
<1>9. QED
  BY <1>1, <1>2, <1>3, <1>4, <1>5, <1>6, <1>7, <1>8 DEF ShadowNext, Collection, Scorer

\* The timeline of the collection, the cursor of the follower and the chains of
\* the runtime hold together, for every cadence and every bound.
THEOREM ShadowInvariance == ShadowSpec => []ShadowIInv
<1>1. ShadowInit => ShadowIInv
  BY ShadowInitially
<1>2. ShadowIInv /\ [ShadowNext]_shadowVars => ShadowIInv'
  BY ShadowInductive
<1>3. QED
  BY <1>1, <1>2, PTL DEF ShadowSpec

LEMMA ShadowTypes ==
  ASSUME ShadowIInv
  PROVE  ShadowTypeOK
<1>1. /\ Timeline /\ SegmentTypes /\ CursorTypes /\ HistoriesAreChains
  BY DEF ShadowIInv
<1>2. terminal \in [DOMAIN files -> BOOLEAN]
  <2>1. DOMAIN files = 1 .. Len(terminal) /\ DOMAIN terminal = 1 .. Len(terminal)
    BY <1>1 DEF SegmentTypes
  <2>2. terminal \in [1 .. Len(terminal) -> BOOLEAN]
    BY <1>1 DEF SegmentTypes
  <2>3. QED
    BY <2>1, <2>2
<1>3. source => number > 0 /\ offset \in 0 .. Len(files[number])
  <2>1. SUFFICES ASSUME source
                 PROVE  number > 0 /\ offset \in 0 .. Len(files[number])
    OBVIOUS
  <2>2. number \in 1 .. Len(files) /\ files \in Seq(Seq(Pieces))
    BY <1>1, <2>1 DEF CursorTypes, SegmentTypes
  <2>3. Len(files[number]) \in Nat
    <3>1. files[number] \in Seq(Pieces)
      BY <2>2
    <3>2. QED
      BY <3>1
  <2>4. QED
    BY <1>1, <2>1, <2>2, <2>3 DEF CursorTypes
<1>4. ASSUME NEW h \in ToSet(histories)
      PROVE  h.container \in Containers /\ Len(h.windows) \in 1 .. HistorySize + 1
  <2>1. IsHistory(h)
    BY <1>1 DEF ToSet, HistoriesAreChains, AreHistories
  <2>2. h.container \in Containers /\ h.windows \in Seq(Nat) /\ h.windows # <<>>
    BY <2>1 DEF IsHistory, Histories, Chain
  <2>3. Len(h.windows) \in Nat /\ Len(h.windows) > 0
    BY <2>2
  <2>4. QED
    BY <2>1, <2>2, <2>3, ShadowAssumption DEF IsHistory
<1>5. QED
  BY <1>1, <1>2, <1>3, <1>4
  DEF ShadowTypeOK, Timeline, SegmentTypes, CursorTypes, HistoriesAreChains

\* Type correctness of the follower, the runtime and the collection they read.
THEOREM ShadowTypeCorrect == ShadowSpec => []ShadowTypeOK
<1>1. ShadowIInv => ShadowTypeOK
  BY ShadowTypes
<1>2. QED
  BY <1>1, ShadowInvariance, PTL

LEMMA ChainsAreContiguous ==
  ASSUME ShadowIInv
  PROVE  ContextsAreContiguous
<1>1. SUFFICES ASSUME stacked # <<>>
               PROVE  ContextsAreContiguous
  BY DEF ContextsAreContiguous
<1>2. PICK c \in Containers : Chain(stacked, c) /\ Len(stacked) = HistorySize + 1
  BY <1>1 DEF ShadowIInv, ContextIsChain
<1>3. /\ stacked \in Seq(Nat) /\ DOMAIN stacked = 1 .. HistorySize + 1 /\ HistorySize \in Nat
      /\ \A i \in DOMAIN stacked : Clean(stacked[i], c)
  BY <1>2, ShadowAssumption DEF Chain
<1>4. rows[stacked[1]].container = c
  <2>1. 1 \in DOMAIN stacked
    BY <1>3
  <2>2. QED
    BY <2>1, <1>3 DEF Clean
<1>5. ASSUME NEW i \in 1 .. HistorySize
      PROVE  /\ stacked[i] < stacked[i + 1]
             /\ \A n \in stacked[i] + 1 .. stacked[i + 1] :
                  rows[n].container = rows[stacked[1]].container <=> n = stacked[i + 1]
  <2>1. i \in 1 .. Len(stacked) - 1 /\ i \in DOMAIN stacked /\ i + 1 \in DOMAIN stacked
    BY <1>2, <1>3
  <2>2. Adjacent(stacked[i], stacked[i + 1], c)
    BY <2>1, <1>2 DEF Chain
  <2>3. stacked[i] \in Nat /\ stacked[i + 1] \in Nat
    BY <2>1, <1>3
  <2>4. rows[stacked[i + 1]].container = c
    BY <2>1, <1>3 DEF Clean
  <2>5. ASSUME NEW n \in stacked[i] + 1 .. stacked[i + 1], rows[n].container = c
        PROVE  n = stacked[i + 1]
    <3>1. n \in stacked[i] + 1 .. stacked[i + 1] - 1 \/ n = stacked[i + 1]
      BY <2>3
    <3>2. QED
      BY <3>1, <2>2, <2>5 DEF Adjacent
  <2>6. QED
    BY <2>2, <2>4, <2>5, <1>4 DEF Adjacent
<1>6. \A i \in DOMAIN stacked : rows[stacked[i]].intact
  BY <1>3 DEF Clean
<1>7. QED
  BY <1>2, <1>5, <1>6 DEF ContextsAreContiguous

\* A score of the candidate is computed from consecutive windows of one
\* container, whatever of the segments the follower tore, lost or skipped.
THEOREM ContextsHoldConsecutiveWindows == ShadowSpec => []ContextsAreContiguous
<1>1. ShadowIInv => ContextsAreContiguous
  BY ChainsAreContiguous
<1>2. QED
  BY <1>1, ShadowInvariance, PTL
===============================================================================
