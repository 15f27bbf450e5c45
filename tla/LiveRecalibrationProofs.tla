------------------------ MODULE LiveRecalibrationProofs ------------------------
(***************************************************************************)
(* The calibration for every number of nodes, hours and windows, and every *)
(* trouble: an epoch names one state of the arrays within a process, no    *)
(* refresh vanishes without a row, a calibration is made of whole hours,   *)
(* the log says which arrays were in use, and shared hours do not change.  *)
(***************************************************************************)
EXTENDS LiveRecalibration, SequenceTheorems, FiniteSetTheorems, TLAPS

\* What decision rows have, compared with the arrays in use: the last epoch
\* is the one of the arrays.
EpochInv ==
  /\ life \in Nat /\ epoch \in Nat
  /\ arrays = [k \in Workloads |-> arrays[k]]
  /\ \A u \in used :
       /\ u.life \in Nat /\ u.life <= life
       /\ u.life = life => u.epoch \in Nat /\ u.epoch <= epoch
                           /\ (u.epoch = epoch => u.arrays = arrays)
  /\ EpochNamesOneState

LEMMA EpochStarts == Init => EpochInv
BY DEF Init, EpochInv, EpochNamesOneState, Bundle

\* Apply swaps arrays in under a new epoch, or leaves both alone.
LEMMA ApplyKeepsEpochs == EpochInv /\ Apply => EpochInv'
<1> SUFFICES ASSUME EpochInv, Apply PROVE EpochInv'
  OBVIOUS
<1> DEFINE swapped == Swapped(Head(ready).cal)
<1>1. /\ arrays' = [k \in Workloads |-> IF k \in swapped THEN Head(ready).cal[k] ELSE arrays[k]]
      /\ epoch' = NextEpoch(swapped)
      /\ used' = used \cup {[life |-> life, epoch |-> epoch', arrays |-> arrays']}
      /\ life' = life
  BY DEF Apply, lifeVars
<1>2. arrays' = [k \in Workloads |-> arrays'[k]]
  BY <1>1
<1> HIDE DEF swapped
<1>3. CASE swapped = {}
  <2>1. epoch' = epoch
    BY <1>1, <1>3 DEF NextEpoch
  <2>2. arrays' = arrays
    BY <1>1, <1>3 DEF EpochInv
  <2> QED
    BY <1>1, <1>2, <2>1, <2>2 DEF EpochInv, EpochNamesOneState
<1>4. CASE swapped # {}
  <2>1. epoch' = epoch + 1
    BY <1>1, <1>4 DEF NextEpoch
  <2>2. \A u \in used : u.life = life => u.epoch \in Nat /\ u.epoch < epoch'
    BY <2>1 DEF EpochInv
  <2> QED
    BY <1>1, <1>2, <2>1, <2>2 DEF EpochInv, EpochNamesOneState
<1> QED
  BY <1>3, <1>4

\* A new process has a number of its own.
LEMMA NewProcessKeepsEpochs ==
  ASSUME EpochInv, NEW n \in Nodes, NEW kept, NewProcess(n, kept)
  PROVE  EpochInv'
<1>1. CASE n = Me
  <2>1. /\ life' = life + 1 /\ epoch' = 0 /\ arrays' = Bundle
        /\ used' = used \cup {[life |-> life', epoch |-> 0, arrays |-> Bundle]}
    BY <1>1 DEF NewProcess
  <2>2. \A u \in used : u.life \in Nat /\ u.life < life'
    BY <2>1 DEF EpochInv
  <2> QED
    BY <2>1, <2>2 DEF EpochInv, EpochNamesOneState, Bundle
<1>2. CASE n # Me
  BY <1>2 DEF NewProcess, EpochInv, EpochNamesOneState, modelVars, lifeVars
<1> QED
  BY <1>1, <1>2

LEMMA EpochKept == EpochInv /\ [Next]_vars => EpochInv'
<1> SUFFICES ASSUME EpochInv, [Next]_vars PROVE EpochInv'
  OBVIOUS
<1>1. CASE UNCHANGED <<modelVars, life>>
  BY <1>1 DEF EpochInv, EpochNamesOneState, modelVars
<1>2. CASE Apply
  BY <1>2, ApplyKeepsEpochs
<1>3. CASE Stop
  BY <1>3, NewProcessKeepsEpochs, RecalibrationAssumption DEF Stop, Nodes
<1>4. ASSUME NEW n \in Nodes, Killed(n) PROVE EpochInv'
  BY <1>4, NewProcessKeepsEpochs DEF Killed
<1>5. ASSUME NEW n \in Nodes, NEW w \in Windows, NEW h \in Hours, TornFrame(n, w, h)
      PROVE  EpochInv'
  BY <1>5, NewProcessKeepsEpochs DEF TornFrame
<1>6. CASE Advance \/ Refresh \/ WriteLogs \/ UNCHANGED vars
  BY <1>6, <1>1 DEF Advance, Refresh, StartBuild, NoRefresh, Read, FinishBuild, BuildFails,
     WriteLogs, vars, lifeVars
<1>7. ASSUME NEW n \in Nodes, Thread(n) PROVE EpochInv'
  BY <1>7, <1>1 DEF Thread, PublishBin, PublishSide, PublishNothing, PublishFails, lifeVars
<1>8. ASSUME NEW n \in Nodes, NEW w \in Windows, NEW h \in Hours, Frame(n, w, h)
      PROVE  EpochInv'
  BY <1>8, <1>1 DEF Frame, lifeVars
<1> QED
  BY <1>2, <1>3, <1>4, <1>5, <1>6, <1>7, <1>8 DEF Next

\* Two decision rows of one process with the same epoch have the same arrays.
THEOREM EpochsAreStates == Spec => []EpochNamesOneState
<1>1. EpochInv => EpochNamesOneState
  BY DEF EpochInv
<1>2. Spec => []EpochInv
  BY EpochStarts, EpochKept, PTL DEF Spec
<1> QED
  BY <1>1, <1>2, PTL
-------------------------------------------------------------------------------
(* The rows of the log. *)

IsList(s) == \E S : s \in Seq(S)

LEMMA ListAppend ==
  ASSUME NEW s, NEW x, IsList(s)
  PROVE  IsList(Append(s, x)) /\ Len(Append(s, x)) = Len(s) + 1
<1>1. PICK S : s \in Seq(S)
  BY DEF IsList
<1>2. s \in Seq(S \cup {x})
  BY <1>1, SeqMonotonic
<1>3. Append(s, x) \in Seq(S \cup {x}) /\ Len(Append(s, x)) = Len(s) + 1
  BY <1>2, AppendProperties
<1> QED
  BY <1>3 DEF IsList

LEMMA ListConcat ==
  ASSUME NEW s, NEW t, IsList(s), IsList(t)
  PROVE  IsList(s \o t) /\ Len(s \o t) = Len(s) + Len(t)
<1>1. PICK S : s \in Seq(S)
  BY DEF IsList
<1>2. PICK T : t \in Seq(T)
  BY DEF IsList
<1>3. s \in Seq(S \cup T) /\ t \in Seq(S \cup T)
  BY <1>1, <1>2, SeqMonotonic
<1>4. s \o t \in Seq(S \cup T) /\ Len(s \o t) = Len(s) + Len(t)
  BY <1>3, ConcatProperties
<1> QED
  BY <1>4 DEF IsList

LEMMA ListTail ==
  ASSUME NEW s, IsList(s), s # <<>>
  PROVE  IsList(Tail(s)) /\ Len(Tail(s)) = Len(s) - 1
<1>1. PICK S : s \in Seq(S)
  BY DEF IsList
<1>2. Tail(s) \in Seq(S) /\ Len(Tail(s)) = Len(s) - 1
  BY <1>1, HeadTailProperties
<1> QED
  BY <1>2 DEF IsList

LEMMA ListEmpty == IsList(<<>>) /\ Len(<<>>) = 0
<1>1. <<>> \in Seq({}) /\ Len(<<>>) = 0
  BY EmptySeq
<1> QED
  BY <1>1 DEF IsList

LEMMA ListLength == ASSUME NEW s, IsList(s) PROVE Len(s) \in Nat
BY LenProperties DEF IsList

\* The refreshes of this process that are under way, and what became of the
\* others.
UnderWay == IF thread[Me].step = "build" THEN 1 ELSE 0
Account == UnderWay + Len(ready) + Len(logs) + Len(log) - born

RowInv ==
  /\ thread = [n \in Nodes |-> thread[n]]
  /\ IsFiniteSet(refreshed)
  /\ IsList(ready) /\ IsList(logs) /\ IsList(log)
  /\ born \in 0 .. Len(log)
  /\ ~lost => Cardinality(refreshed) <= Account

LEMMA RowsStart == Init => RowInv
<1> SUFFICES ASSUME Init PROVE RowInv
  OBVIOUS
<1>1. /\ thread = [n \in Nodes |-> Idle]
      /\ refreshed = {} /\ ready = <<>> /\ logs = <<>> /\ log = <<>> /\ born = 0
  BY DEF Init
<1>2. thread[Me].step = "idle"
  BY <1>1, RecalibrationAssumption DEF Idle, Nodes
<1> QED
  BY <1>1, <1>2, ListEmpty, FS_EmptySet DEF RowInv, Account, UnderWay

LEMMA AccountType == RowInv => Account \in Int /\ UnderWay \in {0, 1} /\ born \in Nat
<1> SUFFICES ASSUME RowInv PROVE Account \in Int /\ UnderWay \in {0, 1} /\ born \in Nat
  OBVIOUS
<1>1. Len(ready) \in Nat /\ Len(logs) \in Nat /\ Len(log) \in Nat
  BY ListLength DEF RowInv
<1>2. UnderWay \in {0, 1} /\ born \in Nat
  BY <1>1 DEF UnderWay, RowInv
<1> QED
  BY <1>1, <1>2 DEF Account

\* A step keeps the account when it credits what it takes up.
LEMMA Balance ==
  ASSUME RowInv, thread' = [n \in Nodes |-> thread'[n]], IsFiniteSet(refreshed'),
         IsList(ready'), IsList(logs'), IsList(log'), born' \in 0 .. Len(log'),
         lost' = lost, Account' \in Int,
         Cardinality(refreshed') - Cardinality(refreshed) <= Account' - Account
  PROVE  RowInv'
<1>1. Cardinality(refreshed) \in Nat /\ Cardinality(refreshed') \in Nat
  BY FS_CardinalityType DEF RowInv
<1>2. Account \in Int
  BY AccountType
<1>3. ASSUME Cardinality(refreshed) <= Account PROVE Cardinality(refreshed') <= Account'
  BY <1>1, <1>2, <1>3
<1> QED
  BY <1>3 DEF RowInv

LEMMA ThreadStep ==
  ASSUME RowInv, NEW n \in Nodes, NEW x, thread' = [thread EXCEPT ![n] = x]
  PROVE  /\ thread' = [i \in Nodes |-> thread'[i]]
         /\ thread'[Me] = IF n = Me THEN x ELSE thread[Me]
<1>1. thread = [i \in Nodes |-> thread[i]] /\ Me \in Nodes
  BY RecalibrationAssumption DEF RowInv, Nodes
<1> QED
  BY <1>1

\* A step that touches neither the account nor what it is held against.
LEMMA SameRows ==
  ASSUME RowInv, thread' = [n \in Nodes |-> thread'[n]], UnderWay' = UnderWay,
         UNCHANGED <<refreshed, ready, logs, log, born, lost>>
  PROVE  RowInv'
<1>1. Account' = Account
  BY DEF Account
<1> QED
  BY <1>1 DEF RowInv

LEMMA PublishKeepsRows ==
  ASSUME RowInv, NEW n \in Nodes, Thread(n)
  PROVE  RowInv'
<1>0. Me \in Nodes
  BY RecalibrationAssumption DEF Nodes
<1>1. ASSUME NEW x, thread' = [thread EXCEPT ![n] = x], thread[n].step # "build",
             x.step # "build", UNCHANGED <<refreshed, ready, logs, log, born, lost>>
      PROVE  RowInv'
  <2>1. UnderWay' = UnderWay
    BY <1>1, ThreadStep DEF UnderWay
  <2> QED
    BY <1>1, <2>1, ThreadStep, SameRows
<1>2. CASE PublishBin(n)
  <2> DEFINE x == [step |-> "sidecar", at |-> now]
  <2>1. /\ thread' = [thread EXCEPT ![n] = x] /\ thread[n].step # "build"
        /\ UNCHANGED <<refreshed, ready, logs, log, born, lost>>
    BY <1>2 DEF PublishBin, PublishDue, Idle, workVars, lifeVars
  <2>2. x.step # "build"
    BY DEF Idle
  <2> HIDE DEF x
  <2> QED
    BY <2>1, <2>2, <1>1
<1>3. CASE PublishSide(n)
  <2> DEFINE x == IF n = Me THEN [step |-> "refresh", at |-> thread[n].at] ELSE Idle
  <2>1. /\ thread' = [thread EXCEPT ![n] = x] /\ thread[n].step # "build"
        /\ UNCHANGED <<refreshed, ready, logs, log, born, lost>>
    BY <1>3 DEF PublishSide, AfterPublish, workVars, lifeVars
  <2>2. x.step # "build"
    BY DEF Idle
  <2> HIDE DEF x
  <2> QED
    BY <2>1, <2>2, <1>1
<1>4. CASE PublishNothing(n)
  <2> DEFINE x == IF n = Me THEN [step |-> "refresh", at |-> now] ELSE Idle
  <2>1. /\ thread' = [thread EXCEPT ![n] = x] /\ thread[n].step # "build"
        /\ UNCHANGED <<refreshed, ready, logs, log, born, lost>>
    BY <1>4 DEF PublishNothing, PublishDue, AfterPublish, Idle, workVars, lifeVars
  <2>2. x.step # "build"
    BY DEF Idle
  <2> HIDE DEF x
  <2> QED
    BY <2>1, <2>2, <1>1
<1>5. CASE PublishFails(n)
  <2>1. /\ thread[n].step = "sidecar" /\ thread' = [thread EXCEPT ![n] = Idle]
        /\ logs' = (IF n = Me THEN Append(logs, Failure) ELSE logs)
        /\ UNCHANGED <<refreshed, ready, log, born, lost>>
    BY <1>5 DEF PublishFails, workVars, lifeVars
  <2>2. CASE n # Me
    <3>1. Idle.step # "build"
      BY DEF Idle
    <3> QED
      BY <2>1, <2>2, <3>1, <1>1
  <2>3. CASE n = Me
    <3>1. IsList(logs') /\ Len(logs') = Len(logs) + 1
      BY <2>1, <2>3, ListAppend DEF RowInv
    <3>2. UnderWay' = 0 /\ UnderWay = 0 /\ thread' = [i \in Nodes |-> thread'[i]]
      BY <2>1, <2>3, ThreadStep DEF UnderWay, Idle
    <3>3. Len(ready) \in Nat /\ Len(logs) \in Nat /\ Len(log) \in Nat /\ born \in Nat
      BY ListLength, AccountType DEF RowInv
    <3>4. Account' \in Int /\ Account' = Account + 1
      BY <2>1, <3>1, <3>2, <3>3 DEF Account
    <3>5. Cardinality(refreshed') \in Nat /\ refreshed' = refreshed
      BY <2>1, FS_CardinalityType DEF RowInv
    <3>6. Cardinality(refreshed') - Cardinality(refreshed) <= Account' - Account
      BY <3>4, <3>5, AccountType
    <3> QED
      BY <2>1, <3>1, <3>2, <3>4, <3>6, Balance DEF RowInv
  <2> QED
    BY <2>2, <2>3
<1> QED
  BY <1>2, <1>3, <1>4, <1>5 DEF Thread

LEMMA RefreshKeepsRows ==
  ASSUME RowInv, Refresh
  PROVE  RowInv'
<1>0. Me \in Nodes
  BY RecalibrationAssumption DEF Nodes
<1>1. /\ Len(ready) \in Nat /\ Len(logs) \in Nat /\ Len(log) \in Nat /\ born \in Nat
      /\ Account \in Int /\ Cardinality(refreshed) \in Nat
  BY ListLength, AccountType, FS_CardinalityType DEF RowInv
<1>2. CASE StartBuild
  <2>1. PICK at : /\ AtRefresh(at)
                  /\ refreshed' = refreshed \cup {HourOf(at)}
                  /\ thread' = [thread EXCEPT ![Me] = [step |-> "build", at |-> at]]
                  /\ UNCHANGED <<ready, logs, log, born, lost>>
    BY <1>2 DEF StartBuild, lifeVars
  <2>2. UnderWay = 0 /\ UnderWay' = 1 /\ thread' = [i \in Nodes |-> thread'[i]]
    <3>1. thread[Me].step # "build"
      BY <2>1 DEF AtRefresh, Idle
    <3> DEFINE x == [step |-> "build", at |-> at]
    <3>2. x.step = "build" /\ thread' = [thread EXCEPT ![Me] = x]
      BY <2>1
    <3> HIDE DEF x
    <3>3. thread'[Me] = x /\ thread' = [i \in Nodes |-> thread'[i]]
      BY <1>0, <3>2, ThreadStep
    <3> QED
      BY <3>1, <3>2, <3>3 DEF UnderWay
  <2>3. /\ IsFiniteSet(refreshed') /\ Cardinality(refreshed') \in Nat
        /\ Cardinality(refreshed') <= Cardinality(refreshed) + 1
    <3> DEFINE h == HourOf(at)
    <3>1. refreshed' = refreshed \cup {h} /\ IsFiniteSet(refreshed)
      BY <2>1 DEF RowInv
    <3> HIDE DEF h
    <3>2. IsFiniteSet(refreshed') /\ (Cardinality(refreshed') = Cardinality(refreshed)
                                      \/ Cardinality(refreshed') = Cardinality(refreshed) + 1)
      BY <3>1, FS_AddElement
    <3> QED
      BY <1>1, <3>2
  <2>4. Account' \in Int /\ Account' = Account + 1
    BY <1>1, <2>1, <2>2 DEF Account
  <2>5. Cardinality(refreshed') - Cardinality(refreshed) <= Account' - Account
    BY <1>1, <2>3, <2>4
  <2> QED
    BY <2>1, <2>2, <2>3, <2>4, <2>5, Balance DEF RowInv
<1>3. CASE NoRefresh
  <2>1. /\ thread[Me].step = "refresh" /\ thread' = [thread EXCEPT ![Me] = Idle]
        /\ UNCHANGED <<refreshed, ready, logs, log, born, lost>>
    BY <1>3 DEF NoRefresh, workVars, lifeVars
  <2>2. UnderWay' = UnderWay
    BY <1>0, <2>1, ThreadStep DEF UnderWay, Idle
  <2> QED
    BY <1>0, <2>1, <2>2, ThreadStep, SameRows
<1>4. CASE Read
  <2>1. UNCHANGED <<thread, refreshed, ready, logs, log, born, lost>>
    BY <1>4 DEF Read, lifeVars
  <2> QED
    BY <2>1, SameRows DEF UnderWay, RowInv
<1>5. CASE FinishBuild
  <2>1. /\ thread[Me].step = "build" /\ thread' = [thread EXCEPT ![Me] = Idle]
        /\ UNCHANGED <<refreshed, logs, log, born, lost>>
        /\ \E entry : ready' = Append(ready, entry)
    BY <1>5 DEF FinishBuild, Put, lifeVars
  <2>2. IsList(ready') /\ Len(ready') = Len(ready) + 1
    BY <2>1, ListAppend DEF RowInv
  <2>3. UnderWay = 1 /\ UnderWay' = 0 /\ thread' = [i \in Nodes |-> thread'[i]]
    BY <1>0, <2>1, ThreadStep DEF UnderWay, Idle
  <2>4. Account' \in Int /\ Account' = Account
    BY <1>1, <2>1, <2>2, <2>3 DEF Account
  <2>5. Cardinality(refreshed') - Cardinality(refreshed) <= Account' - Account
    BY <1>1, <2>1, <2>4
  <2> QED
    BY <2>1, <2>2, <2>3, <2>4, <2>5, Balance DEF RowInv
<1>6. CASE BuildFails
  <2>1. /\ thread[Me].step = "build" /\ thread' = [thread EXCEPT ![Me] = Idle]
        /\ logs' = Append(logs, Failure)
        /\ UNCHANGED <<refreshed, ready, log, born, lost>>
    BY <1>6 DEF BuildFails, lifeVars
  <2>2. IsList(logs') /\ Len(logs') = Len(logs) + 1
    BY <2>1, ListAppend DEF RowInv
  <2>3. UnderWay = 1 /\ UnderWay' = 0 /\ thread' = [i \in Nodes |-> thread'[i]]
    BY <1>0, <2>1, ThreadStep DEF UnderWay, Idle
  <2>4. Account' \in Int /\ Account' = Account
    BY <1>1, <2>1, <2>2, <2>3 DEF Account
  <2>5. Cardinality(refreshed') - Cardinality(refreshed) <= Account' - Account
    BY <1>1, <2>1, <2>4
  <2> QED
    BY <2>1, <2>2, <2>3, <2>4, <2>5, Balance DEF RowInv
<1> QED
  BY <1>2, <1>3, <1>4, <1>5, <1>6 DEF Refresh

\* The loop turns an entry into a row.
LEMMA ApplyKeepsRows == ASSUME RowInv, Apply PROVE RowInv'
<1>1. /\ ready # <<>> /\ ready' = Tail(ready) /\ \E row : logs' = Append(logs, row)
      /\ UNCHANGED <<thread, refreshed, log, born, lost>>
  BY DEF Apply, workVars, lifeVars
<1>2. /\ IsList(ready') /\ Len(ready') = Len(ready) - 1
      /\ IsList(logs') /\ Len(logs') = Len(logs) + 1
  BY <1>1, ListTail, ListAppend DEF RowInv
<1>3. /\ Len(ready) \in Nat /\ Len(logs) \in Nat /\ Len(log) \in Nat /\ born \in Nat
      /\ Account \in Int /\ Cardinality(refreshed) \in Nat /\ UnderWay \in Int
  BY ListLength, AccountType, FS_CardinalityType DEF RowInv
<1>4. UnderWay' = UnderWay
  BY <1>1 DEF UnderWay
<1>5. Account' \in Int /\ Account' = Account
  BY <1>1, <1>2, <1>3, <1>4 DEF Account
<1>6. Cardinality(refreshed') - Cardinality(refreshed) <= Account' - Account
  BY <1>1, <1>3, <1>5
<1> QED
  BY <1>1, <1>2, <1>5, <1>6, Balance DEF RowInv

LEMMA WriteLogsKeepsRows == ASSUME RowInv, WriteLogs PROVE RowInv'
<1>1. /\ logs' = <<>> /\ UNCHANGED <<thread, refreshed, ready, born>>
      /\ (log' = log \o logs /\ lost' = lost) \/ (log' = log /\ lost' = TRUE)
  BY DEF WriteLogs, workVars
<1>2. IsList(logs') /\ Len(logs') = 0
  BY <1>1, ListEmpty
<1>3. /\ Len(ready) \in Nat /\ Len(logs) \in Nat /\ Len(log) \in Nat /\ born \in 0 .. Len(log)
      /\ Account \in Int /\ Cardinality(refreshed) \in Nat /\ UnderWay \in Int
  BY ListLength, AccountType, FS_CardinalityType DEF RowInv
<1>4. CASE log' = log \o logs /\ lost' = lost
  <2>1. IsList(log') /\ Len(log') = Len(log) + Len(logs)
    BY <1>4, ListConcat DEF RowInv
  <2>2. UnderWay' = UnderWay
    BY <1>1 DEF UnderWay
  <2>3. Account' \in Int /\ Account' = Account
    BY <1>1, <1>2, <1>3, <2>1, <2>2 DEF Account
  <2>4. Cardinality(refreshed') - Cardinality(refreshed) <= Account' - Account
    BY <1>1, <1>3, <2>3
  <2>5. born' \in 0 .. Len(log')
    BY <1>1, <1>3, <2>1
  <2> QED
    BY <1>1, <1>2, <1>4, <2>1, <2>3, <2>4, <2>5, Balance DEF RowInv
<1>5. CASE log' = log /\ lost' = TRUE
  BY <1>1, <1>2, <1>5 DEF RowInv
<1> QED
  BY <1>1, <1>4, <1>5

\* A new process starts with an empty account.
LEMMA NewProcessKeepsRows ==
  ASSUME RowInv, NEW n \in Nodes, NEW kept, IsList(kept), NewProcess(n, kept)
  PROVE  RowInv'
<1>1. thread' = [thread EXCEPT ![n] = Idle]
  BY DEF NewProcess
<1>2. thread' = [i \in Nodes |-> thread'[i]] /\ thread'[Me] = IF n = Me THEN Idle ELSE thread[Me]
  BY <1>1, ThreadStep
<1>3. CASE n = Me
  <2>1. /\ refreshed' = {} /\ ready' = <<>> /\ logs' = <<>>
        /\ log' = log \o kept /\ born' = Len(log') /\ lost' = FALSE
    BY <1>3 DEF NewProcess
  <2>2. IsList(log') /\ Len(log') \in Nat
    BY <2>1, ListConcat, ListLength DEF RowInv
  <2>3. /\ IsList(ready') /\ Len(ready') = 0 /\ IsList(logs') /\ Len(logs') = 0
        /\ IsFiniteSet(refreshed') /\ Cardinality(refreshed') = 0
    BY <2>1, ListEmpty, FS_EmptySet
  <2>4. UnderWay' = 0
    BY <1>2, <1>3 DEF UnderWay, Idle
  <2>5. Account' = 0
    BY <2>1, <2>2, <2>3, <2>4 DEF Account
  <2> QED
    BY <1>2, <2>1, <2>2, <2>3, <2>5 DEF RowInv
<1>4. CASE n # Me
  <2>1. UNCHANGED <<refreshed, ready, logs, log, born, lost>>
    BY <1>4 DEF NewProcess, workVars, lifeVars
  <2>2. UnderWay' = UnderWay
    BY <1>2, <1>4 DEF UnderWay
  <2> QED
    BY <1>2, <2>1, <2>2, SameRows
<1> QED
  BY <1>3, <1>4

LEMMA RowsKept == RowInv /\ [Next]_vars => RowInv'
<1> SUFFICES ASSUME RowInv, [Next]_vars PROVE RowInv'
  OBVIOUS
<1>1. CASE UNCHANGED <<thread, refreshed, ready, logs, log, born, lost>>
  BY <1>1, SameRows DEF UnderWay, RowInv
<1>2. CASE Advance \/ UNCHANGED vars
  BY <1>1, <1>2 DEF Advance, vars, workVars, lifeVars
<1>3. CASE Stop
  BY <1>3, NewProcessKeepsRows, RecalibrationAssumption DEF Stop, Nodes, RowInv
<1>4. ASSUME NEW n \in Nodes, Killed(n) PROVE RowInv'
  BY <1>4, NewProcessKeepsRows, ListEmpty DEF Killed
<1>5. ASSUME NEW n \in Nodes, NEW w \in Windows, NEW h \in Hours, TornFrame(n, w, h)
      PROVE  RowInv'
  BY <1>5, NewProcessKeepsRows, ListEmpty DEF TornFrame
<1>6. ASSUME NEW n \in Nodes, NEW w \in Windows, NEW h \in Hours, Frame(n, w, h)
      PROVE  RowInv'
  BY <1>6, <1>1 DEF Frame, workVars, lifeVars
<1> QED
  BY <1>2, <1>3, <1>4, <1>5, <1>6, RefreshKeepsRows, ApplyKeepsRows, WriteLogsKeepsRows,
     PublishKeepsRows DEF Next

\* Unless rows of the log were lost, the refreshes of a process are matched
\* by the one under way, the entries for the loop and the rows.
THEOREM RefreshesAreAccounted == Spec => []EveryRefreshIsAccounted
<1>1. RowInv => EveryRefreshIsAccounted
  BY DEF RowInv, EveryRefreshIsAccounted, Account, UnderWay
<1>2. Spec => []RowInv
  BY RowsStart, RowsKept, PTL DEF Spec
<1> QED
  BY <1>1, <1>2, PTL
-------------------------------------------------------------------------------
(* What the files, the cache and the arrays hold. *)

Piece == Windows \X (Nat \ {0}) \X {1, 2}

Shape ==
  /\ now \in 0 .. 3 * LastHour + 2
  /\ scored \in [Windows -> {<<>>} \cup ((0 .. N) \X Hours)]
  /\ torn \subseteq Nodes \X Hours
  /\ file \in [Nodes -> [Hours -> Seq(Piece)]] /\ side \in [Nodes -> [Hours -> Seq(Workloads)]]
  /\ bin \in [Nodes -> [Hours -> Seq(Piece)]] /\ json \in [Nodes -> [Hours -> Seq(Workloads)]]
  /\ thread \in [Nodes -> [step : {"idle", "sidecar", "refresh", "build"}, at : Nat]]
  /\ \A n \in Nodes :
       /\ thread[n].at <= now
       /\ thread[n].step = "sidecar" => HourOf(thread[n].at) > 0 /\ PhaseOf(thread[n].at) >= 1
\* Hour h has passed, and the delay of its last window.
Over(h) == now >= 3 * (h + 1) + 1

\* Whole records: pieces two by two, their workload by the sidecar.
Paired(scores, p, q, names, x) ==
  /\ p[1] = q[1] /\ p[3] = 1 /\ q[3] = 2 /\ p[1] \in Windows
  /\ p[2] \in DOMAIN names /\ names[p[2]] = WorkloadOf[p[1]]
  /\ scores[p[1]] = x

\* A file holds exactly the windows of node and hour x, each once.
Exact(scores, x, pieces, names) ==
  \E m \in 0 .. Len(pieces) :
    /\ Len(pieces) = 2 * m
    /\ \A i \in 1 .. m : Paired(scores, pieces[2 * i - 1], pieces[2 * i], names, x)
    /\ \A w \in Windows : scores[w] = x => \E i \in 1 .. m : pieces[2 * i][1] = w
    /\ \A i, j \in 1 .. m : pieces[2 * i][1] = pieces[2 * j][1] => i = j

\* The second half of a record is only in the file it was scored for.
Own(scores, x, pieces) ==
  \A i \in DOMAIN pieces : pieces[i][3] = 2 => pieces[i][1] \in Windows /\ scores[pieces[i][1]] = x

FileAt(n, h) ==
  /\ Own(scored, <<n, h>>, file[n][h])
  /\ <<n, h>> \notin torn => \/ Exact(scored, <<n, h>>, file[n][h], side[n][h])
                             \/ side[n][h] = <<>> /\ Over(h)

FileInv == \A n \in Nodes, h \in Hours : FileAt(n, h)

AtSidecar(n, h) == thread[n].step = "sidecar" /\ h = HourOf(thread[n].at) - 1

SharedAt(n, h) ==
  /\ Own(scored, <<n, h>>, bin[n][h])
  /\ json[n][h] # <<>> => Over(h)
  /\ <<n, h>> \notin torn =>
       /\ json[n][h] # <<>> => /\ Exact(scored, <<n, h>>, bin[n][h], json[n][h])
                               /\ side[n][h] # <<>> => json[n][h] = side[n][h]
       /\ AtSidecar(n, h) /\ side[n][h] # <<>> => Exact(scored, <<n, h>>, bin[n][h], side[n][h])

SharedInv == \A n \in Nodes, h \in Hours : SharedAt(n, h)

HourOK(scores, damaged, records, x) ==
  /\ \A r \in records :
       r.key = x /\ r.window \in Windows \cup {0} /\ (r.window # 0 => scores[r.window] = x)
  /\ x \notin damaged =>
       /\ \A r \in records : r.window # 0 /\ r.workload = WorkloadOf[r.window]
       /\ \A w \in Windows : scores[w] = x => \E r \in records : r.window = w
       /\ \A r, s \in records : r.window = s.window => r = s

PartsOK(scores, damaged, parts, read) ==
  /\ \A r \in parts : r.key \in read
  /\ \A x \in read : HourOK(scores, damaged, {r \in parts : r.key = x}, x)

\* The hours kept from earlier builds.
CacheInv ==
  /\ DOMAIN cache \subseteq Nodes \X Hours
  /\ \A x \in DOMAIN cache : Over(x[2]) /\ HourOK(scored, torn, cache[x], x)

\* What the build under way has read.
BuildOK(b) ==
  /\ b = [hour |-> b.hour, todo |-> b.todo, parts |-> b.parts, missing |-> b.missing]
  /\ b.hour \in Nat /\ Over(b.hour - 1)
  /\ b.todo \subseteq Keys(b.hour) /\ b.missing \subseteq Keys(b.hour) \ b.todo
  /\ PartsOK(scored, torn, b.parts, HoursRead(b.hour, b.missing) \ b.todo)

BuildInv == CacheInv /\ (thread[Me].step = "build" => BuildOK(build))

\* The scores and the time they are seen at.
Scores == [now |-> now, scored |-> scored, torn |-> torn]

\* An array is what a refresh, or its row, stands for (see IsWholeHours).
Stands(scores, array, k, row) ==
  /\ row.hour \in Nat /\ scores.now >= 3 * row.hour + 1
  /\ array = [w \in Windows \cup {0} |-> array[w]]
  /\ LET read == HoursRead(row.hour, row.missing) IN
     /\ \A w \in Windows :
          \/ scores.scored[w] \in read \cap scores.torn
          \/ array[w] = IF scores.scored[w] \in read /\ WorkloadOf[w] = k THEN 1 ELSE 0
     /\ read \cap scores.torn = {} => array[0] = 0

ReadyInv ==
  \A i \in 1 .. Len(ready) : \A k \in Workloads : Stands(Scores, ready[i].cal[k], k, ready[i])

\* Places of rows after the first ones (see Entries).
EntriesAfter(first, rows, k, upTo) ==
  {i \in first + 1 .. Len(rows) :
     rows[i].event = "applied" /\ rows[i].epoch <= upTo /\ k \in rows[i].swapped}

\* The arrays of a decision row stand for the last row up to its epoch that
\* swapped them.
StandsFor(scores, first, rows, u, k) ==
  LET entries == EntriesAfter(first, rows, k, u.epoch) IN
  /\ entries = {} => u.arrays[k] = Bundle[k]
  /\ \A i \in entries :
       (\A j \in entries : j <= i) => Stands(scores, u.arrays[k], k, rows[i])

\* No row is ahead of the epoch.
EpochsUpTo(first, rows, last) ==
  \A i \in first + 1 .. Len(rows) :
    rows[i].event = "applied" => rows[i].epoch \in Nat /\ rows[i].epoch <= last

Rows == log \o logs

UsedInv ==
  /\ [life |-> life, epoch |-> epoch, arrays |-> arrays] \in used
  /\ ~lost => /\ EpochsUpTo(born, Rows, epoch)
              /\ \A u \in used, k \in Workloads :
                   u.life = life => StandsFor(Scores, born, Rows, u, k)

LEMMA Clock ==
  ASSUME NEW t \in Nat
  PROVE  /\ HourOf(t) \in Nat /\ PhaseOf(t) \in {0, 1, 2}
         /\ t = 3 * HourOf(t) + PhaseOf(t)
BY DEF HourOf, PhaseOf

LEMMA HoursAreNumbers == Hours \subseteq Nat /\ Nodes \subseteq Nat /\ Me \in Nodes
BY RecalibrationAssumption DEF Hours, Nodes

LEMMA DueIsNotOver ==
  ASSUME now \in Nat, NEW w, NEW h \in Hours, Due(w, h)
  PROVE  ~Over(h) /\ scored[w] = <<>>
<1>1. scored[w] = <<>> /\ (h = HourOf(now) \/ (PhaseOf(now) = 0 /\ h = HourOf(now) - 1))
  BY DEF Due
<1>2. /\ HourOf(now) \in Nat /\ PhaseOf(now) \in {0, 1, 2} /\ now = 3 * HourOf(now) + PhaseOf(now)
      /\ h \in Nat
  BY Clock, HoursAreNumbers
<1> QED
  BY <1>1, <1>2 DEF Over

\* What a step may do to the scores: a window of an hour that is not over.
ScoreStep ==
  /\ now' \in Nat /\ now <= now'
  /\ torn \subseteq torn' /\ \A x \in torn' : x \in torn \/ ~Over(x[2])
  /\ \A w \in Windows :
       \/ scored'[w] = scored[w]
       \/ /\ scored[w] = <<>>
          /\ \E n \in 0 .. N, h \in Hours : scored'[w] = <<n, h>> /\ ~Over(h)

LEMMA ScoresStay ==
  ASSUME Shape, UNCHANGED <<scored, torn>>, now' \in Nat, now <= now' PROVE ScoreStep
BY DEF ScoreStep

LEMMA FrameScores ==
  ASSUME Shape, NEW n \in Nodes, NEW w \in Windows, NEW h \in Hours, Frame(n, w, h)
  PROVE  ScoreStep
<1>1. /\ ~Over(h) /\ scored[w] = <<>> /\ scored' = [scored EXCEPT ![w] = <<n, h>>]
      /\ UNCHANGED <<now, torn>>
  BY DueIsNotOver DEF Frame, Shape
<1>2. n \in 0 .. N
  BY RecalibrationAssumption DEF Nodes
<1>3. \A v \in Windows : scored'[v] = IF v = w THEN <<n, h>> ELSE scored[v]
  BY <1>1 DEF Shape
<1> QED
  BY <1>1, <1>2, <1>3 DEF ScoreStep, Shape

LEMMA TornFrameScores ==
  ASSUME Shape, NEW n \in Nodes, NEW w \in Windows, NEW h \in Hours, TornFrame(n, w, h)
  PROVE  ScoreStep
<1>1. /\ ~Over(h) /\ scored[w] = <<>> /\ scored' = [scored EXCEPT ![w] = <<0, h>>]
      /\ now' = now /\ torn' = torn \cup {<<n, h>>}
  BY DueIsNotOver DEF TornFrame, NewProcess, Shape
<1>2. 0 \in 0 .. N
  BY RecalibrationAssumption
<1>3. \A v \in Windows : scored'[v] = IF v = w THEN <<0, h>> ELSE scored[v]
  BY <1>1 DEF Shape
<1> QED
  BY <1>1, <1>2, <1>3 DEF ScoreStep, Shape

LEMMA EveryStepScores == ASSUME Shape, [Next]_vars PROVE ScoreStep
<1>1. CASE UNCHANGED <<now, scored, torn>>
  BY <1>1, ScoresStay DEF Shape
<1>2. CASE Advance
  BY <1>2, ScoresStay DEF Advance, diskVars, Shape
<1>3. CASE Apply \/ Refresh \/ WriteLogs \/ UNCHANGED vars
  BY <1>1, <1>3 DEF Apply, Refresh, StartBuild, NoRefresh, Read, FinishBuild, BuildFails,
     WriteLogs, vars, diskVars
<1>4. CASE Stop
  BY <1>1, <1>4 DEF Stop, NewProcess
<1>5. ASSUME NEW n \in Nodes, Killed(n) PROVE ScoreStep
  BY <1>1, <1>5 DEF Killed, NewProcess
<1>6. ASSUME NEW n \in Nodes, Thread(n) PROVE ScoreStep
  BY <1>6, <1>1 DEF Thread, PublishBin, PublishSide, PublishNothing, PublishFails, diskVars
<1> QED
  BY <1>2, <1>3, <1>4, <1>5, <1>6, FrameScores, TornFrameScores DEF Next

LEMMA OverStays == ASSUME ScoreStep, now \in Nat, NEW h \in Int, Over(h) PROVE Over(h)'
BY DEF ScoreStep, Over

LEMMA OwnStays ==
  ASSUME ScoreStep, NEW n, NEW h, NEW pieces, Own(scored, <<n, h>>, pieces)
  PROVE  Own(scored', <<n, h>>, pieces)
<1>1. \A w \in Windows : scored[w] = <<n, h>> => scored'[w] = <<n, h>>
  BY DEF ScoreStep
<1> QED
  BY <1>1 DEF Own

\* An hour whose windows a step leaves alone.
Untouched(x) == \A w \in Windows : scored'[w] = x => scored[w] = x

LEMMA OverIsUntouched ==
  ASSUME ScoreStep, NEW n, NEW h, Over(h)
  PROVE  Untouched(<<n, h>>) /\ (<<n, h>> \in torn' => <<n, h>> \in torn)
BY DEF ScoreStep, Untouched

LEMMA ExactStays ==
  ASSUME ScoreStep, NEW x, x # <<>>, NEW pieces, NEW names, Untouched(x),
         Exact(scored, x, pieces, names)
  PROVE  Exact(scored', x, pieces, names)
<1>1. PICK m \in 0 .. Len(pieces) :
    /\ Len(pieces) = 2 * m
    /\ \A i \in 1 .. m : Paired(scored, pieces[2 * i - 1], pieces[2 * i], names, x)
    /\ \A w \in Windows : scored[w] = x => \E i \in 1 .. m : pieces[2 * i][1] = w
    /\ \A i, j \in 1 .. m : pieces[2 * i][1] = pieces[2 * j][1] => i = j
  BY DEF Exact
<1>2. \A w \in Windows : scored[w] = x => scored'[w] = x
  BY DEF ScoreStep
<1>3. \A p, q : Paired(scored, p, q, names, x) => Paired(scored', p, q, names, x)
  BY <1>2 DEF Paired
<1>4. \A i \in 1 .. m : Paired(scored', pieces[2 * i - 1], pieces[2 * i], names, x)
  BY <1>1, <1>3
<1>5. \A w \in Windows : scored'[w] = x => \E i \in 1 .. m : pieces[2 * i][1] = w
  BY <1>1 DEF Untouched
<1> QED
  BY <1>1, <1>4, <1>5 DEF Exact

LEMMA HourOKStays ==
  ASSUME ScoreStep, NEW n, NEW h, NEW records, Over(h), HourOK(scored, torn, records, <<n, h>>)
  PROVE  HourOK(scored', torn', records, <<n, h>>)
<1>1. \A w \in Windows : scored'[w] = <<n, h>> <=> scored[w] = <<n, h>>
  BY OverIsUntouched DEF Untouched, ScoreStep
<1>2. <<n, h>> \in torn' <=> <<n, h>> \in torn
  BY OverIsUntouched DEF ScoreStep
<1> QED
  BY <1>1, <1>2 DEF HourOK

\* No window is scored into the span of a refresh.
LEMMA SpanIsSettled ==
  ASSUME ScoreStep, now \in Nat, NEW hour \in Nat, Over(hour - 1), NEW x \in Keys(hour)
  PROVE  Over(x[2]) /\ Untouched(x) /\ (x \in torn' <=> x \in torn)
<1>1. x = <<x[1], x[2]>> /\ x[2] \in Int /\ x[2] <= hour - 1
  BY RecalibrationAssumption DEF Keys, Span
<1>2. Over(x[2])
  BY <1>1 DEF Over
<1>3. Untouched(x) /\ (x \in torn' => x \in torn)
  BY <1>1, <1>2, OverIsUntouched
<1> QED
  BY <1>2, <1>3 DEF ScoreStep

LEMMA StandsStays ==
  ASSUME Shape, ScoreStep, NEW array, NEW k, NEW row, Stands(Scores, array, k, row)
  PROVE  Stands(Scores', array, k, row)
<1> DEFINE read == HoursRead(row.hour, row.missing)
<1>0. now \in Nat
  BY RecalibrationAssumption DEF Shape
<1>1. /\ row.hour \in Nat /\ now >= 3 * row.hour + 1
      /\ array = [w \in Windows \cup {0} |-> array[w]]
      /\ \A w \in Windows :
           \/ scored[w] \in read \cap torn
           \/ array[w] = IF scored[w] \in read /\ WorkloadOf[w] = k THEN 1 ELSE 0
      /\ read \cap torn = {} => array[0] = 0
  BY DEF Stands, Scores
<1>2. \A x \in read : Untouched(x) /\ (x \in torn' <=> x \in torn)
  <2>1. Over(row.hour - 1)
    BY <1>0, <1>1 DEF Over
  <2> QED
    BY <1>0, <1>1, <2>1, SpanIsSettled DEF HoursRead
<1>3. \A w \in Windows : scored'[w] \in read <=> scored[w] \in read
  <2>1. <<>> \notin read
    BY DEF HoursRead, Keys
  <2> HIDE DEF read
  <2>2. \A w \in Windows : scored'[w] \in read => scored[w] = scored'[w]
    BY <1>2 DEF Untouched
  <2>3. \A w \in Windows : scored[w] \in read => scored'[w] = scored[w]
    BY <2>1 DEF ScoreStep
  <2> QED
    BY <2>2, <2>3
<1> HIDE DEF read
<1>4. \A w \in Windows : scored'[w] \in read \cap torn' <=> scored[w] \in read \cap torn
  BY <1>2, <1>3 DEF Untouched, ScoreStep
<1>5. read \cap torn' = read \cap torn
  BY <1>2
<1>6. now' >= 3 * row.hour + 1
  BY <1>0, <1>1 DEF ScoreStep
<1>7. /\ \A w \in Windows :
           \/ scored'[w] \in read \cap torn'
           \/ array[w] = IF scored'[w] \in read /\ WorkloadOf[w] = k THEN 1 ELSE 0
      /\ read \cap torn' = {} => array[0] = 0
  BY <1>1, <1>3, <1>4, <1>5
<1> QED
  BY <1>1, <1>6, <1>7 DEF Stands, Scores, read

\* The sidecar after a row of workload k: k has a number, no other moved.
LEMMA WorkloadAdded ==
  ASSUME NEW names \in Seq(Workloads), NEW k \in Workloads
  PROVE  /\ WithWorkload(names, k) \in Seq(Workloads) /\ WithWorkload(names, k) # <<>>
         /\ \E i \in DOMAIN WithWorkload(names, k) : WithWorkload(names, k)[i] = k
         /\ \A i \in DOMAIN names : /\ i \in DOMAIN WithWorkload(names, k)
                                    /\ WithWorkload(names, k)[i] = names[i]
<1>1. CASE k \in ToSet(names)
  <2>1. WithWorkload(names, k) = names
    BY <1>1 DEF WithWorkload
  <2>2. PICK i \in DOMAIN names : names[i] = k
    BY <1>1 DEF ToSet
  <2> QED
    BY <2>1, <2>2
<1>2. CASE k \notin ToSet(names)
  <2>1. WithWorkload(names, k) = Append(names, k)
    BY <1>2 DEF WithWorkload
  <2>2. /\ Append(names, k) \in Seq(Workloads) /\ Len(Append(names, k)) = Len(names) + 1
        /\ Append(names, k)[Len(names) + 1] = k
        /\ \A i \in 1 .. Len(names) : Append(names, k)[i] = names[i]
    BY AppendProperties
  <2>3. Len(names) \in Nat /\ DOMAIN names = 1 .. Len(names)
        /\ DOMAIN Append(names, k) = 1 .. Len(names) + 1
    BY <2>2, LenProperties
  <2> QED
    BY <2>1, <2>2, <2>3
<1> QED
  BY <1>1, <1>2

\* Retention deletes only hours that are over.
LEMMA RetainedHours ==
  ASSUME now \in Nat, NEW h \in Hours
  PROVE  h \in Retained(h) /\ \A k \in Hours : k \notin Retained(h) => Over(k)
<1>1. h \in Retained(h)
  BY DEF Retained
<1>2. ASSUME NEW k \in Hours, k \notin Retained(h) PROVE Over(k)
  <2>1. ~(3 * (k + 1) >= now - 3 * RetentionHours) /\ k \in Nat
    BY <1>2, HoursAreNumbers DEF Retained
  <2>2. RetentionHours \in Nat /\ RetentionHours >= 1
    BY RecalibrationAssumption
  <2> QED
    BY <2>1, <2>2 DEF Over
<1> QED
  BY <1>1, <1>2

\* A row goes to the end of its hour's file; other files stay or are deleted.
Grows(n, w, h, index, count) ==
  /\ file' \in [Nodes -> [Hours -> Seq(Piece)]] /\ side' \in [Nodes -> [Hours -> Seq(Workloads)]]
  /\ file'[n][h] = file[n][h] \o SubSeq(Pieces(w, index), 1, count)
  /\ side'[n][h] # <<>> /\ index \in DOMAIN side'[n][h] /\ side'[n][h][index] = WorkloadOf[w]
  /\ \A i \in DOMAIN side[n][h] : i \in DOMAIN side'[n][h] /\ side'[n][h][i] = side[n][h][i]
  /\ \A i \in Nodes, k \in Hours : ~(i = n /\ k = h) =>
       \/ file'[i][k] = file[i][k] /\ side'[i][k] = side[i][k]
       \/ file'[i][k] = <<>> /\ side'[i][k] = <<>> /\ Over(k)

LEMMA AddGrows ==
  ASSUME Shape, NEW n \in Nodes, NEW w \in Windows, NEW h \in Hours, NEW count \in {1, 2},
         Add(n, w, h, count)
  PROVE  \E index \in Nat \ {0} : Grows(n, w, h, index, count)
<1> DEFINE names == Names(n, h, WorkloadOf[w])
           index == CHOOSE i \in DOMAIN names : names[i] = WorkloadOf[w]
           more == SubSeq(Pieces(w, index), 1, count)
           sides == Kept(n, h, side[n])
           files == Kept(n, h, file[n])
<1>1. /\ side' = [side EXCEPT ![n] = [sides EXCEPT ![h] = names]]
      /\ file' = [file EXCEPT ![n] = [files EXCEPT ![h] = files[h] \o more]]
  BY DEF Add
<1>2. WorkloadOf[w] \in Workloads /\ side[n][h] \in Seq(Workloads) /\ file[n][h] \in Seq(Piece)
      /\ side[n] \in [Hours -> Seq(Workloads)] /\ file[n] \in [Hours -> Seq(Piece)]
  BY RecalibrationAssumption DEF Shape
<1>3. /\ names \in Seq(Workloads) /\ names # <<>>
      /\ \E i \in DOMAIN names : names[i] = WorkloadOf[w]
      /\ \A i \in DOMAIN side[n][h] : i \in DOMAIN names /\ names[i] = side[n][h][i]
  BY <1>2, WorkloadAdded DEF Names
<1> HIDE DEF names
<1>4. index \in DOMAIN names /\ names[index] = WorkloadOf[w]
  BY <1>3
<1>5. DOMAIN names = 1 .. Len(names) /\ Len(names) \in Nat
  BY <1>3, LenProperties
<1>6. index \in Nat \ {0}
  BY <1>4, <1>5
<1> HIDE DEF index
<1>7. Pieces(w, index) \in Seq(Piece) /\ Len(Pieces(w, index)) = 2
  BY <1>6 DEF Pieces, Piece
<1>8. more \in Seq(Piece)
  BY <1>7, SubSeqProperties
<1> HIDE DEF more
<1>9. /\ sides \in [Hours -> Seq(Workloads)] /\ files \in [Hours -> Seq(Piece)]
      /\ files[h] = file[n][h]
      /\ \A k \in Hours : \/ files[k] = file[n][k] /\ sides[k] = side[n][k]
                          \/ files[k] = <<>> /\ sides[k] = <<>> /\ Over(k)
  <2>1. h \in Retained(h) /\ \A k \in Hours : k \notin Retained(h) => Over(k)
    BY RetainedHours DEF Shape
  <2>2. <<>> \in Seq(Workloads) /\ <<>> \in Seq(Piece)
    OBVIOUS
  <2>3. /\ sides = [k \in Hours |-> IF open[n] = h \/ k \in Retained(h) THEN side[n][k] ELSE <<>>]
        /\ files = [k \in Hours |-> IF open[n] = h \/ k \in Retained(h) THEN file[n][k] ELSE <<>>]
    BY DEF Kept
  <2> HIDE DEF sides, files
  <2> QED
    BY <1>2, <2>1, <2>2, <2>3
<1> HIDE DEF sides, files
<1>10. file[n][h] \o more \in Seq(Piece)
  BY <1>2, <1>8, ConcatProperties
<1>11. /\ side' = [side EXCEPT ![n] = [sides EXCEPT ![h] = names]]
       /\ file' = [file EXCEPT ![n] = [files EXCEPT ![h] = file[n][h] \o more]]
  BY <1>1, <1>9 DEF sides, files
<1>12. /\ file' \in [Nodes -> [Hours -> Seq(Piece)]]
       /\ side' \in [Nodes -> [Hours -> Seq(Workloads)]]
  BY <1>3, <1>9, <1>10, <1>11 DEF Shape
<1>13. /\ file'[n][h] = file[n][h] \o more /\ side'[n][h] = names
       /\ \A k \in Hours : k # h => file'[n][k] = files[k] /\ side'[n][k] = sides[k]
       /\ \A i \in Nodes : i # n => file'[i] = file[i] /\ side'[i] = side[i]
  BY <1>9, <1>11 DEF Shape
<1>14. Grows(n, w, h, index, count)
  <2>1. file'[n][h] = file[n][h] \o SubSeq(Pieces(w, index), 1, count)
    BY <1>13 DEF more
  <2>2. \A i \in Nodes, k \in Hours : ~(i = n /\ k = h) =>
          \/ file'[i][k] = file[i][k] /\ side'[i][k] = side[i][k]
          \/ file'[i][k] = <<>> /\ side'[i][k] = <<>> /\ Over(k)
    BY <1>9, <1>13
  <2> QED
    BY <1>3, <1>4, <1>12, <1>13, <2>1, <2>2 DEF Grows
<1> QED
  BY <1>6, <1>14

LEMMA ClockType == ASSUME Shape PROVE now \in Nat
BY RecalibrationAssumption DEF Shape

LEMMA HoursSoFar ==
  ASSUME Shape, NEW t \in Nat, t <= now
  PROVE  HourOf(t) \in Hours
<1>1. HourOf(t) \in Nat /\ t = 3 * HourOf(t) + PhaseOf(t) /\ PhaseOf(t) \in {0, 1, 2}
  BY Clock
<1>2. t <= 3 * LastHour + 2 /\ LastHour \in Nat
  BY RecalibrationAssumption DEF Shape
<1> QED
  BY <1>1, <1>2 DEF Hours

\* The hour before, past the publish delay, is over.
LEMMA HourBefore ==
  ASSUME Shape, NEW t \in Nat, t <= now, HourOf(t) > 0, PhaseOf(t) >= 1
  PROVE  HourOf(t) - 1 \in Hours /\ Over(HourOf(t) - 1)
<1>1. HourOf(t) \in Hours
  BY HoursSoFar
<1>2. t = 3 * HourOf(t) + PhaseOf(t) /\ PhaseOf(t) \in {0, 1, 2} /\ HourOf(t) \in Nat
  BY Clock
<1>3. now \in Nat
  BY ClockType
<1>4. LastHour \in Nat
  BY RecalibrationAssumption
<1>5. HourOf(t) - 1 \in Hours
  BY <1>1, <1>2, <1>4 DEF Hours
<1>6. PICK j \in Nat : j = HourOf(t)
  BY <1>2
<1>7. now >= 3 * ((j - 1) + 1) + 1
  BY <1>2, <1>3, <1>6
<1> QED
  BY <1>5, <1>6, <1>7 DEF Over

\* The shared files of a node after a publication.
LEMMA PublishesFiles ==
  ASSUME Shape, NEW n \in Nodes, NEW hour, NEW bins \in [Hours -> Seq(Piece)],
         NEW names \in [Hours -> Seq(Workloads)], Publishes(n, hour, bins, names)
  PROVE  /\ bin' \in [Nodes -> [Hours -> Seq(Piece)]] /\ json' \in [Nodes -> [Hours -> Seq(Workloads)]]
         /\ \A k \in Hours : \/ bin'[n][k] = bins[k] /\ json'[n][k] = names[k]
                             \/ bin'[n][k] = <<>> /\ json'[n][k] = <<>>
         /\ \A i \in Nodes : i # n => bin'[i] = bin[i] /\ json'[i] = json[i]
<1> DEFINE gone == {k \in Hours : k < hour - KeepHours /\ names[k] # <<>>}
           newBin == [k \in Hours |-> IF k \in gone THEN <<>> ELSE bins[k]]
           newJson == [k \in Hours |-> IF k \in gone THEN <<>> ELSE names[k]]
<1>1. bin' = [bin EXCEPT ![n] = newBin] /\ json' = [json EXCEPT ![n] = newJson]
  BY DEF Publishes
<1> HIDE DEF gone
<1>2. newBin \in [Hours -> Seq(Piece)] /\ newJson \in [Hours -> Seq(Workloads)]
  OBVIOUS
<1>3. \A k \in Hours : \/ newBin[k] = bins[k] /\ newJson[k] = names[k]
                       \/ newBin[k] = <<>> /\ newJson[k] = <<>>
  OBVIOUS
<1> HIDE DEF newBin, newJson
<1> QED
  BY <1>1, <1>2, <1>3 DEF Shape

\* What a step of the thread of n leaves in the shared directory.
SharedBy(n) ==
  /\ bin' \in [Nodes -> [Hours -> Seq(Piece)]] /\ json' \in [Nodes -> [Hours -> Seq(Workloads)]]
  /\ \A i \in Nodes : i # n => bin'[i] = bin[i] /\ json'[i] = json[i]

LEMMA SharedType ==
  ASSUME Shape, NEW n \in Nodes
  PROVE  /\ bin[n] \in [Hours -> Seq(Piece)] /\ json[n] \in [Hours -> Seq(Workloads)]
         /\ file[n] \in [Hours -> Seq(Piece)] /\ side[n] \in [Hours -> Seq(Workloads)]
         /\ thread[n].at \in Nat /\ thread[n].at <= now /\ now \in Nat
BY ClockType DEF Shape

LEMMA PublishBinFiles ==
  ASSUME Shape, NEW n \in Nodes, PublishBin(n)
  PROVE  /\ SharedBy(n) /\ json' = json
         /\ HourOf(now) - 1 \in Hours /\ Over(HourOf(now) - 1)
         /\ HourOf(now) > 0 /\ PhaseOf(now) >= 1 /\ side[n][HourOf(now) - 1] # <<>>
         /\ bin'[n][HourOf(now) - 1] = file[n][HourOf(now) - 1]
         /\ \A k \in Hours : k # HourOf(now) - 1 => bin'[n][k] = bin[n][k]
<1> DEFINE hour == HourOf(now) - 1
<1>1. /\ bin' = [bin EXCEPT ![n][hour] = file[n][hour]] /\ json' = json
      /\ HourOf(now) > 0 /\ PhaseOf(now) >= 1 /\ side[n][hour] # <<>>
  BY DEF PublishBin, PublishDue
<1>2. hour \in Hours /\ Over(hour)
  BY <1>1, ClockType, HourBefore
<1> HIDE DEF hour
<1>3. file[n][hour] \in Seq(Piece)
  BY <1>2, SharedType
<1>4. SharedBy(n) /\ bin'[n][hour] = file[n][hour] /\ \A k \in Hours : k # hour => bin'[n][k] = bin[n][k]
  BY <1>1, <1>2, <1>3 DEF Shape, SharedBy
<1> QED
  BY <1>1, <1>2, <1>4 DEF hour

LEMMA PublishSideFiles ==
  ASSUME Shape, NEW n \in Nodes, PublishSide(n)
  PROVE  \E hour \in Hours :
           /\ SharedBy(n) /\ AtSidecar(n, hour) /\ Over(hour) /\ side[n][hour] # <<>>
           /\ \A k \in Hours :
                \/ bin'[n][k] = bin[n][k] /\ json'[n][k] = IF k = hour THEN side[n][k] ELSE json[n][k]
                \/ bin'[n][k] = <<>> /\ json'[n][k] = <<>>
<1>1. PICK hour : hour = HourOf(thread[n].at) - 1
  OBVIOUS
<1>2. PICK names : names = [json[n] EXCEPT ![hour] = side[n][hour]]
  OBVIOUS
<1>3. /\ thread[n].step = "sidecar" /\ side[n][hour] # <<>> /\ Publishes(n, hour, bin[n], names)
  BY <1>1, <1>2 DEF PublishSide
<1>4. hour \in Hours /\ Over(hour)
  BY <1>1, <1>3, SharedType, HourBefore DEF Shape
<1>5. /\ names \in [Hours -> Seq(Workloads)]
      /\ \A k \in Hours : names[k] = IF k = hour THEN side[n][k] ELSE json[n][k]
  BY <1>2, <1>4, SharedType
<1>6. /\ SharedBy(n)
      /\ \A k \in Hours : \/ bin'[n][k] = bin[n][k] /\ json'[n][k] = names[k]
                          \/ bin'[n][k] = <<>> /\ json'[n][k] = <<>>
  BY <1>3, <1>5, SharedType, PublishesFiles DEF SharedBy
<1> QED
  BY <1>1, <1>3, <1>4, <1>5, <1>6 DEF AtSidecar

LEMMA PublishNothingFiles ==
  ASSUME Shape, NEW n \in Nodes, PublishNothing(n)
  PROVE  /\ SharedBy(n)
         /\ \A k \in Hours : \/ bin'[n][k] = bin[n][k] /\ json'[n][k] = json[n][k]
                             \/ bin'[n][k] = <<>> /\ json'[n][k] = <<>>
<1>1. Publishes(n, HourOf(now) - 1, bin[n], json[n])
  BY DEF PublishNothing
<1> QED
  BY <1>1, SharedType, PublishesFiles DEF SharedBy

LEMMA ShapeStarts == Init => Shape
<1> SUFFICES ASSUME Init PROVE Shape
  OBVIOUS
<1>1. 0 \in 0 .. 3 * LastHour + 2
  BY RecalibrationAssumption
<1>2. \A S : PerHour(<<>>) \in [Nodes -> [Hours -> Seq(S)]]
  BY DEF PerHour
<1>3. Idle \in [step : {"idle", "sidecar", "refresh", "build"}, at : Nat]
      /\ Idle.at = 0 /\ Idle.step = "idle"
  BY DEF Idle
<1>4. /\ now = 0 /\ scored = [w \in Windows |-> <<>>] /\ torn = {}
      /\ file = PerHour(<<>>) /\ side = PerHour(<<>>)
      /\ bin = PerHour(<<>>) /\ json = PerHour(<<>>)
      /\ thread = [n \in Nodes |-> Idle]
  BY DEF Init
<1>5. scored \in [Windows -> {<<>>} \cup ((0 .. N) \X Hours)]
  BY <1>4
<1>6. thread \in [Nodes -> [step : {"idle", "sidecar", "refresh", "build"}, at : Nat]]
  BY <1>3, <1>4
<1>7. \A n \in Nodes : thread[n].at = 0 /\ thread[n].step = "idle"
  BY <1>3, <1>4
<1>8. now \in 0 .. 3 * LastHour + 2 /\ torn \subseteq Nodes \X Hours
  BY <1>1, <1>4
<1>9. /\ file \in [Nodes -> [Hours -> Seq(Piece)]] /\ side \in [Nodes -> [Hours -> Seq(Workloads)]]
      /\ bin \in [Nodes -> [Hours -> Seq(Piece)]] /\ json \in [Nodes -> [Hours -> Seq(Workloads)]]
  BY <1>2, <1>4
<1>10. \A n \in Nodes : thread[n].at <= now /\ thread[n].step # "sidecar"
  BY <1>4, <1>7
<1> QED
  BY <1>5, <1>6, <1>8, <1>9, <1>10 DEF Shape

\* A thread that takes a step of the clock's past.
Steps == {"idle", "sidecar", "refresh", "build"}

LEMMA ThreadType ==
  ASSUME Shape, NEW n \in Nodes, NEW x \in [step : Steps, at : Nat],
         x.at <= now, x.step = "sidecar" => HourOf(x.at) > 0 /\ PhaseOf(x.at) >= 1,
         thread' = [thread EXCEPT ![n] = x]
  PROVE  /\ thread' \in [Nodes -> [step : Steps, at : Nat]]
         /\ \A i \in Nodes :
              /\ thread'[i].at <= now
              /\ thread'[i].step = "sidecar" => HourOf(thread'[i].at) > 0 /\ PhaseOf(thread'[i].at) >= 1
<1>1. thread \in [Nodes -> [step : Steps, at : Nat]]
  BY DEF Shape, Steps
<1>2. \A i \in Nodes : thread'[i] = IF i = n THEN x ELSE thread[i]
  BY <1>1
<1> QED
  BY <1>1, <1>2 DEF Shape

LEMMA IdleType ==
  ASSUME Shape
  PROVE  Idle \in [step : Steps, at : Nat] /\ Idle.at <= now /\ Idle.step = "idle"
BY ClockType DEF Idle, Steps

\* The thread's part of Shape.
ThreadShape ==
  /\ thread \in [Nodes -> [step : Steps, at : Nat]]
  /\ \A n \in Nodes :
       /\ thread[n].at <= now
       /\ thread[n].step = "sidecar" => HourOf(thread[n].at) > 0 /\ PhaseOf(thread[n].at) >= 1

LEMMA ThreadMoves ==
  ASSUME Shape, now' = now, NEW n \in Nodes, NEW s \in Steps, NEW t \in Nat, t <= now,
         s = "sidecar" => HourOf(t) > 0 /\ PhaseOf(t) >= 1,
         thread' = [thread EXCEPT ![n] = [step |-> s, at |-> t]]
  PROVE  ThreadShape'
<1> DEFINE x == [step |-> s, at |-> t]
<1>1. x \in [step : Steps, at : Nat] /\ x.step = s /\ x.at = t
  OBVIOUS
<1>2. thread' = [thread EXCEPT ![n] = x]
  OBVIOUS
<1> HIDE DEF x
<1> QED
  BY <1>1, <1>2, ThreadType DEF ThreadShape

LEMMA ThreadIdles ==
  ASSUME Shape, now' = now, NEW n \in Nodes, thread' = [thread EXCEPT ![n] = Idle]
  PROVE  ThreadShape'
BY IdleType, ThreadType DEF ThreadShape

LEMMA ThreadStays ==
  ASSUME Shape, now' \in Nat, now <= now', thread' = thread
  PROVE  ThreadShape'
<1>1. \A n \in Nodes : thread[n].at \in Nat /\ thread[n].at <= now'
  BY ClockType, SharedType
<1> QED
  BY <1>1 DEF Shape, ThreadShape, Steps

LEMMA ShapeByParts ==
  ASSUME now' \in 0 .. 3 * LastHour + 2,
         scored' \in [Windows -> {<<>>} \cup ((0 .. N) \X Hours)], torn' \subseteq Nodes \X Hours,
         file' \in [Nodes -> [Hours -> Seq(Piece)]], side' \in [Nodes -> [Hours -> Seq(Workloads)]],
         bin' \in [Nodes -> [Hours -> Seq(Piece)]], json' \in [Nodes -> [Hours -> Seq(Workloads)]],
         ThreadShape'
  PROVE  Shape'
BY DEF Shape, ThreadShape, Steps

LEMMA PublishKeepsShape == ASSUME Shape, NEW n \in Nodes, Thread(n) PROVE Shape'
<1>1. ASSUME ThreadShape', SharedBy(n), UNCHANGED <<now, scored, torn, file, side>> PROVE Shape'
  BY <1>1, ShapeByParts DEF Shape, SharedBy
<1>2. CASE PublishBin(n)
  <2>1. /\ thread' = [thread EXCEPT ![n] = [step |-> "sidecar", at |-> now]]
        /\ UNCHANGED <<now, scored, torn, file, side>>
    BY <1>2 DEF PublishBin, diskVars
  <2>2. PICK t \in Nat : t = now
    BY ClockType
  <2>3. HourOf(t) > 0 /\ PhaseOf(t) >= 1
    BY <1>2, <2>2, PublishBinFiles
  <2>4. ThreadShape'
    <3>1. /\ thread' = [thread EXCEPT ![n] = [step |-> "sidecar", at |-> t]]
          /\ now' = now /\ t <= now /\ "sidecar" \in Steps
      BY <2>1, <2>2, ClockType DEF Steps
    <3> QED
      BY <2>3, <3>1, ThreadMoves
  <2> QED
    BY <1>1, <1>2, <2>1, <2>4, PublishBinFiles
<1>3. ASSUME NEW t \in Nat, t <= now, AfterPublish(n, t), now' = now PROVE ThreadShape'
  <2>1. CASE n = Me
    <3>1. thread' = [thread EXCEPT ![n] = [step |-> "refresh", at |-> t]]
      BY <1>3, <2>1 DEF AfterPublish
    <3> QED
      BY <1>3, <3>1, ThreadMoves DEF Steps
  <2>2. CASE n # Me
    <3>1. thread' = [thread EXCEPT ![n] = Idle]
      BY <1>3, <2>2 DEF AfterPublish
    <3> QED
      BY <1>3, <3>1, ThreadIdles
  <2> QED
    BY <2>1, <2>2
<1>4. CASE PublishSide(n)
  <2>1. AfterPublish(n, thread[n].at) /\ UNCHANGED <<now, scored, torn, file, side>>
    BY <1>4 DEF PublishSide, diskVars
  <2>2. ThreadShape'
    BY <2>1, <1>3, SharedType
  <2> QED
    BY <1>1, <1>4, <2>1, <2>2, PublishSideFiles
<1>5. CASE PublishNothing(n)
  <2>1. AfterPublish(n, now) /\ UNCHANGED <<now, scored, torn, file, side>>
    BY <1>5 DEF PublishNothing, diskVars
  <2>2. ThreadShape'
    BY <2>1, <1>3, ClockType
  <2> QED
    BY <1>1, <1>5, <2>1, <2>2, PublishNothingFiles
<1>6. CASE PublishFails(n)
  <2>1. thread' = [thread EXCEPT ![n] = Idle] /\ UNCHANGED <<now, diskVars, sharedVars>>
    BY <1>6 DEF PublishFails
  <2>2. ThreadShape'
    BY <2>1, ThreadIdles
  <2> QED
    BY <2>1, <2>2, ShapeByParts DEF Shape, diskVars, sharedVars
<1> QED
  BY <1>2, <1>4, <1>5, <1>6 DEF Thread

LEMMA RefreshKeepsShape == ASSUME Shape, Refresh PROVE Shape'
<1>1. ASSUME ThreadShape', UNCHANGED <<now, diskVars, sharedVars>> PROVE Shape'
  BY <1>1, ShapeByParts DEF Shape, diskVars, sharedVars
<1>2. Me \in Nodes /\ now \in Nat
  BY HoursAreNumbers, ClockType
<1>3. CASE StartBuild
  <2>1. PICK t \in {now, thread[Me].at} :
          /\ thread' = [thread EXCEPT ![Me] = [step |-> "build", at |-> t]]
          /\ UNCHANGED <<now, diskVars, sharedVars>>
    BY <1>3 DEF StartBuild
  <2>2. t \in Nat /\ t <= now
    BY <1>2, SharedType
  <2> QED
    BY <1>1, <1>2, <2>1, <2>2, ThreadMoves DEF Steps
<1>4. CASE NoRefresh \/ FinishBuild \/ BuildFails
  <2>1. thread' = [thread EXCEPT ![Me] = Idle] /\ UNCHANGED <<now, diskVars, sharedVars>>
    BY <1>4 DEF NoRefresh, FinishBuild, BuildFails
  <2> QED
    BY <1>1, <1>2, <2>1, ThreadIdles
<1>5. CASE Read
  <2>1. UNCHANGED <<now, thread, diskVars, sharedVars>>
    BY <1>5 DEF Read
  <2> QED
    BY <1>1, <1>2, <2>1, ThreadStays
<1> QED
  BY <1>3, <1>4, <1>5 DEF Refresh

LEMMA FrameKeepsShape ==
  ASSUME Shape, NEW n \in Nodes, NEW w \in Windows, NEW h \in Hours,
         Frame(n, w, h) \/ TornFrame(n, w, h)
  PROVE  Shape'
<1>1. PICK count \in {1, 2} : Add(n, w, h, count)
  BY DEF Frame, TornFrame
<1>2. PICK index \in Nat \ {0} : Grows(n, w, h, index, count)
  BY <1>1, AddGrows
<1>3. n \in 0 .. N /\ 0 \in 0 .. N
  BY RecalibrationAssumption DEF Nodes
<1>4. /\ scored' \in [Windows -> {<<>>} \cup ((0 .. N) \X Hours)]
      /\ torn' \subseteq Nodes \X Hours /\ UNCHANGED <<now, bin, json>>
  <2>1. PICK m \in {n, 0} : scored' = [scored EXCEPT ![w] = <<m, h>>]
    BY DEF Frame, TornFrame
  <2>2. scored' \in [Windows -> {<<>>} \cup ((0 .. N) \X Hours)]
    <3>1. PICK x : x = <<m, h>>
      OBVIOUS
    <3>2. x \in {<<>>} \cup ((0 .. N) \X Hours)
      BY <1>3, <3>1
    <3> QED
      BY <2>1, <3>1, <3>2 DEF Shape
  <2>3. (torn' = torn \/ torn' = torn \cup {<<n, h>>}) /\ UNCHANGED <<now, bin, json>>
    BY DEF Frame, TornFrame, NewProcess, sharedVars
  <2> QED
    BY <2>2, <2>3 DEF Shape
<1>5. ThreadShape'
  BY ClockType, ThreadStays, ThreadIdles DEF Frame, TornFrame, NewProcess
<1> QED
  BY <1>2, <1>4, <1>5, ShapeByParts DEF Shape, Grows

LEMMA ShapeKept == Shape /\ [Next]_vars => Shape'
<1> SUFFICES ASSUME Shape, [Next]_vars PROVE Shape'
  OBVIOUS
<1>1. ASSUME now' \in 0 .. 3 * LastHour + 2, now <= now', UNCHANGED <<thread, diskVars, bin, json>>
      PROVE  Shape'
  BY <1>1, ThreadStays, ShapeByParts DEF Shape, diskVars
<1>2. CASE Advance
  <2>1. now' = now + 1 /\ HourOf(now + 1) <= LastHour
    BY <1>2 DEF Advance
  <2>2. now + 1 \in Nat
    BY ClockType
  <2>3. /\ now + 1 = 3 * HourOf(now + 1) + PhaseOf(now + 1) /\ HourOf(now + 1) \in Nat
        /\ PhaseOf(now + 1) \in {0, 1, 2}
    BY <2>2, Clock
  <2>4. now' \in 0 .. 3 * LastHour + 2 /\ now <= now'
    BY <2>1, <2>2, <2>3, RecalibrationAssumption, ClockType
  <2> QED
    BY <1>1, <1>2, <2>4 DEF Advance, sharedVars
<1>3. CASE Apply \/ WriteLogs \/ UNCHANGED vars
  <2>1. UNCHANGED <<now, thread, diskVars, bin, json>>
    BY <1>3 DEF Apply, WriteLogs, vars, sharedVars
  <2> QED
    BY <1>1, <2>1, ClockType DEF Shape
<1>4. ASSUME NEW n \in Nodes, (Stop /\ n = Me) \/ Killed(n) PROVE Shape'
  <2>1. thread' = [thread EXCEPT ![n] = Idle] /\ UNCHANGED <<now, scored, torn, file, side, bin, json>>
    BY <1>4 DEF Stop, Killed, NewProcess
  <2> QED
    BY <2>1, ThreadIdles, ShapeByParts DEF Shape
<1> QED
  BY <1>2, <1>3, <1>4, HoursAreNumbers, PublishKeepsShape, RefreshKeepsShape, FrameKeepsShape DEF Next
-------------------------------------------------------------------------------
(* The files of the buffer and of the shared directory. *)

LEMMA OwnNothing == \A scores, x : Own(scores, x, <<>>)
BY DEF Own

LEMMA FilesStart == Init => FileInv /\ SharedInv
<1> SUFFICES ASSUME Init PROVE FileInv /\ SharedInv
  OBVIOUS
<1>1. /\ \A n \in Nodes, h \in Hours :
           file[n][h] = <<>> /\ side[n][h] = <<>> /\ bin[n][h] = <<>> /\ json[n][h] = <<>>
      /\ \A w \in Windows : scored[w] = <<>>
  BY DEF Init, PerHour
<1>2. ASSUME NEW x, x # <<>> PROVE Exact(scored, x, <<>>, <<>>)
  <2>1. Len(<<>>) = 2 * 0 /\ 0 \in 0 .. Len(<<>>)
    OBVIOUS
  <2>2. \A w \in Windows : scored[w] # x
    BY <1>1, <1>2
  <2> QED
    BY <2>1, <2>2 DEF Exact
<1>3. \A n, h : <<n, h>> # <<>>
  OBVIOUS
<1> QED
  BY <1>1, <1>2, <1>3, OwnNothing DEF FileInv, FileAt, SharedInv, SharedAt

LEMMA PairAppended ==
  ASSUME NEW S, NEW s \in Seq(S), NEW t \in Seq(S), Len(t) = 2, NEW m \in Nat, Len(s) = 2 * m
  PROVE  /\ Len(s \o t) = 2 * m + 2
         /\ \A i \in 1 .. m : (s \o t)[2 * i - 1] = s[2 * i - 1] /\ (s \o t)[2 * i] = s[2 * i]
         /\ (s \o t)[2 * (m + 1) - 1] = t[1] /\ (s \o t)[2 * (m + 1)] = t[2]
<1>1. /\ Len(s \o t) = 2 * m + 2
      /\ \A i \in 1 .. 2 * m + 2 :
           (s \o t)[i] = IF i <= 2 * m THEN s[i] ELSE t[i - 2 * m]
  <2>1. /\ Len(s \o t) = Len(s) + Len(t)
        /\ \A i \in 1 .. Len(s) + Len(t) :
             (s \o t)[i] = IF i <= Len(s) THEN s[i] ELSE t[i - Len(s)]
    BY ConcatProperties
  <2> QED
    BY ONLY <2>1, Len(t) = 2, Len(s) = 2 * m
<1> DEFINE c == s \o t
<1> HIDE DEF c
<1>2. \A i \in 1 .. 2 * m + 2 : c[i] = IF i <= 2 * m THEN s[i] ELSE t[i - 2 * m]
  BY <1>1 DEF c
<1>3. ASSUME NEW i \in 1 .. m PROVE c[2 * i - 1] = s[2 * i - 1] /\ c[2 * i] = s[2 * i]
  <2>1. 2 * i - 1 \in 1 .. 2 * m /\ 2 * i \in 1 .. 2 * m
    OBVIOUS
  <2>2. \A j \in 1 .. 2 * m : c[j] = s[j]
    BY <1>2
  <2> QED
    BY <2>1, <2>2
<1>4. /\ 2 * (m + 1) - 1 = 2 * m + 1 /\ 2 * (m + 1) = 2 * m + 2
      /\ 2 * m + 1 \in 1 .. 2 * m + 2 /\ 2 * m + 2 \in 1 .. 2 * m + 2
  OBVIOUS
<1>5. c[2 * m + 1] = t[1] /\ c[2 * m + 2] = t[2]
  BY <1>2, <1>4
<1> QED
  BY <1>1, <1>3, <1>4, <1>5 DEF c

\* The place of a record added to an exact file.
LEMMA ExactGrows ==
  ASSUME Shape, NEW x, x # <<>>, NEW pieces \in Seq(Piece), NEW names, NEW more,
         NEW w \in Windows, NEW index \in Nat \ {0},
         Exact(scored, x, pieces, names), scored[w] = <<>>, scored' = [scored EXCEPT ![w] = x],
         index \in DOMAIN more, more[index] = WorkloadOf[w],
         \A i \in DOMAIN names : i \in DOMAIN more /\ more[i] = names[i]
  PROVE  Exact(scored', x, pieces \o Pieces(w, index), more)
<1> DEFINE all == pieces \o Pieces(w, index)
<1>1. PICK m \in 0 .. Len(pieces) :
    /\ Len(pieces) = 2 * m
    /\ \A i \in 1 .. m : Paired(scored, pieces[2 * i - 1], pieces[2 * i], names, x)
    /\ \A v \in Windows : scored[v] = x => \E i \in 1 .. m : pieces[2 * i][1] = v
    /\ \A i, j \in 1 .. m : pieces[2 * i][1] = pieces[2 * j][1] => i = j
  BY DEF Exact
<1>2. m \in Nat /\ Len(pieces) \in Nat
  BY LenProperties
<1>3. /\ Pieces(w, index) \in Seq(Piece) /\ Len(Pieces(w, index)) = 2
      /\ Pieces(w, index)[1] = <<w, index, 1>> /\ Pieces(w, index)[2] = <<w, index, 2>>
  BY DEF Pieces, Piece
<1>4. Pieces(w, index) \in Seq(Piece) /\ Len(Pieces(w, index)) = 2
  BY <1>3
<1>5. /\ Len(all) = 2 * m + 2
      /\ \A i \in 1 .. m : all[2 * i - 1] = pieces[2 * i - 1] /\ all[2 * i] = pieces[2 * i]
      /\ all[2 * (m + 1) - 1] = <<w, index, 1>> /\ all[2 * (m + 1)] = <<w, index, 2>>
  <2>1. PICK t \in Seq(Piece) :
          t = Pieces(w, index) /\ Len(t) = 2 /\ t[1] = <<w, index, 1>> /\ t[2] = <<w, index, 2>>
    BY <1>3
  <2>2. /\ Len(pieces \o t) = 2 * m + 2
        /\ \A i \in 1 .. m : /\ (pieces \o t)[2 * i - 1] = pieces[2 * i - 1]
                             /\ (pieces \o t)[2 * i] = pieces[2 * i]
        /\ (pieces \o t)[2 * (m + 1) - 1] = t[1] /\ (pieces \o t)[2 * (m + 1)] = t[2]
    BY ONLY <1>1, <1>2, <2>1, pieces \in Seq(Piece), PairAppended
  <2> QED
    BY ONLY <2>1, <2>2 DEF all
<1> HIDE DEF all
<1>6. \A v \in Windows : scored'[v] = IF v = w THEN x ELSE scored[v]
  BY DEF Shape
<1>7. \A i \in 1 .. m :
        /\ Paired(scored', all[2 * i - 1], all[2 * i], more, x)
        /\ all[2 * i][1] # w
  <2>1. ASSUME NEW p, NEW q, Paired(scored, p, q, names, x)
        PROVE  Paired(scored', p, q, more, x) /\ q[1] # w
    BY <1>6, <2>1 DEF Paired
  <2> QED
    BY <1>1, <1>5, <2>1
<1>8. Paired(scored', all[2 * (m + 1) - 1], all[2 * (m + 1)], more, x) /\ all[2 * (m + 1)][1] = w
  BY <1>5, <1>6 DEF Paired
<1>9. \A i \in 1 .. m + 1 : i \in 1 .. m \/ i = m + 1
  BY <1>2
<1>10. 1 .. m \subseteq 1 .. m + 1 /\ m + 1 \in 1 .. m + 1
  BY <1>2
<1>11. \A i \in 1 .. m + 1 : Paired(scored', all[2 * i - 1], all[2 * i], more, x)
  BY <1>7, <1>8, <1>9
<1>12. \A v \in Windows : scored'[v] = x => \E i \in 1 .. m + 1 : all[2 * i][1] = v
  <2>1. ASSUME NEW v \in Windows, scored'[v] = x, v # w PROVE \E i \in 1 .. m + 1 : all[2 * i][1] = v
    <3>1. PICK i \in 1 .. m : pieces[2 * i][1] = v
      BY <1>1, <1>6, <2>1
    <3> QED
      BY <1>5, <1>10, <3>1
  <2> QED
    BY <1>8, <1>10, <2>1
<1>13. \A i, j \in 1 .. m + 1 : all[2 * i][1] = all[2 * j][1] => i = j
  BY <1>1, <1>5, <1>7, <1>8, <1>9
<1>14. m + 1 \in 0 .. Len(all) /\ Len(all) = 2 * (m + 1)
  BY <1>2, <1>5
<1>15. Exact(scored', x, all, more)
  BY <1>11, <1>12, <1>13, <1>14 DEF Exact
<1> QED
  BY <1>15 DEF all

LEMMA FileAtStays ==
  ASSUME Shape, ScoreStep, NEW n \in Nodes, NEW h \in Hours, FileAt(n, h), Untouched(<<n, h>>),
         \/ file'[n][h] = file[n][h] /\ side'[n][h] = side[n][h]
         \/ file'[n][h] = <<>> /\ side'[n][h] = <<>> /\ Over(h)
  PROVE  FileAt(n, h)'
<1>1. Over(h) => Over(h)'
  BY OverStays, ClockType, HoursAreNumbers
<1>2. Own(scored', <<n, h>>, file'[n][h])
  BY OwnStays, OwnNothing DEF FileAt
<1>3. CASE file'[n][h] = file[n][h] /\ side'[n][h] = side[n][h] /\ <<n, h>> \notin torn
           /\ Exact(scored, <<n, h>>, file[n][h], side[n][h])
  <2>1. PICK p, names : p = file'[n][h] /\ names = side'[n][h]
    OBVIOUS
  <2>2. <<n, h>> # <<>> /\ Exact(scored, <<n, h>>, p, names)
    BY <1>3, <2>1
  <2>3. Exact(scored', <<n, h>>, p, names)
    BY <2>2, ExactStays
  <2> QED
    BY <1>2, <2>1, <2>3 DEF FileAt
<1>4. CASE <<n, h>> \in torn
  BY <1>2, <1>4 DEF FileAt, ScoreStep
<1>5. CASE side'[n][h] = <<>> /\ Over(h)
  BY <1>1, <1>2, <1>5 DEF FileAt
<1> QED
  BY <1>3, <1>4, <1>5 DEF FileAt

\* A frame, whole or torn: the file of its hour, and what becomes of others.
LEMMA FrameKeepsFiles ==
  ASSUME Shape, ScoreStep, FileInv, NEW n \in Nodes, NEW w \in Windows, NEW h \in Hours,
         Frame(n, w, h) \/ TornFrame(n, w, h)
  PROVE  FileInv'
<1>1. PICK count \in {1, 2} :
        /\ Add(n, w, h, count)
        /\ count = 2 => scored' = [scored EXCEPT ![w] = <<n, h>>]
        /\ count = 1 => scored' = [scored EXCEPT ![w] = <<0, h>>] /\ <<n, h>> \in torn'
  BY DEF Frame, TornFrame
<1>2. PICK index \in Nat \ {0} : Grows(n, w, h, index, count)
  BY <1>1, AddGrows
<1>3. ~Over(h) /\ scored[w] = <<>>
  BY ClockType, DueIsNotOver DEF Frame, TornFrame
<1>4. PICK m \in {n, 0} : scored' = [scored EXCEPT ![w] = <<m, h>>]
  BY <1>1
<1>5. \A v \in Windows : scored'[v] = IF v = w THEN <<m, h>> ELSE scored[v]
  BY <1>4 DEF Shape
<1>6. ASSUME NEW i \in Nodes, NEW k \in Hours, ~(i = n /\ k = h) PROVE FileAt(i, k)'
  <2>1. <<m, h>> # <<i, k>>
    BY <1>6, HoursAreNumbers, RecalibrationAssumption DEF Nodes
  <2>2. Untouched(<<i, k>>)
    BY <1>5, <2>1 DEF Untouched
  <2>3. FileAt(i, k)
    BY DEF FileInv
  <2> QED
    BY <1>2, <1>6, <2>2, <2>3, FileAtStays DEF Grows
<1>7. FileAt(n, h)'
  <2> DEFINE more == SubSeq(Pieces(w, index), 1, count)
  <2>1. /\ file'[n][h] = file[n][h] \o more /\ file[n][h] \in Seq(Piece)
        /\ Own(scored, <<n, h>>, file[n][h])
    BY <1>2, SharedType DEF Grows, FileInv, FileAt
  <2>2. /\ Pieces(w, index) \in Seq(Piece) /\ Len(Pieces(w, index)) = 2
        /\ Pieces(w, index)[1] = <<w, index, 1>> /\ Pieces(w, index)[2] = <<w, index, 2>>
    BY DEF Pieces, Piece
  <2>3. more \in Seq(Piece) /\ Len(more) = count /\ \A i \in 1 .. count : more[i] = Pieces(w, index)[i]
    <3>1. PICK t \in Seq(Piece) : t = Pieces(w, index) /\ Len(t) = 2
      BY <2>2
    <3>2. 1 \in Int /\ count \in Int /\ \A i \in 1 .. count : t[i] \in Piece
      <4>1. \A i \in 1 .. Len(t) : t[i] \in Piece
        BY ElementOfSeq
      <4>2. 1 .. count \subseteq 1 .. Len(t)
        BY <3>1
      <4> QED
        BY <4>1, <4>2
    <3>4. /\ SubSeq(t, 1, count) \in Seq(Piece)
          /\ Len(SubSeq(t, 1, count)) = IF 1 <= count THEN count - 1 + 1 ELSE 0
          /\ \A i \in 1 .. count - 1 + 1 : SubSeq(t, 1, count)[i] = t[1 + i - 1]
      BY ONLY <3>2, SubSeqProperties
    <3>5. 1 <= count /\ count - 1 + 1 = count /\ \A i \in 1 .. count : 1 + i - 1 = i
      OBVIOUS
    <3>6. SubSeq(t, 1, count) \in Seq(Piece) /\ Len(SubSeq(t, 1, count)) = count
          /\ \A i \in 1 .. count : SubSeq(t, 1, count)[i] = t[i]
      BY ONLY <3>4, <3>5
    <3> QED
      BY <3>1, <3>6
  <2> HIDE DEF more
  <2>4. Own(scored', <<n, h>>, file'[n][h])
    <3>1. PICK p \in Seq(Piece) : p = file[n][h]
      BY <2>1
    <3>2. /\ Len(p \o more) = Len(p) + count /\ p \o more \in Seq(Piece)
          /\ \A i \in 1 .. Len(p) + count :
               (p \o more)[i] = IF i <= Len(p) THEN p[i] ELSE more[i - Len(p)]
      BY <2>3, ConcatProperties
    <3>3. Own(scored', <<n, h>>, p)
      BY <2>1, <3>1, OwnStays
    <3>4. \A i \in 1 .. count : more[i][3] = 2 => more[i][1] \in Windows /\ scored'[more[i][1]] = <<n, h>>
      <4>1. CASE count = 1
        BY <2>2, <2>3, <4>1
      <4>2. CASE count = 2
        <5>1. scored'[w] = <<n, h>>
          BY <1>1, <4>2 DEF Shape
        <5>2. \A i \in 1 .. 2 : i = 1 \/ i = 2
          OBVIOUS
        <5> QED
          BY <2>2, <2>3, <4>2, <5>1, <5>2
      <4> QED
        BY <4>1, <4>2
    <3>5. ASSUME NEW i \in 1 .. Len(p) + count, (p \o more)[i][3] = 2
          PROVE  (p \o more)[i][1] \in Windows /\ scored'[(p \o more)[i][1]] = <<n, h>>
      <4>0. Len(p) \in Nat /\ DOMAIN p = 1 .. Len(p)
        BY <3>1, LenProperties
      <4>1. CASE i <= Len(p)
        <5>1. (p \o more)[i] = p[i] /\ i \in DOMAIN p
          BY <3>2, <4>0, <4>1
        <5> QED
          BY <3>3, <3>5, <5>1 DEF Own
      <4>2. CASE ~(i <= Len(p))
        <5>1. (p \o more)[i] = more[i - Len(p)] /\ i - Len(p) \in 1 .. count
          BY <3>2, <4>0, <4>2
        <5> QED
          BY <3>4, <3>5, <5>1
      <4> QED
        BY <4>1, <4>2
    <3>6. DOMAIN (p \o more) = 1 .. Len(p) + count
      BY <3>2, LenProperties
    <3>7. Own(scored', <<n, h>>, p \o more)
      BY <3>5, <3>6 DEF Own
    <3> QED
      BY <2>1, <3>1, <3>7
  <2>5. CASE <<n, h>> \notin torn' /\ count = 2
    <3>1. Exact(scored, <<n, h>>, file[n][h], side[n][h])
      BY <1>3, <2>5 DEF FileInv, FileAt, ScoreStep
    <3>0. PICK p \in Seq(Piece) : p = file[n][h]
      BY <2>1
    <3>2. PICK names, all, x : names = side[n][h] /\ all = side'[n][h] /\ x = <<n, h>>
      OBVIOUS
    <3>3. more = Pieces(w, index)
      BY <2>2, <2>3, <2>5
    <3>4. /\ x # <<>> /\ Exact(scored, x, p, names) /\ scored' = [scored EXCEPT ![w] = x]
          /\ index \in DOMAIN all /\ all[index] = WorkloadOf[w]
          /\ \A i \in DOMAIN names : i \in DOMAIN all /\ all[i] = names[i]
      BY <1>1, <1>2, <2>5, <3>0, <3>1, <3>2 DEF Grows
    <3>5. Exact(scored', x, p \o Pieces(w, index), all)
      BY <1>3, <3>4, ExactGrows
    <3>6. Exact(scored', <<n, h>>, file'[n][h], side'[n][h])
      BY <2>1, <3>0, <3>2, <3>3, <3>5
    <3> QED
      BY <2>4, <3>6 DEF FileAt
  <2> QED
    BY <1>1, <2>4, <2>5 DEF FileAt
<1> QED
  BY <1>6, <1>7 DEF FileInv

LEMMA FilesStay ==
  ASSUME Shape, ScoreStep, FileInv, UNCHANGED <<file, side, scored>>
  PROVE  FileInv'
<1>1. \A x : Untouched(x)
  BY DEF Untouched
<1>2. ASSUME NEW n \in Nodes, NEW h \in Hours PROVE FileAt(n, h)'
  BY <1>1, FileAtStays DEF FileInv
<1> QED
  BY <1>2 DEF FileInv

LEMMA SidecarIsOver ==
  ASSUME Shape, NEW n \in Nodes, NEW h, AtSidecar(n, h) PROVE Over(h)
<1>1. PICK t : t = thread[n].at
  OBVIOUS
<1>2. t \in Nat /\ t <= now /\ HourOf(t) > 0 /\ PhaseOf(t) >= 1 /\ h = HourOf(t) - 1
  BY <1>1, SharedType DEF AtSidecar, Shape
<1> QED
  BY <1>2, HourBefore

LEMMA SharedAtStays ==
  ASSUME Shape, ScoreStep, NEW n \in Nodes, NEW h \in Hours, SharedAt(n, h),
         bin'[n][h] = bin[n][h], json'[n][h] = json[n][h],
         AtSidecar(n, h)' => AtSidecar(n, h),
         Over(h) => side'[n][h] = side[n][h] \/ side'[n][h] = <<>>
  PROVE  SharedAt(n, h)'
<1> DEFINE x == <<n, h>>
<1>1. PICK p, old, new : p = bin[n][h] /\ old = side[n][h] /\ new = side'[n][h]
  OBVIOUS
<1>2. PICK names : names = json[n][h]
  OBVIOUS
<1>3. Own(scored', x, p)
  BY <1>1, OwnStays DEF SharedAt
<1>4. Over(h) => Over(h)'
  BY OverStays, ClockType, HoursAreNumbers
<1>5. ASSUME Over(h), x \notin torn'
      PROVE  /\ x \notin torn
             /\ \A q, s : Exact(scored, x, q, s) => Exact(scored', x, q, s)
  <2>1. Untouched(x) /\ x # <<>>
    BY <1>5, OverIsUntouched
  <2> HIDE DEF x
  <2> QED
    BY <1>5, <2>1, ExactStays DEF ScoreStep
<1> HIDE DEF x
<1>6. ASSUME x \notin torn', names # <<>>
      PROVE  Exact(scored', x, p, names) /\ (new # <<>> => names = new)
  <2>1. Over(h)
    BY <1>2, <1>6 DEF SharedAt
  <2> QED
    BY <1>1, <1>2, <1>5, <1>6, <2>1 DEF SharedAt, x
<1>7. ASSUME x \notin torn', AtSidecar(n, h)', new # <<>> PROVE Exact(scored', x, p, new)
  <2>1. Over(h) /\ AtSidecar(n, h)
    BY <1>7, SidecarIsOver
  <2> QED
    BY <1>1, <1>5, <1>7, <2>1 DEF SharedAt, x
<1>8. names # <<>> => Over(h)'
  BY <1>2, <1>4 DEF SharedAt
<1> QED
  BY <1>1, <1>2, <1>3, <1>6, <1>7, <1>8 DEF SharedAt, x

LEMMA SharedAtEmpty ==
  ASSUME NEW n, NEW h, bin'[n][h] = <<>>, json'[n][h] = <<>>, ~AtSidecar(n, h)'
  PROVE  SharedAt(n, h)'
BY OwnNothing DEF SharedAt

\* The files of an hour that is over only go away.
LEMMA BuffersStay ==
  ASSUME Shape, [Next]_vars, NEW n \in Nodes, NEW h \in Hours, Over(h)
  PROVE  \/ file'[n][h] = file[n][h] /\ side'[n][h] = side[n][h]
         \/ file'[n][h] = <<>> /\ side'[n][h] = <<>>
<1>1. CASE file' = file /\ side' = side
  BY <1>1
<1>2. ASSUME NEW i \in Nodes, NEW w \in Windows, NEW k \in Hours,
             Frame(i, w, k) \/ TornFrame(i, w, k)
      PROVE  \/ file'[n][h] = file[n][h] /\ side'[n][h] = side[n][h]
             \/ file'[n][h] = <<>> /\ side'[n][h] = <<>>
  <2>1. PICK count \in {1, 2} : Add(i, w, k, count)
    BY <1>2 DEF Frame, TornFrame
  <2>2. PICK index \in Nat \ {0} : Grows(i, w, k, index, count)
    BY <2>1, AddGrows
  <2>3. ~Over(k)
    BY <1>2, ClockType, DueIsNotOver DEF Frame, TornFrame
  <2> QED
    BY <2>2, <2>3 DEF Grows
<1>3. CASE Advance \/ Apply \/ Refresh \/ WriteLogs \/ Stop \/ UNCHANGED vars
  BY <1>1, <1>3 DEF Advance, Apply, Refresh, StartBuild, NoRefresh, Read, FinishBuild, BuildFails,
     WriteLogs, Stop, vars, diskVars
<1>4. ASSUME NEW i \in Nodes, Thread(i) \/ Killed(i) PROVE file' = file /\ side' = side
  BY <1>4 DEF Thread, PublishBin, PublishSide, PublishNothing, PublishFails, Killed, diskVars
<1> QED
  BY <1>1, <1>2, <1>3, <1>4 DEF Next

LEMMA SharedStays ==
  ASSUME Shape, [Next]_vars, SharedInv, UNCHANGED <<bin, json>>,
         \A n \in Nodes : thread'[n] = thread[n] \/ thread'[n].step # "sidecar"
  PROVE  SharedInv'
<1>1. ScoreStep
  BY EveryStepScores
<1>2. ASSUME NEW n \in Nodes, NEW h \in Hours PROVE SharedAt(n, h)'
  <2>1. AtSidecar(n, h)' => AtSidecar(n, h)
    BY DEF AtSidecar
  <2> QED
    BY <1>1, <2>1, BuffersStay, SharedAtStays DEF SharedInv
<1> QED
  BY <1>2 DEF SharedInv

LEMMA PublishKeepsShared ==
  ASSUME Shape, Next, FileInv, SharedInv, NEW n \in Nodes, Thread(n)
  PROVE  SharedInv'
<1>1. ScoreStep
  BY EveryStepScores
<1>2. thread' = [i \in Nodes |-> IF i = n THEN thread'[n] ELSE thread[i]]
      /\ UNCHANGED <<now, scored, torn, file, side>>
  BY DEF Shape, Thread, PublishBin, PublishSide, PublishNothing, PublishFails, AfterPublish, diskVars
<1>3. ASSUME NEW i \in Nodes, NEW h \in Hours, bin'[i][h] = bin[i][h], json'[i][h] = json[i][h],
             AtSidecar(i, h)' => AtSidecar(i, h)
      PROVE  SharedAt(i, h)'
  BY <1>1, <1>2, <1>3, SharedAtStays DEF SharedInv
<1>4. ASSUME NEW i \in Nodes, i # n, SharedBy(n), NEW h \in Hours PROVE SharedAt(i, h)'
  <2>1. AtSidecar(i, h)' => AtSidecar(i, h)
    BY <1>2, <1>4 DEF AtSidecar
  <2> QED
    BY <1>3, <1>4, <2>1 DEF SharedBy
<1>5. CASE PublishBin(n)
  <2>1. PICK hour \in Hours : hour = HourOf(now) - 1
    BY <1>5, PublishBinFiles
  <2>2. /\ SharedBy(n) /\ json' = json /\ Over(hour) /\ side[n][hour] # <<>>
        /\ bin'[n][hour] = file[n][hour] /\ \A k \in Hours : k # hour => bin'[n][k] = bin[n][k]
    BY <1>5, <2>1, PublishBinFiles
  <2>3. thread'[n].step = "sidecar" /\ thread'[n].at = now
    BY <1>5 DEF PublishBin, Shape
  <2>4. ASSUME NEW k \in Hours, k # hour PROVE SharedAt(n, k)'
    <3>1. ~AtSidecar(n, k)'
      BY <2>1, <2>3, <2>4 DEF AtSidecar
    <3> QED
      BY <1>3, <2>2, <2>4, <3>1
  <2>5. SharedAt(n, hour)'
    <3>1. FileAt(n, hour) /\ SharedAt(n, hour) /\ Over(hour)'
      BY <1>2, <2>2 DEF FileInv, SharedInv, Over
    <3>2. Own(scored', <<n, hour>>, bin'[n][hour])
      BY <1>2, <2>2, <3>1 DEF FileAt
    <3>3. ASSUME <<n, hour>> \notin torn
          PROVE  /\ Exact(scored, <<n, hour>>, file[n][hour], side[n][hour])
                 /\ json[n][hour] # <<>> => json[n][hour] = side[n][hour]
      BY <2>2, <3>1, <3>3 DEF FileAt, SharedAt
    <3> QED
      BY <1>2, <2>2, <3>1, <3>2, <3>3 DEF SharedAt
  <2> QED
    BY <1>4, <2>2, <2>4, <2>5 DEF SharedInv
<1>6. ASSUME ~(thread'[n].step = "sidecar") PROVE \A h \in Hours : ~AtSidecar(n, h)'
  BY <1>6 DEF AtSidecar
<1>7. CASE PublishSide(n)
  <2>1. PICK hour \in Hours :
           /\ SharedBy(n) /\ AtSidecar(n, hour) /\ Over(hour) /\ side[n][hour] # <<>>
           /\ \A k \in Hours :
                \/ bin'[n][k] = bin[n][k] /\ json'[n][k] = IF k = hour THEN side[n][k] ELSE json[n][k]
                \/ bin'[n][k] = <<>> /\ json'[n][k] = <<>>
    BY <1>7, PublishSideFiles
  <2>2. \A h \in Hours : ~AtSidecar(n, h)'
    <3>1. AfterPublish(n, thread[n].at)
      BY <1>7 DEF PublishSide
    <3> QED
      BY <1>6, <3>1 DEF AfterPublish, Idle, Shape
  <2>3. ASSUME NEW k \in Hours PROVE SharedAt(n, k)'
    <3>1. CASE bin'[n][k] = <<>> /\ json'[n][k] = <<>>
      BY <2>2, <3>1, SharedAtEmpty
    <3>2. CASE bin'[n][k] = bin[n][k] /\ json'[n][k] = json[n][k]
      BY <1>3, <2>2, <3>2
    <3>3. CASE k = hour /\ bin'[n][hour] = bin[n][hour] /\ json'[n][hour] = side[n][hour]
      <4>1. SharedAt(n, hour) /\ Over(hour)'
        BY <1>2, <2>1 DEF SharedInv, Over
      <4>2. <<n, hour>> \notin torn => Exact(scored, <<n, hour>>, bin[n][hour], side[n][hour])
        BY <2>1, <4>1 DEF SharedAt
      <4> QED
        BY <1>2, <2>2, <3>3, <4>1, <4>2 DEF SharedAt
    <3> QED
      BY <2>1, <3>1, <3>2, <3>3
  <2> QED
    BY <1>4, <2>1, <2>3 DEF SharedInv
<1>8. CASE PublishNothing(n)
  <2>1. \A h \in Hours : ~AtSidecar(n, h)'
    <3>1. AfterPublish(n, now)
      BY <1>8 DEF PublishNothing
    <3> QED
      BY <1>6, <3>1 DEF AfterPublish, Idle, Shape
  <2>2. ASSUME NEW k \in Hours PROVE SharedAt(n, k)'
    BY <1>3, <1>8, <2>1, PublishNothingFiles, SharedAtEmpty
  <2> QED
    BY <1>4, <1>8, <2>2, PublishNothingFiles DEF SharedInv
<1>9. CASE PublishFails(n)
  <2>1. thread' = [thread EXCEPT ![n] = Idle] /\ UNCHANGED <<bin, json>>
    BY <1>9 DEF PublishFails, sharedVars
  <2>2. \A i \in Nodes : thread'[i] = thread[i] \/ thread'[i].step # "sidecar"
    BY <2>1 DEF Idle, Shape
  <2> QED
    BY <2>1, <2>2, SharedStays
<1> QED
  BY <1>5, <1>7, <1>8, <1>9 DEF Thread

LEMMA FilesKept == Shape /\ FileInv /\ SharedInv /\ [Next]_vars => FileInv' /\ SharedInv'
<1> SUFFICES ASSUME Shape, FileInv, SharedInv, [Next]_vars PROVE FileInv' /\ SharedInv'
  OBVIOUS
<1>1. ScoreStep
  BY EveryStepScores
<1>2. CASE UNCHANGED vars \/ Advance \/ Apply \/ Refresh \/ WriteLogs
  <2>1. UNCHANGED <<file, side, scored, bin, json>>
    BY <1>2 DEF Advance, Apply, Refresh, StartBuild, NoRefresh, Read, FinishBuild, BuildFails,
       WriteLogs, vars, diskVars, sharedVars
  <2>2. \A n \in Nodes : thread'[n] = thread[n] \/ thread'[n].step # "sidecar"
    BY <1>2 DEF Advance, Apply, Refresh, StartBuild, NoRefresh, Read, FinishBuild, BuildFails,
       WriteLogs, vars, Idle, Shape
  <2> QED
    BY <1>1, <2>1, <2>2, FilesStay, SharedStays
<1>3. ASSUME NEW n \in Nodes, NEW kept, NewProcess(n, kept), [Next]_vars PROVE SharedInv'
  <2>1. UNCHANGED <<bin, json>> /\ thread' = [thread EXCEPT ![n] = Idle]
    BY <1>3 DEF NewProcess
  <2>2. \A i \in Nodes : thread'[i] = thread[i] \/ thread'[i].step # "sidecar"
    BY <2>1 DEF Idle, Shape
  <2> QED
    BY <2>1, <2>2, SharedStays
<1>4. ASSUME NEW n \in Nodes, (Stop /\ n = Me) \/ Killed(n) PROVE FileInv' /\ SharedInv'
  <2>1. UNCHANGED <<file, side, scored>> /\ \E kept : NewProcess(n, kept)
    BY <1>4 DEF Stop, Killed
  <2> QED
    BY <1>1, <1>3, <2>1, FilesStay
<1>5. ASSUME NEW n \in Nodes, NEW w \in Windows, NEW h \in Hours, TornFrame(n, w, h)
      PROVE  FileInv' /\ SharedInv'
  BY <1>1, <1>3, <1>5, FrameKeepsFiles DEF TornFrame
<1>6. ASSUME NEW n \in Nodes, NEW w \in Windows, NEW h \in Hours, Frame(n, w, h)
      PROVE  FileInv' /\ SharedInv'
  BY <1>1, <1>6, FrameKeepsFiles, SharedStays DEF Frame, sharedVars
<1>7. ASSUME NEW n \in Nodes, Thread(n), Next PROVE FileInv' /\ SharedInv'
  <2>1. UNCHANGED <<file, side, scored>>
    BY <1>7 DEF Thread, PublishBin, PublishSide, PublishNothing, PublishFails, diskVars
  <2> QED
    BY <1>1, <1>7, <2>1, FilesStay, PublishKeepsShared
<1> QED
  BY <1>2, <1>4, <1>5, <1>6, <1>7, HoursAreNumbers DEF Next

\* The records of a shared hour are its windows, unless one was torn.
LEMMA RecordsAreTheHour ==
  ASSUME Shape, NEW n \in Nodes, NEW h \in Hours, SharedAt(n, h), json[n][h] # <<>>, NEW noise
  PROVE  HourOK(scored, torn, Records(<<n, h>>, noise), <<n, h>>)
<1>1. PICK x, pieces, names, records :
        /\ x = <<n, h>> /\ pieces = bin[n][h] /\ names = json[n][h] /\ records = Records(x, noise)
  OBVIOUS
<1>2. pieces \in Seq(Piece) /\ x[1] = n /\ x[2] = h
  BY <1>1, SharedType
<1>3. records = UNION {{[key |-> x, at |-> i, workload |-> r[1], window |-> r[2]] :
                          r \in Resolve(pieces[2 * i - 1], pieces[2 * i], names, noise)} :
                       i \in 1 .. Len(pieces) \div 2}
  BY <1>1, <1>2 DEF Records
<1>4. \A r : r \in records <=>
        \E i \in 1 .. Len(pieces) \div 2 :
          \E s \in Resolve(pieces[2 * i - 1], pieces[2 * i], names, noise) :
            r = [key |-> x, at |-> i, workload |-> s[1], window |-> s[2]]
  BY <1>3
<1>5. Own(scored, x, pieces) /\ (x \notin torn => Exact(scored, x, pieces, names))
  BY <1>1 DEF SharedAt
<1>6. Len(pieces) \in Nat /\ DOMAIN pieces = 1 .. Len(pieces)
  BY <1>2, LenProperties
<1>7. ASSUME NEW r \in records
      PROVE  r.key = x /\ r.window \in Windows \cup {0} /\ (r.window # 0 => scored[r.window] = x)
  <2>0. PICK i \in 1 .. Len(pieces) \div 2 :
          \E s \in Resolve(pieces[2 * i - 1], pieces[2 * i], names, noise) :
            r = [key |-> x, at |-> i, workload |-> s[1], window |-> s[2]]
    BY <1>4
  <2>1. PICK s \in Resolve(pieces[2 * i - 1], pieces[2 * i], names, noise) :
          r = [key |-> x, at |-> i, workload |-> s[1], window |-> s[2]]
    BY <2>0
  <2>2. PICK p, q : p = pieces[2 * i - 1] /\ q = pieces[2 * i]
    OBVIOUS
  <2>3. 2 * i \in DOMAIN pieces
    BY <1>6
  <2>4. q[3] = 2 => q[1] \in Windows /\ scored[q[1]] = x
    BY <1>5, <2>2, <2>3 DEF Own
  <2>5. s[2] = 0 \/ (q[3] = 2 /\ s[2] = q[1])
    BY <2>2 DEF Resolve
  <2> QED
    BY <2>1, <2>4, <2>5
<1>8. ASSUME x \notin torn
      PROVE  /\ \A r \in records : r.window # 0 /\ r.workload = WorkloadOf[r.window]
             /\ \A w \in Windows : scored[w] = x => \E r \in records : r.window = w
             /\ \A r, s \in records : r.window = s.window => r = s
  <2>1. PICK m \in 0 .. Len(pieces) :
      /\ Len(pieces) = 2 * m
      /\ \A i \in 1 .. m : Paired(scored, pieces[2 * i - 1], pieces[2 * i], names, x)
      /\ \A v \in Windows : scored[v] = x => \E i \in 1 .. m : pieces[2 * i][1] = v
      /\ \A i, j \in 1 .. m : pieces[2 * i][1] = pieces[2 * j][1] => i = j
    BY <1>5, <1>8 DEF Exact
  <2>2. Len(pieces) \div 2 = m
    BY <1>6, <2>1
  <2> DEFINE record(i) == [key |-> x, at |-> i, workload |-> WorkloadOf[pieces[2 * i][1]],
                           window |-> pieces[2 * i][1]]
  <2>3. ASSUME NEW p, NEW q, Paired(scored, p, q, names, x)
        PROVE  Resolve(p, q, names, noise) = {<<WorkloadOf[q[1]], q[1]>>}
    BY <2>3 DEF Paired, Resolve
  <2>4. \A i \in 1 .. m : Resolve(pieces[2 * i - 1], pieces[2 * i], names, noise)
                           = {<<WorkloadOf[pieces[2 * i][1]], pieces[2 * i][1]>>}
    BY <2>1, <2>3
  <2>5. \A r : r \in records <=> \E i \in 1 .. m : r = record(i)
    <3>1. ASSUME NEW i \in 1 .. m, NEW r
          PROVE  (\E s \in Resolve(pieces[2 * i - 1], pieces[2 * i], names, noise) :
                    r = [key |-> x, at |-> i, workload |-> s[1], window |-> s[2]]) <=> r = record(i)
      <4>1. PICK w, k : w = pieces[2 * i][1] /\ k = WorkloadOf[w]
        OBVIOUS
      <4>2. Resolve(pieces[2 * i - 1], pieces[2 * i], names, noise) = {<<k, w>>}
        BY <2>4, <4>1
      <4>3. record(i) = [key |-> x, at |-> i, workload |-> k, window |-> w]
        BY <4>1
      <4>4. \A s : s \in {<<k, w>>} <=> s = <<k, w>>
        OBVIOUS
      <4> QED
        BY ONLY <4>2, <4>3, <4>4
    <3> DEFINE makes(i, r) == \E s \in Resolve(pieces[2 * i - 1], pieces[2 * i], names, noise) :
                                r = [key |-> x, at |-> i, workload |-> s[1], window |-> s[2]]
    <3>2. \A r : r \in records <=> \E i \in 1 .. m : makes(i, r)
      BY ONLY <1>4, <2>2
    <3>3. \A i \in 1 .. m : \A r : makes(i, r) <=> r = record(i)
      BY ONLY <3>1
    <3> HIDE DEF record, makes
    <3> QED
      BY ONLY <3>2, <3>3
  <2>6. \A i \in 1 .. m : pieces[2 * i][1] \in Windows
    BY <2>1 DEF Paired
  <2>7. \A w \in Windows : w # 0
    BY RecalibrationAssumption
  <2>8. /\ \A i \in 1 .. m : record(i).window = pieces[2 * i][1]
        /\ \A i \in 1 .. m : record(i).workload = WorkloadOf[pieces[2 * i][1]]
    OBVIOUS
  <2> HIDE DEF record
  <2>9. \A r \in records : r.window # 0 /\ r.workload = WorkloadOf[r.window]
    BY <2>5, <2>6, <2>7, <2>8
  <2>10. \A w \in Windows : scored[w] = x => \E r \in records : r.window = w
    <3>1. ASSUME NEW w \in Windows, scored[w] = x PROVE \E r \in records : r.window = w
      <4>1. PICK i \in 1 .. m : pieces[2 * i][1] = w
        BY <2>1, <3>1
      <4>2. record(i) \in records /\ record(i).window = w
        BY <2>5, <2>8, <4>1
      <4> QED
        BY <4>2
    <3> QED
      BY <3>1
  <2>11. \A r, s \in records : r.window = s.window => r = s
    BY <2>1, <2>5, <2>8
  <2> QED
    BY <2>9, <2>10, <2>11
<1> QED
  BY <1>1, <1>7, <1>8 DEF HourOK
-------------------------------------------------------------------------------
(* The build and its cache. *)

LEMMA KeyStays ==
  ASSUME Shape, ScoreStep, NEW x \in Nodes \X Int, NEW records, Over(x[2]),
         HourOK(scored, torn, records, x)
  PROVE  Over(x[2])' /\ HourOK(scored', torn', records, x)
<1>1. PICK n, h : x = <<n, h>> /\ h \in Int
  OBVIOUS
<1>2. Over(h)'
  BY <1>1, OverStays, ClockType
<1>3. HourOK(scored', torn', records, x)
  BY <1>1, HourOKStays
<1> QED
  BY <1>1, <1>2, <1>3

LEMMA KeysType == ASSUME NEW hour \in Nat PROVE Keys(hour) \subseteq Nodes \X Int
BY RecalibrationAssumption DEF Keys, Span

LEMMA PartsStay ==
  ASSUME Shape, ScoreStep, NEW hour \in Nat, Over(hour - 1), NEW read, read \subseteq Keys(hour),
         NEW parts, PartsOK(scored, torn, parts, read)
  PROVE  PartsOK(scored', torn', parts, read)
<1>1. ASSUME NEW x \in read PROVE HourOK(scored', torn', {r \in parts : r.key = x}, x)
  <2>1. PICK records : records = {r \in parts : r.key = x}
    OBVIOUS
  <2>2. HourOK(scored, torn, records, x)
    BY <2>1 DEF PartsOK
  <2>3. Over(x[2]) /\ x \in Nodes \X Int
    BY SpanIsSettled, ClockType, KeysType
  <2> QED
    BY <2>1, <2>2, <2>3, KeyStays
<1> QED
  BY <1>1 DEF PartsOK

LEMMA BuildOKStays ==
  ASSUME Shape, ScoreStep, NEW b, BuildOK(b)
  PROVE  BuildOK(b)'
<1> DEFINE read == HoursRead(b.hour, b.missing) \ b.todo
<1>1. b.hour \in Nat /\ Over(b.hour - 1) /\ PartsOK(scored, torn, b.parts, read)
  BY DEF BuildOK
<1>2. read \subseteq Keys(b.hour)
  BY DEF HoursRead
<1> HIDE DEF read
<1>3. PartsOK(scored', torn', b.parts, read)
  BY <1>1, <1>2, PartsStay
<1>4. Over(b.hour - 1)'
  BY <1>1, OverStays, ClockType
<1> QED
  BY <1>3, <1>4 DEF BuildOK, read

LEMMA CacheStays == ASSUME Shape, ScoreStep, CacheInv, cache' = cache PROVE CacheInv'
<1>1. ASSUME NEW x \in DOMAIN cache PROVE Over(x[2])' /\ HourOK(scored', torn', cache[x], x)
  <2>1. PICK records : records = cache[x]
    OBVIOUS
  <2>2. x \in Nodes \X Hours /\ Over(x[2]) /\ HourOK(scored, torn, records, x)
    BY <2>1 DEF CacheInv
  <2>3. x \in Nodes \X Int
    <3>1. Nodes \X Hours \subseteq Nodes \X Int
      <4>1. Hours \subseteq Int
        BY HoursAreNumbers
      <4> QED
        BY <4>1
    <3> QED
      BY <2>2, <3>1
  <2> QED
    BY <2>1, <2>2, <2>3, KeyStays
<1> QED
  BY <1>1 DEF CacheInv

LEMMA BuildStays ==
  ASSUME Shape, ScoreStep, BuildInv, cache' = cache,
         thread'[Me].step # "build" \/ (thread'[Me].step = thread[Me].step /\ build' = build)
  PROVE  BuildInv'
<1>1. CacheInv'
  BY CacheStays DEF BuildInv
<1>2. ASSUME thread'[Me].step = "build" PROVE BuildOK(build)'
  <2>1. PICK b : b = build /\ b = build'
    BY <1>2
  <2>2. BuildOK(b)
    BY <1>2, <2>1 DEF BuildInv
  <2>3. BuildOK(b)'
    BY <2>2, BuildOKStays
  <2> QED
    BY <2>1, <2>3 DEF BuildOK
<1> QED
  BY <1>1, <1>2 DEF BuildInv

\* An hour added to what was read.
LEMMA PartsGrow ==
  ASSUME NEW parts, NEW read, NEW records, NEW key, key \notin read,
         PartsOK(scored, torn, parts, read), HourOK(scored, torn, records, key)
  PROVE  PartsOK(scored, torn, parts \cup records, read \cup {key})
<1>1. /\ \A r \in parts : r.key \in read
      /\ \A r \in records : r.key = key
  BY DEF PartsOK, HourOK
<1>2. ASSUME NEW x \in read PROVE HourOK(scored, torn, {r \in parts \cup records : r.key = x}, x)
  <2>1. {r \in parts \cup records : r.key = x} = {r \in parts : r.key = x}
    BY <1>1
  <2> QED
    BY <2>1 DEF PartsOK
<1>3. HourOK(scored, torn, {r \in parts \cup records : r.key = key}, key)
  <2>1. {r \in parts \cup records : r.key = key} = records
    BY <1>1
  <2> QED
    BY <2>1
<1> QED
  BY <1>1, <1>2, <1>3 DEF PartsOK

LEMMA StartBuildKeepsBuild == ASSUME Shape, BuildInv, StartBuild PROVE BuildInv'
<1>1. PICK t \in {now, thread[Me].at} :
        /\ AtRefresh(t) /\ RefreshDue(t)
        /\ cache' = Restrict(cache, {x \in DOMAIN cache : x[2] >= HourOf(t) - WindowHours})
        /\ build' = [NoBuild EXCEPT !.hour = HourOf(t), !.todo = Keys(HourOf(t))]
        /\ UNCHANGED <<now, scored, torn>>
  BY DEF StartBuild, diskVars
<1>2. t \in Nat /\ t <= now /\ now \in Nat
  BY ClockType, SharedType, HoursAreNumbers
<1>3. PICK hour \in Nat : hour = HourOf(t) /\ t = 3 * hour + 2
  BY <1>1, <1>2, Clock DEF RefreshDue
<1>4. build' = [hour |-> hour, todo |-> Keys(hour), parts |-> {}, missing |-> {}]
  BY <1>1, <1>3 DEF NoBuild
<1>5. Over(hour - 1)
  BY <1>2, <1>3 DEF Over
<1>6. PartsOK(scored, torn, {}, {})
  BY DEF PartsOK
<1>7. BuildOK(build)'
  <2>1. HoursRead(hour, {}) \ Keys(hour) = {}
    BY DEF HoursRead
  <2>2. PartsOK(scored', torn', {}, HoursRead(hour, {}) \ Keys(hour))
    BY <1>1, <1>6, <2>1
  <2>3. Over(hour - 1)'
    BY <1>1, <1>5 DEF Over
  <2>4. PICK b : b = build' /\ b = [hour |-> hour, todo |-> Keys(hour), parts |-> {}, missing |-> {}]
    BY <1>4
  <2>5. BuildOK(b)'
    BY <2>2, <2>3, <2>4 DEF BuildOK
  <2> QED
    BY <2>4, <2>5 DEF BuildOK
<1>8. CacheInv'
  <2>1. /\ DOMAIN cache' \subseteq DOMAIN cache
        /\ \A x \in DOMAIN cache' : cache'[x] = cache[x]
    BY <1>1 DEF Restrict
  <2> QED
    BY <1>1, <2>1 DEF BuildInv, CacheInv, Over
<1> QED
  BY <1>7, <1>8 DEF BuildInv

\* One hour read: from the cache, missing, or from the shared copy.
LEMMA ReadKeepsBuild == ASSUME Shape, SharedInv, BuildInv, Read PROVE BuildInv'
<1>1. PICK key \in build.todo : ReadHour(key)
  BY DEF Read
<1>2. thread[Me].step = "build" /\ UNCHANGED <<thread, now, scored, torn>>
  BY DEF Read, diskVars
<1>3. PICK b : b = build /\ BuildOK(b)
  BY <1>2 DEF BuildInv
<1> DEFINE read == HoursRead(b.hour, b.missing) \ b.todo
<1>4. key \in b.todo /\ key \in Keys(b.hour) /\ key \notin b.missing /\ key \notin read
  BY <1>1, <1>3 DEF BuildOK
<1>5. PICK n \in Nodes, h \in Int : key = <<n, h>>
  BY <1>3, <1>4, KeysType DEF BuildOK
<1>6. Over(h)
  <2>1. h <= b.hour - 1 /\ b.hour \in Nat /\ Over(b.hour - 1)
    BY <1>3, <1>4, <1>5, RecalibrationAssumption DEF BuildOK, Keys, Span
  <2> QED
    BY <2>1, ClockType DEF Over
\* What the hour adds to the records.
<1>7. ASSUME NEW records, HourOK(scored, torn, records, key),
             build' = [build EXCEPT !.todo = @ \ {key}, !.parts = @ \cup records]
      PROVE  BuildOK(build)'
  <2>1. PICK c : /\ c = build'
                 /\ c = [hour |-> b.hour, todo |-> b.todo \ {key}, parts |-> b.parts \cup records,
                         missing |-> b.missing]
    BY <1>3, <1>7 DEF BuildOK
  <2>2. HoursRead(c.hour, c.missing) \ c.todo = read \cup {key}
    BY <1>4, <2>1 DEF HoursRead
  <2>3. PartsOK(scored, torn, b.parts, read)
    BY <1>3 DEF BuildOK
  <2>4. PartsOK(scored, torn, b.parts \cup records, read \cup {key})
    BY <1>4, <1>7, <2>3, PartsGrow
  <2>5. BuildOK(c)
    <3>1. /\ c.hour = b.hour /\ c.todo = b.todo \ {key} /\ c.parts = b.parts \cup records
          /\ c.missing = b.missing
          /\ c = [hour |-> c.hour, todo |-> c.todo, parts |-> c.parts, missing |-> c.missing]
      BY <2>1
    <3>2. PartsOK(scored, torn, c.parts, HoursRead(c.hour, c.missing) \ c.todo)
      BY <2>2, <2>4, <3>1
    <3>3. c.todo \subseteq Keys(c.hour) /\ c.missing \subseteq Keys(c.hour) \ c.todo
      BY <1>3, <1>4, <3>1 DEF BuildOK
    <3> QED
      BY <1>3, <3>1, <3>2, <3>3 DEF BuildOK
  <2>6. BuildOK(c)'
    BY <1>2, <2>5 DEF BuildOK, Over
  <2> QED
    BY <2>1, <2>6 DEF BuildOK
<1>8. CASE key \in DOMAIN cache /\ cache' = cache
           /\ build' = [build EXCEPT !.todo = @ \ {key}, !.parts = @ \cup cache[key]]
  <2>1. PICK records : records = cache[key]
    OBVIOUS
  <2>2. HourOK(scored, torn, records, key)
    BY <1>8, <2>1 DEF BuildInv, CacheInv
  <2>3. BuildOK(build)'
    BY <1>7, <1>8, <2>1, <2>2
  <2> QED
    BY <1>2, <1>8, <2>3 DEF BuildInv, CacheInv, Over
<1>9. CASE build' = [build EXCEPT !.todo = @ \ {key}, !.missing = @ \cup {key}] /\ cache' = cache
  <2>1. PICK c : /\ c = build'
                 /\ c = [hour |-> b.hour, todo |-> b.todo \ {key}, parts |-> b.parts,
                         missing |-> b.missing \cup {key}]
    BY <1>3, <1>9 DEF BuildOK
  <2>2. HoursRead(c.hour, c.missing) \ c.todo = read
    BY <1>4, <2>1 DEF HoursRead
  <2>3. BuildOK(c)
    <3>1. /\ c.hour = b.hour /\ c.todo = b.todo \ {key} /\ c.parts = b.parts
          /\ c.missing = b.missing \cup {key}
          /\ c = [hour |-> c.hour, todo |-> c.todo, parts |-> c.parts, missing |-> c.missing]
      BY <2>1
    <3>2. PartsOK(scored, torn, c.parts, HoursRead(c.hour, c.missing) \ c.todo)
      BY <1>3, <2>2, <3>1 DEF BuildOK
    <3>3. c.todo \subseteq Keys(c.hour) /\ c.missing \subseteq Keys(c.hour) \ c.todo
      BY <1>3, <1>4, <3>1 DEF BuildOK
    <3> QED
      BY <1>3, <3>1, <3>2, <3>3 DEF BuildOK
  <2>4. BuildOK(c)'
    BY <1>2, <2>3 DEF BuildOK, Over
  <2>5. BuildOK(build)'
    BY <2>1, <2>4 DEF BuildOK
  <2> QED
    BY <1>2, <1>9, <2>5 DEF BuildInv, CacheInv, Over
<1>10. CASE key \notin DOMAIN cache /\ Shared(key[1], key[2]) # <<>>
  <2>1. PICK noise : cache' = [x \in DOMAIN cache \cup {key} |->
                                IF x = key THEN Records(key, noise) ELSE cache[x]]
    BY <1>1, <1>10 DEF ReadHour
  <2>2. PICK records : records = Records(key, noise)
    OBVIOUS
  <2>3. build' = [build EXCEPT !.todo = @ \ {key}, !.parts = @ \cup cache'[key]]
    BY <1>1, <1>10 DEF ReadHour
  <2>4. /\ DOMAIN cache' = DOMAIN cache \cup {key} /\ cache'[key] = records
        /\ \A x \in DOMAIN cache : cache'[x] = cache[x]
    BY <1>10, <2>1, <2>2
  <2>5. h \in Hours /\ json[n][h] # <<>>
    BY <1>5, <1>10 DEF Shared
  <2>6. HourOK(scored, torn, records, key)
    BY <1>5, <2>2, <2>5, RecordsAreTheHour DEF SharedInv
  <2>7. BuildOK(build)'
    BY <1>7, <2>3, <2>4, <2>6
  <2>8. CacheInv'
    <3>1. key \in Nodes \X Hours /\ key[2] = h
      BY <1>5, <2>5
    <3> QED
      BY <1>2, <1>6, <2>4, <2>6, <3>1 DEF BuildInv, CacheInv, Over
  <2> QED
    BY <2>7, <2>8 DEF BuildInv
<1> QED
  BY <1>1, <1>8, <1>9, <1>10 DEF ReadHour

LEMMA BuildStarts == Init => BuildInv
BY HoursAreNumbers DEF Init, BuildInv, CacheInv, Idle

LEMMA BuildKept == Shape /\ SharedInv /\ BuildInv /\ [Next]_vars => BuildInv'
<1> SUFFICES ASSUME Shape, SharedInv, BuildInv, [Next]_vars PROVE BuildInv'
  OBVIOUS
<1>1. ScoreStep
  BY EveryStepScores
<1>2. Me \in Nodes /\ thread = [n \in Nodes |-> thread[n]]
  BY HoursAreNumbers DEF Shape
<1>3. CASE UNCHANGED <<thread, workVars>>
  BY <1>1, <1>3, BuildStays DEF workVars
<1>4. CASE Advance \/ Apply \/ WriteLogs \/ UNCHANGED vars
  BY <1>3, <1>4 DEF Advance, Apply, WriteLogs, vars
<1>5. ASSUME NEW n \in Nodes, NEW w \in Windows, NEW h \in Hours, Frame(n, w, h) PROVE BuildInv'
  BY <1>3, <1>5 DEF Frame
<1>6. ASSUME NEW n \in Nodes, NEW kept, NewProcess(n, kept) PROVE BuildInv'
  <2>1. CASE n = Me
    BY <1>2, <1>6, <2>1 DEF NewProcess, BuildInv, CacheInv, Idle
  <2>2. CASE n # Me
    <3>1. thread'[Me] = thread[Me] /\ UNCHANGED workVars
      BY <1>2, <1>6, <2>2 DEF NewProcess
    <3> QED
      BY <1>1, <3>1, BuildStays DEF workVars
  <2> QED
    BY <2>1, <2>2
<1>7. ASSUME NEW n \in Nodes, Stop \/ Killed(n) PROVE BuildInv'
  BY <1>2, <1>6, <1>7 DEF Stop, Killed
<1>8. ASSUME NEW n \in Nodes, NEW w \in Windows, NEW h \in Hours, TornFrame(n, w, h)
      PROVE  BuildInv'
  BY <1>6, <1>8 DEF TornFrame
<1>9. ASSUME NEW n \in Nodes, Thread(n) PROVE BuildInv'
  <2>1. UNCHANGED workVars
    BY <1>9 DEF Thread, PublishBin, PublishSide, PublishNothing, PublishFails
  <2>2. thread'[Me] = thread[Me] \/ thread'[Me].step # "build"
    BY <1>2, <1>9 DEF Thread, PublishBin, PublishSide, PublishNothing, PublishFails, AfterPublish, Idle
  <2> QED
    BY <1>1, <2>1, <2>2, BuildStays DEF workVars
<1>10. CASE Refresh
  <2>1. CASE NoRefresh \/ FinishBuild \/ BuildFails
    <3>1. thread'[Me] = Idle /\ cache' = cache
      BY <1>2, <2>1 DEF NoRefresh, FinishBuild, BuildFails, workVars
    <3> QED
      BY <1>1, <3>1, BuildStays DEF Idle
  <2> QED
    BY <1>10, <2>1, StartBuildKeepsBuild, ReadKeepsBuild DEF Refresh
<1> QED
  BY <1>4, <1>5, <1>7, <1>8, <1>9, <1>10, <1>2 DEF Next
-------------------------------------------------------------------------------
(* Calibrations and the arrays they become. *)

\* Counting the records of an exact hour gives each of its windows once.
LEMMA CalibrationOfHours ==
  ASSUME Shape, NEW read, NEW parts, PartsOK(scored, torn, parts, read), NEW k
  PROVE  /\ Calibration(parts, k) = [w \in Windows \cup {0} |-> Calibration(parts, k)[w]]
         /\ IsWholeHours(Calibration(parts, k), k, read)
<1> DEFINE own(w) == {r \in parts : r.workload = k /\ r.window = w}
<1>1. Calibration(parts, k) = [w \in Windows \cup {0} |-> Cardinality(own(w))]
  BY DEF Calibration
<1>2. PICK array : array = Calibration(parts, k)
  OBVIOUS
<1>3. \A w \in Windows \cup {0} : array[w] = Cardinality(own(w))
  BY <1>1, <1>2
<1>4. /\ \A r \in parts : r.key \in read
      /\ \A x \in read : HourOK(scored, torn, {r \in parts : r.key = x}, x)
  BY DEF PartsOK
<1>5. \A r \in parts : /\ r.window # 0 => scored[r.window] = r.key
                       /\ r.key \notin torn => r.window # 0 /\ r.workload = WorkloadOf[r.window]
  <2>1. ASSUME NEW r \in parts
        PROVE  /\ r.window # 0 => scored[r.window] = r.key
               /\ r.key \notin torn => r.window # 0 /\ r.workload = WorkloadOf[r.window]
    <3>1. PICK x : x = r.key
      OBVIOUS
    <3>2. HourOK(scored, torn, {s \in parts : s.key = x}, x) /\ r \in {s \in parts : s.key = x}
      BY <1>4, <3>1
    <3> QED
      BY <3>1, <3>2 DEF HourOK
  <2> QED
    BY <2>1
<1>6. Cardinality({}) = 0 /\ \A r : Cardinality({r}) = 1
  BY FS_EmptySet, FS_Singleton
<1>7. ASSUME NEW w \in Windows, scored[w] \notin read \cap torn
      PROVE  array[w] = IF scored[w] \in read /\ WorkloadOf[w] = k THEN 1 ELSE 0
  <2>1. w # 0
    BY RecalibrationAssumption
  <2>2. \A r \in own(w) : r \in parts /\ r.window = w /\ r.workload = k /\ r.key = scored[w] /\ r.key \in read
    BY <1>4, <1>5, <2>1
  <2>3. CASE scored[w] \in read /\ WorkloadOf[w] = k
    <3>1. PICK x : x = scored[w] /\ x \in read /\ x \notin torn
      BY <1>7, <2>3
    <3>2. HourOK(scored, torn, {r \in parts : r.key = x}, x)
      BY <1>4, <3>1
    <3>3. PICK r \in {s \in parts : s.key = x} : r.window = w
      BY <3>1, <3>2 DEF HourOK
    <3>4. r \in own(w)
      BY <1>5, <2>3, <3>1, <3>3
    <3>5. \A s \in own(w) : s = r
      <4>1. \A p, q \in {s \in parts : s.key = x} : p.window = q.window => p = q
        BY <3>1, <3>2 DEF HourOK
      <4> QED
        BY <2>2, <3>1, <3>3, <4>1
    <3>6. own(w) = {r}
      BY <3>4, <3>5
    <3> QED
      BY <1>3, <1>6, <2>3, <3>6
  <2>4. CASE ~(scored[w] \in read /\ WorkloadOf[w] = k)
    <3>1. ASSUME NEW r \in own(w) PROVE FALSE
      <4>1. r \in parts /\ r.window = w /\ r.workload = k /\ r.key = scored[w] /\ r.key \in read
        BY <2>2, <3>1
      <4>2. r.key \notin torn
        BY <1>7, <4>1
      <4> QED
        BY <1>5, <2>4, <4>1, <4>2
    <3>2. own(w) = {}
      BY <3>1
    <3> QED
      BY <1>3, <1>6, <2>4, <3>2
  <2> QED
    BY <2>3, <2>4
<1>8. ASSUME read \cap torn = {} PROVE array[0] = 0
  <2>1. own(0) = {}
    BY <1>4, <1>5, <1>8
  <2> QED
    BY <1>3, <1>6, <2>1
<1>9. IsWholeHours(array, k, read)
  BY <1>7, <1>8 DEF IsWholeHours
<1>10. array = [w \in Windows \cup {0} |-> array[w]]
  BY <1>1, <1>2
<1> QED
  BY <1>2, <1>9, <1>10

\* What a calibration promises, in the words of the property.
LEMMA StandsIsWhole ==
  ASSUME now \in Nat, NEW array, NEW k, NEW row, row.hour \in Nat
  PROVE  Stands(Scores, array, k, row) <=>
           /\ Over(row.hour - 1) /\ array = [w \in Windows \cup {0} |-> array[w]]
           /\ IsWholeHours(array, k, HoursRead(row.hour, row.missing))
<1>1. Over(row.hour - 1) <=> now >= 3 * row.hour + 1
  BY DEF Over
<1> QED
  BY <1>1 DEF Stands, Scores, IsWholeHours

LEMMA ReadyStays == ASSUME Shape, ScoreStep, ReadyInv, ready' = ready PROVE ReadyInv'
<1>1. ASSUME NEW i \in 1 .. Len(ready), NEW k \in Workloads
      PROVE  Stands(Scores', ready[i].cal[k], k, ready[i])
  BY StandsStays DEF ReadyInv
<1> QED
  BY <1>1 DEF ReadyInv

\* A finished build is what its entry says.
LEMMA FinishKeepsReady ==
  ASSUME Shape, RowInv, BuildInv, ReadyInv, FinishBuild
  PROVE  ReadyInv'
<1>1. PICK entry :
        /\ entry = [hour |-> build.hour, missing |-> build.missing,
                    cal |-> [k \in Workloads |-> Calibration(build.parts, k)]]
        /\ ready' = Append(ready, entry)
  BY DEF FinishBuild, Put
<1>2. thread[Me].step = "build" /\ build.todo = {} /\ UNCHANGED <<now, scored, torn>>
  BY DEF FinishBuild, diskVars
<1>3. BuildOK(build)
  BY <1>2 DEF BuildInv
<1>4. HoursRead(build.hour, build.missing) \ build.todo = HoursRead(entry.hour, entry.missing)
  BY <1>1, <1>2
<1>5. ASSUME NEW k \in Workloads PROVE Stands(Scores, entry.cal[k], k, entry)
  <2>1. entry.cal[k] = Calibration(build.parts, k) /\ entry.hour = build.hour
    BY <1>1
  <2>2. PICK read, parts : read = HoursRead(entry.hour, entry.missing) /\ parts = build.parts
    OBVIOUS
  <2>3. PartsOK(scored, torn, parts, read)
    BY <1>3, <1>4, <2>2 DEF BuildOK
  <2>4. /\ Calibration(parts, k) = [w \in Windows \cup {0} |-> Calibration(parts, k)[w]]
        /\ IsWholeHours(Calibration(parts, k), k, read)
    BY <2>3, CalibrationOfHours
  <2>5. PICK array : array = entry.cal[k]
    OBVIOUS
  <2>6. /\ entry.hour \in Nat /\ Over(entry.hour - 1)
        /\ array = [w \in Windows \cup {0} |-> array[w]]
        /\ IsWholeHours(array, k, HoursRead(entry.hour, entry.missing))
    BY <1>3, <2>1, <2>2, <2>4, <2>5 DEF BuildOK
  <2>7. Stands(Scores, array, k, entry)
    BY <2>6, ClockType, StandsIsWhole
  <2> QED
    BY <2>5, <2>7
<1>6. /\ Len(ready') = Len(ready) + 1 /\ Len(ready) \in Nat
      /\ ready'[Len(ready) + 1] = entry
      /\ \A i \in 1 .. Len(ready) : ready'[i] = ready[i]
  <2>1. PICK S : ready \in Seq(S)
    BY DEF RowInv, IsList
  <2>2. ready \in Seq(S \cup {entry})
    BY <2>1, SeqMonotonic
  <2> QED
    BY <1>1, <2>2, AppendProperties, LenProperties
<1>7. Scores' = Scores
  BY <1>2 DEF Scores
<1>8. ASSUME NEW i \in 1 .. Len(ready'), NEW k \in Workloads
      PROVE  Stands(Scores', ready'[i].cal[k], k, ready'[i])
  BY <1>5, <1>6, <1>7, <1>8 DEF ReadyInv
<1> QED
  BY <1>8 DEF ReadyInv

LEMMA ApplyKeepsReady == ASSUME Shape, RowInv, ReadyInv, Apply PROVE ReadyInv'
<1>1. ready # <<>> /\ ready' = Tail(ready) /\ UNCHANGED <<now, scored, torn>>
  BY DEF Apply, diskVars
<1>2. /\ Len(ready') = Len(ready) - 1 /\ Len(ready) \in Nat
      /\ \A i \in 1 .. Len(ready) - 1 : ready'[i] = ready[i + 1]
  <2>1. PICK S : ready \in Seq(S)
    BY DEF RowInv, IsList
  <2> QED
    BY <1>1, <2>1, HeadTailProperties, LenProperties
<1>3. Scores' = Scores
  BY <1>1 DEF Scores
<1>4. ASSUME NEW i \in 1 .. Len(ready'), NEW k \in Workloads
      PROVE  Stands(Scores', ready'[i].cal[k], k, ready'[i])
  <2>1. i + 1 \in 1 .. Len(ready) /\ ready'[i] = ready[i + 1]
    BY <1>2
  <2> QED
    BY <1>3, <2>1 DEF ReadyInv
<1> QED
  BY <1>4 DEF ReadyInv

LEMMA ReadyKept ==
  Shape /\ RowInv /\ BuildInv /\ ReadyInv /\ [Next]_vars => ReadyInv'
<1> SUFFICES ASSUME Shape, RowInv, BuildInv, ReadyInv, [Next]_vars PROVE ReadyInv'
  OBVIOUS
<1>1. CASE ready' = ready
  BY <1>1, EveryStepScores, ReadyStays
<1>2. CASE Advance \/ WriteLogs \/ UNCHANGED vars
  BY <1>1, <1>2 DEF Advance, WriteLogs, vars
<1>3. ASSUME NEW n \in Nodes, NEW kept, NewProcess(n, kept) PROVE ReadyInv'
  <2>1. CASE n = Me
    <3>1. ready' = <<>>
      BY <1>3, <2>1 DEF NewProcess
    <3> QED
      BY <3>1, ListEmpty DEF ReadyInv
  <2>2. CASE n # Me
    BY <1>1, <1>3, <2>2 DEF NewProcess
  <2> QED
    BY <2>1, <2>2
<1>4. ASSUME NEW n \in Nodes, Stop \/ Killed(n) PROVE ReadyInv'
  BY <1>3, <1>4, HoursAreNumbers DEF Stop, Killed
<1>5. ASSUME NEW n \in Nodes, NEW w \in Windows, NEW h \in Hours, TornFrame(n, w, h)
      PROVE  ReadyInv'
  BY <1>3, <1>5 DEF TornFrame
<1>6. ASSUME NEW n \in Nodes, NEW w \in Windows, NEW h \in Hours, Frame(n, w, h)
      PROVE  ReadyInv'
  BY <1>1, <1>6 DEF Frame
<1>7. ASSUME NEW n \in Nodes, Thread(n) PROVE ReadyInv'
  BY <1>1, <1>7 DEF Thread, PublishBin, PublishSide, PublishNothing, PublishFails
<1>8. CASE StartBuild \/ NoRefresh \/ Read \/ BuildFails
  BY <1>1, <1>8 DEF StartBuild, NoRefresh, Read, BuildFails
<1> QED
  BY <1>2, <1>4, <1>5, <1>6, <1>7, <1>8, HoursAreNumbers, FinishKeepsReady, ApplyKeepsReady
     DEF Next, Refresh
-------------------------------------------------------------------------------
(* What a finished build holds, for good. *)

LEMMA ReadyStarts == Init => ReadyInv
<1> SUFFICES ASSUME Init PROVE ReadyInv
  OBVIOUS
<1>1. ready = <<>>
  BY DEF Init
<1> QED
  BY <1>1, ListEmpty DEF ReadyInv

HourInv == Shape /\ RowInv /\ FileInv /\ SharedInv /\ BuildInv /\ ReadyInv

LEMMA HourInvHolds == Spec => []HourInv
<1>1. Init => HourInv
  BY ShapeStarts, RowsStart, FilesStart, BuildStarts, ReadyStarts DEF HourInv
<1>2. HourInv /\ [Next]_vars => HourInv'
  BY ShapeKept, RowsKept, FilesKept, BuildKept, ReadyKept DEF HourInv
<1> QED
  BY <1>1, <1>2, PTL DEF Spec

\* A calibration on its way to the loop holds every window of the hours it was
\* read from exactly once, and none of another hour or workload, in spite of
\* writes, publishes, removals and builds under way at once; a torn record
\* damages its own hour only.
THEOREM CalibrationsAreWholeHours == Spec => []CalibrationIsWholeHours
<1>1. HourInv => CalibrationIsWholeHours
  <2> SUFFICES ASSUME HourInv PROVE CalibrationIsWholeHours
    OBVIOUS
  <2>1. Shape /\ RowInv /\ ReadyInv
    BY DEF HourInv
  <2>2. DOMAIN ready = 1 .. Len(ready)
    BY <2>1, LenProperties DEF RowInv, IsList
  <2>3. now \in Nat
    BY <2>1, ClockType
  <2>4. ASSUME NEW i \in DOMAIN ready, NEW k \in Workloads
        PROVE  IsWholeHours(ready[i].cal[k], k, HoursRead(ready[i].hour, ready[i].missing))
    <3>1. PICK row, array : row = ready[i] /\ array = ready[i].cal[k]
      OBVIOUS
    <3>2. Stands(Scores, array, k, row)
      BY <2>1, <2>2, <3>1 DEF ReadyInv
    <3>3. row.hour \in Nat
      BY <3>2 DEF Stands
    <3> QED
      BY <2>3, <3>1, <3>2, <3>3, StandsIsWhole
  <2> QED
    BY <2>4 DEF CalibrationIsWholeHours
<1> QED
  BY <1>1, HourInvHolds, PTL
-------------------------------------------------------------------------------
(* The rows behind the arrays of a decision row. *)

\* One more row.
Extends(rows, more, row) ==
  /\ Len(rows) \in Nat /\ Len(more) = Len(rows) + 1 /\ more[Len(rows) + 1] = row
  /\ \A i \in 1 .. Len(rows) : more[i] = rows[i]

LEMMA RowsExtend ==
  ASSUME NEW a, NEW b, NEW x, IsList(a), IsList(b)
  PROVE  Extends(a \o b, a \o Append(b, x), x)
<1>1. PICK S : a \in Seq(S)
  BY DEF IsList
<1>2. PICK T : b \in Seq(T)
  BY DEF IsList
<1>3. PICK U : U = S \cup T \cup {x}
  OBVIOUS
<1>4. a \in Seq(U) /\ b \in Seq(U) /\ x \in U
  BY <1>1, <1>2, <1>3, SeqMonotonic
<1>5. PICK c \in Seq(U) : c = Append(b, x)
  BY <1>4, AppendProperties
<1>6. /\ Len(c) = Len(b) + 1 /\ c[Len(b) + 1] = x
      /\ \A i \in 1 .. Len(b) : c[i] = b[i]
  BY <1>4, <1>5, AppendProperties
<1>7. /\ Len(a \o b) = Len(a) + Len(b)
      /\ \A i \in 1 .. Len(a) + Len(b) :
           (a \o b)[i] = IF i <= Len(a) THEN a[i] ELSE b[i - Len(a)]
  BY <1>4, ConcatProperties
<1>8. /\ Len(a \o c) = Len(a) + Len(c)
      /\ \A i \in 1 .. Len(a) + Len(c) :
           (a \o c)[i] = IF i <= Len(a) THEN a[i] ELSE c[i - Len(a)]
  BY <1>4, ConcatProperties
<1>9. Len(a) \in Nat /\ Len(b) \in Nat
  BY <1>4, LenProperties
<1>10. PICK r, m : r = a \o b /\ m = a \o c
  OBVIOUS
<1>11. Extends(r, m, x)
  BY <1>6, <1>7, <1>8, <1>9, <1>10 DEF Extends
<1> QED
  BY <1>5, <1>10, <1>11

LEMMA RowsType == RowInv => Len(Rows) \in Nat /\ Len(log) \in Nat /\ born \in Nat
BY ListConcat, ListLength DEF RowInv, Rows

\* A row of a later epoch, or of no epoch, is behind no decision so far.
LEMMA EntriesStay ==
  ASSUME NEW first \in Nat, NEW rows, NEW more, NEW row, Extends(rows, more, row), NEW k, NEW upTo,
         ~(row.event = "applied" /\ row.epoch <= upTo /\ k \in row.swapped)
  PROVE  /\ EntriesAfter(first, more, k, upTo) = EntriesAfter(first, rows, k, upTo)
         /\ \A i \in EntriesAfter(first, rows, k, upTo) : more[i] = rows[i]
<1>1. /\ Len(rows) \in Nat /\ Len(more) = Len(rows) + 1 /\ more[Len(rows) + 1] = row
      /\ \A i \in 1 .. Len(rows) : more[i] = rows[i]
  BY DEF Extends
<1>2. \A i \in first + 1 .. Len(rows) : i \in 1 .. Len(rows) /\ i \in first + 1 .. Len(more)
  BY <1>1
<1>3. \A i \in first + 1 .. Len(more) : i \in first + 1 .. Len(rows) \/ i = Len(rows) + 1
  BY <1>1
<1> QED
  BY <1>1, <1>2, <1>3 DEF EntriesAfter

LEMMA StandsForStays ==
  ASSUME NEW scores, NEW first, NEW rows, NEW more, NEW u, NEW v, NEW k,
         StandsFor(scores, first, rows, u, k), v.arrays[k] = u.arrays[k],
         EntriesAfter(first, more, k, v.epoch) = EntriesAfter(first, rows, k, u.epoch),
         \A i \in EntriesAfter(first, rows, k, u.epoch) : more[i] = rows[i]
  PROVE  StandsFor(scores, first, more, v, k)
<1>1. PICK entries : /\ entries = EntriesAfter(first, rows, k, u.epoch)
                     /\ entries = EntriesAfter(first, more, k, v.epoch)
  OBVIOUS
<1>2. PICK array : array = u.arrays[k] /\ array = v.arrays[k]
  OBVIOUS
<1>3. /\ entries = {} => array = Bundle[k]
      /\ \A i \in entries : (\A j \in entries : j <= i) => Stands(scores, array, k, rows[i])
  BY <1>1, <1>2 DEF StandsFor
<1>4. \A i \in entries : (\A j \in entries : j <= i) => Stands(scores, array, k, more[i])
  BY <1>1, <1>3
<1> QED
  BY <1>1, <1>2, <1>3, <1>4 DEF StandsFor

LEMMA StandsForLater ==
  ASSUME Shape, ScoreStep, NEW first, NEW rows, NEW u, NEW k, StandsFor(Scores, first, rows, u, k)
  PROVE  StandsFor(Scores', first, rows, u, k)
<1>1. PICK entries : entries = EntriesAfter(first, rows, k, u.epoch)
  OBVIOUS
<1>2. PICK array : array = u.arrays[k]
  OBVIOUS
<1>3. /\ entries = {} => array = Bundle[k]
      /\ \A i \in entries : (\A j \in entries : j <= i) => Stands(Scores, array, k, rows[i])
  BY <1>1, <1>2 DEF StandsFor
<1>4. \A i : Stands(Scores, array, k, rows[i]) => Stands(Scores', array, k, rows[i])
  BY StandsStays
<1> QED
  BY <1>1, <1>2, <1>3, <1>4 DEF StandsFor

LEMMA UsedStarts == Init => UsedInv
<1> SUFFICES ASSUME Init PROVE UsedInv
  OBVIOUS
<1>1. /\ arrays = Bundle /\ epoch = 0 /\ life = 0 /\ born = 0 /\ log = <<>> /\ logs = <<>>
      /\ used = {[life |-> 0, epoch |-> 0, arrays |-> Bundle]}
  BY DEF Init
<1>2. Rows = <<>>
  <2>1. <<>> \in Seq({})
    BY EmptySeq
  <2> QED
    BY <1>1, <2>1, ConcatEmptySeq DEF Rows
<1>3. \A i \in born + 1 .. Len(Rows) : FALSE
  BY <1>1, <1>2, ListEmpty
<1>4. \A k, upTo : EntriesAfter(born, Rows, k, upTo) = {}
  BY <1>3 DEF EntriesAfter
<1>5. \A u \in used : u.arrays = Bundle
  BY <1>1
<1> QED
  BY <1>1, <1>3, <1>4, <1>5 DEF UsedInv, EpochsUpTo, StandsFor

\* Steps that add no row and swap nothing.
LEMMA UsedStays ==
  ASSUME Shape, ScoreStep, UsedInv, UNCHANGED <<life, epoch, arrays, used, born, Rows, lost>>
  PROVE  UsedInv'
<1>1. ASSUME ~lost, NEW u \in used, NEW k \in Workloads, u.life = life
      PROVE  StandsFor(Scores', born, Rows, u, k)
  BY <1>1, StandsForLater DEF UsedInv
<1> QED
  BY <1>1 DEF UsedInv

LEMMA FailureKeepsUsed ==
  ASSUME Shape, ScoreStep, RowInv, UsedInv, logs' = Append(logs, Failure),
         UNCHANGED <<life, epoch, arrays, used, born, log, lost>>
  PROVE  UsedInv'
<1>1. Extends(Rows, Rows', Failure)
  BY RowsExtend DEF Rows, RowInv
<1>2. Failure.event # "applied"
  BY DEF Failure
<1>3. PICK rows, more : rows = Rows /\ more = Rows'
  OBVIOUS
<1>4. born \in Nat /\ Len(rows) \in Nat
  BY <1>3, RowsType
<1>5. ASSUME ~lost, NEW u \in used, NEW k \in Workloads, u.life = life
      PROVE  StandsFor(Scores', born, more, u, k)
  <2>1. StandsFor(Scores, born, rows, u, k)
    BY <1>3, <1>5 DEF UsedInv
  <2>2. StandsFor(Scores', born, rows, u, k)
    BY <2>1, StandsForLater
  <2>3. /\ EntriesAfter(born, more, k, u.epoch) = EntriesAfter(born, rows, k, u.epoch)
        /\ \A i \in EntriesAfter(born, rows, k, u.epoch) : more[i] = rows[i]
    BY <1>1, <1>2, <1>3, <1>4, EntriesStay
  <2> QED
    BY <2>2, <2>3, StandsForStays
<1>6. ASSUME ~lost PROVE EpochsUpTo(born, more, epoch)
  <2>1. EpochsUpTo(born, rows, epoch)
    BY <1>3, <1>6 DEF UsedInv
  <2>2. /\ Len(more) = Len(rows) + 1 /\ more[Len(rows) + 1] = Failure
        /\ \A i \in 1 .. Len(rows) : more[i] = rows[i]
    BY <1>1, <1>3 DEF Extends
  <2>3. ASSUME NEW i \in born + 1 .. Len(more), more[i].event = "applied"
        PROVE  more[i].epoch \in Nat /\ more[i].epoch <= epoch
    <3>1. i # Len(rows) + 1
      BY <1>2, <2>2, <2>3
    <3>2. i \in born + 1 .. Len(rows) /\ i \in 1 .. Len(rows)
      BY <1>4, <2>2, <3>1
    <3> QED
      BY <2>1, <2>2, <2>3, <3>2 DEF EpochsUpTo
  <2> QED
    BY <2>3 DEF EpochsUpTo
<1> QED
  BY <1>3, <1>5, <1>6 DEF UsedInv

LEMMA WriteLogsKeepsUsed ==
  ASSUME Shape, ScoreStep, RowInv, UsedInv, WriteLogs PROVE UsedInv'
<1>1. logs' = <<>> /\ UNCHANGED <<life, epoch, arrays, used, born>>
  BY DEF WriteLogs, modelVars
<1>2. CASE log' = log \o logs /\ lost' = lost
  <2>1. Rows' = Rows
    <3>1. IsList(log \o logs)
      BY ListConcat DEF RowInv
    <3> QED
      BY <1>1, <1>2, <3>1, ConcatEmptySeq DEF Rows, IsList
  <2> QED
    BY <1>1, <1>2, <2>1, UsedStays
<1>3. CASE lost'
  BY <1>1, <1>3 DEF UsedInv
<1> QED
  BY <1>2, <1>3 DEF WriteLogs

\* The arrays of each workload stand for the refresh just swapped in, or for
\* what they stood for.
LEMMA ApplyKeepsUsed ==
  ASSUME Shape, ScoreStep, RowInv, EpochInv, ReadyInv, UsedInv, Apply PROVE UsedInv'
<1>1. PICK entry, swapped, row :
        /\ entry = Head(ready) /\ swapped = Swapped(entry.cal) /\ row = RowOf(entry, swapped)
        /\ arrays' = [k \in Workloads |-> IF k \in swapped THEN entry.cal[k] ELSE arrays[k]]
        /\ epoch' = NextEpoch(swapped) /\ logs' = Append(logs, row)
        /\ used' = used \cup {[life |-> life, epoch |-> epoch', arrays |-> arrays']}
        /\ UNCHANGED <<life, born, log, lost>>
  BY DEF Apply, lifeVars
<1>2. row = [event |-> IF swapped = {} THEN "unchanged" ELSE "applied", epoch |-> epoch',
             hour |-> entry.hour, swapped |-> swapped, missing |-> entry.missing]
  BY <1>1 DEF RowOf
<1>3. PICK rows, more : rows = Rows /\ more = Rows'
  OBVIOUS
<1>4. Extends(rows, more, row)
  BY <1>1, <1>3, RowsExtend DEF Rows, RowInv
<1>5. born \in Nat /\ Len(rows) \in Nat /\ epoch \in Nat
  BY <1>3, RowsType DEF EpochInv
<1>6. /\ Len(more) = Len(rows) + 1 /\ more[Len(rows) + 1] = row
      /\ \A i \in 1 .. Len(rows) : more[i] = rows[i]
  BY <1>4 DEF Extends
<1>7. epoch' \in Nat /\ epoch <= epoch' /\ (swapped # {} => epoch' = epoch + 1)
      /\ (swapped = {} => epoch' = epoch)
  BY <1>1, <1>5 DEF NextEpoch
<1>8. ASSUME ~lost PROVE EpochsUpTo(born, more, epoch')
  <2>1. EpochsUpTo(born, rows, epoch)
    BY <1>3, <1>8 DEF UsedInv
  <2>2. ASSUME NEW i \in born + 1 .. Len(more), more[i].event = "applied"
        PROVE  more[i].epoch \in Nat /\ more[i].epoch <= epoch'
    <3>1. CASE i = Len(rows) + 1
      BY <1>2, <1>6, <1>7, <3>1
    <3>2. CASE i # Len(rows) + 1
      <4>1. i \in born + 1 .. Len(rows) /\ i \in 1 .. Len(rows)
        BY <1>5, <1>6, <3>2
      <4>2. rows[i].epoch \in Nat /\ rows[i].epoch <= epoch
        BY <1>6, <2>1, <2>2, <4>1 DEF EpochsUpTo
      <4>3. more[i] = rows[i]
        BY <1>6, <4>1
      <4> QED
        BY <1>5, <1>7, <4>2, <4>3
    <3> QED
      BY <3>1, <3>2
  <2> QED
    BY <2>2 DEF EpochsUpTo
\* What was used before.
<1>9. ASSUME ~lost, NEW u \in used, NEW k \in Workloads, u.life = life
      PROVE  StandsFor(Scores', born, more, u, k)
  <2>1. StandsFor(Scores', born, rows, u, k)
    BY <1>3, <1>9, StandsForLater DEF UsedInv
  <2>2. u.epoch \in Nat /\ u.epoch <= epoch
    BY <1>9 DEF EpochInv
  <2>3. ~(row.event = "applied" /\ row.epoch <= u.epoch /\ k \in row.swapped)
    BY <1>2, <1>5, <1>7, <2>2
  <2>4. /\ EntriesAfter(born, more, k, u.epoch) = EntriesAfter(born, rows, k, u.epoch)
        /\ \A i \in EntriesAfter(born, rows, k, u.epoch) : more[i] = rows[i]
    BY <1>4, <1>5, <2>3, EntriesStay
  <2> QED
    BY <2>1, <2>4, StandsForStays
\* What is used from now on.
<1>10. PICK v : v = [life |-> life, epoch |-> epoch', arrays |-> arrays']
  OBVIOUS
<1>11. ASSUME ~lost, NEW k \in Workloads PROVE StandsFor(Scores', born, more, v, k)
  <2>1. CASE k \in swapped
    <3>1. v.arrays[k] = entry.cal[k]
      BY <1>1, <1>10, <2>1
    <3>2. row.hour = entry.hour /\ row.missing = entry.missing /\ row.event = "applied"
          /\ row.epoch = epoch' /\ row.swapped = swapped
      BY <1>2, <2>1
    <3>3. Stands(Scores, entry.cal[k], k, entry)
      <4>1. PICK S : ready \in Seq(S)
        BY DEF RowInv, IsList
      <4>2. 1 \in 1 .. Len(ready) /\ ready[1] = entry
        BY <1>1, <4>1, EmptySeq, LenProperties, HeadTailProperties DEF Apply
      <4> QED
        BY <4>2 DEF ReadyInv
    <3>4. Stands(Scores', entry.cal[k], k, entry)
      BY <3>3, StandsStays
    <3>5. PICK last \in Nat : last = Len(rows) + 1
      BY <1>5
    <3>6. last \in EntriesAfter(born, more, k, epoch')
      <4>1. born + 1 <= last
        <5>1. born <= Len(rows)
          BY <1>3, ListConcat, ListLength DEF RowInv, Rows
        <5> QED
          BY <1>5, <3>5, <5>1
      <4>2. last \in born + 1 .. Len(more)
        BY <1>5, <1>6, <3>5, <4>1
      <4>3. more[last] = row
        BY <1>6, <3>5
      <4> QED
        BY <1>7, <2>1, <3>2, <4>2, <4>3 DEF EntriesAfter
    <3>7. \A i \in EntriesAfter(born, more, k, epoch') : i \in Nat /\ i <= last
      BY <1>5, <1>6, <3>5 DEF EntriesAfter
    <3>8. ASSUME NEW i \in EntriesAfter(born, more, k, epoch'),
                 \A j \in EntriesAfter(born, more, k, epoch') : j <= i
          PROVE  Stands(Scores', v.arrays[k], k, more[i])
      <4>1. i = last
        BY <3>5, <3>6, <3>7, <3>8
      <4>2. more[i] = row
        BY <1>6, <3>5, <4>1
      <4> QED
        BY <3>1, <3>2, <3>4, <4>2 DEF Stands
    <3>9. v.epoch = epoch'
      BY <1>10
    <3> QED
      BY <3>6, <3>8, <3>9 DEF StandsFor
  <2>2. CASE k \notin swapped
    <3>1. PICK u \in used : u = [life |-> life, epoch |-> epoch, arrays |-> arrays]
      BY DEF UsedInv
    <3>2. v.arrays[k] = u.arrays[k] /\ u.epoch = epoch /\ u.life = life /\ v.epoch = epoch'
      BY <1>1, <1>10, <2>2, <3>1
    <3>3. StandsFor(Scores', born, rows, u, k)
      BY <1>3, <1>11, <3>2, StandsForLater DEF UsedInv
    <3>4. /\ EntriesAfter(born, more, k, epoch') = EntriesAfter(born, rows, k, epoch')
          /\ \A i \in EntriesAfter(born, rows, k, epoch') : more[i] = rows[i]
      <4>1. ~(row.event = "applied" /\ row.epoch <= epoch' /\ k \in row.swapped)
        BY <1>2, <2>2
      <4> QED
        BY <1>4, <1>5, <4>1, EntriesStay
    <3>5. EntriesAfter(born, rows, k, epoch') = EntriesAfter(born, rows, k, epoch)
      <4>1. EpochsUpTo(born, rows, epoch)
        BY <1>3, <1>11 DEF UsedInv
      <4>2. \A i \in born + 1 .. Len(rows) :
              rows[i].event = "applied" => (rows[i].epoch <= epoch' <=> rows[i].epoch <= epoch)
        BY <1>5, <1>7, <4>1 DEF EpochsUpTo
      <4> QED
        BY <4>2 DEF EntriesAfter
    <3> QED
      BY <3>2, <3>3, <3>4, <3>5, StandsForStays
  <2> QED
    BY <2>1, <2>2
<1>12. used' = used \cup {v}
  BY <1>1, <1>10
<1>13. [life |-> life, epoch |-> epoch, arrays |-> arrays]' \in used'
  BY <1>1, <1>10, <1>12
<1>14. UNCHANGED <<life, born, lost>> /\ Rows' = more
  BY <1>1, <1>3
<1>15. ASSUME ~lost', NEW u \in used', NEW k \in Workloads, u.life = life'
       PROVE  StandsFor(Scores', born', Rows', u, k)
  BY <1>9, <1>11, <1>12, <1>14, <1>15
<1> QED
  BY <1>8, <1>13, <1>14, <1>15 DEF UsedInv

\* A new process has used the arrays of the bundle.
LEMMA NewProcessKeepsUsed ==
  ASSUME Shape, ScoreStep, RowInv, EpochInv, UsedInv, NEW n \in Nodes, NEW kept, IsList(kept),
         NewProcess(n, kept)
  PROVE  UsedInv'
<1>1. CASE n = Me
  <2>1. /\ arrays' = Bundle /\ epoch' = 0 /\ logs' = <<>> /\ log' = log \o kept
        /\ life' = life + 1 /\ born' = Len(log')
        /\ used' = used \cup {[life |-> life', epoch |-> 0, arrays |-> Bundle]}
    BY <1>1 DEF NewProcess
  <2>2. IsList(log')
    BY <2>1, ListConcat DEF RowInv
  <2>3. Rows' = log'
    BY <2>1, <2>2, ConcatEmptySeq DEF Rows, IsList
  <2>4. \A i \in born' + 1 .. Len(Rows') : FALSE
    <3>1. Len(log') \in Nat
      BY <2>2, ListLength
    <3> QED
      BY <2>1, <2>3, <3>1
  <2>5. \A u \in used : u.life # life'
    BY <2>1 DEF EpochInv
  <2>6. \A k, upTo : EntriesAfter(born', Rows', k, upTo) = {}
    BY <2>4 DEF EntriesAfter
  <2>7. \A u \in used' : u.life = life' => u.arrays = Bundle
    BY <2>1, <2>5
  <2>8. ASSUME NEW u \in used', NEW k \in Workloads, u.life = life'
        PROVE  StandsFor(Scores', born', Rows', u, k)
    BY <2>6, <2>7, <2>8 DEF StandsFor
  <2>9. EpochsUpTo(born', Rows', epoch')
    BY <2>4 DEF EpochsUpTo
  <2>10. [life |-> life, epoch |-> epoch, arrays |-> arrays]' \in used'
    BY <2>1
  <2> QED
    BY <2>8, <2>9, <2>10 DEF UsedInv
<1>2. CASE n # Me
  <2>1. UNCHANGED <<life, epoch, arrays, used, born, log, logs, lost>>
    BY <1>2 DEF NewProcess, modelVars, lifeVars
  <2> QED
    BY <2>1, UsedStays DEF Rows
<1> QED
  BY <1>1, <1>2

LEMMA UsedKept ==
  Shape /\ RowInv /\ EpochInv /\ ReadyInv /\ UsedInv /\ [Next]_vars => UsedInv'
<1> SUFFICES ASSUME Shape, RowInv, EpochInv, ReadyInv, UsedInv, [Next]_vars PROVE UsedInv'
  OBVIOUS
<1>0. ScoreStep
  BY EveryStepScores
<1>1. CASE UNCHANGED <<modelVars, logs, log, lifeVars>>
  BY <1>0, <1>1, UsedStays DEF Rows, modelVars, lifeVars
<1>2. CASE Advance \/ UNCHANGED vars
  BY <1>1, <1>2 DEF Advance, vars
<1>3. ASSUME NEW n \in Nodes, NEW kept, IsList(kept), NewProcess(n, kept) PROVE UsedInv'
  BY <1>0, <1>3, NewProcessKeepsUsed
<1>4. ASSUME NEW n \in Nodes, Stop \/ Killed(n) PROVE UsedInv'
  BY <1>3, <1>4, ListEmpty, HoursAreNumbers DEF Stop, Killed, RowInv
<1>5. ASSUME NEW n \in Nodes, NEW w \in Windows, NEW h \in Hours, TornFrame(n, w, h)
      PROVE  UsedInv'
  BY <1>3, <1>5, ListEmpty DEF TornFrame
<1>6. ASSUME NEW n \in Nodes, NEW w \in Windows, NEW h \in Hours, Frame(n, w, h)
      PROVE  UsedInv'
  BY <1>1, <1>6 DEF Frame
<1>7. ASSUME logs' = Append(logs, Failure), UNCHANGED <<modelVars, log, lifeVars>>
      PROVE  UsedInv'
  BY <1>0, <1>7, FailureKeepsUsed DEF modelVars, lifeVars
<1>8. ASSUME NEW n \in Nodes, Thread(n) PROVE UsedInv'
  <2>1. CASE PublishBin(n) \/ PublishSide(n) \/ PublishNothing(n)
    BY <1>1, <2>1 DEF PublishBin, PublishSide, PublishNothing
  <2>2. CASE PublishFails(n)
    BY <1>1, <1>7, <2>2 DEF PublishFails
  <2> QED
    BY <1>8, <2>1, <2>2 DEF Thread
<1>9. CASE StartBuild \/ NoRefresh \/ Read \/ FinishBuild
  BY <1>1, <1>9 DEF StartBuild, NoRefresh, Read, FinishBuild
<1>10. CASE BuildFails
  BY <1>7, <1>10 DEF BuildFails
<1>11. CASE Apply \/ WriteLogs
  BY <1>0, <1>11, ApplyKeepsUsed, WriteLogsKeepsUsed
<1> QED
  BY <1>2, <1>4, <1>5, <1>6, <1>8, <1>9, <1>10, <1>11, HoursAreNumbers DEF Next, Refresh

\* Without torn records, whole hours are one array.
LEMMA WholeHoursAreOne ==
  ASSUME NEW a, NEW b, NEW k, NEW read, read \cap torn = {},
         a = [w \in Windows \cup {0} |-> a[w]], b = [w \in Windows \cup {0} |-> b[w]],
         IsWholeHours(a, k, read), IsWholeHours(b, k, read)
  PROVE  a = b
<1>1. \A w \in Windows \cup {0} : a[w] = b[w]
  BY DEF IsWholeHours
<1> QED
  BY <1>1

\* The shared hours of a row, read again.
LEMMA RebuildIsWhole ==
  ASSUME Shape, SharedInv, NEW row, row.hour \in Nat, StillShared(row), NEW k
  PROVE  LET read == HoursRead(row.hour, row.missing) IN
         /\ read \cap torn = {} /\ IsWholeHours(Rebuild(row, k), k, read)
         /\ Rebuild(row, k) = [w \in Windows \cup {0} |-> Rebuild(row, k)[w]]
<1>1. PICK read : read = HoursRead(row.hour, row.missing)
  OBVIOUS
<1>2. PICK parts : parts = UNION {Records(x, 0) : x \in read}
  OBVIOUS
<1>3. \A x \in read : Shared(x[1], x[2]) # <<>> /\ x \notin torn
  BY <1>1 DEF StillShared
<1>4. ASSUME NEW x \in read PROVE HourOK(scored, torn, Records(x, 0), x)
  <2>1. x \in Nodes \X Int
    BY <1>1, KeysType DEF HoursRead
  <2>2. x[2] \in Hours /\ json[x[1]][x[2]] # <<>>
    BY <1>3 DEF Shared
  <2>3. PICK n \in Nodes, h \in Hours : x = <<n, h>> /\ json[n][h] # <<>>
    BY <2>1, <2>2
  <2> QED
    BY <2>3, RecordsAreTheHour DEF SharedInv
<1>5. \A x \in read : \A r \in Records(x, 0) : r.key = x
  BY <1>4 DEF HourOK
<1>6. PartsOK(scored, torn, parts, read)
  <2>1. \A r \in parts : r.key \in read
    BY <1>2, <1>5
  <2>2. ASSUME NEW x \in read PROVE HourOK(scored, torn, {r \in parts : r.key = x}, x)
    <3>1. {r \in parts : r.key = x} = Records(x, 0)
      BY <1>2, <1>5, <2>2
    <3> QED
      BY <1>4, <3>1
  <2> QED
    BY <2>1, <2>2 DEF PartsOK
<1>7. Rebuild(row, k) = Calibration(parts, k)
  BY <1>1, <1>2 DEF Rebuild
<1>8. read \cap torn = {}
  BY <1>3
<1>9. /\ Calibration(parts, k) = [w \in Windows \cup {0} |-> Calibration(parts, k)[w]]
      /\ IsWholeHours(Calibration(parts, k), k, read)
  BY <1>6, CalibrationOfHours
<1> QED
  BY <1>1, <1>7, <1>8, <1>9

\* The arrays behind every decision row of the process can be built again from
\* the shared copy: they are those of the last logged refresh up to the epoch
\* of the row that swapped its workload, whatever refreshes came and failed
\* since, as long as no row of the log was lost and the hours are still shared.
THEOREM RowsRebuildArrays == Spec => []RowsCanBeRecomputed
<1>1. HourInv /\ UsedInv => RowsCanBeRecomputed
  <2> SUFFICES ASSUME HourInv, UsedInv PROVE RowsCanBeRecomputed
    OBVIOUS
  <2>1. Shape /\ SharedInv /\ now \in Nat
    BY ClockType DEF HourInv
  <2>2. PICK rows : rows = Rows /\ rows = log \o logs
    BY DEF Rows
  <2>3. ASSUME NEW u \in used, NEW k \in Workloads, u.life = life, ~lost
        PROVE  LET entries == Entries(rows, k, u.epoch) IN
               /\ entries = {} => u.arrays[k] = Bundle[k]
               /\ \A i \in entries : (\A j \in entries : j <= i) /\ StillShared(rows[i])
                    => u.arrays[k] = Rebuild(rows[i], k)
    <3>1. PICK entries : /\ entries = Entries(rows, k, u.epoch)
                         /\ entries = EntriesAfter(born, rows, k, u.epoch)
      BY DEF Entries, EntriesAfter
    <3>2. StandsFor(Scores, born, rows, u, k)
      BY <2>2, <2>3 DEF UsedInv
    <3>3. PICK array : array = u.arrays[k]
      OBVIOUS
    <3>4. /\ entries = {} => array = Bundle[k]
          /\ \A i \in entries : (\A j \in entries : j <= i) => Stands(Scores, array, k, rows[i])
      BY <3>1, <3>2, <3>3 DEF StandsFor
    <3>5. ASSUME NEW i \in entries, \A j \in entries : j <= i, StillShared(rows[i])
          PROVE  array = Rebuild(rows[i], k)
      <4>1. PICK row : row = rows[i]
        OBVIOUS
      <4>2. Stands(Scores, array, k, row)
        BY <3>4, <3>5, <4>1
      <4>3. row.hour \in Nat
        BY <4>2 DEF Stands
      <4>4. /\ array = [w \in Windows \cup {0} |-> array[w]]
            /\ IsWholeHours(array, k, HoursRead(row.hour, row.missing))
        BY <2>1, <4>2, <4>3, StandsIsWhole
      <4>5. PICK other : other = Rebuild(row, k)
        OBVIOUS
      <4>6. /\ HoursRead(row.hour, row.missing) \cap torn = {}
            /\ IsWholeHours(other, k, HoursRead(row.hour, row.missing))
            /\ other = [w \in Windows \cup {0} |-> other[w]]
        BY <2>1, <3>5, <4>1, <4>3, <4>5, RebuildIsWhole
      <4>7. array = other
        BY <4>4, <4>6, WholeHoursAreOne
      <4> QED
        BY <4>1, <4>5, <4>7
    <3> QED
      BY <3>1, <3>3, <3>4, <3>5
  <2> QED
    BY <2>2, <2>3 DEF RowsCanBeRecomputed
<1>2. Spec => []UsedInv
  <2>1. Init => EpochInv /\ UsedInv
    BY EpochStarts, UsedStarts
  <2>2. HourInv /\ EpochInv /\ UsedInv /\ [Next]_vars => EpochInv' /\ UsedInv'
    BY EpochKept, UsedKept DEF HourInv
  <2> QED
    BY <2>1, <2>2, HourInvHolds, PTL DEF Spec
<1> QED
  BY <1>1, <1>2, HourInvHolds, PTL
-------------------------------------------------------------------------------
(* What other nodes may have read. *)

\* A published hour is the file it was published from, while there is one.
SameAt(n, h) ==
  /\ json[n][h] # <<>> => Over(h)
  /\ json[n][h] # <<>> \/ AtSidecar(n, h) => side[n][h] = <<>> \/ bin[n][h] = file[n][h]
  /\ json[n][h] # <<>> => side[n][h] = <<>> \/ json[n][h] = side[n][h]

SameInv == \A n \in Nodes, h \in Hours : SameAt(n, h)

\* The step of SharedHoursAreFinal for one hour.
HourStays(n, h) ==
  json[n][h] # <<>> => \/ bin'[n][h] = bin[n][h] /\ json'[n][h] = json[n][h]
                       \/ bin'[n][h] = <<>> /\ json'[n][h] = <<>>

LEMMA SameStarts == Init => SameInv
<1> SUFFICES ASSUME Init PROVE SameInv
  OBVIOUS
<1>1. \A n \in Nodes, h \in Hours : json[n][h] = <<>> /\ side[n][h] = <<>>
  BY DEF Init, PerHour
<1> QED
  BY <1>1 DEF SameInv, SameAt

LEMMA SameAtStays ==
  ASSUME Shape, [Next]_vars, NEW n \in Nodes, NEW h \in Hours, SameAt(n, h),
         bin'[n][h] = bin[n][h], json'[n][h] = json[n][h], AtSidecar(n, h)' => AtSidecar(n, h)
  PROVE  SameAt(n, h)' /\ HourStays(n, h)
<1>1. AtSidecar(n, h) => Over(h)
  BY SidecarIsOver
<1>2. Over(h) => \/ file'[n][h] = file[n][h] /\ side'[n][h] = side[n][h]
                 \/ file'[n][h] = <<>> /\ side'[n][h] = <<>>
  BY BuffersStay
<1>3. Over(h) => Over(h)'
  BY EveryStepScores, OverStays, ClockType, HoursAreNumbers
<1> QED
  BY <1>1, <1>2, <1>3 DEF SameAt, HourStays

LEMMA SameStays ==
  ASSUME Shape, [Next]_vars, SameInv, UNCHANGED <<bin, json>>,
         \A n \in Nodes : thread'[n] = thread[n] \/ thread'[n].step # "sidecar"
  PROVE  SameInv' /\ \A n \in Nodes, h \in Hours : HourStays(n, h)
<1>1. ASSUME NEW n \in Nodes, NEW h \in Hours PROVE SameAt(n, h)' /\ HourStays(n, h)
  <2>1. AtSidecar(n, h)' => AtSidecar(n, h)
    BY DEF AtSidecar
  <2> QED
    BY <2>1, SameAtStays DEF SameInv
<1> QED
  BY <1>1 DEF SameInv

LEMMA PublishKeepsSame ==
  ASSUME Shape, [Next]_vars, SameInv, NEW n \in Nodes, Thread(n), NEW i \in Nodes, NEW h \in Hours
  PROVE  SameAt(i, h)' /\ HourStays(i, h)
<1>1. thread' = [j \in Nodes |-> IF j = n THEN thread'[n] ELSE thread[j]]
      /\ UNCHANGED <<now, file, side>>
  BY DEF Shape, Thread, PublishBin, PublishSide, PublishNothing, PublishFails, AfterPublish, diskVars
<1>2. ASSUME bin'[i][h] = bin[i][h], json'[i][h] = json[i][h], AtSidecar(i, h)' => AtSidecar(i, h)
      PROVE  SameAt(i, h)' /\ HourStays(i, h)
  BY <1>2, SameAtStays DEF SameInv
<1>3. CASE i # n
  <2>1. AtSidecar(i, h)' => AtSidecar(i, h)
    BY <1>1, <1>3 DEF AtSidecar
  <2>2. SharedBy(n) \/ UNCHANGED <<bin, json>>
    BY PublishBinFiles, PublishSideFiles, PublishNothingFiles DEF Thread, PublishFails, sharedVars
  <2> QED
    BY <1>2, <1>3, <2>1, <2>2 DEF SharedBy
<1>4. ASSUME i = n, bin'[n][h] = <<>>, json'[n][h] = <<>>, ~AtSidecar(n, h)'
      PROVE  SameAt(i, h)' /\ HourStays(i, h)
  BY <1>4 DEF SameAt, HourStays
<1>5. SameAt(n, h)
  BY DEF SameInv
<1>6. CASE i = n /\ PublishBin(n)
  <2>1. PICK hour \in Hours : hour = HourOf(now) - 1
    BY <1>6, PublishBinFiles
  <2>2. /\ json' = json /\ Over(hour) /\ side[n][hour] # <<>>
        /\ bin'[n][hour] = file[n][hour] /\ \A k \in Hours : k # hour => bin'[n][k] = bin[n][k]
    BY <1>6, <2>1, PublishBinFiles
  <2>3. thread'[n].step = "sidecar" /\ thread'[n].at = now
    BY <1>6 DEF PublishBin, Shape
  <2>4. CASE h # hour
    <3>1. ~AtSidecar(n, h)'
      BY <2>1, <2>3, <2>4 DEF AtSidecar
    <3> QED
      BY <1>2, <1>6, <2>2, <2>4, <3>1
  <2>5. CASE h = hour
    <3>1. HourStays(n, h)
      BY <1>5, <2>2, <2>5 DEF SameAt, HourStays
    <3>2. SameAt(n, h)'
      BY <1>1, <1>5, <2>2, <2>5 DEF SameAt, Over
    <3> QED
      BY <1>6, <3>1, <3>2
  <2> QED
    BY <2>4, <2>5
<1>7. CASE i = n /\ (PublishSide(n) \/ PublishNothing(n))
  <2>1. ~AtSidecar(n, h)'
    <3>1. \E t : AfterPublish(n, t)
      BY <1>7 DEF PublishSide, PublishNothing
    <3> QED
      BY <3>1 DEF AfterPublish, Idle, Shape, AtSidecar
  <2>2. CASE PublishNothing(n)
    BY <1>2, <1>4, <1>7, <2>1, <2>2, PublishNothingFiles
  <2>3. CASE PublishSide(n)
    <3>1. PICK hour \in Hours :
             /\ AtSidecar(n, hour) /\ Over(hour) /\ side[n][hour] # <<>>
             /\ \A k \in Hours :
                  \/ bin'[n][k] = bin[n][k]
                     /\ json'[n][k] = IF k = hour THEN side[n][k] ELSE json[n][k]
                  \/ bin'[n][k] = <<>> /\ json'[n][k] = <<>>
      BY <2>3, PublishSideFiles
    <3>2. CASE h = hour /\ bin'[n][h] = bin[n][h] /\ json'[n][h] = side[n][h]
      <4>1. SameAt(n, h)'
        BY <1>1, <1>5, <2>1, <3>1, <3>2 DEF SameAt, Over
      <4>2. HourStays(n, h)
        BY <1>5, <3>1, <3>2 DEF SameAt, HourStays
      <4> QED
        BY <1>7, <4>1, <4>2
    <3> QED
      BY <1>2, <1>4, <1>7, <2>1, <3>1, <3>2
  <2> QED
    BY <1>7, <2>2, <2>3
<1>8. CASE i = n /\ PublishFails(n)
  <2>1. thread' = [thread EXCEPT ![n] = Idle] /\ UNCHANGED <<bin, json>>
    BY <1>8 DEF PublishFails, sharedVars
  <2>2. ~AtSidecar(n, h)'
    BY <2>1 DEF AtSidecar, Idle, Shape
  <2> QED
    BY <1>2, <1>8, <2>1, <2>2
<1> QED
  BY <1>3, <1>6, <1>7, <1>8 DEF Thread

LEMMA SameKept ==
  ASSUME Shape, SameInv, [Next]_vars
  PROVE  SameInv' /\ \A n \in Nodes, h \in Hours : HourStays(n, h)
<1> DEFINE Goal == SameInv' /\ \A n \in Nodes, h \in Hours : HourStays(n, h)
<1>1. ASSUME UNCHANGED <<bin, json>>, NEW n \in Nodes,
             \/ thread' = thread
             \/ \E x : x.step # "sidecar" /\ thread' = [thread EXCEPT ![n] = x]
      PROVE  Goal
  <2>1. \A i \in Nodes : thread'[i] = thread[i] \/ thread'[i].step # "sidecar"
    BY <1>1 DEF Shape
  <2> QED
    BY <1>1, <2>1, SameStays
<1>2. Me \in Nodes /\ Idle.step # "sidecar"
  BY HoursAreNumbers DEF Idle
<1>3. CASE UNCHANGED <<thread, bin, json>>
  BY <1>1, <1>2, <1>3
<1>4. CASE UNCHANGED vars \/ Advance \/ Apply \/ Read \/ WriteLogs
  BY <1>3, <1>4 DEF Advance, Apply, Read, WriteLogs, vars, sharedVars
<1>5. CASE StartBuild \/ NoRefresh \/ FinishBuild \/ BuildFails
  <2>1. UNCHANGED <<bin, json>>
    BY <1>5 DEF StartBuild, NoRefresh, FinishBuild, BuildFails, sharedVars
  <2>2. \/ thread' = [thread EXCEPT ![Me] = Idle]
        \/ \E t : thread' = [thread EXCEPT ![Me] = [step |-> "build", at |-> t]]
    BY <1>5 DEF StartBuild, NoRefresh, FinishBuild, BuildFails
  <2>3. \A t : [step |-> "build", at |-> t].step # "sidecar"
    OBVIOUS
  <2> QED
    BY <1>1, <1>2, <2>1, <2>2, <2>3
<1>6. ASSUME NEW n \in Nodes, NEW kept, NewProcess(n, kept) PROVE Goal
  BY <1>1, <1>2, <1>6 DEF NewProcess
<1>7. ASSUME NEW n \in Nodes, Stop \/ Killed(n) PROVE Goal
  BY <1>2, <1>6, <1>7 DEF Stop, Killed
<1>8. ASSUME NEW n \in Nodes, NEW w \in Windows, NEW h \in Hours, Frame(n, w, h) \/ TornFrame(n, w, h)
      PROVE  Goal
  BY <1>3, <1>6, <1>8 DEF Frame, TornFrame, sharedVars
<1>9. ASSUME NEW n \in Nodes, Thread(n) PROVE Goal
  BY <1>9, PublishKeepsSame DEF SameInv
<1> QED
  <2>1. \/ UNCHANGED vars \/ Advance \/ Apply \/ Read \/ WriteLogs
        \/ StartBuild \/ NoRefresh \/ FinishBuild \/ BuildFails \/ Stop
        \/ \E n \in Nodes : \/ Thread(n) \/ Killed(n)
                            \/ \E w \in Windows, h \in Hours : Frame(n, w, h) \/ TornFrame(n, w, h)
    BY DEF Next, Refresh
  <2>2. CASE UNCHANGED vars \/ Advance \/ Apply \/ Read \/ WriteLogs
    BY <1>4, <2>2
  <2>3. CASE StartBuild \/ NoRefresh \/ FinishBuild \/ BuildFails \/ Stop
    BY <1>2, <1>5, <1>7, <2>3
  <2>4. CASE \E n \in Nodes : \/ Thread(n) \/ Killed(n)
                            \/ \E w \in Windows, h \in Hours : Frame(n, w, h) \/ TornFrame(n, w, h)
    BY <1>7, <1>8, <1>9, <2>4
  <2> QED
    BY <2>1, <2>2, <2>3, <2>4

\* The hours another node may have read never change, through republications
\* after restarts, late frames and removals: they only go away as a whole.
THEOREM SharedHoursStay == Spec => SharedHoursAreFinal
<1>1. Init => Shape /\ SameInv
  BY ShapeStarts, SameStarts
<1>2. Shape /\ SameInv /\ [Next]_vars => Shape' /\ SameInv'
  BY ShapeKept, SameKept
<1>3. Shape /\ SameInv /\ [Next]_vars =>
        [\A n \in Nodes, h \in Hours : json[n][h] # <<>> =>
           \/ bin'[n][h] = bin[n][h] /\ json'[n][h] = json[n][h]
           \/ bin'[n][h] = <<>> /\ json'[n][h] = <<>>]_vars
  BY SameKept DEF HourStays
<1> QED
  BY <1>1, <1>2, <1>3, PTL DEF Spec, SharedHoursAreFinal
-------------------------------------------------------------------------------
(* Types. *)

\* Epochs, refreshes waiting and the one under way are refreshes that began.
CountInv ==
  /\ refreshed \subseteq Hours
  /\ epoch \in Nat /\ epoch + Len(ready) + UnderWay <= Cardinality(refreshed)

Entry(e) == e.cal \in Calibrations /\ e.hour \in Nat /\ e.missing \subseteq Nodes \X Int

ModelInv ==
  /\ \A i \in 1 .. Len(ready) : Entry(ready[i])
  /\ arrays \in Calibrations
  /\ used \subseteq [life : 0 .. life, epoch : Nat, arrays : Calibrations]

LogInv == log \in Seq(LogRows) /\ logs \in Seq(LogRows)

FiniteInv ==
  /\ \A x \in DOMAIN cache : IsFiniteSet(cache[x])
  /\ thread[Me].step = "build" => IsFiniteSet(build.parts)

PlainInv ==
  /\ troubles \in 0 .. MaxTroubles /\ open \in [Nodes -> Hours \cup {-1}]
  /\ published \in [Nodes -> SUBSET Hours] /\ lost \in BOOLEAN

LEMMA CountSize ==
  ASSUME RowInv
  PROVE  /\ Len(ready) \in Nat /\ Cardinality(refreshed) \in Nat /\ UnderWay \in {0, 1}
         /\ IsFiniteSet(refreshed)
BY ListLength, AccountType, FS_CardinalityType DEF RowInv

LEMMA PublishUnderWay == ASSUME Shape, NEW n \in Nodes, Thread(n) PROVE UnderWay' = UnderWay
<1>1. Me \in Nodes
  BY HoursAreNumbers
<1>2. ASSUME NEW x, x.step # "build", thread[n].step # "build", thread' = [thread EXCEPT ![n] = x]
      PROVE  UnderWay' = UnderWay
  BY <1>1, <1>2 DEF UnderWay, Shape
<1>3. Idle.step = "idle" /\ \A s, t : [step |-> s, at |-> t].step = s
  BY DEF Idle
<1>4. thread[n].step # "build" /\ \E x : x.step # "build" /\ thread' = [thread EXCEPT ![n] = x]
  <2>1. CASE PublishBin(n)
    <3>1. thread[n] = Idle /\ thread' = [thread EXCEPT ![n] = [step |-> "sidecar", at |-> now]]
      BY <2>1 DEF PublishBin, PublishDue
    <3> QED
      BY <1>3, <3>1
  <2>2. ASSUME NEW t, AfterPublish(n, t)
        PROVE  \E x : x.step # "build" /\ thread' = [thread EXCEPT ![n] = x]
    <3>1. PICK x : x = IF n = Me THEN [step |-> "refresh", at |-> t] ELSE Idle
      OBVIOUS
    <3>2. thread' = [thread EXCEPT ![n] = x] /\ x.step # "build"
      BY <1>3, <2>2, <3>1 DEF AfterPublish
    <3> QED
      BY <3>2
  <2>3. CASE PublishSide(n)
    BY <2>2, <2>3 DEF PublishSide
  <2>4. CASE PublishNothing(n)
    BY <1>3, <2>2, <2>4 DEF PublishNothing, PublishDue
  <2>5. CASE PublishFails(n)
    BY <1>3, <2>5 DEF PublishFails
  <2> QED
    BY <2>1, <2>3, <2>4, <2>5 DEF Thread
<1> QED
  BY <1>2, <1>4

LEMMA CountStarts == Init => CountInv
<1> SUFFICES ASSUME Init PROVE CountInv
  OBVIOUS
<1>1. refreshed = {} /\ epoch = 0 /\ ready = <<>> /\ thread[Me] = Idle
  BY HoursAreNumbers DEF Init
<1> QED
  BY <1>1, ListEmpty, FS_EmptySet DEF CountInv, UnderWay, Idle

LEMMA CountKept ==
  ASSUME Shape, RowInv, CountInv, [Next]_vars PROVE CountInv'
<1>0. RowInv'
  BY RowsKept
<1>1. Me \in Nodes /\ Idle.step = "idle" /\ thread = [n \in Nodes |-> thread[n]]
  BY HoursAreNumbers DEF Idle, Shape
<1>2. ASSUME UNCHANGED <<refreshed, epoch, ready>>, UnderWay' = UnderWay PROVE CountInv'
  BY <1>2 DEF CountInv
<1>3. CASE UNCHANGED <<refreshed, epoch, ready, thread>>
  BY <1>2, <1>3 DEF UnderWay
<1>4. CASE UNCHANGED vars \/ Advance \/ Read \/ WriteLogs
  BY <1>3, <1>4 DEF Advance, Read, WriteLogs, vars, workVars, modelVars
<1>5. CASE Apply
  <2>1. /\ ready # <<>> /\ ready' = Tail(ready) /\ refreshed' = refreshed
        /\ UnderWay' = UnderWay /\ epoch' \in {epoch, epoch + 1}
    BY <1>5 DEF Apply, NextEpoch, workVars, UnderWay
  <2>2. Len(ready') = Len(ready) - 1
    BY <2>1, ListTail DEF RowInv
  <2> QED
    BY <2>1, <2>2, CountSize DEF CountInv
<1>6. CASE StartBuild
  <2>1. PICK t \in {now, thread[Me].at} :
          /\ AtRefresh(t) /\ RefreshDue(t) /\ refreshed' = refreshed \cup {HourOf(t)}
          /\ thread' = [thread EXCEPT ![Me] = [step |-> "build", at |-> t]]
          /\ UNCHANGED <<ready, epoch>>
    BY <1>6 DEF StartBuild, modelVars
  <2>2. PICK h : h = HourOf(t) /\ h \in Hours /\ h \notin refreshed
    BY <1>1, <2>1, ClockType, SharedType, HoursSoFar DEF RefreshDue
  <2>3. refreshed' \subseteq Hours
    BY <2>1, <2>2 DEF CountInv
  <2>4. Cardinality(refreshed') = Cardinality(refreshed) + 1
    BY <2>1, <2>2, CountSize, FS_AddElement
  <2>5. UnderWay = 0 /\ UnderWay' = 1
    BY <1>1, <2>1 DEF UnderWay, AtRefresh
  <2> QED
    BY <2>1, <2>3, <2>4, <2>5, CountSize DEF CountInv
<1>7. CASE NoRefresh
  <2>1. UnderWay' = UnderWay
    BY <1>1, <1>7 DEF NoRefresh, UnderWay
  <2> QED
    BY <1>2, <1>7, <2>1 DEF NoRefresh, workVars, modelVars
<1>8. CASE FinishBuild
  <2>1. UNCHANGED <<refreshed, epoch>> /\ \E e : ready' = Append(ready, e)
    BY <1>8 DEF FinishBuild, Put, modelVars
  <2>2. UnderWay = 1 /\ UnderWay' = 0
    BY <1>1, <1>8 DEF FinishBuild, UnderWay
  <2>3. Len(ready') = Len(ready) + 1
    BY <2>1, ListAppend DEF RowInv
  <2> QED
    BY <2>1, <2>2, <2>3, CountSize DEF CountInv
<1>9. CASE BuildFails
  <2>1. UNCHANGED <<refreshed, epoch, ready>>
    BY <1>9 DEF BuildFails, modelVars
  <2>2. UnderWay = 1 /\ UnderWay' = 0
    BY <1>1, <1>9 DEF BuildFails, UnderWay
  <2> QED
    BY <2>1, <2>2, CountSize DEF CountInv
<1>10. ASSUME NEW n \in Nodes, NEW kept, NewProcess(n, kept) PROVE CountInv'
  <2>1. CASE n = Me
    <3>1. refreshed' = {} /\ ready' = <<>> /\ epoch' = 0 /\ thread'[Me] = Idle
      BY <1>1, <1>10, <2>1 DEF NewProcess
    <3> QED
      BY <1>1, <3>1, ListEmpty, FS_EmptySet DEF CountInv, UnderWay
  <2>2. CASE n # Me
    <3>1. UnderWay' = UnderWay
      BY <1>1, <1>10, <2>2 DEF NewProcess, UnderWay
    <3> QED
      BY <1>2, <1>10, <2>2, <3>1 DEF NewProcess, workVars, modelVars
  <2> QED
    BY <2>1, <2>2
<1>11. ASSUME NEW n \in Nodes, Stop \/ Killed(n) PROVE CountInv'
  BY <1>1, <1>10, <1>11 DEF Stop, Killed
<1>12. ASSUME NEW n \in Nodes, NEW w \in Windows, NEW h \in Hours,
              Frame(n, w, h) \/ TornFrame(n, w, h)
       PROVE  CountInv'
  BY <1>3, <1>10, <1>12 DEF Frame, TornFrame, workVars, modelVars
<1>13. ASSUME NEW n \in Nodes, Thread(n) PROVE CountInv'
  <2>1. UNCHANGED <<refreshed, epoch, ready>>
    BY <1>13 DEF Thread, PublishBin, PublishSide, PublishNothing, PublishFails, workVars, modelVars
  <2> QED
    BY <1>2, <1>13, <2>1, PublishUnderWay
<1> QED
  BY <1>1, <1>4, <1>5, <1>6, <1>7, <1>8, <1>9, <1>11, <1>12, <1>13 DEF Next, Refresh

LEMMA PlainStarts == Init => PlainInv
<1> SUFFICES ASSUME Init PROVE PlainInv
  OBVIOUS
<1>1. /\ troubles = 0 /\ open = [n \in Nodes |-> -1] /\ published = [n \in Nodes |-> {}]
      /\ lost = FALSE
  BY DEF Init
<1>2. 0 \in 0 .. MaxTroubles
  BY RecalibrationAssumption
<1> QED
  BY <1>1, <1>2 DEF PlainInv

LEMMA PlainKept == ASSUME Shape, PlainInv, [Next]_vars PROVE PlainInv'
<1>1. CASE UNCHANGED <<troubles, open, published, lost>>
  BY <1>1 DEF PlainInv
<1>2. Trouble => troubles' \in 0 .. MaxTroubles
  BY RecalibrationAssumption DEF Trouble, PlainInv
<1>3. CASE UNCHANGED <<open, published, lost>> /\ Trouble
  BY <1>2, <1>3 DEF PlainInv
<1>4. CASE UNCHANGED vars \/ Advance \/ Apply \/ StartBuild \/ NoRefresh \/ Read \/ FinishBuild
  BY <1>1, <1>4 DEF Advance, Apply, StartBuild, NoRefresh, Read, FinishBuild, vars, diskVars,
     sharedVars, lifeVars
<1>5. CASE BuildFails
  BY <1>3, <1>5 DEF BuildFails, diskVars, sharedVars, lifeVars
<1>6. CASE WriteLogs
  <2>1. UNCHANGED <<open, published>>
    BY <1>6 DEF WriteLogs, diskVars, sharedVars
  <2>2. \/ UNCHANGED <<troubles, lost>>
        \/ Trouble /\ lost' = TRUE
    BY <1>6 DEF WriteLogs
  <2> QED
    BY <1>2, <2>1, <2>2 DEF PlainInv
<1>7. ASSUME NEW n \in Nodes, NEW kept, NewProcess(n, kept) PROVE PlainInv'
  <2>1. /\ open' = [open EXCEPT ![n] = -1] /\ published' = [published EXCEPT ![n] = {}]
        /\ Trouble /\ lost' \in {lost, FALSE}
    BY <1>7 DEF NewProcess, lifeVars
  <2> QED
    BY <1>2, <2>1 DEF PlainInv
<1>8. ASSUME NEW n \in Nodes, Stop \/ Killed(n) PROVE PlainInv'
  BY <1>7, <1>8, HoursAreNumbers DEF Stop, Killed
<1>9. ASSUME NEW n \in Nodes, NEW w \in Windows, NEW h \in Hours,
              Frame(n, w, h) \/ TornFrame(n, w, h)
      PROVE  PlainInv'
  <2>1. CASE Frame(n, w, h)
    <3>1. open' = [open EXCEPT ![n] = h] /\ UNCHANGED <<troubles, published, lost>>
      BY <2>1 DEF Frame, sharedVars, lifeVars
    <3> QED
      BY <3>1 DEF PlainInv
  <2>2. CASE TornFrame(n, w, h)
    BY <1>7, <2>2 DEF TornFrame
  <2> QED
    BY <1>9, <2>1, <2>2
<1>10. ASSUME NEW n \in Nodes, Thread(n) PROVE PlainInv'
  <2>1. CASE PublishFails(n)
    BY <1>1, <1>3, <2>1 DEF PublishFails, diskVars, sharedVars, lifeVars
  <2>2. CASE PublishBin(n)
    BY <1>1, <2>2 DEF PublishBin, diskVars, lifeVars
  <2>3. CASE PublishSide(n) \/ PublishNothing(n)
    <3>1. PICK hour, bins, names : Publishes(n, hour, bins, names) /\ hour \in Hours
      <4>1. CASE PublishSide(n)
        <5>1. HourOf(thread[n].at) - 1 \in Hours
          BY <4>1, SharedType, HourBefore DEF PublishSide, Shape
        <5> QED
          BY <4>1, <5>1 DEF PublishSide
      <4>2. CASE PublishNothing(n)
        <5>1. HourOf(now) - 1 \in Hours
          BY <4>2, ClockType, HourBefore DEF PublishNothing, PublishDue
        <5> QED
          BY <4>2, <5>1 DEF PublishNothing
      <4> QED
        BY <2>3, <4>1, <4>2
    <3>2. published' = [published EXCEPT ![n] = published[n] \cup {hour}]
      BY <3>1 DEF Publishes, PlainInv
    <3>3. UNCHANGED <<troubles, open, lost>>
      BY <2>3 DEF PublishSide, PublishNothing, diskVars, lifeVars
    <3> QED
      BY <3>1, <3>2, <3>3 DEF PlainInv
  <2> QED
    BY <1>10, <2>1, <2>2, <2>3 DEF Thread
<1> QED
  BY <1>4, <1>5, <1>6, <1>8, <1>9, <1>10, HoursAreNumbers DEF Next, Refresh

\* A place in a shared file makes at most one record.
LEMMA RecordsAreFinite ==
  ASSUME Shape, NEW n \in Nodes, NEW h \in Hours, NEW noise
  PROVE  IsFiniteSet(Records(<<n, h>>, noise))
<1>1. PICK pieces, names, records :
        pieces = bin[n][h] /\ names = json[n][h] /\ records = Records(<<n, h>>, noise)
  OBVIOUS
<1>2. records = UNION {{[key |-> <<n, h>>, at |-> i, workload |-> r[1], window |-> r[2]] :
                          r \in Resolve(pieces[2 * i - 1], pieces[2 * i], names, noise)} :
                       i \in 1 .. Len(pieces) \div 2}
  BY <1>1 DEF Records
<1>3. Len(pieces) \div 2 \in Int
  BY <1>1, SharedType, LenProperties
<1>4. \A p, q : \A a, b \in Resolve(p, q, names, noise) : a = b
  BY DEF Resolve
<1>5. \A r \in records : \E i \in 1 .. Len(pieces) \div 2 :
        \E s \in Resolve(pieces[2 * i - 1], pieces[2 * i], names, noise) :
          r = [key |-> <<n, h>>, at |-> i, workload |-> s[1], window |-> s[2]]
  BY <1>2
<1>6. \A r \in records : r.at \in 1 .. Len(pieces) \div 2
  BY <1>5
<1>7. ASSUME NEW r \in records, NEW s \in records, r.at = s.at PROVE r = s
  <2>1. PICK i \in 1 .. Len(pieces) \div 2 :
          \E a \in Resolve(pieces[2 * i - 1], pieces[2 * i], names, noise) :
            r = [key |-> <<n, h>>, at |-> i, workload |-> a[1], window |-> a[2]]
    BY <1>5
  <2>2. PICK j \in 1 .. Len(pieces) \div 2 :
          \E b \in Resolve(pieces[2 * j - 1], pieces[2 * j], names, noise) :
            s = [key |-> <<n, h>>, at |-> j, workload |-> b[1], window |-> b[2]]
    BY <1>5
  <2>3. i = j
    BY <1>7, <2>1, <2>2
  <2> QED
    BY <1>4, <2>1, <2>2, <2>3
<1>8. [r \in records |-> r.at] \in Injection(records, 1 .. Len(pieces) \div 2)
  BY <1>6, <1>7 DEF Injection, IsInjective
<1>9. IsFiniteSet(1 .. Len(pieces) \div 2)
  BY <1>3, FS_Interval
<1> QED
  BY <1>1, <1>8, <1>9, FS_Injection

LEMMA FiniteStarts == Init => FiniteInv
BY HoursAreNumbers DEF Init, FiniteInv, Idle

LEMMA ReadKeepsFinite == ASSUME Shape, BuildInv, FiniteInv, Read PROVE FiniteInv'
<1>1. PICK key \in build.todo : ReadHour(key)
  BY DEF Read
<1>2. thread[Me].step = "build" /\ thread' = thread
  BY DEF Read
<1>3. PICK b : b = build /\ BuildOK(b) /\ IsFiniteSet(b.parts)
  BY <1>2 DEF BuildInv, FiniteInv
<1>4. key \in Nodes \X Int
  BY <1>1, <1>3, KeysType DEF BuildOK
<1>5. b = [hour |-> b.hour, todo |-> b.todo, parts |-> b.parts, missing |-> b.missing]
  BY <1>3 DEF BuildOK
<1>6. CASE cache' = cache /\ (build'.parts = b.parts
                             \/ (key \in DOMAIN cache /\ build'.parts = b.parts \cup cache[key]))
  <2>1. IsFiniteSet(build'.parts)
    BY <1>3, <1>6, FS_Union DEF FiniteInv
  <2> QED
    BY <1>6, <2>1 DEF FiniteInv
<1>7. CASE /\ Shared(key[1], key[2]) # <<>>
           /\ \E noise : cache' = [x \in DOMAIN cache \cup {key} |->
                                     IF x = key THEN Records(key, noise) ELSE cache[x]]
           /\ build'.parts = b.parts \cup cache'[key]
  <2>1. key[2] \in Hours
    BY <1>7 DEF Shared
  <2>2. PICK n \in Nodes, h \in Hours : key = <<n, h>>
    BY <1>4, <2>1
  <2>3. \A noise : IsFiniteSet(Records(key, noise))
    BY <2>2, RecordsAreFinite
  <2>4. \A x \in DOMAIN cache' : IsFiniteSet(cache'[x])
    BY <1>7, <2>3 DEF FiniteInv
  <2>5. PICK more : more = cache'[key] /\ IsFiniteSet(more)
    BY <1>7, <2>4
  <2>6. IsFiniteSet(b.parts \cup more)
    BY <1>3, <2>5, FS_Union
  <2> QED
    BY <1>7, <2>4, <2>5, <2>6 DEF FiniteInv
<1>8. \/ cache' = cache /\ (build'.parts = b.parts
                            \/ (key \in DOMAIN cache /\ build'.parts = b.parts \cup cache[key]))
      \/ /\ Shared(key[1], key[2]) # <<>>
         /\ \E noise : cache' = [x \in DOMAIN cache \cup {key} |->
                                   IF x = key THEN Records(key, noise) ELSE cache[x]]
         /\ build'.parts = b.parts \cup cache'[key]
  BY <1>1, <1>3, <1>5 DEF ReadHour
<1> QED
  BY <1>6, <1>7, <1>8

LEMMA FiniteKept == ASSUME Shape, BuildInv, FiniteInv, [Next]_vars PROVE FiniteInv'
<1>1. Me \in Nodes /\ thread = [n \in Nodes |-> thread[n]]
  BY HoursAreNumbers DEF Shape
<1>2. CASE UNCHANGED cache /\ (thread'[Me].step # "build" \/ UNCHANGED <<thread, build>>)
  BY <1>2 DEF FiniteInv
<1>3. CASE UNCHANGED vars \/ Advance \/ Apply \/ WriteLogs
  BY <1>2, <1>3 DEF Advance, Apply, WriteLogs, vars, workVars
<1>4. CASE NoRefresh \/ FinishBuild \/ BuildFails
  BY <1>1, <1>2, <1>4 DEF NoRefresh, FinishBuild, BuildFails, workVars, Idle
<1>5. CASE StartBuild
  <2>1. build'.parts = {}
    BY <1>5 DEF StartBuild, NoBuild
  <2>2. \A x \in DOMAIN cache' : x \in DOMAIN cache /\ cache'[x] = cache[x]
    BY <1>5 DEF StartBuild, Restrict
  <2> QED
    BY <2>1, <2>2, FS_EmptySet DEF FiniteInv
<1>6. ASSUME NEW n \in Nodes, NEW kept, NewProcess(n, kept) PROVE FiniteInv'
  <2>1. CASE n = Me
    BY <1>1, <1>6, <2>1 DEF NewProcess, FiniteInv, Idle
  <2>2. CASE n # Me
    <3>1. thread'[Me] = thread[Me] /\ UNCHANGED <<cache, build>>
      BY <1>1, <1>6, <2>2 DEF NewProcess, workVars
    <3> QED
      BY <3>1 DEF FiniteInv
  <2> QED
    BY <2>1, <2>2
<1>7. ASSUME NEW n \in Nodes, Stop \/ Killed(n) PROVE FiniteInv'
  BY <1>1, <1>6, <1>7 DEF Stop, Killed
<1>8. ASSUME NEW n \in Nodes, NEW w \in Windows, NEW h \in Hours,
              Frame(n, w, h) \/ TornFrame(n, w, h)
      PROVE  FiniteInv'
  BY <1>2, <1>6, <1>8 DEF Frame, TornFrame, workVars
<1>9. ASSUME NEW n \in Nodes, Thread(n) PROVE FiniteInv'
  <2>1. UNCHANGED <<cache, build>>
    BY <1>9 DEF Thread, PublishBin, PublishSide, PublishNothing, PublishFails, workVars
  <2>2. thread'[Me].step = "build" <=> thread[Me].step = "build"
    BY <1>9, PublishUnderWay DEF UnderWay
  <2> QED
    BY <2>1, <2>2 DEF FiniteInv
<1> QED
  BY <1>1, <1>3, <1>4, <1>5, <1>7, <1>8, <1>9, ReadKeepsFinite DEF Next, Refresh

LEMMA CalibrationType ==
  ASSUME NEW records, IsFiniteSet(records), NEW k
  PROVE  Calibration(records, k) \in [Windows \cup {0} -> Nat]
<1>1. ASSUME NEW w \in Windows \cup {0}
      PROVE  Cardinality({r \in records : r.workload = k /\ r.window = w}) \in Nat
  <2>1. {r \in records : r.workload = k /\ r.window = w} \in SUBSET records
    OBVIOUS
  <2> QED
    BY <2>1, FS_Subset, FS_CardinalityType
<1> QED
  BY <1>1 DEF Calibration

LEMMA BundleType == Bundle \in Calibrations
BY DEF Bundle, Calibrations

LEMMA ModelStarts == Init => ModelInv
<1> SUFFICES ASSUME Init PROVE ModelInv
  OBVIOUS
<1>1. /\ ready = <<>> /\ arrays = Bundle /\ life = 0
      /\ used = {[life |-> 0, epoch |-> 0, arrays |-> Bundle]}
  BY DEF Init
<1> QED
  BY <1>1, ListEmpty, BundleType DEF ModelInv

LEMMA ModelKept ==
  ASSUME Shape, RowInv, EpochInv, BuildInv, FiniteInv, ModelInv, [Next]_vars PROVE ModelInv'
<1>0. EpochInv' /\ life \in Nat /\ epoch \in Nat
  BY EpochKept DEF EpochInv
<1>1. CASE UNCHANGED <<ready, modelVars, life>>
  BY <1>1 DEF ModelInv, modelVars
<1>2. CASE UNCHANGED vars \/ Advance \/ WriteLogs \/ StartBuild \/ NoRefresh \/ Read \/ BuildFails
  BY <1>1, <1>2 DEF Advance, WriteLogs, StartBuild, NoRefresh, Read, BuildFails, vars, lifeVars
<1>3. CASE Apply
  <2>1. PICK entry, swapped :
          /\ ready # <<>> /\ entry = Head(ready) /\ ready' = Tail(ready) /\ life' = life
          /\ arrays' = [k \in Workloads |-> IF k \in swapped THEN entry.cal[k] ELSE arrays[k]]
          /\ used' = used \cup {[life |-> life, epoch |-> epoch', arrays |-> arrays']}
    BY <1>3 DEF Apply, lifeVars
  <2>2. PICK S : ready \in Seq(S)
    BY DEF RowInv, IsList
  <2>3. /\ Len(ready) \in Nat \ {0} /\ entry = ready[1] /\ Len(ready') = Len(ready) - 1
        /\ \A i \in 1 .. Len(ready) - 1 : ready'[i] = ready[i + 1]
    BY <2>1, <2>2, EmptySeq, LenProperties, HeadTailProperties
  <2>4. Entry(entry)
    BY <2>3 DEF ModelInv
  <2>5. arrays' \in Calibrations
    BY <2>1, <2>4 DEF ModelInv, Entry, Calibrations
  <2>6. ASSUME NEW i \in 1 .. Len(ready') PROVE Entry(ready'[i])
    <3>1. i + 1 \in 1 .. Len(ready) /\ ready'[i] = ready[i + 1]
      BY <2>3
    <3> QED
      BY <3>1 DEF ModelInv
  <2>7. epoch' \in Nat /\ life \in 0 .. life
    BY <1>0 DEF EpochInv
  <2>8. used' \subseteq [life : 0 .. life', epoch : Nat, arrays : Calibrations]
    BY <2>1, <2>5, <2>7 DEF ModelInv
  <2> QED
    BY <2>5, <2>6, <2>8 DEF ModelInv
<1>4. CASE FinishBuild
  <2>1. PICK entry :
          /\ entry = [hour |-> build.hour, missing |-> build.missing,
                      cal |-> [k \in Workloads |-> Calibration(build.parts, k)]]
          /\ ready' = Append(ready, entry)
    BY <1>4 DEF FinishBuild, Put
  <2>2. BuildOK(build) /\ IsFiniteSet(build.parts) /\ UNCHANGED <<modelVars, life>>
    BY <1>4 DEF FinishBuild, BuildInv, FiniteInv, lifeVars
  <2>3. entry.hour \in Nat /\ entry.missing \subseteq Nodes \X Int
    BY <2>1, <2>2, KeysType DEF BuildOK
  <2>4. entry.cal \in Calibrations
    BY <2>1, <2>2, CalibrationType DEF Calibrations
  <2>5. Entry(entry)
    BY <2>3, <2>4 DEF Entry
  <2>6. PICK S : ready \in Seq(S) /\ entry \in S
    <3>1. PICK R : ready \in Seq(R)
      BY DEF RowInv, IsList
    <3>2. ready \in Seq(R \cup {entry})
      BY <3>1, SeqMonotonic
    <3> QED
      BY <3>2
  <2>7. /\ Len(ready') = Len(ready) + 1 /\ Len(ready) \in Nat /\ ready'[Len(ready) + 1] = entry
        /\ \A i \in 1 .. Len(ready) : ready'[i] = ready[i]
    BY <2>1, <2>6, AppendProperties, LenProperties
  <2>8. ASSUME NEW i \in 1 .. Len(ready') PROVE Entry(ready'[i])
    <3>1. i \in 1 .. Len(ready) \/ i = Len(ready) + 1
      BY <2>7
    <3> QED
      BY <2>5, <2>7, <3>1 DEF ModelInv
  <2> QED
    BY <2>2, <2>8 DEF ModelInv, modelVars
<1>5. ASSUME NEW n \in Nodes, NEW kept, NewProcess(n, kept) PROVE ModelInv'
  <2>1. CASE n = Me
    <3>1. /\ ready' = <<>> /\ arrays' = Bundle /\ life' = life + 1
          /\ used' = used \cup {[life |-> life', epoch |-> 0, arrays |-> Bundle]}
      BY <1>5, <2>1 DEF NewProcess
    <3>2. life' \in 0 .. life' /\ 0 .. life \subseteq 0 .. life'
      BY <1>0, <3>1
    <3>3. used \subseteq [life : 0 .. life', epoch : Nat, arrays : Calibrations]
      BY <3>2 DEF ModelInv
    <3>4. used' \subseteq [life : 0 .. life', epoch : Nat, arrays : Calibrations]
      BY <3>1, <3>2, <3>3, BundleType
    <3> QED
      BY <3>1, <3>4, ListEmpty, BundleType DEF ModelInv
  <2>2. CASE n # Me
    BY <1>1, <1>5, <2>2 DEF NewProcess, lifeVars
  <2> QED
    BY <2>1, <2>2
<1>6. ASSUME NEW n \in Nodes, Stop \/ Killed(n) PROVE ModelInv'
  BY <1>5, <1>6, HoursAreNumbers DEF Stop, Killed
<1>7. ASSUME NEW n \in Nodes, NEW w \in Windows, NEW h \in Hours,
              Frame(n, w, h) \/ TornFrame(n, w, h)
      PROVE  ModelInv'
  BY <1>1, <1>5, <1>7 DEF Frame, TornFrame, lifeVars
<1>8. ASSUME NEW n \in Nodes, Thread(n) PROVE ModelInv'
  BY <1>1, <1>8 DEF Thread, PublishBin, PublishSide, PublishNothing, PublishFails, lifeVars
<1> QED
  BY <1>2, <1>3, <1>4, <1>6, <1>7, <1>8, HoursAreNumbers DEF Next, Refresh

LEMMA LogStarts == Init => LogInv
BY EmptySeq DEF Init, LogInv

LEMMA LogConcat ==
  ASSUME LogInv, NEW kept \in Seq(LogRows)
  PROVE  log \o kept \in Seq(LogRows)
<1>1. PICK old \in Seq(LogRows) : old = log
  BY DEF LogInv
<1>2. old \o kept \in Seq(LogRows)
  BY ConcatProperties
<1> QED
  BY <1>1, <1>2

LEMMA LogKept ==
  ASSUME RowInv, EpochInv, ModelInv, LogInv, [Next]_vars PROVE LogInv'
<1>1. CASE UNCHANGED <<logs, log>>
  BY <1>1 DEF LogInv
<1>2. CASE UNCHANGED vars \/ Advance \/ StartBuild \/ NoRefresh \/ Read \/ FinishBuild
  BY <1>1, <1>2 DEF Advance, StartBuild, NoRefresh, Read, FinishBuild, vars
<1>3. ASSUME NEW row \in LogRows, logs' = Append(logs, row), log' = log PROVE LogInv'
  BY <1>3, AppendProperties DEF LogInv
<1>4. Failure \in LogRows
  BY DEF Failure, LogRows
<1>5. CASE BuildFails
  BY <1>3, <1>4, <1>5 DEF BuildFails
<1>6. CASE Apply
  <2>1. PICK entry, swapped, row :
          /\ ready # <<>> /\ entry = Head(ready) /\ swapped = Swapped(entry.cal)
          /\ row = RowOf(entry, swapped) /\ logs' = Append(logs, row) /\ log' = log
    BY <1>6 DEF Apply
  <2>2. Entry(entry)
    <3>1. PICK S : ready \in Seq(S)
      BY DEF RowInv, IsList
    <3>2. 1 \in 1 .. Len(ready) /\ entry = ready[1]
      BY <2>1, <3>1, EmptySeq, LenProperties, HeadTailProperties
    <3> QED
      BY <3>2 DEF ModelInv
  <2>3. epoch' \in Nat
    BY EpochKept DEF EpochInv
  <2>4. swapped \subseteq Workloads
    BY <2>1 DEF Swapped
  <2>5. row \in LogRows
    BY <2>1, <2>2, <2>3, <2>4 DEF RowOf, Entry, LogRows
  <2> QED
    BY <1>3, <2>1, <2>5
<1>7. CASE WriteLogs
  <2>1. logs' = <<>> /\ (log' = log \o logs \/ log' = log)
    BY <1>7 DEF WriteLogs
  <2>2. log \o logs \in Seq(LogRows)
    BY LogConcat DEF LogInv
  <2> QED
    BY <2>1, <2>2, EmptySeq DEF LogInv
<1>8. ASSUME NEW n \in Nodes, NEW kept \in Seq(LogRows), NewProcess(n, kept) PROVE LogInv'
  <2>1. \/ logs' = <<>> /\ log' = log \o kept
        \/ UNCHANGED <<logs, log>>
    BY <1>8 DEF NewProcess
  <2>2. log \o kept \in Seq(LogRows)
    BY LogConcat
  <2> QED
    BY <1>1, <2>1, <2>2, EmptySeq DEF LogInv
<1>9. ASSUME NEW n \in Nodes, Stop \/ Killed(n) PROVE LogInv'
  <2>1. <<>> \in Seq(LogRows) /\ logs \in Seq(LogRows) /\ Me \in Nodes
    BY EmptySeq, HoursAreNumbers DEF LogInv
  <2> QED
    BY <1>8, <1>9, <2>1 DEF Stop, Killed
<1>10. ASSUME NEW n \in Nodes, NEW w \in Windows, NEW h \in Hours,
              Frame(n, w, h) \/ TornFrame(n, w, h)
      PROVE  LogInv'
  <2>1. <<>> \in Seq(LogRows)
    BY EmptySeq
  <2> QED
    BY <1>1, <1>8, <1>10, <2>1 DEF Frame, TornFrame
<1>11. ASSUME NEW n \in Nodes, Thread(n) PROVE LogInv'
  <2>1. log' = log /\ (logs' = logs \/ logs' = Append(logs, Failure))
    BY <1>11 DEF Thread, PublishBin, PublishSide, PublishNothing, PublishFails
  <2> QED
    BY <1>1, <1>3, <1>4, <2>1
<1> QED
  BY <1>2, <1>5, <1>6, <1>7, <1>9, <1>10, <1>11, HoursAreNumbers DEF Next, Refresh

TypeInv == CountInv /\ PlainInv /\ FiniteInv /\ ModelInv /\ LogInv

\* Every variable has its type; among the types, that the epoch counts at most
\* the refreshes the process began.
THEOREM TypeCorrect == Spec => []TypeOK
<1>1. HourInv /\ EpochInv /\ TypeInv => TypeOK
  <2> SUFFICES ASSUME HourInv, EpochInv, TypeInv PROVE TypeOK
    OBVIOUS
  <2>1. Shape /\ RowInv
    BY DEF HourInv
  <2>2. thread \in [Nodes -> [step : {"idle", "sidecar", "refresh", "build"}, at : 0 .. now]]
    <3>1. /\ thread \in [Nodes -> [step : {"idle", "sidecar", "refresh", "build"}, at : Nat]]
          /\ \A n \in Nodes : thread[n].at <= now
      BY <2>1 DEF Shape
    <3>2. now \in Nat
      BY <2>1, ClockType
    <3>3. \A n \in Nodes :
            thread[n] \in [step : {"idle", "sidecar", "refresh", "build"}, at : 0 .. now]
      BY <3>1, <3>2
    <3> QED
      BY <3>1, <3>3
  <2>3. epoch \in 0 .. Cardinality(refreshed)
    BY <2>1, CountSize DEF TypeInv, CountInv
  <2>4. \A i \in DOMAIN ready : ready[i].cal \in Calibrations
    <3>1. DOMAIN ready = 1 .. Len(ready)
      BY <2>1, LenProperties DEF RowInv, IsList
    <3> QED
      BY <3>1 DEF TypeInv, ModelInv, Entry
  <2>5. /\ now \in 0 .. 3 * LastHour + 2
        /\ scored \in [Windows -> {<<>>} \cup ((0 .. N) \X Hours)]
        /\ torn \subseteq Nodes \X Hours
        /\ file \in [Nodes -> [Hours -> Seq(Piece)]] /\ side \in [Nodes -> [Hours -> Seq(Workloads)]]
        /\ bin \in [Nodes -> [Hours -> Seq(Piece)]] /\ json \in [Nodes -> [Hours -> Seq(Workloads)]]
    BY <2>1 DEF Shape
  <2>6. /\ \A f \in {file, bin} : f \in [Nodes -> [Hours -> Seq(Windows \X (Nat \ {0}) \X {1, 2})]]
        /\ \A f \in {side, json} : f \in [Nodes -> [Hours -> Seq(Workloads)]]
    BY <2>5 DEF Piece
  <2>7. /\ troubles \in 0 .. MaxTroubles /\ open \in [Nodes -> Hours \cup {-1}]
        /\ published \in [Nodes -> SUBSET Hours] /\ refreshed \subseteq Hours
        /\ arrays \in Calibrations
        /\ used \subseteq [life : 0 .. life, epoch : Nat, arrays : Calibrations]
        /\ log \in Seq(LogRows) /\ logs \in Seq(LogRows) /\ lost \in BOOLEAN
    BY DEF TypeInv, CountInv, PlainInv, ModelInv, LogInv
  <2>8. born \in 0 .. Len(log) /\ life \in Nat
    BY <2>1 DEF RowInv, EpochInv
  <2> QED
    BY <2>2, <2>3, <2>4, <2>5, <2>6, <2>7, <2>8 DEF TypeOK
<1>2. Init => EpochInv /\ TypeInv
  BY EpochStarts, CountStarts, PlainStarts, FiniteStarts, ModelStarts, LogStarts DEF TypeInv
<1>3. HourInv /\ EpochInv /\ TypeInv /\ [Next]_vars => EpochInv' /\ TypeInv'
  BY EpochKept, CountKept, PlainKept, FiniteKept, ModelKept, LogKept DEF HourInv, TypeInv
<1> QED
  BY <1>1, <1>2, <1>3, HourInvHolds, PTL DEF Spec
===============================================================================
