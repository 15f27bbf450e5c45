---------------------------- MODULE CandidateShadow ----------------------------
(***************************************************************************)
(* The candidate in shadow mode (detector/candidate_shadow.py).            *)
(* SegmentedJsonlFollower reads features.jsonl of one capture segment      *)
(* after the other and goes on when it finds TERMINAL.json;                *)
(* CandidateShadowRuntime keeps a history per container and scores it.     *)
(* The collection writes the segments (modelled in CaptureRun): its buffer *)
(* reaches the file at any byte, so a line is two pieces, <<n, 1>> and     *)
(* <<n, 2>>, and the newline ends the second.  The scorer may start at any *)
(* time, and keeps nothing over a restart, so one process of it is enough. *)
(***************************************************************************)
EXTENDS Integers, SequencesExt, FiniteSetsExt

CONSTANTS
  Containers,     \* with a pinned model; the others leave no trace
  HistorySize,    \* history_windows of the candidate
  MaxIdentities,  \* histories kept
  MinGap,         \* .35 seconds, in tenths of a second
  MaxWindowGap,   \* max_gap_seconds
  Gaps,           \* intervals of the collector's boundaries that occur
  MaxRows,        \* bound on rows
  MaxSegments,    \* bound on segments
  MaxBuffered     \* bound on the pieces in the collection's buffer

\* The collector's clock is regular enough that no two of its intervals fit
\* into one window.
ASSUME ShadowAssumption ==
  /\ HistorySize \in Nat /\ MaxIdentities \in Nat \ {0}
  /\ MinGap \in Nat \ {0} /\ MaxWindowGap \in Nat /\ Gaps \subseteq Nat \ {0}
  /\ \A g, h \in Gaps : g + h > MaxWindowGap
  /\ MaxRows \in Nat /\ MaxSegments \in Nat /\ MaxBuffered \in Nat

VARIABLES
  rows,       \* every row the collection made: container, window_end, intact
  files,      \* per segment, the pieces in features.jsonl
  terminal,   \* per segment, TERMINAL.json is there
  open,       \* the collection has the newest segment open
  pending,    \* pieces in its buffer
  fromStart,  \* from_start
  initial,    \* _initial
  number,     \* current_number
  source,     \* a segment is open, that of number
  offset,     \* how far it is read
  eof,        \* readline returned no whole line
  last,       \* the newest row decided on
  histories,  \* least recent first: a container and its rows
  stacked     \* the rows of the last decision's score; empty without one

writerVars   == <<rows, files, terminal, open, pending>>
followerVars == <<initial, number, source, offset, eof>>
runtimeVars  == <<last, histories, stacked>>
readerVars   == <<fromStart, followerVars, runtimeVars>>
shadowVars == <<writerVars, readerVars>>

FeatureRows == [container : Containers, end : Nat, intact : BOOLEAN]
Pieces == (1 .. MaxRows) \X {1, 2}
IsNewline(piece) == piece[2] = 2
-------------------------------------------------------------------------------
ShadowInit ==
  /\ rows = <<>> /\ files = <<>> /\ terminal = <<>> /\ open = FALSE /\ pending = <<>>
  /\ fromStart \in BOOLEAN
  /\ initial = TRUE /\ number = 0 /\ source = FALSE /\ offset = 0 /\ eof = FALSE
  /\ last = 0 /\ histories = <<>> /\ stacked = <<>>
-------------------------------------------------------------------------------
(* The collection. *)

OpenSegment ==
  /\ ~open /\ Len(files) < MaxSegments
  /\ files' = Append(files, <<>>) /\ terminal' = Append(terminal, FALSE)
  /\ open' = TRUE
  /\ UNCHANGED <<rows, pending, readerVars>>

Ends == IF rows = <<>> THEN {0} ELSE {Last(rows).end + g : g \in Gaps \cup {0}}

\* A row of a container that has none of this boundary yet, or of a later one.
\* Bounds: one degraded row; the containers are alike, so the first is fixed.
WriteRow ==
  /\ open /\ Len(rows) < MaxRows /\ Len(pending) < MaxBuffered
  /\ \E c \in Containers, end \in Ends, intact \in BOOLEAN :
       /\ \A i \in DOMAIN rows : rows[i].container = c => rows[i].end < end
       /\ rows = <<>> => c = CHOOSE first \in Containers : TRUE
       /\ ~intact => \A i \in DOMAIN rows : rows[i].intact
       /\ rows' = Append(rows, [container |-> c, end |-> end, intact |-> intact])
  /\ pending' = pending \o <<<<Len(rows'), 1>>, <<Len(rows'), 2>>>>
  /\ UNCHANGED <<files, terminal, open, readerVars>>

ToFile(n) == files' = [files EXCEPT ![Len(files)] = @ \o SubSeq(pending, 1, n)]

Spill ==
  /\ open
  /\ \E n \in 1 .. Len(pending) :
       /\ ToFile(n)
       /\ pending' = SubSeq(pending, n + 1, Len(pending))
  /\ UNCHANGED <<rows, terminal, open, readerVars>>

\* The files are flushed before TERMINAL.json is written.
CloseSegment ==
  /\ open /\ pending = <<>>
  /\ terminal' = [terminal EXCEPT ![Len(files)] = TRUE]
  /\ open' = FALSE
  /\ UNCHANGED <<rows, files, pending, readerVars>>

\* Killed: the buffer is lost, the segment stays without TERMINAL.json.
Killed ==
  /\ open
  /\ open' = FALSE /\ pending' = <<>>
  /\ UNCHANGED <<rows, files, terminal, readerVars>>
-------------------------------------------------------------------------------
(* SegmentedJsonlFollower. *)

Available == DOMAIN files
Active == {s \in Available : ~terminal[s]}

\* Mistake: only a segment that is still written is opened.
SelectedActive ==
  IF ~initial THEN {s \in Active : s = number + 1}
  ELSE IF fromStart THEN {s \in Available : s = 1}
  ELSE {s \in Active : \A t \in Active : t <= s}

\* The lowest number after the one read; the segments are numbered in order.
Selected ==
  IF ~initial THEN {s \in Available : s = number + 1}
  ELSE IF fromStart THEN {s \in Available : s = 1}
  ELSE IF Active # {} THEN {s \in Active : \A t \in Active : t <= s}
  ELSE {s \in Available : s = Len(files)}

\* seek(0, SEEK_END): no replay of a stale backlog.
OpenNext ==
  /\ ~source
  /\ \E s \in Selected :
       /\ number' = s
       /\ offset' = IF initial /\ ~fromStart THEN Len(files[s]) ELSE 0
  /\ source' = TRUE /\ initial' = FALSE /\ eof' = FALSE
  /\ UNCHANGED <<writerVars, fromStart, runtimeVars>>

Unread == SubSeq(files[number], offset + 1, Len(files[number]))
LineEnds == {i \in DOMAIN Unread : IsNewline(Unread[i])}
Line == SubSeq(Unread, 1, Min(LineEnds))

\* Mistake: the last line waits for the one after it.
NoWholeLineBefore == Cardinality(LineEnds) < 2

NoWholeLine == LineEnds = {}

\* readline returned nothing, or a fragment, which is dropped.
ReadNothing ==
  /\ source /\ ~eof /\ NoWholeLine
  /\ offset' = Len(files[number])
  /\ eof' = TRUE
  /\ UNCHANGED <<writerVars, fromStart, initial, number, source, runtimeVars>>

LookForTerminal ==
  /\ source /\ eof
  /\ eof' = FALSE
  /\ source' = ~terminal[number]
  /\ UNCHANGED <<writerVars, fromStart, initial, number, offset, runtimeVars>>
-------------------------------------------------------------------------------
(* CandidateShadowRuntime. *)

\* histories.pop(identity, None) returns what it takes out.
Places(c) == {i \in DOMAIN histories : histories[i].container = c}
Held(c) == {histories[i] : i \in Places(c)}
Without(c) ==
  IF Places(c) = {} THEN histories ELSE RemoveAt(histories, CHOOSE i \in Places(c) : TRUE)

\* Mistake: a gap is not looked at.
AnyRow(n, prior) == TRUE

InCadence(n, prior) ==
  LET gap == rows[n].end - rows[Last(prior)].end IN MinGap <= gap /\ gap <= MaxWindowGap

LastWindows(windows) ==
  SubSeq(windows, Max({1, Len(windows) - HistorySize}), Len(windows))

\* observe: a row that is degraded or cannot be decoded ends the history (one
\* that is refused for its contract is like a torn line).
Observe(n) ==
  LET c    == rows[n].container
      kept == {h \in Held(c) : InCadence(n, h.windows)}
      windows == LastWindows((IF kept = {} THEN <<>> ELSE (CHOOSE h \in kept : TRUE).windows)
                             \o <<n>>)
      all == Append(Without(c), [container |-> c, windows |-> windows])
  IN IF rows[n].intact
     THEN /\ histories' = SubSeq(all, Max({1, Len(all) - MaxIdentities + 1}), Len(all))
          /\ stacked' = IF Len(windows) = HistorySize + 1 THEN windows ELSE <<>>
     ELSE histories' = Without(c) /\ stacked' = <<>>

\* A whole line goes to observe; the end of a torn one is rejected.
ReadLine ==
  /\ source /\ ~eof /\ ~NoWholeLine
  /\ offset' = offset + Len(Line)
  /\ IF Len(Line) = 2
     THEN last' = Line[1][1] /\ Observe(Line[1][1])
     ELSE last' = Last(Line)[1] /\ stacked' = <<>> /\ UNCHANGED histories
  /\ UNCHANGED <<writerVars, fromStart, initial, number, source, eof>>

-------------------------------------------------------------------------------
Scorer == OpenNext \/ ReadNothing \/ LookForTerminal \/ ReadLine
Collection == OpenSegment \/ WriteRow \/ Spill \/ CloseSegment \/ Killed

ShadowNext == Collection \/ Scorer

ShadowSpec == ShadowInit /\ [][ShadowNext]_shadowVars

\* The scorer polls for ever; nothing is assumed of the collection.
ShadowFairSpec == ShadowSpec /\ WF_shadowVars(Scorer)
-------------------------------------------------------------------------------
ShadowTypeOK ==
  /\ rows \in Seq(FeatureRows) /\ Len(rows) <= MaxRows
  /\ files \in Seq(Seq(Pieces)) /\ terminal \in [DOMAIN files -> BOOLEAN]
  /\ open \in BOOLEAN /\ pending \in Seq(Pieces)
  /\ fromStart \in BOOLEAN /\ initial \in BOOLEAN
  /\ number \in 0 .. Len(files) /\ source \in BOOLEAN /\ eof \in BOOLEAN
  /\ source => number > 0 /\ offset \in 0 .. Len(files[number])
  /\ last \in 0 .. Len(rows)
  /\ Len(histories) <= MaxIdentities
  /\ \A h \in ToSet(histories) : h.container \in Containers /\ Len(h.windows) \in 1 .. HistorySize + 1

\* What a score is computed from is consecutive windows of one container:
\* whatever the follower lost at the end of a segment, tore or skipped at its
\* start, no row of the container lies between two windows of a context, and
\* none of them was degraded.
ContextsAreContiguous ==
  stacked # <<>> =>
    /\ Len(stacked) = HistorySize + 1
    /\ \A i \in DOMAIN stacked : rows[stacked[i]].intact
    /\ \A i \in 1 .. HistorySize :
         /\ stacked[i] < stacked[i + 1]
         /\ \A n \in stacked[i] + 1 .. stacked[i + 1] :
              rows[n].container = rows[stacked[1]].container <=> n = stacked[i + 1]

\* When the collection is quiet, a follower that began at the start of a
\* segment has taken the last whole line of the one it is in.
Taken == \A i \in DOMAIN files[number] : IsNewline(files[number][i]) => files[number][i][1] <= last
LinesAreTaken == <>[](fromStart /\ source => Taken)

\* The follower goes on to the next segment when those before it are sealed.
SealedSegmentsAreLeft ==
  \A s \in 2 .. MaxSegments :
    /\ s \in DOMAIN files /\ ~initial
    /\ \A t \in number .. s - 1 : terminal[t]
    ~> number >= s
===============================================================================
