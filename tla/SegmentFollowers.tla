--------------------------- MODULE SegmentFollowers ---------------------------
(***************************************************************************)
(* The decision stream.  The matched worker writes decisions.jsonl in one  *)
(* directory per capture segment (pipeline/matched_worker.py); two scripts *)
(* started over ssh follow the newest segment and print its lines: the     *)
(* alert bridge's (ops/alert_bridge.py, FOLLOWER) and the RCA service's    *)
(* (rca/service.py, DECISION_FOLLOWER).  The writer's buffer reaches the   *)
(* file at any byte, so a line is two pieces, <<n, 1>> and <<n, 2>>, and   *)
(* the newline ends the second.  The scripts only read, so one of them     *)
(* beside the writer is enough; script says which.  They differ in what    *)
(* they do when they see a newer segment.                                  *)
(***************************************************************************)
EXTENDS Naturals, SequencesExt, FiniteSetsExt

CONSTANTS
  MaxLines,        \* bound on the decision lines written
  MaxSegments,     \* bound on the segments opened
  MaxConnections   \* bound on the times the script is started

ASSUME StreamAssumption ==
  MaxLines \in Nat /\ MaxSegments \in Nat /\ MaxConnections \in Nat \ {0}

VARIABLES
  files,        \* per segment, the pieces a reader of its file sees
  open,         \* the worker has the newest segment's file open
  pending,      \* pieces in the worker's buffer of that file
  written,      \* how many lines the worker wrote
  script,       \* which of the two scripts follows
  pc,           \* its place in the script
  path,         \* the segment it reads; 0 before it found one
  offset,       \* how far it has read
  entry,        \* where in the segment it began
  buf,          \* read and not yet printed
  latest,       \* what newest() returned
  out,          \* pieces printed, over all connections
  connections,  \* how often the script was started
  began         \* the lengths of out at which a connection began

writerVars == <<files, open, pending, written>>
readVars   == <<path, offset, entry, buf, out>>
sessionVars == <<connections, began>>
vars == <<writerVars, script, pc, readVars, latest, sessionVars>>

Scripts == {"bridge", "rca"}
Pieces == (1 .. MaxLines) \X {1, 2}
IsNewline(piece) == piece[2] = 2
-------------------------------------------------------------------------------
Init ==
  /\ files = <<>> /\ open = FALSE /\ pending = <<>> /\ written = 0
  /\ script \in Scripts
  /\ pc = "find" /\ path = 0 /\ offset = 0 /\ entry = 0
  /\ buf = <<>> /\ latest = 0 /\ out = <<>>
  /\ connections = 1 /\ began = {0}
-------------------------------------------------------------------------------
(* The matched worker. *)

followerVars == <<script, pc, readVars, latest, sessionVars>>

OpenSegment ==
  /\ ~open /\ Len(files) < MaxSegments
  /\ files' = Append(files, <<>>)
  /\ open' = TRUE
  /\ UNCHANGED <<pending, written, followerVars>>

WriteLine ==
  /\ open /\ written < MaxLines
  /\ written' = written + 1
  /\ pending' = pending \o <<<<written', 1>>, <<written', 2>>>>
  /\ UNCHANGED <<files, open, followerVars>>

ToFile(n) == files' = [files EXCEPT ![Len(files)] = @ \o SubSeq(pending, 1, n)]

\* The buffer of the handle overflows, or the frame ends with a flush.
Spill ==
  /\ open
  /\ \E n \in 1 .. Len(pending) :
       /\ ToFile(n)
       /\ pending' = SubSeq(pending, n + 1, Len(pending))
  /\ UNCHANGED <<open, written, followerVars>>

CloseSegment ==
  /\ open
  /\ ToFile(Len(pending))
  /\ pending' = <<>> /\ open' = FALSE
  /\ UNCHANGED <<written, followerVars>>

\* The worker is killed: its buffer is lost, a line may stay torn.
Killed ==
  /\ open
  /\ pending' = <<>> /\ open' = FALSE
  /\ UNCHANGED <<files, written, followerVars>>
-------------------------------------------------------------------------------
(* A follower's script. *)

Go(place) == pc' = place /\ UNCHANGED script

File == files[path]

Unread == SubSeq(File, offset + 1, Len(File))

Find ==
  /\ pc = "find" /\ files # <<>>
  /\ path' = Len(files)
  /\ Go("open")
  /\ UNCHANGED <<writerVars, offset, entry, buf, out, latest, sessionVars>>

\* stream.seek(0, 2): no backfill.
SeekEnd ==
  /\ pc = "open"
  /\ offset' = Len(File)
  /\ entry' = Len(File)
  /\ buf' = <<>>
  /\ Go("read")
  /\ UNCHANGED <<writerVars, path, out, latest, sessionVars>>

\* Mistake: the last whole line waits for the next one.
WholeLengthHoldingBack(text) ==
  Max({0} \cup {i \in DOMAIN text : \E j \in DOMAIN text :
                  j > i /\ IsNewline(text[i]) /\ IsNewline(text[j])})

\* *lines, buf = buf.split(b"\n"): how far the whole lines reach.
WholeLength(text) ==
  Max({0} \cup {i \in DOMAIN text : IsNewline(text[i])})

Read ==
  /\ pc = "read"
  /\ IF Unread = <<>>
     THEN Go("look") /\ UNCHANGED readVars
     ELSE LET text == buf \o Unread
              cut  == WholeLength(text)
          IN /\ out' = out \o SubSeq(text, 1, cut)
             /\ buf' = SubSeq(text, cut + 1, Len(text))
             /\ offset' = Len(File)
             /\ UNCHANGED <<path, entry, pc, script>>
  /\ UNCHANGED <<writerVars, latest, sessionVars>>

Look ==
  /\ pc = "look"
  /\ latest' = Len(files)
  /\ Go(IF Len(files) # path THEN "check" ELSE "read")
  /\ UNCHANGED <<writerVars, readVars, sessionVars>>

\* Mistake: the torn end of one segment is kept for the next.
SwitchKeepingTail ==
  /\ path' = latest
  /\ offset' = 0 /\ entry' = 0
  /\ UNCHANGED buf

\* path, stream, buf = latest, open(latest, "rb"), b""
SwitchTo ==
  /\ path' = latest
  /\ offset' = 0 /\ entry' = 0
  /\ buf' = <<>>

\* Mistake: a newer segment is followed without a last look at the old one.
CheckBridgeAtOnce ==
  /\ script = "bridge" /\ pc = "check"
  /\ Go("read")
  /\ SwitchTo
  /\ UNCHANGED <<writerVars, out, latest, sessionVars>>

\* if stream.read(1): stream.seek(-1, 1); continue
CheckBridge ==
  /\ script = "bridge" /\ pc = "check"
  /\ Go("read")
  /\ IF Unread # <<>> THEN UNCHANGED <<path, offset, entry, buf>>
                      ELSE SwitchTo
  /\ UNCHANGED <<writerVars, out, latest, sessionVars>>

\* rest = stream.read(); if rest: buf += rest; continue
CheckRca ==
  /\ script = "rca" /\ pc = "check"
  /\ Go("read")
  /\ IF Unread # <<>>
     THEN /\ buf' = buf \o Unread
          /\ offset' = Len(File)
          /\ UNCHANGED <<path, entry>>
     ELSE SwitchTo
  /\ UNCHANGED <<writerVars, out, latest, sessionVars>>

\* The connection ends (rotation after rotate_seconds, a lost link) and the
\* service starts the script again.
Reconnect ==
  /\ pc # "find" /\ connections < MaxConnections
  /\ Go("find")
  /\ path' = 0
  /\ offset' = 0
  /\ entry' = 0
  /\ buf' = <<>>
  /\ latest' = 0
  /\ connections' = connections + 1
  /\ began' = began \cup {Len(out)}
  /\ UNCHANGED <<writerVars, out>>
-------------------------------------------------------------------------------
Worker == OpenSegment \/ WriteLine \/ Spill \/ CloseSegment \/ Killed

Follower == Find \/ SeekEnd \/ Read \/ Look \/ CheckBridge \/ CheckRca

Next == Worker \/ Follower \/ Reconnect

Spec == Init /\ [][Next]_vars

\* The scripts loop for ever; nothing is assumed of the worker.
FairSpec == Spec /\ WF_vars(Follower)
-------------------------------------------------------------------------------
TypeOK ==
  /\ files \in Seq(Seq(Pieces)) /\ Len(files) <= MaxSegments
  /\ open \in BOOLEAN
  /\ pending \in Seq(Pieces)
  /\ written \in 0 .. MaxLines
  /\ script \in Scripts
  /\ pc \in {"find", "open", "read", "look", "check"}
  /\ path \in 0 .. Len(files) /\ latest \in 0 .. Len(files)
  /\ entry \in Nat /\ offset \in Nat
  /\ path > 0 => entry <= offset /\ offset <= Len(File)
  /\ buf \in Seq(Pieces) /\ out \in Seq(Pieces)
  /\ connections \in 1 .. MaxConnections
  /\ began \subseteq 0 .. Len(out)

\* What a script prints is whole lines, in the order they were written and
\* each at most once, across segments, torn segment ends and reconnections.
\* Only the first line of a connection may lack its beginning (the script
\* starts at the end of a file that may end inside a line).
WholeLinesInOrder ==
  \A i \in DOMAIN out :
    LET after == IF i < Len(out) THEN out[i + 1] ELSE <<MaxLines + 1, 1>>
    IN IF IsNewline(out[i])
       THEN /\ after[1] > out[i][1]
            /\ i - 1 \in began \/ (i > 1 /\ out[i - 1] = <<out[i][1], 1>>)
       ELSE after = <<out[i][1], 2>>

Printed(piece) == \E j \in DOMAIN out : out[j] = piece

\* A script that leaves a segment for a newer one has printed every whole line
\* the segment holds from where the script began.  (Of the RCA service's script
\* this is false: it reads the end of the segment into buf and drops it.)
Drains ==
  path # 0 /\ path' \notin {0, path} =>
    \A i \in entry + 1 .. Len(File) : IsNewline(File[i]) => Printed(File[i])

BridgeDrains == [][script = "bridge" => Drains]_vars

\* A whole line of the segment a script reads is printed, unless the
\* connection ends first: by the bridge's script whatever the worker does, by
\* the RCA service's as long as no newer segment is opened.
LinesArePrinted ==
  \A n \in 1 .. MaxLines, c \in 1 .. MaxConnections :
    /\ pc = "read" /\ connections = c
    /\ \E i \in entry + 1 .. Len(File) : File[i] = <<n, 2>>
    ~> \/ connections > c
       \/ script = "rca" /\ Len(files) > path
       \/ Printed(<<n, 2>>)
===============================================================================
