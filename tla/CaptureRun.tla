------------------------------- MODULE CaptureRun -------------------------------
(***************************************************************************)
(* A capture of a given duration over crashes, full disks and restarts:    *)
(* the matched worker (pipeline/matched_worker.py) and the collection      *)
(* before it (collector/extended_collection.py).  Both write segments,     *)
(* seal each with TERMINAL.json, keep STATUS.json to resume from, and      *)
(* write the run's TERMINAL.json when the duration is captured.  They      *)
(* differ in who writes STATUS.json (the worker's AsyncState thread, or    *)
(* the loop itself), in what a checkpoint flushes, in the order of the two *)
(* last writes of a segment, and in the collection's storage budget.       *)
(*                                                                         *)
(* A frame gives lines to every sink; of a segment the model keeps how     *)
(* many frames its sinks were given, how many every one of its files       *)
(* holds, and how many a failed write took with it.  Time is the number of *)
(* intervals in cadence.  The threads of the worker's sinks can die (as in *)
(* AsyncSink), also under a loop that waits for room in their queue.       *)
(***************************************************************************)
EXTENDS Integers, FiniteSetsExt, Functions, TLC

CONSTANTS
  Kinds,        \* subset of {"worker", "collection"}
  Seconds,      \* intervals in cadence the run is registered for
  Budget,       \* bytes of the collection's registered budget, in raw lines
  MaxSegments,  \* bound on segments
  MaxTroubles   \* bound on kills, signals, failed calls, dead sinks, full disks, lost loaders

ASSUME CaptureAssumption ==
  /\ Kinds \subseteq {"worker", "collection"}
  /\ Seconds \in Nat \ {0} /\ Budget \in Nat \ {0}
  /\ MaxSegments \in Nat \ {0} /\ MaxTroubles \in Nat

VARIABLES
  kind,      \* which of the two programs
  troubles,  \* how many went wrong
  low,       \* the file system is below minimum_free_bytes
  at,        \* where the process is
  stop,      \* it has seen a signal
  failing,   \* an exception is on its way out of the segment
  doc,       \* its state document
  pending, writing,  \* AsyncState: _doc, the document its thread writes
  status,    \* STATUS.json
  terminal,  \* the run's TERMINAL.json
  made,      \* numbers of the segment directories
  given, file,  \* per segment: frames given to the sinks, frames in all its files
  lost,      \* per segment: frames that went with the chunk of a failed write
  seals,     \* per segment: the frames TERMINAL.json seals, or NotSealed
  last, beats,  \* a boundary is known; frames since the checkpoint
  todo,      \* sinks still to close
  dead       \* sinks whose thread ended with an error

threadVars == <<pending, writing, status>>
segVars == <<made, given, file, lost, seals>>
frameVars == <<last, beats, todo, dead>>
vars == <<kind, troubles, low, at, stop, failing, doc, threadVars, terminal, segVars,
          frameVars>>

Sinks == {"raw", "features"}
Segments == 1 .. MaxSegments
NoDoc == <<>>
NotSealed == -1
Registered == [state |-> "registered", done |-> 0, segments |-> 0, max |-> Budget, paused |-> FALSE]
Places == {"down", "loop", "cleared", "segment", "checkpoint", "closing", "blocked", "seal",
           "save", "leaving", "ending", "final", "terminal", "finished"}
Current == doc.segments
Used == MapThenSumSet(LAMBDA n : file[n], made)
Worker == kind = "worker"
-------------------------------------------------------------------------------
Init ==
  /\ kind \in Kinds
  /\ troubles = 0 /\ low = FALSE
  /\ at = "down" /\ stop = FALSE /\ failing = FALSE
  /\ doc = Registered /\ pending = NoDoc /\ writing = NoDoc
  /\ status = NoDoc /\ terminal = NoDoc
  /\ made = {} /\ given = [n \in Segments |-> 0] /\ file = given /\ lost = given
  /\ seals = [n \in Segments |-> NotSealed]
  /\ last = FALSE /\ beats = 0 /\ todo = {} /\ dead = {}

Trouble == troubles < MaxTroubles /\ troubles' = troubles + 1

\* save_state, or atomic_json of the collection.
Save(d) ==
  IF Worker THEN pending' = d /\ UNCHANGED <<writing, status>>
  ELSE status' = d /\ UNCHANGED <<pending, writing>>

\* The service manager starts the process: on-failure, without a limit.
Start ==
  /\ at = "down"
  /\ doc' = IF status = NoDoc THEN Registered ELSE status
  /\ at' = IF terminal = NoDoc THEN "loop" ELSE "finished"
  /\ UNCHANGED <<kind, troubles, low, stop, failing, threadVars, terminal, segVars, frameVars>>
-------------------------------------------------------------------------------
(* Between segments. *)

Wanted == ~stop /\ doc.done < Seconds

WaitForStorage ==
  /\ at = "loop" /\ Wanted /\ low
  /\ doc' = [doc EXCEPT !.state = "waiting", !.paused = IF Worker THEN @ ELSE TRUE]
  /\ Save(doc')
  /\ UNCHANGED <<kind, troubles, low, at, stop, failing, terminal, segVars, frameVars>>

OverBudget == ~Worker /\ Used >= doc.max

\* The budget grows into what is free above the reserve; this pass of the loop
\* goes on to the segment without testing again.
ExpandBudget ==
  /\ at = "loop" /\ Wanted /\ ~low /\ OverBudget
  /\ \E spare \in 1 .. 2 : doc' = [doc EXCEPT !.state = "expanded", !.max = Used + spare]
  /\ Save(doc')
  /\ at' = "cleared"
  /\ UNCHANGED <<kind, troubles, low, stop, failing, terminal, segVars, frameVars>>

\* The tests of this pass are done.
Cleared == at = "cleared" \/ (at = "loop" /\ Wanted /\ ~low /\ ~OverBudget)

ResumeAfterPause ==
  /\ Cleared /\ doc.paused
  /\ doc' = [doc EXCEPT !.paused = FALSE]
  /\ Save(doc')
  /\ at' = "cleared"
  /\ UNCHANGED <<kind, troubles, low, stop, failing, terminal, segVars, frameVars>>

NextNumber == Min({n \in Segments : n > doc.segments /\ n \notin made})

OpenSegment ==
  /\ Cleared /\ ~doc.paused
  /\ \E n \in Segments : n > doc.segments /\ n \notin made
  /\ doc' = [doc EXCEPT !.segments = NextNumber]
  /\ made' = made \cup {NextNumber}
  /\ at' = "segment" /\ last' = FALSE /\ beats' = 0
  /\ UNCHANGED <<kind, troubles, low, stop, failing, threadVars, terminal, given, file,
                 lost, seals, todo, dead>>
-------------------------------------------------------------------------------
(* In a segment. *)

Counted(inCadence) == IF last /\ inCadence THEN doc.done + 1 ELSE doc.done

Give == given' = [given EXCEPT ![Current] = @ + 1]

\* Frames that are already in the buffer are taken after a signal, and after
\* the duration is reached.  Bounds: one frame too many, two to a checkpoint.
Buffered == at = "segment" /\ doc.done <= Seconds /\ beats < 2

\* A frame in cadence.
Frame ==
  /\ Buffered /\ dead = {}
  /\ doc' = [doc EXCEPT !.done = Counted(TRUE)]
  /\ Give
  /\ last' = TRUE /\ beats' = beats + 1
  /\ UNCHANGED <<kind, troubles, low, at, stop, failing, threadVars, terminal, made, file,
                 lost, seals, todo, dead>>

\* A frame that is late, or rejected before or after its time was counted: the
\* worker then forgets the boundary, the collection keeps the one it knows.
BadFrame ==
  /\ Buffered /\ dead = {} /\ Trouble
  /\ \E counted \in BOOLEAN :
       /\ doc' = [doc EXCEPT !.done = Counted(counted)]
       /\ \/ ~counted /\ last' = TRUE
          \/ last' = (~Worker /\ (last \/ counted))
  /\ Give
  /\ beats' = beats + 1
  /\ UNCHANGED <<kind, low, at, stop, failing, threadVars, terminal, made, file, lost, seals,
                 todo, dead>>

Running == at \notin {"down", "finished"}

\* Threads and buffers of the sinks write the next frame.
Spill ==
  /\ Running /\ Current \in made /\ dead = {}
  /\ file[Current] + lost[Current] < given[Current]
  /\ file' = [file EXCEPT ![Current] = @ + 1]
  /\ UNCHANGED <<kind, troubles, low, at, stop, failing, doc, threadVars, terminal, made,
                 given, lost, seals, frameVars>>

\* Mistake: the checkpoint of the collection does not flush its files.
FlushedNothing == file

Flushed == [file EXCEPT ![Current] = given[Current] - lost[Current]]

\* The collection flushes and syncs its files before the checkpoint.
CheckpointFlush ==
  /\ ~Worker /\ at = "segment" /\ beats = 2
  /\ file' = Flushed
  /\ at' = "checkpoint"
  /\ UNCHANGED <<kind, troubles, low, stop, failing, doc, threadVars, terminal, made, given,
                 lost, seals, frameVars>>

\* The checkpoint, and what ends a segment there; the worker's also by age.
Checkpoint ==
  /\ at = (IF Worker THEN "segment" ELSE "checkpoint") /\ beats = 2
  /\ doc' = [doc EXCEPT !.state = "running"]
  /\ Save(doc') /\ beats' = 0
  /\ IF low \/ OverBudget THEN at' = "closing" /\ todo' = Sinks /\ UNCHANGED troubles
     ELSE \/ at' = "segment" /\ UNCHANGED <<todo, troubles>>
          \/ Worker /\ at' = "closing" /\ todo' = Sinks /\ Trouble
  /\ UNCHANGED <<kind, low, stop, failing, terminal, segVars, last, dead>>

ToClosing == at' = "closing" /\ todo' = Sinks

EndSegment ==
  /\ at = "segment" /\ ~Wanted
  /\ ToClosing
  /\ UNCHANGED <<kind, troubles, low, stop, failing, doc, threadVars, terminal, segVars,
                 last, beats, dead>>

LoaderGone ==
  /\ at = "segment" /\ Trouble
  /\ ToClosing
  /\ UNCHANGED <<kind, low, stop, failing, doc, threadVars, terminal, segVars, last, beats,
                 dead>>

\* A write of a frame raises OSError, which no handler of the frame takes.  The
\* frame is not whole, and a text file drops the chunk it could not write.
AbandonFrame ==
  /\ Buffered
  /\ \E counted \in BOOLEAN : doc' = [doc EXCEPT !.done = Counted(counted)]
  /\ Give
  /\ \E n \in 1 .. given'[Current] - file[Current] : lost' = [lost EXCEPT ![Current] = n]
  /\ failing' = TRUE /\ ToClosing
  /\ UNCHANGED <<kind, low, stop, threadVars, terminal, made, file, seals, last, beats, dead>>

FrameFails == dead = {} /\ Trouble /\ AbandonFrame

\* write of a sink whose thread is dead raises.
WriteRaises == dead # {} /\ AbandonFrame /\ UNCHANGED troubles

\* A flush, or STATUS.json, of the collection's checkpoint.
CheckpointFails ==
  /\ ~Worker /\ at \in {"segment", "checkpoint"} /\ beats = 2 /\ Trouble
  /\ \E n \in 0 .. given[Current] - file[Current] : lost' = [lost EXCEPT ![Current] = n]
  /\ failing' = TRUE /\ ToClosing
  /\ UNCHANGED <<kind, low, stop, doc, threadVars, terminal, made, given, file, seals, last,
                 beats, dead>>

\* The thread of an open sink ends with an error.  The loop goes on, or it is in
\* put of a line or of STOP on the full queue that nobody empties any more.
SinkDies(s) ==
  /\ Worker /\ Trouble /\ s \notin dead
  /\ at = "segment" \/ (at \in {"closing", "leaving"} /\ s \in todo)
  /\ dead' = dead \cup {s}
  /\ at' \in {at, "blocked"}
  /\ UNCHANGED <<kind, low, stop, failing, doc, threadVars, terminal, segVars, last, beats, todo>>
-------------------------------------------------------------------------------
(* The end of a segment: the finally block. *)

AfterSinks == IF Worker THEN "seal" ELSE "save"

\* Mistake: an exception of close is swallowed and the segment sealed.
AfterFailedCloseSwallowed == [at |-> AfterSinks, failing |-> FALSE]

AfterFailedClose == [at |-> "leaving", failing |-> TRUE]

\* One sink is closed (flushed and synced), in any order, or raises: that of a
\* dead thread always does.  What is then still open is closed while leaving.
CloseSink(s) ==
  /\ at = "closing" /\ s \in todo
  /\ todo' = todo \ {s}
  /\ \/ /\ s \notin dead
        /\ IF todo' = {} THEN at' = AfterSinks /\ file' = Flushed
           ELSE UNCHANGED <<at, file>>
        /\ UNCHANGED <<troubles, failing>>
     \/ /\ IF s \in dead THEN UNCHANGED troubles ELSE Trouble
        /\ at' = AfterFailedClose.at /\ failing' = AfterFailedClose.failing
        /\ UNCHANGED file
  /\ UNCHANGED <<kind, low, stop, doc, threadVars, terminal, made, given, lost, seals, last,
                 beats, dead>>

AfterSegment == IF failing THEN "leaving" ELSE "loop"

Seal ==
  /\ at = "seal"
  /\ seals' = [seals EXCEPT ![Current] = file[Current]]
  /\ at' = IF Worker THEN "save" ELSE AfterSegment
  /\ UNCHANGED <<kind, troubles, low, stop, failing, doc, threadVars, terminal, made, given,
                 file, lost, frameVars>>

SaveClosed ==
  /\ at = "save"
  /\ doc' = [doc EXCEPT !.state = "segment_closed"]
  /\ Save(doc')
  /\ at' = IF Worker THEN AfterSegment ELSE "seal"
  /\ UNCHANGED <<kind, troubles, low, stop, failing, terminal, segVars, frameVars>>

\* TERMINAL.json, or the STATUS.json of the collection, cannot be written.
SealFails ==
  /\ at = "seal" \/ (at = "save" /\ ~Worker)
  /\ Trouble
  /\ at' = "leaving" /\ failing' = TRUE
  /\ UNCHANGED <<kind, low, stop, doc, threadVars, terminal, segVars, frameVars>>

\* The process is gone with what only it held.
Gone ==
  /\ at' = "down" /\ stop' = FALSE /\ failing' = FALSE /\ doc' = Registered
  /\ pending' = NoDoc /\ writing' = NoDoc
  /\ last' = FALSE /\ beats' = 0 /\ todo' = {} /\ dead' = {}
  /\ given' = [n \in Segments |-> file'[n] + lost[n]]
  /\ UNCHANGED lost

\* The exception closes the files that are still open and ends the process.
Leave ==
  /\ at = "leaving"
  /\ \E n \in file[Current] .. given[Current] - lost[Current] :
       file' = [file EXCEPT ![Current] = n]
  /\ Gone
  /\ UNCHANGED <<kind, troubles, low, status, terminal, made, seals>>
-------------------------------------------------------------------------------
(* The end of the run. *)

EndRun ==
  /\ at = "loop" /\ ~Wanted
  /\ at' = "ending"
  /\ UNCHANGED <<kind, troubles, low, stop, failing, doc, threadVars, terminal, segVars,
                 frameVars>>

\* Mistake: close of the state writer does not wait for its thread.
WriterDoneAtOnce == TRUE

\* Mistake: it waits until the last state is on disk, which a failed write of the
\* thread never brings there.
WriterSaved == pending = NoDoc /\ writing = NoDoc /\ status = doc

WriterDone == pending = NoDoc /\ writing = NoDoc

\* AsyncState.close joins the thread.
JoinWriter ==
  /\ at = "ending" /\ WriterDone
  /\ at' = "final"
  /\ UNCHANGED <<kind, troubles, low, stop, failing, doc, threadVars, terminal, segVars,
                 frameVars>>

\* After a signal the process ends with status 1; otherwise the last state.
Final ==
  /\ at = "final" /\ ~stop
  /\ doc' = [doc EXCEPT !.state = "completed"]
  /\ IF Worker THEN status' = doc' /\ UNCHANGED <<pending, writing>> ELSE UNCHANGED threadVars
  /\ at' = "terminal"
  /\ UNCHANGED <<kind, troubles, low, stop, failing, terminal, segVars, frameVars>>

Stopped ==
  /\ at = "final" /\ stop
  /\ UNCHANGED file /\ Gone
  /\ UNCHANGED <<kind, troubles, low, status, terminal, made, seals>>

WriteTerminal ==
  /\ at = "terminal"
  /\ terminal' = doc
  /\ at' = "finished"
  /\ UNCHANGED <<kind, troubles, low, stop, failing, doc, threadVars, segVars, frameVars>>
-------------------------------------------------------------------------------
(* The thread of AsyncState, and the environment. *)

TakeState ==
  /\ pending # NoDoc /\ writing = NoDoc
  /\ writing' = pending /\ pending' = NoDoc
  /\ UNCHANGED <<kind, troubles, low, at, stop, failing, doc, status, terminal, segVars,
                 frameVars>>

\* The OSError of a failed write is swallowed.
WriteState ==
  /\ writing # NoDoc
  /\ writing' = NoDoc
  /\ \/ status' = writing /\ UNCHANGED troubles
     \/ Trouble /\ UNCHANGED status
  /\ UNCHANGED <<kind, low, at, stop, failing, doc, pending, terminal, segVars, frameVars>>

Signal ==
  /\ Running /\ ~stop /\ Trouble
  /\ stop' = TRUE
  /\ UNCHANGED <<kind, low, at, failing, doc, threadVars, terminal, segVars, frameVars>>

\* SIGKILL, or an exception between segments.
Kill ==
  /\ Running /\ Trouble
  /\ UNCHANGED file /\ Gone
  /\ UNCHANGED <<kind, low, status, terminal, made, seals>>

StorageLow ==
  /\ ~low /\ at # "finished" /\ Trouble
  /\ low' = TRUE
  /\ UNCHANGED <<kind, at, stop, failing, doc, threadVars, terminal, segVars, frameVars>>

StorageBack ==
  /\ low
  /\ low' = FALSE
  /\ UNCHANGED <<kind, troubles, at, stop, failing, doc, threadVars, terminal, segVars,
                 frameVars>>
-------------------------------------------------------------------------------
StateThread == TakeState \/ WriteState

\* What the process does next when nothing goes wrong.
Proceed ==
  \/ WaitForStorage \/ ExpandBudget \/ ResumeAfterPause \/ OpenSegment \/ EndRun
  \/ CheckpointFlush \/ Checkpoint \/ EndSegment \/ (\E s \in Sinks : CloseSink(s))
  \/ WriteRaises \/ Seal \/ SaveClosed \/ Leave \/ JoinWriter \/ Final \/ Stopped \/ WriteTerminal

Next ==
  \/ Start \/ Proceed \/ Frame \/ StateThread \/ StorageBack
  \/ BadFrame \/ LoaderGone \/ FrameFails \/ CheckpointFails \/ (\E s \in Sinks : SinkDies(s))
  \/ SealFails \/ Signal \/ Kill \/ StorageLow \/ Spill

Spec == Init /\ [][Next]_vars

\* systemd starts the unit again (StartLimitIntervalSec=0); the process, where it
\* is not blocked, and the state thread run; the loader sends frames; the storage
\* comes back.  Nothing ends a process that is blocked: the unit has no watchdog.
FairSpec ==
  /\ Spec
  /\ WF_vars(Start) /\ WF_vars(Proceed) /\ WF_vars(StateThread)
  /\ WF_vars(Frame) /\ WF_vars(StorageBack)
-------------------------------------------------------------------------------
Docs == [state : {"registered", "waiting", "expanded", "running", "segment_closed", "completed"},
         done : 0 .. Seconds + 1, segments : 0 .. MaxSegments, max : Nat, paused : BOOLEAN]

TypeOK ==
  /\ kind \in Kinds /\ troubles \in 0 .. MaxTroubles /\ low \in BOOLEAN
  /\ at \in Places /\ stop \in BOOLEAN /\ failing \in BOOLEAN
  /\ doc \in Docs /\ {pending, writing, status, terminal} \subseteq Docs \cup {NoDoc}
  /\ made \subseteq Segments
  /\ given \in [Segments -> Nat]
  /\ lost \in [Segments -> Nat]
  /\ \A n \in Segments : file[n] \in 0 .. given[n] /\ (seals[n] # NotSealed => n \in made)
  /\ last \in BOOLEAN /\ beats \in 0 .. 2 /\ todo \subseteq Sinks /\ dead \subseteq Sinks
  /\ kind = "collection" => pending = NoDoc /\ writing = NoDoc

\* What TERMINAL.json seals is every line the segment was given, less what a
\* write that failed took with it, and the files of a sealed segment, of this or
\* an earlier process, never change again; the open segment is the newest one,
\* which is what the followers read.
SealsHold ==
  /\ \A n \in Segments : seals[n] # NotSealed =>
       seals[n] = file[n] /\ seals[n] + lost[n] = given[n]
  /\ at \in {"segment", "checkpoint", "closing"} => \A n \in made : n <= Current

\* A run that says it is completed captured its duration, and nothing writes
\* over its last status.
CompletionIsFinal ==
  terminal # NoDoc => /\ terminal.done >= Seconds
                      /\ kind = "worker" => status = terminal
                      /\ at \in {"down", "finished"}

\* The intervals between f[n] frames of each segment n, and in all segments.
Between(f) == [n \in Segments |-> IF f[n] = 0 THEN 0 ELSE f[n] - 1]
IntervalsOf(f) == MapThenSumSet(LAMBDA n : Between(f)[n], made)

\* What is in the files, and what a failed write took.
Held == [n \in Segments |-> file[n] + lost[n]]

\* The duration a collection resumes from, or ends with, lies between frames that
\* are in its files, or that a failed write took: a checkpoint flushes what it
\* counts, also when the process is killed right after it.  (The worker's
\* checkpoint may run ahead of its sinks.)
ClaimsAreBacked ==
  \A d \in {status, terminal} : kind = "collection" /\ d # NoDoc => d.done <= IntervalsOf(Held)

\* After a bounded number of troubles the run is completed, or its worker is
\* blocked for ever: in put or close, on the full queue of a sink whose thread is
\* dead.  Nothing else, no failed call, full disk, lost loader, signal or restart
\* between any two writes, keeps a run from its end.
RunCompletes ==
  <>(at = "finished" /\ terminal # NoDoc) \/ <>[](Worker /\ dead # {} /\ at = "blocked")
===============================================================================
