------------------------------- MODULE AsyncSink -------------------------------
(***************************************************************************)
(* pipeline/async_sink.py, class AsyncSink: a file whose lines are written *)
(* by a background thread.  Two actors share a bounded queue: the scoring  *)
(* loop of the matched worker (write, close) and the sink's thread (_run). *)
(* A line is its ordinal.  Times are abstracted: a flush or a cache drop   *)
(* is due at an iteration or not, except that an iteration whose get timed *)
(* out waited flush_seconds, so its flush is due.                          *)
(***************************************************************************)
EXTENDS Naturals, SequencesExt

CONSTANTS
  MaxLines,    \* capacity of the queue (max_lines, 200000 in the code)
  BatchMax,    \* lines of one batch (4096 in the code)
  MaxWrites,   \* bound on the lines the scoring loop writes
  Faults,      \* the calls on the file that may raise OSError
  STOP         \* _STOP, the end mark of the queue

ASSUME SinkAssumption ==
  /\ MaxLines \in Nat \ {0}
  /\ BatchMax \in Nat \ {0}
  /\ MaxWrites \in Nat
  /\ Faults \subseteq {"write", "flush", "sync"}
  /\ STOP \notin Nat

VARIABLES
  queue,      \* queue.Queue(max_lines): lines, then STOP
  accepted,   \* history: the lines put on the queue, in order
  loop,       \* where the scoring loop is inside write or close
  writer,     \* where the thread is inside _run; "exited" once it returned
  batch,      \* lines taken from the queue and not yet given to the handle
  stopping,   \* the batch ended with STOP
  timedOut,   \* this iteration's get timed out
  buffered,   \* lines in the handle's user-space buffer
  file,       \* lines a reader of the file sees
  durable,    \* how many lines of the file fdatasync or fsync made durable
  error,      \* self.error is set
  closed      \* self.handle.closed

loopVars   == <<loop, accepted>>
threadVars == <<writer, batch, stopping, timedOut>>
fileVars   == <<buffered, file, durable, closed>>
vars == <<queue, accepted, loop, writer, batch, stopping, timedOut,
          buffered, file, durable, error, closed>>

LoopStates == {"ready", "putting", "waiting", "stopping", "joining",
               "sealing", "syncing", "raised", "closed"}
WriterStates == {"get", "collect", "write", "flush", "drop", "exited"}

Lines == 1 .. MaxWrites
-------------------------------------------------------------------------------
Full == Len(queue) >= MaxLines
Alive == writer # "exited"

Init ==
  /\ queue = <<>> /\ accepted = <<>>
  /\ loop = "ready"
  /\ writer = "get" /\ batch = <<>> /\ stopping = FALSE /\ timedOut = FALSE
  /\ buffered = <<>> /\ file = <<>> /\ durable = 0
  /\ error = FALSE /\ closed = FALSE
-------------------------------------------------------------------------------
(* The scoring loop: write. *)

Put(line) ==
  /\ queue' = Append(queue, line)
  /\ accepted' = Append(accepted, line)
  /\ loop' = "ready"

\* The error flag is read first; the put is a later step.
WriteCheck ==
  /\ loop = "ready" /\ ~closed
  /\ Len(accepted) < MaxWrites
  /\ loop' = IF error THEN "raised" ELSE "putting"
  /\ UNCHANGED <<queue, accepted, threadVars, fileVars, error>>

PutNowait ==
  /\ loop = "putting"
  /\ IF Full THEN loop' = "waiting" /\ UNCHANGED <<queue, accepted>>
             ELSE Put(Len(accepted) + 1)
  /\ UNCHANGED <<threadVars, fileVars, error>>

\* Mistake: the blocked producer appends without looking for room again.
PutWaitingUnbounded ==
  /\ loop = "waiting"
  /\ Put(Len(accepted) + 1)
  /\ UNCHANGED <<threadVars, fileVars, error>>

\* queue.put without a timeout: returns only when there is room.
PutWaiting ==
  /\ loop = "waiting" /\ ~Full
  /\ Put(Len(accepted) + 1)
  /\ UNCHANGED <<threadVars, fileVars, error>>
-------------------------------------------------------------------------------
(* The scoring loop: close.  The worker calls it in its finally block and  *)
(* again from __exit__, so also after an error and after a first close.    *)

Close ==
  /\ loop \in {"ready", "raised", "closed"}
  /\ loop' = IF Alive THEN "stopping" ELSE "sealing"
  /\ UNCHANGED <<queue, accepted, threadVars, fileVars, error>>

PutStop ==
  /\ loop = "stopping" /\ ~Full
  /\ queue' = Append(queue, STOP)
  /\ loop' = "joining"
  /\ UNCHANGED <<accepted, threadVars, fileVars, error>>

Join ==
  /\ loop = "joining" /\ ~Alive
  /\ loop' = "sealing"
  /\ UNCHANGED <<queue, accepted, threadVars, fileVars, error>>

\* The first n lines of the handle's buffer reach the file.
Spill(n, buf) ==
  /\ file' = file \o SubSeq(buf, 1, n)
  /\ buffered' = SubSeq(buf, n + 1, Len(buf))

\* Mistake: close forgets the thread's error.
OutcomeIgnoringError == "closed"

Outcome == IF error THEN "raised" ELSE "closed"

CloseFlush ==
  /\ loop = "sealing"
  /\ IF closed
     THEN /\ loop' = Outcome
          /\ UNCHANGED <<file, buffered>>
     ELSE \/ Spill(Len(buffered), buffered) /\ loop' = "syncing"
          \/ /\ "flush" \in Faults
             /\ \E n \in 0 .. Len(buffered) : Spill(n, buffered)
             /\ loop' = "raised"
  /\ UNCHANGED <<queue, accepted, threadVars, durable, closed, error>>

CloseSync ==
  /\ loop = "syncing"
  /\ \/ /\ durable' = Len(file)
        /\ closed' = TRUE
        /\ loop' = Outcome
     \/ /\ "sync" \in Faults
        /\ loop' = "raised"
        /\ UNCHANGED <<durable, closed>>
  /\ UNCHANGED <<queue, accepted, threadVars, buffered, file, error>>
-------------------------------------------------------------------------------
(* The thread: _run. *)

Fail ==
  /\ error' = TRUE
  /\ writer' = "exited"

GetFirst ==
  /\ writer = "get" /\ queue # <<>>
  /\ batch' = <<Head(queue)>>
  /\ queue' = Tail(queue)
  /\ timedOut' = FALSE
  /\ writer' = "collect"
  /\ UNCHANGED <<loopVars, stopping, fileVars, error>>

GetTimesOut ==
  /\ writer = "get" /\ queue = <<>>
  /\ timedOut' = TRUE
  /\ writer' = "collect"
  /\ UNCHANGED <<queue, loopVars, batch, stopping, fileVars, error>>

StopTaken == batch # <<>> /\ Last(batch) = STOP

BatchOpen == Len(batch) < BatchMax /\ ~StopTaken

GetMore ==
  /\ writer = "collect" /\ BatchOpen /\ queue # <<>>
  /\ batch' = Append(batch, Head(queue))
  /\ queue' = Tail(queue)
  /\ UNCHANGED <<loopVars, writer, stopping, timedOut, fileVars, error>>

\* Mistake: lines = batch[:-1] in every iteration.
BatchEndsCutting ==
  /\ writer = "collect" /\ (~BatchOpen \/ queue = <<>>)
  /\ stopping' = StopTaken
  /\ batch' = IF batch # <<>> THEN Front(batch) ELSE batch
  /\ writer' = "write"
  /\ UNCHANGED <<queue, loopVars, timedOut, fileVars, error>>

\* lines = batch[:-1] if stop else batch
BatchEnds ==
  /\ writer = "collect" /\ (~BatchOpen \/ queue = <<>>)
  /\ stopping' = StopTaken
  /\ batch' = IF StopTaken THEN Front(batch) ELSE batch
  /\ writer' = "write"
  /\ UNCHANGED <<queue, loopVars, timedOut, fileVars, error>>

\* handle.write may push part of its buffer to the file.  When it raises, a
\* prefix of the lines got into the buffer and the others are lost.
WriteBatch ==
  /\ writer = "write"
  /\ batch' = <<>>
  /\ \E kept \in 0 .. Len(batch) :
       LET buf == buffered \o SubSeq(batch, 1, kept) IN
       /\ \E n \in 0 .. Len(buf) : Spill(n, buf)
       /\ \/ kept = Len(batch) /\ writer' = "flush" /\ UNCHANGED error
          \/ "write" \in Faults /\ batch # <<>> /\ Fail
  /\ UNCHANGED <<queue, loopVars, stopping, timedOut, durable, closed>>

\* Mistake: only the last iteration has to flush.
FlushAtStopOnly ==
  /\ writer = "flush"
  /\ \/ Spill(Len(buffered), buffered) /\ writer' = "drop" /\ UNCHANGED error
     \/ ~stopping /\ writer' = "drop" /\ UNCHANGED <<file, buffered, error>>
  /\ UNCHANGED <<queue, loopVars, batch, stopping, timedOut, durable, closed>>

\* if stop or now - last_flush >= self.flush_seconds: flush
Flush ==
  /\ writer = "flush"
  /\ \/ Spill(Len(buffered), buffered) /\ writer' = "drop" /\ UNCHANGED error
     \/ /\ ~stopping /\ ~timedOut
        /\ writer' = "drop"
        /\ UNCHANGED <<file, buffered, error>>
     \/ /\ "flush" \in Faults
        /\ \E n \in 0 .. Len(buffered) : Spill(n, buffered)
        /\ Fail
  /\ UNCHANGED <<queue, loopVars, batch, stopping, timedOut, durable, closed>>

\* Mistake: the thread does not return after STOP.
NextIterationForever == writer' = "get" /\ UNCHANGED error

NextIteration ==
  /\ writer' = IF stopping THEN "exited" ELSE "get"
  /\ UNCHANGED error

\* _drop_cache: flush, fdatasync, posix_fadvise; not in the last iteration.
DropCache ==
  /\ writer = "drop" /\ ~stopping
  /\ \/ /\ Spill(Len(buffered), buffered)
        /\ durable' = Len(file')
        /\ NextIteration
     \/ /\ Faults \intersect {"flush", "sync"} # {}
        /\ \E n \in 0 .. Len(buffered) : Spill(n, buffered)
        /\ Fail
        /\ UNCHANGED durable
  /\ UNCHANGED <<queue, loopVars, batch, stopping, timedOut, closed>>

NoDrop ==
  /\ writer = "drop"
  /\ NextIteration
  /\ UNCHANGED <<queue, loopVars, batch, stopping, timedOut, fileVars>>
-------------------------------------------------------------------------------
InCall == PutNowait \/ PutWaiting \/ PutStop \/ Join \/ CloseFlush \/ CloseSync

Loop == WriteCheck \/ Close \/ InCall

Run ==
  \/ GetFirst \/ GetTimesOut \/ GetMore \/ BatchEnds
  \/ WriteBatch \/ Flush \/ DropCache \/ NoDrop

Next == Loop \/ Run

Spec == Init /\ [][Next]_vars

\* The operating system schedules the thread and a worker inside a call; the
\* worker need not call again.
FairSpec == Spec /\ WF_vars(InCall) /\ WF_vars(Run)

\* The worker goes on: between calls it writes the next line or closes.
BusySpec == FairSpec /\ WF_vars(Loop)
-------------------------------------------------------------------------------
TypeOK ==
  /\ queue \in Seq(Lines \cup {STOP}) /\ Len(queue) <= MaxLines
  /\ accepted \in Seq(Lines) /\ Len(accepted) <= MaxWrites
  /\ loop \in LoopStates
  /\ writer \in WriterStates
  /\ batch \in Seq(Lines \cup {STOP}) /\ Len(batch) <= BatchMax
  /\ stopping \in BOOLEAN /\ timedOut \in BOOLEAN
  /\ buffered \in Seq(Lines) /\ file \in Seq(Lines)
  /\ durable \in Nat /\ durable <= Len(file)
  /\ error \in BOOLEAN /\ closed \in BOOLEAN

\* Whatever fails, and wherever, what reached the handle is a prefix of the
\* lines written: an error can cut the end of the file, never make a hole in
\* it or change the order (write, _run: nothing is dropped).
NoHole == IsPrefix(file \o buffered, accepted)

\* "close drains the queue, fsyncs and closes, so a sealed segment holds
\* every line": a close that returns without raising left all of them in the
\* file and made them durable, in whatever order the failures came.
SealedHoldsEveryLine ==
  loop = "closed" => file = accepted /\ durable = Len(accepted)

\* The promise to readers of the segment (SegmentLog); the file is sealed when
\* its handle was closed and close did not raise.
Log == INSTANCE SegmentLog WITH
         Line <- Lines, given <- accepted, visible <- file,
         sealed <- closed /\ ~error

ImplementsSegmentLog == Log!LogSpec

\* test_lines_reach_the_file_without_close: every line put on the queue gets
\* into the file without a close (the timed-out get makes the flush due),
\* unless a call on the file fails.
LinesReachTheFile ==
  \A n \in Lines : (Len(accepted) >= n) ~> (Len(file) >= n \/ error)

\* Every write and every close returns or raises, with one exception: the
\* thread has died and the queue it left behind is full.
CallsReturn ==
  loop # "ready" ~> \/ loop \in {"ready", "raised", "closed"}
                    \/ error /\ Full

\* test_a_write_error_surfaces_in_the_scoring_loop: after the thread failed,
\* the scoring loop gets an OSError from write or from close.
ErrorSurfaces == error ~> loop = "raised"
===============================================================================
