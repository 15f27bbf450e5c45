------------------------------ MODULE SegmentLog ------------------------------
(***************************************************************************)
(* What one JSONL file of a capture segment promises to its readers: the   *)
(* lines handed to the writer appear in the file in the order they were    *)
(* handed over, without a gap, and a sealed file holds every one of them.  *)
(* AsyncSink implements this promise with a queue and a thread.            *)
(***************************************************************************)
EXTENDS Naturals, SequencesExt

CONSTANT Line   \* what a line may be

VARIABLES
  given,    \* the lines the writer has accepted, in order
  visible,  \* the lines a reader of the file can see
  sealed    \* the writer has closed the file and says so to its caller

logVars == <<given, visible, sealed>>

LogInit ==
  /\ given = <<>>
  /\ visible = <<>>
  /\ sealed = FALSE

Accept ==
  /\ ~sealed
  /\ \E line \in Line : given' = Append(given, line)
  /\ UNCHANGED <<visible, sealed>>

Publish ==
  /\ ~sealed
  /\ IsPrefix(visible, visible')
  /\ IsPrefix(visible', given)
  /\ UNCHANGED <<given, sealed>>

Seal ==
  /\ ~sealed
  /\ visible = given
  /\ sealed' = TRUE
  /\ UNCHANGED <<given, visible>>

LogNext == Accept \/ Publish \/ Seal

LogSpec == LogInit /\ [][LogNext]_logVars
===============================================================================
