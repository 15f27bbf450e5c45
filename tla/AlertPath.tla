------------------------------ MODULE AlertPath ------------------------------
(***************************************************************************)
(* What the two ends of triggers.jsonl share: the alert bridge writes it,  *)
(* the RCA service reads it, on one host with one clock.                   *)
(***************************************************************************)
CONSTANTS
  Containers,
  MaxTime      \* bound of the model

VARIABLE clock
===============================================================================
