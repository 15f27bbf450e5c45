-------------------------- MODULE MCSyscallCounters --------------------------
(* SyscallCounters for TLC: which element of the map a key gets does not   *)
(* matter, so the elements are interchangeable.                            *)
EXTENDS SyscallCounters, TLC

InterchangeableElements == Permutations(Elements)
===============================================================================
