--------------------------- MODULE MCRecoveryCapture ---------------------------
\* RecoveryCapture for TLC: a configuration file holds no negative number.
EXTENDS RecoveryCapture
CONSTANT Ahead  \* by how much the clock of a snapshot can be ahead
MCLags == {0 - Ahead, 0, 11, 41}
===============================================================================
