---------------------------- MODULE MCMultiTurn ----------------------------
EXTENDS MultiTurn
\* Three turns: the second reads across one boundary between turns, the third two.
=============================================================================
