---------------------------- MODULE MCWorktreeRun ----------------------------
(* Two runs, of the same task or of different ones.                           *)
EXTENDS WorktreeRun

CONSTANTS t1, t2, main, topic
=============================================================================
