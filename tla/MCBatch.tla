------------------------------ MODULE MCBatch -------------------------------
(***************************************************************************)
(* A tick that works through two applications for different roles while the *)
(* user approves, edits answers, toggles the pause and dismisses tasks, and *)
(* the day changes.                                                         *)
(***************************************************************************)
EXTENDS Pipeline

CONSTANTS a1, a2, w, u

MCRole == [a \in {a1, a2} |-> a]
MCVersions == [a \in {a1, a2} |-> 1]
=============================================================================
