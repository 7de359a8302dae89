------------------------------- MODULE MCCore -------------------------------
(***************************************************************************)
(* One application, one worker and one user whose sessions overlap in every *)
(* way, with every request, the kill-switch file and crashes at any step.   *)
(***************************************************************************)
EXTENDS Pipeline

CONSTANTS a1, w, u

MCRole == [a \in {a1} |-> "role"]
MCVersions == [a \in {a1} |-> 1]
=============================================================================
