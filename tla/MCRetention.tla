---------------------------- MODULE MCRetention -----------------------------
(***************************************************************************)
(* One application, sessions one after the other, and retention.            *)
(***************************************************************************)
EXTENDS Retention

CONSTANTS a1, w, u

MCRole == [a \in {a1} |-> "role"]
MCVersions == [a \in {a1} |-> 1]
=============================================================================
