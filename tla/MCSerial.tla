------------------------------ MODULE MCSerial ------------------------------
(***************************************************************************)
(* Requests, ticks and polls one after the other, as the tests run them: an *)
(* application and another one for the same role that an export may bring.  *)
(***************************************************************************)
EXTENDS Pipeline

CONSTANTS a1, x1, w, u

MCRole == [a \in {a1, x1} |-> "role"]
MCVersions == [a \in {a1, x1} |-> IF a = x1 THEN 0 ELSE 2]
=============================================================================
