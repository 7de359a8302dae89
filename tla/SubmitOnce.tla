----------------------------- MODULE SubmitOnce -----------------------------
(***************************************************************************)
(* What the submission machinery promises, with none of its mechanism: for  *)
(* every application key, a right to submit that one party at a time may    *)
(* hold, at most one delivery to the employer, made by the holder, and a    *)
(* key that is handed out again only when it is certain that nothing was    *)
(* delivered.                                                               *)
(***************************************************************************)
EXTENDS Naturals

CONSTANT Keys

VARIABLES
  right,     \* who may submit: "free", "held" or "closed" for good
  delivered  \* how many applications the employer has received

vars == <<right, delivered>>

Init ==
  /\ right = [k \in Keys |-> "free"]
  /\ delivered = [k \in Keys |-> 0]

Acquire(k) ==
  /\ right[k] = "free"
  /\ right' = [right EXCEPT ![k] = "held"]
  /\ UNCHANGED delivered

\* The holder gives up: allowed only while nothing has been delivered.
Release(k) ==
  /\ right[k] = "held"
  /\ delivered[k] = 0
  /\ right' = [right EXCEPT ![k] = "free"]
  /\ UNCHANGED delivered

Deliver(k) ==
  /\ right[k] = "held"
  /\ delivered[k] = 0
  /\ delivered' = [delivered EXCEPT ![k] = 1]
  /\ UNCHANGED right

\* The outcome is on record, known or not: the key is never handed out again.
Close(k) ==
  /\ right[k] = "held"
  /\ right' = [right EXCEPT ![k] = "closed"]
  /\ UNCHANGED delivered

\* A delivery reported by the person who made it, recorded in the same step.
DeliverAndClose(k) ==
  /\ right[k] = "held"
  /\ delivered[k] = 0
  /\ right' = [right EXCEPT ![k] = "closed"]
  /\ delivered' = [delivered EXCEPT ![k] = 1]

Next ==
  \E k \in Keys : Acquire(k) \/ Release(k) \/ Deliver(k) \/ Close(k) \/ DeliverAndClose(k)

Spec == Init /\ [][Next]_vars
=============================================================================
