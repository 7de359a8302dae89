---------------------------- MODULE StateMachine ----------------------------
(***************************************************************************)
(* The application state machine of backend/app/statemachine.py: the table  *)
(* of allowed transitions and the two sets of states that the automatic     *)
(* parts of the program consult.  Everything that writes                    *)
(* applications.state goes through Transition there, which refuses a pair   *)
(* that the table does not hold.                                            *)
(***************************************************************************)
EXTENDS Naturals

States ==
  { "DISCOVERED", "MATCHED", "PREPARED", "NEEDS_REVIEW", "APPROVED", "SUBMITTED",
    "CONFIRMED", "REJECTED_BY_USER", "BLOCKED_BY_POLICY", "EXPIRED", "DUPLICATE",
    "FAILED", "FOLLOW_UP" }

\* The ways out that almost every undecided state shares.
Leave == { "BLOCKED_BY_POLICY", "EXPIRED", "DUPLICATE", "REJECTED_BY_USER" }

Transitions ==
  [ DISCOVERED        |-> Leave \union {"MATCHED"},
    MATCHED           |-> Leave \union {"PREPARED", "NEEDS_REVIEW", "DISCOVERED"},
    PREPARED          |-> Leave \union {"NEEDS_REVIEW", "APPROVED", "PREPARED"},
    NEEDS_REVIEW      |-> Leave \union {"PREPARED", "NEEDS_REVIEW", "APPROVED"},
    APPROVED          |-> Leave \union {"SUBMITTED", "FAILED", "NEEDS_REVIEW"},
    SUBMITTED         |-> {"CONFIRMED", "FAILED"},
    CONFIRMED         |-> {"FOLLOW_UP"},
    FOLLOW_UP         |-> {"FOLLOW_UP"},
    FAILED            |-> {"APPROVED", "NEEDS_REVIEW", "REJECTED_BY_USER"},
    BLOCKED_BY_POLICY |-> {"DISCOVERED", "EXPIRED", "DUPLICATE", "REJECTED_BY_USER"},
    REJECTED_BY_USER  |-> {"DISCOVERED"},
    EXPIRED           |-> {},
    DUPLICATE         |-> {} ]

CanTransition(src, dst) == dst \in Transitions[src]

\* "States after which nothing automatic may touch the application."
UserOwned == { "SUBMITTED", "CONFIRMED", "FOLLOW_UP", "REJECTED_BY_USER" }

\* A plausible fault: a rejection that the re-matcher takes for an old block.
RescorableToo == { "DISCOVERED", "MATCHED", "BLOCKED_BY_POLICY", "REJECTED_BY_USER" }

\* States in which the automatic re-matcher may re-evaluate the application.
Rescorable == { "DISCOVERED", "MATCHED", "BLOCKED_BY_POLICY" }

\* States that record an application as made (policy.py prior_applications).
Applied == { "SUBMITTED", "CONFIRMED", "FOLLOW_UP" }
=============================================================================
