----------------------------- MODULE Retention ------------------------------
(***************************************************************************)
(* Pipeline with the daily retention task of backend/app/privacy.py.  To    *)
(* delete an application deletes its packets, attempts and tasks with it    *)
(* (ON DELETE CASCADE in models.py); a job that is listed again, or still   *)
(* is, gets a new application with the same idempotency key, which depends  *)
(* on the listing's external id only.                                       *)
(***************************************************************************)
EXTENDS Pipeline

VARIABLE uncertain  \* history: keys whose outcome was ever UNKNOWN

allVars == <<vars, uncertain>>

\* apply_retention's two lists.
Discarded == {"REJECTED_BY_USER", "EXPIRED", "DUPLICATE"}
KeepsJob  == {"SUBMITTED", "CONFIRMED", "FOLLOW_UP", "FAILED"}

\* What the task may delete once it is old enough, and with an old job its
\* application, whatever became of the attempt.
MayDiscard(a) ==
  \/ appState[a] \in Discarded
  \/ ~listed[a] /\ appState[a] \notin KeepsJob \union {"NONE"}

\* One transaction; which rows are old enough is left open.  After months no
\* session still works on them.
ApplyRetention ==
  /\ \A s \in Sessions : pc[s] = "idle"
  /\ \E gone \in SUBSET {a \in Apps : MayDiscard(a)} \ {{}} :
       LET Clear(f, none) == [a \in Apps |-> IF a \in gone THEN none ELSE f[a]]
       IN  /\ appState' = Clear(appState, "NONE")
           /\ packets' = Clear(packets, <<>>)
           /\ attempt' = Clear(attempt, "NONE")
           /\ attBy' = Clear(attBy, "NONE")
           /\ attPacket' = Clear(attPacket, 0)
           /\ recent' = Clear(recent, FALSE)
           /\ handoff' = Clear(handoff, "NONE")
  /\ UNCHANGED <<envVars, session, history>>

RetentionInit == Init /\ uncertain = {}

RetentionNext ==
  /\ Next \/ ApplyRetention
  /\ uncertain' = uncertain \union {a \in Apps : attempt'[a] = "UNKNOWN"}

RetentionSpec == RetentionInit /\ [][RetentionNext]_allVars

-----------------------------------------------------------------------------
\* "UNKNOWN = outcome uncertain; never auto-retried" (models.py): a key whose
\* outcome was once uncertain is not claimed by the program any more.
UncertainNotRetried ==
  \A a \in uncertain : attempt[a] = "PENDING" => attBy[a] = "manual"
=============================================================================
