------------------------------ MODULE Listings ------------------------------
(***************************************************************************)
(* The jobs table: what a poll (backend/app/discovery.py, upsert_jobs) and  *)
(* an import (imports.py) make of an answer, how listings expire, come back *)
(* and are recognised as duplicates, and what that does to applications.    *)
(* Every action is one transaction.  How a poll comes about, and whether a  *)
(* board is asked at all, is in Boards, what else happens to an application *)
(* in Pipeline; here a poll may come or not, and applications move along any *)
(* edge of the state machine.                                               *)
(***************************************************************************)
EXTENDS StateMachine, SequencesExt

CONSTANTS
  Jobs,      \* listings: (source_key, external_id) pairs, in the order of job ids
  NoJob,     \* jobs.duplicate_of_id is NULL
  Groups,    \* (source_key, board_token) pairs
  GroupOf,   \* GroupOf[j]: the group under which j is stored
  Complete,  \* groups whose answers are the complete listing
  Searches,  \* groups whose answers are search results
  Imports,   \* groups filled by the user's imports
  Role,      \* Role[j]: employer, title and location of j, normalised
  Dated,     \* bound: listings that state a deadline
  Handled    \* bound: listings whose applications are worked on

ASSUME JobsAssumption == Jobs \subseteq Nat /\ IsFiniteSet(Jobs) /\ NoJob \notin Jobs
ASSUME GroupsAssumption ==
  /\ GroupOf \in [Jobs -> Groups]
  /\ Groups = Complete \union Searches \union Imports
  /\ Complete \intersect Searches = {} /\ Imports \intersect (Complete \union Searches) = {}
ASSUME BoundAssumption ==
  /\ Handled \subseteq Jobs
  /\ Dated \subseteq {j \in Jobs : GroupOf[j] \notin Imports}  \* no import has a deadline

VARIABLES
  job,       \* rows of jobs
  app,       \* applications.state; "NONE" while there is no row
  past,      \* the deadline that the row holds has passed (none is extended)
  published  \* the listing is on its board, or in what the user imports

vars == <<job, app, past, published>>

Row   == [there : BOOLEAN, listed : BOOLEAN, fresh : BOOLEAN, dup : Jobs \union {NoJob}]
NoRow == [there |-> FALSE, listed |-> FALSE, fresh |-> FALSE, dup |-> NoJob]

\* Every row and flag holds a value of its type.
TypeOK ==
  /\ job \in [Jobs -> Row]
  /\ app \in [Jobs -> States \union {"NONE"}]
  /\ past \in [Jobs -> BOOLEAN]
  /\ published \in [Jobs -> BOOLEAN]

Init ==
  /\ job = [j \in Jobs |-> NoRow]
  /\ app = [j \in Jobs |-> "NONE"]
  /\ past = [j \in Jobs |-> FALSE]
  /\ published \in [Jobs -> BOOLEAN]

-----------------------------------------------------------------------------
(* upsert_jobs *)

\* A plausible fault: a duplicate is taken for an original.
OriginalsAny(f, j) ==
  {k \in Jobs : f[k].there /\ f[k].listed /\ Role[k] = Role[j]}

\* The listings of which j can be the duplicate when it is stored.
Originals(f, j) ==
  {k \in Jobs : f[k].there /\ f[k].listed /\ f[k].dup = NoJob /\ Role[k] = Role[j]}

First(S) == CHOOSE j \in S : \A k \in S : j <= k

\* One listing of an answer is stored, or found to be known.
Store(f, j) ==
  [f EXCEPT ![j] =
    IF @.there
    THEN [@ EXCEPT !.listed = TRUE, !.fresh = TRUE]
    ELSE [there |-> TRUE, listed |-> TRUE, fresh |-> TRUE,
          dup |-> IF Originals(f, j) = {} THEN NoJob ELSE First(Originals(f, j))]]

\* A plausible fault: other boards are not told apart.
EndsAnywhere(f, g, answer) ==
  {j \in Jobs :
    /\ f[j].there /\ f[j].listed
    /\ (g \in Complete /\ j \notin answer) \/ (g \in Searches /\ ~f[j].fresh) \/ past[j]}

\* The listings that an answer for group g ends.
Ends(f, g, answer) ==
  {j \in Jobs :
    /\ f[j].there /\ f[j].listed /\ GroupOf[j] = g
    /\ \/ g \in Complete /\ j \notin answer
       \/ g \in Searches /\ ~f[j].fresh
       \/ past[j]}

\* A plausible fault: an application that has failed is expired as well.
KeptButFailed == UserOwned \union {"NONE", "EXPIRED", "DUPLICATE"}

\* _expire_applications leaves these alone.
Kept == UserOwned \union {"NONE", "EXPIRED", "DUPLICATE", "FAILED"}

\* A plausible fault: the applications are forgotten.
ExpireRowsOnly(f, S) ==
  /\ job' = [j \in Jobs |-> IF j \in S THEN [f[j] EXCEPT !.listed = FALSE] ELSE f[j]]
  /\ UNCHANGED app

\* The listings of S at whose applications the state machine would refuse.
Refused(S) == {j \in S : app[j] \notin Kept /\ ~CanTransition(app[j], "EXPIRED")}

\* The rows of S expire with their applications.
Expire(f, S) ==
  /\ job' = [j \in Jobs |-> IF j \in S THEN [f[j] EXCEPT !.listed = FALSE] ELSE f[j]]
  /\ app' = [j \in Jobs |-> IF j \in S \ Refused(S) /\ app[j] \notin Kept THEN "EXPIRED" ELSE app[j]]

\* An import or a tick that is refused raises, and nothing of it remains.
ExpireAll(f, S) == Refused(S) = {} /\ Expire(f, S)

\* In a poll a refusal is a ValueError that poll_board takes for the board's: the
\* first one ends the loop, and what was done up to it is committed.
Reached(S) ==
  IF Refused(S) = {} THEN {S} ELSE {D \in SUBSET S : Cardinality(D \intersect Refused(S)) = 1}

Orders(S) == {q \in [1..Cardinality(S) -> S] : \A x \in S : \E i \in DOMAIN q : q[i] = x}

\* The tables that storing an answer, in whatever order, may leave.
Stored(answer) == {FoldLeft(Store, job, q) : q \in Orders(answer)}

Outcomes(g, answer) == {[table |-> f, gone |-> Ends(f, g, answer)] : f \in Stored(answer)}

Upsert(g, answer) ==
  \E o \in Outcomes(g, answer) : \E S \in Reached(o.gone) : Expire(o.table, S)

-----------------------------------------------------------------------------
(* Polls, imports and the tasks around them *)

Online(g) == {j \in Jobs : GroupOf[j] = g /\ published[j]}

\* poll_board for an employer's board, and for a saved search, which may
\* return any part of what is there.
PollBoard(g) ==
  /\ g \in Complete
  /\ Upsert(g, Online(g))
  /\ UNCHANGED <<past, published>>

PollSearch(g) ==
  /\ g \in Searches
  /\ \E answer \in SUBSET Online(g) : Upsert(g, answer)
  /\ UNCHANGED <<past, published>>

\* Imported listings that were not seen for their time to live.
Stale(f) == {j \in Jobs : GroupOf[j] \in Imports /\ f[j].listed /\ ~f[j].fresh}

\* import_alert_emails
ImportAlerts ==
  /\ \E answer \in SUBSET {j \in Jobs : GroupOf[j] \in Imports /\ published[j]} :
       \E f \in Stored(answer) : ExpireAll(f, Stale(f))
  /\ UNCHANGED <<past, published>>

\* add_manual_job; import_linkedin_jobs, a row of `Saved Jobs'
ImportListing(j) ==
  /\ GroupOf[j] \in Imports /\ published[j]
  /\ job' = Store(job, j)
  /\ UNCHANGED <<app, past, published>>

\* import_linkedin_jobs, a row of `Job Applications'
ImportApplied(j) ==
  /\ GroupOf[j] \in Imports /\ published[j]
  /\ job' = Store(job, j)
  /\ app' = [app EXCEPT ![j] = IF @ = "NONE" THEN "SUBMITTED" ELSE @]
  /\ UNCHANGED <<past, published>>

\* expire_stale_imports
ExpireStaleImports ==
  /\ ExpireAll(job, Stale(job))
  /\ UNCHANGED <<past, published>>

\* match_jobs; the three states it re-evaluates are one here.
Match ==
  /\ app' = [j \in Jobs |->
       IF app[j] \notin Rescorable \union {"NONE"} \/ (app[j] = "NONE" /\ ~job[j].listed) THEN app[j]
       ELSE IF job[j].dup # NoJob THEN "DUPLICATE"
       ELSE IF ~job[j].listed THEN "EXPIRED"
       ELSE "DISCOVERED"]
  /\ UNCHANGED <<job, past, published>>

\* The pipeline and the user work on an application.
Progress(j) ==
  /\ j \in Handled /\ app[j] # "NONE"
  /\ \E next \in Transitions[app[j]] : app' = [app EXCEPT ![j] = next]
  /\ UNCHANGED <<job, past, published>>

\* Expired listings nobody applied to, as far as apply_retention can tell.
Purgeable == {j \in Jobs : job[j].there /\ ~job[j].listed /\ app[j] \notin Applied \union {"FAILED"}}

\* apply_retention, with any of what is long enough ago.  The listings go with
\* their applications, and what is a duplicate of them is none any more.
Purge ==
  \E gone \in SUBSET Purgeable,
    dropped \in SUBSET {j \in Jobs : app[j] \in {"REJECTED_BY_USER", "EXPIRED", "DUPLICATE"}} :
       /\ gone \union dropped # {}
       /\ job' = [j \in Jobs |->
            IF j \in gone THEN NoRow
            ELSE [job[j] EXCEPT !.dup = IF @ \in gone THEN NoJob ELSE @]]
       /\ app' = [j \in Jobs |-> IF j \in gone \union dropped THEN "NONE" ELSE app[j]]
       /\ past' = [j \in Jobs |-> past[j] /\ j \notin gone]
       /\ UNCHANGED published

\* The listing was last seen longer ago than its time to live.
Age(j) ==
  /\ GroupOf[j] \notin Complete /\ job[j].fresh
  /\ job' = [job EXCEPT ![j].fresh = FALSE]
  /\ UNCHANGED <<app, past, published>>

DeadlinePasses(j) ==
  /\ j \in Dated /\ job[j].there /\ ~past[j]
  /\ past' = [past EXCEPT ![j] = TRUE]
  /\ UNCHANGED <<job, app, published>>

\* The employer, or the user's mailbox.
Publish(j, on) ==
  /\ published[j] # on
  /\ published' = [published EXCEPT ![j] = on]
  /\ UNCHANGED <<job, app, past>>

Next ==
  \/ \E g \in Groups : PollBoard(g) \/ PollSearch(g)
  \/ \E j \in Jobs : ImportListing(j) \/ ImportApplied(j) \/ Progress(j) \/ Age(j) \/ DeadlinePasses(j)
  \/ \E j \in Jobs, on \in BOOLEAN : Publish(j, on)
  \/ ImportAlerts \/ ExpireStaleImports \/ Match \/ Purge

Spec == Init /\ [][Next]_vars

\* Ticks get through to expiring old imports, and time passes.
Fairness ==
  /\ WF_vars(ExpireStaleImports)
  /\ \A j \in {i \in Jobs : GroupOf[i] \notin Complete} : WF_vars(Age(j))

FairSpec == Spec /\ Fairness

-----------------------------------------------------------------------------
(* Properties *)

\* The original of a duplicate is in the table and is not itself a duplicate:
\* of the listings of a role that were stored together one is considered.
NoChains ==
  \A j \in Jobs : job[j].dup # NoJob => job[job[j].dup].there /\ job[job[j].dup].dup = NoJob

\* A listing that is still published, in time, and was seen lately does not
\* expire, whatever other boards, searches and imports answer.
OpenWhilePublished ==
  [][\A j \in Jobs :
       job[j].listed /\ published[j] /\ ~past[j] /\ (GroupOf[j] \in Complete \/ job[j].fresh)
         => job'[j].listed]_vars

\* With a listing expires its application, unless the user decided about it
\* or it has ended, and then its state stays.
ApplicationExpires ==
  [][\A j \in Jobs :
       job[j].listed /\ ~job'[j].listed =>
         IF app[j] \in UserOwned \union {"NONE", "DUPLICATE", "FAILED"} THEN app'[j] = app[j] ELSE app'[j] = "EXPIRED"]_vars

\* The board stays there, switched on and permitted, polls get through to it
\* (Boards), and it answers in the end.
GoesOnAnswering(g) == WF_vars(PollBoard(g)) /\ WF_vars(PollSearch(g))

\* A listing that is no longer published expires in the end, if its board goes on
\* answering (an import's does without); no application that has failed can make
\* the sweep fail for ever.
GoneExpires ==
  \A j \in Jobs : GoesOnAnswering(GroupOf[j]) => []<>(published[j] \/ ~job[j].listed)
=============================================================================
