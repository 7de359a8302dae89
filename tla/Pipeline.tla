------------------------------ MODULE Pipeline ------------------------------
(***************************************************************************)
(* The application pipeline of backend/app/pipeline.py with its policy gate *)
(* (policy.py), pause switch (controls.py), worker tick (tasks.py) and the  *)
(* request handlers of api/jobs.py that act on one application.             *)
(*                                                                          *)
(* A session is one database session: a worker's tick or one HTTP request.  *)
(* Sessions overlap, and a session keeps the objects it has loaded (the     *)
(* session factory sets expire_on_commit=False), so what it decides on is   *)
(* `view', its own copy of applications.state, while attempts, packets, the *)
(* pause flag and handoff tasks are queried afresh.  A step of a session is *)
(* one commit, or the stretch up to a call that leaves the process.         *)
(***************************************************************************)
EXTENDS StateMachine, Sequences, FiniteSets

CONSTANTS
  Apps,        \* one per (profile, job) pair; also the idempotency keys
  NoApp,       \* a session that is working on no application
  Role,        \* Role[a]: the employer and title of a's job
  Reposts,     \* jobs that discovery stored as the duplicate of another
  External,    \* jobs applied to outside the tool, known from an export
  Workers,     \* sessions that run ticks
  Users,       \* sessions that serve requests
  Requests,    \* the requests that users make
  Events,      \* bound: which things around the pipeline happen
  DailyLimit,  \* preferences.daily_application_limit
  MaxVersions, \* bound: with so many packets no new preparation of an app begins
  Overlap      \* whether a request, a tick or a poll may begin while another one runs

Sessions == Workers \union Users

\* The state that each decision of the user on an application asks for.
Target ==
  [ reject |-> "REJECTED_BY_USER", restore |-> "DISCOVERED", retry |-> "APPROVED",
    reopen |-> "NEEDS_REVIEW", confirm |-> "CONFIRMED", follow_up |-> "FOLLOW_UP" ]

Decisions == {"reject", "restore", "retry", "reopen", "confirm", "follow_up"}

ASSUME AppsAssumption == NoApp \notin Apps /\ IsFiniteSet(Apps)
ASSUME JobsAssumption == Reposts \subseteq Apps /\ External \subseteq Apps
ASSUME SessionsAssumption == Workers \intersect Users = {}
ASSUME RequestsAssumption ==
  Requests \subseteq Decisions \union {"prepare", "set_answer", "approve", "submit", "manual", "match_now"}
ASSUME EventsAssumption == Events \subseteq {"listing", "import", "dismiss", "day", "opt_in", "pause", "file"}
ASSUME BoundsAssumption == DailyLimit \in Nat /\ MaxVersions \in [Apps -> Nat] /\ Overlap \in BOOLEAN

VARIABLES
  appState,   \* applications.state; "NONE" while there is no row
  packets,    \* packets[a]: its packets, oldest first
  attempt,    \* submission_attempts.status of the key's only row
  attBy,      \* ... its adapter: the source's ("auto") or "manual"
  attPacket,  \* ... the version of the packet it carries
  recent,     \* ... whether started_at lies in the last 24 hours
  handoff,    \* status of the application's newest handoff task
  listed,     \* the job has no expired_at
  optIn,      \* sources.auto_submit_opt_in
  paused,     \* system_controls.global_pause
  killFile,   \* the kill-switch file exists
  pc,         \* what each session does next
  cur,        \* the application it works on
  view,       \* applications.state as the session has it in memory
  pkt,        \* the packet as an approval or an answer edit has loaded it
  todo,       \* what is left of the list a tick is iterating over
  src,        \* the opt-in as the tick's `src' object holds it
  res,        \* what the adapter has returned
  delivered,  \* history: applications the employer has received
  sentPaused  \* history: deliveries of a session during the present pause

rowVars == <<packets, attPacket, attBy>>
envVars == <<listed, optIn, paused, killFile>>
history == <<delivered, sentPaused>>
memory  == <<cur, view, pkt, todo, src, res>>
session == <<pc, cur, view, pkt, todo, src, res>>
vars == <<appState, packets, attempt, attBy, attPacket, recent, handoff,
          listed, optIn, paused, killFile, pc, cur, view, pkt, todo, src, res,
          delivered, sentPaused>>

Claimable == {"NONE", "FAILED", "CHALLENGE"}  \* certainly not sent
Closed    == {"SUBMITTED", "CONFIRMED", "UNKNOWN"}
AttemptStatus == Claimable \union Closed \union {"PENDING"}

Items  == {"none", "open", "on_site"}
Packet == [approved : BOOLEAN, items : Items]
Loaded == [version : Nat, approved : BOOLEAN, items : Items]

NoPacket == [version |-> 0, approved |-> FALSE, items |-> "none"]
NoView   == [a \in Apps |-> "NONE"]

Steps ==
  Decisions \union {"idle", "match", "prepNext", "prepare", "autoApprove", "subNext", "gate",
    "claim", "check", "call", "send", "record", "report", "set_answer", "approve", "manual", "finish"}

RowsOK ==
  /\ appState \in [Apps -> States \union {"NONE"}]
  /\ packets \in [Apps -> Seq(Packet)]
  /\ attempt \in [Apps -> AttemptStatus]
  /\ attBy \in [Apps -> {"NONE", "auto", "manual"}]
  /\ attPacket \in [Apps -> Nat]
  /\ recent \in [Apps -> BOOLEAN]
  /\ handoff \in [Apps -> {"NONE", "OPEN", "DONE", "DISMISSED"}]

AroundOK ==
  /\ listed \in [Apps -> BOOLEAN]
  /\ optIn \in BOOLEAN /\ paused \in BOOLEAN /\ killFile \in BOOLEAN
  /\ delivered \in [Apps -> Nat]
  /\ sentPaused \in [Sessions -> Nat]

SessionsOK ==
  /\ pc \in [Sessions -> Steps]
  /\ cur \in [Sessions -> Apps \union {NoApp}]
  /\ view \in [Sessions -> [Apps -> States \union {"NONE"}]]
  /\ pkt \in [Sessions -> Loaded]
  /\ todo \in [Sessions -> SUBSET Apps]
  /\ src \in [Sessions -> {"unread", "in", "out"}]
  /\ res \in [Sessions -> {"none", "SUBMITTED", "CONFIRMED", "UNKNOWN", "FAILED", "CHALLENGE"}]

\* Every row, flag and session holds a value of its type.
TypeOK == RowsOK /\ AroundOK /\ SessionsOK

Init ==
  /\ appState = [a \in Apps |-> "NONE"]
  /\ packets = [a \in Apps |-> <<>>]
  /\ attempt = [a \in Apps |-> "NONE"]
  /\ attBy = [a \in Apps |-> "NONE"]
  /\ attPacket = [a \in Apps |-> 0]
  /\ recent = [a \in Apps |-> FALSE]
  /\ handoff = [a \in Apps |-> "NONE"]
  /\ listed = [a \in Apps |-> TRUE]
  /\ optIn \in BOOLEAN /\ paused = FALSE /\ killFile = FALSE
  /\ pc = [s \in Sessions |-> "idle"]
  /\ cur = [s \in Sessions |-> NoApp]
  /\ view = [s \in Sessions |-> NoView]
  /\ pkt = [s \in Sessions |-> NoPacket]
  /\ todo = [s \in Sessions |-> {}]
  /\ src = [s \in Sessions |-> "unread"]
  /\ res = [s \in Sessions |-> "none"]
  /\ delivered = [a \in Apps |-> 0]
  /\ sentPaused = [s \in Sessions |-> 0]

-----------------------------------------------------------------------------
(* Helpers *)

\* A plausible fault: a handler that forgets the file, or the flag.
PausedByFlagOnly == paused
Paused == paused \/ killFile

Latest(a) == packets[a][Len(packets[a])]

CanStart == Overlap \/ \A s \in Sessions : pc[s] = "idle"

\* The sources row is loaded once and then stays with the tick.
OptInSeen(s) == IF src[s] = "unread" THEN optIn ELSE src[s] = "in"
KeepSource(s) == src' = [src EXCEPT ![s] = IF OptInSeen(s) THEN "in" ELSE "out"]

GoTo(s, step) == pc' = [pc EXCEPT ![s] = step]

\* The session is closed: what it held in memory is gone.
Rest(s) ==
  /\ pc' = [pc EXCEPT ![s] = "idle"]
  /\ cur' = [cur EXCEPT ![s] = NoApp]
  /\ view' = [view EXCEPT ![s] = NoView]
  /\ pkt' = [pkt EXCEPT ![s] = NoPacket]
  /\ todo' = [todo EXCEPT ![s] = {}]
  /\ src' = [src EXCEPT ![s] = "unread"]
  /\ res' = [res EXCEPT ![s] = "none"]

\* try_submit returns: a tick takes its next application, a request ends.
Return(s) ==
  IF s \in Workers
    THEN /\ GoTo(s, "subNext")
         /\ cur' = [cur EXCEPT ![s] = NoApp]
         /\ view' = [view EXCEPT ![s][cur[s]] = "NONE"]
         /\ res' = [res EXCEPT ![s] = "none"]
         /\ UNCHANGED <<pkt, todo, src>>
    ELSE Rest(s)

SetState(a, st) == appState' = [appState EXCEPT ![a] = st]

\* A plausible fault: any earlier task is reused, not only one still OPEN.
OpenHandoffOnce(a) == handoff' = [handoff EXCEPT ![a] = IF @ = "NONE" THEN "OPEN" ELSE @]
OpenHandoff(a) == handoff' = [handoff EXCEPT ![a] = "OPEN"]

-----------------------------------------------------------------------------
(* Matching *)

Rescored(st, a, score) ==
  LET from == IF st = "NONE" /\ listed[a] THEN "DISCOVERED" ELSE st
  IN  CASE from \notin Rescorable -> from
        [] from \in Rescorable /\ a \in Reposts -> "DUPLICATE"
        [] from \in Rescorable /\ a \notin Reposts /\ ~listed[a] -> "EXPIRED"
        [] OTHER -> CASE score = "excluded" -> "BLOCKED_BY_POLICY"
                      [] score = "match" -> "MATCHED"
                      [] score = "below" -> "DISCOVERED"

LoadAll(s) ==
  /\ GoTo(s, "match")
  /\ view' = [view EXCEPT ![s] = appState]
  /\ UNCHANGED <<appState, rowVars, attempt, recent, handoff, envVars, history, cur, pkt, todo, src, res>>

Tick(w) ==
  /\ pc[w] = "idle" /\ CanStart
  /\ ~Paused
  /\ LoadAll(w)

MatchNow(u) ==
  /\ pc[u] = "idle" /\ CanStart
  /\ "match_now" \in Requests
  /\ LoadAll(u)

\* A row that this session means to create was created by another one.
Clash(s) == \E a \in Apps : view[s][a] = "NONE" /\ listed[a] /\ appState[a] # "NONE"

MatchCommit(s) ==
  /\ pc[s] = "match"
  /\ ~Clash(s)
  /\ \E score \in [Apps -> {"match", "below", "excluded"}] :
       LET new == [a \in Apps |-> Rescored(view[s][a], a, score[a])]
       IN  appState' = [a \in Apps |-> IF new[a] # view[s][a] THEN new[a] ELSE appState[a]]
  /\ IF s \in Workers
       THEN LET due == {a \in Apps : appState'[a] = "MATCHED" /\ Len(packets[a]) < MaxVersions[a]}
            IN  /\ GoTo(s, "prepNext")
                /\ todo' = [todo EXCEPT ![s] = due]
                /\ view' = [view EXCEPT ![s] = [a \in Apps |-> IF a \in due THEN "MATCHED" ELSE "NONE"]]
                /\ UNCHANGED <<cur, pkt, src, res>>
       ELSE Rest(s)
  /\ UNCHANGED <<rowVars, attempt, recent, handoff, envVars, history>>

MatchClash(s) ==
  /\ pc[s] = "match"
  /\ Clash(s)
  /\ Rest(s)
  /\ UNCHANGED <<appState, rowVars, attempt, recent, handoff, envVars, history>>

-----------------------------------------------------------------------------
(* Preparation and approval *)

Preparable == {"MATCHED", "PREPARED", "NEEDS_REVIEW"}

\* The tick's first loop: the next MATCHED application, or on to the second.
PrepareNext(w) ==
  /\ pc[w] = "prepNext"
  /\ ~Paused
  /\ \E a \in todo[w] :
       /\ GoTo(w, "prepare")
       /\ cur' = [cur EXCEPT ![w] = a]
       /\ todo' = [todo EXCEPT ![w] = @ \ {a}]
  /\ UNCHANGED <<appState, rowVars, attempt, recent, handoff, envVars, history, view, pkt, src, res>>

\* The query for APPROVED rows refreshes no object that is still referenced:
\* the loop variable keeps the state in which the first loop left it.
PrepareDone(w) ==
  /\ pc[w] = "prepNext"
  /\ todo[w] = {} \/ Paused
  /\ LET due == {a \in Apps : appState[a] = "APPROVED"}
     IN  /\ todo' = [todo EXCEPT ![w] = due]
         /\ \E app \in IF todo[w] = {} THEN {cur[w]} ELSE todo[w] :
              view' = [view EXCEPT ![w] =
                [a \in Apps |-> IF a \notin due THEN "NONE" ELSE IF a = app THEN @[a] ELSE "APPROVED"]]
  /\ GoTo(w, "subNext")
  /\ cur' = [cur EXCEPT ![w] = NoApp]
  /\ UNCHANGED <<appState, rowVars, attempt, recent, handoff, envVars, history, pkt, src, res>>

\* The packet is ready (the letter may have taken minutes) and is committed.
NewPacket(s, items) ==
  LET a == cur[s]
  IN  /\ packets' = [packets EXCEPT ![a] = Append(@, [approved |-> FALSE, items |-> items])]
      /\ IF view[s][a] = "PREPARED" /\ items = "none"
           THEN UNCHANGED appState
           ELSE SetState(a, IF items = "none" THEN "PREPARED" ELSE "NEEDS_REVIEW")

Prepare(s) ==
  /\ pc[s] = "prepare"
  /\ \E items \in {"none", "open"} :
       /\ NewPacket(s, items)
       /\ IF s \in Workers
            THEN /\ GoTo(s, IF items = "none" /\ OptInSeen(s) THEN "autoApprove" ELSE "prepNext")
                 /\ view' = [view EXCEPT ![s][cur[s]] = IF items = "none" THEN "PREPARED" ELSE "NEEDS_REVIEW"]
                 /\ KeepSource(s)
                 /\ UNCHANGED <<cur, pkt, todo, res>>
            ELSE Rest(s)
  /\ UNCHANGED <<attempt, attBy, attPacket, recent, handoff, envVars, history>>

\* approve() on behalf of the worker; open items raise and end the tick.
AutoApprove(w) ==
  /\ pc[w] = "autoApprove"
  /\ LET a == cur[w]
     IN  IF Latest(a).items \in {"none", "on_site"}
           THEN /\ packets' = [packets EXCEPT ![a][Len(packets[a])].approved = TRUE]
                /\ SetState(a, "APPROVED")
                /\ GoTo(w, "prepNext")
                /\ view' = [view EXCEPT ![w][a] = "APPROVED"]
                /\ UNCHANGED <<cur, pkt, todo, src, res>>
           ELSE Rest(w) /\ UNCHANGED <<packets, appState>>
  /\ UNCHANGED <<attempt, attBy, attPacket, recent, handoff, envVars, history>>

\* The user's approval: open items become items to answer on the site.
Approve(u) ==
  /\ pc[u] = "approve"
  /\ LET a == cur[u]
         v == pkt[u].version
     IN  /\ packets' = [packets EXCEPT ![a][v] =
              [approved |-> TRUE, items |-> IF pkt[u].items = "open" THEN "on_site" ELSE @.items]]
         /\ SetState(a, "APPROVED")
  /\ Rest(u)
  /\ UNCHANGED <<attempt, attBy, attPacket, recent, handoff, envVars, history>>

\* The user answers the last open question, or takes an answer back.
SetAnswer(u) ==
  /\ pc[u] = "set_answer"
  /\ \E items \in {"none", "open"} :
       packets' = [packets EXCEPT ![cur[u]][pkt[u].version].items = items]
  /\ Rest(u)
  /\ UNCHANGED <<appState, attempt, attBy, attPacket, recent, handoff, envVars, history>>

-----------------------------------------------------------------------------
(* The policy gate *)

\* A plausible fault: the guard looks at the application's own key only.
AlreadyAppliedOwnKey(a) == attempt[a] \in Closed \union {"PENDING"}
AlreadyApplied(a) ==
  \/ attempt[a] \in Closed \union {"PENDING"}
  \/ \E b \in Apps \ {a} : Role[b] = Role[a] /\ appState[b] \in Applied

RecentAuto == {a \in Apps : recent[a] /\ attBy[a] = "auto"}

\* A plausible fault: the limit compared with <= instead of <.
WithinLimitOffByOne == Cardinality(RecentAuto) <= DailyLimit
WithinLimit == Cardinality(RecentAuto) < DailyLimit

\* Plausible faults: a gate that trusts its callers to hand it approved
\* applications, and one that trusts the state and skips the latest packet.
GateOpenTrusting(s, a) ==
  /\ ~Paused /\ OptInSeen(s) /\ packets[a] # <<>>
  /\ listed[a] /\ a \notin Reposts /\ ~AlreadyApplied(a) /\ WithinLimit
GateOpenAnyPacket(s, a) == view[s][a] = "APPROVED" /\ GateOpenTrusting(s, a)
GateOpen(s, a) ==
  /\ ~Paused
  /\ OptInSeen(s)
  /\ view[s][a] = "APPROVED"
  /\ packets[a] # <<>> /\ Latest(a).approved /\ Latest(a).items = "none"
  /\ listed[a] /\ a \notin Reposts
  /\ ~AlreadyApplied(a)
  /\ WithinLimit

-----------------------------------------------------------------------------
(* Submission *)

\* The tick's second loop: only APPROVED applications are on its list.
SubmitNext(w) ==
  /\ pc[w] = "subNext"
  /\ ~Paused
  /\ \E a \in todo[w] :
       /\ todo' = [todo EXCEPT ![w] = @ \ {a}]
       /\ IF OptInSeen(w)
            THEN GoTo(w, "gate") /\ cur' = [cur EXCEPT ![w] = a] /\ UNCHANGED handoff
            ELSE OpenHandoff(a) /\ UNCHANGED <<pc, cur>>
  /\ KeepSource(w)
  /\ UNCHANGED <<appState, rowVars, attempt, recent, envVars, history, view, pkt, res>>

SubmitDone(w) ==
  /\ pc[w] = "subNext"
  /\ todo[w] = {} \/ Paused
  /\ Rest(w)
  /\ UNCHANGED <<appState, rowVars, attempt, recent, handoff, envVars, history>>

GatePass(s) ==
  /\ pc[s] = "gate"
  /\ GateOpen(s, cur[s])
  /\ GoTo(s, "claim")
  /\ UNCHANGED <<appState, rowVars, attempt, recent, handoff, envVars, history, memory>>

\* One of the checks fails: one of GateOpen's, or one of those on data that is
\* not modelled (freshness, apply URL, exclusions, score, source review).
GateBlock(s) ==
  /\ pc[s] = "gate"
  /\ IF view[s][cur[s]] = "APPROVED" THEN OpenHandoff(cur[s]) ELSE UNCHANGED handoff
  /\ Return(s)
  /\ UNCHANGED <<appState, rowVars, attempt, recent, envVars, history>>

\* The row is inserted, or taken back from a status in which nothing was sent.
Hold(a, by) ==
  /\ attempt' = [attempt EXCEPT ![a] = "PENDING"]
  /\ attBy' = [attBy EXCEPT ![a] = by]
  /\ attPacket' = [attPacket EXCEPT ![a] = Len(packets[a])]
  /\ recent' = [recent EXCEPT ![a] = TRUE]

\* Plausible faults: an uncertain outcome counted as a definite failure, and a
\* claim that nobody finished taken over.
MayClaimUnknown(a) == attempt[a] \in Claimable \union {"UNKNOWN"}
MayClaimPending(a) == attempt[a] \in Claimable \union {"PENDING"}
MayClaim(a) == attempt[a] \in Claimable

Claim(s) ==
  /\ pc[s] = "claim"
  /\ IF MayClaim(cur[s])
       THEN Hold(cur[s], "auto") /\ GoTo(s, "check") /\ UNCHANGED memory
       ELSE Return(s) /\ UNCHANGED <<attempt, attBy, attPacket, recent>>
  /\ UNCHANGED <<appState, packets, handoff, envVars, history>>

LastCheck(s) ==
  /\ pc[s] = "check"
  /\ IF Paused
       THEN attempt' = [attempt EXCEPT ![cur[s]] = "FAILED"] /\ Return(s)
       ELSE GoTo(s, "call") /\ UNCHANGED <<attempt, memory>>
  /\ UNCHANGED <<appState, rowVars, recent, handoff, envVars, history>>

\* The adapter's contract (submission/base.py): it asks should_abort before
\* anything irreversible; SUBMITTED means sent, FAILED and CHALLENGE not sent.
AdapterBegin(s) ==
  /\ pc[s] = "call"
  /\ IF Paused THEN GoTo(s, "record") /\ res' = [res EXCEPT ![s] = "FAILED"]
               ELSE GoTo(s, "send") /\ UNCHANGED res
  /\ UNCHANGED <<appState, rowVars, attempt, recent, handoff, envVars, history, cur, view, pkt, todo, src>>

AdapterDeliver(s) ==
  /\ pc[s] = "send"
  /\ delivered' = [delivered EXCEPT ![cur[s]] = @ + 1]
  /\ sentPaused' = IF paused \/ killFile THEN [sentPaused EXCEPT ![s] = @ + 1] ELSE sentPaused
  /\ \E r \in Closed : res' = [res EXCEPT ![s] = r]
  /\ GoTo(s, "record")
  /\ UNCHANGED <<appState, rowVars, attempt, recent, handoff, envVars, cur, view, pkt, todo, src>>

AdapterFail(s) ==
  /\ pc[s] = "send"
  /\ \E r \in {"FAILED", "CHALLENGE", "UNKNOWN"} : res' = [res EXCEPT ![s] = r]
  /\ GoTo(s, "record")
  /\ UNCHANGED <<appState, rowVars, attempt, recent, handoff, envVars, history, cur, view, pkt, todo, src>>

\* The state that an outcome moves the application to.
Verdict(r) ==
  CASE r \in {"SUBMITTED", "CONFIRMED"} -> r
    [] r = "CHALLENGE" -> "NEEDS_REVIEW"
    [] r \in {"FAILED", "UNKNOWN"} -> "FAILED"

\* Plausible faults: a timeout recorded as a failure that may be retried, a
\* confirmation that is not noted, a status that the column does not know.
StatusOfOptimist(r) == IF r = "UNKNOWN" THEN "FAILED" ELSE r
StatusOfUnnoted(r)  == IF r = "CONFIRMED" THEN "SUBMITTED" ELSE r
StatusOfError(r)    == IF r = "FAILED" THEN "ERROR" ELSE r
StatusOf(r) == r

\* SUBMITTED then CONFIRMED is one commit; a transition that the table refused
\* here would lose the outcome (see OutcomeRecordable).
Record(s) ==
  /\ pc[s] = "record"
  /\ LET a == cur[s]
     IN  /\ CanTransition(view[s][a], IF res[s] = "CONFIRMED" THEN "SUBMITTED" ELSE Verdict(res[s]))
         /\ attempt' = [attempt EXCEPT ![a] = StatusOf(res[s])]
         /\ SetState(a, Verdict(res[s]))
  /\ IF res[s] \in {"SUBMITTED", "CONFIRMED"}
       THEN Return(s)
       ELSE GoTo(s, "report") /\ UNCHANGED memory
  /\ UNCHANGED <<rowVars, recent, handoff, envVars, history>>

\* The task for the user comes with a commit of its own.
Report(s) ==
  /\ pc[s] = "report"
  /\ OpenHandoff(cur[s])
  /\ Return(s)
  /\ UNCHANGED <<appState, rowVars, attempt, recent, envVars, history>>

-----------------------------------------------------------------------------
(* A submission that the user made on the employer's site *)

ManualClaim(u) ==
  /\ pc[u] = "manual"
  /\ IF MayClaim(cur[u])
       THEN Hold(cur[u], "manual") /\ GoTo(u, "finish") /\ UNCHANGED memory
       ELSE Rest(u) /\ UNCHANGED <<attempt, attBy, attPacket, recent>>
  /\ UNCHANGED <<appState, packets, handoff, envVars, history>>

ManualFinish(u) ==
  /\ pc[u] = "finish"
  /\ LET a == cur[u]
     IN  /\ \E r \in {"SUBMITTED", "CONFIRMED"} :
              attempt' = [attempt EXCEPT ![a] = r] /\ SetState(a, r)
         /\ handoff' = [handoff EXCEPT ![a] = IF @ = "OPEN" THEN "DONE" ELSE @]
         /\ delivered' = [delivered EXCEPT ![a] = @ + 1]
  /\ Rest(u)
  /\ UNCHANGED <<rowVars, recent, envVars, sentPaused>>

-----------------------------------------------------------------------------
(* Requests *)

\* A plausible fault: answers of an approved packet may be edited too.
EditableAlways(a) == packets[a] # <<>>
Editable(a) == packets[a] # <<>> /\ ~Latest(a).approved

\* What a request's first checks ask of the row it has just loaded; one that
\* is refused there changes nothing.
Accepts(op, a) ==
  CASE op \in Decisions -> CanTransition(appState[a], Target[op]) \/ appState[a] = Target[op]
    [] op = "prepare" -> appState[a] \in Preparable /\ Len(packets[a]) < MaxVersions[a]
    [] op = "set_answer" -> Editable(a)
    [] op = "approve" -> packets[a] # <<>> /\ appState[a] \in {"PREPARED", "NEEDS_REVIEW"}
    [] op = "manual" -> appState[a] = "APPROVED"
    [] op = "submit" -> TRUE

Request(u, a, op) ==
  /\ pc[u] = "idle" /\ CanStart
  /\ appState[a] # "NONE"
  /\ Accepts(op, a)
  /\ GoTo(u, IF op = "submit" THEN "gate" ELSE op)
  /\ cur' = [cur EXCEPT ![u] = a]
  /\ view' = [view EXCEPT ![u][a] = appState[a]]
  /\ pkt' = [pkt EXCEPT ![u] =
       IF op \in {"approve", "set_answer"}
         THEN [version |-> Len(packets[a]), approved |-> Latest(a).approved, items |-> Latest(a).items]
         ELSE NoPacket]
  /\ UNCHANGED <<appState, rowVars, attempt, recent, handoff, envVars, history, todo, src, res>>

\* reject, restore, retry, reopen, confirm and follow-up.  Where the row as
\* loaded is in the state asked for already, its state is not written.
Decide(u) ==
  /\ pc[u] \in Decisions
  /\ LET a == cur[u]
         dst == Target[pc[u]]
     IN  /\ IF view[u][a] = dst THEN UNCHANGED appState ELSE SetState(a, dst)
         /\ attempt' = IF dst = "CONFIRMED" /\ attempt[a] = "SUBMITTED"
                         THEN [attempt EXCEPT ![a] = "CONFIRMED"] ELSE attempt
  /\ Rest(u)
  /\ UNCHANGED <<rowVars, recent, handoff, envVars, history>>

-----------------------------------------------------------------------------
(* Around the pipeline: polls, toggles, time, failures *)

\* A complete listing no longer contains the job (discovery.py).
Delist(a) ==
  /\ listed[a] /\ CanStart
  /\ listed' = [listed EXCEPT ![a] = FALSE]
  /\ IF appState[a] \in UserOwned \union {"EXPIRED", "DUPLICATE", "FAILED", "NONE"}
       THEN UNCHANGED appState ELSE SetState(a, "EXPIRED")
  /\ UNCHANGED <<rowVars, attempt, recent, handoff, optIn, paused, killFile, session, history>>

Relist(a) ==
  /\ ~listed[a] /\ CanStart
  /\ listed' = [listed EXCEPT ![a] = TRUE]
  /\ UNCHANGED <<appState, rowVars, attempt, recent, handoff, optIn, paused, killFile, session, history>>

\* An application made elsewhere, taken from the user's LinkedIn export.
ImportApplied(a) ==
  /\ a \in External /\ appState[a] = "NONE" /\ CanStart
  /\ SetState(a, "SUBMITTED")
  /\ UNCHANGED <<rowVars, attempt, recent, handoff, envVars, session, history>>

DismissHandoff(a) ==
  /\ handoff[a] \notin {"NONE", "DISMISSED"} /\ CanStart
  /\ handoff' = [handoff EXCEPT ![a] = "DISMISSED"]
  /\ UNCHANGED <<appState, rowVars, attempt, recent, envVars, session, history>>

\* 24 hours have passed since the key's attempt was started.
DayPasses(a) ==
  /\ recent[a]
  /\ recent' = [recent EXCEPT ![a] = FALSE]
  /\ UNCHANGED <<appState, rowVars, attempt, handoff, envVars, session, history>>

ToggleOptIn ==
  /\ CanStart
  /\ optIn' = ~optIn
  /\ UNCHANGED <<appState, rowVars, attempt, recent, handoff, listed, paused, killFile, session, history>>

\* The pause button, and the file; the history of a pause ends with the pause.
SetPause(flag, file) ==
  /\ <<flag, file>> # <<paused, killFile>>
  /\ paused' = flag /\ killFile' = file
  /\ sentPaused' = IF flag \/ file THEN sentPaused ELSE [s \in Sessions |-> 0]
  /\ UNCHANGED <<appState, rowVars, attempt, recent, handoff, listed, optIn, session, delivered>>

SetPaused  == SetPause(~paused, killFile)
SwitchFile == SetPause(paused, ~killFile)

\* The process is killed, or an exception leaves the handler: the transaction
\* is rolled back and what the session held in memory is lost.
Crash(s) ==
  /\ pc[s] # "idle"
  /\ Rest(s)
  /\ UNCHANGED <<appState, rowVars, attempt, recent, handoff, envVars, history>>

-----------------------------------------------------------------------------
(* The specification *)

Submit(s) ==
  \/ GatePass(s) \/ GateBlock(s) \/ Claim(s) \/ LastCheck(s)
  \/ AdapterBegin(s) \/ AdapterDeliver(s) \/ AdapterFail(s) \/ Record(s) \/ Report(s)

WorkerStep(w) ==
  \/ Tick(w) \/ MatchCommit(w) \/ MatchClash(w)
  \/ PrepareNext(w) \/ PrepareDone(w) \/ Prepare(w) \/ AutoApprove(w)
  \/ SubmitNext(w) \/ SubmitDone(w) \/ Submit(w)

\* The steps of a request under way.
Handle(u) ==
  \/ MatchCommit(u) \/ MatchClash(u) \/ Prepare(u) \/ Approve(u) \/ SetAnswer(u)
  \/ Submit(u) \/ ManualClaim(u) \/ ManualFinish(u) \/ Decide(u)

UserStep(u) ==
  \/ Handle(u)
  \/ MatchNow(u)
  \/ \E a \in Apps, op \in Requests \ {"match_now"} : Request(u, a, op)

Environment ==
  \/ "listing" \in Events /\ \E a \in Apps : Delist(a) \/ Relist(a)
  \/ "import" \in Events  /\ \E a \in Apps : ImportApplied(a)
  \/ "dismiss" \in Events /\ \E a \in Apps : DismissHandoff(a)
  \/ "day" \in Events     /\ \E a \in Apps : DayPasses(a)
  \/ "opt_in" \in Events  /\ ToggleOptIn
  \/ "pause" \in Events   /\ SetPaused
  \/ "file" \in Events    /\ SwitchFile

Next ==
  \/ \E w \in Workers : WorkerStep(w)
  \/ \E u \in Users : UserStep(u)
  \/ \E s \in Sessions : Crash(s)
  \/ Environment

Spec == Init /\ [][Next]_vars

\* A session that ends without having come to its end.
Killed(s) ==
  /\ Crash(s)
  /\ ~ IF s \in Workers THEN WorkerStep(s) ELSE Handle(s)

\* Beat and the scheduler keep ticking, a request that was begun runs to its
\* end, and the processes are not killed over and over for ever.
Fairness ==
  /\ \A w \in Workers : WF_vars(WorkerStep(w))
  /\ \A u \in Users : WF_vars(Handle(u))
  /\ <>[][\A s \in Sessions : ~Killed(s)]_vars

FairSpec == Spec /\ Fairness

-----------------------------------------------------------------------------
(* Properties *)

\* The sessions between the claim of a key and the record of the outcome.
InFlight(s) == pc[s] \in {"check", "call", "send", "record", "finish"}

\* The employer receives at most one application per idempotency key, counting
\* the ones the user reports to have made, whatever overlaps, retries, pauses
\* and crashes (pipeline.py _claim_attempt).
AtMostOnce == \A a \in Apps : delivered[a] <= 1

\* The attempt row never lies: a key that may be claimed again was certainly
\* not used, and one recorded as submitted certainly was.
AttemptTellsTruth ==
  \A a \in Apps :
    /\ attempt[a] \in Claimable => delivered[a] = 0
    /\ attempt[a] \in {"SUBMITTED", "CONFIRMED"} => delivered[a] = 1

\* A key in flight is PENDING and in the hands of one session only, from the
\* claim to the record of the outcome.
OwnedByOne ==
  \A s \in Sessions : InFlight(s) =>
    /\ attempt[cur[s]] = "PENDING"
    /\ \A t \in Sessions \ {s} : InFlight(t) => cur[t] # cur[s]

\* What a session in flight takes for granted is so: until the adapter answers
\* nothing was sent, its answer is true, and the application it loaded was
\* approved.  With AtMostOnce, AttemptTellsTruth and OwnedByOne this is inductive.
AnswerTrue(r, n) ==
  /\ r # "none"
  /\ r \in {"FAILED", "CHALLENGE"} => n = 0
  /\ r \in {"SUBMITTED", "CONFIRMED"} => n = 1

Agrees(s) ==
  /\ pc[s] \notin {"idle", "match", "prepNext", "subNext"} => cur[s] \in Apps
  /\ pc[s] \in {"check", "call", "send", "finish"} => delivered[cur[s]] = 0
  /\ pc[s] = "record" => AnswerTrue(res[s], delivered[cur[s]])
  /\ pc[s] \in {"claim", "check", "call", "send", "record"} => view[s][cur[s]] = "APPROVED"

SessionsAgree == \A s \in Sessions : Agrees(s)

\* An application shown as made carries the attempt that proves it, with the
\* confirmation it claims, even when sessions write from stale copies; only
\* the ones imported from outside have none.
AppliedHasAttempt ==
  \A a \in Apps \ External :
    /\ appState[a] \in Applied => attempt[a] \in {"SUBMITTED", "CONFIRMED"}
    /\ appState[a] \in {"CONFIRMED", "FOLLOW_UP"} => attempt[a] = "CONFIRMED"

\* When the adapter has answered, the transition table accepts the state that
\* the answer leads to: an outcome is never lost to InvalidTransition.
OutcomeRecordable ==
  \A s \in Sessions : pc[s] = "record" =>
    \A dst \in {"SUBMITTED", "FAILED", "NEEDS_REVIEW"} : CanTransition(view[s][cur[s]], dst)

\* Nothing is sent by the program for an application of which no packet, up to
\* the one sent, was ever approved.
ConsentBeforeSend ==
  \A a \in Apps : attBy[a] = "auto" =>
    \E v \in 1..attPacket[a] : packets[a][v].approved

\* Once either pause signal is on, a session sends at most the application
\* that was past its last check; everything after that is held back.
PauseBound == \A s \in Sessions : sentPaused[s] <= 1

\* Automatic submissions started in the last 24 hours stay within the limit.
LimitHolds == Cardinality(RecentAuto) <= DailyLimit

\* The program claims a key only while no other application for the same role
\* is on record as made, whether by the program, the user or an import.
ClaimedOncePerRole ==
  [][\A a, b \in Apps :
       /\ a # b /\ Role[a] = Role[b] /\ appState[b] \in Applied
       /\ attempt[a] # "PENDING" /\ attempt'[a] = "PENDING"
       => attBy'[a] = "manual"]_vars

\* What the user decided stands: no step of a worker, no poll changes an
\* application in one of the USER_OWNED states.
ByUser == \E u \in Users : pc'[u] # pc[u]
UserDecisionStands ==
  [][\A a \in Apps : appState[a] \in UserOwned /\ appState'[a] # appState[a] => ByUser]_vars

\* "packets ... immutable once approved" (docs/ARCHITECTURE.md).
ApprovedImmutable ==
  [][\A a \in Apps : \A v \in 1..Len(packets[a]) :
       packets[a][v].approved => packets'[a][v] = packets[a][v]]_vars

\* What an automatic attempt carries is a packet that was approved, and one
\* that left nothing for the user to answer on the site.
SentAsApproved ==
  \A a \in Apps : attBy[a] = "auto" =>
    packets[a][attPacket[a]] = [approved |-> TRUE, items |-> "none"]

\* An approved application is served: it moves on, or its handoff task is
\* open, unless the pipeline is paused.
Served ==
  \A a \in Apps :
    (appState[a] = "APPROVED") ~> (appState[a] # "APPROVED" \/ handoff[a] = "OPEN" \/ Paused)

-----------------------------------------------------------------------------
(* The pipeline implements SubmitOnce *)

Right ==
  [a \in Apps |-> IF attempt[a] = "PENDING" THEN "held"
                  ELSE IF attempt[a] \in Claimable THEN "free" ELSE "closed"]

Once == INSTANCE SubmitOnce WITH Keys <- Apps, right <- Right

\* Each key is used as SubmitOnce prescribes: the one refinement that carries
\* at-most-once delivery over to the program.
ImplementsSubmitOnce == Once!Spec
=============================================================================
