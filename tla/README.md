# A verification development for jobapplier

jobapplier collects job listings, scores them against the profile of its one
user, prepares application packets, and submits the approved ones (or hands them
to the user) under a policy gate. This directory holds TLA+ modules that model
its application pipeline, TLC configurations that check them on small instances,
and theorems that TLAPS checks for every value of the constants.

Paths below are relative to `src/`; "the pipeline" is `backend/app/pipeline.py`.

## 1. The system

### Components

| Component | Keeps | Operations | Correct when |
|---|---|---|---|
| State machine (`statemachine.py`) | the table of transitions, `USER_OWNED`, `RESCORABLE` | `can_transition`, `transition` | every write of `applications.state` is allowed; what the user decided is not rewritten by automatic code |
| Matching (`pipeline.py` `match_jobs`, `matching.py`) | one application per (profile, job) | create, score, re-evaluate, mark duplicate, expire | no second row for a job; only undecided applications are re-evaluated; more evidence never costs a match |
| Preparation, approval (`prepare`, `set_packet_answer`, `approve`) | packets, numbered per application | new packet, edit an answer, approve | an approved packet never changes; what is sent is what was approved |
| Policy gate (`policy.py`) | nothing | `evaluate`, `already_applied`, `submissions_since` | nothing passes while paused, without consent, twice, or over the limit |
| Submission (`try_submit`, `_claim_attempt`, `record_manual_submission`, `open_handoff`) | one attempt per idempotency key, handoff tasks | claim, call the adapter, record, hand off | at most one delivery per key; the attempt's status tells what happened; an outcome is never lost |
| Adapter interface (`submission/base.py`) | nothing; production registers none | `submit` | asks `should_abort` before anything irreversible |
| Pause (`controls.py`) | `system_controls.global_pause`, the kill-switch file | `pause`, `resume`, `is_paused` | either signal stops everything but the call in progress |
| Worker and schedulers (`tasks.py`, `scheduler.py`) | nothing | `tick`, `retention` | the loop survives a failed tick |
| Requests (`api/jobs.py`, `api/admin.py`, `api/assist.py`, `cli.py`) | nothing | approve, reject, restore, retry, reopen, submit, record, pause | a request acts on the state its checks saw |
| Discovery (`discovery.py`, `connectors/`) | sources, boards, jobs, a rate limiter per process | poll, upsert, deduplicate, expire, back off, disable | a listing expires only on complete evidence |
| Imports (`imports.py`, `ingestion/email_alerts.py`) | imported jobs and applications | alert, LinkedIn export, manual job, set or fetch a description | imported applications count as made; a listing is told apart from its neighbours in a mail; a full description stays |
| Audit (`audit.py`) | a hash chain of events | append, verify, purge | verification passes unless someone tampered |
| Privacy (`privacy.py`, the file store of `security/crypto.py`) | encrypted files, retention periods | export, `delete_all`, `apply_retention` | deleting never re-opens a used key; no row without its file, no file without a row |
| Facts and answers (`api/profile.py`, `prep/answers.py`) | the profile, facts, conflicts, standard answers | approve, edit, reject, add, resolve, save an answer | a packet cites approved facts only; a difference is asked about, once |
| Packets and claims (`prep/`, `llm/cover_letter.py`) | nothing | build, verify | no claim without provenance |
| Ingestion (`ingestion/`) | uploads, extracted facts | parse, extract, compare, commit | a parse is bounded and isolated; a claim comes up for review once |
| Auth, crypto (`security/`) | sessions, keys, failed logins | login, lock out | lockout after repeated failures |
| Model client (`llm/ollama.py`) | nothing | generate | a failure falls back to the template |
| Web client (`frontend/`) | what a page shows | calls the API | no state of its own |

### How they interact

* A **tick** (every five minutes, `tasks.py`; or the loop of `scheduler.py`)
  polls the boards, matches, prepares every `MATCHED` application, approves it
  on behalf of the user where the source is opted in, and goes through every
  `APPROVED` one: submit, or open a handoff task. It commits many times.
* **Requests** run in sessions of their own while the tick runs. A session loads
  rows, checks them, and commits; nothing locks a row, and the session factory
  sets `expire_on_commit=False` (`db.py:43`), so a session keeps the copy of a
  row it loaded across its own commits. The database runs at READ COMMITTED.
* The one true mutual exclusion is the attempt row: a unique idempotency key
  plus a conditional UPDATE (`_claim_attempt`).
* The pause is read afresh by every check, from the row and from a file.

### What is hard

The tick and the requests overlap at commit granularity with stale copies; the
adapter call is outside any transaction and may time out after the employer has
received the application; a process may die between the claim and the record;
two signals mean "paused" and either may change at any moment; a gate is checked
before, and not together with, the claim it guards; the listing may vanish or
come back in a poll. The list, each at its line, is `hazards` in `PROJECT.json`.

## 2. The modules

| Module | What it is |
|---|---|
| `StateMachine` | the table and sets of `statemachine.py`, as functions and sets |
| `Pipeline` | matching, preparation, approval, gate, submission, handoff, pause, the tick and the requests: one action per commit of each handler |
| `SubmitOnce` | the abstract promise: a right per key, held by one party at a time, one delivery, never handed out again once that is uncertain |
| `MCCore`, `MCSerial`, `MCBatch` | instances of `Pipeline` for TLC |
| `Retention`, `MCRetention` | `Pipeline` with the daily `apply_retention`, which deletes applications and what hangs on them |
| `AuditLog` | the hash chain of `audit.py`: transactions that read its end and append, roll back, purge |
| `Boards`, `MCBoards` | `poll_all`, `poll_board`, the source registry and the requests on boards and sources |
| `Listings`, `MCListings` | what polls, imports, matching and retention do to the `jobs` table and its applications |
| `Facts` | ingestion, conflicts and the review of facts |
| `Packets`, `MCPackets` | what a packet cites and answers, who approves it, over `Facts` |
| `Vault`, `MCVault` | the profile, the rows of documents and the encrypted file store: uploads, `prepare`'s resumes, `delete_all` |
| `Matcher` | the score and the exclusions of `matching.py`, as operators |
| `Letters` | the selection of facts and the verification of a drafted letter (`llm/cover_letter.py`) |
| `Alerts` | the reader of alert e-mails (`ingestion/email_alerts.py`) |
| `Evidence`, `MCEvidence` | the composition of the last three: one listing from the mail to the letter, with its descriptions, the facts and preferences |
| `PipelineProofs`, `AuditProofs`, `BoardsProofs`, `ListingsProofs`, `PacketsProofs`, `VaultProofs`, `EvidenceProofs` | theorems about `Pipeline`, `AuditLog`, `Boards`, `Listings`, `Packets`, `Vault` and `Evidence` |
| `FoldLemmas` | induction over the natural numbers, least and greatest numbers, and what a fold computes; three of the proof modules rest on it |

### Pipeline and the code

A *session* (a worker's tick, or one request) is a process. Its state is a
program counter `pc`, the application it works on (`cur`), and its memory:

* `view` - its copy of `applications.state` per application. Guards in the code
  that read `app.state` read `view` here; code that runs a query reads the
  shared variable. Commits write `appState`. SQLAlchemy writes a column only if
  it differs from the loaded value, so a commit whose new state equals the
  session's copy leaves the row alone, and any other overwrites whatever another
  session has committed meanwhile.
* `pkt` - the packet that an approval or an answer edit has loaded;
* `todo` - the rest of the list that a loop of the tick iterates over;
* `src` - the opt-in as the tick's `sources` object holds it: it is loaded once
  and stays referenced from one application to the next;
* `res` - what the adapter has answered.

A step is one commit, or the stretch to a call that leaves the process: the
letter written by the local model (inside `Prepare`, before its commit), and the
adapter (`AdapterBegin`, `AdapterDeliver`/`AdapterFail`, `Record`).

| Code | Actions |
|---|---|
| `match_jobs` | `Tick`/`MatchNow` load, `MatchCommit` writes, `MatchClash` is the unique constraint that ends a run whose insert lost |
| `auto_process`, first loop | `PrepareNext`, `Prepare`, `AutoApprove` |
| `auto_process`, second loop | `PrepareDone` (the query), `SubmitNext`, `SubmitDone` |
| `try_submit` | `GatePass`/`GateBlock`, `Claim`, `LastCheck`, the adapter, `Record`, `Report` |
| `record_manual_submission` | `ManualClaim`, `ManualFinish` |
| requests on one application | `Request` loads and checks; `Decide`, `Approve`, `SetAnswer`, `Prepare`, `Submit`, `ManualClaim` do the work |
| pause, resume, kill-switch file | `SetPaused`, `SwitchFile` |
| poll, import, handoff dismissal, opt-in, the clock | `Delist`, `Relist`, `ImportApplied`, `DismissHandoff`, `ToggleOptIn`, `DayPasses` |
| a killed process, an exception | `Crash`: the open transaction is rolled back and the memory lost |

`delivered` and `sentPaused` are history variables that no guard reads.

### Abstractions

* A score is a nondeterministic verdict (excluded, match, below the threshold);
  `Evidence` computes it.
* A packet is its approval and whether it leaves nothing open, something open,
  or something to answer on the employer's site. Its version is its index, allotted
  in the commit that adds it. The code reads the last version a moment before that
  commit (`pipeline.py:142`, `165`; the letter is written by then) and no constraint
  keeps versions apart (`models.py:249`): two preparations in that moment share a
  number, and which of the two packets is the latest is then open. No property
  is about that; what is claimed of the packet that is sent is claimed for
  sessions that do not overlap.
* `GateOpen` sees the listing and everything else at one instant. The code runs a
  query per check, and `app.job` may be an object that the session loaded earlier
  (`policy.py:73`, `96`). That the gate's answer may be out of date when the attempt
  is claimed is in the model, between `GatePass` and `Claim`; no property relies on
  the checks being simultaneous, or on the listing being there.
* There is one source. Those checks of the gate that look at data not modelled
  (registry entry, review date, adapter present, freshness, URL, exclusions,
  score, the limit per source) are the freedom of `GateBlock` to refuse at any
  time; all the others are conjuncts of `GateOpen`.
* A request that its first checks refuse changes nothing and is not a step.
  Provenance refusals of `approve` are such refusals.
* `match_jobs` loads the applications and commits once. Its jobs it loads at the
  start (`pipeline.py:51`), the model reads them at the commit; and the query for
  `MATCHED` applications that follows (`354`) is one step with that commit. What
  another session changes in these moments, this run or the next one meets.
* `AutoApprove` loads and commits in one step, because nothing that waits lies
  between.
* Only the newest handoff task of an application is kept, and `Pipeline` never
  deletes a row; `Retention` adds that.
* An insert that loses to a unique key and a conditional UPDATE that matches no
  row both end `_claim_attempt` with "no"; they are one branch of `Claim`.
* `DayPasses` ages each attempt on its own: any order in which attempts fall out
  of the 24-hour window.

### AuditLog and the code

A session here is any transaction that writes events: a tick while it matches, a
request, the retention task. `ReadEnd` is the first statement of `record()`,
`Flush` its insert; any number of events may go into a transaction before
`Commit` or `Rollback`. READ COMMITTED gives `Visible`: what is committed, less
what the session's own purge deleted, and what it flushed itself. Ids come from a
sequence that a rollback does not rewind. A hash is modelled by the id of its
event (the digest covers the content and the hash before it, so no two events
share one); editing a row is not an action, the database's triggers refuse it.
The maintenance flag is a row, so `window` serialises purges as its lock does.
`PurgeTakesPrefix` and `ChainVerifies` are stated on committed rows, as
`verify_chain` reads them.

### Retention and the code

`ApplyRetention` is the whole task in one transaction: which of the rows that it
may delete are old enough is open. Deleting an application (or its job) clears
its packets, attempts and tasks, as the foreign keys cascade. The idempotency key
is a hash of profile, source and the listing's external id, so a listing that
comes back, or never went, maps to the same key. `uncertain` is a history
variable.

### Boards and the code

A *poll* is one session, of a tick or of `POST /pipeline/poll`. `StartPoll` loads
the enabled boards (`objs`, `todo`); `Begin` is `poll_board` up to the request,
including the permission gate on the source object (`held`: `db.get` returns the
object that the loop's variable still refers to, otherwise it loads the row);
`AnswerOK` and `AnswerBad` are the rest of `poll_board` with its commit, which
writes the columns that differ from the loaded object (`Merge`). `Raise` is any
exception that `poll_board` does not catch, and the commit on a board that was
deleted. The requests on boards and sources, `sync_registry`, a review growing
older than `source_recheck_days` and the clock happen between any two of these
steps.

* Boards that are not due when a poll starts are left out of `todo`; the loop
  passes over them on the values it has loaded.
* The order in which a poll goes through the boards is open.
* Time is the wait of each board in seconds: `Elapse` lets it run out. The code
  counts a wait from the start of the poll (`now`, `discovery.py:156`, `166`), not from
  the answer, which comes after the boards before it, the rate limiter and the
  request itself; `ran` is how long that has taken, one of `Delays`. So a wait may
  be shorter than the Retry-After that asked for it, or over already when it is
  written. `ask` is the promise, counted from the answer; `late` is by how much it
  may be broken.
* Failures are counted up to `Cap`. Only 3 matters to the code; beyond the bound
  the backoff stays as it is.
* A board that is added again is a new row; `AddBoard` waits until no poll holds
  the object of the deleted one, whose id it is not.
* `off`, `streak`, `lastPerm`, `ask`, `late` and `readable` are history variables
  that no guard reads.

### Listings and the code

Every action is a transaction. `Store` is the loop body of `upsert_jobs` for one
listing, folded over an answer in any order; `Ends` and `Expire` are its second
loop and `_expire_applications`. A transition that is refused raises
`InvalidTransition`, which is a `ValueError`. In a poll it is caught
(`discovery.py:150`), counted as a failure of the board, and what was done up to it,
the row's expiry included, is committed (`161`): `Reached` is how far the loop got.
An import and the tick's `expire_stale_imports` do not catch it: nothing of them
remains (`ExpireAll`). With the table of `statemachine.py` nothing is ever refused
here, which is a lemma (`NoneRefused`) and what `GoneExpires` depends on.

`published` and `past` are the world: what is on the board or in the user's mailbox,
and deadlines. Any board may be polled at any time; whether one is, `Boards` says.
`Age` is the passing of a listing's time to live.

* What the program knows of a role (employer, title, location normalised) is a
  value that does not change; listings without id or title are not answers.
* The first original found is the one with the lowest id.
* Of the three states that `match_jobs` re-evaluates one is kept, `DISCOVERED`:
  verdicts are in `Pipeline`, scores in `Evidence`. Elsewhere an application moves along any edge of the
  state machine (`Progress`), for the listings in `Handled`.
* The sites of alerts, manual jobs and exports, one group each in the code, are
  groups in `Imports`; expiry of imports looks at all of them together.

### Facts, Packets and the code

`Pipeline` knows of a packet whether something in it is open. `Packets` is the
same handlers seen from the other side: one application, the states in which it
has to do with packets, and all that a packet is made of.

| Code | Actions |
|---|---|
| `ingest_resume`, `ingest_linkedin_export` | `IngestResume`, `IngestExport`; `SaveFact` is `_save_fact` folded over what extraction finds, `Raise` is `_add_conflict` |
| `edit_fact`, `add_fact`, `decide_facts`, `resolve_conflict` | `EditFact`, `AddFact`, `Decide`, `Resolve` |
| `put_answer`, `delete_answer`, `set_packet_answer` | `SaveAnswer`, `SetPacketAnswer` |
| `prepare` | `BeginPreparation` up to the call of the model, `FinishPreparation` the rest |
| `approve` by the user, by the tick, and reopening | `Approve`, `WorkerApproves`, `Reopen` |

`draft` is what a preparation has loaded: facts to cite, answers, the state of
the application. Conflicts it reads after the model's answer, approval reads
everything again (the session holds no reference to the facts and the packet of
its own preparation, so its queries return fresh objects; the application it does
hold, which is why `WorkerApproves` does not look at `app`). Each `transition()`
writes an audit event, and that flushes (`audit.py:63`): a preparation that had
loaded `NEEDS_REVIEW` sends `PREPARED` and then `NEEDS_REVIEW` to the database, so it
does overwrite the state, although it ends where it began. Between these points
everything else may happen. A fact's id is its place in `facts`; `parent = 0` and
`b = 0` are NULL.

* A document is the items that extraction finds in it. Words, their order and
  what the verifier says of a sentence are left out here: a letter of the model
  cites any of the facts that the model was given, which covers whatever
  `Letters` accepts.
* Data of a fact is what its signature is made of; of a role also the end. Two
  normalised names of employers of which one contains the other are a pair in
  `Alike`. A date is a year and a month, as far as they are known.
* The optional and the required questions, the keys that `classify` finds, and
  the profile fields that have a value are constants.
* A list of decisions in one request is decided one by one, a superset of the
  code's interleavings. Requests of the one user do not overlap each other.
* `touched`, `calm`, `approver` and `withdrawn` are history variables that no
  guard reads.

### Vault and the code

The store is no part of any transaction, and that is what this module is about. A
session is a request, a tick that prepares, or `delete_all`; `pc` says what it
does next, `mem` what it has at hand. `put()` is two steps, the creation of the
file (`Put`, `PutText`) and its bytes (`Written`); between them a process may be
killed (`Die`), and the file may be unlinked by a deletion (`WrittenNowhere` and
`Refused` are the `chmod` that then finds another file of that name, or none).

| Code | Actions |
|---|---|
| `upsert_profile`, when there is none | `BeginProfile`, `CreateProfile` |
| `ingest_resume`, `ingest_linkedin_export`, `prepare` | `Upload`/`Prepare` load the profile, `Put`, `Written`, `Look` (is there a row?), `Insert`, `Parse`, `PutText`, `Written`, `Commit` |
| `delete_all` | `List`, `Erase` (the flush), `Unlink` for each file, `Finish` (the commit) |
| an exception, a killed process | `Refused`, `Die` |

`Insert` waits as the foreign key and the unique constraint make it wait.
`asked`, `torn`, `lost` and `stray` are history variables that no guard of a step
reads; the last three are the exceptions that the properties name, and their
definitions say exactly what the code lets happen.

* Whether a file exists and its creation are one step.
* Ids of profiles grow in the order of their commits.
* A `DELETE` that matches no row is not an error: a second `delete_all` of one
  profile goes on, and removes the files again.
* Of an application only its resume's document is here; everything else that hangs
  on the profile goes with it, by the same cascade.

### Matcher, Letters, Alerts, Evidence and the code

Words, skills, places and numbers are members of sets, and a text is what the
program's patterns find in it (`Says`). What remains is what the code computes
from it: shares and roundings (`Matcher`, in tenths of a point, with Python's
round-half-even), which facts ground a sentence (`Letters`), which lines belong to
which link (`Alerts`), the year's pay of a range with its unit (`Annual`).

| Code | Actions |
|---|---|
| `parse_message`, first loop | `Read`: `ReadJobAnchor`, `ReadOtherAnchor`, `ReadLine`, a chunk at a time |
| its second loop, `import_alert_emails` | `Listings`, `ImportAlert` |
| `upsert_jobs` for a later poll, search or alert | `Refresh` |
| `add_manual_job`, `import_linkedin_jobs` (a row of either file) | `AddManualJob`, `ImportExport` |
| `set_description`, `fetch_dice_details` | `SetDescription`, `FetchDetails` |
| `decide_facts`, `resolve_conflict`, `write_prefs` | `Approve`, `Withdraw`, `SavePrefs` |
| `match_jobs`, which the import requests also end with | `MatchJobs` |
| `prepare` around the call of the model | `BeginDraft`, `EndDraft` |

* One listing is followed from the mail to the letter. Duplicates and expiry are
  in `Listings`; an application is its state as far as scores move it.
* The `match_jobs` at the end of an import request is a commit of its own, hence
  an action of its own.
* A row of an export has no description, place or pay (`Exported`). It meets a job
  that the user entered, or an earlier export brought, under the same id: the hash
  of the URL, or the number in it. Several rows are several actions.
* The chunks of a mail are any; a later mail says of the listing what a search
  says (`Found`).
* Which facts are cut off when there are too many, and how relevance orders
  achievements, is open. A fact is approved or it is not.
* A sum of quotients is rounded once where the code adds binary fractions: the two
  differ only where the fraction falls beside an exact tie.

## 3. The runs

Bounds are constants: `Requests` and `Events` select which requests and which
happenings around the pipeline occur, `MaxVersions` stops new preparations of an
application that has so many packets, `DailyLimit` is the preference itself, and
`Overlap = FALSE` starts a request, tick or poll only when no other session is
open. A crash may strike in every run.

**core** (`MCCore.cfg`; 3.4 million states). One application, a worker and a
user overlapping at every step, all twelve requests, the pause button. Is the
application submitted once, truthfully and with consent? `AtMostOnce`,
`AttemptTellsTruth`, `OwnedByOne` and `SessionsAgree` are about the claim
protocol; `AppliedHasAttempt` relates the status shown to the attempt that
proves it although sessions write from stale copies; `OutcomeRecordable` says
that `transition()` never refuses the state an adapter's answer leads to, which
would roll the answer back; `ConsentBeforeSend` that no packet of an application
nobody ever approved is sent. `ImplementsSubmitOnce` is the refinement. One
application is enough here because keys share nothing but the limit and the role
(the other two runs); two sessions because the protocol's conflicts are pairwise
(and the proof covers any number); one packet per application because the second
version matters for `SentAsApproved`, in *serial*.

**serial** (`MCSerial.cfg`; 3.5 million states). What holds when sessions do not overlap, which
is how the tests exercise the code: `UserDecisionStands`, `ApprovedImmutable`,
`SentAsApproved`, and `ClaimedOncePerRole` with a second application for the
same role that an export may bring between any two sessions. Up to two packets
of an application, polls that remove and return listings, the opt-in switched, crashes. The first
three fail when sessions overlap: see *overwrite*, and the hazards at
`pipeline.py:171`, `196` and `277`.

**batch** (`MCBatch.cfg`; 1.0 million states). A tick that works through two
applications for different roles under a limit of one, while the user approves
and edits answers, dismisses handoffs and switches the kill-switch file, and days pass.
`LimitHolds` (one submitter; the count precedes the claim, so two submitters may
exceed it) and `PauseBound` (once either signal is on a session sends at most the
application that was past its last check). `Served`, a liveness property: an
approved application moves on or reaches the user as an open handoff, unless the
pipeline is paused. Two applications and a limit of one are the boundary, and two
are needed because the loop over them can be cut short: the user takes an answer
back and `approve()` raises inside the tick, the tick is killed, an earlier
handoff is dismissed, the limit blocks one, the pause interrupts the loop.

**packets** (`MCPackets.cfg`; 2.5 million states). A resume whose only role the
LinkedIn export dates differently and repeats, an older resume with another
address, a third whose parsing may fail and whose role the export does not have;
a form with one required, sensitive question that the profile does not answer.
`CitesStand`: an approved packet cites only what is approved, apart from what the
user has withdrawn after approving it. `AutoApprovedClean`: what the worker
approves leaves nothing open that matters, and no conflict was open at its
commit, also none that an import raised while the letter was written.
`NoDoubleClaims`, `AskedOnce` and `NoSilentDifference` are about imports that
repeat each other and themselves before and after decisions. Two facts are the
least for a difference, for a claim that is repeated, and for a citation that
falls away while another stays; three would not fit, and what more facts could
disturb is covered by the theorems on `CitesStand`, `AutoApprovedClean` and
`AskedOnce`, which have no bound.

**overwrite** (`MCOverwrite.cfg`; expected violation). *core* with
`UserDecisionStands`. `statemachine.py:30` calls `USER_OWNED` "States after which
nothing automatic may touch the application." The code tests that on its own
copy. The trace: the tick matches an application and waits for its letter; the
user rejects it; the tick's commit writes `PREPARED` over the rejection.

**audit** (`MCAudit.cfg`; 34 thousand states). Two sessions whose transactions
do not overlap, five events, three instants: does the chain verify after any
sequence of transactions (also of several events), rollbacks and purges, and is
a purge always a prefix although it selects by time? Five events give two
transactions of two and a purge record; the theorems cover any number.

**fork** (`MCAuditFork.cfg`; expected violation). The same with overlapping
transactions. `docs/RUNBOOK.md:30`: "`ok: false` names the first tampered row."
Two sessions read the same end of the chain and both commit; verification then
reports a row that nobody tampered with.

**forget** (`MCRetention.cfg`; expected violation). `models.py:273` says that
`UNKNOWN` is "never auto-retried". An application whose outcome is unknown is
rejected by the user, retention deletes it and by cascade its attempt, the
listing is still there, and the next tick that submits claims the same key.

**boards** (`MCBoards.cfg`; 1.1 million states). Two boards of one source, one of
which the user switches, deletes and adds, a worker's poll at a time.
`UserOffStays`: what the user switches off while a poll holds the old row stays
off. `DisabledAfterFailures`: automatic disabling needs three failures since the
last good answer and a permanent one last. `ReadPermitted` bounds the staleness of
the held source object by the poll. `EarlyByPollOnly` is an action property about
the request that comes early: the Retry-After of an answer is kept up to the time
that the poll had run when the answer came, and in full if that is none.
`PolledAgain` is liveness: a failing board, or one that trips the connector, starves
no other. A Retry-After of 90,059 seconds, just beyond the cap of one day and not a
whole number of minutes, is the boundary of the backoff. An answer at once and one
after 500 seconds, more than the backoff of three failures, are the boundaries of
the delay: the wait is whole, cut short, or over when it is written. Two boards of
one source are the least for which an object stays referenced and for which one
can starve the other.

**listings** (`MCListings.cfg`; 0.4 million states). One role published on an
employer's board, in a search and in the user's imports, one listing with a
deadline, one whose application is worked on. `NoChains`, `OpenWhilePublished`,
`ApplicationExpires`, and `GoneExpires`, liveness: a listing that is gone expires in
the end, if its board goes on answering. Three listings are needed for a chain of
duplicates, and three kinds of group for evidence of one kind to be mistaken for
another. The application that is worked on is that of the import: only the expiry
of imports is undone by a refused transition, and again at every tick, so only
there an application in the wrong state could keep listings open for ever. (A
duplicate of a listing that has expired remains a duplicate in the code;
`NoChains` does not say that there is anything else to apply to.)

**vault** (`MCVault.cfg`; 1.1 million states). Two sessions, a resume with its
text, a rendered resume, up to two profiles. `FilesKept`: the files that a row
names are there and whole. `NothingLeft`: what is in the store belongs to a row
or to a request that is not over. `Erased`, liveness: a user who repeats
`delete_all` gets there, although earlier tries have removed files that rows still
name. Two sessions suffice to share a file, to race a deletion and to delete
twice; two files, one of them derived from the other, for rows that share and for
a deletion that is half way; two profiles for a deletion that finds its own gone.
The theorems on `FilesKept` and `NothingLeft` have no bound. The model stops when
both profiles are gone, so deadlock is not checked.

**evidence** (`MCEvidence.cfg`; 1.1 million states). A mail of up to four chunks
with two links, a profile of five facts of which three are under review, two sets
of preferences, a search that finds the listing again, a user who enters it again
with and without a description, an export that tells of it, and a model that writes up to three of four
sentences, among them one that invents a number and one that cites the address.
`OwnLines`: what is told of a listing stands under its own link. `FullTextKept`:
a full description is not overwritten by a summary. `ApprovalHelps`: approvals
alone never lower the score. `LetterGrounded`: every word and number of a drafted
sentence is in approved facts. Four chunks are a link, another, a button or a
footer and a line, the least for a line to go astray; the facts are one of each
kind that the score or the verifier treats differently, the skills one inside and
one outside the lexicon, because only the latter is both requirement and evidence.

Not a run of its own, but visible in `Boards`: `docs/RUNBOOK.md:34` says "After 3
permanent errors (404/401/403) a board is auto-disabled", while the code counts
temporary and permanent failures together (`discovery.py:152`, `157`): two
time-outs and one 404 disable a board. `DisabledAfterFailures` states what the
code does.

Seen while modelling `Boards` and `Listings`:

* A request may come before the Retry-After of the last answer has passed, by as
  long as the poll had run when it got that answer; if two polls overlap, a later
  one may also ask on the row it loaded before the answer came. No document
  promises otherwise; `EarlyByPollOnly` states the bound without overlap.
* Listings of a board that was deleted, disabled or is no longer permitted never
  expire: no poll looks at them. `GoneExpires` has the hypothesis that the board
  goes on answering.

Two docstrings promise more than the code does, and no run is spent on either:

* `policy.py:59` calls `already_applied` a "Duplicate guard across the idempotency
  key AND the job's dedupe key (same role re-posted / other source)." Across
  listings it looks at `SUBMITTED`, `CONFIRMED` and `FOLLOW_UP` (`policy.py:49`,
  `63`); an attempt with an `UNKNOWN` outcome leaves its application `FAILED`, and
  the role may be submitted through its second listing.
* `imports.py:173`: "Past applications become SUBMITTED (external) records so the
  duplicate guard knows about them." Only if there is no application yet
  (`imports.py:202`): a job that was matched before the export told of it stays
  `DISCOVERED`, and may still be applied to.

Seen while modelling `Vault`:

* A file that a killed process left half written is never repaired: `put()` takes
  it for the content (`crypto.py:86`), also when the user uploads the same file
  again. It then fails to decrypt wherever it is read, which in `_snapshot`
  (`pipeline.py:237`) ends every tick that gets to the application.
* A second `delete_all` whose profile is gone by the time it deletes goes on to
  remove the files it had listed, also if another profile has uploaded the same
  content since. That is the `lost` of `FilesKept`.
* An upload that commits between the `SELECT` and the `DELETE` of a deletion loses
  its row by cascade, and its file stays in the store: `stray`.
* Two requests that both find no profile make two (`api/profile.py:56`); everything
  uses the older one.

Seen while modelling `Evidence`:

* `annualize` takes any figure from 1000 on for a year's if no unit is found, while
  its docstring (`base.py:64`) says that an ambiguous salary never triggers the
  floor; and units are looked for as substrings, so "mo" is found in "remote" and
  "day" in "today".
* `add_manual_job` for a URL that the user has described, without a description,
  clears the flag that protects it (`discovery.py:92`), and one more repetition
  wipes the text. `FullTextKept` names the exception. `fetch_dice_details` without
  an answer marks the summary as fetched, so that later summaries do not replace it.
* An export that tells of a job the user entered keeps its description and wipes its
  place and pay (`discovery.py:88-91`).
* No preferred arrangement counts as a mismatch in the score (`matching.py:209`)
  and not as an exclusion (`matching.py:119`).
* The gate reads the stored score, which facts withdrawn and preferences changed
  since have not touched; the exclusions it evaluates anew.
* A sentence may name the role of the achievement that it cites. If that role is
  set back later, approval does not notice: it looks at the ids that are cited.

Seen while modelling `Facts` and `Packets`, and stated by no property, because
no document says otherwise in so many words or the code's way may be meant:

* A resume that is imported after the LinkedIn export is not compared with it:
  `ingest_resume` looks for contact differences only (`service.py:79`). README.md:8
  says "Resume/LinkedIn conflicts are flagged"; `NoSilentDifference` claims that
  of the import of an export.
* A conflict that arises after a packet was prepared does not hold up its approval
  by the user, nor by the worker: `approve` checks the packet's notes, not the
  conflicts (`pipeline.py:204`). `AutoApprovedClean` is about the commit.
* `verify_provenance` compares ids. A cited fact that was set back to pending,
  edited and approved again passes, and the packet has its old words.
* An answer that is un-approved or deleted after a packet refers to it stays
  mapped: the value is looked up when it is sent (`answers.py:120`).
* A file whose parsing failed is recognised by its digest and never parsed again
  (`service.py:54`).
* A template letter cites achievements whatever became of their role
  (`packet.py:131`); the resume does not.

Every property has a mutant: a plausible bug, defined next to the definition it
replaces under the words "A plausible fault" or listed in `PROJECT.json`, under
which the run finds the property violated.

### Fairness

`Served` assumes weak fairness of each worker (`WorkerStep`) and of each request
that has begun (`Handle`), and that sessions are not killed for ever (`Killed`, a
crash that is not also the session's own end: ending normally and being killed
right before look the same). Beat starts a tick every five minutes
(`tasks.py:15-18`) and the loop of `scheduler.py` goes on after a failed tick;
the adapter and the local model are called with timeouts; an HTTP handler runs
to its end. Users need not do anything: starting a request is not fair, and
neither is anything in `Environment`.

`PolledAgain` assumes that ticks poll, that a connector answers or times out, and
that time passes; that polls do not for ever end in exceptions is a hypothesis
of the property, since `Raise` is what an odd answer of one board does to all
boards after it. `GoneExpires` assumes that ticks get past `poll_all` to
`expire_stale_imports` (`tasks.py:38-46`), and that time passes. That polls get
through to the listing's board and that it answers is a hypothesis of the property
(`GoesOnAnswering`, weak fairness of its polls) and no assumption about boards:
a board that is deleted or disabled is polled no more.

`Erased` assumes that a request that has begun goes on (`Step`, weakly fair), and
that a user whose deletion has failed asks for it again, whenever he often enough
can (`Retry`, strongly fair: between two tries other requests may hold the
session). That requests are not killed for ever is a hypothesis of the property.

## 4. The theorems

Every safety property and every action property that a passing run checks is
stated by a theorem, for every value of the constants that the named assumptions
allow, and so is the refinement. TLC keeps the liveness properties.

`PipelineProofs` assumes only the named assumptions of `Pipeline`, so it holds
for any number of applications, workers and users and any limits; the last
column says what else a theorem assumes.

| Theorem | Property | Under |
|---|---|---|
| `TypeCorrect` | `TypeOK` | |
| `DeliveredOnce` | `AtMostOnce` | |
| `AttemptTruthful` | `AttemptTellsTruth` | |
| `OneOwner` | `OwnedByOne` | |
| `HolderInformed` | `SessionsAgree` | |
| `OutcomeNeverRefused` | `OutcomeRecordable` | |
| `Implements` | `ImplementsSubmitOnce` | |
| `AppliedProved` | `AppliedHasAttempt` | |
| `PauseHolds` | `PauseBound` | |
| `ConsentGiven` | `ConsentBeforeSend` | |
| `LimitKept` | `LimitHolds` | `SubmitsAlone` |
| `SentWasApproved` | `SentAsApproved` | `~Overlap` |
| `ApprovedStands` | `ApprovedImmutable` | `~Overlap` |
| `RoleClaimedOnce` | `ClaimedOncePerRole` | `~Overlap` |
| `DecisionsStand` | `UserDecisionStands` | `~Overlap` |

The inductive invariant is `Inv == TypeOK /\ AtMostOnce /\ AttemptTellsTruth /\
OwnedByOne /\ SessionsAgree`. `AtMostOnce` alone is not inductive: a state in
which a session is about to send a key that has been delivered already satisfies
it. What excludes that state is that a session in flight owns its key alone
(`OwnedByOne`) and knows that nothing was delivered yet (`SessionsAgree`), which
in turn needs every claimable key to be undelivered (`AttemptTellsTruth`), which
needs the adapter's answer, still held by the session, to be true
(`SessionsAgree` again). Nor is `TypeOK` inductive: `Record` stores what the
session holds as the adapter's answer, which is a status only because a session
that records has one.

The proof of the step splits sessions' steps three ways: quiet steps touch
neither attempts nor deliveries and do not leave the session in flight
(`QuietStep`); steps that use a key touch that key only, and no other session is
in flight on it (`KeyStep`, `FlightSteps`); the confirmation by the user turns
`SUBMITTED` into `CONFIRMED` (`DecideStep`). The refinement maps an attempt's
status to a right (`PENDING` is held, what may be claimed is free, the rest is
closed) and each step that changes an attempt or a delivery to the step of
`SubmitOnce` of that name (`FlightMaps`); every other step stutters.

The other theorems add an invariant each to `Inv`.

* `AppliedInv`: a request that is about to confirm or to follow up has seen a
  state that only the attempt can have led to (`ConfirmKnows`), and attempts only
  go on from there. That stale copies do no harm here is the point of the proof: a
  session never writes an applied state that it has not itself earned or read.
* `PauseInv`: while nothing is paused nobody counts, and a session that stands
  before the employer's door has not sent under this pause; the next send needs
  another `LastCheck`, which fails.
* `ConsentInv`: between gate and claim the packet that the gate has seen approved
  may be superseded, not lost, because packets are only added and an approval is
  never taken back.
* `LimitInv`: what counts is within the limit, and between gate and claim it is
  below. The second part fails when another submitter claims meanwhile, which the
  code does nothing against (`policy.py:112`). So `SubmitsAlone` says that sessions
  do not overlap, or that one worker runs and no request submits. The proof
  counts sets: a claim adds one attempt to the recent ones (`RecentFinite`).
* `SerialInv`, for sessions that do not overlap: one is at work at a time
  (`Solo`), what it has loaded is still so and the worker's list holds nothing
  the user has decided (`Fresh`), an approved packet leaves nothing open
  (`ApprovedClosed`), and an attempt names the packet that was sent (`SentInv`).
  The *overwrite* run shows what becomes of such a property when sessions overlap.

`AuditProofs` proves `ChainIntact` (`ChainVerifies`) and `PurgeOfPrefix`
(`PurgeTakesPrefix`) under `Overlap = FALSE`, which the *fork* run shows to be
needed, for any number of sessions, events and instants; `TypesKept` needs no
such assumption. The invariant says that one transaction is open at a time
(`Serial`), that the log as each session sees it is a chain in the order of time
and, between reading and flushing, that the session stands at its end
(`Chained`), and that what a transaction adds comes after and what it deletes
before the rest (`Aged`). Two lemmas carry the argument: an event that hangs on
the last one extends a chain (`Extend`), and what a purge by time leaves of a
chain ordered by time is a chain (`Suffix`).

`BoardsProofs` proves `SwitchedOffStays` (`UserOffStays`) and
`AskedWithPermission` (`ReadPermitted`) for any number of boards and polls,
overlapping or not, and `DisabledForCause` (`DisabledAfterFailures`) and
`EarlyAtMost` (`EarlyByPollOnly`) under `Overlap = FALSE`; `RowsTyped` is the type
invariant they rest on. `UserOffStays` is inductive: a poll's commit never
switches a board on. `ReadPermitted` needs `Watched`: the source object that a
poll refers to, if it lets the poll read, was permitted since the poll began. The
other two need `Counts`: one poll at a time (`Solo`); since an object was loaded
its row was changed by requests only, which leave its failures alone or clear
them (`Loaded`); every board to be asked has such an object (`AtHand`); no row
counts a failure that did not happen, or ends a wait earlier than the answer's
`late` allows (`Counted`).
`Answered` and `BackoffLongEnough` hold the arithmetic. With two polls at once
neither is claimed: a poll may count on from failures that another has cleared.

`PacketsProofs` proves `CitesApproved` (`CitesStand`), `WorkerApprovesClean`
(`AutoApprovedClean`) and `NeverAskedAgain` (`AskedOnce`) for any documents,
facts, questions and answers. `CitesStand` is inductive once a packet is known to
be a record (`PacketOK`): approval establishes it, and every later withdrawal is
remembered. `AutoApprovedClean` needs `ReviewOK`: only a packet that is not
approved can be edited, so what the worker has seen stays; a question marked for
the site, which no longer counts as open, was marked by an approval of the user;
and no mapping makes a sensitive question a plain one, or a blank could pass as
optional. `Passable` is the step in which the worker approves. `AskedOnce` needs
only that conflicts and what is raised have their shape; `RaisedOnce` is its
argument, and it holds whatever two documents are compared.

`VaultProofs` proves `FilesStay` (`FilesKept`), `NothingStays` (`NothingLeft`) and
`TypesKept` for any number of sessions, contents and profiles. Two facts about
profiles carry the argument: nobody uses one while an older one is there
(`Oldest`), so that all rows belong to one and the commit of a deletion leaves no
row behind, and a document that is inserted keeps its profile from being deleted
(`Locks`). `FilesKept` is not inductive: a row that is about to be committed needs
its file as much as one that is. `Missing` says so of every file that a session
has found or stored, and `Part` that half a file is being written or was torn.
`NothingLeft` needs `Settled`, which leaves out what deletions hold, and
`Removed`: a file that a deletion has unlinked and that is there again came back
by a request that overtook it, or belongs to another profile's row.

`PacketsProofs` also proves `PacketsTyped` (`TypeOK`), `ClaimedOnce`
(`NoDoubleClaims`) and `DifferencesShow` (`NoSilentDifference`), for documents of
any length. Ingestion is a fold over the document, and each item a fold over what
hangs on it, so a commit is taken for a run of accounts (facts so far, claims
known so far), one more fact at a time (`SavedIs`, `SavedRows`). `FactsInv` is the
invariant. `NoDoubleClaims` alone is not inductive, for the claims known are
those of facts that are not rejected: it takes that a fact the user has not
touched is not rejected either. `BestIs` and `RoleClashesAre` say which role of
the resume a role of the export is compared with and what differs.
`NoSilentDifference` follows: a role of the export that is not backed clashes with
its best match or has none. It is assumed that a document is a list of facts of
the kinds the extractors know and that only roles have something beneath them
(`extract.py:108-153`, `service.py:128-136`).

`ListingsProofs` proves `OriginalsStand` (`NoChains`), `PublishedStaysOpen`
(`OpenWhilePublished`), `ExpiryTakesBoth` (`ApplicationExpires`) and the types
(`ListingsTyped`). A poll stores what is returned in some order, each listing
against the table that the one before has left; `StoreRun` makes it a run of
tables, and `StoredIs` says what comes out for any order: what was returned is
there, listed and fresh, the rest is as before, originals stay originals.
`NoneRefused` says that the state machine lets every application expire that
`_expire_applications` touches, so that a poll's loop gets to its end. The
invariant is `TypeOK /\ NoChains`; a row is made a duplicate when it is inserted,
of a listed original, and originals are never made duplicates later.

`FoldLemmas` gives both what they need. The library's induction theorems have an
operator as a parameter and cannot be used here; `SetInduction` is the same for
a set of numbers: if it holds 0 and with a number the next, `Nat` is part of it.
(Were m not in it, adding one would map the part up to m one to one into that
part without 0, against the pigeonhole principle, which the library proves.)
From it follow `Least`, `Greatest` and `FoldExists`: over an initial segment there
is a function that applies a step as the folds of the library do, and then the
fold, a CHOOSE, is such a function.

`EvidenceProofs` proves `LettersGrounded` (`LetterGrounded`) for any facts,
sentences and listings: what prepare has read was approved then, what was
withdrawn since is remembered, and the verifier compares with nothing else. It
uses the assumption that parents are roles, as ingestion and `add_fact` see to it.
`LinesOwned` (`OwnLines`) holds for mails of any length; its invariant adds
`NextStands`: the next line, if there is one, stands under an anchor of the
listing at hand. `DescriptionsStay` (`FullTextKept`) needs `RowInv`: a full
description that neither the user nor a fetch has marked as such came with a job
that the user entered. It uses that searches and alerts return summaries
(`PastedAssumption`), that exports describe nothing (`ExportedAssumption`), and that a listing of a mail is made of its lines
(`ReaderInv`).

`EvidenceHelps` (`ApprovalHelps`) says that approving facts never lowers a score.
`MatchInv` keeps that the last score is one of a part of the facts approved now,
as long as only approvals came since. `ScoreGrows` compares the two, criterion by
criterion. Titles: a maximum over more targets (`TitlesHelp`). Skills are the hard
part: an approved skill that the listing names enlarges what is matched and also
what counts as required, so it takes m/r <= (m+k)/(r+k) for m <= r (`SkillsHelp`).
Years: months that several roles cover count once, and years beyond those asked
for count for nothing (`YearsGrow`, `YearsHelp`). Rounding to the nearest, with
ties to the even, keeps the order of quotients with different denominators
(`RoundedMono`). It is assumed that weights are not negative, as `write_prefs`
sees to it, that words, skills and titles are finitely many, and that dates and
years are natural numbers (`EvidenceAssumption`, `PrefsAssumption`, `SaysAssumption`).

Model-checked only: `Served`, `PolledAgain`, `GoneExpires` and `Erased`, which as
liveness under fairness are beyond this prover, and the three runs that expect a
violation.

## 5. Plan

In order; each is a module with its runs, the marked ones (*) with proofs.

1. **Pipeline core** (done): `StateMachine`, `SubmitOnce`, `Pipeline`*.
2. **Retention**, **Vault**\* (done).
3. **AuditLog**\* (done; an abstract append-only log as what it promises is left).
4. **Boards**\*, **Listings**\* (done; the rate limiter, and `Listings`
   composed with `Pipeline` as one system, are left).
5. **Alerts**\*, **Matcher**\*, **Letters**\*, **Evidence**\* (done; the
   deduplication keys are left).
6. **Facts**\*, **Packets**\* (done; the approvals of several applications at once
   are left).
7. **Worker**: beat, time limits, acks_late, the loop of `scheduler.py`, and what
   an exception in `poll_all` keeps a tick from doing (`tasks.py:38`).
8. **Auth**: login, lockout, sessions.
9. **More proofs**: which of these theorems survive `Retention`, whose deletions
   take attempts and packets away; what holds of sessions that overlap,
   restricted to the overlaps that are harmless.

### Not modelled, and why

The parsing of documents, HTML and mail, text generation, cryptography and the web
client's layout are data transformation without the control that these
properties are about. Connectors are HTTP clients behind one interface;
discovery's reaction to their errors is in `Boards`; of their parsing only pay and
arrangement are modelled. Logins and sessions share no state with the rest.
Everything else not modelled yet is in the plan above and marked in
`PROJECT.json`.
