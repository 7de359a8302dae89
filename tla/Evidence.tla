------------------------------ MODULE Evidence ------------------------------
(***************************************************************************)
(* From an alert e-mail to a score and a letter: one listing, as imports and *)
(* polls store it (imports.py, discovery.py), the facts that the user        *)
(* approves, and what match_jobs and prepare (pipeline.py) make of both.     *)
(*                                                                          *)
(* Every action is one transaction, except that prepare reads the facts      *)
(* before it waits for the local model.  Duplicates, expiry and the rest of  *)
(* an application's life are in Listings and Pipeline.                       *)
(***************************************************************************)
EXTENDS Letters, Alerts

CONSTANTS
  Facts,   \* ids of facts
  Prefs,   \* preferences the user may have
  Default, \* those that a new profile has
  Pasted,  \* texts that are a full description
  Reviewed, \* bound: facts that are not approved from the start
  Followed, \* bound: titles in an alert of which the listing is followed
  Found,   \* listings as a search returns them
  Typed,   \* listings as the user enters them, with or without a description
  Exported \* listings as an export tells of them

ASSUME FactsAssumption == IsFiniteSet(Facts) /\ None \notin Facts /\ DOMAIN Fact = Facts
ASSUME ReviewedAssumption == Reviewed \subseteq Facts
\* Ingestion hangs achievements on their role, a request may name no other fact.
ASSUME ParentsAssumption ==
  \A i \in Facts : Fact[i].parent # None => Fact[i].parent \in Facts /\ Fact[Fact[i].parent].kind = "role"
\* What a search returns is a summary.
ASSUME PastedAssumption ==
  /\ Pasted \intersect Texts = {}
  /\ \A l \in Found : l.text \subseteq Texts
  /\ \A l \in Typed : l.text \subseteq Texts \union Pasted
\* A row of an export has a title and an employer, and a URL.
ASSUME ExportedAssumption == \A l \in Exported : l.text = {} /\ l.location = Empty /\ l.pay = Empty
\* write_prefs() refuses a weight below 0; required_years() looks for digits.
ASSUME PrefsAssumption ==
  \A p \in Prefs \union {Default} :
    p.weights \in [Criteria -> Nat] /\ IsFiniteSet(p.keywords) /\ \A t \in p.titles : IsFiniteSet(t)
ASSUME SaysAssumption == \A t \in Texts \union Pasted : Says[t].years \subseteq Nat

VARIABLES
  job,       \* the row of jobs, or NoLink
  approved,  \* facts whose status is APPROVED
  prefs,     \* the row of preferences
  app,       \* applications.state
  match,     \* the score and skills of the last evaluation
  draft,     \* what prepare has read while the model writes
  letter,    \* the sentences of the model in the packet, and the job's words
  changed,   \* history: more than approvals since the last evaluation
  withdrawn  \* history: facts withdrawn since prepare read them

vars == <<readerVars, job, approved, prefs, app, match, draft, letter, changed, withdrawn>>

NoDraft == [known |-> {}, given |-> {}, jobWords |-> {}, waiting |-> FALSE]
NoLetter == [body |-> {}, jobWords |-> {}]

Init ==
  /\ ReaderInit
  /\ job = NoLink
  /\ approved = Facts \ Reviewed
  /\ prefs = Default
  /\ app = "NONE" /\ match = [score |-> 0, skills |-> {}]
  /\ draft = NoDraft /\ letter = NoLetter
  /\ changed = FALSE /\ withdrawn = {}

-----------------------------------------------------------------------------
(* Pay: parse_salary_text and annualize (connectors/base.py) *)

Units == <<"hour", "hr", "day", "week", "wk", "month", "mo", "year", "yr", "annum", "annual">>
PerYear == [hour |-> 2080, hr |-> 2080, day |-> 260, week |-> 52, wk |-> 52, month |-> 12, mo |-> 12,
            year |-> 1, yr |-> 1, annum |-> 1, annual |-> 1]

\* The first of Units that occurs in what follows the figures, also as a part of
\* another word; with none, a large figure is taken for a year's.
Annual(figure, units) ==
  LET said == SelectSeq(Units, LAMBDA u : u \in units)
      year == IF said # <<>> THEN figure * PerYear[Head(said)] ELSE figure
  IN  IF (said = <<>> /\ figure < 1000) \/ year < 1000 \/ year > 10000000 THEN None ELSE year

PayOf(text) ==
  IF text = Empty \/ Says[text].range = None THEN None
  ELSE Annual(Says[text].range.most, Says[text].range.units)
CurrencyOf(text) == IF PayOf(text) = None THEN None ELSE Says[text].range.currency

-----------------------------------------------------------------------------
(* What the matcher sees of the row *)

Said(texts, what) == UNION {Says[t][what] : t \in texts \ {Empty}}

\* infer_arrangement: `hybrid' goes before `remote', `remote' before `on-site'.
Arrangement(texts) ==
  FirstOf(<<"hybrid", "remote", "onsite", "unknown">>, Said(texts, "arrangement") \union {"unknown"})

View(row) ==
  [title       |-> Said({row.title}, "tokens"),
   level       |-> Says[row.title].level,
   terms       |-> Said(row.text \union {row.title}, "terms"),
   described   |-> Said(row.text \union {row.title}, "terms"),
   years       |-> Said(row.text, "years"),
   arrangement |-> Arrangement({row.location, row.title}),
   located     |-> row.location # Empty,
   places      |-> Said({row.location}, "places"),
   pay         |-> PayOf(row.pay),
   currency    |-> CurrencyOf(row.pay),
   industries  |-> Said(row.text \union {row.title, row.employer}, "industries"),
   employer    |-> row.employer,
   type        |-> "unknown",
   expired     |-> FALSE,
   duplicate   |-> FALSE]

-----------------------------------------------------------------------------
(* Where the row comes from *)

\* A plausible fault: only what was fetched is protected.
KeepsTextFetched(row) == row.fetched
KeepsText(row) == row.fetched \/ row.byUser

\* What a listing says, and what becomes of its description and its meta.
Row(l, origin, text, fetched, byUser) ==
  [title |-> l.title, text |-> text, location |-> l.location, pay |-> l.pay, employer |-> l.employer,
   origin |-> origin, fetched |-> fetched, byUser |-> byUser]

\* upsert_jobs, for a listing whose meta says whether the user described it, or
\* does not mention it: what is known stays, what is said is replaced.
Upsert(origin, l, mentions) ==
  /\ job' = IF job = NoLink THEN Row(l, origin, l.text, FALSE, mentions /\ l.text # {})
            ELSE Row(l, origin, IF KeepsText(job) THEN job.text ELSE l.text, job.fetched,
                     IF mentions THEN l.text # {} ELSE job.byUser)
  /\ changed' = TRUE
  /\ UNCHANGED <<approved, prefs, match, draft, letter, withdrawn>>

Origin(first) == IF job = NoLink THEN first ELSE job.origin

\* import_alert_emails: the listings of the mail are stored; one is followed.
ImportAlert ==
  /\ mail # <<>>
  /\ \/ UNCHANGED <<job, approved, prefs, app, match, draft, letter, changed, withdrawn>>
     \/ \E l \in {m \in Listings : m.title \in Followed} : Upsert("alert", l, FALSE) /\ UNCHANGED app
  /\ mail' = <<>> /\ order' = <<>> /\ current' = NoLink
  /\ entry' = [l \in Links |-> Blank]

\* A search, or a later alert, says of the listing what it says by then.
Refresh(origin) ==
  /\ mail = <<>> /\ origin = Origin("search")
  /\ \E l \in Found : Upsert(origin, l, FALSE)
  /\ UNCHANGED <<readerVars, app>>

\* add_manual_job: the meta says that there is no description when there is none.
AddManualJob ==
  /\ mail = <<>> /\ Origin("manual") = "manual"
  /\ \E l \in Typed : Upsert("manual", l, TRUE)
  /\ UNCHANGED <<readerVars, app>>

\* import_linkedin_jobs, for a row of the export: it goes to the source of manual
\* jobs and says nothing of who described it.  If the user has applied, that is an
\* application made, unless there is one.
ImportExport ==
  /\ mail = <<>> /\ Origin("manual") = "manual"
  /\ \E l \in Exported : Upsert("manual", l, FALSE)
  /\ \/ UNCHANGED app
     \/ app = "NONE" /\ app' = "SUBMITTED"
  /\ UNCHANGED readerVars

Describe(texts, byUser, fetched) ==
  /\ job' = [job EXCEPT !.text = texts, !.byUser = byUser, !.fetched = fetched]
  /\ changed' = TRUE
  /\ UNCHANGED <<readerVars, approved, prefs, app, match, draft, letter, withdrawn>>

SetDescription ==
  /\ job # NoLink /\ job.origin \in {"alert", "manual"}
  /\ \E t \in Pasted : Describe({t}, TRUE, job.fetched)

\* fetch_dice_details: the summary stays if there are no details, and is marked
\* as fetched all the same.
FetchDetails ==
  /\ job # NoLink /\ job.origin = "search"
  /\ \E texts \in {{t} : t \in Pasted} \union {job.text} : Describe(texts, job.byUser, TRUE)

-----------------------------------------------------------------------------
(* The user *)

\* decide_facts and resolve_conflict: approvals; anything else withdraws.
Approve(i) ==
  /\ mail = <<>> /\ i \notin approved
  /\ approved' = approved \union {i}
  /\ UNCHANGED <<readerVars, job, prefs, app, match, draft, letter, changed, withdrawn>>

Withdraw(i) ==
  /\ mail = <<>> /\ i \in approved
  /\ approved' = approved \ {i}
  /\ changed' = TRUE
  /\ withdrawn' = IF draft.waiting \/ letter # NoLetter THEN withdrawn \union {i} ELSE {}
  /\ UNCHANGED <<readerVars, job, prefs, app, match, draft, letter>>

\* write_prefs
SavePrefs ==
  /\ mail = <<>>
  /\ \E p \in (Prefs \union {Default}) \ {prefs} : prefs' = p
  /\ changed' = TRUE
  /\ UNCHANGED <<readerVars, job, approved, app, match, draft, letter, withdrawn>>

-----------------------------------------------------------------------------
(* The worker *)

\* match_jobs, as far as it depends on the score.
MatchJobs ==
  /\ mail = <<>> /\ job # NoLink
  /\ app \in {"NONE", "DISCOVERED", "MATCHED", "BLOCKED_BY_POLICY"}
  /\ LET view == View(job)
         score == Score(view, prefs, approved)
     IN  /\ match' = [score |-> score, skills |-> Matched(view, prefs, approved)]
         /\ app' = IF Excluded(view, prefs) THEN "BLOCKED_BY_POLICY"
                   ELSE IF score >= 10 * prefs.minScore THEN "MATCHED" ELSE "DISCOVERED"
  /\ changed' = FALSE
  /\ UNCHANGED <<readerVars, job, approved, prefs, draft, letter, withdrawn>>

JobWords == Said({job.title, job.employer}, "words")

\* prepare(), until it calls the model.
BeginDraft ==
  /\ mail = <<>> /\ ~draft.waiting /\ app \in {"MATCHED", "PREPARED"}
  /\ \E given \in Selections(approved, match.skills) :
       draft' = [known |-> approved, given |-> given, jobWords |-> JobWords, waiting |-> TRUE]
  /\ UNCHANGED <<readerVars, job, approved, prefs, app, match, letter, changed, withdrawn>>

\* The reply is verified against what was read; without one, or with too little
\* left of it, the letter is the template's.
EndDraft ==
  /\ draft.waiting
  /\ \E body \in {Body(reply, draft.given, draft.known, draft.jobWords) : reply \in Replies} :
       letter' = [body |-> body, jobWords |-> draft.jobWords]
  /\ app' = "PREPARED" /\ draft' = NoDraft
  /\ withdrawn' = draft.known \ approved
  /\ UNCHANGED <<readerVars, job, approved, prefs, match, changed>>

-----------------------------------------------------------------------------
\* Bound: a mail is read before the user has changed anything.
NewUser == job = NoLink /\ approved = Facts \ Reviewed /\ prefs = Default

Next ==
  \/ NewUser /\ Read /\ UNCHANGED <<job, approved, prefs, app, match, draft, letter, changed, withdrawn>>
  \/ ImportAlert \/ Refresh("search") \/ Refresh("alert") \/ AddManualJob \/ ImportExport
  \/ SetDescription \/ FetchDetails
  \/ \E i \in Reviewed : Approve(i) \/ Withdraw(i)
  \/ SavePrefs \/ MatchJobs \/ BeginDraft \/ EndDraft

Spec == Init /\ [][Next]_vars

-----------------------------------------------------------------------------
\* score_job(): "Missing evidence lowers the score and is never assumed"
\* (matching.py), so evidence that is approved never lowers it: an application
\* that matched does not fall back because the user approved more facts.
ApprovalHelps ==
  [][MatchJobs /\ ~changed => match'.score >= match.score]_vars

\* cover_letter.py: "use only content words grounded in the cited facts".  Every
\* word and number of a drafted sentence is in a fact, not a contact detail, that
\* the user has approved and at most withdrawn while the model wrote or later.
LetterGrounded ==
  LET evidence == {i \in approved \union withdrawn : Fact[i].kind # "contact"}
  IN  \A s \in letter.body :
        /\ s.cites \subseteq evidence
        /\ s.words \subseteq Style \union letter.jobWords \union UNION {Fact[i].words : i \in evidence}
        /\ s.numbers \subseteq UNION {Fact[i].numbers : i \in evidence}

\* "never overwrite a fetched/user-provided full description with a summary"
\* (discovery.py): a full description stays, through polls, alerts and exports,
\* until another one replaces it; only a job that the user enters again without
\* a description can lose it.
FullTextKept ==
  [][/\ job # NoLink
     /\ job.text \intersect Pasted # {}
     /\ job'.text \intersect Pasted = {}
     => job.origin = "manual" /\ ~job.byUser]_vars
=============================================================================
