------------------------------ MODULE Packets -------------------------------
(***************************************************************************)
(* What a packet is made of, and who lets it pass: the preparation and the  *)
(* approval of one application's latest packet (backend/app/pipeline.py,    *)
(* prep/packet.py, prep/answers.py, llm/cover_letter.py) over the facts and *)
(* the standard answers that the user reviews meanwhile.                    *)
(*                                                                          *)
(* A preparation loads facts and answers, waits for the local model, and    *)
(* commits; everything else may happen in between, another preparation      *)
(* excepted (Pipeline has those, and every other state of an application).  *)
(***************************************************************************)
EXTENDS Facts

CONSTANTS
  Questions,    \* the questions of a form
  KeyOf,        \* KeyOf[q]: the key that classify finds for it
  Required,     \* the questions that must be answered
  Sensitive,    \* SENSITIVE_KEYS
  Supplied,     \* keys of profile fields that have a value, and of packet files
  Answers,      \* keys for which the user may keep a standard answer
  Wanted        \* skills that the listing asks for

MAX_ACHIEVEMENTS_PER_ROLE == 6
Preparable == {"MATCHED", "PREPARED", "NEEDS_REVIEW"}

ASSUME QuestionsAssumption == KeyOf \in [Questions -> STRING] /\ Required \subseteq Questions

VARIABLES
  app,       \* state of the application, of those in which it has to do with packets
  packet,    \* its latest packet
  answers,   \* keys whose standard answer is there and approved
  pc,        \* "idle"; "letter", the model is at work; "approve", the tick goes on to approve
  draft,     \* what the preparation has loaded
  calm,      \* history: no conflict was open when the packet was committed
  approver,  \* history: who approved the packet first
  withdrawn  \* history: facts whose approval was withdrawn since the last approval

vars == <<documents, facts, conflicts, touched, app, packet, answers, pc, draft, calm, approver, withdrawn>>
history == <<calm, approver, withdrawn>>

Entry == [status : {"SUPPORTED", "USER_APPROVED", "NEEDS_REVIEW", "SENSITIVE_MISSING", "ATTESTATION", "ON_SITE"},
          sensitive : BOOLEAN]
NoEntries == [q \in Questions |-> [status |-> "NEEDS_REVIEW", sensitive |-> FALSE]]
NoPacket == [there |-> FALSE, cites |-> {}, entries |-> NoEntries, notes |-> "none", approved |-> FALSE]
NoDraft == [by |-> "nobody", from |-> "MATCHED", cites |-> {}, noted |-> FALSE, usable |-> {}]

\* Every row and every variable of a session holds a value of its type.
TypeOK ==
  /\ FactsOK
  /\ app \in {"MATCHED", "PREPARED", "NEEDS_REVIEW", "APPROVED"}
  /\ packet \in [there : BOOLEAN, cites : SUBSET (DOMAIN facts), entries : [Questions -> Entry],
                 notes : {"none", "open", "on_site"}, approved : BOOLEAN]
  /\ app # "MATCHED" => packet.there
  /\ answers \subseteq Answers
  /\ pc \in {"idle", "letter", "approve"}
  /\ draft \in [by : {"nobody", "worker", "user"}, from : Preparable, cites : SUBSET (DOMAIN facts),
                 noted : BOOLEAN, usable : SUBSET Answers]
  /\ calm \in BOOLEAN /\ approver \in {"nobody", "worker", "user"}
  /\ withdrawn \subseteq DOMAIN facts

Init ==
  /\ FactsInit
  /\ app = "MATCHED" /\ packet = NoPacket
  /\ answers = {}
  /\ pc = "idle" /\ draft = NoDraft
  /\ calm = TRUE /\ approver = "nobody" /\ withdrawn = {}

-----------------------------------------------------------------------------
(* What a packet cites *)

OfKind(fs, kinds) == {i \in Approved(fs) : fs[i].kind \in kinds}
ApprovedRoles(fs) == OfKind(fs, {"role"})

Under(fs, parent) == {i \in OfKind(fs, {"achievement"}) : fs[i].parent = parent}
AtMost(n, S) == IF Cardinality(S) < n THEN Cardinality(S) ELSE n

\* What a resume may cite: relevance orders the achievements of a role, and
\* the first of them are listed under it; one without a role is listed on its own.
Resumes(fs) ==
  {OfKind(fs, {"role", "skill", "education", "certification", "project"})
     \union {i \in OfKind(fs, {"summary"}) : \A j \in OfKind(fs, {"summary"}) : i <= j}
     \union Under(fs, 0) \union listed :
     listed \in {S \in SUBSET UNION {Under(fs, r) : r \in ApprovedRoles(fs)} :
       \A r \in ApprovedRoles(fs) :
         Cardinality(S \intersect Under(fs, r)) = AtMost(MAX_ACHIEVEMENTS_PER_ROLE, Under(fs, r))}}

\* The template letter: the latest role, up to three achievements whatever
\* their role, and those wanted skills that were known when it was matched.
Rank(date) == IF date = <<>> THEN 0 ELSE 13 * date[1] + date[2]
LatestRoles(fs) ==
  {i \in ApprovedRoles(fs) : \A j \in ApprovedRoles(fs) : Rank(fs[j].data.start) <= Rank(fs[i].data.start)}
TemplateLetters(fs) ==
  {S \in SUBSET (LatestRoles(fs) \union OfKind(fs, {"achievement"})) :
     /\ Cardinality(S \intersect LatestRoles(fs)) = (IF LatestRoles(fs) = {} THEN 0 ELSE 1)
     /\ Cardinality(S \ LatestRoles(fs)) = AtMost(3, OfKind(fs, {"achievement"}))}
Evidence(fs) == {i \in OfKind(fs, {"skill"}) : fs[i].data \in Wanted}

\* The facts that the local model is given, and may cite: at most MAX_FACTS of
\* these, of at most four roles.
Offered(fs) ==
  OfKind(fs, Kinds \ {"contact", "skill", "achievement", "project"}) \union
  Evidence(fs) \union
  {i \in OfKind(fs, {"achievement", "project"}) : fs[i].parent \in {0} \union ApprovedRoles(fs)}

\* A sentence of the model that cites anything else, or says more than what it
\* cites, is dropped; with too few left the template's body stays.
Letters(fs) ==
  {S \union skills : S \in TemplateLetters(fs), skills \in SUBSET Evidence(fs)}
  \union ((SUBSET Offered(fs)) \ {{}})

\* verify_provenance, at preparation and at approval.
Verified(cites, fs) == cites \subseteq Approved(fs)

-----------------------------------------------------------------------------
(* Form answers *)

DraftAnswer(q, usable) ==
  [sensitive |-> KeyOf[q] \in Sensitive,
   status |-> IF KeyOf[q] = "attestation" THEN "ATTESTATION"
              ELSE IF KeyOf[q] \in Supplied THEN "SUPPORTED"
              ELSE IF KeyOf[q] \in usable THEN "USER_APPROVED"
              ELSE IF KeyOf[q] \in Sensitive THEN "SENSITIVE_MISSING" ELSE "NEEDS_REVIEW"]

Blocking(q, e) ==
  /\ e.status \notin {"SUPPORTED", "USER_APPROVED"}
  /\ ~(e.status = "NEEDS_REVIEW" /\ q \notin Required /\ ~e.sensitive)

OpenItems(p) ==
  {q \in Questions : Blocking(q, p.entries[q]) /\ p.entries[q].status # "ON_SITE"}
OpenConflicts == \E c \in conflicts : c.status = "OPEN"

\* PUT and DELETE /answers/{key}: an answer that is not approved is as good
\* as none.
SaveAnswer ==
  /\ \E k \in Answers : answers' \in {answers \union {k}, answers \ {k}}
  /\ UNCHANGED <<factVars, app, packet, pc, draft, history>>

\* The user maps a question to an approved answer, or takes the mapping back;
\* not for an attestation.
Mappings(e) ==
  {[status |-> "USER_APPROVED", sensitive |-> e.sensitive \/ k \in Sensitive] : k \in answers} \union
  {[status |-> "NEEDS_REVIEW", sensitive |-> e.sensitive]}
SetPacketAnswer(q) ==
  /\ packet.there /\ ~packet.approved /\ packet.entries[q].status # "ATTESTATION"
  /\ \E e \in Mappings(packet.entries[q]) : packet' = [packet EXCEPT !.entries = [@ EXCEPT ![q] = e]]
  /\ UNCHANGED <<factVars, app, answers, pc, draft, history>>

-----------------------------------------------------------------------------
(* Preparation and approval *)

\* The tick prepares what it has matched; the user may prepare again.  A
\* listing whose title looks like instructions, and a profile without approved
\* facts, are noted for the reviewer.
BeginPreparation(by) ==
  /\ pc = "idle"
  /\ app \in (IF by = "worker" THEN {"MATCHED"} ELSE Preparable)
  /\ \E resume \in Resumes(facts), letter \in Letters(facts), flagged \in BOOLEAN :
       /\ Verified(resume \union letter, facts)
       /\ draft' = [by |-> by, from |-> app, cites |-> resume \union letter,
                    noted |-> flagged \/ Approved(facts) = {}, usable |-> answers]
  /\ pc' = "letter"
  /\ UNCHANGED <<factVars, app, packet, answers, history>>

\* Conflicts are read only now.  A session that had loaded PREPARED has no new
\* state to write, whatever the state has become; one that had loaded NEEDS_REVIEW
\* and finds something open writes it again, because each transition() flushes with
\* its audit event: PREPARED goes out first.  A plausible fault: the notes for the
\* reviewer are attached but do not count as unsupported items.
UncountedNotes(p) == OpenItems(p) # {}
Unsupported(p) == OpenItems(p) # {} \/ p.notes = "open"

FinishPreparation(optedIn) ==
  /\ pc = "letter"
  /\ packet' = [there |-> TRUE, cites |-> draft.cites, approved |-> FALSE,
                entries |-> [q \in Questions |-> DraftAnswer(q, draft.usable)],
                notes |-> IF OpenConflicts \/ draft.noted THEN "open" ELSE "none"]
  /\ app' = IF Unsupported(packet') THEN "NEEDS_REVIEW"
            ELSE IF draft.from = "PREPARED" THEN app ELSE "PREPARED"
  /\ pc' = IF draft.by = "worker" /\ app' = "PREPARED" /\ optedIn THEN "approve" ELSE "idle"
  /\ draft' = NoDraft
  /\ calm' = ~OpenConflicts /\ approver' = "nobody" /\ withdrawn' = {}
  /\ UNCHANGED <<factVars, answers>>

\* What an approval is refused for.  A plausible fault: provenance is verified
\* when the packet is prepared, and trusted from then on.
MayPassTrusting(p) == p.there
MayPass(p) == p.there /\ Verified(p.cites, facts)

Pass(by) ==
  /\ app' = "APPROVED"
  /\ approver' = (IF packet.approved THEN approver ELSE by)
  /\ withdrawn' = {}
  /\ UNCHANGED <<factVars, answers, draft, calm>>

\* The tick that prepared the packet approves it where the user has opted in,
\* or fails and ends.
WorkerApproves ==
  /\ pc = "approve" /\ pc' = "idle"
  /\ IF MayPass(packet) /\ ~Unsupported(packet)
     THEN packet' = [packet EXCEPT !.approved = TRUE] /\ Pass("worker")
     ELSE UNCHANGED <<factVars, app, packet, answers, draft, history>>

Approve(onSite) ==
  /\ app \in {"PREPARED", "NEEDS_REVIEW"} /\ MayPass(packet)
  /\ onSite \/ ~Unsupported(packet)
  /\ packet' = [packet EXCEPT
       !.approved = TRUE,
       !.entries = [q \in Questions |->
          IF q \in OpenItems(packet) THEN [@[q] EXCEPT !.status = "ON_SITE"] ELSE @[q]],
       !.notes = IF @ = "open" THEN "on_site" ELSE @]
  /\ Pass("user") /\ UNCHANGED pc

Reopen ==
  /\ app = "APPROVED" /\ app' = "NEEDS_REVIEW"
  /\ withdrawn' = {}
  /\ UNCHANGED <<factVars, packet, answers, pc, draft, calm, approver>>

\* The facts and conflicts change under the packet.
Review ==
  /\ FactsNext
  /\ withdrawn' = IF app = "APPROVED" THEN withdrawn \union (Approved(facts) \ Approved(facts')) ELSE {}
  /\ UNCHANGED <<app, packet, answers, pc, draft, calm, approver>>

Next ==
  \/ Review
  \/ SaveAnswer
  \/ \E q \in Questions : SetPacketAnswer(q)
  \/ \E by \in {"worker", "user"} : BeginPreparation(by)
  \/ \E optedIn \in BOOLEAN : FinishPreparation(optedIn)
  \/ WorkerApproves
  \/ \E onSite \in BOOLEAN : Approve(onSite)
  \/ Reopen

Spec == Init /\ [][Next]_vars

-----------------------------------------------------------------------------
(* Properties *)

\* "Unapproved facts never appear" (docs/THREAT_MODEL.md): whatever was
\* rejected while the letter was drafted, an approved packet cites facts that
\* are approved, except what the user has withdrawn after approving it.
CitesStand == packet.approved /\ app = "APPROVED" => packet.cites \subseteq Approved(facts) \union withdrawn

\* What passes without the user has every required and every sensitive
\* question answered, and was committed with no difference between the
\* documents undecided, also none found while its letter was drafted.
AutoApprovedClean ==
  approver = "worker" =>
    /\ calm
    /\ \A q \in Questions :
         q \in Required \/ KeyOf[q] \in Sensitive =>
           packet.entries[q].status \in {"SUPPORTED", "USER_APPROVED"}
=============================================================================
