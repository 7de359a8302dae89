------------------------------- MODULE Facts --------------------------------
(***************************************************************************)
(* The fact profile: documents are ingested into PENDING facts with a       *)
(* parent and an origin (backend/app/ingestion/service.py), differences     *)
(* between them become conflicts, and the user edits, adds, decides and     *)
(* resolves (backend/app/api/profile.py).  Packets builds on it.            *)
(*                                                                          *)
(* A request is one step: one user, whose requests do not overlap.          *)
(***************************************************************************)
EXTENDS Integers, Sequences, FiniteSets, SequencesExt

CONSTANTS
  Documents,    \* the files that the user may hand in, by their digest
  KindOf,       \* KindOf[d]: "resume" or "linkedin_export"
  Content,      \* Content[d]: what extraction finds in it, in order
  Fragile,      \* the documents whose parsing may fail
  Alike,        \* pairs of employers of which one's normalised name contains the other's
  ProfileEmail, \* the address in the profile; a contact fact is an address
  Typed,        \* bound: what users type into an edited or added fact
  MaxFacts      \* bound: nothing is ingested or added beyond so many facts

Kinds == {"role", "achievement", "education", "skill", "certification", "project", "contact", "summary"}
Origins == {"resume", "linkedin_export", "user"}
Statuses == {"PENDING", "APPROVED", "REJECTED"}

\* A document is a list; only roles have something beneath them (_experience,
\* ingest_linkedin_export).
ASSUME DocumentsAssumption ==
  /\ KindOf \in [Documents -> {"resume", "linkedin_export"}]
  /\ \A d \in Documents :
       /\ Content[d] \in Seq(ToSet(Content[d]))
       /\ \A n \in DOMAIN Content[d] :
            /\ Content[d][n].kind \in Kinds
            /\ Content[d][n].children \in Seq(ToSet(Content[d][n].children))
            /\ Content[d][n].kind = "role" \/ Content[d][n].children = <<>>
ASSUME MaxFactsAssumption == MaxFacts \in Nat
ASSUME AlikeAssumption == \A p \in Alike : <<p[2], p[1]>> \in Alike
ASSUME TypedAssumption == \A t \in Typed : t.kind \in Kinds

VARIABLES
  documents, \* documents[d]: "none", or how its parsing ended
  facts,     \* rows of facts; a fact's id is its place
  conflicts, \* rows of fact_conflicts; b = 0: the conflict has one fact
  touched    \* history: facts that the user typed, edited or ever rejected

factVars == <<documents, facts, conflicts, touched>>

\* What kind, origin, parent and status a row may have, and what it may refer to.
FactsOK ==
  /\ documents \in [Documents -> {"none", "parsed", "failed"}]
  /\ \A i \in DOMAIN facts :
       /\ facts[i].kind \in Kinds /\ facts[i].origin \in Origins /\ facts[i].status \in Statuses
       /\ facts[i].parent \in 0..(i - 1)
       /\ facts[i].parent # 0 => facts[facts[i].parent].kind = "role"
  /\ \A c \in conflicts :
       c.a \in DOMAIN facts /\ c.b \in {0} \union DOMAIN facts /\ c.status \in {"OPEN", "RESOLVED"}
  /\ touched \subseteq DOMAIN facts

FactsInit ==
  /\ documents = [d \in Documents |-> "none"]
  /\ facts = <<>>
  /\ conflicts = {}
  /\ touched = {}

-----------------------------------------------------------------------------
(* Ingestion *)

NewFact(kind, data, parent, origin) ==
  [kind |-> kind, data |-> data, parent |-> parent, origin |-> origin, status |-> "PENDING"]

\* What makes two facts the same claim; of a role not the end and the place.
Signature(kind, data) ==
  IF kind = "role" THEN <<kind, data.title, data.employer, data.start>> ELSE <<kind, data>>

Live(fs) == {i \in DOMAIN fs : fs[i].status # "REJECTED"}
Signatures(fs) == {Signature(fs[i].kind, fs[i].data) : i \in Live(fs)}

\* A plausible fault: what has been saved of the same document is not looked at.
SaveFactForgetful(origin, acc, item) ==
  LET id == Len(acc.facts) + 1
      children == [n \in DOMAIN item.children |-> NewFact("achievement", item.children[n], id, origin)]
  IN  IF Signature(item.kind, item.data) \in acc.known /\ item.kind # "achievement"
      THEN acc
      ELSE [acc EXCEPT !.facts = Append(@, NewFact(item.kind, item.data, 0, origin)) \o children]

\* A claim that is known already is dropped, with what is listed under it.
SaveFact(origin, acc, item) ==
  LET id == Len(acc.facts) + 1
      children == [n \in DOMAIN item.children |-> NewFact("achievement", item.children[n], id, origin)]
  IN  IF Signature(item.kind, item.data) \in acc.known /\ item.kind # "achievement"
      THEN acc
      ELSE [facts |-> Append(acc.facts, NewFact(item.kind, item.data, 0, origin)) \o children,
            known |-> acc.known \union {Signature(item.kind, item.data)}
                                \union {Signature("achievement", text) : text \in ToSet(item.children)}]

\* The rows after all that the document says has been saved.
Saved(d) ==
  FoldLeft(LAMBDA acc, item : SaveFact(KindOf[d], acc, item),
           [facts |-> facts, known |-> Signatures(facts)], Content[d]).facts

\* Whether two facts, or one, have been in conflict over a field before; the
\* code's name for it, _open_conflict_exists, says less.
\* A plausible fault: only conflicts still open count, as that name has it.
KnownOpen(about) ==
  \E c \in conflicts : <<c.a, c.b, c.field>> = about /\ c.status = "OPEN"
Known(about) == \E c \in conflicts : <<c.a, c.b, c.field>> = about

Raise(abouts) ==
  conflicts' = conflicts \union
    {[a |-> about[1], b |-> about[2], field |-> about[3], status |-> "OPEN"] :
       about \in {x \in abouts : ~Known(x)}}

\* Addresses in a resume that are not the profile's.
ContactClashes(fs) ==
  {<<i, 0, "email">> : i \in {j \in DOMAIN fs :
     fs[j].kind = "contact" /\ fs[j].status = "PENDING" /\ fs[j].data # ProfileEmail}}

Roles(fs, origin) == {i \in Live(fs) : fs[i].kind = "role" /\ fs[i].origin = origin}
SameEmployer(f, g) == <<f.data.employer, g.data.employer>> \in Alike

\* Dates are <<year, month>>, month 0 when only the year is known, and <<>>
\* when nothing is; "present" is later than any.
Agree(d, e) ==
  \/ d = <<>> \/ e = <<>> \/ d = e
  \/ d[1] = e[1] /\ 0 \in {d[2], e[2]}

\* The resume role that an export role is compared with: one of the same
\* title if there is one, else the first.
BestMatch(fs, matches, l) ==
  LET titled == {r \in matches : fs[r].data.title = fs[l].data.title}
      first(S) == CHOOSE r \in S : \A s \in S : r <= s
  IN  first(IF titled # {} THEN titled ELSE matches)

\* A plausible fault: the dates of a role of the same title are not compared.
PairClashesByTitle(fs, r, l) ==
  IF fs[r].data.title # fs[l].data.title THEN {<<r, l, "title">>} ELSE {}
PairClashes(fs, r, l) ==
  {<<r, l, field>> : field \in
     (IF fs[r].data.title # fs[l].data.title THEN {"title"} ELSE {}) \union
     (IF ~Agree(fs[r].data.start, fs[l].data.start) THEN {"start"} ELSE {}) \union
     (IF ~Agree(fs[r].data.end, fs[l].data.end) THEN {"end"} ELSE {})}

RoleClashes(fs) ==
  LET resume == Roles(fs, "resume")
      export == Roles(fs, "linkedin_export")
      matches(l) == {r \in resume : SameEmployer(fs[r], fs[l])}
  IN  IF resume = {} \/ export = {} THEN {}
      ELSE (UNION {IF matches(l) = {} THEN {<<l, 0, "missing_on_resume">>}
                   ELSE PairClashes(fs, BestMatch(fs, matches(l), l), l) : l \in export})
           \union {<<r, 0, "missing_on_linkedin">> :
                     r \in {x \in resume : \A l \in export : ~SameEmployer(fs[x], fs[l])}}

\* A file is kept by its digest, and one whose parsing failed is not parsed
\* when it is handed in again.  A resume is not compared with an export that
\* came before it.
IngestResume(d) ==
  /\ KindOf[d] = "resume" /\ documents[d] = "none"
  /\ \/ /\ Len(Saved(d)) <= MaxFacts
        /\ documents' = [documents EXCEPT ![d] = "parsed"]
        /\ facts' = Saved(d)
        /\ Raise(ContactClashes(facts'))
     \/ /\ d \in Fragile
        /\ documents' = [documents EXCEPT ![d] = "failed"]
        /\ UNCHANGED <<facts, conflicts>>
  /\ UNCHANGED touched

IngestExport(d) ==
  /\ KindOf[d] = "linkedin_export" /\ documents[d] = "none"
  /\ Len(Saved(d)) <= MaxFacts
  /\ documents' = [documents EXCEPT ![d] = "parsed"]
  /\ facts' = Saved(d)
  /\ Raise(RoleClashes(facts'))
  /\ UNCHANGED touched

-----------------------------------------------------------------------------
(* Review *)

Approved(fs) == {i \in DOMAIN fs : fs[i].status = "APPROVED"}
InConflict == UNION {{c.a, c.b} : c \in {x \in conflicts : x.status = "OPEN"}}

EditFact(i) ==
  /\ facts[i].status = "PENDING"
  /\ \E t \in Typed : t.kind = facts[i].kind /\ facts' = [facts EXCEPT ![i].data = t.data]
  /\ touched' = touched \union {i}
  /\ UNCHANGED <<documents, conflicts>>

AddFact ==
  /\ Len(facts) < MaxFacts
  /\ \E t \in {x \in Typed : x.kind # "contact"}, p \in {0} \union {i \in DOMAIN facts : facts[i].kind = "role"} :
       facts' = Append(facts, NewFact(t.kind, t.data, p, "user"))
  /\ touched' = touched \union {Len(facts')}
  /\ UNCHANGED <<documents, conflicts>>

\* A request decides a list of facts, one after the other, with the same answer.
MayApprove(i) ==
  /\ i \notin InConflict
  /\ facts[i].parent # 0 => facts[facts[i].parent].status # "REJECTED"

Decide(i, decision) ==
  /\ decision = "APPROVED" => MayApprove(i)
  /\ facts' = [facts EXCEPT ![i].status = decision]
  /\ touched' = IF decision = "REJECTED" THEN touched \union {i} ELSE touched
  /\ UNCHANGED <<documents, conflicts>>

\* A plausible fault: that a conflict may have one fact only is not checked.
DroppedUnchecked(c, keep) ==
  (IF keep \in {"b", "neither"} THEN {c.a} ELSE {}) \union
  (IF keep \in {"a", "neither"} THEN {c.b} ELSE {})
Dropped(c, keep) ==
  (IF keep \in {"b", "neither"} THEN {c.a} ELSE {}) \union
  (IF keep \in {"a", "neither"} /\ c.b # 0 THEN {c.b} ELSE {})

\* A resolved conflict may be resolved again, the other way.
Resolve(c, keep) ==
  /\ keep = "b" => c.b # 0
  /\ facts' = [i \in DOMAIN facts |->
                 IF i \in Dropped(c, keep) THEN [facts[i] EXCEPT !.status = "REJECTED"] ELSE facts[i]]
  /\ conflicts' = (conflicts \ {c}) \union {[c EXCEPT !.status = "RESOLVED"]}
  /\ touched' = touched \union Dropped(c, keep)
  /\ UNCHANGED documents

FactsNext ==
  \/ \E d \in Documents : IngestResume(d) \/ IngestExport(d)
  \/ AddFact
  \/ \E i \in DOMAIN facts : EditFact(i)
  \/ \E i \in DOMAIN facts, decision \in Statuses : Decide(i, decision)
  \/ \E c \in conflicts, keep \in {"a", "b", "both", "neither"} : Resolve(c, keep)

-----------------------------------------------------------------------------
(* Properties *)

\* However often, and from whatever documents, a claim is ingested, it is up
\* for review once, unless the user has edited, typed or rejected one of the two.
NoDoubleClaims ==
  \A i, j \in (DOMAIN facts) \ touched :
    i # j /\ facts[i].kind # "achievement" =>
      Signature(facts[i].kind, facts[i].data) # Signature(facts[j].kind, facts[j].data)

\* A difference is put to the user once: no later import asks again about the
\* facts and the field of a conflict, above all of one that was resolved.
AskedOnce ==
  \A c, e \in conflicts : <<c.a, c.b, c.field>> = <<e.a, e.b, e.field>> => c = e

Backed(fs, l) ==
  \E r \in Roles(fs, "resume") :
    /\ SameEmployer(fs[r], fs[l]) /\ fs[r].data.title = fs[l].data.title
    /\ Agree(fs[r].data.start, fs[l].data.start) /\ Agree(fs[r].data.end, fs[l].data.end)

\* "Resume/LinkedIn conflicts are flagged" (README.md) when an export is
\* imported into a profile with a resume: each of its roles is confirmed by a
\* resume role or named in a conflict, and so is a resume role it does not have.
NoSilentDifference ==
  [][ \A d \in Documents :
        documents'[d] # documents[d] /\ KindOf[d] = "linkedin_export"
          /\ Roles(facts', "resume") # {} /\ Roles(facts', "linkedin_export") # {} =>
        /\ \A l \in Roles(facts', "linkedin_export") :
             Backed(facts', l) \/ \E c \in conflicts' : l \in {c.a, c.b}
        /\ \A r \in Roles(facts', "resume") :
             \/ \E l \in Roles(facts', "linkedin_export") : SameEmployer(facts'[r], facts'[l])
             \/ \E c \in conflicts' : r \in {c.a, c.b} ]_factVars
=============================================================================
