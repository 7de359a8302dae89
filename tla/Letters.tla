------------------------------ MODULE Letters -------------------------------
(***************************************************************************)
(* The letter that a local model drafts: the facts it is given and the      *)
(* verifier that its sentences pass (backend/app/llm/cover_letter.py).       *)
(*                                                                          *)
(* Words are stems; a sentence is what the verifier looks at.                *)
(***************************************************************************)
EXTENDS Matcher

CONSTANTS
  Style,          \* STYLE: words that need no evidence
  Sentences,      \* what the model may write
  MAX_ROLES, MAX_ACHIEVEMENTS, MAX_FACTS, MIN_SENTENCES, MAX_SENTENCES

\* n of them, or all.
UpTo(n, S) == kSubset(Min({n, Cardinality(S)}), S)

Began(i) == IF Fact[i].start = None THEN 0 ELSE Fact[i].start

LatestRoles(ok) ==
  {R \in UpTo(MAX_ROLES, OfKind(ok, "role")) :
     \A i \in R, j \in OfKind(ok, "role") \ R : Began(j) <= Began(i)}

Done(ok, roles) ==
  {i \in OfKind(ok, "achievement") \union OfKind(ok, "project") : Fact[i].parent \in roles \union {None}}

Rest(ok, skills) ==
  {i \in OfKind(ok, "skill") : Fact[i].name \in skills} \union
  OfKind(ok, "summary") \union OfKind(ok, "education") \union OfKind(ok, "certification")

\* select_facts(): the latest roles, what was achieved in those or in none, the
\* skills the listing asks for, the rest.  How relevance orders achievements,
\* and which facts are too many, is open.
Selections(ok, skills) ==
  UNION {UNION {UpTo(MAX_FACTS, R \union done \union Rest(ok, skills)) :
                  done \in UpTo(MAX_ACHIEVEMENTS, Done(ok, R))} : R \in LatestRoles(ok)}

\* Achievements are grounded with their role too.
Parents(cites, known) == {Fact[i].parent : i \in cites \intersect known} \intersect known

Grounding(cites, known) == (cites \intersect known) \union Parents(cites, known)

\* A plausible fault: numbers are not looked at.
PassesUnnumbered(s, given, known, jobWords) ==
  /\ s.plain
  /\ s.cites # {} /\ s.cites \subseteq given
  /\ s.words \subseteq Style \union jobWords \union UNION {Fact[i].words : i \in Grounding(s.cites, known)}

\* verify_sentence(): `given' was sent to the model, `known' are the approved
\* facts; titles and employers may be named, their numbers not.
Passes(s, given, known, jobWords) ==
  LET grounds == Grounding(s.cites, known)
  IN  /\ s.plain
      /\ s.cites # {} /\ s.cites \subseteq given
      /\ s.words \subseteq Style \union jobWords \union UNION {Fact[i].words : i \in grounds}
      /\ s.numbers \subseteq UNION {Fact[i].numbers : i \in grounds}

\* verify() and what _maybe_llm_letter makes of it: no body, if too little is
\* left of the reply, and the template stays.
Body(reply, given, known, jobWords) ==
  LET kept == {s \in reply : Passes(s, given, known, jobWords)}
  IN  IF Cardinality(kept) < MIN_SENTENCES THEN {} ELSE kept

Replies == {R \in SUBSET Sentences : Cardinality(R) <= MAX_SENTENCES}
=============================================================================
