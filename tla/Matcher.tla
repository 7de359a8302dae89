------------------------------ MODULE Matcher -------------------------------
(***************************************************************************)
(* The score of a listing, and what excludes it (backend/app/matching.py).  *)
(*                                                                          *)
(* Words, skills and places are members of sets: which of them a text       *)
(* contains is given.  A score is an integer, in tenths of a point; Python's *)
(* round() of a quotient is rounding to the nearest tenth, a tie to the even *)
(* one.  That the quotient is a binary fraction there is left out.          *)
(***************************************************************************)
EXTENDS Integers, FiniteSets, FiniteSetsExt

CONSTANTS
  None,        \* the listing does not say
  RoleNouns,   \* ROLE_NOUNS
  Lexicon,     \* SKILL_LEXICON
  Fact,        \* Fact[i]: what the fact i of the profile says
  Today        \* the current month, as a number of months

\* Titles are finite sets of words; dates are numbers of months.
ASSUME EvidenceAssumption ==
  /\ IsFiniteSet(Lexicon) /\ Today \in Nat
  /\ \A i \in DOMAIN Fact :
       /\ IsFiniteSet(Fact[i].title)
       /\ Fact[i].start # None => Fact[i].start \in Nat
       /\ Fact[i].end \notin {None, "present"} => Fact[i].end \in Nat

Criteria == {"title", "skills", "seniority", "location", "domain", "compensation"}
Longest == 12 * 60  \* months that one role counts for at most

Rounded(n, d) ==
  LET q == n \div d
      r == n % d
  IN  IF 2 * r > d \/ (2 * r = d /\ q % 2 = 1) THEN q + 1 ELSE q

\* A share n/d of the points of a criterion; `round(w * share, 1)'.
Share(w, n, d) == Rounded(10 * w * n, d)

OfKind(ok, kind) == {i \in ok : Fact[i].kind = kind}

-----------------------------------------------------------------------------
(* Title and skills: `job' is a listing, `ok' are the approved facts *)

Similarity(w, title, target) ==
  IF title = {} \/ target = {} THEN 0
  ELSE Share(w, Cardinality(title \intersect target),
             Cardinality(target) * (IF (title \intersect RoleNouns) \ target = {} THEN 1 ELSE 2))

Targets(prefs, ok) == prefs.titles \union {Fact[i].title : i \in OfKind(ok, "role")}

TitlePoints(job, prefs, ok) ==
  Max({0} \union {Similarity(prefs.weights.title, job.title, t) : t \in Targets(prefs, ok)})

Skills(ok) == {Fact[i].name : i \in OfKind(ok, "skill")}
Vocabulary(prefs, ok) == Lexicon \union prefs.keywords \union Skills(ok)
Required(job, prefs, ok) == job.terms \intersect Vocabulary(prefs, ok)

\* A plausible fault: only skills of the built-in list can be matched.
MatchedListed(job, prefs, ok) ==
  Required(job, prefs, ok) \intersect Skills(ok) \intersect Lexicon
Matched(job, prefs, ok) == Required(job, prefs, ok) \intersect Skills(ok)

SkillPoints(job, prefs, ok) ==
  IF Required(job, prefs, ok) = {} THEN 0
  ELSE Share(prefs.weights.skills, Cardinality(Matched(job, prefs, ok)),
             Cardinality(Required(job, prefs, ok)))

-----------------------------------------------------------------------------
(* Seniority: half for the level, half for the years *)

\* months_between(): a role without a start or an end, or that ends before it
\* starts, counts for nothing.  What is under way ends in the current month.
Months(i) ==
  IF None \in {Fact[i].start, Fact[i].end} THEN {}
  ELSE LET last == IF Fact[i].end = "present" THEN Today ELSE Fact[i].end
       IN  {m \in Fact[i].start .. last : m < Fact[i].start + Longest}

\* In tenths of a year; months that several roles cover count once.
CandidateYears(ok) == Rounded(10 * Cardinality(UNION {Months(i) : i \in OfKind(ok, "role")}), 12)

RequiredYears(job) ==
  LET stated == {y \in job.years : 0 < y /\ y <= 25}
  IN  IF stated = {} THEN None ELSE Min(stated)

\* Half points; levels are numbered from intern to vp.
LevelHalves(job, prefs) ==
  IF prefs.seniority = {} THEN 1
  ELSE IF job.level \in prefs.seniority THEN 2
  ELSE IF {job.level - 1, job.level + 1} \intersect prefs.seniority # {} THEN 1 ELSE 0

SeniorityPoints(job, prefs, ok) ==
  LET w == prefs.weights.seniority
      need == RequiredYears(job)
      counted == Min({CandidateYears(ok), 10 * need})
  IN  IF need = None THEN Share(w, LevelHalves(job, prefs) + 1, 4)
      ELSE Share(w, 10 * need * LevelHalves(job, prefs) + 2 * counted, 40 * need)

-----------------------------------------------------------------------------
(* Location, domain, compensation *)

Stated(job, prefs, aspect) ==
  IF aspect = "arrangement" THEN job.arrangement # "unknown"
  ELSE job.located /\ prefs.geographies # {}

\* No preferred arrangement is none that suits.
Suits(job, prefs, aspect) ==
  IF aspect = "arrangement" THEN job.arrangement \in prefs.arrangements
  ELSE job.arrangement = "remote" \/ job.places \intersect prefs.geographies # {}

LocationPoints(job, prefs) ==
  LET stated == {a \in {"arrangement", "place"} : Stated(job, prefs, a)}
  IN  IF stated = {} THEN Share(prefs.weights.location, 1, 2)
      ELSE Share(prefs.weights.location,
                 Cardinality({a \in stated : Suits(job, prefs, a)}), Cardinality(stated))

DomainPoints(job, prefs) ==
  CASE prefs.industries = {} -> Share(prefs.weights.domain, 1, 2)
    [] prefs.industries \intersect job.industries # {} -> Share(prefs.weights.domain, 1, 1)
    [] OTHER -> 0

\* No floor is a floor of 0.
CompensationPoints(job, prefs) ==
  CASE job.pay = None -> Share(prefs.weights.compensation, 1, 2)
    [] job.pay # None /\ job.pay >= prefs.floor -> Share(prefs.weights.compensation, 1, 1)
    [] OTHER -> 0

-----------------------------------------------------------------------------
(* hard_exclusions and score_job *)

PayTooLow(job, prefs) ==
  /\ prefs.floor # 0 /\ job.pay # None
  /\ job.currency \in {None, prefs.currency}
  /\ job.pay < prefs.floor

Excluded(job, prefs) ==
  \/ job.expired \/ job.duplicate
  \/ job.employer \in prefs.excludedEmployers
  \/ job.described \intersect prefs.excludedTerms # {}
  \/ PayTooLow(job, prefs)
  \/ prefs.arrangements # {} /\ job.arrangement \notin prefs.arrangements \union {"unknown"}
  \/ prefs.types # {} /\ job.type \notin prefs.types \union {"unknown"}
  \/ /\ job.arrangement = "onsite" /\ prefs.geographies # {} /\ job.located
     /\ job.places \intersect prefs.geographies = {}

Points(job, prefs, ok) ==
  TitlePoints(job, prefs, ok) + SkillPoints(job, prefs, ok) + SeniorityPoints(job, prefs, ok)
    + LocationPoints(job, prefs) + DomainPoints(job, prefs) + CompensationPoints(job, prefs)

Total(w) == w.title + w.skills + w.seniority + w.location + w.domain + w.compensation

Score(job, prefs, ok) ==
  IF Excluded(job, prefs) THEN 0
  ELSE Rounded(100 * Points(job, prefs, ok), Max({1, Total(prefs.weights)}))
=============================================================================
