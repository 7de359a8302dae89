---------------------------- MODULE MCEvidence -----------------------------
(***************************************************************************)
(* An engineer's role and what was built in it, a skill that is not in the   *)
(* lexicon and one that is, an address.  Two listings in a mail, whose lines *)
(* are a place and an hourly pay.                                            *)
(***************************************************************************)
EXTENDS Evidence, TLC

MCFact == <<
  [kind |-> "role", title |-> {"engineer"}, name |-> "none", start |-> 100, end |-> "present",
   parent |-> None, words |-> {"engineer", "acme"}, numbers |-> {2020}],
  [kind |-> "achievement", title |-> {}, name |-> "none", start |-> None, end |-> None,
   parent |-> 1, words |-> {"built", "pipeline"}, numbers |-> {40}],
  [kind |-> "skill", title |-> {}, name |-> "cobol", start |-> None, end |-> None,
   parent |-> None, words |-> {"cobol"}, numbers |-> {}],
  [kind |-> "skill", title |-> {}, name |-> "python", start |-> None, end |-> None,
   parent |-> None, words |-> {"python"}, numbers |-> {}],
  [kind |-> "contact", title |-> {}, name |-> "none", start |-> None, end |-> None,
   parent |-> None, words |-> {"street"}, numbers |-> {7}] >>

Sentence(words, numbers, cites) == [words |-> words, numbers |-> numbers, cites |-> cites, plain |-> TRUE]
MCSentences ==
  { Sentence({"built", "pipeline", "acme"}, {40}, {2}),  \* names the employer of its role
    Sentence({"engineer", "manager"}, {2020}, {1}),        \* names the title of the listing
    Sentence({"cobol"}, {10}, {3}),                        \* invents a number
    Sentence({"street"}, {7}, {5}) }                       \* cites the address

Nothing == [tokens |-> {}, level |-> 3, terms |-> {}, years |-> {}, arrangement |-> {}, located |-> FALSE,
            places |-> {}, money |-> FALSE, range |-> None, named |-> FALSE, industries |-> {}, words |-> {}]

MCSays ==
  [ Manager |-> [Nothing EXCEPT !.tokens = {"engineer", "manager"}, !.level = 4, !.words = {"engineer", "manager"}],
    View    |-> Nothing,
    Austin  |-> [Nothing EXCEPT !.located = TRUE, !.places = {"austin"}, !.arrangement = {"onsite"}],
    Hourly  |-> [Nothing EXCEPT !.money = TRUE, !.range = [most |-> 40, units |-> {"hour"}, currency |-> "USD"]],
    Full    |-> [Nothing EXCEPT !.terms = {"python", "cobol"}, !.years = {3}] ]

MCLength == [Manager |-> 19, View |-> 4, Austin |-> 10, Hourly |-> 12] @@ (Empty :> 0)

Weights == [title |-> 25, skills |-> 25, seniority |-> 15, location |-> 15, domain |-> 10, compensation |-> 10]
MCDefault == [titles |-> {}, keywords |-> {}, seniority |-> {}, arrangements |-> {"hybrid", "remote", "onsite"}, geographies |-> {},
              industries |-> {}, floor |-> 0, currency |-> "USD", excludedEmployers |-> {},
              excludedTerms |-> {}, types |-> {}, weights |-> Weights, minScore |-> 40]
MCPrefs == {[MCDefault EXCEPT !.titles = {{"software", "engineer"}}, !.seniority = {4}, !.floor = 90000,
                              !.arrangements = {"remote", "onsite"}, !.geographies = {"austin"}]}

Entered(text) == [title |-> "Manager", text |-> text, location |-> Empty, pay |-> Empty, employer |-> Empty]
MCFound == {Entered({"Austin"})}
MCTyped == {Entered({}), Entered({"Full"})}
MCExported == {Entered({})}
=============================================================================
