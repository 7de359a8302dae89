--------------------------- MODULE EvidenceProofs ---------------------------
(***************************************************************************)
(* What holds of alerts, descriptions, scores and letters for every mail,    *)
(* every set of facts and whatever the local model writes.                  *)
(***************************************************************************)
EXTENDS Evidence, FoldLemmas, FiniteSetTheorems, TLAPS

-----------------------------------------------------------------------------
(* The facts a letter may rest on *)

Usable(known) == {i \in known : Fact[i].kind # "contact"}

\* Only approved facts that are no contact details are given to the model.
LEMMA GivenUsable ==
  ASSUME NEW ok, NEW skills, NEW given \in Selections(ok, skills)
  PROVE  given \subseteq Usable(ok)
<1>0. PICK R \in LatestRoles(ok) :
        \E done \in UpTo(MAX_ACHIEVEMENTS, Done(ok, R)) :
          given \in UpTo(MAX_FACTS, R \union done \union Rest(ok, skills))
  BY DEF Selections
<1>1. PICK done \in UpTo(MAX_ACHIEVEMENTS, Done(ok, R)) :
        given \in UpTo(MAX_FACTS, R \union done \union Rest(ok, skills))
  BY <1>0
<1>2. given \subseteq R \union done \union Rest(ok, skills)
  BY <1>1 DEF UpTo, kSubset
<1>3. R \subseteq OfKind(ok, "role")
  BY DEF LatestRoles, UpTo, kSubset
<1>4. done \subseteq Done(ok, R)
  BY DEF UpTo, kSubset
<1> QED BY <1>2, <1>3, <1>4 DEF Done, Rest, OfKind, Usable

\* What a sentence says that passes the verifier: every word and number of it
\* is in a fact that was approved when the draft began.
Rests(s, E, jobWords) ==
  /\ s.cites \subseteq E
  /\ s.words \subseteq Style \union jobWords \union UNION {Fact[i].words : i \in E}
  /\ s.numbers \subseteq UNION {Fact[i].numbers : i \in E}

LEMMA GroundsUsable ==
  ASSUME NEW cites, NEW known \in SUBSET Facts, cites \subseteq Usable(known)
  PROVE  Grounding(cites, known) \subseteq Usable(known)
<1> SUFFICES ASSUME NEW i \in Parents(cites, known) PROVE i \in Usable(known)
  BY DEF Grounding, Usable
<1>1. PICK c \in cites \intersect known : i = Fact[c].parent
  BY DEF Parents
<1>2. i \in known /\ i \in Facts
  BY DEF Parents
<1>3. Fact[i].kind = "role"
  BY <1>1, <1>2, ParentsAssumption, FactsAssumption
<1> QED BY <1>2, <1>3 DEF Usable

LEMMA PassedRests ==
  ASSUME NEW s, NEW given, NEW known \in SUBSET Facts, NEW jobWords,
         given \subseteq Usable(known), Passes(s, given, known, jobWords)
  PROVE  Rests(s, Usable(known), jobWords)
<1> DEFINE grounds == Grounding(s.cites, known)
<1>1. s.cites \subseteq Usable(known)
  BY DEF Passes
<1>2. grounds \subseteq Usable(known)
  BY <1>1, GroundsUsable
<1>3. /\ s.words \subseteq Style \union jobWords \union UNION {Fact[i].words : i \in grounds}
      /\ s.numbers \subseteq UNION {Fact[i].numbers : i \in grounds}
  BY DEF Passes
<1> HIDE DEF grounds
<1> QED BY <1>1, <1>2, <1>3 DEF Rests

LEMMA RestsOnMore ==
  ASSUME NEW s, NEW E, NEW F, NEW jobWords, E \subseteq F, Rests(s, E, jobWords)
  PROVE  Rests(s, F, jobWords)
  BY DEF Rests

-----------------------------------------------------------------------------
(* Letters *)

\* While the model writes: what was read is approved or withdrawn since.
DraftKnown ==
  /\ approved \subseteq Facts
  /\ draft.waiting => /\ draft.known \subseteq Facts
                      /\ draft.known \subseteq approved \union withdrawn
                      /\ draft.given \subseteq Usable(draft.known)
BodyRests == \A s \in letter.body : Rests(s, Usable(approved \union withdrawn), letter.jobWords)
LetterInv == DraftKnown /\ BodyRests

LEMMA LetterStep == LetterInv /\ [Next]_vars => LetterInv'
<1> SUFFICES ASSUME LetterInv, [Next]_vars PROVE LetterInv'
  OBVIOUS
<1> USE DEF LetterInv
<1>1. CASE UNCHANGED <<approved, draft, letter, withdrawn>>
  BY <1>1 DEF DraftKnown, BodyRests
<1>2. ASSUME NEW i \in Reviewed, Approve(i) PROVE LetterInv'
  <2>1. Usable(approved \union withdrawn) \subseteq Usable(approved' \union withdrawn')
    BY <1>2 DEF Approve, Usable
  <2>2. BodyRests'
    BY <1>2, <2>1, RestsOnMore DEF Approve, BodyRests
  <2>3. DraftKnown'
    BY <1>2, ReviewedAssumption DEF Approve, DraftKnown
  <2> QED BY <2>2, <2>3
<1>3. ASSUME NEW i \in Reviewed, Withdraw(i) PROVE LetterInv'
  <2>1. CASE draft.waiting \/ letter # NoLetter
    <3>1. approved \union withdrawn \subseteq approved' \union withdrawn'
      BY <1>3, <2>1 DEF Withdraw
    <3>2. Usable(approved \union withdrawn) \subseteq Usable(approved' \union withdrawn')
      BY <3>1 DEF Usable
    <3>3. BodyRests'
      BY <1>3, <3>2, RestsOnMore DEF Withdraw, BodyRests
    <3> QED BY <1>3, <3>1, <3>3 DEF Withdraw, DraftKnown
  <2>2. CASE ~draft.waiting /\ letter = NoLetter
    BY <1>3, <2>2 DEF Withdraw, DraftKnown, BodyRests, NoLetter
  <2> QED BY <2>1, <2>2
<1>4. CASE BeginDraft
  <2>1. PICK given \in Selections(approved, match.skills) :
          draft' = [known |-> approved, given |-> given, jobWords |-> JobWords, waiting |-> TRUE]
    BY <1>4 DEF BeginDraft
  <2>2. draft'.known = approved /\ draft'.given = given
    BY <2>1
  <2>3. given \subseteq Usable(approved)
    BY GivenUsable
  <2> QED BY <1>4, <2>2, <2>3 DEF BeginDraft, DraftKnown, BodyRests
<1>5. CASE EndDraft
  <2>1. PICK reply \in Replies :
          letter' = [body |-> Body(reply, draft.given, draft.known, draft.jobWords), jobWords |-> draft.jobWords]
    BY <1>5 DEF EndDraft
  <2>2. draft.known \subseteq approved \union withdrawn'
    BY <1>5 DEF EndDraft
  <2>3. ASSUME NEW s \in letter'.body
        PROVE  Rests(s, Usable(approved' \union withdrawn'), letter'.jobWords)
    <3>1. Passes(s, draft.given, draft.known, draft.jobWords) /\ letter'.jobWords = draft.jobWords
      BY <2>1, <2>3 DEF Body
    <3>2. Rests(s, Usable(draft.known), letter'.jobWords)
      BY <1>5, <3>1, PassedRests DEF EndDraft, DraftKnown
    <3>3. Usable(draft.known) \subseteq Usable(approved' \union withdrawn')
      BY <1>5, <2>2 DEF EndDraft, Usable
    <3> QED BY <3>2, <3>3, RestsOnMore
  <2>4. ~draft'.waiting
    BY <1>5 DEF EndDraft, NoDraft
  <2> QED BY <1>5, <2>3, <2>4 DEF EndDraft, DraftKnown, BodyRests
<1>6. [Next]_vars => \/ UNCHANGED <<approved, draft, letter, withdrawn>>
                     \/ \E i \in Reviewed : Approve(i) \/ Withdraw(i)
                     \/ BeginDraft \/ EndDraft
  BY DEF Next, vars, ImportAlert, Refresh, AddManualJob, ImportExport, Upsert, SetDescription,
         FetchDetails, Describe, SavePrefs, MatchJobs
<1> QED BY <1>1, <1>2, <1>3, <1>4, <1>5, <1>6

\* Every word and number of a letter that the model drafted is in a fact that
\* the user approved, whatever the model writes and whatever the user withdraws
\* or approves while it does.
THEOREM LettersGrounded == Spec => []LetterGrounded
<1>1. Init => LetterInv
  BY FactsAssumption DEF Init, LetterInv, DraftKnown, BodyRests, NoDraft, NoLetter
<1>2. LetterInv => LetterGrounded
  BY DEF LetterInv, BodyRests, LetterGrounded, Rests, Usable
<1> QED BY <1>1, <1>2, LetterStep, PTL DEF Spec

-----------------------------------------------------------------------------
(* Lines *)

Chunks == [link : Links \union {Elsewhere, NoLink, Line}, text : Texts \union {Empty}]
Entries == [title : Texts \union {Empty}, context : Seq(Texts)]

ReaderTyped ==
  /\ mail \in Seq(Chunks)
  /\ order \in Seq(Links)
  /\ entry \in [Links -> Entries]
  /\ current \in Links \union {NoLink}

\* The next line stands under an anchor of the current listing.
NextStands == \A i \in Nat, l \in Links : i = Len(mail) + 1 /\ l = current => StandsUnder(i, l)

ReaderInv == ReaderTyped /\ NextStands /\ OwnLines

\* What stands under an anchor still does when the mail goes on.
LEMMA StillStands ==
  ASSUME ReaderTyped, NEW c \in Chunks, mail' = Append(mail, c),
         NEW i \in 1..(Len(mail) + 1), NEW link, StandsUnder(i, link)
  PROVE  StandsUnder(i, link)'
<1>1. PICK k \in 1..(i - 1) :
        mail[k].link = link /\ \A n \in (k + 1)..(i - 1) : Passed(mail[n], link)
  BY DEF StandsUnder
<1>2. \A n \in 1..Len(mail) : mail'[n] = mail[n]
  BY DEF ReaderTyped
<1>3. Len(mail) \in Nat
  BY DEF ReaderTyped
<1>4. k \in 1..Len(mail) /\ \A n \in (k + 1)..(i - 1) : n \in 1..Len(mail)
  BY <1>3
<1>5. mail'[k].link = link /\ \A n \in (k + 1)..(i - 1) : Passed(mail'[n], link)
  BY <1>1, <1>2, <1>4
<1> QED BY <1>5 DEF StandsUnder

\* A chunk that does not end a listing leaves the next line under it.
LEMMA StandsOn ==
  ASSUME ReaderTyped, NEW c \in Chunks, mail' = Append(mail, c),
         NEW i \in Nat, i = Len(mail) + 1, NEW link, StandsUnder(i, link), Passed(c, link)
  PROVE  StandsUnder(i + 1, link)'
<1>1. PICK k \in 1..(i - 1) :
        mail[k].link = link /\ \A n \in (k + 1)..(i - 1) : Passed(mail[n], link)
  BY DEF StandsUnder
<1>2. \A n \in 1..(i - 1) : mail'[n] = mail[n]
  BY DEF ReaderTyped
<1>3. mail'[i] = c
  BY DEF ReaderTyped
<1>4. \A n \in (k + 1)..i : (n \in 1..(i - 1) /\ n \in (k + 1)..(i - 1)) \/ n = i
  OBVIOUS
<1>5. \A n \in (k + 1)..i : Passed(mail'[n], link)
  BY <1>1, <1>2, <1>3, <1>4
<1>6. mail'[k].link = link /\ k \in 1..i
  BY <1>1, <1>2
<1>7. (i + 1) - 1 = i
  OBVIOUS
<1> QED BY <1>5, <1>6, <1>7 DEF StandsUnder

\* Where no line is added to an entry, lines stay where they stand.
LEMMA LinesStay ==
  ASSUME ReaderTyped, OwnLines, NEW c \in Chunks, mail' = Append(mail, c),
         NEW link \in Links, NEW t \in ToSet(entry[link].context)
  PROVE  \E i \in DOMAIN mail' : mail'[i] = Chunk(Line, t) /\ StandsUnder(i, link)'
<1>1. PICK i \in DOMAIN mail : mail[i] = Chunk(Line, t) /\ StandsUnder(i, link)
  BY DEF OwnLines
<1>2. i \in 1..(Len(mail) + 1) /\ i \in DOMAIN mail' /\ mail'[i] = mail[i]
  BY DEF ReaderTyped
<1>3. StandsUnder(i, link)'
  BY <1>1, <1>2, StillStands
<1> QED BY <1>1, <1>2, <1>3

LEMMA JobAnchorStep ==
  ASSUME ReaderInv, NEW link \in Links, NEW text \in Texts \union {Empty}, ReadJobAnchor(link, text)
  PROVE  ReaderInv'
<1> DEFINE c == Chunk(link, text)
<1>1. c \in Chunks /\ mail' = Append(mail, c)
  BY DEF Chunk, Chunks, ReadJobAnchor
<1>2. entry' = [entry EXCEPT ![link].title = IF BetterTitle(text, @) THEN text ELSE @] /\ current' = link
  BY DEF ReadJobAnchor, Attend
<1>3. ReaderTyped'
  <2>1. mail' \in Seq(Chunks)
    BY <1>1 DEF ReaderInv, ReaderTyped
  <2>2. PICK t \in Texts \union {Empty} : entry' = [entry EXCEPT ![link].title = t]
    BY <1>2 DEF ReaderInv, ReaderTyped, Entries
  <2>3. entry' \in [Links -> Entries]
    BY <2>2 DEF ReaderInv, ReaderTyped, Entries
  <2>4. order' \in Seq(Links)
    BY DEF ReadJobAnchor, ReaderInv, ReaderTyped
  <2> QED BY <1>2, <2>1, <2>3, <2>4 DEF ReaderTyped
<1>4. \A l \in Links : entry'[l].context = entry[l].context
  BY <1>2 DEF ReaderInv, ReaderTyped, Entries
<1>5. NextStands'
  <2> SUFFICES ASSUME NEW i \in Nat, i = Len(mail') + 1 PROVE StandsUnder(i, link)'
    BY <1>2 DEF NextStands
  <2>1. i - 1 = Len(mail) + 1 /\ Len(mail) \in Nat /\ mail'[i - 1].link = link
    BY <1>1 DEF ReaderInv, ReaderTyped, Chunk
  <2>2. i - 1 \in 1..(i - 1) /\ \A n \in ((i - 1) + 1)..(i - 1) : FALSE
    BY <2>1
  <2> QED BY <2>1, <2>2 DEF StandsUnder
<1>6. OwnLines'
  <2>1. ASSUME NEW l \in Links, NEW t \in ToSet(entry'[l].context)
        PROVE  \E i \in DOMAIN mail' : mail'[i] = Chunk(Line, t) /\ StandsUnder(i, l)'
    BY <1>1, <1>4, <2>1, LinesStay DEF ReaderInv
  <2> QED BY <2>1 DEF OwnLines
<1> QED BY <1>3, <1>5, <1>6 DEF ReaderInv

LEMMA OtherAnchorStep ==
  ASSUME ReaderInv, NEW link, NEW text \in Texts \union {Empty}, ReadOtherAnchor(link, text)
  PROVE  ReaderInv'
<1> DEFINE c == Chunk(link, text)
<1>1. c \in Chunks /\ mail' = Append(mail, c)
  BY DEF Chunk, Chunks, ReadOtherAnchor
<1>2. entry' = entry /\ order' = order /\ current' \in {NoLink, current}
  BY DEF ReadOtherAnchor
<1>3. ReaderTyped'
  BY <1>1, <1>2 DEF ReaderInv, ReaderTyped
<1>4. NextStands'
  <2> SUFFICES ASSUME NEW i \in Nat, NEW l \in Links, i = Len(mail') + 1, l = current'
               PROVE  StandsUnder(i, l)'
    BY DEF NextStands
  <2>1. l = current /\ Passed(c, l)
    BY LinksAssumption DEF ReadOtherAnchor, Passed, Chunk
  <2>2. i - 1 \in Nat /\ i - 1 = Len(mail) + 1 /\ (i - 1) + 1 = i
    BY <1>1 DEF ReaderInv, ReaderTyped
  <2>3. StandsUnder(i - 1, l)
    BY <2>1, <2>2 DEF ReaderInv, NextStands
  <2>4. StandsUnder((i - 1) + 1, l)'
    BY <1>1, <2>1, <2>2, <2>3, StandsOn DEF ReaderInv
  <2> QED BY <2>2, <2>4
<1>5. OwnLines'
  <2>1. ASSUME NEW l \in Links, NEW t \in ToSet(entry'[l].context)
        PROVE  \E i \in DOMAIN mail' : mail'[i] = Chunk(Line, t) /\ StandsUnder(i, l)'
    BY <1>1, <1>2, <2>1, LinesStay DEF ReaderInv
  <2> QED BY <2>1 DEF OwnLines
<1> QED BY <1>3, <1>4, <1>5 DEF ReaderInv

LEMMA LineStep ==
  ASSUME ReaderInv, NEW text \in Texts, ReadLine(text)
  PROVE  ReaderInv'
<1> DEFINE c == Chunk(Line, text)
<1>1. c \in Chunks /\ mail' = Append(mail, c) /\ current' = current /\ order' = order
  BY DEF Chunk, Chunks, ReadLine
<1>2. ReaderTyped'
  <2>1. mail' \in Seq(Chunks)
    BY <1>1 DEF ReaderInv, ReaderTyped
  <2>2. CASE entry' = entry
    BY <1>1, <2>1, <2>2 DEF ReaderInv, ReaderTyped
  <2>3. CASE entry' # entry
    <3>1. /\ current \in Links
          /\ entry' = [entry EXCEPT ![current].context = Append(entry[current].context, text)]
      BY <2>3 DEF ReadLine, ReaderInv, ReaderTyped, Entries
    <3>2. Append(entry[current].context, text) \in Seq(Texts)
      BY <3>1 DEF ReaderInv, ReaderTyped, Entries
    <3>3. entry' \in [Links -> Entries]
      BY <3>1, <3>2 DEF ReaderInv, ReaderTyped, Entries
    <3> QED BY <1>1, <2>1, <3>3 DEF ReaderInv, ReaderTyped
  <2> QED BY <2>2, <2>3
<1>3. PICK last \in Nat : last = Len(mail) + 1 /\ last \in DOMAIN mail' /\ mail'[last] = c
  BY <1>1 DEF ReaderInv, ReaderTyped
<1>4. NextStands'
  <2> SUFFICES ASSUME NEW i \in Nat, NEW l \in Links, i = Len(mail') + 1, l = current'
               PROVE  StandsUnder(i, l)'
    BY DEF NextStands
  <2>1. i = last + 1 /\ Passed(c, l)
    BY <1>1, <1>3 DEF ReaderInv, ReaderTyped, Passed, Chunk
  <2>2. StandsUnder(last, l)
    BY <1>1, <1>3 DEF ReaderInv, NextStands
  <2>3. StandsUnder(last + 1, l)'
    BY <1>1, <1>3, <2>1, <2>2, StandsOn DEF ReaderInv
  <2> QED BY <2>1, <2>3
<1>5. OwnLines'
  <2>1. ASSUME NEW l \in Links, NEW t \in ToSet(entry'[l].context)
        PROVE  \E i \in DOMAIN mail' : mail'[i] = Chunk(Line, t) /\ StandsUnder(i, l)'
    <3>1. CASE t \in ToSet(entry[l].context)
      BY <1>1, <3>1, LinesStay DEF ReaderInv
    <3>2. CASE t \notin ToSet(entry[l].context)
      <4>1. l = current /\ t = text
        BY <2>1, <3>2 DEF ReadLine, ReaderInv, ReaderTyped, Entries, ToSet
      <4>2. StandsUnder(last, l)
        BY <1>3, <4>1 DEF ReaderInv, NextStands
      <4>3. last \in 1..(Len(mail) + 1)
        BY <1>3 DEF ReaderInv, ReaderTyped
      <4>4. StandsUnder(last, l)'
        BY <1>1, <4>2, <4>3, StillStands DEF ReaderInv
      <4> QED BY <1>3, <4>1, <4>4
    <3> QED BY <3>1, <3>2
  <2> QED BY <2>1 DEF OwnLines
<1> QED BY <1>2, <1>4, <1>5 DEF ReaderInv

\* Before and after a mail nothing is known.
LEMMA BlankKnowsNothing ==
  Blank \in Entries /\ ToSet(Blank.context) = {}
  BY DEF Blank, Entries, ToSet

\* Reading and importing keep lines where they stand.
LEMMA ReaderStep == ReaderInv /\ [Next]_vars => ReaderInv'
<1> SUFFICES ASSUME ReaderInv, [Next]_vars PROVE ReaderInv'
  OBVIOUS
<1>1. CASE UNCHANGED readerVars
  BY <1>1 DEF readerVars, ReaderInv, ReaderTyped, NextStands, OwnLines, StandsUnder
<1>2. CASE Read
  <2>1. PICK text \in Texts \union {Empty} :
          \/ \E link \in Links : ReadJobAnchor(link, text)
          \/ \E link \in {Elsewhere, NoLink} : ReadOtherAnchor(link, text)
          \/ text # Empty /\ ReadLine(text)
    BY <1>2 DEF Read
  <2> QED BY <2>1, JobAnchorStep, OtherAnchorStep, LineStep
<1>3. CASE ImportAlert
  BY <1>3, BlankKnowsNothing, LinksAssumption
     DEF ImportAlert, ReaderInv, ReaderTyped, NextStands, OwnLines
<1>4. UNCHANGED readerVars \/ Read \/ ImportAlert
  BY DEF Next, vars, Refresh, AddManualJob, ImportExport, SetDescription, FetchDetails, Describe, Approve,
         Withdraw, SavePrefs, MatchJobs, BeginDraft, EndDraft
<1> QED BY <1>1, <1>2, <1>3, <1>4

\* An empty mail.
LEMMA ReaderStart == Init => ReaderInv
  BY BlankKnowsNothing, LinksAssumption
     DEF Init, ReaderInit, ReaderInv, ReaderTyped, NextStands, OwnLines

\* No line of a mail is taken for a listing that it does not stand under, for
\* any mail and any links.
THEOREM LinesOwned == Spec => []OwnLines
<1>1. ReaderInv => OwnLines
  BY DEF ReaderInv
<1> QED BY <1>1, ReaderStart, ReaderStep, PTL DEF Spec

-----------------------------------------------------------------------------
(* Descriptions *)

Fields == {"title", "text", "location", "pay", "employer", "origin", "fetched", "byUser"}

\* What a poll may replace is no full description, unless the user entered it
\* with the job; a mail is read when there is no job.
Described ==
  /\ DOMAIN job = Fields
  /\ job.text \subseteq Texts \union Pasted
  /\ job.text \intersect Pasted # {} /\ ~job.fetched /\ ~job.byUser => job.origin = "manual"
RowInv ==
  /\ mail # <<>> => job = NoLink
  /\ job # NoLink => Described

\* The lines of a listing are texts of the mail.
LEMMA ListingsTexts ==
  ASSUME ReaderTyped, NEW l \in Listings
  PROVE  l.text \subseteq Texts
<1>1. PICK i \in 1..Len(order) : l = Listing(entry[order[i]])
  BY DEF Listings
<1>2. order[i] \in Links
  BY DEF ReaderTyped
<1>3. entry[order[i]].context \in Seq(Texts)
  BY <1>2 DEF ReaderTyped, Entries
<1>4. ToSet(entry[order[i]].context) \subseteq Texts
  BY <1>3 DEF ToSet
<1>5. l.text \subseteq ToSet(entry[order[i]].context)
  BY <1>1 DEF Listing
<1> QED BY <1>4, <1>5

\* What upsert_jobs makes of the row.
LEMMA UpsertStep ==
  ASSUME job # NoLink => Described, NEW origin, NEW l, NEW mentions \in BOOLEAN,
         Upsert(origin, l, mentions),
         l.text \subseteq Texts \union Pasted,
         l.text \intersect Pasted # {} \/ mentions => origin = "manual"
  PROVE  job' # NoLink => Described'
<1>1. CASE job = NoLink
  BY <1>1 DEF Upsert, Row, Described, Fields
<1>2. CASE job # NoLink /\ KeepsText(job)
  BY <1>2 DEF Upsert, Row, Described, Fields, KeepsText
<1>3. CASE job # NoLink /\ ~KeepsText(job)
  BY <1>3 DEF Upsert, Row, Described, Fields, KeepsText
<1> QED BY <1>1, <1>2, <1>3

\* No step makes a full description unprotected.
LEMMA RowStep == RowInv /\ ReaderInv /\ [Next]_vars => RowInv'
<1> SUFFICES ASSUME RowInv, ReaderInv, [Next]_vars PROVE RowInv'
  OBVIOUS
<1>1. CASE UNCHANGED <<job, mail>>
  BY <1>1 DEF RowInv, Described
<1>2. CASE job = NoLink /\ UNCHANGED job
  BY <1>2 DEF RowInv
<1>3. CASE ImportAlert
  <2>1. CASE UNCHANGED job
    BY <1>3, <2>1 DEF ImportAlert, RowInv, Described
  <2>2. CASE \E l \in Listings : Upsert("alert", l, FALSE)
    <3>1. PICK l \in Listings : Upsert("alert", l, FALSE)
      BY <2>2
    <3>2. l.text \subseteq Texts
      BY ListingsTexts DEF ReaderInv
    <3>3. job' # NoLink => Described'
      BY <3>1, <3>2, PastedAssumption, UpsertStep DEF RowInv
    <3> QED BY <1>3, <3>3 DEF ImportAlert, RowInv
  <2> QED BY <1>3, <2>1, <2>2 DEF ImportAlert
<1>4. ASSUME NEW origin, Refresh(origin) PROVE RowInv'
  <2>1. PICK l \in Found : Upsert(origin, l, FALSE)
    BY <1>4 DEF Refresh
  <2>2. job' # NoLink => Described'
    BY <2>1, PastedAssumption, UpsertStep DEF RowInv
  <2> QED BY <1>4, <2>2 DEF Refresh, readerVars, RowInv
<1>5. CASE AddManualJob
  <2>1. PICK l \in Typed : Upsert("manual", l, TRUE)
    BY <1>5 DEF AddManualJob
  <2>2. job' # NoLink => Described'
    BY <2>1, PastedAssumption, UpsertStep DEF RowInv
  <2> QED BY <1>5, <2>2 DEF AddManualJob, readerVars, RowInv
<1>6. CASE ImportExport
  <2>1. PICK l \in Exported : Upsert("manual", l, FALSE)
    BY <1>6 DEF ImportExport
  <2>2. job' # NoLink => Described'
    BY <2>1, ExportedAssumption, UpsertStep DEF RowInv
  <2> QED BY <1>6, <2>2 DEF ImportExport, readerVars, RowInv
<1>7. CASE SetDescription
  BY <1>7 DEF SetDescription, Describe, readerVars, RowInv, Described
<1>8. CASE FetchDetails
  BY <1>8 DEF FetchDetails, Describe, readerVars, RowInv, Described
<1>9. \/ UNCHANGED <<job, mail>>
      \/ job = NoLink /\ UNCHANGED job
      \/ ImportAlert \/ Refresh("search") \/ Refresh("alert") \/ AddManualJob \/ ImportExport
      \/ SetDescription \/ FetchDetails
  BY DEF Next, vars, readerVars, NewUser, Approve, Withdraw, SavePrefs, MatchJobs, BeginDraft, EndDraft
<1> QED BY <1>1, <1>2, <1>3, <1>4, <1>5, <1>6, <1>7, <1>8, <1>9

\* A full description stays until another one replaces it, whatever alerts,
\* searches and exports say of the job and in whatever order; only what the
\* user enters again without one goes.
THEOREM DescriptionsStay == Spec => FullTextKept
<1> DEFINE Stays ==
      job # NoLink /\ job.text \intersect Pasted # {} /\ job'.text \intersect Pasted = {}
        => job.origin = "manual" /\ ~job.byUser
<1>1. Init => RowInv
  BY DEF Init, ReaderInit, RowInv
<1>2. RowInv /\ ReaderInv /\ [Next]_vars => [Stays]_vars
  <2> SUFFICES ASSUME RowInv, [Next]_vars, job # NoLink,
                      job.text \intersect Pasted # {}, job'.text \intersect Pasted = {}
               PROVE  job.origin = "manual" /\ ~job.byUser
    OBVIOUS
  <2>1. Described /\ mail = <<>>
    BY DEF RowInv
  <2>2. ASSUME NEW origin, NEW l, NEW mentions, Upsert(origin, l, mentions)
        PROVE  job.origin = "manual" /\ ~job.byUser
    BY <2>1, <2>2 DEF Upsert, Row, KeepsText, Described
  <2>3. CASE SetDescription
    BY <2>1, <2>3 DEF SetDescription, Describe, Described, Fields
  <2>4. CASE FetchDetails
    BY <2>1, <2>4 DEF FetchDetails, Describe, Described, Fields
  <2>5. CASE UNCHANGED job
    BY <2>5
  <2> QED BY <2>1, <2>2, <2>3, <2>4, <2>5
          DEF Next, vars, NewUser, ImportAlert, Refresh, AddManualJob, ImportExport,
              Approve, Withdraw, SavePrefs, MatchJobs, BeginDraft, EndDraft
<1> QED BY <1>1, <1>2, ReaderStart, ReaderStep, RowStep, PTL DEF Spec, FullTextKept

-----------------------------------------------------------------------------
(* Points *)

\* Finitely many finite sets have finitely many elements.
LEMMA FiniteUnion ==
  ASSUME NEW I, IsFiniteSet(I), NEW f, \A i \in I : IsFiniteSet(f[i])
  PROVE  IsFiniteSet(UNION {f[i] : i \in I})
<1> DEFINE T == {f[i] : i \in I}
           g == [i \in I |-> f[i]]
<1>1. g \in Surjection(I, T)
  BY DEF Surjection
<1>2. IsFiniteSet(T)
  <2> HIDE DEF T, g
  <2> QED BY <1>1, FS_Surjection
<1> QED BY <1>2, FS_UNION

\* The quotient is v or rounds up to it.
Reaches(n, d, v) == 2 * n > (2 * v - 1) * d \/ (2 * n = (2 * v - 1) * d /\ v % 2 = 0)

\* Rounded is such a v,
LEMMA RoundedReaches ==
  ASSUME NEW n \in Nat, NEW d \in Nat \ {0}
  PROVE  Rounded(n, d) \in Nat /\ Reaches(n, d, Rounded(n, d))
<1> DEFINE q == n \div d
           r == n % d
<1>1. q \in Nat /\ r \in 0..d - 1 /\ n = d * q + r
  OBVIOUS
<1>2. Rounded(n, d) = IF 2 * r > d \/ (2 * r = d /\ q % 2 = 1) THEN q + 1 ELSE q
  BY DEF Rounded
<1> HIDE DEF q, r
<1>3. CASE 2 * r > d \/ (2 * r = d /\ q % 2 = 1)
  <2>1. Rounded(n, d) = q + 1 /\ (2 * (q + 1) - 1) * d = 2 * (d * q) + d
    BY <1>1, <1>2, <1>3
  <2>2. q % 2 = 1 => (q + 1) % 2 = 0
    BY <1>1
  <2> QED BY <1>1, <1>3, <2>1, <2>2 DEF Reaches
<1>4. CASE ~(2 * r > d \/ (2 * r = d /\ q % 2 = 1))
  <2>1. Rounded(n, d) = q /\ (2 * q - 1) * d = 2 * (d * q) - d
    BY <1>1, <1>2, <1>4
  <2> QED BY <1>1, <2>1 DEF Reaches
<1> QED BY <1>3, <1>4

\* and the largest one.
LEMMA ReachedRounded ==
  ASSUME NEW n \in Nat, NEW d \in Nat \ {0}, NEW v \in Nat, Reaches(n, d, v)
  PROVE  v <= Rounded(n, d)
BY DEF Rounded, Reaches

\* Rounding keeps the order of quotients.
LEMMA RoundedMono ==
  ASSUME NEW m \in Nat, NEW c \in Nat \ {0}, NEW n \in Nat, NEW d \in Nat \ {0}, m * d <= n * c
  PROVE  Rounded(m, c) <= Rounded(n, d)
<1> DEFINE v == Rounded(m, c)
<1>1. v \in Nat /\ Reaches(m, c, v)
  BY RoundedReaches
<1> HIDE DEF v
<1> DEFINE k == 2 * v - 1
<1>2. k \in Int /\ (2 * m > k * c \/ (2 * m = k * c /\ v % 2 = 0))
  BY <1>1 DEF Reaches
<1>3. 2 * m * d <= 2 * n * c
  OBVIOUS
<1>4. ASSUME 2 * m > k * c PROVE 2 * n > k * d
  <2> HIDE DEF k
  <2>1. 2 * m * d > k * c * d
    BY <1>2, <1>4
  <2>2. (2 * n) * c > (k * d) * c
    BY <1>2, <1>3, <2>1
  <2> QED BY <1>2, <2>2
<1>5. ASSUME 2 * m = k * c PROVE 2 * n >= k * d
  <2> HIDE DEF k
  <2>1. 2 * m * d = k * c * d
    BY <1>2, <1>5
  <2>2. (2 * n) * c >= (k * d) * c
    BY <1>2, <1>3, <2>1
  <2> QED BY <1>2, <2>2
<1>6. Reaches(n, d, v)
  <2> HIDE DEF k
  <2>1. 2 * n > k * d \/ (2 * n = k * d /\ v % 2 = 0)
    BY <1>2, <1>4, <1>5
  <2> QED BY <2>1 DEF Reaches, k
<1> QED BY <1>1, <1>6, ReachedRounded DEF v

\* A larger share is not worth less.
LEMMA ShareMono ==
  ASSUME NEW w \in Nat, NEW m \in Nat, NEW c \in Nat \ {0}, NEW n \in Nat, NEW d \in Nat \ {0}, m * d <= n * c
  PROVE  Share(w, m, c) \in Nat /\ Share(w, m, c) <= Share(w, n, d)
<1>1. 10 * w * m \in Nat /\ 10 * w * n \in Nat
  OBVIOUS
<1>2. (10 * w * m) * d <= (10 * w * n) * c
  <2>1. (10 * w) * (m * d) <= (10 * w) * (n * c)
    OBVIOUS
  <2> QED BY <2>1
<1> QED BY <1>1, <1>2, RoundedMono, RoundedReaches DEF Share

\* What is known of preferences and of facts.
Sound(p) ==
  p.weights \in [Criteria -> Nat] /\ IsFiniteSet(p.keywords) /\ \A t \in p.titles : IsFiniteSet(t)

\* No weight is negative.
LEMMA Weights ==
  ASSUME NEW p, Sound(p)
  PROVE  /\ p.weights.title \in Nat /\ p.weights.skills \in Nat /\ p.weights.seniority \in Nat
         /\ p.weights.location \in Nat /\ p.weights.domain \in Nat /\ p.weights.compensation \in Nat
BY DEF Sound, Criteria

\* The size of a part.
LEMMA Sizes ==
  ASSUME NEW T, IsFiniteSet(T), NEW S \in SUBSET T
  PROVE  /\ IsFiniteSet(S) /\ Cardinality(S) \in Nat /\ Cardinality(T) \in Nat
         /\ Cardinality(S) <= Cardinality(T)
         /\ T # {} => Cardinality(T) \in Nat \ {0}
<1>1. IsFiniteSet(S) /\ Cardinality(S) <= Cardinality(T)
  BY FS_Subset
<1>2. Cardinality(S) \in Nat /\ Cardinality(T) \in Nat
  BY <1>1, FS_CardinalityType
<1>3. T # {} => Cardinality(T) # 0
  BY FS_EmptySet
<1> QED BY <1>1, <1>2, <1>3

\* No title is more than the title asked for.
LEMMA SimilarityBound ==
  ASSUME NEW w \in Nat, NEW title, NEW target, IsFiniteSet(target)
  PROVE  Similarity(w, title, target) \in 0..10 * w
<1>1. CASE title = {} \/ target = {}
  BY <1>1 DEF Similarity
<1>2. CASE title # {} /\ target # {}
  <2> DEFINE n == Cardinality(title \intersect target)
             c == Cardinality(target)
             k == IF (title \intersect RoleNouns) \ target = {} THEN 1 ELSE 2
  <2>1. n \in Nat /\ c \in Nat \ {0} /\ n <= c
    <3>1. title \intersect target \in SUBSET target
      OBVIOUS
    <3> QED BY <1>2, <3>1, Sizes
  <2>2. Similarity(w, title, target) = Share(w, n, c * k)
    BY <1>2 DEF Similarity
  <2>3. k \in {1, 2}
    OBVIOUS
  <2> HIDE DEF n, c, k
  <2>4. PICK d \in Nat \ {0} : d = c * k /\ n <= d
    BY <2>1, <2>3
  <2>5. n * 1 <= 1 * d /\ 1 \in Nat \ {0}
    BY <2>1, <2>4
  <2>6. Share(w, n, d) \in Nat /\ Share(w, n, d) <= Share(w, 1, 1)
    BY <2>1, <2>4, <2>5, ShareMono
  <2>7. Share(w, 1, 1) = 10 * w
    BY DEF Share, Rounded
  <2> QED BY <2>2, <2>4, <2>6, <2>7
<1> QED BY <1>1, <1>2

\* With more roles the title of one of them may be closer.
LEMMA TitlesHelp ==
  ASSUME NEW view, NEW p, Sound(p), NEW ok \in SUBSET Facts, NEW more \in SUBSET Facts, ok \subseteq more
  PROVE  /\ TitlePoints(view, p, ok) \in Nat
         /\ TitlePoints(view, p, ok) <= TitlePoints(view, p, more)
<1> DEFINE w == p.weights.title
           All(k) == {0} \union {Similarity(w, view.title, t) : t \in Targets(p, k)}
<1>1. w \in Nat
  BY Weights
<1>2. ASSUME NEW k \in SUBSET Facts, NEW t \in Targets(p, k) PROVE IsFiniteSet(t)
  BY <1>2, EvidenceAssumption, FactsAssumption DEF Targets, OfKind, Sound
<1>3. Targets(p, ok) \subseteq Targets(p, more)
  BY DEF Targets, OfKind
<1> HIDE DEF w
<1>4. All(ok) \in SUBSET (0..10 * w) /\ All(more) \in SUBSET (0..10 * w)
  BY <1>1, <1>2, SimilarityBound
<1>5. All(ok) \subseteq All(more) /\ 0 \in All(ok) /\ 0 \in All(more)
  BY <1>3
<1>6. TitlePoints(view, p, ok) = Max(All(ok)) /\ TitlePoints(view, p, more) = Max(All(more))
  BY DEF TitlePoints, w
<1>7. 10 * w \in Nat
  BY <1>1
<1> HIDE DEF All
<1>8. Max(All(ok)) \in All(ok) /\ Max(All(more)) \in All(more) /\ \A x \in All(more) : x <= Max(All(more))
  BY <1>4, <1>5, <1>7, Greatest
<1> QED BY <1>4, <1>5, <1>6, <1>8

\* A skill that is approved and that the listing asks for is matched, whether
\* or not it was asked for before.
LEMMA SkillsHelp ==
  ASSUME NEW view, NEW p, Sound(p), NEW ok \in SUBSET Facts, NEW more \in SUBSET Facts, ok \subseteq more
  PROVE  /\ SkillPoints(view, p, ok) \in Nat
         /\ SkillPoints(view, p, ok) <= SkillPoints(view, p, more)
<1> DEFINE w == p.weights.skills
           R1 == Required(view, p, ok)
           R2 == Required(view, p, more)
           M1 == Matched(view, p, ok)
           M2 == Matched(view, p, more)
<1>1. w \in Nat
  BY Weights
<1>2. ASSUME NEW k \in SUBSET Facts
      PROVE  IsFiniteSet(Required(view, p, k)) /\ Matched(view, p, k) \in SUBSET Required(view, p, k)
  <2>1. IsFiniteSet(k)
    BY FactsAssumption, FS_Subset
  <2>2. IsFiniteSet(Skills(k))
    <3> DEFINE name == [i \in k |-> {Fact[i].name}]
    <3>1. \A i \in k : IsFiniteSet(name[i])
      BY FS_Singleton
    <3>2. IsFiniteSet(UNION {name[i] : i \in k})
      <4> HIDE DEF name
      <4> QED BY <2>1, <3>1, FiniteUnion
    <3>3. Skills(k) \in SUBSET UNION {name[i] : i \in k}
      BY DEF Skills, OfKind
    <3> HIDE DEF name
    <3> QED BY <3>2, <3>3, FS_Subset
  <2>3. IsFiniteSet(Vocabulary(p, k))
    BY <2>2, EvidenceAssumption, FS_Union DEF Vocabulary, Sound
  <2>4. Required(view, p, k) \in SUBSET Vocabulary(p, k)
    BY DEF Required
  <2>5. IsFiniteSet(Required(view, p, k))
    BY <2>3, <2>4, FS_Subset
  <2> QED BY <2>5 DEF Matched
<1>3. R1 \subseteq R2 /\ M1 \subseteq M2 /\ R2 \ R1 \subseteq M2 \ M1
  <2>1. Skills(ok) \subseteq Skills(more)
    BY DEF Skills, OfKind
  <2> QED BY <2>1 DEF Required, Matched, Vocabulary
<1> DEFINE r1 == Cardinality(R1)
           r2 == Cardinality(R2)
           m1 == Cardinality(M1)
           m2 == Cardinality(M2)
<1>4. SkillPoints(view, p, ok) = (IF R1 = {} THEN 0 ELSE Share(w, m1, r1))
  BY DEF SkillPoints
<1>5. SkillPoints(view, p, more) = (IF R2 = {} THEN 0 ELSE Share(w, m2, r2))
  BY DEF SkillPoints
<1>6. IsFiniteSet(R1) /\ IsFiniteSet(R2) /\ M1 \in SUBSET R1 /\ M2 \in SUBSET R2
  BY <1>2
<1> HIDE DEF w, R1, R2, M1, M2
<1>7. /\ m1 \in Nat /\ r1 \in Nat /\ m1 <= r1
      /\ m2 \in Nat /\ r2 \in Nat /\ m2 <= r2
      /\ (R1 # {} => r1 # 0) /\ (R2 # {} => r2 # 0)
  BY <1>6, Sizes
<1>8. r2 - r1 <= m2 - m1
  <2> DEFINE D == R2 \ R1
             E == M2 \ M1
  <2>1. IsFiniteSet(D) /\ IsFiniteSet(M1) /\ IsFiniteSet(M2) /\ IsFiniteSet(E)
    BY <1>6, FS_Subset, FS_Difference
  <2>2. Cardinality(D) = r2 - r1 /\ Cardinality(E) = m2 - m1
    <3>1. Cardinality(D) = r2 - Cardinality(R2 \intersect R1)
      BY <1>6, FS_Difference
    <3>2. Cardinality(E) = m2 - Cardinality(M2 \intersect M1)
      BY <2>1, FS_Difference
    <3>3. R2 \intersect R1 = R1 /\ M2 \intersect M1 = M1
      BY <1>3
    <3> QED BY <3>1, <3>2, <3>3
  <2>3. Cardinality(D) <= Cardinality(E)
    <3>1. D \in SUBSET E
      BY <1>3
    <3> QED BY <2>1, <3>1, FS_Subset
  <2> QED BY <2>2, <2>3
<1> HIDE DEF m1, m2, r1, r2
<1>9. CASE R1 = {}
  <2>1. R2 # {} => Share(w, m2, r2) \in Nat
    BY <1>1, <1>7, ShareMono
  <2> QED BY <1>4, <1>5, <1>9, <2>1
<1>10. CASE R1 # {}
  <2>1. R2 # {}
    BY <1>3, <1>10
  <2>2. m1 * r2 <= m2 * r1
    <3>1. m1 * (r2 - r1) <= r1 * (r2 - r1)
      <4>1. r1 <= r2
        BY <1>3, <1>6, FS_Subset DEF r1, r2
      <4> QED BY <1>7, <4>1
    <3>2. r1 * (r2 - r1) <= r1 * (m2 - m1)
      BY <1>7, <1>8
    <3> QED BY <1>7, <3>1, <3>2
  <2>3. r1 \in Nat \ {0} /\ r2 \in Nat \ {0}
    BY <1>7, <1>10, <2>1
  <2>4. Share(w, m1, r1) \in Nat /\ Share(w, m1, r1) <= Share(w, m2, r2)
    BY <1>1, <1>7, <2>2, <2>3, ShareMono
  <2> QED BY <1>4, <1>5, <1>10, <2>1, <2>4
<1> QED BY <1>9, <1>10

\* The less of two numbers.
LEMMA LeastOfTwo ==
  ASSUME NEW a \in Int, NEW b \in Int
  PROVE  Min({a, b}) = IF a <= b THEN a ELSE b
<1>1. \E x \in {a, b} : \A y \in {a, b} : x <= y
  OBVIOUS
<1>2. Min({a, b}) \in {a, b} /\ \A y \in {a, b} : Min({a, b}) <= y
  BY <1>1, Zenon DEF Min
<1> QED BY <1>2

\* The months of finitely many roles, each of which counts for 60 years at most.
LEMMA MonthsFinite ==
  ASSUME NEW k \in SUBSET Facts
  PROVE  IsFiniteSet(UNION {Months(i) : i \in OfKind(k, "role")})
<1> DEFINE f == [i \in Facts |-> Months(i)]
           I == OfKind(k, "role")
<1>1. ASSUME NEW i \in Facts PROVE IsFiniteSet(Months(i))
  <2>1. CASE None \in {Fact[i].start, Fact[i].end}
    BY <2>1, FS_EmptySet DEF Months
  <2>2. CASE None \notin {Fact[i].start, Fact[i].end}
    <3> DEFINE last == IF Fact[i].end = "present" THEN Today ELSE Fact[i].end
    <3>1. Fact[i].start \in Int /\ last \in Int
      BY <2>2, EvidenceAssumption, FactsAssumption
    <3>2. Months(i) \in SUBSET (Fact[i].start .. last)
      BY <2>2 DEF Months
    <3> HIDE DEF last
    <3> QED BY <3>1, <3>2, FS_Interval, FS_Subset
  <2> QED BY <2>1, <2>2
<1>2. IsFiniteSet(I) /\ I \subseteq Facts
  BY FactsAssumption, FS_Subset DEF OfKind
<1>3. IsFiniteSet(UNION {f[i] : i \in I})
  <2>1. \A i \in I : IsFiniteSet(f[i])
    BY <1>1, <1>2
  <2> HIDE DEF f, I
  <2> QED BY <1>2, <2>1, FiniteUnion
<1>4. {f[i] : i \in I} = {Months(i) : i \in I}
  BY <1>2
<1> QED BY <1>3, <1>4

\* Months that several roles cover count once, so a role adds to the years or
\* leaves them as they are.
LEMMA YearsGrow ==
  ASSUME NEW ok \in SUBSET Facts, NEW more \in SUBSET Facts, ok \subseteq more
  PROVE  CandidateYears(ok) \in Nat /\ CandidateYears(more) \in Nat /\ CandidateYears(ok) <= CandidateYears(more)
<1> DEFINE All(k) == UNION {Months(i) : i \in OfKind(k, "role")}
           a == Cardinality(All(ok))
           b == Cardinality(All(more))
<1>1. All(ok) \in SUBSET All(more)
  BY DEF OfKind
<1>2. IsFiniteSet(All(more))
  BY MonthsFinite
<1>3. CandidateYears(ok) = Rounded(10 * a, 12) /\ CandidateYears(more) = Rounded(10 * b, 12)
  BY DEF CandidateYears
<1> HIDE DEF All
<1>4. a \in Nat /\ b \in Nat /\ a <= b
  BY <1>1, <1>2, Sizes
<1> HIDE DEF a, b
<1>5. 10 * a \in Nat /\ 10 * b \in Nat /\ 12 \in Nat \ {0} /\ (10 * a) * 12 <= (10 * b) * 12
  BY <1>4
<1> QED BY <1>3, <1>5, RoundedMono, RoundedReaches

\* More years are not worth less, up to those the listing asks for.
LEMMA YearsHelp ==
  ASSUME NEW view, view.years \subseteq Nat, NEW p, Sound(p),
         NEW ok \in SUBSET Facts, NEW more \in SUBSET Facts, ok \subseteq more
  PROVE  /\ SeniorityPoints(view, p, ok) \in Nat
         /\ SeniorityPoints(view, p, ok) <= SeniorityPoints(view, p, more)
<1> DEFINE w == p.weights.seniority
           need == RequiredYears(view)
           level == LevelHalves(view, p)
           counted(k) == Min({CandidateYears(k), 10 * need})
<1>1. w \in Nat
  BY Weights
<1>2. level \in 0..2
  BY DEF LevelHalves
<1>3. need = None \/ need \in Nat \ {0}
  <2> DEFINE stated == {y \in view.years : 0 < y /\ y <= 25}
  <2>1. need = IF stated = {} THEN None ELSE Min(stated)
    BY DEF RequiredYears
  <2>2. stated \in SUBSET Nat /\ 0 \notin stated
    OBVIOUS
  <2> HIDE DEF stated
  <2>3. stated # {} => \E x \in stated : \A y \in stated : x <= y
    BY <2>2, Least
  <2>4. stated # {} => Min(stated) \in stated
    BY <2>3, Zenon DEF Min
  <2> QED BY <2>1, <2>2, <2>4
<1>4. \A k : SeniorityPoints(view, p, k) =
               IF need = None THEN Share(w, level + 1, 4)
               ELSE Share(w, 10 * need * level + 2 * counted(k), 40 * need)
  BY DEF SeniorityPoints
<1> HIDE DEF w, need, level
<1>5. CASE need = None
  <2>1. Share(w, level + 1, 4) \in Nat
    <3>1. level + 1 \in Nat /\ 4 \in Nat \ {0} /\ (level + 1) * 4 <= (level + 1) * 4
      BY <1>2
    <3> QED BY <1>1, <3>1, ShareMono
  <2> QED BY <1>4, <1>5, <2>1
<1>6. CASE need # None
  <2>1. need \in Nat \ {0}
    BY <1>3, <1>6
  <2>2. counted(ok) \in Nat /\ counted(more) \in Nat /\ counted(ok) <= counted(more)
    <3>1. 10 * need \in Nat
      BY <2>1
    <3> QED BY <3>1, YearsGrow, LeastOfTwo
  <2> DEFINE m == 10 * need * level + 2 * counted(ok)
             n == 10 * need * level + 2 * counted(more)
             d == 40 * need
  <2>3. SeniorityPoints(view, p, ok) = Share(w, m, d) /\ SeniorityPoints(view, p, more) = Share(w, n, d)
    BY <1>4, <1>6
  <2>4. 10 * need * level \in Nat
    BY <1>2, <2>1
  <2> HIDE DEF counted
  <2>5. m \in Nat /\ n \in Nat /\ m <= n /\ d \in Nat \ {0}
    BY <2>1, <2>2, <2>4
  <2> HIDE DEF m, n, d
  <2>6. m * d <= n * d
    BY <2>5
  <2> QED BY <1>1, <2>3, <2>5, <2>6, ShareMono
<1> QED BY <1>5, <1>6

\* Points are natural numbers.
LEMMA ShareNat ==
  ASSUME NEW w \in Nat, NEW n \in Nat, NEW d \in Nat \ {0}
  PROVE  Share(w, n, d) \in Nat
<1>1. n * d <= n * d
  OBVIOUS
<1> QED BY <1>1, ShareMono

\* The other criteria do not depend on the facts.
LEMMA OtherPoints ==
  ASSUME NEW view, NEW p, Sound(p)
  PROVE  LocationPoints(view, p) \in Nat /\ DomainPoints(view, p) \in Nat /\ CompensationPoints(view, p) \in Nat
<1>1. 1 \in Nat \ {0} /\ 2 \in Nat \ {0}
  OBVIOUS
<1>2. LocationPoints(view, p) \in Nat
  <2> DEFINE stated == {a \in {"arrangement", "place"} : Stated(view, p, a)}
             suits == {a \in stated : Suits(view, p, a)}
             w == p.weights.location
  <2>1. IsFiniteSet({"arrangement", "place"})
    <3>1. IsFiniteSet({"arrangement"} \union {"place"})
      BY FS_Singleton, FS_AddElement
    <3>2. {"arrangement"} \union {"place"} = {"arrangement", "place"}
      OBVIOUS
    <3> QED BY <3>1, <3>2
  <2>2. IsFiniteSet(stated)
    <3>1. stated \in SUBSET {"arrangement", "place"}
      OBVIOUS
    <3> QED BY <2>1, <3>1, FS_Subset
  <2>3. suits \in SUBSET stated
    OBVIOUS
  <2>4. LocationPoints(view, p) =
          IF stated = {} THEN Share(w, 1, 2) ELSE Share(w, Cardinality(suits), Cardinality(stated))
    BY DEF LocationPoints
  <2>5. w \in Nat
    BY Weights
  <2> HIDE DEF stated, suits, w
  <2> QED BY <1>1, <2>2, <2>3, <2>4, <2>5, Sizes, ShareNat
<1>3. DomainPoints(view, p) \in Nat
  BY <1>1, Weights, ShareNat DEF DomainPoints
<1>4. CompensationPoints(view, p) \in Nat
  BY <1>1, Weights, ShareNat DEF CompensationPoints
<1> QED BY <1>2, <1>3, <1>4

\* More evidence is never a lower score.
LEMMA ScoreGrows ==
  ASSUME NEW view, view.years \subseteq Nat, NEW p, Sound(p),
         NEW ok \in SUBSET Facts, NEW more \in SUBSET Facts, ok \subseteq more
  PROVE  Score(view, p, ok) \in Nat /\ Score(view, p, ok) <= Score(view, p, more)
<1> DEFINE m == Points(view, p, ok)
           n == Points(view, p, more)
           d == Max({1, Total(p.weights)})
<1>1. m \in Nat /\ n \in Nat /\ m <= n
  BY TitlesHelp, SkillsHelp, YearsHelp, OtherPoints DEF Points
<1>2. d \in Nat \ {0}
  <2> DEFINE t == Total(p.weights)
  <2>1. t \in Nat
    BY Weights DEF Total
  <2> HIDE DEF t
  <2>2. \E x \in {1, t} : \A y \in {1, t} : x >= y
    BY <2>1
  <2>3. Max({1, t}) \in {1, t} /\ \A y \in {1, t} : Max({1, t}) >= y
    BY <2>2, Zenon DEF Max
  <2> QED BY <2>1, <2>3 DEF t
<1>3. /\ Score(view, p, ok) = IF Excluded(view, p) THEN 0 ELSE Rounded(100 * m, d)
      /\ Score(view, p, more) = IF Excluded(view, p) THEN 0 ELSE Rounded(100 * n, d)
  BY DEF Score
<1> HIDE DEF m, n, d
<1>4. 100 * m \in Nat /\ 100 * n \in Nat /\ (100 * m) * d <= (100 * n) * d
  BY <1>1, <1>2
<1>5. Rounded(100 * m, d) \in Nat
  BY <1>2, <1>4, RoundedReaches
<1>6. Rounded(100 * m, d) <= Rounded(100 * n, d)
  BY <1>2, <1>4, RoundedMono
<1> QED BY <1>3, <1>5, <1>6

-----------------------------------------------------------------------------
(* Scores *)

\* Unless more than approvals came since, the last score is one of fewer facts.
ScoreOfLess ==
  \/ match.score = 0
  \/ job # NoLink /\ \E ok \in SUBSET approved : match.score = Score(View(job), prefs, ok)
MatchInv ==
  /\ prefs \in Prefs \union {Default}
  /\ approved \subseteq Facts
  /\ ~changed => ScoreOfLess

\* Only approvals come between two evaluations that are compared.
LEMMA MatchStep == MatchInv /\ [Next]_vars => MatchInv'
<1> SUFFICES ASSUME MatchInv, [Next]_vars PROVE MatchInv'
  OBVIOUS
<1>1. CASE UNCHANGED <<job, prefs, approved, match, changed>>
  BY <1>1 DEF MatchInv, ScoreOfLess, View, Said, Arrangement
<1>2. CASE changed' = TRUE /\ approved' \subseteq Facts /\ prefs' \in Prefs \union {Default}
  BY <1>2 DEF MatchInv
<1>3. ASSUME NEW i \in Reviewed, Approve(i) PROVE MatchInv'
  <2>1. approved' \subseteq Facts /\ prefs' = prefs
    BY <1>3, ReviewedAssumption DEF Approve, MatchInv
  <2>2. ScoreOfLess => ScoreOfLess'
    BY <1>3 DEF Approve, ScoreOfLess
  <2> QED BY <1>3, <2>1, <2>2 DEF Approve, MatchInv
<1>4. CASE MatchJobs
  <2>1. match'.score = Score(View(job), prefs, approved)
    BY <1>4 DEF MatchJobs
  <2>2. UNCHANGED <<job, prefs, approved>> /\ job # NoLink
    BY <1>4 DEF MatchJobs
  <2>3. ScoreOfLess'
    BY <2>1, <2>2 DEF ScoreOfLess
  <2> QED BY <2>2, <2>3 DEF MatchInv
<1>5. \/ UNCHANGED <<job, prefs, approved, match, changed>>
      \/ changed' = TRUE /\ approved' \subseteq Facts /\ prefs' \in Prefs \union {Default}
      \/ \E i \in Reviewed : Approve(i)
      \/ MatchJobs
  BY DEF MatchInv, Next, vars, ImportAlert, Refresh, AddManualJob, ImportExport, Upsert, SetDescription, FetchDetails,
         Describe, Withdraw, SavePrefs, BeginDraft, EndDraft
<1> QED BY <1>1, <1>2, <1>3, <1>4, <1>5

\* Approving facts never lowers the score of a listing, whatever the facts, the
\* listing and the preferences are: an application that matched does not fall back.
THEOREM EvidenceHelps == Spec => ApprovalHelps
<1>1. Init => RowInv /\ MatchInv
  BY FactsAssumption DEF Init, ReaderInit, RowInv, MatchInv, ScoreOfLess
<1>2. RowInv /\ MatchInv /\ [Next]_vars => [MatchJobs /\ ~changed => match'.score >= match.score]_vars
  <2> SUFFICES ASSUME RowInv, MatchInv, MatchJobs, ~changed PROVE match'.score >= match.score
    OBVIOUS
  <2> DEFINE view == View(job)
  <2>1. job # NoLink /\ match'.score = Score(view, prefs, approved)
    BY DEF MatchJobs
  <2>2. view.years \subseteq Nat
    <3>1. job.text \subseteq Texts \union Pasted
      BY <2>1 DEF RowInv, Described
    <3> QED BY <3>1, SaysAssumption DEF View, Said
  <2>3. Sound(prefs)
    BY PrefsAssumption DEF MatchInv, Sound
  <2>4. ScoreOfLess /\ approved \in SUBSET Facts
    BY DEF MatchInv
  <2> HIDE DEF view
  <2>5. ASSUME NEW ok \in SUBSET approved
        PROVE  Score(view, prefs, ok) \in Nat /\ Score(view, prefs, ok) <= Score(view, prefs, approved)
    BY <2>2, <2>3, <2>4, ScoreGrows
  <2>6. CASE match.score = 0
    <3>1. Score(view, prefs, approved) \in Nat
      BY <2>5
    <3> QED BY <2>1, <2>6, <3>1
  <2>7. CASE \E ok \in SUBSET approved : match.score = Score(view, prefs, ok)
    <3>1. Score(view, prefs, approved) \in Nat
      BY <2>5
    <3> QED BY <2>1, <2>5, <2>7, <3>1
  <2> QED BY <2>4, <2>6, <2>7 DEF ScoreOfLess, view
<1> QED BY <1>1, <1>2, ReaderStart, ReaderStep, RowStep, MatchStep, PTL DEF Spec, ApprovalHelps
=============================================================================
