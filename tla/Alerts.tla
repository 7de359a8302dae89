------------------------------- MODULE Alerts -------------------------------
(***************************************************************************)
(* What is read out of a job-alert e-mail (backend/app/ingestion/            *)
(* email_alerts.py, parse_message): listings are told apart by their links,  *)
(* and the lines around a link are what is known of its listing.             *)
(*                                                                          *)
(* The mail comes as the chunks that the HTML or text extractor makes of it: *)
(* anchors and lines, one at a time.  What a text says to the patterns that  *)
(* look at it is given.                                                     *)
(***************************************************************************)
EXTENDS Naturals, Sequences, SequencesExt

CONSTANTS
  Links,      \* job links on the site's own domain, by the id in them
  Elsewhere,  \* any other link
  NoLink,     \* an anchor without one; no listing
  Texts, Empty,
  Generic,    \* texts that GENERIC_ANCHORS matches: "View job", "Apply now"
  Length,     \* of texts
  Says,       \* what patterns find in a text
  MAX_LINES, MAX_JOBS_PER_MESSAGE,
  MaxChunks   \* bound: chunks of a mail

ASSUME TextsAssumption ==
  /\ Generic \subseteq Texts /\ Empty \notin Texts
  /\ Length \in [Texts \union {Empty} -> Nat] /\ Length[Empty] = 0
ASSUME LinksAssumption ==
  /\ Elsewhere \notin Links /\ NoLink \notin Links \union {Elsewhere}
ASSUME LimitsAssumption ==
  /\ MAX_LINES \in Nat /\ MAX_JOBS_PER_MESSAGE \in Nat /\ MaxChunks \in Nat

VARIABLES
  mail,     \* the chunks read so far
  order,    \* links in the order of their first anchors
  entry,    \* what is known of the listing behind each link
  current   \* the link that the next lines belong to

readerVars == <<mail, order, entry, current>>

Blank == [title |-> Empty, context |-> <<>>]

ReaderInit ==
  /\ mail = <<>> /\ order = <<>>
  /\ entry = [l \in Links |-> Blank]
  /\ current = NoLink

Chunk(link, text) == [link |-> link, text |-> text]
Line == "line"  \* in place of a link

-----------------------------------------------------------------------------
BetterTitle(text, title) ==
  text \notin Generic /\ Length[text] >= 4 /\ Length[text] > Length[title]

\* A plausible fault: only the first anchor of a listing is noticed.
FirstOnly(link) == IF link \in {order[i] : i \in DOMAIN order} THEN current ELSE link
Attend(link) == link

ReadJobAnchor(link, text) ==
  /\ mail' = Append(mail, Chunk(link, text))
  /\ order' = IF \E i \in DOMAIN order : order[i] = link THEN order ELSE Append(order, link)
  /\ entry' = [entry EXCEPT ![link].title = IF BetterTitle(text, @) THEN text ELSE @]
  /\ current' = Attend(link)

\* A named link that is not a job's ends a listing; a button or an image does not.
ReadOtherAnchor(link, text) ==
  /\ link \in {Elsewhere, NoLink}
  /\ mail' = Append(mail, Chunk(link, text))
  /\ current' = IF link = Elsewhere /\ text \notin Generic \union {Empty} THEN NoLink ELSE current
  /\ UNCHANGED <<order, entry>>

ReadLine(text) ==
  /\ mail' = Append(mail, Chunk(Line, text))
  /\ entry' = IF current = NoLink THEN entry
              ELSE [entry EXCEPT ![current].context =
                     IF Len(@) < MAX_LINES /\ text # entry[current].title THEN Append(@, text) ELSE @]
  /\ UNCHANGED <<order, current>>

Read ==
  /\ Len(mail) < MaxChunks
  /\ \E text \in Texts \union {Empty} :
       \/ \E link \in Links : ReadJobAnchor(link, text)
       \/ \E link \in {Elsewhere, NoLink} : ReadOtherAnchor(link, text)
       \/ text # Empty /\ ReadLine(text)

-----------------------------------------------------------------------------
(* The listing behind a link *)

FirstOf(lines, S) ==
  LET found == SelectSeq(lines, LAMBDA t : t \in S)
  IN  IF found = <<>> THEN Empty ELSE Head(found)

Titled(e) ==
  IF e.title # Empty THEN e.title ELSE IF e.context = <<>> THEN Empty ELSE Head(e.context)

\* Of the other lines the first that looks like one is the location, the pay,
\* and, of those left, the employer.
Listing(e) ==
  LET title    == Titled(e)
      lines    == SelectSeq(e.context, LAMBDA t : t # title)
      location == FirstOf(lines, {t \in Texts : Says[t].located})
      pay      == FirstOf(lines, {t \in Texts : Says[t].money})
  IN  [title |-> title, text |-> ToSet(e.context) \ {title}, location |-> location, pay |-> pay,
       employer |-> FirstOf(lines, {t \in Texts : Says[t].named} \ {location, pay})]

Listings ==
  {Listing(entry[order[i]]) : i \in
     {n \in 1..Len(order) : n <= MAX_JOBS_PER_MESSAGE /\ Titled(entry[order[n]]) \notin Generic \union {Empty}}}

-----------------------------------------------------------------------------
\* The line i of the mail stands under an anchor of the link: between them is
\* no anchor of another listing and no named link elsewhere.
Passed(chunk, link) ==
  \/ chunk.link \in {link, NoLink, Line}
  \/ chunk.link = Elsewhere /\ chunk.text \in Generic \union {Empty}

StandsUnder(i, link) ==
  \E k \in 1..(i - 1) :
    mail[k].link = link /\ \A n \in (k + 1)..(i - 1) : Passed(mail[n], link)

\* parse_message(): what is taken for the location, the pay or the employer of a
\* listing is a line of the mail that stands under one of its own links, never
\* the neighbour's or the footer's.
OwnLines ==
  \A link \in Links : \A t \in ToSet(entry[link].context) :
    \E i \in DOMAIN mail : mail[i] = Chunk(Line, t) /\ StandsUnder(i, link)
=============================================================================
