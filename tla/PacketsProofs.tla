--------------------------- MODULE PacketsProofs ----------------------------
(***************************************************************************)
(* What holds of packets and conflicts for every set of documents, of       *)
(* questions and of answers, and without a bound on the facts.              *)
(***************************************************************************)
EXTENDS Packets, FoldLemmas, SequenceTheorems

-----------------------------------------------------------------------------
(* Types *)

\* A record of the fields that an answer, and a packet, have.
EntryOK(e) == e = [status |-> e.status, sensitive |-> e.sensitive]
PacketOK ==
  /\ packet = [there |-> packet.there, cites |-> packet.cites, entries |-> packet.entries,
               notes |-> packet.notes, approved |-> packet.approved]
  /\ packet.entries = [q \in Questions |-> packet.entries[q]]
  /\ \A q \in Questions : EntryOK(packet.entries[q])
  /\ packet.notes \in {"none", "open", "on_site"}
  /\ packet.approved \in BOOLEAN

LEMMA DraftTyped == ASSUME NEW q \in Questions, NEW usable PROVE EntryOK(DraftAnswer(q, usable))
  BY DEF DraftAnswer, EntryOK

LEMMA MappingTyped == ASSUME NEW e, NEW m \in Mappings(e) PROVE EntryOK(m)
  BY DEF Mappings, EntryOK

LEMMA PacketTyped == Spec => []PacketOK
<1>1. Init => PacketOK
  BY DEF Init, PacketOK, NoPacket, NoEntries, EntryOK
<1>2. PacketOK /\ [Next]_vars => PacketOK'
  <2> SUFFICES ASSUME PacketOK, [Next]_vars PROVE PacketOK'
    OBVIOUS
  <2>1. CASE UNCHANGED packet
    BY <2>1 DEF PacketOK
  <2>2. ASSUME NEW q \in Questions, SetPacketAnswer(q) PROVE PacketOK'
    <3>1. PICK m \in Mappings(packet.entries[q]) : packet' = [packet EXCEPT !.entries = [@ EXCEPT ![q] = m]]
      BY <2>2 DEF SetPacketAnswer
    <3>2. EntryOK(m)
      BY <3>1, MappingTyped
    <3> QED BY <3>1, <3>2 DEF PacketOK
  <2>3. ASSUME NEW optedIn \in BOOLEAN, FinishPreparation(optedIn) PROVE PacketOK'
    BY <2>3, DraftTyped DEF FinishPreparation, PacketOK
  <2>4. CASE WorkerApproves
    BY <2>4 DEF WorkerApproves, PacketOK
  <2>5. ASSUME NEW onSite \in BOOLEAN, Approve(onSite) PROVE PacketOK'
    BY <2>5 DEF Approve, PacketOK, EntryOK
  <2>6. CASE Review
    BY <2>1, <2>6 DEF Review
  <2>7. CASE SaveAnswer
    BY <2>1, <2>7 DEF SaveAnswer
  <2>8. ASSUME NEW by \in {"worker", "user"}, BeginPreparation(by) PROVE PacketOK'
    BY <2>1, <2>8 DEF BeginPreparation
  <2>9. CASE Reopen
    BY <2>1, <2>9 DEF Reopen
  <2>10. CASE UNCHANGED vars
    BY <2>1, <2>10 DEF vars
  <2> QED BY <2>2, <2>3, <2>4, <2>5, <2>6, <2>7, <2>8, <2>9, <2>10 DEF Next
<1> QED BY <1>1, <1>2, PTL DEF Spec

-----------------------------------------------------------------------------
(* Cited facts *)

\* An approved packet never cites a fact that was not approved at the moment
\* of the approval, however long before it was prepared (pipeline.py, approve).
THEOREM CitesApproved == Spec => []CitesStand
<1>1. Init => CitesStand
  BY DEF Init, CitesStand
<1>2. PacketOK /\ CitesStand /\ [Next]_vars => CitesStand'
  <2> SUFFICES ASSUME PacketOK, CitesStand, [Next]_vars PROVE CitesStand'
    OBVIOUS
  <2>1. CASE Review
    <3>1. packet' = packet /\ app' = app
      BY <2>1 DEF Review
    <3>2. app = "APPROVED" => withdrawn' = withdrawn \union (Approved(facts) \ Approved(facts'))
      BY <2>1 DEF Review
    <3> QED BY <3>1, <3>2 DEF CitesStand
  <2>2. CASE SaveAnswer
    BY <2>2 DEF SaveAnswer, CitesStand, Approved, factVars, history
  <2>3. ASSUME NEW q \in Questions, SetPacketAnswer(q) PROVE CitesStand'
    <3>1. packet'.approved = packet.approved /\ ~packet.approved
      BY <2>3 DEF SetPacketAnswer, PacketOK
    <3> QED BY <3>1 DEF CitesStand
  <2>4. ASSUME NEW by \in {"worker", "user"}, BeginPreparation(by) PROVE CitesStand'
    BY <2>4 DEF BeginPreparation, CitesStand, Approved, factVars, history
  <2>5. ASSUME NEW optedIn \in BOOLEAN, FinishPreparation(optedIn) PROVE CitesStand'
    BY <2>5 DEF FinishPreparation, CitesStand
  <2>6. CASE WorkerApproves
    <3>1. CASE MayPass(packet) /\ ~Unsupported(packet)
      BY <2>6, <3>1 DEF WorkerApproves, MayPass, Verified, Pass, CitesStand, Approved, factVars, PacketOK
    <3>2. CASE ~(MayPass(packet) /\ ~Unsupported(packet))
      BY <2>6, <3>2 DEF WorkerApproves, CitesStand, Approved, factVars, history
    <3> QED BY <3>1, <3>2
  <2>7. ASSUME NEW onSite \in BOOLEAN, Approve(onSite) PROVE CitesStand'
    <3>1. packet'.cites = packet.cites /\ packet.cites \subseteq Approved(facts)
      BY <2>7 DEF Approve, MayPass, Verified, PacketOK
    <3>2. UNCHANGED facts
      BY <2>7 DEF Approve, Pass, factVars
    <3> QED BY <3>1, <3>2 DEF CitesStand, Approved
  <2>8. CASE Reopen
    BY <2>8 DEF Reopen, CitesStand
  <2>9. CASE UNCHANGED vars
    BY <2>9 DEF vars, CitesStand, Approved
  <2> QED BY <2>1, <2>2, <2>3, <2>4, <2>5, <2>6, <2>7, <2>8, <2>9 DEF Next
<1> QED BY <1>1, <1>2, PacketTyped, PTL DEF Spec

-----------------------------------------------------------------------------
(* Conflicts *)

\* What a conflict, and what is raised, consist of.
ConflictsOK == \A c \in conflicts : c = [a |-> c.a, b |-> c.b, field |-> c.field, status |-> c.status]
Triples(abouts) == \A x \in abouts : x = <<x[1], x[2], x[3]>>

LEMMA ContactTriples == ASSUME NEW fs PROVE Triples(ContactClashes(fs))
  BY DEF Triples, ContactClashes

LEMMA RoleTriples == ASSUME NEW fs PROVE Triples(RoleClashes(fs))
<1>1. ASSUME NEW r, NEW l PROVE Triples(PairClashes(fs, r, l))
  BY DEF Triples, PairClashes
<1>2. ASSUME NEW x \in RoleClashes(fs) PROVE x = <<x[1], x[2], x[3]>>
  <2> DEFINE matches(l) == {r \in Roles(fs, "resume") : SameEmployer(fs[r], fs[l])}
             pairs(l) == PairClashes(fs, BestMatch(fs, matches(l), l), l)
             ofExport(l) == IF matches(l) = {} THEN {<<l, 0, "missing_on_resume">>} ELSE pairs(l)
             ofResume == {<<r, 0, "missing_on_linkedin">> :
                           r \in {y \in Roles(fs, "resume") :
                                   \A l \in Roles(fs, "linkedin_export") : ~SameEmployer(fs[y], fs[l])}}
             ofExports == UNION {ofExport(l) : l \in Roles(fs, "linkedin_export")}
             none == Roles(fs, "resume") = {} \/ Roles(fs, "linkedin_export") = {}
  <2>1. x \in ofExports \/ x \in ofResume
    <3>1. RoleClashes(fs) = IF none THEN {} ELSE ofExports \union ofResume
      BY DEF RoleClashes
    <3> HIDE DEF none, ofExports, ofResume
    <3> QED BY <1>2, <3>1
  <2>2. ASSUME x \in ofResume PROVE x = <<x[1], x[2], x[3]>>
    BY <2>2
  <2>3. ASSUME NEW l, x \in ofExport(l) PROVE x = <<x[1], x[2], x[3]>>
    <3>1. CASE matches(l) = {}
      BY <2>3, <3>1
    <3>2. CASE matches(l) # {}
      <4>1. x \in pairs(l)
        BY <2>3, <3>2
      <4> QED BY <1>1, <4>1 DEF Triples
    <3> QED BY <3>1, <3>2
  <2>4. ASSUME x \in ofExports PROVE \E l : x \in ofExport(l)
    <3> HIDE DEF ofExport
    <3> QED BY <2>4, Zenon
  <2> HIDE DEF ofExport, ofExports, ofResume
  <2> QED BY <2>1, <2>2, <2>3, <2>4
<1> QED BY <1>2 DEF Triples

LEMMA RaisedOnce ==
  ASSUME AskedOnce, ConflictsOK, NEW abouts, Triples(abouts), Raise(abouts)
  PROVE  AskedOnce' /\ ConflictsOK'
<1> DEFINE raised(x) == [a |-> x[1], b |-> x[2], field |-> x[3], status |-> "OPEN"]
<1>1. \A c \in conflicts' : c \in conflicts \/ \E x \in abouts : ~Known(x) /\ c = raised(x)
  BY DEF Raise
<1>2. ConflictsOK'
  BY <1>1 DEF ConflictsOK
<1>3. ASSUME NEW c \in conflicts, NEW x \in abouts, ~Known(x) PROVE <<c.a, c.b, c.field>> # <<x[1], x[2], x[3]>>
  BY <1>3 DEF Known, Triples
<1>4. ASSUME NEW c \in conflicts', NEW e \in conflicts', <<c.a, c.b, c.field>> = <<e.a, e.b, e.field>>
      PROVE  c = e
  <2>1. CASE c \in conflicts /\ e \in conflicts
    BY <1>4, <2>1 DEF AskedOnce
  <2>2. ASSUME NEW x \in abouts, ~Known(x), c = raised(x), e \in conflicts PROVE FALSE
    BY <1>3, <1>4, <2>2
  <2>3. ASSUME NEW x \in abouts, ~Known(x), e = raised(x), c \in conflicts PROVE FALSE
    BY <1>3, <1>4, <2>3
  <2>4. ASSUME NEW x \in abouts, NEW y \in abouts, c = raised(x), e = raised(y) PROVE c = e
    BY <1>4, <2>4
  <2> QED BY <1>1, <2>1, <2>2, <2>3, <2>4
<1> QED BY <1>2, <1>4 DEF AskedOnce

LEMMA ConflictsAsked == Spec => [](AskedOnce /\ ConflictsOK)
<1>1. Init => AskedOnce /\ ConflictsOK
  BY DEF Init, FactsInit, AskedOnce, ConflictsOK
<1>2. AskedOnce /\ ConflictsOK /\ [Next]_vars => AskedOnce' /\ ConflictsOK'
  <2> SUFFICES ASSUME AskedOnce, ConflictsOK, [Next]_vars PROVE AskedOnce' /\ ConflictsOK'
    OBVIOUS
  <2>1. CASE UNCHANGED conflicts
    BY <2>1 DEF AskedOnce, ConflictsOK
  <2>2. ASSUME NEW d \in Documents, IngestResume(d) PROVE AskedOnce' /\ ConflictsOK'
    <3>1. Raise(ContactClashes(facts')) \/ UNCHANGED conflicts
      BY <2>2 DEF IngestResume
    <3> QED BY <2>1, <3>1, ContactTriples, RaisedOnce
  <2>3. ASSUME NEW d \in Documents, IngestExport(d) PROVE AskedOnce' /\ ConflictsOK'
    <3>1. Raise(RoleClashes(facts'))
      BY <2>3 DEF IngestExport
    <3> QED BY <3>1, RoleTriples, RaisedOnce
  <2>4. ASSUME NEW c \in conflicts, NEW keep, Resolve(c, keep) PROVE AskedOnce' /\ ConflictsOK'
    <3>1. conflicts' = (conflicts \ {c}) \union {[c EXCEPT !.status = "RESOLVED"]}
      BY <2>4 DEF Resolve
    <3>2. [c EXCEPT !.status = "RESOLVED"] = [a |-> c.a, b |-> c.b, field |-> c.field, status |-> "RESOLVED"]
      BY DEF ConflictsOK
    <3> QED BY <3>1, <3>2 DEF AskedOnce, ConflictsOK
  <2>5. CASE Review
    <3>1. CASE AddFact \/ (\E i \in DOMAIN facts : EditFact(i))
               \/ (\E i \in DOMAIN facts, decision \in Statuses : Decide(i, decision))
      BY <2>1, <3>1 DEF AddFact, EditFact, Decide
    <3> QED BY <2>2, <2>3, <2>4, <2>5, <3>1 DEF Review, FactsNext
  <2>6. CASE ~Review
    BY <2>1, <2>6 DEF Next, vars, factVars, SaveAnswer, SetPacketAnswer, BeginPreparation, FinishPreparation,
                      WorkerApproves, Approve, Pass, Reopen
  <2> QED BY <2>5, <2>6
<1> QED BY <1>1, <1>2, PTL DEF Spec

\* No import asks the user again about the facts and the field of a conflict,
\* whatever was resolved and however often (service.py, _open_conflict_exists).
THEOREM NeverAskedAgain == Spec => []AskedOnce
BY ConflictsAsked, PTL

-----------------------------------------------------------------------------
(* Who let a packet pass *)

\* What the approval of the worker rests on: a packet without notes was calm;
\* what the user leaves for the site was approved, by the user if it blocks;
\* and no mapping makes a sensitive question a plain one.
Unattended(q) == packet.entries[q].status \in {"SUPPORTED", "USER_APPROVED"}
ReviewOK ==
  /\ packet.there /\ packet.notes = "none" => calm
  /\ packet.notes = "on_site" => packet.approved /\ approver # "worker"
  /\ packet.approved => packet.there
  /\ approver = "worker" => packet.approved /\ packet.there /\ packet.notes = "none"
  /\ \A q \in Questions :
       /\ packet.there /\ KeyOf[q] \in Sensitive => packet.entries[q].sensitive
       /\ packet.entries[q].status = "ON_SITE" => packet.approved
       /\ packet.entries[q].status = "ON_SITE" => approver # "worker" \/ ~(q \in Required \/ KeyOf[q] \in Sensitive)

LEMMA MappingKeeps ==
  ASSUME NEW e, NEW m \in Mappings(e) PROVE m.status # "ON_SITE" /\ (e.sensitive => m.sensitive)
<1>1. CASE m = [status |-> "NEEDS_REVIEW", sensitive |-> e.sensitive]
  BY <1>1
<1>2. ASSUME NEW k, m = [status |-> "USER_APPROVED", sensitive |-> e.sensitive \/ k \in Sensitive]
      PROVE  m.status # "ON_SITE" /\ (e.sensitive => m.sensitive)
  <2>1. m.status = "USER_APPROVED"
    BY <1>2
  <2>2. m.sensitive = (e.sensitive \/ k \in Sensitive)
    BY <1>2, Zenon
  <2>3. e.sensitive => m.sensitive
    BY <2>2, Zenon
  <2> QED BY <2>1, <2>3
<1> QED BY <1>1, <1>2 DEF Mappings

LEMMA DraftMarks ==
  ASSUME NEW q, NEW usable
  PROVE  DraftAnswer(q, usable).status # "ON_SITE" /\ (KeyOf[q] \in Sensitive => DraftAnswer(q, usable).sensitive)
<1>1. DraftAnswer(q, usable).status # "ON_SITE"
  BY DEF DraftAnswer
<1>2. DraftAnswer(q, usable).sensitive = (KeyOf[q] \in Sensitive)
  BY Zenon DEF DraftAnswer
<1>3. KeyOf[q] \in Sensitive => DraftAnswer(q, usable).sensitive
  BY <1>2, Zenon
<1> QED BY <1>1, <1>3

LEMMA Passable ==
  ASSUME PacketOK, ReviewOK, NEW q \in Questions, packet.there, ~Unsupported(packet), ~packet.approved,
         q \in Required \/ KeyOf[q] \in Sensitive
  PROVE  Unattended(q)
<1>1. packet.entries[q].status # "ON_SITE"
  BY DEF ReviewOK
<1>2. ~Blocking(q, packet.entries[q])
  BY <1>1 DEF Unsupported, OpenItems
<1>3. packet.entries[q].status = "NEEDS_REVIEW" => q \in Required \/ packet.entries[q].sensitive
  BY DEF ReviewOK
<1> QED BY <1>2, <1>3 DEF Blocking, Unattended

\* What the user has not seen has every required and sensitive question
\* answered, and no conflict was open when it was committed, although facts,
\* answers and the packet change while the letter is drafted and until the
\* worker approves it (pipeline.py, prepare and approve).
THEOREM WorkerApprovesClean == Spec => []AutoApprovedClean
<1>1. Init => ReviewOK /\ AutoApprovedClean
  BY DEF Init, NoPacket, NoEntries, ReviewOK, AutoApprovedClean
<1>2. PacketOK /\ PacketOK' /\ ReviewOK /\ AutoApprovedClean /\ [Next]_vars => ReviewOK' /\ AutoApprovedClean'
  <2> SUFFICES ASSUME PacketOK, PacketOK', ReviewOK, AutoApprovedClean, [Next]_vars
               PROVE  ReviewOK' /\ AutoApprovedClean'
    OBVIOUS
  <2>1. CASE UNCHANGED <<packet, calm, approver>>
    BY <2>1 DEF ReviewOK, AutoApprovedClean
  <2>2. ASSUME NEW q \in Questions, SetPacketAnswer(q) PROVE ReviewOK' /\ AutoApprovedClean'
    <3>1. PICK m \in Mappings(packet.entries[q]) : packet' = [packet EXCEPT !.entries = [@ EXCEPT ![q] = m]]
      BY <2>2 DEF SetPacketAnswer
    <3>2. m.status # "ON_SITE" /\ (packet.entries[q].sensitive => m.sensitive)
      BY <3>1, MappingKeeps
    <3>3. packet.there /\ ~packet.approved /\ UNCHANGED <<calm, approver>>
      BY <2>2 DEF SetPacketAnswer, history
    <3>4. /\ UNCHANGED <<packet.there, packet.approved, packet.notes>>
          /\ \A p \in Questions : packet'.entries[p] = IF p = q THEN m ELSE packet.entries[p]
      BY <3>1 DEF PacketOK
    <3>5. approver # "worker"
      BY <3>3 DEF ReviewOK
    <3> QED BY <3>2, <3>3, <3>4, <3>5 DEF ReviewOK, AutoApprovedClean
  <2>3. ASSUME NEW optedIn \in BOOLEAN, FinishPreparation(optedIn) PROVE ReviewOK' /\ AutoApprovedClean'
    <3>1. /\ packet'.there /\ ~packet'.approved /\ approver' = "nobody"
          /\ packet'.notes = (IF OpenConflicts \/ draft.noted THEN "open" ELSE "none")
          /\ calm' = ~OpenConflicts
          /\ packet'.entries = [q \in Questions |-> DraftAnswer(q, draft.usable)]
      BY <2>3 DEF FinishPreparation
    <3>2. ASSUME NEW q \in Questions
          PROVE  /\ packet'.entries[q].status # "ON_SITE"
                 /\ KeyOf[q] \in Sensitive => packet'.entries[q].sensitive
      BY <3>1, DraftMarks
    <3> QED BY <3>1, <3>2 DEF ReviewOK, AutoApprovedClean
  <2>4. CASE WorkerApproves
    <3>1. CASE MayPass(packet) /\ ~Unsupported(packet)
      <4>1. /\ packet' = [packet EXCEPT !.approved = TRUE] /\ packet.there
            /\ approver' = (IF packet.approved THEN approver ELSE "worker") /\ UNCHANGED calm
        BY <2>4, <3>1 DEF WorkerApproves, Pass, MayPass
      <4>2. UNCHANGED <<packet.there, packet.notes, packet.entries>> /\ packet'.approved
        BY <4>1 DEF PacketOK
      <4>3. CASE packet.approved
        BY <4>1, <4>2, <4>3 DEF ReviewOK, AutoApprovedClean
      <4>4. CASE ~packet.approved
        <5>1. packet.notes = "none"
          BY <3>1, <4>4 DEF Unsupported, ReviewOK, PacketOK
        <5>2. \A q \in Questions : q \in Required \/ KeyOf[q] \in Sensitive => Unattended(q)
          BY <3>1, <4>1, <4>4, Passable
        <5> QED BY <4>1, <4>2, <4>4, <5>1, <5>2 DEF ReviewOK, AutoApprovedClean, Unattended
      <4> QED BY <4>3, <4>4 DEF PacketOK
    <3>2. CASE ~(MayPass(packet) /\ ~Unsupported(packet))
      BY <2>1, <2>4, <3>2 DEF WorkerApproves, history
    <3> QED BY <3>1, <3>2
  <2>5. ASSUME NEW onSite \in BOOLEAN, Approve(onSite) PROVE ReviewOK' /\ AutoApprovedClean'
    <3>1. /\ packet'.approved /\ packet'.there /\ packet.there
          /\ packet'.notes = (IF packet.notes = "open" THEN "on_site" ELSE packet.notes)
          /\ approver' = (IF packet.approved THEN approver ELSE "user") /\ UNCHANGED calm
      BY <2>5 DEF Approve, Pass, MayPass, PacketOK
    <3>2. ASSUME NEW q \in Questions
          PROVE  packet'.entries[q] = IF q \in OpenItems(packet)
                                      THEN [packet.entries[q] EXCEPT !.status = "ON_SITE"] ELSE packet.entries[q]
      BY <2>5 DEF Approve, PacketOK
    <3>3. ASSUME NEW q \in Questions
          PROVE  /\ packet.entries[q].sensitive => packet'.entries[q].sensitive
                 /\ Unattended(q) => packet'.entries[q] = packet.entries[q]
      BY <3>2 DEF PacketOK, EntryOK, OpenItems, Blocking, Unattended
    <3>4. approver' = "worker" => approver = "worker" /\ packet.approved
      BY <3>1
    <3>5. packet'.notes = "on_site" => approver' # "worker"
      BY <3>1, <3>4 DEF ReviewOK, AutoApprovedClean
    <3> QED BY <3>1, <3>2, <3>3, <3>4, <3>5 DEF ReviewOK, AutoApprovedClean, Unattended
  <2>6. CASE Review \/ SaveAnswer \/ Reopen \/ (\E by \in {"worker", "user"} : BeginPreparation(by))
    BY <2>1, <2>6 DEF Review, SaveAnswer, Reopen, BeginPreparation, history
  <2>7. CASE UNCHANGED vars
    BY <2>1, <2>7 DEF vars
  <2> QED BY <2>2, <2>3, <2>4, <2>5, <2>6, <2>7 DEF Next
<1> QED BY <1>1, <1>2, PacketTyped, PTL DEF Spec

-----------------------------------------------------------------------------
(* Saving what a document says *)

\* What any fact may say, and the facts and claims that there can be.
Data ==
  (UNION {UNION {{Content[d][n].data} \union ToSet(Content[d][n].children) : n \in DOMAIN Content[d]} : d \in Documents})
  \union {t.data : t \in Typed}
FactRow == [kind : Kinds, data : Data, parent : Nat, origin : Origins, status : Statuses]
Claims == {Signature(kind, data) : kind \in Kinds, data \in Data}
Accounts == [facts : Seq(FactRow), known : SUBSET Claims]

LEMMA ContentIs ==
  ASSUME NEW d \in Documents, NEW n \in DOMAIN Content[d]
  PROVE  /\ Content[d][n].data \in Data /\ Content[d][n].kind \in Kinds
         /\ Content[d][n].children \in Seq(Data)
         /\ Content[d][n].kind = "role" \/ Content[d][n].children = <<>>
<1> DEFINE said(e, m) == {Content[e][m].data} \union ToSet(Content[e][m].children)
           c == Content[d][n].children
<1>1. said(d, n) \subseteq Data
  <2>1. said(d, n) \in {said(d, m) : m \in DOMAIN Content[d]}
    OBVIOUS
  <2>2. said(d, n) \subseteq UNION {said(d, m) : m \in DOMAIN Content[d]}
    BY <2>1, Zenon
  <2>3. UNION {said(d, m) : m \in DOMAIN Content[d]} \in {UNION {said(e, m) : m \in DOMAIN Content[e]} : e \in Documents}
    OBVIOUS
  <2>4. UNION {said(d, m) : m \in DOMAIN Content[d]} \subseteq Data
    BY <2>3, Zenon DEF Data
  <2> QED  BY <2>2, <2>4, Zenon
<1>2. c \in Seq(ToSet(c)) /\ (Content[d][n].kind = "role" \/ c = <<>>) /\ Content[d][n].kind \in Kinds
  BY DocumentsAssumption
<1>3. ToSet(c) \subseteq Data /\ Content[d][n].data \in Data
  BY <1>1
<1>4. c \in Seq(Data)
  <2>1. Len(c) \in Nat /\ c \in [1..Len(c) -> ToSet(c)]
    BY <1>2, LenProperties
  <2>2. c \in [1..Len(c) -> Data]
    BY <1>3, <2>1
  <2> QED  BY <2>1, <2>2, SeqDef
<1> QED  BY <1>2, <1>3, <1>4

LEMMA RowIs ==
  ASSUME NEW fs \in Seq(FactRow), NEW i \in DOMAIN fs
  PROVE  /\ fs[i] \in FactRow /\ i \in Nat \ {0}
         /\ fs[i].kind \in Kinds /\ fs[i].data \in Data /\ fs[i].parent \in Nat
         /\ fs[i].origin \in Origins /\ fs[i].status \in Statuses
<1>1. fs[i] \in FactRow /\ i \in Nat \ {0}
  BY ElementOfSeq, LenProperties
<1> QED  BY <1>1 DEF FactRow

\* A claim names its kind first.
LEMMA ClaimKind == ASSUME NEW kind, NEW data PROVE Signature(kind, data)[1] = kind
  BY DEF Signature

\* What saving one more finding adds.
Adds(acc, next, kind, data, origin) ==
  LET id == Len(acc.facts) + 1
  IN  /\ kind # "achievement" => Signature(kind, data) \notin acc.known
      /\ Len(next.facts) >= id
      /\ \A i \in 1..Len(acc.facts) : next.facts[i] = acc.facts[i]
      /\ next.facts[id] = NewFact(kind, data, 0, origin)
      /\ \A i \in id + 1..Len(next.facts) :
           /\ next.facts[i].kind = "achievement" /\ next.facts[i].status = "PENDING"
           /\ next.facts[i].parent = id /\ kind = "role"
      /\ acc.known \subseteq next.known
      /\ \A i \in id..Len(next.facts) : Signature(next.facts[i].kind, next.facts[i].data) \in next.known

LEMMA SaveFactIs ==
  ASSUME NEW d \in Documents, NEW n \in DOMAIN Content[d], NEW acc \in Accounts
  PROVE  LET next == SaveFact(KindOf[d], acc, Content[d][n])
         IN  /\ next \in Accounts
             /\ next = acc \/ Adds(acc, next, Content[d][n].kind, Content[d][n].data, KindOf[d])
<1> DEFINE item == Content[d][n]
           origin == KindOf[d]
           id == Len(acc.facts) + 1
           child(m) == NewFact("achievement", item.children[m], id, origin)
           children == [m \in DOMAIN item.children |-> child(m)]
           first == NewFact(item.kind, item.data, 0, origin)
           more == Append(acc.facts, first)
           sign == Signature(item.kind, item.data)
           signs == {Signature("achievement", text) : text \in ToSet(item.children)}
           next == SaveFact(origin, acc, item)
<1>1. /\ item.data \in Data /\ item.kind \in Kinds
      /\ item.children \in Seq(Data) /\ (item.kind = "role" \/ item.children = <<>>)
  BY ContentIs
<1>2. origin \in Origins
  BY DocumentsAssumption DEF Origins
<1>3. acc.facts \in Seq(FactRow) /\ acc.known \in SUBSET Claims /\ Len(acc.facts) \in Nat
  BY DEF Accounts
<1>4. first \in FactRow
  BY <1>1, <1>2 DEF NewFact, FactRow, Statuses
<1>5. \A m \in DOMAIN item.children : child(m) \in FactRow
  BY <1>1, <1>2, <1>3 DEF NewFact, FactRow, Statuses, Kinds
<1>6. children \in Seq(FactRow) /\ Len(children) = Len(item.children) /\ DOMAIN children = DOMAIN item.children
  <2>1. DOMAIN item.children = 1..Len(item.children) /\ Len(item.children) \in Nat
    BY <1>1, LenProperties
  <2> HIDE DEF child
  <2> QED  BY <1>5, <2>1
<1>7. more \in Seq(FactRow) /\ Len(more) = id /\ more[id] = first /\ \A i \in 1..Len(acc.facts) : more[i] = acc.facts[i]
  BY <1>3, <1>4, AppendProperties
<1>8. /\ more \o children \in Seq(FactRow) /\ Len(more \o children) = id + Len(children)
      /\ \A i \in 1..id : (more \o children)[i] = more[i]
      /\ \A i \in id + 1..id + Len(children) : (more \o children)[i] = children[i - id]
  BY <1>6, <1>7, ConcatProperties
<1>9. sign \in Claims /\ signs \in SUBSET Claims
  <2>1. sign \in Claims
    BY <1>1 DEF Claims
  <2>2. ToSet(item.children) \subseteq Data
    BY <1>1 DEF ToSet
  <2>3. "achievement" \in Kinds
    BY DEF Kinds
  <2> QED  BY <2>1, <2>2, <2>3 DEF Claims
<1>10. CASE sign \in acc.known /\ item.kind # "achievement"
  BY <1>10 DEF SaveFact
<1>11. CASE ~(sign \in acc.known /\ item.kind # "achievement")
  <2>1. next = [facts |-> more \o children, known |-> acc.known \union {sign} \union signs]
    BY <1>11 DEF SaveFact
  <2>2. next \in Accounts
    BY <1>3, <1>8, <1>9, <2>1 DEF Accounts
  <2>3. next.facts = more \o children /\ next.known = acc.known \union {sign} \union signs
    BY <2>1
  <2>4. \A i \in 1..Len(acc.facts) : next.facts[i] = acc.facts[i]
    BY <1>3, <1>7, <1>8, <2>3
  <2>5. next.facts[id] = first
    BY <1>3, <1>7, <1>8, <2>3
  <2>6. ASSUME NEW i \in id + 1..Len(next.facts)
        PROVE  next.facts[i] = child(i - id) /\ i - id \in DOMAIN item.children /\ item.kind = "role"
    <3>1. i - id \in 1..Len(children) /\ next.facts[i] = children[i - id]
      BY <1>3, <1>6, <1>8, <2>3
    <3>2. DOMAIN children = 1..Len(children)
      BY <1>6, LenProperties
    <3>3. next.facts[i] = child(i - id) /\ i - id \in DOMAIN item.children
      BY <1>6, <3>1, <3>2
    <3>4. item.children # <<>>
      BY <3>3
    <3> QED  BY <1>1, <3>3, <3>4
  <2>7. first.kind = item.kind /\ first.data = item.data
    BY DEF NewFact
  <2>8. \A m \in DOMAIN item.children : child(m).kind = "achievement" /\ child(m).status = "PENDING"
                                        /\ child(m).parent = id /\ child(m).data = item.children[m]
    BY DEF NewFact
  <2>9. \A m \in DOMAIN item.children : Signature("achievement", item.children[m]) \in signs
    BY <1>1 DEF ToSet
  <2>10. \A i \in id..Len(next.facts) : Signature(next.facts[i].kind, next.facts[i].data) \in next.known
    <3>1. Signature(next.facts[id].kind, next.facts[id].data) \in next.known
      BY <2>3, <2>5, <2>7
    <3>2. ASSUME NEW i \in id + 1..Len(next.facts) PROVE Signature(next.facts[i].kind, next.facts[i].data) \in next.known
      <4>1. next.facts[i].kind = "achievement" /\ next.facts[i].data = item.children[i - id]
        BY <2>6, <2>8
      <4>2. Signature("achievement", item.children[i - id]) \in signs
        BY <2>6, <2>9
      <4> QED  BY <2>3, <4>1, <4>2
    <3> HIDE DEF next, id
    <3>3. id \in Nat
      BY <1>3 DEF id
    <3> QED  BY <3>1, <3>2, <3>3
  <2>11. Len(next.facts) >= id
    BY <1>3, <1>6, <1>8, <2>3
  <2>12. Adds(acc, next, item.kind, item.data, origin)
    <3> HIDE DEF next, child, children, more, signs
    <3>1. \A i \in id + 1..Len(next.facts) :
            /\ next.facts[i].kind = "achievement" /\ next.facts[i].status = "PENDING"
            /\ next.facts[i].parent = id /\ item.kind = "role"
      <4> HIDE DEF id
      <4> QED  BY <2>6, <2>8
    <3>2. acc.known \subseteq next.known
      BY <2>3
    <3>3. item.kind # "achievement" => sign \notin acc.known
      BY <1>11
    <3> HIDE DEF item, origin
    <3> QED  BY <2>4, <2>5, <2>10, <2>11, <3>1, <3>2, <3>3, Zenon DEF Adds
  <2> QED  BY <2>2, <2>12
<1> QED  BY <1>10, <1>11

\* What the rows satisfy besides their types: a parent comes first and is a role.
ParentsOK(fs) ==
  \A i \in DOMAIN fs : fs[i].parent \in 0..i - 1 /\ (fs[i].parent # 0 => fs[fs[i].parent].kind = "role")

\* The rows to review say each claim once, except what the user has touched.
SaidOnce(fs) ==
  \A i, j \in (DOMAIN fs) \ touched :
    i # j /\ fs[i].kind # "achievement" => Signature(fs[i].kind, fs[i].data) # Signature(fs[j].kind, fs[j].data)

\* What holds while the findings of a document are saved.
AccountOK(acc) ==
  /\ acc \in Accounts
  /\ Len(acc.facts) >= Len(facts)
  /\ \A i \in 1..Len(facts) : acc.facts[i] = facts[i]
  /\ \A i \in Len(facts) + 1..Len(acc.facts) : acc.facts[i].status = "PENDING"
  /\ ParentsOK(acc.facts)
  /\ \A i \in (DOMAIN acc.facts) \ touched : Signature(acc.facts[i].kind, acc.facts[i].data) \in acc.known
  /\ SaidOnce(acc.facts)

LEMMA AddsOK ==
  ASSUME facts \in Seq(FactRow), NEW acc, AccountOK(acc), NEW next \in Accounts, NEW kind, NEW data, NEW origin,
         Adds(acc, next, kind, data, origin)
  PROVE  AccountOK(next)
<1> DEFINE id == Len(acc.facts) + 1
           sign(fs, i) == Signature(fs[i].kind, fs[i].data)
<1>1. /\ acc.facts \in Seq(FactRow) /\ next.facts \in Seq(FactRow)
      /\ Len(acc.facts) \in Nat /\ Len(next.facts) \in Nat /\ Len(facts) \in Nat
      /\ DOMAIN acc.facts = 1..Len(acc.facts) /\ DOMAIN next.facts = 1..Len(next.facts)
  BY DEF Accounts, AccountOK
<1>2. /\ kind # "achievement" => Signature(kind, data) \notin acc.known
      /\ Len(next.facts) >= id
      /\ \A i \in 1..Len(acc.facts) : next.facts[i] = acc.facts[i]
      /\ next.facts[id].kind = kind /\ next.facts[id].data = data
      /\ next.facts[id].parent = 0 /\ next.facts[id].status = "PENDING"
      /\ \A i \in id + 1..Len(next.facts) :
           /\ next.facts[i].kind = "achievement" /\ next.facts[i].status = "PENDING"
           /\ next.facts[i].parent = id /\ kind = "role"
      /\ acc.known \subseteq next.known
      /\ \A i \in id..Len(next.facts) : sign(next.facts, i) \in next.known
  BY DEF Adds, NewFact
<1>3. /\ Len(acc.facts) >= Len(facts)
      /\ \A i \in 1..Len(facts) : acc.facts[i] = facts[i]
      /\ \A i \in Len(facts) + 1..Len(acc.facts) : acc.facts[i].status = "PENDING"
      /\ ParentsOK(acc.facts)
      /\ \A i \in (DOMAIN acc.facts) \ touched : sign(acc.facts, i) \in acc.known
      /\ SaidOnce(acc.facts)
  BY DEF AccountOK
<1>4. \A i \in DOMAIN next.facts : i \in 1..Len(acc.facts) \/ i = id \/ i \in id + 1..Len(next.facts)
  BY <1>1
<1> HIDE DEF sign
<1>5. \A i \in 1..Len(acc.facts) : sign(next.facts, i) = sign(acc.facts, i)
  BY <1>2 DEF sign
<1>6. sign(next.facts, id) = Signature(kind, data)
  BY <1>2 DEF sign
<1>7. \A i \in DOMAIN next.facts : sign(next.facts, i)[1] = next.facts[i].kind
  BY ClaimKind DEF sign
<1>8. ParentsOK(next.facts)
  <2>1. ASSUME NEW i \in 1..Len(acc.facts)
        PROVE  next.facts[i].parent \in 0..i - 1
               /\ (next.facts[i].parent # 0 => next.facts[next.facts[i].parent].kind = "role")
    <3>1. acc.facts[i].parent \in 0..i - 1 /\ (acc.facts[i].parent # 0 => acc.facts[acc.facts[i].parent].kind = "role")
      BY <1>1, <1>3 DEF ParentsOK
    <3>2. acc.facts[i].parent # 0 => acc.facts[i].parent \in 1..Len(acc.facts)
      BY <1>1, <3>1
    <3> QED  BY <1>2, <3>1, <3>2
  <2>2. next.facts[id].parent \in 0..id - 1
    BY <1>1, <1>2
  <2>3. ASSUME NEW i \in id + 1..Len(next.facts)
        PROVE  next.facts[i].parent \in 0..i - 1 /\ next.facts[next.facts[i].parent].kind = "role"
    BY <1>1, <1>2
  <2> HIDE DEF id
  <2> QED  BY <1>2, <1>4, <2>1, <2>2, <2>3 DEF ParentsOK
<1>9. \A i \in (DOMAIN next.facts) \ touched : sign(next.facts, i) \in next.known
  <2>1. \A i \in (1..Len(acc.facts)) \ touched : sign(next.facts, i) \in next.known
    BY <1>1, <1>2, <1>3, <1>5
  <2>2. \A i \in DOMAIN next.facts : i \in 1..Len(acc.facts) \/ i \in id..Len(next.facts)
    BY <1>1
  <2> QED  BY <1>2, <2>1, <2>2
<1>10. \A i \in Len(facts) + 1..Len(next.facts) : next.facts[i].status = "PENDING"
  <2>1. \A i \in Len(facts) + 1..Len(next.facts) :
          i \in Len(facts) + 1..Len(acc.facts) \/ i = id \/ i \in id + 1..Len(next.facts)
    BY <1>1
  <2>2. \A i \in Len(facts) + 1..Len(acc.facts) : next.facts[i].status = "PENDING"
    BY <1>1, <1>2, <1>3
  <2> QED  BY <1>2, <2>1, <2>2
<1>11. ASSUME NEW i \in (DOMAIN next.facts) \ touched, NEW j \in (DOMAIN next.facts) \ touched,
              i # j, next.facts[i].kind # "achievement"
       PROVE  sign(next.facts, i) # sign(next.facts, j)
  <2>1. i \in 1..Len(acc.facts) \/ i = id
    BY <1>2, <1>4, <1>11
  <2>2. CASE j \in id + 1..Len(next.facts)
    <3>1. next.facts[j].kind = "achievement"
      BY <1>2, <2>2
    <3> QED  BY <1>7, <1>11, <3>1
  <2>3. CASE i \in 1..Len(acc.facts) /\ j \in 1..Len(acc.facts)
    BY <1>1, <1>2, <1>3, <1>5, <1>11, <2>3 DEF SaidOnce, sign
  <2>4. CASE i = id /\ j \in 1..Len(acc.facts)
    <3>1. sign(acc.facts, j) \in acc.known
      BY <1>1, <1>3, <1>11, <2>4
    <3>2. Signature(kind, data) \notin acc.known
      BY <1>2, <1>11, <2>4
    <3> QED  BY <1>5, <1>6, <2>4, <3>1, <3>2
  <2>5. CASE i \in 1..Len(acc.facts) /\ j = id
    <3>1. sign(acc.facts, i) \in acc.known
      BY <1>1, <1>3, <1>11, <2>5
    <3>2. CASE kind = "achievement"
      <4>1. sign(next.facts, i)[1] # sign(next.facts, j)[1]
        BY <1>2, <1>7, <1>11, <2>5, <3>2
      <4> QED  BY <4>1
    <3>3. CASE kind # "achievement"
      BY <1>2, <1>5, <1>6, <2>5, <3>1, <3>3
    <3> QED  BY <3>2, <3>3
  <2> QED  BY <1>4, <1>11, <2>1, <2>2, <2>3, <2>4, <2>5
<1>12. SaidOnce(next.facts)
  BY <1>11 DEF SaidOnce, sign
<1>13. Len(next.facts) >= Len(facts) /\ \A i \in 1..Len(facts) : next.facts[i] = facts[i]
  BY <1>1, <1>2, <1>3
<1> QED  BY <1>8, <1>9, <1>10, <1>12, <1>13 DEF AccountOK, sign

\* All that a document says is saved: a run of accounts, each OK.
LEMMA SavedIs ==
  ASSUME facts \in Seq(FactRow), NEW d \in Documents, NEW base, AccountOK(base)
  PROVE  AccountOK(FoldLeft(LAMBDA acc, item : SaveFact(KindOf[d], acc, item), base, Content[d]))
<1> DEFINE q == Content[d]
           n == Len(q)
           Save(acc, k) == SaveFact(KindOf[d], acc, q[k])
<1>1. n \in Nat /\ DOMAIN q = 1..n
  BY DocumentsAssumption, LenProperties
<1>2. \A k \in 1..n, acc \in Accounts : Save(acc, k) \in Accounts
  BY <1>1, SaveFactIs
<1>3. \A k \in 1..n, acc \in Accounts :
        Save(acc, k) = acc \/ Adds(acc, Save(acc, k), q[k].kind, q[k].data, KindOf[d])
  BY <1>1, SaveFactIs
<1> HIDE DEF n, Save
<1>4. \A k \in 0..n : 1..k \in SUBSET (1..n)
  BY <1>1
<1> DEFINE F == [p \in (1..n) \X Accounts |-> Save(p[2], p[1])]
<1>5. PICK g \in [SUBSET (1..n) -> Accounts] : Iterates(g, n, base, F)
  <2>1. \A k \in 1..n, acc \in Accounts : F[<<k, acc>>] \in Accounts
    BY <1>2
  <2>2. base \in Accounts
    BY DEF AccountOK
  <2> HIDE DEF F
  <2> QED  BY <1>1, <2>1, <2>2, FoldExists
<1>6. ASSUME NEW s \in SUBSET (1..n)
      PROVE  g[s] = IF s = {} THEN base ELSE Save(g[s \ {Max(s)}], Max(s))
  <2>1. CASE s = {}
    BY <1>5, <2>1 DEF Iterates
  <2>2. CASE s # {}
    <3>1. Max(s) \in 1..n
      BY <1>1, <2>2, Largest
    <3>2. s \ {Max(s)} \in SUBSET (1..n)
      OBVIOUS
    <3>3. g[s \ {Max(s)}] \in Accounts
      BY <3>2
    <3>4. g[s] = F[<<Max(s), g[s \ {Max(s)}]>>]
      BY <1>5, <2>2 DEF Iterates
    <3> QED  BY <2>2, <3>1, <3>3, <3>4
  <2> QED  BY <2>1, <2>2
<1> DEFINE Folds(h) == h = [s \in SUBSET DOMAIN q |-> IF s = {} THEN base ELSE Save(h[s \ {Max(s)}], Max(s))]
           fold == FoldLeft(LAMBDA acc, item : SaveFact(KindOf[d], acc, item), base, q)
<1>7. Folds(g)
  <2>1. g = [s \in SUBSET (1..n) |-> g[s]]
    OBVIOUS
  <2> QED  BY <1>1, <1>6, <2>1, Zenon
<1>8. \E h : Folds(h) /\ fold = h[DOMAIN q]
  <2>1. fold = LET iter == CHOOSE h : Folds(h) IN iter[DOMAIN q]
    BY DEF FoldLeft, MapThenFoldSet, Save
  <2> HIDE DEF Folds, fold
  <2> QED  BY <1>7, <2>1, Zenon
<1>9. PICK h : Folds(h) /\ fold = h[DOMAIN q]
  BY <1>8, Zenon
<1> HIDE DEF fold
<1>10. \A s \in SUBSET (1..n) : h[s] = IF s = {} THEN base ELSE Save(h[s \ {Max(s)}], Max(s))
  BY <1>1, <1>9
<1> HIDE DEF Folds, q
<1> DEFINE T == {k \in Nat : k <= n => AccountOK(h[1..k])}
<1>11. 0 \in T
  <2>1. 1..0 = {} /\ 1..0 \in SUBSET (1..n)
    OBVIOUS
  <2>2. h[1..0] = base
    BY <1>10, <2>1
  <2> QED  BY <2>2
<1>12. ASSUME NEW k \in Nat, k \in T PROVE k + 1 \in T
  <2> SUFFICES ASSUME k + 1 <= n PROVE AccountOK(h[1..k + 1])
    OBVIOUS
  <2>1. AccountOK(h[1..k]) /\ k + 1 \in 1..n
    BY <1>1, <1>12
  <2>2. k + 1 \in 0..n /\ (1..k + 1) \ {k + 1} = 1..k /\ k + 1 \in 1..k + 1
    BY <1>1
  <2>3. 1..k + 1 \in SUBSET (1..n) /\ 1..k + 1 # {}
    BY <1>4, <2>2
  <2>4. Max(1..k + 1) = k + 1
    BY <2>2, Ending
  <2>5. h[1..k + 1] = Save(h[1..k], k + 1)
    BY <1>10, <2>2, <2>3, <2>4
  <2>6. h[1..k] \in Accounts
    BY <2>1 DEF AccountOK
  <2>7. CASE h[1..k + 1] = h[1..k]
    BY <2>1, <2>7
  <2>8. CASE Adds(h[1..k], h[1..k + 1], q[k + 1].kind, q[k + 1].data, KindOf[d])
    BY <1>2, <2>1, <2>5, <2>6, <2>8, AddsOK
  <2> QED  BY <1>3, <2>1, <2>5, <2>6, <2>7, <2>8
<1>13. Nat \subseteq T
  <2> HIDE DEF T
  <2> QED  BY <1>11, <1>12, SetInduction
<1>14. AccountOK(h[1..n])
  BY <1>1, <1>13
<1>15. h[1..n] = fold
  BY <1>1, <1>9
<1> QED  BY <1>14, <1>15 DEF fold, q

\* What holds of facts and conflicts between requests; a fact the user has not
\* touched is not rejected, so its claim is known.
FactsInv ==
  /\ FactsOK /\ ConflictsOK
  /\ facts \in Seq(FactRow)
  /\ \A i \in (DOMAIN facts) \ touched : facts[i].status # "REJECTED"
  /\ NoDoubleClaims

\* Rows that hold the old ones and more of them.
Grown(fs) ==
  /\ fs \in Seq(FactRow) /\ ParentsOK(fs) /\ SaidOnce(fs)
  /\ Len(fs) >= Len(facts) /\ \A i \in 1..Len(facts) : fs[i] = facts[i]
  /\ \A i \in (DOMAIN fs) \ touched : fs[i].status # "REJECTED"

LEMMA SavedRows ==
  ASSUME FactsInv, NEW d \in Documents
  PROVE  Grown(Saved(d))
<1> DEFINE base == [facts |-> facts, known |-> Signatures(facts)]
           end == FoldLeft(LAMBDA acc, item : SaveFact(KindOf[d], acc, item), base, Content[d])
<1>1. facts \in Seq(FactRow) /\ DOMAIN facts = 1..Len(facts) /\ Len(facts) \in Nat
  BY LenProperties DEF FactsInv
<1>2. base \in Accounts
  <2>1. \A i \in DOMAIN facts : facts[i].kind \in Kinds /\ facts[i].data \in Data
    <3>1. \A i \in DOMAIN facts : facts[i] \in FactRow
      BY <1>1, ElementOfSeq
    <3> QED  BY <3>1 DEF FactRow
  <2>2. Signatures(facts) \in SUBSET Claims
    BY <2>1 DEF Signatures, Live, Claims
  <2> QED  BY <1>1, <2>2 DEF Accounts
<1>3. base.facts = facts /\ base.known = Signatures(facts)
  OBVIOUS
<1>4. \A i \in (DOMAIN facts) \ touched : Signature(facts[i].kind, facts[i].data) \in Signatures(facts)
  <2>1. \A i \in (DOMAIN facts) \ touched : i \in Live(facts)
    BY DEF FactsInv, Live
  <2> QED  BY <2>1 DEF Signatures
<1>5. ParentsOK(facts) /\ SaidOnce(facts)
  BY DEF FactsInv, FactsOK, ParentsOK, SaidOnce, NoDoubleClaims
<1> HIDE DEF base
<1>6. AccountOK(base)
  BY <1>1, <1>2, <1>3, <1>4, <1>5 DEF AccountOK
<1>7. AccountOK(end)
  BY <1>1, <1>6, SavedIs
<1>8. Saved(d) = end.facts
  BY DEF Saved, base
<1> HIDE DEF end
<1>9. end.facts \in Seq(FactRow) /\ DOMAIN end.facts = 1..Len(end.facts) /\ Len(end.facts) \in Nat
  BY <1>7 DEF AccountOK, Accounts
<1>10. ASSUME NEW i \in (DOMAIN end.facts) \ touched PROVE end.facts[i].status # "REJECTED"
  <2>1. CASE i \in 1..Len(facts)
    BY <1>1, <1>7, <2>1 DEF AccountOK, FactsInv
  <2>2. CASE i \in Len(facts) + 1..Len(end.facts)
    BY <1>7, <2>2 DEF AccountOK
  <2> QED  BY <1>1, <1>9, <2>1, <2>2
<1> QED  BY <1>7, <1>8, <1>9, <1>10 DEF Grown, AccountOK

-----------------------------------------------------------------------------
(* Differences between documents *)

Matches(fs, l) == {r \in Roles(fs, "resume") : SameEmployer(fs[r], fs[l])}

LEMMA BestIs ==
  ASSUME NEW fs \in Seq(FactRow), NEW l, Matches(fs, l) # {}
  PROVE  BestMatch(fs, Matches(fs, l), l) \in Matches(fs, l)
<1> DEFINE titled == {r \in Matches(fs, l) : fs[r].data.title = fs[l].data.title}
           from == IF titled # {} THEN titled ELSE Matches(fs, l)
<1>1. from # {} /\ from \subseteq Matches(fs, l)
  OBVIOUS
<1>2. Matches(fs, l) \in SUBSET Nat
  <2>1. DOMAIN fs = 1..Len(fs) /\ Len(fs) \in Nat
    BY LenProperties
  <2> QED  BY <2>1 DEF Matches, Roles, Live
<1>3. BestMatch(fs, Matches(fs, l), l) = CHOOSE r \in from : \A s \in from : r <= s
  BY DEF BestMatch
<1> HIDE DEF from
<1>4. \E r \in from : \A s \in from : r <= s
  BY <1>1, <1>2, Least
<1>5. BestMatch(fs, Matches(fs, l), l) \in from
  BY <1>3, <1>4, Zenon
<1> QED  BY <1>1, <1>5

\* What an import raises, role by role.
OfExport(fs, l) ==
  IF Matches(fs, l) = {} THEN {<<l, 0, "missing_on_resume">>}
  ELSE PairClashes(fs, BestMatch(fs, Matches(fs, l), l), l)
OfResume(fs) ==
  {<<r, 0, "missing_on_linkedin">> :
     r \in {x \in Roles(fs, "resume") : \A l \in Roles(fs, "linkedin_export") : ~SameEmployer(fs[x], fs[l])}}

LEMMA RoleClashesAre ==
  ASSUME NEW fs
  PROVE  /\ Roles(fs, "resume") = {} \/ Roles(fs, "linkedin_export") = {} => RoleClashes(fs) = {}
         /\ Roles(fs, "resume") # {} /\ Roles(fs, "linkedin_export") # {} =>
              RoleClashes(fs) = (UNION {OfExport(fs, l) : l \in Roles(fs, "linkedin_export")}) \union OfResume(fs)
BY Zenon DEF RoleClashes, OfExport, OfResume, Matches

\* Everything raised is about facts that there are.
About(abouts, fs) == \A x \in abouts : x[1] \in DOMAIN fs /\ x[2] \in {0} \union DOMAIN fs

LEMMA ContactAbout == ASSUME NEW fs PROVE About(ContactClashes(fs), fs)
  BY DEF About, ContactClashes

LEMMA RolesAbout == ASSUME NEW fs \in Seq(FactRow) PROVE About(RoleClashes(fs), fs)
<1> DEFINE fine(x) == x[1] \in DOMAIN fs /\ x[2] \in {0} \union DOMAIN fs
<1>1. ASSUME NEW l \in Roles(fs, "linkedin_export"), NEW x \in OfExport(fs, l) PROVE fine(x)
  <2>1. l \in DOMAIN fs
    BY DEF Roles, Live
  <2>2. CASE Matches(fs, l) = {}
    BY <1>1, <2>1, <2>2 DEF OfExport
  <2>3. CASE Matches(fs, l) # {}
    <3>1. BestMatch(fs, Matches(fs, l), l) \in DOMAIN fs
      BY <2>3, BestIs DEF Matches, Roles, Live
    <3> QED  BY <1>1, <2>1, <2>3, <3>1 DEF OfExport, PairClashes
  <2> QED  BY <2>2, <2>3
<1>2. ASSUME NEW x \in OfResume(fs) PROVE fine(x)
  BY <1>2 DEF OfResume, Roles, Live
<1>3. ASSUME NEW x \in RoleClashes(fs)
      PROVE  x \in OfResume(fs) \/ \E l \in Roles(fs, "linkedin_export") : x \in OfExport(fs, l)
  <2>1. RoleClashes(fs) = (UNION {OfExport(fs, l) : l \in Roles(fs, "linkedin_export")}) \union OfResume(fs)
    BY <1>3, RoleClashesAre
  <2> QED  BY <1>3, <2>1, Zenon
<1> HIDE DEF fine
<1>4. \A x \in RoleClashes(fs) : fine(x)
  BY <1>1, <1>2, <1>3
<1> QED  BY <1>4 DEF About, fine

\* Raised conflicts refer to facts that there are.
ConflictsRefer(fs) ==
  \A c \in conflicts : c.a \in DOMAIN fs /\ c.b \in {0} \union DOMAIN fs /\ c.status \in {"OPEN", "RESOLVED"}

LEMMA RaisedRefer ==
  ASSUME ConflictsRefer(facts), DOMAIN facts \subseteq DOMAIN facts', NEW abouts, About(abouts, facts'), Raise(abouts)
  PROVE  ConflictsRefer(facts)'
<1>1. \A c \in conflicts' :
        c \in conflicts \/ \E x \in abouts : c = [a |-> x[1], b |-> x[2], field |-> x[3], status |-> "OPEN"]
  BY DEF Raise
<1> QED  BY <1>1 DEF ConflictsRefer, About

\* The parts of the invariant, by what they speak of.
FactsRows ==
  /\ facts \in Seq(FactRow) /\ ParentsOK(facts)
  /\ touched \subseteq DOMAIN facts
  /\ \A i \in (DOMAIN facts) \ touched : facts[i].status # "REJECTED"
  /\ SaidOnce(facts)
DocumentsTyped == documents \in [Documents -> {"none", "parsed", "failed"}]

LEMMA FactsParts == FactsInv <=> FactsRows /\ DocumentsTyped /\ ConflictsRefer(facts) /\ ConflictsOK
<1>1. facts \in Seq(FactRow) =>
        \A i \in DOMAIN facts : facts[i].kind \in Kinds /\ facts[i].origin \in Origins /\ facts[i].status \in Statuses
  BY RowIs
<1> QED  BY <1>1 DEF FactsInv, FactsOK, FactsRows, DocumentsTyped, ConflictsRefer, ParentsOK, SaidOnce, NoDoubleClaims

\* Rows may change in their data, where the user has touched them, and in their
\* status, where they are touched when that becomes REJECTED.
LEMMA ChangedRows ==
  ASSUME FactsRows, facts' \in Seq(FactRow), DOMAIN facts' = DOMAIN facts,
         touched \subseteq touched', touched' \subseteq DOMAIN facts,
         \A i \in DOMAIN facts :
           /\ facts'[i].kind = facts[i].kind /\ facts'[i].parent = facts[i].parent
           /\ i \notin touched' => facts'[i].data = facts[i].data /\ facts'[i].status # "REJECTED"
  PROVE  FactsRows'
<1>1. ParentsOK(facts')
  <2>1. Len(facts) \in Nat /\ DOMAIN facts = 1..Len(facts)
    BY LenProperties DEF FactsRows
  <2>2. ASSUME NEW i \in DOMAIN facts
        PROVE  facts'[i].parent \in 0..i - 1 /\ (facts'[i].parent # 0 => facts'[facts'[i].parent].kind = "role")
    <3>1. facts[i].parent \in 0..i - 1 /\ (facts[i].parent # 0 => facts[facts[i].parent].kind = "role")
      BY DEF FactsRows, ParentsOK
    <3>2. facts[i].parent # 0 => facts[i].parent \in DOMAIN facts
      BY <2>1, <3>1
    <3> QED  BY <3>1, <3>2
  <2> QED  BY <2>2 DEF ParentsOK
<1>2. SaidOnce(facts)'
  BY DEF FactsRows, SaidOnce
<1> QED  BY <1>1, <1>2 DEF FactsRows, ParentsOK

LEMMA GrownRows ==
  ASSUME FactsRows, NEW fs, Grown(fs), facts' = fs, UNCHANGED touched
  PROVE  FactsRows' /\ DOMAIN facts \subseteq DOMAIN facts'
<1>1. /\ DOMAIN facts = 1..Len(facts) /\ Len(facts) \in Nat
      /\ DOMAIN fs = 1..Len(fs) /\ Len(fs) \in Nat /\ Len(fs) >= Len(facts)
  BY LenProperties DEF Grown, FactsRows
<1>2. DOMAIN facts \subseteq DOMAIN facts'
  BY <1>1
<1> QED  BY <1>2 DEF FactsRows, Grown, SaidOnce

\* A request keeps the invariant, and takes no fact away.
LEMMA FactsStep ==
  ASSUME FactsInv, ConflictsOK', FactsNext
  PROVE  FactsInv' /\ DOMAIN facts \subseteq DOMAIN facts'
<1>1. FactsRows /\ DocumentsTyped /\ ConflictsRefer(facts) /\ ConflictsOK
  BY FactsParts
<1>2. /\ facts \in Seq(FactRow) /\ DOMAIN facts = 1..Len(facts) /\ Len(facts) \in Nat
      /\ \A i \in DOMAIN facts : facts[i] \in FactRow
  BY <1>1, LenProperties, ElementOfSeq DEF FactsRows
<1>3. SUFFICES FactsRows' /\ DocumentsTyped' /\ ConflictsRefer(facts)' /\ DOMAIN facts \subseteq DOMAIN facts'
  BY FactsParts, PTL
<1>4. ASSUME NEW d \in Documents, facts' = Saved(d), UNCHANGED touched
      PROVE  FactsRows' /\ DOMAIN facts \subseteq DOMAIN facts' /\ facts' \in Seq(FactRow)
  BY <1>1, <1>4, SavedRows, GrownRows DEF Grown
<1>5. \A d \in Documents, how \in {"parsed", "failed"} :
        documents' = [documents EXCEPT ![d] = how] => DocumentsTyped'
  BY <1>1 DEF DocumentsTyped
<1>6. ASSUME NEW d \in Documents, IngestResume(d)
      PROVE  FactsRows' /\ DocumentsTyped' /\ ConflictsRefer(facts)' /\ DOMAIN facts \subseteq DOMAIN facts'
  <2>1. CASE facts' = Saved(d) /\ documents' = [documents EXCEPT ![d] = "parsed"] /\ Raise(ContactClashes(facts'))
    <3>1. UNCHANGED touched
      BY <1>6 DEF IngestResume
    <3>2. About(ContactClashes(facts'), facts')
      BY ContactAbout
    <3> QED  BY <1>1, <1>4, <1>5, <2>1, <3>1, <3>2, RaisedRefer
  <2>2. CASE documents' = [documents EXCEPT ![d] = "failed"] /\ UNCHANGED <<facts, conflicts>>
    <3>1. UNCHANGED touched
      BY <1>6 DEF IngestResume
    <3>2. FactsRows' /\ DOMAIN facts \subseteq DOMAIN facts'
      BY <1>1, <2>2, <3>1 DEF FactsRows, ParentsOK, SaidOnce
    <3>3. ConflictsRefer(facts)'
      BY <1>1, <2>2 DEF ConflictsRefer
    <3> QED  BY <1>5, <2>2, <3>2, <3>3
  <2> QED  BY <1>6, <2>1, <2>2 DEF IngestResume
<1>7. ASSUME NEW d \in Documents, IngestExport(d)
      PROVE  FactsRows' /\ DocumentsTyped' /\ ConflictsRefer(facts)' /\ DOMAIN facts \subseteq DOMAIN facts'
  <2>1. facts' = Saved(d) /\ documents' = [documents EXCEPT ![d] = "parsed"] /\ Raise(RoleClashes(facts'))
        /\ UNCHANGED touched
    BY <1>7 DEF IngestExport
  <2>2. FactsRows' /\ DOMAIN facts \subseteq DOMAIN facts' /\ facts' \in Seq(FactRow)
    BY <1>4, <2>1
  <2>3. About(RoleClashes(facts'), facts')
    BY <2>2, RolesAbout
  <2> QED  BY <1>1, <1>5, <2>1, <2>2, <2>3, RaisedRefer
<1>8. \A t \in Typed : t.kind \in Kinds /\ t.data \in Data
  BY TypedAssumption DEF Data
<1>9. CASE AddFact
  <2>1. PICK t \in Typed, p \in {0} \union {i \in DOMAIN facts : facts[i].kind = "role"} :
          facts' = Append(facts, NewFact(t.kind, t.data, p, "user"))
    BY <1>9 DEF AddFact
  <2>2. touched' = touched \union {Len(facts')} /\ UNCHANGED <<documents, conflicts>>
    BY <1>9 DEF AddFact
  <2> DEFINE new == NewFact(t.kind, t.data, p, "user")
  <2>3. p \in 0..Len(facts) /\ (p # 0 => p \in DOMAIN facts /\ facts[p].kind = "role")
    BY <1>2
  <2>4. new \in FactRow /\ new.parent = p
    BY <1>2, <1>8, <2>3 DEF NewFact, FactRow, Origins, Statuses
  <2> HIDE DEF new
  <2>5. /\ facts' \in Seq(FactRow) /\ Len(facts') = Len(facts) + 1 /\ DOMAIN facts' = 1..Len(facts) + 1
        /\ facts'[Len(facts) + 1] = new /\ \A i \in DOMAIN facts : facts'[i] = facts[i]
    BY <1>2, <2>1, <2>4, AppendProperties, LenProperties DEF new
  <2>6. ParentsOK(facts')
    <3>1. ASSUME NEW i \in DOMAIN facts
          PROVE  facts'[i].parent \in 0..i - 1 /\ (facts'[i].parent # 0 => facts'[facts'[i].parent].kind = "role")
      <4>1. facts[i].parent \in 0..i - 1 /\ (facts[i].parent # 0 => facts[facts[i].parent].kind = "role")
        BY <1>1 DEF FactsRows, ParentsOK
      <4>2. facts[i].parent # 0 => facts[i].parent \in DOMAIN facts
        BY <1>2, <4>1
      <4> QED  BY <2>5, <4>1, <4>2
    <3>2. p \in 0..(Len(facts) + 1) - 1 /\ (p # 0 => facts'[p].kind = "role")
      BY <1>2, <2>3, <2>5
    <3>3. \A i \in DOMAIN facts' : i \in DOMAIN facts \/ i = Len(facts) + 1
      BY <1>2, <2>5
    <3> QED  BY <2>4, <2>5, <3>1, <3>2, <3>3 DEF ParentsOK
  <2>7. DOMAIN facts \subseteq DOMAIN facts' /\ Len(facts) + 1 \in DOMAIN facts'
    BY <1>2, <2>5
  <2>8. \A i \in (DOMAIN facts') \ touched' : i \in (DOMAIN facts) \ touched
    BY <1>2, <2>2, <2>5
  <2>9. FactsRows'
    BY <1>1, <2>2, <2>5, <2>6, <2>7, <2>8 DEF FactsRows, SaidOnce
  <2>10. ConflictsRefer(facts)'
    BY <1>1, <2>2, <2>7 DEF ConflictsRefer
  <2> QED  BY <1>1, <2>2, <2>7, <2>9, <2>10 DEF DocumentsTyped
<1>10. ASSUME NEW i \in DOMAIN facts, EditFact(i) PROVE FactsRows' /\ UNCHANGED <<documents, conflicts>> /\ DOMAIN facts' = DOMAIN facts
  <2>1. PICK t \in Typed : t.kind = facts[i].kind /\ facts' = [facts EXCEPT ![i].data = t.data]
    BY <1>10 DEF EditFact
  <2>2. touched' = touched \union {i} /\ UNCHANGED <<documents, conflicts>>
    BY <1>10 DEF EditFact
  <2>3. [facts[i] EXCEPT !.data = t.data] \in FactRow
    BY <1>2, <1>8 DEF FactRow
  <2>4. facts' \in Seq(FactRow) /\ DOMAIN facts' = DOMAIN facts
    BY <1>2, <2>1, <2>3, ExceptSeq
  <2>5. \A j \in DOMAIN facts : j # i => facts'[j] = facts[j]
    BY <2>1
  <2>6. facts'[i].kind = facts[i].kind /\ facts'[i].parent = facts[i].parent
    BY <1>2, <2>1 DEF FactRow
  <2> QED  BY <1>1, <2>2, <2>4, <2>5, <2>6, ChangedRows DEF FactsRows
<1>11. ASSUME NEW i \in DOMAIN facts, NEW decision \in Statuses, Decide(i, decision)
       PROVE  FactsRows' /\ UNCHANGED <<documents, conflicts>> /\ DOMAIN facts' = DOMAIN facts
  <2>1. facts' = [facts EXCEPT ![i].status = decision] /\ UNCHANGED <<documents, conflicts>>
        /\ touched' = IF decision = "REJECTED" THEN touched \union {i} ELSE touched
    BY <1>11 DEF Decide
  <2>2. [facts[i] EXCEPT !.status = decision] \in FactRow
    BY <1>2 DEF FactRow
  <2>3. facts' \in Seq(FactRow) /\ DOMAIN facts' = DOMAIN facts
    BY <1>2, <2>1, <2>2, ExceptSeq
  <2>4. \A j \in DOMAIN facts : j # i => facts'[j] = facts[j]
    BY <2>1
  <2>5. /\ facts'[i].kind = facts[i].kind /\ facts'[i].parent = facts[i].parent
        /\ facts'[i].data = facts[i].data /\ facts'[i].status = decision
    BY <1>2, <2>1 DEF FactRow
  <2> QED  BY <1>1, <2>1, <2>3, <2>4, <2>5, ChangedRows DEF FactsRows
<1>12. ASSUME NEW c \in conflicts, NEW keep \in {"a", "b", "both", "neither"}, Resolve(c, keep)
       PROVE  FactsRows' /\ UNCHANGED documents /\ DOMAIN facts' = DOMAIN facts /\ ConflictsRefer(facts)'
  <2>1. /\ facts' = [i \in DOMAIN facts |->
                       IF i \in Dropped(c, keep) THEN [facts[i] EXCEPT !.status = "REJECTED"] ELSE facts[i]]
        /\ conflicts' = (conflicts \ {c}) \union {[c EXCEPT !.status = "RESOLVED"]}
        /\ touched' = touched \union Dropped(c, keep) /\ UNCHANGED documents
    BY <1>12 DEF Resolve
  <2>2. Dropped(c, keep) \subseteq DOMAIN facts
    BY <1>1 DEF Dropped, ConflictsRefer
  <2>3. \A i \in DOMAIN facts : [facts[i] EXCEPT !.status = "REJECTED"] \in FactRow
    BY <1>2 DEF FactRow, Statuses
  <2>4. facts' \in Seq(FactRow) /\ DOMAIN facts' = DOMAIN facts
    <3>1. \A i \in DOMAIN facts : facts'[i] \in FactRow
      BY <1>2, <2>1, <2>3
    <3>2. facts' \in [1..Len(facts) -> FactRow]
      BY <1>2, <2>1, <3>1
    <3> QED  BY <1>2, <3>2, SeqDef
  <2>5. \A i \in DOMAIN facts : facts'[i].kind = facts[i].kind /\ facts'[i].parent = facts[i].parent
    BY <1>2, <2>1 DEF FactRow
  <2>6. \A i \in DOMAIN facts : i \notin touched' => facts'[i] = facts[i]
    BY <2>1
  <2>7. FactsRows'
    BY <1>1, <2>1, <2>2, <2>4, <2>5, <2>6, ChangedRows DEF FactsRows
  <2>8. ConflictsRefer(facts)'
    <3>1. [c EXCEPT !.status = "RESOLVED"] = [a |-> c.a, b |-> c.b, field |-> c.field, status |-> "RESOLVED"]
      BY <1>1 DEF ConflictsOK
    <3> QED  BY <1>1, <2>1, <2>4, <3>1 DEF ConflictsRefer
  <2> QED  BY <2>1, <2>4, <2>7, <2>8
<1>13. UNCHANGED <<documents, conflicts>> /\ DOMAIN facts' = DOMAIN facts => DocumentsTyped' /\ ConflictsRefer(facts)'
  BY <1>1 DEF DocumentsTyped, ConflictsRefer
<1>14. UNCHANGED documents => DocumentsTyped'
  BY <1>1 DEF DocumentsTyped
<1> QED  BY <1>6, <1>7, <1>9, <1>10, <1>11, <1>12, <1>13, <1>14 DEF FactsNext

-----------------------------------------------------------------------------
(* Type correctness, and each claim once *)

\* The types of what is not in Facts.
SessionOK ==
  /\ app \in {"MATCHED", "PREPARED", "NEEDS_REVIEW", "APPROVED"}
  /\ packet \in [there : BOOLEAN, cites : SUBSET (DOMAIN facts), entries : [Questions -> Entry],
                 notes : {"none", "open", "on_site"}, approved : BOOLEAN]
  /\ app # "MATCHED" => packet.there
  /\ answers \subseteq Answers
  /\ pc \in {"idle", "letter", "approve"}
  /\ draft \in [by : {"nobody", "worker", "user"}, from : Preparable, cites : SUBSET (DOMAIN facts),
                 noted : BOOLEAN, usable : SUBSET Answers]
  /\ calm \in BOOLEAN /\ approver \in {"nobody", "worker", "user"}
  /\ withdrawn \subseteq DOMAIN facts

LEMMA TypeParts == TypeOK <=> FactsOK /\ SessionOK
  BY DEF TypeOK, SessionOK

LEMMA CitedAreFacts ==
  ASSUME NEW fs
  PROVE  /\ \A S \in Resumes(fs) : S \subseteq DOMAIN fs
         /\ \A S \in Letters(fs) : S \subseteq DOMAIN fs
<1>1. \A kinds : OfKind(fs, kinds) \subseteq DOMAIN fs
  BY DEF OfKind, Approved
<1>2. ASSUME NEW S \in Resumes(fs) PROVE S \subseteq DOMAIN fs
  <2>1. \A p : Under(fs, p) \subseteq DOMAIN fs
    BY <1>1 DEF Under
  <2>2. (UNION {Under(fs, r) : r \in ApprovedRoles(fs)}) \subseteq DOMAIN fs
    BY <2>1
  <2>3. PICK listed \in SUBSET UNION {Under(fs, r) : r \in ApprovedRoles(fs)} :
          S = OfKind(fs, {"role", "skill", "education", "certification", "project"})
                \union {i \in OfKind(fs, {"summary"}) : \A j \in OfKind(fs, {"summary"}) : i <= j}
                \union Under(fs, 0) \union listed
    BY <1>2 DEF Resumes
  <2> QED  BY <1>1, <2>1, <2>2, <2>3
<1>3. ASSUME NEW S \in Letters(fs) PROVE S \subseteq DOMAIN fs
  <2>1. Evidence(fs) \subseteq DOMAIN fs /\ LatestRoles(fs) \subseteq DOMAIN fs
    BY <1>1 DEF Evidence, LatestRoles, ApprovedRoles
  <2>2. Offered(fs) \subseteq DOMAIN fs
    BY <1>1, <2>1 DEF Offered
  <2>3. \A T \in TemplateLetters(fs) : T \subseteq DOMAIN fs
    BY <1>1, <2>1 DEF TemplateLetters
  <2> QED  BY <1>3, <2>1, <2>2, <2>3 DEF Letters
<1> QED  BY <1>2, <1>3

LEMMA DraftEntry == ASSUME NEW q \in Questions, NEW usable PROVE DraftAnswer(q, usable) \in Entry
<1>1. DraftAnswer(q, usable) =
        [status |-> DraftAnswer(q, usable).status, sensitive |-> DraftAnswer(q, usable).sensitive]
  BY DEF DraftAnswer
<1>2. DraftAnswer(q, usable).status \in
        {"SUPPORTED", "USER_APPROVED", "NEEDS_REVIEW", "SENSITIVE_MISSING", "ATTESTATION", "ON_SITE"}
  BY DEF DraftAnswer
<1>3. DraftAnswer(q, usable).sensitive \in BOOLEAN
  <2>1. DraftAnswer(q, usable).sensitive = (KeyOf[q] \in Sensitive)
    BY Zenon DEF DraftAnswer
  <2> QED  BY <2>1
<1> QED  BY <1>1, <1>2, <1>3 DEF Entry

LEMMA MappingEntry == ASSUME NEW e \in Entry, NEW m \in Mappings(e) PROVE m \in Entry
<1>1. e.sensitive \in BOOLEAN
  BY DEF Entry
<1>2. CASE m = [status |-> "NEEDS_REVIEW", sensitive |-> e.sensitive]
  BY <1>1, <1>2 DEF Entry
<1>3. ASSUME NEW k, m = [status |-> "USER_APPROVED", sensitive |-> e.sensitive \/ k \in Sensitive]
      PROVE  m \in Entry
  <2> DEFINE b == e.sensitive \/ k \in Sensitive
  <2>1. b \in BOOLEAN
    OBVIOUS
  <2>2. m = [status |-> "USER_APPROVED", sensitive |-> b]
    BY <1>3
  <2> HIDE DEF b
  <2> QED  BY <2>1, <2>2 DEF Entry
<1> QED  BY <1>2, <1>3 DEF Mappings

\* Sessions stay typed while facts only grow.
LEMMA SessionGrows ==
  ASSUME SessionOK, DOMAIN facts \subseteq DOMAIN facts',
         UNCHANGED <<app, packet, answers, pc, draft, calm, approver>>, withdrawn' \subseteq DOMAIN facts'
  PROVE  SessionOK'
BY DEF SessionOK

LEMMA SessionStep ==
  ASSUME SessionOK, FactsInv, FactsInv', [Next]_vars, Review => DOMAIN facts \subseteq DOMAIN facts'
  PROVE  SessionOK'
<1> USE DEF SessionOK
<1>1. CASE Review
  <2>1. withdrawn' \subseteq DOMAIN facts'
    BY <1>1 DEF Review, Approved
  <2> QED  BY <1>1, <2>1, SessionGrows DEF Review
<1>2. CASE SaveAnswer
  BY <1>2 DEF SaveAnswer, factVars, history
<1>3. ASSUME NEW q \in Questions, SetPacketAnswer(q) PROVE SessionOK'
  <2>1. PICK m \in Mappings(packet.entries[q]) : packet' = [packet EXCEPT !.entries = [@ EXCEPT ![q] = m]]
    BY <1>3 DEF SetPacketAnswer
  <2>2. m \in Entry
    BY <2>1, MappingEntry
  <2>3. UNCHANGED <<facts, app, answers, pc, draft, calm, approver, withdrawn>>
    BY <1>3 DEF SetPacketAnswer, factVars, history
  <2>4. /\ packet' \in [there : BOOLEAN, cites : SUBSET (DOMAIN facts), entries : [Questions -> Entry],
                        notes : {"none", "open", "on_site"}, approved : BOOLEAN]
        /\ packet'.there = packet.there
    BY <2>1, <2>2
  <2> QED  BY <2>3, <2>4
<1>4. ASSUME NEW by \in {"worker", "user"}, BeginPreparation(by) PROVE SessionOK'
  <2>1. PICK resume \in Resumes(facts), letter \in Letters(facts), flagged \in BOOLEAN :
          draft' = [by |-> by, from |-> app, cites |-> resume \union letter,
                    noted |-> flagged \/ Approved(facts) = {}, usable |-> answers]
    BY <1>4 DEF BeginPreparation
  <2>2. resume \union letter \subseteq DOMAIN facts
    BY CitedAreFacts
  <2>3. app \in Preparable
    BY <1>4 DEF BeginPreparation, Preparable
  <2> DEFINE noted == flagged \/ Approved(facts) = {}
  <2>4. noted \in BOOLEAN
    OBVIOUS
  <2>5. draft' = [by |-> by, from |-> app, cites |-> resume \union letter, noted |-> noted, usable |-> answers]
    BY <2>1
  <2> HIDE DEF noted
  <2>6. draft' \in [by : {"nobody", "worker", "user"}, from : Preparable, cites : SUBSET (DOMAIN facts),
                    noted : BOOLEAN, usable : SUBSET Answers]
    BY <2>2, <2>3, <2>4, <2>5
  <2> QED  BY <1>4, <2>6 DEF BeginPreparation, factVars, history
<1>5. ASSUME NEW optedIn \in BOOLEAN, FinishPreparation(optedIn) PROVE SessionOK'
  <2> DEFINE entries == [q \in Questions |-> DraftAnswer(q, draft.usable)]
             notes == IF OpenConflicts \/ draft.noted THEN "open" ELSE "none"
  <2>1. packet' = [there |-> TRUE, cites |-> draft.cites, approved |-> FALSE, entries |-> entries, notes |-> notes]
    BY <1>5 DEF FinishPreparation
  <2>2. entries \in [Questions -> Entry] /\ notes \in {"none", "open", "on_site"} /\ draft.cites \subseteq DOMAIN facts
    BY DraftEntry
  <2> HIDE DEF entries, notes
  <2>3. /\ packet' \in [there : BOOLEAN, cites : SUBSET (DOMAIN facts), entries : [Questions -> Entry],
                        notes : {"none", "open", "on_site"}, approved : BOOLEAN]
        /\ packet'.there
    BY <2>1, <2>2
  <2>4. app' \in {"MATCHED", "PREPARED", "NEEDS_REVIEW", "APPROVED"} /\ pc' \in {"idle", "letter", "approve"}
    BY <1>5 DEF FinishPreparation
  <2>5. /\ draft' = NoDraft /\ calm' = ~OpenConflicts /\ approver' = "nobody" /\ withdrawn' = {}
        /\ UNCHANGED <<facts, answers>>
    BY <1>5 DEF FinishPreparation, factVars
  <2>6. NoDraft \in [by : {"nobody", "worker", "user"}, from : Preparable, cites : SUBSET (DOMAIN facts),
                    noted : BOOLEAN, usable : SUBSET Answers]
    BY DEF NoDraft, Preparable
  <2>7. calm' \in BOOLEAN
    BY <2>5
  <2> QED  BY <2>3, <2>4, <2>5, <2>6, <2>7
<1>6. CASE WorkerApproves
  <2>1. CASE MayPass(packet) /\ ~Unsupported(packet)
    <3>1. /\ packet' = [packet EXCEPT !.approved = TRUE] /\ app' = "APPROVED" /\ pc' = "idle"
          /\ approver' = (IF packet.approved THEN approver ELSE "worker") /\ withdrawn' = {}
          /\ UNCHANGED <<facts, answers, draft, calm>> /\ packet.there
      BY <1>6, <2>1 DEF WorkerApproves, Pass, MayPass, factVars
    <3> QED  BY <3>1
  <2>2. CASE ~(MayPass(packet) /\ ~Unsupported(packet))
    BY <1>6, <2>2 DEF WorkerApproves, factVars, history
  <2> QED  BY <2>1, <2>2
<1>7. ASSUME NEW onSite \in BOOLEAN, Approve(onSite) PROVE SessionOK'
  <2> DEFINE entry(q) == IF q \in OpenItems(packet) THEN [packet.entries[q] EXCEPT !.status = "ON_SITE"]
                         ELSE packet.entries[q]
  <2>1. /\ packet' = [packet EXCEPT !.approved = TRUE, !.entries = [q \in Questions |-> entry(q)],
                                    !.notes = IF @ = "open" THEN "on_site" ELSE @]
        /\ app' = "APPROVED" /\ packet.there
        /\ approver' = (IF packet.approved THEN approver ELSE "user") /\ withdrawn' = {}
        /\ UNCHANGED <<facts, answers, draft, calm, pc>>
    BY <1>7 DEF Approve, Pass, MayPass, factVars
  <2>2. \A q \in Questions : entry(q) \in Entry
    BY DEF Entry
  <2> HIDE DEF entry
  <2> QED  BY <2>1, <2>2
<1>8. CASE Reopen
  BY <1>8 DEF Reopen, factVars
<1>9. CASE UNCHANGED vars
  BY <1>9 DEF vars
<1> QED  BY <1>1, <1>2, <1>3, <1>4, <1>5, <1>6, <1>7, <1>8, <1>9 DEF Next

LEMMA PacketsInvHolds == Spec => [](FactsInv /\ SessionOK)
<1>1. Init => FactsInv /\ SessionOK
  <2> SUFFICES ASSUME Init PROVE FactsInv /\ SessionOK
    OBVIOUS
  <2>1. facts = <<>> /\ DOMAIN facts = {} /\ facts \in Seq(FactRow)
    BY DEF Init, FactsInit
  <2>2. FactsRows /\ DocumentsTyped /\ ConflictsRefer(facts) /\ ConflictsOK
    BY <2>1 DEF Init, FactsInit, FactsRows, ParentsOK, SaidOnce, DocumentsTyped, ConflictsRefer, ConflictsOK
  <2>3. SessionOK
    BY <2>1 DEF Init, SessionOK, NoPacket, NoEntries, NoDraft, Entry, Preparable
  <2> QED  BY <2>2, <2>3, FactsParts
<1>2. FactsInv /\ SessionOK /\ ConflictsOK' /\ [Next]_vars => FactsInv' /\ SessionOK'
  <2> SUFFICES ASSUME FactsInv, SessionOK, ConflictsOK', [Next]_vars PROVE FactsInv' /\ SessionOK'
    OBVIOUS
  <2>1. CASE Review
    <3>1. FactsInv' /\ DOMAIN facts \subseteq DOMAIN facts'
      BY <2>1, FactsStep DEF Review
    <3> QED  BY <3>1, SessionStep
  <2>2. CASE ~Review
    <3>1. UNCHANGED factVars
      BY <2>2 DEF Next, vars, factVars, SaveAnswer, SetPacketAnswer, BeginPreparation, FinishPreparation,
                  WorkerApproves, Approve, Pass, Reopen
    <3>2. FactsInv'
      BY <3>1 DEF factVars, FactsInv, FactsOK, ConflictsOK, NoDoubleClaims
    <3> QED  BY <2>2, <3>2, SessionStep
  <2> QED  BY <2>1, <2>2
<1> QED  BY <1>1, <1>2, ConflictsAsked, PTL DEF Spec

\* Facts, conflicts, the packet and what a preparation has loaded are well
\* typed, and refer to facts that there are: a parent to an earlier role, a
\* conflict, a packet and a draft to rows that no request takes away.
THEOREM PacketsTyped == Spec => []TypeOK
BY PacketsInvHolds, TypeParts, PTL DEF FactsInv

\* _save_fact: whatever documents say, and in whatever order they come, a
\* claim is up for review once, unless the user touched one of the two.
THEOREM ClaimedOnce == Spec => []NoDoubleClaims
BY PacketsInvHolds, PTL DEF FactsInv

\* detect_role_conflicts: an import of an export leaves no role of either side
\* that the other side does not confirm without a conflict that names it.
THEOREM DifferencesShow == Spec => NoSilentDifference
<1>1. FactsInv /\ FactsInv' /\ [Next]_vars =>
       [ \A d \in Documents :
        documents'[d] # documents[d] /\ KindOf[d] = "linkedin_export"
          /\ Roles(facts', "resume") # {} /\ Roles(facts', "linkedin_export") # {} =>
        /\ \A l \in Roles(facts', "linkedin_export") :
             Backed(facts', l) \/ \E c \in conflicts' : l \in {c.a, c.b}
        /\ \A r \in Roles(facts', "resume") :
             \/ \E l \in Roles(facts', "linkedin_export") : SameEmployer(facts'[r], facts'[l])
             \/ \E c \in conflicts' : r \in {c.a, c.b} ]_factVars
  <2> SUFFICES ASSUME FactsInv, FactsInv', [Next]_vars, NEW d \in Documents,
                      documents'[d] # documents[d], KindOf[d] = "linkedin_export",
                      Roles(facts', "resume") # {}, Roles(facts', "linkedin_export") # {}
               PROVE  /\ \A l \in Roles(facts', "linkedin_export") :
                           Backed(facts', l) \/ \E c \in conflicts' : l \in {c.a, c.b}
                      /\ \A r \in Roles(facts', "resume") :
                           \/ \E l \in Roles(facts', "linkedin_export") : SameEmployer(facts'[r], facts'[l])
                           \/ \E c \in conflicts' : r \in {c.a, c.b}
    OBVIOUS
  <2>1. Raise(RoleClashes(facts'))
    <3>1. FactsNext
      BY DEF Next, vars, factVars, Review, SaveAnswer, SetPacketAnswer, BeginPreparation, FinishPreparation,
             WorkerApproves, Approve, Pass, Reopen
    <3>2. \E e \in Documents : IngestResume(e) \/ IngestExport(e)
      BY <3>1 DEF FactsNext, AddFact, EditFact, Decide, Resolve
    <3>3. ASSUME NEW e \in Documents, IngestResume(e) PROVE FALSE
      <4>1. KindOf[e] = "resume" /\ \E how \in {"parsed", "failed"} : documents' = [documents EXCEPT ![e] = how]
        BY <3>3 DEF IngestResume
      <4> QED  BY <4>1
    <3> QED  BY <3>2, <3>3 DEF IngestExport
  <2>2. facts' \in Seq(FactRow)
    BY DEF FactsInv
  <2>3. ASSUME NEW x \in RoleClashes(facts') PROVE \E c \in conflicts' : c.a = x[1] /\ c.b = x[2]
    <3>1. CASE Known(x)
      <4>1. PICK c \in conflicts : <<c.a, c.b, c.field>> = x
        BY <3>1 DEF Known
      <4>2. c \in conflicts'
        BY <2>1 DEF Raise
      <4>3. c.a = x[1] /\ c.b = x[2]
        BY <4>1
      <4> QED  BY <4>2, <4>3
    <3>2. CASE ~Known(x)
      <4> DEFINE c == [a |-> x[1], b |-> x[2], field |-> x[3], status |-> "OPEN"]
      <4>1. c \in conflicts'
        BY <2>1, <2>3, <3>2 DEF Raise
      <4> QED  BY <4>1
    <3> QED  BY <3>1, <3>2
  <2>4. RoleClashes(facts') =
          (UNION {OfExport(facts', l) : l \in Roles(facts', "linkedin_export")}) \union OfResume(facts')
    BY RoleClashesAre
  <2>5. ASSUME NEW l \in Roles(facts', "linkedin_export")
        PROVE  Backed(facts', l) \/ \E c \in conflicts' : l \in {c.a, c.b}
    <3>1. \A x \in OfExport(facts', l) : x \in RoleClashes(facts')
      BY <2>4, <2>5, Zenon
    <3>2. CASE Matches(facts', l) = {}
      <4>1. <<l, 0, "missing_on_resume">> \in RoleClashes(facts')
        BY <3>1, <3>2 DEF OfExport
      <4> QED  BY <2>3, <4>1
    <3>3. CASE Matches(facts', l) # {}
      <4> DEFINE r == BestMatch(facts', Matches(facts', l), l)
      <4>1. r \in Matches(facts', l)
        BY <2>2, <3>3, BestIs
      <4>2. \A x \in PairClashes(facts', r, l) : x \in RoleClashes(facts')
        BY <3>1, <3>3 DEF OfExport
      <4> HIDE DEF r
      <4>3. ASSUME NEW field, <<r, l, field>> \in PairClashes(facts', r, l)
            PROVE  \E c \in conflicts' : l \in {c.a, c.b}
        BY <2>3, <4>2, <4>3
      <4>4. CASE \A field : <<r, l, field>> \notin PairClashes(facts', r, l)
        <5>1. /\ facts'[r].data.title = facts'[l].data.title
              /\ Agree(facts'[r].data.start, facts'[l].data.start) /\ Agree(facts'[r].data.end, facts'[l].data.end)
          BY <4>4 DEF PairClashes
        <5> QED  BY <4>1, <5>1 DEF Backed, Matches
      <4> QED  BY <4>3, <4>4
    <3> QED  BY <3>2, <3>3
  <2>6. ASSUME NEW r \in Roles(facts', "resume"),
               \A l \in Roles(facts', "linkedin_export") : ~SameEmployer(facts'[r], facts'[l])
        PROVE  \E c \in conflicts' : r \in {c.a, c.b}
    <3>1. <<r, 0, "missing_on_linkedin">> \in OfResume(facts')
      BY <2>6 DEF OfResume
    <3>2. <<r, 0, "missing_on_linkedin">> \in RoleClashes(facts')
      BY <2>4, <3>1
    <3> QED  BY <2>3, <3>2
  <2> QED  BY <2>5, <2>6
<1> QED  BY <1>1, PacketsInvHolds, PTL DEF Spec, NoSilentDifference

=============================================================================
