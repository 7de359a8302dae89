---------------------------- MODULE VaultProofs -----------------------------
(***************************************************************************)
(* What holds of the file store and the rows that name its files, for any    *)
(* number of requests, documents and profiles, and for a process that may    *)
(* be killed between any two steps.                                         *)
(***************************************************************************)
EXTENDS Vault, TLAPS

-----------------------------------------------------------------------------
(* Types *)

\* What a session has at hand at each step.
Storing == {"put", "write", "cut", "look", "insert"}
Holding == {"parse", "putText", "writeText", "cutText", "commit"}

AtHand ==
  \A s \in Sessions :
    /\ pc[s] \in {"idle", "create"} => mem[s] = Blank
    /\ pc[s] \in Storing \union Holding => mem[s].content \in Contents
    /\ pc[s] = "parse" => mem[s].content \in Resumes
    /\ pc[s] \in Storing \union {"parse"} => mem[s].text = None
    /\ pc[s] \in {"putText", "writeText", "cutText"} => mem[s].text \in Texts
    /\ pc[s] = "listed" => mem[s].left = FilesOf(mem[s].rows)

LEMMA BlankTyped == Blank \in Memory
  BY DEF Blank, Memory

LEMMA NamedTyped == ASSUME NEW rows \in SUBSET Row PROVE FilesOf(rows) \subseteq Files
  BY DEF FilesOf, Named, Row, Files

LEMMA StepTyped ==
  ASSUME TypeOK, AtHand, NEW s \in Sessions, Step(s) \/ Begin(s) \/ Die(s)
  PROVE  TypeOK' /\ AtHand'
<1> USE DEF TypeOK, AtHand, Storing, Holding, Goto, Remain, End, rowVars, States
<1>1. CASE BeginProfile(s)
  BY <1>1 DEF BeginProfile
<1>2. CASE CreateProfile(s)
  BY <1>2, BlankTyped DEF CreateProfile
<1>3. CASE Upload(s) \/ Prepare(s)
  <2>1. PICK c \in Contents : Load(s, c)
    BY <1>3 DEF Upload, Prepare, Contents
  <2>2. PICK p \in profiles : mem' = [mem EXCEPT ![s].profile = p, ![s].content = c]
    BY <2>1 DEF Load
  <2>3. mem[s].text = None /\ mem'[s].text = None
    BY <2>1, <2>2 DEF Load, Blank, Memory
  <2>4. TypeOK'
    <3>1. p \in Nat
      BY <2>2
    <3>2. [mem[s] EXCEPT !.profile = p, !.content = c] \in Memory
      BY <3>1 DEF Memory
    <3>3. mem' = [mem EXCEPT ![s] = [mem[s] EXCEPT !.profile = p, !.content = c]]
      BY <2>2 DEF Memory
    <3>4. mem' \in [Sessions -> Memory]
      BY <3>2, <3>3
    <3> QED BY <2>1, <3>4 DEF Load
  <2>5. AtHand'
    BY <2>1, <2>2, <2>3 DEF Load, Memory
  <2> QED BY <2>4, <2>5
<1>4. ASSUME NEW f \in Files, NEW writing \in States, NEW after \in States,
             Store(s, f, writing, after), UNCHANGED <<rowVars, mem, asked>>
      PROVE  TypeOK'
  BY <1>4 DEF Store
<1>5. CASE Put(s)
  <2>1. mem[s].content \in Files
    BY <1>5 DEF Put, Files
  <2>2. TypeOK'
    BY <1>4, <1>5, <2>1 DEF Put
  <2> QED BY <1>5, <2>2 DEF Put, Store
<1>6. CASE PutText(s)
  <2>1. mem[s].text \in Files
    BY <1>6 DEF PutText, Files
  <2>2. TypeOK'
    BY <1>4, <1>6, <2>1 DEF PutText
  <2> QED BY <1>6, <2>2 DEF PutText, Store
<1>7. CASE Written(s)
  BY <1>7 DEF Written
<1>8. CASE WrittenNowhere(s)
  BY <1>8 DEF WrittenNowhere
<1>9. CASE Look(s)
  BY <1>9, BlankTyped DEF Look
<1>10. CASE Insert(s)
  BY <1>10 DEF Insert
<1>11. CASE Parse(s)
  BY <1>11, TextAssumption DEF Parse, Memory
<1>12. CASE Commit(s)
  BY <1>12, BlankTyped DEF Commit, Memory, Row
<1>13. CASE List(s)
  <2>1. PICK p \in profiles :
          mem' = [mem EXCEPT ![s].profile = p, ![s].rows = RowsOf(p), ![s].left = ToRemove(RowsOf(p))]
    BY <1>13 DEF List
  <2>2. RowsOf(p) \in SUBSET Row /\ ToRemove(RowsOf(p)) = FilesOf(RowsOf(p))
    BY DEF RowsOf, ToRemove
  <2>3. FilesOf(RowsOf(p)) \subseteq Files
    BY <2>2, NamedTyped
  <2>4. mem' \in [Sessions -> Memory] /\ mem'[s].left = FilesOf(mem'[s].rows)
    <3>1. p \in Nat
      BY <2>1
    <3> HIDE DEF AtHand
    <3> QED BY <2>1, <2>2, <2>3, <3>1 DEF Memory
  <2>5. asked' \subseteq Nat
    BY <1>13 DEF List
  <2>6. TypeOK'
    BY <1>13, <2>4, <2>5 DEF List
  <2>7. AtHand'
    BY <1>13, <2>1, <2>4 DEF List
  <2> QED BY <2>6, <2>7
<1>14. CASE Erase(s)
  BY <1>14 DEF Erase
<1>15. CASE Unlink(s)
  <2>1. PICK f \in mem[s].left :
          /\ files' = [files EXCEPT ![f] = "none"]
          /\ mem' = [mem EXCEPT ![s].left = @ \ {f}]
          /\ pc' = [t \in Sessions |->
                      IF Writing(t, f) THEN IF pc[t] = "write" THEN "cut" ELSE "cutText" ELSE pc[t]]
          /\ lost' = lost \union ({f} \intersect (FilesOf(docs) \union UNION {Trusted(t) : t \in Sessions}))
          /\ torn' = torn \ {f} /\ stray' = stray \ {f}
    BY <1>15 DEF Unlink
  <2>2. f \in Files
    BY <2>1 DEF Memory
  <2>3. mem' \in [Sessions -> Memory]
    BY <2>1 DEF Memory
  <2>4. lost' \subseteq Files
    BY <2>1, <2>2
  <2>5. files' \in [Files -> {"none", "part", "whole"}] /\ pc' \in [Sessions -> States]
    BY <2>1, <2>2
  <2>6. TypeOK'
    BY <1>15, <2>1, <2>3, <2>4, <2>5 DEF Unlink
  <2>7. \A t \in Sessions :
          /\ mem'[t].content = mem[t].content /\ mem'[t].text = mem[t].text
          /\ t # s => mem'[t] = mem[t]
    BY <2>1 DEF Memory
  <2>8. \A t \in Sessions :
          \/ pc'[t] = pc[t]
          \/ pc[t] = "write" /\ pc'[t] = "cut"
          \/ pc[t] = "writeText" /\ pc'[t] = "cutText"
    BY <2>1 DEF Writing
  <2>9. pc'[s] = "removing"
    BY <1>15, <2>8 DEF Unlink
  <2>10. AtHand'
    BY <2>7, <2>8, <2>9
  <2> QED BY <2>6, <2>10
<1>16. CASE Finish(s)
  <2>1. FilesOf(RowsOf(mem[s].profile) \ mem[s].rows) \subseteq Files
    BY NamedTyped DEF RowsOf
  <2>2. TypeOK'
    BY <1>16, <2>1, BlankTyped DEF Finish
  <2>3. AtHand'
    BY <1>16 DEF Finish
  <2> QED BY <2>2, <2>3
<1>17. CASE Refused(s) \/ Die(s)
  <2>1. Abandon(s)
    BY <1>17 DEF Refused, Die
  <2>2. Held(s) \subseteq Files
    <3>1. mem[s].rows \in SUBSET Row
      BY DEF Memory
    <3>2. FilesOf(mem[s].rows) \subseteq Files
      BY <3>1, NamedTyped
    <3>3. {mem[s].content, mem[s].text} \ {None} \subseteq Files
      BY DEF Memory, Files
    <3> QED BY <3>2, <3>3 DEF Held
  <2>3. TypeOK'
    BY <2>1, <2>2, BlankTyped DEF Abandon
  <2>4. AtHand'
    BY <2>1 DEF Abandon
  <2> QED BY <2>3, <2>4
<1> QED BY <1>1, <1>2, <1>3, <1>5, <1>6, <1>7, <1>8, <1>9, <1>10, <1>11, <1>12, <1>13, <1>14,
           <1>15, <1>16, <1>17 DEF Step, Begin

LEMMA TypesInv == Spec => [](TypeOK /\ AtHand)
<1>1. Init => TypeOK /\ AtHand
  BY BlankTyped DEF Init, TypeOK, AtHand, States, Storing, Holding
<1>2. TypeOK /\ AtHand /\ [Next]_vars => TypeOK' /\ AtHand'
  <2> SUFFICES ASSUME TypeOK, AtHand, [Next]_vars PROVE TypeOK' /\ AtHand'
    OBVIOUS
  <2>1. CASE UNCHANGED vars
    BY <2>1 DEF vars, TypeOK, AtHand
  <2>2. CASE Next
    BY <2>2, StepTyped DEF Next
  <2> QED BY <2>1, <2>2
<1> QED BY <1>1, <1>2, PTL DEF Spec

\* Every row, file and session keeps its type, whoever is killed where.
THEOREM TypesKept == Spec => []TypeOK
  BY TypesInv, PTL
-----------------------------------------------------------------------------
(* Profiles *)

\* What a step leaves alone.
LEMMA Others ==
  ASSUME TypeOK, NEW s \in Sessions, Step(s) \/ Begin(s) \/ Die(s), ~Unlink(s),
         NEW t \in Sessions, t # s
  PROVE  pc'[t] = pc[t] /\ mem'[t] = mem[t]
  BY DEF TypeOK, Step, Begin, Die, Refused, Abandon, CreateProfile, BeginProfile, Upload, Prepare, Load,
         List, Put, PutText, Store, Written, WrittenNowhere, Look, Insert, Parse, Commit, Erase, Finish,
         Remain, Goto, End

\* Removing a file moves only those who were writing it.
Cut(t) ==
  \/ pc[t] = "write" /\ pc'[t] = "cut"
  \/ pc[t] = "writeText" /\ pc'[t] = "cutText"

LEMMA Unlinked ==
  ASSUME TypeOK, NEW s \in Sessions, Unlink(s)
  PROVE  \E f \in Files :
           /\ f \in mem[s].left
           /\ files' = [files EXCEPT ![f] = "none"]
           /\ mem' = [mem EXCEPT ![s].left = @ \ {f}]
           /\ \A t \in Sessions : ~Writing(t, f) => pc'[t] = pc[t]
           /\ \A t \in Sessions : Writing(t, f) => Cut(t)
           /\ lost' = lost \union ({f} \intersect (FilesOf(docs) \union (UNION {Trusted(t) : t \in Sessions})))
           /\ torn' = torn \ {f} /\ stray' = stray \ {f}
<1>1. PICK f \in mem[s].left :
        /\ files' = [files EXCEPT ![f] = "none"]
        /\ mem' = [mem EXCEPT ![s].left = @ \ {f}]
        /\ pc' = [t \in Sessions |->
                    IF Writing(t, f) THEN IF pc[t] = "write" THEN "cut" ELSE "cutText" ELSE pc[t]]
        /\ lost' = lost \union ({f} \intersect (FilesOf(docs) \union (UNION {Trusted(t) : t \in Sessions})))
        /\ torn' = torn \ {f} /\ stray' = stray \ {f}
  BY DEF Unlink
<1>2. f \in Files
  BY <1>1 DEF TypeOK, Memory
<1>3. \A t \in Sessions : ~Writing(t, f) => pc'[t] = pc[t]
  BY <1>1, Zenon
<1>4. \A t \in Sessions : Writing(t, f) => Cut(t)
  BY <1>1 DEF Writing, Cut
<1> QED BY <1>1, <1>2, <1>3, <1>4

\* Rows and sessions refer to the profiles of their time, and no later one is
\* used while an earlier one is there.
Oldest ==
  /\ \A row \in docs : row.profile \in profiles /\ \A p \in profiles : row.profile <= p
  /\ \A s \in Sessions : mem[s].profile <= lastId /\ \A p \in profiles : mem[s].profile <= p

\* The foreign key: a document that is inserted has its profile, and nobody is
\* deleting it.
Locks ==
  \A s \in Sessions : pc[s] \in Holding =>
    /\ mem[s].profile \in profiles
    /\ \A t \in Sessions : pc[t] = "removing" => mem[t].profile # mem[s].profile

LEMMA OldestStep ==
  ASSUME TypeOK, AtHand, Oldest, Locks, NEW s \in Sessions, Step(s) \/ Begin(s) \/ Die(s)
  PROVE  Oldest'
<1> USE DEF TypeOK
<1> DEFINE Steady == /\ UNCHANGED rowVars
                     /\ \A t \in Sessions : mem'[t].profile \in {mem[t].profile, 0}
<1>1. CASE Steady
  BY <1>1 DEF Oldest, rowVars
<1> HIDE DEF Steady
<1>2. CASE CreateProfile(s)
  <2>1. \A t \in Sessions : mem'[t].profile \in {mem[t].profile, 0}
    BY <1>2 DEF CreateProfile, End, Blank
  <2>2. \A p \in profiles : p \in Nat /\ p <= lastId
    OBVIOUS
  <2> QED BY <1>2, <2>1, <2>2 DEF CreateProfile, Oldest, Memory
<1>3. CASE Upload(s) \/ Prepare(s) \/ List(s)
  <2>1. PICK q \in profiles : Current(q) /\ mem'[s].profile = q
    <3>1. CASE Upload(s) \/ Prepare(s)
      <4>1. PICK c \in Contents : Load(s, c)
        BY <3>1 DEF Upload, Prepare, Contents
      <4>2. PICK q \in profiles : Current(q) /\ mem' = [mem EXCEPT ![s].profile = q, ![s].content = c]
        BY <4>1 DEF Load
      <4> QED BY <4>2 DEF Memory
    <3>2. CASE List(s)
      <4>1. PICK q \in profiles :
              /\ Current(q)
              /\ mem' = [mem EXCEPT ![s].profile = q, ![s].rows = RowsOf(q), ![s].left = ToRemove(RowsOf(q))]
        BY <3>2 DEF List
      <4> QED BY <4>1 DEF Memory
    <3> QED BY <1>3, <3>1, <3>2
  <2>2. UNCHANGED rowVars
    BY <1>3 DEF Upload, Prepare, Load, List, Remain
  <2>3. \A t \in Sessions \ {s} : mem'[t] = mem[t]
    BY <1>3 DEF Upload, Prepare, Load, List
  <2>4. q <= lastId
    BY <2>1
  <2> QED BY <2>1, <2>2, <2>3, <2>4 DEF Oldest, rowVars, Current
<1>4. CASE Commit(s)
  <2>1. mem[s].profile \in profiles
    BY <1>4 DEF Commit, Locks, Holding
  <2>2. \A t \in Sessions : mem'[t].profile \in {mem[t].profile, 0}
    BY <1>4 DEF Commit, End, Blank
  <2>3. \A row \in docs' : row \in docs \/ row.profile = mem[s].profile
    BY <1>4 DEF Commit
  <2> QED BY <1>4, <2>1, <2>2, <2>3 DEF Commit, Oldest
<1>5. CASE Finish(s)
  <2>1. \A t \in Sessions : mem'[t].profile \in {mem[t].profile, 0}
    BY <1>5 DEF Finish, End, Blank
  <2>2. docs' = docs \ RowsOf(mem[s].profile) /\ profiles' = profiles \ {mem[s].profile} /\ lastId' = lastId
    BY <1>5 DEF Finish
  <2>3. \A row \in docs' : row.profile \in profiles' /\ \A p \in profiles' : row.profile <= p
    BY <2>2 DEF Oldest, RowsOf
  <2>4. \A t \in Sessions : mem'[t].profile <= lastId' /\ \A p \in profiles' : mem'[t].profile <= p
    <3> SUFFICES ASSUME NEW t \in Sessions
                 PROVE  mem'[t].profile <= lastId' /\ \A p \in profiles' : mem'[t].profile <= p
      OBVIOUS
    <3>1. \A p \in profiles : p \in Nat /\ mem[t].profile <= p
      BY DEF Oldest
    <3>2. mem[t].profile <= lastId
      BY DEF Oldest
    <3>3. mem'[t].profile \in {mem[t].profile, 0}
      BY <2>1
    <3> QED BY <2>2, <3>1, <3>2, <3>3
  <2> QED BY <2>3, <2>4 DEF Oldest
<1>6. CASE Unlink(s)
  BY <1>1, <1>6 DEF Unlink, Steady
<1>7. CASE Refused(s) \/ Die(s) \/ Look(s)
  BY <1>1, <1>7 DEF Refused, Die, Abandon, Look, End, Blank, Steady, Remain
<1>8. CASE Parse(s)
  <2>1. \A t \in Sessions : mem'[t].profile = mem[t].profile
    BY <1>8 DEF Parse, Memory
  <2> QED BY <1>1, <1>8, <2>1 DEF Parse, Steady, Remain
<1>9. CASE BeginProfile(s) \/ Put(s) \/ PutText(s) \/ Written(s) \/ WrittenNowhere(s) \/ Insert(s) \/ Erase(s)
  BY <1>1, <1>9 DEF BeginProfile, Put, PutText, Written, WrittenNowhere, Insert, Erase, Steady, Remain
<1> QED BY <1>2, <1>3, <1>4, <1>5, <1>6, <1>7, <1>8, <1>9 DEF Step, Begin

LEMMA LocksStep ==
  ASSUME TypeOK, AtHand, Oldest, Locks, NEW s \in Sessions, Step(s) \/ Begin(s) \/ Die(s)
  PROVE  Locks'
<1> USE DEF TypeOK, Holding
<1> DEFINE Steady == /\ profiles \subseteq profiles'
                     /\ \A t \in Sessions :
                          pc'[t] \in Holding \union {"removing"}
                            => (pc'[t] \in Holding <=> pc[t] \in Holding)
                               /\ (pc'[t] = "removing" <=> pc[t] = "removing")
                               /\ mem'[t].profile = mem[t].profile
<1>1. CASE Steady
  BY <1>1 DEF Locks
<1> HIDE DEF Steady
<1>2. CASE Insert(s)
  BY <1>2 DEF Insert, Locks, Remain, Goto, rowVars
<1>3. CASE Erase(s)
  BY <1>3 DEF Erase, Locks, Inserted, Remain, Goto, rowVars
<1>4. CASE Finish(s)
  BY <1>4 DEF Finish, Locks, End, Goto
<1>5. CASE Unlink(s)
  <2>1. \A t \in Sessions : mem'[t].profile = mem[t].profile
    BY <1>5 DEF Unlink
  <2>2. \A t \in Sessions :
          \/ pc'[t] = pc[t]
          \/ pc[t] = "write" /\ pc'[t] = "cut"
          \/ pc[t] = "writeText" /\ pc'[t] = "cutText"
    BY <1>5, Unlinked DEF Cut
  <2> QED BY <1>1, <1>5, <2>1, <2>2 DEF Unlink, Steady, rowVars
<1>6. CASE CreateProfile(s) \/ Commit(s) \/ Refused(s) \/ Die(s) \/ Look(s)
  BY <1>1, <1>6 DEF CreateProfile, Commit, Refused, Die, Abandon, Look, End, Goto, Remain, rowVars, Steady
<1>7. CASE Upload(s) \/ Prepare(s) \/ List(s) \/ BeginProfile(s)
  BY <1>1, <1>7 DEF Upload, Prepare, Load, List, BeginProfile, Goto, Remain, rowVars, Steady
<1>8. CASE Put(s) \/ PutText(s)
  BY <1>1, <1>8 DEF Put, PutText, Store, Goto, rowVars, Steady
<1>9. CASE Written(s)
  BY <1>1, <1>9 DEF Written, Goto, rowVars, Steady
<1>10. CASE WrittenNowhere(s)
  BY <1>1, <1>10 DEF WrittenNowhere, Goto, Remain, rowVars, Steady
<1>11. CASE Parse(s)
  <2>1. \A t \in Sessions : mem'[t].profile = mem[t].profile
    BY <1>11 DEF Parse, Memory
  <2> QED BY <1>1, <1>11, <2>1 DEF Parse, Goto, Remain, rowVars, Steady
<1> QED BY <1>10, <1>11, <1>2, <1>3, <1>4, <1>5, <1>6, <1>7, <1>8, <1>9 DEF Step, Begin

-----------------------------------------------------------------------------
(* What the rows name is there *)

Part == \A f \in Files : files[f] = "part" => BeingWritten(f) \/ f \in torn

\* A file that some row names, or will name, is missing only if it was lost.
Wanted(f) ==
  \/ f \in FilesOf(docs)
  \/ \E s \in Sessions : mem[s].profile \in profiles /\ f \in Trusted(s)
Missing == \A f \in Files : files[f] = "none" /\ Wanted(f) => f \in lost

LEMMA StorePart ==
  ASSUME TypeOK, Part, NEW s \in Sessions, NEW f \in Files, NEW writing, NEW after,
         Store(s, f, writing, after), UNCHANGED mem,
         pc[s] \in {"put", "putText"},
         \/ writing = "write" /\ mem[s].content = f
         \/ writing = "writeText" /\ mem[s].text = f
  PROVE  Part'
<1> USE DEF TypeOK
<1>1. \A t \in Sessions \ {s} : pc'[t] = pc[t]
  BY DEF Store, Goto
<1>2. \A g \in Files : BeingWritten(g) => (BeingWritten(g))'
  BY <1>1 DEF BeingWritten, Writing
<1>3. CASE files[f] # "none"
  BY <1>2, <1>3 DEF Store, Part
<1>4. CASE files[f] = "none"
  <2>1. pc'[s] = writing
    BY <1>4 DEF Store, Goto
  <2>2. (BeingWritten(f))'
    BY <2>1 DEF BeingWritten, Writing
  <2>3. files' = [files EXCEPT ![f] = "part"] /\ torn' = torn \ {f}
    BY <1>4 DEF Store
  <2> QED BY <1>2, <2>2, <2>3 DEF Part
<1> QED BY <1>3, <1>4

LEMMA PartStep ==
  ASSUME TypeOK, AtHand, Part, NEW s \in Sessions, Step(s) \/ Begin(s) \/ Die(s)
  PROVE  Part'
<1> USE DEF TypeOK
<1> DEFINE Steady == /\ UNCHANGED <<files, torn>>
                     /\ \A t \in Sessions : pc[t] \in {"write", "writeText"}
                                              => pc'[t] = pc[t] /\ mem'[t] = mem[t]
<1>1. CASE Steady
  BY <1>1 DEF Part, BeingWritten, Writing
<1> HIDE DEF Steady
<1>2. CASE Put(s)
  <2>1. mem[s].content \in Files
    BY <1>2 DEF Put, AtHand, Storing, Files
  <2> QED BY <1>2, <2>1, StorePart DEF Put
<1>3. CASE PutText(s)
  <2>1. mem[s].text \in Files
    BY <1>3 DEF PutText, AtHand, Files
  <2> QED BY <1>3, <2>1, StorePart DEF PutText
<1>4. CASE Written(s)
  <2>1. \A g \in Files : files'[g] = IF Writing(s, g) THEN "whole" ELSE files[g]
    BY <1>4 DEF Written
  <2>2. \A t \in Sessions \ {s} : pc'[t] = pc[t] /\ mem'[t] = mem[t]
    BY <1>4 DEF Written, Goto
  <2>3. SUFFICES ASSUME NEW g \in Files, files'[g] = "part" PROVE (BeingWritten(g))' \/ g \in torn'
    BY DEF Part
  <2>4. CASE Writing(s, g)
    BY <2>1, <2>3, <2>4
  <2>5. CASE ~Writing(s, g)
    <3>1. BeingWritten(g) \/ g \in torn
      BY <2>1, <2>3, <2>5 DEF Part
    <3>2. BeingWritten(g) => (BeingWritten(g))'
      BY <2>2, <2>5 DEF BeingWritten, Writing
    <3> QED BY <1>4, <3>1, <3>2 DEF Written
  <2> QED BY <2>4, <2>5
<1>5. CASE Unlink(s)
  <2>1. PICK f \in Files :
          /\ files' = [files EXCEPT ![f] = "none"]
          /\ mem' = [mem EXCEPT ![s].left = @ \ {f}]
          /\ \A t \in Sessions : ~Writing(t, f) => pc'[t] = pc[t]
          /\ torn' = torn \ {f}
    BY <1>5, Unlinked
  <2>2. \A t \in Sessions : mem'[t].content = mem[t].content /\ mem'[t].text = mem[t].text
    BY <2>1 DEF Memory
  <2>3. \A g \in Files \ {f} : BeingWritten(g) => (BeingWritten(g))'
    BY <2>1, <2>2 DEF BeingWritten, Writing
  <2> QED BY <2>1, <2>3 DEF Part
<1>6. CASE Refused(s) \/ Die(s)
  <2>1. Abandon(s)
    BY <1>6 DEF Refused, Die
  <2>2. \A g \in Files : BeingWritten(g) => (BeingWritten(g))' \/ Writing(s, g)
    BY <2>1 DEF BeingWritten, Writing, Abandon, End, Goto
  <2>3. torn' = torn \union {g \in Files : Writing(s, g)} /\ files' = files
    BY <2>1 DEF Abandon
  <2> QED BY <2>2, <2>3 DEF Part
<1>7. CASE CreateProfile(s) \/ Commit(s) \/ Finish(s) \/ Look(s)
  BY <1>1, <1>7 DEF CreateProfile, Commit, Finish, Look, Remain, End, Goto, Steady
<1>8. CASE Upload(s) \/ Prepare(s) \/ List(s) \/ BeginProfile(s) \/ Parse(s)
  BY <1>1, <1>8 DEF Upload, Prepare, Load, List, BeginProfile, Parse, Remain, Goto, Steady
<1>9. CASE WrittenNowhere(s) \/ Insert(s) \/ Erase(s)
  BY <1>1, <1>9 DEF WrittenNowhere, Insert, Erase, Remain, Goto, Steady
<1> QED BY <1>2, <1>3, <1>4, <1>5, <1>6, <1>7, <1>8, <1>9 DEF Step, Begin

\* A step that adds nothing to what is wanted, nor takes anything away.
LEMMA MissingKept ==
  ASSUME Missing, lost \subseteq lost',
         \A f \in Files : files'[f] = "none" /\ (Wanted(f))' => files[f] = "none" /\ Wanted(f)
  PROVE  Missing'
  BY DEF Missing

LEMMA StoreMissing ==
  ASSUME TypeOK, Missing, NEW s \in Sessions, NEW f \in Files, NEW writing, NEW after,
         Store(s, f, writing, after), UNCHANGED <<rowVars, mem>>,
         \/ pc[s] = "put" /\ writing = "write" /\ after = "look" /\ mem[s].content = f
         \/ pc[s] = "putText" /\ writing = "writeText" /\ after = "commit" /\ mem[s].text = f
  PROVE  Missing'
<1> USE DEF TypeOK
<1>1. \A t \in Sessions \ {s} : (Trusted(t))' = Trusted(t)
  BY DEF Store, Goto, Trusted, Inserted
<1>2. (Trusted(s))' \subseteq Trusted(s) \union {f}
  BY DEF Store, Goto, Trusted, Inserted
<1>3. \A g \in Files \ {f} : (Wanted(g))' => Wanted(g)
  BY <1>1, <1>2 DEF Wanted, rowVars, FilesOf
<1>4. files'[f] # "none" /\ \A g \in Files \ {f} : files'[g] = files[g]
  BY DEF Store
<1>5. \A g \in Files \ {f} : g \in lost => g \in lost'
  BY DEF Store
<1> QED BY <1>3, <1>4, <1>5 DEF Missing

LEMMA MissingStep ==
  ASSUME TypeOK, AtHand, Oldest, Locks, Missing,
         NEW s \in Sessions, Step(s) \/ Begin(s) \/ Die(s)
  PROVE  Missing'
<1> USE DEF TypeOK
\* Steps that leave the store, and by which s trusts in no other file.
<1> DEFINE Steady == /\ UNCHANGED <<rowVars, files, lost>>
                     /\ \A t \in Sessions : (Trusted(t))' = {} \/ (/\ (Trusted(t))' \subseteq Trusted(t)
                                                                   /\ mem'[t].profile = mem[t].profile)
<1>1. CASE Steady
  <2>1. \A f \in Files : (Wanted(f))' => Wanted(f)
    BY <1>1 DEF Wanted, rowVars, FilesOf
  <2> QED BY <1>1, <2>1, MissingKept
<1> HIDE DEF Steady
<1>2. \A t \in Sessions \ {s} : ~Unlink(s) => (Trusted(t))' = Trusted(t) /\ mem'[t] = mem[t]
  <2> SUFFICES ASSUME NEW t \in Sessions, t # s, ~Unlink(s)
               PROVE  (Trusted(t))' = Trusted(t) /\ mem'[t] = mem[t]
    OBVIOUS
  <2>1. pc'[t] = pc[t] /\ mem'[t] = mem[t]
    BY Others
  <2> QED BY <2>1 DEF Trusted, Inserted
<1>3. CASE Put(s)
  <2>1. mem[s].content \in Files
    BY <1>3 DEF Put, AtHand, Storing, Files
  <2> QED BY <1>3, <2>1, StoreMissing DEF Put
<1>4. CASE PutText(s)
  <2>1. mem[s].text \in Files
    BY <1>4 DEF PutText, AtHand, Files
  <2> QED BY <1>4, <2>1, StoreMissing DEF PutText
<1>5. CASE Written(s)
  <2>1. PICK f \in Files : Writing(s, f)
    BY <1>5 DEF Written, AtHand, Storing, Files, Writing
  <2>2. files'[f] = "whole" /\ \A g \in Files : files'[g] = "none" => files[g] = "none"
    BY <1>5, <2>1 DEF Written
  <2>3. (Trusted(s))' \subseteq Trusted(s) \union {f}
    BY <1>5, <2>1 DEF Written, Writing, Trusted, Inserted, Goto
  <2>4. \A g \in Files \ {f} : (Wanted(g))' => Wanted(g)
    BY <1>2, <1>5, <2>3 DEF Wanted, Written, rowVars, FilesOf, Unlink
  <2> QED BY <1>5, <2>2, <2>4, MissingKept DEF Written
<1>6. CASE WrittenNowhere(s)
  <2>1. PICK f \in Files : files[f] # "none" /\ (Trusted(s))' \subseteq Trusted(s) \union {f}
    <3>1. CASE pc[s] = "cut"
      BY <1>6, <3>1 DEF WrittenNowhere, AtHand, Storing, Files, Trusted, Inserted, Goto
    <3>2. CASE pc[s] = "cutText"
      BY <1>6, <3>2 DEF WrittenNowhere, AtHand, Files, Trusted, Inserted, Goto
    <3> QED BY <1>6, <3>1, <3>2 DEF WrittenNowhere
  <2>2. \A g \in Files \ {f} : (Wanted(g))' => Wanted(g)
    BY <1>2, <1>6, <2>1 DEF Wanted, WrittenNowhere, Remain, rowVars, FilesOf, Unlink
  <2> QED BY <1>6, <2>1, <2>2, MissingKept DEF WrittenNowhere, Remain
<1>7. CASE Commit(s)
  <2>1. (Trusted(s))' = {}
    BY <1>7 DEF Commit, End, Goto, Trusted, Inserted
  <2>2. FilesOf(docs') \subseteq FilesOf(docs) \union Trusted(s)
    BY <1>7 DEF Commit, FilesOf, Named, Trusted, Inserted
  <2>3. mem[s].profile \in profiles
    BY <1>7 DEF Commit, Locks, Holding
  <2>4. \A f \in Files : (Wanted(f))' => Wanted(f)
    BY <1>2, <1>7, <2>1, <2>2, <2>3 DEF Wanted, Commit, Unlink, FilesOf
  <2> QED BY <1>7, <2>4, MissingKept DEF Commit
<1>8. CASE CreateProfile(s)
  <2>1. (Trusted(s))' = {}
    BY <1>8 DEF CreateProfile, End, Goto, Trusted, Inserted
  <2>2. \A t \in Sessions : mem[t].profile <= lastId /\ mem[t].profile \in Nat
    BY DEF Oldest, Memory
  <2>3. \A t \in Sessions : mem[t].profile \in profiles' => mem[t].profile \in profiles
    BY <1>8, <2>2 DEF CreateProfile
  <2>4. \A f \in Files : (Wanted(f))' => Wanted(f)
    BY <1>2, <1>8, <2>1, <2>3 DEF Wanted, CreateProfile, Unlink, FilesOf
  <2> QED BY <1>8, <2>4, MissingKept DEF CreateProfile
<1>9. CASE Unlink(s)
  <2>1. PICK f \in Files :
          /\ files' = [files EXCEPT ![f] = "none"]
          /\ mem' = [mem EXCEPT ![s].left = @ \ {f}]
          /\ \A t \in Sessions : ~Writing(t, f) => pc'[t] = pc[t]
          /\ \A t \in Sessions : Writing(t, f) => Cut(t)
          /\ lost' = lost \union ({f} \intersect (FilesOf(docs) \union (UNION {Trusted(t) : t \in Sessions})))
    BY <1>9, Unlinked
  <2>2. \A t \in Sessions : /\ mem'[t].content = mem[t].content /\ mem'[t].text = mem[t].text
                            /\ mem'[t].profile = mem[t].profile
    BY <2>1 DEF Memory
  <2>3. \A t \in Sessions : (Trusted(t))' = Trusted(t)
    BY <2>1, <2>2 DEF Cut, Trusted, Inserted
  <2>4. \A g \in Files : (Wanted(g))' => Wanted(g)
    BY <1>9, <2>2, <2>3 DEF Wanted, Unlink, rowVars, FilesOf
  <2>5. (Wanted(f))' => f \in lost'
    BY <2>1, <2>4 DEF Wanted
  <2> QED BY <2>1, <2>4, <2>5 DEF Missing
<1>10. CASE Finish(s)
  <2>1. (Trusted(s))' = {}
    BY <1>10 DEF Finish, End, Goto, Trusted, Inserted
  <2>2. CASE mem[s].profile \notin profiles
    <3>1. profiles' = profiles /\ docs' \subseteq docs /\ lost' = lost /\ files' = files
      BY <1>10, <2>2 DEF Finish
    <3>2. \A f \in Files : (Wanted(f))' => Wanted(f)
      BY <1>2, <1>10, <2>1, <3>1 DEF Wanted, FilesOf, Finish, Unlink
    <3> QED BY <3>1, <3>2, MissingKept
  <2>3. CASE mem[s].profile \in profiles
    <3>1. docs' = {} /\ profiles' = profiles \ {mem[s].profile}
      <4>1. \A row \in docs : row.profile = mem[s].profile
        BY <2>3 DEF Oldest, Row, Memory
      <4> QED BY <1>10, <4>1 DEF Finish, RowsOf
    <3>2. \A t \in Sessions : mem[t].profile \notin profiles'
      <4>1. \A t \in Sessions : mem[t].profile <= mem[s].profile
        BY <2>3 DEF Oldest
      <4>2. \A t \in Sessions : mem[t].profile \in profiles => mem[s].profile <= mem[t].profile
        BY DEF Oldest
      <4>3. \A t \in Sessions : mem[t].profile \in Nat
        BY DEF Memory
      <4> QED BY <3>1, <4>1, <4>2, <4>3
    <3>3. \A f \in Files : ~(Wanted(f))'
      BY <1>2, <1>10, <2>1, <3>1, <3>2 DEF Wanted, FilesOf, Finish, Unlink
    <3> QED BY <3>3 DEF Missing
  <2> QED BY <2>2, <2>3
<1>11. CASE Refused(s) \/ Die(s) \/ Look(s)
  <2>1. UNCHANGED <<rowVars, files, lost>>
    BY <1>11 DEF Refused, Die, Abandon, Look, Remain
  <2>2. (Trusted(s))' = {} \/ (pc[s] = "look" /\ pc'[s] = "insert" /\ mem'[s] = mem[s])
    BY <1>11 DEF Refused, Die, Abandon, Look, End, Goto, Trusted, Inserted
  <2>3. ~Unlink(s) \/ lost' = lost
    BY <2>1
  <2>4. \A t \in Sessions \ {s} : (Trusted(t))' = Trusted(t) /\ mem'[t] = mem[t]
    BY <1>11 DEF Refused, Die, Abandon, Look, End, Goto, Trusted, Inserted
  <2>5. (Trusted(s))' = {} \/ (/\ (Trusted(s))' \subseteq Trusted(s) /\ mem'[s].profile = mem[s].profile)
    BY <2>2 DEF Trusted, Inserted
  <2> QED BY <1>1, <2>1, <2>4, <2>5 DEF Steady
<1>12. CASE Upload(s) \/ Prepare(s) \/ List(s) \/ BeginProfile(s)
  <2>1. (Trusted(s))' = {}
    BY <1>12 DEF Upload, Prepare, Load, List, BeginProfile, Goto, Trusted, Inserted
  <2>2. UNCHANGED <<rowVars, files, lost>> /\ pc[s] = "idle"
    BY <1>12 DEF Upload, Prepare, Load, List, BeginProfile, Remain
  <2> QED BY <1>1, <1>2, <2>1, <2>2 DEF Steady, Unlink
<1>13. CASE Parse(s)
  <2>1. mem'[s].profile = mem[s].profile /\ mem'[s].content = mem[s].content
    BY <1>13 DEF Parse, Memory
  <2>2. (Trusted(s))' \subseteq Trusted(s)
    BY <1>13, <2>1 DEF Parse, AtHand, Goto, Trusted, Inserted
  <2> QED BY <1>1, <1>2, <1>13, <2>1, <2>2 DEF Steady, Parse, Remain, Unlink
<1>14. CASE Insert(s) \/ Erase(s)
  <2>1. (Trusted(s))' \subseteq Trusted(s) /\ mem'[s] = mem[s]
    BY <1>14 DEF Insert, Erase, AtHand, Storing, Remain, Goto, Trusted, Inserted
  <2> QED BY <1>1, <1>2, <1>14, <2>1 DEF Steady, Insert, Erase, Remain, Unlink
<1> QED BY <1>3, <1>4, <1>5, <1>6, <1>7, <1>8, <1>9, <1>10, <1>11, <1>12, <1>13, <1>14 DEF Step, Begin

Rows == TypeOK /\ AtHand /\ Oldest /\ Locks /\ Part /\ Missing

LEMMA RowsInv == Spec => []Rows
<1>1. Init => Rows
  <2> SUFFICES ASSUME Init PROVE Rows
    OBVIOUS
  <2>1. TypeOK /\ AtHand
    BY BlankTyped DEF Init, TypeOK, AtHand, States, Storing, Holding
  <2>2. Oldest /\ Locks
    BY DEF Init, Oldest, Locks, Holding, Blank
  <2>3. Part /\ Missing
    BY DEF Init, Part, Missing, Wanted, FilesOf, Trusted, Inserted
  <2> QED BY <2>1, <2>2, <2>3 DEF Rows
<1>2. Rows /\ [Next]_vars => Rows'
  <2> SUFFICES ASSUME Rows, [Next]_vars PROVE Rows'
    OBVIOUS
  <2>1. CASE UNCHANGED vars
    BY <2>1 DEF vars, rowVars, Rows, TypeOK, AtHand, Oldest, Locks, Part, Missing, Wanted, BeingWritten,
                Writing, FilesOf, Trusted, Inserted
  <2>2. CASE Next
    BY <2>2, StepTyped, OldestStep, LocksStep, PartStep, MissingStep DEF Next, Rows
  <2> QED BY <2>1, <2>2
<1> QED BY <1>1, <1>2, PTL DEF Spec

\* EncryptedFileStore.put() and delete_all(): whatever requests share or race for
\* a file, the one that a row names is there and whole, except for what a killed
\* process was writing and what a deletion removed in vain.
THEOREM FilesStay == Spec => []FilesKept
<1>1. Rows => FilesKept
  <2> SUFFICES ASSUME Rows, NEW f \in FilesOf(docs)
               PROVE  files[f] = "whole" \/ BeingWritten(f) \/ f \in torn \union lost
    BY DEF FilesKept
  <2>1. f \in Files
    BY NamedTyped DEF Rows, TypeOK
  <2> QED BY <2>1 DEF Rows, TypeOK, Part, Missing, Wanted
<1> QED BY <1>1, RowsInv, PTL

-----------------------------------------------------------------------------
(* What is there is somebody's *)

Opened == \A s \in Sessions, f \in Files : Writing(s, f) => files[f] # "none"

\* What a session that removes nothing accounts for.
Kept(f) == \E s \in Sessions : pc[s] # "removing" /\ f \in Held(s)
Settled == \A f \in Files : files[f] # "none" => f \in FilesOf(docs) \union stray \/ Kept(f)

\* A file that a deletion has removed came back by a request that overtook it,
\* or by a row of another profile than the one that it looks for in vain.
Returned(s, f) == f \in stray \/ (mem[s].profile \notin profiles /\ f \in FilesOf(docs))
Removed ==
  \A s \in Sessions : pc[s] = "removing" =>
    \A f \in FilesOf(mem[s].rows) \ mem[s].left : files[f] # "none" => Returned(s, f)

LEMMA StoreSettled ==
  ASSUME TypeOK, Opened, Settled, Removed, NEW s \in Sessions, NEW f \in Files, NEW writing, NEW after,
         Store(s, f, writing, after), UNCHANGED <<rowVars, mem>>,
         \/ /\ pc[s] = "put" /\ writing = "write" /\ after = "look" /\ mem[s].content = f
         \/ /\ pc[s] = "putText" /\ writing = "writeText" /\ after = "commit" /\ mem[s].text = f,
         f # None
  PROVE  Opened' /\ Settled' /\ Removed'
<1> USE DEF TypeOK
<1>1. \A t \in Sessions \ {s} : pc'[t] = pc[t]
  BY DEF Store, Goto
<1>2. \A t \in Sessions \ {s} : (Held(t))' = Held(t)
  BY <1>1 DEF Held, Inserted
<1>3. pc'[s] # "removing" /\ pc[s] # "removing"
  BY DEF Store, Goto
<1>4. f \in (Held(s))' /\ Held(s) \subseteq (Held(s))'
  BY DEF Store, Goto, Held, Inserted
<1>5. /\ files'[f] # "none" /\ \A g \in Files \ {f} : files'[g] = files[g]
      /\ stray \subseteq stray'
  BY DEF Store
<1>6. Opened'
  <2>1. \A t \in Sessions \ {s}, g \in Files : (Writing(t, g))' => Writing(t, g)
    BY <1>1 DEF Writing
  <2>2. \A g \in Files \ {f} : ~(Writing(s, g))'
    BY DEF Store, Goto, Writing
  <2>3. SUFFICES ASSUME NEW t \in Sessions, NEW g \in Files, (Writing(t, g))' PROVE files'[g] # "none"
    BY DEF Opened
  <2> QED BY <1>5, <2>1, <2>2, <2>3 DEF Opened
<1>7. Settled'
  <2>1. \A g \in Files : Kept(g) => (Kept(g))'
    BY <1>1, <1>2, <1>3, <1>4 DEF Kept
  <2>2. (Kept(f))'
    BY <1>3, <1>4 DEF Kept
  <2> QED BY <1>5, <2>1, <2>2 DEF Settled, rowVars, FilesOf
<1>8. Removed'
  <2> SUFFICES ASSUME NEW t \in Sessions, pc'[t] = "removing",
                      NEW g \in FilesOf(mem[t].rows) \ mem[t].left, files'[g] # "none"
               PROVE  g \in stray' \/ (mem[t].profile \notin profiles /\ g \in FilesOf(docs))
    BY DEF Removed, Returned, rowVars, FilesOf
  <2>1. t # s /\ pc[t] = "removing"
    BY <1>1, <1>3
  <2>2. mem[t].rows \in SUBSET Row
    BY DEF Memory
  <2>3. g \in Files
    BY <2>2, NamedTyped
  <2>4. CASE files[g] # "none"
    BY <1>5, <2>1, <2>4 DEF Removed, Returned
  <2>5. CASE files[g] = "none"
    <3>1. g = f
      BY <1>5, <2>3, <2>5
    <3>2. Overtakes(f)
      BY <2>1, <3>1 DEF Overtakes, Held, Inserted
    <3> QED BY <2>5, <3>1, <3>2 DEF Store
  <2> QED BY <2>4, <2>5
<1> QED BY <1>6, <1>7, <1>8

\* A step that leaves files and rows, and after which everything held is held
\* still, or a row's, or stray.
LEMMA SettledKept ==
  ASSUME TypeOK, Opened, Settled, Removed, NEW s \in Sessions,
         UNCHANGED <<files, docs, profiles>>, stray \subseteq stray',
         \A t \in Sessions \ {s} : pc'[t] = pc[t] /\ mem'[t] = mem[t],
         pc'[s] \notin {"write", "writeText", "removing"},
         pc[s] = "removing" \/ Held(s) \subseteq ((Held(s))' \union FilesOf(docs)) \union stray'
  PROVE  Opened' /\ Settled' /\ Removed'
<1> USE DEF TypeOK
<1>1. \A t \in Sessions \ {s} : (Held(t))' = Held(t)
  BY DEF Held, Inserted
<1>2. Opened'
  BY DEF Opened, Writing
<1>3. Settled'
  <2>1. \A g \in Files : Kept(g) => (Kept(g))' \/ g \in FilesOf(docs) \union stray'
    BY <1>1 DEF Kept
  <2> QED BY <2>1 DEF Settled, FilesOf
<1>4. Removed'
  BY DEF Removed, Returned, FilesOf
<1> QED BY <1>2, <1>3, <1>4

LEMMA SettledStep ==
  ASSUME TypeOK, AtHand, Oldest, Locks, Opened, Settled, Removed,
         NEW s \in Sessions, Step(s) \/ Begin(s) \/ Die(s)
  PROVE  Opened' /\ Settled' /\ Removed'
<1> USE DEF TypeOK
<1>1. None \notin Files
  BY KindsAssumption DEF Files, Contents
<1>2. CASE Put(s)
  <2>1. mem[s].content \in Files
    BY <1>2 DEF Put, AtHand, Storing, Files
  <2> QED BY <1>1, <1>2, <2>1, StoreSettled DEF Put
<1>3. CASE PutText(s)
  <2>1. mem[s].text \in Files
    BY <1>3 DEF PutText, AtHand, Files
  <2> QED BY <1>1, <1>3, <2>1, StoreSettled DEF PutText
<1>4. CASE Written(s)
  <2>1. \A g \in Files : files'[g] = "none" <=> files[g] = "none"
    BY <1>4 DEF Written, Opened
  <2>2. /\ \A t \in Sessions \ {s} : pc'[t] = pc[t]
        /\ UNCHANGED <<docs, profiles, mem, stray>>
        /\ pc[s] \in {"write", "writeText"} /\ pc'[s] \in {"look", "commit"}
        /\ pc[s] = "write" => pc'[s] = "look"
    BY <1>4 DEF Written, Goto, rowVars
  <2>3. \A t \in Sessions : Held(t) \subseteq (Held(t))'
    BY <2>2 DEF Held, Inserted
  <2>4. Opened'
    BY <2>1, <2>2 DEF Opened, Writing
  <2>5. \A g \in Files : Kept(g) => (Kept(g))'
    BY <2>2, <2>3 DEF Kept
  <2>6. Settled'
    BY <2>1, <2>2, <2>5 DEF Settled, FilesOf
  <2>7. \A t \in Sessions : FilesOf(mem[t].rows) \subseteq Files
    <3> SUFFICES ASSUME NEW t \in Sessions PROVE FilesOf(mem[t].rows) \subseteq Files
      OBVIOUS
    <3>1. mem[t].rows \in SUBSET Row
      BY DEF Memory
    <3> QED BY <3>1, NamedTyped
  <2>8. Removed'
    BY <2>1, <2>2, <2>7 DEF Removed, Returned, FilesOf
  <2> QED BY <2>4, <2>6, <2>8
<1>5. CASE Unlink(s)
  <2>1. PICK f \in Files :
          /\ files' = [files EXCEPT ![f] = "none"]
          /\ mem' = [mem EXCEPT ![s].left = @ \ {f}]
          /\ \A t \in Sessions : ~Writing(t, f) => pc'[t] = pc[t]
          /\ \A t \in Sessions : Writing(t, f) => Cut(t)
          /\ stray' = stray \ {f}
    BY <1>5, Unlinked
  <2>2. UNCHANGED <<docs, profiles>>
    BY <1>5 DEF Unlink, rowVars
  <2>3. \A t \in Sessions : /\ mem'[t].content = mem[t].content /\ mem'[t].text = mem[t].text
                            /\ mem'[t].profile = mem[t].profile /\ mem'[t].rows = mem[t].rows
                            /\ mem[t].left \ {f} \subseteq mem'[t].left
    BY <2>1 DEF Memory
  <2>4. \A t \in Sessions : (Held(t))' = Held(t) /\ (pc'[t] = "removing" <=> pc[t] = "removing")
    BY <2>1, <2>3 DEF Cut, Held, Inserted
  <2>5. Opened'
    <3>1. \A t \in Sessions, g \in Files : (Writing(t, g))' => Writing(t, g) /\ ~Writing(t, f)
      BY <2>1, <2>3 DEF Cut, Writing
    <3>2. \A t \in Sessions, g \in Files : (Writing(t, g))' => g # f /\ files[g] # "none"
      BY <3>1 DEF Opened
    <3> QED BY <2>1, <3>2 DEF Opened
  <2>6. \A g \in Files : Kept(g) => (Kept(g))'
    BY <2>4 DEF Kept
  <2>7. Settled'
    BY <2>1, <2>2, <2>6 DEF Settled, FilesOf
  <2>8. Removed'
    <3> SUFFICES ASSUME NEW t \in Sessions, pc'[t] = "removing",
                        NEW g \in FilesOf(mem'[t].rows) \ mem'[t].left, files'[g] # "none"
                 PROVE  g \in stray' \/ (mem'[t].profile \notin profiles' /\ g \in FilesOf(docs'))
      BY DEF Removed, Returned, FilesOf
    <3>1. mem[t].rows \in SUBSET Row
      BY DEF Memory
    <3>2. g \in Files /\ g \in FilesOf(mem[t].rows)
      BY <2>3, <3>1, NamedTyped
    <3>3. g # f /\ files[g] # "none"
      BY <2>1, <3>2
    <3>4. pc[t] = "removing" /\ g \in FilesOf(mem[t].rows) \ mem[t].left
      BY <2>3, <2>4, <3>2, <3>3
    <3>5. Returned(t, g)
      BY <3>3, <3>4 DEF Removed
    <3> QED BY <2>1, <2>2, <2>3, <3>3, <3>5 DEF Returned
  <2> QED BY <2>5, <2>7, <2>8
<1>6. CASE Commit(s)
  <2>1. /\ \A t \in Sessions \ {s} : pc'[t] = pc[t] /\ mem'[t] = mem[t]
        /\ pc'[s] = "idle" /\ UNCHANGED <<profiles, files>>
        /\ stray' = stray \ {mem[s].content, mem[s].text}
    BY <1>6 DEF Commit, End, Goto
  <2>2. \A f \in Files : f \in FilesOf(docs') <=> f \in FilesOf(docs) \/ f \in {mem[s].content, mem[s].text}
    <3> DEFINE row == [profile |-> mem[s].profile, content |-> mem[s].content, text |-> mem[s].text]
    <3>1. docs' = docs \union {row}
      BY <1>6 DEF Commit
    <3>2. row.content = mem[s].content /\ row.text = mem[s].text
      OBVIOUS
    <3> HIDE DEF row
    <3>3. FilesOf(docs') = FilesOf(docs) \union Named(row)
      BY <3>1 DEF FilesOf
    <3> QED BY <1>1, <3>2, <3>3 DEF Named
  <2>3. pc[s] = "commit" /\ Held(s) = {mem[s].content, mem[s].text} \ {None}
    BY <1>6 DEF Commit, Held, Inserted
  <2>4. \A t \in Sessions \ {s} : (Held(t))' = Held(t)
    BY <2>1 DEF Held, Inserted
  <2>5. Opened'
    BY <2>1 DEF Opened, Writing
  <2>6. \A f \in Files : Kept(f) => (Kept(f))' \/ f \in FilesOf(docs')
    BY <2>1, <2>2, <2>3, <2>4 DEF Kept
  <2>7. Settled'
    BY <2>1, <2>2, <2>6 DEF Settled
  <2>8. \A t \in Sessions : pc[t] = "removing" => mem[t].profile \notin profiles
    <3>1. /\ mem[s].profile \in profiles
          /\ \A t \in Sessions : pc[t] = "removing" => mem[t].profile # mem[s].profile
      BY <2>3 DEF Locks, Holding
    <3>2. \A t \in Sessions, p \in profiles : mem[t].profile <= p
      BY DEF Oldest
    <3>3. \A t \in Sessions : mem[t].profile \in Nat
      BY DEF Memory
    <3> QED BY <3>1, <3>2, <3>3
  <2>9. Removed'
    <3> SUFFICES ASSUME NEW t \in Sessions, pc'[t] = "removing",
                        NEW g \in FilesOf(mem'[t].rows) \ mem'[t].left, files'[g] # "none"
                 PROVE  g \in stray' \/ (mem'[t].profile \notin profiles' /\ g \in FilesOf(docs'))
      BY DEF Removed, Returned
    <3>1. t # s /\ pc[t] = "removing" /\ mem'[t] = mem[t]
      BY <2>1
    <3>2. mem[t].rows \in SUBSET Row
      BY DEF Memory
    <3>3. g \in Files
      BY <3>1, <3>2, NamedTyped
    <3>4. g \in stray \/ g \in FilesOf(docs)
      BY <2>1, <3>1 DEF Removed, Returned
    <3> QED BY <2>1, <2>2, <2>8, <3>1, <3>3, <3>4
  <2> QED BY <2>5, <2>7, <2>9
<1>7. CASE CreateProfile(s)
  <2>1. /\ \A t \in Sessions \ {s} : pc'[t] = pc[t] /\ mem'[t] = mem[t]
        /\ pc'[s] = "idle" /\ pc[s] = "create" /\ UNCHANGED <<docs, files, stray>>
        /\ profiles' = profiles \union {lastId + 1}
    BY <1>7 DEF CreateProfile, End, Goto
  <2>2. Held(s) = {} /\ \A t \in Sessions \ {s} : (Held(t))' = Held(t)
    BY <2>1 DEF Held, Inserted
  <2>3. \A t \in Sessions : mem[t].profile \notin profiles => mem[t].profile \notin profiles'
    <3>1. \A t \in Sessions : mem[t].profile <= lastId /\ mem[t].profile \in Nat
      BY DEF Oldest, Memory
    <3> QED BY <2>1, <3>1
  <2>4. Opened'
    BY <2>1 DEF Opened, Writing
  <2>5. \A f \in Files : Kept(f) => (Kept(f))'
    BY <2>1, <2>2 DEF Kept
  <2>6. Settled'
    BY <2>1, <2>5 DEF Settled
  <2>7. Removed'
    BY <2>1, <2>3 DEF Removed, Returned
  <2> QED BY <2>4, <2>6, <2>7
<1>8. CASE Finish(s)
  <2>1. /\ \A t \in Sessions \ {s} : pc'[t] = pc[t] /\ mem'[t] = mem[t]
        /\ pc'[s] = "idle" /\ pc[s] = "removing" /\ files' = files
        /\ mem[s].left = {}
        /\ docs' = docs \ RowsOf(mem[s].profile) /\ profiles' = profiles \ {mem[s].profile}
        /\ stray' = stray \union FilesOf(RowsOf(mem[s].profile) \ mem[s].rows)
    BY <1>8 DEF Finish, End, Goto
  <2>2. \A t \in Sessions \ {s} : (Held(t))' = Held(t)
    BY <2>1 DEF Held, Inserted
  <2>3. \A f \in Files : files[f] # "none" /\ f \in FilesOf(docs) => f \in FilesOf(docs') \union stray'
    <3> SUFFICES ASSUME NEW f \in Files, files[f] # "none", NEW row \in docs, f \in Named(row)
                 PROVE  f \in FilesOf(docs') \union stray'
      BY DEF FilesOf
    <3>1. CASE row.profile # mem[s].profile
      <4>1. row \in docs'
        BY <2>1, <3>1 DEF RowsOf
      <4> QED BY <4>1 DEF FilesOf
    <3>2. CASE row.profile = mem[s].profile /\ row \notin mem[s].rows
      <4>1. row \in RowsOf(mem[s].profile) \ mem[s].rows
        BY <3>2 DEF RowsOf
      <4>2. f \in FilesOf(RowsOf(mem[s].profile) \ mem[s].rows)
        BY <4>1 DEF FilesOf
      <4> QED BY <2>1, <4>2
    <3>3. CASE row.profile = mem[s].profile /\ row \in mem[s].rows
      <4>1. f \in FilesOf(mem[s].rows) \ mem[s].left
        BY <2>1, <3>3 DEF FilesOf
      <4>2. mem[s].profile \in profiles
        BY <3>3 DEF Oldest
      <4>3. f \in stray
        BY <2>1, <4>1, <4>2 DEF Removed, Returned
      <4> QED BY <2>1, <4>3
    <3> QED BY <3>1, <3>2, <3>3
  <2>4. Opened'
    BY <2>1 DEF Opened, Writing
  <2>5. \A f \in Files : Kept(f) => (Kept(f))'
    BY <2>1, <2>2 DEF Kept
  <2>6. Settled'
    BY <2>1, <2>3, <2>5 DEF Settled
  <2>7. Removed'
    <3> SUFFICES ASSUME NEW t \in Sessions, pc'[t] = "removing",
                        NEW g \in FilesOf(mem'[t].rows) \ mem'[t].left, files'[g] # "none"
                 PROVE  g \in stray' \/ (mem'[t].profile \notin profiles' /\ g \in FilesOf(docs'))
      BY DEF Removed, Returned
    <3>1. t # s /\ pc[t] = "removing" /\ mem'[t] = mem[t] /\ files[g] # "none"
      BY <2>1
    <3>2. mem[t].rows \in SUBSET Row
      BY DEF Memory
    <3>3. g \in Files
      BY <3>1, <3>2, NamedTyped
    <3>4. g \in stray \/ (mem[t].profile \notin profiles /\ g \in FilesOf(docs))
      BY <3>1 DEF Removed, Returned
    <3> QED BY <2>1, <2>3, <3>1, <3>3, <3>4
  <2> QED BY <2>4, <2>6, <2>7
<1>9. CASE Erase(s)
  <2>1. /\ \A t \in Sessions \ {s} : pc'[t] = pc[t]
        /\ pc[s] = "listed" /\ pc'[s] = "removing" /\ UNCHANGED <<docs, profiles, files, stray, mem>>
    BY <1>9 DEF Erase, Goto, Remain, rowVars
  <2>2. Held(s) = {} /\ \A t \in Sessions \ {s} : (Held(t))' = Held(t)
    BY <2>1 DEF Held, Inserted
  <2>3. Opened'
    BY <2>1 DEF Opened, Writing
  <2>4. \A f \in Files : Kept(f) => (Kept(f))'
    BY <2>1, <2>2 DEF Kept
  <2>5. Settled'
    BY <2>1, <2>4 DEF Settled
  <2>6. mem[s].left = FilesOf(mem[s].rows)
    BY <2>1 DEF AtHand
  <2>7. Removed'
    BY <2>1, <2>6 DEF Removed, Returned
  <2> QED BY <2>3, <2>5, <2>7
<1>10. CASE Refused(s) \/ Die(s)
  <2>1. Abandon(s)
    BY <1>10 DEF Refused, Die
  <2>2. /\ \A t \in Sessions \ {s} : pc'[t] = pc[t] /\ mem'[t] = mem[t]
        /\ pc'[s] = "idle" /\ UNCHANGED <<docs, profiles, files>>
        /\ stray \subseteq stray'
        /\ pc[s] # "removing" => Held(s) \subseteq stray'
    BY <2>1 DEF Abandon, End, Goto, rowVars
  <2> QED BY <2>2, SettledKept
<1>11. CASE Look(s)
  <2>1. /\ \A t \in Sessions \ {s} : pc'[t] = pc[t] /\ mem'[t] = mem[t]
        /\ pc'[s] \in {"idle", "insert"} /\ UNCHANGED <<docs, profiles, files, stray>>
    BY <1>11 DEF Look, End, Goto, Remain, rowVars
  <2>2. Held(s) = {mem[s].content}
    BY <1>1, <1>11 DEF Look, Held, Inserted, AtHand, Storing, Files
  <2>3. Held(s) \subseteq (Held(s))' \union FilesOf(docs)
    <3>1. CASE \E row \in RowsOf(mem[s].profile) : row.content = mem[s].content
      BY <2>2, <3>1 DEF RowsOf, FilesOf, Named
    <3>2. CASE ~\E row \in RowsOf(mem[s].profile) : row.content = mem[s].content
      <4>1. pc'[s] = "insert" /\ mem' = mem /\ pc[s] = "look"
        BY <1>11, <3>2 DEF Look, Goto
      <4> QED BY <4>1 DEF Held, Inserted
    <3> QED BY <3>1, <3>2
  <2> QED BY <2>1, <2>3, SettledKept
<1>12. CASE Parse(s)
  <2>1. /\ \A t \in Sessions \ {s} : pc'[t] = pc[t] /\ mem'[t] = mem[t]
        /\ pc'[s] \in {"commit", "putText"} /\ UNCHANGED <<docs, profiles, files, stray>>
        /\ pc[s] = "parse"
    BY <1>12 DEF Parse, Goto, Remain, rowVars
  <2>2. mem'[s].content = mem[s].content /\ mem[s].text = None
    BY <1>12 DEF Parse, AtHand, Memory
  <2>3. Held(s) \subseteq (Held(s))'
    BY <2>1, <2>2 DEF Held, Inserted
  <2> QED BY <2>1, <2>3, SettledKept
<1>13. CASE Insert(s) \/ WrittenNowhere(s)
  <2>1. /\ \A t \in Sessions \ {s} : pc'[t] = pc[t] /\ mem'[t] = mem[t]
        /\ pc'[s] \in {"parse", "commit", "look"} /\ UNCHANGED <<docs, profiles, files, stray, mem>>
        /\ pc[s] \in {"insert", "cut", "cutText"}
    BY <1>13 DEF Insert, WrittenNowhere, Goto, Remain, rowVars
  <2>2. Held(s) \subseteq (Held(s))'
    BY <2>1 DEF Held, Inserted
  <2> QED BY <2>1, <2>2, SettledKept
<1>14. CASE Upload(s) \/ Prepare(s) \/ List(s) \/ BeginProfile(s)
  <2>1. /\ \A t \in Sessions \ {s} : pc'[t] = pc[t] /\ mem'[t] = mem[t]
        /\ pc'[s] \in {"put", "listed", "create"} /\ UNCHANGED <<docs, profiles, files, stray>>
        /\ pc[s] = "idle"
    BY <1>14 DEF Upload, Prepare, Load, List, BeginProfile, Goto, Remain, rowVars
  <2>2. Held(s) = {}
    BY <2>1 DEF Held, Inserted
  <2> QED BY <2>1, <2>2, SettledKept
<1> QED BY <1>2, <1>3, <1>4, <1>5, <1>6, <1>7, <1>8, <1>9, <1>10, <1>11, <1>12, <1>13, <1>14 DEF Step, Begin

\* delete_all(): what is in the store is a row's, or that of a request that is not
\* over, except for what failed and what overtook a deletion.
THEOREM NothingStays == Spec => []NothingLeft
<1> DEFINE IInv == Opened /\ Settled /\ Removed
<1>1. Init => IInv
  BY DEF Init, Opened, Writing, Settled, Removed
<1>2. IInv /\ Rows /\ [Next]_vars => IInv'
  <2> SUFFICES ASSUME IInv, Rows, [Next]_vars PROVE IInv'
    OBVIOUS
  <2>1. CASE UNCHANGED vars
    BY <2>1 DEF vars, rowVars, Opened, Writing, Settled, Kept, Held, Inserted, Removed, Returned, FilesOf
  <2>2. CASE Next
    BY <2>2, SettledStep DEF Next, Rows
  <2> QED BY <2>1, <2>2
<1>3. IInv => NothingLeft
  BY DEF Settled, Kept, NothingLeft
<1> QED BY <1>1, <1>2, <1>3, RowsInv, PTL DEF Spec
=============================================================================
