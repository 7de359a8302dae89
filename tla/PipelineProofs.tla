--------------------------- MODULE PipelineProofs ---------------------------
(***************************************************************************)
(* Theorems about Pipeline, for any number of applications, workers and     *)
(* users, any limits and any set of requests and events.                    *)
(***************************************************************************)
EXTENDS Pipeline, SequenceTheorems, FiniteSetTheorems, TLAPS

-----------------------------------------------------------------------------
(* Type correctness *)

Texts == States \union {"NONE"}

\* Replacing one packet of a history leaves a history.
LEMMA ReplacePacket ==
  ASSUME NEW h \in Seq(Packet), NEW v, NEW p, v \in 1..Len(h) => p \in Packet
  PROVE  [h EXCEPT ![v] = p] \in Seq(Packet)
<1>1. CASE v \in 1..Len(h)
  BY <1>1, ExceptSeq
<1>2. CASE v \notin 1..Len(h)
  <2>1. [h EXCEPT ![v] = p] = h
    BY <1>2
  <2> QED  BY <2>1
<1> QED  BY <1>1, <1>2

\* A packet with one field replaced is a packet.
LEMMA PacketField ==
  ASSUME NEW p \in Packet
  PROVE  /\ \A b \in BOOLEAN : [p EXCEPT !.approved = b] \in Packet
         /\ \A i \in Items : [p EXCEPT !.items = i] \in Packet
BY DEF Packet

\* Replacing one value of a function keeps its type; a key outside the domain
\* changes nothing.
LEMMA Replace ==
  ASSUME NEW S, NEW T, NEW f \in [S -> T], NEW x, NEW v, x \in S => v \in T
  PROVE  [f EXCEPT ![x] = v] \in [S -> T]
OBVIOUS

\* Replacing the history of one application leaves a function to histories.
LEMMA ReplaceHistory ==
  ASSUME packets \in [Apps -> Seq(Packet)], NEW a, NEW h, a \in Apps => h \in Seq(Packet)
  PROVE  [packets EXCEPT ![a] = h] \in [Apps -> Seq(Packet)]
OBVIOUS

\* A session that remembers one more state stays well typed.
LEMMA ViewType ==
  ASSUME SessionsOK, NEW s \in Sessions, NEW a, NEW st \in Texts
  PROVE  [view EXCEPT ![s][a] = st] \in [Sessions -> [Apps -> Texts]]
<1>1. view \in [Sessions -> [Apps -> Texts]]
  BY DEF SessionsOK, Texts
<1>2. view[s] \in [Apps -> Texts]
  BY <1>1
<1>3. [view[s] EXCEPT ![a] = st] \in [Apps -> Texts]
  BY <1>2
<1> QED  BY <1>1, <1>3

\* A session that ends, or takes its next application, stays well typed.
LEMMA RestType ==
  ASSUME SessionsOK, NEW s \in Sessions, Rest(s)
  PROVE  SessionsOK'
<1>1. NoView \in [Apps -> Texts] /\ NoPacket \in Loaded
  BY DEF NoView, Texts, NoPacket, Loaded, Items
<1>2. pc' \in [Sessions -> Steps] /\ cur' \in [Sessions -> Apps \union {NoApp}]
  BY DEF SessionsOK, Rest, Steps
<1>3. view' \in [Sessions -> [Apps -> Texts]] /\ pkt' \in [Sessions -> Loaded]
  BY <1>1 DEF SessionsOK, Rest, Texts
<1>4. /\ todo' \in [Sessions -> SUBSET Apps] /\ src' \in [Sessions -> {"unread", "in", "out"}]
      /\ res' \in [Sessions -> {"none", "SUBMITTED", "CONFIRMED", "UNKNOWN", "FAILED", "CHALLENGE"}]
  BY DEF SessionsOK, Rest
<1> QED  BY <1>2, <1>3, <1>4 DEF SessionsOK, Texts

LEMMA ReturnType ==
  ASSUME SessionsOK, NEW s \in Sessions, Return(s)
  PROVE  SessionsOK'
<1>1. CASE s \in Workers
  <2>1. view' = [view EXCEPT ![s][cur[s]] = "NONE"]
    BY <1>1 DEF Return
  <2>2. view' \in [Sessions -> [Apps -> Texts]]
    BY <2>1, ViewType DEF Texts
  <2> QED  BY <1>1, <2>2 DEF SessionsOK, Return, GoTo, Steps, Texts
<1>2. CASE s \notin Workers
  BY <1>2, RestType DEF Return
<1> QED  BY <1>1, <1>2

\* A session that only moves on to another of its steps stays well typed.
LEMMA GoToType ==
  ASSUME SessionsOK, NEW s \in Sessions, NEW step \in Steps, GoTo(s, step), UNCHANGED memory
  PROVE  SessionsOK'
BY DEF SessionsOK, GoTo, memory

LEMMA RescoredType ==
  ASSUME NEW st \in Texts, NEW a \in Apps, NEW score \in {"match", "below", "excluded"}
  PROVE  Rescored(st, a, score) \in Texts
<1> DEFINE from == IF st = "NONE" /\ listed[a] THEN "DISCOVERED" ELSE st
<1>1. from \in Texts
  BY DEF Texts, States
<1>2. CASE from \notin Rescorable
  BY <1>1, <1>2 DEF Rescored
<1>3. CASE from \in Rescorable
  BY <1>3 DEF Rescored, Texts, States
<1> QED  BY <1>2, <1>3

\* Matching and the choice of what to prepare keep every type.
LEMMA MatchType ==
  ASSUME TypeOK, NEW s \in Sessions,
         Tick(s) \/ MatchNow(s) \/ MatchCommit(s) \/ MatchClash(s) \/ PrepareNext(s) \/ PrepareDone(s)
  PROVE  TypeOK'
<1>1. CASE Tick(s) \/ MatchNow(s)
  BY <1>1 DEF TypeOK, RowsOK, AroundOK, SessionsOK, Tick, MatchNow, LoadAll, GoTo, Steps, rowVars, envVars, history
<1>2. CASE MatchCommit(s)
  <2>1. PICK score \in [Apps -> {"match", "below", "excluded"}] :
          appState' = [a \in Apps |-> IF Rescored(view[s][a], a, score[a]) # view[s][a]
                                         THEN Rescored(view[s][a], a, score[a]) ELSE appState[a]]
    BY <1>2 DEF MatchCommit
  <2>2. \A a \in Apps : Rescored(view[s][a], a, score[a]) \in Texts
    BY RescoredType DEF TypeOK, SessionsOK, Texts
  <2>3. appState' \in [Apps -> Texts]
    BY <2>1, <2>2 DEF TypeOK, RowsOK, Texts
  <2>4. RowsOK' /\ AroundOK'
    BY <1>2, <2>3 DEF TypeOK, RowsOK, AroundOK, MatchCommit, rowVars, envVars, history, Texts
  <2>5. CASE s \in Workers
    <3> DEFINE due == {a \in Apps : appState'[a] = "MATCHED" /\ Len(packets[a]) < MaxVersions[a]}
               seen == [a \in Apps |-> IF a \in due THEN "MATCHED" ELSE "NONE"]
    <3>1. /\ GoTo(s, "prepNext")
          /\ todo' = [todo EXCEPT ![s] = due]
          /\ view' = [view EXCEPT ![s] = seen]
          /\ UNCHANGED <<cur, pkt, src, res>>
      BY <1>2, <2>5 DEF MatchCommit
    <3>2. due \in SUBSET Apps /\ seen \in [Apps -> Texts]
      BY DEF Texts, States
    <3> HIDE DEF due, seen
    <3>3. SessionsOK'
      BY <3>1, <3>2 DEF TypeOK, SessionsOK, GoTo, Steps, Texts
    <3> QED  BY <2>4, <3>3 DEF TypeOK
  <2>6. CASE s \notin Workers
    BY <1>2, <2>4, <2>6, RestType DEF MatchCommit, TypeOK
  <2> QED  BY <2>5, <2>6
<1>3. CASE MatchClash(s)
  BY <1>3, RestType DEF MatchClash, TypeOK, RowsOK, AroundOK, rowVars, envVars, history
<1>4. CASE PrepareNext(s)
  <2>1. RowsOK' /\ AroundOK'
    BY <1>4 DEF PrepareNext, TypeOK, RowsOK, AroundOK, rowVars, envVars, history
  <2>2. SessionsOK'
    BY <1>4 DEF PrepareNext, TypeOK, SessionsOK, GoTo, Steps
  <2> QED  BY <2>1, <2>2 DEF TypeOK
<1>5. CASE PrepareDone(s)
  <2> DEFINE due == {a \in Apps : appState[a] = "APPROVED"}
             seen(app) == [a \in Apps |-> IF a \notin due THEN "NONE" ELSE IF a = app THEN view[s][a] ELSE "APPROVED"]
  <2>1. RowsOK' /\ AroundOK'
    BY <1>5 DEF PrepareDone, TypeOK, RowsOK, AroundOK, rowVars, envVars, history
  <2>2. PICK app : view' = [view EXCEPT ![s] = seen(app)]
    BY <1>5 DEF PrepareDone
  <2>3. due \in SUBSET Apps /\ seen(app) \in [Apps -> Texts]
    <3>1. \A b \in Apps : view[s][b] \in Texts
      BY DEF TypeOK, SessionsOK, Texts
    <3>2. "NONE" \in Texts /\ "APPROVED" \in Texts
      BY DEF Texts, States
    <3> QED  BY <3>1, <3>2
  <2>4. todo' = [todo EXCEPT ![s] = due]
    BY <1>5 DEF PrepareDone
  <2> HIDE DEF due, seen
  <2>5. SessionsOK'
    BY <1>5, <2>2, <2>3, <2>4 DEF PrepareDone, TypeOK, SessionsOK, GoTo, Steps, Texts
  <2> QED  BY <2>1, <2>5 DEF TypeOK
<1> QED  BY <1>1, <1>2, <1>3, <1>4, <1>5

\* So do the steps that write packets.
LEMMA PacketType ==
  ASSUME TypeOK, NEW s \in Sessions, Prepare(s) \/ AutoApprove(s) \/ Approve(s) \/ SetAnswer(s)
  PROVE  TypeOK'
<1> DEFINE a == cur[s]
<1>1. CASE Prepare(s)
  <2>1. PICK items \in {"none", "open"} :
          /\ NewPacket(s, items)
          /\ IF s \in Workers
               THEN /\ GoTo(s, IF items = "none" /\ OptInSeen(s) THEN "autoApprove" ELSE "prepNext")
                    /\ view' = [view EXCEPT ![s][a] = IF items = "none" THEN "PREPARED" ELSE "NEEDS_REVIEW"]
                    /\ KeepSource(s)
                    /\ UNCHANGED <<cur, pkt, todo, res>>
               ELSE Rest(s)
    BY <1>1 DEF Prepare
  <2>2. a \in Apps => Append(packets[a], [approved |-> FALSE, items |-> items]) \in Seq(Packet)
    BY DEF TypeOK, RowsOK, Packet, Items
  <2>3. packets' \in [Apps -> Seq(Packet)]
    BY <2>1, <2>2, ReplaceHistory DEF NewPacket, TypeOK, RowsOK
  <2>4. appState' \in [Apps -> Texts]
    BY <2>1 DEF NewPacket, SetState, TypeOK, RowsOK, Texts, States
  <2>5. RowsOK' /\ AroundOK'
    BY <1>1, <2>3, <2>4 DEF Prepare, TypeOK, RowsOK, AroundOK, envVars, history, Texts
  <2>6. SessionsOK'
    <3>1. CASE s \in Workers
      <4>1. view' \in [Sessions -> [Apps -> Texts]]
        BY <2>1, <3>1, ViewType DEF TypeOK, Texts, States
      <4> QED  BY <2>1, <3>1, <4>1 DEF TypeOK, SessionsOK, GoTo, KeepSource, Steps, Texts
    <3>2. CASE s \notin Workers
      BY <2>1, <3>2, RestType DEF TypeOK
    <3> QED  BY <3>1, <3>2
  <2> QED  BY <2>5, <2>6 DEF TypeOK
<1>2. CASE AutoApprove(s)
  <2> DEFINE n == Len(packets[a])
             p == [packets[a][n] EXCEPT !.approved = TRUE]
  <2>1. CASE Latest(a).items \in {"none", "on_site"}
    <3>1. /\ packets' = [packets EXCEPT ![a] = [packets[a] EXCEPT ![n] = p]]
          /\ SetState(a, "APPROVED")
          /\ GoTo(s, "prepNext")
          /\ view' = [view EXCEPT ![s][a] = "APPROVED"]
          /\ UNCHANGED <<cur, pkt, todo, src, res>>
      BY <1>2, <2>1 DEF AutoApprove
    <3>2. ASSUME a \in Apps PROVE [packets[a] EXCEPT ![n] = p] \in Seq(Packet)
      <4>1. packets[a] \in Seq(Packet)
        BY <3>2 DEF TypeOK, RowsOK
      <4>2. n \in 1..Len(packets[a]) => p \in Packet
        BY <4>1, ElementOfSeq, PacketField
      <4> QED  BY <4>1, <4>2, ReplacePacket
    <3>3. packets' \in [Apps -> Seq(Packet)]
      BY <3>1, <3>2, ReplaceHistory DEF TypeOK, RowsOK
    <3>4. appState' \in [Apps -> Texts]
      BY <3>1 DEF SetState, TypeOK, RowsOK, Texts, States
    <3>5. RowsOK' /\ AroundOK'
      BY <1>2, <3>3, <3>4 DEF AutoApprove, TypeOK, RowsOK, AroundOK, envVars, history, Texts
    <3>6. view' \in [Sessions -> [Apps -> Texts]]
      BY <3>1, ViewType DEF TypeOK, Texts, States
    <3>7. SessionsOK'
      BY <3>1, <3>6 DEF TypeOK, SessionsOK, GoTo, Steps, Texts
    <3> QED  BY <3>5, <3>7 DEF TypeOK
  <2>2. CASE Latest(a).items \notin {"none", "on_site"}
    BY <1>2, <2>2, RestType DEF AutoApprove, TypeOK, RowsOK, AroundOK, envVars, history
  <2> QED  BY <2>1, <2>2
<1>3. CASE Approve(s)
  <2> DEFINE v == pkt[s].version
             p == [approved |-> TRUE, items |-> IF pkt[s].items = "open" THEN "on_site" ELSE packets[a][v].items]
  <2>1. packets' = [packets EXCEPT ![a] = [packets[a] EXCEPT ![v] = p]]
    BY <1>3 DEF Approve
  <2>2. ASSUME a \in Apps PROVE [packets[a] EXCEPT ![v] = p] \in Seq(Packet)
    <3>1. packets[a] \in Seq(Packet)
      BY <2>2 DEF TypeOK, RowsOK
    <3>2. v \in 1..Len(packets[a]) => p \in Packet
      BY <3>1, ElementOfSeq DEF Packet, Items
    <3> QED  BY <3>1, <3>2, ReplacePacket
  <2>3. packets' \in [Apps -> Seq(Packet)]
    BY <2>1, <2>2, ReplaceHistory DEF TypeOK, RowsOK
  <2>4. appState' \in [Apps -> Texts]
    BY <1>3 DEF Approve, SetState, TypeOK, RowsOK, Texts, States
  <2> QED
    BY <1>3, <2>3, <2>4, RestType DEF Approve, TypeOK, RowsOK, AroundOK, envVars, history, Texts
<1>4. CASE SetAnswer(s)
  <2> DEFINE v == pkt[s].version
  <2>1. PICK items \in {"none", "open"} :
          packets' = [packets EXCEPT ![a] = [packets[a] EXCEPT ![v] = [packets[a][v] EXCEPT !.items = items]]]
    BY <1>4 DEF SetAnswer
  <2> DEFINE p == [packets[a][v] EXCEPT !.items = items]
  <2>2. ASSUME a \in Apps PROVE [packets[a] EXCEPT ![v] = p] \in Seq(Packet)
    <3>1. packets[a] \in Seq(Packet)
      BY <2>2 DEF TypeOK, RowsOK
    <3>2. v \in 1..Len(packets[a]) => p \in Packet
      BY <3>1, ElementOfSeq, PacketField DEF Items
    <3> QED  BY <3>1, <3>2, ReplacePacket
  <2>3. packets' \in [Apps -> Seq(Packet)]
    BY <2>1, <2>2, ReplaceHistory DEF TypeOK, RowsOK
  <2> QED
    BY <1>4, <2>3, RestType DEF SetAnswer, TypeOK, RowsOK, AroundOK, envVars, history
<1> QED  BY <1>1, <1>2, <1>3, <1>4

\* So do the steps of try_submit.
LEMMA SubmitType ==
  ASSUME TypeOK, SessionsAgree, NEW s \in Sessions, SubmitNext(s) \/ SubmitDone(s) \/ Submit(s)
  PROVE  TypeOK'
<1> USE DEF rowVars, envVars, history, Texts
<1>1. CASE SubmitNext(s)
  <2>1. PICK a \in todo[s] :
          /\ todo' = [todo EXCEPT ![s] = @ \ {a}]
          /\ IF OptInSeen(s)
               THEN GoTo(s, "gate") /\ cur' = [cur EXCEPT ![s] = a] /\ UNCHANGED handoff
               ELSE OpenHandoff(a) /\ UNCHANGED <<pc, cur>>
    BY <1>1 DEF SubmitNext
  <2>2. RowsOK' /\ AroundOK'
    BY <1>1, <2>1 DEF SubmitNext, OpenHandoff, TypeOK, RowsOK, AroundOK
  <2>3. SessionsOK'
    <3>1. a \in Apps
      BY DEF TypeOK, SessionsOK
    <3>2. pc' \in [Sessions -> Steps] /\ cur' \in [Sessions -> Apps \union {NoApp}]
      BY <2>1, <3>1 DEF TypeOK, SessionsOK, GoTo, Steps
    <3>3. /\ todo' \in [Sessions -> SUBSET Apps] /\ src' \in [Sessions -> {"unread", "in", "out"}]
          /\ UNCHANGED <<view, pkt, res>>
      BY <1>1, <2>1 DEF SubmitNext, KeepSource, TypeOK, SessionsOK
    <3> QED  BY <3>2, <3>3 DEF TypeOK, SessionsOK
  <2> QED  BY <2>2, <2>3 DEF TypeOK
<1>2. CASE SubmitDone(s)
  BY <1>2, RestType DEF SubmitDone, TypeOK, RowsOK, AroundOK
<1>3. CASE GatePass(s)
  BY <1>3, GoToType DEF GatePass, TypeOK, RowsOK, AroundOK, Steps
<1>4. CASE GateBlock(s)
  BY <1>4, ReturnType DEF GateBlock, OpenHandoff, TypeOK, RowsOK, AroundOK
<1>5. CASE Claim(s)
  <2>1. CASE MayClaim(cur[s])
    <3>1. attPacket' \in [Apps -> Nat]
      <4>1. cur[s] \in Apps => Len(packets[cur[s]]) \in Nat
        BY DEF TypeOK, RowsOK
      <4>2. attPacket' = [attPacket EXCEPT ![cur[s]] = Len(packets[cur[s]])]
        BY <1>5, <2>1 DEF Claim, Hold
      <4> QED  BY <4>1, <4>2, Replace DEF TypeOK, RowsOK
    <3>2. RowsOK' /\ AroundOK'
      BY <1>5, <2>1, <3>1 DEF Claim, Hold, TypeOK, RowsOK, AroundOK, AttemptStatus
    <3>3. SessionsOK'
      BY <1>5, <2>1, GoToType DEF Claim, TypeOK, Steps
    <3> QED  BY <3>2, <3>3 DEF TypeOK
  <2>2. CASE ~MayClaim(cur[s])
    BY <1>5, <2>2, ReturnType DEF Claim, TypeOK, RowsOK, AroundOK
  <2> QED  BY <2>1, <2>2
<1>6. CASE LastCheck(s)
  <2>1. CASE Paused
    BY <1>6, <2>1, ReturnType DEF LastCheck, TypeOK, RowsOK, AroundOK, AttemptStatus, Claimable
  <2>2. CASE ~Paused
    BY <1>6, <2>2, GoToType DEF LastCheck, TypeOK, RowsOK, AroundOK, Steps
  <2> QED  BY <2>1, <2>2
<1>7. CASE AdapterBegin(s)
  <2>1. RowsOK' /\ AroundOK'
    BY <1>7 DEF AdapterBegin, TypeOK, RowsOK, AroundOK
  <2>2. SessionsOK'
    BY <1>7 DEF AdapterBegin, GoTo, Steps, TypeOK, SessionsOK
  <2> QED  BY <2>1, <2>2 DEF TypeOK
<1>8. CASE AdapterDeliver(s)
  <2>1. delivered' \in [Apps -> Nat] /\ sentPaused' \in [Sessions -> Nat]
    <3>1. delivered' = [delivered EXCEPT ![cur[s]] = delivered[cur[s]] + 1]
      BY <1>8 DEF AdapterDeliver
    <3>2. cur[s] \in Apps => delivered[cur[s]] + 1 \in Nat
      BY DEF TypeOK, AroundOK
    <3>3. delivered' \in [Apps -> Nat]
      BY <3>1, <3>2, Replace DEF TypeOK, AroundOK
    <3>4. sentPaused' \in [Sessions -> Nat]
      BY <1>8 DEF AdapterDeliver, TypeOK, AroundOK
    <3> QED  BY <3>3, <3>4
  <2>2. RowsOK' /\ AroundOK'
    BY <1>8, <2>1 DEF AdapterDeliver, TypeOK, RowsOK, AroundOK
  <2>3. SessionsOK'
    BY <1>8 DEF AdapterDeliver, GoTo, Steps, Closed, TypeOK, SessionsOK
  <2> QED  BY <2>2, <2>3 DEF TypeOK
<1>9. CASE AdapterFail(s)
  <2>1. RowsOK' /\ AroundOK'
    BY <1>9 DEF AdapterFail, TypeOK, RowsOK, AroundOK
  <2>2. SessionsOK'
    BY <1>9 DEF AdapterFail, GoTo, Steps, TypeOK, SessionsOK
  <2> QED  BY <2>1, <2>2 DEF TypeOK
<1>10. CASE Record(s)
  <2>1. /\ attempt' = [attempt EXCEPT ![cur[s]] = res[s]]
        /\ appState' = [appState EXCEPT ![cur[s]] = Verdict(res[s])]
    BY <1>10 DEF Record, SetState, StatusOf
  <2>2. res[s] \in {"SUBMITTED", "CONFIRMED", "UNKNOWN", "FAILED", "CHALLENGE"}
    BY <1>10 DEF Record, TypeOK, SessionsOK, SessionsAgree, Agrees, AnswerTrue
  <2>3. res[s] \in AttemptStatus /\ Verdict(res[s]) \in States
    BY <2>2 DEF AttemptStatus, Claimable, Closed, Verdict, States
  <2>4. RowsOK' /\ AroundOK'
    BY <1>10, <2>1, <2>3 DEF Record, TypeOK, RowsOK, AroundOK
  <2>5. CASE res[s] \in {"SUBMITTED", "CONFIRMED"}
    BY <1>10, <2>4, <2>5, ReturnType DEF Record, TypeOK
  <2>6. CASE res[s] \notin {"SUBMITTED", "CONFIRMED"}
    BY <1>10, <2>4, <2>6, GoToType DEF Record, TypeOK, Steps
  <2> QED  BY <2>5, <2>6
<1>11. CASE Report(s)
  BY <1>11, ReturnType DEF Report, OpenHandoff, TypeOK, RowsOK, AroundOK
<1> QED
  BY <1>1, <1>2, <1>3, <1>4, <1>5, <1>6, <1>7, <1>8, <1>9, <1>10, <1>11 DEF Submit

\* So do the requests, and the crash of a session.
LEMMA RequestType ==
  ASSUME TypeOK, NEW s \in Sessions,
         \/ ManualClaim(s) \/ ManualFinish(s) \/ Decide(s) \/ Crash(s)
         \/ \E a \in Apps, op \in Requests \ {"match_now"} : Request(s, a, op)
  PROVE  TypeOK'
<1> USE DEF rowVars, envVars, history, Texts
<1>1. CASE ManualClaim(s)
  <2>1. CASE MayClaim(cur[s])
    <3>1. attPacket' \in [Apps -> Nat]
      <4>1. cur[s] \in Apps => Len(packets[cur[s]]) \in Nat
        BY DEF TypeOK, RowsOK
      <4>2. attPacket' = [attPacket EXCEPT ![cur[s]] = Len(packets[cur[s]])]
        BY <1>1, <2>1 DEF ManualClaim, Hold
      <4> QED  BY <4>1, <4>2, Replace DEF TypeOK, RowsOK
    <3>2. RowsOK' /\ AroundOK'
      BY <1>1, <2>1, <3>1 DEF ManualClaim, Hold, TypeOK, RowsOK, AroundOK, AttemptStatus
    <3>3. SessionsOK'
      BY <1>1, <2>1, GoToType DEF ManualClaim, TypeOK, Steps
    <3> QED  BY <3>2, <3>3 DEF TypeOK
  <2>2. CASE ~MayClaim(cur[s])
    BY <1>1, <2>2, RestType DEF ManualClaim, TypeOK, RowsOK, AroundOK
  <2> QED  BY <2>1, <2>2
<1>2. CASE ManualFinish(s)
  <2>1. PICK r \in {"SUBMITTED", "CONFIRMED"} :
          attempt' = [attempt EXCEPT ![cur[s]] = r] /\ SetState(cur[s], r)
    BY <1>2 DEF ManualFinish
  <2>2. attempt' \in [Apps -> AttemptStatus] /\ appState' \in [Apps -> Texts]
    BY <2>1 DEF SetState, TypeOK, RowsOK, AttemptStatus, Closed, States
  <2>3. delivered' \in [Apps -> Nat]
    <3>1. delivered' = [delivered EXCEPT ![cur[s]] = delivered[cur[s]] + 1]
      BY <1>2 DEF ManualFinish
    <3>2. cur[s] \in Apps => delivered[cur[s]] + 1 \in Nat
      BY DEF TypeOK, AroundOK
    <3> QED  BY <3>1, <3>2, Replace DEF TypeOK, AroundOK
  <2>4. RowsOK' /\ AroundOK'
    BY <1>2, <2>2, <2>3 DEF ManualFinish, TypeOK, RowsOK, AroundOK
  <2> QED  BY <1>2, <2>4, RestType DEF ManualFinish, TypeOK
<1>3. CASE Decide(s)
  <2>1. Target[pc[s]] \in States
    BY <1>3 DEF Decide, Decisions, Target, States
  <2>2. RowsOK' /\ AroundOK'
    BY <1>3, <2>1 DEF Decide, SetState, TypeOK, RowsOK, AroundOK, AttemptStatus, Closed
  <2> QED  BY <1>3, <2>2, RestType DEF Decide, TypeOK
<1>4. CASE Crash(s)
  BY <1>4, RestType DEF Crash, TypeOK, RowsOK, AroundOK
<1>5. CASE \E a \in Apps, op \in Requests \ {"match_now"} : Request(s, a, op)
  <2>1. PICK a \in Apps, op \in Requests \ {"match_now"} : Request(s, a, op)
    BY <1>5
  <2> DEFINE next == IF op = "submit" THEN "gate" ELSE op
             held == IF op \in {"approve", "set_answer"}
                       THEN [version |-> Len(packets[a]), approved |-> Latest(a).approved, items |-> Latest(a).items]
                       ELSE NoPacket
  <2>2. /\ GoTo(s, next)
        /\ cur' = [cur EXCEPT ![s] = a]
        /\ view' = [view EXCEPT ![s][a] = appState[a]]
        /\ pkt' = [pkt EXCEPT ![s] = held]
        /\ UNCHANGED <<todo, src, res>>
    BY <2>1 DEF Request
  <2>3. next \in Steps
    BY RequestsAssumption DEF Decisions, Steps
  <2>4. held \in Loaded
    <3>1. CASE op \in {"approve", "set_answer"}
      <4>1. packets[a] \in Seq(Packet) /\ packets[a] # <<>>
        BY <2>1, <3>1 DEF Request, Accepts, Editable, Decisions, TypeOK, RowsOK
      <4>2. Len(packets[a]) \in 1..Len(packets[a])
        BY <4>1, EmptySeq
      <4>3. Latest(a) \in Packet
        BY <4>1, <4>2, ElementOfSeq DEF Latest
      <4> QED  BY <3>1, <4>1, <4>3 DEF Packet, Loaded
    <3>2. CASE op \notin {"approve", "set_answer"}
      BY <3>2 DEF NoPacket, Loaded, Items
    <3> QED  BY <3>1, <3>2
  <2>5. view' \in [Sessions -> [Apps -> Texts]]
    BY <2>2, ViewType DEF TypeOK, RowsOK
  <2> HIDE DEF next, held
  <2>6. SessionsOK'
    BY <2>2, <2>3, <2>4, <2>5 DEF TypeOK, SessionsOK, GoTo
  <2>7. RowsOK' /\ AroundOK'
    BY <2>1 DEF Request, TypeOK, RowsOK, AroundOK
  <2> QED  BY <2>6, <2>7 DEF TypeOK
<1> QED  BY <1>1, <1>2, <1>3, <1>4, <1>5

\* And what happens around the pipeline.
LEMMA EnvironmentType ==
  ASSUME TypeOK, Environment
  PROVE  TypeOK'
<1> USE DEF rowVars, envVars, history, session
<1>1. SessionsOK'
  <2>1. UNCHANGED session
    BY DEF Environment, Delist, Relist, ImportApplied, DismissHandoff, DayPasses, ToggleOptIn,
           SetPaused, SwitchFile, SetPause
  <2> QED  BY <2>1 DEF TypeOK, SessionsOK
<1>2. CASE \E a \in Apps : Delist(a) \/ Relist(a)
  <2>1. PICK a \in Apps : Delist(a) \/ Relist(a)
    BY <1>2
  <2>2. appState' \in [Apps -> Texts] /\ listed' \in [Apps -> BOOLEAN]
    BY <2>1 DEF Delist, Relist, SetState, Texts, States, TypeOK, RowsOK, AroundOK
  <2> QED  BY <1>1, <2>1, <2>2 DEF Delist, Relist, Texts, TypeOK, RowsOK, AroundOK
<1>3. CASE \E a \in Apps : ImportApplied(a) \/ DismissHandoff(a) \/ DayPasses(a)
  <2>1. PICK a \in Apps : ImportApplied(a) \/ DismissHandoff(a) \/ DayPasses(a)
    BY <1>3
  <2>2. appState' \in [Apps -> Texts]
    BY <2>1 DEF ImportApplied, DismissHandoff, DayPasses, SetState, Texts, States, TypeOK, RowsOK
  <2> QED  BY <1>1, <2>1, <2>2 DEF ImportApplied, DismissHandoff, DayPasses, Texts, TypeOK, RowsOK, AroundOK
<1>4. CASE ToggleOptIn
  BY <1>1, <1>4 DEF ToggleOptIn, TypeOK, RowsOK, AroundOK
<1>5. CASE SetPaused \/ SwitchFile
  <2>1. PICK flag \in BOOLEAN, file \in BOOLEAN : SetPause(flag, file)
    BY <1>5 DEF SetPaused, SwitchFile, TypeOK, AroundOK
  <2>2. sentPaused' \in [Sessions -> Nat]
    BY <2>1 DEF SetPause, TypeOK, AroundOK
  <2> QED  BY <1>1, <2>1, <2>2 DEF SetPause, TypeOK, RowsOK, AroundOK
<1> QED  BY <1>2, <1>3, <1>4, <1>5 DEF Environment

-----------------------------------------------------------------------------
(* At most one delivery *)

\* The inductive invariant.  AtMostOnce alone is not inductive: that a send
\* finds nothing delivered follows from who holds the key (OwnedByOne), from
\* what the attempt row says of it (AttemptTellsTruth) and from what the holder
\* takes for granted (SessionsAgree).
Safe == AtMostOnce /\ AttemptTellsTruth /\ OwnedByOne /\ SessionsAgree
Inv == TypeOK /\ Safe

\* Only session s moves.
Alone(s) ==
  \A t \in Sessions \ {s} : pc'[t] = pc[t] /\ cur'[t] = cur[t] /\ res'[t] = res[t] /\ view'[t] = view[t]

LEMMA EndAlone ==
  ASSUME TypeOK, NEW s \in Sessions, Rest(s) \/ Return(s)
  PROVE  Alone(s) /\ pc'[s] \in {"idle", "subNext"}
BY DEF TypeOK, SessionsOK, Rest, Return, GoTo, Alone

LEMMA GoToAlone ==
  ASSUME TypeOK, NEW s \in Sessions, NEW step, GoTo(s, step), UNCHANGED memory
  PROVE  Alone(s) /\ pc'[s] = step /\ cur'[s] = cur[s] /\ view'[s] = view[s] /\ res'[s] = res[s]
BY DEF TypeOK, SessionsOK, GoTo, memory, Alone

\* A step of a session that touches neither attempts nor deliveries, and after
\* which the session is not in flight, disturbs nothing.
LEMMA QuietStep ==
  ASSUME Inv, NEW s \in Sessions, Alone(s), UNCHANGED <<attempt, delivered>>,
         ~InFlight(s)',
         pc'[s] \notin {"idle", "match", "prepNext", "subNext"} => cur'[s] \in Apps,
         pc'[s] = "claim" => view'[s][cur'[s]] = "APPROVED"
  PROVE  Safe'
<1> USE DEF Inv, Safe
<1>1. AtMostOnce' /\ AttemptTellsTruth'
  BY DEF AtMostOnce, AttemptTellsTruth
<1>2. OwnedByOne'
  BY DEF OwnedByOne, InFlight, Alone
<1>3. SessionsAgree'
  BY DEF SessionsAgree, Agrees, InFlight, Alone
<1> QED  BY <1>1, <1>2, <1>3

\* The steps that are quiet in this sense.
LEMMA QuietSteps ==
  ASSUME Inv, NEW s \in Sessions,
         \/ Tick(s) \/ MatchNow(s) \/ MatchCommit(s) \/ MatchClash(s)
         \/ PrepareNext(s) \/ PrepareDone(s) \/ Prepare(s) \/ AutoApprove(s) \/ Approve(s) \/ SetAnswer(s)
         \/ SubmitNext(s) \/ SubmitDone(s) \/ GatePass(s) \/ GateBlock(s) \/ Report(s) \/ Crash(s)
         \/ \E a \in Apps, op \in Requests \ {"match_now"} : Request(s, a, op)
  PROVE  Safe' /\ UNCHANGED <<attempt, delivered>>
<1> USE DEF Inv, TypeOK, SessionsOK, rowVars, history
<1>1. CASE Tick(s) \/ MatchNow(s)
  <2>1. Alone(s) /\ pc'[s] = "match" /\ UNCHANGED <<attempt, delivered>>
    BY <1>1 DEF Tick, MatchNow, LoadAll, GoTo, Alone
  <2> QED  BY <2>1, QuietStep DEF InFlight
<1>2. CASE MatchCommit(s)
  <2>1. Alone(s) /\ pc'[s] \in {"idle", "prepNext"} /\ UNCHANGED <<attempt, delivered>>
    BY <1>2 DEF MatchCommit, GoTo, Rest, Alone
  <2> QED  BY <2>1, QuietStep DEF InFlight
<1>3. CASE MatchClash(s) \/ SubmitDone(s) \/ Crash(s) \/ Approve(s) \/ SetAnswer(s) \/ GateBlock(s) \/ Report(s)
  <2>1. (Rest(s) \/ Return(s)) /\ UNCHANGED <<attempt, delivered>>
    BY <1>3 DEF MatchClash, SubmitDone, Crash, Approve, SetAnswer, GateBlock, Report
  <2>2. Alone(s) /\ pc'[s] \in {"idle", "subNext"}
    BY <2>1, EndAlone
  <2> QED  BY <2>1, <2>2, QuietStep DEF InFlight
<1>4. CASE PrepareNext(s)
  <2>1. Alone(s) /\ pc'[s] = "prepare" /\ cur'[s] \in Apps /\ UNCHANGED <<attempt, delivered>>
    BY <1>4 DEF PrepareNext, GoTo, Alone
  <2> QED  BY <2>1, QuietStep DEF InFlight
<1>5. CASE PrepareDone(s)
  <2>1. Alone(s) /\ pc'[s] = "subNext" /\ UNCHANGED <<attempt, delivered>>
    BY <1>5 DEF PrepareDone, GoTo, Alone
  <2> QED  BY <2>1, QuietStep DEF InFlight
<1>6. CASE Prepare(s)
  <2>1. Alone(s) /\ pc'[s] \in {"idle", "prepNext", "autoApprove"} /\ UNCHANGED <<attempt, delivered>>
    BY <1>6 DEF Prepare, GoTo, Rest, KeepSource, Alone
  <2>2. pc'[s] = "autoApprove" => cur'[s] \in Apps
    BY <1>6 DEF Prepare, GoTo, Rest, Safe, SessionsAgree, Agrees
  <2> QED  BY <2>1, <2>2, QuietStep DEF InFlight
<1>7. CASE AutoApprove(s)
  <2>1. Alone(s) /\ pc'[s] \in {"idle", "prepNext"} /\ UNCHANGED <<attempt, delivered>>
    BY <1>7 DEF AutoApprove, GoTo, Rest, Alone
  <2> QED  BY <2>1, QuietStep DEF InFlight
<1>8. CASE SubmitNext(s)
  <2>1. Alone(s) /\ pc'[s] \in {"subNext", "gate"} /\ UNCHANGED <<attempt, delivered>>
    BY <1>8 DEF SubmitNext, GoTo, Alone
  <2>2. pc'[s] = "gate" => cur'[s] \in Apps
    BY <1>8 DEF SubmitNext, GoTo
  <2> QED  BY <2>1, <2>2, QuietStep DEF InFlight
<1>9. CASE GatePass(s)
  <2>1. /\ Alone(s) /\ pc'[s] = "claim" /\ UNCHANGED <<attempt, delivered>>
        /\ cur'[s] = cur[s] /\ view'[s] = view[s]
    BY <1>9, GoToAlone DEF GatePass
  <2>2. cur[s] \in Apps /\ view[s][cur[s]] = "APPROVED"
    BY <1>9 DEF GatePass, GateOpen, Safe, SessionsAgree, Agrees
  <2> QED  BY <2>1, <2>2, QuietStep DEF InFlight
<1>10. CASE \E a \in Apps, op \in Requests \ {"match_now"} : Request(s, a, op)
  <2>1. PICK a \in Apps, op \in Requests \ {"match_now"} : Request(s, a, op)
    BY <1>10
  <2>2. Alone(s) /\ cur'[s] = a /\ UNCHANGED <<attempt, delivered>>
    BY <2>1 DEF Request, GoTo, Alone
  <2>3. pc'[s] \in Decisions \union {"prepare", "set_answer", "approve", "gate", "manual"}
    BY <2>1, RequestsAssumption DEF Request, GoTo
  <2> QED  BY <2>2, <2>3, QuietStep DEF InFlight, Decisions
<1> QED  BY <1>1, <1>2, <1>3, <1>4, <1>5, <1>6, <1>7, <1>8, <1>9, <1>10

\* A step on the key of application cur[s] that nobody else has in flight: what
\* remains to be shown is about that key and that session only.
Only(a) == \A b \in Apps \ {a} : attempt'[b] = attempt[b] /\ delivered'[b] = delivered[b]
Unshared(s) == \A t \in Sessions \ {s} : InFlight(t) => cur[t] # cur[s]

LEMMA KeyStep ==
  ASSUME Inv, NEW s \in Sessions, Alone(s), cur[s] \in Apps, Only(cur[s]), Unshared(s),
         delivered'[cur[s]] <= 1,
         attempt'[cur[s]] \in Claimable => delivered'[cur[s]] = 0,
         attempt'[cur[s]] \in {"SUBMITTED", "CONFIRMED"} => delivered'[cur[s]] = 1,
         InFlight(s)' => cur'[s] = cur[s] /\ attempt'[cur[s]] = "PENDING",
         Agrees(s)'
  PROVE  Safe'
<1>1. \A a \in Apps : a # cur[s] => attempt'[a] = attempt[a] /\ delivered'[a] = delivered[a]
  BY DEF Only
<1>2. AtMostOnce' /\ AttemptTellsTruth'
  BY <1>1 DEF AtMostOnce, AttemptTellsTruth, Inv, Safe
<1>3. ASSUME NEW t \in Sessions \ {s}, InFlight(t)'
      PROVE  InFlight(t) /\ cur'[t] = cur[t] /\ cur[t] # cur[s] /\ cur[t] \in Apps
  <2>1. InFlight(t) /\ cur'[t] = cur[t]
    BY <1>3 DEF Alone, InFlight
  <2>2. cur[t] \in Apps
    BY <2>1 DEF InFlight, Inv, Safe, SessionsAgree, Agrees
  <2> QED  BY <2>1, <2>2 DEF Unshared
<1>4. OwnedByOne'
  <2> SUFFICES ASSUME NEW t \in Sessions, InFlight(t)'
               PROVE  /\ attempt'[cur'[t]] = "PENDING"
                      /\ \A q \in Sessions \ {t} : InFlight(q)' => cur'[q] # cur'[t]
    BY DEF OwnedByOne
  <2>1. CASE t = s
    BY <1>3, <2>1
  <2>2. CASE t # s
    <3>1. attempt[cur[t]] = "PENDING" /\ \A q \in Sessions \ {t} : InFlight(q) => cur[q] # cur[t]
      BY <1>3, <2>2 DEF Inv, Safe, OwnedByOne
    <3> QED  BY <1>1, <1>3, <2>2, <3>1
  <2> QED  BY <2>1, <2>2
<1>5. SessionsAgree'
  <2> SUFFICES ASSUME NEW t \in Sessions, t # s PROVE Agrees(t)'
    BY DEF SessionsAgree
  <2>1. Agrees(t) /\ pc'[t] = pc[t] /\ cur'[t] = cur[t] /\ res'[t] = res[t] /\ view'[t] = view[t]
    BY DEF Inv, Safe, SessionsAgree, Alone
  <2>2. InFlight(t) => delivered'[cur[t]] = delivered[cur[t]]
    BY <1>1, <1>3, <2>1 DEF InFlight
  <2> QED  BY <2>1, <2>2 DEF Agrees, InFlight
<1> QED  BY <1>2, <1>4, <1>5 DEF Safe

\* The session in flight has its key to itself; so has one that finds it claimable.
LEMMA OwnKey ==
  ASSUME Inv, NEW s \in Sessions, InFlight(s) \/ attempt[cur[s]] # "PENDING"
  PROVE  Unshared(s)
BY DEF Inv, Safe, OwnedByOne, Unshared

\* The steps from the claim of a key to the record of its outcome.
LEMMA FlightSteps ==
  ASSUME Inv, NEW s \in Sessions,
         \/ Claim(s) \/ LastCheck(s) \/ AdapterBegin(s) \/ AdapterDeliver(s) \/ AdapterFail(s) \/ Record(s)
         \/ ManualClaim(s) \/ ManualFinish(s)
  PROVE  Safe'
<1> USE DEF history
<1> DEFINE a == cur[s]
<1>1. /\ attempt \in [Apps -> AttemptStatus] /\ delivered \in [Apps -> Nat]
      /\ pc \in [Sessions -> Steps] /\ cur \in [Sessions -> Apps \union {NoApp}]
      /\ res \in [Sessions -> {"none", "SUBMITTED", "CONFIRMED", "UNKNOWN", "FAILED", "CHALLENGE"}]
  BY DEF Inv, TypeOK, RowsOK, AroundOK, SessionsOK
<1>2. Agrees(s) /\ a \in Apps
  BY DEF Inv, Safe, SessionsAgree, Agrees, Claim, LastCheck, AdapterBegin, AdapterDeliver, AdapterFail,
         Record, ManualClaim, ManualFinish
<1>3. CASE (Claim(s) \/ ManualClaim(s)) /\ MayClaim(a)
  <2>1. PICK by \in {"auto", "manual"}, step \in {"check", "finish"} :
          Hold(a, by) /\ GoTo(s, step) /\ UNCHANGED <<memory, delivered>>
    BY <1>3 DEF Claim, ManualClaim
  <2>2. Alone(s) /\ pc'[s] = step /\ cur'[s] = a /\ view'[s] = view[s]
    BY <2>1, GoToAlone DEF Inv
  <2>3. attempt[a] # "PENDING" /\ delivered[a] = 0
    BY <1>2, <1>3 DEF MayClaim, Claimable, Inv, Safe, AttemptTellsTruth
  <2>4. Only(a) /\ attempt'[a] = "PENDING" /\ delivered'[a] = 0
    <3>1. attempt' = [attempt EXCEPT ![a] = "PENDING"] /\ delivered' = delivered
      BY <2>1 DEF Hold
    <3> QED  BY <1>1, <1>2, <2>3, <3>1 DEF Only
  <2>5. step = "check" => view[s][a] = "APPROVED"
    <3>1. CASE Claim(s)
      BY <1>2, <3>1 DEF Claim, Agrees
    <3>2. CASE ManualClaim(s)
      BY <1>1, <1>3, <2>1, <3>2 DEF ManualClaim, GoTo
    <3> QED  BY <1>3, <3>1, <3>2
  <2>6. Agrees(s)'
    BY <1>2, <2>2, <2>4, <2>5 DEF Agrees
  <2>7. Unshared(s)
    BY <2>3, OwnKey
  <2> QED  BY <1>2, <2>2, <2>4, <2>6, <2>7, KeyStep DEF Claimable
<1>4. CASE (Claim(s) \/ ManualClaim(s)) /\ ~MayClaim(a)
  <2>1. (Rest(s) \/ Return(s)) /\ UNCHANGED <<attempt, delivered>>
    BY <1>4 DEF Claim, ManualClaim
  <2>2. Alone(s) /\ pc'[s] \in {"idle", "subNext"}
    BY <2>1, EndAlone DEF Inv
  <2> QED  BY <2>1, <2>2, QuietStep DEF InFlight
<1>5. ASSUME InFlight(s)
      PROVE  Unshared(s) /\ attempt[a] = "PENDING" /\ (pc[s] # "record" /\ pc[s] # "finish" => view[s][a] = "APPROVED")
  BY <1>2, <1>5, OwnKey DEF Inv, Safe, OwnedByOne, InFlight, Agrees
<1>6. CASE LastCheck(s)
  <2>1. pc[s] = "check" /\ InFlight(s) /\ delivered' = delivered /\ delivered[a] = 0
    BY <1>2, <1>6 DEF LastCheck, InFlight, Agrees
  <2>2. CASE Paused
    <3>1. Alone(s) /\ pc'[s] \in {"idle", "subNext"}
      BY <1>6, <2>2, EndAlone DEF LastCheck, Inv
    <3>2. Only(a) /\ attempt'[a] = "FAILED"
      BY <1>1, <1>2, <1>6, <2>1, <2>2 DEF LastCheck, Only
    <3> QED  BY <1>2, <1>5, <2>1, <3>1, <3>2, KeyStep DEF Agrees, InFlight
  <2>3. CASE ~Paused
    <3>1. Alone(s) /\ pc'[s] = "call" /\ cur'[s] = a /\ view'[s] = view[s] /\ attempt' = attempt
      BY <1>6, <2>3, GoToAlone DEF LastCheck, Inv
    <3>2. Agrees(s)'
      BY <1>2, <1>5, <2>1, <3>1 DEF Agrees
    <3> QED  BY <1>2, <1>5, <2>1, <3>1, <3>2, KeyStep DEF Only, Claimable
  <2> QED  BY <2>2, <2>3
<1>7. CASE AdapterBegin(s) \/ AdapterFail(s)
  <2>1. pc[s] \in {"call", "send"} /\ InFlight(s) /\ delivered[a] = 0
    BY <1>2, <1>7 DEF AdapterBegin, AdapterFail, InFlight, Agrees
  <2>2. Alone(s) /\ cur' = cur /\ view' = view /\ attempt' = attempt /\ delivered' = delivered
    BY <1>1, <1>7 DEF AdapterBegin, AdapterFail, GoTo, Alone
  <2>3. pc'[s] \in {"send", "record"} /\ (pc'[s] = "record" => res'[s] \in {"FAILED", "CHALLENGE", "UNKNOWN"})
    BY <1>1, <1>7 DEF AdapterBegin, AdapterFail, GoTo
  <2>4. Agrees(s)'
    BY <1>2, <1>5, <2>1, <2>2, <2>3 DEF Agrees, AnswerTrue
  <2> QED  BY <1>2, <1>5, <2>1, <2>2, <2>4, KeyStep DEF Only, Claimable
<1>8. CASE AdapterDeliver(s)
  <2>1. InFlight(s) /\ delivered[a] = 0 /\ pc[s] = "send"
    BY <1>2, <1>8 DEF AdapterDeliver, InFlight, Agrees
  <2>2. Alone(s) /\ cur' = cur /\ view' = view /\ attempt' = attempt
    BY <1>1, <1>8 DEF AdapterDeliver, GoTo, Alone
  <2>3. pc'[s] = "record" /\ res'[s] \in Closed
    BY <1>1, <1>8 DEF AdapterDeliver, GoTo
  <2>4. Only(a) /\ delivered'[a] = 1
    BY <1>1, <1>2, <1>8, <2>1, <2>2 DEF AdapterDeliver, Only
  <2>5. Agrees(s)'
    BY <1>2, <1>5, <2>1, <2>2, <2>3, <2>4 DEF Agrees, AnswerTrue, Closed
  <2> QED  BY <1>2, <1>5, <2>1, <2>2, <2>4, <2>5, KeyStep DEF Claimable
<1>9. CASE Record(s)
  <2>1. InFlight(s) /\ AnswerTrue(res[s], delivered[a]) /\ delivered' = delivered
    BY <1>2, <1>9 DEF Record, InFlight, Agrees
  <2>2. attempt' = [attempt EXCEPT ![a] = res[s]]
    BY <1>9 DEF Record, StatusOf
  <2>3. Only(a) /\ attempt'[a] = res[s]
    BY <1>1, <1>2, <2>1, <2>2 DEF Only
  <2>4. Alone(s) /\ pc'[s] \in {"idle", "subNext", "report"} /\ (pc'[s] = "report" => cur'[s] = a)
    <3>1. CASE res[s] \in {"SUBMITTED", "CONFIRMED"}
      BY <1>9, <3>1, EndAlone DEF Record, Inv
    <3>2. CASE res[s] \notin {"SUBMITTED", "CONFIRMED"}
      BY <1>9, <3>2, GoToAlone DEF Record, Inv
    <3> QED  BY <3>1, <3>2
  <2>5. delivered[a] <= 1
    BY <1>2 DEF Inv, Safe, AtMostOnce
  <2>6. Agrees(s)' /\ ~InFlight(s)'
    BY <1>2, <2>4 DEF Agrees, InFlight
  <2>7. res[s] \in Claimable => delivered[a] = 0
    BY <2>1 DEF AnswerTrue, Claimable, Inv, TypeOK, SessionsOK
  <2>8. res[s] \in {"SUBMITTED", "CONFIRMED"} => delivered[a] = 1
    BY <2>1 DEF AnswerTrue
  <2> QED  BY <1>2, <1>5, <2>1, <2>3, <2>4, <2>5, <2>6, <2>7, <2>8, KeyStep
<1>10. CASE ManualFinish(s)
  <2>1. InFlight(s) /\ delivered[a] = 0
    BY <1>2, <1>10 DEF ManualFinish, InFlight, Agrees
  <2>2. Only(a) /\ attempt'[a] \in {"SUBMITTED", "CONFIRMED"} /\ delivered'[a] = 1
    BY <1>1, <1>2, <1>10, <2>1 DEF ManualFinish, Only
  <2>3. Alone(s) /\ pc'[s] \in {"idle", "subNext"}
    BY <1>10, EndAlone DEF ManualFinish, Inv
  <2> QED  BY <1>2, <1>5, <2>1, <2>2, <2>3, KeyStep DEF Agrees, InFlight, Claimable
<1> QED  BY <1>3, <1>4, <1>6, <1>7, <1>8, <1>9, <1>10

\* A decision of the user: the only attempt it touches is a SUBMITTED one, which
\* nobody has in flight, and it says no less than before.
LEMMA DecideStep ==
  ASSUME Inv, NEW s \in Sessions, Decide(s)
  PROVE  Safe'
<1> DEFINE a == cur[s]
<1>1. Alone(s) /\ pc'[s] \in {"idle", "subNext"} /\ delivered' = delivered
  BY EndAlone DEF Decide, Inv, history
<1>2. CASE attempt' = attempt
  BY <1>1, <1>2, QuietStep DEF InFlight
<1>3. CASE attempt[a] = "SUBMITTED" /\ attempt' = [attempt EXCEPT ![a] = "CONFIRMED"]
  <2>1. a \in Apps
    BY DEF Decide, Decisions, Inv, Safe, SessionsAgree, Agrees
  <2>2. Only(a) /\ attempt'[a] = "CONFIRMED"
    BY <1>1, <1>3, <2>1 DEF Only, Inv, TypeOK, RowsOK
  <2>3. delivered'[a] = 1
    BY <1>1, <1>3, <2>1 DEF Inv, Safe, AttemptTellsTruth
  <2>4. Unshared(s)
    BY <1>3, OwnKey
  <2> QED  BY <1>1, <2>1, <2>2, <2>3, <2>4, KeyStep DEF Agrees, InFlight, Claimable
<1> QED  BY <1>2, <1>3 DEF Decide

\* What happens around the pipeline touches no session, attempt or delivery.
LEMMA EnvironmentStep ==
  ASSUME Inv, Environment
  PROVE  Safe'
<1>1. UNCHANGED <<pc, cur, view, res, attempt, delivered>>
  BY DEF Environment, Delist, Relist, ImportApplied, DismissHandoff, DayPasses, ToggleOptIn, SetPaused,
         SwitchFile, SetPause, session, history
<1> QED
  BY <1>1 DEF Inv, Safe, AtMostOnce, AttemptTellsTruth, OwnedByOne, InFlight, SessionsAgree, Agrees

\* The inductive invariant holds in every behaviour.
LEMMA InvInit == Init => Inv
<1> SUFFICES ASSUME Init PROVE Inv
  OBVIOUS
<1>1. RowsOK /\ AroundOK
  <2>1. packets \in [Apps -> Seq(Packet)]
    BY EmptySeq DEF Init
  <2>2. attempt \in [Apps -> AttemptStatus]
    BY DEF Init, AttemptStatus, Claimable
  <2> QED  BY <2>1, <2>2 DEF Init, RowsOK, AroundOK
<1>2. NoView \in [Apps -> Texts] /\ NoPacket \in Loaded
  BY DEF NoView, Texts, NoPacket, Loaded, Items
<1>3. SessionsOK
  BY <1>2 DEF Init, SessionsOK, Steps, Texts
<1>4. Safe
  BY DEF Init, Safe, AtMostOnce, AttemptTellsTruth, OwnedByOne, InFlight, SessionsAgree, Agrees
<1> QED  BY <1>1, <1>3, <1>4 DEF Inv, TypeOK

LEMMA InvStep == Inv /\ [Next]_vars => Inv'
<1> SUFFICES ASSUME Inv, [Next]_vars PROVE Inv'
  OBVIOUS
<1>1. TypeOK /\ SessionsAgree
  BY DEF Inv, Safe
<1>2. ASSUME NEW s \in Sessions, WorkerStep(s) \/ UserStep(s) \/ Crash(s)
      PROVE  Inv'
  <2>1. TypeOK'
    BY <1>1, <1>2, MatchType, PacketType, SubmitType, RequestType DEF WorkerStep, UserStep, Handle
  <2>2. Safe'
    BY <1>2, QuietSteps, FlightSteps, DecideStep DEF WorkerStep, UserStep, Handle, Submit
  <2> QED  BY <2>1, <2>2 DEF Inv
<1>3. CASE Environment
  BY <1>1, <1>3, EnvironmentType, EnvironmentStep DEF Inv
<1>4. CASE UNCHANGED vars
  <2>1. TypeOK'
    BY <1>1, <1>4 DEF vars, TypeOK, RowsOK, AroundOK, SessionsOK
  <2>2. Safe'
    BY <1>4 DEF vars, Inv, Safe, AtMostOnce, AttemptTellsTruth, OwnedByOne, InFlight, SessionsAgree, Agrees
  <2> QED  BY <2>1, <2>2 DEF Inv
<1> QED  BY <1>2, <1>3, <1>4 DEF Next, Sessions

LEMMA InvHolds == Spec => []Inv
BY InvInit, InvStep, PTL DEF Spec

\* Every row, flag and session keeps its type.
THEOREM TypeCorrect == Spec => []TypeOK
<1>1. Inv => TypeOK
  BY DEF Inv
<1> QED  BY InvHolds, <1>1, PTL

\* However ticks, requests, polls, pauses and crashes interleave, and however
\* often a key is retried, the employer receives one application per key at
\* most (pipeline.py _claim_attempt).
THEOREM DeliveredOnce == Spec => []AtMostOnce
<1>1. Inv => AtMostOnce
  BY DEF Inv, Safe
<1> QED  BY InvHolds, <1>1, PTL

\* The attempt row never lies about whether the application was sent.
THEOREM AttemptTruthful == Spec => []AttemptTellsTruth
<1>1. Inv => AttemptTellsTruth
  BY DEF Inv, Safe
<1> QED  BY InvHolds, <1>1, PTL

\* From claim to record a key is PENDING and in the hands of one session.
THEOREM OneOwner == Spec => []OwnedByOne
<1>1. Inv => OwnedByOne
  BY DEF Inv, Safe
<1> QED  BY InvHolds, <1>1, PTL

\* What the session in flight takes for granted is so until it has recorded.
THEOREM HolderInformed == Spec => []SessionsAgree
<1>1. Inv => SessionsAgree
  BY DEF Inv, Safe
<1> QED  BY InvHolds, <1>1, PTL

\* The state machine accepts what every answer of the adapter leads to.
THEOREM OutcomeNeverRefused == Spec => []OutcomeRecordable
<1>1. Inv => OutcomeRecordable
  BY DEF Inv, Safe, SessionsAgree, Agrees, OutcomeRecordable, CanTransition, Transitions, Leave
<1> QED  BY InvHolds, <1>1, PTL

-----------------------------------------------------------------------------
(* The pipeline implements SubmitOnce *)

\* The ways in which the attempt and the deliveries of one key may change.
KeyMoves(a) ==
  \/ attempt[a] \in Claimable /\ attempt'[a] = "PENDING" /\ delivered'[a] = delivered[a]
  \/ /\ attempt[a] = "PENDING"
     /\ delivered'[a] = delivered[a] \/ (delivered[a] = 0 /\ delivered'[a] = 1)
     /\ attempt'[a] \in {"PENDING"} \union Claimable \union Closed
  \/ attempt[a] \in Closed /\ attempt'[a] \in Closed /\ delivered'[a] = delivered[a]

\* Each of them is a step of SubmitOnce, or none.
LEMMA MovesMap ==
  ASSUME Inv, Inv', NEW a \in Apps, Only(a), KeyMoves(a)
  PROVE  [Once!Next]_(Once!vars)
<1>1. delivered \in [Apps -> Nat] /\ delivered' \in [Apps -> Nat]
  BY DEF Inv, TypeOK, AroundOK
<1>2. delivered' = [delivered EXCEPT ![a] = delivered'[a]]
  BY <1>1 DEF Only
<1>3. Right \in [Apps -> {"held", "free", "closed"}] /\ Right' = [Right EXCEPT ![a] = Right'[a]]
  BY DEF Right, Only
<1>4. /\ Right[a] = (IF attempt[a] = "PENDING" THEN "held" ELSE IF attempt[a] \in Claimable THEN "free" ELSE "closed")
      /\ Right'[a] = (IF attempt'[a] = "PENDING" THEN "held" ELSE IF attempt'[a] \in Claimable THEN "free" ELSE "closed")
  BY DEF Right
<1>5. /\ attempt'[a] \in Claimable => delivered'[a] = 0
      /\ attempt[a] \in Claimable => delivered[a] = 0
  BY DEF Inv, Safe, AttemptTellsTruth
<1>6. delivered'[a] = delivered[a] => delivered' = delivered
  BY <1>1, <1>2
<1>7. Right'[a] = Right[a] => Right' = Right
  BY <1>3
<1>8. CASE attempt[a] \in Claimable /\ attempt'[a] = "PENDING" /\ delivered'[a] = delivered[a]
  <2>1. Right[a] = "free" /\ Right'[a] = "held"
    BY <1>4, <1>8 DEF Claimable
  <2>2. Once!Acquire(a)
    BY <1>3, <1>6, <1>8, <2>1 DEF Once!Acquire
  <2> QED  BY <2>2 DEF Once!Next
<1>9. CASE attempt[a] = "PENDING" /\ attempt'[a] \in Claimable /\ delivered'[a] = delivered[a]
  <2>1. Right[a] = "held" /\ Right'[a] = "free" /\ delivered[a] = 0
    BY <1>4, <1>5, <1>9 DEF Claimable
  <2>2. Once!Release(a)
    BY <1>3, <1>6, <1>9, <2>1 DEF Once!Release
  <2> QED  BY <2>2 DEF Once!Next
<1>10. CASE attempt[a] = "PENDING" /\ attempt'[a] = "PENDING" /\ delivered[a] = 0 /\ delivered'[a] = 1
  <2>1. Right[a] = "held" /\ Right' = Right
    BY <1>4, <1>7, <1>10
  <2>2. Once!Deliver(a)
    BY <1>2, <1>10, <2>1 DEF Once!Deliver
  <2> QED  BY <2>2 DEF Once!Next
<1>11. CASE attempt[a] = "PENDING" /\ attempt'[a] \in Closed /\ delivered'[a] = delivered[a]
  <2>1. Right[a] = "held" /\ Right'[a] = "closed"
    BY <1>4, <1>11 DEF Closed, Claimable
  <2>2. Once!Close(a)
    BY <1>3, <1>6, <1>11, <2>1 DEF Once!Close
  <2> QED  BY <2>2 DEF Once!Next
<1>12. CASE attempt[a] = "PENDING" /\ attempt'[a] \in Closed /\ delivered[a] = 0 /\ delivered'[a] = 1
  <2>1. Right[a] = "held" /\ Right'[a] = "closed"
    BY <1>4, <1>12 DEF Closed, Claimable
  <2>2. Once!DeliverAndClose(a)
    BY <1>2, <1>3, <1>12, <2>1 DEF Once!DeliverAndClose
  <2> QED  BY <2>2 DEF Once!Next
<1>13. CASE Right'[a] = Right[a] /\ delivered'[a] = delivered[a]
  BY <1>6, <1>7, <1>13 DEF Once!vars
<1> QED
  BY <1>4, <1>5, <1>8, <1>9, <1>10, <1>11, <1>12, <1>13 DEF KeyMoves, Closed, Claimable

LEMMA FlightMaps ==
  ASSUME Inv, Inv', NEW s \in Sessions,
         \/ Claim(s) \/ LastCheck(s) \/ AdapterBegin(s) \/ AdapterDeliver(s) \/ AdapterFail(s) \/ Record(s)
         \/ ManualClaim(s) \/ ManualFinish(s) \/ Decide(s)
  PROVE  [Once!Next]_(Once!vars)
<1> USE DEF history
<1> DEFINE a == cur[s]
<1>1. attempt \in [Apps -> AttemptStatus] /\ delivered \in [Apps -> Nat]
  BY DEF Inv, TypeOK, RowsOK, AroundOK
<1>2. Agrees(s) /\ a \in Apps
  BY DEF Inv, Safe, SessionsAgree, Agrees, Claim, LastCheck, AdapterBegin, AdapterDeliver, AdapterFail,
         Record, ManualClaim, ManualFinish, Decide, Decisions
<1>3. InFlight(s) => attempt[a] = "PENDING"
  BY DEF Inv, Safe, OwnedByOne
<1>4. CASE UNCHANGED <<attempt, delivered>>
  BY <1>4 DEF Once!vars, Right
<1>5. CASE (Claim(s) \/ ManualClaim(s)) /\ MayClaim(a)
  <2>1. attempt' = [attempt EXCEPT ![a] = "PENDING"] /\ delivered' = delivered
    BY <1>5 DEF Claim, ManualClaim, Hold
  <2>2. Only(a) /\ KeyMoves(a)
    BY <1>1, <1>2, <1>5, <2>1 DEF Only, KeyMoves, MayClaim
  <2> QED  BY <1>2, <2>2, MovesMap
<1>6. CASE LastCheck(s) /\ Paused
  <2>1. attempt' = [attempt EXCEPT ![a] = "FAILED"] /\ delivered' = delivered
    BY <1>6 DEF LastCheck
  <2>2. Only(a) /\ KeyMoves(a)
    BY <1>1, <1>2, <1>3, <1>6, <2>1 DEF Only, KeyMoves, InFlight, LastCheck, Claimable
  <2> QED  BY <1>2, <2>2, MovesMap
<1>7. CASE AdapterDeliver(s)
  <2>1. delivered' = [delivered EXCEPT ![a] = delivered[a] + 1] /\ attempt' = attempt /\ delivered[a] = 0
    BY <1>2, <1>7 DEF AdapterDeliver, Agrees
  <2>2. Only(a) /\ KeyMoves(a)
    BY <1>1, <1>2, <1>3, <1>7, <2>1 DEF Only, KeyMoves, InFlight, AdapterDeliver
  <2> QED  BY <1>2, <2>2, MovesMap
<1>8. CASE Record(s)
  <2>1. attempt' = [attempt EXCEPT ![a] = res[s]] /\ delivered' = delivered
    BY <1>8 DEF Record, StatusOf
  <2>2. res[s] \in Claimable \union Closed
    BY <1>2, <1>8 DEF Record, Agrees, AnswerTrue, Inv, TypeOK, SessionsOK, Claimable, Closed
  <2>3. Only(a) /\ KeyMoves(a)
    BY <1>1, <1>2, <1>3, <1>8, <2>1, <2>2 DEF Only, KeyMoves, InFlight, Record
  <2> QED  BY <1>2, <2>3, MovesMap
<1>9. CASE ManualFinish(s)
  <2>1. PICK r \in {"SUBMITTED", "CONFIRMED"} : attempt' = [attempt EXCEPT ![a] = r]
    BY <1>9 DEF ManualFinish
  <2>2. delivered' = [delivered EXCEPT ![a] = delivered[a] + 1] /\ delivered[a] = 0
    BY <1>2, <1>9 DEF ManualFinish, Agrees
  <2>3. Only(a) /\ KeyMoves(a)
    BY <1>1, <1>2, <1>3, <1>9, <2>1, <2>2 DEF Only, KeyMoves, InFlight, ManualFinish, Closed
  <2> QED  BY <1>2, <2>3, MovesMap
<1>10. CASE Decide(s) /\ attempt[a] = "SUBMITTED" /\ attempt' = [attempt EXCEPT ![a] = "CONFIRMED"]
  <2>1. delivered' = delivered
    BY <1>10 DEF Decide
  <2>2. Only(a) /\ KeyMoves(a)
    BY <1>1, <1>2, <1>10, <2>1 DEF Only, KeyMoves, Closed
  <2> QED  BY <1>2, <2>2, MovesMap
<1>11. CASE \/ (Claim(s) \/ ManualClaim(s)) /\ ~MayClaim(a)
            \/ LastCheck(s) /\ ~Paused
            \/ AdapterBegin(s) \/ AdapterFail(s)
  <2>1. UNCHANGED <<attempt, delivered>>
    BY <1>11 DEF Claim, ManualClaim, LastCheck, AdapterBegin, AdapterFail
  <2> QED  BY <1>4, <2>1
<1>12. CASE Decide(s) /\ attempt' = attempt
  BY <1>4, <1>12 DEF Decide
<1> QED  BY <1>5, <1>6, <1>7, <1>8, <1>9, <1>10, <1>11, <1>12 DEF Decide

\* Initial states map to initial states, and every step to a step or a stutter.
THEOREM Implements == Spec => ImplementsSubmitOnce
<1>1. Init => Once!Init
  BY DEF Init, Once!Init, Right, Claimable
<1>2. ASSUME Inv, Inv', [Next]_vars PROVE [Once!Next]_(Once!vars)
  <2>1. ASSUME NEW s \in Sessions, WorkerStep(s) \/ UserStep(s) \/ Crash(s)
        PROVE  [Once!Next]_(Once!vars)
    BY <1>2, <2>1, FlightMaps, QuietSteps DEF WorkerStep, UserStep, Handle, Submit, Once!vars, Right
  <2>2. CASE Environment \/ UNCHANGED vars
    <3>1. UNCHANGED <<attempt, delivered>>
      BY <2>2 DEF vars, Environment, Delist, Relist, ImportApplied, DismissHandoff, DayPasses,
                 ToggleOptIn, SetPaused, SwitchFile, SetPause, history
    <3> QED  BY <3>1 DEF Once!vars, Right
  <2> QED  BY <1>2, <2>1, <2>2 DEF Next, Sessions
<1> QED  BY InvHolds, <1>1, <1>2, PTL DEF Spec, ImplementsSubmitOnce, Once!Spec

-----------------------------------------------------------------------------
(* What the checks around a submission achieve, for any number of           *)
(* applications and sessions: what proves an application to be made, whose  *)
(* consent it had, what a pause holds back, how many a day; and, where one  *)
(* session works at a time, that decisions and approved packets stand.      *)
-----------------------------------------------------------------------------
(* Steps of sessions *)

\* What a session may do.
SessionStep(s) ==
  \/ s \in Workers /\ WorkerStep(s)
  \/ s \in Users /\ UserStep(s)
  \/ Crash(s)

\* A step is one of a session, of the environment, or none.
LEMMA StepCases ==
  ASSUME [Next]_vars
  PROVE  (\E s \in Sessions : SessionStep(s)) \/ Environment \/ UNCHANGED vars
BY DEF Next, Sessions, SessionStep

\* A session moves nobody but itself.
LEMMA StepAlone ==
  ASSUME TypeOK, NEW s \in Sessions, SessionStep(s)
  PROVE  Alone(s)
<1> USE DEF TypeOK, SessionsOK
<1>1. CASE Tick(s) \/ MatchNow(s)
  BY <1>1 DEF Tick, MatchNow, LoadAll, GoTo, Alone
<1>2. CASE MatchCommit(s) \/ MatchClash(s)
  BY <1>2 DEF MatchCommit, MatchClash, GoTo, Rest, Alone
<1>3. CASE PrepareNext(s) \/ PrepareDone(s)
  BY <1>3 DEF PrepareNext, PrepareDone, GoTo, Alone
<1>4. CASE Prepare(s)
  BY <1>4 DEF Prepare, GoTo, Rest, KeepSource, Alone
<1>5. CASE AutoApprove(s) \/ Approve(s) \/ SetAnswer(s)
  BY <1>5 DEF AutoApprove, Approve, SetAnswer, GoTo, Rest, Alone
<1>6. CASE SubmitNext(s)
  BY <1>6 DEF SubmitNext, GoTo, Alone
<1>7. CASE Rest(s) \/ Return(s)
  BY <1>7, EndAlone
<1>8. CASE GatePass(s) \/ Claim(s) \/ LastCheck(s) \/ ManualClaim(s)
  <2>1. Rest(s) \/ Return(s) \/ \E step \in Steps : GoTo(s, step) /\ UNCHANGED memory
    BY <1>8 DEF GatePass, Claim, LastCheck, ManualClaim, Steps
  <2> QED  BY <1>7, <2>1, GoToAlone
<1>9. CASE AdapterBegin(s) \/ AdapterDeliver(s) \/ AdapterFail(s)
  BY <1>9 DEF AdapterBegin, AdapterDeliver, AdapterFail, GoTo, Alone
<1>10. CASE Record(s)
  <2>1. Return(s) \/ (GoTo(s, "report") /\ UNCHANGED memory)
    BY <1>10 DEF Record
  <2> QED  BY <1>7, <2>1, GoToAlone
<1>11. CASE \E a \in Apps, op \in Requests \ {"match_now"} : Request(s, a, op)
  BY <1>11 DEF Request, GoTo, Alone
<1>12. CASE GateBlock(s) \/ Report(s) \/ SubmitDone(s) \/ ManualFinish(s) \/ Decide(s) \/ Crash(s)
  BY <1>7, <1>12 DEF GateBlock, Report, SubmitDone, ManualFinish, Decide, Crash
<1> QED
  BY <1>1, <1>2, <1>3, <1>4, <1>5, <1>6, <1>8, <1>9, <1>10, <1>11, <1>12
     DEF SessionStep, WorkerStep, UserStep, Handle, Submit

\* No other step than a request's first leads to a handler of a decision, to an
\* approval or an edit, and only the gate lets a session claim for the program.
LEMMA LeadsElsewhere ==
  ASSUME TypeOK, NEW s \in Sessions, SessionStep(s),
         ~\E a \in Apps, op \in Requests \ {"match_now"} : Request(s, a, op)
  PROVE  /\ pc'[s] \notin Decisions \union {"approve", "set_answer", "manual"}
         /\ pc'[s] = "claim" => GatePass(s)
<1> USE DEF TypeOK, SessionsOK, Decisions
<1>1. CASE Tick(s) \/ MatchNow(s) \/ MatchCommit(s) \/ PrepareNext(s) \/ PrepareDone(s) \/ Prepare(s)
           \/ AutoApprove(s) \/ SubmitNext(s)
  BY <1>1 DEF Tick, MatchNow, LoadAll, MatchCommit, PrepareNext, PrepareDone, Prepare, AutoApprove, SubmitNext, GoTo, Rest
<1>2. CASE MatchClash(s) \/ Approve(s) \/ SetAnswer(s) \/ SubmitDone(s) \/ GateBlock(s) \/ Report(s)
           \/ ManualFinish(s) \/ Decide(s) \/ Crash(s)
  <2>1. Rest(s) \/ Return(s)
    BY <1>2 DEF MatchClash, Approve, SetAnswer, SubmitDone, GateBlock, Report, ManualFinish, Decide, Crash
  <2> QED  BY <2>1, EndAlone
<1>3. CASE GatePass(s)
  BY <1>3 DEF GatePass, GoTo
<1>4. CASE Claim(s) \/ LastCheck(s) \/ ManualClaim(s) \/ Record(s)
  <2>1. Rest(s) \/ Return(s) \/ \E step \in {"check", "call", "finish", "report"} : GoTo(s, step)
    BY <1>4 DEF Claim, LastCheck, ManualClaim, Record
  <2> QED  BY <2>1, EndAlone DEF GoTo
<1>5. CASE AdapterBegin(s) \/ AdapterDeliver(s) \/ AdapterFail(s)
  BY <1>5 DEF AdapterBegin, AdapterDeliver, AdapterFail, GoTo
<1> QED
  BY <1>1, <1>2, <1>3, <1>4, <1>5 DEF SessionStep, WorkerStep, UserStep, Handle, Submit

\* What happens around the pipeline leaves sessions and attempts alone.
LEMMA Around ==
  ASSUME Environment
  PROVE  UNCHANGED <<session, rowVars, attempt, delivered>>
BY DEF Environment, Delist, Relist, ImportApplied, DismissHandoff, DayPasses, ToggleOptIn, SetPaused,
       SwitchFile, SetPause, history

-----------------------------------------------------------------------------
(* Applications shown as made *)

Made == {"SUBMITTED", "CONFIRMED"}

\* A re-evaluation leaves a state alone or moves it to one that proves nothing.
LEMMA RescoredOpen ==
  ASSUME NEW st \in Texts, NEW a \in Apps, NEW score \in {"match", "below", "excluded"}
  PROVE  /\ Rescored(st, a, score) = st \/ Rescored(st, a, score) \in States \ UserOwned
         /\ st \in UserOwned => Rescored(st, a, score) = st
<1> DEFINE from == IF st = "NONE" /\ listed[a] THEN "DISCOVERED" ELSE st
<1>1. CASE from \notin Rescorable
  <2>1. Rescored(st, a, score) = from
    BY <1>1 DEF Rescored
  <2> QED  BY <1>1, <2>1 DEF Rescorable, UserOwned
<1>2. CASE from \in Rescorable
  BY <1>2 DEF Rescored, Rescorable, States, UserOwned
<1> QED  BY <1>1, <1>2

\* What the attempt of a must say for a to be shown in state st.
Witnessed(a, st) ==
  /\ st \in Applied => attempt[a] \in Made
  /\ st \in {"CONFIRMED", "FOLLOW_UP"} => attempt[a] = "CONFIRMED"

\* A user who confirms, or notes a follow-up, has loaded an application that
\* was shown as made, so its attempt proves it.
ConfirmKnows ==
  \A s \in Sessions : cur[s] \in Apps \ External =>
    /\ pc[s] = "confirm" => attempt[cur[s]] \in Made
    /\ pc[s] = "follow_up" => attempt[cur[s]] = "CONFIRMED"

\* The table's ways to CONFIRMED and FOLLOW_UP.
LEMMA WaysToConfirm ==
  ASSUME NEW st \in States
  PROVE  /\ CanTransition(st, "CONFIRMED") => st = "SUBMITTED"
         /\ CanTransition(st, "FOLLOW_UP") => st \in {"CONFIRMED", "FOLLOW_UP"}
BY DEF CanTransition, Transitions, States, Leave

\* An attempt that proves something goes on proving it.
LEMMA MadeStays ==
  ASSUME Inv, NEW s \in Sessions, SessionStep(s), NEW a \in Apps, attempt[a] \in Made
  PROVE  attempt'[a] \in Made /\ (attempt[a] = "CONFIRMED" => attempt'[a] = "CONFIRMED")
<1>1. attempt \in [Apps -> AttemptStatus]
  BY DEF Inv, TypeOK, RowsOK
<1>2. CASE attempt' = attempt
  BY <1>2
<1>3. CASE /\ InFlight(s) \/ ((Claim(s) \/ ManualClaim(s)) /\ MayClaim(cur[s]))
           /\ \E st \in AttemptStatus : attempt' = [attempt EXCEPT ![cur[s]] = st]
  <2>1. attempt[cur[s]] \notin Made
    BY <1>3 DEF Inv, Safe, OwnedByOne, MayClaim, Claimable, Made
  <2> QED  BY <1>1, <1>3, <2>1
<1>4. CASE attempt[cur[s]] = "SUBMITTED" /\ attempt' = [attempt EXCEPT ![cur[s]] = "CONFIRMED"]
  BY <1>1, <1>4 DEF Made
<1>5. CASE Claim(s) \/ ManualClaim(s)
  BY <1>2, <1>3, <1>5 DEF Claim, ManualClaim, Hold, AttemptStatus
<1>6. CASE LastCheck(s) \/ AdapterBegin(s) \/ AdapterDeliver(s) \/ AdapterFail(s)
  BY <1>2, <1>3, <1>6 DEF LastCheck, AdapterBegin, AdapterDeliver, AdapterFail, InFlight, AttemptStatus, Claimable
<1>7. CASE Record(s)
  <2>1. res[s] \in AttemptStatus
    BY <1>7 DEF Record, Inv, Safe, SessionsAgree, Agrees, AnswerTrue, TypeOK, SessionsOK, AttemptStatus, Claimable, Closed
  <2> QED  BY <1>3, <1>7, <2>1 DEF Record, StatusOf, InFlight
<1>8. CASE ManualFinish(s)
  BY <1>3, <1>8 DEF ManualFinish, InFlight, AttemptStatus, Closed
<1>9. CASE Decide(s)
  BY <1>2, <1>4, <1>9 DEF Decide
<1> QED
  BY <1>2, <1>5, <1>6, <1>7, <1>8, <1>9, QuietSteps DEF SessionStep, WorkerStep, UserStep, Handle, Submit

\* What a session leaves in a row of applications: what was there, a state that
\* proves nothing, or one for which the attempt has the proof.
LEMMA StateWritten ==
  ASSUME Inv, ConfirmKnows, NEW s \in Sessions, SessionStep(s), NEW a \in Apps \ External
  PROVE  appState'[a] = appState[a] \/ appState'[a] \notin Applied \/ Witnessed(a, appState[a])' 
<1> DEFINE c == cur[s]
<1>1. /\ appState \in [Apps -> Texts] /\ attempt \in [Apps -> AttemptStatus]
      /\ view \in [Sessions -> [Apps -> Texts]]
  BY DEF Inv, TypeOK, RowsOK, SessionsOK, Texts
<1>2. CASE appState' = appState
  BY <1>2
<1>3. CASE \E st \in States \ Applied : SetState(c, st)
  BY <1>1, <1>3 DEF SetState
<1>4. CASE MatchCommit(s)
  <2>1. PICK score \in [Apps -> {"match", "below", "excluded"}] :
          appState'[a] = IF Rescored(view[s][a], a, score[a]) # view[s][a]
                         THEN Rescored(view[s][a], a, score[a]) ELSE appState[a]
    BY <1>4 DEF MatchCommit
  <2>2. \/ Rescored(view[s][a], a, score[a]) = view[s][a]
        \/ Rescored(view[s][a], a, score[a]) \in States \ UserOwned
    BY <1>1, RescoredOpen
  <2> QED  BY <2>1, <2>2 DEF Applied, UserOwned
<1>5. CASE Prepare(s)
  <2>1. UNCHANGED appState \/ SetState(c, "PREPARED") \/ SetState(c, "NEEDS_REVIEW")
    BY <1>5 DEF Prepare, NewPacket
  <2> QED  BY <1>2, <1>3, <2>1 DEF States, Applied
<1>6. CASE AutoApprove(s) \/ Approve(s)
  <2>1. UNCHANGED appState \/ SetState(c, "APPROVED")
    BY <1>6 DEF AutoApprove, Approve
  <2> QED  BY <1>2, <1>3, <2>1 DEF States, Applied
<1>7. CASE Record(s)
  <2>1. attempt' = [attempt EXCEPT ![c] = res[s]] /\ SetState(c, Verdict(res[s]))
    BY <1>7 DEF Record, StatusOf
  <2>2. res[s] \in {"SUBMITTED", "CONFIRMED", "UNKNOWN", "FAILED", "CHALLENGE"}
    BY <1>7 DEF Record, Inv, Safe, SessionsAgree, Agrees, AnswerTrue, TypeOK, SessionsOK
  <2>3. CASE res[s] \in {"SUBMITTED", "CONFIRMED"}
    <3>1. Verdict(res[s]) = res[s]
      BY <2>3 DEF Verdict
    <3> QED  BY <1>1, <2>1, <2>3, <3>1 DEF SetState, Witnessed, Made
  <2>4. CASE res[s] \in {"UNKNOWN", "FAILED", "CHALLENGE"}
    <3>1. Verdict(res[s]) \in States \ Applied
      BY <2>4 DEF Verdict, States, Applied
    <3> QED  BY <1>3, <2>1, <3>1
  <2> QED  BY <2>2, <2>3, <2>4
<1>8. CASE ManualFinish(s)
  <2>1. PICK r \in {"SUBMITTED", "CONFIRMED"} :
          attempt' = [attempt EXCEPT ![c] = r] /\ SetState(c, r)
    BY <1>8 DEF ManualFinish
  <2> QED  BY <1>1, <2>1 DEF SetState, Witnessed, Made
<1>9. CASE Decide(s)
  <2>1. CASE pc[s] \in {"confirm", "follow_up"} /\ c = a /\ SetState(c, Target[pc[s]])
    <3>1. attempt[a] \in Made /\ (pc[s] = "follow_up" => attempt[a] = "CONFIRMED")
      BY <2>1 DEF ConfirmKnows, Made
    <3>2. appState'[a] = Target[pc[s]] /\ Target[pc[s]] \in {"CONFIRMED", "FOLLOW_UP"}
      BY <1>1, <2>1 DEF SetState, Target
    <3>3. attempt'[a] = "CONFIRMED"
      BY <1>1, <1>9, <2>1, <3>1 DEF Decide, Made, Target
    <3> QED  BY <3>2, <3>3 DEF Witnessed, Made
  <2>2. CASE c # a /\ SetState(c, Target[pc[s]])
    BY <1>1, <2>2 DEF SetState
  <2>3. CASE pc[s] \in Decisions \ {"confirm", "follow_up"} /\ SetState(c, Target[pc[s]])
    <3>1. Target[pc[s]] \in States \ Applied
      BY <2>3 DEF Target, Decisions, States, Applied
    <3> QED  BY <1>3, <2>3, <3>1
  <2> QED  BY <1>2, <1>9, <2>1, <2>2, <2>3 DEF Decide
<1>10. CASE \/ Tick(s) \/ MatchNow(s) \/ MatchClash(s) \/ PrepareNext(s) \/ PrepareDone(s) \/ SetAnswer(s)
            \/ SubmitNext(s) \/ SubmitDone(s) \/ GatePass(s) \/ GateBlock(s) \/ Claim(s) \/ LastCheck(s)
            \/ AdapterBegin(s) \/ AdapterDeliver(s) \/ AdapterFail(s) \/ Report(s) \/ ManualClaim(s) \/ Crash(s)
            \/ \E b \in Apps, op \in Requests \ {"match_now"} : Request(s, b, op)
  BY <1>2, <1>10
     DEF Tick, MatchNow, LoadAll, MatchClash, PrepareNext, PrepareDone, SetAnswer, SubmitNext, SubmitDone, GatePass,
         GateBlock, Claim, LastCheck, AdapterBegin, AdapterDeliver, AdapterFail, Report, ManualClaim, Crash, Request
<1> QED
  BY <1>4, <1>5, <1>6, <1>7, <1>8, <1>9, <1>10 DEF SessionStep, WorkerStep, UserStep, Handle, Submit

\* AppliedHasAttempt is inductive once it is known what those who confirm have seen.
AppliedInv == AppliedHasAttempt /\ ConfirmKnows

LEMMA AppliedStep ==
  ASSUME Inv, AppliedInv, NEW s \in Sessions, SessionStep(s)
  PROVE  AppliedInv'
<1>1. AppliedHasAttempt'
  <2> SUFFICES ASSUME NEW a \in Apps \ External PROVE Witnessed(a, appState[a])'
    BY DEF AppliedHasAttempt, Witnessed, Made
  <2>1. Witnessed(a, appState[a])
    BY DEF AppliedInv, AppliedHasAttempt, Witnessed, Made
  <2>2. CASE appState'[a] = appState[a]
    BY <2>1, <2>2, MadeStays DEF Witnessed, Made, Applied
  <2>3. CASE appState'[a] \notin Applied
    BY <2>3 DEF Witnessed, Applied
  <2> QED  BY <2>2, <2>3, StateWritten DEF AppliedInv
<1>2. ConfirmKnows'
  <2> SUFFICES ASSUME NEW t \in Sessions, cur'[t] \in Apps \ External, pc'[t] \in {"confirm", "follow_up"}
               PROVE  /\ pc'[t] = "confirm" => attempt'[cur'[t]] \in Made
                      /\ pc'[t] = "follow_up" => attempt'[cur'[t]] = "CONFIRMED"
    BY DEF ConfirmKnows
  <2>1. CASE pc'[t] = pc[t] /\ cur'[t] = cur[t]
    <3>1. attempt[cur[t]] \in Made /\ (pc[t] = "follow_up" => attempt[cur[t]] = "CONFIRMED")
      BY <2>1 DEF AppliedInv, ConfirmKnows, Made
    <3> QED  BY <2>1, <3>1, MadeStays
  <2>2. CASE t # s
    BY <2>1, <2>2, StepAlone DEF Alone, Inv
  <2>3. CASE \E a \in Apps, op \in Requests \ {"match_now"} : t = s /\ Request(s, a, op)
    <3>1. PICK a \in Apps, op \in Requests \ {"match_now"} : t = s /\ Request(s, a, op)
      BY <2>3
    <3>2. cur'[s] = a /\ pc'[s] = (IF op = "submit" THEN "gate" ELSE op)
      BY <3>1 DEF Request, GoTo, Inv, TypeOK, SessionsOK
    <3>3. a \in Apps \ External /\ op \in {"confirm", "follow_up"} /\ attempt' = attempt
      BY <3>1, <3>2 DEF Request
    <3>4. appState[a] \in States
      BY <3>1 DEF Request, Inv, TypeOK, RowsOK
    <3>5. CanTransition(appState[a], Target[op]) \/ appState[a] = Target[op]
      BY <3>1, <3>3 DEF Request, Accepts, Decisions
    <3>6. /\ op = "confirm" => appState[a] \in {"SUBMITTED", "CONFIRMED"}
          /\ op = "follow_up" => appState[a] \in {"CONFIRMED", "FOLLOW_UP"}
      BY <3>3, <3>4, <3>5, WaysToConfirm DEF Target
    <3>7. Witnessed(a, appState[a])
      BY <3>3 DEF AppliedInv, AppliedHasAttempt, Witnessed, Made
    <3> QED  BY <3>1, <3>2, <3>3, <3>6, <3>7 DEF Witnessed, Applied, Made
  <2>4. CASE t = s /\ ~\E a \in Apps, op \in Requests \ {"match_now"} : Request(s, a, op)
    <3>1. pc'[s] \notin {"confirm", "follow_up"}
      BY <2>4, LeadsElsewhere DEF Inv, Decisions
    <3> QED  BY <2>4, <3>1
  <2> QED  BY <2>2, <2>3, <2>4
<1> QED  BY <1>1, <1>2 DEF AppliedInv

\* What happens around the pipeline shows only imported applications as made.
LEMMA AppliedAround ==
  ASSUME Inv, AppliedInv, Environment
  PROVE  AppliedInv'
<1>1. UNCHANGED <<pc, cur, attempt>>
  BY Around DEF session
<1>2. ASSUME NEW a \in Apps \ External
      PROVE  appState'[a] = appState[a] \/ appState'[a] = "EXPIRED"
  BY DEF Environment, Delist, Relist, ImportApplied, DismissHandoff, DayPasses, ToggleOptIn, SetPaused,
         SwitchFile, SetPause, SetState, rowVars, Inv, TypeOK, RowsOK
<1>3. AppliedHasAttempt'
  BY <1>1, <1>2 DEF AppliedInv, AppliedHasAttempt, Applied
<1>4. ConfirmKnows'
  BY <1>1 DEF AppliedInv, ConfirmKnows
<1> QED  BY <1>3, <1>4 DEF AppliedInv

\* Outside of imports, an application is shown as made, confirmed or followed
\* up only with the attempt that proves it, whatever sessions write from stale
\* copies (pipeline.py try_submit, record_manual_submission; api/jobs.py).
THEOREM AppliedProved == Spec => []AppliedHasAttempt
<1>1. Init => AppliedInv
  BY DEF Init, AppliedInv, AppliedHasAttempt, ConfirmKnows, Applied
<1>2. Inv /\ AppliedInv /\ [Next]_vars => AppliedInv'
  <2> SUFFICES ASSUME Inv, AppliedInv, [Next]_vars PROVE AppliedInv'
    OBVIOUS
  <2>1. CASE UNCHANGED vars
    BY <2>1 DEF vars, AppliedInv, AppliedHasAttempt, ConfirmKnows
  <2> QED  BY <2>1, StepCases, AppliedStep, AppliedAround
<1>3. AppliedInv => AppliedHasAttempt
  BY DEF AppliedInv
<1> QED  BY InvHolds, <1>1, <1>2, <1>3, PTL DEF Spec

-----------------------------------------------------------------------------
(* The pause *)

\* While nothing is paused the history is empty, and a session that is about to
\* send has sent nothing during the pause that has begun since its last check.
PauseInv ==
  /\ ~Paused => \A s \in Sessions : sentPaused[s] = 0
  /\ \A s \in Sessions : sentPaused[s] <= 1 /\ (pc[s] = "send" => sentPaused[s] = 0)

\* The step that sends, and the check right before it.
LEMMA PauseSteps ==
  ASSUME TypeOK, PauseInv, NEW s \in Sessions, AdapterBegin(s) \/ AdapterDeliver(s)
  PROVE  PauseInv'
<1> USE DEF TypeOK, SessionsOK, AroundOK
<1>1. UNCHANGED <<paused, killFile>>
  BY DEF AdapterBegin, AdapterDeliver, envVars
<1>2. CASE AdapterBegin(s)
  <2>1. sentPaused' = sentPaused /\ (pc'[s] = "send" => ~Paused) /\ \A t \in Sessions \ {s} : pc'[t] = pc[t]
    BY <1>2 DEF AdapterBegin, GoTo, history
  <2> QED  BY <1>1, <2>1 DEF PauseInv, Paused
<1>3. CASE AdapterDeliver(s)
  <2>1. /\ pc[s] = "send" /\ pc'[s] = "record" /\ \A t \in Sessions \ {s} : pc'[t] = pc[t]
        /\ sentPaused' = IF Paused THEN [sentPaused EXCEPT ![s] = sentPaused[s] + 1] ELSE sentPaused
    BY <1>3 DEF AdapterDeliver, GoTo, Paused
  <2>2. sentPaused[s] = 0
    BY <2>1 DEF PauseInv
  <2> QED  BY <1>1, <2>1, <2>2 DEF PauseInv, Paused
<1> QED  BY <1>2, <1>3

\* Every other step of a session leaves the history alone and is not about to send.
LEMMA NoSend ==
  ASSUME TypeOK, NEW s \in Sessions, SessionStep(s), ~AdapterBegin(s), ~AdapterDeliver(s)
  PROVE  pc'[s] # "send" /\ UNCHANGED <<sentPaused, paused, killFile>>
<1> USE DEF TypeOK, SessionsOK, envVars, history
<1>1. CASE Tick(s) \/ MatchNow(s) \/ MatchCommit(s) \/ PrepareNext(s) \/ PrepareDone(s) \/ Prepare(s)
           \/ AutoApprove(s) \/ SubmitNext(s)
  BY <1>1 DEF Tick, MatchNow, LoadAll, MatchCommit, PrepareNext, PrepareDone, Prepare, AutoApprove, SubmitNext,
              GoTo, Rest
<1>2. CASE MatchClash(s) \/ Approve(s) \/ SetAnswer(s) \/ SubmitDone(s) \/ GateBlock(s) \/ Report(s)
           \/ ManualFinish(s) \/ Decide(s) \/ Crash(s)
  <2>1. (Rest(s) \/ Return(s)) /\ UNCHANGED <<sentPaused, paused, killFile>>
    BY <1>2 DEF MatchClash, Approve, SetAnswer, SubmitDone, GateBlock, Report, ManualFinish, Decide, Crash
  <2> QED  BY <2>1, EndAlone
<1>3. CASE GatePass(s) \/ AdapterFail(s)
  BY <1>3 DEF GatePass, AdapterFail, GoTo
<1>4. CASE Claim(s) \/ LastCheck(s) \/ ManualClaim(s) \/ Record(s)
  <2>1. /\ Rest(s) \/ Return(s) \/ \E step \in {"check", "call", "finish", "report"} : GoTo(s, step)
        /\ UNCHANGED <<sentPaused, paused, killFile>>
    BY <1>4 DEF Claim, LastCheck, ManualClaim, Record
  <2> QED  BY <2>1, EndAlone DEF GoTo
<1>5. CASE \E a \in Apps, op \in Requests \ {"match_now"} : Request(s, a, op)
  <2>1. PICK a \in Apps, op \in Requests \ {"match_now"} : Request(s, a, op)
    BY <1>5
  <2> QED  BY <2>1, RequestsAssumption DEF Request, GoTo, Decisions
<1> QED
  BY <1>1, <1>2, <1>3, <1>4, <1>5 DEF SessionStep, WorkerStep, UserStep, Handle, Submit

\* Pressing the button, and creating or removing the file.
LEMMA PauseAround ==
  ASSUME TypeOK, PauseInv, Environment
  PROVE  PauseInv'
<1>1. UNCHANGED <<pc, cur>>
  BY Around DEF session
<1>2. CASE SetPaused \/ SwitchFile
  <2>1. PICK flag \in BOOLEAN, file \in BOOLEAN : SetPause(flag, file)
    BY <1>2 DEF SetPaused, SwitchFile, TypeOK, AroundOK
  <2> QED  BY <1>1, <2>1 DEF SetPause, PauseInv, Paused
<1>3. CASE UNCHANGED <<paused, killFile, sentPaused>>
  BY <1>1, <1>3 DEF PauseInv, Paused
<1> QED
  BY <1>2, <1>3 DEF Environment, Delist, Relist, ImportApplied, DismissHandoff, DayPasses, ToggleOptIn, envVars, history

\* A session sends at most one application after a pause began, the one that
\* was past its last check (controls.py, submission/base.py should_abort).
THEOREM PauseHolds == Spec => []PauseBound
<1>1. Init => PauseInv
  BY DEF Init, PauseInv
<1>2. TypeOK /\ PauseInv /\ [Next]_vars => PauseInv'
  <2> SUFFICES ASSUME TypeOK, PauseInv, [Next]_vars PROVE PauseInv'
    OBVIOUS
  <2>1. ASSUME NEW s \in Sessions, SessionStep(s) PROVE PauseInv'
    <3>1. CASE ~AdapterBegin(s) /\ ~AdapterDeliver(s)
      BY <2>1, <3>1, NoSend, StepAlone DEF PauseInv, Paused, Alone
    <3> QED  BY <2>1, <3>1, PauseSteps
  <2>2. CASE UNCHANGED vars
    BY <2>2 DEF vars, PauseInv, Paused
  <2> QED  BY <2>1, <2>2, StepCases, PauseAround
<1>3. PauseInv => PauseBound
  BY DEF PauseInv, PauseBound
<1> QED  BY TypeCorrect, <1>1, <1>2, <1>3, PTL DEF Spec

-----------------------------------------------------------------------------
(* Consent *)

\* One packet of one history is replaced; out of its range nothing happens.
LEMMA PutPacket ==
  ASSUME packets \in [Apps -> Seq(Packet)], NEW c, NEW v, NEW p,
         packets' = [packets EXCEPT ![c] = [packets[c] EXCEPT ![v] = p]], NEW a \in Apps
  PROVE  /\ Len(packets'[a]) = Len(packets[a])
         /\ \A n \in 1..Len(packets[a]) : packets'[a][n] = IF a = c /\ n = v THEN p ELSE packets[a][n]
<1>1. packets[a] \in Seq(Packet)
  OBVIOUS
<1>2. CASE a # c
  BY <1>2
<1>3. CASE a = c
  <2>1. packets'[a] = [packets[a] EXCEPT ![v] = p]
    BY <1>3
  <2>2. /\ DOMAIN packets'[a] = 1..Len(packets[a]) /\ Len(packets[a]) \in Nat
        /\ \A n \in 1..Len(packets[a]) : packets'[a][n] = IF n = v THEN p ELSE packets[a][n]
    BY <1>1, <2>1
  <2>3. Len(packets'[a]) = Len(packets[a])
    <3>1. CASE v \in 1..Len(packets[a])
      BY <1>1, <2>1, <3>1, ExceptSeq
    <3>2. CASE v \notin 1..Len(packets[a])
      <4>1. packets'[a] = packets[a]
        BY <1>1, <2>1, <3>2
      <4> QED  BY <4>1
    <3> QED  BY <3>1, <3>2
  <2> QED  BY <1>3, <2>2, <2>3
<1> QED  BY <1>2, <1>3

\* The four steps that write packets, as what they do to the histories.
LEMMA PacketSteps ==
  ASSUME TypeOK, NEW s \in Sessions
  PROVE  /\ Prepare(s) => \E items \in {"none", "open"} :
              packets' = [packets EXCEPT ![cur[s]] = Append(packets[cur[s]], [approved |-> FALSE, items |-> items])]
         /\ AutoApprove(s) =>
              \/ packets' = packets
              \/ /\ Latest(cur[s]).items \in {"none", "on_site"}
                 /\ packets' = [packets EXCEPT ![cur[s]] = [packets[cur[s]] EXCEPT ![Len(packets[cur[s]])] =
                                                             [Latest(cur[s]) EXCEPT !.approved = TRUE]]]
         /\ Approve(s) =>
              packets' = [packets EXCEPT ![cur[s]] = [packets[cur[s]] EXCEPT ![pkt[s].version] =
                [approved |-> TRUE,
                 items |-> IF pkt[s].items = "open" THEN "on_site" ELSE packets[cur[s]][pkt[s].version].items]]]
         /\ SetAnswer(s) => \E items \in {"none", "open"} :
              packets' = [packets EXCEPT ![cur[s]] = [packets[cur[s]] EXCEPT ![pkt[s].version] =
                [packets[cur[s]][pkt[s].version] EXCEPT !.items = items]]]
BY DEF Prepare, NewPacket, AutoApprove, Approve, SetAnswer, Latest

\* Every other step of a session leaves them alone.
LEMMA PacketsRest ==
  ASSUME NEW s \in Sessions, SessionStep(s), ~Prepare(s), ~AutoApprove(s), ~Approve(s), ~SetAnswer(s)
  PROVE  packets' = packets
<1> USE DEF rowVars
<1>1. CASE Submit(s) \/ SubmitNext(s) \/ SubmitDone(s)
  BY <1>1 DEF Submit, GatePass, GateBlock, Claim, LastCheck, AdapterBegin, AdapterDeliver, AdapterFail, Record,
              Report, SubmitNext, SubmitDone
<1> QED
  BY <1>1 DEF SessionStep, WorkerStep, UserStep, Handle, Tick, MatchNow, LoadAll, MatchCommit, MatchClash, PrepareNext,
              PrepareDone, ManualClaim, ManualFinish, Decide, Crash, Request

\* The packets of an application only become more, and an approval stays.
LEMMA PacketsGrow ==
  ASSUME TypeOK, NEW s \in Sessions, SessionStep(s), NEW a \in Apps
  PROVE  /\ Len(packets[a]) \in Nat /\ Len(packets'[a]) \in Nat /\ Len(packets[a]) <= Len(packets'[a])
         /\ \A v \in 1..Len(packets[a]) : packets[a][v].approved => packets'[a][v].approved
<1> DEFINE c == cur[s]
<1>1. packets \in [Apps -> Seq(Packet)]
  BY DEF TypeOK, RowsOK
<1>2. packets[a] \in Seq(Packet) /\ Len(packets[a]) \in Nat /\ \A v \in 1..Len(packets[a]) : packets[a][v] \in Packet
  BY <1>1, ElementOfSeq
<1>3. CASE packets' = packets
  BY <1>2, <1>3
<1>4. CASE Prepare(s)
  <2>1. PICK p \in Packet : packets' = [packets EXCEPT ![c] = Append(packets[c], p)]
    BY <1>4, PacketSteps DEF Packet, Items
  <2>2. CASE a = c
    <3>1. packets'[a] = Append(packets[a], p)
      BY <1>1, <2>1, <2>2
    <3> QED  BY <1>2, <3>1, AppendProperties
  <2>3. CASE a # c
    BY <1>1, <1>2, <2>1, <2>3
  <2> QED  BY <2>2, <2>3
<1>5. CASE AutoApprove(s) /\ packets' # packets
  <2>1. packets' = [packets EXCEPT ![c] = [packets[c] EXCEPT ![Len(packets[c])] = [Latest(c) EXCEPT !.approved = TRUE]]]
    BY <1>5, PacketSteps
  <2>2. a = c /\ Len(packets[a]) \in 1..Len(packets[a]) => [Latest(c) EXCEPT !.approved = TRUE].approved
    BY <1>2 DEF Latest, Packet
  <2> QED  BY <1>1, <1>2, <2>1, <2>2, PutPacket
<1>6. CASE Approve(s)
  <2> DEFINE p == [approved |-> TRUE,
                   items |-> IF pkt[s].items = "open" THEN "on_site" ELSE packets[c][pkt[s].version].items]
  <2>1. packets' = [packets EXCEPT ![c] = [packets[c] EXCEPT ![pkt[s].version] = p]]
    BY <1>6, PacketSteps
  <2>2. p.approved
    OBVIOUS
  <2> HIDE DEF p
  <2> QED  BY <1>1, <1>2, <2>1, <2>2, PutPacket
<1>7. CASE SetAnswer(s)
  <2> DEFINE v == pkt[s].version
  <2>1. PICK items \in {"none", "open"} :
          packets' = [packets EXCEPT ![c] = [packets[c] EXCEPT ![v] = [packets[c][v] EXCEPT !.items = items]]]
    BY <1>7, PacketSteps
  <2>2. a = c /\ v \in 1..Len(packets[a]) => [packets[c][v] EXCEPT !.items = items].approved = packets[c][v].approved
    BY <1>2 DEF Packet
  <2> HIDE DEF v
  <2> QED  BY <1>1, <1>2, <2>1, <2>2, PutPacket
<1> QED  BY <1>3, <1>4, <1>5, <1>6, <1>7, PacketsRest

\* Some packet of a, up to the n-th, was approved.
Consented(a, n) == \E v \in 1..n : v <= Len(packets[a]) /\ packets[a][v].approved

\* ConsentBeforeSend is inductive once it is known what the gate has seen.
ConsentInv ==
  /\ \A a \in Apps : attBy[a] = "auto" => Consented(a, attPacket[a])
  /\ \A s \in Sessions : pc[s] = "claim" => Consented(cur[s], Len(packets[cur[s]]))

\* Consent once given stays.
LEMMA ConsentStays ==
  ASSUME TypeOK, NEW s \in Sessions, SessionStep(s), NEW a \in Apps
  PROVE  /\ \A n \in Nat : Consented(a, n) => Consented(a, n)'
         /\ Consented(a, Len(packets[a])) => Consented(a, Len(packets[a]))'
<1>1. /\ Len(packets[a]) \in Nat /\ Len(packets'[a]) \in Nat /\ Len(packets[a]) <= Len(packets'[a])
      /\ \A v \in 1..Len(packets[a]) : packets[a][v].approved => packets'[a][v].approved
  BY PacketsGrow
<1>2. ASSUME NEW n \in Nat, NEW m \in Nat, n <= m, NEW v \in 1..n, v <= Len(packets[a]), packets[a][v].approved
      PROVE  v \in 1..m /\ v <= Len(packets'[a]) /\ packets'[a][v].approved
  BY <1>1, <1>2
<1> QED  BY <1>1, <1>2 DEF Consented

\* The steps that start an attempt, as what they do to attempts and sessions.
LEMMA ClaimSteps ==
  ASSUME NEW s \in Sessions, SessionStep(s)
  PROVE  \/ UNCHANGED <<attBy, attPacket, recent>>
         \/ Claim(s) /\ MayClaim(cur[s]) /\ Hold(cur[s], "auto") /\ packets' = packets
         \/ ManualClaim(s) /\ MayClaim(cur[s]) /\ Hold(cur[s], "manual") /\ packets' = packets
<1> USE DEF rowVars
<1>1. CASE Submit(s) \/ SubmitNext(s) \/ SubmitDone(s)
  BY <1>1 DEF Submit, GatePass, GateBlock, Claim, LastCheck, AdapterBegin, AdapterDeliver, AdapterFail, Record,
              Report, SubmitNext, SubmitDone
<1>2. CASE Prepare(s) \/ AutoApprove(s) \/ Approve(s) \/ SetAnswer(s)
  BY <1>2 DEF Prepare, AutoApprove, Approve, SetAnswer
<1> QED
  BY <1>1, <1>2 DEF SessionStep, WorkerStep, UserStep, Handle, Tick, MatchNow, LoadAll, MatchCommit, MatchClash, PrepareNext,
              PrepareDone, ManualClaim, ManualFinish, Decide, Crash, Request

LEMMA ConsentStep ==
  ASSUME Inv, ConsentInv, NEW s \in Sessions, SessionStep(s)
  PROVE  ConsentInv'
<1>1. TypeOK /\ attBy \in [Apps -> {"NONE", "auto", "manual"}] /\ attPacket \in [Apps -> Nat]
  BY DEF Inv, TypeOK, RowsOK
<1>2. ASSUME NEW t \in Sessions, pc'[t] = "claim"
      PROVE  Consented(cur[t], Len(packets[cur[t]]))'
  <2>1. CASE pc[t] = "claim" /\ cur'[t] = cur[t]
    <3>1. cur[t] \in Apps
      BY <2>1 DEF Inv, Safe, SessionsAgree, Agrees
    <3>2. Consented(cur[t], Len(packets[cur[t]])) /\ cur'[t] = cur[t]
      BY <2>1 DEF ConsentInv
    <3>3. Consented(cur[t], Len(packets[cur[t]]))' <=> \E v \in 1..Len(packets'[cur[t]]) : v <= Len(packets'[cur[t]]) /\ packets'[cur[t]][v].approved
      BY <3>2 DEF Consented
    <3>4. \A a \in Apps : Consented(a, Len(packets[a])) => \E v \in 1..Len(packets'[a]) : v <= Len(packets'[a]) /\ packets'[a][v].approved
      BY <1>1, ConsentStays DEF Consented
    <3> QED  BY <3>1, <3>2, <3>3, <3>4
  <2>2. CASE t # s
    BY <1>1, <1>2, <2>1, <2>2, StepAlone DEF Alone
  <2>3. CASE t = s
    <3>1. GatePass(s)
      <4>1. ~\E a \in Apps, op \in Requests \ {"match_now"} : Request(s, a, op)
        BY <1>1, <1>2, <2>3, RequestsAssumption DEF Request, GoTo, Decisions, TypeOK, SessionsOK
      <4> QED  BY <1>1, <1>2, <2>3, <4>1, LeadsElsewhere
    <3>2. /\ cur[s] \in Apps /\ packets[cur[s]] # <<>> /\ Latest(cur[s]).approved
          /\ UNCHANGED <<packets, cur>>
      BY <3>1 DEF GatePass, GateOpen, Inv, Safe, SessionsAgree, Agrees, rowVars, memory
    <3>3. packets[cur[s]] \in Seq(Packet)
      BY <1>1, <3>2 DEF TypeOK, RowsOK
    <3>4. Len(packets[cur[s]]) \in 1..Len(packets[cur[s]])
      BY <3>2, <3>3, EmptySeq
    <3> QED  BY <2>3, <3>2, <3>4 DEF Consented, Latest
  <2> QED  BY <2>2, <2>3
<1>3. ASSUME NEW a \in Apps, attBy'[a] = "auto"
      PROVE  Consented(a, attPacket[a])'
  <2>1. CASE attBy'[a] = attBy[a] /\ attPacket'[a] = attPacket[a]
    <3>1. Consented(a, attPacket[a]) /\ attPacket[a] \in Nat
      BY <1>1, <1>3, <2>1 DEF ConsentInv
    <3>2. \E v \in 1..attPacket[a] : v <= Len(packets'[a]) /\ packets'[a][v].approved
      BY <1>1, <3>1, ConsentStays DEF Consented
    <3> QED  BY <2>1, <3>2 DEF Consented
  <2>2. CASE Claim(s) /\ Hold(cur[s], "auto") /\ packets' = packets /\ a = cur[s]
    <3>1. Consented(a, Len(packets[a])) /\ attPacket'[a] = Len(packets[a])
      BY <1>1, <2>2 DEF ConsentInv, Claim, Hold
    <3> QED  BY <2>2, <3>1 DEF Consented
  <2>3. CASE Hold(cur[s], "manual") /\ a = cur[s]
    BY <1>1, <1>3, <2>3 DEF Hold
  <2>4. CASE (Hold(cur[s], "auto") \/ Hold(cur[s], "manual")) /\ a # cur[s]
    BY <1>1, <2>1, <2>4 DEF Hold
  <2> QED  BY <2>1, <2>2, <2>3, <2>4, ClaimSteps
<1> QED  BY <1>2, <1>3 DEF ConsentInv

\* The program submits an application only if some packet of it, up to the one
\* that is sent, was approved (pipeline.py try_submit, policy.py evaluate).
THEOREM ConsentGiven == Spec => []ConsentBeforeSend
<1>1. Init => ConsentInv
  BY DEF Init, ConsentInv
<1>2. Inv /\ ConsentInv /\ [Next]_vars => ConsentInv'
  <2> SUFFICES ASSUME Inv, ConsentInv, [Next]_vars PROVE ConsentInv'
    OBVIOUS
  <2>1. CASE Environment \/ UNCHANGED vars
    <3>1. UNCHANGED <<pc, cur, packets, attBy, attPacket>>
      BY <2>1, Around DEF vars, session, rowVars
    <3> QED  BY <3>1 DEF ConsentInv, Consented
  <2> QED  BY <2>1, StepCases, ConsentStep
<1>3. ConsentInv => ConsentBeforeSend
  BY DEF ConsentInv, ConsentBeforeSend, Consented
<1> QED  BY InvHolds, <1>1, <1>2, <1>3, PTL DEF Spec

-----------------------------------------------------------------------------
(* One session at a time *)

\* Without overlap, a session that works works alone.
Solo == ~Overlap => \A s, t \in Sessions : pc[s] # "idle" /\ pc[t] # "idle" => s = t

LEMMA SoloInit == Init => Solo
BY DEF Init, Solo

\* Who begins something checks that nobody else is at work.
LEMMA Begins ==
  ASSUME NEW s \in Sessions, SessionStep(s), pc[s] = "idle"
  PROVE  CanStart
<1>1. CASE Submit(s) \/ SubmitNext(s) \/ SubmitDone(s)
  BY <1>1 DEF Submit, GatePass, GateBlock, Claim, LastCheck, AdapterBegin, AdapterDeliver, AdapterFail, Record,
              Report, SubmitNext, SubmitDone
<1>2. CASE Tick(s) \/ MatchNow(s) \/ \E a \in Apps, op \in Requests \ {"match_now"} : Request(s, a, op)
  BY <1>2 DEF Tick, MatchNow, Request
<1>3. CASE \/ MatchCommit(s) \/ MatchClash(s) \/ PrepareNext(s) \/ PrepareDone(s) \/ Prepare(s) \/ AutoApprove(s)
           \/ Approve(s) \/ SetAnswer(s) \/ ManualClaim(s) \/ ManualFinish(s) \/ Decide(s) \/ Crash(s)
  BY <1>3 DEF MatchCommit, MatchClash, PrepareNext, PrepareDone, Prepare, AutoApprove, Approve, SetAnswer,
              ManualClaim, ManualFinish, Decide, Decisions, Crash
<1> QED  BY <1>1, <1>2, <1>3 DEF SessionStep, WorkerStep, UserStep, Handle

LEMMA SoloStep == TypeOK /\ Solo /\ [Next]_vars => Solo'
<1> SUFFICES ASSUME TypeOK, Solo, [Next]_vars PROVE Solo'
  OBVIOUS
<1>1. ASSUME NEW s \in Sessions, SessionStep(s) PROVE Solo'
  <2>1. \A t \in Sessions \ {s} : pc'[t] = pc[t]
    BY <1>1, StepAlone DEF Alone
  <2>2. ~Overlap => \A t \in Sessions \ {s} : pc[t] = "idle"
    BY <1>1, Begins DEF CanStart, Solo
  <2> QED  BY <2>1, <2>2 DEF Solo
<1>2. CASE Environment \/ UNCHANGED vars
  BY <1>2, Around DEF vars, session, Solo
<1> QED  BY <1>1, <1>2, StepCases

-----------------------------------------------------------------------------
(* The daily limit *)

\* The program submits in one session at a time: nothing overlaps, or there is
\* one worker, and no user asks for a submission by the program.
SubmitsAlone == ~Overlap \/ ((\A v, w \in Workers : v = w) /\ "submit" \notin Requests)

Gated == {"gate", "claim"}

\* Users do not submit where they may not ask for it.
UsersOut == "submit" \notin Requests => \A u \in Users : pc[u] \notin Gated

\* How a session comes to the gate.
LEMMA LeadsToGate ==
  ASSUME TypeOK, NEW s \in Sessions, SessionStep(s), pc'[s] = "gate"
  PROVE  s \in Workers \/ "submit" \in Requests
<1> SUFFICES ASSUME s \in Users, UserStep(s) \/ Crash(s), s \notin Workers PROVE "submit" \in Requests
  BY DEF SessionStep, Sessions
<1> USE DEF TypeOK, SessionsOK
<1>1. CASE \E a \in Apps, op \in Requests \ {"match_now"} : Request(s, a, op)
  <2>1. PICK a \in Apps, op \in Requests \ {"match_now"} : Request(s, a, op)
    BY <1>1
  <2>2. pc'[s] = IF op = "submit" THEN "gate" ELSE op
    BY <2>1 DEF Request, GoTo
  <2> QED  BY <2>2, RequestsAssumption DEF Decisions
<1>2. CASE Rest(s) \/ Return(s)
  BY <1>2, EndAlone
<1>3. CASE MatchNow(s) \/ MatchCommit(s) \/ MatchClash(s) \/ Prepare(s) \/ Approve(s) \/ SetAnswer(s)
           \/ ManualFinish(s) \/ Decide(s) \/ Crash(s)
  <2>1. Rest(s) \/ GoTo(s, "match")
    BY <1>3 DEF MatchNow, LoadAll, MatchCommit, MatchClash, Prepare, Approve, SetAnswer, ManualFinish, Decide, Crash
  <2> QED  BY <1>2, <2>1 DEF GoTo
<1>4. CASE Submit(s) \/ ManualClaim(s)
  <2>1. Rest(s) \/ Return(s) \/ \E step \in Steps \ {"gate"} : GoTo(s, step)
    BY <1>4 DEF Submit, GatePass, GateBlock, Claim, LastCheck, AdapterBegin, AdapterDeliver, AdapterFail, Record,
                Report, ManualClaim, Steps
  <2> QED  BY <1>2, <2>1 DEF GoTo
<1> QED  BY <1>1, <1>3, <1>4 DEF UserStep, Handle

\* A session enters the step of the claim by the gate only.
LEMMA EntersClaim ==
  ASSUME TypeOK, NEW s \in Sessions, SessionStep(s), NEW t \in Sessions, pc'[t] = "claim"
  PROVE  \/ pc[t] = "claim" /\ t # s
         \/ t = s /\ GatePass(s)
<1>1. CASE t = s
  <2>1. ~\E a \in Apps, op \in Requests \ {"match_now"} : Request(s, a, op)
    BY <1>1, RequestsAssumption DEF Request, GoTo, Decisions, TypeOK, SessionsOK
  <2> QED  BY <1>1, <2>1, LeadsElsewhere
<1>2. CASE t # s
  BY <1>2, StepAlone DEF Alone
<1> QED  BY <1>1, <1>2

LEMMA UsersOutStep == TypeOK /\ UsersOut /\ [Next]_vars => UsersOut'
<1> SUFFICES ASSUME TypeOK, UsersOut, [Next]_vars, "submit" \notin Requests, NEW u \in Users
             PROVE  pc'[u] \notin Gated
  BY DEF UsersOut
<1>1. u \in Sessions /\ u \notin Workers /\ pc[u] \notin Gated
  BY SessionsAssumption DEF Sessions, UsersOut
<1>2. ASSUME NEW s \in Sessions, SessionStep(s) PROVE pc'[u] \notin Gated
  <2>1. CASE u = s
    BY <1>1, <1>2, <2>1, LeadsToGate, EntersClaim DEF Gated, GatePass
  <2>2. CASE u # s
    BY <1>1, <1>2, <2>2, StepAlone DEF Alone
  <2> QED  BY <2>1, <2>2
<1>3. CASE Environment \/ UNCHANGED vars
  BY <1>1, <1>3, Around DEF vars, session
<1> QED  BY <1>2, <1>3, StepCases

\* Then two sessions are never between the gate and the claim.
LEMMA OneSubmitter ==
  ASSUME SubmitsAlone, Solo, UsersOut
  PROVE  \A s, t \in Sessions : pc[s] \in Gated /\ pc[t] \in Gated => s = t
BY DEF SubmitsAlone, Solo, UsersOut, Gated, Sessions

\* The room that the gate has seen is there until the claim.
LimitInv ==
  /\ Cardinality(RecentAuto) <= DailyLimit
  /\ \A s \in Sessions : pc[s] = "claim" => WithinLimit

LEMMA RecentFinite ==
  /\ IsFiniteSet(RecentAuto) /\ Cardinality(RecentAuto) \in Nat
  /\ \A S \in SUBSET RecentAuto : Cardinality(S) \in Nat /\ Cardinality(S) <= Cardinality(RecentAuto)
  /\ \A a, S : S \subseteq RecentAuto \union {a} =>
       Cardinality(S) \in Nat /\ Cardinality(S) <= Cardinality(RecentAuto) + 1
<1>1. IsFiniteSet(RecentAuto)
  BY AppsAssumption, FS_Subset DEF RecentAuto
<1>2. Cardinality(RecentAuto) \in Nat
  BY <1>1, FS_CardinalityType
<1>3. \A S \in SUBSET RecentAuto : Cardinality(S) \in Nat /\ Cardinality(S) <= Cardinality(RecentAuto)
  BY <1>1, FS_Subset, FS_CardinalityType
<1>4. ASSUME NEW a, NEW S, S \subseteq RecentAuto \union {a}
      PROVE  Cardinality(S) \in Nat /\ Cardinality(S) <= Cardinality(RecentAuto) + 1
  <2>1. /\ IsFiniteSet(RecentAuto \union {a})
        /\ Cardinality(RecentAuto \union {a}) \in Nat
        /\ Cardinality(RecentAuto \union {a}) <= Cardinality(RecentAuto) + 1
    BY <1>1, <1>2, FS_AddElement, FS_CardinalityType
  <2>2. IsFiniteSet(S) /\ Cardinality(S) <= Cardinality(RecentAuto \union {a})
    BY <1>4, <2>1, FS_Subset
  <2>3. Cardinality(S) \in Nat
    BY <2>2, FS_CardinalityType
  <2> QED  BY <1>2, <2>1, <2>2, <2>3
<1> QED  BY <1>1, <1>2, <1>3, <1>4

LEMMA LimitStep ==
  ASSUME SubmitsAlone, TypeOK, Solo, UsersOut, LimitInv, NEW s \in Sessions, SessionStep(s)
  PROVE  LimitInv'
<1>1. /\ attBy \in [Apps -> {"NONE", "auto", "manual"}] /\ recent \in [Apps -> BOOLEAN]
      /\ DailyLimit \in Nat
  BY BoundsAssumption DEF TypeOK, RowsOK
<1>2. CASE UNCHANGED <<attBy, attPacket, recent>>
  <2>1. RecentAuto' = RecentAuto
    BY <1>2 DEF RecentAuto
  <2> QED  BY <2>1, EntersClaim DEF LimitInv, WithinLimit, GatePass, GateOpen
<1>3. CASE ManualClaim(s) /\ Hold(cur[s], "manual")
  <2>1. RecentAuto' \in SUBSET RecentAuto
    BY <1>1, <1>3 DEF RecentAuto, Hold
  <2>2. ~GatePass(s)
    BY <1>3 DEF ManualClaim, GatePass
  <2>3. Cardinality(RecentAuto') <= Cardinality(RecentAuto) /\ Cardinality(RecentAuto') \in Nat
    BY <2>1, RecentFinite
  <2>4. \A t \in Sessions : pc'[t] = "claim" => pc[t] = "claim"
    BY <2>2, EntersClaim
  <2> QED  BY <1>1, <2>3, <2>4, RecentFinite DEF LimitInv, WithinLimit
<1>4. CASE Claim(s) /\ Hold(cur[s], "auto")
  <2>1. RecentAuto' \subseteq RecentAuto \union {cur[s]}
    BY <1>1, <1>4 DEF RecentAuto, Hold
  <2>2. WithinLimit /\ pc[s] = "claim"
    BY <1>4 DEF LimitInv, Claim
  <2>3. Cardinality(RecentAuto') \in Nat /\ Cardinality(RecentAuto') <= Cardinality(RecentAuto) + 1
    BY <2>1, RecentFinite
  <2>4. \A t \in Sessions : pc'[t] # "claim"
    BY <2>2, EntersClaim, OneSubmitter DEF GatePass, Gated
  <2> QED  BY <1>1, <2>2, <2>3, <2>4, RecentFinite DEF LimitInv, WithinLimit
<1> QED  BY <1>2, <1>3, <1>4, ClaimSteps

\* A day that passes makes room; nothing else around the pipeline counts.
LEMMA LimitAround ==
  ASSUME TypeOK, LimitInv, Environment
  PROVE  LimitInv'
<1>1. UNCHANGED <<pc, attBy>>
  BY Around DEF session, rowVars
<1>2. \A a \in Apps : recent'[a] => recent[a]
  BY DEF Environment, Delist, Relist, ImportApplied, DismissHandoff, DayPasses, ToggleOptIn, SetPaused,
         SwitchFile, SetPause, TypeOK, RowsOK
<1>3. RecentAuto' \in SUBSET RecentAuto
  BY <1>1, <1>2 DEF RecentAuto
<1>4. /\ Cardinality(RecentAuto') <= Cardinality(RecentAuto) /\ Cardinality(RecentAuto') \in Nat
      /\ Cardinality(RecentAuto) \in Nat
  BY <1>3, RecentFinite
<1> QED  BY <1>1, <1>4, BoundsAssumption DEF LimitInv, WithinLimit

\* Where one session at a time submits, the attempts that the program started
\* in the last 24 hours stay within the limit, however attempts are retried,
\* recorded by hand and interrupted (policy.py submissions_since, evaluate).
THEOREM LimitKept == ASSUME SubmitsAlone PROVE Spec => []LimitHolds
<1> DEFINE J == Solo /\ UsersOut /\ LimitInv
<1>1. Init => J
  <2> SUFFICES ASSUME Init PROVE J
    OBVIOUS
  <2>1. RecentAuto = {}
    BY DEF Init, RecentAuto
  <2>2. Cardinality(RecentAuto) = 0
    BY <2>1, FS_EmptySet
  <2> QED  BY <2>2, SoloInit, BoundsAssumption DEF Init, UsersOut, Gated, LimitInv, Sessions
<1>2. TypeOK /\ J /\ [Next]_vars => J'
  <2> SUFFICES ASSUME TypeOK, J, [Next]_vars PROVE J'
    OBVIOUS
  <2>1. Solo' /\ UsersOut'
    BY SoloStep, UsersOutStep
  <2>2. CASE UNCHANGED vars
    BY <2>1, <2>2 DEF vars, LimitInv, WithinLimit, RecentAuto
  <2>3. LimitInv'
    BY <2>2, StepCases, LimitStep, LimitAround
  <2> QED  BY <2>1, <2>3
<1>3. J => LimitHolds
  BY DEF LimitInv, LimitHolds
<1> HIDE DEF J
<1> QED  BY TypeCorrect, <1>1, <1>2, <1>3, PTL DEF Spec

-----------------------------------------------------------------------------
(* Sessions one after the other *)

\* The states in which a worker has an application of its list at hand.
AtHand == {"prepare", "autoApprove", "gate", "claim", "check", "call", "send", "record"}

\* What a session has loaded is still so, and what a worker means to work on
\* the user has not decided about.
RowsFresh(s) == pc[s] = "match" => view[s] = appState

PacketFresh(s) ==
  pc[s] \in {"approve", "set_answer"} =>
    /\ pkt[s].version \in 1..Len(packets[cur[s]])
    /\ pkt[s].items = packets[cur[s]][pkt[s].version].items
    /\ pc[s] = "set_answer" => ~packets[cur[s]][pkt[s].version].approved

GateFresh(s) ==
  pc[s] = "claim" =>
    /\ packets[cur[s]] # <<>> /\ Latest(cur[s]) = [approved |-> TRUE, items |-> "none"]
    /\ \A b \in Apps \ {cur[s]} : Role[b] = Role[cur[s]] => appState[b] \notin Applied

ListOpen(s) ==
  s \in Workers =>
    /\ pc[s] \in AtHand \union {"prepNext", "subNext", "report"} => \A a \in todo[s] : appState[a] \notin UserOwned
    /\ pc[s] \in AtHand => appState[cur[s]] \notin UserOwned /\ cur[s] \notin todo[s]

Fresh(s) == RowsFresh(s) /\ PacketFresh(s) /\ GateFresh(s) /\ ListOpen(s)

\* A packet that leaves something open was not approved.
ApprovedClosed ==
  \A a \in Apps : \A v \in 1..Len(packets[a]) : packets[a][v].approved => packets[a][v].items # "open"

\* SentAsApproved, with the place of the packet.
SentInv ==
  \A a \in Apps : attBy[a] = "auto" =>
    attPacket[a] \in 1..Len(packets[a]) /\ packets[a][attPacket[a]] = [approved |-> TRUE, items |-> "none"]

\* The inductive invariant of sessions that do not overlap.
SerialInv == Solo /\ (\A s \in Sessions : Fresh(s)) /\ ApprovedClosed /\ SentInv

\* An idle session has nothing loaded that could be out of date.
LEMMA IdleFresh ==
  ASSUME NEW s \in Sessions, pc[s] = "idle"
  PROVE  Fresh(s)
BY DEF Fresh, RowsFresh, PacketFresh, GateFresh, ListOpen, AtHand

\* So has one that returns to the worker's list and has changed none of its rows.
LEMMA ReturnFresh ==
  ASSUME TypeOK, NEW s \in Sessions, Fresh(s), Rest(s) \/ Return(s), pc[s] \in AtHand \union {"report"},
         \A a \in Apps : a # cur[s] => appState'[a] = appState[a],
         pc[s] = "report" => appState' = appState
  PROVE  Fresh(s)'
<1>1. CASE pc'[s] = "idle"
  BY <1>1, IdleFresh DEF Fresh, RowsFresh, PacketFresh, GateFresh, ListOpen, AtHand
<1>2. CASE s \in Workers /\ pc'[s] = "subNext" /\ todo' = todo
  <2>1. \A a \in todo[s] : appState'[a] \notin UserOwned
    BY <1>2 DEF Fresh, ListOpen, AtHand, TypeOK, SessionsOK
  <2> QED  BY <1>2, <2>1 DEF Fresh, RowsFresh, PacketFresh, GateFresh, ListOpen, AtHand
<1>3. Rest(s) => pc'[s] = "idle"
  BY DEF Rest, TypeOK, SessionsOK
<1>4. Return(s) => pc'[s] = "idle" \/ (s \in Workers /\ pc'[s] = "subNext" /\ todo' = todo)
  BY <1>3 DEF Return, GoTo, TypeOK, SessionsOK
<1> QED  BY <1>1, <1>2, <1>3, <1>4

\* Matching leaves a list of applications nobody has decided about.
LEMMA FreshMatch ==
  ASSUME TypeOK, NEW s \in Sessions, SessionStep(s), Fresh(s),
         Tick(s) \/ MatchNow(s) \/ MatchCommit(s) \/ MatchClash(s) \/ PrepareNext(s) \/ PrepareDone(s)
  PROVE  Fresh(s)'
<1> USE DEF TypeOK, SessionsOK, Fresh, RowsFresh, PacketFresh, GateFresh, ListOpen, AtHand
<1>1. CASE Tick(s) \/ MatchNow(s)
  BY <1>1 DEF Tick, MatchNow, LoadAll, GoTo
<1>2. CASE MatchCommit(s)
  <2>1. CASE s \in Workers
    <3> DEFINE due == {a \in Apps : appState'[a] = "MATCHED" /\ Len(packets[a]) < MaxVersions[a]}
    <3>1. GoTo(s, "prepNext") /\ todo' = [todo EXCEPT ![s] = due]
      BY <1>2, <2>1 DEF MatchCommit
    <3>2. \A a \in due : appState'[a] \notin UserOwned
      BY DEF UserOwned
    <3> HIDE DEF due
    <3> QED  BY <3>1, <3>2 DEF GoTo
  <2>2. CASE s \notin Workers
    BY <1>2, <2>2 DEF MatchCommit, Rest
  <2> QED  BY <2>1, <2>2
<1>3. CASE MatchClash(s)
  BY <1>3 DEF MatchClash, Rest
<1>4. CASE PrepareNext(s)
  <2>1. PICK a \in todo[s] : cur'[s] = a /\ todo'[s] = todo[s] \ {a} /\ pc'[s] = "prepare" /\ appState' = appState
    BY <1>4 DEF PrepareNext, GoTo
  <2> QED  BY <1>4, <2>1 DEF PrepareNext
<1>5. CASE PrepareDone(s)
  <2>1. pc'[s] = "subNext" /\ todo'[s] = {a \in Apps : appState'[a] = "APPROVED"}
    BY <1>5 DEF PrepareDone, GoTo
  <2> QED  BY <2>1 DEF UserOwned
<1> QED  BY <1>1, <1>2, <1>3, <1>4, <1>5

\* So does preparation, which moves the application at hand only.
LEMMA FreshPrepare ==
  ASSUME Inv, NEW s \in Sessions, SessionStep(s), Fresh(s), Prepare(s) \/ AutoApprove(s) \/ Approve(s) \/ SetAnswer(s)
  PROVE  Fresh(s)'
<1> USE DEF Inv, TypeOK, SessionsOK, RowsOK, Fresh, RowsFresh, PacketFresh, GateFresh, ListOpen, AtHand
<1>1. CASE pc'[s] = "idle"
  BY <1>1
<1>2. CASE Prepare(s) /\ s \in Workers
  <2>1. /\ pc'[s] \in {"autoApprove", "prepNext"} /\ cur' = cur /\ todo' = todo /\ pc[s] = "prepare"
        /\ \/ appState' = appState
           \/ SetState(cur[s], "PREPARED")
           \/ SetState(cur[s], "NEEDS_REVIEW")
    BY <1>2 DEF Prepare, NewPacket, GoTo
  <2>2. \A a \in Apps : appState'[a] = appState[a] \/ (a = cur[s] /\ appState'[a] \notin UserOwned)
    BY <2>1 DEF SetState, UserOwned
  <2>3. cur[s] \in Apps /\ cur[s] \notin todo[s]
    BY <1>2, <2>1 DEF Safe, SessionsAgree, Agrees
  <2> QED  BY <1>2, <2>1, <2>2, <2>3
<1>3. CASE AutoApprove(s) /\ s \in Workers /\ pc'[s] # "idle"
  <2>1. pc'[s] = "prepNext" /\ todo' = todo /\ pc[s] = "autoApprove" /\ SetState(cur[s], "APPROVED")
    BY <1>3 DEF AutoApprove, GoTo, Rest
  <2>2. \A a \in Apps : a # cur[s] => appState'[a] = appState[a]
    BY <2>1 DEF SetState
  <2> QED  BY <1>3, <2>1, <2>2
<1>4. Approve(s) \/ SetAnswer(s) => pc'[s] = "idle"
  BY DEF Approve, SetAnswer, Rest
<1>5. Prepare(s) /\ s \notin Workers => pc'[s] = "idle"
  BY DEF Prepare, Rest
<1>6. AutoApprove(s) /\ s \notin Workers => pc'[s] = "idle"
  BY DEF AutoApprove, SessionStep, UserStep, Handle, Submit, MatchNow, MatchCommit, MatchClash, Prepare, Approve, SetAnswer,
         GatePass, GateBlock, Claim, LastCheck, AdapterBegin, AdapterDeliver, AdapterFail, Record, Report, ManualClaim,
         ManualFinish, Decide, Decisions, Request, Crash, Rest
<1> QED  BY <1>1, <1>2, <1>3, <1>4, <1>5, <1>6

\* Submission changes rows of the application at hand only, and the gate has
\* looked at what the claim relies on.
LEMMA FreshSubmit ==
  ASSUME Inv, NEW s \in Sessions, SessionStep(s), Fresh(s), Submit(s) \/ SubmitNext(s) \/ SubmitDone(s)
  PROVE  Fresh(s)'
<1> DEFINE c == cur[s]
<1>1. /\ TypeOK /\ SessionsOK /\ appState \in [Apps -> Texts]
      /\ s \in Workers => \A a \in Apps : a \in todo[s] => a # c \/ pc[s] \notin AtHand
  BY DEF Inv, TypeOK, RowsOK, Texts, Fresh, ListOpen
<1>2. CASE SubmitNext(s)
  <2>1. PICK a \in todo[s] :
          /\ todo' = [todo EXCEPT ![s] = todo[s] \ {a}]
          /\ \/ GoTo(s, "gate") /\ cur' = [cur EXCEPT ![s] = a]
             \/ UNCHANGED <<pc, cur>>
          /\ pc[s] = "subNext" /\ appState' = appState
    BY <1>2 DEF SubmitNext
  <2> QED  BY <1>1, <2>1 DEF GoTo, SessionsOK, Fresh, RowsFresh, PacketFresh, GateFresh, ListOpen, AtHand
<1>3. CASE SubmitDone(s)
  <2>1. pc'[s] = "idle"
    BY <1>1, <1>3 DEF SubmitDone, Rest, SessionsOK
  <2> QED  BY <2>1, IdleFresh DEF Fresh, RowsFresh, PacketFresh, GateFresh, ListOpen, AtHand
<1>4. CASE GatePass(s)
  <2>1. /\ pc'[s] = "claim" /\ pc[s] = "gate" /\ UNCHANGED <<appState, packets, cur, todo>>
        /\ packets[c] # <<>> /\ Latest(c).approved /\ Latest(c).items = "none"
        /\ \A b \in Apps \ {c} : Role[b] = Role[c] => appState[b] \notin Applied
    BY <1>1, <1>4 DEF GatePass, GateOpen, AlreadyApplied, GoTo, SessionsOK, rowVars, memory
  <2>2. Latest(c) = [approved |-> TRUE, items |-> "none"]
    <3>1. c \in Apps
      BY <2>1 DEF Inv, Safe, SessionsAgree, Agrees
    <3>2. packets[c] \in Seq(Packet)
      BY <1>1, <3>1 DEF TypeOK, RowsOK
    <3>3. Latest(c) \in Packet
      BY <2>1, <3>2, EmptySeq, ElementOfSeq DEF Latest
    <3> QED  BY <2>1, <3>3 DEF Packet
  <2> QED  BY <2>1, <2>2 DEF Fresh, RowsFresh, PacketFresh, GateFresh, ListOpen, AtHand, Latest
<1>5. CASE GateBlock(s) \/ Report(s)
  <2>1. Return(s) /\ appState' = appState /\ pc[s] \in AtHand \union {"report"}
    BY <1>5 DEF GateBlock, Report, AtHand
  <2> QED  BY <1>1, <2>1, ReturnFresh
<1>6. CASE Claim(s) \/ LastCheck(s) \/ AdapterBegin(s) \/ AdapterDeliver(s) \/ AdapterFail(s)
  <2>1. pc[s] \in AtHand /\ appState' = appState
    BY <1>6 DEF Claim, LastCheck, AdapterBegin, AdapterDeliver, AdapterFail, AtHand
  <2>2. CASE Return(s)
    BY <1>1, <2>1, <2>2, ReturnFresh DEF AtHand
  <2>3. CASE ~Return(s)
    <3>1. PICK step \in AtHand : GoTo(s, step) /\ step # "claim" /\ UNCHANGED <<cur, todo>>
      BY <1>6, <2>3 DEF Claim, LastCheck, AdapterBegin, AdapterDeliver, AdapterFail, AtHand, memory
    <3> QED  BY <1>1, <2>1, <3>1 DEF GoTo, SessionsOK, Fresh, RowsFresh, PacketFresh, GateFresh, ListOpen, AtHand
  <2> QED  BY <2>2, <2>3
<1>7. CASE Record(s)
  <2>1. /\ pc[s] = "record" /\ \A a \in Apps : a # c => appState'[a] = appState[a]
        /\ Return(s) \/ (GoTo(s, "report") /\ UNCHANGED <<cur, todo>>)
    BY <1>1, <1>7 DEF Record, SetState, memory
  <2>2. CASE Return(s)
    BY <1>1, <2>1, <2>2, ReturnFresh DEF AtHand
  <2>3. CASE GoTo(s, "report") /\ UNCHANGED <<cur, todo>>
    <3>1. pc'[s] = "report"
      BY <1>1, <2>3 DEF GoTo, SessionsOK
    <3>2. s \in Workers => \A a \in todo[s] : appState'[a] \notin UserOwned
      BY <1>1, <2>1 DEF SessionsOK, Fresh, ListOpen, AtHand
    <3> QED  BY <2>3, <3>1, <3>2 DEF Fresh, RowsFresh, PacketFresh, GateFresh, ListOpen, AtHand
  <2> QED  BY <2>1, <2>2, <2>3
<1> QED  BY <1>2, <1>3, <1>4, <1>5, <1>6, <1>7 DEF Submit

\* A request loads the latest packet; where it ends nothing stays loaded.
LEMMA FreshRequest ==
  ASSUME Inv, NEW s \in Sessions, SessionStep(s),
         \/ ManualClaim(s) \/ ManualFinish(s) \/ Decide(s) \/ Crash(s)
         \/ s \in Users /\ \E a \in Apps, op \in Requests \ {"match_now"} : Request(s, a, op)
  PROVE  Fresh(s)'
<1> USE DEF Fresh, RowsFresh, PacketFresh, GateFresh, ListOpen, AtHand
<1>1. TypeOK /\ SessionsOK /\ packets \in [Apps -> Seq(Packet)]
  BY DEF Inv, TypeOK, RowsOK
<1>2. CASE Rest(s)
  BY <1>1, <1>2 DEF Rest, SessionsOK
<1>3. CASE ManualClaim(s) /\ GoTo(s, "finish") /\ UNCHANGED memory
  <2>1. pc'[s] = "finish" /\ s \in Users
    BY <1>1, <1>3 DEF GoTo, SessionsOK, SessionStep, WorkerStep, Tick, MatchCommit, MatchClash, PrepareNext, PrepareDone,
          Prepare, AutoApprove, SubmitNext, SubmitDone, Submit, GatePass, GateBlock, Claim, LastCheck, AdapterBegin,
          AdapterDeliver, AdapterFail, Record, Report, ManualClaim, Crash, Rest
  <2> QED  BY <2>1, SessionsAssumption
<1>4. CASE s \in Users /\ \E a \in Apps, op \in Requests \ {"match_now"} : Request(s, a, op)
  <2>1. PICK a \in Apps, op \in Requests \ {"match_now"} : Request(s, a, op)
    BY <1>4
  <2>2. /\ pc'[s] = (IF op = "submit" THEN "gate" ELSE op)
        /\ pc'[s] \notin {"match", "claim"}
    BY <1>1, <2>1, RequestsAssumption DEF Request, GoTo, SessionsOK, Decisions
  <2>3. ASSUME op \in {"approve", "set_answer"}
        PROVE  PacketFresh(s)'
    <3>1. /\ packets' = packets /\ cur'[s] = a
          /\ pkt'[s] = [version |-> Len(packets[a]), approved |-> Latest(a).approved, items |-> Latest(a).items]
      BY <1>1, <2>1, <2>3 DEF Request, SessionsOK, rowVars
    <3>2. /\ packets[a] # <<>>
          /\ op = "set_answer" => ~Latest(a).approved
      BY <2>1, <2>3 DEF Request, Accepts, Editable, Decisions
    <3>3. Len(packets[a]) \in 1..Len(packets[a])
      BY <1>1, <3>2, EmptySeq
    <3> QED  BY <2>2, <2>3, <3>1, <3>2, <3>3 DEF Latest
  <2>4. s \notin Workers
    BY <1>4, SessionsAssumption
  <2> QED  BY <2>2, <2>3, <2>4
<1> QED  BY <1>2, <1>3, <1>4 DEF ManualClaim, ManualFinish, Decide, Crash

\* An approved packet is not touched: an edit has loaded one that was not
\* approved, and a second approval writes what is there.
LEMMA PacketsStand ==
  ASSUME Inv, ApprovedClosed, NEW s \in Sessions, SessionStep(s), PacketFresh(s), NEW a \in Apps
  PROVE  /\ \A v \in 1..Len(packets[a]) :
              v \in 1..Len(packets'[a]) /\ (packets[a][v].approved => packets'[a][v] = packets[a][v])
         /\ \A v \in 1..Len(packets'[a]) : packets'[a][v].approved => packets'[a][v].items # "open"
<1> DEFINE c == cur[s]
<1>1. TypeOK /\ packets \in [Apps -> Seq(Packet)]
  BY DEF Inv, TypeOK, RowsOK
<1>2. packets[a] \in Seq(Packet) /\ Len(packets[a]) \in Nat /\ \A v \in 1..Len(packets[a]) : packets[a][v] \in Packet
  BY <1>1, ElementOfSeq
<1>3. \A v \in 1..Len(packets[a]) : packets[a][v].approved => packets[a][v].items # "open"
  BY DEF ApprovedClosed
<1>4. ASSUME NEW v, NEW p, packets' = [packets EXCEPT ![c] = [packets[c] EXCEPT ![v] = p]],
             a = c /\ v \in 1..Len(packets[a]) =>
               /\ packets[a][v].approved => p = packets[a][v]
               /\ p.approved => p.items # "open"
      PROVE  /\ \A n \in 1..Len(packets[a]) :
                  n \in 1..Len(packets'[a]) /\ (packets[a][n].approved => packets'[a][n] = packets[a][n])
             /\ \A n \in 1..Len(packets'[a]) : packets'[a][n].approved => packets'[a][n].items # "open"
  <2>1. /\ Len(packets'[a]) = Len(packets[a])
        /\ \A n \in 1..Len(packets[a]) : packets'[a][n] = IF a = c /\ n = v THEN p ELSE packets[a][n]
    BY <1>1, <1>4, PutPacket
  <2> QED  BY <1>3, <1>4, <2>1
<1>5. CASE packets' = packets
  BY <1>3, <1>5
<1>6. CASE Prepare(s)
  <2>1. PICK items \in {"none", "open"} :
          packets' = [packets EXCEPT ![c] = Append(packets[c], [approved |-> FALSE, items |-> items])]
    BY <1>1, <1>6, PacketSteps
  <2>2. CASE a = c
    <3> DEFINE p == [approved |-> FALSE, items |-> items]
    <3>1. packets'[a] = Append(packets[a], p) /\ p \in Packet /\ ~p.approved
      BY <1>1, <2>1, <2>2 DEF Packet, Items
    <3> HIDE DEF p
    <3>2. /\ Len(packets'[a]) = Len(packets[a]) + 1 /\ packets'[a][Len(packets[a]) + 1] = p
          /\ \A n \in 1..Len(packets[a]) : packets'[a][n] = packets[a][n]
      BY <1>2, <3>1, AppendProperties
    <3> QED  BY <1>2, <1>3, <3>1, <3>2
  <2>3. CASE a # c
    BY <1>1, <1>3, <2>1, <2>3
  <2> QED  BY <2>2, <2>3
<1>7. CASE AutoApprove(s) /\ packets' # packets
  <2> DEFINE p == [Latest(c) EXCEPT !.approved = TRUE]
  <2>1. /\ Latest(c).items \in {"none", "on_site"}
        /\ packets' = [packets EXCEPT ![c] = [packets[c] EXCEPT ![Len(packets[c])] = p]]
    BY <1>1, <1>7, PacketSteps
  <2>2. ASSUME a = c, Len(packets[a]) \in 1..Len(packets[a])
        PROVE  (packets[a][Len(packets[a])].approved => p = packets[a][Len(packets[a])]) /\ p.items # "open"
    BY <1>2, <2>1, <2>2 DEF Latest, Packet
  <2> HIDE DEF p
  <2> QED  BY <1>4, <2>1, <2>2
<1>8. CASE Approve(s)
  <2> DEFINE v == pkt[s].version
             p == [approved |-> TRUE, items |-> IF pkt[s].items = "open" THEN "on_site" ELSE packets[c][v].items]
  <2>1. packets' = [packets EXCEPT ![c] = [packets[c] EXCEPT ![v] = p]]
    BY <1>1, <1>8, PacketSteps
  <2>2. pkt[s].items = packets[c][v].items
    BY <1>8 DEF PacketFresh, Approve
  <2>3. ASSUME a = c, v \in 1..Len(packets[a])
        PROVE  (packets[a][v].approved => p = packets[a][v]) /\ p.items # "open"
    BY <1>2, <1>3, <2>2, <2>3 DEF Packet
  <2> HIDE DEF v, p
  <2> QED  BY <1>4, <2>1, <2>3
<1>9. CASE SetAnswer(s)
  <2> DEFINE v == pkt[s].version
  <2>1. PICK items \in {"none", "open"} :
          packets' = [packets EXCEPT ![c] = [packets[c] EXCEPT ![v] = [packets[c][v] EXCEPT !.items = items]]]
    BY <1>1, <1>9, PacketSteps
  <2> DEFINE p == [packets[c][v] EXCEPT !.items = items]
  <2>2. ~packets[c][v].approved
    BY <1>9 DEF PacketFresh, SetAnswer
  <2>3. ASSUME a = c, v \in 1..Len(packets[a]) PROVE ~packets[a][v].approved /\ ~p.approved
    BY <1>2, <2>2, <2>3 DEF Packet
  <2>4. packets' = [packets EXCEPT ![c] = [packets[c] EXCEPT ![v] = p]]
    BY <2>1
  <2> HIDE DEF v, p
  <2> QED  BY <1>4, <2>3, <2>4
<1> QED  BY <1>5, <1>6, <1>7, <1>8, <1>9, PacketsRest

\* Every step of a session leaves the rest of the invariant.
LEMMA SerialStep ==
  ASSUME ~Overlap, Inv, SerialInv, NEW s \in Sessions, SessionStep(s)
  PROVE  SerialInv'
<1>1. TypeOK /\ Fresh(s) /\ Solo'
  BY SoloStep DEF SerialInv, Inv, Next, SessionStep, Sessions
<1>2. Fresh(s)'
  <2>1. CASE \/ Tick(s) \/ MatchNow(s) \/ MatchCommit(s) \/ MatchClash(s) \/ PrepareNext(s) \/ PrepareDone(s)
    BY <1>1, <2>1, FreshMatch
  <2>2. CASE Prepare(s) \/ AutoApprove(s) \/ Approve(s) \/ SetAnswer(s)
    BY <1>1, <2>2, FreshPrepare
  <2>3. CASE Submit(s) \/ SubmitNext(s) \/ SubmitDone(s)
    BY <1>1, <2>3, FreshSubmit
  <2>4. CASE \/ ManualClaim(s) \/ ManualFinish(s) \/ Decide(s) \/ Crash(s)
             \/ s \in Users /\ \E a \in Apps, op \in Requests \ {"match_now"} : Request(s, a, op)
    BY <2>4, FreshRequest
  <2> QED  BY <2>1, <2>2, <2>3, <2>4 DEF SessionStep, WorkerStep, UserStep, Handle
<1>3. ASSUME NEW t \in Sessions \ {s}
      PROVE  Fresh(t)'
  <2>1. pc[t] = "idle"
    BY <1>3, Begins DEF CanStart, SerialInv, Solo
  <2>2. pc'[t] = "idle"
    BY <1>1, <1>3, <2>1, StepAlone DEF Alone
  <2> QED  BY <2>2 DEF Fresh, RowsFresh, PacketFresh, GateFresh, ListOpen, AtHand
<1>4. ApprovedClosed'
  BY <1>1, PacketsStand DEF ApprovedClosed, SerialInv, Fresh
<1>5. ASSUME NEW a \in Apps, attBy'[a] = "auto"
      PROVE  attPacket'[a] \in 1..Len(packets'[a]) /\ packets'[a][attPacket'[a]] = [approved |-> TRUE, items |-> "none"]
  <2>1. attBy \in [Apps -> {"NONE", "auto", "manual"}] /\ attPacket \in [Apps -> Nat] /\ packets \in [Apps -> Seq(Packet)]
    BY <1>1 DEF TypeOK, RowsOK
  <2>2. CASE attBy'[a] = attBy[a] /\ attPacket'[a] = attPacket[a]
    <3> DEFINE n == attPacket[a]
    <3>1. n \in 1..Len(packets[a]) /\ packets[a][n] = [approved |-> TRUE, items |-> "none"]
      BY <1>5, <2>2 DEF SerialInv, SentInv
    <3>2. packets[a][n].approved
      BY <3>1
    <3>3. n \in 1..Len(packets'[a]) /\ packets'[a][n] = packets[a][n]
      BY <1>1, <3>1, <3>2, PacketsStand DEF SerialInv, Fresh
    <3> QED  BY <2>2, <3>1, <3>3
  <2>3. CASE Claim(s) /\ Hold(cur[s], "auto") /\ packets' = packets /\ a = cur[s]
    <3>1. packets[a] # <<>> /\ Latest(a) = [approved |-> TRUE, items |-> "none"]
      BY <1>1, <2>3 DEF Claim, Fresh, GateFresh
    <3>2. Len(packets[a]) \in 1..Len(packets[a])
      BY <2>1, <3>1, EmptySeq
    <3>3. attPacket'[a] = Len(packets[a])
      BY <2>1, <2>3 DEF Hold
    <3> QED  BY <2>3, <3>1, <3>2, <3>3 DEF Latest
  <2>4. CASE Hold(cur[s], "manual") /\ a = cur[s]
    BY <1>5, <2>1, <2>4 DEF Hold
  <2>5. CASE (Hold(cur[s], "auto") \/ Hold(cur[s], "manual")) /\ a # cur[s]
    BY <2>1, <2>2, <2>5 DEF Hold
  <2> QED  BY <2>2, <2>3, <2>4, <2>5, ClaimSteps
<1> QED  BY <1>1, <1>2, <1>3, <1>4, <1>5 DEF SerialInv, SentInv

\* What happens around the pipeline waits for the sessions, or touches no row
\* that they have loaded.
LEMMA SerialAround ==
  ASSUME ~Overlap, Inv, SerialInv, Environment
  PROVE  SerialInv'
<1>1. UNCHANGED <<session, rowVars>>
  BY Around
<1>2. appState' = appState \/ \A s \in Sessions : pc[s] = "idle"
  BY DEF Environment, Delist, Relist, ImportApplied, DismissHandoff, DayPasses, ToggleOptIn, SetPaused,
         SwitchFile, SetPause, CanStart
<1>3. \A s \in Sessions : Fresh(s)'
  BY <1>1, <1>2 DEF session, rowVars, SerialInv, Fresh, RowsFresh, PacketFresh, GateFresh, ListOpen, AtHand, Latest
<1> QED  BY <1>1, <1>3 DEF session, rowVars, SerialInv, Solo, ApprovedClosed, SentInv

LEMMA SerialHolds == ASSUME ~Overlap PROVE Spec => [](Inv /\ SerialInv)
<1>1. Init => SerialInv
  <2> SUFFICES ASSUME Init PROVE SerialInv
    OBVIOUS
  <2>1. /\ \A s \in Sessions : pc[s] = "idle"
        /\ \A a \in Apps : packets[a] = <<>> /\ attBy[a] = "NONE"
    BY DEF Init
  <2>2. \A s \in Sessions : Fresh(s)
    BY <2>1, IdleFresh
  <2>3. ApprovedClosed /\ SentInv
    BY <2>1 DEF ApprovedClosed, SentInv
  <2> QED  BY <2>2, <2>3, SoloInit DEF SerialInv
<1>2. Inv /\ SerialInv /\ [Next]_vars => SerialInv'
  <2> SUFFICES ASSUME Inv, SerialInv, [Next]_vars PROVE SerialInv'
    OBVIOUS
  <2>1. CASE UNCHANGED vars
    BY <2>1 DEF vars, SerialInv, Solo, Fresh, RowsFresh, PacketFresh, GateFresh, ListOpen, Latest, ApprovedClosed, SentInv
  <2> QED  BY <2>1, StepCases, SerialStep, SerialAround
<1> QED  BY InvHolds, <1>1, <1>2, PTL DEF Spec

\* Where sessions do not overlap, what an automatic attempt carries is a packet
\* that was approved and that leaves nothing to answer on the site.
THEOREM SentWasApproved == ASSUME ~Overlap PROVE Spec => []SentAsApproved
<1>1. SerialInv => SentAsApproved
  BY DEF SerialInv, SentInv, SentAsApproved
<1> QED  BY SerialHolds, <1>1, PTL

\* Where sessions do not overlap, an approved packet is never written again.
THEOREM ApprovedStands == ASSUME ~Overlap PROVE Spec => ApprovedImmutable
<1> DEFINE Stands == \A a \in Apps : \A v \in 1..Len(packets[a]) :
                       packets[a][v].approved => packets'[a][v] = packets[a][v]
<1>1. Inv /\ SerialInv /\ [Next]_vars => [Stands]_vars
  <2> SUFFICES ASSUME Inv, SerialInv, [Next]_vars PROVE Stands \/ UNCHANGED vars
    OBVIOUS
  <2>1. ASSUME NEW s \in Sessions, SessionStep(s) PROVE Stands
    BY <2>1, PacketsStand DEF SerialInv, Fresh
  <2>2. CASE Environment
    BY <2>2, Around DEF rowVars
  <2> QED  BY <2>1, <2>2, StepCases
<1> QED  BY SerialHolds, <1>1, PTL DEF Spec, ApprovedImmutable

\* A key becomes PENDING by a claim only.
LEMMA PendingSteps ==
  ASSUME Inv, NEW s \in Sessions, SessionStep(s), NEW a \in Apps, attempt[a] # "PENDING", attempt'[a] = "PENDING"
  PROVE  a = cur[s] /\ (Claim(s) \/ (ManualClaim(s) /\ attBy'[a] = "manual"))
<1>1. attempt \in [Apps -> AttemptStatus] /\ attBy \in [Apps -> {"NONE", "auto", "manual"}]
  BY DEF Inv, TypeOK, RowsOK
<1>2. CASE attempt' = attempt
  BY <1>2
<1>3. CASE Claim(s) \/ ManualClaim(s)
  BY <1>1, <1>3 DEF Claim, ManualClaim, Hold
<1>4. CASE \E st \in {"FAILED", "SUBMITTED", "CONFIRMED"} : attempt' = [attempt EXCEPT ![cur[s]] = st]
  BY <1>1, <1>4
<1>5. CASE LastCheck(s) \/ AdapterBegin(s) \/ AdapterDeliver(s) \/ AdapterFail(s) \/ ManualFinish(s) \/ Decide(s)
  BY <1>2, <1>4, <1>5 DEF LastCheck, AdapterBegin, AdapterDeliver, AdapterFail, ManualFinish, Decide
<1>6. CASE Record(s)
  <2>1. res[s] # "PENDING" /\ attempt' = [attempt EXCEPT ![cur[s]] = res[s]]
    BY <1>6 DEF Record, StatusOf, Inv, TypeOK, SessionsOK
  <2> QED  BY <1>1, <2>1
<1> QED
  BY <1>2, <1>3, <1>5, <1>6, QuietSteps DEF SessionStep, WorkerStep, UserStep, Handle, Submit

\* Where sessions do not overlap, the program claims a key only while no other
\* application for the same role is on record as made: what the gate has seen
\* of them is still so when the claim is committed (policy.py evaluate).
THEOREM RoleClaimedOnce == ASSUME ~Overlap PROVE Spec => ClaimedOncePerRole
<1> DEFINE OncePerRole ==
      \A a, b \in Apps :
        /\ a # b /\ Role[a] = Role[b] /\ appState[b] \in Applied
        /\ attempt[a] # "PENDING" /\ attempt'[a] = "PENDING"
        => attBy'[a] = "manual"
<1>1. Inv /\ SerialInv /\ [Next]_vars => [OncePerRole]_vars
  <2> SUFFICES ASSUME Inv, SerialInv, [Next]_vars,
                      NEW a \in Apps, NEW b \in Apps, a # b, Role[a] = Role[b], appState[b] \in Applied,
                      attempt[a] # "PENDING", attempt'[a] = "PENDING"
               PROVE  attBy'[a] = "manual" \/ UNCHANGED vars
    OBVIOUS
  <2>1. ASSUME NEW s \in Sessions, SessionStep(s) PROVE attBy'[a] = "manual"
    <3>1. CASE Claim(s) /\ a = cur[s]
      <4>1. appState[b] \notin Applied
        BY <3>1 DEF Claim, SerialInv, Fresh, GateFresh
      <4> QED  BY <4>1
    <3> QED  BY <2>1, <3>1, PendingSteps
  <2>2. CASE Environment
    BY <2>2, Around
  <2> QED  BY <2>1, <2>2, StepCases
<1> QED  BY SerialHolds, <1>1, PTL DEF Spec, ClaimedOncePerRole

-----------------------------------------------------------------------------
(* Decisions of the user *)

\* What a step of a worker leaves in a row that the user has decided about.
LEMMA WorkerLeaves ==
  ASSUME Inv, NEW w \in Workers, WorkerStep(w) \/ Crash(w), Fresh(w), NEW a \in Apps, appState[a] \in UserOwned
  PROVE  appState'[a] = appState[a]
<1>1. w \in Sessions /\ appState \in [Apps -> Texts] /\ view \in [Sessions -> [Apps -> Texts]]
  BY DEF Sessions, Inv, TypeOK, RowsOK, SessionsOK, Texts
<1>2. CASE appState' = appState
  BY <1>2
<1>3. CASE pc[w] \in AtHand /\ \E st : SetState(cur[w], st)
  <2>1. cur[w] # a
    BY <1>3 DEF Fresh, ListOpen
  <2> QED  BY <1>1, <1>3, <2>1 DEF SetState
<1>4. CASE MatchCommit(w)
  <2>1. PICK score \in [Apps -> {"match", "below", "excluded"}] :
          appState'[a] = IF Rescored(view[w][a], a, score[a]) # view[w][a]
                         THEN Rescored(view[w][a], a, score[a]) ELSE appState[a]
    BY <1>4 DEF MatchCommit
  <2>2. view[w][a] = appState[a]
    BY <1>4 DEF MatchCommit, Fresh, RowsFresh
  <2>3. Rescored(view[w][a], a, score[a]) = view[w][a]
    BY <1>1, <2>2, RescoredOpen
  <2> QED  BY <2>1, <2>3
<1>5. CASE Prepare(w) \/ AutoApprove(w) \/ Record(w)
  <2>1. pc[w] \in AtHand /\ (UNCHANGED appState \/ \E st : SetState(cur[w], st))
    BY <1>5 DEF Prepare, NewPacket, AutoApprove, Record, AtHand
  <2> QED  BY <1>2, <1>3, <2>1
<1>6. CASE \/ Tick(w) \/ MatchClash(w) \/ PrepareNext(w) \/ PrepareDone(w) \/ SubmitNext(w) \/ SubmitDone(w)
           \/ GatePass(w) \/ GateBlock(w) \/ Claim(w) \/ LastCheck(w) \/ AdapterBegin(w) \/ AdapterDeliver(w)
           \/ AdapterFail(w) \/ Report(w) \/ Crash(w)
  BY <1>2, <1>6 DEF Tick, LoadAll, MatchClash, PrepareNext, PrepareDone, SubmitNext, SubmitDone, GatePass, GateBlock, Claim,
          LastCheck, AdapterBegin, AdapterDeliver, AdapterFail, Report, Crash
<1> QED  BY <1>4, <1>5, <1>6 DEF WorkerStep, Submit

\* A user's session that writes a state takes a step of its own.
LEMMA UserMoves ==
  ASSUME Inv, NEW u \in Users, UserStep(u), appState' # appState
  PROVE  pc'[u] # pc[u]
<1>1. u \in Sessions /\ u \notin Workers /\ SessionsOK
  BY SessionsAssumption DEF Sessions, Inv, TypeOK
<1>2. Rest(u) => pc'[u] = "idle"
  BY <1>1 DEF Rest, SessionsOK
<1>3. CASE MatchCommit(u) \/ Prepare(u) \/ Approve(u) \/ ManualFinish(u) \/ Decide(u)
  <2>1. Rest(u) /\ pc[u] # "idle"
    BY <1>1, <1>3 DEF MatchCommit, Prepare, Approve, ManualFinish, Decide, Decisions
  <2> QED  BY <1>2, <2>1
<1>4. CASE Record(u)
  <2>1. pc[u] = "record" /\ (Rest(u) \/ GoTo(u, "report"))
    BY <1>1, <1>4 DEF Record, Return
  <2> QED  BY <1>1, <1>2, <2>1 DEF GoTo, SessionsOK
<1> QED
  BY <1>3, <1>4
     DEF UserStep, Handle, Submit, MatchNow, LoadAll, MatchClash, SetAnswer, GatePass, GateBlock, Claim, LastCheck,
         AdapterBegin, AdapterDeliver, AdapterFail, Report, ManualClaim, Request

\* Where sessions do not overlap, a state that the user has decided changes by
\* a request only: no tick and no poll takes it back (statemachine.py
\* USER_OWNED, pipeline.py match_new_jobs, discovery.py).
THEOREM DecisionsStand == ASSUME ~Overlap PROVE Spec => UserDecisionStands
<1> DEFINE Stand == \A a \in Apps : appState[a] \in UserOwned /\ appState'[a] # appState[a] => ByUser
<1>1. Inv /\ SerialInv /\ [Next]_vars => [Stand]_vars
  <2> SUFFICES ASSUME Inv, SerialInv, [Next]_vars,
                      NEW a \in Apps, appState[a] \in UserOwned, appState'[a] # appState[a]
               PROVE  ByUser \/ UNCHANGED vars
    OBVIOUS
  <2>1. ASSUME NEW s \in Sessions, SessionStep(s) PROVE ByUser
    <3>1. CASE s \in Users /\ UserStep(s)
      BY <3>1, UserMoves DEF ByUser
    <3>2. CASE s \in Workers /\ (WorkerStep(s) \/ Crash(s))
      BY <3>2, WorkerLeaves DEF SerialInv, Sessions
    <3>3. CASE Crash(s)
      BY <3>3 DEF Crash
    <3> QED  BY <2>1, <3>1, <3>2, <3>3 DEF SessionStep
  <2>2. CASE Environment
    <3>1. appState[a] \notin {"NONE", "EXPIRED"} /\ appState \in [Apps -> Texts]
      BY DEF UserOwned, Inv, TypeOK, RowsOK, Texts
    <3>2. appState'[a] = appState[a]
      BY <2>2, <3>1 DEF Environment, Delist, Relist, ImportApplied, DismissHandoff, DayPasses, ToggleOptIn, SetPaused,
             SwitchFile, SetPause, SetState
    <3> QED  BY <3>2
  <2> QED  BY <2>1, <2>2, StepCases
<1> QED  BY SerialHolds, <1>1, PTL DEF Spec, UserDecisionStands
=============================================================================
