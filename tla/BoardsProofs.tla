---------------------------- MODULE BoardsProofs ----------------------------
(***************************************************************************)
(* Theorems about Boards, for any number of boards, sources and polls.      *)
(***************************************************************************)
EXTENDS Boards, TLAPS

-----------------------------------------------------------------------------
(* Types *)

\* Replacing one value of a function keeps its type; a key outside the domain
\* changes nothing.
LEMMA Replace ==
  ASSUME NEW S, NEW T, NEW f \in [S -> T], NEW x, NEW v, x \in S => v \in T
  PROVE  [f EXCEPT ![x] = v] \in [S -> T]
OBVIOUS

\* A row with some of its columns written is a row.
LEMMA RowWritten ==
  ASSUME NEW row \in Row, NEW e \in BOOLEAN, NEW n \in 0..Cap, NEW w \in Int
  PROVE  /\ [row EXCEPT !.enabled = e, !.fails = n, !.wait = w] \in Row
         /\ [row EXCEPT !.enabled = e] \in Row
         /\ [row EXCEPT !.wait = w] \in Row
         /\ [row EXCEPT !.fails = n, !.wait = w] \in Row
BY DEF Row

LEMMA Numbers == 0 \in 0..Cap /\ Never \in Int
BY CapAssumption DEF Never

\* A failure leaves an object of a row's type.
LEMMA FailedIsRow ==
  ASSUME NEW obj \in Row, NEW kind \in Failure, NEW retry \in RetrySeconds \union {0}, NEW run \in Delays
  PROVE  Failed(obj, kind, retry, run) \in Row
<1> DEFINE n == Least(obj.fails + 1, Cap)
<1>1. n \in 0..Cap
  BY CapAssumption DEF Least, Row
<1>2. 2^n \in Nat
  BY <1>1, PowerAssumption
<1>3. retry \in Nat
  BY RetryAssumption
<1>4. Backoff(n, retry) \in Int
  <2> HIDE DEF n
  <2> QED  BY <1>2, <1>3 DEF Backoff, Least, Greatest, MaxBackoffMinutes
<1> DEFINE e == obj.enabled /\ ~(kind = "permanent" /\ n >= 3)
<1>5. e \in BOOLEAN
  OBVIOUS
<1> DEFINE w == Greatest(0, 60 * Backoff(n, retry) - run)
<1>6. w \in Int
  <2> HIDE DEF n
  <2> QED  BY <1>4, DelaysAssumption DEF Greatest
<1>7. Failed(obj, kind, retry, run) = [obj EXCEPT !.fails = n, !.wait = w, !.enabled = e]
  BY DEF Failed
<1> HIDE DEF n, e, w
<1> QED
  BY <1>1, <1>5, <1>6, <1>7 DEF Row

\* So does a success, and a commit of such an object.
LEMMA SucceededIsRow ==
  ASSUME NEW obj \in Row
  PROVE  Succeeded(obj) \in Row
<1>1. obj.enabled \in BOOLEAN
  BY DEF Row
<1> QED
  BY <1>1, Numbers, RowWritten DEF Succeeded

LEMMA MergeIsRow ==
  ASSUME NEW row \in Row, NEW old \in Row, NEW new \in Row
  PROVE  Merge(row, old, new) \in Row
BY DEF Merge, Row

LEMMA RowsAreRows == NoRow \in Row /\ NewRow \in Row
BY Numbers DEF NoRow, NewRow, Row

LEMMA NoSourceTyped == NoSource \in [keys : SUBSET Sources, row : SourceRow]
BY DEF NoSource, SourceRow

\* Initially every variable has its type.
LEMMA TypeInit == Init => TypeOK
<1> SUFFICES ASSUME Init PROVE TypeOK
  OBVIOUS
<1> USE DEF Init
<1>1. RowsOK
  <2>1. [enabled |-> TRUE, read |-> TRUE, current |-> TRUE] \in SourceRow
    BY DEF SourceRow
  <2> QED  BY <2>1, RowsAreRows DEF RowsOK
<1>2. PollsOK
  BY RowsAreRows, NoSourceTyped, DelaysAssumption DEF PollsOK
<1>3. HistoryOK
  BY DEF HistoryOK
<1> QED
  BY <1>1, <1>2, <1>3 DEF TypeOK

\* Leaving a session and going on in a loop keep the types.
LEMMA ForgetTyped ==
  ASSUME PollsOK, NEW s \in Pollers, Forget(s)
  PROVE  PollsOK'
BY RowsAreRows, NoSourceTyped, DelaysAssumption DEF PollsOK, Forget

LEMMA AdvanceTyped ==
  ASSUME PollsOK, NEW s \in Pollers, NEW b, Advance(s, b),
         held' \in [Pollers -> [keys : SUBSET Sources, row : SourceRow]], ran' \in [Pollers -> Delays]
  PROVE  PollsOK'
<1>1. objs' = [objs EXCEPT ![s] = [objs[s] EXCEPT ![b] = NoRow]]
  BY DEF PollsOK, Advance
<1>2. [objs[s] EXCEPT ![b] = NoRow] \in [Boards -> Row]
  BY RowsAreRows DEF PollsOK
<1>3. objs' \in [Pollers -> [Boards -> Row]]
  BY <1>1, <1>2 DEF PollsOK
<1> QED
  BY <1>3 DEF PollsOK, Advance

\* So do what an answer asks for and the time it took.
LEMMA AsksTyped ==
  ASSUME HistoryOK, NEW b, NEW seconds, NEW run, Asks(b, seconds, run),
         b \in Boards => seconds \in Nat /\ run \in Nat
  PROVE  ask' \in [Boards -> Nat] /\ late' \in [Boards -> Nat]
<1> DEFINE r == IF seconds = 0 THEN 0 ELSE run
<1>1. b \in Boards => r \in Nat
  OBVIOUS
<1>2. ask' = [ask EXCEPT ![b] = seconds] /\ late' = [late EXCEPT ![b] = r]
  BY DEF Asks
<1> HIDE DEF r
<1> QED
  BY <1>1, <1>2 DEF HistoryOK

LEMMA RunsTyped ==
  ASSUME PollsOK, NEW s \in Pollers, NEW run \in Delays, Runs(s, run)
  PROVE  ran' \in [Pollers -> Delays]
BY DEF PollsOK, Runs

\* The steps of polls keep the types.
LEMMA PollTyped ==
  ASSUME TypeOK, NEW s \in Pollers, readable' \in [Pollers -> SUBSET Sources],
         StartPoll(s) \/ PollStep(s) \/ Crash(s)
  PROVE  TypeOK'
<1>1. CASE StartPoll(s)
  <2>1. [b \in Boards |-> IF b \in ToPoll THEN board[b] ELSE NoRow] \in [Boards -> Row]
    BY RowsAreRows DEF TypeOK, RowsOK
  <2>2. PollsOK'
    BY <1>1, <2>1 DEF StartPoll, ToPoll, TypeOK, PollsOK
  <2> QED
    BY <1>1, <2>2 DEF StartPoll, TypeOK, RowsOK, HistoryOK, rows, asked
<1>2. CASE EndPoll(s) \/ Raise(s) \/ Crash(s)
  <2>1. PollsOK'
    BY <1>2, ForgetTyped DEF TypeOK, EndPoll, Raise, Crash
  <2> QED
    BY <1>2, <2>1 DEF EndPoll, Raise, Crash, TypeOK, RowsOK, HistoryOK, rows, asked
<1>3. ASSUME NEW b \in Boards, Begin(s, b)
      PROVE  TypeOK'
  <2>1. [keys |-> {SourceOf[b]}, row |-> SourceSeen(s, b)] \in [keys : SUBSET Sources, row : SourceRow]
    BY SourcesAssumption DEF SourceSeen, TypeOK, RowsOK, PollsOK
  <2>2. held' \in [Pollers -> [keys : SUBSET Sources, row : SourceRow]]
    BY <1>3, <2>1 DEF Begin, TypeOK, PollsOK
  <2>3. PollsOK'
    <3>1. CASE CanRead(SourceSeen(s, b))
      BY <1>3, <2>2, <3>1 DEF Begin, TypeOK, PollsOK
    <3>2. CASE ~CanRead(SourceSeen(s, b))
      BY <1>3, <2>2, <3>2, AdvanceTyped DEF Begin, TypeOK, PollsOK
    <3> QED  BY <3>1, <3>2
  <2> QED
    BY <1>3, <2>3 DEF Begin, TypeOK, RowsOK, HistoryOK, rows, asked
<1>4. CASE AnswerOK(s)
  <2>1. cur[s] \in Boards => Merge(board[cur[s]], objs[s][cur[s]], Succeeded(objs[s][cur[s]])) \in Row
    BY SucceededIsRow, MergeIsRow DEF TypeOK, RowsOK, PollsOK
  <2>2. board' \in [Boards -> Row]
    BY <1>4, <2>1, Replace DEF AnswerOK, TypeOK, RowsOK
  <2>3. PollsOK'
    <3>1. ran' \in [Pollers -> Delays]
      BY <1>4, RunsTyped DEF AnswerOK, TypeOK
    <3> QED  BY <1>4, <3>1, AdvanceTyped DEF AnswerOK, TypeOK, PollsOK
  <2>4. /\ streak' = [streak EXCEPT ![cur[s]] = 0]
        /\ lastPerm' = [lastPerm EXCEPT ![cur[s]] = FALSE]
        /\ UNCHANGED off /\ Asks(cur[s], 0, 0)
    BY <1>4 DEF AnswerOK
  <2>5. streak' \in [Boards -> 0..3] /\ lastPerm' \in [Boards -> BOOLEAN]
    <3>1. streak \in [Boards -> 0..3] /\ lastPerm \in [Boards -> BOOLEAN]
      BY DEF TypeOK, HistoryOK
    <3>2. streak' \in [Boards -> 0..3]
      <4>1. 0 \in 0..3
        OBVIOUS
      <4>2. [streak EXCEPT ![cur[s]] = 0] \in [Boards -> 0..3]
        BY <3>1, <4>1, Replace
      <4> QED  BY <2>4, <4>2
    <3>3. lastPerm' \in [Boards -> BOOLEAN]
      BY <2>4, <3>1
    <3> QED  BY <3>2, <3>3
  <2>6. HistoryOK'
    <3>1. ask' \in [Boards -> Nat] /\ late' \in [Boards -> Nat]
      BY <2>4, AsksTyped DEF TypeOK
    <3> QED  BY <1>4, <2>4, <2>5, <3>1 DEF TypeOK, HistoryOK
  <2> QED
    BY <1>4, <2>2, <2>3, <2>6 DEF AnswerOK, TypeOK, RowsOK
<1>5. CASE AnswerBad(s)
  <2>1. PICK kind \in Failure, retry \in RetrySeconds \union {0}, run \in Delays :
          /\ Runs(s, run)
          /\ board' = [board EXCEPT ![cur[s]] = Merge(@, objs[s][cur[s]], Failed(objs[s][cur[s]], kind, retry, run))]
          /\ lastPerm' = [lastPerm EXCEPT ![cur[s]] = (kind = "permanent")]
          /\ Asks(cur[s], retry, run)
    BY <1>5 DEF AnswerBad
  <2>2. cur[s] \in Boards => Merge(board[cur[s]], objs[s][cur[s]], Failed(objs[s][cur[s]], kind, retry, run)) \in Row
    BY FailedIsRow, MergeIsRow DEF TypeOK, RowsOK, PollsOK
  <2>3. board' \in [Boards -> Row]
    BY <2>1, <2>2, Replace DEF TypeOK, RowsOK
  <2>4. retry \in Nat /\ run \in Nat
    BY RetryAssumption, DelaysAssumption
  <2>5. ask' \in [Boards -> Nat] /\ late' \in [Boards -> Nat] /\ lastPerm' \in [Boards -> BOOLEAN]
    <3>1. ask' \in [Boards -> Nat] /\ late' \in [Boards -> Nat]
      BY <2>1, <2>4, AsksTyped DEF TypeOK
    <3> QED  BY <2>1, <3>1 DEF TypeOK, HistoryOK
  <2>6. streak' \in [Boards -> 0..3]
    <3>1. \A n \in 0..3 : Least(n + 1, 3) \in 0..3
      BY DEF Least
    <3>2. streak' = [streak EXCEPT ![cur[s]] = Least(streak[cur[s]] + 1, 3)]
      BY <1>5 DEF AnswerBad
    <3> QED  BY <3>1, <3>2 DEF TypeOK, HistoryOK
  <2>7. PollsOK'
    <3>1. ran' \in [Pollers -> Delays]
      BY <2>1, RunsTyped DEF TypeOK
    <3> QED  BY <1>5, <3>1, AdvanceTyped DEF AnswerBad, TypeOK, PollsOK
  <2> QED
    BY <1>5, <2>3, <2>5, <2>6, <2>7 DEF AnswerBad, TypeOK, RowsOK, HistoryOK
<1> QED
  BY <1>1, <1>2, <1>3, <1>4, <1>5 DEF PollStep

\* Requests, the registry and the clock keep them.
LEMMA ChangeTyped ==
  ASSUME TypeOK, readable' \in [Pollers -> SUBSET Sources], Change
  PROVE  TypeOK'
<1> USE DEF TypeOK, RowsOK, HistoryOK, memory, asked
<1>1. ASSUME NEW b \in Boards, NEW on \in BOOLEAN, PatchBoard(b, on)
      PROVE  TypeOK'
  <2>1. /\ [board[b] EXCEPT !.enabled = TRUE, !.fails = 0, !.wait = Never] \in Row
        /\ [board[b] EXCEPT !.enabled = FALSE] \in Row
    BY RowWritten, Numbers
  <2>2. board' \in [Boards -> Row]
    BY <1>1, <2>1 DEF PatchBoard
  <2>3. off' \in [Boards -> BOOLEAN] /\ ask' \in [Boards -> Nat] /\ late' \in [Boards -> Nat]
    BY <1>1, AsksTyped DEF PatchBoard
  <2>4. PollsOK'
    BY <1>1 DEF PatchBoard, PollsOK
  <2> QED
    BY <1>1, <2>2, <2>3, <2>4 DEF PatchBoard
<1>2. ASSUME NEW b \in Boards, AddBoard(b) \/ DeleteBoard(b)
      PROVE  TypeOK'
  <2>1. board' \in [Boards -> Row]
    BY <1>2, RowsAreRows DEF AddBoard, DeleteBoard
  <2>2. PollsOK'
    BY <1>2 DEF AddBoard, DeleteBoard, PollsOK
  <2>3. CASE AddBoard(b)
    <3>1. streak' \in [Boards -> 0..3] /\ lastPerm' \in [Boards -> BOOLEAN]
      BY <2>3 DEF AddBoard
    <3>2. off' \in [Boards -> BOOLEAN] /\ ask' \in [Boards -> Nat] /\ late' \in [Boards -> Nat]
      BY <2>3, AsksTyped DEF AddBoard
    <3> QED
      BY <2>1, <2>2, <2>3, <3>1, <3>2 DEF AddBoard
  <2>4. CASE DeleteBoard(b)
    BY <2>1, <2>2, <2>4 DEF DeleteBoard
  <2> QED
    BY <1>2, <2>3, <2>4
<1>3. ASSUME NEW b \in Boards, Elapse(b)
      PROVE  TypeOK'
  <2>0. [board[b] EXCEPT !.wait = 0] \in Row
    <3>1. board[b] \in Row
      OBVIOUS
    <3> QED  BY <3>1 DEF Row
  <2>1. board' \in [Boards -> Row]
    BY <1>3, <2>0 DEF Elapse
  <2>2. Greatest(0, ask[b] - board[b].wait) \in Nat
    BY DEF Greatest, Row
  <2>3. ask' \in [Boards -> Nat] /\ late' \in [Boards -> Nat]
    BY <1>3, <2>2, AsksTyped DEF Elapse
  <2>4. PollsOK'
    BY <1>3 DEF Elapse, PollsOK
  <2> QED
    BY <1>3, <2>1, <2>3, <2>4 DEF Elapse
<1>4. ASSUME NEW k \in Sources, NEW on \in BOOLEAN, PatchSource(k, on)
      PROVE  TypeOK'
  <2>1. source' \in [Sources -> SourceRow]
    BY <1>4 DEF PatchSource, SourceRow
  <2> QED
    BY <1>4, <2>1 DEF PatchSource, PollsOK
<1>5. ASSUME NEW k \in Sources, SyncRegistry(k)
      PROVE  TypeOK'
  <2>1. PICK read, current \in BOOLEAN :
          source' = [source EXCEPT ![k] = [enabled |-> source[k].enabled /\ read, read |-> read, current |-> current]]
    BY <1>5 DEF SyncRegistry
  <2>2. [enabled |-> source[k].enabled /\ read, read |-> read, current |-> current] \in SourceRow
    BY DEF SourceRow
  <2>3. source' \in [Sources -> SourceRow]
    BY <2>1, <2>2
  <2> QED
    BY <1>5, <2>3 DEF SyncRegistry, PollsOK
<1>6. ASSUME NEW k \in Sources, ReviewAges(k)
      PROVE  TypeOK'
  <2>1. source' \in [Sources -> SourceRow]
    BY <1>6 DEF ReviewAges, SourceRow
  <2>2. \A h \in [keys : SUBSET Sources, row : SourceRow] :
          [h EXCEPT !.row.current = FALSE] \in [keys : SUBSET Sources, row : SourceRow]
    BY DEF SourceRow
  <2>3. held' \in [Pollers -> [keys : SUBSET Sources, row : SourceRow]]
    BY <1>6, <2>2 DEF ReviewAges, PollsOK
  <2> QED
    BY <1>6, <2>1, <2>3 DEF ReviewAges, PollsOK
<1>7. ASSUME NEW on \in BOOLEAN, SetPause(on)
      PROVE  TypeOK'
  BY <1>7 DEF SetPause, PollsOK
<1> QED
  BY <1>1, <1>2, <1>3, <1>4, <1>5, <1>6, <1>7 DEF Change

\* So every step does.
LEMMA TypeStep ==
  ASSUME TypeOK, [Next]_vars
  PROVE  TypeOK'
<1>1. CASE UNCHANGED vars
  BY <1>1 DEF vars, rows, memory, asked, TypeOK, RowsOK, PollsOK, HistoryOK
<1>2. CASE Next
  <2>1. readable' \in [Pollers -> SUBSET Sources]
    BY <1>2 DEF Next, Watch, TypeOK, HistoryOK
  <2> QED
    BY <1>2, <2>1, PollTyped, ChangeTyped DEF Next, Act
<1> QED
  BY <1>1, <1>2

\* Every row, object and history variable holds a value of its type.
THEOREM RowsTyped == Spec => []TypeOK
<1> QED
  BY TypeInit, TypeStep, PTL DEF Spec

-----------------------------------------------------------------------------
(* What users and sources decide *)

\* What a commit makes of a row's columns.
LEMMA Merged ==
  ASSUME NEW row \in Row, NEW old \in Row, NEW new \in Row
  PROVE  /\ Merge(row, old, new).there = row.there
         /\ Merge(row, old, new).enabled = IF new.enabled = old.enabled THEN row.enabled ELSE new.enabled
         /\ Merge(row, old, new).fails = IF new.fails = old.fails THEN row.fails ELSE new.fails
         /\ Merge(row, old, new).wait = IF new.wait = Never /\ old.wait = Never THEN row.wait ELSE new.wait
BY DEF Merge, Row

\* A poll never switches a board on.
LEMMA OnlyOff ==
  ASSUME NEW obj \in Row, NEW kind, NEW retry, NEW run
  PROVE  /\ Succeeded(obj).enabled = obj.enabled
         /\ Failed(obj, kind, retry, run).enabled => obj.enabled
BY DEF Succeeded, Failed, Row

\* A board that the user has switched off is not switched on again by a poll
\* that loaded it before and commits afterwards.
LEMMA OffStep ==
  ASSUME TypeOK, UserOffStays, [Next]_vars
  PROVE  UserOffStays'
<1> SUFFICES ASSUME NEW c \in Boards, off'[c], board'[c].there
             PROVE  ~board'[c].enabled
  BY DEF UserOffStays
<1> USE DEF TypeOK, RowsOK, HistoryOK
<1>1. CASE UNCHANGED <<board, off>>
  BY <1>1 DEF UserOffStays
<1>2. ASSUME NEW s \in Pollers, AnswerOK(s) \/ AnswerBad(s)
      PROVE  ~board'[c].enabled
  <2>1. off[c]
    BY <1>2 DEF AnswerOK, AnswerBad
  <2>2. CASE c # cur[s]
    BY <1>2, <2>1, <2>2 DEF UserOffStays, AnswerOK, AnswerBad
  <2>3. CASE c = cur[s]
    <3>1. board[c] \in Row /\ objs[s][c] \in Row
      BY DEF PollsOK
    <3>2. PICK new \in Row : board'[c] = Merge(board[c], objs[s][c], new) /\ (new.enabled => objs[s][c].enabled)
      <4>1. CASE AnswerOK(s)
        BY <2>3, <3>1, <4>1, SucceededIsRow, OnlyOff DEF AnswerOK
      <4>2. CASE AnswerBad(s)
        <5>1. PICK kind \in Failure, retry \in RetrySeconds \union {0}, run \in Delays :
                /\ board' = [board EXCEPT ![cur[s]] = Merge(@, objs[s][cur[s]], Failed(objs[s][cur[s]], kind, retry, run))]
                /\ Asks(cur[s], retry, run)
          BY <4>2 DEF AnswerBad
        <5>2. board'[c] = Merge(board[c], objs[s][c], Failed(objs[s][c], kind, retry, run))
          BY <2>3, <5>1
        <5> QED  BY <3>1, <5>2, FailedIsRow, OnlyOff
      <4> QED  BY <1>2, <4>1, <4>2
    <3>3. /\ board'[c].there = board[c].there
          /\ board'[c].enabled = IF new.enabled = objs[s][c].enabled THEN board[c].enabled ELSE new.enabled
      <4>1. /\ Merge(board[c], objs[s][c], new).there = board[c].there
            /\ Merge(board[c], objs[s][c], new).enabled =
                 IF new.enabled = objs[s][c].enabled THEN board[c].enabled ELSE new.enabled
        BY <3>1, <3>2, Merged
      <4> QED  BY <3>2, <4>1
    <3>4. ~board[c].enabled
      BY <2>1, <3>3 DEF UserOffStays
    <3>5. board[c].enabled \in BOOLEAN /\ objs[s][c].enabled \in BOOLEAN /\ new.enabled \in BOOLEAN
      BY <3>1 DEF Row
    <3> QED  BY <3>2, <3>3, <3>4, <3>5
  <2> QED  BY <2>2, <2>3
<1>3. ASSUME NEW b \in Boards, NEW on \in BOOLEAN, PatchBoard(b, on)
      PROVE  ~board'[c].enabled
  <2>1. CASE c = b
    BY <1>3, <2>1 DEF PatchBoard, Row
  <2>2. CASE c # b
    BY <1>3, <2>2 DEF PatchBoard, UserOffStays
  <2> QED  BY <2>1, <2>2
<1>4. ASSUME NEW b \in Boards, AddBoard(b) \/ DeleteBoard(b) \/ Elapse(b)
      PROVE  ~board'[c].enabled
  <2>1. CASE c = b
    <3>1. CASE AddBoard(b)
      BY <2>1, <3>1 DEF AddBoard
    <3>2. CASE DeleteBoard(b)
      BY <2>1, <3>2 DEF DeleteBoard, NoRow
    <3>3. CASE Elapse(b)
      <4>1. board'[c].enabled = board[c].enabled /\ board'[c].there = board[c].there /\ off' = off
        BY <2>1, <3>3 DEF Elapse, Row
      <4> QED  BY <4>1 DEF UserOffStays
    <3> QED  BY <1>4, <3>1, <3>2, <3>3
  <2>2. CASE c # b
    BY <1>4, <2>2 DEF AddBoard, DeleteBoard, Elapse, UserOffStays
  <2> QED  BY <2>1, <2>2
<1> QED
  BY <1>1, <1>2, <1>3, <1>4 DEF Next, Act, Change, PollStep, StartPoll, EndPoll, Begin, Raise, Crash,
     PatchSource, SyncRegistry, ReviewAges, SetPause, rows, vars, memory

\* A board that the user has switched off is not switched on again by a poll.
THEOREM SwitchedOffStays == Spec => []UserOffStays
<1>1. Init => UserOffStays
  BY DEF Init, UserOffStays
<1> QED
  BY <1>1, TypeInit, TypeStep, OffStep, PTL DEF Spec

\* What ReadPermitted needs to be inductive: a source object that a poll still
\* refers to, and that lets it read, was permitted during this poll.
Watched ==
  \A s \in Pollers :
    /\ pc[s] = "asking" => cur[s] \in Boards /\ SourceOf[cur[s]] \in readable[s]
    /\ pc[s] = "idle" => held[s].keys = {}
    /\ CanRead(held[s].row) => held[s].keys \subseteq readable[s]

LEMMA WatchedStep ==
  ASSUME TypeOK, Watched, [Next]_vars
  PROVE  Watched'
<1>1. CASE UNCHANGED vars
  BY <1>1 DEF vars, memory, Watched, CanRead
<1>2. CASE Next
  <2> SUFFICES ASSUME NEW t \in Pollers
               PROVE  /\ pc'[t] = "asking" => cur'[t] \in Boards /\ SourceOf[cur'[t]] \in readable'[t]
                      /\ pc'[t] = "idle" => held'[t].keys = {}
                      /\ CanRead(held'[t].row) => held'[t].keys \subseteq readable'[t]
    BY DEF Watched
  <2>1. /\ pc'[t] # "idle" => readable[t] \subseteq readable'[t]
        /\ pc'[t] # "idle" => \A k \in Sources : Permitted(k)' => k \in readable'[t]
    BY <1>2 DEF Next, Watch
  <2>2. ASSUME pc'[t] = pc[t], cur'[t] = cur[t], held'[t] = held[t]
        PROVE  /\ pc'[t] = "asking" => cur'[t] \in Boards /\ SourceOf[cur'[t]] \in readable'[t]
               /\ pc'[t] = "idle" => held'[t].keys = {}
               /\ CanRead(held'[t].row) => held'[t].keys \subseteq readable'[t]
    BY <2>1, <2>2 DEF Watched
  <2>3. ASSUME pc'[t] = "idle", held'[t] = NoSource
        PROVE  /\ pc'[t] = "asking" => cur'[t] \in Boards /\ SourceOf[cur'[t]] \in readable'[t]
               /\ pc'[t] = "idle" => held'[t].keys = {}
               /\ CanRead(held'[t].row) => held'[t].keys \subseteq readable'[t]
    BY <2>3 DEF NoSource
  <2>4. ASSUME pc'[t] = "loop", held'[t] = held[t]
        PROVE  /\ pc'[t] = "asking" => cur'[t] \in Boards /\ SourceOf[cur'[t]] \in readable'[t]
               /\ pc'[t] = "idle" => held'[t].keys = {}
               /\ CanRead(held'[t].row) => held'[t].keys \subseteq readable'[t]
    BY <2>1, <2>4 DEF Watched
  <2>5. CASE Change
    <3>1. ASSUME NEW k \in Sources, ReviewAges(k)
          PROVE  /\ pc'[t] = "asking" => cur'[t] \in Boards /\ SourceOf[cur'[t]] \in readable'[t]
                 /\ pc'[t] = "idle" => held'[t].keys = {}
                 /\ CanRead(held'[t].row) => held'[t].keys \subseteq readable'[t]
      <4>1. pc' = pc /\ cur' = cur
        BY <3>1 DEF ReviewAges
      <4>2. CASE k \in held[t].keys
        <5>1. held'[t] = [held[t] EXCEPT !.row.current = FALSE]
          BY <3>1, <4>2 DEF ReviewAges
        <5>2. held'[t].keys = held[t].keys /\ ~held'[t].row.current
          BY <5>1 DEF TypeOK, PollsOK, SourceRow
        <5> QED  BY <2>1, <4>1, <5>2 DEF Watched, CanRead
      <4>3. CASE k \notin held[t].keys
        <5>1. held'[t] = held[t]
          BY <3>1, <4>3 DEF ReviewAges
        <5> QED  BY <2>2, <4>1, <5>1
      <4> QED  BY <4>2, <4>3
    <3>2. ASSUME ~\E k \in Sources : ReviewAges(k)
          PROVE  pc' = pc /\ cur' = cur /\ held' = held
      BY <2>5, <3>2 DEF Change, PatchBoard, AddBoard, DeleteBoard, Elapse, PatchSource, SyncRegistry, SetPause, memory
    <3> QED  BY <2>2, <3>1, <3>2
  <2>6. ASSUME NEW s \in Pollers, s # t, StartPoll(s) \/ PollStep(s) \/ Crash(s)
        PROVE  pc'[t] = pc[t] /\ cur'[t] = cur[t] /\ held'[t] = held[t]
    BY <2>6 DEF StartPoll, PollStep, Crash, EndPoll, Begin, AnswerOK, AnswerBad, Raise, Forget, Advance, TypeOK, PollsOK
  <2>7. CASE StartPoll(t)
    BY <2>4, <2>7 DEF StartPoll, TypeOK, PollsOK
  <2>8. CASE EndPoll(t) \/ Raise(t) \/ Crash(t)
    BY <2>3, <2>8 DEF EndPoll, Raise, Crash, Forget, TypeOK, PollsOK
  <2>9. CASE AnswerOK(t) \/ AnswerBad(t)
    BY <2>4, <2>9 DEF AnswerOK, AnswerBad, Advance, TypeOK, PollsOK
  <2>10. ASSUME NEW b \in Boards, Begin(t, b)
         PROVE  /\ pc'[t] = "asking" => cur'[t] \in Boards /\ SourceOf[cur'[t]] \in readable'[t]
                /\ pc'[t] = "idle" => held'[t].keys = {}
                /\ CanRead(held'[t].row) => held'[t].keys \subseteq readable'[t]
    <3>1. held'[t].keys = {SourceOf[b]} /\ held'[t].row = SourceSeen(t, b)
      BY <2>10 DEF Begin, TypeOK, PollsOK
    <3>2. pc'[t] # "idle" /\ (pc'[t] = "asking" => cur'[t] = b /\ CanRead(SourceSeen(t, b)))
      BY <2>10 DEF Begin, Advance, TypeOK, PollsOK
    <3>3. ASSUME CanRead(SourceSeen(t, b))
          PROVE  SourceOf[b] \in readable'[t]
      <4>1. CASE SourceOf[b] \in held[t].keys
        BY <2>1, <3>2, <3>3, <4>1 DEF Watched, SourceSeen
      <4>2. CASE SourceOf[b] \notin held[t].keys
        <5>1. Permitted(SourceOf[b])'
          BY <2>10, <3>3, <4>2 DEF SourceSeen, CanRead, Permitted, Begin, rows
        <5> QED  BY <2>1, <3>2, <5>1, SourcesAssumption
      <4> QED  BY <4>1, <4>2
    <3> QED  BY <3>1, <3>2, <3>3
  <2> QED
    BY <1>2, <2>2, <2>5, <2>6, <2>7, <2>8, <2>9, <2>10 DEF Next, Act, PollStep
<1> QED
  BY <1>1, <1>2

\* A poll asks the boards of a source only if the registry, the date of its
\* review and the user permitted that at some moment of the poll.
THEOREM AskedWithPermission == Spec => []ReadPermitted
<1>1. Init => Watched
  BY DEF Init, Watched, CanRead, NoSource
<1>2. Watched => ReadPermitted
  BY DEF Watched, ReadPermitted
<1> QED
  BY <1>1, <1>2, TypeInit, TypeStep, WatchedStep, PTL DEF Spec

-----------------------------------------------------------------------------
(* What failures decide, when no two polls overlap *)

\* At most one poll runs.
Solo == \A s, t \in Pollers : pc[s] # "idle" /\ pc[t] # "idle" => s = t

\* Since the object was loaded, the row has changed by requests only, and
\* these switch the board off, or on with no failures.
Loaded ==
  \A s \in Pollers, b \in Boards :
    objs[s][b].there =>
      /\ pc[s] # "idle" /\ objs[s][b].enabled /\ objs[s][b].wait <= 0
      /\ Least(objs[s][b].fails, 3) <= streak[b] /\ ask[b] <= late[b]
      /\ board[b].there => (board[b].enabled \/ off[b]) /\ board[b].fails \in {objs[s][b].fails, 0}

\* A poll holds an object for every board that it is to ask or is asking.
AtHand ==
  \A s \in Pollers :
    /\ \A b \in todo[s] : objs[s][b].there
    /\ pc[s] = "asking" => cur[s] \in todo[s]

\* The row counts no failure that did not happen and ends no wait earlier than by
\* the time that the poll had run.
Counted ==
  \A b \in Boards :
    /\ board[b].enabled => board[b].there
    /\ board[b].there => Least(board[b].fails, 3) <= streak[b] /\ ask[b] <= Greatest(0, board[b].wait) + late[b]

Counts == Solo /\ Loaded /\ AtHand /\ Counted

LEMMA LeastSuccessor ==
  ASSUME NEW m \in Nat, NEW n \in 0..3, Least(m, 3) <= n
  PROVE  /\ Least(m + 1, 3) <= Least(n + 1, 3)
         /\ m >= 2 => Least(n + 1, 3) = 3
BY DEF Least

\* A failure makes the board wait for at least what the answer asks for.
LEMMA BackoffLongEnough ==
  ASSUME NEW n \in 0..Cap, NEW retry \in Nat
  PROVE  Backoff(n, retry) \in Int /\ retry <= 60 * Backoff(n, retry)
<1>1. 2^n \in Nat
  BY PowerAssumption
<1> DEFINE p == 2^n
<1>2. p \in Nat
  BY <1>1
<1> HIDE DEF p
<1>3. Backoff(n, retry) = IF retry = 0 THEN Least(p, 1440) ELSE Greatest(Least(p, 1440), (retry \div 60) + 1)
  BY DEF Backoff, MaxBackoffMinutes, p
<1>4. Least(p, 1440) \in Nat
  BY <1>2 DEF Least
<1>5. (retry \div 60) + 1 \in Nat /\ retry <= 60 * ((retry \div 60) + 1)
  OBVIOUS
<1> QED
  BY <1>3, <1>4, <1>5 DEF Greatest

\* What an answer does to the board that was asked.
LEMMA Answered ==
  ASSUME TypeOK, Counts, NEW s \in Pollers, AnswerOK(s) \/ AnswerBad(s)
  PROVE  LET b == cur[s] IN
         /\ b \in Boards /\ objs[s][b].there /\ board[b].there /\ board'[b].there
         /\ Least(board'[b].fails, 3) <= streak'[b]
         /\ ask'[b] <= Greatest(0, board'[b].wait) + late'[b]
         /\ ~board'[b].enabled => ~board[b].enabled \/ (streak'[b] >= 3 /\ lastPerm'[b])
<1> DEFINE b == cur[s]  old == objs[s][b]
<1>1. pc[s] = "asking" /\ board[b].there
  BY DEF AnswerOK, AnswerBad
<1>2. b \in Boards /\ old.there
  BY <1>1 DEF Counts, AtHand, TypeOK, PollsOK
<1>3. /\ board[b] \in Row /\ old \in Row /\ streak[b] \in 0..3 /\ ask[b] \in Nat /\ late[b] \in Nat
  BY <1>2 DEF TypeOK, RowsOK, PollsOK, HistoryOK
<1>4. /\ old.enabled /\ old.wait <= 0 /\ Least(old.fails, 3) <= streak[b]
      /\ board[b].fails \in {old.fails, 0}
  BY <1>1, <1>2 DEF Counts, Loaded
<1>5. /\ board[b].there \in BOOLEAN /\ board[b].enabled \in BOOLEAN /\ board[b].fails \in 0..Cap /\ board[b].wait \in Int
      /\ old.fails \in 0..Cap /\ old.wait \in Int
  BY <1>3 DEF Row
<1>6. CASE AnswerOK(s)
  <2>1. Succeeded(old) \in Row /\ Succeeded(old).fails = 0 /\ Succeeded(old).enabled = old.enabled
    BY <1>3, SucceededIsRow DEF Succeeded, Row
  <2>2. board'[b] = Merge(board[b], old, Succeeded(old)) /\ streak'[b] = 0 /\ ask'[b] = 0 /\ late'[b] = 0
    BY <1>2, <1>6 DEF AnswerOK, Asks, TypeOK, RowsOK, HistoryOK
  <2>3. /\ board'[b].there = board[b].there /\ board'[b].enabled = board[b].enabled
        /\ board'[b].fails = IF 0 = old.fails THEN board[b].fails ELSE 0
    BY <1>3, <2>1, <2>2, Merged
  <2>4. board'[b] \in Row
    BY <1>3, <2>1, <2>2, MergeIsRow
  <2>5. board'[b].fails = 0
    BY <1>4, <2>3
  <2>6. ask'[b] <= Greatest(0, board'[b].wait) + late'[b]
    BY <2>2, <2>4 DEF Greatest, Row
  <2> QED
    BY <1>1, <1>2, <2>2, <2>3, <2>5, <2>6 DEF Least
<1>7. CASE AnswerBad(s)
  <2>1. PICK kind \in Failure, retry \in RetrySeconds \union {0}, run \in Delays :
          /\ board' = [board EXCEPT ![b] = Merge(@, old, Failed(old, kind, retry, run))]
          /\ lastPerm' = [lastPerm EXCEPT ![b] = (kind = "permanent")]
          /\ Asks(b, retry, run)
    BY <1>7 DEF AnswerBad
  <2> DEFINE n == Least(old.fails + 1, Cap)  new == Failed(old, kind, retry, run)
  <2>2. retry \in Nat /\ run \in Nat
    BY RetryAssumption, DelaysAssumption
  <2>3. n \in 0..Cap /\ Least(n, 3) <= Least(old.fails + 1, 3) /\ (n >= 3 => old.fails >= 2)
    BY <1>5, CapAssumption DEF Least
  <2>4. new \in Row /\ new.fails = n /\ new.wait = Greatest(0, 60 * Backoff(n, retry) - run)
        /\ (~new.enabled => kind = "permanent" /\ n >= 3)
    <3>1. new \in Row
      BY <1>3, FailedIsRow
    <3>2. new.fails = n /\ new.wait = Greatest(0, 60 * Backoff(n, retry) - run)
      BY <1>3 DEF Failed, Row
    <3>3. new.enabled = (old.enabled /\ ~(kind = "permanent" /\ n >= 3))
      BY <1>3 DEF Failed, Row
    <3> QED  BY <1>4, <3>1, <3>2, <3>3
  <2> HIDE DEF n, new
  <2>5. /\ board'[b] = Merge(board[b], old, new) /\ lastPerm'[b] = (kind = "permanent")
        /\ ask'[b] = retry /\ late'[b] = IF retry = 0 THEN 0 ELSE run
    BY <1>2, <2>1 DEF Asks, TypeOK, RowsOK, HistoryOK, new
  <2>6. streak'[b] = Least(streak[b] + 1, 3)
    BY <1>2, <1>7 DEF AnswerBad, TypeOK, HistoryOK
  <2>7. /\ board'[b].there = board[b].there
        /\ board'[b].enabled = IF new.enabled = old.enabled THEN board[b].enabled ELSE new.enabled
        /\ board'[b].fails = IF new.fails = old.fails THEN board[b].fails ELSE new.fails
        /\ board'[b].wait = IF new.wait = Never /\ old.wait = Never THEN board[b].wait ELSE new.wait
    BY <1>3, <2>4, <2>5, Merged
  <2>8. /\ Least(old.fails + 1, 3) <= streak'[b]
        /\ old.fails >= 2 => streak'[b] = 3
    BY <1>3, <1>4, <1>5, <2>6, LeastSuccessor
  <2>9. Least(board'[b].fails, 3) <= streak'[b]
    <3>1. streak'[b] \in 0..3
      BY <1>3, <2>6 DEF Least
    <3>2. board'[b].fails \in {n, old.fails, 0}
      BY <1>4, <2>4, <2>7
    <3> QED  BY <1>5, <2>3, <2>8, <3>1, <3>2 DEF Least
  <2>10. ask'[b] <= Greatest(0, board'[b].wait) + late'[b]
    <3>1. Backoff(n, retry) \in Int /\ retry <= 60 * Backoff(n, retry)
      BY <2>2, <2>3, BackoffLongEnough
    <3>2. new.wait >= 0 /\ new.wait \in Int /\ 60 * Backoff(n, retry) - run <= new.wait
      BY <2>2, <2>4, <3>1 DEF Greatest
    <3>3. board'[b].wait = new.wait
      BY <2>7, <3>2 DEF Never
    <3> QED  BY <2>2, <2>5, <3>1, <3>2, <3>3 DEF Greatest
  <2>11. ~board'[b].enabled => ~board[b].enabled \/ (streak'[b] >= 3 /\ lastPerm'[b])
    <3> SUFFICES ASSUME ~board'[b].enabled, board[b].enabled
                 PROVE  streak'[b] >= 3 /\ lastPerm'[b]
      OBVIOUS
    <3>1. ~new.enabled
      BY <2>7
    <3>2. kind = "permanent" /\ n >= 3
      BY <2>4, <3>1
    <3>3. streak'[b] = 3
      BY <2>3, <2>8, <3>2
    <3>4. lastPerm'[b]
      BY <2>5, <3>2
    <3> QED  BY <3>3, <3>4
  <2> QED
    BY <1>1, <1>2, <2>7, <2>9, <2>10, <2>11
<1> QED
  BY <1>6, <1>7

\* Going on in the loop keeps what is known of the objects: one of them is gone,
\* together with the board that was to be asked.
LEMMA AdvanceKeeps ==
  ASSUME TypeOK, NEW s \in Pollers, NEW b \in Boards, Advance(s, b), AtHand
  PROVE  /\ AtHand'
         /\ \A t \in Pollers, c \in Boards :
              objs'[t][c].there => objs'[t][c] = objs[t][c] /\ ~(t = s /\ c = b)
<1>1. \A t \in Pollers : /\ pc'[t] = (IF t = s THEN "loop" ELSE pc[t])
                         /\ todo'[t] = (IF t = s THEN todo[t] \ {b} ELSE todo[t])
                         /\ cur'[t] = (IF t = s THEN NoBoard ELSE cur[t])
  BY DEF Advance, TypeOK, PollsOK
<1>2. \A t \in Pollers, c \in Boards : ~(t = s /\ c = b) => objs'[t][c] = objs[t][c]
  BY DEF Advance, TypeOK, PollsOK
<1>3. objs'[s][b] = NoRow /\ ~NoRow.there
  BY DEF Advance, NoRow, TypeOK, PollsOK
<1>4. \A t \in Pollers : todo'[t] \subseteq Boards /\ todo'[t] \subseteq todo[t]
  BY <1>1 DEF TypeOK, PollsOK
<1>5. ASSUME NEW t \in Pollers
      PROVE  /\ \A c \in todo'[t] : objs'[t][c].there
             /\ pc'[t] = "asking" => cur'[t] \in todo'[t]
  <2>1. CASE t = s
    BY <1>1, <1>2, <1>4, <2>1 DEF AtHand
  <2>2. CASE t # s
    BY <1>1, <1>2, <1>4, <2>2 DEF AtHand
  <2> QED  BY <2>1, <2>2
<1>6. AtHand'
  BY <1>5 DEF AtHand
<1> QED
  BY <1>2, <1>3, <1>6

\* The steps of a poll that write no row: its start, its end, the refusal of a
\* source and the request.
LEMMA UnansweredCounts ==
  ASSUME TypeOK, Counts, ~Overlap, NEW s \in Pollers,
         StartPoll(s) \/ EndPoll(s) \/ Raise(s) \/ Crash(s) \/ (\E b \in Boards : Begin(s, b))
  PROVE  Counts'
<1>1. UNCHANGED <<board, off, streak, ask, late>>
  BY DEF StartPoll, EndPoll, Raise, Crash, Begin, rows, asked
<1>2. Counted'
  BY <1>1 DEF Counts, Counted
<1>3. CASE StartPoll(s)
  <2>1. \A t \in Pollers : pc[t] = "idle"
    BY <1>3 DEF StartPoll, CanStart
  <2>2. \A t \in Pollers : pc'[t] = (IF t = s THEN "loop" ELSE "idle")
    BY <1>3, <2>1 DEF StartPoll, TypeOK, PollsOK
  <2>3. \A t \in Pollers, b \in Boards :
          objs'[t][b] = IF t = s THEN (IF b \in ToPoll THEN board[b] ELSE NoRow) ELSE objs[t][b]
    BY <1>3 DEF StartPoll, TypeOK, PollsOK
  <2>4. \A t \in Pollers, b \in Boards : t # s => ~objs[t][b].there
    BY <2>1 DEF Counts, Loaded
  <2>5. Solo'
    BY <2>2 DEF Solo
  <2>6. Loaded'
    <3> SUFFICES ASSUME NEW t \in Pollers, NEW b \in Boards, objs'[t][b].there
                 PROVE  /\ pc'[t] # "idle" /\ objs'[t][b].enabled /\ objs'[t][b].wait <= 0
                        /\ Least(objs'[t][b].fails, 3) <= streak'[b] /\ ask'[b] <= late'[b]
                        /\ board'[b].there =>
                             (board'[b].enabled \/ off'[b]) /\ board'[b].fails \in {objs'[t][b].fails, 0}
      BY DEF Loaded
    <3>1. t = s /\ b \in ToPoll /\ objs'[t][b] = board[b]
      BY <2>3, <2>4 DEF NoRow
    <3>2. board[b].enabled /\ board[b].wait <= 0 /\ board[b].there
      BY <3>1 DEF ToPoll, Due, Counts, Counted
    <3>3. Least(board[b].fails, 3) <= streak[b] /\ ask[b] <= Greatest(0, board[b].wait) + late[b]
      BY <3>2 DEF Counts, Counted
    <3>4. ask[b] \in Nat /\ late[b] \in Nat /\ board[b].wait \in Int
      BY DEF TypeOK, RowsOK, HistoryOK, Row
    <3>5. ask[b] <= late[b]
      BY <3>2, <3>3, <3>4 DEF Greatest
    <3> QED
      BY <1>1, <2>2, <3>1, <3>2, <3>3, <3>5
  <2>7. AtHand'
    <3>1. \A t \in Pollers : todo'[t] = IF t = s THEN ToPoll ELSE todo[t]
      BY <1>3 DEF StartPoll, TypeOK, PollsOK
    <3>2. \A b \in ToPoll : b \in Boards /\ board[b].there
      BY DEF ToPoll, Counts, Counted
    <3>3. \A t \in Pollers : t # s => todo[t] = {}
      BY <2>4 DEF Counts, AtHand, TypeOK, PollsOK
    <3> QED
      BY <2>2, <2>3, <3>1, <3>2, <3>3 DEF AtHand
  <2> QED
    BY <1>2, <2>5, <2>6, <2>7 DEF Counts
<1>4. CASE EndPoll(s) \/ Raise(s) \/ Crash(s)
  <2>1. Forget(s)
    BY <1>4 DEF EndPoll, Raise, Crash
  <2>2. \A t \in Pollers : /\ pc'[t] = (IF t = s THEN "idle" ELSE pc[t])
                           /\ todo'[t] = (IF t = s THEN {} ELSE todo[t])
                           /\ cur'[t] = (IF t = s THEN NoBoard ELSE cur[t])
    BY <2>1 DEF Forget, TypeOK, PollsOK
  <2>3. \A t \in Pollers, b \in Boards : objs'[t][b] = IF t = s THEN NoRow ELSE objs[t][b]
    BY <2>1 DEF Forget, TypeOK, PollsOK
  <2>4. Solo' /\ Loaded'
    BY <1>1, <2>2, <2>3 DEF Counts, Solo, Loaded, NoRow
  <2>5. AtHand'
    BY <2>2, <2>3 DEF Counts, AtHand, TypeOK, PollsOK
  <2> QED
    BY <1>2, <2>4, <2>5 DEF Counts
<1>5. ASSUME NEW b \in Boards, Begin(s, b)
      PROVE  Counts'
  <2>1. pc[s] = "loop" /\ b \in todo[s]
    BY <1>5 DEF Begin
  <2>2. CASE CanRead(SourceSeen(s, b))
    <3>1. UNCHANGED <<objs, todo>>
      BY <1>5, <2>2 DEF Begin
    <3>2. \A t \in Pollers : /\ pc'[t] = (IF t = s THEN "asking" ELSE pc[t])
                             /\ cur'[t] = (IF t = s THEN b ELSE cur[t])
      BY <1>5, <2>2 DEF Begin, TypeOK, PollsOK
    <3> QED
      BY <1>1, <1>2, <2>1, <3>1, <3>2 DEF Counts, Solo, Loaded, AtHand
  <2>3. CASE ~CanRead(SourceSeen(s, b))
    <3>1. Advance(s, b)
      BY <1>5, <2>3 DEF Begin
    <3>2. \A t \in Pollers : pc'[t] = (IF t = s THEN "loop" ELSE pc[t])
      BY <3>1 DEF Advance, TypeOK, PollsOK
    <3>3. /\ AtHand'
          /\ \A t \in Pollers, c \in Boards : objs'[t][c].there => objs'[t][c] = objs[t][c]
      BY <3>1, AdvanceKeeps DEF Counts
    <3>4. Solo'
      BY <2>1, <3>2 DEF Counts, Solo
    <3>5. Loaded'
      BY <1>1, <3>2, <3>3 DEF Counts, Loaded
    <3> QED  BY <1>2, <3>3, <3>4, <3>5 DEF Counts
  <2> QED  BY <2>2, <2>3
<1> QED
  BY <1>3, <1>4, <1>5

LEMMA AnsweredCounts ==
  ASSUME TypeOK, Counts, NEW s \in Pollers, AnswerOK(s) \/ AnswerBad(s)
  PROVE  Counts'
<1> DEFINE b == cur[s]
<1>1. /\ b \in Boards /\ objs[s][b].there /\ board[b].there /\ board'[b].there
      /\ Least(board'[b].fails, 3) <= streak'[b]
      /\ ask'[b] <= Greatest(0, board'[b].wait) + late'[b]
  BY Answered
<1>2. Advance(s, b) /\ pc[s] = "asking" /\ off' = off
  BY DEF AnswerOK, AnswerBad
<1>3. \A c \in Boards : c # b => board'[c] = board[c] /\ streak'[c] = streak[c] /\ ask'[c] = ask[c] /\ late'[c] = late[c]
  BY DEF AnswerOK, AnswerBad, Asks, TypeOK, RowsOK, HistoryOK
<1>4. \A t \in Pollers : pc'[t] = (IF t = s THEN "loop" ELSE pc[t])
  BY <1>2 DEF Advance, TypeOK, PollsOK
<1>5. /\ AtHand'
      /\ \A t \in Pollers, c \in Boards :
           objs'[t][c].there => objs'[t][c] = objs[t][c] /\ ~(t = s /\ c = b)
  BY <1>1, <1>2, AdvanceKeeps DEF Counts
<1>6. \A t \in Pollers, c \in Boards : t # s => ~objs[t][c].there
  BY <1>2 DEF Counts, Solo, Loaded
<1>7. Solo'
  BY <1>2, <1>4 DEF Counts, Solo
<1>8. Loaded'
  <2> SUFFICES ASSUME NEW t \in Pollers, NEW c \in Boards, objs'[t][c].there
               PROVE  /\ pc'[t] # "idle" /\ objs'[t][c].enabled /\ objs'[t][c].wait <= 0
                      /\ Least(objs'[t][c].fails, 3) <= streak'[c] /\ ask'[c] <= late'[c]
                      /\ board'[c].there =>
                           (board'[c].enabled \/ off'[c]) /\ board'[c].fails \in {objs'[t][c].fails, 0}
    BY DEF Loaded
  <2>1. t = s /\ c # b /\ objs'[t][c] = objs[t][c] /\ objs[t][c].there
    BY <1>5, <1>6
  <2>2. board'[c] = board[c] /\ streak'[c] = streak[c] /\ ask'[c] = ask[c] /\ late'[c] = late[c] /\ off'[c] = off[c]
    BY <1>2, <1>3, <2>1
  <2>3. pc'[t] # "idle"
    BY <1>4, <2>1
  <2> QED  BY <2>1, <2>2, <2>3 DEF Counts, Loaded
<1>9. Counted'
  BY <1>1, <1>3 DEF Counts, Counted
<1> QED
  BY <1>5, <1>7, <1>8, <1>9 DEF Counts

LEMMA ChangeCounts ==
  ASSUME TypeOK, Counts, Change
  PROVE  Counts'
<1>1. UNCHANGED <<pc, objs, todo, cur>>
  BY DEF Change, PatchBoard, AddBoard, DeleteBoard, Elapse, PatchSource, SyncRegistry, ReviewAges, SetPause, memory
<1>2. Solo' /\ AtHand'
  BY <1>1 DEF Counts, Solo, AtHand
<1>3. ASSUME NEW b \in Boards, (\E on \in BOOLEAN : PatchBoard(b, on)) \/ AddBoard(b) \/ DeleteBoard(b) \/ Elapse(b)
      PROVE  Loaded' /\ Counted'
  <2>1. \A c \in Boards : c # b =>
          board'[c] = board[c] /\ streak'[c] = streak[c] /\ ask'[c] = ask[c] /\ late'[c] = late[c] /\ off'[c] = off[c]
    <3>1. CASE \E on \in BOOLEAN : PatchBoard(b, on)
      BY <3>1 DEF PatchBoard, Asks, TypeOK, RowsOK, HistoryOK
    <3>2. CASE AddBoard(b)
      BY <3>2 DEF AddBoard, Asks, TypeOK, RowsOK, HistoryOK
    <3>3. CASE DeleteBoard(b)
      BY <3>3 DEF DeleteBoard, asked, TypeOK, RowsOK
    <3>4. CASE Elapse(b)
      BY <3>4 DEF Elapse, Asks, TypeOK, RowsOK, HistoryOK
    <3> QED  BY <1>3, <3>1, <3>2, <3>3, <3>4
  <2>2. /\ board[b] \in Row /\ ask[b] \in Nat /\ late[b] \in Nat /\ streak[b] \in 0..3
    BY DEF TypeOK, RowsOK, HistoryOK
  <2> SUFFICES /\ \A s \in Pollers :
                    objs[s][b].there =>
                      /\ Least(objs[s][b].fails, 3) <= streak'[b] /\ ask'[b] <= late'[b]
                      /\ board'[b].there =>
                           (board'[b].enabled \/ off'[b]) /\ board'[b].fails \in {objs[s][b].fails, 0}
               /\ board'[b].enabled => board'[b].there
               /\ board'[b].there =>
                    Least(board'[b].fails, 3) <= streak'[b] /\ ask'[b] <= Greatest(0, board'[b].wait) + late'[b]
    BY <1>1, <2>1 DEF Counts, Loaded, Counted
  <2>3. CASE PatchBoard(b, TRUE)
    <3>1. /\ board'[b].there = board[b].there /\ board'[b].enabled /\ board'[b].fails = 0 /\ board'[b].wait = Never
          /\ board[b].there /\ streak' = streak /\ ask'[b] = 0 /\ late'[b] = 0
      BY <2>2, <2>3 DEF PatchBoard, Asks, TypeOK, RowsOK, HistoryOK, Row
    <3> QED
      BY <2>2, <3>1 DEF Counts, Loaded, Least, Greatest, Never
  <2>4. CASE PatchBoard(b, FALSE)
    <3>1. /\ board'[b].there = board[b].there /\ ~board'[b].enabled
          /\ board'[b].fails = board[b].fails /\ board'[b].wait = board[b].wait
          /\ board[b].there /\ streak' = streak /\ ask'[b] = ask[b] /\ off'[b]
          /\ late'[b] = IF ask[b] = 0 THEN 0 ELSE late[b]
      BY <2>2, <2>4 DEF PatchBoard, Asks, TypeOK, RowsOK, HistoryOK, Row
    <3>2. Greatest(0, board[b].wait) \in Nat
      BY <2>2 DEF Greatest, Row
    <3>3. (ask[b] <= late[b] => ask'[b] <= late'[b])
          /\ (ask[b] <= Greatest(0, board[b].wait) + late[b] => ask'[b] <= Greatest(0, board'[b].wait) + late'[b])
      BY <2>2, <3>1, <3>2
    <3> QED
      BY <3>1, <3>3 DEF Counts, Loaded, Counted
  <2>5. CASE AddBoard(b)
    <3>1. /\ board'[b] = NewRow /\ streak'[b] = 0 /\ ask'[b] = 0 /\ late'[b] = 0 /\ \A s \in Pollers : ~objs[s][b].there
      BY <2>5 DEF AddBoard, Asks, TypeOK, RowsOK, HistoryOK
    <3> QED
      BY <3>1 DEF NewRow, Least, Greatest, Never
  <2>6. CASE DeleteBoard(b)
    <3>1. board'[b] = NoRow /\ streak' = streak /\ ask' = ask /\ late' = late
      BY <2>6 DEF DeleteBoard, asked, TypeOK, RowsOK
    <3> QED
      BY <3>1 DEF NoRow, Counts, Loaded
  <2>7. CASE Elapse(b)
    <3>1. /\ board'[b].there = board[b].there /\ board'[b].enabled = board[b].enabled
          /\ board'[b].fails = board[b].fails /\ board[b].wait > 0
          /\ streak' = streak /\ off' = off /\ ask'[b] = Greatest(0, ask[b] - board[b].wait)
          /\ late'[b] = IF ask'[b] = 0 THEN 0 ELSE late[b]
      BY <2>2, <2>7 DEF Elapse, Asks, TypeOK, RowsOK, HistoryOK, Row
    <3>2. board'[b].wait = 0
      BY <2>2, <2>7 DEF Elapse, TypeOK, RowsOK, Row
    <3>3. board[b].wait \in Int
      BY <2>2 DEF Row
    <3>4. ask[b] <= late[b] => ask'[b] <= late'[b]
      BY <2>2, <3>1, <3>3 DEF Greatest
    <3>5. board[b].there => ask'[b] <= Greatest(0, board'[b].wait) + late'[b]
      BY <2>2, <3>1, <3>2, <3>3 DEF Greatest, Counts, Counted
    <3> QED
      BY <3>1, <3>4, <3>5 DEF Counts, Loaded, Counted
  <2> QED
    BY <1>3, <2>3, <2>4, <2>5, <2>6, <2>7
<1>4. ASSUME UNCHANGED <<board, off, streak, ask, late>>
      PROVE  Loaded' /\ Counted'
  BY <1>1, <1>4 DEF Counts, Loaded, Counted
<1> QED
  BY <1>2, <1>3, <1>4 DEF Change, PatchSource, SyncRegistry, ReviewAges, SetPause, asked, Counts

LEMMA CountsStep ==
  ASSUME TypeOK, Counts, ~Overlap, [Next]_vars
  PROVE  Counts'
<1>1. CASE UNCHANGED vars
  BY <1>1 DEF vars, rows, memory, asked, Counts, Solo, Loaded, AtHand, Counted
<1>2. CASE Next
  BY <1>2, UnansweredCounts, AnsweredCounts, ChangeCounts DEF Next, Act, PollStep
<1> QED
  BY <1>1, <1>2

LEMMA CountsInit == Init => Counts
<1> SUFFICES ASSUME Init PROVE Counts
  OBVIOUS
<1>1. Solo /\ AtHand
  BY DEF Init, Solo, AtHand
<1>2. Loaded
  BY DEF Init, Loaded, NoRow
<1>3. Counted
  BY DEF Init, Counted, NewRow, Least, Greatest, Never
<1> QED
  BY <1>1, <1>2, <1>3 DEF Counts

\* A board that discovery has switched off failed at least three times since
\* its last good answer, and the last failure was one that retrying does not mend.
LEMMA DisabledStep ==
  ASSUME TypeOK, Counts, DisabledAfterFailures, [Next]_vars
  PROVE  DisabledAfterFailures'
<1> SUFFICES ASSUME NEW c \in Boards, board'[c].there, ~board'[c].enabled, ~off'[c]
             PROVE  streak'[c] >= 3 /\ lastPerm'[c]
  BY DEF DisabledAfterFailures
<1>1. CASE UNCHANGED <<board, off, streak, lastPerm>>
  BY <1>1 DEF DisabledAfterFailures
<1>2. ASSUME NEW s \in Pollers, AnswerOK(s) \/ AnswerBad(s)
      PROVE  streak'[c] >= 3 /\ lastPerm'[c]
  <2>1. off' = off
    BY <1>2 DEF AnswerOK, AnswerBad
  <2>2. CASE c = cur[s]
    <3>1. /\ objs[s][c].there /\ board[c].there
          /\ ~board[c].enabled \/ (streak'[c] >= 3 /\ lastPerm'[c])
      BY <1>2, <2>2, Answered
    <3>2. board[c].enabled
      BY <2>1, <3>1 DEF Counts, Loaded
    <3> QED  BY <3>1, <3>2
  <2>3. CASE c # cur[s]
    <3>1. /\ board'[c] = board[c] /\ streak'[c] = streak[c] /\ (lastPerm'[c] <=> lastPerm[c])
      BY <1>2, <2>3 DEF AnswerOK, AnswerBad, TypeOK, RowsOK, HistoryOK
    <3> QED  BY <2>1, <3>1 DEF DisabledAfterFailures
  <2> QED  BY <2>2, <2>3
<1>3. ASSUME NEW b \in Boards, (\E on \in BOOLEAN : PatchBoard(b, on)) \/ AddBoard(b) \/ DeleteBoard(b) \/ Elapse(b)
      PROVE  streak'[c] >= 3 /\ lastPerm'[c]
  <2>1. CASE c = b
    <3>1. CASE \E on \in BOOLEAN : PatchBoard(b, on)
      BY <2>1, <3>1 DEF PatchBoard, Asks, TypeOK, RowsOK, HistoryOK, Row
    <3>2. CASE AddBoard(b) \/ DeleteBoard(b)
      BY <2>1, <3>2 DEF AddBoard, DeleteBoard, TypeOK, RowsOK, NewRow, NoRow
    <3>3. CASE Elapse(b)
      <4>1. board'[c].there = board[c].there /\ board'[c].enabled = board[c].enabled
        BY <2>1, <3>3 DEF Elapse, TypeOK, RowsOK, Row
      <4> QED  BY <3>3, <4>1 DEF Elapse, DisabledAfterFailures
    <3> QED  BY <1>3, <3>1, <3>2, <3>3
  <2>2. CASE c # b
    <3>1. CASE \E on \in BOOLEAN : PatchBoard(b, on)
      BY <2>2, <3>1 DEF PatchBoard, TypeOK, RowsOK, HistoryOK, DisabledAfterFailures
    <3>2. CASE AddBoard(b)
      <4>1. board'[c] = board[c] /\ streak'[c] = streak[c] /\ (lastPerm'[c] <=> lastPerm[c]) /\ off'[c] = off[c]
        BY <2>2, <3>2 DEF AddBoard, Asks, TypeOK, RowsOK, HistoryOK
      <4> QED  BY <4>1 DEF DisabledAfterFailures
    <3>3. CASE DeleteBoard(b) \/ Elapse(b)
      BY <2>2, <3>3 DEF DeleteBoard, Elapse, asked, TypeOK, RowsOK, DisabledAfterFailures
    <3> QED  BY <1>3, <3>1, <3>2, <3>3
  <2> QED  BY <2>1, <2>2
<1> QED
  BY <1>1, <1>2, <1>3 DEF Next, Act, Change, PollStep, StartPoll, EndPoll, Begin, Raise, Crash,
     PatchSource, SyncRegistry, ReviewAges, SetPause, rows, asked, vars

\* A board that discovery has switched off failed at least three times since its
\* last good answer, the last time for good, if no two polls overlap.
THEOREM DisabledForCause ==
  ASSUME ~Overlap
  PROVE  Spec => []DisabledAfterFailures
<1>1. Init => DisabledAfterFailures
  BY DEF Init, DisabledAfterFailures, NewRow
<1>2. TypeOK /\ Counts /\ [Next]_vars => Counts'
  BY CountsStep
<1> QED
  BY <1>1, <1>2, TypeInit, TypeStep, CountsInit, DisabledStep, PTL DEF Spec

\* A board is asked before the Retry-After of its last answer has passed by no
\* more than the poll that got the answer had run by then, if no two polls overlap.
THEOREM EarlyAtMost ==
  ASSUME ~Overlap
  PROVE  Spec => EarlyByPollOnly
<1>1. TypeOK /\ Counts /\ [Next]_vars => Counts'
  BY CountsStep
<1>2. ASSUME TypeOK, Counts, [Next]_vars
      PROVE  [\A s \in Pollers : pc[s] = "loop" /\ pc'[s] = "asking" => ask[cur'[s]] <= late[cur'[s]]]_vars
  <2> SUFFICES ASSUME Next, NEW s \in Pollers, pc[s] = "loop", pc'[s] = "asking"
               PROVE  ask[cur'[s]] <= late[cur'[s]]
    BY <1>2
  <2>1. PICK b \in Boards : Begin(s, b) /\ cur'[s] = b
    <3>1. CASE Change
      BY <3>1 DEF Change, PatchBoard, AddBoard, DeleteBoard, Elapse, PatchSource, SyncRegistry, ReviewAges, SetPause, memory
    <3>2. ASSUME NEW t \in Pollers, StartPoll(t) \/ PollStep(t) \/ Crash(t), t # s
          PROVE  pc'[s] = pc[s]
      BY <1>2, <3>2 DEF StartPoll, PollStep, EndPoll, Begin, AnswerOK, AnswerBad, Raise, Crash, Forget, Advance,
         TypeOK, PollsOK
    <3>3. CASE StartPoll(s) \/ EndPoll(s) \/ AnswerOK(s) \/ AnswerBad(s) \/ Raise(s) \/ Crash(s)
      BY <1>2, <3>3 DEF StartPoll, EndPoll, AnswerOK, AnswerBad, Raise, Crash, Forget, Advance, TypeOK, PollsOK
    <3>4. ASSUME NEW b \in Boards, Begin(s, b)
          PROVE  cur'[s] = b
      BY <1>2, <3>4 DEF Begin, Advance, TypeOK, PollsOK
    <3> QED
      BY <3>1, <3>2, <3>3, <3>4 DEF Next, Act, PollStep
  <2>2. b \in todo[s] /\ objs[s][b].there
    BY <1>2, <2>1 DEF Begin, Counts, AtHand
  <2> QED
    BY <1>2, <2>1, <2>2 DEF Counts, Loaded
<1> QED
  BY <1>1, <1>2, TypeInit, TypeStep, CountsInit, PTL DEF Spec, EarlyByPollOnly
=============================================================================
