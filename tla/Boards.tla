------------------------------- MODULE Boards -------------------------------
(***************************************************************************)
(* The boards that discovery polls: backend/app/discovery.py (poll_all,     *)
(* poll_board), the registry of sources that permits it                     *)
(* (connectors/registry.py), and the requests of api/jobs.py on boards and  *)
(* sources.  What a poll does to jobs is in Listings.                       *)
(*                                                                          *)
(* A poll is one database session.  It loads the rows of all boards first   *)
(* and keeps these objects (expire_on_commit=False) while users change the  *)
(* rows; a commit writes the columns that differ from what was loaded.      *)
(***************************************************************************)
EXTENDS Integers, FiniteSets

CONSTANTS
  Boards,       \* ids of source_boards
  NoBoard,      \* a poll that is asking no board
  Sources,      \* keys of sources
  SourceOf,     \* SourceOf[b]: the source of board b
  Workers,      \* sessions that run ticks
  Users,        \* sessions that run POST /pipeline/poll
  RetrySeconds, \* the values that a Retry-After header may have
  Delays,       \* bound: seconds that a poll may have run when an answer comes
  Cap,          \* bound: failures are counted up to here
  Switched,     \* bound: the boards that users switch off and on
  Removed,      \* bound: the boards that users delete and add again
  Overlap       \* whether a poll may begin while another one runs

Pollers == Workers \union Users

ASSUME BoardsAssumption == NoBoard \notin Boards /\ IsFiniteSet(Boards)
ASSUME SourcesAssumption == SourceOf \in [Boards -> Sources]
ASSUME RetryAssumption == RetrySeconds \subseteq Nat
ASSUME DelaysAssumption == Delays \subseteq Nat /\ 0 \in Delays
ASSUME CapAssumption == Cap \in Nat /\ Cap >= 3
ASSUME PowerAssumption == \A n \in 0..Cap : 2^n \in Nat  \* arithmetic that the provers lack

VARIABLES
  board,    \* rows of source_boards
  source,   \* rows of sources
  paused,   \* controls.is_paused
  pc,       \* "idle", "loop" in poll_all, "asking" in connector.fetch
  objs,     \* the board objects a poll has loaded
  todo,     \* the boards it is still to ask
  cur,      \* the board it is asking
  held,     \* the source object that its variable `source' still refers to
  ran,      \* seconds it has run, waiting for its turn at a source and for answers
  off,      \* history: boards that the user switched off
  streak,   \* history: failures since the last good answer, up to 3
  lastPerm, \* history: whether the last failure was a permanent one
  ask,      \* history: seconds left of the Retry-After of the last answer,
            \* from that answer on
  late,     \* history: seconds that the poll had run when it got that answer; 0
            \* when nothing is left
  readable  \* history: sources that were readable since the poll began

rows    == <<board, source, paused>>
memory  == <<objs, todo, cur, held, ran>>
asked   == <<streak, lastPerm, ask, late>>
vars    == <<rows, pc, memory, off, asked, readable>>

Never   == -1            \* next_attempt_at is NULL; 0: it has passed; else seconds to go
MaxBackoffMinutes == 24 * 60
Failure == {"temporary", "permanent", "limited"}

Row       == [there : BOOLEAN, enabled : BOOLEAN, fails : 0..Cap, wait : Int]
SourceRow == [enabled : BOOLEAN, read : BOOLEAN, current : BOOLEAN]
NoRow     == [there |-> FALSE, enabled |-> FALSE, fails |-> 0, wait |-> Never]
NewRow    == [there |-> TRUE, enabled |-> TRUE, fails |-> 0, wait |-> Never]
NoSource  == [keys |-> {}, row |-> [enabled |-> FALSE, read |-> FALSE, current |-> FALSE]]

\* Every row, object and history variable holds a value of its type.
RowsOK ==
  /\ board \in [Boards -> Row]
  /\ source \in [Sources -> SourceRow]
  /\ paused \in BOOLEAN

PollsOK ==
  /\ pc \in [Pollers -> {"idle", "loop", "asking"}]
  /\ objs \in [Pollers -> [Boards -> Row]]
  /\ todo \in [Pollers -> SUBSET Boards]
  /\ cur \in [Pollers -> Boards \union {NoBoard}]
  /\ held \in [Pollers -> [keys : SUBSET Sources, row : SourceRow]]
  /\ ran \in [Pollers -> Delays]

HistoryOK ==
  /\ off \in [Boards -> BOOLEAN]
  /\ streak \in [Boards -> 0..3]
  /\ lastPerm \in [Boards -> BOOLEAN]
  /\ ask \in [Boards -> Nat]
  /\ late \in [Boards -> Nat]
  /\ readable \in [Pollers -> SUBSET Sources]

TypeOK == RowsOK /\ PollsOK /\ HistoryOK

Init ==
  /\ board = [b \in Boards |-> NewRow]
  /\ source = [k \in Sources |-> [enabled |-> TRUE, read |-> TRUE, current |-> TRUE]]
  /\ paused = FALSE
  /\ pc = [s \in Pollers |-> "idle"]
  /\ objs = [s \in Pollers |-> [b \in Boards |-> NoRow]]
  /\ todo = [s \in Pollers |-> {}]
  /\ cur = [s \in Pollers |-> NoBoard]
  /\ held = [s \in Pollers |-> NoSource]
  /\ ran = [s \in Pollers |-> 0]
  /\ off = [b \in Boards |-> FALSE]
  /\ streak = [b \in Boards |-> 0]
  /\ lastPerm = [b \in Boards |-> FALSE]
  /\ ask = [b \in Boards |-> 0]
  /\ late = [b \in Boards |-> 0]
  /\ readable = [s \in Pollers |-> {}]

-----------------------------------------------------------------------------
(* Helpers *)

Least(m, n)    == IF m < n THEN m ELSE n
Greatest(m, n) == IF m < n THEN n ELSE m

\* A plausible fault: the last minute is cut off.
BackoffRoundedDown(n, retry) ==
  LET minutes == Least(2^n, MaxBackoffMinutes)
  IN  IF retry = 0 THEN minutes ELSE Greatest(minutes, retry \div 60)

\* Minutes to the next attempt after n failures in a row; `retry' is the
\* Retry-After of the answer in seconds, 0 when it has none.
Backoff(n, retry) ==
  LET minutes == Least(2^n, MaxBackoffMinutes)
  IN  IF retry = 0 THEN minutes ELSE Greatest(minutes, (retry \div 60) + 1)

\* A plausible fault: the user's switch is forgotten.
CanReadUnswitched(r) == r.read /\ r.current

\* assert_can_read
CanRead(r) == r.read /\ r.enabled /\ r.current

\* db.get finds the object that is still referred to, or loads the row.
SourceSeen(s, b) == IF SourceOf[b] \in held[s].keys THEN held[s].row ELSE source[SourceOf[b]]

\* A plausible fault: that the time has come is not seen.
DueWhenUnset(row) == row.wait = Never

Due(row) == row.wait <= 0

CanStart == Overlap \/ \A s \in Pollers : pc[s] = "idle"

\* The session is closed and its objects are gone.
Forget(s) ==
  /\ pc' = [pc EXCEPT ![s] = "idle"]
  /\ objs' = [objs EXCEPT ![s] = [b \in Boards |-> NoRow]]
  /\ todo' = [todo EXCEPT ![s] = {}]
  /\ cur' = [cur EXCEPT ![s] = NoBoard]
  /\ held' = [held EXCEPT ![s] = NoSource]
  /\ ran' = [ran EXCEPT ![s] = 0]

\* The loop is done with b.
Advance(s, b) ==
  /\ pc' = [pc EXCEPT ![s] = "loop"]
  /\ todo' = [todo EXCEPT ![s] = @ \ {b}]
  /\ cur' = [cur EXCEPT ![s] = NoBoard]
  /\ objs' = [objs EXCEPT ![s][b] = NoRow]

\* A plausible fault: the whole object is written.
MergeAll(row, old, new) == new

\* A commit writes what differs from what was loaded; a time that a poll sets
\* always does.
Merge(row, old, new) ==
  [row EXCEPT !.enabled = IF new.enabled = old.enabled THEN @ ELSE new.enabled,
              !.fails   = IF new.fails = old.fails THEN @ ELSE new.fails,
              !.wait    = IF new.wait = Never /\ old.wait = Never THEN @ ELSE new.wait]

\* History: b asks for so many more seconds, as an answer said that came when its
\* poll had run for so long.
Asks(b, seconds, run) ==
  /\ ask' = [ask EXCEPT ![b] = seconds]
  /\ late' = [late EXCEPT ![b] = IF seconds = 0 THEN 0 ELSE run]

-----------------------------------------------------------------------------
(* A poll *)

\* The enabled boards are loaded; the loop passes over those not due, which
\* the objects as loaded decide.
ToPoll == {b \in Boards : board[b].enabled /\ Due(board[b])}

StartPoll(s) ==
  /\ pc[s] = "idle" /\ CanStart /\ ~paused
  /\ pc' = [pc EXCEPT ![s] = "loop"]
  /\ objs' = [objs EXCEPT ![s] = [b \in Boards |-> IF b \in ToPoll THEN board[b] ELSE NoRow]]
  /\ todo' = [todo EXCEPT ![s] = ToPoll]
  /\ UNCHANGED <<rows, cur, held, ran, off, asked>>

EndPoll(s) ==
  /\ pc[s] = "loop" /\ (todo[s] # {} => paused)
  /\ Forget(s)
  /\ UNCHANGED <<rows, off, asked>>

\* poll_board up to the request; a refusal is recorded as a skipped run.
Begin(s, b) ==
  /\ pc[s] = "loop" /\ b \in todo[s] /\ ~paused
  /\ held' = [held EXCEPT ![s] = [keys |-> {SourceOf[b]}, row |-> SourceSeen(s, b)]]
  /\ IF CanRead(SourceSeen(s, b))
     THEN /\ pc' = [pc EXCEPT ![s] = "asking"]
          /\ cur' = [cur EXCEPT ![s] = b]
          /\ UNCHANGED <<objs, todo>>
     ELSE Advance(s, b)
  /\ UNCHANGED <<rows, ran, off, asked>>

\* A plausible fault: disabled too early.
FailedEarly(obj, kind, retry, run) ==
  LET n == Least(obj.fails + 1, Cap)
  IN  [obj EXCEPT !.fails = n, !.wait = Greatest(0, 60 * Backoff(n, retry) - run),
                  !.enabled = @ /\ ~(kind = "permanent" /\ n >= 2)]

\* What poll_board makes of the board object, `run' seconds after the poll began.
\* The next attempt is so many minutes after the start of the poll (`now' is the
\* time at which poll_all began), not after the answer.
Failed(obj, kind, retry, run) ==
  LET n == Least(obj.fails + 1, Cap)
  IN  [obj EXCEPT !.fails = n, !.wait = Greatest(0, 60 * Backoff(n, retry) - run),
                  !.enabled = @ /\ ~(kind = "permanent" /\ n >= 3)]

Succeeded(obj) == [obj EXCEPT !.fails = 0, !.wait = Never]

\* An answer comes, after RateLimiter.wait and however long fetch takes.
Runs(s, run) == run >= ran[s] /\ ran' = [ran EXCEPT ![s] = run]

AnswerOK(s) ==
  LET b == cur[s] IN
  /\ pc[s] = "asking" /\ board[b].there
  /\ board' = [board EXCEPT ![b] = Merge(@, objs[s][b], Succeeded(objs[s][b]))]
  /\ streak' = [streak EXCEPT ![b] = 0] /\ lastPerm' = [lastPerm EXCEPT ![b] = FALSE]
  /\ Asks(b, 0, 0)
  /\ \E run \in Delays : Runs(s, run)
  /\ Advance(s, b)
  /\ UNCHANGED <<source, paused, held, off>>

AnswerBad(s) ==
  LET b == cur[s] IN
  /\ pc[s] = "asking" /\ board[b].there
  /\ \E kind \in Failure, retry \in RetrySeconds \union {0}, run \in Delays :
       /\ retry # 0 => kind = "limited"
       /\ Runs(s, run)
       /\ board' = [board EXCEPT ![b] = Merge(@, objs[s][b], Failed(objs[s][b], kind, retry, run))]
       /\ lastPerm' = [lastPerm EXCEPT ![b] = kind = "permanent"]
       /\ Asks(b, retry, run)
  /\ streak' = [streak EXCEPT ![b] = Least(@ + 1, 3)]
  /\ Advance(s, b)
  /\ UNCHANGED <<source, paused, held, off>>

\* Any other exception ends the poll and is rolled back: a connector that
\* trips over an answer of a shape it does not expect, a constraint, a row
\* that is gone.
Raise(s) ==
  /\ pc[s] = "asking"
  /\ Forget(s)
  /\ UNCHANGED <<rows, off, asked>>

\* The process is killed.
Crash(s) ==
  /\ pc[s] = "loop"
  /\ Forget(s)
  /\ UNCHANGED <<rows, off, asked>>

-----------------------------------------------------------------------------
(* Requests, the registry and the clock *)

\* patch_board
PatchBoard(b, on) ==
  /\ b \in Switched /\ board[b].there
  /\ board' = [board EXCEPT ![b] =
       IF on THEN [@ EXCEPT !.enabled = TRUE, !.fails = 0, !.wait = Never]
             ELSE [@ EXCEPT !.enabled = FALSE]]
  /\ off' = [off EXCEPT ![b] = ~on]
  /\ Asks(b, IF on THEN 0 ELSE ask[b], late[b])
  /\ UNCHANGED <<source, paused, pc, memory, streak, lastPerm>>

\* add_board: a new row, so no poll holds an object for it.
AddBoard(b) ==
  /\ b \in Removed /\ ~board[b].there
  /\ \A s \in Pollers : ~objs[s][b].there
  /\ board' = [board EXCEPT ![b] = NewRow]
  /\ off' = [off EXCEPT ![b] = FALSE]
  /\ streak' = [streak EXCEPT ![b] = 0] /\ lastPerm' = [lastPerm EXCEPT ![b] = FALSE]
  /\ Asks(b, 0, 0)
  /\ UNCHANGED <<source, paused, pc, memory>>

\* delete_board
DeleteBoard(b) ==
  /\ b \in Removed /\ board[b].there
  /\ board' = [board EXCEPT ![b] = NoRow]
  /\ UNCHANGED <<source, paused, pc, memory, off, asked>>

\* patch_source
PatchSource(k, on) ==
  /\ on => source[k].read /\ source[k].current
  /\ source' = [source EXCEPT ![k].enabled = on]
  /\ UNCHANGED <<board, paused, pc, memory, off, asked>>

\* sync_registry for one source, whose entry may be new, changed or gone; where
\* it does not permit reading, the user's switch goes off.
SyncRegistry(k) ==
  /\ \E read, current \in BOOLEAN :
       /\ source' = [source EXCEPT ![k] = [enabled |-> @.enabled /\ read, read |-> read, current |-> current]]
  /\ UNCHANGED <<board, paused, pc, memory, off, asked>>

\* The last review of the source is older than source_recheck_days.
ReviewAges(k) ==
  /\ source[k].current
  /\ source' = [source EXCEPT ![k].current = FALSE]
  /\ held' = [s \in Pollers |-> IF k \in held[s].keys THEN [held[s] EXCEPT !.row.current = FALSE] ELSE held[s]]
  /\ UNCHANGED <<board, paused, pc, objs, todo, cur, ran, off, asked>>

\* Time passes until the next attempt at b is due; how long a poll takes does
\* not matter for the boards that wait.
Elapse(b) ==
  /\ board[b].wait > 0
  /\ board' = [board EXCEPT ![b].wait = 0]
  /\ Asks(b, Greatest(0, ask[b] - board[b].wait), late[b])
  /\ UNCHANGED <<source, paused, pc, memory, off, streak, lastPerm>>

SetPause(on) ==
  /\ paused # on
  /\ paused' = on
  /\ UNCHANGED <<board, source, pc, memory, off, asked>>

-----------------------------------------------------------------------------
PollStep(s) ==
  \/ EndPoll(s) \/ (\E b \in Boards : Begin(s, b)) \/ AnswerOK(s) \/ AnswerBad(s) \/ Raise(s)

Change ==
  \/ \E b \in Boards : (\E on \in BOOLEAN : PatchBoard(b, on)) \/ AddBoard(b) \/ DeleteBoard(b) \/ Elapse(b)
  \/ \E k \in Sources : (\E on \in BOOLEAN : PatchSource(k, on)) \/ SyncRegistry(k) \/ ReviewAges(k)
  \/ \E on \in BOOLEAN : SetPause(on)

Act == Change \/ \E s \in Pollers : StartPoll(s) \/ PollStep(s) \/ Crash(s)

Permitted(k) == source[k].enabled /\ source[k].read /\ source[k].current

Watch ==
  readable' = [s \in Pollers |-> IF pc'[s] = "idle" THEN {} ELSE readable[s] \union {k \in Sources : Permitted(k)'}]

Next == Act /\ Watch

Spec == Init /\ [][Next]_vars

\* A poll that ends because of an exception or of a kill, and not at its end.
Broken(s) == (Raise(s) \/ Crash(s)) /\ ~EndPoll(s)

Fairness ==
  /\ \A s \in Workers : WF_vars(StartPoll(s) /\ Watch)
  /\ \A s \in Pollers : WF_vars(PollStep(s) /\ Watch)
  /\ \A b \in Boards : WF_vars(Elapse(b) /\ Watch)

FairSpec == Spec /\ Fairness

-----------------------------------------------------------------------------
(* Properties *)

\* A board that the user has switched off is not switched on again by a poll
\* that loaded it before and commits afterwards.
UserOffStays == \A b \in Boards : off[b] /\ board[b].there => ~board[b].enabled

\* A board that discovery has switched off failed at least three times since
\* its last good answer, and the last failure was one that retrying does not mend.
DisabledAfterFailures ==
  \A b \in Boards :
    board[b].there /\ ~board[b].enabled /\ ~off[b] => streak[b] >= 3 /\ lastPerm[b]

\* A board may be asked before the Retry-After of its last answer has passed,
\* which is counted from the start of the poll that got the answer, but never by
\* more than that poll had run by then: a poll that got the answer at once is kept
\* to it in full, and so, up to its own length, is any other, unless the user
\* switches the board on again.
EarlyByPollOnly ==
  [][\A s \in Pollers : pc[s] = "loop" /\ pc'[s] = "asking" => ask[cur'[s]] <= late[cur'[s]]]_vars

\* A poll asks the boards of a source only if the registry, the date of its
\* review and the user permitted that at some moment of the poll.
ReadPermitted ==
  \A s \in Pollers : pc[s] = "asking" => SourceOf[cur[s]] \in readable[s]

Wanted(b) == board[b].there /\ board[b].enabled /\ Permitted(SourceOf[b]) /\ ~paused
Asking(b) == \E s \in Pollers : pc[s] = "asking" /\ cur[s] = b

\* Whatever fails, a board that stays wanted is asked again and again, if polls
\* do not for ever end in exceptions: failures of one board do not starve another.
PolledAgain ==
  <>[][\A s \in Pollers : ~Broken(s)]_vars => \A b \in Boards : []<>(~Wanted(b) \/ Asking(b))
=============================================================================
