------------------------------ MODULE AuditLog ------------------------------
(***************************************************************************)
(* The audit log of backend/app/audit.py: events chained by hashes, written *)
(* inside whatever transaction the work they describe belongs to, and       *)
(* purged by age.                                                           *)
(*                                                                          *)
(* Transactions run at READ COMMITTED: a session sees what was committed    *)
(* and what it has flushed itself.  An event's hash covers its content and  *)
(* the hash before it, so two events never share one: it is modelled by the *)
(* event's id, and Genesis is no event's.                                   *)
(***************************************************************************)
EXTENDS Naturals

CONSTANTS
  Sessions,   \* database sessions that write events
  Nobody,     \* the maintenance window is closed
  Overlap,    \* whether a transaction may begin while another one is open
  MaxEvents,  \* bound: ids allotted
  MaxClock    \* bound: the clock

ASSUME SessionsAssumption == Nobody \notin Sessions
ASSUME BoundsAssumption == Overlap \in BOOLEAN /\ MaxEvents \in Nat /\ MaxClock \in Nat

VARIABLES
  rows,     \* the events that were committed and not purged
  nextId,   \* the sequence that allots ids; a rollback does not take it back
  clock,    \* utcnow()
  window,   \* the session that holds the row lock of maintenance_flags
  pc,       \* what a session does next
  flushed,  \* the events of its transaction
  deleted,  \* the events its purge has deleted
  last,     \* the hash it has read as the chain's end
  stamp     \* the time its next event will carry

vars == <<rows, nextId, clock, window, pc, flushed, deleted, last, stamp>>

Genesis == 0
Event == [id : Nat, ts : Nat, prev : Nat]

\* Every row and every session holds values of its type.
TypeOK ==
  /\ rows \in SUBSET Event
  /\ nextId \in Nat /\ clock \in Nat
  /\ window \in Sessions \union {Nobody}
  /\ pc \in [Sessions -> {"idle", "open", "read", "purged"}]
  /\ flushed \in [Sessions -> SUBSET Event]
  /\ deleted \in [Sessions -> SUBSET Event]
  /\ last \in [Sessions -> Nat]
  /\ stamp \in [Sessions -> Nat]

Init ==
  /\ rows = {} /\ nextId = 1 /\ clock = 0 /\ window = Nobody
  /\ pc = [s \in Sessions |-> "idle"]
  /\ flushed = [s \in Sessions |-> {}]
  /\ deleted = [s \in Sessions |-> {}]
  /\ last = [s \in Sessions |-> Genesis]
  /\ stamp = [s \in Sessions |-> 0]

-----------------------------------------------------------------------------
MayBegin(s) == pc[s] = "idle" /\ (Overlap \/ \A t \in Sessions : pc[t] = "idle")

\* A plausible fault: record() that adds its event without a flush.
VisibleUnflushed(s) == rows \ deleted[s]
Visible(s) == (rows \ deleted[s]) \union flushed[s]

IsEnd(S, h) ==
  \/ S = {} /\ h = Genesis
  \/ \E e \in S : e.id = h /\ \A f \in S : f.id <= e.id

\* record(): the end of the chain as the session sees it, and the time.
ReadEnd(s) ==
  /\ pc[s] \in {"open", "purged"} \/ MayBegin(s)
  /\ nextId <= MaxEvents
  /\ \E h \in {Genesis} \union {e.id : e \in Visible(s)} :
       /\ IsEnd(Visible(s), h)
       /\ last' = [last EXCEPT ![s] = h]
  /\ stamp' = [stamp EXCEPT ![s] = clock]
  /\ pc' = [pc EXCEPT ![s] = "read"]
  /\ UNCHANGED <<rows, nextId, clock, window, flushed, deleted>>

\* record(): the event is flushed, which allots its id.
Flush(s) ==
  /\ pc[s] = "read"
  /\ flushed' = [flushed EXCEPT ![s] = @ \union {[id |-> nextId, ts |-> stamp[s], prev |-> last[s]]}]
  /\ nextId' = nextId + 1
  /\ pc' = [pc EXCEPT ![s] = "open"]
  /\ UNCHANGED <<rows, clock, window, deleted, last, stamp>>

\* A plausible fault: the purge keeps what it should delete.
ExpiredReversed(e, cutoff) == e.ts >= cutoff
Expired(e, cutoff) == e.ts < cutoff

\* purge_older_than(): the maintenance flag is a row that one transaction at a
\* time may hold; the deletion is recorded before the transaction commits.
Purge(s) ==
  /\ MayBegin(s)
  /\ window = Nobody
  /\ window' = s
  /\ \E cutoff \in 0..clock : deleted' = [deleted EXCEPT ![s] = {e \in rows : Expired(e, cutoff)}]
  /\ pc' = [pc EXCEPT ![s] = "purged"]
  /\ UNCHANGED <<rows, nextId, clock, flushed, last, stamp>>

End(s) ==
  /\ pc' = [pc EXCEPT ![s] = "idle"]
  /\ window' = IF window = s THEN Nobody ELSE window
  /\ flushed' = [flushed EXCEPT ![s] = {}]
  /\ deleted' = [deleted EXCEPT ![s] = {}]
  /\ last' = [last EXCEPT ![s] = Genesis]
  /\ stamp' = [stamp EXCEPT ![s] = 0]

Commit(s) ==
  /\ pc[s] = "open"
  /\ rows' = (rows \ deleted[s]) \union flushed[s]
  /\ End(s)
  /\ UNCHANGED <<nextId, clock>>

\* An exception, a closed session or a killed process.
Rollback(s) ==
  /\ pc[s] # "idle"
  /\ End(s)
  /\ UNCHANGED <<rows, nextId, clock>>

Wait ==
  /\ clock < MaxClock
  /\ clock' = clock + 1
  /\ UNCHANGED <<rows, nextId, window, pc, flushed, deleted, last, stamp>>

Next ==
  \/ \E s \in Sessions : ReadEnd(s) \/ Flush(s) \/ Purge(s) \/ Commit(s) \/ Rollback(s)
  \/ Wait

Spec == Init /\ [][Next]_vars

-----------------------------------------------------------------------------
Neighbours(S, e, f) == e.id < f.id /\ ~ \E g \in S : e.id < g.id /\ g.id < f.id

\* verify_chain(): each retained event carries the hash of the one before it.
Verifies(S) == \A e, f \in S : Neighbours(S, e, f) => f.prev = e.id

\* GET /api/audit/verify reports no tampering, whatever was written, rolled
\* back and purged.
ChainVerifies == Verifies(rows)

\* A purge removes the oldest events of the chain and never one after an event
\* that it keeps, so that what is left still verifies.
PurgeTakesPrefix ==
  [][\A e \in rows \ rows' : \A f \in rows \intersect rows' : e.id < f.id]_vars
=============================================================================
