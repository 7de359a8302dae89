---------------------------- MODULE AuditProofs -----------------------------
(***************************************************************************)
(* Theorems about AuditLog: what holds of the chain when transactions that  *)
(* write events do not overlap, for any number of sessions and events.      *)
(***************************************************************************)
EXTENDS AuditLog, TLAPS

\* The events of S are told apart by their ids, in the order of their times,
\* and chained.
Ordered(S) ==
  /\ \A e \in S : 0 < e.id /\ e.id < nextId /\ e.ts <= clock
  /\ \A e, f \in S : e.id = f.id => e = f
  /\ \A e, f \in S : e.id < f.id => e.ts <= f.ts

\* The session is about to write at the end of the chain as it sees it.
AtEnd(s) ==
  /\ IsEnd(Visible(s), last[s])
  /\ stamp[s] <= clock
  /\ \A e \in Visible(s) : e.ts <= stamp[s]

\* What makes ChainVerifies inductive: one transaction at a time, whose view of
\* the log is a chain as well.
Serial ==
  /\ \A s, t \in Sessions : pc[s] # "idle" /\ pc[t] # "idle" => s = t
  /\ \A s \in Sessions : pc[s] = "idle" => flushed[s] = {} /\ deleted[s] = {}
  /\ \A s \in Sessions : pc[s] = "purged" => flushed[s] = {}

Chained ==
  /\ Ordered(rows) /\ Verifies(rows)
  /\ \A s \in Sessions : Ordered(Visible(s)) /\ Verifies(Visible(s))
  /\ \A s \in Sessions : pc[s] = "read" => AtEnd(s)

\* What a transaction adds comes after, and what it deletes comes before, the
\* events that it leaves alone.
Aged(s) ==
  /\ \A e \in rows, f \in flushed[s] : e.id < f.id
  /\ \A e \in deleted[s], f \in rows \ deleted[s] : e.id < f.id

Inv == TypeOK /\ Serial /\ Chained /\ nextId > 0 /\ \A s \in Sessions : Aged(s)

-----------------------------------------------------------------------------
\* Every row and session keeps its type; this needs no other invariant.
LEMMA TypeStep == TypeOK /\ [Next]_vars => TypeOK'
<1> SUFFICES ASSUME TypeOK, [Next]_vars PROVE TypeOK'
  OBVIOUS
<1> USE DEF TypeOK, Event
<1>1. ASSUME NEW s \in Sessions, ReadEnd(s) PROVE TypeOK'
  <2>1. PICK h \in {Genesis} \union {e.id : e \in Visible(s)} : last' = [last EXCEPT ![s] = h]
    BY <1>1 DEF ReadEnd
  <2>2. h \in Nat
    BY <2>1 DEF Genesis, Visible
  <2> QED  BY <1>1, <2>1, <2>2 DEF ReadEnd
<1>2. ASSUME NEW s \in Sessions, Flush(s) PROVE TypeOK'
  <2>1. [id |-> nextId, ts |-> stamp[s], prev |-> last[s]] \in Event
    OBVIOUS
  <2> QED  BY <1>2, <2>1 DEF Flush
<1>3. ASSUME NEW s \in Sessions, Purge(s) PROVE TypeOK'
  <2>1. PICK cutoff \in 0..clock : deleted' = [deleted EXCEPT ![s] = {e \in rows : Expired(e, cutoff)}]
    BY <1>3 DEF Purge
  <2> QED  BY <1>3, <2>1 DEF Purge
<1>4. ASSUME NEW s \in Sessions, Commit(s) \/ Rollback(s) PROVE TypeOK'
  BY <1>4 DEF Commit, Rollback, End, Genesis
<1>5. CASE Wait
  BY <1>5 DEF Wait
<1>6. CASE UNCHANGED vars
  BY <1>6 DEF vars
<1> QED  BY <1>1, <1>2, <1>3, <1>4, <1>5, <1>6 DEF Next

\* An event written after the last one of a chain extends the chain.
LEMMA Extend ==
  ASSUME NEW S \in SUBSET Event, NEW h \in Nat, NEW new \in Event,
         Verifies(S), IsEnd(S, h), new.prev = h,
         \A e \in S : e.id < new.id,
         \A e, f \in S : e.id = f.id => e = f
  PROVE  Verifies(S \union {new})
<1> SUFFICES ASSUME NEW e \in S \union {new}, NEW f \in S \union {new}, Neighbours(S \union {new}, e, f)
             PROVE  f.prev = e.id
  BY DEF Verifies
<1> USE DEF Event
<1>1. CASE f \in S
  <2>1. e \in S
    BY <1>1 DEF Neighbours
  <2> QED  BY <1>1, <2>1 DEF Verifies, Neighbours
<1>2. CASE f = new
  <2>1. e \in S
    BY <1>2 DEF Neighbours
  <2>2. PICK g \in S : g.id = h /\ \A k \in S : k.id <= g.id
    BY <2>1 DEF IsEnd
  <2>3. ~(e.id < g.id)
    BY <1>2, <2>2 DEF Neighbours
  <2>4. e.id = h
    BY <2>1, <2>2, <2>3
  <2> QED  BY <1>2, <2>4
<1> QED  BY <1>1, <1>2

\* What a purge leaves of a chain is the end of it: still a chain.
LEMMA Suffix ==
  ASSUME NEW S \in SUBSET Event, NEW cutoff \in Nat,
         Verifies(S), \A e, f \in S : e.id < f.id => e.ts <= f.ts
  PROVE  Verifies(S \ {e \in S : Expired(e, cutoff)})
<1> DEFINE T == S \ {e \in S : Expired(e, cutoff)}
<1> SUFFICES ASSUME NEW e \in T, NEW f \in T, Neighbours(T, e, f)
             PROVE  f.prev = e.id
  BY DEF Verifies
<1> USE DEF Event, Expired
<1>1. \A g \in S : e.id < g.id => g \in T
  OBVIOUS
<1>2. Neighbours(S, e, f)
  BY <1>1 DEF Neighbours
<1> QED  BY <1>2 DEF Verifies

-----------------------------------------------------------------------------
LEMMA InvInit == Init => Inv
BY DEF Init, Inv, TypeOK, Serial, Chained, Ordered, Verifies, Visible, Genesis, Event, Aged

LEMMA InvStep ==
  ASSUME Overlap = FALSE
  PROVE  Inv /\ [Next]_vars => Inv'
<1> SUFFICES ASSUME Inv, [Next]_vars PROVE Inv'
  OBVIOUS
<1>t. TypeOK /\ TypeOK'
  BY TypeStep DEF Inv
<1> USE <1>t DEF Inv
<1>0. \A s \in Sessions : Visible(s) \in SUBSET Event
  BY DEF TypeOK, Visible
<1>1. ASSUME NEW s \in Sessions, ReadEnd(s) PROVE Serial' /\ Chained' /\ nextId' > 0 /\ \A t \in Sessions : Aged(t)'
  <2>1. Serial'
    BY <1>1 DEF ReadEnd, MayBegin, Serial, TypeOK
  <2>2. \A t \in Sessions : Visible(t)' = Visible(t)
    BY <1>1 DEF ReadEnd, Visible
  <2>3. Ordered(rows)' /\ Verifies(rows)' /\ \A t \in Sessions : Ordered(Visible(t))' /\ Verifies(Visible(t))'
    BY <1>1, <2>2 DEF ReadEnd, Chained, Ordered, Verifies, Neighbours
  <2>4. AtEnd(s)'
    <3>1. IsEnd(Visible(s), last'[s]) /\ stamp'[s] = clock
      BY <1>1 DEF ReadEnd, TypeOK
    <3>2. \A e \in Visible(s) : e.ts <= clock
      BY DEF Chained, Ordered
    <3> QED  BY <1>1, <2>2, <3>1, <3>2 DEF AtEnd, IsEnd, ReadEnd, TypeOK
  <2>5. \A t \in Sessions : t # s => pc'[t] # "read"
    BY <1>1, <2>1 DEF ReadEnd, Serial, TypeOK
  <2>6. nextId' > 0 /\ \A t \in Sessions : Aged(t)'
    BY <1>1 DEF ReadEnd, Aged
  <2> QED  BY <2>1, <2>3, <2>4, <2>5, <2>6 DEF Chained
<1>2. ASSUME NEW s \in Sessions, Flush(s) PROVE Serial' /\ Chained' /\ nextId' > 0 /\ \A t \in Sessions : Aged(t)'
  <2> DEFINE new == [id |-> nextId, ts |-> stamp[s], prev |-> last[s]]
  <2>1. Serial'
    BY <1>2 DEF Flush, Serial, TypeOK
  <2>2. Visible(s)' = Visible(s) \union {new}
    BY <1>2 DEF Flush, Visible, TypeOK
  <2>3. \A t \in Sessions : t # s => Visible(t)' = rows
    BY <1>2 DEF Flush, Visible, TypeOK, Serial
  <2>4. AtEnd(s) /\ Ordered(Visible(s)) /\ Verifies(Visible(s)) /\ Ordered(rows) /\ Verifies(rows)
    BY <1>2 DEF Chained, Flush
  <2>5. new \in Event /\ last[s] \in Nat /\ stamp[s] \in Nat /\ nextId \in Nat /\ clock \in Nat
    BY DEF TypeOK, Event
  <2>6. Verifies(Visible(s) \union {new})
    BY <1>0, <2>4, <2>5, Extend DEF AtEnd, Ordered
  <2>7. nextId' = nextId + 1 /\ clock' = clock /\ rows' = rows
    BY <1>2 DEF Flush
  <2>8. Ordered(Visible(s))'
    <3>1. \A e \in Visible(s) : e.id \in Nat /\ e.ts \in Nat /\ e.id < nextId /\ e.ts <= stamp[s]
      BY <1>0, <2>4 DEF AtEnd, Ordered, Event
    <3> QED  BY <2>2, <2>4, <2>5, <2>7, <3>1 DEF Ordered, AtEnd
  <2>9. Ordered(rows)' /\ Verifies(rows)'
    BY <2>4, <2>5, <2>7 DEF Ordered, Verifies, Neighbours, TypeOK, Event
  <2>10. \A t \in Sessions : pc'[t] # "read"
    BY <1>2 DEF Flush, Serial, TypeOK
  <2>11. Verifies(Visible(s))'
    BY <2>2, <2>6 DEF Verifies, Neighbours
  <2>12. \A t \in Sessions : Ordered(Visible(t))' /\ Verifies(Visible(t))'
    BY <2>3, <2>7, <2>8, <2>9, <2>11 DEF Ordered, Verifies, Neighbours
  <2>13. \A t \in Sessions : Aged(t)'
    <3>1. \A e \in rows : e.id < new.id
      BY <2>4, <2>5 DEF Ordered
    <3>2. flushed' = [flushed EXCEPT ![s] = @ \union {new}] /\ UNCHANGED <<rows, deleted>>
      BY <1>2 DEF Flush
    <3> QED  BY <3>1, <3>2 DEF Aged, TypeOK
  <2>14. nextId' > 0
    BY <2>5, <2>7
  <2> QED  BY <2>1, <2>9, <2>10, <2>12, <2>13, <2>14 DEF Chained
<1>3. ASSUME NEW s \in Sessions, Purge(s) PROVE Serial' /\ Chained' /\ nextId' > 0 /\ \A t \in Sessions : Aged(t)'
  <2>1. PICK cutoff \in 0..clock : deleted' = [deleted EXCEPT ![s] = {e \in rows : Expired(e, cutoff)}]
    BY <1>3 DEF Purge
  <2>2. Serial'
    BY <1>3 DEF Purge, MayBegin, Serial, TypeOK
  <2>3. Visible(s)' = rows \ {e \in rows : Expired(e, cutoff)}
    BY <1>3, <2>1 DEF Purge, MayBegin, Visible, Serial, TypeOK
  <2>4. \A t \in Sessions : t # s => Visible(t)' = Visible(t)
    BY <1>3, <2>1 DEF Purge, Visible, TypeOK
  <2>5. Verifies(rows \ {e \in rows : Expired(e, cutoff)})
    BY Suffix DEF Chained, Ordered, TypeOK
  <2>6. UNCHANGED <<rows, nextId, clock>>
    BY <1>3 DEF Purge
  <2>7. Ordered(rows)' /\ Verifies(rows)'
    BY <2>6 DEF Chained, Ordered, Verifies, Neighbours
  <2>8. Ordered(Visible(s))' /\ Verifies(Visible(s))'
    BY <2>3, <2>5, <2>6 DEF Chained, Ordered, Verifies, Neighbours
  <2>9. \A t \in Sessions : Ordered(Visible(t))' /\ Verifies(Visible(t))'
    BY <2>4, <2>6, <2>8 DEF Chained, Ordered, Verifies, Neighbours
  <2>10. \A t \in Sessions : pc'[t] # "read"
    BY <1>3 DEF Purge, MayBegin, TypeOK
  <2>11. \A t \in Sessions : Aged(t)'
    <3>1. ASSUME NEW e \in rows, NEW f \in rows, Expired(e, cutoff), ~Expired(f, cutoff)
          PROVE  e.id < f.id
      BY <3>1 DEF Chained, Ordered, Expired, TypeOK, Event
    <3>2. UNCHANGED flushed
      BY <1>3 DEF Purge
    <3> QED  BY <2>1, <2>6, <3>1, <3>2 DEF Aged, TypeOK
  <2> QED  BY <2>2, <2>6, <2>7, <2>9, <2>10, <2>11 DEF Chained
<1>4. ASSUME NEW s \in Sessions, Commit(s) \/ Rollback(s) PROVE Serial' /\ Chained' /\ nextId' > 0 /\ \A t \in Sessions : Aged(t)'
  <2>1. \A t \in Sessions : pc'[t] = "idle" /\ flushed'[t] = {} /\ deleted'[t] = {}
    BY <1>4 DEF Commit, Rollback, End, Serial, TypeOK
  <2>2. rows' = rows \/ rows' = Visible(s)
    BY <1>4 DEF Commit, Rollback, Visible
  <2>3. UNCHANGED <<nextId, clock>>
    BY <1>4 DEF Commit, Rollback
  <2>4. Ordered(rows)' /\ Verifies(rows)'
    BY <2>2, <2>3 DEF Chained, Ordered, Verifies, Neighbours
  <2>5. \A t \in Sessions : Visible(t)' = rows'
    BY <2>1 DEF Visible
  <2>6. \A t \in Sessions : Ordered(Visible(t))' /\ Verifies(Visible(t))'
    BY <2>4, <2>5 DEF Ordered, Verifies, Neighbours
  <2> QED  BY <2>1, <2>3, <2>4, <2>6 DEF Serial, Chained, Aged
<1>5. CASE Wait
  <2>1. UNCHANGED <<rows, nextId, pc, flushed, deleted, last, stamp>> /\ clock' = clock + 1
    BY <1>5 DEF Wait
  <2>2. \A t \in Sessions : Visible(t)' = Visible(t)
    BY <2>1 DEF Visible
  <2>3. ASSUME NEW S \in SUBSET Event, Ordered(S)
        PROVE  \A e \in S : 0 < e.id /\ e.id < nextId' /\ e.ts <= clock'
    BY <2>1, <2>3 DEF Ordered, TypeOK, Event
  <2>4. Ordered(rows)' /\ Verifies(rows)'
    BY <2>1, <2>3 DEF Chained, Ordered, Verifies, Neighbours, TypeOK
  <2>5. \A t \in Sessions : Ordered(Visible(t))' /\ Verifies(Visible(t))'
    BY <1>0, <2>1, <2>2, <2>3 DEF Chained, Ordered, Verifies, Neighbours
  <2>6. \A t \in Sessions : pc'[t] = "read" => AtEnd(t)'
    BY <2>1, <2>2 DEF Chained, AtEnd, IsEnd, TypeOK
  <2>7. Serial'
    BY <2>1 DEF Serial
  <2> QED  BY <2>1, <2>4, <2>5, <2>6, <2>7 DEF Chained, Aged
<1>6. CASE UNCHANGED vars
  BY <1>6 DEF vars, Serial, Chained, Ordered, Verifies, Neighbours, Visible, AtEnd, IsEnd, Aged
<1> QED  BY <1>1, <1>2, <1>3, <1>4, <1>5, <1>6 DEF Next

LEMMA InvHolds ==
  ASSUME Overlap = FALSE
  PROVE  Spec => []Inv
BY InvInit, InvStep, PTL DEF Spec

\* Every row and every session keeps its type, overlapping or not.
THEOREM TypesKept == Spec => []TypeOK
<1>1. Init => TypeOK
  BY DEF Init, TypeOK, Event, Genesis
<1> QED  BY <1>1, TypeStep, PTL DEF Spec

\* Where transactions that write events do not overlap, verification never
\* reports tampering, however many events a transaction writes, and whatever is
\* rolled back and purged (audit.py record, verify_chain, purge_older_than).
THEOREM ChainIntact ==
  ASSUME Overlap = FALSE
  PROVE  Spec => []ChainVerifies
<1>1. Inv => ChainVerifies
  BY DEF Inv, Chained, ChainVerifies
<1> QED  BY InvHolds, <1>1, PTL

\* Nor does a purge ever take an event from the middle of the chain.
THEOREM PurgeOfPrefix ==
  ASSUME Overlap = FALSE
  PROVE  Spec => PurgeTakesPrefix
<1>1. ASSUME Inv, [Next]_vars
      PROVE  \A e \in rows \ rows' : \A f \in rows \intersect rows' : e.id < f.id
  <2>1. CASE rows' = rows
    BY <2>1
  <2>2. ASSUME NEW s \in Sessions, Commit(s)
        PROVE  \A e \in rows \ rows' : \A f \in rows \intersect rows' : e.id < f.id
    BY <1>1, <2>2 DEF Commit, Inv, Aged
  <2> QED  BY <1>1, <2>1, <2>2 DEF Next, ReadEnd, Flush, Purge, Rollback, Wait, vars
<1> QED  BY InvHolds, <1>1, PTL DEF Spec, PurgeTakesPrefix

=============================================================================
