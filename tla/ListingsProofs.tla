--------------------------- MODULE ListingsProofs ---------------------------
(***************************************************************************)
(* What Listings promises of the jobs table, for every set of listings and  *)
(* boards.  An answer is stored listing by listing, with a fold; that is    *)
(* reasoned about as a run of tables from the one before the answer.        *)
(***************************************************************************)
EXTENDS Listings, FoldLemmas

Tables == [Jobs -> Row]

LEMMA FirstIs ==
  ASSUME NEW S \in SUBSET Jobs, S # {}
  PROVE  First(S) \in S
<1>1. S \in SUBSET Nat
  BY JobsAssumption
<1>2. \E m \in S : \A x \in S : m <= x
  BY <1>1, Least
<1> QED  BY <1>2, Zenon DEF First

\* One step of the run: only the row of j changes, and how.
LEMMA StoreIs ==
  ASSUME NEW f \in Tables, NEW j \in Jobs
  PROVE  /\ Store(f, j) \in Tables
         /\ \A k \in Jobs : k # j => Store(f, j)[k] = f[k]
         /\ Store(f, j)[j].there /\ Store(f, j)[j].listed /\ Store(f, j)[j].fresh
         /\ f[j].there => Store(f, j)[j].dup = f[j].dup
         /\ ~f[j].there => Store(f, j)[j].dup = NoJob \/ Store(f, j)[j].dup \in Originals(f, j)
<1> DEFINE d == IF Originals(f, j) = {} THEN NoJob ELSE First(Originals(f, j))
           new == [there |-> TRUE, listed |-> TRUE, fresh |-> TRUE, dup |-> d]
           row == IF f[j].there THEN [f[j] EXCEPT !.listed = TRUE, !.fresh = TRUE] ELSE new
<1>1. d = NoJob \/ d \in Originals(f, j)
  <2>1. Originals(f, j) \in SUBSET Jobs
    BY DEF Originals
  <2> QED  BY <2>1, FirstIs
<1>2. d \in Jobs \union {NoJob}
  BY <1>1 DEF Originals
<1>3. f[j] \in Row
  BY DEF Tables
<1>4. Store(f, j) = [f EXCEPT ![j] = row]
  BY DEF Store, Tables
<1> HIDE DEF d
<1>5. row \in Row
  BY <1>2, <1>3 DEF Row
<1>6. row.there /\ row.listed /\ row.fresh /\ (f[j].there => row.dup = f[j].dup) /\ (~f[j].there => row.dup = d)
  BY <1>3 DEF Row
<1> HIDE DEF row
<1> QED  BY <1>1, <1>4, <1>5, <1>6 DEF Tables

\* Storing the listings of q one after the other is a run of tables.
Run(r, f, q, n) ==
  /\ r[0] = f
  /\ \A k \in 0..n : r[k] \in Tables
  /\ \A k \in 0..n - 1 : q[k + 1] \in Jobs /\ r[k + 1] = Store(r[k], q[k + 1])

LEMMA StoreRun ==
  ASSUME NEW f \in Tables, NEW S \in SUBSET Jobs, NEW q \in Orders(S)
  PROVE  \E r : Run(r, f, q, Cardinality(S)) /\ FoldLeft(Store, f, q) = r[Cardinality(S)]
<1> DEFINE n == Cardinality(S)
<1>1. n \in Nat
  BY JobsAssumption, FS_Subset, FS_CardinalityType
<1>2. DOMAIN q = 1..n /\ (\A k \in 1..n : q[k] \in Jobs) /\ (\A k \in 0..n : 1..k \in SUBSET (1..n))
  <2>1. DOMAIN q = 1..n /\ \A k \in 1..n : q[k] \in Jobs
    BY DEF Orders
  <2> HIDE DEF n
  <2>2. \A k \in 0..n : 1..k \in SUBSET (1..n)
    BY <1>1
  <2> QED  BY <2>1, <2>2
<1> HIDE DEF n
<1> DEFINE F == [p \in (1..n) \X Tables |-> Store(p[2], q[p[1]])]
<1>3. \A k \in 1..n, v \in Tables : F[<<k, v>>] = Store(v, q[k]) /\ Store(v, q[k]) \in Tables
  BY <1>2, StoreIs
<1> HIDE DEF F
<1>4. PICK g \in [SUBSET (1..n) -> Tables] : Iterates(g, n, f, F)
  <2>1. \A k \in 1..n, v \in Tables : F[<<k, v>>] \in Tables
    BY <1>3
  <2> QED  BY <1>1, <2>1, FoldExists
<1>5. ASSUME NEW s \in SUBSET (1..n), s # {}
      PROVE  g[s] = Store(g[s \ {Max(s)}], q[Max(s)])
  <2>1. Max(s) \in 1..n
    BY <1>1, <1>5, Largest
  <2>2. s \ {Max(s)} \in SUBSET (1..n)
    OBVIOUS
  <2>3. g[s \ {Max(s)}] \in Tables
    BY <2>2
  <2>4. g[s] = F[<<Max(s), g[s \ {Max(s)}]>>]
    BY <1>4, <1>5 DEF Iterates
  <2> QED  BY <1>3, <2>1, <2>3, <2>4
<1>6. g[{}] = f
  BY <1>4 DEF Iterates
<1>7. g = [s \in SUBSET DOMAIN q |-> IF s = {} THEN f ELSE Store(g[s \ {Max(s)}], q[Max(s)])]
  <2>1. g = [s \in SUBSET (1..n) |-> g[s]]
    OBVIOUS
  <2>2. \A s \in SUBSET (1..n) : g[s] = IF s = {} THEN f ELSE Store(g[s \ {Max(s)}], q[Max(s)])
    BY <1>5, <1>6
  <2> QED  BY <1>2, <2>1, <2>2, Zenon
<1> DEFINE Folds(h) == h = [s \in SUBSET DOMAIN q |-> IF s = {} THEN f ELSE Store(h[s \ {Max(s)}], q[Max(s)])]
<1>8. \E h : Folds(h) /\ FoldLeft(Store, f, q) = h[DOMAIN q]
  <2>1. FoldLeft(Store, f, q) = LET iter == CHOOSE h : Folds(h) IN  iter[DOMAIN q]
    BY DEF FoldLeft, MapThenFoldSet
  <2>2. Folds(g)
    BY <1>7
  <2> HIDE DEF Folds
  <2> QED  BY <2>1, <2>2, Zenon
<1>9. PICK h : Folds(h) /\ FoldLeft(Store, f, q) = h[DOMAIN q]
  BY <1>8, Zenon
<1> DEFINE r == [k \in 0..n |-> h[1..k]]
<1>10. r[0] = f /\ r[n] = FoldLeft(Store, f, q)
  <2>1. 1..0 = {} /\ 0 \in 0..n /\ n \in 0..n
    BY <1>1
  <2>2. h[{}] = f
    BY <1>9
  <2> QED  BY <1>2, <1>9, <2>1, <2>2
<1>11. ASSUME NEW k \in 0..n - 1 PROVE r[k + 1] = Store(r[k], q[k + 1])
  <2>1. k \in Nat /\ k \in 0..n /\ k + 1 \in 0..n /\ (1..k + 1) \ {k + 1} = 1..k /\ k + 1 \in 1..k + 1
    BY <1>1
  <2>2. Max(1..k + 1) = k + 1
    BY <2>1, Ending
  <2>3. 1..k + 1 \in SUBSET DOMAIN q /\ 1..k + 1 # {}
    BY <1>2, <2>1
  <2>4. h[1..k + 1] = Store(h[(1..k + 1) \ {Max(1..k + 1)}], q[Max(1..k + 1)])
    BY <1>9, <2>3
  <2> QED  BY <2>1, <2>2, <2>4
<1> HIDE DEF r, Folds
<1>12. \A k \in 0..n - 1 : q[k + 1] \in Jobs
  BY <1>1, <1>2
<1> DEFINE T == {k \in Nat : k <= n => r[k] \in Tables}
<1>13. 0 \in T
  BY <1>10
<1>14. ASSUME NEW k \in Nat, k \in T PROVE k + 1 \in T
  <2> SUFFICES ASSUME k + 1 <= n PROVE r[k + 1] \in Tables
    OBVIOUS
  <2>1. k \in 0..n - 1 /\ r[k] \in Tables
    BY <1>1, <1>14
  <2> QED  BY <1>11, <1>12, <2>1, StoreIs
<1>15. Nat \subseteq T
  <2> HIDE DEF T
  <2> QED  BY <1>13, <1>14, SetInduction
<1>16. \A k \in 0..n : r[k] \in Tables
  BY <1>15
<1>17. Run(r, f, q, n)
  BY <1>10, <1>11, <1>12, <1>16 DEF Run
<1> QED  BY <1>10, <1>17 DEF n

-----------------------------------------------------------------------------
(* The row's original is in the table and is no duplicate. *)

Chainless(f) == \A j \in Jobs : f[j].dup # NoJob => f[f[j].dup].there /\ f[f[j].dup].dup = NoJob

LEMMA StoreChainless ==
  ASSUME NEW f \in Tables, Chainless(f), NEW j \in Jobs
  PROVE  Chainless(Store(f, j))
<1> DEFINE h == Store(f, j)
<1>1. /\ h \in Tables /\ \A k \in Jobs : k # j => h[k] = f[k]
      /\ h[j].there
      /\ f[j].there => h[j].dup = f[j].dup
      /\ ~f[j].there => h[j].dup = NoJob \/ h[j].dup \in Originals(f, j)
  BY StoreIs
<1> HIDE DEF h
<1>2. \A k \in Jobs : f[k].dup \in Jobs \union {NoJob} /\ h[k].dup \in Jobs \union {NoJob}
  BY <1>1 DEF Tables, Row
<1>3. ASSUME NEW k \in Jobs, f[k].there, f[k].dup = NoJob PROVE h[k].there /\ h[k].dup = NoJob
  BY <1>1, <1>3
<1>4. ASSUME NEW k \in Jobs, k # j, h[k].dup # NoJob PROVE h[h[k].dup].there /\ h[h[k].dup].dup = NoJob
  BY <1>1, <1>2, <1>3, <1>4 DEF Chainless
<1>5. ASSUME h[j].dup # NoJob PROVE h[h[j].dup].there /\ h[h[j].dup].dup = NoJob
  <2>1. CASE f[j].there
    BY <1>1, <1>2, <1>3, <1>5, <2>1 DEF Chainless
  <2>2. CASE ~f[j].there
    BY <1>1, <1>2, <1>3, <1>5, <2>2 DEF Originals
  <2> QED  BY <2>1, <2>2
<1> QED  BY <1>4, <1>5 DEF Chainless, h

\* Storing an answer, in whatever order, takes no listing away: what was listed
\* or seen lately still is, and originals stay originals.
LEMMA StoredIs ==
  ASSUME job \in Tables, NEW answer \in SUBSET Jobs, NEW f \in Stored(answer)
  PROVE  /\ f \in Tables
         /\ \A j \in Jobs : (job[j].listed => f[j].listed) /\ (job[j].fresh => f[j].fresh)
         /\ Chainless(job) => Chainless(f)
<1>1. PICK q \in Orders(answer) : f = FoldLeft(Store, job, q)
  BY DEF Stored
<1> DEFINE n == Cardinality(answer)
<1>2. n \in Nat
  BY JobsAssumption, FS_Subset, FS_CardinalityType
<1>3. PICK r : Run(r, job, q, n) /\ f = r[n]
  BY <1>1, StoreRun
<1> HIDE DEF n
<1> DEFINE Remains(t) == \A j \in Jobs : (job[j].listed => t[j].listed) /\ (job[j].fresh => t[j].fresh)
           T == {k \in Nat : k <= n => Remains(r[k]) /\ (Chainless(job) => Chainless(r[k]))}
<1>4. 0 \in T
  BY <1>3 DEF Run
<1>5. ASSUME NEW k \in Nat, k \in T PROVE k + 1 \in T
  <2> SUFFICES ASSUME k + 1 <= n PROVE Remains(r[k + 1]) /\ (Chainless(job) => Chainless(r[k + 1]))
    OBVIOUS
  <2>1. k \in 0..n - 1 /\ k \in 0..n
    BY <1>2
  <2>2. Remains(r[k]) /\ (Chainless(job) => Chainless(r[k]))
    BY <1>5, <2>1
  <2>3. r[k] \in Tables /\ q[k + 1] \in Jobs /\ r[k + 1] = Store(r[k], q[k + 1])
    BY <1>3, <2>1 DEF Run
  <2>4. Remains(r[k + 1])
    <3>1. \A j \in Jobs : j # q[k + 1] => r[k + 1][j] = r[k][j]
      BY <2>3, StoreIs
    <3>2. r[k + 1][q[k + 1]].listed /\ r[k + 1][q[k + 1]].fresh
      BY <2>3, StoreIs
    <3> QED  BY <2>2, <3>1, <3>2
  <2>5. Chainless(job) => Chainless(r[k + 1])
    BY <2>2, <2>3, StoreChainless
  <2> QED  BY <2>4, <2>5
<1>6. Nat \subseteq T
  <2> HIDE DEF T
  <2> QED  BY <1>4, <1>5, SetInduction
<1>7. Remains(f) /\ (Chainless(job) => Chainless(f))
  BY <1>2, <1>3, <1>6
<1>8. f \in Tables
  BY <1>2, <1>3 DEF Run
<1> QED  BY <1>7, <1>8

-----------------------------------------------------------------------------
(* What one step does *)

ListingsInv == TypeOK /\ NoChains

LEMMA NoChainsIs == NoChains <=> Chainless(job)
BY DEF NoChains, Chainless

\* The state machine refuses none of the changes that _expire_applications asks
\* for, so that a poll gets through all listings that it has to expire.
LEMMA NoneRefused ==
  ASSUME TypeOK, NEW S \in SUBSET Jobs
  PROVE  Refused(S) = {} /\ Reached(S) = {S}
<1>1. ASSUME NEW x \in (States \union {"NONE"}) \ Kept PROVE CanTransition(x, "EXPIRED")
  BY <1>1 DEF States, Kept, UserOwned, CanTransition, Transitions, Leave
<1>2. \A j \in S : app[j] \in States \union {"NONE"}
  BY DEF TypeOK
<1>3. Refused(S) = {}
  BY <1>1, <1>2 DEF Refused
<1> QED  BY <1>3 DEF Reached

\* The rows of S expire in the table f, with their applications.
LEMMA ExpireIs ==
  ASSUME TypeOK, NEW f \in Tables, NEW S \in SUBSET Jobs, Expire(f, S)
  PROVE  /\ job' \in Tables /\ app' \in [Jobs -> States \union {"NONE"}]
         /\ \A j \in Jobs : job'[j].there = f[j].there /\ job'[j].dup = f[j].dup
         /\ \A j \in Jobs \ S : job'[j] = f[j]
         /\ \A j \in S : IF app[j] \in Kept THEN app'[j] = app[j] ELSE app'[j] = "EXPIRED"
<1>1. job' = [j \in Jobs |-> IF j \in S THEN [f[j] EXCEPT !.listed = FALSE] ELSE f[j]]
  BY DEF Expire
<1>2. app' = [j \in Jobs |-> IF j \in S /\ app[j] \notin Kept THEN "EXPIRED" ELSE app[j]]
  BY NoneRefused DEF Expire
<1>3. \A j \in Jobs : f[j] \in Row /\ [f[j] EXCEPT !.listed = FALSE] \in Row
  BY DEF Tables, Row
<1>4. job' \in Tables
  BY <1>1, <1>3 DEF Tables
<1>5. app' \in [Jobs -> States \union {"NONE"}]
  BY <1>2 DEF TypeOK, States
<1>6. \A j \in Jobs : job'[j].there = f[j].there /\ job'[j].dup = f[j].dup
  BY <1>1, <1>3 DEF Row
<1>7. \A j \in Jobs \ S : job'[j] = f[j]
  BY <1>1
<1>8. \A j \in S : IF app[j] \in Kept THEN app'[j] = app[j] ELSE app'[j] = "EXPIRED"
  BY <1>2
<1> QED  BY <1>4, <1>5, <1>6, <1>7, <1>8

\* j is published and in time, and its board answers with all or it was seen.
Open(j) == job[j].listed /\ published[j] /\ ~past[j] /\ (GroupOf[j] \in Complete \/ job[j].fresh)

\* What the properties need of a step.
Good ==
  /\ TypeOK' /\ (NoChains => NoChains')
  /\ \A j \in Jobs : Open(j) => job'[j].listed
  /\ \A j \in Jobs : job[j].listed /\ ~job'[j].listed =>
       IF app[j] \in UserOwned \union {"NONE", "DUPLICATE", "FAILED"} THEN app'[j] = app[j] ELSE app'[j] = "EXPIRED"

\* A table f in which nothing was taken away expires the rows of S: that is
\* good when none of them is open.
LEMMA ExpireGood ==
  ASSUME TypeOK, NEW f \in Tables, NEW S \in SUBSET Jobs, Expire(f, S),
         UNCHANGED <<past, published>>,
         \A j \in Jobs : job[j].listed => f[j].listed,
         NoChains => Chainless(f),
         \A j \in S : ~Open(j)
  PROVE  Good
<1>1. /\ job' \in Tables /\ app' \in [Jobs -> States \union {"NONE"}]
      /\ \A j \in Jobs : job'[j].there = f[j].there /\ job'[j].dup = f[j].dup
      /\ \A j \in Jobs \ S : job'[j] = f[j]
      /\ \A j \in S : IF app[j] \in Kept THEN app'[j] = app[j] ELSE app'[j] = "EXPIRED"
  BY ExpireIs
<1>2. TypeOK'
  BY <1>1 DEF TypeOK, Tables
<1>3. ASSUME NoChains PROVE NoChains'
  <2>1. \A j \in Jobs : f[j].dup \in Jobs \union {NoJob}
    BY DEF Tables, Row
  <2> QED  BY <1>1, <1>3, <2>1 DEF NoChains, Chainless
<1>4. \A j \in Jobs : Open(j) => job'[j].listed
  BY <1>1 DEF Open
<1>5. ASSUME NEW j \in Jobs, job[j].listed, ~job'[j].listed
      PROVE  IF app[j] \in UserOwned \union {"NONE", "DUPLICATE", "FAILED"} THEN app'[j] = app[j] ELSE app'[j] = "EXPIRED"
  <2>1. j \in S
    BY <1>1, <1>5
  <2> QED  BY <1>1, <2>1 DEF Kept
<1> QED  BY <1>2, <1>3, <1>4, <1>5 DEF Good

LEMMA UpsertGood ==
  ASSUME TypeOK, NEW g \in Groups, NEW answer \in SUBSET Online(g), Upsert(g, answer),
         g \in Complete => answer = Online(g),
         UNCHANGED <<past, published>>
  PROVE  Good
<1>1. answer \in SUBSET Jobs /\ job \in Tables
  BY DEF Online, TypeOK, Tables
<1>2. PICK f \in Stored(answer) : Expire(f, Ends(f, g, answer))
  <2>1. PICK f \in Stored(answer) : \E S \in Reached(Ends(f, g, answer)) : Expire(f, S)
    BY DEF Upsert, Outcomes
  <2>2. Reached(Ends(f, g, answer)) = {Ends(f, g, answer)}
    BY NoneRefused DEF Ends
  <2> QED  BY <2>1, <2>2
<1>3. /\ f \in Tables
      /\ \A j \in Jobs : (job[j].listed => f[j].listed) /\ (job[j].fresh => f[j].fresh)
      /\ Chainless(job) => Chainless(f)
  BY <1>1, StoredIs
<1>4. ASSUME NEW j \in Ends(f, g, answer) PROVE ~Open(j)
  BY <1>3, GroupsAssumption DEF Ends, Open, Online
<1>5. Ends(f, g, answer) \in SUBSET Jobs
  BY DEF Ends
<1> QED  BY <1>2, <1>3, <1>4, <1>5, ExpireGood, NoChainsIs

LEMMA StaleGood ==
  ASSUME TypeOK, NEW f \in Tables, Expire(f, Stale(f)), UNCHANGED <<past, published>>,
         \A j \in Jobs : (job[j].listed => f[j].listed) /\ (job[j].fresh => f[j].fresh),
         NoChains => Chainless(f)
  PROVE  Good
<1>1. ASSUME NEW j \in Stale(f) PROVE ~Open(j)
  BY GroupsAssumption DEF Stale, Open
<1>2. Stale(f) \in SUBSET Jobs
  BY DEF Stale
<1> QED  BY <1>1, <1>2, ExpireGood

LEMMA ImportGood ==
  ASSUME TypeOK, NEW j \in Jobs, job' = Store(job, j), UNCHANGED <<past, published>>,
         app' \in [Jobs -> States \union {"NONE"}]
  PROVE  Good
<1>1. job \in Tables
  BY DEF TypeOK, Tables
<1>2. job' \in Tables /\ (\A k \in Jobs : k # j => job'[k] = job[k]) /\ job'[j].listed
  BY <1>1, StoreIs
<1>3. TypeOK'
  BY <1>2 DEF TypeOK, Tables
<1>4. NoChains => NoChains'
  <2>1. Chainless(job) => Chainless(Store(job, j))
    BY <1>1, StoreChainless
  <2> QED  BY <2>1 DEF NoChains, Chainless
<1>5. \A k \in Jobs : job[k].listed => job'[k].listed
  BY <1>2
<1> QED  BY <1>3, <1>4, <1>5 DEF Good, Open

LEMMA SameTableGood ==
  ASSUME TypeOK, UNCHANGED job, TypeOK'
  PROVE  Good
BY DEF Good, NoChains, Open

LEMMA PurgeGood ==
  ASSUME TypeOK, Purge
  PROVE  Good
<1>1. PICK gone \in SUBSET Purgeable,
           dropped \in SUBSET {j \in Jobs : app[j] \in {"REJECTED_BY_USER", "EXPIRED", "DUPLICATE"}} :
       /\ job' = [j \in Jobs |->
            IF j \in gone THEN NoRow
            ELSE [job[j] EXCEPT !.dup = IF @ \in gone THEN NoJob ELSE @]]
       /\ app' = [j \in Jobs |-> IF j \in gone \union dropped THEN "NONE" ELSE app[j]]
       /\ past' = [j \in Jobs |-> past[j] /\ j \notin gone]
       /\ UNCHANGED published
  BY DEF Purge
<1>2. \A j \in Jobs : job[j] \in Row
  BY DEF TypeOK
<1>3. \A j \in gone : job'[j] = NoRow /\ ~job[j].listed /\ j \in Jobs
  BY <1>1 DEF Purgeable
<1>4. \A j \in Jobs \ gone :
        /\ job'[j] \in Row
        /\ job'[j].there = job[j].there /\ job'[j].listed = job[j].listed
        /\ job'[j].dup = IF job[j].dup \in gone THEN NoJob ELSE job[j].dup
  BY <1>1, <1>2 DEF Row
<1>5. TypeOK'
  <2>1. NoRow \in Row
    BY DEF NoRow, Row
  <2>2. job' = [j \in Jobs |-> job'[j]]
    BY <1>1
  <2>3. \A j \in Jobs : job'[j] \in Row
    BY <2>1, <1>3, <1>4
  <2>4. job' \in [Jobs -> Row]
    BY <2>2, <2>3
  <2>5. app' \in [Jobs -> States \union {"NONE"}] /\ past' \in [Jobs -> BOOLEAN] /\ published' \in [Jobs -> BOOLEAN]
    BY <1>1 DEF TypeOK
  <2> QED  BY <2>4, <2>5 DEF TypeOK
<1>6. ASSUME NoChains, NEW j \in Jobs, job'[j].dup # NoJob
      PROVE  job'[job'[j].dup].there /\ job'[job'[j].dup].dup = NoJob
  <2>1. j \notin gone
    BY <1>3, <1>6 DEF NoRow
  <2>2. job[j].dup # NoJob /\ job[j].dup \notin gone /\ job'[j].dup = job[j].dup
    BY <1>4, <1>6, <2>1
  <2>3. job[j].dup \in Jobs \ gone
    BY <1>2, <2>2 DEF Row
  <2>4. job[job[j].dup].there /\ job[job[j].dup].dup = NoJob
    BY <1>6, <2>2 DEF NoChains
  <2> QED  BY <1>4, <2>2, <2>3, <2>4
<1>7. \A j \in Jobs : job[j].listed => job'[j].listed
  BY <1>3, <1>4
<1> QED  BY <1>5, <1>6, <1>7 DEF Good, NoChains, Open

\* Every step is good.
LEMMA StepGood ==
  ASSUME TypeOK, Next
  PROVE  Good
<1>1. job \in Tables /\ (NoChains => Chainless(job))
  BY NoChainsIs DEF TypeOK, Tables
<1>2. CASE \E g \in Groups : PollBoard(g)
  <2>1. PICK g \in Groups : PollBoard(g)
    BY <1>2
  <2> QED  BY <2>1, UpsertGood DEF PollBoard
<1>3. CASE \E g \in Groups : PollSearch(g)
  <2>1. PICK g \in Groups : PollSearch(g)
    BY <1>3
  <2>2. PICK answer \in SUBSET Online(g) : Upsert(g, answer)
    BY <2>1 DEF PollSearch
  <2>3. g \notin Complete /\ UNCHANGED <<past, published>>
    BY <2>1, GroupsAssumption DEF PollSearch
  <2> QED  BY <2>2, <2>3, UpsertGood
<1>4. CASE \E j \in Jobs : ImportListing(j)
  BY <1>4, ImportGood DEF ImportListing, TypeOK
<1>5. CASE \E j \in Jobs : ImportApplied(j)
  <2>1. PICK j \in Jobs : ImportApplied(j)
    BY <1>5
  <2>2. app' \in [Jobs -> States \union {"NONE"}]
    BY <2>1 DEF ImportApplied, TypeOK, States
  <2> QED  BY <2>1, <2>2, ImportGood DEF ImportApplied
<1>6. CASE \E j \in Jobs : Progress(j)
  <2>1. PICK j \in Jobs : Progress(j)
    BY <1>6
  <2>2. PICK next \in Transitions[app[j]] : app' = [app EXCEPT ![j] = next]
    BY <2>1 DEF Progress
  <2>3. app[j] \in States
    BY <2>1 DEF Progress, TypeOK
  <2>4. next \in States
    BY <2>2, <2>3 DEF States, Transitions, Leave
  <2>5. app' \in [Jobs -> States \union {"NONE"}] /\ UNCHANGED <<job, past, published>>
    BY <2>1, <2>2, <2>4 DEF TypeOK, Progress
  <2> QED  BY <2>5, SameTableGood DEF TypeOK
<1>7. CASE \E j \in Jobs : Age(j)
  <2>1. PICK j \in Jobs : Age(j)
    BY <1>7
  <2>2. job' = [job EXCEPT ![j].fresh = FALSE] /\ UNCHANGED <<app, past, published>>
    BY <2>1 DEF Age
  <2>3. \A k \in Jobs : /\ job'[k] \in Row /\ job'[k].there = job[k].there
                        /\ job'[k].listed = job[k].listed /\ job'[k].dup = job[k].dup
    BY <2>2 DEF TypeOK, Row
  <2>4. TypeOK'
    BY <2>2, <2>3 DEF TypeOK
  <2>5. NoChains => NoChains'
    BY <2>3 DEF NoChains, TypeOK, Row
  <2> QED  BY <2>3, <2>4, <2>5 DEF Good, Open
<1>8. CASE \E j \in Jobs : DeadlinePasses(j)
  BY <1>8, SameTableGood DEF DeadlinePasses, TypeOK
<1>9. CASE \E j \in Jobs, on \in BOOLEAN : Publish(j, on)
  BY <1>9, SameTableGood DEF Publish, TypeOK
<1>10. CASE ImportAlerts
  <2>1. PICK answer \in SUBSET {j \in Jobs : GroupOf[j] \in Imports /\ published[j]} :
           \E f \in Stored(answer) : ExpireAll(f, Stale(f))
    BY <1>10 DEF ImportAlerts
  <2>5. PICK f \in Stored(answer) : Expire(f, Stale(f))
    BY <2>1 DEF ExpireAll
  <2>2. answer \in SUBSET Jobs
    OBVIOUS
  <2>3. /\ f \in Tables
        /\ \A j \in Jobs : (job[j].listed => f[j].listed) /\ (job[j].fresh => f[j].fresh)
        /\ Chainless(job) => Chainless(f)
    BY <1>1, <2>2, <2>5, StoredIs
  <2>4. UNCHANGED <<past, published>>
    BY <1>10 DEF ImportAlerts
  <2> QED  BY <1>1, <2>3, <2>4, <2>5, StaleGood
<1>11. CASE ExpireStaleImports
  BY <1>1, <1>11, StaleGood DEF ExpireStaleImports, ExpireAll
<1>12. CASE Match
  <2>1. UNCHANGED <<job, past, published>>
    BY <1>12 DEF Match
  <2>2. app' \in [Jobs -> States \union {"NONE"}]
    BY <1>12 DEF Match, TypeOK, States
  <2> QED  BY <2>1, <2>2, SameTableGood DEF TypeOK
<1>13. CASE Purge
  BY <1>13, PurgeGood
<1> QED  BY <1>2, <1>3, <1>4, <1>5, <1>6, <1>7, <1>8, <1>9, <1>10, <1>11, <1>12, <1>13 DEF Next

-----------------------------------------------------------------------------
(* Theorems *)

LEMMA ListingsInvHolds == Spec => []ListingsInv
<1>1. Init => ListingsInv
  BY DEF Init, ListingsInv, TypeOK, NoChains, NoRow, Row
<1>2. ListingsInv /\ [Next]_vars => ListingsInv'
  <2> SUFFICES ASSUME ListingsInv, [Next]_vars PROVE ListingsInv'
    OBVIOUS
  <2>1. CASE Next
    BY <2>1, StepGood DEF ListingsInv, Good
  <2>2. CASE UNCHANGED vars
    BY <2>2 DEF ListingsInv, TypeOK, NoChains, vars
  <2> QED  BY <2>1, <2>2
<1> QED  BY <1>1, <1>2, PTL DEF Spec

\* The jobs table and the applications' states are well typed: storing an
\* answer in any order, expiring, matching and purging write only such rows.
THEOREM ListingsTyped == Spec => []TypeOK
BY ListingsInvHolds, PTL DEF ListingsInv

\* upsert_jobs points a duplicate at a listing that is in the table and is no
\* duplicate, and apply_retention takes an original away only together with
\* every reference to it.
THEOREM OriginalsStand == Spec => []NoChains
BY ListingsInvHolds, PTL DEF ListingsInv

\* No poll, import or sweep expires a listing that is still published and in
\* time and that its source answers with or that was seen lately.
THEOREM PublishedStaysOpen == Spec => OpenWhilePublished
<1>1. ListingsInv /\ [Next]_vars =>
        [\A j \in Jobs :
           job[j].listed /\ published[j] /\ ~past[j] /\ (GroupOf[j] \in Complete \/ job[j].fresh)
             => job'[j].listed]_vars
  BY StepGood DEF ListingsInv, Good, Open
<1> QED  BY <1>1, ListingsInvHolds, PTL DEF Spec, OpenWhilePublished

\* A listing and its application expire in one transaction, and what the user
\* decided, or what has ended, is left as it is.
THEOREM ExpiryTakesBoth == Spec => ApplicationExpires
<1>1. ListingsInv /\ [Next]_vars =>
        [\A j \in Jobs :
           job[j].listed /\ ~job'[j].listed =>
             IF app[j] \in UserOwned \union {"NONE", "DUPLICATE", "FAILED"} THEN app'[j] = app[j] ELSE app'[j] = "EXPIRED"]_vars
  BY StepGood DEF ListingsInv, Good
<1> QED  BY <1>1, ListingsInvHolds, PTL DEF Spec, ApplicationExpires
=============================================================================
