------------------------ MODULE QuotaCounters_proofs ------------------------
(***************************************************************************)
(* Proofs about QuotaCounters, for every set of requests and period ends,  *)
(* every limit and any number of overlapping syncs and faults.             *)
(***************************************************************************)
EXTENDS QuotaCounters, FiniteSetTheorems, TLAPS

-----------------------------------------------------------------------------
(* What Sum counts                                                         *)

\* Points(f) has one element per unit of f.
Points(f) == UNION {{e} \X (1..f[e]) : e \in DOMAIN f}

\* The points of a function are the pairs below its graph.
LEMMA PointsAreBelow ==
  ASSUME NEW S, NEW f \in [S -> Nat]
  PROVE  Points(f) = {p \in S \X Nat : p[2] \in 1..f[p[1]]}
<1>1. ASSUME NEW p \in Points(f)
      PROVE  p \in S \X Nat /\ p[2] \in 1..f[p[1]]
  <2>1. PICK e \in S : p \in {e} \X (1..f[e])
    BY <1>1 DEF Points
  <2>2. p[1] = e /\ p[2] \in 1..f[e] /\ p = <<p[1], p[2]>>
    BY <2>1
  <2>3. f[e] \in Nat
    OBVIOUS
  <2> QED
    BY <2>2, <2>3
<1>2. ASSUME NEW p \in S \X Nat, p[2] \in 1..f[p[1]]
      PROVE  p \in Points(f)
  <2>1. p \in {p[1]} \X (1..f[p[1]]) /\ p[1] \in DOMAIN f
    BY <1>2
  <2> QED
    BY <2>1 DEF Points
<1> QED
  BY <1>1, <1>2

\* A function with a finite domain has finitely many points.
LEMMA PointsFinite ==
  ASSUME NEW S, IsFiniteSet(S), NEW f \in [S -> Nat]
  PROVE  IsFiniteSet(Points(f))
<1> DEFINE Column(e) == {e} \X (1..f[e])
<1>1. IsFiniteSet({Column(e) : e \in S})
  <2> DEFINE col == [e \in S |-> Column(e)]
  <2>1. col \in Surjection(S, {Column(e) : e \in S})
    BY DEF Surjection
  <2> HIDE DEF col
  <2> QED
    BY <2>1, FS_Surjection, Zenon
<1>2. ASSUME NEW e \in S
      PROVE  IsFiniteSet(Column(e))
  <2>1. f[e] \in Int /\ 1 \in Int
    OBVIOUS
  <2>2. IsFiniteSet(1..f[e]) /\ IsFiniteSet({e})
    BY <2>1, FS_Interval, FS_Singleton
  <2> QED
    BY <2>2, FS_Product
<1>3. IsFiniteSet(UNION {Column(e) : e \in S})
  BY <1>1, <1>2, FS_UNION
<1> QED
  BY <1>3 DEF Points

\* Adding n to one value adds n to the sum.
LEMMA SumAdd ==
  ASSUME NEW S, IsFiniteSet(S), NEW f \in [S -> Nat], NEW c \in S, NEW n \in Nat
  PROVE  Sum([f EXCEPT ![c] = @ + n]) = Sum(f) + n
<1> DEFINE g   == [f EXCEPT ![c] = @ + n]
           New == {c} \X ((f[c] + 1)..(f[c] + n))
<1>1. g \in [S -> Nat] /\ f[c] \in Nat /\ g[c] = f[c] + n
      /\ \A e \in S \ {c} : g[e] = f[e]
  OBVIOUS
<1>2. Points(f) = {p \in S \X Nat : p[2] \in 1..f[p[1]]}
  BY PointsAreBelow
<1>3. Points(g) = {p \in S \X Nat : p[2] \in 1..g[p[1]]}
  BY <1>1, PointsAreBelow
<1>4. Points(f) \cap New = {}
  BY <1>1, <1>2
<1>5. Points(g) = Points(f) \cup New
  <2> HIDE DEF g
  <2>1. ASSUME NEW p \in S \X Nat
        PROVE  p[2] \in 1..g[p[1]] <=> p[2] \in 1..f[p[1]] \/ p \in New
    <3>1. CASE p[1] = c
      BY <3>1, <1>1
    <3>2. CASE p[1] # c
      BY <3>2, <1>1
    <3> QED
      BY <3>1, <3>2
  <2>2. New \subseteq S \X Nat
    BY <1>1
  <2> QED
    BY <1>2, <1>3, <2>1, <2>2
<1>6. IsFiniteSet(New) /\ Cardinality(New) = n
  <2>1. f[c] + 1 \in Int /\ f[c] + n \in Int
    BY <1>1
  <2>2. /\ IsFiniteSet((f[c] + 1)..(f[c] + n))
        /\ Cardinality((f[c] + 1)..(f[c] + n)) = n
    <3> DEFINE a == f[c] + 1
               b == f[c] + n
    <3>1. /\ IsFiniteSet(a..b)
          /\ Cardinality(a..b) = IF a > b THEN 0 ELSE b - a + 1
      <4> HIDE DEF a, b
      <4>1. a \in Int /\ b \in Int
        BY <2>1 DEF a, b
      <4> QED
        BY <4>1, FS_Interval, Zenon
    <3>2. (IF a > b THEN 0 ELSE b - a + 1) = n
      BY <1>1
    <3> QED
      BY <3>1, <3>2
  <2>3. IsFiniteSet({c}) /\ Cardinality({c}) = 1
    BY FS_Singleton
  <2>4. /\ IsFiniteSet(New)
        /\ Cardinality(New) = Cardinality({c}) * Cardinality((f[c] + 1)..(f[c] + n))
    BY <2>2, <2>3, FS_Product, Zenon
  <2> QED
    BY <2>2, <2>3, <2>4
<1>7. IsFiniteSet(Points(f)) /\ Cardinality(Points(f)) \in Nat
  BY PointsFinite, FS_CardinalityType
<1>8. Cardinality(Points(g)) = Cardinality(Points(f)) + n
  <2> HIDE DEF New, g
  <2>1. Cardinality(Points(f) \cup New)
          = Cardinality(Points(f)) + Cardinality(New) - Cardinality(Points(f) \cap New)
    BY <1>6, <1>7, FS_Union
  <2>2. Cardinality({}) = 0
    BY FS_EmptySet
  <2>3. Cardinality(Points(g)) = Cardinality(Points(f) \cup New)
    BY <1>5, Zenon
  <2>4. Cardinality(Points(f) \cap New) = 0
    BY <1>4, <2>2, Zenon
  <2> DEFINE x == Cardinality(Points(f))
             y == Cardinality(Points(g))
             u == Cardinality(Points(f) \cup New)
             v == Cardinality(New)
             w == Cardinality(Points(f) \cap New)
  <2>5. y = u /\ u = x + v - w /\ w = 0 /\ v = n /\ x \in Nat
    BY <1>6, <1>7, <2>1, <2>3, <2>4
  <2> HIDE DEF x, y, u, v, w
  <2>6. y = x + n
    BY <2>5
  <2> QED
    BY <2>6 DEF x, y
<1> QED
  BY <1>8 DEF Sum, Points

\* A function that is zero but at c sums up to its value at c.
LEMMA SumSingle ==
  ASSUME NEW S, NEW c \in S, NEW k \in Nat
  PROVE  Sum([e \in S |-> IF e = c THEN k ELSE 0]) = k
<1> DEFINE g == [e \in S |-> IF e = c THEN k ELSE 0]
<1>1. g \in [S -> Nat] /\ g[c] = k /\ \A e \in S \ {c} : g[e] = 0
  OBVIOUS
<1>2. Points(g) = {p \in S \X Nat : p[2] \in 1..g[p[1]]}
  BY <1>1, PointsAreBelow
<1>3. Points(g) = {c} \X (1..k)
  <2> HIDE DEF g
  <2>1. ASSUME NEW p \in S \X Nat
        PROVE  p[2] \in 1..g[p[1]] <=> p \in {c} \X (1..k)
    <3>1. CASE p[1] = c
      BY <3>1, <1>1
    <3>2. CASE p[1] # c
      BY <3>2, <1>1
    <3> QED
      BY <3>1, <3>2
  <2>2. {c} \X (1..k) \subseteq S \X Nat
    OBVIOUS
  <2> QED
    BY <1>2, <2>1, <2>2
<1>4. IsFiniteSet(1..k) /\ Cardinality(1..k) = k
  BY FS_Interval
<1>5. IsFiniteSet({c}) /\ Cardinality({c}) = 1
  BY FS_Singleton
<1>6. Cardinality({c} \X (1..k)) = k
  <2>1. Cardinality({c} \X (1..k)) = Cardinality({c}) * Cardinality(1..k)
    BY <1>4, <1>5, FS_Product, Zenon
  <2> QED
    BY <1>4, <1>5, <2>1
<1> QED
  BY <1>3, <1>6 DEF Sum, Points

\* The sum of zeros is zero.
LEMMA SumZero ==
  ASSUME NEW S
  PROVE  Sum([e \in S |-> 0]) = 0
<1> DEFINE z == [e \in S |-> 0]
<1>1. z \in [S -> Nat] /\ \A e \in S : z[e] = 0
  OBVIOUS
<1>2. Points(z) = {p \in S \X Nat : p[2] \in 1..z[p[1]]}
  BY <1>1, PointsAreBelow
<1>3. Points(z) = {}
  BY <1>1, <1>2
<1> QED
  BY <1>3, FS_EmptySet DEF Sum, Points

\* Sum of tokens per period end is a natural number.
LEMMA SumType ==
  ASSUME NEW S, IsFiniteSet(S), NEW f \in [S -> Nat]
  PROVE  Sum(f) \in Nat
<1>1. IsFiniteSet(Points(f))
  BY PointsFinite
<1> QED
  BY <1>1, FS_CardinalityType DEF Sum, Points

\* Setting one value replaces it in the sum.
LEMMA SumUpdate ==
  ASSUME NEW S, IsFiniteSet(S), NEW f \in [S -> Nat], NEW c \in S, NEW n \in Nat
  PROVE  Sum([f EXCEPT ![c] = n]) = Sum(f) - f[c] + n
<1> DEFINE z == [f EXCEPT ![c] = 0]
           g == [f EXCEPT ![c] = n]
<1>1. /\ z \in [S -> Nat] /\ g \in [S -> Nat] /\ f[c] \in Nat /\ z[c] = 0 /\ g[c] = n
      /\ \A e \in S \ {c} : z[e] = f[e] /\ g[e] = f[e]
  OBVIOUS
<1> HIDE DEF z, g
<1>2. ASSUME NEW k \in Nat PROVE Sum([z EXCEPT ![c] = @ + k]) = Sum(z) + k
  <2>1. z \in [S -> Nat]
    BY <1>1
  <2> QED
    BY <2>1, SumAdd, ZenonT(40)
<1>3. Sum([z EXCEPT ![c] = @ + f[c]]) = Sum(z) + f[c]
  BY <1>1, <1>2
<1>4. f = [z EXCEPT ![c] = @ + f[c]]
  BY <1>1
<1>5. g = [z EXCEPT ![c] = @ + n]
  BY <1>1
<1>6. Sum(z) \in Nat
  BY <1>1, SumType
<1>7. Sum(f) = Sum(z) + f[c] /\ Sum(g) = Sum(z) + n
  BY <1>2, <1>3, <1>4, <1>5
<1>8. Sum(g) = Sum(f) - f[c] + n
  BY <1>1, <1>6, <1>7
<1> QED
  BY <1>8 DEF g

\* A function that is nowhere larger has no larger sum.
LEMMA SumMono ==
  ASSUME NEW S, IsFiniteSet(S), NEW f \in [S -> Nat], NEW g \in [S -> Nat],
         \A e \in S : f[e] <= g[e]
  PROVE  Sum(f) <= Sum(g)
<1>1. Points(f) = {p \in S \X Nat : p[2] \in 1..f[p[1]]}
  BY PointsAreBelow
<1>2. Points(g) = {p \in S \X Nat : p[2] \in 1..g[p[1]]}
  BY PointsAreBelow
<1>3. ASSUME NEW p \in S \X Nat, p[2] \in 1..f[p[1]]
      PROVE  p[2] \in 1..g[p[1]]
  <2>1. p[1] \in S /\ f[p[1]] \in Nat /\ g[p[1]] \in Nat /\ f[p[1]] <= g[p[1]]
    OBVIOUS
  <2> QED
    BY <1>3, <2>1
<1>4. Points(f) \subseteq Points(g)
  BY <1>1, <1>2, <1>3
<1>5. IsFiniteSet(Points(g))
  BY PointsFinite
<1>6. Cardinality(Points(f)) <= Cardinality(Points(g))
  BY <1>4, <1>5, FS_Subset
<1> QED
  BY <1>6 DEF Sum, Points

-----------------------------------------------------------------------------
(* Type correctness                                                        *)

\* Sums over the rows and over the requests are numbers.
LEMMA SumsTyped ==
  ASSUME TypeOK
  PROVE  /\ Sum(used) \in Nat
         /\ \A e \in Ends : OthersSum(e) \in Nat
         /\ \A a, b \in Ends : Sum([used EXCEPT ![a] = 0, ![b] = 0]) \in Nat
         /\ \A E : Held(E) \in [Requests -> Nat] /\ LiveOn(E) \in Nat
<1>1. used \in [Ends -> Nat] /\ IsFiniteSet(Ends) /\ IsFiniteSet(Requests)
  BY QuotaAssumption DEF TypeOK
<1>2. Sum(used) \in Nat
  BY <1>1, SumType
<1>3. ASSUME NEW e \in Ends PROVE OthersSum(e) \in Nat
  <2>1. [used EXCEPT ![e] = 0] \in [Ends -> Nat]
    BY <1>1
  <2> QED
    BY <1>1, <2>1, SumType DEF OthersSum
<1>4. ASSUME NEW a \in Ends, NEW b \in Ends
      PROVE  Sum([used EXCEPT ![a] = 0, ![b] = 0]) \in Nat
  <2>1. [used EXCEPT ![a] = 0, ![b] = 0] \in [Ends -> Nat]
    BY <1>1
  <2> QED
    BY <1>1, <2>1, SumType
<1>5. ASSUME NEW E PROVE Held(E) \in [Requests -> Nat] /\ LiveOn(E) \in Nat
  <2>1. \A r \in Requests : hold[r] \in Nat
    BY QuotaAssumption DEF TypeOK
  <2>2. Held(E) \in [Requests -> Nat]
    BY <2>1 DEF Held
  <2> QED
    BY <1>1, <2>2, SumType DEF LiveOn
<1> QED
  BY <1>2, <1>3, <1>4, <1>5

\* What a settlement does to the row.
LEMMA SettleTyped ==
  ASSUME TypeOK, NEW e \in Ends, NEW n \in 0..MaxTokens, Settle(e, n)
  PROVE  /\ used' \in [Ends -> Nat] /\ settled' \in Nat /\ late' \in [Syncs -> Nat]
         /\ UNCHANGED <<moved, dropped, doubled>>
<1>1. n \in Nat /\ \A s \in Syncs : LateFor(s, e, n) \in Nat
  BY QuotaAssumption DEF LateFor
<1> QED
  BY <1>1 DEF Settle, TypeOK

\* And a finalize, to both columns.
LEMMA FinalizeTyped ==
  ASSUME TypeOK, NEW r \in Requests, NEW n \in 0..MaxTokens,
         FinalizeQuotaTokens(r, n)
  PROVE  /\ used' \in [Ends -> Nat] /\ settled' \in Nat /\ late' \in [Syncs -> Nat]
         /\ UNCHANGED <<moved, dropped, doubled>>
         /\ reserved' \in [Ends -> Nat]
         /\ Overrun(r, n) \in Nat
<1>1. end[r] \in Ends /\ n \in Nat /\ hold[r] \in Nat /\ reserved[end[r]] \in Nat
  BY QuotaAssumption DEF TypeOK
<1>2. Monus(reserved[end[r]], hold[r]) \in Nat /\ Overrun(r, n) \in Nat
  BY <1>1 DEF Monus, Overrun
<1>3. reserved' \in [Ends -> Nat]
  BY <1>1, <1>2 DEF FinalizeQuotaTokens, TypeOK
<1> QED
  BY <1>1, <1>2, <1>3, SettleTyped DEF FinalizeQuotaTokens

\* Every action of a handler keeps the types.
LEMMA HandlerTyped ==
  ASSUME TypeOK, NEW r \in Requests, Handler(r)
  PROVE  TypeOK'
<1> USE QuotaAssumption DEF Goto, Fault, table, entity, syncing, local, races, history,
        Active, Holding, Migrating
<1>1. CASE CacheHit(r)
  BY <1>1 DEF CacheHit, GetByUser, TypeOK
<1>2. CASE CacheMiss(r)
  BY <1>2 DEF CacheMiss, GetByUser, TypeOK
<1>3. CASE CacheFill(r)
  BY <1>3 DEF CacheFill, TypeOK
<1>4. ASSUME NEW n \in 1..MaxTokens, ReserveQuotaTokens(r, n)
      PROVE  TypeOK'
  BY <1>4 DEF ReserveQuotaTokens, TypeOK
<1>5. ASSUME NEW n \in 1..MaxTokens, IncrementQuotaCounter(r, n)
      PROVE  TypeOK'
  <2>1. end[r] \in Ends /\ n \in 0..MaxTokens /\ Settle(end[r], n)
    BY <1>5 DEF IncrementQuotaCounter, TypeOK
  <2>2. /\ used' \in [Ends -> Nat] /\ settled' \in Nat /\ late' \in [Syncs -> Nat]
        /\ UNCHANGED <<moved, dropped, doubled>>
    BY <2>1, SettleTyped
  <2> QED
    BY <1>5, <2>2 DEF IncrementQuotaCounter, TypeOK
<1>6. CASE ReserveRejected(r) \/ Abandon(r)
  BY <1>6 DEF ReserveRejected, Abandon, TypeOK
<1>7. ASSUME NEW n \in 0..MaxTokens, Finalize(r, n) \/ FinalizeCreditFailed(r, n)
      PROVE  TypeOK'
  <2>1. /\ used' \in [Ends -> Nat] /\ settled' \in Nat /\ late' \in [Syncs -> Nat]
        /\ UNCHANGED <<moved, dropped, doubled>>
        /\ reserved' \in [Ends -> Nat] /\ Overrun(r, n) \in Nat
    BY <1>7, FinalizeTyped DEF Finalize, FinalizeCreditFailed
  <2> QED
    BY <1>7, <2>1 DEF Finalize, FinalizeCreditFailed, TypeOK
<1>8. CASE GiveBack(r)
  <2>1. 0 \in 0..MaxTokens /\ FinalizeQuotaTokens(r, 0)
    BY <1>8 DEF GiveBack
  <2>2. /\ used' \in [Ends -> Nat] /\ settled' \in Nat /\ late' \in [Syncs -> Nat]
        /\ UNCHANGED <<moved, dropped, doubled>>
        /\ reserved' \in [Ends -> Nat]
    BY <2>1, FinalizeTyped
  <2> QED
    BY <1>8, <2>2 DEF GiveBack, TypeOK
<1>9. CASE FinalizeDeferred(r) \/ FinalizeFailed(r)
  BY <1>9 DEF FinalizeDeferred, FinalizeFailed, TypeOK
<1> QED
  BY <1>1, <1>2, <1>3, <1>4, <1>5, <1>6, <1>7, <1>8, <1>9 DEF Handler

\* Every step of a sync keeps the types.
LEMMA SyncTyped ==
  ASSUME TypeOK, NEW s \in Syncs, SyncCustomerEntitlements(s)
  PROVE  TypeOK'
<1> USE QuotaAssumption DEF SyncGoto, Fault, table, entity, syncing, local, races, history,
        Migrating
<1>1. ASSUME NEW e \in Ends, Upsert(s, e)
      PROVE  TypeOK'
  BY <1>1 DEF Upsert, TypeOK
<1>2. CASE CacheDel(s) \/ CacheDelFailed(s)
  BY <1>2 DEF CacheDel, CacheDelFailed, TypeOK
<1>3. CASE MigrateRead(s)
  <2>1. OthersSum(target[s]) \in Nat
    BY SumsTyped DEF TypeOK
  <2> QED
    BY <1>3, <2>1 DEF MigrateRead, TypeOK
<1>4. CASE MigrateFold(s)
  BY <1>4 DEF MigrateFold, TypeOK
<1>5. CASE MigrateCommit(s)
  <2>1. carry[s] \in Nat /\ target[s] \in Ends
    BY DEF TypeOK
  <2>2. used' \in [Ends -> Nat] /\ reserved' \in [Ends -> Nat]
    BY <1>5, <2>1 DEF MigrateCommit, TypeOK
  <2>3. late' \in [Syncs -> Nat]
    BY <1>5, <2>1 DEF MigrateCommit, LateFor, TypeOK
  <2>4. \A q \in Syncs : Sum([used EXCEPT ![target[q]] = 0, ![target[s]] = 0]) \in Nat
    BY <2>1, SumsTyped DEF TypeOK
  <2>5. moved' \in [Syncs -> Nat]
    BY <1>5, <2>4 DEF MigrateCommit, TypeOK
  <2>6. loose' \in Nat /\ dropped' \in Nat /\ doubled' \in Nat
    BY <1>5, SumsTyped DEF MigrateCommit, TypeOK
  <2> QED
    BY <1>5, <2>2, <2>3, <2>5, <2>6 DEF MigrateCommit, TypeOK
<1>6. CASE MigrateFailed(s) \/ MigrateDeadlock(s)
  BY <1>6 DEF MigrateFailed, MigrateDeadlock, MigrateAborts, TypeOK
<1> QED
  BY <1>1, <1>2, <1>3, <1>4, <1>5, <1>6 DEF SyncCustomerEntitlements

\* And the environment's.
LEMMA OthersTyped ==
  ASSUME TypeOK,
         CacheExpires \/ Crash \/ (\E e \in Ends : Sweep(e)) \/ UNCHANGED vars
  PROVE  TypeOK'
<1> USE QuotaAssumption DEF Fault, table, entity, syncing, local, races, history,
        Active, Holding, Migrating
<1>1. CASE CacheExpires
  BY <1>1 DEF CacheExpires, TypeOK
<1>2. CASE Crash
  BY <1>2 DEF Crash, TypeOK
<1>3. ASSUME NEW e \in Ends, Sweep(e)
      PROVE  TypeOK'
  <2>1. LiveOn({e}) \in Nat
    BY SumsTyped
  <2> QED
    BY <1>3, <2>1 DEF Sweep, TypeOK
<1>4. CASE UNCHANGED vars
  BY <1>4 DEF vars, TypeOK
<1> QED
  BY <1>1, <1>2, <1>3, <1>4

\* Every variable keeps its type, and no counter goes below zero, whatever is
\* finalized twice or after the sweeper or a migration removed its reservation.
THEOREM TypeCorrect == Spec => []TypeOK
<1>1. Init => TypeOK
  <2> SUFFICES ASSUME Init PROVE TypeOK
    OBVIOUS
  <2>1. 0 \in 0..MaxTokens /\ 0 \in 0..MaxFaults /\ 0 \in Nat
    BY QuotaAssumption
  <2>2. /\ used \in [Ends -> Nat] /\ reserved \in [Ends -> Nat]
        /\ hold \in [Requests -> 0..MaxTokens] /\ end \in [Requests -> Ends]
        /\ target \in [Syncs -> Ends] /\ carry \in [Syncs -> Nat]
        /\ late \in [Syncs -> Nat] /\ moved \in [Syncs -> Nat]
    BY <2>1 DEF Init
  <2>3. /\ pc \in [Requests -> Active \cup {"new", "done"}]
        /\ sync \in [Syncs -> Migrating \cup {"new", "upserted", "carrying", "done"}]
    BY DEF Init
  <2> QED
    BY <2>1, <2>2, <2>3 DEF Init, TypeOK
<1>2. TypeOK /\ [Next]_vars => TypeOK'
  BY HandlerTyped, SyncTyped, OthersTyped DEF Next
<1> QED
  BY <1>1, <1>2, PTL DEF Spec

-----------------------------------------------------------------------------
(* Conservation of usage                                                   *)

\* A migration under way has read what is still in the other rows, but for the
\* tokens that came late, and for those another migration has moved since.
ReadInv ==
  \A s \in Syncs : sync[s] \in Migrating =>
    /\ OthersSum(target[s]) <= carry[s] + late[s]
    /\ carry[s] <= OthersSum(target[s]) + moved[s]

ConserveInv == UsageConserved /\ ReadInv

\* The other rows, and all of them, when one row is set apart.
LEMMA SumSplit ==
  ASSUME TypeOK, NEW a \in Ends, NEW b \in Ends
  PROVE  /\ Sum(used) = used[a] + OthersSum(a)
         /\ a # b => OthersSum(b) = used[a] + Sum([used EXCEPT ![b] = 0, ![a] = 0])
         /\ a = b => OthersSum(b) = Sum([used EXCEPT ![b] = 0, ![a] = 0])
<1>1. used \in [Ends -> Nat] /\ IsFiniteSet(Ends) /\ used[a] \in Nat
  BY QuotaAssumption DEF TypeOK
<1> DEFINE g == [used EXCEPT ![b] = 0]
<1>2. g \in [Ends -> Nat] /\ (a # b => g[a] = used[a])
  BY <1>1
<1>3. Sum([used EXCEPT ![a] = 0]) = Sum(used) - used[a] + 0
  <2>1. ASSUME NEW n \in Nat PROVE Sum([used EXCEPT ![a] = n]) = Sum(used) - used[a] + n
    BY <1>1, SumUpdate
  <2> QED
    BY <2>1
<1>4. Sum([g EXCEPT ![a] = 0]) = Sum(g) - g[a] + 0
  <2> HIDE DEF g
  <2>1. g \in [Ends -> Nat] /\ IsFiniteSet(Ends)
    BY <1>1, <1>2
  <2>2. ASSUME NEW n \in Nat PROVE Sum([g EXCEPT ![a] = n]) = Sum(g) - g[a] + n
    BY <2>1, SumUpdate
  <2> QED
    BY <2>2
<1>5. [used EXCEPT ![b] = 0, ![a] = 0] = [g EXCEPT ![a] = 0]
  OBVIOUS
<1>6. a = b => [g EXCEPT ![a] = 0] = g
  BY <1>1
<1>7. OthersSum(b) = Sum(g) /\ OthersSum(a) = Sum([used EXCEPT ![a] = 0])
  BY DEF OthersSum
<1>8. /\ Sum(used) \in Nat /\ OthersSum(b) \in Nat
  BY SumsTyped
<1> HIDE DEF g
<1> PICK x \in Nat, y \in Nat, u \in Nat : x = Sum(used) /\ y = OthersSum(b) /\ u = used[a]
  BY <1>1, <1>8
<1>9. OthersSum(a) = x - u
  BY <1>3, <1>7
<1>10. ASSUME a # b PROVE Sum([g EXCEPT ![a] = 0]) = y - u
  BY <1>2, <1>4, <1>7, <1>10
<1> QED
  BY <1>5, <1>6, <1>7, <1>9, <1>10

\* A settlement adds to one row what it adds to the settled tokens; for a
\* migration that has read that row the tokens are late.
LEMMA SettleConserves ==
  ASSUME TypeOK, ConserveInv, NEW e \in Ends, NEW n \in 0..MaxTokens, Settle(e, n),
         UNCHANGED syncing
  PROVE  ConserveInv'
<1>1. /\ used' = [used EXCEPT ![e] = @ + n] /\ settled' = settled + n
      /\ late' = [s \in Syncs |-> late[s] + LateFor(s, e, n)]
      /\ UNCHANGED <<moved, dropped, doubled, sync, target, carry>>
  BY DEF Settle, syncing
<1>2. n \in Nat /\ used \in [Ends -> Nat] /\ IsFiniteSet(Ends)
  BY QuotaAssumption DEF TypeOK
<1>3. Sum([used EXCEPT ![e] = @ + n]) = Sum(used) + n
  BY <1>2, SumAdd, ZenonT(40)
<1>4. UsageConserved'
  <2>1. Sum(used') = Sum(used) + n /\ Sum(used) \in Nat
    BY <1>1, <1>3, SumsTyped
  <2> PICK x \in Nat : x = Sum(used)
    BY <2>1
  <2>2. settled <= x + dropped /\ x <= settled + doubled
    BY DEF ConserveInv, UsageConserved
  <2>3. settled + n <= x + n + dropped /\ x + n <= settled + n + doubled
    BY <1>2, <2>2 DEF TypeOK
  <2>4. Sum(used)' = x + n
    BY <2>1
  <2> QED
    BY <1>1, <2>3, <2>4 DEF UsageConserved
<1>5. ASSUME NEW s \in Syncs, sync'[s] \in Migrating
      PROVE  /\ OthersSum(target[s])' <= carry'[s] + late'[s]
             /\ carry'[s] <= OthersSum(target[s])' + moved'[s]
  <2> DEFINE t == target[s]
             z == [used EXCEPT ![t] = 0]
  <2>1. t \in Ends /\ z \in [Ends -> Nat] /\ OthersSum(t) \in Nat /\ OthersSum(t) = Sum(z)
    BY <1>2, SumsTyped DEF OthersSum, TypeOK
  <2>2. sync[s] \in Migrating /\ carry[s] \in Nat /\ late[s] \in Nat /\ moved[s] \in Nat
    BY <1>1, <1>5 DEF TypeOK
  <2>3. OthersSum(t) <= carry[s] + late[s] /\ carry[s] <= OthersSum(t) + moved[s]
    BY <2>2 DEF ConserveInv, ReadInv
  <2>4. OthersSum(target[s])' = Sum([used' EXCEPT ![t] = 0])
    BY <1>1 DEF OthersSum
  <2>5. CASE t = e
    <3>1. [used' EXCEPT ![t] = 0] = z
      BY <1>1, <1>2, <2>5
    <3>2. late'[s] = late[s]
      BY <1>1, <2>2, <2>5 DEF LateFor
    <3> QED
      BY <1>1, <2>1, <2>3, <2>4, <3>1, <3>2
  <2>6. CASE t # e
    <3>1. [used' EXCEPT ![t] = 0] = [z EXCEPT ![e] = @ + n]
      BY <1>1, <1>2, <2>6
    <3>2. Sum([z EXCEPT ![e] = @ + n]) = Sum(z) + n
      <4> HIDE DEF z
      <4>1. z \in [Ends -> Nat] /\ n \in Nat /\ IsFiniteSet(Ends)
        BY <1>2, <2>1
      <4> QED
        BY <4>1, SumAdd, ZenonT(40)
    <3>3. late'[s] = late[s] + n
      BY <1>1, <2>2, <2>6 DEF LateFor
    <3> PICK x \in Nat, c \in Nat, l \in Nat, m \in Nat :
             x = OthersSum(t) /\ c = carry[s] /\ l = late[s] /\ m = moved[s]
      BY <2>1, <2>2
    <3>4. OthersSum(target[s])' = x + n
      BY <2>1, <2>4, <3>1, <3>2
    <3>5. x <= c + l /\ c <= x + m
      BY <2>3
    <3>6. x + n <= c + (l + n) /\ c <= x + n + m
      BY <1>2, <3>5
    <3> QED
      BY <1>1, <3>3, <3>4, <3>6
  <2> QED
    BY <2>5, <2>6
<1>6. ReadInv'
  BY <1>1, <1>5 DEF ReadInv
<1> QED
  BY <1>4, <1>6 DEF ConserveInv

\* A commit replaces the other rows by what its migration had read of them: it
\* loses no more than was late, and counts twice no more than was moved.
LEMMA CommitConserves ==
  ASSUME TypeOK, ConserveInv, NEW s \in Syncs, MigrateCommit(s)
  PROVE  ConserveInv'
<1> DEFINE t == target[s]
<1>1. /\ t \in Ends /\ used \in [Ends -> Nat] /\ used[t] \in Nat /\ carry[s] \in Nat
      /\ late[s] \in Nat /\ moved[s] \in Nat
      /\ settled \in Nat /\ dropped \in Nat /\ doubled \in Nat
      /\ Sum(used) \in Nat /\ OthersSum(t) \in Nat
  BY SumsTyped DEF TypeOK
<1>2. /\ used' = [e \in Ends |-> IF e = t THEN used[t] + carry[s] ELSE 0]
      /\ late' = [q \in Syncs |-> late[q] + LateFor(q, t, carry[s])]
      /\ moved' = [q \in Syncs |-> moved[q] + IF sync[q] \in Migrating
                     THEN Sum([used EXCEPT ![target[q]] = 0, ![t] = 0]) ELSE 0]
      /\ dropped' = dropped + late[s] /\ doubled' = doubled + moved[s]
      /\ UNCHANGED <<settled, target, carry>>
      /\ sync' = [sync EXCEPT ![s] = "done"] /\ sync[s] \in Migrating
  BY DEF MigrateCommit, SyncGoto, Migrating
<1> PICK u \in Nat, k \in Nat : u = used[t] /\ k = carry[s]
  BY <1>1
<1>3. Sum([e \in Ends |-> IF e = t THEN u + k ELSE 0]) = u + k
  <2>1. ASSUME NEW j \in Nat PROVE Sum([e \in Ends |-> IF e = t THEN j ELSE 0]) = j
    <3>1. t \in Ends
      BY <1>1
    <3> HIDE DEF t
    <3> QED
      BY <3>1, SumSingle
  <2>2. u + k \in Nat
    OBVIOUS
  <2> QED
    BY <2>1, <2>2
<1>4. UsageConserved'
  <2>1. Sum(used)' = u + k
    BY <1>2, <1>3
  <2>2. Sum(used) = u + OthersSum(t)
    BY <1>1, SumSplit
  <2>3. OthersSum(t) <= k + late[s] /\ k <= OthersSum(t) + moved[s]
    BY <1>2 DEF ConserveInv, ReadInv
  <2>4. settled <= Sum(used) + dropped /\ Sum(used) <= settled + doubled
    BY DEF ConserveInv, UsageConserved
  <2> PICK x \in Nat, l \in Nat, m \in Nat, p \in Nat, d \in Nat, b \in Nat :
           /\ x = OthersSum(t) /\ l = late[s] /\ m = moved[s]
           /\ p = settled /\ d = dropped /\ b = doubled
    BY <1>1
  <2>5. x <= k + l /\ k <= x + m /\ p <= u + x + d /\ u + x <= p + b
    BY <2>2, <2>3, <2>4
  <2>6. p <= u + k + (d + l) /\ u + k <= p + (b + m)
    BY <2>5
  <2>7. settled' = p /\ dropped' = d + l /\ doubled' = b + m
    BY <1>2
  <2> QED
    BY <2>1, <2>6, <2>7 DEF UsageConserved
<1>5. ASSUME NEW q \in Syncs, sync'[q] \in Migrating
      PROVE  /\ OthersSum(target[q])' <= carry'[q] + late'[q]
             /\ carry'[q] <= OthersSum(target[q])' + moved'[q]
  <2> DEFINE v == target[q]
             both == Sum([used EXCEPT ![v] = 0, ![t] = 0])
  <2>1. q # s /\ sync[q] \in Migrating
    BY <1>2, <1>5 DEF TypeOK, Migrating
  <2>2. /\ v \in Ends /\ OthersSum(v) \in Nat /\ both \in Nat
        /\ carry[q] \in Nat /\ late[q] \in Nat /\ moved[q] \in Nat
    BY <1>1, SumsTyped DEF TypeOK
  <2>3. OthersSum(v) <= carry[q] + late[q] /\ carry[q] <= OthersSum(v) + moved[q]
    BY <2>1 DEF ConserveInv, ReadInv
  <2>4. moved'[q] = moved[q] + both
    BY <1>2, <2>1
  <2>5. OthersSum(target[q])' = Sum([used' EXCEPT ![v] = 0])
    BY <1>2 DEF OthersSum
  <2>6. /\ t # v => OthersSum(v) = used[t] + both
        /\ t = v => OthersSum(v) = both
    BY <1>1, <2>2, SumSplit
  <2> HIDE DEF both
  <2> PICK x \in Nat, y \in Nat, c \in Nat, l \in Nat, m \in Nat :
           /\ x = OthersSum(v) /\ y = both
           /\ c = carry[q] /\ l = late[q] /\ m = moved[q]
    BY <2>2
  <2>7. x <= c + l /\ c <= x + m
    BY <2>3
  <2>8. CASE t = v
    <3>1. [used' EXCEPT ![v] = 0] = [e \in Ends |-> 0]
      BY <1>2, <2>8
    <3>2. Sum([used' EXCEPT ![v] = 0]) = 0
      BY <3>1, SumZero
    <3>3. late'[q] \in Nat
      BY <1>1, <1>2, <2>2 DEF LateFor
    <3>4. c <= 0 + (m + y) /\ 0 <= c + late'[q]
      BY <2>6, <2>7, <2>8, <3>3
    <3> QED
      BY <1>2, <2>4, <2>5, <3>2, <3>4
  <2>9. CASE t # v
    <3>1. [used' EXCEPT ![v] = 0] = used'
      BY <1>2, <2>2, <2>9
    <3>2. OthersSum(target[q])' = u + k
      BY <1>2, <1>3, <2>5, <3>1
    <3>3. late'[q] = l + k
      BY <1>2, <2>1, <2>9 DEF LateFor
    <3>4. x = u + y
      BY <2>6, <2>9
    <3>5. u + k <= c + (l + k) /\ c <= u + k + (m + y)
      BY <2>7, <3>4
    <3> QED
      BY <1>2, <2>4, <3>2, <3>3, <3>5
  <2> QED
    BY <2>8, <2>9
<1>6. ReadInv'
  BY <1>2, <1>5 DEF ReadInv
<1> QED
  BY <1>4, <1>6 DEF ConserveInv

\* Every step keeps the conservation.
LEMMA StepConserves ==
  ASSUME TypeOK, ConserveInv, [Next]_vars
  PROVE  ConserveInv'
<1> USE DEF table, entity, syncing, local, races, history
<1>1. ASSUME UNCHANGED <<used, settled, late, moved, dropped, doubled>>,
             \A s \in Syncs : sync'[s] \in Migrating =>
               sync[s] \in Migrating /\ carry'[s] = carry[s] /\ target'[s] = target[s]
      PROVE  ConserveInv'
  <2>1. \A t : OthersSum(t)' = OthersSum(t)
    BY <1>1 DEF OthersSum
  <2>2. UsageConserved'
    BY <1>1 DEF ConserveInv, UsageConserved
  <2>3. ASSUME NEW s \in Syncs, sync'[s] \in Migrating
        PROVE  /\ OthersSum(target[s])' <= carry'[s] + late'[s]
               /\ carry'[s] <= OthersSum(target[s])' + moved'[s]
    <3>1. sync[s] \in Migrating /\ carry'[s] = carry[s] /\ target'[s] = target[s]
      BY <1>1, <2>3
    <3>2. OthersSum(target[s])' = OthersSum(target[s])
      BY <1>1, <3>1 DEF OthersSum
    <3> QED
      BY <1>1, <3>1, <3>2 DEF ConserveInv, ReadInv
  <2> QED
    BY <2>2, <2>3 DEF ConserveInv, ReadInv
<1>2. ASSUME NEW r \in Requests, Handler(r)
      PROVE  ConserveInv'
  <2>1. end[r] \in Ends /\ 0 \in 0..MaxTokens
    BY QuotaAssumption DEF TypeOK
  <2>2. CASE \E n \in 1..MaxTokens : IncrementQuotaCounter(r, n)
    BY <2>1, <2>2, SettleConserves, QuotaAssumption DEF IncrementQuotaCounter
  <2>3. CASE \E n \in 0..MaxTokens : Finalize(r, n) \/ FinalizeCreditFailed(r, n)
    BY <2>1, <2>3, SettleConserves DEF Finalize, FinalizeCreditFailed, FinalizeQuotaTokens
  <2>4. CASE GiveBack(r)
    BY <2>1, <2>4, SettleConserves DEF GiveBack, FinalizeQuotaTokens
  <2>5. CASE \/ CacheHit(r) \/ CacheMiss(r) \/ CacheFill(r)
             \/ ReserveRejected(r) \/ Abandon(r) \/ FinalizeDeferred(r) \/ FinalizeFailed(r)
             \/ \E n \in 1..MaxTokens : ReserveQuotaTokens(r, n)
    BY <1>1, <2>5 DEF CacheHit, CacheMiss, GetByUser, CacheFill, ReserveRejected, Abandon,
       FinalizeDeferred, FinalizeFailed, ReserveQuotaTokens
  <2> QED
    BY <1>2, <2>2, <2>3, <2>4, <2>5 DEF Handler
<1>3. ASSUME NEW s \in Syncs, SyncCustomerEntitlements(s)
      PROVE  ConserveInv'
  <2>1. CASE MigrateCommit(s)
    BY <2>1, CommitConserves
  <2>2. CASE MigrateRead(s)
    <3>1. /\ UNCHANGED <<used, settled, late, moved, dropped, doubled, target>>
          /\ carry' = [carry EXCEPT ![s] = OthersSum(target[s])]
          /\ sync' = [sync EXCEPT ![s] = "read"]
      BY <2>2 DEF MigrateRead, SyncGoto
    <3>2. UsageConserved'
      BY <3>1 DEF ConserveInv, UsageConserved
    <3>3. ASSUME NEW q \in Syncs, sync'[q] \in Migrating
          PROVE  /\ OthersSum(target[q])' <= carry'[q] + late'[q]
                 /\ carry'[q] <= OthersSum(target[q])' + moved'[q]
      <4>1. OthersSum(target[q])' = OthersSum(target[q])
        BY <3>1 DEF OthersSum
      <4>2. CASE q = s
        <5>1. /\ carry'[q] = OthersSum(target[q]) /\ OthersSum(target[q]) \in Nat
              /\ late[q] \in Nat /\ moved[q] \in Nat
          BY <3>1, <4>2, SumsTyped DEF TypeOK
        <5> PICK x \in Nat, l \in Nat, m \in Nat :
                 x = OthersSum(target[q]) /\ l = late[q] /\ m = moved[q]
          BY <5>1
        <5>2. x <= x + l /\ x <= x + m
          OBVIOUS
        <5> QED
          BY <3>1, <4>1, <5>1, <5>2
      <4>3. CASE q # s
        <5>1. sync[q] \in Migrating /\ carry'[q] = carry[q]
          BY <3>1, <3>3, <4>3 DEF TypeOK
        <5> QED
          BY <3>1, <4>1, <5>1 DEF ConserveInv, ReadInv
      <4> QED
        BY <4>2, <4>3
    <3> QED
      BY <3>2, <3>3 DEF ConserveInv, ReadInv
  <2>3. CASE \/ \E e \in Ends : Upsert(s, e)
             \/ CacheDel(s) \/ CacheDelFailed(s) \/ MigrateFold(s)
             \/ MigrateFailed(s) \/ MigrateDeadlock(s)
    <3>1. /\ UNCHANGED <<used, settled, late, moved, dropped, doubled>>
          /\ \A q \in Syncs : sync'[q] \in Migrating =>
               sync[q] \in Migrating /\ carry'[q] = carry[q] /\ target'[q] = target[q]
      BY <2>3 DEF Upsert, CacheDel, CacheDelFailed, MigrateFold, MigrateFailed,
         MigrateDeadlock, MigrateAborts, SyncGoto, Migrating, TypeOK
    <3> QED
      BY <1>1, <3>1
  <2> QED
    BY <1>3, <2>1, <2>2, <2>3 DEF SyncCustomerEntitlements
<1>4. CASE CacheExpires \/ Crash \/ (\E e \in Ends : Sweep(e)) \/ UNCHANGED vars
  <2>1. /\ UNCHANGED <<used, settled, late, moved, dropped, doubled>>
        /\ \A q \in Syncs : sync'[q] \in Migrating =>
             sync[q] \in Migrating /\ carry'[q] = carry[q] /\ target'[q] = target[q]
    BY <1>4 DEF CacheExpires, Crash, Sweep, vars, Migrating, TypeOK
  <2> QED
    BY <1>1, <2>1
<1> QED
  BY <1>2, <1>3, <1>4 DEF Next

\* For every set of period ends and any interleaving of requests, overlapping
\* syncs, sweeps, failing statements and crashes, the rows keep what was
\* settled, up to the tokens that came between a committed migration's SUM and
\* its DELETE, and those two migrations both carried.
THEOREM UsageAlwaysConserved == Spec => []UsageConserved
<1>1. Init => ConserveInv
  <2> SUFFICES ASSUME Init PROVE ConserveInv
    OBVIOUS
  <2>1. Sum([e \in Ends |-> 0]) = 0
    BY SumZero
  <2>2. UsageConserved
    BY <2>1 DEF Init, UsageConserved
  <2>3. ReadInv
    BY DEF Init, ReadInv, Migrating
  <2> QED
    BY <2>2, <2>3 DEF ConserveInv
<1>2. TypeOK /\ ConserveInv /\ [Next]_vars => ConserveInv'
  BY StepConserves
<1>3. ConserveInv => UsageConserved
  BY DEF ConserveInv
<1> QED
  BY <1>1, <1>2, <1>3, TypeCorrect, PTL DEF Spec

-----------------------------------------------------------------------------
(* The monthly limit                                                       *)

\* What live requests hold in a row is reserved there, but for the loose tokens.
Backed == \A e \in Ends : LiveOn({e}) <= reserved[e] + loose

QuotaInv == Backed /\ QuotaKept

\* A step of one request changes what is held by what it holds.
LEMMA HeldStep ==
  ASSUME TypeOK, TypeOK', NEW r \in Requests, NEW E,
         \A q \in Requests \ {r} : pc'[q] = pc[q] /\ hold'[q] = hold[q] /\ end'[q] = end[q]
  PROVE  LiveOn(E)' = LiveOn(E) - Held(E)[r] + Held(E)'[r]
<1>1. Held(E) \in [Requests -> Nat] /\ Held(E)' \in [Requests -> Nat]
  <2>1. \A q \in Requests : hold[q] \in Nat /\ hold'[q] \in Nat
    BY QuotaAssumption DEF TypeOK
  <2> QED
    BY <2>1 DEF Held
<1>2. Held(E)' = [Held(E) EXCEPT ![r] = Held(E)'[r]]
  BY <1>1 DEF Held
<1>3. Held(E)'[r] \in Nat
  BY <1>1
<1>4. ASSUME NEW n \in Nat
      PROVE  Sum([Held(E) EXCEPT ![r] = n]) = Sum(Held(E)) - Held(E)[r] + n
  <2>1. Held(E) \in [Requests -> Nat] /\ IsFiniteSet(Requests)
    BY <1>1, QuotaAssumption
  <2> QED
    BY <2>1, SumUpdate
<1>5. Sum([Held(E) EXCEPT ![r] = Held(E)'[r]]) = Sum(Held(E)) - Held(E)[r] + Held(E)'[r]
  BY <1>3, <1>4
<1> QED
  BY <1>2, <1>5 DEF LiveOn

\* What is held after a step is a number too.
LEMMA LiveTypedNext ==
  ASSUME TypeOK'
  PROVE  \A E : LiveOn(E)' \in Nat
<1> SUFFICES ASSUME NEW E PROVE LiveOn(E)' \in Nat
  OBVIOUS
<1>1. \A r \in Requests : hold'[r] \in Nat
  BY QuotaAssumption DEF TypeOK
<1>2. Held(E)' \in [Requests -> Nat] /\ IsFiniteSet(Requests)
  BY <1>1, QuotaAssumption DEF Held
<1> DEFINE g == Held(E)'
<1>3. g \in [Requests -> Nat]
  BY <1>2
<1> HIDE DEF g
<1>4. Sum(g) \in Nat
  BY <1>2, <1>3, SumType
<1> QED
  BY <1>4 DEF g, LiveOn

\* A request's hold is part of the sum.
LEMMA HeldBelow ==
  ASSUME TypeOK, NEW r \in Requests, NEW E
  PROVE  Held(E)[r] \in Nat /\ Held(E)[r] <= LiveOn(E)
<1>1. Held(E) \in [Requests -> Nat] /\ IsFiniteSet(Requests) /\ LiveOn(E) \in Nat
  BY SumsTyped, QuotaAssumption
<1>2. Sum([Held(E) EXCEPT ![r] = 0]) = Sum(Held(E)) - Held(E)[r] + 0
  <2>1. ASSUME NEW n \in Nat
        PROVE  Sum([Held(E) EXCEPT ![r] = n]) = Sum(Held(E)) - Held(E)[r] + n
    BY <1>1, SumUpdate
  <2> QED
    BY <2>1
<1>3. [Held(E) EXCEPT ![r] = 0] \in [Requests -> Nat]
  BY <1>1
<1>4. Sum([Held(E) EXCEPT ![r] = 0]) \in Nat
  BY <1>1, <1>3, SumType
<1> PICK x \in Nat, y \in Nat, z \in Nat :
         x = LiveOn(E) /\ y = Held(E)[r] /\ z = Sum([Held(E) EXCEPT ![r] = 0])
  BY <1>1, <1>4
<1>5. z = x - y + 0
  BY <1>2 DEF LiveOn
<1>6. y <= x
  BY <1>5
<1> QED
  BY <1>6

\* More rows hold no less.
LEMMA LiveMono ==
  ASSUME TypeOK, NEW E, NEW F, E \subseteq F
  PROVE  LiveOn(E) <= LiveOn(F)
<1>1. /\ Held(E) \in [Requests -> Nat] /\ Held(F) \in [Requests -> Nat]
      /\ IsFiniteSet(Requests) /\ \A r \in Requests : hold[r] \in Nat
  BY SumsTyped, QuotaAssumption DEF TypeOK
<1>2. \A r \in Requests : Held(E)[r] <= Held(F)[r]
  BY <1>1 DEF Held
<1> QED
  BY <1>1, <1>2, SumMono DEF LiveOn

\* A step that leaves holds, reservations and charges alone.
LEMMA QuietKeeps ==
  ASSUME TypeOK, TypeOK', QuotaInv, UNCHANGED <<reserved, settled, dropped, loose, unchecked>>,
         \A E : LiveOn(E)' <= LiveOn(E)
  PROVE  QuotaInv'
<1>1. ASSUME NEW e \in Ends PROVE LiveOn({e})' <= reserved'[e] + loose'
  <2>1. LiveOn({e}) <= reserved[e] + loose /\ LiveOn({e})' <= LiveOn({e})
    BY DEF QuotaInv, Backed
  <2>2. LiveOn({e}) \in Nat /\ LiveOn({e})' \in Nat /\ reserved[e] + loose \in Nat
    BY SumsTyped, LiveTypedNext DEF TypeOK
  <2> PICK x \in Nat, y \in Nat, z \in Nat :
           x = LiveOn({e}) /\ y = LiveOn({e})' /\ z = reserved[e] + loose
    BY <2>2
  <2>3. y <= z
    BY <2>1
  <2> QED
    BY <2>3
<1>2. QuotaKept'
  <2>1. /\ settled + LiveTokens <= Limit + dropped + loose + unchecked
        /\ LiveTokens' <= LiveTokens
    BY DEF QuotaInv, QuotaKept, LiveTokens
  <2>2. LiveTokens \in Nat /\ LiveTokens' \in Nat
    BY SumsTyped, LiveTypedNext DEF LiveTokens
  <2> PICK x \in Nat, y \in Nat, p \in Nat, z \in Nat :
           /\ x = LiveTokens /\ y = LiveTokens' /\ p = settled
           /\ z = Limit + dropped + loose + unchecked
    BY <2>2, QuotaAssumption DEF TypeOK
  <2>3. p + y <= z
    BY <2>1
  <2> QED
    BY <2>3 DEF QuotaKept
<1> QED
  BY <1>1, <1>2 DEF QuotaInv, Backed

\* A reservation is admitted by the row it is made in.  If that row shows every
\* token, the limit bounds everything used and held; if it does not, the tokens
\* count as unchecked.
LEMMA ReserveKeeps ==
  ASSUME TypeOK, TypeOK', UsageConserved, QuotaInv,
         NEW r \in Requests, NEW n \in 1..MaxTokens, ReserveQuotaTokens(r, n)
  PROVE  QuotaInv'
<1>1. /\ end[r] \in Ends /\ current \in Ends /\ n \in Nat
      /\ \A e \in Ends : reserved[e] \in Nat /\ used[e] \in Nat
      /\ settled \in Nat /\ dropped \in Nat /\ loose \in Nat /\ unchecked \in Nat
      /\ Limit \in Nat
  BY QuotaAssumption DEF TypeOK
<1>2. /\ pc[r] = "looked" /\ pc' = [pc EXCEPT ![r] = "reserved"]
      /\ hold' = [hold EXCEPT ![r] = n] /\ end' = end
      /\ reserved' = [reserved EXCEPT ![end[r]] = @ + n]
      /\ UNCHANGED <<settled, dropped, loose>>
      /\ unchecked' = IF Whole /\ end[r] = current THEN unchecked ELSE unchecked + n
      /\ used[end[r]] + reserved[end[r]] + n <= Limit
  BY DEF ReserveQuotaTokens, Goto, ReserveFits, races
<1>3. \A E : LiveOn(E)' = LiveOn(E) + (IF end[r] \in E THEN n ELSE 0)
  <2> SUFFICES ASSUME NEW E PROVE LiveOn(E)' = LiveOn(E) + (IF end[r] \in E THEN n ELSE 0)
    OBVIOUS
  <2>1. LiveOn(E)' = LiveOn(E) - Held(E)[r] + Held(E)'[r]
    BY <1>2, HeldStep DEF TypeOK
  <2>2. Held(E)[r] = 0 /\ Held(E)'[r] = IF end[r] \in E THEN n ELSE 0
    BY <1>2 DEF Held, Holding, TypeOK
  <2>3. LiveOn(E) \in Nat
    BY SumsTyped
  <2> QED
    BY <1>1, <2>1, <2>2, <2>3
<1>4. Backed'
  <2> SUFFICES ASSUME NEW e \in Ends PROVE LiveOn({e})' <= reserved'[e] + loose'
    BY DEF Backed
  <2>1. LiveOn({e}) \in Nat /\ LiveOn({e}) <= reserved[e] + loose
    BY SumsTyped DEF QuotaInv, Backed
  <2> PICK x \in Nat, y \in Nat, l \in Nat : x = LiveOn({e}) /\ y = reserved[e] /\ l = loose
    BY <1>1, <2>1
  <2>2. x <= y + l /\ x + n <= y + n + l
    BY <1>1, <2>1
  <2>3. CASE e = end[r]
    <3>1. LiveOn({e})' = x + n /\ reserved'[e] = y + n /\ loose' = l
      BY <1>2, <1>3, <2>3 DEF TypeOK
    <3> QED
      BY <2>2, <3>1
  <2>4. CASE e # end[r]
    <3>1. LiveOn({e})' = x /\ reserved'[e] = y /\ loose' = l
      BY <1>2, <1>3, <2>4 DEF TypeOK
    <3> QED
      BY <2>2, <3>1
  <2> QED
    BY <2>3, <2>4
<1>5. LiveTokens' = LiveTokens + n /\ LiveTokens \in Nat
  BY <1>1, <1>3, SumsTyped DEF LiveTokens
<1> PICK L \in Nat, p \in Nat, d \in Nat, l \in Nat, c \in Nat, m \in Nat :
         /\ L = LiveTokens /\ p = settled /\ d = dropped /\ l = loose
         /\ c = unchecked /\ m = Limit
  BY <1>1, <1>5
<1>6. p + L <= m + d + l + c
  BY DEF QuotaInv, QuotaKept
<1>7. CASE ~(Whole /\ end[r] = current)
  <2>1. p + (L + n) <= m + d + l + (c + n)
    BY <1>1, <1>6
  <2>2. unchecked' = c + n
    BY <1>2, <1>7
  <2> QED
    BY <1>2, <1>4, <1>5, <2>1, <2>2 DEF QuotaInv, QuotaKept
<1>8. CASE Whole /\ end[r] = current
  <2>1. [used EXCEPT ![current] = 0] = [e \in Ends |-> 0]
    BY <1>1, <1>8 DEF Whole, TypeOK
  <2>2. OthersSum(current) = 0
    BY <2>1, SumZero DEF OthersSum
  <2>3. Sum(used) = used[current] + OthersSum(current)
    BY <1>1, SumSplit
  <2>4. Held(Ends) = Held({current})
    BY <1>1, <1>8 DEF Held, Whole
  <2>5. L = LiveOn({current}) /\ LiveOn({current}) <= reserved[current] + loose
    BY <1>1, <2>4 DEF LiveTokens, LiveOn, QuotaInv, Backed
  <2> PICK u \in Nat, y \in Nat : u = used[current] /\ y = reserved[current]
    BY <1>1
  <2>6. p <= u + d
    BY <1>1, <2>2, <2>3 DEF UsageConserved
  <2>7. L <= y + l /\ u + y + n <= m
    BY <1>2, <1>8, <2>5
  <2>8. p + (L + n) <= m + d + l + c
    BY <1>1, <2>6, <2>7
  <2>9. unchecked' = c
    BY <1>2, <1>8
  <2> QED
    BY <1>2, <1>4, <1>5, <2>8, <2>9 DEF QuotaInv, QuotaKept
<1> QED
  BY <1>7, <1>8

\* A finalize moves at most the hold from the held to the used tokens; what goes
\* beyond it is unchecked.
LEMMA FinalizeKeeps ==
  ASSUME TypeOK, TypeOK', QuotaInv, NEW r \in Requests, NEW n \in 0..MaxTokens,
         FinalizeQuotaTokens(r, n), pc[r] \in Holding, pc'[r] \notin Holding,
         \A q \in Requests \ {r} : pc'[q] = pc[q],
         UNCHANGED <<end, hold, loose>>, unchecked' = unchecked + Overrun(r, n)
  PROVE  QuotaInv'
<1>1. /\ end[r] \in Ends /\ n \in Nat /\ hold[r] \in Nat
      /\ \A e \in Ends : reserved[e] \in Nat
      /\ settled \in Nat /\ dropped \in Nat /\ loose \in Nat /\ unchecked \in Nat
      /\ Limit \in Nat
  BY QuotaAssumption DEF TypeOK
<1>2. /\ reserved' = [reserved EXCEPT ![end[r]] = Monus(@, hold[r])]
      /\ settled' = settled + n /\ dropped' = dropped
  BY DEF FinalizeQuotaTokens, Settle
<1> PICK h \in Nat, l \in Nat : h = hold[r] /\ l = loose
  BY <1>1
<1>3. \A E : /\ LiveOn(E) \in Nat
             /\ LiveOn(E)' = LiveOn(E) - (IF end[r] \in E THEN h ELSE 0)
             /\ end[r] \in E => h <= LiveOn(E)
  <2> SUFFICES ASSUME NEW E
               PROVE  /\ LiveOn(E) \in Nat
                      /\ LiveOn(E)' = LiveOn(E) - (IF end[r] \in E THEN h ELSE 0)
                      /\ end[r] \in E => h <= LiveOn(E)
    OBVIOUS
  <2>1. LiveOn(E)' = LiveOn(E) - Held(E)[r] + Held(E)'[r]
    BY HeldStep
  <2>2. Held(E)'[r] = 0 /\ Held(E)[r] = IF end[r] \in E THEN h ELSE 0
    BY DEF Held
  <2>3. LiveOn(E) \in Nat /\ Held(E)[r] <= LiveOn(E)
    BY SumsTyped, HeldBelow
  <2> QED
    BY <2>1, <2>2, <2>3
<1>4. Backed'
  <2> SUFFICES ASSUME NEW e \in Ends PROVE LiveOn({e})' <= reserved'[e] + loose'
    BY DEF Backed
  <2>1. LiveOn({e}) <= reserved[e] + loose
    BY DEF QuotaInv, Backed
  <2> PICK x \in Nat, y \in Nat : x = LiveOn({e}) /\ y = reserved[e]
    BY <1>1, <1>3
  <2>2. CASE e = end[r]
    <3>1. LiveOn({e})' = x - h /\ reserved'[e] = Monus(y, h) /\ loose' = l /\ h <= x
      BY <1>2, <1>3, <2>2 DEF TypeOK
    <3>2. x - h <= Monus(y, h) + l
      BY <2>1, <3>1 DEF Monus
    <3> QED
      BY <3>1, <3>2
  <2>3. CASE e # end[r]
    <3>1. LiveOn({e})' = x /\ reserved'[e] = y /\ loose' = l
      BY <1>2, <1>3, <2>3 DEF TypeOK
    <3> QED
      BY <2>1, <3>1
  <2> QED
    BY <2>2, <2>3
<1>5. LiveTokens' = LiveTokens - h /\ LiveTokens \in Nat
  BY <1>1, <1>3 DEF LiveTokens
<1> PICK L \in Nat, p \in Nat, d \in Nat, c \in Nat, m \in Nat, o \in Nat :
         /\ L = LiveTokens /\ p = settled /\ d = dropped
         /\ c = unchecked /\ m = Limit /\ o = Overrun(r, n)
  BY <1>1, <1>5 DEF Overrun
<1>6. n - h <= o
  BY <1>1 DEF Overrun
<1>7. p + L <= m + d + l + c
  BY DEF QuotaInv, QuotaKept
<1>8. p + n + (L - h) <= m + d + l + (c + o)
  BY <1>1, <1>6, <1>7
<1> QED
  BY <1>2, <1>4, <1>5, <1>8 DEF QuotaInv, QuotaKept

\* The deferred finalize gives back once more what the request no longer holds.
LEMMA RepeatKeeps ==
  ASSUME TypeOK, TypeOK', QuotaInv, NEW r \in Requests, GiveBack(r), pc[r] = "deferred"
  PROVE  QuotaInv'
<1>1. /\ end[r] \in Ends /\ hold[r] \in Nat /\ \A e \in Ends : reserved[e] \in Nat
      /\ settled \in Nat /\ dropped \in Nat /\ loose \in Nat /\ unchecked \in Nat
      /\ Limit \in Nat
  BY QuotaAssumption DEF TypeOK
<1>2. /\ reserved' = [reserved EXCEPT ![end[r]] = Monus(@, hold[r])]
      /\ settled' = settled + 0 /\ UNCHANGED <<dropped, unchecked, end, hold>>
      /\ loose' = loose + hold[r] /\ pc' = [pc EXCEPT ![r] = "done"]
  BY DEF GiveBack, FinalizeQuotaTokens, Settle, Goto
<1> PICK h \in Nat, l \in Nat : h = hold[r] /\ l = loose
  BY <1>1
<1>3. \A E : LiveOn(E)' = LiveOn(E) /\ LiveOn(E) \in Nat
  <2> SUFFICES ASSUME NEW E PROVE LiveOn(E)' = LiveOn(E) /\ LiveOn(E) \in Nat
    OBVIOUS
  <2>1. Held(E)' = Held(E)
    BY <1>2 DEF Held, Holding, TypeOK
  <2> QED
    BY <2>1, SumsTyped DEF LiveOn
<1>4. Backed'
  <2> SUFFICES ASSUME NEW e \in Ends PROVE LiveOn({e})' <= reserved'[e] + loose'
    BY DEF Backed
  <2>1. LiveOn({e}) <= reserved[e] + loose
    BY DEF QuotaInv, Backed
  <2> PICK x \in Nat, y \in Nat : x = LiveOn({e}) /\ y = reserved[e]
    BY <1>1, <1>3
  <2>2. LiveOn({e})' = x /\ loose' = l + h
    BY <1>2, <1>3
  <2>3. reserved'[e] = IF e = end[r] THEN Monus(y, h) ELSE y
    BY <1>2 DEF TypeOK
  <2>4. x <= Monus(y, h) + (l + h) /\ x <= y + (l + h)
    BY <2>1 DEF Monus
  <2> QED
    BY <2>2, <2>3, <2>4
<1>5. LiveTokens' = LiveTokens /\ LiveTokens \in Nat
  BY <1>3 DEF LiveTokens
<1> PICK L \in Nat, p \in Nat, d \in Nat, c \in Nat, m \in Nat :
         /\ L = LiveTokens /\ p = settled /\ d = dropped /\ c = unchecked /\ m = Limit
  BY <1>1, <1>5
<1>6. p + L <= m + d + l + c
  BY DEF QuotaInv, QuotaKept
<1>7. p + 0 + L <= m + d + (l + h) + c
  BY <1>6
<1> QED
  BY <1>2, <1>4, <1>5, <1>7 DEF QuotaInv, QuotaKept

\* A step that takes reservations away from rows, charges what live requests
\* held there.  A commit may drop late tokens too.
LEMMA TakenKeeps ==
  ASSUME TypeOK, TypeOK', QuotaInv, NEW E \in SUBSET Ends, NEW k \in Nat,
         UNCHANGED <<pc, end, hold, settled, unchecked>>,
         dropped' = dropped + k, loose' = loose + LiveOn(E),
         \A e \in Ends \ E : reserved'[e] = reserved[e]
  PROVE  QuotaInv'
<1>1. /\ \A e \in Ends : reserved[e] \in Nat /\ reserved'[e] \in Nat
      /\ settled \in Nat /\ dropped \in Nat /\ loose \in Nat /\ unchecked \in Nat
      /\ Limit \in Nat /\ LiveOn(E) \in Nat
  BY QuotaAssumption, SumsTyped DEF TypeOK
<1>2. \A F : LiveOn(F)' = LiveOn(F) /\ LiveOn(F) \in Nat
  <2> SUFFICES ASSUME NEW F PROVE LiveOn(F)' = LiveOn(F) /\ LiveOn(F) \in Nat
    OBVIOUS
  <2>1. Held(F)' = Held(F)
    BY DEF Held
  <2> QED
    BY <2>1, SumsTyped DEF LiveOn
<1> PICK l \in Nat, g \in Nat : l = loose /\ g = LiveOn(E)
  BY <1>1
<1>3. Backed'
  <2> SUFFICES ASSUME NEW e \in Ends PROVE LiveOn({e})' <= reserved'[e] + loose'
    BY DEF Backed
  <2>1. LiveOn({e}) <= reserved[e] + loose
    BY DEF QuotaInv, Backed
  <2> PICK x \in Nat, y \in Nat, z \in Nat : x = LiveOn({e}) /\ y = reserved[e] /\ z = reserved'[e]
    BY <1>1, <1>2
  <2>2. LiveOn({e})' = x /\ loose' = l + g
    BY <1>2
  <2>3. CASE e \in E
    <3>1. x <= g
      BY <2>3, LiveMono
    <3>2. x <= z + (l + g)
      BY <3>1
    <3> QED
      BY <2>2, <3>2
  <2>4. CASE e \notin E
    <3>1. z = y
      BY <2>4
    <3>2. x <= y + (l + g)
      BY <2>1
    <3> QED
      BY <2>2, <3>1, <3>2
  <2> QED
    BY <2>3, <2>4
<1>4. LiveTokens' = LiveTokens /\ LiveTokens \in Nat
  BY <1>2 DEF LiveTokens
<1> PICK L \in Nat, p \in Nat, d \in Nat, c \in Nat, m \in Nat :
         /\ L = LiveTokens /\ p = settled /\ d = dropped /\ c = unchecked /\ m = Limit
  BY <1>1, <1>4
<1>5. p + L <= m + d + l + c
  BY DEF QuotaInv, QuotaKept
<1>6. p + L <= m + (d + k) + (l + g) + c
  BY <1>5
<1> QED
  BY <1>3, <1>4, <1>6 DEF QuotaInv, QuotaKept

\* Every step of a handler keeps the bound.
LEMMA HandlerKeeps ==
  ASSUME TypeOK, TypeOK', UsageConserved, QuotaInv, NEW r \in Requests, Handler(r)
  PROVE  QuotaInv'
<1> USE DEF Goto, table, entity, syncing, local, races, history
<1>1. CASE \E n \in 1..MaxTokens : ReserveQuotaTokens(r, n)
  BY <1>1, ReserveKeeps
<1>2. ASSUME NEW n \in 1..MaxTokens, IncrementQuotaCounter(r, n)
      PROVE  QuotaInv'
  <2>1. /\ pc[r] = "looked" /\ pc' = [pc EXCEPT ![r] = "done"]
        /\ UNCHANGED <<reserved, end, hold, loose, dropped>>
        /\ settled' = settled + n /\ unchecked' = unchecked + n
    BY <1>2 DEF IncrementQuotaCounter, Settle
  <2>2. \A E : Held(E)' = Held(E)
    BY <2>1 DEF Held, Holding, TypeOK
  <2>3. \A E : LiveOn(E)' = LiveOn(E)
    BY <2>2 DEF LiveOn
  <2>4. Backed'
    BY <2>1, <2>3 DEF Backed, QuotaInv
  <2>5. LiveTokens' = LiveTokens /\ LiveTokens \in Nat /\ n \in Nat
    BY <2>3, SumsTyped, QuotaAssumption DEF LiveTokens
  <2> PICK L \in Nat, p \in Nat, b \in Nat, c \in Nat :
           /\ L = LiveTokens /\ p = settled /\ c = unchecked /\ b = Limit + dropped + loose
    BY <2>5, QuotaAssumption DEF TypeOK
  <2>6. p + L <= b + c
    BY DEF QuotaInv, QuotaKept
  <2>7. p + n + L <= b + (c + n)
    BY <2>5, <2>6
  <2> QED
    BY <2>1, <2>4, <2>5, <2>7 DEF QuotaInv, QuotaKept
<1>3. ASSUME NEW n \in 0..MaxTokens, Finalize(r, n) \/ FinalizeCreditFailed(r, n)
      PROVE  QuotaInv'
  <2>1. /\ FinalizeQuotaTokens(r, n) /\ pc[r] \in Holding /\ pc'[r] \notin Holding
        /\ \A q \in Requests \ {r} : pc'[q] = pc[q]
        /\ UNCHANGED <<end, hold, loose>> /\ unchecked' = unchecked + Overrun(r, n)
    BY <1>3 DEF Finalize, FinalizeCreditFailed, Holding, TypeOK
  <2> QED
    BY <2>1, FinalizeKeeps
<1>4. CASE GiveBack(r)
  <2>1. CASE pc[r] = "deferred"
    BY <1>4, <2>1, RepeatKeeps
  <2>2. CASE pc[r] # "deferred"
    <3>1. /\ FinalizeQuotaTokens(r, 0) /\ pc[r] \in Holding /\ pc'[r] \notin Holding
          /\ \A q \in Requests \ {r} : pc'[q] = pc[q]
          /\ UNCHANGED <<end, hold, loose, unchecked>>
      BY <1>4, <2>2 DEF GiveBack, Holding, TypeOK
    <3>2. Overrun(r, 0) = 0 /\ 0 \in 0..MaxTokens /\ unchecked \in Nat
      BY QuotaAssumption DEF Overrun, TypeOK
    <3>3. unchecked' = unchecked + Overrun(r, 0)
      BY <3>1, <3>2
    <3> QED
      BY <3>1, <3>2, <3>3, FinalizeKeeps
  <2> QED
    BY <2>1, <2>2
<1>5. CASE \/ CacheHit(r) \/ CacheMiss(r) \/ CacheFill(r)
           \/ ReserveRejected(r) \/ Abandon(r) \/ FinalizeDeferred(r) \/ FinalizeFailed(r)
  <2>1. /\ UNCHANGED <<reserved, settled, dropped, loose, unchecked, hold>>
        /\ \A q \in Requests \ {r} : pc'[q] = pc[q] /\ end'[q] = end[q]
        /\ pc'[r] \in Holding => pc[r] \in Holding /\ end'[r] = end[r]
    BY <1>5 DEF CacheHit, CacheMiss, GetByUser, CacheFill, ReserveRejected, Abandon,
       FinalizeDeferred, FinalizeFailed, Holding, TypeOK
  <2>2. ASSUME NEW E PROVE LiveOn(E)' <= LiveOn(E)
    <3>1. LiveOn(E)' = LiveOn(E) - Held(E)[r] + Held(E)'[r]
      BY <2>1, HeldStep
    <3>2. Held(E)[r] \in Nat /\ LiveOn(E) \in Nat /\ hold[r] \in Nat
      BY SumsTyped, HeldBelow, QuotaAssumption DEF TypeOK
    <3>3. Held(E)'[r] = Held(E)[r] \/ Held(E)'[r] = 0
      BY <2>1 DEF Held
    <3> PICK x \in Nat, y \in Nat : x = LiveOn(E) /\ y = Held(E)[r]
      BY <3>2
    <3>4. x - y + y <= x /\ x - y + 0 <= x
      OBVIOUS
    <3> QED
      BY <3>1, <3>3, <3>4
  <2> QED
    BY <2>1, <2>2, QuietKeeps
<1> QED
  BY <1>1, <1>2, <1>3, <1>4, <1>5 DEF Handler

\* So does every other step.
LEMMA OthersKeep ==
  ASSUME TypeOK, TypeOK', QuotaInv,
         \/ \E s \in Syncs : SyncCustomerEntitlements(s)
         \/ CacheExpires \/ Crash \/ (\E e \in Ends : Sweep(e)) \/ UNCHANGED vars
  PROVE  QuotaInv'
<1> USE DEF table, entity, syncing, local, races, history
<1>1. ASSUME UNCHANGED <<reserved, settled, dropped, loose, unchecked, pc, end, hold>>
      PROVE  QuotaInv'
  <2>1. \A E : LiveOn(E)' = LiveOn(E) /\ LiveOn(E) \in Nat
    BY <1>1, SumsTyped DEF LiveOn, Held
  <2>2. \A E : LiveOn(E)' <= LiveOn(E)
    BY <2>1
  <2> QED
    BY <1>1, <2>2, QuietKeeps
<1>2. ASSUME NEW s \in Syncs, MigrateCommit(s)
      PROVE  QuotaInv'
  <2>1. /\ UNCHANGED <<pc, end, hold, settled, unchecked>> /\ target[s] \in Ends
        /\ dropped' = dropped + late[s] /\ late[s] \in Nat
        /\ loose' = loose + LiveOn(Ends \ {target[s]})
        /\ \A e \in Ends \ (Ends \ {target[s]}) : reserved'[e] = reserved[e]
    BY <1>2 DEF MigrateCommit, TypeOK
  <2> QED
    BY <2>1, TakenKeeps
<1>3. ASSUME NEW s \in Syncs,
             \/ \E e \in Ends : Upsert(s, e)
             \/ CacheDel(s) \/ CacheDelFailed(s) \/ MigrateRead(s) \/ MigrateFold(s)
             \/ MigrateFailed(s) \/ MigrateDeadlock(s)
      PROVE  QuotaInv'
  BY <1>1, <1>3 DEF Upsert, CacheDel, CacheDelFailed, MigrateRead, MigrateFold,
     MigrateFailed, MigrateDeadlock, MigrateAborts
<1>4. ASSUME NEW e \in Ends, Sweep(e)
      PROVE  QuotaInv'
  <2>1. /\ UNCHANGED <<pc, end, hold, settled, unchecked>>
        /\ dropped' = dropped + 0 /\ loose' = loose + LiveOn({e})
        /\ \A f \in Ends \ {e} : reserved'[f] = reserved[f]
    BY <1>4 DEF Sweep, TypeOK
  <2>2. {e} \in SUBSET Ends /\ 0 \in Nat
    OBVIOUS
  <2> QED
    BY <2>1, <2>2, TakenKeeps
<1>5. CASE Crash
  <2>1. /\ UNCHANGED <<reserved, settled, dropped, loose, unchecked, hold, end>>
        /\ \A r \in Requests : pc'[r] \notin Holding
    BY <1>5 DEF Crash, Active, Holding, TypeOK
  <2>2. ASSUME NEW E PROVE LiveOn(E)' <= LiveOn(E)
    <3>1. Held(E)' = [r \in Requests |-> 0]
      BY <2>1 DEF Held
    <3>2. Sum([r \in Requests |-> 0]) = 0 /\ LiveOn(E) \in Nat
      BY SumZero, SumsTyped
    <3> QED
      BY <3>1, <3>2 DEF LiveOn
  <2> QED
    BY <2>1, <2>2, QuietKeeps
<1>6. CASE CacheExpires \/ UNCHANGED vars
  BY <1>1, <1>6 DEF CacheExpires, vars
<1> QED
  BY <1>2, <1>3, <1>4, <1>5, <1>6 DEF SyncCustomerEntitlements

\* For every limit, any number of overlapping requests, sweeps and syncs, what is
\* used and held is within the monthly limit, up to what a migration dropped,
\* live requests held in reservations taken from them, and tokens no check of
\* the whole usage had admitted.
THEOREM QuotaAlwaysKept == Spec => []QuotaKept
<1>1. Init => QuotaInv
  <2> SUFFICES ASSUME Init PROVE QuotaInv
    OBVIOUS
  <2>1. \A E : Held(E) = [r \in Requests |-> 0]
    BY DEF Init, Held, Holding
  <2>2. Sum([r \in Requests |-> 0]) = 0
    BY SumZero
  <2>3. \A E : LiveOn(E) = 0
    BY <2>1, <2>2 DEF LiveOn
  <2>4. Limit \in Nat /\ settled = 0 /\ dropped = 0 /\ loose = 0 /\ unchecked = 0
        /\ \A e \in Ends : reserved[e] = 0
    BY QuotaAssumption DEF Init
  <2> QED
    BY <2>3, <2>4 DEF QuotaInv, Backed, QuotaKept, LiveTokens
<1>2. TypeOK /\ TypeOK' /\ UsageConserved /\ QuotaInv /\ [Next]_vars => QuotaInv'
  BY HandlerKeeps, OthersKeep DEF Next
<1>3. QuotaInv => QuotaKept
  BY DEF QuotaInv
<1> QED
  BY <1>1, <1>2, <1>3, TypeCorrect, UsageAlwaysConserved, PTL DEF Spec

=============================================================================
