------------------------ MODULE UsageRollup_proofs -------------------------
(***************************************************************************)
(* Proofs about UsageRollup, for any set of dimension tuples and jobs, any *)
(* retentions, any number of days, requests, calls and failures.           *)
(*                                                                         *)
(* The inductive invariant says that a day is raw as a whole or pruned as  *)
(* a whole, with exact cells (DaysInv); that the pruned days come first    *)
(* (FloorInv); what an open transaction has read and deleted (JobsInv);    *)
(* and that two of them share no cell of a day (LockInv).                  *)
(***************************************************************************)
EXTENDS UsageRollup, FiniteSetTheorems, TLAPS

-----------------------------------------------------------------------------
(* What SumOf counts                                                       *)

\* Points(f) has one element per unit of f.
Points(f) == UNION {{x} \X (1..f[x]) : x \in DOMAIN f}

\* The points of a function are the pairs below its graph.
LEMMA PointsAreBelow ==
  ASSUME NEW S, NEW f \in [S -> Nat]
  PROVE  /\ \A p \in Points(f) : p[1] \in S /\ p[2] \in 1..f[p[1]] /\ p = <<p[1], p[2]>>
         /\ \A x \in S, i \in Nat : i \in 1..f[x] => <<x, i>> \in Points(f)
<1>1. ASSUME NEW p \in Points(f)
      PROVE  p[1] \in S /\ p[2] \in 1..f[p[1]] /\ p = <<p[1], p[2]>>
  <2>1. PICK x \in S : p \in {x} \X (1..f[x])
    BY <1>1 DEF Points
  <2> QED
    BY <2>1
<1>2. ASSUME NEW x \in S, NEW i \in Nat, i \in 1..f[x]
      PROVE  <<x, i>> \in Points(f)
  <2>1. <<x, i>> \in {x} \X (1..f[x]) /\ x \in DOMAIN f
    BY <1>2
  <2> QED
    BY <2>1 DEF Points
<1> QED
  BY <1>1, <1>2

\* A function with a finite domain has finitely many points.
LEMMA PointsFinite ==
  ASSUME NEW S, IsFiniteSet(S), NEW f \in [S -> Nat]
  PROVE  IsFiniteSet(Points(f))
<1> DEFINE Column(e) == {e} \X (1..f[e])
<1>1. IsFiniteSet({Column(e) : e \in S})
  <2> DEFINE col == [e \in S |-> Column(e)]
  <2>1. col \in Surjection(S, {Column(e) : e \in S})
    BY DEF Surjection
  <2> HIDE DEF col
  <2> QED
    BY <2>1, FS_Surjection, Zenon
<1>2. ASSUME NEW e \in S
      PROVE  IsFiniteSet(Column(e))
  <2>1. f[e] \in Int /\ 1 \in Int
    OBVIOUS
  <2>2. IsFiniteSet(1..f[e]) /\ IsFiniteSet({e})
    BY <2>1, FS_Interval, FS_Singleton
  <2> QED
    BY <2>2, FS_Product
<1>3. IsFiniteSet(UNION {Column(e) : e \in S})
  BY <1>1, <1>2, FS_UNION
<1> QED
  BY <1>3 DEF Points

\* Sums of cardinalities: when f[x] is the size of A[x] and the sets A[x] are
\* disjoint parts of a finite set U that cover it, the values of f add up to the
\* size of U.
LEMMA SumOfParts ==
  ASSUME NEW C, NEW U, IsFiniteSet(U), NEW A \in [C -> SUBSET U], NEW f \in [C -> Nat],
         \A x \in C : f[x] = Cardinality(A[x]),
         \A x, y \in C : x # y => A[x] \cap A[y] = {},
         \A u \in U : \E x \in C : u \in A[x]
  PROVE  SumOf(f) = Cardinality(U)
<1> DEFINE h == [x \in C |-> CHOOSE b : b \in Bijection(1..f[x], A[x])]
           P == Points(f)
           big == [p \in P |-> h[p[1]][p[2]]]
<1>1. ASSUME NEW x \in C
      PROVE  h[x] \in Bijection(1..f[x], A[x])
  <2>1. IsFiniteSet(A[x])
    BY FS_Subset
  <2>2. ExistsBijection(1..Cardinality(A[x]), A[x])
    BY <2>1, FS_CardinalityType
  <2>3. \E b : b \in Bijection(1..f[x], A[x])
    BY <2>2 DEF ExistsBijection
  <2> QED
    BY <2>3
<1>2. ASSUME NEW x \in C
      PROVE  /\ h[x] \in [1..f[x] -> A[x]]
             /\ \A i, k \in 1..f[x] : h[x][i] = h[x][k] => i = k
             /\ \A u \in A[x] : \E i \in 1..f[x] : h[x][i] = u
  <2> HIDE DEF h
  <2>1. h[x] \in Injection(1..f[x], A[x]) /\ h[x] \in Surjection(1..f[x], A[x])
    BY <1>1, Zenon DEF Bijection
  <2>2. h[x] \in [1..f[x] -> A[x]] /\ IsInjective(h[x])
    BY <2>1, Zenon DEF Injection
  <2>3. \A u \in A[x] : \E i \in 1..f[x] : h[x][i] = u
    BY <2>1, Zenon DEF Surjection
  <2>4. \A i, k \in 1..f[x] : h[x][i] = h[x][k] => i = k
    BY <2>2 DEF IsInjective
  <2> QED
    BY <2>2, <2>3, <2>4
<1>3. ASSUME NEW p \in P
      PROVE  p[1] \in C /\ p[2] \in 1..f[p[1]] /\ p = <<p[1], p[2]>>
  BY PointsAreBelow
<1>4. ASSUME NEW x \in C, NEW i \in 1..f[x]
      PROVE  <<x, i>> \in P
  BY PointsAreBelow
<1> HIDE DEF h, P
<1>5. big \in [P -> U]
  <2>1. ASSUME NEW p \in P
        PROVE  h[p[1]][p[2]] \in U
    <3>1. p[1] \in C /\ p[2] \in 1..f[p[1]]
      BY <1>3
    <3>2. h[p[1]][p[2]] \in A[p[1]]
      BY <3>1, <1>2
    <3> QED
      BY <3>1, <3>2
  <2> QED
    BY <2>1
<1>6. ASSUME NEW p \in P, NEW q \in P, big[p] = big[q]
      PROVE  p = q
  <2>1. /\ p[1] \in C /\ p[2] \in 1..f[p[1]] /\ p = <<p[1], p[2]>>
        /\ q[1] \in C /\ q[2] \in 1..f[q[1]] /\ q = <<q[1], q[2]>>
    BY <1>3
  <2>2. h[p[1]][p[2]] = h[q[1]][q[2]]
    <3>1. big[p] = h[p[1]][p[2]] /\ big[q] = h[q[1]][q[2]]
      OBVIOUS
    <3> QED
      BY <3>1, <1>6
  <2>3. h[p[1]][p[2]] \in A[p[1]] /\ h[q[1]][q[2]] \in A[q[1]]
    <3>1. h[p[1]][p[2]] \in A[p[1]]
      BY <2>1, <1>2
    <3>2. h[q[1]][q[2]] \in A[q[1]]
      BY <2>1, <1>2
    <3> QED
      BY <3>1, <3>2
  <2>4. p[1] = q[1]
    BY <2>1, <2>2, <2>3
  <2>5. p[2] = q[2]
    BY <2>1, <2>2, <2>4, <1>2
  <2> QED
    BY <2>1, <2>4, <2>5
<1>7. ASSUME NEW u \in U
      PROVE  \E p \in P : big[p] = u
  <2>1. PICK x \in C : u \in A[x]
    OBVIOUS
  <2>2. PICK i \in 1..f[x] : h[x][i] = u
    BY <2>1, <1>2
  <2>3. <<x, i>> \in P /\ big[<<x, i>>] = h[x][i]
    BY <1>4
  <2> QED
    BY <2>2, <2>3
<1>8. big \in Injection(P, U) /\ big \in Surjection(P, U)
  <2> HIDE DEF big
  <2> QED
    BY <1>5, <1>6, <1>7 DEF Injection, IsInjective, Surjection
<1>9. Cardinality(P) = Cardinality(U)
  <2> HIDE DEF big
  <2> QED
    BY <1>8, FS_Injection, Zenon
<1> QED
  BY <1>9 DEF P, Points, SumOf

-----------------------------------------------------------------------------
(* What Aggregate and AddUp measure                                        *)

Counted(S) == IsFiniteSet(S) /\ \A r \in S : r.tokens \in Nat

TokensOf(S) == [r \in S |-> r.tokens]

\* The points of a set of rows: one per token.
Tokens(S) == Points(TokensOf(S))

LEMMA TokensFinite ==
  ASSUME NEW S, Counted(S)
  PROVE  /\ IsFiniteSet(Tokens(S)) /\ Cardinality(Tokens(S)) \in Nat
         /\ Aggregate(S).tokens = Cardinality(Tokens(S))
         /\ \A p \in Tokens(S) : p[1] \in S /\ p[2] \in 1..p[1].tokens /\ p = <<p[1], p[2]>>
         /\ \A r \in S, i \in Nat : i \in 1..r.tokens => <<r, i>> \in Tokens(S)
<1>1. TokensOf(S) \in [S -> Nat] /\ \A r \in S : TokensOf(S)[r] = r.tokens
  BY DEF Counted, TokensOf
<1>2. IsFiniteSet(Tokens(S)) /\ Cardinality(Tokens(S)) \in Nat
  BY <1>1, PointsFinite, FS_CardinalityType DEF Counted, Tokens
<1>3. Aggregate(S).tokens = Cardinality(Tokens(S))
  BY DEF Aggregate, SumOf, Tokens, TokensOf, Points
<1>4. /\ \A p \in Tokens(S) : p[1] \in S /\ p[2] \in 1..TokensOf(S)[p[1]] /\ p = <<p[1], p[2]>>
      /\ \A r \in S, i \in Nat : i \in 1..TokensOf(S)[r] => <<r, i>> \in Tokens(S)
  BY <1>1, PointsAreBelow DEF Tokens
<1> QED
  BY <1>1, <1>2, <1>3, <1>4

\* A measure is a pair of naturals, and zero only of no rows.
LEMMA AggregateType ==
  ASSUME NEW S, Counted(S)
  PROVE  /\ Aggregate(S) \in Measures
         /\ Aggregate(S).requests = Cardinality(S)
         /\ Aggregate(S) = Zero <=> S = {}
<1>1. Cardinality(S) \in Nat /\ (Cardinality(S) = 0 <=> S = {})
  BY FS_CardinalityType, FS_EmptySet DEF Counted
<1>2. Aggregate(S).tokens \in Nat /\ Aggregate(S).tokens = Cardinality(Tokens(S))
  BY TokensFinite
<1>3. Aggregate(S) = [requests |-> Cardinality(S), tokens |-> Aggregate(S).tokens]
  BY DEF Aggregate
<1>4. S = {} => Aggregate(S).tokens = 0
  <2>1. ASSUME S = {} PROVE Tokens(S) = {}
    BY <2>1, TokensFinite
  <2> QED
    BY <2>1, <1>2, FS_EmptySet
<1> HIDE DEF Aggregate
<1> QED
  BY <1>1, <1>2, <1>3, <1>4 DEF Measures, Zero

\* Measures of disjoint sets of rows add up.
LEMMA AggregateUnion ==
  ASSUME NEW S, NEW T, Counted(S), Counted(T), S \cap T = {}
  PROVE  Counted(S \cup T) /\ Aggregate(S \cup T) = Plus(Aggregate(S), Aggregate(T))
<1>1. Counted(S \cup T)
  BY FS_Union DEF Counted
<1>2. Cardinality(S \cup T) = Cardinality(S) + Cardinality(T)
  <2>1. Cardinality(S \cup T) = Cardinality(S) + Cardinality(T) - Cardinality(S \cap T)
    BY FS_Union, Zenon DEF Counted
  <2>2. Cardinality(S) \in Nat /\ Cardinality(T) \in Nat
    BY FS_CardinalityType DEF Counted
  <2>3. Cardinality(S \cap T) = 0
    BY FS_EmptySet
  <2> QED
    BY <2>1, <2>2, <2>3
<1>3. Tokens(S \cup T) = Tokens(S) \cup Tokens(T)
  <2>1. ASSUME NEW p \in Tokens(S \cup T)
        PROVE  p \in Tokens(S) \/ p \in Tokens(T)
    <3>1. p[1] \in S \cup T /\ p[2] \in 1..p[1].tokens /\ p = <<p[1], p[2]>>
      BY <1>1, TokensFinite
    <3>2. p[2] \in Nat
      BY <3>1
    <3> QED
      BY <3>1, <3>2, TokensFinite
  <2>2. ASSUME NEW p, p \in Tokens(S) \/ p \in Tokens(T)
        PROVE  p \in Tokens(S \cup T)
    <3>1. p[1] \in S \cup T /\ p[2] \in 1..p[1].tokens /\ p = <<p[1], p[2]>>
      BY <2>2, TokensFinite
    <3>2. p[2] \in Nat
      BY <3>1
    <3> QED
      BY <1>1, <3>1, <3>2, TokensFinite
  <2> QED
    BY <2>1, <2>2
<1>4. Tokens(S) \cap Tokens(T) = {}
  BY TokensFinite
<1>5. Cardinality(Tokens(S \cup T)) = Cardinality(Tokens(S)) + Cardinality(Tokens(T))
  <2>1. /\ IsFiniteSet(Tokens(S)) /\ IsFiniteSet(Tokens(T))
        /\ Cardinality(Tokens(S)) \in Nat /\ Cardinality(Tokens(T)) \in Nat
    BY TokensFinite
  <2>2. Cardinality(Tokens(S) \cup Tokens(T)) = Cardinality(Tokens(S))
          + Cardinality(Tokens(T)) - Cardinality(Tokens(S) \cap Tokens(T))
    BY <2>1, FS_Union, Zenon
  <2>3. Cardinality(Tokens(S) \cap Tokens(T)) = 0
    BY <1>4, FS_EmptySet
  <2>4. Cardinality(Tokens(S) \cup Tokens(T)) = Cardinality(Tokens(S)) + Cardinality(Tokens(T))
    BY <2>1, <2>2, <2>3
  <2> QED
    BY <1>3, <2>4, Zenon
<1>6. /\ Aggregate(S \cup T).tokens = Aggregate(S).tokens + Aggregate(T).tokens
      /\ Aggregate(S \cup T).requests = Aggregate(S).requests + Aggregate(T).requests
  BY <1>1, <1>2, <1>5, TokensFinite, AggregateType
<1>7. Aggregate(S \cup T)
        = [requests |-> Aggregate(S \cup T).requests, tokens |-> Aggregate(S \cup T).tokens]
  BY DEF Aggregate
<1> HIDE DEF Aggregate
<1> QED
  BY <1>1, <1>6, <1>7 DEF Plus

\* One more row is one more request and its tokens.
LEMMA AggregateAdd ==
  ASSUME NEW S, Counted(S), NEW r, r \notin S, r.tokens \in Nat
  PROVE  Aggregate(S \cup {r}) =
           [requests |-> Aggregate(S).requests + 1, tokens |-> Aggregate(S).tokens + r.tokens]
<1>1. Counted({r}) /\ Cardinality({r}) = 1
  BY FS_Singleton DEF Counted
<1>2. Tokens({r}) = {r} \X (1..r.tokens)
  <2>1. ASSUME NEW p \in Tokens({r})
        PROVE  p \in {r} \X (1..r.tokens)
    <3>1. p[1] \in {r} /\ p[2] \in 1..p[1].tokens /\ p = <<p[1], p[2]>>
      BY <1>1, TokensFinite
    <3> QED
      BY <3>1
  <2>2. ASSUME NEW i \in 1..r.tokens
        PROVE  <<r, i>> \in Tokens({r})
    BY <1>1, TokensFinite
  <2> QED
    BY <2>1, <2>2
<1>3. Cardinality(Tokens({r})) = r.tokens
  <2>1. IsFiniteSet(1..r.tokens) /\ Cardinality(1..r.tokens) = r.tokens
    <3>1. r.tokens \in Int /\ 1 \in Int
      OBVIOUS
    <3>2. /\ IsFiniteSet(1..r.tokens)
          /\ Cardinality(1..r.tokens) = IF 1 > r.tokens THEN 0 ELSE r.tokens - 1 + 1
      BY <3>1, FS_Interval
    <3> QED
      BY <3>2
  <2>2. IsFiniteSet({r}) /\ Cardinality({r}) = 1
    BY FS_Singleton
  <2>3. Cardinality({r} \X (1..r.tokens)) = Cardinality({r}) * Cardinality(1..r.tokens)
    BY <2>1, <2>2, FS_Product, Zenon
  <2>4. 1 * r.tokens = r.tokens
    OBVIOUS
  <2> QED
    BY <1>2, <2>1, <2>2, <2>3, <2>4
<1>4. Aggregate({r}).requests = 1 /\ Aggregate({r}).tokens = r.tokens
  BY <1>1, <1>3, TokensFinite, AggregateType
<1>5. Aggregate(S \cup {r}) = Plus(Aggregate(S), Aggregate({r}))
  BY <1>1, AggregateUnion
<1> HIDE DEF Aggregate
<1> QED
  BY <1>4, <1>5 DEF Plus

-----------------------------------------------------------------------------
(* The inductive invariant                                                 *)

\* What was served on a day, whether it is still raw, and its measure.
ServedOf(d) == {r \in served : DayOf(r) = d}
CellRows(d, g) == {r \in served : DayOf(r) = d /\ r.dims = g}
Total(d, g) == Aggregate(CellRows(d, g))
Kept(d) == ServedOf(d) \subseteq ledger

\* No retention in use keeps the day any more.
Closed(d) == \E n \in Retentions : Eligible(d, n)

\* Rows are numbered as they are served, and the ledger is a part of them.
RowsInv ==
  /\ IsFiniteSet(served) /\ Cardinality(served) <= MaxRows
  /\ served \subseteq Rows /\ ledger \subseteq served
  /\ \A r \in served : r.id <= Cardinality(served)

\* A day is raw as a whole or pruned as a whole; a pruned day has exact cells; a
\* cell that was written at all is exact; only closed days are touched.
DaysInv ==
  \A d \in Days :
    /\ RowsOf(d) # {} => Kept(d)
    /\ \A g \in Dims : \/ rollup[d][g] = Total(d, g)
                       \/ RowsOf(d) # {} /\ rollup[d][g] = Zero
    /\ ~Closed(d) => Kept(d) /\ \A g \in Dims : rollup[d][g] = Zero

\* No pruned day lies behind a raw one.
FloorInv == \A r \in ledger, d \in Days : DayOf(r) <= d => Kept(d)

JobTypes ==
  /\ today \in Days
  /\ pc \in [Jobs -> {"idle", "begin", "summed", "written", "pruned"}]
  /\ todo \in [Jobs -> SUBSET Days] /\ dry \in [Jobs -> BOOLEAN]
  /\ \A j \in Jobs : pc[j] = "idle" <=> todo[j] = {}
  /\ sums \in [Jobs -> [Dims -> Measures]] /\ gone \in [Jobs -> SUBSET served]
  /\ rollup \in [Days -> [Dims -> Measures]]
  /\ runs \in 0..MaxRuns /\ aborts \in 0..MaxAborts

\* A job does closed days only, and one that deletes has every older raw day
\* still before it.
TodoOK(j) ==
  /\ \A d \in todo[j] : Closed(d)
  /\ ~dry[j] => \A d \in todo[j], r \in ledger : DayOf(r) < d => DayOf(r) \in todo[j]

InTx(j) == pc[j] \in {"summed", "written", "pruned"}
Holds(j) == pc[j] \in {"written", "pruned"}

\* The sums of an open transaction are exact, but for a day that had been pruned
\* when it read them.
SumsOK(j) ==
  InTx(j) =>
    \A g \in Dims :
      \/ sums[j][g] = Total(DayAt(j), g)
      \/ sums[j][g] = Zero /\ RowsOf(DayAt(j)) = {}

\* A transaction deletes nothing, or all that was served on its day after summing
\* up all of it; once it has deleted, it leaves nothing of the day.
Deleting(j) ==
  /\ pc[j] = "pruned" /\ ~dry[j]
  /\ gone[j] = ServedOf(DayAt(j)) /\ gone[j] \subseteq ledger
  /\ \A g \in Dims : sums[j][g] = Total(DayAt(j), g)

GoneOK(j) ==
  /\ gone[j] = {} \/ Deleting(j)
  /\ pc[j] = "pruned" /\ ~dry[j] => RowsOf(DayAt(j)) \subseteq gone[j]

\* Two transactions never have a cell of the same day in common.
LockOK(j, k) ==
  j # k /\ Holds(j) /\ Holds(k) /\ DayAt(j) = DayAt(k) =>
    \A g \in Dims : sums[j][g] = Zero \/ sums[k][g] = Zero

JobsInv == \A j \in Jobs : TodoOK(j) /\ SumsOK(j) /\ GoneOK(j)
LockInv == \A j, k \in Jobs : LockOK(j, k)

IInv == RowsInv /\ JobTypes /\ DaysInv /\ FloorInv /\ JobsInv /\ LockInv

-----------------------------------------------------------------------------
(* Days and rows                                                           *)

LEMMA HalfDays ==
  ASSUME NEW t \in Int
  PROVE  t \div 2 \in Int /\ 2 * (t \div 2) <= t /\ t <= 2 * (t \div 2) + 1
OBVIOUS

LEMMA Least ==
  ASSUME NEW T \in SUBSET Nat, T # {}
  PROVE  \E n \in T : \A m \in T : n <= m
<1> DEFINE R == OpToRel(<, Nat)
<1>1. IsWellFoundedOn(R, Nat)
  BY NatLessThanWellFounded
<1>2. ASSUME NEW a \in Nat, NEW b \in Nat, <<a, b>> \notin R
      PROVE  b <= a
  BY <1>2 DEF OpToRel
<1> HIDE DEF R
<1>3. PICK n \in T : \A m \in T : <<m, n>> \notin R
  BY <1>1, WFMin
<1>4. \A m \in T : n <= m
  BY <1>2, <1>3
<1> QED
  BY <1>4

\* The oldest of a set of days.
LEMMA MinDay ==
  ASSUME NEW S \in SUBSET Days, S # {}
  PROVE  Min(S) \in S /\ \A d \in S : Min(S) <= d
<1>1. S \in SUBSET Nat
  BY RollupAssumption DEF Days
<1>2. \E n \in S : \A m \in S : n <= m
  BY <1>1, Least
<1> QED
  BY <1>2 DEF Min

\* A row belongs to one of the days and has dimensions.
LEMMA RowFacts ==
  ASSUME NEW r \in Rows
  PROVE  /\ r.t \in 2..(2 * MaxDay + 1) /\ r.t \in Int /\ DayOf(r) \in Days
         /\ r.dims \in Dims /\ r.tokens \in Nat /\ r.tokens \in 1..MaxRows
<1>1. r.t \in 2..(2 * MaxDay + 1) /\ r.dims \in Dims /\ r.tokens \in 1..MaxRows
  BY DEF Rows
<1>2. MaxDay \in Nat /\ MaxRows \in Nat
  BY RollupAssumption
<1>3. r.t \in Int /\ r.tokens \in Nat
  BY <1>1, <1>2
<1>4. r.t \div 2 \in Int /\ 2 * (r.t \div 2) <= r.t /\ r.t <= 2 * (r.t \div 2) + 1
  BY <1>3, HalfDays
<1>5. DayOf(r) \in Days
  BY <1>1, <1>2, <1>4 DEF DayOf, Days
<1> QED
  BY <1>1, <1>3, <1>5

\* Every set of served rows can be counted.
LEMMA ServedCounted ==
  ASSUME RowsInv, NEW S \in SUBSET served
  PROVE  Counted(S)
<1>1. IsFiniteSet(S)
  BY FS_Subset DEF RowsInv
<1>2. \A r \in S : r.tokens \in Nat
  BY RowFacts DEF RowsInv
<1> QED
  BY <1>1, <1>2 DEF Counted

\* A total is zero only when nothing was served.
LEMMA TotalZero ==
  ASSUME RowsInv, NEW d, NEW g
  PROVE  Total(d, g) \in Measures /\ (Total(d, g) = Zero <=> CellRows(d, g) = {})
<1>1. CellRows(d, g) \in SUBSET served
  BY DEF CellRows
<1>2. Counted(CellRows(d, g))
  BY <1>1, ServedCounted
<1> QED
  BY <1>2, AggregateType DEF Total

\* The day of a job that has something to do.
LEMMA DayAtFacts ==
  ASSUME JobTypes, NEW j \in Jobs, pc[j] # "idle" \/ todo[j] # {}
  PROVE  DayAt(j) \in todo[j] /\ DayAt(j) \in Days /\ \A d \in todo[j] : DayAt(j) <= d
<1>1. todo[j] \in SUBSET Days /\ todo[j] # {}
  BY DEF JobTypes
<1> QED
  BY <1>1, MinDay DEF DayAt

\* A request is served on a day that no retention gives up yet.
LEMMA OpenDays ==
  ASSUME JobTypes, NEW d \in Int, today - MaxLag <= d
  PROVE  ~Closed(d)
<1>1. SUFFICES ASSUME NEW n \in Retentions, Eligible(d, n) PROVE FALSE
  BY DEF Closed
<1>2. n \in Nat /\ MaxLag \in Nat /\ MaxLag <= n /\ today \in Int
  BY RollupAssumption DEF JobTypes, Days
<1> QED
  BY <1>1, <1>2 DEF Eligible

-----------------------------------------------------------------------------
(* What a step leaves alone                                                *)

LEMMA SameServed ==
  ASSUME served' = served
  PROVE  /\ \A d, g : Total(d, g)' = Total(d, g) /\ CellRows(d, g)' = CellRows(d, g)
         /\ \A d : ServedOf(d)' = ServedOf(d)
BY DEF Total, CellRows, ServedOf

LEMMA SameTables ==
  ASSUME served' = served, ledger' = ledger
  PROVE  /\ \A d : RowsOf(d)' = RowsOf(d) /\ (Kept(d)' <=> Kept(d))
BY DEF RowsOf, Kept, ServedOf

LEMMA SameToday ==
  ASSUME today' = today
  PROVE  \A d : Closed(d)' <=> Closed(d)
BY DEF Closed, Eligible

\* A day that is given up stays so.
LEMMA ClosedStays ==
  ASSUME JobTypes, today' = today \/ today' = today + 1, NEW d \in Days, Closed(d)
  PROVE  Closed(d)'
<1>1. PICK n \in Retentions : Eligible(d, n)
  BY DEF Closed
<1>2. n \in Nat /\ d \in Nat /\ today \in Nat
  BY RollupAssumption DEF JobTypes, Days
<1>3. Eligible(d, n)'
  BY <1>1, <1>2 DEF Eligible
<1> QED
  BY <1>3 DEF Closed

SameJob(j) ==
  /\ pc'[j] = pc[j] /\ todo'[j] = todo[j] /\ dry'[j] = dry[j]
  /\ sums'[j] = sums[j] /\ gone'[j] = gone[j]

\* A job that takes no step, while no table changes.
LEMMA JobFrame ==
  ASSUME NEW j \in Jobs, SameJob(j), UNCHANGED <<ledger, served, today>>,
         TodoOK(j), SumsOK(j), GoneOK(j)
  PROVE  TodoOK(j)' /\ SumsOK(j)' /\ GoneOK(j)'
<1>1. DayAt(j)' = DayAt(j)
  BY DEF SameJob, DayAt
<1>2. /\ \A d, g : Total(d, g)' = Total(d, g)
      /\ \A d : ServedOf(d)' = ServedOf(d) /\ RowsOf(d)' = RowsOf(d)
      /\ \A d : Closed(d)' <=> Closed(d)
  BY SameServed, SameTables, SameToday
<1>3. TodoOK(j)'
  BY <1>2 DEF TodoOK, SameJob, DayOf
<1>4. SumsOK(j)'
  BY <1>1, <1>2 DEF SumsOK, SameJob, InTx
<1>5. GoneOK(j)'
  BY <1>1, <1>2 DEF GoneOK, SameJob, Deleting
<1> QED
  BY <1>3, <1>4, <1>5

LEMMA LockFrame ==
  ASSUME NEW j \in Jobs, NEW k \in Jobs, SameJob(j), SameJob(k), LockOK(j, k)
  PROVE  LockOK(j, k)'
BY DEF LockOK, SameJob, Holds, DayAt

\* The tables stay, and the days with them.
LEMMA DaysFrame ==
  ASSUME DaysInv, FloorInv, RowsInv, UNCHANGED <<ledger, served, today, rollup>>
  PROVE  DaysInv' /\ FloorInv' /\ RowsInv'
<1>1. /\ \A d, g : Total(d, g)' = Total(d, g)
      /\ \A d : RowsOf(d)' = RowsOf(d) /\ (Kept(d)' <=> Kept(d))
      /\ \A d : Closed(d)' <=> Closed(d)
  BY SameServed, SameTables, SameToday
<1>2. DaysInv'
  BY <1>1 DEF DaysInv
<1>3. FloorInv'
  BY <1>1 DEF FloorInv, DayOf
<1>4. RowsInv'
  BY DEF RowsInv
<1> QED
  BY <1>2, <1>3, <1>4

-----------------------------------------------------------------------------
(* The steps                                                               *)

LEMMA InitInv == Init => IInv
<1> SUFFICES ASSUME Init PROVE IInv
  OBVIOUS
<1>1. RowsInv
  <2>1. IsFiniteSet({}) /\ Cardinality({}) = 0
    BY FS_EmptySet
  <2>2. MaxRows \in Nat
    BY RollupAssumption
  <2> QED
    BY <2>1, <2>2 DEF RowsInv, Init
<1>2. JobTypes
  <2>1. Zero \in Measures
    BY DEF Zero, Measures
  <2>2. today \in Days
    BY RollupAssumption DEF Init, Days
  <2>3. runs \in 0..MaxRuns /\ aborts \in 0..MaxAborts
    BY RollupAssumption DEF Init
  <2> QED
    BY <2>1, <2>2, <2>3 DEF JobTypes, Init, EmptyRollup, NoSums
<1>3. \A d \in Days : RowsOf(d) = {} /\ Kept(d) /\ \A g \in Dims : CellRows(d, g) = {}
  BY DEF RowsOf, Kept, ServedOf, CellRows, Init
<1>4. \A d \in Days, g \in Dims : rollup[d][g] = Zero /\ Total(d, g) = Zero
  BY <1>1, <1>3, TotalZero DEF Init, EmptyRollup
<1>5. DaysInv
  BY <1>3, <1>4 DEF DaysInv
<1>6. FloorInv
  BY DEF FloorInv, Init
<1>7. JobsInv
  BY DEF JobsInv, TodoOK, SumsOK, GoneOK, InTx, Init
<1>8. LockInv
  BY DEF LockInv, LockOK, Holds, Init
<1> QED
  BY <1>1, <1>2, <1>5, <1>6, <1>7, <1>8 DEF IInv

\* Midnight gives up more days and touches none.
LEMMA MidnightInv == IInv /\ Midnight => IInv'
<1> SUFFICES ASSUME IInv, Midnight PROVE IInv'
  OBVIOUS
<1>1. RowsInv /\ JobTypes /\ DaysInv /\ FloorInv /\ JobsInv /\ LockInv
  BY DEF IInv
<1>2. UNCHANGED <<ledger, rollup, job, bounds, served>> /\ today' = today + 1
  BY DEF Midnight
<1>3. UNCHANGED <<pc, todo, dry, sums, gone, runs, aborts>>
  BY <1>2 DEF job, bounds
<1>4. RowsInv'
  BY <1>1, <1>2 DEF RowsInv
<1>5. JobTypes'
  <2>1. today' \in Days
    BY <1>1, RollupAssumption DEF Midnight, JobTypes, Days
  <2> QED
    BY <1>1, <1>2, <1>3, <2>1 DEF JobTypes
<1>6. /\ \A d, g : Total(d, g)' = Total(d, g)
      /\ \A d : ServedOf(d)' = ServedOf(d) /\ RowsOf(d)' = RowsOf(d) /\ (Kept(d)' <=> Kept(d))
  BY <1>2, SameServed, SameTables
<1>7. \A d \in Days : Closed(d) => Closed(d)'
  BY <1>1, <1>2, ClosedStays
<1>8. DaysInv'
  BY <1>1, <1>2, <1>6, <1>7 DEF DaysInv
<1>9. FloorInv'
  BY <1>1, <1>2, <1>6 DEF FloorInv, DayOf
<1>10. ASSUME NEW j \in Jobs
       PROVE  TodoOK(j)' /\ SumsOK(j)' /\ GoneOK(j)'
  <2>1. TodoOK(j) /\ SumsOK(j) /\ GoneOK(j) /\ todo[j] \in SUBSET Days
    BY <1>1 DEF JobsInv, JobTypes
  <2>2. DayAt(j)' = DayAt(j)
    BY <1>3 DEF DayAt
  <2>3. TodoOK(j)'
    BY <1>2, <1>3, <1>7, <2>1 DEF TodoOK, DayOf
  <2>4. SumsOK(j)'
    BY <1>3, <1>6, <2>1, <2>2 DEF SumsOK, InTx
  <2>5. GoneOK(j)'
    BY <1>2, <1>3, <1>6, <2>1, <2>2 DEF GoneOK, Deleting
  <2> QED
    BY <2>3, <2>4, <2>5
<1>11. LockInv'
  BY <1>1, <1>3, LockFrame DEF LockInv, SameJob
<1> QED
  BY <1>4, <1>5, <1>8, <1>9, <1>10, <1>11 DEF IInv, JobsInv

\* A request is appended to a day that no job touches.
LEMMA AppendFacts ==
  ASSUME RowsInv, JobTypes, NEW g \in Dims,
         NEW t \in (2 * today - 2 * MaxLag)..(2 * today + 1), t >= 2, AppendUsage(t, g)
  PROVE  \E r : /\ ledger' = ledger \cup {r} /\ served' = served \cup {r}
                /\ r \notin served /\ r.dims = g /\ r.id = Cardinality(served) + 1
                /\ r \in Rows /\ DayOf(r) \in Days /\ today - MaxLag <= DayOf(r)
                /\ r.tokens \in 1..MaxRows
<1> DEFINE n == Cardinality(served) + 1
           r == [id |-> n, t |-> t, dims |-> g, tokens |-> n]
<1>1. Cardinality(served) \in Nat /\ MaxRows \in Nat /\ MaxDay \in Nat /\ MaxLag \in Nat
      /\ today \in 1..MaxDay /\ today \in Int
  BY RollupAssumption, FS_CardinalityType DEF RowsInv, JobTypes, Days
<1>2. n \in 1..MaxRows
  BY <1>1 DEF AppendUsage
<1>3. t \in 2..(2 * MaxDay + 1) /\ t \in Int /\ 2 * today - 2 * MaxLag <= t
  BY <1>1
<1>4. r \in Rows
  BY <1>2, <1>3 DEF Rows
<1>5. r \notin served
  <2>1. ASSUME r \in served PROVE FALSE
    <3>1. r.id <= Cardinality(served) /\ r.id = Cardinality(served) + 1
      BY <2>1 DEF RowsInv
    <3> QED
      BY <3>1, <1>1
  <2> QED
    BY <2>1
<1>6. DayOf(r) \in Days
  BY <1>4, RowFacts
<1>7. today - MaxLag <= DayOf(r)
  <2>1. DayOf(r) = t \div 2
    BY DEF DayOf
  <2>2. t \div 2 \in Int /\ t <= 2 * (t \div 2) + 1
    BY <1>3, HalfDays
  <2> QED
    BY <2>1, <2>2, <1>1, <1>3
<1>8. ledger' = ledger \cup {r} /\ served' = served \cup {r}
  BY DEF AppendUsage
<1>9. r.dims = g /\ r.id = Cardinality(served) + 1 /\ r.tokens \in 1..MaxRows
  BY <1>2
<1> HIDE DEF r
<1> QED
  BY <1>4, <1>5, <1>6, <1>7, <1>8, <1>9

\* The rest of the step, for the row r it appends.
Appended(r) ==
  /\ ledger' = ledger \cup {r} /\ served' = served \cup {r}
  /\ r \notin served /\ r \in Rows /\ DayOf(r) \in Days /\ today - MaxLag <= DayOf(r)
  /\ r.id = Cardinality(served) + 1 /\ r.id \in 1..MaxRows
  /\ UNCHANGED <<rollup, today, pc, todo, dry, sums, gone, runs, aborts>>

LEMMA AppendElsewhere ==
  ASSUME NEW r, Appended(r), NEW d, d # DayOf(r)
  PROVE  /\ ServedOf(d)' = ServedOf(d) /\ RowsOf(d)' = RowsOf(d) /\ (Kept(d)' <=> Kept(d))
         /\ \A g : Total(d, g)' = Total(d, g) /\ CellRows(d, g)' = CellRows(d, g)
<1>1. ServedOf(d)' = ServedOf(d) /\ \A g : CellRows(d, g)' = CellRows(d, g)
  BY DEF Appended, ServedOf, CellRows
<1>2. RowsOf(d)' = RowsOf(d)
  BY DEF Appended, RowsOf
<1>3. Kept(d)' <=> Kept(d)
  BY <1>1 DEF Kept, Appended, ServedOf
<1>4. \A g : Total(d, g)' = Total(d, g)
  BY <1>1 DEF Total
<1> QED
  BY <1>1, <1>2, <1>3, <1>4

LEMMA AppendInv ==
  ASSUME IInv, NEW r, Appended(r)
  PROVE  IInv'
<1>1. RowsInv /\ JobTypes /\ DaysInv /\ FloorInv /\ JobsInv /\ LockInv
  BY DEF IInv
<1>2. UNCHANGED <<rollup, today, pc, todo, dry, sums, gone, runs, aborts>>
  BY DEF Appended
<1>3. RowsInv'
  <2>1. IsFiniteSet(served') /\ Cardinality(served') = Cardinality(served) + 1
    BY <1>1, FS_AddElement DEF Appended, RowsInv
  <2>2. Cardinality(served) \in Nat
    BY <1>1, FS_CardinalityType DEF RowsInv
  <2>3. \A x \in served : x.id \in Nat
    BY <1>1, RollupAssumption DEF RowsInv, Rows
  <2>4. \A x \in served' : x.id <= Cardinality(served')
    BY <1>1, <2>1, <2>2, <2>3 DEF Appended, RowsInv
  <2>5. Cardinality(served') <= MaxRows
    BY <2>1, RollupAssumption DEF Appended
  <2> QED
    BY <1>1, <2>1, <2>4, <2>5 DEF Appended, RowsInv
<1>4. JobTypes'
  <2>1. gone \in [Jobs -> SUBSET served']
    BY <1>1 DEF JobTypes, Appended
  <2> QED
    BY <1>1, <1>2, <2>1 DEF JobTypes
<1>5. ASSUME NEW d \in Days, today - MaxLag <= d
      PROVE  ~Closed(d) /\ ~Closed(d)'
  BY <1>1, <1>2, <1>5, OpenDays, SameToday DEF Days
<1>6. ASSUME NEW d \in Days, Closed(d)
      PROVE  d # DayOf(r) /\ d < DayOf(r)
  <2>1. ~(today - MaxLag <= d)
    BY <1>5, <1>6
  <2>2. d \in Int /\ DayOf(r) \in Int /\ today \in Int /\ MaxLag \in Int /\ today - MaxLag <= DayOf(r)
    BY <1>1, RollupAssumption DEF Appended, Days, JobTypes
  <2> QED
    BY <2>1, <2>2
<1>7. \A d : Closed(d)' <=> Closed(d)
  BY <1>2, SameToday
<1>8. /\ RowsOf(DayOf(r))' # {} /\ Kept(DayOf(r))'
      /\ \A g \in Dims : rollup'[DayOf(r)][g] = Zero
  <2>1. DayOf(r) \in Days /\ ~Closed(DayOf(r))
    BY <1>5 DEF Appended
  <2>2. Kept(DayOf(r)) /\ \A g \in Dims : rollup[DayOf(r)][g] = Zero
    BY <1>1, <2>1 DEF DaysInv
  <2>3. r \in RowsOf(DayOf(r))'
    BY DEF RowsOf, Appended, DayOf
  <2>4. Kept(DayOf(r))'
    BY <2>2 DEF Kept, ServedOf, Appended, DayOf
  <2> QED
    BY <1>2, <2>2, <2>3, <2>4
<1>9. DaysInv'
  <2>1. SUFFICES ASSUME NEW d \in Days
        PROVE  /\ RowsOf(d)' # {} => Kept(d)'
               /\ \A g \in Dims : \/ rollup'[d][g] = Total(d, g)'
                                  \/ RowsOf(d)' # {} /\ rollup'[d][g] = Zero
               /\ ~Closed(d)' => Kept(d)' /\ \A g \in Dims : rollup'[d][g] = Zero
    BY DEF DaysInv
  <2>2. CASE d = DayOf(r)
    BY <1>8, <2>2
  <2>3. CASE d # DayOf(r)
    BY <1>1, <1>2, <1>7, <2>3, AppendElsewhere DEF DaysInv
  <2> QED
    BY <2>2, <2>3
<1>10. FloorInv'
  <2>1. SUFFICES ASSUME NEW x \in ledger', NEW d \in Days, DayOf(x) <= d
        PROVE  Kept(d)'
    BY DEF FloorInv, DayOf
  <2>2. CASE d = DayOf(r)
    BY <1>8, <2>2
  <2>3. CASE d # DayOf(r) /\ x \in ledger
    BY <1>1, <2>1, <2>3, AppendElsewhere DEF FloorInv
  <2>4. CASE d # DayOf(r) /\ x = r
    <3>1. DayOf(r) <= d
      BY <2>1, <2>4
    <3>2. ~Closed(d)
      <4>1. d \in Int /\ DayOf(r) \in Int
        BY DEF Days, Appended
      <4> QED
        BY <3>1, <4>1, <1>6
    <3> QED
      BY <1>1, <2>4, <3>2, AppendElsewhere DEF DaysInv
  <2> QED
    BY <2>2, <2>3, <2>4 DEF Appended
<1>11. ASSUME NEW j \in Jobs
       PROVE  TodoOK(j)' /\ SumsOK(j)' /\ GoneOK(j)'
  <2>1. TodoOK(j) /\ SumsOK(j) /\ GoneOK(j) /\ todo[j] \in SUBSET Days
    BY <1>1 DEF JobsInv, JobTypes
  <2>2. DayAt(j)' = DayAt(j)
    BY <1>2 DEF DayAt
  <2>3. \A d \in todo[j] : Closed(d) /\ ~(DayOf(r) < d)
    <3>1. SUFFICES ASSUME NEW d \in todo[j] PROVE Closed(d) /\ ~(DayOf(r) < d)
      OBVIOUS
    <3>2. d \in Days /\ Closed(d) /\ d \in Int /\ DayOf(r) \in Int
      BY <2>1 DEF TodoOK, Days, Appended
    <3> QED
      BY <3>2, <1>6
  <2>4. TodoOK(j)'
    BY <1>2, <1>7, <2>1, <2>3 DEF TodoOK, DayOf, Appended
  <2>5. CASE pc[j] = "idle"
    BY <1>2, <2>1, <2>4, <2>5 DEF SumsOK, GoneOK, InTx, Deleting
  <2>6. CASE pc[j] # "idle"
    <3>1. DayAt(j) # DayOf(r)
      BY <1>1, <1>6, <2>3, <2>6, DayAtFacts
    <3>2. \A d : d # DayOf(r) =>
            /\ ServedOf(d)' = ServedOf(d) /\ RowsOf(d)' = RowsOf(d)
            /\ \A g : Total(d, g)' = Total(d, g)
      BY AppendElsewhere
    <3>3. SumsOK(j)'
      BY <1>2, <2>1, <2>2, <3>1, <3>2 DEF SumsOK, InTx
    <3>4. GoneOK(j)'
      BY <1>2, <2>1, <2>2, <3>1, <3>2 DEF GoneOK, Deleting, Appended
    <3> QED
      BY <2>4, <3>3, <3>4
  <2> QED
    BY <2>5, <2>6
<1>12. LockInv'
  BY <1>1, <1>2, LockFrame DEF LockInv, SameJob
<1> QED
  BY <1>3, <1>4, <1>9, <1>10, <1>11, <1>12 DEF IInv, JobsInv

\* A step of one job that commits nothing.
LEMMA JobStepInv ==
  ASSUME IInv, NEW j \in Jobs, UNCHANGED <<ledger, served, today, rollup>>, JobTypes',
         \A k \in Jobs \ {j} : SameJob(k),
         TodoOK(j)', SumsOK(j)', GoneOK(j)',
         \A k \in Jobs \ {j} : LockOK(j, k)'
  PROVE  IInv'
<1>1. RowsInv /\ DaysInv /\ FloorInv /\ JobsInv /\ LockInv
  BY DEF IInv
<1>2. RowsInv' /\ DaysInv' /\ FloorInv'
  BY <1>1, DaysFrame
<1>3. JobsInv'
  BY <1>1, JobFrame DEF JobsInv
<1>4. ASSUME NEW i \in Jobs, NEW k \in Jobs
      PROVE  LockOK(i, k)'
  <2>1. CASE i = k
    BY <2>1 DEF LockOK
  <2>2. CASE i # k /\ i = j
    BY <2>2
  <2>3. CASE i # k /\ k = j
    <3>1. LockOK(k, i)'
      BY <2>3
    <3> QED
      BY <3>1 DEF LockOK
  <2>4. CASE i # j /\ k # j
    BY <1>1, <2>4, LockFrame DEF LockInv
  <2> QED
    BY <2>1, <2>2, <2>3, <2>4
<1> QED
  BY <1>2, <1>3, <1>4 DEF IInv, LockInv

\* Outside a transaction nothing is deleted.
LEMMA NothingGone ==
  ASSUME IInv, NEW j \in Jobs, pc[j] # "pruned"
  PROVE  gone[j] = {}
BY DEF IInv, JobsInv, GoneOK, Deleting

\* Whenever a job lists days, it lists every older raw day with them.
LEMMA ListDaysInv ==
  ASSUME IInv, NEW j \in Jobs, NEW n \in Retentions, NEW b \in BOOLEAN, ListDays(j, n, b)
  PROVE  IInv'
<1> DEFINE days == {d \in Days : RowsOf(d) # {} /\ Eligible(d, n)}
<1>1. RowsInv /\ JobTypes /\ DaysInv /\ FloorInv /\ JobsInv /\ LockInv /\ gone[j] = {}
  BY NothingGone DEF IInv, ListDays
<1>2. UNCHANGED <<ledger, rollup, today, sums, gone, aborts, served>>
  BY DEF ListDays
<1>3. /\ dry' = [dry EXCEPT ![j] = b] /\ todo' = [todo EXCEPT ![j] = days]
      /\ pc' = [pc EXCEPT ![j] = IF days = {} THEN "idle" ELSE "begin"]
      /\ runs' = runs + 1 /\ runs < MaxRuns
  BY DEF ListDays
<1>4. JobTypes /\ dry' = [dry EXCEPT ![j] = b] /\ todo' = [todo EXCEPT ![j] = days]
  BY <1>1, <1>3
<1>5. days \in SUBSET Days
  OBVIOUS
<1>6. pc'[j] = (IF days = {} THEN "idle" ELSE "begin") /\ todo'[j] = days /\ dry'[j] = b
  BY <1>1, <1>3 DEF JobTypes
<1>7. \A k \in Jobs \ {j} : SameJob(k)
  BY <1>1, <1>2, <1>3 DEF SameJob, JobTypes
<1>8. TodoOK(j)'
  <2>1. \A d \in days : Closed(d)'
    <3>1. SUFFICES ASSUME NEW d \in days PROVE Closed(d)
      BY <1>2, SameToday
    <3> QED
      BY DEF Closed
  <2>2. ASSUME NEW d \in days, NEW r \in ledger, DayOf(r) < d
        PROVE  DayOf(r) \in days
    <3>1. DayOf(r) \in Days
      BY <1>1, RowFacts DEF RowsInv
    <3>2. r \in RowsOf(DayOf(r))
      BY DEF RowsOf
    <3>3. Eligible(DayOf(r), n)
      <4>1. d \in Nat /\ DayOf(r) \in Nat /\ today \in Nat /\ n \in Nat
        BY <1>1, <3>1, RollupAssumption DEF JobTypes, Days
      <4>2. Eligible(d, n)
        OBVIOUS
      <4> HIDE DEF days
      <4> QED
        BY <2>2, <4>1, <4>2 DEF Eligible
    <3> QED
      BY <3>1, <3>2, <3>3
  <2> HIDE DEF days
  <2> QED
    BY <1>2, <1>6, <2>1, <2>2 DEF TodoOK, DayOf
<1> HIDE DEF days
<1>9. JobTypes'
  <2>1. runs' \in 0..MaxRuns
    BY <1>1, <1>3, RollupAssumption DEF JobTypes
  <2>2. \A k \in Jobs : pc'[k] = "idle" <=> todo'[k] = {}
    BY <1>1, <1>6, <1>7 DEF JobTypes, SameJob
  <2>3. pc' \in [Jobs -> {"idle", "begin", "summed", "written", "pruned"}]
    BY <1>1, <1>3 DEF JobTypes
  <2>4. todo' \in [Jobs -> SUBSET Days]
    BY <1>1, <1>3, <1>5 DEF JobTypes
  <2>5. dry' \in [Jobs -> BOOLEAN]
    BY <1>1, <1>3, Zenon DEF JobTypes
  <2> QED
    BY <1>1, <1>2, <2>1, <2>2, <2>3, <2>4, <2>5 DEF JobTypes
<1>10. SumsOK(j)' /\ GoneOK(j)' /\ \A k \in Jobs \ {j} : LockOK(j, k)'
  BY <1>1, <1>2, <1>6 DEF SumsOK, GoneOK, LockOK, InTx, Holds
<1> QED
  BY <1>2, <1>7, <1>8, <1>9, <1>10, JobStepInv

\* A day that is raw has all its rows, so its sums are exact.
LEMMA SumDayInv ==
  ASSUME IInv, NEW j \in Jobs, SumDay(j)
  PROVE  IInv'
<1> DEFINE e == DayAt(j)
           new == [g \in Dims |-> Aggregate({r \in RowsOf(e) : r.dims = g})]
<1>1. RowsInv /\ JobTypes /\ DaysInv /\ JobsInv /\ gone[j] = {} /\ pc[j] = "begin"
  BY NothingGone DEF IInv, SumDay
<1>2. UNCHANGED <<ledger, rollup, today, todo, dry, gone, runs, aborts, served>>
  BY DEF SumDay, bounds
<1>3. sums' = [sums EXCEPT ![j] = new] /\ pc' = [pc EXCEPT ![j] = "summed"]
  BY DEF SumDay
<1>4. e \in Days
  BY <1>1, DayAtFacts
<1>5. ASSUME NEW g \in Dims
      PROVE  /\ new[g] \in Measures
             /\ new[g] = Total(e, g) \/ (new[g] = Zero /\ RowsOf(e) = {})
  <2> DEFINE cell == {r \in RowsOf(e) : r.dims = g}
  <2>1. cell \in SUBSET served
    BY <1>1 DEF RowsOf, RowsInv
  <2>2. Counted(cell) /\ new[g] = Aggregate(cell)
    BY <1>1, <2>1, ServedCounted
  <2>3. new[g] \in Measures /\ (cell = {} => new[g] = Zero)
    BY <2>2, AggregateType
  <2>4. CASE RowsOf(e) = {}
    BY <2>3, <2>4
  <2>5. CASE RowsOf(e) # {}
    <3>1. Kept(e)
      BY <1>1, <1>4, <2>5 DEF DaysInv
    <3>2. cell = CellRows(e, g)
      BY <1>1, <3>1 DEF Kept, RowsOf, ServedOf, CellRows, RowsInv
    <3>3. Aggregate(cell) = Total(e, g)
      BY <3>2, Zenon DEF Total
    <3>4. new[g] = Total(e, g)
      BY <2>2, <3>3, Zenon
    <3> QED
      BY <2>3, <3>4, Zenon
  <2> QED
    BY <2>3, <2>4, <2>5
<1>6. new \in [Dims -> Measures]
  BY <1>5
<1> HIDE DEF new
<1>7. sums'[j] = new /\ pc'[j] = "summed"
  BY <1>1, <1>3 DEF JobTypes
<1>8. \A k \in Jobs \ {j} : SameJob(k)
  BY <1>1, <1>2, <1>3 DEF SameJob, JobTypes
<1>9. JobTypes'
  <2>1. sums' \in [Jobs -> [Dims -> Measures]]
    BY <1>1, <1>3, <1>6 DEF JobTypes
  <2>2. pc' \in [Jobs -> {"idle", "begin", "summed", "written", "pruned"}]
    BY <1>1, <1>3 DEF JobTypes
  <2>3. \A k \in Jobs : pc'[k] = "idle" <=> todo'[k] = {}
    BY <1>1, <1>2, <1>7, <1>8 DEF JobTypes, SameJob
  <2> QED
    BY <1>1, <1>2, <2>1, <2>2, <2>3 DEF JobTypes
<1>10. TodoOK(j)'
  BY <1>1, <1>2, SameToday DEF JobsInv, TodoOK, DayOf
<1>11. SumsOK(j)'
  <2>1. DayAt(j)' = e
    BY <1>2 DEF DayAt
  <2>2. /\ \A d, g : Total(d, g)' = Total(d, g)
        /\ \A d : RowsOf(d)' = RowsOf(d)
    BY <1>2, SameServed, SameTables
  <2> QED
    BY <1>5, <1>7, <2>1, <2>2 DEF SumsOK
<1>12. GoneOK(j)' /\ \A k \in Jobs \ {j} : LockOK(j, k)'
  BY <1>1, <1>2, <1>7 DEF GoneOK, LockOK, Holds
<1> QED
  BY <1>2, <1>8, <1>9, <1>10, <1>11, <1>12, JobStepInv

\* The upsert waits for a transaction that has a cell of it.
LEMMA UpsertDayInv ==
  ASSUME IInv, NEW j \in Jobs, UpsertDay(j)
  PROVE  IInv'
<1>1. RowsInv /\ JobTypes /\ JobsInv /\ gone[j] = {} /\ pc[j] = "summed"
  BY NothingGone DEF IInv, UpsertDay
<1>2. UNCHANGED <<ledger, rollup, today, todo, dry, sums, gone, runs, aborts, served>>
  BY DEF UpsertDay, bounds
<1>3. pc' = [pc EXCEPT ![j] = "written"]
  BY DEF UpsertDay
<1>4. pc'[j] = "written" /\ \A k \in Jobs \ {j} : SameJob(k)
  BY <1>1, <1>2, <1>3 DEF SameJob, JobTypes
<1>5. JobTypes'
  <2>1. pc' \in [Jobs -> {"idle", "begin", "summed", "written", "pruned"}]
    BY <1>1, <1>3 DEF JobTypes
  <2>2. \A k \in Jobs : pc'[k] = "idle" <=> todo'[k] = {}
    BY <1>1, <1>2, <1>4 DEF JobTypes, SameJob
  <2> QED
    BY <1>1, <1>2, <2>1, <2>2 DEF JobTypes
<1>6. \A k \in Jobs : DayAt(k)' = DayAt(k)
  BY <1>2 DEF DayAt
<1>7. /\ \A d, g : Total(d, g)' = Total(d, g)
      /\ \A d : RowsOf(d)' = RowsOf(d)
  BY <1>2, SameServed, SameTables
<1>8. TodoOK(j)'
  BY <1>1, <1>2, SameToday DEF JobsInv, TodoOK, DayOf
<1>9. SumsOK(j)'
  BY <1>1, <1>2, <1>6, <1>7 DEF JobsInv, SumsOK, InTx
<1>10. GoneOK(j)'
  BY <1>1, <1>2, <1>4 DEF GoneOK
<1>11. \A k \in Jobs \ {j} : LockOK(j, k)'
  BY <1>2, <1>4, <1>6 DEF UpsertDay, LockOK, Holds, SameJob
<1> QED
  BY <1>2, <1>4, <1>5, <1>8, <1>9, <1>10, <1>11, JobStepInv

\* The day is deleted as a whole, and all of it has been summed up.
LEMMA PruneDayInv ==
  ASSUME IInv, NEW j \in Jobs, PruneDay(j)
  PROVE  IInv'
<1> DEFINE rows == IF dry[j] THEN {} ELSE RowsOf(DayAt(j))
<1>1. RowsInv /\ JobTypes /\ DaysInv /\ JobsInv /\ LockInv /\ pc[j] = "written"
  BY DEF IInv, PruneDay
<1>2. UNCHANGED <<ledger, rollup, today, todo, dry, sums, runs, aborts, served>>
  BY DEF PruneDay, bounds
<1>3. gone' = [gone EXCEPT ![j] = rows] /\ pc' = [pc EXCEPT ![j] = "pruned"]
  BY DEF PruneDay
<1>4. rows \in SUBSET ledger /\ rows \in SUBSET served
  BY <1>1 DEF RowsOf, RowsInv
<1>5. rows = {} \/ (~dry[j] /\ rows = RowsOf(DayAt(j)) /\ RowsOf(DayAt(j)) # {})
  BY Zenon
<1>6. ~dry[j] => rows = RowsOf(DayAt(j))
  BY Zenon
<1> HIDE DEF rows
<1>7. gone'[j] = rows /\ pc'[j] = "pruned" /\ \A k \in Jobs \ {j} : SameJob(k)
  BY <1>1, <1>2, <1>3 DEF SameJob, JobTypes
<1>8. JobTypes'
  <2>1. gone' \in [Jobs -> SUBSET served]
    BY <1>1, <1>3, <1>4 DEF JobTypes
  <2>2. pc' \in [Jobs -> {"idle", "begin", "summed", "written", "pruned"}]
    BY <1>1, <1>3 DEF JobTypes
  <2>3. \A k \in Jobs : pc'[k] = "idle" <=> todo'[k] = {}
    BY <1>1, <1>2, <1>7 DEF JobTypes, SameJob
  <2> QED
    BY <1>1, <1>2, <2>1, <2>2, <2>3 DEF JobTypes
<1>9. \A k \in Jobs : DayAt(k)' = DayAt(k)
  BY <1>2 DEF DayAt
<1>10. /\ \A d, g : Total(d, g)' = Total(d, g)
       /\ \A d : RowsOf(d)' = RowsOf(d) /\ ServedOf(d)' = ServedOf(d)
  BY <1>2, SameServed, SameTables
<1>11. TodoOK(j)'
  BY <1>1, <1>2, SameToday DEF JobsInv, TodoOK, DayOf
<1>12. SumsOK(j)'
  BY <1>1, <1>2, <1>9, <1>10 DEF JobsInv, SumsOK, InTx
<1>13. GoneOK(j)'
  <2>1. ~dry'[j] => RowsOf(DayAt(j))' \subseteq gone'[j]
    BY <1>2, <1>6, <1>7, <1>9, <1>10
  <2>2. CASE rows = {}
    BY <1>7, <2>1, <2>2 DEF GoneOK
  <2>3. CASE ~dry[j] /\ rows = RowsOf(DayAt(j)) /\ RowsOf(DayAt(j)) # {}
    <3>1. DayAt(j) \in Days
      BY <1>1, DayAtFacts
    <3>2. RowsOf(DayAt(j)) = ServedOf(DayAt(j))
      BY <1>1, <2>3, <3>1 DEF DaysInv, Kept, RowsOf, ServedOf, RowsInv
    <3>3. \A g \in Dims : sums[j][g] = Total(DayAt(j), g)
      BY <1>1, <2>3 DEF JobsInv, SumsOK, InTx
    <3>4. Deleting(j)'
      BY <1>2, <1>4, <1>7, <1>9, <1>10, <2>3, <3>2, <3>3 DEF Deleting
    <3> QED
      BY <2>1, <3>4 DEF GoneOK
  <2> QED
    BY <1>5, <2>2, <2>3
<1>14. \A k \in Jobs \ {j} : LockOK(j, k)'
  BY <1>1, <1>2, <1>7, <1>9 DEF LockInv, LockOK, Holds, SameJob
<1> QED
  BY <1>2, <1>7, <1>8, <1>11, <1>12, <1>13, <1>14, JobStepInv

\* A failing transaction leaves nothing behind.
LEMMA AbortInv ==
  ASSUME IInv, NEW j \in Jobs, Abort(j)
  PROVE  IInv'
<1>1. JobTypes
  BY DEF IInv
<1>2. UNCHANGED <<ledger, rollup, today, dry, runs, served>>
  BY DEF Abort
<1>3. /\ pc' = [pc EXCEPT ![j] = "idle"] /\ todo' = [todo EXCEPT ![j] = {}]
      /\ sums' = [sums EXCEPT ![j] = NoSums] /\ gone' = [gone EXCEPT ![j] = {}]
      /\ aborts' = aborts + 1 /\ aborts < MaxAborts
  BY DEF Abort
<1>4. /\ pc'[j] = "idle" /\ todo'[j] = {} /\ gone'[j] = {}
      /\ \A k \in Jobs \ {j} : SameJob(k)
  BY <1>1, <1>2, <1>3 DEF SameJob, JobTypes
<1>5. JobTypes'
  <2>1. NoSums \in [Dims -> Measures]
    BY DEF NoSums, Zero, Measures
  <2>2. sums' \in [Jobs -> [Dims -> Measures]]
    BY <1>1, <1>3, <2>1 DEF JobTypes
  <2>3. gone' \in [Jobs -> SUBSET served] /\ todo' \in [Jobs -> SUBSET Days]
    BY <1>1, <1>3 DEF JobTypes
  <2>4. pc' \in [Jobs -> {"idle", "begin", "summed", "written", "pruned"}]
    BY <1>1, <1>3 DEF JobTypes
  <2>5. \A k \in Jobs : pc'[k] = "idle" <=> todo'[k] = {}
    BY <1>1, <1>4 DEF JobTypes, SameJob
  <2>6. aborts' \in 0..MaxAborts
    BY <1>1, <1>3, RollupAssumption DEF JobTypes
  <2> QED
    BY <1>1, <1>2, <2>2, <2>3, <2>4, <2>5, <2>6 DEF JobTypes
<1>6. /\ TodoOK(j)' /\ SumsOK(j)' /\ GoneOK(j)'
      /\ \A k \in Jobs \ {j} : LockOK(j, k)'
  BY <1>4 DEF TodoOK, SumsOK, GoneOK, LockOK, InTx, Holds
<1> QED
  BY <1>2, <1>4, <1>5, <1>6, JobStepInv

\* What a commit does to the cells and the rows of its day e.
CommitsAt(j, e) ==
  /\ IInv /\ CommitDay(j) /\ pc[j] = "pruned" /\ e = DayAt(j) /\ e \in Days /\ e \in todo[j]

LEMMA CommitRows ==
  ASSUME NEW j \in Jobs, NEW e, CommitsAt(j, e)
  PROVE  /\ ledger' = ledger \ gone[j] /\ served' = served /\ today' = today
         /\ gone[j] \subseteq ServedOf(e)
         /\ \A d : d # e => RowsOf(d)' = RowsOf(d) /\ (Kept(d) => Kept(d)')
         /\ \A d : RowsOf(d)' \subseteq RowsOf(d)
         /\ gone[j] # {} => RowsOf(e)' = {}
         /\ gone[j] = {} => RowsOf(e)' = RowsOf(e) /\ (Kept(e) => Kept(e)')
<1>1. ledger' = ledger \ gone[j] /\ served' = served /\ today' = today
  BY DEF CommitsAt, CommitDay
<1>2. gone[j] = {} \/ gone[j] = ServedOf(e)
  BY DEF CommitsAt, IInv, JobsInv, GoneOK, Deleting
<1>3. gone[j] \subseteq ServedOf(e)
  BY <1>2
<1>4. ASSUME NEW d, d # e
      PROVE  RowsOf(d)' = RowsOf(d) /\ (Kept(d) => Kept(d)')
  BY <1>1, <1>3, <1>4 DEF RowsOf, Kept, ServedOf
<1>5. \A d : RowsOf(d)' \subseteq RowsOf(d)
  BY <1>1 DEF RowsOf
<1>6. ASSUME gone[j] # {}
      PROVE  RowsOf(e)' = {}
  BY <1>1, <1>2, <1>6 DEF RowsOf, ServedOf, CommitsAt, IInv, RowsInv
<1>7. ASSUME gone[j] = {}
      PROVE  RowsOf(e)' = RowsOf(e) /\ (Kept(e) => Kept(e)')
  BY <1>1, <1>7 DEF RowsOf, Kept, ServedOf
<1> QED
  BY <1>1, <1>3, <1>4, <1>5, <1>6, <1>7

\* The cells of the day are exact afterwards, unless they were not written yet.
LEMMA CommitCells ==
  ASSUME NEW j \in Jobs, NEW e, CommitsAt(j, e)
  PROVE  /\ rollup' \in [Days -> [Dims -> Measures]]
         /\ \A d \in Days \ {e} : rollup'[d] = rollup[d]
         /\ \A g \in Dims : \/ rollup'[e][g] = Total(e, g)
                            \/ rollup'[e][g] = rollup[e][g] /\ gone[j] = {}
         /\ \A g \in Dims : rollup[e][g] = Total(e, g) => rollup'[e][g] = rollup[e][g]
<1>1. rollup' = [rollup EXCEPT ![e] = Upserted(rollup[e], sums[j])]
  BY DEF CommitsAt, CommitDay
<1>2. /\ rollup \in [Days -> [Dims -> Measures]] /\ sums[j] \in [Dims -> Measures]
      /\ e \in Days
  BY DEF CommitsAt, IInv, JobTypes
<1>3. Upserted(rollup[e], sums[j]) \in [Dims -> Measures]
  BY <1>2 DEF Upserted
<1>4. rollup' \in [Days -> [Dims -> Measures]] /\ \A d \in Days \ {e} : rollup'[d] = rollup[d]
  BY <1>1, <1>2, <1>3
<1>5. ASSUME NEW g \in Dims
      PROVE  rollup'[e][g] = IF sums[j][g] = Zero THEN rollup[e][g] ELSE sums[j][g]
  <2>1. rollup'[e] = Upserted(rollup[e], sums[j])
    BY <1>1, <1>2
  <2> QED
    BY <2>1 DEF Upserted
<1>6. ASSUME NEW g \in Dims
      PROVE  sums[j][g] = Total(e, g) \/ sums[j][g] = Zero
  BY DEF CommitsAt, IInv, JobsInv, SumsOK, InTx
<1>7. ASSUME NEW g \in Dims, gone[j] # {}
      PROVE  sums[j][g] = Total(e, g)
  BY <1>7 DEF CommitsAt, IInv, JobsInv, GoneOK, Deleting
<1>8. ASSUME NEW g \in Dims
      PROVE  rollup[e][g] = Total(e, g) \/ rollup[e][g] = Zero
  BY DEF CommitsAt, IInv, DaysInv
<1>9. ASSUME NEW g \in Dims
      PROVE  \/ rollup'[e][g] = Total(e, g)
             \/ rollup'[e][g] = rollup[e][g] /\ gone[j] = {}
  BY <1>5, <1>6, <1>7, <1>8
<1>10. ASSUME NEW g \in Dims, rollup[e][g] = Total(e, g)
       PROVE  rollup'[e][g] = rollup[e][g]
  BY <1>5, <1>6, <1>10
<1> QED
  BY <1>4, <1>9, <1>10

\* A commit makes its day pruned as a whole, and no older day is raw then.
LEMMA CommitDays ==
  ASSUME NEW j \in Jobs, NEW e, CommitsAt(j, e)
  PROVE  RowsInv' /\ DaysInv' /\ FloorInv'
<1>1. RowsInv /\ JobTypes /\ DaysInv /\ FloorInv /\ JobsInv
  BY DEF CommitsAt, IInv
<1>2. e \in Days /\ Closed(e)
  BY <1>1 DEF CommitsAt, JobsInv, TodoOK
<1>3. RowsInv'
  BY <1>1, CommitRows DEF RowsInv
<1>4. /\ \A d, g : Total(d, g)' = Total(d, g)
      /\ \A d : Closed(d)' <=> Closed(d)
  BY CommitRows, SameServed, SameToday
<1>5. ASSUME NEW d \in Days
      PROVE  /\ RowsOf(d)' # {} => Kept(d)'
             /\ \A g \in Dims : \/ rollup'[d][g] = Total(d, g)'
                                \/ RowsOf(d)' # {} /\ rollup'[d][g] = Zero
             /\ ~Closed(d)' => Kept(d)' /\ \A g \in Dims : rollup'[d][g] = Zero
  <2>1. CASE d # e
    <3>1. RowsOf(d)' = RowsOf(d) /\ (Kept(d) => Kept(d)') /\ rollup'[d] = rollup[d]
      BY <2>1, CommitRows, CommitCells
    <3> QED
      BY <1>1, <1>4, <3>1 DEF DaysInv
  <2>2. CASE d = e /\ gone[j] # {}
    <3>1. RowsOf(e)' = {} /\ \A g \in Dims : rollup'[e][g] = Total(e, g)
      BY <2>2, CommitRows, CommitCells
    <3> QED
      BY <1>2, <1>4, <2>2, <3>1
  <2>3. CASE d = e /\ gone[j] = {}
    <3>1. RowsOf(e)' = RowsOf(e) /\ (Kept(e) => Kept(e)')
      BY <2>3, CommitRows
    <3>2. \A g \in Dims : rollup'[e][g] = Total(e, g) \/ rollup'[e][g] = rollup[e][g]
      BY CommitCells
    <3> QED
      BY <1>1, <1>2, <1>4, <2>3, <3>1, <3>2 DEF DaysInv
  <2> QED
    BY <2>1, <2>2, <2>3
<1>6. DaysInv'
  BY <1>5 DEF DaysInv
<1>7. ASSUME NEW r \in ledger', NEW d \in Days, DayOf(r) <= d
      PROVE  Kept(d)'
  <2>1. r \in ledger /\ Kept(d)
    BY <1>1, <1>7, CommitRows DEF FloorInv
  <2>2. CASE d # e \/ gone[j] = {}
    BY <2>1, <2>2, CommitRows
  <2>3. CASE d = e /\ gone[j] # {}
    <3>1. DayOf(r) # e
      BY <2>3, CommitRows DEF RowsOf
    <3>2. DayOf(r) \in Int /\ e \in Int
      BY <1>1, <1>2, <2>1, RowFacts DEF RowsInv, Days
    <3>3. DayOf(r) < e
      BY <1>7, <2>3, <3>1, <3>2
    <3>4. ~dry[j] /\ e \in todo[j] /\ TodoOK(j)
      BY <1>1, <2>3 DEF CommitsAt, JobsInv, GoneOK, Deleting
    <3>5. DayOf(r) \in todo[j]
      BY <2>1, <3>3, <3>4 DEF TodoOK
    <3>6. e <= DayOf(r)
      BY <1>1, <3>5, DayAtFacts DEF CommitsAt
    <3> QED
      BY <3>2, <3>3, <3>6
  <2> QED
    BY <2>2, <2>3
<1>8. FloorInv'
  BY <1>7 DEF FloorInv, DayOf
<1> QED
  BY <1>3, <1>6, <1>8

\* The committing job goes on to its next day; the others never lose a row they
\* are about to delete.
LEMMA CommitJobs ==
  ASSUME NEW j \in Jobs, NEW e, CommitsAt(j, e)
  PROVE  JobTypes' /\ JobsInv' /\ LockInv'
<1>1. RowsInv /\ JobTypes /\ DaysInv /\ JobsInv /\ LockInv /\ pc[j] = "pruned" /\ e \in todo[j]
  BY DEF CommitsAt, IInv
<1>2. UNCHANGED <<today, dry, runs, aborts, served>>
  BY DEF CommitsAt, CommitDay, bounds
<1>3. /\ todo' = [todo EXCEPT ![j] = todo[j] \ {e}]
      /\ pc' = [pc EXCEPT ![j] = IF todo[j] = {e} THEN "idle" ELSE "begin"]
      /\ sums' = [sums EXCEPT ![j] = NoSums] /\ gone' = [gone EXCEPT ![j] = {}]
  BY DEF CommitsAt, CommitDay
<1>4. /\ todo'[j] = todo[j] \ {e} /\ gone'[j] = {}
      /\ pc'[j] = IF todo[j] = {e} THEN "idle" ELSE "begin"
      /\ \A k \in Jobs \ {j} : SameJob(k)
  BY <1>1, <1>2, <1>3 DEF SameJob, JobTypes
<1>5. JobTypes'
  <2>1. NoSums \in [Dims -> Measures]
    BY DEF NoSums, Zero, Measures
  <2>2. sums' \in [Jobs -> [Dims -> Measures]]
    BY <1>1, <1>3, <2>1 DEF JobTypes
  <2>3. gone' \in [Jobs -> SUBSET served]
    BY <1>1, <1>3 DEF JobTypes
  <2>4. todo' \in [Jobs -> SUBSET Days]
    BY <1>1, <1>3 DEF JobTypes
  <2>5. pc' \in [Jobs -> {"idle", "begin", "summed", "written", "pruned"}]
    BY <1>1, <1>3 DEF JobTypes
  <2>6. \A k \in Jobs : pc'[k] = "idle" <=> todo'[k] = {}
    BY <1>1, <1>4 DEF JobTypes, SameJob
  <2>7. rollup' \in [Days -> [Dims -> Measures]]
    BY CommitCells
  <2> QED
    BY <1>1, <1>2, <2>2, <2>3, <2>4, <2>5, <2>6, <2>7 DEF JobTypes
<1>6. /\ \A d, g : Total(d, g)' = Total(d, g)
      /\ \A d : Closed(d)' <=> Closed(d)
      /\ \A d : ServedOf(d)' = ServedOf(d)
  BY <1>2, SameServed, SameToday
<1>7. ledger' = ledger \ gone[j] /\ \A d : RowsOf(d)' \subseteq RowsOf(d)
  BY CommitRows
<1>8. TodoOK(j)'
  <2>1. TodoOK(j)
    BY <1>1 DEF JobsInv
  <2>2. \A d \in todo'[j] : Closed(d)'
    BY <1>4, <1>6, <2>1 DEF TodoOK
  <2>3. ASSUME ~dry[j], NEW d \in todo'[j], NEW r \in ledger', DayOf(r) < d
        PROVE  DayOf(r) \in todo'[j]
    <3>1. DayOf(r) \in todo[j] /\ r \in ledger
      BY <1>4, <1>7, <2>1, <2>3 DEF TodoOK
    <3>2. RowsOf(e) \subseteq gone[j]
      BY <1>1, <2>3 DEF JobsInv, GoneOK, CommitsAt
    <3>3. DayOf(r) # e
      BY <1>7, <3>1, <3>2 DEF RowsOf
    <3> QED
      BY <1>4, <3>1, <3>3
  <2> QED
    BY <1>2, <2>2, <2>3 DEF TodoOK, DayOf
<1>9. SumsOK(j)' /\ GoneOK(j)' /\ ~Holds(j)'
  BY <1>4 DEF SumsOK, GoneOK, InTx, Holds
<1>10. ASSUME NEW k \in Jobs \ {j}
       PROVE  TodoOK(k)' /\ SumsOK(k)' /\ GoneOK(k)'
  <2>1. TodoOK(k) /\ SumsOK(k) /\ GoneOK(k) /\ SameJob(k) /\ DayAt(k)' = DayAt(k)
    BY <1>1, <1>4 DEF JobsInv, SameJob, DayAt
  <2>2. TodoOK(k)'
    BY <1>6, <1>7, <2>1 DEF TodoOK, SameJob, DayOf
  <2>3. SumsOK(k)'
    BY <1>6, <1>7, <2>1 DEF SumsOK, SameJob, InTx
  <2>4. ASSUME Deleting(k)
        PROVE  gone[k] \cap gone[j] = {}
    <3>1. SUFFICES ASSUME NEW r \in gone[k], r \in gone[j] PROVE FALSE
      OBVIOUS
    <3>2. Deleting(j)
      BY <1>1, <3>1 DEF JobsInv, GoneOK
    <3>3. DayAt(k) = DayOf(r) /\ DayAt(j) = DayOf(r) /\ r \in served
      BY <2>4, <3>1, <3>2 DEF Deleting, ServedOf
    <3>4. r.dims \in Dims
      BY <1>1, <3>3, RowFacts DEF RowsInv
    <3>5. sums[j][r.dims] = Total(DayOf(r), r.dims) /\ sums[k][r.dims] = Total(DayOf(r), r.dims)
      BY <2>4, <3>2, <3>3, <3>4 DEF Deleting
    <3>6. r \in CellRows(DayOf(r), r.dims)
      BY <3>3 DEF CellRows
    <3>7. Total(DayOf(r), r.dims) # Zero
      BY <1>1, <3>6, TotalZero
    <3>8. Holds(j) /\ Holds(k) /\ LockOK(j, k)
      BY <1>1, <2>4, <3>2 DEF Holds, Deleting, LockInv
    <3> QED
      BY <3>3, <3>4, <3>5, <3>7, <3>8 DEF LockOK
  <2>5. gone'[k] = {} \/ Deleting(k)'
    <3>1. CASE gone[k] = {}
      BY <2>1, <3>1 DEF SameJob
    <3>2. CASE Deleting(k)
      <4>1. gone[k] \subseteq ledger'
        BY <1>7, <2>4, <3>2 DEF Deleting
      <4> QED
        BY <1>6, <2>1, <3>2, <4>1 DEF Deleting, SameJob
    <3> QED
      BY <2>1, <3>1, <3>2 DEF GoneOK
  <2>6. pc'[k] = "pruned" /\ ~dry'[k] => RowsOf(DayAt(k))' \subseteq gone'[k]
    <3>1. \A d : RowsOf(d) \subseteq gone[k] => RowsOf(d)' \subseteq gone'[k]
      BY <1>7, <2>1 DEF SameJob
    <3> QED
      BY <2>1, <3>1 DEF GoneOK, SameJob
  <2> QED
    BY <2>2, <2>3, <2>5, <2>6 DEF GoneOK
<1>11. JobsInv'
  BY <1>8, <1>9, <1>10 DEF JobsInv
<1>12. ASSUME NEW i \in Jobs, NEW k \in Jobs
       PROVE  LockOK(i, k)'
  <2>1. CASE i = j \/ k = j
    BY <1>9, <2>1 DEF LockOK
  <2>2. CASE i # j /\ k # j
    BY <1>1, <1>4, <2>2, LockFrame DEF LockInv
  <2> QED
    BY <2>1, <2>2
<1> QED
  BY <1>5, <1>11, <1>12 DEF LockInv

LEMMA CommitDayInv ==
  ASSUME IInv, NEW j \in Jobs, CommitDay(j)
  PROVE  IInv'
<1>1. PICK e : e = DayAt(j)
  OBVIOUS
<1>2. pc[j] = "pruned"
  BY DEF CommitDay
<1>3. CommitsAt(j, e)
  BY <1>1, <1>2, DayAtFacts DEF CommitsAt, IInv
<1> QED
  BY <1>3, CommitDays, CommitJobs DEF IInv

LEMMA StutterInv ==
  ASSUME IInv, UNCHANGED vars
  PROVE  IInv'
<1>1. UNCHANGED <<ledger, rollup, today, pc, todo, dry, sums, gone, runs, aborts, served>>
  BY DEF vars, job, bounds
<1>2. RowsInv' /\ DaysInv' /\ FloorInv'
  BY <1>1, DaysFrame DEF IInv
<1>3. JobTypes'
  BY <1>1 DEF IInv, JobTypes
<1>4. JobsInv'
  BY <1>1, JobFrame DEF IInv, JobsInv, SameJob
<1>5. LockInv'
  BY <1>1, LockFrame DEF IInv, LockInv, SameJob
<1> QED
  BY <1>2, <1>3, <1>4, <1>5 DEF IInv

\* A step of the requests appends some row.
LEMMA AppendStep ==
  ASSUME RowsInv, JobTypes, NEW g \in Dims,
         NEW t \in (2 * today - 2 * MaxLag)..(2 * today + 1), t >= 2, AppendUsage(t, g)
  PROVE  \E r : Appended(r)
<1>1. PICK r : /\ ledger' = ledger \cup {r} /\ served' = served \cup {r}
               /\ r \notin served /\ r.dims = g /\ r.id = Cardinality(served) + 1
               /\ r \in Rows /\ DayOf(r) \in Days /\ today - MaxLag <= DayOf(r)
               /\ r.tokens \in 1..MaxRows
  BY AppendFacts
<1>2. r.id \in 1..MaxRows
  BY <1>1 DEF Rows
<1>3. UNCHANGED <<rollup, today, pc, todo, dry, sums, gone, runs, aborts>>
  BY DEF AppendUsage, job, bounds
<1> QED
  BY <1>1, <1>2, <1>3 DEF Appended

LEMMA NextInv == IInv /\ [Next]_vars => IInv'
<1> SUFFICES ASSUME IInv, [Next]_vars PROVE IInv'
  OBVIOUS
<1>1. CASE UNCHANGED vars
  BY <1>1, StutterInv
<1>2. ASSUME NEW g \in Dims, NEW t \in (2 * today - 2 * MaxLag)..(2 * today + 1),
             t >= 2, AppendUsage(t, g)
      PROVE  IInv'
  <2>1. \E r : Appended(r)
    BY <1>2, AppendStep DEF IInv
  <2> QED
    BY <2>1, AppendInv
<1>3. CASE Midnight
  BY <1>3, MidnightInv
<1>4. ASSUME NEW j \in Jobs, NEW n \in Retentions, NEW b \in BOOLEAN, ListDays(j, n, b)
      PROVE  IInv'
  BY <1>4, ListDaysInv
<1>5. ASSUME NEW j \in Jobs,
             SumDay(j) \/ UpsertDay(j) \/ PruneDay(j) \/ CommitDay(j) \/ Abort(j)
      PROVE  IInv'
  BY <1>5, SumDayInv, UpsertDayInv, PruneDayInv, CommitDayInv, AbortInv
<1> QED
  BY <1>1, <1>2, <1>3, <1>4, <1>5 DEF Next

\* What was served on a day is raw or summed up, whatever jobs overlap or fail:
\* the invariant on which every result below rests.
THEOREM RollupInvariant == Spec => []IInv
BY InitInv, NextInv, PTL DEF Spec

-----------------------------------------------------------------------------
(* Types                                                                   *)

LEMMA CellBound ==
  ASSUME IInv, NEW d \in Days, NEW g \in Dims
  PROVE  rollup[d][g].requests <= Cardinality(served)
<1>1. RowsInv /\ (rollup[d][g] = Total(d, g) \/ rollup[d][g] = Zero)
  BY DEF IInv, DaysInv
<1>2. CellRows(d, g) \in SUBSET served /\ Cardinality(served) \in Nat
  BY <1>1, FS_CardinalityType DEF CellRows, RowsInv
<1>3. Counted(CellRows(d, g))
  BY <1>1, <1>2, ServedCounted
<1>4. Total(d, g).requests = Cardinality(CellRows(d, g))
  BY <1>3, AggregateType DEF Total
<1>5. Cardinality(CellRows(d, g)) <= Cardinality(served)
  BY <1>1, <1>2, FS_Subset DEF RowsInv
<1>6. Zero.requests = 0
  BY DEF Zero
<1> QED
  BY <1>1, <1>2, <1>4, <1>5, <1>6

\* The types hold; no cell of usage_daily_rollup counts more than was served, and
\* a transaction of rollupOneDay deletes only rows that are still there.
THEOREM TypeCorrect == Spec => []TypeOK
<1>1. ASSUME IInv PROVE TypeOK
  <2>1. RowsInv /\ JobTypes
    BY <1>1 DEF IInv
  <2>2. gone \in [Jobs -> SUBSET ledger]
    <3>1. \A j \in Jobs : gone[j] \in SUBSET ledger
      BY <1>1 DEF IInv, JobsInv, GoneOK, Deleting
    <3> QED
      BY <2>1, <3>1 DEF JobTypes
  <2>3. \A d \in Days, g \in Dims : rollup[d][g].requests <= Cardinality(served)
    BY <1>1, CellBound
  <2>4. \A j \in Jobs : todo[j] \in SUBSET Days /\ (pc[j] = "idle" <=> todo[j] = {})
    BY <2>1 DEF JobTypes
  <2> QED
    BY <2>1, <2>2, <2>3, <2>4 DEF TypeOK, RowsInv, JobTypes
<1> QED
  BY RollupInvariant, <1>1, PTL

-----------------------------------------------------------------------------
(* Pruned days are final                                                   *)

DaysFinal == \A d \in Days : d < today - MaxLag /\ RowsOf(d) = {} => rollup'[d] = rollup[d]

LEMMA CommitFinal ==
  ASSUME IInv, NEW j \in Jobs, CommitDay(j), NEW d \in Days, RowsOf(d) = {}
  PROVE  rollup'[d] = rollup[d]
<1>1. PICK e : e = DayAt(j)
  OBVIOUS
<1>2. CommitsAt(j, e)
  BY <1>1, DayAtFacts DEF CommitsAt, IInv, CommitDay
<1>3. CASE d # e
  BY <1>2, <1>3, CommitCells
<1>4. CASE d = e
  <2>1. \A g \in Dims : rollup[e][g] = Total(e, g)
    BY <1>4 DEF IInv, DaysInv
  <2>2. \A g \in Dims : rollup'[e][g] = rollup[e][g]
    BY <1>2, <2>1, CommitCells
  <2>3. rollup'[e] \in [Dims -> Measures] /\ rollup[e] \in [Dims -> Measures]
    BY <1>2, <1>4, CommitCells DEF IInv, JobTypes
  <2> QED
    BY <1>4, <2>2, <2>3
<1> QED
  BY <1>3, <1>4

\* No step changes the cells of a day whose raw rows are gone: neither a second
\* rollupOneDay that listed the day before, nor one that had already summed it up.
THEOREM PrunedFinal == Spec => PrunedDaysFinal
<1>1. ASSUME IInv, [Next]_vars PROVE [DaysFinal]_vars
  <2>1. CASE rollup' = rollup
    BY <2>1 DEF DaysFinal
  <2>2. ASSUME NEW j \in Jobs, CommitDay(j)
        PROVE  DaysFinal
    BY <1>1, <2>2, CommitFinal DEF DaysFinal
  <2>3. UNCHANGED vars \/ rollup' = rollup \/ \E j \in Jobs : CommitDay(j)
    BY <1>1 DEF Next, AppendUsage, Midnight, ListDays, SumDay, UpsertDay, PruneDay, Abort
  <2> QED
    BY <2>1, <2>2, <2>3
<1>2. IInv /\ [Next]_vars => [DaysFinal]_vars
  BY <1>1
<1>3. Spec => [][DaysFinal]_vars
  BY RollupInvariant, <1>2, PTL DEF Spec
<1> QED
  BY <1>3 DEF PrunedDaysFinal, DaysFinal

-----------------------------------------------------------------------------
(* The book                                                                *)

\* Before the oldest raw day nothing is raw, from it on everything is.
LEMMA FloorFacts ==
  ASSUME IInv
  PROVE  /\ FloorDay \in Int
         /\ \A r \in ledger : FloorDay <= DayOf(r)
         /\ \A d \in Days : d < FloorDay => RowsOf(d) = {}
         /\ \A d \in Days : FloorDay <= d => Kept(d)
<1>1. RowsInv /\ FloorInv /\ MaxDay \in Nat
  BY RollupAssumption DEF IInv
<1>2. \A r \in ledger : DayOf(r) \in Days
  BY <1>1, RowFacts DEF RowsInv
<1>3. \A d \in Days : d \in Int /\ d <= MaxDay
  BY <1>1 DEF Days
<1>4. CASE ledger = {}
  <2>1. FloorDay = MaxDay + 1
    BY <1>4 DEF FloorDay
  <2>2. \A d \in Days : RowsOf(d) = {} /\ ~(FloorDay <= d)
    BY <1>1, <1>3, <1>4, <2>1 DEF RowsOf
  <2> QED
    BY <1>1, <1>4, <2>1, <2>2
<1>5. CASE ledger # {}
  <2> DEFINE S == {DayOf(r) : r \in ledger}
  <2>1. S \in SUBSET Days /\ S # {}
    BY <1>2, <1>5
  <2>2. FloorDay = Min(S)
    BY <1>5 DEF FloorDay
  <2>3. Min(S) \in S /\ \A d \in S : Min(S) <= d
    <3> HIDE DEF S
    <3> QED
      BY <2>1, MinDay
  <2>4. \A r \in ledger : FloorDay <= DayOf(r)
    BY <2>2, <2>3
  <2>5. PICK r \in ledger : FloorDay = DayOf(r)
    BY <2>2, <2>3
  <2>6. FloorDay \in Int
    BY <1>2, <1>3, <2>5
  <2>7. \A d \in Days : FloorDay <= d => Kept(d)
    BY <1>1, <2>5 DEF FloorInv
  <2>8. \A d \in Days : d < FloorDay => RowsOf(d) = {}
    BY <1>3, <2>4, <2>6 DEF RowsOf
  <2> QED
    BY <2>4, <2>6, <2>7, <2>8
<1> QED
  BY <1>4, <1>5

\* The book is what was served.
ServedBook == [d \in Days |-> [g \in Dims |-> Total(d, g)]]

LEMMA BookedServed ==
  ASSUME IInv
  PROVE  Booked = ServedBook
<1>1. SUFFICES ASSUME NEW d \in Days, NEW g \in Dims
      PROVE  (IF d < FloorDay THEN rollup[d][g] ELSE Aggregate({r \in RowsOf(d) : r.dims = g}))
               = Total(d, g)
  BY DEF Booked, ServedBook
<1>2. d \in Int /\ FloorDay \in Int
  BY FloorFacts DEF Days
<1>3. CASE d < FloorDay
  <2>1. RowsOf(d) = {}
    BY <1>3, FloorFacts
  <2>2. rollup[d][g] = Total(d, g)
    BY <2>1 DEF IInv, DaysInv
  <2> QED
    BY <1>3, <2>2
<1>4. CASE ~(d < FloorDay)
  <2>1. Kept(d)
    BY <1>2, <1>4, FloorFacts
  <2>2. {r \in RowsOf(d) : r.dims = g} = CellRows(d, g)
    BY <2>1 DEF Kept, RowsOf, ServedOf, CellRows, IInv, RowsInv
  <2> QED
    BY <1>4, <2>2 DEF Total
<1> QED
  BY <1>3, <1>4

LEMMA BookedServedNext == IInv' => (Booked = ServedBook)'
<1>1. IInv => Booked = ServedBook
  BY BookedServed
<1> QED
  BY <1>1, PTL

\* A change of one cell, as a function.
LEMMA OneCell ==
  ASSUME NEW D, NEW G, NEW M, NEW F \in [D -> [G -> M]], NEW e \in D, NEW h \in G, NEW v
  PROVE  [F EXCEPT ![e][h] = v]
           = [d \in D |-> [g \in G |-> IF d = e /\ g = h THEN v ELSE F[d][g]]]
<1> DEFINE L == [F EXCEPT ![e] = [F[e] EXCEPT ![h] = v]]
           R == [d \in D |-> [g \in G |-> IF d = e /\ g = h THEN v ELSE F[d][g]]]
<1>1. L[e] = R[e]
  OBVIOUS
<1>2. ASSUME NEW d \in D \ {e} PROVE L[d] = R[d]
  <2>1. L[d] = F[d] /\ F[d] \in [G -> M]
    OBVIOUS
  <2>2. R[d] = [g \in G |-> F[d][g]]
    OBVIOUS
  <2>3. F[d] = [g \in G |-> F[d][g]]
    BY <2>1
  <2> QED
    BY <2>1, <2>2, <2>3
<1>3. L = R
  BY <1>1, <1>2
<1> QED
  BY <1>3

\* Adding a request to the book.
LEMMA BookAdd ==
  ASSUME IInv, NEW r, Appended(r)
  PROVE  /\ r.dims \in Dims /\ r.tokens \in 1..MaxRows /\ DayOf(r) \in Days
         /\ ServedBook' = [ServedBook EXCEPT ![DayOf(r)][r.dims] =
                             [requests |-> @.requests + 1, tokens |-> @.tokens + r.tokens]]
<1> DEFINE e == DayOf(r)
           h == r.dims
<1>1. h \in Dims /\ r.tokens \in 1..MaxRows /\ r.tokens \in Nat /\ e \in Days
  BY RowFacts DEF Appended
<1>2. RowsInv
  BY DEF IInv
<1>3. \A d, g : d # e \/ g # h => CellRows(d, g)' = CellRows(d, g)
  BY DEF CellRows, Appended, DayOf
<1>4. CellRows(e, h)' = CellRows(e, h) \cup {r} /\ r \notin CellRows(e, h)
  BY DEF CellRows, Appended, DayOf
<1>5. Counted(CellRows(e, h))
  <2>1. CellRows(e, h) \in SUBSET served
    BY DEF CellRows
  <2> QED
    BY <1>2, <2>1, ServedCounted
<1>6. Aggregate(CellRows(e, h) \cup {r}) =
        [requests |-> Total(e, h).requests + 1, tokens |-> Total(e, h).tokens + r.tokens]
  BY <1>1, <1>4, <1>5, AggregateAdd DEF Total
<1>7. Total(e, h)' = [requests |-> Total(e, h).requests + 1, tokens |-> Total(e, h).tokens + r.tokens]
  BY <1>4, <1>6 DEF Total, DayOf
<1>8. \A d, g : d # e \/ g # h => Total(d, g)' = Total(d, g)
  BY <1>3 DEF Total
<1>9. ServedBook \in [Days -> [Dims -> Measures]]
  BY <1>2, TotalZero DEF ServedBook
<1>10. ServedBook[e][h] = Total(e, h) /\ \A d \in Days, g \in Dims : ServedBook[d][g] = Total(d, g)
  BY <1>1 DEF ServedBook
<1> DEFINE v == [requests |-> Total(e, h).requests + 1, tokens |-> Total(e, h).tokens + r.tokens]
<1>11. ServedBook' = [d \in Days |-> [g \in Dims |-> IF d = e /\ g = h THEN v ELSE ServedBook[d][g]]]
  BY <1>7, <1>8, <1>10 DEF ServedBook
<1>12. [ServedBook EXCEPT ![e][h] = v]
          = [d \in Days |-> [g \in Dims |-> IF d = e /\ g = h THEN v ELSE ServedBook[d][g]]]
  <2> HIDE DEF v
  <2> QED
    BY <1>1, <1>9, OneCell
<1>13. ServedBook' = [ServedBook EXCEPT ![e][h] = v]
  BY <1>11, <1>12
<1> QED
  BY <1>1, <1>10, <1>13

\* Every step but an append leaves what was served alone.
LEMMA ServedSteps ==
  ASSUME IInv, [Next]_vars
  PROVE  served' = served \/ \E r : Appended(r)
<1>1. ASSUME NEW g \in Dims, NEW t \in (2 * today - 2 * MaxLag)..(2 * today + 1),
             t >= 2, AppendUsage(t, g)
      PROVE  \E r : Appended(r)
  BY <1>1, AppendStep DEF IInv
<1>2. CASE UNCHANGED vars
  BY <1>2 DEF vars
<1>3. CASE Midnight
  BY <1>3 DEF Midnight
<1>4. ASSUME NEW j \in Jobs, NEW n \in Retentions, NEW b \in BOOLEAN, ListDays(j, n, b)
      PROVE  served' = served
  BY <1>4 DEF ListDays
<1>5. ASSUME NEW j \in Jobs,
             SumDay(j) \/ UpsertDay(j) \/ PruneDay(j) \/ CommitDay(j) \/ Abort(j)
      PROVE  served' = served
  BY <1>5 DEF SumDay, UpsertDay, PruneDay, CommitDay, Abort
<1> QED
  BY <1>1, <1>2, <1>3, <1>4, <1>5 DEF Next

\* The two tables implement the book: a request is one addition to it, and
\* RollupAndPruneUsage, however it overlaps, fails or is repeated, is invisible.
THEOREM Refines == Spec => BookSpec
<1>1. ASSUME Init PROVE Book!Init
  <2>1. IInv
    BY <1>1, InitInv
  <2>2. \A d \in Days, g \in Dims : Total(d, g) = Zero
    <3>1. \A d \in Days, g \in Dims : CellRows(d, g) = {}
      BY <1>1 DEF CellRows, Init
    <3> QED
      BY <2>1, <3>1, TotalZero DEF IInv
  <2>3. Booked = [d \in Days |-> [g \in Dims |-> Zero]]
    BY <2>1, <2>2, BookedServed DEF ServedBook
  <2> QED
    BY <2>3 DEF Book!Init, Zero
<1>2. ASSUME IInv, IInv', [Next]_vars PROVE [Book!Next]_Booked
  <2>1. Booked = ServedBook /\ Booked' = ServedBook'
    BY <1>2, BookedServed, BookedServedNext
  <2>2. CASE served' = served
    <3>1. \A d, g : Total(d, g)' = Total(d, g)
      BY <2>2, SameServed
    <3>2. ServedBook' = ServedBook
      BY <3>1 DEF ServedBook
    <3> QED
      BY <2>1, <3>2
  <2>3. ASSUME NEW r, Appended(r) PROVE Book!Next
    <3>1. /\ r.dims \in Dims /\ r.tokens \in 1..MaxRows /\ DayOf(r) \in Days
          /\ ServedBook' = [ServedBook EXCEPT ![DayOf(r)][r.dims] =
                              [requests |-> @.requests + 1, tokens |-> @.tokens + r.tokens]]
      BY <1>2, <2>3, BookAdd
    <3>2. Book!Add(DayOf(r), r.dims, r.tokens)
      BY <2>1, <3>1 DEF Book!Add
    <3> QED
      BY <3>1, <3>2 DEF Book!Next
  <2> QED
    BY <1>2, <2>2, <2>3, ServedSteps
<1> QED
  BY <1>1, <1>2, RollupInvariant, PTL DEF Spec, BookSpec, Book!Spec

-----------------------------------------------------------------------------
(* The reports                                                             *)

\* Exact cells add up to the measure of the rows they stand for.
LEMMA AddUpExact ==
  ASSUME RowsInv, NEW E \in SUBSET Days, NEW D \in SUBSET Dims,
         \A d \in E, g \in D : rollup[d][g] = Total(d, g)
  PROVE  AddUp(E \X D) = Aggregate({r \in served : DayOf(r) \in E /\ r.dims \in D})
<1> DEFINE C == E \X D
           U == {r \in served : DayOf(r) \in E /\ r.dims \in D}
           A == [c \in C |-> CellRows(c[1], c[2])]
           B == [c \in C |-> Tokens(CellRows(c[1], c[2]))]
           f == [c \in C |-> rollup[c[1]][c[2]].requests]
           h == [c \in C |-> rollup[c[1]][c[2]].tokens]
<1>1. Counted(U)
  BY ServedCounted
<1>2. ASSUME NEW c \in C
      PROVE  /\ A[c] \in SUBSET U /\ Counted(A[c]) /\ B[c] = Tokens(A[c])
             /\ f[c] = Aggregate(A[c]).requests /\ h[c] = Aggregate(A[c]).tokens
             /\ \A r \in A[c] : c = <<DayOf(r), r.dims>>
  <2>1. c[1] \in E /\ c[2] \in D /\ c = <<c[1], c[2]>>
    OBVIOUS
  <2>2. A[c] = CellRows(c[1], c[2]) /\ B[c] = Tokens(A[c])
    OBVIOUS
  <2>3. A[c] \in SUBSET U
    BY <2>1, <2>2 DEF CellRows
  <2>4. A[c] \in SUBSET served
    BY <2>3
  <2>5. Counted(A[c])
    <3> HIDE DEF A
    <3> QED
      BY <2>4, ServedCounted
  <2>6. rollup[c[1]][c[2]] = Aggregate(A[c])
    BY <2>1, <2>2 DEF Total
  <2>7. f[c] = rollup[c[1]][c[2]].requests /\ h[c] = rollup[c[1]][c[2]].tokens
    OBVIOUS
  <2>8. \A r \in A[c] : c = <<DayOf(r), r.dims>>
    BY <2>1, <2>2 DEF CellRows
  <2> HIDE DEF A, B, f, h, C, U
  <2> QED
    BY <2>2, <2>3, <2>5, <2>6, <2>7, <2>8
<1>3. ASSUME NEW r \in U
      PROVE  <<DayOf(r), r.dims>> \in C /\ r \in A[<<DayOf(r), r.dims>>]
  BY DEF CellRows
<1>4. DOMAIN f = C /\ DOMAIN h = C /\ f = [c \in C |-> f[c]] /\ h = [c \in C |-> h[c]]
      /\ A = [c \in C |-> A[c]] /\ B = [c \in C |-> B[c]]
  OBVIOUS
<1>5. AddUp(C) = [requests |-> SumOf(f), tokens |-> SumOf(h)]
  BY DEF AddUp
<1> HIDE DEF A, B, f, h, C, U
<1>6. SumOf(f) = Cardinality(U)
  <2>1. f \in [C -> Nat]
    <3>1. \A c \in C : f[c] \in Nat
      BY <1>2, AggregateType DEF Measures
    <3> QED
      BY <1>4, <3>1
  <2>2. A \in [C -> SUBSET U]
    BY <1>2, <1>4
  <2>3. \A c \in C : f[c] = Cardinality(A[c])
    BY <1>2, AggregateType
  <2>4. \A x, y \in C : x # y => A[x] \cap A[y] = {}
    BY <1>2
  <2>5. \A u \in U : \E c \in C : u \in A[c]
    BY <1>3
  <2>6. IsFiniteSet(U)
    BY <1>1 DEF Counted
  <2> QED
    BY <2>1, <2>2, <2>3, <2>4, <2>5, <2>6, SumOfParts
<1>7. SumOf(h) = Cardinality(Tokens(U))
  <2>1. h \in [C -> Nat] /\ \A c \in C : h[c] = Cardinality(B[c])
    <3>1. \A c \in C : h[c] \in Nat /\ h[c] = Cardinality(B[c])
      BY <1>2, TokensFinite
    <3> QED
      BY <1>4, <3>1
  <2>2. ASSUME NEW c \in C, NEW p \in B[c]
        PROVE  p \in Tokens(U) /\ c = <<DayOf(p[1]), p[1].dims>>
    <3>1. p[1] \in A[c] /\ p[2] \in 1..p[1].tokens /\ p = <<p[1], p[2]>>
      BY <1>2, TokensFinite
    <3>2. p[1] \in U /\ p[2] \in Nat
      BY <1>2, <3>1
    <3>3. <<p[1], p[2]>> \in Tokens(U)
      BY <1>1, <3>1, <3>2, TokensFinite
    <3> QED
      BY <1>2, <3>1, <3>3
  <2>3. B \in [C -> SUBSET Tokens(U)]
    BY <1>4, <2>2
  <2>4. \A x, y \in C : x # y => B[x] \cap B[y] = {}
    BY <2>2
  <2>5. ASSUME NEW p \in Tokens(U)
        PROVE  \E c \in C : p \in B[c]
    <3>1. p[1] \in U /\ p[2] \in 1..p[1].tokens /\ p = <<p[1], p[2]>>
      BY <1>1, TokensFinite
    <3>2. PICK c \in C : p[1] \in A[c]
      BY <1>3, <3>1
    <3>3. p[2] \in Nat
      BY <3>1
    <3>4. <<p[1], p[2]>> \in Tokens(A[c])
      BY <1>2, <3>1, <3>2, <3>3, TokensFinite
    <3> QED
      BY <1>2, <3>1, <3>4
  <2>6. IsFiniteSet(Tokens(U))
    BY <1>1, TokensFinite
  <2> QED
    BY <2>1, <2>3, <2>4, <2>5, <2>6, SumOfParts
<1>8. Aggregate(U) = [requests |-> Cardinality(U), tokens |-> Cardinality(Tokens(U))]
  BY DEF Aggregate, SumOf, Tokens, TokensOf, Points
<1> QED
  BY <1>5, <1>6, <1>7, <1>8 DEF C, U

\* What a report over all of history selects, and what the two tables give: their
\* raw rows, and the rows behind the cells of the days before the oldest raw one.
Selected(since, D) == {r \in served : r.t >= since /\ r.dims \in D}
Pruned(since, D) ==
  {r \in served : since \div 2 <= DayOf(r) /\ DayOf(r) < FloorDay /\ r.dims \in D}
Seen(since, D) == {r \in ledger : r.t >= since /\ r.dims \in D} \cup Pruned(since, D)

LEMMA ReportSeen ==
  ASSUME IInv, NEW since \in Int, NEW D \in SUBSET Dims
  PROVE  /\ Report(since, D) = Aggregate(Seen(since, D))
         /\ Counted(Seen(since, D)) /\ Seen(since, D) \in SUBSET served
<1> DEFINE E == {d \in Days : since \div 2 <= d /\ d < FloorDay}
           L == {r \in ledger : r.t >= since /\ r.dims \in D}
<1>1. RowsInv /\ L \in SUBSET served /\ Pruned(since, D) \in SUBSET served
  BY DEF IInv, RowsInv, Pruned
<1>2. \A d \in E, g \in D : rollup[d][g] = Total(d, g)
  <2>1. SUFFICES ASSUME NEW d \in E, NEW g \in D PROVE rollup[d][g] = Total(d, g)
    OBVIOUS
  <2>2. d \in Days /\ g \in Dims /\ RowsOf(d) = {}
    BY FloorFacts
  <2> QED
    BY <2>2 DEF IInv, DaysInv
<1>3. {r \in served : DayOf(r) \in E /\ r.dims \in D} = Pruned(since, D)
  <2>1. \A r \in served : DayOf(r) \in Days
    BY <1>1, RowFacts DEF RowsInv
  <2> QED
    BY <2>1 DEF Pruned
<1>4. Rolled(since, D) = Aggregate(Pruned(since, D))
  <2>1. Rolled(since, D) = AddUp(E \X D)
    BY DEF Rolled
  <2>2. AddUp(E \X D) = Aggregate({r \in served : DayOf(r) \in E /\ r.dims \in D})
    <3> HIDE DEF E
    <3>1. E \in SUBSET Days
      BY DEF E
    <3> QED
      BY <1>1, <1>2, <3>1, AddUpExact
  <2> QED
    BY <1>3, <2>1, <2>2
<1>5. L \cap Pruned(since, D) = {}
  <2>1. ASSUME NEW r \in L, r \in Pruned(since, D) PROVE FALSE
    <3>1. FloorDay <= DayOf(r) /\ DayOf(r) < FloorDay /\ FloorDay \in Int
      BY <2>1, FloorFacts DEF Pruned
    <3>2. DayOf(r) \in Int
      BY <1>1, RowFacts DEF RowsInv, Days
    <3> QED
      BY <3>1, <3>2
  <2> QED
    BY <2>1
<1>6. Counted(L) /\ Counted(Pruned(since, D))
  BY <1>1, ServedCounted
<1>7. Raw(since, D) = Aggregate(L)
  BY DEF Raw
<1>8. Seen(since, D) = L \cup Pruned(since, D)
  BY DEF Seen
<1> HIDE DEF L
<1>9. /\ Counted(L \cup Pruned(since, D))
      /\ Aggregate(L \cup Pruned(since, D)) = Plus(Aggregate(L), Aggregate(Pruned(since, D)))
  BY <1>5, <1>6, AggregateUnion
<1> QED
  BY <1>1, <1>4, <1>7, <1>8, <1>9 DEF Report

\* A window of whole days sees exactly what it selects; any window sees at least
\* that, and no more than the whole days it touches.
LEMMA SeenBounds ==
  ASSUME IInv, NEW since \in Int, NEW D
  PROVE  /\ Selected(since, D) \subseteq Seen(since, D)
         /\ Seen(since, D) \subseteq Selected(2 * (since \div 2), D)
         /\ since = 2 * (since \div 2) => Seen(since, D) = Selected(since, D)
<1>1. /\ RowsInv /\ FloorDay \in Int /\ since \div 2 \in Int
      /\ 2 * (since \div 2) <= since /\ since <= 2 * (since \div 2) + 1
  BY HalfDays, FloorFacts DEF IInv
<1>2. ASSUME NEW r \in served
      PROVE  /\ r.t \in Int /\ DayOf(r) \in Int /\ DayOf(r) \in Days
             /\ 2 * DayOf(r) <= r.t /\ r.t <= 2 * DayOf(r) + 1
  BY <1>1, RowFacts, HalfDays DEF RowsInv, DayOf
<1>3. Selected(since, D) \subseteq Seen(since, D)
  <2>1. SUFFICES ASSUME NEW r \in Selected(since, D) PROVE r \in Seen(since, D)
    OBVIOUS
  <2>2. r \in served /\ r.t >= since /\ r.dims \in D
    BY DEF Selected
  <2>3. since \div 2 <= DayOf(r)
    BY <1>1, <1>2, <2>2
  <2>4. CASE FloorDay <= DayOf(r)
    <3>1. Kept(DayOf(r))
      BY <1>2, <2>2, <2>4, FloorFacts
    <3>2. r \in ledger
      BY <2>2, <3>1 DEF Kept, ServedOf
    <3> QED
      BY <2>2, <3>2 DEF Seen
  <2>5. CASE DayOf(r) < FloorDay
    BY <2>2, <2>3, <2>5 DEF Seen, Pruned
  <2> QED
    BY <1>1, <1>2, <2>2, <2>4, <2>5
<1>4. Seen(since, D) \subseteq Selected(2 * (since \div 2), D)
  <2>1. ASSUME NEW r \in ledger, r.t >= since, r.dims \in D
        PROVE  r \in Selected(2 * (since \div 2), D)
    <3>1. r \in served
      BY <1>1 DEF RowsInv
    <3> QED
      BY <1>1, <1>2, <2>1, <3>1 DEF Selected
  <2>2. ASSUME NEW r \in Pruned(since, D)
        PROVE  r \in Selected(2 * (since \div 2), D)
    <3>1. r \in served /\ since \div 2 <= DayOf(r) /\ r.dims \in D
      BY DEF Pruned
    <3> QED
      BY <1>1, <1>2, <3>1 DEF Selected
  <2> QED
    BY <2>1, <2>2 DEF Seen
<1> QED
  BY <1>3, <1>4

\* Cells that were never written add up to nothing.
LEMMA NoCells ==
  ASSUME NEW C \in SUBSET (Days \X Dims)
  PROVE  /\ SumOf([c \in C |-> EmptyRollup[c[1]][c[2]].requests]) = 0
         /\ SumOf([c \in C |-> EmptyRollup[c[1]][c[2]].tokens]) = 0
<1>1. ASSUME NEW f \in [C -> {0}] PROVE SumOf(f) = 0
  <2>1. f \in [C -> Nat] /\ \A c \in C : f[c] = 0
    OBVIOUS
  <2>2. ASSUME NEW p \in Points(f) PROVE FALSE
    <3>1. p[1] \in C /\ p[2] \in 1..f[p[1]]
      BY <2>1, <2>2, PointsAreBelow
    <3>2. f[p[1]] = 0
      BY <2>1, <3>1
    <3>3. p[2] \in 1..0
      BY <3>1, <3>2
    <3> QED
      BY <3>3
  <2>3. Points(f) = {}
    BY <2>2
  <2> QED
    BY <2>3, FS_EmptySet DEF SumOf, Points
<1>2. ASSUME NEW c \in C
      PROVE  EmptyRollup[c[1]][c[2]].requests = 0 /\ EmptyRollup[c[1]][c[2]].tokens = 0
  BY DEF EmptyRollup, Zero
<1>3. /\ [c \in C |-> EmptyRollup[c[1]][c[2]].requests] \in [C -> {0}]
      /\ [c \in C |-> EmptyRollup[c[1]][c[2]].tokens] \in [C -> {0}]
  BY <1>2
<1> QED
  BY <1>1, <1>3

\* The instance of the reports counts as they do.
LEMMA FullCardinality ==
  ASSUME NEW S
  PROVE  Full!Cardinality(S) = Cardinality(S)
BY DEF Full!Cardinality, Cardinality

LEMMA FullSumOf ==
  ASSUME NEW f
  PROVE  Full!SumOf(f) = SumOf(f)
BY FullCardinality DEF Full!SumOf, SumOf

\* Over a ledger that was never pruned there are no cells.
LEMMA FullCells ==
  ASSUME NEW C \in SUBSET (Days \X Dims)
  PROVE  Full!AddUp(C) = Zero
BY NoCells, FullSumOf DEF Full!AddUp, Zero

LEMMA FullAggregate ==
  ASSUME NEW S
  PROVE  Full!Aggregate(S) = Aggregate(S)
BY FullSumOf, FullCardinality DEF Full!Aggregate, Aggregate

LEMMA PlusZero ==
  ASSUME NEW S, Counted(S)
  PROVE  Plus(Aggregate(S), Zero) = Aggregate(S)
<1>1. Aggregate(S) \in Measures
  BY AggregateType
<1>2. ASSUME NEW m \in Measures PROVE Plus(m, Zero) = m
  BY DEF Plus, Zero, Measures
<1> QED
  BY <1>1, <1>2

LEMMA FullReport ==
  ASSUME IInv, NEW since \in Int, NEW D \in SUBSET Dims
  PROVE  /\ Full!Raw(since, D) = Aggregate(Selected(since, D))
         /\ Full!Report(since, D) = Aggregate(Selected(since, D))
         /\ Counted(Selected(since, D)) /\ Selected(since, D) \in SUBSET served
<1>1. Selected(since, D) \in SUBSET served /\ Counted(Selected(since, D))
  BY ServedCounted DEF IInv, Selected
<1>2. Full!Raw(since, D) = Aggregate(Selected(since, D))
  BY FullAggregate DEF Full!Raw, Selected
<1>3. Full!Rolled(since, D) = Zero
  <2>1. {d \in Days : since \div 2 <= d /\ d < Full!FloorDay} \X D \in SUBSET (Days \X Dims)
    OBVIOUS
  <2> QED
    BY <2>1, FullCells DEF Full!Rolled, Full!Days, Days
<1>4. Full!Report(since, D) = Plus(Full!Raw(since, D), Full!Rolled(since, D))
  BY DEF Full!Report, Full!Plus, Plus
<1> QED
  BY <1>1, <1>2, <1>3, <1>4, PlusZero

LEMMA WholeDays ==
  ASSUME NEW d \in Days
  PROVE  2 * d \in Int /\ (2 * d) \div 2 = d
BY RollupAssumption DEF Days

LEMMA ExactReport ==
  ASSUME IInv, NEW d \in Days, NEW D \in SUBSET Dims
  PROVE  Report(2 * d, D) = Full!Report(2 * d, D)
<1>1. PICK since \in Int : since = 2 * d /\ since \div 2 = d
  BY WholeDays
<1>2. Report(since, D) = Aggregate(Seen(since, D))
  BY ReportSeen
<1>3. Full!Report(since, D) = Aggregate(Selected(since, D))
  BY FullReport
<1>4. Seen(since, D) = Selected(since, D)
  BY <1>1, SeenBounds
<1>5. Report(since, D) = Full!Report(since, D)
  BY <1>2, <1>3, <1>4
<1> QED
  BY <1>1, <1>5

\* A day bucket has the rows of its day, raw or summed up.
LEMMA ExactBucket ==
  ASSUME IInv, NEW d \in Days, NEW x \in Days, NEW D \in SUBSET Dims
  PROVE  DayBucket(2 * d, x, D) = Full!DayBucket(2 * d, x, D)
<1>1. PICK since \in Int : since = 2 * d /\ since \div 2 = d
  BY WholeDays
<1> DEFINE T == {r \in served : r.t >= since /\ DayOf(r) = x /\ r.dims \in D}
           L == {r \in ledger : r.t >= since /\ DayOf(r) = x /\ r.dims \in D}
           V == IF d <= x /\ x < FloorDay THEN AddUp({x} \X D) ELSE Zero
<1>2. /\ RowsInv /\ FloorDay \in Int /\ d \in Int /\ x \in Int
      /\ T \in SUBSET served /\ L \in SUBSET served
  BY FloorFacts DEF IInv, RowsInv, Days
<1>3. Counted(T) /\ Counted(L)
  BY <1>2, ServedCounted
<1>4. DayBucket(since, x, D) = Plus(Aggregate(L), V)
  BY <1>1 DEF DayBucket
<1>5. Full!DayBucket(since, x, D) = Aggregate(T)
  <2>1. {x} \X D \in SUBSET (Days \X Dims)
    OBVIOUS
  <2>2. Full!AddUp({x} \X D) = Zero /\ Full!Zero = Zero
    BY <2>1, FullCells DEF Full!Zero, Zero
  <2>3. Full!Aggregate(T) = Aggregate(T)
    BY FullAggregate
  <2>4. Full!DayBucket(since, x, D) = Plus(Full!Aggregate(T), Zero)
    BY <2>2 DEF Full!DayBucket, Full!Plus, Plus, Full!DayOf, DayOf
  <2> HIDE DEF T
  <2> QED
    BY <1>3, <2>3, <2>4, PlusZero
<1>6. ASSUME NEW r \in served
      PROVE  r.t \in Int /\ 2 * DayOf(r) <= r.t /\ r.t <= 2 * DayOf(r) + 1 /\ DayOf(r) \in Int
  BY <1>2, RowFacts, HalfDays DEF RowsInv, DayOf, Days
<1>7. Plus(Aggregate(L), V) = Aggregate(T)
  <2>1. CASE x < FloorDay
    <3>1. RowsOf(x) = {} /\ L = {}
      BY <2>1, FloorFacts DEF RowsOf
    <3>2. Aggregate(L) = Zero
      BY <1>3, <3>1, AggregateType
    <3>3. CASE d <= x
      <4>1. \A e \in {x}, g \in D : rollup[e][g] = Total(e, g)
        BY <3>1 DEF IInv, DaysInv
      <4>2. AddUp({x} \X D) = Aggregate({r \in served : DayOf(r) \in {x} /\ r.dims \in D})
        BY <1>2, <4>1, AddUpExact
      <4>3. {r \in served : DayOf(r) \in {x} /\ r.dims \in D} = T
        BY <1>1, <1>2, <1>6, <3>3
      <4>4. V = Aggregate(T)
        BY <2>1, <3>3, <4>2, <4>3
      <4>5. Aggregate(T) \in Measures
        BY <1>3, AggregateType
      <4>6. \A m \in Measures : Plus(Zero, m) = m
        BY DEF Plus, Zero, Measures
      <4> HIDE DEF T, L, V
      <4> QED
        BY <3>2, <4>4, <4>5, <4>6
    <3>4. CASE ~(d <= x)
      <4>1. T = {}
        BY <1>1, <1>2, <1>6, <3>4
      <4>2. V = Zero /\ Aggregate(T) = Zero
        BY <1>3, <3>4, <4>1, AggregateType
      <4>3. Plus(Zero, Zero) = Zero
        BY DEF Plus, Zero
      <4> HIDE DEF T, L, V
      <4> QED
        BY <3>2, <4>2, <4>3
    <3> QED
      BY <3>3, <3>4
  <2>2. CASE ~(x < FloorDay)
    <3>1. Kept(x)
      BY <1>2, <2>2, FloorFacts
    <3>2. L = T
      BY <1>2, <3>1 DEF Kept, ServedOf, RowsInv
    <3>3. V = Zero
      BY <2>2
    <3> HIDE DEF T, L, V
    <3> QED
      BY <1>3, <3>2, <3>3, PlusZero
  <2> QED
    BY <2>1, <2>2
<1>8. DayBucket(since, x, D) = Full!DayBucket(since, x, D)
  BY <1>4, <1>5, <1>7
<1> QED
  BY <1>1, <1>8

\* The selections of the two instances are the same.
LEMMA FullSelections ==
  /\ \A field : Full!Values(field) = Values(field)
  /\ \A field, v : Full!Where(field, v) = Where(field, v) /\ Where(field, v) \in SUBSET Dims
  /\ Full!Success = Success /\ Success \in SUBSET Dims
BY DEF Full!Values, Full!Where, Full!Success, Values, Where, Success

LEMMA ExactOutcomes ==
  ASSUME IInv, NEW d \in Days, NEW D \in SUBSET Dims
  PROVE  Outcomes(2 * d, D) = Full!Outcomes(2 * d, D)
<1>1. D \cap Success \in SUBSET Dims /\ D \ Success \in SUBSET Dims /\ Full!Success = Success
  BY FullSelections
<1>2. /\ Report(2 * d, D) = Full!Report(2 * d, D)
      /\ Report(2 * d, D \cap Success) = Full!Report(2 * d, D \cap Success)
      /\ Report(2 * d, D \ Success) = Full!Report(2 * d, D \ Success)
  BY <1>1, ExactReport
<1> QED
  BY <1>1, <1>2 DEF Outcomes, Full!Outcomes

LEMMA ReportsOK ==
  ASSUME IInv, NEW d \in Days
  PROVE  AllReports(2 * d) = Full!AllReports(2 * d)
<1>1. ListUsageSummaryGrouped(2 * d) = Full!ListUsageSummaryGrouped(2 * d)
  <2>1. \A a, b : Where("group", a) \cap Where("user", b) \in SUBSET Dims
    BY FullSelections
  <2>2. \A a, b : Report(2 * d, Where("group", a) \cap Where("user", b))
                    = Full!Report(2 * d, Where("group", a) \cap Where("user", b))
    BY <2>1, ExactReport
  <2> QED
    BY <2>2, FullSelections DEF ListUsageSummaryGrouped, Full!ListUsageSummaryGrouped
<1>2. ListProviderStats(2 * d) = Full!ListProviderStats(2 * d)
  <2>1. \A a : Outcomes(2 * d, Where("prefix", a)) = Full!Outcomes(2 * d, Where("prefix", a))
    BY FullSelections, ExactOutcomes
  <2> QED
    BY <2>1, FullSelections DEF ListProviderStats, Full!ListProviderStats
<1>3. ListTopModels(2 * d) = Full!ListTopModels(2 * d)
  <2>1. \A a : Outcomes(2 * d, Where("model", a)) = Full!Outcomes(2 * d, Where("model", a))
    BY FullSelections, ExactOutcomes
  <2> QED
    BY <2>1, FullSelections DEF ListTopModels, Full!ListTopModels
<1>4. ListBillingModeBreakdown(2 * d) = Full!ListBillingModeBreakdown(2 * d)
  <2>1. \A a : Report(2 * d, Where("mode", a)) = Full!Report(2 * d, Where("mode", a))
    BY FullSelections, ExactReport
  <2> QED
    BY <2>1, FullSelections DEF ListBillingModeBreakdown, Full!ListBillingModeBreakdown
<1>5. ListStatusBreakdown(2 * d) = Full!ListStatusBreakdown(2 * d)
  <2>1. \A a : Report(2 * d, Where("status", a)) = Full!Report(2 * d, Where("status", a))
    BY FullSelections, ExactReport
  <2> QED
    BY <2>1, FullSelections DEF ListStatusBreakdown, Full!ListStatusBreakdown
<1>6. ListErrorCodeBreakdown(2 * d) = Full!ListErrorCodeBreakdown(2 * d)
  <2>1. \A a : Where("code", a) \ Success \in SUBSET Dims
    BY FullSelections
  <2>2. \A a : Report(2 * d, Where("code", a) \ Success)
                 = Full!Report(2 * d, Where("code", a) \ Success)
    BY <2>1, ExactReport
  <2> QED
    BY <2>2, FullSelections DEF ListErrorCodeBreakdown, Full!ListErrorCodeBreakdown
<1>7. ListUsageTimeseries(2 * d) = Full!ListUsageTimeseries(2 * d)
  <2>1. \A x \in Days : /\ DayBucket(2 * d, x, Dims) = Full!DayBucket(2 * d, x, Dims)
                        /\ DayBucket(2 * d, x, Success) = Full!DayBucket(2 * d, x, Success)
    BY FullSelections, ExactBucket
  <2> QED
    BY <2>1, FullSelections DEF ListUsageTimeseries, Full!ListUsageTimeseries, Full!Days, Days
<1> QED
  BY <1>1, <1>2, <1>3, <1>4, <1>5, <1>6, <1>7 DEF AllReports, Full!AllReports

\* Every report of ListUsageAnalytics over whole days is what it would be had
\* RollupAndPruneUsage never run.
THEOREM ReportsAreExact == Spec => []ReportsExact
<1>1. IInv => ReportsExact
  BY ReportsOK DEF ReportsExact
<1> QED
  BY RollupInvariant, <1>1, PTL

LEMMA BoundsOK ==
  ASSUME IInv, NEW s \in 2..(2 * MaxDay + 1)
  PROVE  /\ Full!Report(s, Dims).requests <= Report(s, Dims).requests
         /\ Report(s, Dims).requests <= Full!Report(2 * (s \div 2), Dims).requests
<1>1. s \in Int /\ 2 * (s \div 2) \in Int
  BY RollupAssumption, HalfDays
<1>2. PICK u \in Int : u = 2 * (s \div 2)
  BY <1>1
<1>3. Dims \in SUBSET Dims
  OBVIOUS
<1>4. /\ Report(s, Dims) = Aggregate(Seen(s, Dims)) /\ Counted(Seen(s, Dims))
      /\ Full!Report(s, Dims) = Aggregate(Selected(s, Dims)) /\ Counted(Selected(s, Dims))
      /\ Full!Report(u, Dims) = Aggregate(Selected(u, Dims)) /\ Counted(Selected(u, Dims))
  BY <1>1, <1>3, ReportSeen, FullReport
<1>5. Selected(s, Dims) \subseteq Seen(s, Dims) /\ Seen(s, Dims) \subseteq Selected(u, Dims)
  BY <1>1, <1>2, SeenBounds
<1>6. /\ Cardinality(Selected(s, Dims)) <= Cardinality(Seen(s, Dims))
      /\ Cardinality(Seen(s, Dims)) <= Cardinality(Selected(u, Dims))
  BY <1>4, <1>5, FS_Subset DEF Counted
<1>7. /\ Report(s, Dims).requests = Cardinality(Seen(s, Dims))
      /\ Full!Report(s, Dims).requests = Cardinality(Selected(s, Dims))
      /\ Full!Report(u, Dims).requests = Cardinality(Selected(u, Dims))
  BY <1>4, AggregateType
<1> QED
  BY <1>2, <1>6, <1>7

\* A window that begins during a day never counts less than its own rows, and at
\* most the rest of that day on top.
THEOREM WindowsBounded == Spec => []WindowBounds
<1>1. IInv => WindowBounds
  BY BoundsOK DEF WindowBounds
<1> QED
  BY RollupInvariant, <1>1, PTL

-----------------------------------------------------------------------------
(* Queries over raw rows                                                   *)

\* No row within every retention has been pruned.
LEMMA RecentRows ==
  ASSUME IInv, NEW s \in Int, \A n \in Retentions : s >= 2 * (today - n),
         NEW r \in served, r.t >= s
  PROVE  r \in ledger
<1>1. /\ RowsInv /\ DaysInv /\ today \in Int
      /\ r.t \in Int /\ DayOf(r) \in Int /\ DayOf(r) \in Days /\ r.t <= 2 * DayOf(r) + 1
  BY RowFacts, HalfDays DEF IInv, RowsInv, JobTypes, DayOf, Days
<1>2. ~Closed(DayOf(r))
  <2>1. SUFFICES ASSUME NEW n \in Retentions, Eligible(DayOf(r), n) PROVE FALSE
    BY DEF Closed
  <2>2. n \in Int /\ s >= 2 * (today - n) /\ DayOf(r) < today - n
    BY <2>1, RollupAssumption DEF Eligible
  <2> QED
    BY <1>1, <2>2
<1>3. Kept(DayOf(r))
  BY <1>1, <1>2 DEF DaysInv
<1> QED
  BY <1>3 DEF Kept, ServedOf

\* A recent window: the ledger has every row of it.
Recent(s) == s \in Int /\ ledger \subseteq served /\ \A r \in served : r.t >= s => r \in ledger

LEMMA RecentRaw ==
  ASSUME NEW s, Recent(s), NEW D
  PROVE  Raw(s, D) = Full!Raw(s, D)
<1>1. {r \in ledger : r.t >= s /\ r.dims \in D} = {r \in served : r.t >= s /\ r.dims \in D}
  BY DEF Recent
<1> QED
  BY <1>1, FullAggregate DEF Raw, Full!Raw

LEMMA RecentHour ==
  ASSUME NEW s, Recent(s), NEW t, NEW D
  PROVE  HourBucket(s, t, D) = Full!HourBucket(s, t, D)
<1>1. {r \in ledger : r.t >= s /\ r.t = t /\ r.dims \in D}
        = {r \in served : r.t >= s /\ r.t = t /\ r.dims \in D}
  BY DEF Recent
<1> QED
  BY <1>1, FullAggregate DEF HourBucket, Full!HourBucket

LEMMA RecentByUser ==
  ASSUME NEW s, Recent(s), NEW u
  PROVE  /\ ListUsageByUserSince(s, u) = Full!ListUsageByUserSince(s, u)
         /\ SummaryByUser(s, today, u) = Full!SummaryByUser(s, today, u)
<1>1. ListUsageByUserSince(s, u) = Full!ListUsageByUserSince(s, u)
  BY DEF Recent, ListUsageByUserSince, Full!ListUsageByUserSince
<1> QED
  BY <1>1, FullAggregate, FullCardinality DEF SummaryByUser, Full!SummaryByUser

LEMMA RecentLogs ==
  ASSUME NEW s, Recent(s), NEW to, NEW f
  PROVE  ListUsageLogs(s, to, f) = Full!ListUsageLogs(s, to, f)
<1> DEFINE L == {r \in ledger : /\ s <= r.t /\ r.t < to
                                /\ \A k \in DOMAIN f : f[k] \in {"", r.dims[k]}}
           T == {r \in served : /\ s <= r.t /\ r.t < to
                                /\ \A k \in DOMAIN f : f[k] \in {"", r.dims[k]}}
<1>1. L = T
  BY DEF Recent
<1>2. ListUsageLogs(s, to, f) = [rows |-> L, total |-> Cardinality(L)]
  BY DEF ListUsageLogs
<1>3. Full!ListUsageLogs(s, to, f) = [rows |-> T, total |-> Cardinality(T)]
  BY FullCardinality DEF Full!ListUsageLogs
<1> QED
  BY <1>1, <1>2, <1>3

LEMMA RecentOK ==
  ASSUME NEW s, Recent(s)
  PROVE  RawReports(s, today) = Full!RawReports(s, today)
<1>1. \A u : ListUsageByBillingModeSince(s, u) = Full!ListUsageByBillingModeSince(s, u)
  BY RecentRaw, FullSelections DEF ListUsageByBillingModeSince, Full!ListUsageByBillingModeSince
<1>2. \A u : SummaryByUser(s, today, u) = Full!SummaryByUser(s, today, u)
  BY RecentByUser
<1>3. \A to, f : ListUsageLogs(s, to, f) = Full!ListUsageLogs(s, to, f)
  BY RecentLogs
<1>4. ListUsageTimeseriesHourly(s) = Full!ListUsageTimeseriesHourly(s)
  BY RecentHour, FullSelections DEF ListUsageTimeseriesHourly, Full!ListUsageTimeseriesHourly
<1>5. \A p : ListPrefixHourlyStats(s, p) = Full!ListPrefixHourlyStats(s, p)
  BY RecentHour, FullSelections DEF ListPrefixHourlyStats, Full!ListPrefixHourlyStats
<1>6. \A p : ListPrefixModelStats(s, p) = Full!ListPrefixModelStats(s, p)
  BY RecentRaw, FullSelections DEF ListPrefixModelStats, Full!ListPrefixModelStats
<1>7. \A p : ListPrefixErrorCodes(s, p) = Full!ListPrefixErrorCodes(s, p)
  BY RecentRaw, FullSelections DEF ListPrefixErrorCodes, Full!ListPrefixErrorCodes
<1>8. LatencySample(s) = Full!LatencySample(s)
  BY RecentRaw DEF LatencySample, Full!LatencySample
<1>9. Full!LogFilters = LogFilters
  BY FullSelections DEF LogFilters, Full!LogFilters
<1> QED
  BY <1>1, <1>2, <1>3, <1>4, <1>5, <1>6, <1>7, <1>8, <1>9, FullSelections
     DEF RawReports, Full!RawReports

\* The queries that read usage_ledger alone miss nothing as long as their window
\* lies within every retention_days in use.
THEOREM RecentRowsKept == Spec => []RecentRowsRaw
<1>1. ASSUME IInv PROVE RecentRowsRaw
  <2>1. SUFFICES ASSUME NEW s \in 2..(2 * MaxDay + 1),
                        \A n \in Retentions : s >= 2 * (today - n)
        PROVE  RawReports(s, today) = Full!RawReports(s, today)
    BY DEF RecentRowsRaw
  <2>2. s \in Int
    BY RollupAssumption
  <2>3. Recent(s)
    BY <1>1, <2>1, <2>2, RecentRows DEF Recent, IInv, RowsInv
  <2> QED
    BY <2>3, RecentOK
<1> QED
  BY RollupInvariant, <1>1, PTL
=============================================================================
