---------------------- MODULE WalletSettlement_proofs ----------------------
(***************************************************************************)
(* Proofs about WalletSettlement, for every set of requests, every bound   *)
(* on holds and charges, every threshold, and every choice of routes,      *)
(* faults, pushes and legacy debits.                                       *)
(***************************************************************************)
EXTENDS WalletSettlement, FiniteSetTheorems, TLAPS

-----------------------------------------------------------------------------
(* The sum of an amount per request, as the number of its units            *)

\* The largest amount a request carries.
Most == MaxHold + MaxCharge

\* The units of finitely many requests are finitely many.
LEMMA UnitsFinite ==
  ASSUME NEW f
  PROVE  IsFiniteSet(Units(f)) /\ Total(f) \in Nat
<1>1. IsFiniteSet(Requests \X (1..(MaxHold + MaxCharge)))
  <2>1. IsFiniteSet(1..(MaxHold + MaxCharge))
    <3>1. 1 \in Int /\ MaxHold + MaxCharge \in Int
      BY WalletAssumption
    <3> QED BY <3>1, FS_Interval
  <2>2. IsFiniteSet(Requests)
    BY WalletAssumption
  <2> QED BY <2>1, <2>2, FS_Product
<1>2. Units(f) \in SUBSET (Requests \X (1..(MaxHold + MaxCharge)))
  BY DEF Units
<1>3. IsFiniteSet(Units(f))
  BY <1>1, <1>2, FS_Subset
<1> QED BY <1>3, FS_CardinalityType DEF Total

\* Giving a request that has nothing an amount a adds a to the sum.
LEMMA TotalAdd ==
  ASSUME NEW f \in [Requests -> 0..Most], NEW r \in Requests, f[r] = 0,
         NEW a \in 0..Most
  PROVE  Total([f EXCEPT ![r] = a]) = Total(f) + a
<1> DEFINE g == [f EXCEPT ![r] = a]
           B == {r} \X (1..a)
<1>0. Most \in Nat
  BY WalletAssumption DEF Most
<1>1. /\ g \in [Requests -> 0..Most] /\ g[r] = a
      /\ \A q \in Requests : q # r => g[q] = f[q]
  OBVIOUS
<1> HIDE DEF g
<1>2. Units(g) = Units(f) \cup B
  <2>1. ASSUME NEW u \in Units(g) PROVE u \in Units(f) \cup B
    BY <1>0, <1>1, <2>1 DEF Units, Most
  <2>2. ASSUME NEW u \in Units(f) PROVE u \in Units(g)
    BY <1>0, <1>1, <2>2 DEF Units, Most
  <2>3. ASSUME NEW u \in B PROVE u \in Units(g)
    BY <1>0, <1>1, <2>3 DEF Units, Most
  <2> QED BY <2>1, <2>2, <2>3
<1>3. Units(f) \cap B = {}
  BY <1>0 DEF Units, Most
<1>4. IsFiniteSet(B) /\ Cardinality(B) = a
  <2>1. IsFiniteSet(1..a) /\ Cardinality(1..a) = a
    <3>1. 1 \in Int /\ a \in Int /\ a \in Nat
      BY <1>0
    <3>2. IsFiniteSet(1..a) /\ Cardinality(1..a) = IF 1 > a THEN 0 ELSE a - 1 + 1
      BY <3>1, FS_Interval
    <3> QED BY <3>1, <3>2
  <2>2. IsFiniteSet({r}) /\ Cardinality({r}) = 1
    BY FS_Singleton
  <2>3. /\ IsFiniteSet({r} \X (1..a))
        /\ Cardinality({r} \X (1..a)) = Cardinality({r}) * Cardinality(1..a)
    BY <2>1, <2>2, FS_Product
  <2> QED BY <1>0, <2>1, <2>2, <2>3
<1>5. Cardinality(Units(g)) = Cardinality(Units(f)) + Cardinality(B)
                                - Cardinality(Units(f) \cap B)
  BY <1>2, <1>4, UnitsFinite, FS_Union
<1>6. Cardinality(Units(f) \cap B) = 0
  BY <1>3, FS_EmptySet
<1> QED BY <1>0, <1>4, <1>5, <1>6, UnitsFinite DEF g, Total

\* Changing one request's amount changes the sum by the difference.
LEMMA TotalSet ==
  ASSUME NEW f \in [Requests -> 0..Most], NEW r \in Requests, NEW a \in 0..Most
  PROVE  Total([f EXCEPT ![r] = a]) + f[r] = Total(f) + a
<1> DEFINE g == [f EXCEPT ![r] = 0]
<1>0. Most \in Nat
  BY WalletAssumption DEF Most
<1>1. g \in [Requests -> 0..Most] /\ g[r] = 0
  BY <1>0
<1>2. [g EXCEPT ![r] = f[r]] = f /\ [g EXCEPT ![r] = a] = [f EXCEPT ![r] = a]
  OBVIOUS
<1>3. f[r] \in 0..Most
  OBVIOUS
<1> HIDE DEF g
<1>4. Total([g EXCEPT ![r] = f[r]]) = Total(g) + f[r]
  BY <1>1, <1>3, TotalAdd
<1>5. Total([g EXCEPT ![r] = a]) = Total(g) + a
  BY <1>1, TotalAdd
<1>6. Total(g) \in Nat /\ f[r] \in Nat /\ a \in Nat
  BY <1>0, <1>3, UnitsFinite
<1>7. Total(f) = Total(g) + f[r]
  BY <1>2, <1>4
<1>8. Total([f EXCEPT ![r] = a]) = Total(g) + a
  BY <1>2, <1>5
<1> QED BY <1>6, <1>7, <1>8

\* One request's amount is part of the sum.
LEMMA PartOfTotal ==
  ASSUME NEW f \in [Requests -> 0..Most], NEW r \in Requests
  PROVE  f[r] <= Total(f)
<1>0. Most \in Nat /\ 0 \in 0..Most
  BY WalletAssumption DEF Most
<1>1. Total([f EXCEPT ![r] = 0]) + f[r] = Total(f) + 0
  BY <1>0, TotalSet
<1>2. Total([f EXCEPT ![r] = 0]) \in Nat /\ Total(f) \in Nat
  BY UnitsFinite
<1>3. f[r] \in Nat
  BY <1>0
<1> QED BY <1>1, <1>2, <1>3

\* Nobody has anything: the sum is zero.
LEMMA TotalNone ==
  ASSUME NEW f, \A r \in Requests : f[r] = 0
  PROVE  Total(f) = 0
<1>1. Units(f) = {}
  BY WalletAssumption DEF Units
<1> QED BY <1>1, FS_EmptySet DEF Total

-----------------------------------------------------------------------------
(* Type correctness                                                        *)

\* Initially every variable has its type.
LEMMA TypeInit == Init => TypeOK
<1> SUFFICES ASSUME Init PROVE TypeOK
  OBVIOUS
<1>1. armed \in [Requests -> BOOLEAN]
  BY DEF Init
<1>2. /\ balance \in Nat /\ reserved \in Nat /\ idle \in 0..(StaleAfter + 1)
      /\ crashes \in 0..MaxCrashes
      /\ orphaned \in Nat /\ excess \in Nat /\ exposed \in Nat
  BY WalletAssumption DEF Init
<1>3. pc \in [Requests -> PC]
  BY DEF Init, PC
<1>4. /\ hold \in [Requests -> 0..MaxHold] /\ due \in [Requests -> 0..MaxCharge]
      /\ age \in [Requests -> 0..(StaleAfter + 1)]
      /\ ledger \in [Requests -> 0..MaxCharge] /\ held \in [Requests -> 0..MaxHold]
      /\ spent \in [Requests -> Nat] /\ posted \in [Requests -> 0..MaxCharge]
  BY WalletAssumption DEF Init
<1> QED BY <1>1, <1>2, <1>3, <1>4 DEF TypeOK

\* Every action keeps every variable within its type: in particular no finalize
\* and no legacy debit drives the balance or the reserved column below zero.
LEMMA TypeStep == TypeOK /\ [Next]_vars => TypeOK'
<1> SUFFICES ASSUME TypeOK, [Next]_vars PROVE TypeOK'
  OBVIOUS
<1>0. LiveHold \in Nat /\ StaleHold \in Nat
  BY UnitsFinite DEF LiveHold, StaleHold
<1> USE WalletAssumption DEF TypeOK, PC, Live, Terminal, Goto, row, local, hist, blame
<1>1. ASSUME NEW r \in Requests, NEW a \in 1..MaxHold, Reserve(r, a)
      PROVE  TypeOK'
  BY <1>1 DEF Reserve, ReserveFits
<1>2. ASSUME NEW r \in Requests, NEW a \in 1..MaxHold, ReserveReplyLost(r, a)
      PROVE  TypeOK'
  BY <1>2 DEF ReserveReplyLost, ReserveFits
<1>3. ASSUME NEW r \in Requests, ReserveFree(r)
      PROVE  TypeOK'
  BY <1>3 DEF ReserveFree
<1>4. ASSUME NEW r \in Requests, ReserveRejected(r)
      PROVE  TypeOK'
  BY <1>4 DEF ReserveRejected
<1>5. ASSUME NEW r \in Requests, NEW d \in 0..MaxCharge, Answered(r, d)
      PROVE  TypeOK'
  BY <1>5 DEF Answered, Chargeable
<1>6. ASSUME NEW r \in Requests, NEW route \in Routes, NEW d \in 0..MaxCharge, Refused(r, route, d)
      PROVE  TypeOK'
  BY <1>6 DEF Refused, Chargeable
<1>7. ASSUME NEW r \in Requests, Disconnected(r)
      PROVE  TypeOK'
  BY <1>7 DEF Disconnected
<1>8. ASSUME NEW r \in Requests, Unreachable(r)
      PROVE  TypeOK'
  BY <1>8 DEF Unreachable
<1>9. ASSUME NEW r \in Requests, Aborted(r)
      PROVE  TypeOK'
  BY <1>9 DEF Aborted
<1>10. ASSUME NEW r \in Requests, RecordUsage(r)
      PROVE  TypeOK'
  BY <1>10 DEF RecordUsage
<1>11. ASSUME NEW r \in Requests, RecordUsageFailed(r)
      PROVE  TypeOK'
  BY <1>11 DEF RecordUsageFailed
<1>12. ASSUME NEW r \in Requests, Finalize(r)
      PROVE  TypeOK'
  BY <1>12 DEF Finalize, ApplyFinalize, HandlerReturns, Least, Monus
<1>13. ASSUME NEW r \in Requests, Release(r)
      PROVE  TypeOK'
  BY <1>13 DEF Release, ApplyFinalize, HandlerReturns, Least, Monus
<1>14. ASSUME NEW r \in Requests, DeferredFinalize(r)
      PROVE  TypeOK'
  BY <1>14 DEF DeferredFinalize, ApplyFinalize, Least, Monus
<1>15. ASSUME NEW r \in Requests, FinalizeFailed(r)
      PROVE  TypeOK'
  BY <1>15 DEF FinalizeFailed
<1>16. ASSUME NEW r \in Requests, FinalizeReplyLost(r)
      PROVE  TypeOK'
  BY <1>16 DEF FinalizeReplyLost, ApplyFinalize, HandlerReturns, Least, Monus
<1>17. ASSUME Crash
      PROVE  TypeOK'
  BY <1>17, <1>0 DEF Crash
<1>18. ASSUME Sweep
      PROVE  TypeOK'
  BY <1>18, <1>0 DEF Sweep
<1>19. ASSUME NEW b \in Pushes, SyncBalance(b)
      PROVE  TypeOK'
  BY <1>19 DEF SyncBalance, Monus
<1>20. ASSUME NEW d \in LegacyCosts, DebitCreditBalance(d)
      PROVE  TypeOK'
  BY <1>20 DEF DebitCreditBalance, Monus
<1>21. ASSUME Tick
      PROVE  TypeOK'
  BY <1>21 DEF Tick
<1>22. ASSUME UNCHANGED vars PROVE TypeOK'
  BY <1>22 DEF vars
<1> QED
  BY <1>1, <1>2, <1>3, <1>4, <1>5, <1>6, <1>7, <1>8, <1>9, <1>10, <1>11,
     <1>12, <1>13, <1>14, <1>15, <1>16, <1>17, <1>18, <1>19, <1>20, <1>21, <1>22
     DEF Next, Admit, Upstream, Settle

\* Type correctness of every reachable state.
THEOREM TypeCorrect == Spec => []TypeOK
<1>1. Init => TypeOK
  BY TypeInit
<1>2. TypeOK /\ [Next]_vars => TypeOK'
  BY TypeStep
<1> QED BY <1>1, <1>2, PTL DEF Spec

-----------------------------------------------------------------------------
(* No debit without a ledger row                                           *)

\* Every action keeps the settlement on its way within its ledger row.
LEMMA DebitStep == TypeOK /\ DebitInv /\ [Next]_vars => DebitInv'
<1> SUFFICES ASSUME TypeOK, DebitInv, [Next]_vars PROVE DebitInv'
  OBVIOUS
<1> USE WalletAssumption DEF TypeOK, DebitInv, PC, Live, Terminal, Goto, row, local, hist, blame
<1>1. ASSUME NEW r \in Requests, NEW a \in 1..MaxHold, Reserve(r, a)
      PROVE  DebitInv'
  BY <1>1 DEF Reserve, ReserveFits
<1>2. ASSUME NEW r \in Requests, NEW a \in 1..MaxHold, ReserveReplyLost(r, a)
      PROVE  DebitInv'
  BY <1>2 DEF ReserveReplyLost, ReserveFits
<1>3. ASSUME NEW r \in Requests, ReserveFree(r)
      PROVE  DebitInv'
  BY <1>3 DEF ReserveFree
<1>4. ASSUME NEW r \in Requests, ReserveRejected(r)
      PROVE  DebitInv'
  BY <1>4 DEF ReserveRejected
<1>5. ASSUME NEW r \in Requests, NEW d \in 0..MaxCharge, Answered(r, d)
      PROVE  DebitInv'
  BY <1>5 DEF Answered, Chargeable
<1>6. ASSUME NEW r \in Requests, NEW route \in Routes, NEW d \in 0..MaxCharge, Refused(r, route, d)
      PROVE  DebitInv'
  BY <1>6 DEF Refused, Chargeable
<1>7. ASSUME NEW r \in Requests, Disconnected(r)
      PROVE  DebitInv'
  BY <1>7 DEF Disconnected
<1>8. ASSUME NEW r \in Requests, Unreachable(r)
      PROVE  DebitInv'
  BY <1>8 DEF Unreachable
<1>9. ASSUME NEW r \in Requests, Aborted(r)
      PROVE  DebitInv'
  BY <1>9 DEF Aborted
<1>10. ASSUME NEW r \in Requests, RecordUsage(r)
      PROVE  DebitInv'
  BY <1>10 DEF RecordUsage
<1>11. ASSUME NEW r \in Requests, RecordUsageFailed(r)
      PROVE  DebitInv'
  BY <1>11 DEF RecordUsageFailed
<1>12. ASSUME NEW r \in Requests, Finalize(r)
      PROVE  DebitInv'
  BY <1>12 DEF Finalize, ApplyFinalize, HandlerReturns, Least, Monus
<1>13. ASSUME NEW r \in Requests, Release(r)
      PROVE  DebitInv'
  BY <1>13 DEF Release, ApplyFinalize, HandlerReturns, Least, Monus
<1>14. ASSUME NEW r \in Requests, DeferredFinalize(r)
      PROVE  DebitInv'
  BY <1>14 DEF DeferredFinalize, ApplyFinalize, Least, Monus
<1>15. ASSUME NEW r \in Requests, FinalizeFailed(r)
      PROVE  DebitInv'
  BY <1>15 DEF FinalizeFailed
<1>16. ASSUME NEW r \in Requests, FinalizeReplyLost(r)
      PROVE  DebitInv'
  BY <1>16 DEF FinalizeReplyLost, ApplyFinalize, HandlerReturns, Least, Monus
<1>17. ASSUME Crash
      PROVE  DebitInv'
  BY <1>17 DEF Crash
<1>18. ASSUME Sweep
      PROVE  DebitInv'
  BY <1>18 DEF Sweep
<1>19. ASSUME NEW b \in Pushes, SyncBalance(b)
      PROVE  DebitInv'
  BY <1>19 DEF SyncBalance, Monus
<1>20. ASSUME NEW d \in LegacyCosts, DebitCreditBalance(d)
      PROVE  DebitInv'
  BY <1>20 DEF DebitCreditBalance, Monus
<1>21. ASSUME Tick
      PROVE  DebitInv'
  BY <1>21 DEF Tick
<1>22. ASSUME UNCHANGED vars PROVE DebitInv'
  BY <1>22 DEF vars
<1> QED
  BY <1>1, <1>2, <1>3, <1>4, <1>5, <1>6, <1>7, <1>8, <1>9, <1>10, <1>11,
     <1>12, <1>13, <1>14, <1>15, <1>16, <1>17, <1>18, <1>19, <1>20, <1>21, <1>22
     DEF Next, Admit, Upstream, Settle

\* Whatever fails, crashes or is repeated, the wallet never gives more for a
\* request than the request's ledger row states; this needs no assumption on
\* timeouts, routes or faults.
THEOREM DebitIsRecorded == Spec => []DebitRecorded
<1>1. Init => DebitInv
  BY WalletAssumption DEF Init, DebitInv
<1>2. TypeOK /\ DebitInv /\ [Next]_vars => DebitInv'
  BY DebitStep
<1>3. DebitInv => DebitRecorded
  BY DEF DebitInv, DebitRecorded
<1> QED BY <1>1, <1>2, <1>3, TypeCorrect, PTL DEF Spec

-----------------------------------------------------------------------------
(* Who owns what, and how fresh the row is                                 *)

\* Every action keeps the ownership facts.
LEMMA OwnStep == TypeOK /\ OwnInv /\ [Next]_vars => OwnInv'
<1> SUFFICES ASSUME TypeOK, OwnInv, [Next]_vars PROVE OwnInv'
  OBVIOUS
<1> USE WalletAssumption DEF TypeOK, OwnInv, PC, Live, Terminal, Goto, row, local, hist, blame
<1>1. ASSUME NEW r \in Requests, NEW a \in 1..MaxHold, Reserve(r, a)
      PROVE  OwnInv'
  BY <1>1 DEF Reserve, ReserveFits
<1>2. ASSUME NEW r \in Requests, NEW a \in 1..MaxHold, ReserveReplyLost(r, a)
      PROVE  OwnInv'
  BY <1>2 DEF ReserveReplyLost, ReserveFits
<1>3. ASSUME NEW r \in Requests, ReserveFree(r)
      PROVE  OwnInv'
  BY <1>3 DEF ReserveFree
<1>4. ASSUME NEW r \in Requests, ReserveRejected(r)
      PROVE  OwnInv'
  BY <1>4 DEF ReserveRejected
<1>5. ASSUME NEW r \in Requests, NEW d \in 0..MaxCharge, Answered(r, d)
      PROVE  OwnInv'
  BY <1>5 DEF Answered, Chargeable
<1>6. ASSUME NEW r \in Requests, NEW route \in Routes, NEW d \in 0..MaxCharge, Refused(r, route, d)
      PROVE  OwnInv'
  BY <1>6 DEF Refused, Chargeable
<1>7. ASSUME NEW r \in Requests, Disconnected(r)
      PROVE  OwnInv'
  BY <1>7 DEF Disconnected
<1>8. ASSUME NEW r \in Requests, Unreachable(r)
      PROVE  OwnInv'
  BY <1>8 DEF Unreachable
<1>9. ASSUME NEW r \in Requests, Aborted(r)
      PROVE  OwnInv'
  BY <1>9 DEF Aborted
<1>10. ASSUME NEW r \in Requests, RecordUsage(r)
      PROVE  OwnInv'
  BY <1>10 DEF RecordUsage
<1>11. ASSUME NEW r \in Requests, RecordUsageFailed(r)
      PROVE  OwnInv'
  BY <1>11 DEF RecordUsageFailed
<1>12. ASSUME NEW r \in Requests, Finalize(r)
      PROVE  OwnInv'
  BY <1>12 DEF Finalize, ApplyFinalize, HandlerReturns, Least, Monus
<1>13. ASSUME NEW r \in Requests, Release(r)
      PROVE  OwnInv'
  BY <1>13 DEF Release, ApplyFinalize, HandlerReturns, Least, Monus
<1>14. ASSUME NEW r \in Requests, DeferredFinalize(r)
      PROVE  OwnInv'
  BY <1>14 DEF DeferredFinalize, ApplyFinalize, Least, Monus
<1>15. ASSUME NEW r \in Requests, FinalizeFailed(r)
      PROVE  OwnInv'
  BY <1>15 DEF FinalizeFailed
<1>16. ASSUME NEW r \in Requests, FinalizeReplyLost(r)
      PROVE  OwnInv'
  BY <1>16 DEF FinalizeReplyLost, ApplyFinalize, HandlerReturns, Least, Monus
<1>17. ASSUME Crash
      PROVE  OwnInv'
  BY <1>17 DEF Crash
<1>18. ASSUME Sweep
      PROVE  OwnInv'
  BY <1>18 DEF Sweep
<1>19. ASSUME NEW b \in Pushes, SyncBalance(b)
      PROVE  OwnInv'
  BY <1>19 DEF SyncBalance, Monus
<1>20. ASSUME NEW d \in LegacyCosts, DebitCreditBalance(d)
      PROVE  OwnInv'
  BY <1>20 DEF DebitCreditBalance, Monus
<1>21. ASSUME Tick
      PROVE  OwnInv'
  BY <1>21 DEF Tick
<1>22. ASSUME UNCHANGED vars PROVE OwnInv'
  BY <1>22 DEF vars
<1> QED
  BY <1>1, <1>2, <1>3, <1>4, <1>5, <1>6, <1>7, <1>8, <1>9, <1>10, <1>11,
     <1>12, <1>13, <1>14, <1>15, <1>16, <1>17, <1>18, <1>19, <1>20, <1>21, <1>22
     DEF Next, Admit, Upstream, Settle

-----------------------------------------------------------------------------
(* The sums behind the balance and the reserved column                     *)

\* The amounts the sums are taken of are within range.
LEMMA SumTypes ==
  ASSUME TypeOK
  PROVE  /\ held \in [Requests -> 0..Most] /\ Shortfall \in [Requests -> 0..Most]
         /\ LiveHold \in Nat /\ Unpaid \in Nat
<1>1. held \in [Requests -> 0..Most]
  BY WalletAssumption DEF TypeOK, Most
<1>2. Shortfall \in [Requests -> 0..Most]
  BY WalletAssumption DEF TypeOK, Most, Shortfall, Monus
<1> QED BY <1>1, <1>2, UnitsFinite DEF LiveHold, Unpaid

\* A step that leaves the row's amounts and the histories alone keeps the sums.
LEMMA SameSums ==
  SumsInv /\ UNCHANGED <<balance, reserved, hist>> => SumsInv'
BY DEF SumsInv, HoldsCovered, NoLeak, Solvent, BilledInFull, WorthInv, LiveHold,
       Unpaid, Shortfall, Total, Units, hist, blame

\* Dropping the hold of a request from the live ones lowers their sum by it.
LEMMA HoldDropped ==
  ASSUME TypeOK, NEW r \in Requests, held' = [held EXCEPT ![r] = 0]
  PROVE  LiveHold = LiveHold' + held[r] /\ LiveHold' \in Nat /\ held[r] \in Nat
<1>0. 0 \in 0..Most /\ held[r] \in Nat
  BY WalletAssumption DEF Most, TypeOK
<1>1. Total([held EXCEPT ![r] = 0]) + held[r] = Total(held) + 0
  BY <1>0, SumTypes, TotalSet
<1>2. LiveHold' = Total([held EXCEPT ![r] = 0])
  BY DEF LiveHold, Total, Units
<1>3. LiveHold' \in Nat /\ LiveHold \in Nat
  BY <1>2, UnitsFinite, SumTypes
<1> QED BY <1>0, <1>1, <1>2, <1>3 DEF LiveHold

\* What a finalize leaves unpaid is at most what the balance could not bear.
LEMMA FinalizeUnpaid ==
  ASSUME TypeOK, OwnInv, NEW r \in Requests, pc[r] \in Live,
         NEW actual \in 0..MaxCharge,
         spent' = [spent EXCEPT ![r] = @ + Least(actual, balance)],
         posted' = posted \/ posted' = [posted EXCEPT ![r] = actual]
  PROVE  Unpaid' \in Nat /\ Unpaid' <= Unpaid + Monus(actual, balance)
<1> DEFINE s == Monus(posted'[r], spent'[r])
<1>1. posted[r] = 0
  BY WalletAssumption DEF OwnInv, Live, Terminal, TypeOK
<1>2. Shortfall[r] = 0
  BY <1>1, WalletAssumption DEF Shortfall, Monus, TypeOK
<1>3. s \in 0..Most /\ s <= Monus(actual, balance) /\ Monus(actual, balance) \in Nat
  BY <1>1, WalletAssumption DEF TypeOK, Most, Monus, Least
<1>4. Shortfall' = [Shortfall EXCEPT ![r] = s]
  BY DEF Shortfall, TypeOK
<1> HIDE DEF s
<1>5. Total([Shortfall EXCEPT ![r] = s]) + Shortfall[r] = Total(Shortfall) + s
  BY <1>3, SumTypes, TotalSet
<1>6. Unpaid' = Total([Shortfall EXCEPT ![r] = s])
  BY <1>4 DEF Unpaid, Total, Units
<1>7. Unpaid' \in Nat /\ Unpaid \in Nat /\ s \in Nat
  BY <1>3, <1>6, UnitsFinite, SumTypes, WalletAssumption DEF Most
<1> QED BY <1>2, <1>3, <1>5, <1>6, <1>7 DEF Unpaid

\* A finalize keeps the sums, whether it is the request's first or a repeated
\* one, and whatever it charges.
LEMMA FinalizeKeepsSums ==
  ASSUME TypeOK, OwnInv, SumsInv, NEW r \in Requests, pc[r] \in Live,
         NEW actual \in 0..MaxCharge, ApplyFinalize(r, actual),
         held[r] = hold[r] \/ (held[r] = 0 /\ actual = 0),
         posted' = posted \/ posted' = [posted EXCEPT ![r] = actual],
         orphaned' = orphaned
  PROVE  SumsInv'
<1>1. LiveHold = LiveHold' + held[r] /\ LiveHold' \in Nat /\ held[r] \in Nat
  BY HoldDropped DEF ApplyFinalize
<1>2. Unpaid' \in Nat /\ Unpaid' <= Unpaid + Monus(actual, balance)
  BY FinalizeUnpaid DEF ApplyFinalize
<1>3. LiveHold \in Nat /\ Unpaid \in Nat
  BY SumTypes
<1>4. /\ balance \in Nat /\ reserved \in Nat /\ orphaned \in Nat /\ excess \in Nat
      /\ exposed \in Nat /\ hold[r] \in Nat /\ actual \in Nat
  BY WalletAssumption DEF TypeOK
<1>5. /\ balance' = balance - Least(actual, balance)
      /\ reserved' = Monus(reserved, hold[r])
      /\ excess' = excess + Monus(hold[r], held[r])
      /\ exposed' = exposed + Monus(actual, hold[r])
  BY DEF ApplyFinalize
<1>6. /\ LiveHold <= reserved + excess /\ reserved <= LiveHold + orphaned
      /\ reserved <= balance + exposed /\ Unpaid <= exposed + excess
      /\ LiveHold + Unpaid <= reserved + excess + exposed
      /\ LiveHold + Unpaid <= balance + excess + exposed
  BY DEF SumsInv, HoldsCovered, NoLeak, Solvent, BilledInFull, WorthInv
<1>7. /\ LiveHold' <= reserved' + excess' /\ reserved' <= LiveHold' + orphaned
      /\ reserved' <= balance' + exposed' /\ Unpaid' <= exposed' + excess'
      /\ LiveHold' + Unpaid' <= reserved' + excess' + exposed'
      /\ LiveHold' + Unpaid' <= balance' + excess' + exposed'
  <2>1. CASE held[r] = hold[r]
    BY <1>1, <1>2, <1>3, <1>4, <1>5, <1>6, <2>1 DEF Monus, Least
  <2>2. CASE held[r] = 0 /\ actual = 0
    <3>1. LiveHold' = LiveHold /\ Unpaid' <= Unpaid
      <4>1. Monus(actual, balance) = 0
        BY <1>4, <2>2 DEF Monus
      <4>2. Unpaid' <= Unpaid
        BY <1>2, <1>3, <4>1
      <4>3. LiveHold = LiveHold' + 0 /\ LiveHold' \in Nat
        BY <1>1, <2>2, Zenon
      <4>4. LiveHold' = LiveHold
        BY <4>3
      <4> QED BY <4>2, <4>4
    <3>2. /\ balance' = balance /\ exposed' = exposed /\ excess' = excess + hold[r]
      BY <1>4, <1>5, <2>2 DEF Monus, Least
    <3>3. reserved' \in Nat /\ reserved' <= reserved /\ reserved <= reserved' + hold[r]
      BY <1>4, <1>5 DEF Monus
    <3> QED BY <1>2, <1>3, <1>4, <1>6, <3>1, <3>2, <3>3
  <2> QED BY <2>1, <2>2
<1> QED BY <1>7 DEF SumsInv, HoldsCovered, NoLeak, Solvent, BilledInFull, WorthInv

\* The sweeper only finds holds that are older than its threshold: every live
\* hold it clears is among them.
LEMMA SweptIsStale ==
  ASSUME TypeOK, OwnInv, idle > StaleAfter
  PROVE  StaleHold = LiveHold
<1>1. ASSUME NEW r \in Requests
      PROVE  (IF age[r] > StaleAfter THEN held[r] ELSE 0) = held[r]
  BY WalletAssumption DEF TypeOK, OwnInv
<1>2. [r \in Requests |-> IF age[r] > StaleAfter THEN held[r] ELSE 0] = held
  BY <1>1 DEF TypeOK
<1> QED BY <1>2 DEF StaleHold, LiveHold

\* Every action keeps the sums.
LEMMA SumsStep == TypeOK /\ OwnInv /\ SumsInv /\ [Next]_vars => SumsInv'
<1> SUFFICES ASSUME TypeOK, OwnInv, SumsInv, [Next]_vars PROVE SumsInv'
  OBVIOUS
<1>0. /\ LiveHold \in Nat /\ Unpaid \in Nat
      /\ balance \in Nat /\ reserved \in Nat
      /\ orphaned \in Nat /\ excess \in Nat /\ exposed \in Nat
  BY SumTypes DEF TypeOK
<1>s. UNCHANGED <<spent, posted>> => Unpaid' = Unpaid
  BY DEF Unpaid, Shortfall, Total, Units
<1>h. UNCHANGED held => LiveHold' = LiveHold
  BY DEF LiveHold, Total, Units
<1>1. ASSUME NEW r \in Requests, NEW a \in 1..MaxHold, Reserve(r, a)
      PROVE  SumsInv'
  <2>1. held[r] = 0 /\ held' = [held EXCEPT ![r] = a]
    BY <1>1 DEF Reserve, OwnInv, Live, TypeOK
  <2>2. LiveHold' = LiveHold + a
    <3>1. held \in [Requests -> 0..Most] /\ a \in 0..Most
      BY SumTypes, WalletAssumption DEF Most
    <3>2. Total([held EXCEPT ![r] = a]) = Total(held) + a
      BY <2>1, <3>1, TotalAdd
    <3> QED BY <2>1, <3>2 DEF LiveHold, Total, Units
  <2>3. UNCHANGED <<balance, spent, posted, orphaned, excess, exposed>>
    BY <1>1 DEF Reserve, blame
  <2> QED BY <1>1, <1>0, <1>s, <2>2, <2>3
          DEF Reserve, ReserveFits, SumsInv, HoldsCovered, NoLeak, Solvent, BilledInFull, WorthInv
<1>2. ASSUME NEW r \in Requests, NEW a \in 1..MaxHold, ReserveReplyLost(r, a)
      PROVE  SumsInv'
  BY <1>2, <1>0, <1>s, <1>h
     DEF ReserveReplyLost, ReserveFits, SumsInv, HoldsCovered, NoLeak, Solvent, BilledInFull, WorthInv
<1>3. ASSUME NEW r \in Requests, ReserveFree(r)
      PROVE  SumsInv'
  BY <1>3, SameSums DEF ReserveFree, row, local, hist
<1>4. ASSUME NEW r \in Requests, ReserveRejected(r)
      PROVE  SumsInv'
  BY <1>4, SameSums DEF ReserveRejected, row, local, hist
<1>5. ASSUME NEW r \in Requests, NEW d \in 0..MaxCharge, Answered(r, d)
      PROVE  SumsInv'
  BY <1>5, SameSums DEF Answered, row, local, hist
<1>6. ASSUME NEW r \in Requests, NEW route \in Routes, NEW d \in 0..MaxCharge, Refused(r, route, d)
      PROVE  SumsInv'
  BY <1>6, SameSums DEF Refused, row, local, hist
<1>7. ASSUME NEW r \in Requests, Disconnected(r)
      PROVE  SumsInv'
  BY <1>7, SameSums DEF Disconnected, row, local, hist
<1>8. ASSUME NEW r \in Requests, Unreachable(r)
      PROVE  SumsInv'
  BY <1>8, SameSums DEF Unreachable, row, local, hist
<1>9. ASSUME NEW r \in Requests, Aborted(r)
      PROVE  SumsInv'
  BY <1>9, SameSums DEF Aborted, row, local, hist
<1>10. ASSUME NEW r \in Requests, RecordUsage(r)
      PROVE  SumsInv'
  BY <1>10, SameSums DEF RecordUsage, row, local, hist
<1>11. ASSUME NEW r \in Requests, RecordUsageFailed(r)
      PROVE  SumsInv'
  BY <1>11, SameSums DEF RecordUsageFailed, row, local, hist
<1>12. ASSUME NEW r \in Requests, Finalize(r)
      PROVE  SumsInv'
  <2>1. pc[r] \in Live /\ held[r] = hold[r]
    BY <1>12 DEF Finalize, Live, OwnInv
  <2>2. /\ ApplyFinalize(r, due[r]) /\ orphaned' = orphaned
        /\ posted' = posted \/ posted' = [posted EXCEPT ![r] = due[r]]
    BY <1>12 DEF Finalize
  <2>3. due[r] \in 0..MaxCharge
    BY WalletAssumption DEF TypeOK
  <2> QED BY <2>1, <2>2, <2>3, FinalizeKeepsSums
<1>13. ASSUME NEW r \in Requests, Release(r)
      PROVE  SumsInv'
  <2>1. pc[r] \in Live /\ held[r] = hold[r]
    BY <1>13 DEF Release, Live, OwnInv
  <2>2. /\ ApplyFinalize(r, 0) /\ orphaned' = orphaned
        /\ posted' = posted \/ posted' = [posted EXCEPT ![r] = 0]
    BY <1>13 DEF Release
  <2>3. 0 \in 0..MaxCharge
    BY WalletAssumption DEF TypeOK
  <2> QED BY <2>1, <2>2, <2>3, FinalizeKeepsSums
<1>14. ASSUME NEW r \in Requests, DeferredFinalize(r)
      PROVE  SumsInv'
  <2>1. pc[r] \in Live /\ held[r] \in {0, hold[r]}
    BY <1>14 DEF DeferredFinalize, Live, OwnInv
  <2>2. /\ ApplyFinalize(r, 0) /\ orphaned' = orphaned
        /\ posted' = posted \/ posted' = [posted EXCEPT ![r] = 0]
    BY <1>14 DEF DeferredFinalize
  <2>3. 0 \in 0..MaxCharge
    BY WalletAssumption DEF TypeOK
  <2> QED BY <2>1, <2>2, <2>3, FinalizeKeepsSums
<1>15. ASSUME NEW r \in Requests, FinalizeFailed(r)
      PROVE  SumsInv'
  <2>1. CASE pc[r] # "deferred" /\ armed[r]
    BY <1>15, <2>1, SameSums DEF FinalizeFailed, row, hist
  <2>2. CASE ~(pc[r] # "deferred" /\ armed[r])
    <3>1. /\ held' = [held EXCEPT ![r] = 0] /\ orphaned' = orphaned + held[r]
          /\ UNCHANGED <<balance, reserved, spent, posted, excess, exposed>>
      BY <1>15, <2>2 DEF FinalizeFailed, row
    <3>2. LiveHold = LiveHold' + held[r] /\ LiveHold' \in Nat /\ held[r] \in Nat
      BY <3>1, HoldDropped
    <3>3. Unpaid' = Unpaid
      BY <1>s, <3>1
    <3>4. /\ LiveHold' \in Nat /\ held[r] \in Nat
          /\ LiveHold' <= LiveHold /\ LiveHold <= LiveHold' + held[r]
      BY <3>2
    <3>5. /\ orphaned' = orphaned + held[r] /\ reserved' = reserved
          /\ balance' = balance /\ excess' = excess /\ exposed' = exposed
      BY <3>1
    <3>6. HoldsCovered' /\ Solvent' /\ BilledInFull'
      BY <1>0, <3>3, <3>4, <3>5 DEF SumsInv, HoldsCovered, Solvent, BilledInFull
    <3>7. WorthInv'
      <4>1. PICK k \in Nat, l \in Nat, u \in Nat :
              k = LiveHold' /\ l = LiveHold /\ u = Unpaid
        BY <1>0, <3>4
      <4>2. /\ k <= l
            /\ l + u <= reserved + excess + exposed
            /\ l + u <= balance + excess + exposed
        BY <3>4, <4>1 DEF SumsInv, WorthInv
      <4>3. k + u <= reserved + excess + exposed /\ k + u <= balance + excess + exposed
        BY <1>0, <4>2
      <4> QED BY <3>3, <3>5, <4>1, <4>3 DEF WorthInv
    <3>8. NoLeak'
      BY <1>0, <3>4, <3>5 DEF SumsInv, NoLeak
    <3> QED BY <3>6, <3>7, <3>8 DEF SumsInv
  <2> QED BY <2>1, <2>2
<1>16. ASSUME NEW r \in Requests, FinalizeReplyLost(r)
      PROVE  SumsInv'
  <2> DEFINE actual == IF pc[r] = "finalizing" THEN due[r] ELSE 0
  <2>1. pc[r] \in Live /\ held[r] = hold[r]
    BY <1>16 DEF FinalizeReplyLost, Live, OwnInv
  <2>2. ApplyFinalize(r, actual) /\ orphaned' = orphaned /\ posted' = posted
    BY <1>16 DEF FinalizeReplyLost
  <2>3. actual \in 0..MaxCharge
    BY WalletAssumption DEF TypeOK
  <2> HIDE DEF actual
  <2> QED BY <2>1, <2>2, <2>3, FinalizeKeepsSums
<1>17. ASSUME Crash
      PROVE  SumsInv'
  <2>1. /\ \A r \in Requests : held'[r] = 0
        /\ orphaned' = orphaned + LiveHold
        /\ UNCHANGED <<balance, reserved, spent, posted, excess, exposed>>
    BY <1>17 DEF Crash, row
  <2>2. LiveHold' = 0
    BY <2>1, TotalNone DEF LiveHold, Total, Units
  <2> QED BY <1>0, <1>s, <2>1, <2>2 DEF SumsInv, HoldsCovered, NoLeak, Solvent, BilledInFull, WorthInv
<1>18. ASSUME Sweep
      PROVE  SumsInv'
  <2>1. StaleHold = LiveHold
    BY <1>18, SweptIsStale DEF Sweep
  <2> QED BY <1>18, <1>0, <1>s, <1>h, <2>1 DEF Sweep, SumsInv, HoldsCovered, NoLeak, Solvent, BilledInFull, WorthInv
<1>19. ASSUME NEW b \in Pushes, SyncBalance(b)
      PROVE  SumsInv'
  BY <1>19, <1>0, <1>s, <1>h, WalletAssumption
     DEF SyncBalance, Monus, SumsInv, HoldsCovered, NoLeak, Solvent, BilledInFull, WorthInv
<1>20. ASSUME NEW d \in LegacyCosts, DebitCreditBalance(d)
      PROVE  SumsInv'
  BY <1>20, <1>0, <1>s, <1>h, WalletAssumption
     DEF DebitCreditBalance, hist, blame, Monus, SumsInv, HoldsCovered, NoLeak, Solvent, BilledInFull, WorthInv
<1>21. ASSUME Tick
      PROVE  SumsInv'
  BY <1>21, SameSums DEF Tick, row, local, hist
<1>22. ASSUME UNCHANGED vars PROVE SumsInv'
  BY <1>22, SameSums DEF vars, row, hist
<1> QED
  BY <1>1, <1>2, <1>3, <1>4, <1>5, <1>6, <1>7, <1>8, <1>9, <1>10, <1>11,
     <1>12, <1>13, <1>14, <1>15, <1>16, <1>17, <1>18, <1>19, <1>20, <1>21, <1>22
     DEF Next, Admit, Upstream, Settle

\* Initially nothing is held, nothing reserved and nothing unpaid.
LEMMA SumsInit == Init => OwnInv /\ SumsInv
<1> SUFFICES ASSUME Init PROVE OwnInv /\ SumsInv
  OBVIOUS
<1>1. OwnInv
  BY DEF Init, OwnInv, Live
<1>2. LiveHold = 0
  BY TotalNone DEF Init, LiveHold
<1>3. Unpaid = 0
  <2>1. \A r \in Requests : Shortfall[r] = 0
    BY DEF Init, Shortfall, Monus
  <2> QED BY <2>1, TotalNone DEF Unpaid
<1>4. balance \in Nat
  BY WalletAssumption DEF Init
<1> QED BY <1>1, <1>2, <1>3, <1>4 DEF Init, SumsInv, HoldsCovered, NoLeak, Solvent,
          BilledInFull, WorthInv

\* The ownership facts and the sums hold in every reachable state.
LEMMA SumsAlways == Spec => [](OwnInv /\ SumsInv)
<1>1. TypeOK /\ OwnInv /\ SumsInv /\ [Next]_vars => OwnInv' /\ SumsInv'
  BY OwnStep, SumsStep
<1> QED BY <1>1, SumsInit, TypeCorrect, PTL DEF Spec

\* In every configuration, with slow requests, repeated finalizes, pushes,
\* overruns and legacy debits: what live requests reserved is in the reserved
\* column up to what the sweeper took from reservations older than its
\* threshold and what repeated finalizes took.
THEOREM HoldsStayCovered == Spec => []HoldsCovered
<1>1. SumsInv => HoldsCovered
  BY DEF SumsInv
<1> QED BY <1>1, SumsAlways, PTL

\* In every configuration nothing stays reserved but live holds and what a crash,
\* a failed finalize or a lost reply orphaned since the last sweep.
THEOREM NoHoldLeaks == Spec => []NoLeak
<1>1. SumsInv => NoLeak
  BY DEF SumsInv
<1> QED BY <1>1, SumsAlways, PTL

\* In every configuration the reserved column exceeds the balance by no more than
\* charges overran their estimates and pushes lowered the balance: neither the
\* sweeper, nor a repeated finalize, nor a legacy debit promises a credit twice.
THEOREM SolventAlways == Spec => []Solvent
<1>1. SumsInv => Solvent
  BY DEF SumsInv
<1> QED BY <1>1, SumsAlways, PTL

\* In every configuration the LEAST(actual, balance) cap withholds no more than
\* overruns, pushes and early releases put at risk; without them genfity-app is
\* told exactly what the wallet paid.
THEOREM PostedIsPaid == Spec => []BilledInFull
<1>1. SumsInv => BilledInFull
  BY DEF SumsInv
<1> QED BY <1>1, SumsAlways, PTL
=============================================================================
