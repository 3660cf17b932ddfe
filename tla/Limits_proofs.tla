--------------------------- MODULE Limits_proofs ---------------------------
(***************************************************************************)
(* Proofs about the limits a request passes, for every plan, every number  *)
(* of overlapping requests, and every failure of a Redis command or of the *)
(* ledger query.  First the period counter of PreRequestLimits, then its   *)
(* counters of the days, then the key of ConcurrencySlots, for every limit *)
(* and every expiry.  The two specifications share no state.               *)
(***************************************************************************)
EXTENDS PreRequestLimits, ConcurrencySlots, FiniteSetTheorems, TLAPS

-----------------------------------------------------------------------------
(* The counters of a plan                                                  *)

\* As much of the type invariant as the argument needs.
Shape ==
  /\ pc \in [Requests -> Active \cup Terminal \cup {"new"}]
  /\ tookPeriod \in [Requests -> BOOLEAN]
  /\ seen \in [Requests -> SUBSET Requests]
  /\ recorded \subseteq Requests /\ inCounter \subseteq Requests
  /\ stuck \subseteq Requests /\ lost \subseteq Requests
  /\ forgotten \subseteq Requests
  /\ period \in Int /\ sentinel \in BOOLEAN
  /\ flushes \in Nat /\ resets \in Nat

\* A set of requests is finite.
LEMMA SubsetFinite ==
  ASSUME NEW S, S \subseteq Requests
  PROVE  IsFiniteSet(S) /\ Cardinality(S) \in Nat
  BY LimitsAssumption, FS_Subset, FS_CardinalityType

\* Counting requests.
LEMMA Counting ==
  ASSUME NEW S \in SUBSET Requests, NEW T \in SUBSET Requests
  PROVE  /\ Cardinality(S) \in Nat /\ Cardinality(T) \in Nat
         /\ S \subseteq T => Cardinality(S) <= Cardinality(T)
         /\ \A r \in S : T = S \ {r} => Cardinality(T) = Cardinality(S) - 1
         /\ \A r \in Requests \ S : T = S \cup {r} => Cardinality(T) = Cardinality(S) + 1
<1>1. IsFiniteSet(S) /\ IsFiniteSet(T) /\ Cardinality(S) \in Nat /\ Cardinality(T) \in Nat
  BY SubsetFinite
<1> QED
  BY <1>1, FS_Subset, FS_RemoveElement, FS_AddElement

\* The effective cap is a number.
LEMMA EffectiveType == EffectiveRPP \in Nat
<1>1. /\ RPP \in Nat /\ Mult \in Nat /\ Debt \in Nat
  BY LimitsAssumption
<1>2. ThreeQuarters \in Nat
  BY <1>1 DEF ThreeQuarters
<1>3. RPP * Mult \in Nat /\ ThreeQuarters * Mult \in Nat
  BY <1>1, <1>2
<1> QED
  BY <1>1, <1>3 DEF EffectiveRPP, Least

\* The variables of the period keep their types in every step.
LEMMA ShapeStep == Shape /\ [Next]_vars => Shape'
<1> SUFFICES ASSUME Shape, [Next]_vars PROVE Shape'
  OBVIOUS
<1>0. \A S \in SUBSET Requests : Cardinality(S) \in Nat
  BY SubsetFinite
<1> USE DEF Shape, Active, Terminal, Goto, Faulty, Overwrite, Proceed, Granted, periodSide, daySide, tracker, world
<1>1. ASSUME NEW r \in Requests, Begin(r) PROVE Shape'
  BY <1>1 DEF Begin
<1>2. ASSUME NEW r \in Requests, ResetCounter(r) PROVE Shape'
  BY <1>2, <1>0 DEF ResetCounter
<1>3. ASSUME NEW r \in Requests, ReadCounter(r) PROVE Shape'
  BY <1>3 DEF ReadCounter
<1>4. ASSUME NEW r \in Requests, ListUsage(r) PROVE Shape'
  BY <1>4 DEF ListUsage, Listed
<1>5. ASSUME NEW r \in Requests, SeedCounter(r) PROVE Shape'
  BY <1>5, <1>0 DEF SeedCounter
<1>6. ASSUME NEW r \in Requests, ReadFailed(r) PROVE Shape'
  BY <1>6 DEF ReadFailed
<1>7. ASSUME NEW r \in Requests, ListFailed(r) PROVE Shape'
  BY <1>7 DEF ListFailed, Listed
<1>8. ASSUME NEW r \in Requests, SeedFailed(r) PROVE Shape'
  BY <1>8 DEF SeedFailed
<1>9. ASSUME NEW r \in Requests, CheckRequestsPerPeriod(r) PROVE Shape'
  <2>1. CASE EffectiveRPP = 0
    BY <1>9, <2>1 DEF CheckRequestsPerPeriod
  <2>2. CASE EffectiveRPP # 0
    <3>1. period' = period + 1 /\ inCounter' = inCounter \cup {r}
      BY <1>9, <2>2 DEF CheckRequestsPerPeriod
    <3>2. /\ pc' \in [Requests -> Active \cup Terminal \cup {"new"}]
          /\ tookPeriod' \in [Requests -> BOOLEAN]
      BY <1>9, <2>2 DEF CheckRequestsPerPeriod
    <3> QED
      BY <1>9, <3>1, <3>2 DEF CheckRequestsPerPeriod
  <2> QED
    BY <2>1, <2>2
<1>10. ASSUME NEW r \in Requests, PeriodExceeded(r) PROVE Shape'
  BY <1>10 DEF PeriodExceeded
<1>11. ASSUME NEW r \in Requests, PeriodExceededFailed(r) PROVE Shape'
  BY <1>11 DEF PeriodExceededFailed
<1>12. ASSUME NEW r \in Requests, CheckPlanRPD(r) PROVE Shape'
  BY <1>12 DEF CheckPlanRPD
<1>13. ASSUME NEW r \in Requests, DayExceeded(r) PROVE Shape'
  BY <1>13 DEF DayExceeded
<1>14. ASSUME NEW r \in Requests, DayExceededFailed(r) PROVE Shape'
  BY <1>14 DEF DayExceededFailed
<1>15. ASSUME NEW r \in Requests, Commit(r) PROVE Shape'
  BY <1>15 DEF Commit
<1>16. ASSUME NEW r \in Requests, RecordSuccess(r) PROVE Shape'
  BY <1>16 DEF RecordSuccess
<1>17. ASSUME NEW r \in Requests, RecordUncounted(r) PROVE Shape'
  BY <1>17 DEF RecordUncounted
<1>18. ASSUME NEW r \in Requests, Fail(r) PROVE Shape'
  BY <1>18 DEF Fail
<1>19. ASSUME NEW r \in Requests, RollbackRequestsPerPeriod(r) PROVE Shape'
  <2>1. /\ pc' \in [Requests -> Active \cup Terminal \cup {"new"}]
        /\ tookPeriod' \in [Requests -> BOOLEAN]
    BY <1>19 DEF RollbackRequestsPerPeriod
  <2>2. period' \in Int /\ inCounter' \subseteq Requests
    BY <1>19 DEF RollbackRequestsPerPeriod
  <2> QED
    BY <1>19, <2>1, <2>2 DEF RollbackRequestsPerPeriod
<1>20. ASSUME NEW r \in Requests, RollbackPlanRPD(r) PROVE Shape'
  BY <1>20 DEF RollbackPlanRPD
<1>21. ASSUME NEW r \in Requests, RollbackFailed(r) PROVE Shape'
  BY <1>21 DEF RollbackFailed
<1>22. ASSUME NEW r \in Requests, NEW applied \in BOOLEAN, SentinelFailed(r, applied) PROVE Shape'
  BY <1>22 DEF SentinelFailed
<1>23. ASSUME NEW r \in Requests, NEW applied \in BOOLEAN, ResetFailed(r, applied) PROVE Shape'
  BY <1>23, <1>0 DEF ResetFailed
<1>24. ASSUME NEW r \in Requests, NEW applied \in BOOLEAN, CountFailed(r, applied) PROVE Shape'
  BY <1>24 DEF CountFailed
<1>25. ASSUME NEW r \in Requests, NEW applied \in BOOLEAN, DayCountFailed(r, applied) PROVE Shape'
  BY <1>25 DEF DayCountFailed
<1>26. ASSUME Midnight PROVE Shape'
  BY <1>26 DEF Midnight
<1>27. ASSUME Flush PROVE Shape'
  <2>0. sentinel' \in BOOLEAN
    BY <1>27, Zenon DEF Flush
  <2>1. flushes' \in Nat /\ period' \in Int
    BY <1>27, <1>0 DEF Flush
  <2>2. forgotten' \subseteq Requests /\ lost' \subseteq Requests
    BY <1>27 DEF Flush
  <2> QED
    BY <1>27, <2>0, <2>1, <2>2 DEF Flush
<1>28. ASSUME Crash PROVE Shape'
  BY <1>28 DEF Crash
<1>29. ASSUME UNCHANGED vars PROVE Shape'
  BY <1>29 DEF vars
<1> QED
  BY <1>1, <1>2, <1>3, <1>4, <1>5, <1>6, <1>7, <1>8, <1>9, <1>10, <1>11,
     <1>12, <1>13, <1>14, <1>15, <1>16, <1>17, <1>18, <1>19, <1>20, <1>21,
     <1>22, <1>23, <1>24, <1>25, <1>26, <1>27, <1>28, <1>29 DEF Next, Baseline, Check, Finish

\* Every step leaves a request where PeriodPlaces says.
LEMMA PlacesStep ==
  ASSUME Shape, PeriodPlaces, [Next]_vars
  PROVE  PeriodPlaces'
<1>0. RPP \in Nat /\ EffectiveRPP \in Nat
  BY LimitsAssumption, EffectiveType
<1> USE <1>0 DEF Shape, PeriodPlaces, Active, Terminal, Goto, Faulty, Overwrite, Proceed, periodSide, daySide, tracker, world
<1>1. ASSUME NEW r \in Requests, Begin(r) PROVE PeriodPlaces'
  BY <1>1 DEF Begin
<1>2. ASSUME NEW r \in Requests, ResetCounter(r) PROVE PeriodPlaces'
  BY <1>2 DEF ResetCounter
<1>3. ASSUME NEW r \in Requests, ReadCounter(r) PROVE PeriodPlaces'
  BY <1>3 DEF ReadCounter
<1>4. ASSUME NEW r \in Requests, ListUsage(r) PROVE PeriodPlaces'
  BY <1>4 DEF ListUsage, Listed
<1>5. ASSUME NEW r \in Requests, SeedCounter(r) PROVE PeriodPlaces'
  BY <1>5 DEF SeedCounter
<1>6. ASSUME NEW r \in Requests, ReadFailed(r) PROVE PeriodPlaces'
  BY <1>6 DEF ReadFailed
<1>7. ASSUME NEW r \in Requests, ListFailed(r) PROVE PeriodPlaces'
  BY <1>7 DEF ListFailed, Listed
<1>8. ASSUME NEW r \in Requests, SeedFailed(r) PROVE PeriodPlaces'
  BY <1>8 DEF SeedFailed
<1>9. ASSUME NEW r \in Requests, CheckRequestsPerPeriod(r) PROVE PeriodPlaces'
  BY <1>9 DEF CheckRequestsPerPeriod
<1>10. ASSUME NEW r \in Requests, PeriodExceeded(r) PROVE PeriodPlaces'
  BY <1>10 DEF PeriodExceeded
<1>11. ASSUME NEW r \in Requests, PeriodExceededFailed(r) PROVE PeriodPlaces'
  BY <1>11 DEF PeriodExceededFailed
<1>12. ASSUME NEW r \in Requests, CheckPlanRPD(r) PROVE PeriodPlaces'
  BY <1>12 DEF CheckPlanRPD
<1>13. ASSUME NEW r \in Requests, DayExceeded(r) PROVE PeriodPlaces'
  BY <1>13 DEF DayExceeded
<1>14. ASSUME NEW r \in Requests, DayExceededFailed(r) PROVE PeriodPlaces'
  BY <1>14 DEF DayExceededFailed
<1>15. ASSUME NEW r \in Requests, Commit(r) PROVE PeriodPlaces'
  BY <1>15 DEF Commit
<1>16. ASSUME NEW r \in Requests, RecordSuccess(r) PROVE PeriodPlaces'
  BY <1>16 DEF RecordSuccess
<1>17. ASSUME NEW r \in Requests, RecordUncounted(r) PROVE PeriodPlaces'
  BY <1>17 DEF RecordUncounted
<1>18. ASSUME NEW r \in Requests, Fail(r) PROVE PeriodPlaces'
  BY <1>18 DEF Fail
<1>19. ASSUME NEW r \in Requests, RollbackRequestsPerPeriod(r) PROVE PeriodPlaces'
  BY <1>19 DEF RollbackRequestsPerPeriod
<1>20. ASSUME NEW r \in Requests, RollbackPlanRPD(r) PROVE PeriodPlaces'
  BY <1>20 DEF RollbackPlanRPD
<1>21. ASSUME NEW r \in Requests, RollbackFailed(r) PROVE PeriodPlaces'
  BY <1>21 DEF RollbackFailed
<1>22. ASSUME NEW r \in Requests, NEW applied \in BOOLEAN, SentinelFailed(r, applied) PROVE PeriodPlaces'
  BY <1>22 DEF SentinelFailed
<1>23. ASSUME NEW r \in Requests, NEW applied \in BOOLEAN, ResetFailed(r, applied) PROVE PeriodPlaces'
  BY <1>23 DEF ResetFailed
<1>24. ASSUME NEW r \in Requests, NEW applied \in BOOLEAN, CountFailed(r, applied) PROVE PeriodPlaces'
  BY <1>24 DEF CountFailed
<1>25. ASSUME NEW r \in Requests, NEW applied \in BOOLEAN, DayCountFailed(r, applied) PROVE PeriodPlaces'
  BY <1>25 DEF DayCountFailed
<1>26. ASSUME Midnight PROVE PeriodPlaces'
  BY <1>26 DEF Midnight
<1>27. ASSUME Flush PROVE PeriodPlaces'
  BY <1>27 DEF Flush
<1>28. ASSUME Crash PROVE PeriodPlaces'
  BY <1>28 DEF Crash
<1>29. ASSUME UNCHANGED vars PROVE PeriodPlaces'
  BY <1>29 DEF vars
<1> QED
  BY <1>1, <1>2, <1>3, <1>4, <1>5, <1>6, <1>7, <1>8, <1>9, <1>10, <1>11,
     <1>12, <1>13, <1>14, <1>15, <1>16, <1>17, <1>18, <1>19, <1>20, <1>21,
     <1>22, <1>23, <1>24, <1>25, <1>26, <1>27, <1>28, <1>29 DEF Next, Baseline, Check, Finish

(* What a step can do to the period counter                                *)

\* Nothing, though a request may go on to its INCR.
Quiet ==
  /\ UNCHANGED <<period, inCounter, lost, tookPeriod>>
  /\ stuck \subseteq stuck' /\ forgotten \subseteq forgotten'
  /\ \A r \in Requests : pc'[r] = "overPeriod" <=> pc[r] = "overPeriod"
  /\ \/ \A r \in Requests : pc'[r] = "counting" => pc[r] = "counting"
     \/ Granted \ forgotten' \subseteq inCounter

\* It is written, or lost.
Written(S) ==
  /\ S \subseteq Granted
  /\ period' = Cardinality(S) /\ inCounter' = S
  /\ lost \subseteq lost' /\ forgotten \subseteq forgotten'
  /\ tookPeriod' = tookPeriod
  /\ \A r \in Requests : pc'[r] = "overPeriod" <=> pc[r] = "overPeriod"
  /\ \/ Granted \ forgotten' \subseteq S
     \/ S = {} /\ \A r \in Requests : pc'[r] # "counting"

\* Request r increments it and is granted its slot, is over the cap, or fails.
Added(r) ==
  /\ pc[r] = "counting"
  /\ period' = period + 1 /\ inCounter' = inCounter \cup {r}
  /\ UNCHANGED <<lost, forgotten>> /\ stuck \subseteq stuck'
  /\ \A q \in Requests \ {r} : tookPeriod'[q] = tookPeriod[q] /\ pc'[q] = pc[q]
  /\ \/ tookPeriod'[r] /\ pc'[r] = "daily" /\ period + 1 <= EffectiveRPP
     \/ ~tookPeriod'[r] /\ pc'[r] = "overPeriod"
     \/ ~tookPeriod'[r] /\ r \in stuck'

\* Request r takes its increment back.
GivenBack(r) ==
  /\ r \in Slots
  /\ period' = period - 1 /\ inCounter' = inCounter \ {r}
  /\ UNCHANGED <<lost, forgotten, stuck>>
  /\ ~tookPeriod'[r] /\ pc'[r] \notin {"overPeriod", "counting"}
  /\ \A q \in Requests \ {r} : tookPeriod'[q] = tookPeriod[q] /\ pc'[q] = pc[q]

\* Requests end without their DECR: it failed, or the process died.
LetGo ==
  /\ UNCHANGED <<period, inCounter, lost, forgotten>>
  /\ \A q \in Requests : /\ tookPeriod'[q] => tookPeriod[q]
                         /\ pc'[q] = "overPeriod" => pc[q] = "overPeriod"
                         /\ pc'[q] = "counting" => pc[q] = "counting"
  /\ inCounter \subseteq Slots' \cup stuck'

\* Without a cap the request is granted a slot that it does not take.
Uncapped ==
  /\ EffectiveRPP = 0
  /\ UNCHANGED <<period, inCounter, stuck>>
  /\ Slots \subseteq Slots'

\* Every step is one of them.
LEMMA Kinds ==
  ASSUME Shape, PeriodPlaces, CounterInv, [Next]_vars
  PROVE  \/ Quiet \/ LetGo \/ Uncapped
         \/ \E S \in SUBSET Requests : Written(S)
         \/ \E r \in Requests : Added(r) \/ GivenBack(r)
<1>0. RPP \in Nat /\ EffectiveRPP \in Nat /\ Cardinality({}) = 0
  BY LimitsAssumption, EffectiveType, FS_EmptySet
<1> USE <1>0 DEF Shape, Goto, Faulty, Proceed, Granted, periodSide, daySide, tracker, world
<1>1. ASSUME NEW r \in Requests, Begin(r) PROVE Quiet
  BY <1>1 DEF Begin, Quiet
<1>2. ASSUME NEW r \in Requests, ReadCounter(r) PROVE Quiet
  BY <1>2 DEF ReadCounter, Quiet
<1>3. ASSUME NEW r \in Requests, ListUsage(r) PROVE Quiet
  BY <1>3 DEF ListUsage, Listed, Quiet
<1>4. ASSUME NEW r \in Requests, ReadFailed(r) \/ ListFailed(r) \/ SeedFailed(r) PROVE Quiet
  BY <1>4 DEF ReadFailed, ListFailed, Listed, SeedFailed, Quiet
<1>5. ASSUME NEW r \in Requests, CheckPlanRPD(r) PROVE Quiet
  BY <1>5 DEF CheckPlanRPD, Quiet
<1>6. ASSUME NEW r \in Requests, DayExceeded(r) \/ DayExceededFailed(r) PROVE Quiet
  BY <1>6 DEF DayExceeded, DayExceededFailed, Quiet
<1>7. ASSUME NEW r \in Requests,
             Commit(r) \/ RecordSuccess(r) \/ RecordUncounted(r) \/ Fail(r)
      PROVE  Quiet
  BY <1>7 DEF Commit, RecordSuccess, RecordUncounted, Fail, Quiet
<1>8. ASSUME NEW r \in Requests, RollbackPlanRPD(r) PROVE Quiet
  BY <1>8 DEF RollbackPlanRPD, Quiet
<1>9. ASSUME NEW r \in Requests, NEW applied \in BOOLEAN,
             SentinelFailed(r, applied) \/ DayCountFailed(r, applied)
      PROVE  Quiet
  BY <1>9 DEF SentinelFailed, DayCountFailed, Quiet
<1>10. ASSUME Midnight \/ UNCHANGED vars PROVE Quiet
  BY <1>10 DEF Midnight, vars, Quiet
<1>11. ASSUME NEW r \in Requests, ResetCounter(r) PROVE Written({})
  BY <1>11 DEF ResetCounter, Overwrite, Written
<1>12. ASSUME NEW r \in Requests, SeedCounter(r) PROVE Written(seen[r])
  <2>1. seen[r] \subseteq Granted
    <3>1. RPP > 0
      BY <1>12 DEF SeedCounter, PeriodPlaces
    <3> QED
      BY <1>12, <3>1 DEF SeedCounter, PeriodPlaces
  <2> QED
    BY <1>12, <2>1 DEF SeedCounter, Overwrite, Written
<1>13. ASSUME NEW r \in Requests, NEW applied \in BOOLEAN, ResetFailed(r, applied)
       PROVE  Quiet \/ Written({})
  BY <1>13 DEF ResetFailed, Overwrite, Written, Quiet
<1>14. ASSUME Flush PROVE Written({})
  BY <1>14 DEF Flush, Overwrite, Written
<1>15. ASSUME NEW r \in Requests, CheckRequestsPerPeriod(r) PROVE Uncapped \/ Added(r)
  <2>1. CASE EffectiveRPP = 0
    BY <1>15, <2>1 DEF CheckRequestsPerPeriod, Uncapped, Slots
  <2>2. CASE EffectiveRPP # 0
    <3>1. ~tookPeriod[r]
      BY <1>15 DEF CheckRequestsPerPeriod, PeriodPlaces
    <3> QED
      BY <1>15, <2>2, <3>1 DEF CheckRequestsPerPeriod, Added
  <2> QED
    BY <2>1, <2>2
<1>16. ASSUME NEW r \in Requests, NEW applied \in BOOLEAN, CountFailed(r, applied)
       PROVE  Quiet \/ Added(r)
  <2>1. ~tookPeriod[r]
    BY <1>16 DEF CountFailed, PeriodPlaces
  <2> QED
    BY <1>16, <2>1 DEF CountFailed, Quiet, Added
<1>17. ASSUME NEW r \in Requests, PeriodExceeded(r) PROVE GivenBack(r)
  <2>1. ~tookPeriod[r]
    BY <1>17 DEF PeriodExceeded, PeriodPlaces
  <2> QED
    BY <1>17, <2>1 DEF PeriodExceeded, GivenBack, Slots
<1>18. ASSUME NEW r \in Requests, RollbackRequestsPerPeriod(r) PROVE Quiet \/ GivenBack(r)
  <2>1. CASE tookPeriod[r]
    BY <1>18, <2>1 DEF RollbackRequestsPerPeriod, GivenBack, Slots
  <2>2. CASE ~tookPeriod[r]
    BY <1>18, <2>2 DEF RollbackRequestsPerPeriod, Quiet
  <2> QED
    BY <2>1, <2>2
<1>19. ASSUME NEW r \in Requests, PeriodExceededFailed(r) PROVE LetGo
  BY <1>19 DEF PeriodExceededFailed, LetGo, CounterInv, Slots
<1>20. ASSUME NEW r \in Requests, RollbackFailed(r) PROVE LetGo \/ Quiet
  <2>1. CASE pc[r] = "undoing"
    BY <1>20, <2>1 DEF RollbackFailed, LetGo, CounterInv, Slots
  <2>2. CASE pc[r] # "undoing"
    BY <1>20, <2>2 DEF RollbackFailed, Quiet
  <2> QED
    BY <2>1, <2>2
<1>21. ASSUME Crash PROVE LetGo
  <2>1. \A q \in Requests : /\ tookPeriod'[q] => tookPeriod[q]
                            /\ pc'[q] = "overPeriod" => pc[q] = "overPeriod"
                            /\ pc'[q] = "counting" => pc[q] = "counting"
    BY <1>21 DEF Crash, Active
  <2>2. inCounter \subseteq Slots' \cup stuck'
    BY <1>21 DEF Crash, CounterInv, Slots, Active
  <2> QED
    BY <1>21, <2>1, <2>2 DEF Crash, LetGo
<1> QED
  BY <1>1, <1>2, <1>3, <1>4, <1>5, <1>6, <1>7, <1>8, <1>9, <1>10, <1>11,
     <1>12, <1>13, <1>14, <1>15, <1>16, <1>17, <1>18, <1>19, <1>20, <1>21
     DEF Next, Baseline, Check, Finish

\* The sets the invariants count.
LEMMA PeriodSets ==
  ASSUME Shape
  PROVE  /\ inCounter \in SUBSET Requests /\ Undercut \in SUBSET Requests
         /\ Granted \in SUBSET Requests /\ Slots \in SUBSET Requests
         /\ (Granted \ forgotten) \in SUBSET Requests
         /\ (Slots \cup stuck) \in SUBSET Requests
         /\ Cardinality(inCounter) \in Nat /\ Cardinality(Undercut) \in Nat
         /\ Cardinality(Granted \ forgotten) \in Nat
         /\ Cardinality(Slots \cup stuck) \in Nat
<1>1. /\ inCounter \in SUBSET Requests /\ Undercut \in SUBSET Requests
      /\ Granted \in SUBSET Requests /\ Slots \in SUBSET Requests
      /\ (Granted \ forgotten) \in SUBSET Requests
      /\ (Slots \cup stuck) \in SUBSET Requests
  BY DEF Shape, Undercut, Granted, Slots
<1> QED
  BY <1>1, SubsetFinite

\* A request whose increment was lost and that gave it back has done so for good.
LEMMA UndercutGrows ==
  ASSUME Shape, Shape', PeriodPlaces,
         Quiet \/ LetGo \/ (\E S \in SUBSET Requests : Written(S))
           \/ (\E r \in Requests : Added(r) \/ GivenBack(r))
  PROVE  /\ Undercut \subseteq Undercut'
         /\ Cardinality(Undercut) <= Cardinality(Undercut')
<1>1. Undercut \subseteq Undercut'
  <2>1. CASE Quiet
    BY <2>1 DEF Undercut, Quiet, Shape
  <2>2. CASE LetGo
    BY <2>2 DEF Undercut, LetGo, Shape
  <2>3. ASSUME NEW S \in SUBSET Requests, Written(S) PROVE Undercut \subseteq Undercut'
    BY <2>3 DEF Undercut, Written, Shape
  <2>4. ASSUME NEW r \in Requests, Added(r) PROVE Undercut \subseteq Undercut'
    BY <2>4 DEF Undercut, Added, Shape, PeriodPlaces
  <2>5. ASSUME NEW r \in Requests, GivenBack(r) PROVE Undercut \subseteq Undercut'
    BY <2>5 DEF Undercut, GivenBack, Shape
  <2> QED
    BY <2>1, <2>2, <2>3, <2>4, <2>5
<1>2. Undercut \in SUBSET Requests /\ Undercut' \in SUBSET Requests
  BY DEF Undercut, Shape
<1> QED
  BY <1>1, <1>2, Counting

\* The counter stays within the requests that it counts.
LEMMA CounterStep ==
  ASSUME Shape, Shape', PeriodPlaces, CounterInv, [Next]_vars
  PROVE  CounterInv'
<1> DEFINE capped == RPP > 0 /\ EffectiveRPP > 0
<1>00. /\ inCounter \in SUBSET Requests /\ inCounter' \in SUBSET Requests
       /\ Undercut \in SUBSET Requests /\ Undercut' \in SUBSET Requests
       /\ period \in Int /\ period' \in Int
  BY DEF Shape, Undercut
<1>01. PICK n \in Nat, u \in Nat, n1 \in Nat, u1 \in Nat :
            /\ n = Cardinality(inCounter) /\ n1 = Cardinality(inCounter')
            /\ u = Cardinality(Undercut) /\ u1 = Cardinality(Undercut')
  BY <1>00, SubsetFinite
<1>0. /\ period <= n /\ (capped => n <= period + u)
      /\ inCounter \subseteq Slots \cup stuck
      /\ inCounter \in SUBSET Requests /\ inCounter' \in SUBSET Requests
      /\ Undercut \in SUBSET Requests /\ Undercut' \in SUBSET Requests
      /\ period \in Int /\ period' \in Int
  BY <1>00, <1>01 DEF CounterInv
<1> SUFFICES /\ inCounter' \subseteq Slots' \cup stuck'
             /\ period' <= n1 /\ (capped => n1 <= period' + u1)
  BY <1>01 DEF CounterInv
<1>1. CASE Quiet
  <2>1. u <= u1
    BY <1>1, UndercutGrows, <1>01
  <2>2. period' = period /\ n1 = n /\ Slots' = Slots /\ stuck \subseteq stuck' /\ inCounter' = inCounter
    BY <1>1, <1>01 DEF Quiet, Slots, Shape
  <2>3. inCounter' \subseteq Slots' \cup stuck'
    BY <1>0, <2>2
  <2> QED
    BY <1>0, <2>1, <2>2, <2>3
<1>2. CASE LetGo
  <2>1. u <= u1
    BY <1>2, UndercutGrows, <1>01
  <2>2. period' = period /\ n1 = n /\ inCounter' \subseteq Slots' \cup stuck'
    BY <1>2, <1>01 DEF LetGo
  <2> QED
    BY <1>0, <2>1, <2>2
<1>3. CASE Uncapped
  <2>1. period' = period /\ n1 = n /\ inCounter' \subseteq Slots' \cup stuck' /\ ~capped
    BY <1>0, <1>3, EffectiveType, <1>01 DEF Uncapped
  <2> QED
    BY <1>0, <2>1
<1>4. ASSUME NEW S \in SUBSET Requests, Written(S)
      PROVE  /\ inCounter' \subseteq Slots' \cup stuck'
             /\ period' <= n1 /\ (capped => n1 <= period' + u1)
  <2>1. period' = n1
    BY <1>4, <1>01 DEF Written
  <2>2. inCounter' \subseteq Slots' \cup stuck'
    BY <1>4 DEF Written, Slots, Granted, Shape
  <2> QED
    BY <1>0, <2>1, <2>2
<1>5. ASSUME NEW r \in Requests, Added(r)
      PROVE  /\ inCounter' \subseteq Slots' \cup stuck'
             /\ period' <= n1 /\ (capped => n1 <= period' + u1)
  <2>1. u <= u1
    BY <1>5, UndercutGrows, <1>01
  <2>2. r \notin inCounter
    BY <1>5 DEF Added, PeriodPlaces
  <2>3. n1 = n + 1
    BY <1>0, <1>5, <2>2, Counting, <1>01 DEF Added
  <2>4. inCounter' \subseteq Slots' \cup stuck'
    <3>1. r \in Slots' \cup stuck'
      BY <1>5 DEF Added, Slots
    <3>2. \A q \in inCounter : q \in Slots' \cup stuck'
      BY <1>0, <1>5, <2>2 DEF Added, Slots
    <3> QED
      BY <1>5, <3>1, <3>2 DEF Added
  <2>5. period' = period + 1
    BY <1>5 DEF Added
  <2> QED
    BY <1>0, <2>1, <2>3, <2>4, <2>5
<1>6. ASSUME NEW r \in Requests, GivenBack(r)
      PROVE  /\ inCounter' \subseteq Slots' \cup stuck'
             /\ period' <= n1 /\ (capped => n1 <= period' + u1)
  <2>1. u <= u1 /\ period' = period - 1
    BY <1>6, UndercutGrows, <1>01 DEF GivenBack
  <2>2. inCounter' \subseteq Slots' \cup stuck'
    BY <1>0, <1>6 DEF GivenBack, Slots
  <2>3. CASE r \in inCounter
    <3>1. n1 = n - 1
      BY <1>0, <1>6, <2>3, Counting, <1>01 DEF GivenBack
    <3> QED
      BY <1>0, <2>1, <2>2, <3>1
  <2>4. CASE r \notin inCounter
    <3>1. n1 = n
      BY <1>6, <2>4, <1>01 DEF GivenBack
    <3>2. ASSUME capped PROVE u1 >= u + 1
      <4>1. r \in Undercut' /\ r \notin Undercut
        BY <1>6, <2>4, <3>2 DEF GivenBack, Slots, Undercut, PeriodPlaces
      <4>2. Undercut \cup {r} \in SUBSET Requests
        BY <1>0
      <4>3. Cardinality(Undercut \cup {r}) = u + 1
        BY <1>0, <4>1, <4>2, Counting, <1>01
      <4>4. Undercut \cup {r} \subseteq Undercut'
        BY <1>6, <4>1, UndercutGrows, <1>01
      <4>5. Cardinality(Undercut \cup {r}) <= u1
        BY <1>0, <4>2, <4>4, Counting, <1>01
      <4> QED
        BY <1>0, <4>3, <4>5
    <3>3. period' = period - 1 /\ period <= n /\ (capped => n <= period + u)
      BY <1>0, <2>1
    <3> QED
      BY <1>0, <2>2, <3>1, <3>2, <3>3
  <2> QED
    BY <2>3, <2>4
<1> QED
  BY <1>1, <1>2, <1>3, <1>4, <1>5, <1>6, Kinds

\* A counter that misses a granted request is not incremented before the request
\* is forgotten.
LEMMA BaselineStep ==
  ASSUME Shape, Shape', PeriodPlaces, CounterInv, BaselineInv, [Next]_vars
  PROVE  BaselineInv'
<1> SUFFICES ASSUME RPP > 0, EffectiveRPP > 0
             PROVE  \/ Granted' \ forgotten' \subseteq inCounter'
                    \/ period' <= 0 /\ \A r \in Requests : pc'[r] # "counting"
  BY DEF BaselineInv
<1>0. \/ Granted \ forgotten \subseteq inCounter
      \/ period <= 0 /\ \A r \in Requests : pc[r] # "counting"
  BY DEF BaselineInv
<1>1. ~Uncapped
  BY EffectiveType DEF Uncapped
<1>2. ASSUME Quiet PROVE BaselineInv'
  <2>1. Granted' = Granted /\ inCounter' = inCounter /\ period' = period /\ forgotten \subseteq forgotten'
    BY <1>2 DEF Quiet, Granted
  <2> QED
    BY <1>0, <1>2, <2>1 DEF Quiet, BaselineInv
<1>3. ASSUME LetGo PROVE BaselineInv'
  <2>1. Granted' \subseteq Granted /\ inCounter' = inCounter /\ period' = period /\ forgotten' = forgotten
    BY <1>3 DEF LetGo, Granted
  <2> QED
    BY <1>0, <1>3, <2>1 DEF LetGo, BaselineInv
<1>4. ASSUME NEW S \in SUBSET Requests, Written(S) PROVE BaselineInv'
  <2>1. Granted' = Granted
    BY <1>4 DEF Written, Granted
  <2>2. S = {} => period' <= 0
    BY <1>4, FS_EmptySet DEF Written
  <2> QED
    BY <1>4, <2>1, <2>2 DEF Written, BaselineInv
<1>5. ASSUME NEW r \in Requests, Added(r) PROVE BaselineInv'
  <2>1. Granted \ forgotten \subseteq inCounter
    BY <1>0, <1>5 DEF Added
  <2>2. Granted' \subseteq Granted \cup {r}
    BY <1>5 DEF Added, Granted
  <2> QED
    BY <1>5, <2>1, <2>2 DEF Added, BaselineInv
<1>6. ASSUME NEW r \in Requests, GivenBack(r) PROVE BaselineInv'
  <2>1. Granted' \subseteq Granted \ {r}
    BY <1>6 DEF GivenBack, Granted
  <2>2. period <= 0 => period' <= 0
    BY <1>6 DEF GivenBack, Shape
  <2> QED
    BY <1>0, <1>6, <2>1, <2>2 DEF GivenBack, BaselineInv
<1> QED
  BY <1>1, <1>2, <1>3, <1>4, <1>5, <1>6, Kinds DEF BaselineInv

\* A request is granted on the value that its own INCR returned, so the requests
\* the counter does not miss stay within the cap.
LEMMA GrantStep ==
  ASSUME Shape, Shape', PeriodPlaces, CounterInv, BaselineInv, GrantInv, [Next]_vars
  PROVE  GrantInv'
<1> SUFFICES ASSUME RPP > 0, EffectiveRPP > 0, Granted' \ (Past \cup forgotten') # {}
             PROVE  Cardinality(Granted' \ forgotten') <= EffectiveRPP + Cardinality(Undercut')
  BY DEF GrantInv
<1>0. /\ (Granted \ forgotten) \in SUBSET Requests /\ (Granted' \ forgotten') \in SUBSET Requests
      /\ Undercut \in SUBSET Requests /\ Undercut' \in SUBSET Requests
      /\ inCounter \in SUBSET Requests /\ inCounter' \in SUBSET Requests
  BY DEF Granted, Undercut, Shape
<1>1. PICK g \in Nat, g1 \in Nat, u \in Nat, u1 \in Nat, n \in Nat, n1 \in Nat :
           /\ g = Cardinality(Granted \ forgotten) /\ g1 = Cardinality(Granted' \ forgotten')
           /\ u = Cardinality(Undercut) /\ u1 = Cardinality(Undercut')
           /\ n = Cardinality(inCounter) /\ n1 = Cardinality(inCounter')
  BY <1>0, SubsetFinite
<1>2. EffectiveRPP \in Nat /\ period \in Int /\ n <= period + u
  BY <1>1, EffectiveType DEF Shape, CounterInv
<1>3. ~Uncapped
  BY EffectiveType DEF Uncapped
<1>4. u <= u1
  BY <1>1, <1>3, Kinds, UndercutGrows
\* No request is granted.
<1>5. ASSUME Granted' \subseteq Granted, forgotten \subseteq forgotten'
      PROVE  g1 <= EffectiveRPP + u1
  <2>1. Granted \ (Past \cup forgotten) # {}
    BY <1>5
  <2>2. g <= EffectiveRPP + u
    BY <1>1, <2>1 DEF GrantInv
  <2>3. g1 <= g
    <3>1. Granted' \ forgotten' \subseteq Granted \ forgotten
      BY <1>5
    <3> QED
      BY <1>0, <1>1, <3>1, Counting
  <2> QED
    BY <1>2, <1>4, <2>2, <2>3
<1>6. ASSUME Quiet \/ LetGo \/ \E S \in SUBSET Requests : Written(S)
      PROVE  g1 <= EffectiveRPP + u1
  <2>1. Granted' \subseteq Granted /\ forgotten \subseteq forgotten'
    BY <1>6 DEF Quiet, LetGo, Written, Granted
  <2> QED
    BY <1>5, <2>1
<1>7. ASSUME NEW r \in Requests, GivenBack(r) PROVE g1 <= EffectiveRPP + u1
  <2>1. Granted' \subseteq Granted /\ forgotten' = forgotten
    BY <1>7 DEF GivenBack, Granted
  <2> QED
    BY <1>5, <2>1
<1>8. ASSUME NEW r \in Requests, Added(r) PROVE g1 <= EffectiveRPP + u1
  <2>1. CASE tookPeriod'[r] /\ period + 1 <= EffectiveRPP
    <3>1. r \notin inCounter /\ inCounter' = inCounter \cup {r}
      BY <1>8 DEF Added, PeriodPlaces
    <3>2. n1 = n + 1
      BY <1>0, <1>1, <3>1, Counting
    <3>3. Granted' \ forgotten' \subseteq inCounter'
      <4>1. Granted \ forgotten \subseteq inCounter
        BY <1>8 DEF Added, BaselineInv
      <4>2. Granted' \subseteq Granted \cup {r} /\ forgotten' = forgotten
        BY <1>8 DEF Added, Granted
      <4> QED
        BY <3>1, <4>1, <4>2
    <3>4. g1 <= n1
      BY <1>0, <1>1, <3>3, Counting
    <3> QED
      BY <1>2, <1>4, <2>1, <3>2, <3>4
  <2>2. CASE ~tookPeriod'[r]
    <3>1. Granted' \subseteq Granted /\ forgotten' = forgotten
      BY <1>8, <2>2 DEF Added, Granted
    <3> QED
      BY <1>5, <3>1
  <2> QED
    BY <1>8, <2>1, <2>2 DEF Added
<1> QED
  BY <1>1, <1>3, <1>6, <1>7, <1>8, Kinds

\* Each reset is done or under way under a sentinel of its own.
LEMMA ResetStep ==
  ASSUME Shape, Shape', ResetInv, [Next]_vars
  PROVE  ResetInv'
<1> DEFINE InReset == {r \in Requests : pc[r] = "resetting"}
           Guard == IF sentinel THEN 1 ELSE 0
<1>0. InReset \in SUBSET Requests /\ InReset' \in SUBSET Requests
  OBVIOUS
<1>1. PICK k \in Nat, k1 \in Nat, s \in Int, s1 \in Int :
           /\ k = Cardinality(InReset) /\ k1 = Cardinality(InReset')
           /\ s = Guard /\ s1 = Guard'
  <2>1. Cardinality(InReset) \in Nat /\ Cardinality(InReset') \in Nat
    BY <1>0, SubsetFinite
  <2>2. Guard \in Int /\ Guard' \in Int
    OBVIOUS
  <2> HIDE DEF InReset, Guard
  <2> QED
    BY <2>1, <2>2
<1>2. /\ resets \in Nat /\ resets' \in Nat /\ flushes \in Nat /\ flushes' \in Nat
      /\ resets + k <= flushes + s
  BY <1>1 DEF Shape, ResetInv
<1> SUFFICES resets' + k1 <= flushes' + s1
  BY <1>1 DEF ResetInv
\* Most steps: no reset begins or ends, and the sentinel is not lost.
<1>3. ASSUME InReset' \subseteq InReset, UNCHANGED <<resets, flushes>>, sentinel => sentinel'
      PROVE  resets' + k1 <= flushes' + s1
  <2>1. k1 <= k
    BY <1>0, <1>1, <1>3, Counting
  <2>2. s <= s1
    BY <1>1, <1>3
  <2> QED
    BY <1>2, <1>3, <2>1, <2>2
<1>31. ASSUME resets' <= resets + 1, flushes' = flushes, k1 = k - 1, s1 = s
       PROVE  resets' + k1 <= flushes' + s1
  <2>1. PICK a \in Nat, b \in Nat, f \in Nat : a = resets /\ b = resets' /\ f = flushes
    BY <1>2
  <2>2. b <= a + 1 /\ a + k <= f + s /\ flushes' = f
    BY <1>2, <1>31, <2>1
  <2>3. b + (k - 1) <= f + s
    BY <2>2
  <2> QED
    BY <1>31, <2>1, <2>2, <2>3
<1>32. s <= 1 /\ s1 >= 0
  BY <1>1
<1> USE DEF Shape, Goto, Faulty, Proceed, Overwrite, periodSide, daySide, tracker, world
<1>4. ASSUME NEW r \in Requests, Begin(r) PROVE resets' + k1 <= flushes' + s1
  <2>0. pc[r] = "new" /\ resets' = resets /\ flushes' = flushes
    BY <1>4 DEF Begin
  <2>1. CASE RPP # 0 /\ needsReset /\ ~sentinel
    <3>1. InReset' = InReset \cup {r} /\ r \notin InReset
      BY <1>4, <2>1 DEF Begin
    <3>2. k1 = k + 1
      BY <1>0, <1>1, <3>1, Counting
    <3>3. sentinel'
      <4>1. RPP > 0
        BY <2>1, LimitsAssumption
      <4>2. sentinel' = (sentinel \/ (RPP > 0 /\ needsReset))
        BY <1>4 DEF Begin
      <4> QED
        BY <2>1, <4>1, <4>2, Zenon
    <3>4. s = 0 /\ s1 = 1
      BY <1>1, <2>1, <3>3
    <3> QED
      BY <1>2, <2>0, <3>2, <3>4
  <2>2. CASE ~(RPP # 0 /\ needsReset /\ ~sentinel)
    <3>1. InReset' \subseteq InReset
      BY <1>4, <2>2 DEF Begin
    <3>2. sentinel => sentinel'
      BY <1>4 DEF Begin
    <3> QED
      BY <1>3, <2>0, <3>1, <3>2
  <2> QED
    BY <2>1, <2>2
<1>5. ASSUME NEW r \in Requests, NEW applied \in BOOLEAN,
             ResetCounter(r) \/ ResetFailed(r, applied)
      PROVE  resets' + k1 <= flushes' + s1
  <2>1. /\ resets' \in {resets, resets + 1} /\ flushes' = flushes /\ sentinel' = sentinel
        /\ InReset' = InReset \ {r} /\ r \in InReset
    BY <1>5 DEF ResetCounter, ResetFailed
  <2>2. k1 = k - 1
    BY <1>0, <1>1, <2>1, Counting
  <2>3. s1 = s
    BY <1>1, <2>1
  <2>4. resets' <= resets + 1 /\ flushes' = flushes
    BY <1>2, <2>1
  <2> QED
    BY <1>31, <2>2, <2>3, <2>4
<1>6. ASSUME Flush PROVE resets' + k1 <= flushes' + s1
  <2>1. InReset' = InReset /\ resets' = resets /\ flushes' = flushes + 1
    BY <1>6 DEF Flush
  <2>2. k1 = k
    BY <1>1, <2>1
  <2> QED
    BY <1>2, <1>32, <2>1, <2>2
<1> DEFINE Still == InReset' \subseteq InReset /\ UNCHANGED <<resets, flushes>> /\ (sentinel => sentinel')
<1>7. ASSUME NEW r \in Requests,
             ReadCounter(r) \/ ListUsage(r) \/ SeedCounter(r) \/ ReadFailed(r)
               \/ ListFailed(r) \/ SeedFailed(r)
      PROVE  Still
  BY <1>7 DEF ReadCounter, ListUsage, Listed, SeedCounter, ReadFailed, ListFailed, SeedFailed
<1>8. ASSUME NEW r \in Requests, NEW applied \in BOOLEAN,
             SentinelFailed(r, applied) \/ CountFailed(r, applied) \/ DayCountFailed(r, applied)
      PROVE  Still
  BY <1>8 DEF SentinelFailed, CountFailed, DayCountFailed
<1>9. ASSUME NEW r \in Requests,
             CheckRequestsPerPeriod(r) \/ PeriodExceeded(r) \/ PeriodExceededFailed(r)
      PROVE  Still
  BY <1>9 DEF CheckRequestsPerPeriod, PeriodExceeded, PeriodExceededFailed
<1>10. ASSUME NEW r \in Requests,
              CheckPlanRPD(r) \/ DayExceeded(r) \/ DayExceededFailed(r)
       PROVE  Still
  BY <1>10 DEF CheckPlanRPD, DayExceeded, DayExceededFailed
<1>11. ASSUME NEW r \in Requests,
              Commit(r) \/ RecordSuccess(r) \/ RecordUncounted(r) \/ Fail(r)
       PROVE  Still
  BY <1>11 DEF Commit, RecordSuccess, RecordUncounted, Fail
<1>12. ASSUME NEW r \in Requests,
              RollbackRequestsPerPeriod(r) \/ RollbackPlanRPD(r) \/ RollbackFailed(r)
       PROVE  Still
  BY <1>12 DEF RollbackRequestsPerPeriod, RollbackPlanRPD, RollbackFailed
<1>13. ASSUME Midnight \/ Crash \/ UNCHANGED vars PROVE Still
  BY <1>13 DEF Midnight, Crash, vars, Active
<1> HIDE DEF Still
<1>14. \/ Still \/ resets' + k1 <= flushes' + s1
  BY <1>4, <1>5, <1>6, <1>7, <1>8, <1>9, <1>10, <1>11, <1>12, <1>13
     DEF Next, Baseline, Check, Finish
<1> QED
  BY <1>3, <1>14 DEF Still

\* Initially the counter holds the requests of the ledger, or it is to be seeded.
LEMMA PeriodInit == Init => Shape /\ PeriodInv
<1> SUFFICES ASSUME Init PROVE Shape /\ PeriodInv
  OBVIOUS
<1> USE DEF Init
<1>0. Past \in SUBSET Requests /\ Cardinality(Past) \in Nat /\ Cardinality({}) = 0
  BY LimitsAssumption, SubsetFinite, FS_EmptySet
<1>1. Shape
  <2>1. sentinel \in BOOLEAN
    OBVIOUS
  <2>2. pc \in [Requests -> Active \cup Terminal \cup {"new"}]
    BY DEF Active, Terminal
  <2>3. tookPeriod \in [Requests -> BOOLEAN] /\ seen \in [Requests -> SUBSET Requests]
    BY <1>0
  <2>4. period \in Int /\ inCounter \subseteq Requests /\ lost \subseteq Requests
    BY <1>0
  <2> QED
    BY <1>0, <2>1, <2>2, <2>3, <2>4 DEF Shape
<1>2. Granted = Past /\ recorded = Past /\ Slots = Past
  BY <1>0 DEF Granted, Slots
<1>3. PeriodPlaces
  BY <1>0 DEF PeriodPlaces
<1>4. Undercut = {}
  BY <1>0 DEF Undercut
<1>5. CounterInv
  BY <1>0, <1>2, <1>4 DEF CounterInv
<1>6. BaselineInv
  BY <1>0, <1>2 DEF BaselineInv
<1>7. GrantInv
  BY <1>2 DEF GrantInv
<1>8. ResetInv
  <2>1. {r \in Requests : pc[r] = "resetting"} = {}
    OBVIOUS
  <2>2. Cardinality({r \in Requests : pc[r] = "resetting"}) = 0
    BY <1>0, <2>1
  <2> QED
    BY <2>2 DEF ResetInv
<1> QED
  BY <1>1, <1>3, <1>5, <1>6, <1>7, <1>8 DEF PeriodInv

\* Both invariants hold in every state.
LEMMA PeriodAlways == Spec => [](Shape /\ PeriodInv)
<1>1. Shape /\ PeriodInv /\ [Next]_vars => (Shape /\ PeriodInv)'
  BY ShapeStep, PlacesStep, CounterStep, BaselineStep, GrantStep, ResetStep DEF PeriodInv
<1> QED
  BY <1>1, PeriodInit, PTL DEF Spec

\* Every exit of applyPreRequestLimits and of the handlers gives its period slot
\* back: whatever overlaps, the counter never exceeds the requests that hold a
\* slot and those whose DECR failed, whose INCR was not answered or whose process
\* died.
THEOREM SlotsAlwaysAccounted == Spec => []SlotsAccounted
<1>1. Shape /\ PeriodInv => SlotsAccounted
  <2> SUFFICES ASSUME Shape, PeriodInv PROVE SlotsAccounted
    OBVIOUS
  <2>1. inCounter \in SUBSET Requests /\ (Slots \cup stuck) \in SUBSET Requests
    BY PeriodSets
  <2>2. inCounter \subseteq Slots \cup stuck /\ period <= Cardinality(inCounter) /\ period \in Int
    BY DEF PeriodInv, CounterInv, Shape
  <2>3. Cardinality(inCounter) <= Cardinality(Slots \cup stuck)
    BY <2>1, <2>2, Counting
  <2>4. Cardinality(inCounter) \in Nat /\ Cardinality(Slots \cup stuck) \in Nat
    BY PeriodSets
  <2> QED
    BY <2>2, <2>3, <2>4 DEF SlotsAccounted
<1> QED
  BY <1>1, PeriodAlways, PTL

\* However many requests overlap and whichever commands fail, CheckRequestsPerPeriod
\* admits no more of them than MaxRequestsPerPeriod less the debt reserve allows,
\* apart from those the counter had lost and the baseline could not bring back,
\* and one for each DECR of an increment that was lost; and the reset is granted
\* once for each life of its sentinel.
THEOREM PeriodCapAlwaysHolds == Spec => []PeriodCapHolds
<1>1. Shape /\ PeriodInv => PeriodCapHolds
  <2> SUFFICES ASSUME Shape, PeriodInv PROVE PeriodCapHolds
    OBVIOUS
  <2>1. resets <= flushes + 1
    <3>1. Cardinality({r \in Requests : pc[r] = "resetting"}) \in Nat
      BY SubsetFinite
    <3> QED
      BY <3>1 DEF PeriodInv, ResetInv, Shape
  <2>2. ASSUME RPP > 0, EffectiveRPP > 0, Admitted \ (Past \cup forgotten) # {}
        PROVE  Cardinality(Admitted \ forgotten) <= EffectiveRPP + Cardinality(Undercut)
    <3>1. Admitted \subseteq Granted /\ (Admitted \ forgotten) \in SUBSET Requests
      BY <2>2 DEF Admitted, Granted, PeriodInv, PeriodPlaces
    <3>2. Cardinality(Granted \ forgotten) <= EffectiveRPP + Cardinality(Undercut)
      BY <2>2, <3>1 DEF PeriodInv, GrantInv
    <3>3. Cardinality(Admitted \ forgotten) <= Cardinality(Granted \ forgotten)
      <4>1. Admitted \ forgotten \subseteq Granted \ forgotten
        BY <3>1
      <4> QED
        BY <3>1, <4>1, PeriodSets, Counting
    <3>4. /\ Cardinality(Granted \ forgotten) \in Nat /\ Cardinality(Admitted \ forgotten) \in Nat
          /\ Cardinality(Undercut) \in Nat /\ EffectiveRPP \in Nat
      BY <3>1, PeriodSets, SubsetFinite, EffectiveType
    <3> QED
      BY <3>2, <3>3, <3>4
  <2> QED
    BY <2>1, <2>2 DEF PeriodCapHolds
<1> QED
  BY <1>1, PeriodAlways, PTL

-----------------------------------------------------------------------------
(* The daily cap                                                           *)

\* The types of the day counters, and where a request stands decides whether its
\* increment is in one of them.
DayShape ==
  /\ pc \in [Requests -> Active \cup Terminal \cup {"new"}]
  /\ tookDay \in [Requests -> BOOLEAN] /\ dayOf \in [Requests -> 0..MaxDay]
  /\ day \in [1..MaxDay -> Int] /\ today \in 1..MaxDay
  /\ lostDay \subseteq Requests

DayPlaces ==
  \A r \in Requests :
    /\ pc[r] \in {"new", "resetting", "reading", "listing", "seeding", "counting",
                  "overPeriod", "daily", "rejected"} => dayOf[r] = 0 /\ ~tookDay[r]
    /\ pc[r] = "overDay" => dayOf[r] \in 1..today
    /\ pc[r] \in {"overDay", "failed", "crashed"} => ~tookDay[r]
    /\ pc[r] \in {"running", "settling", "counted", "unrecorded"} => tookDay[r] \/ dayOf[r] = 0
    /\ tookDay[r] => dayOf[r] \in 1..today
    /\ r \in lostDay => dayOf[r] # 0

\* The requests whose increment is in the counter of day d, and those of them
\* that were admitted.
InDay(d)    == {r \in Requests \ lostDay : dayOf[r] = d /\ (tookDay[r] \/ pc[r] = "overDay")}
TookDay(d)  == {r \in Requests \ lostDay : dayOf[r] = d /\ tookDay[r]}

DayInv ==
  /\ \A d \in 1..MaxDay : Cardinality(InDay(d)) <= day[d] + Cardinality(Strays(d))
  /\ \A d \in 1..MaxDay : Cardinality(TookDay(d)) <= RPD + Cardinality(Strays(d))

\* CheckPlanRPD with a daily cap: the INCR, and what its answer decides.
LEMMA PlanRPDFacts ==
  ASSUME RPD # 0, NEW r \in Requests, CheckPlanRPD(r)
  PROVE  /\ pc[r] = "daily"
         /\ day' = [day EXCEPT ![today] = @ + 1] /\ dayOf' = [dayOf EXCEPT ![r] = today]
         /\ \/ /\ day[today] + 1 > RPD /\ tookDay' = tookDay
               /\ pc' = [pc EXCEPT ![r] = "overDay"]
            \/ /\ ~(day[today] + 1 > RPD) /\ tookDay' = [tookDay EXCEPT ![r] = TRUE]
               /\ pc' = [pc EXCEPT ![r] = "running"]
         /\ UNCHANGED <<today, lostDay>>
BY DEF CheckPlanRPD, Goto, world

\* The day counters and the requests' days keep their types.
LEMMA DayShapeStep == DayShape /\ [Next]_vars => DayShape'
<1> SUFFICES ASSUME DayShape, [Next]_vars PROVE DayShape'
  OBVIOUS
<1> USE LimitsAssumption DEF DayShape, Active, Terminal, Goto, Faulty, Proceed, periodSide, daySide, tracker, world
<1>1. ASSUME NEW r \in Requests, Begin(r) PROVE DayShape'
  BY <1>1 DEF Begin
<1>2. ASSUME NEW r \in Requests, ResetCounter(r) PROVE DayShape'
  BY <1>2 DEF ResetCounter
<1>3. ASSUME NEW r \in Requests, ReadCounter(r) PROVE DayShape'
  BY <1>3 DEF ReadCounter
<1>4. ASSUME NEW r \in Requests, ListUsage(r) PROVE DayShape'
  BY <1>4 DEF ListUsage, Listed
<1>5. ASSUME NEW r \in Requests, SeedCounter(r) PROVE DayShape'
  BY <1>5 DEF SeedCounter
<1>6. ASSUME NEW r \in Requests, ReadFailed(r) PROVE DayShape'
  BY <1>6 DEF ReadFailed
<1>7. ASSUME NEW r \in Requests, ListFailed(r) PROVE DayShape'
  BY <1>7 DEF ListFailed, Listed
<1>8. ASSUME NEW r \in Requests, SeedFailed(r) PROVE DayShape'
  BY <1>8 DEF SeedFailed
<1>9. ASSUME NEW r \in Requests, CheckRequestsPerPeriod(r) PROVE DayShape'
  BY <1>9 DEF CheckRequestsPerPeriod
<1>10. ASSUME NEW r \in Requests, PeriodExceeded(r) PROVE DayShape'
  BY <1>10 DEF PeriodExceeded
<1>11. ASSUME NEW r \in Requests, PeriodExceededFailed(r) PROVE DayShape'
  BY <1>11 DEF PeriodExceededFailed
<1>12. ASSUME NEW r \in Requests, CheckPlanRPD(r) PROVE DayShape'
  <2>1. CASE RPD = 0
    BY <1>12, <2>1 DEF CheckPlanRPD
  <2>2. CASE RPD # 0
    <3>0. /\ day' = [day EXCEPT ![today] = @ + 1] /\ dayOf' = [dayOf EXCEPT ![r] = today]
          /\ \/ pc' = [pc EXCEPT ![r] = "overDay"] \/ pc' = [pc EXCEPT ![r] = "running"]
          /\ UNCHANGED <<today, lostDay>>
      BY <1>12, <2>2, PlanRPDFacts
    <3>1. day' \in [1..MaxDay -> Int] /\ dayOf' \in [Requests -> 0..MaxDay] /\ UNCHANGED <<today, lostDay>>
      <4>1. day[today] + 1 \in Int /\ today \in 0..MaxDay
        OBVIOUS
      <4> QED
        BY <3>0, <4>1
    <3>2. pc' \in [Requests -> Active \cup Terminal \cup {"new"}]
      BY <3>0
    <3>3. tookDay' \in [Requests -> BOOLEAN]
      <4>1. tookDay' = tookDay \/ tookDay' = [tookDay EXCEPT ![r] = TRUE]
        BY <1>12, <2>2, PlanRPDFacts
      <4> QED
        BY <4>1
    <3> QED
      BY <3>1, <3>2, <3>3
  <2> QED
    BY <2>1, <2>2
<1>13. ASSUME NEW r \in Requests, DayExceeded(r) PROVE DayShape'
  <2>1. \A d \in 1..MaxDay : day[d] - 1 \in Int
    OBVIOUS
  <2> QED
    BY <1>13, <2>1 DEF DayExceeded
<1>14. ASSUME NEW r \in Requests, DayExceededFailed(r) PROVE DayShape'
  BY <1>14 DEF DayExceededFailed
<1>15. ASSUME NEW r \in Requests, Commit(r) PROVE DayShape'
  BY <1>15 DEF Commit
<1>16. ASSUME NEW r \in Requests, RecordSuccess(r) PROVE DayShape'
  BY <1>16 DEF RecordSuccess
<1>17. ASSUME NEW r \in Requests, RecordUncounted(r) PROVE DayShape'
  BY <1>17 DEF RecordUncounted
<1>18. ASSUME NEW r \in Requests, Fail(r) PROVE DayShape'
  BY <1>18 DEF Fail
<1>19. ASSUME NEW r \in Requests, RollbackRequestsPerPeriod(r) PROVE DayShape'
  BY <1>19 DEF RollbackRequestsPerPeriod
<1>20. ASSUME NEW r \in Requests, RollbackPlanRPD(r) PROVE DayShape'
  <2>1. day' \in [1..MaxDay -> Int]
    BY <1>20 DEF RollbackPlanRPD
  <2>2. tookDay' \in [Requests -> BOOLEAN]
    BY <1>20 DEF RollbackPlanRPD
  <2> QED
    BY <1>20, <2>1, <2>2 DEF RollbackPlanRPD
<1>21. ASSUME NEW r \in Requests, RollbackFailed(r) PROVE DayShape'
  BY <1>21 DEF RollbackFailed
<1>22. ASSUME NEW r \in Requests, NEW applied \in BOOLEAN, SentinelFailed(r, applied) PROVE DayShape'
  BY <1>22 DEF SentinelFailed
<1>23. ASSUME NEW r \in Requests, NEW applied \in BOOLEAN, ResetFailed(r, applied) PROVE DayShape'
  BY <1>23 DEF ResetFailed
<1>24. ASSUME NEW r \in Requests, NEW applied \in BOOLEAN, CountFailed(r, applied) PROVE DayShape'
  BY <1>24 DEF CountFailed
<1>25. ASSUME NEW r \in Requests, NEW applied \in BOOLEAN, DayCountFailed(r, applied) PROVE DayShape'
  <2>1. day' \in [1..MaxDay -> Int]
    BY <1>25 DEF DayCountFailed
  <2> QED
    BY <1>25, <2>1 DEF DayCountFailed
<1>26. ASSUME Midnight PROVE DayShape'
  BY <1>26 DEF Midnight
<1>27. ASSUME Flush PROVE DayShape'
  BY <1>27 DEF Flush
<1>28. ASSUME Crash PROVE DayShape'
  BY <1>28 DEF Crash
<1>29. ASSUME UNCHANGED vars PROVE DayShape'
  BY <1>29 DEF vars
<1> QED
  BY <1>1, <1>2, <1>3, <1>4, <1>5, <1>6, <1>7, <1>8, <1>9, <1>10, <1>11,
     <1>12, <1>13, <1>14, <1>15, <1>16, <1>17, <1>18, <1>19, <1>20, <1>21,
     <1>22, <1>23, <1>24, <1>25, <1>26, <1>27, <1>28, <1>29 DEF Next, Baseline, Check, Finish

\* Every step leaves a request where DayPlaces says.
LEMMA DayPlacesStep ==
  ASSUME RPD > 0, DayShape, DayPlaces, [Next]_vars
  PROVE  DayPlaces'
<1> USE LimitsAssumption DEF DayShape, DayPlaces, Active, Terminal, Goto, Faulty, Proceed, periodSide, daySide, tracker, world
<1>1. ASSUME NEW r \in Requests, Begin(r) PROVE DayPlaces'
  BY <1>1 DEF Begin
<1>2. ASSUME NEW r \in Requests, ResetCounter(r) PROVE DayPlaces'
  BY <1>2 DEF ResetCounter
<1>3. ASSUME NEW r \in Requests, ReadCounter(r) PROVE DayPlaces'
  BY <1>3 DEF ReadCounter
<1>4. ASSUME NEW r \in Requests, ListUsage(r) PROVE DayPlaces'
  BY <1>4 DEF ListUsage, Listed
<1>5. ASSUME NEW r \in Requests, SeedCounter(r) PROVE DayPlaces'
  BY <1>5 DEF SeedCounter
<1>6. ASSUME NEW r \in Requests, ReadFailed(r) PROVE DayPlaces'
  BY <1>6 DEF ReadFailed
<1>7. ASSUME NEW r \in Requests, ListFailed(r) PROVE DayPlaces'
  BY <1>7 DEF ListFailed, Listed
<1>8. ASSUME NEW r \in Requests, SeedFailed(r) PROVE DayPlaces'
  BY <1>8 DEF SeedFailed
<1>9. ASSUME NEW r \in Requests, CheckRequestsPerPeriod(r) PROVE DayPlaces'
  BY <1>9 DEF CheckRequestsPerPeriod
<1>10. ASSUME NEW r \in Requests, PeriodExceeded(r) PROVE DayPlaces'
  BY <1>10 DEF PeriodExceeded
<1>11. ASSUME NEW r \in Requests, PeriodExceededFailed(r) PROVE DayPlaces'
  BY <1>11 DEF PeriodExceededFailed
<1>12. ASSUME NEW r \in Requests, CheckPlanRPD(r) PROVE DayPlaces'
  <2>1. today \in 1..today /\ RPD # 0 /\ today # 0
    OBVIOUS
  <2>2. CASE tookDay' = tookDay /\ pc' = [pc EXCEPT ![r] = "overDay"]
    BY <1>12, <2>1, <2>2, PlanRPDFacts, ZenonT(60)
  <2>3. CASE tookDay' = [tookDay EXCEPT ![r] = TRUE] /\ pc' = [pc EXCEPT ![r] = "running"]
    BY <1>12, <2>1, <2>3, PlanRPDFacts, ZenonT(60)
  <2> QED
    BY <1>12, <2>1, <2>2, <2>3, PlanRPDFacts
<1>13. ASSUME NEW r \in Requests, DayExceeded(r) PROVE DayPlaces'
  BY <1>13 DEF DayExceeded
<1>14. ASSUME NEW r \in Requests, DayExceededFailed(r) PROVE DayPlaces'
  BY <1>14 DEF DayExceededFailed
<1>15. ASSUME NEW r \in Requests, Commit(r) PROVE DayPlaces'
  BY <1>15 DEF Commit
<1>16. ASSUME NEW r \in Requests, RecordSuccess(r) PROVE DayPlaces'
  BY <1>16 DEF RecordSuccess
<1>17. ASSUME NEW r \in Requests, RecordUncounted(r) PROVE DayPlaces'
  BY <1>17 DEF RecordUncounted
<1>18. ASSUME NEW r \in Requests, Fail(r) PROVE DayPlaces'
  BY <1>18 DEF Fail
<1>19. ASSUME NEW r \in Requests, RollbackRequestsPerPeriod(r) PROVE DayPlaces'
  BY <1>19 DEF RollbackRequestsPerPeriod
<1>20. ASSUME NEW r \in Requests, RollbackPlanRPD(r) PROVE DayPlaces'
  BY <1>20 DEF RollbackPlanRPD
<1>21. ASSUME NEW r \in Requests, RollbackFailed(r) PROVE DayPlaces'
  <2>1. UNCHANGED <<dayOf, lostDay, today>>
    BY <1>21 DEF RollbackFailed
  <2>2. CASE /\ pc[r] = "undoing" /\ tookDay' = tookDay
             /\ pc' = [pc EXCEPT ![r] = "undoingDay"]
    BY <2>1, <2>2
  <2>3. CASE /\ pc[r] = "undoingDay" /\ tookDay' = [tookDay EXCEPT ![r] = FALSE]
             /\ pc' = [pc EXCEPT ![r] = "failed"]
    BY <2>1, <2>3
  <2> QED
    BY <1>21, <2>2, <2>3 DEF RollbackFailed
<1>22. ASSUME NEW r \in Requests, NEW applied \in BOOLEAN, SentinelFailed(r, applied) PROVE DayPlaces'
  BY <1>22 DEF SentinelFailed
<1>23. ASSUME NEW r \in Requests, NEW applied \in BOOLEAN, ResetFailed(r, applied) PROVE DayPlaces'
  BY <1>23 DEF ResetFailed
<1>24. ASSUME NEW r \in Requests, NEW applied \in BOOLEAN, CountFailed(r, applied) PROVE DayPlaces'
  BY <1>24 DEF CountFailed
<1>25. ASSUME NEW r \in Requests, NEW applied \in BOOLEAN, DayCountFailed(r, applied) PROVE DayPlaces'
  BY <1>25 DEF DayCountFailed
<1>26. ASSUME Midnight PROVE DayPlaces'
  BY <1>26 DEF Midnight
<1>27. ASSUME Flush PROVE DayPlaces'
  BY <1>27 DEF Flush
<1>28. ASSUME Crash PROVE DayPlaces'
  BY <1>28 DEF Crash
<1>29. ASSUME UNCHANGED vars PROVE DayPlaces'
  BY <1>29 DEF vars
<1> QED
  BY <1>1, <1>2, <1>3, <1>4, <1>5, <1>6, <1>7, <1>8, <1>9, <1>10, <1>11,
     <1>12, <1>13, <1>14, <1>15, <1>16, <1>17, <1>18, <1>19, <1>20, <1>21,
     <1>22, <1>23, <1>24, <1>25, <1>26, <1>27, <1>28, <1>29 DEF Next, Baseline, Check, Finish

\* A step that moves no increment out of a day counter, adds none that counts, and
\* makes no request a holder of one.
LEMMA DayUntouched ==
  ASSUME DayShape, DayShape', DayInv, UNCHANGED <<dayOf, lostDay>>,
         \A d \in 1..MaxDay : day'[d] >= day[d],
         \A r \in Requests : /\ tookDay'[r] => tookDay[r]
                             /\ pc'[r] = "overDay" => pc[r] = "overDay"
                             /\ pc[r] = "failed" => pc'[r] = "failed"
  PROVE  DayInv'
<1> SUFFICES ASSUME NEW d \in 1..MaxDay
             PROVE  /\ Cardinality(InDay(d)') <= day'[d] + Cardinality(Strays(d)')
                    /\ Cardinality(TookDay(d)') <= RPD + Cardinality(Strays(d)')
  BY DEF DayInv
<1>1. /\ InDay(d)' \subseteq InDay(d) /\ TookDay(d)' \subseteq TookDay(d) /\ Strays(d) \subseteq Strays(d)'
      /\ InDay(d) \in SUBSET Requests /\ TookDay(d) \in SUBSET Requests
      /\ InDay(d)' \in SUBSET Requests /\ TookDay(d)' \in SUBSET Requests
      /\ Strays(d) \in SUBSET Requests /\ Strays(d)' \in SUBSET Requests
  BY DEF InDay, TookDay, Strays, DayShape
<1>2. PICK i \in Nat, i1 \in Nat, t \in Nat, t1 \in Nat, s \in Nat, s1 \in Nat :
        /\ i = Cardinality(InDay(d)) /\ i1 = Cardinality(InDay(d)')
        /\ t = Cardinality(TookDay(d)) /\ t1 = Cardinality(TookDay(d)')
        /\ s = Cardinality(Strays(d)) /\ s1 = Cardinality(Strays(d)')
  BY <1>1, SubsetFinite
<1>3. i1 <= i /\ t1 <= t /\ s <= s1
  BY <1>1, <1>2, Counting
<1>4. day[d] \in Int /\ day'[d] \in Int /\ day'[d] >= day[d] /\ RPD \in Nat
  BY LimitsAssumption DEF DayShape
<1>5. i <= day[d] + s /\ t <= RPD + s
  BY <1>2 DEF DayInv
<1>6. i1 <= day'[d] + s1 /\ t1 <= RPD + s1
  BY <1>3, <1>4, <1>5
<1> QED
  BY <1>2, <1>6

\* CheckPlanRPD: the request's increment is in the counter, and it is admitted on
\* the value that its own INCR returned.
LEMMA DayTaken ==
  ASSUME RPD > 0, DayShape, DayPlaces, DayInv, NEW r \in Requests, CheckPlanRPD(r)
  PROVE  DayInv'
<1>1. pc[r] = "daily" /\ dayOf[r] = 0 /\ ~tookDay[r]
  BY DEF CheckPlanRPD, DayPlaces
<1>2. /\ day' = [day EXCEPT ![today] = @ + 1] /\ dayOf' = [dayOf EXCEPT ![r] = today]
      /\ \/ /\ day[today] + 1 > RPD /\ tookDay' = tookDay
            /\ pc' = [pc EXCEPT ![r] = "overDay"]
         \/ /\ ~(day[today] + 1 > RPD) /\ tookDay' = [tookDay EXCEPT ![r] = TRUE]
            /\ pc' = [pc EXCEPT ![r] = "running"]
      /\ lostDay' = lostDay /\ r \notin lostDay
  <2>1. RPD # 0 /\ r \notin lostDay
    BY <1>1, LimitsAssumption DEF DayPlaces
  <2> QED
    BY <2>1, PlanRPDFacts
<1> SUFFICES ASSUME NEW d \in 1..MaxDay
             PROVE  /\ Cardinality(InDay(d)') <= day'[d] + Cardinality(Strays(d)')
                    /\ Cardinality(TookDay(d)') <= RPD + Cardinality(Strays(d)')
  BY DEF DayInv
<1>3. Strays(d)' = Strays(d)
  <2>1. \A q \in Requests \ {r} : pc'[q] = pc[q] /\ dayOf'[q] = dayOf[q] /\ tookDay'[q] = tookDay[q]
    BY <1>2 DEF DayShape
  <2>2. pc'[r] # "failed"
    BY <1>2 DEF DayShape
  <2> QED
    BY <1>1, <1>2, <2>1, <2>2 DEF Strays, DayShape
<1>4. /\ InDay(d) \in SUBSET Requests /\ TookDay(d) \in SUBSET Requests /\ Strays(d) \in SUBSET Requests
      /\ InDay(d)' \in SUBSET Requests /\ TookDay(d)' \in SUBSET Requests
  BY DEF InDay, TookDay, Strays, DayShape
<1>5. /\ Cardinality(InDay(d)) \in Nat /\ Cardinality(InDay(d)') \in Nat
      /\ Cardinality(TookDay(d)) \in Nat /\ Cardinality(TookDay(d)') \in Nat
      /\ Cardinality(Strays(d)) \in Nat
  BY <1>4, Counting
<1>6. /\ Cardinality(InDay(d)) <= day[d] + Cardinality(Strays(d))
      /\ Cardinality(TookDay(d)) <= RPD + Cardinality(Strays(d))
  BY DEF DayInv
<1>7. day[d] \in Int /\ RPD \in Nat /\ today \in 1..MaxDay /\ today # 0
  BY LimitsAssumption DEF DayShape
<1>8. CASE d = today
  <2>1. InDay(d)' = InDay(d) \cup {r} /\ r \notin InDay(d)
    <3>1. r \in InDay(d)'
      <4>1. dayOf'[r] = d /\ (tookDay'[r] \/ pc'[r] = "overDay")
        BY <1>2, <1>8 DEF DayShape
      <4> QED
        BY <1>2, <4>1 DEF InDay
    <3>2. \A q \in Requests \ {r} : q \in InDay(d)' <=> q \in InDay(d)
      BY <1>2 DEF InDay, DayShape
    <3>3. r \notin InDay(d)
      BY <1>1, <1>7, <1>8 DEF InDay
    <3> QED
      BY <1>4, <3>1, <3>2, <3>3
  <2>2. Cardinality(InDay(d)') = Cardinality(InDay(d)) + 1
    BY <1>4, <2>1, Counting
  <2>3. day'[d] = day[d] + 1
    BY <1>2, <1>8 DEF DayShape
  <2>4. Cardinality(InDay(d)') <= day'[d] + Cardinality(Strays(d))
    BY <1>5, <1>6, <1>7, <2>2, <2>3
  <2>5. CASE ~(day[d] + 1 > RPD)
    <3>1. TookDay(d)' \subseteq InDay(d)'
      BY DEF TookDay, InDay
    <3>2. Cardinality(TookDay(d)') <= Cardinality(InDay(d)')
      BY <1>4, <3>1, Counting
    <3> QED
      BY <1>3, <1>5, <1>7, <2>3, <2>4, <2>5, <3>2
  <2>6. CASE day[d] + 1 > RPD
    <3>1. TookDay(d)' = TookDay(d)
      BY <1>1, <1>2, <1>8, <2>6 DEF TookDay, DayShape
    <3> QED
      BY <1>3, <1>6, <2>4, <3>1
  <2> QED
    BY <2>5, <2>6
<1>9. CASE d # today
  <2>1. InDay(d)' = InDay(d) /\ TookDay(d)' = TookDay(d)
    BY <1>1, <1>2, <1>9 DEF InDay, TookDay, DayShape
  <2>2. day'[d] = day[d]
    BY <1>2, <1>9 DEF DayShape
  <2> QED
    BY <1>3, <1>6, <2>1, <2>2
<1> QED
  BY <1>8, <1>9

\* CheckPlanRPD takes the increment that went over the cap back from the counter
\* that it is in.
LEMMA DayGivenBack ==
  ASSUME DayShape, DayPlaces, DayInv, NEW r \in Requests, DayExceeded(r)
  PROVE  DayInv'
<1>1. pc[r] = "overDay" /\ ~tookDay[r] /\ dayOf[r] \in 1..MaxDay
  BY LimitsAssumption DEF DayExceeded, DayPlaces, DayShape
<1>2. /\ day' = [day EXCEPT ![dayOf[r]] = @ - 1] /\ pc' = [pc EXCEPT ![r] = "undoing"]
      /\ dayOf' = dayOf /\ tookDay' = tookDay /\ lostDay' = lostDay
  BY DEF DayExceeded, Goto, tracker
<1> SUFFICES ASSUME NEW d \in 1..MaxDay
             PROVE  /\ Cardinality(InDay(d)') <= day'[d] + Cardinality(Strays(d)')
                    /\ Cardinality(TookDay(d)') <= RPD + Cardinality(Strays(d)')
  BY DEF DayInv
<1>3. /\ TookDay(d)' = TookDay(d) /\ Strays(d) \subseteq Strays(d)' /\ InDay(d)' \subseteq InDay(d)
      /\ InDay(d) \in SUBSET Requests /\ TookDay(d) \in SUBSET Requests
      /\ InDay(d)' \in SUBSET Requests
      /\ Strays(d) \in SUBSET Requests /\ Strays(d)' \in SUBSET Requests
  BY <1>1, <1>2 DEF Strays, TookDay, InDay, DayShape
<1>4. PICK i \in Nat, i1 \in Nat, t \in Nat, s \in Nat, s1 \in Nat :
        /\ i = Cardinality(InDay(d)) /\ i1 = Cardinality(InDay(d)')
        /\ t = Cardinality(TookDay(d))
        /\ s = Cardinality(Strays(d)) /\ s1 = Cardinality(Strays(d)')
  BY <1>3, SubsetFinite
<1>5. i1 <= i /\ s <= s1 /\ day[d] \in Int /\ RPD \in Nat /\ i <= day[d] + s /\ t <= RPD + s
  BY <1>3, <1>4, Counting, LimitsAssumption DEF DayShape, DayInv
<1>6. day'[d] = IF d = dayOf[r] THEN day[d] - 1 ELSE day[d]
  BY <1>2 DEF DayShape
<1>7. i1 <= day'[d] + s1
  <2>1. CASE d # dayOf[r]
    BY <1>5, <1>6, <2>1
  <2>2. CASE d = dayOf[r] /\ r \notin lostDay
    <3>1. InDay(d)' = InDay(d) \ {r} /\ r \in InDay(d)
      BY <1>1, <1>2, <2>2 DEF InDay, DayShape
    <3>2. i1 = i - 1
      BY <1>3, <1>4, <3>1, Counting
    <3> QED
      BY <1>5, <1>6, <2>2, <3>2
  <2>3. CASE d = dayOf[r] /\ r \in lostDay
    <3>1. r \in Strays(d)' /\ r \notin Strays(d)
      BY <1>1, <1>2, <2>3 DEF Strays, DayShape
    <3>2. (Strays(d) \cup {r}) \in SUBSET Requests /\ Strays(d) \cup {r} \subseteq Strays(d)'
      BY <1>3, <3>1
    <3>3. Cardinality(Strays(d) \cup {r}) = s + 1 /\ Cardinality(Strays(d) \cup {r}) <= s1
      BY <1>3, <1>4, <3>1, <3>2, Counting
    <3>4. s1 >= s + 1
      BY <3>3
    <3> QED
      BY <1>5, <1>6, <2>3, <3>4
  <2> QED
    BY <2>1, <2>2, <2>3
<1> QED
  BY <1>3, <1>4, <1>5, <1>7

\* RollbackPlanRPD decrements the counter of the present day: the request's own,
\* or one that does not hold its increment (a later day's, or one that was lost),
\* for which it then counts as a stray.
LEMMA DayRolledBack ==
  ASSUME DayShape, DayPlaces, DayInv, NEW r \in Requests, RollbackPlanRPD(r), tookDay[r]
  PROVE  DayInv'
<1>1. pc[r] = "undoingDay" /\ dayOf[r] \in 1..today /\ today \in 1..MaxDay
  BY DEF RollbackPlanRPD, DayPlaces, DayShape
<1>2. /\ day' = [day EXCEPT ![today] = @ - 1] /\ pc' = [pc EXCEPT ![r] = "failed"]
      /\ dayOf' = dayOf /\ tookDay' = [tookDay EXCEPT ![r] = FALSE] /\ lostDay' = lostDay
  BY DEF RollbackPlanRPD, Goto
<1> SUFFICES ASSUME NEW d \in 1..MaxDay
             PROVE  /\ Cardinality(InDay(d)') <= day'[d] + Cardinality(Strays(d)')
                    /\ Cardinality(TookDay(d)') <= RPD + Cardinality(Strays(d)')
  BY DEF DayInv
<1>3. /\ InDay(d) \in SUBSET Requests /\ TookDay(d) \in SUBSET Requests /\ Strays(d) \in SUBSET Requests
      /\ InDay(d)' \in SUBSET Requests /\ TookDay(d)' \in SUBSET Requests
      /\ Strays(d)' \in SUBSET Requests
  BY <1>2 DEF InDay, TookDay, Strays, DayShape
<1>4. InDay(d)' \subseteq InDay(d) /\ TookDay(d)' \subseteq TookDay(d) /\ Strays(d) \subseteq Strays(d)'
  BY <1>1, <1>2 DEF InDay, TookDay, Strays, DayShape
<1>5. PICK i \in Nat, i1 \in Nat, t \in Nat, t1 \in Nat, s \in Nat, s1 \in Nat :
        /\ i = Cardinality(InDay(d)) /\ i1 = Cardinality(InDay(d)')
        /\ t = Cardinality(TookDay(d)) /\ t1 = Cardinality(TookDay(d)')
        /\ s = Cardinality(Strays(d)) /\ s1 = Cardinality(Strays(d)')
  BY <1>3, SubsetFinite
<1>6. /\ i1 <= i /\ t1 <= t /\ s <= s1 /\ day[d] \in Int /\ RPD \in Nat
      /\ i <= day[d] + s /\ t <= RPD + s
  BY <1>3, <1>4, <1>5, Counting, LimitsAssumption DEF DayShape, DayInv
<1>7. day'[d] = IF d = today THEN day[d] - 1 ELSE day[d]
  BY <1>2 DEF DayShape
<1>8. i1 <= day'[d] + s1
  <2>1. CASE d # today
    BY <1>6, <1>7, <2>1
  <2>2. CASE d = today /\ dayOf[r] = today /\ r \notin lostDay
    <3>1. InDay(d)' = InDay(d) \ {r} /\ r \in InDay(d)
      BY <1>1, <1>2, <2>2 DEF InDay, DayShape
    <3>2. i1 = i - 1
      BY <1>3, <1>5, <3>1, Counting
    <3> QED
      BY <1>6, <1>7, <2>2, <3>2
  <2>3. CASE d = today /\ (dayOf[r] # today \/ r \in lostDay)
    <3>1. r \in Strays(d)' /\ r \notin Strays(d)
      <4>1. dayOf[r] \in 1..(d - 1) \/ (dayOf[r] = d /\ r \in lostDay)
        BY <1>1, <2>3
      <4>2. pc'[r] = "failed" /\ ~tookDay'[r]
        BY <1>2 DEF DayShape
      <4>3. r \in Strays(d)'
        BY <1>2, <4>1, <4>2 DEF Strays
      <4> QED
        BY <1>1, <4>3 DEF Strays
    <3>2. (Strays(d) \cup {r}) \in SUBSET Requests /\ Strays(d) \cup {r} \subseteq Strays(d)'
      BY <1>3, <1>4, <3>1
    <3>3. Cardinality(Strays(d) \cup {r}) = s + 1 /\ Cardinality(Strays(d) \cup {r}) <= s1
      BY <1>3, <1>5, <3>1, <3>2, Counting
    <3>4. s1 >= s + 1
      BY <3>3
    <3> QED
      BY <1>6, <1>7, <2>3, <3>4
  <2> QED
    BY <2>1, <2>2, <2>3
<1>9. t1 <= RPD + s1
  BY <1>6
<1> QED
  BY <1>5, <1>8, <1>9

\* When Redis loses the keys, no increment is left in a counter.
LEMMA DayLost ==
  ASSUME DayShape, DayShape', DayPlaces, DayInv, Flush
  PROVE  DayInv'
<1> SUFFICES ASSUME NEW d \in 1..MaxDay
             PROVE  /\ Cardinality(InDay(d)') <= day'[d] + Cardinality(Strays(d)')
                    /\ Cardinality(TookDay(d)') <= RPD + Cardinality(Strays(d)')
  BY DEF DayInv
<1>1. InDay(d)' = {} /\ TookDay(d)' = {} /\ Strays(d)' \in SUBSET Requests
  BY DEF Flush, InDay, TookDay, Strays, tracker, DayShape
<1>2. PICK s \in Nat : s = Cardinality(Strays(d)')
  BY <1>1, SubsetFinite
<1>3. Cardinality(InDay(d)') = 0 /\ Cardinality(TookDay(d)') = 0 /\ day'[d] = 0 /\ RPD \in Nat
  BY <1>1, FS_EmptySet, LimitsAssumption DEF Flush
<1>4. 0 <= 0 + s /\ 0 <= RPD + s
  BY <1>3
<1> QED
  BY <1>2, <1>3, <1>4

\* No other step moves an increment of a day counter.
LEMMA DayInvStep ==
  ASSUME RPD > 0, DayShape, DayShape', DayPlaces, DayInv, [Next]_vars
  PROVE  DayInv'
<1>1. ASSUME NEW r \in Requests, CheckPlanRPD(r) PROVE DayInv'
  BY <1>1, DayTaken
<1>2. ASSUME NEW r \in Requests, DayExceeded(r) PROVE DayInv'
  BY <1>2, DayGivenBack
<1>3. ASSUME NEW r \in Requests, RollbackPlanRPD(r), tookDay[r] PROVE DayInv'
  BY <1>3, DayRolledBack
<1>4. ASSUME Flush PROVE DayInv'
  BY <1>4, DayLost
<1> DEFINE Untouched ==
             /\ UNCHANGED <<dayOf, lostDay>>
             /\ \A d \in 1..MaxDay : day'[d] >= day[d]
             /\ \A r \in Requests : /\ tookDay'[r] => tookDay[r]
                                    /\ pc'[r] = "overDay" => pc[r] = "overDay"
                                    /\ pc[r] = "failed" => pc'[r] = "failed"
           Same ==
             /\ UNCHANGED <<day, dayOf, lostDay>>
             /\ \A r \in Requests : /\ tookDay'[r] => tookDay[r]
                                    /\ pc'[r] = "overDay" => pc[r] = "overDay"
                                    /\ pc[r] = "failed" => pc'[r] = "failed"
<1>41. Same => Untouched
  BY DEF DayShape
<1>5. ASSUME NEW r \in Requests, RollbackPlanRPD(r), ~tookDay[r] PROVE Same
  BY <1>5 DEF RollbackPlanRPD, Goto, DayShape
<1> USE DEF DayShape, Goto, Faulty, Proceed, periodSide, daySide, tracker, world
<1>6. ASSUME NEW r \in Requests,
             Begin(r) \/ ResetCounter(r) \/ ReadCounter(r) \/ ListUsage(r) \/ SeedCounter(r)
      PROVE  Same
  BY <1>6 DEF Begin, ResetCounter, ReadCounter, ListUsage, Listed, SeedCounter
<1>7. ASSUME NEW r \in Requests, ReadFailed(r) \/ ListFailed(r) \/ SeedFailed(r) PROVE Same
  BY <1>7 DEF ReadFailed, ListFailed, Listed, SeedFailed
<1>8. ASSUME NEW r \in Requests, NEW applied \in BOOLEAN,
             SentinelFailed(r, applied) \/ ResetFailed(r, applied) \/ CountFailed(r, applied)
      PROVE  Same
  BY <1>8 DEF SentinelFailed, ResetFailed, CountFailed
<1>9. ASSUME NEW r \in Requests, NEW applied \in BOOLEAN, DayCountFailed(r, applied)
      PROVE  Untouched
  <2>1. \A d \in 1..MaxDay : day'[d] >= day[d]
    BY <1>9 DEF DayCountFailed
  <2> QED
    BY <1>9, <2>1 DEF DayCountFailed
<1>10. ASSUME NEW r \in Requests, CheckRequestsPerPeriod(r) PROVE Same
  BY <1>10 DEF CheckRequestsPerPeriod
<1>11. ASSUME NEW r \in Requests,
              PeriodExceeded(r) \/ PeriodExceededFailed(r) \/ DayExceededFailed(r)
       PROVE  Same
  BY <1>11 DEF PeriodExceeded, PeriodExceededFailed, DayExceededFailed
<1>12. ASSUME NEW r \in Requests,
              Commit(r) \/ RecordSuccess(r) \/ RecordUncounted(r) \/ Fail(r)
       PROVE  Same
  BY <1>12 DEF Commit, RecordSuccess, RecordUncounted, Fail
<1>13. ASSUME NEW r \in Requests, RollbackRequestsPerPeriod(r) \/ RollbackFailed(r) PROVE Same
  BY <1>13 DEF RollbackRequestsPerPeriod, RollbackFailed
<1>14. ASSUME Midnight \/ Crash \/ UNCHANGED vars PROVE Same
  <2>1. CASE Crash
    <3>1. \A r \in Requests : tookDay'[r] => tookDay[r]
      BY <2>1 DEF Crash
    <3>2. \A r \in Requests : /\ pc'[r] = "overDay" => pc[r] = "overDay"
                              /\ pc[r] = "failed" => pc'[r] = "failed"
      BY <2>1 DEF Crash, Active
    <3> QED
      BY <2>1, <3>1, <3>2 DEF Crash
  <2> QED
    BY <1>14, <2>1 DEF Midnight, vars
<1> HIDE DEF Untouched, Same
<1>15. \/ Untouched \/ DayInv'
  BY <1>1, <1>2, <1>3, <1>4, <1>41, <1>5, <1>6, <1>7, <1>8, <1>9, <1>10, <1>11, <1>12, <1>13, <1>14
     DEF Next, Baseline, Check, Finish
<1> QED
  BY <1>15, DayUntouched DEF Untouched

\* Initially every counter of a day is 0 and no request has taken one.
LEMMA DayInit == Init => DayShape /\ DayPlaces /\ DayInv
<1> SUFFICES ASSUME Init PROVE DayShape /\ DayPlaces /\ DayInv
  OBVIOUS
<1>1. DayShape
  BY LimitsAssumption DEF Init, DayShape, Active, Terminal
<1>2. DayPlaces
  BY DEF Init, DayPlaces
<1>3. ASSUME NEW d \in 1..MaxDay
      PROVE  /\ Cardinality(InDay(d)) <= day[d] + Cardinality(Strays(d))
             /\ Cardinality(TookDay(d)) <= RPD + Cardinality(Strays(d))
  <2>1. InDay(d) = {} /\ TookDay(d) = {} /\ Strays(d) = {}
    BY DEF Init, InDay, TookDay, Strays
  <2>2. Cardinality(InDay(d)) = 0 /\ Cardinality(TookDay(d)) = 0 /\ Cardinality(Strays(d)) = 0
    BY <2>1, FS_EmptySet
  <2>3. day[d] = 0 /\ RPD \in Nat
    BY LimitsAssumption DEF Init
  <2> QED
    BY <2>2, <2>3
<1> QED
  BY <1>1, <1>2, <1>3 DEF DayInv

\* CheckPlanRPD admits no more requests of one UTC day than the plan's daily cap,
\* whatever overlaps or fails, apart from those whose increment Redis lost, and
\* one for each request that may have decremented a counter that did not hold its
\* increment: a failed one of an earlier day, whose rollback takes the day from
\* the clock, or one whose increment was lost.
THEOREM DayCapAlwaysHolds == Spec => []DayCapHolds
<1>1. CASE ~(RPD > 0)
  <2>1. DayCapHolds
    BY <1>1 DEF DayCapHolds
  <2> QED
    BY <2>1, PTL
<1>2. CASE RPD > 0
  <2>1. Init => DayShape /\ DayPlaces /\ DayInv
    BY DayInit
  <2>2. DayShape /\ DayPlaces /\ DayInv /\ [Next]_vars => (DayShape /\ DayPlaces /\ DayInv)'
    BY <1>2, DayShapeStep, DayPlacesStep, DayInvStep
  <2>3. DayShape /\ DayPlaces /\ DayInv => DayCapHolds
    <3> SUFFICES ASSUME DayShape, DayPlaces, DayInv, NEW d \in 1..MaxDay
                 PROVE  Cardinality({r \in Admitted : dayOf[r] = d} \ lostDay)
                          <= RPD + Cardinality(Strays(d))
      BY DEF DayCapHolds
    <3> DEFINE OfDay == {r \in Admitted : dayOf[r] = d} \ lostDay
    <3>1. /\ OfDay \in SUBSET Requests /\ TookDay(d) \in SUBSET Requests
          /\ Strays(d) \in SUBSET Requests
      BY DEF Admitted, TookDay, Strays, DayShape
    <3>2. OfDay \subseteq TookDay(d)
      BY DEF Admitted, TookDay, DayPlaces
    <3> HIDE DEF OfDay
    <3>3. /\ Cardinality(OfDay) <= Cardinality(TookDay(d)) /\ Cardinality(OfDay) \in Nat
          /\ Cardinality(TookDay(d)) \in Nat /\ Cardinality(Strays(d)) \in Nat
      BY <3>1, <3>2, Counting
    <3>4. Cardinality(OfDay) <= RPD + Cardinality(Strays(d))
      BY <3>3, LimitsAssumption DEF DayInv
    <3> QED
      BY <3>4 DEF OfDay
  <2> QED
    BY <2>1, <2>2, <2>3, PTL DEF Spec
<1> QED
  BY <1>1, <1>2

-----------------------------------------------------------------------------
(* The concurrency slots                                                   *)

\* The requests that hold a slot's increment are finitely many.
LEMMA HoldersFinite == IsFiniteSet(Holders) /\ Cardinality(Holders) \in Nat
<1>1. Holders \subseteq Calls /\ IsFiniteSet(Calls)
  BY SlotsAssumption DEF Holders
<1>2. IsFiniteSet(Holders)
  BY <1>1, FS_Subset
<1> QED BY <1>2, FS_CardinalityType

\* A request that starts to hold adds one holder, and one that stops to hold
\* takes one away.
LEMMA HoldersStep ==
  ASSUME SlotTypes, NEW r \in Calls, NEW label, at' = [at EXCEPT ![r] = label]
  PROVE  /\ at[r] \notin Holding /\ label \in Holding
              => Cardinality(Holders') = Cardinality(Holders) + 1
         /\ at[r] \in Holding /\ label \notin Holding
              => Cardinality(Holders') = Cardinality(Holders) - 1
         /\ (at[r] \in Holding <=> label \in Holding)
              => Cardinality(Holders') = Cardinality(Holders)
<1>1. at \in [Calls -> InFlight \cup Ended \cup {"new"}]
  BY DEF SlotTypes
<1>2. CASE at[r] \notin Holding /\ label \in Holding
  <2>1. Holders' = Holders \cup {r} /\ r \notin Holders
    BY <1>1, <1>2 DEF Holders
  <2> QED BY <1>2, <2>1, HoldersFinite, FS_AddElement
<1>3. CASE at[r] \in Holding /\ label \notin Holding
  <2>1. Holders' = Holders \ {r} /\ r \in Holders
    BY <1>1, <1>3 DEF Holders
  <2> QED BY <1>3, <2>1, HoldersFinite, FS_RemoveElement
<1>4. CASE at[r] \in Holding <=> label \in Holding
  <2>1. Holders' = Holders
    BY <1>1, <1>4 DEF Holders
  <2> QED BY <1>4, <2>1
<1> QED BY <1>2, <1>3, <1>4

\* Every variable keeps its type, and an absent key has neither value nor life.
LEMMA SlotTypeStep == SlotTypes /\ [SlotNext]_slotVars => SlotTypes'
<1> SUFFICES ASSUME SlotTypes, [SlotNext]_slotVars PROVE SlotTypes'
  OBVIOUS
<1> USE SlotsAssumption DEF SlotTypes, InFlight, Holding, Ended, Move, key, Fails, mishaps
<1>1. ASSUME NEW r \in Calls, Acquire(r) PROVE SlotTypes'
  BY <1>1 DEF Acquire
<1>2. ASSUME NEW r \in Calls, SetExpiry(r) PROVE SlotTypes'
  BY <1>2 DEF SetExpiry
<1>3. ASSUME NEW r \in Calls, ExpiryFailed(r) PROVE SlotTypes'
  BY <1>3 DEF ExpiryFailed
<1>4. ASSUME NEW r \in Calls, Refuse(r) PROVE SlotTypes'
  BY <1>4 DEF Refuse
<1>5. ASSUME NEW r \in Calls, Release(r) PROVE SlotTypes'
  BY <1>5 DEF Release
<1>6. ASSUME NEW r \in Calls, Delete(r) PROVE SlotTypes'
  <2>1. present' \in BOOLEAN /\ ~present'
    BY <1>6 DEF Delete
  <2>2. /\ slots' = 0 /\ ttl' = 0 /\ leaked' = 0
        /\ at' = [at EXCEPT ![r] = "done"] /\ UNCHANGED <<deaths, failures>>
    BY <1>6 DEF Delete
  <2> QED BY <2>1, <2>2
<1>7. ASSUME NEW r \in Calls, Arrive(r) PROVE SlotTypes'
  BY <1>7 DEF Arrive
<1>8. ASSUME ProcessDies PROVE SlotTypes'
  <2>1. Cardinality({r \in Calls : at[r] \in Holding}) \in Nat
    BY HoldersFinite DEF Holders
  <2> QED BY <1>8, <2>1 DEF ProcessDies
<1>9. ASSUME Tick PROVE SlotTypes'
  <2>2. CASE ttl = 1
    <3>1. present' \in BOOLEAN /\ ~present'
      BY <1>9, <2>2 DEF Tick
    <3>2. slots' = 0 /\ ttl' = 0 /\ leaked' = 0 /\ UNCHANGED <<at, deaths, failures>>
      BY <1>9, <2>2 DEF Tick
    <3> QED BY <3>1, <3>2
  <2>3. CASE ttl # 1
    BY <1>9, <2>3 DEF Tick
  <2> QED BY <2>2, <2>3
<1>10. ASSUME UNCHANGED slotVars PROVE SlotTypes'
  BY <1>10 DEF slotVars
<1>11. ASSUME NEW r \in Calls, NEW applied \in BOOLEAN, AcquireFailed(r, applied)
       PROVE  SlotTypes'
  <2>1. present' \in BOOLEAN /\ (~present' => slots' = 0 /\ ttl' = 0)
    BY <1>11 DEF AcquireFailed
  <2>2. slots' \in Int /\ leaked' \in Nat /\ ttl' = ttl
    BY <1>11 DEF AcquireFailed
  <2>3. at' \in [Calls -> InFlight \cup Ended \cup {"new"}] /\ deaths' = deaths /\ failures' \in 0..MaxFailures
    BY <1>11 DEF AcquireFailed
  <2> QED BY <2>1, <2>2, <2>3
<1>12. ASSUME NEW r \in Calls, NEW applied \in BOOLEAN, ReleaseFailed(r, applied)
       PROVE  SlotTypes'
  <2>1. present' \in BOOLEAN /\ (~present' => slots' = 0 /\ ttl' = 0)
    BY <1>12 DEF ReleaseFailed
  <2>2. slots' \in Int /\ leaked' \in Nat /\ ttl' = ttl
    BY <1>12 DEF ReleaseFailed
  <2>3. at' \in [Calls -> InFlight \cup Ended \cup {"new"}] /\ deaths' = deaths /\ failures' \in 0..MaxFailures
    BY <1>12 DEF ReleaseFailed
  <2> QED BY <2>1, <2>2, <2>3
<1>13. ASSUME NEW r \in Calls, RefuseFailed(r) PROVE SlotTypes'
  BY <1>13 DEF RefuseFailed
<1>14. ASSUME NEW r \in Calls, DeleteFailed(r) PROVE SlotTypes'
  BY <1>14 DEF DeleteFailed
<1> QED
  BY <1>1, <1>2, <1>3, <1>4, <1>5, <1>6, <1>7, <1>8, <1>9, <1>10, <1>11,
     <1>12, <1>13, <1>14 DEF SlotNext, Handler

\* Every Redis command, in any interleaving, keeps the key at or below the
\* increments that are held or whose DECR never ran.
LEMMA PhantomStep == SlotTypes /\ NoPhantomSlots /\ [SlotNext]_slotVars => NoPhantomSlots'
<1> SUFFICES ASSUME SlotTypes, NoPhantomSlots, [SlotNext]_slotVars PROVE NoPhantomSlots'
  OBVIOUS
<1> DEFINE n == Cardinality(Holders)
<1>0. /\ n \in Nat /\ n' \in Nat /\ slots \in Int /\ leaked \in Nat
      /\ slots <= n + leaked
  <2>1. IsFiniteSet(Holders') /\ Cardinality(Holders') \in Nat
    <3>1. Holders' \subseteq Calls /\ IsFiniteSet(Calls)
      BY SlotsAssumption DEF Holders
    <3> QED BY <3>1, FS_Subset, FS_CardinalityType
  <2> QED BY <2>1, HoldersFinite DEF SlotTypes, NoPhantomSlots
<1>1. ASSUME NEW r \in Calls, Acquire(r) PROVE NoPhantomSlots'
  <2>1. n' = n + 1
    BY <1>1, HoldersStep DEF Acquire, Move, Holding
  <2> QED BY <1>0, <1>1, <2>1 DEF Acquire, NoPhantomSlots
<1>2. ASSUME NEW r \in Calls, SetExpiry(r) \/ ExpiryFailed(r) PROVE NoPhantomSlots'
  <2>1. n' = n
    BY <1>2, HoldersStep DEF SetExpiry, ExpiryFailed, Move, Holding
  <2> QED BY <1>0, <1>2, <2>1 DEF SetExpiry, ExpiryFailed, NoPhantomSlots, key
<1>3. ASSUME NEW r \in Calls, Refuse(r) \/ Release(r) PROVE NoPhantomSlots'
  <2>1. n' = n - 1
    BY <1>3, HoldersStep DEF Refuse, Release, Move, Holding
  <2>2. slots' = slots - 1 /\ leaked' = leaked
    BY <1>3 DEF Refuse, Release
  <2> QED BY <1>0, <2>1, <2>2 DEF NoPhantomSlots
<1>4. ASSUME NEW r \in Calls, Delete(r) PROVE NoPhantomSlots'
  BY <1>0, <1>4 DEF Delete, NoPhantomSlots
<1>5. ASSUME NEW r \in Calls, Arrive(r) PROVE NoPhantomSlots'
  <2>1. n' = n
    <3>1. at[r] \notin Holding /\ "new" \notin Holding /\ at' = [at EXCEPT ![r] = "new"]
      BY <1>5 DEF Arrive, Move, Holding, Ended
    <3> QED BY <3>1, HoldersStep
  <2> QED BY <1>0, <1>5, <2>1 DEF Arrive, NoPhantomSlots, key
<1>6. ASSUME ProcessDies PROVE NoPhantomSlots'
  <2>1. slots' = slots /\ leaked' = leaked + n
    BY <1>6 DEF ProcessDies, Holders, key
  <2> QED BY <1>0, <2>1 DEF NoPhantomSlots
<1>7. ASSUME Tick PROVE NoPhantomSlots'
  <2>1. n' = n
    BY <1>7 DEF Tick, Holders
  <2>2. (slots' = slots /\ leaked' = leaked) \/ (slots' = 0 /\ leaked' = 0)
    BY <1>7 DEF Tick
  <2> QED BY <1>0, <2>1, <2>2 DEF NoPhantomSlots
<1>8. ASSUME UNCHANGED slotVars PROVE NoPhantomSlots'
  BY <1>8 DEF slotVars, key, NoPhantomSlots, Holders
<1>9. ASSUME NEW r \in Calls, NEW applied \in BOOLEAN, AcquireFailed(r, applied)
      PROVE  NoPhantomSlots'
  <2>1. n' = n
    <3>1. at[r] \notin Holding /\ "refused" \notin Holding /\ at' = [at EXCEPT ![r] = "refused"]
      BY <1>9 DEF AcquireFailed, Move, Holding
    <3> QED BY <3>1, HoldersStep
  <2>2. UNCHANGED <<slots, leaked>> \/ (slots' = slots + 1 /\ leaked' = leaked + 1)
    BY <1>9 DEF AcquireFailed
  <2> QED BY <1>0, <2>1, <2>2 DEF NoPhantomSlots
<1>10. ASSUME NEW r \in Calls, NEW applied \in BOOLEAN, ReleaseFailed(r, applied)
       PROVE  NoPhantomSlots'
  <2>1. n' = n - 1
    <3>1. at[r] \in Holding /\ "done" \notin Holding /\ at' = [at EXCEPT ![r] = "done"]
      BY <1>10 DEF ReleaseFailed, Move, Holding
    <3> QED BY <3>1, HoldersStep
  <2>2. (slots' = slots - 1 /\ leaked' = leaked) \/ (slots' = slots /\ leaked' = leaked + 1)
    BY <1>10 DEF ReleaseFailed
  <2> QED BY <1>0, <2>1, <2>2 DEF NoPhantomSlots
<1>11. ASSUME NEW r \in Calls, RefuseFailed(r) PROVE NoPhantomSlots'
  <2>1. n' = n - 1
    <3>1. at[r] \in Holding /\ "refused" \notin Holding /\ at' = [at EXCEPT ![r] = "refused"]
      BY <1>11 DEF RefuseFailed, Move, Holding
    <3> QED BY <3>1, HoldersStep
  <2>2. slots' = slots /\ leaked' = leaked + 1
    BY <1>11 DEF RefuseFailed, key
  <2> QED BY <1>0, <2>1, <2>2 DEF NoPhantomSlots
<1>12. ASSUME NEW r \in Calls, DeleteFailed(r) PROVE NoPhantomSlots'
  <2>1. n' = n
    <3>1. at[r] \notin Holding /\ "done" \notin Holding /\ at' = [at EXCEPT ![r] = "done"]
      BY <1>12 DEF DeleteFailed, Move, Holding
    <3> QED BY <3>1, HoldersStep
  <2>2. slots' = slots /\ leaked' = leaked
    BY <1>12 DEF DeleteFailed, key
  <2> QED BY <1>0, <2>1, <2>2 DEF NoPhantomSlots
<1> QED
  BY <1>1, <1>2, <1>3, <1>4, <1>5, <1>6, <1>7, <1>8, <1>9, <1>10, <1>11, <1>12 DEF SlotNext, Handler

\* An account is never refused because of a slot that was given back: in every
\* reachable state, whichever commands fail, the key counts at most the requests
\* that hold an increment and the increments whose DECR never ran.
THEOREM SlotsNeverPhantom == SlotSpec => []NoPhantomSlots
<1>1. SlotInit => SlotTypes /\ NoPhantomSlots
  <2> SUFFICES ASSUME SlotInit PROVE SlotTypes /\ NoPhantomSlots
    OBVIOUS
  <2>1. SlotTypes
    <3>1. present \in BOOLEAN /\ ~present
      BY DEF SlotInit
    <3>2. /\ slots = 0 /\ ttl = 0 /\ leaked = 0 /\ deaths = 0 /\ failures = 0
          /\ at \in [Calls -> InFlight \cup Ended \cup {"new"}]
      BY SlotsAssumption DEF SlotInit
    <3> QED BY <3>1, <3>2, SlotsAssumption DEF SlotTypes
  <2>2. slots = 0 /\ leaked = 0
    BY DEF SlotInit
  <2> QED BY <2>1, <2>2, HoldersFinite DEF NoPhantomSlots
<1>2. SlotTypes /\ NoPhantomSlots /\ [SlotNext]_slotVars => SlotTypes' /\ NoPhantomSlots'
  BY SlotTypeStep, PhantomStep
<1> QED BY <1>1, <1>2, PTL DEF SlotSpec
=============================================================================
