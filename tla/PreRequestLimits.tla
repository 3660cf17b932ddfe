------------------------- MODULE PreRequestLimits -------------------------
(***************************************************************************)
(* applyPreRequestLimits for one customer on an unlimited plan: the        *)
(* requests-per-period (RPP) and requests-per-day (RPD) counters in Redis, *)
(* their reseeding from the usage ledger, the one-time reset, and the      *)
(* commit or rollback of preRequestCounters when the handler ends.         *)
(*                                                                         *)
(* Every Redis command and the ledger query are steps of their own, so     *)
(* requests of the customer interleave between a read and the write that   *)
(* depends on it, and each of them may fail: the client leaves, which      *)
(* cancels the request's context, or Redis or the database does not answer.*)
(* A failed GET reads 0, a failed query lists fewer rows, a failed INCR    *)
(* refuses the request, and the errors of SET and DECR are ignored; a      *)
(* command whose reply alone was lost has been applied.  A missing key     *)
(* reads as 0 and INCR or DECR creates it at 0, so an absent key and a     *)
(* zero one need not be told apart.                                        *)
(***************************************************************************)
EXTENDS Integers, FiniteSets

CONSTANTS
  Requests,     \* requests of the customer in the period
  Past,         \* those already in the usage ledger at the start
  Seeded,       \* TRUE: the period counter already holds them
  RPP,          \* MaxRequestsPerPeriod of the plan, 0 for none
  Mult,         \* periodRPPMultiplier: base windows the period spans
  Debt,         \* debtRemaining of a flagged customer, 0 for none
  RPD,          \* requests per UTC day, 0 for none
  Resets,       \* whether the entitlement may carry needsRppReset: a set of Booleans
  MaxDay,       \* last day considered; days are 1, 2, ...
  MaxMishaps    \* bound on lost Redis keys, process crashes and failing commands
                \* and queries together

ASSUME LimitsAssumption ==
  /\ IsFiniteSet(Requests) /\ Past \subseteq Requests
  /\ RPP \in Nat /\ Mult \in Nat \ {0} /\ Debt \in Nat /\ RPD \in Nat
  /\ Seeded \in BOOLEAN /\ Resets \subseteq BOOLEAN
  /\ MaxDay \in Nat \ {0} /\ MaxMishaps \in Nat

VARIABLES
  period,     \* the plan-period counter
  sentinel,   \* the plan-period-reset key exists
  day,        \* the plan-day counters
  today,      \* the current UTC day
  needsReset, \* the entitlement's needsRppReset
  recorded,   \* requests with a successful unlimited row in the usage ledger
  pc,         \* where each request is
  seen,       \* the rows ensurePeriodCounterBaseline counted
  tookPeriod, \* preRequestCounters.periodConsumed
  tookDay,    \* preRequestCounters.rpdConsumed
  flushes,    \* losses of the Redis keys so far
  crashes,    \* process crashes so far
  faults,     \* failed commands and queries so far
  \* History variables, read by the properties only.
  inCounter,  \* the requests that the period counter counts
  stuck,      \* those of them whose DECR will not come: it failed, the reply to
              \* the INCR was lost, or the process died
  lost,       \* requests whose increment a SET or a loss of the key took away
  forgotten,  \* granted requests that the counter did not count when another
              \* request went on to its INCR
  resets,     \* how often the counter was set back to 0
  dayOf,      \* the day whose counter the request incremented, 0 for none
  lostDay     \* requests whose increment of a day counter was lost with the key

periodSide == <<period, sentinel, inCounter, stuck, lost, forgotten, resets>>
daySide    == <<day, dayOf, lostDay>>
tracker    == <<tookPeriod, tookDay>>
world      == <<today, needsReset, flushes, crashes>>
vars       == <<periodSide, daySide, tracker, world, recorded, pc, seen, faults>>

(***************************************************************************)
(* resetting  the sentinel is set, the counter is about to be zeroed       *)
(* reading    about to GET the counter                                     *)
(* listing    it read 0: about to query the ledger                         *)
(* seeding    about to SET the counter to what the ledger says             *)
(* counting   about to INCR the period counter                             *)
(* overPeriod over the cap: about to DECR it again                         *)
(* daily      about to INCR the day counter                                *)
(* overDay    over the daily cap: about to DECR it again                   *)
(* running    admitted: concurrency, reservation, upstream call            *)
(* settling   committed; the ledger row is about to be written             *)
(* undoing    the rollback is about to DECR the period counter             *)
(* undoingDay the rollback is about to DECR the day counter                *)
(***************************************************************************)
Active   == {"resetting", "reading", "listing", "seeding", "counting",
             "overPeriod", "daily", "overDay", "running", "settling",
             "undoing", "undoingDay"}
Terminal == {"counted", "unrecorded", "rejected", "failed", "crashed"}

Init ==
  /\ period = IF Seeded THEN Cardinality(Past) ELSE 0
  /\ inCounter = IF Seeded THEN Past ELSE {}
  /\ lost = IF Seeded THEN {} ELSE Past
  /\ stuck = {} /\ forgotten = {} /\ resets = 0
  /\ sentinel = FALSE
  /\ day = [d \in 1..MaxDay |-> 0]
  /\ today = 1
  /\ recorded = Past
  /\ needsReset \in Resets
  /\ pc = [r \in Requests |-> IF r \in Past THEN "counted" ELSE "new"]
  /\ seen = [r \in Requests |-> {}]
  /\ tookPeriod = [r \in Requests |-> r \in Past]
  /\ tookDay = [r \in Requests |-> FALSE]
  /\ flushes = 0 /\ crashes = 0 /\ faults = 0
  /\ dayOf = [r \in Requests |-> 0] /\ lostDay = {}

Goto(r, label) == pc' = [pc EXCEPT ![r] = label]
Mishap         == flushes + crashes + faults < MaxMishaps
Faulty         == Mishap /\ faults' = faults + 1

Least(a, b) == IF a <= b THEN a ELSE b

\* math.Round(0.75 * RPP): halves round up.
ThreeQuarters == (3 * RPP + 2) \div 4

\* The cap after the debt reserve, never negative.
EffectiveRPP ==
  LET reserve == Least(Debt, ThreeQuarters * Mult)
  IN IF RPP * Mult <= reserve THEN 0 ELSE RPP * Mult - reserve

\* The requests that were granted a slot of the period, and those that hold one.
Granted == {r \in Requests : tookPeriod[r]}
Slots   == {r \in Requests : tookPeriod[r] \/ pc[r] = "overPeriod"}

-----------------------------------------------------------------------------
(* ResetRequestsPerPeriodOnce and ensurePeriodCounterBaseline              *)

\* The request goes on to its INCR of a counter that counts S; what it misses is
\* forgotten.
Proceed(r, S) ==
  /\ Goto(r, "counting")
  /\ forgotten' = forgotten \cup (Granted \ S)

\* The counter is written: it counts S and nothing else.
Overwrite(S) ==
  /\ period' = Cardinality(S) /\ inCounter' = S
  /\ stuck' = {}
  /\ lost' = lost \cup ((inCounter \ S) \ stuck)

\* The request reaches applyPreRequestLimits: without an RPP cap it goes on to
\* the daily one; with a pending reset it tries SETNX on the sentinel first.
Begin(r) ==
  /\ pc[r] = "new"
  /\ sentinel' = (sentinel \/ (RPP > 0 /\ needsReset))
  /\ Goto(r, IF RPP = 0 THEN "daily"
             ELSE IF needsReset /\ ~sentinel THEN "resetting" ELSE "reading")
  /\ UNCHANGED <<period, inCounter, stuck, lost, forgotten, resets, daySide,
                 tracker, world, recorded, seen, faults>>

\* The SETNX failed: no reset, whether or not the sentinel was set.
SentinelFailed(r, applied) ==
  /\ pc[r] = "new" /\ RPP > 0 /\ needsReset /\ Faulty
  /\ sentinel' = (sentinel \/ applied)
  /\ Goto(r, "reading")
  /\ UNCHANGED <<period, inCounter, stuck, lost, forgotten, resets, daySide,
                 tracker, world, recorded, seen>>

\* After a reset the baseline is skipped.
ResetCounter(r) ==
  /\ pc[r] = "resetting"
  /\ Overwrite({}) /\ Proceed(r, {})
  /\ resets' = resets + 1
  /\ UNCHANGED <<sentinel, daySide, tracker, world, recorded, seen, faults>>

\* The SET failed: the baseline is not skipped, and the sentinel stays.
ResetFailed(r, applied) ==
  /\ pc[r] = "resetting" /\ Faulty
  /\ IF applied
     THEN /\ Overwrite({})
          /\ forgotten' = forgotten \cup Granted /\ resets' = resets + 1
     ELSE UNCHANGED <<period, inCounter, stuck, lost, forgotten, resets>>
  /\ Goto(r, "reading")
  /\ UNCHANGED <<sentinel, daySide, tracker, world, recorded, seen>>

\* GetRequestsPerPeriodCount reports a negative counter as 0.
ReadCounter(r) ==
  /\ pc[r] = "reading"
  /\ IF period <= 0 THEN Goto(r, "listing") /\ UNCHANGED forgotten ELSE Proceed(r, inCounter)
  /\ UNCHANGED <<period, sentinel, inCounter, stuck, lost, resets, daySide,
                 tracker, world, recorded, seen, faults>>

\* A GET that fails reads 0 as well.
ReadFailed(r) ==
  /\ pc[r] = "reading" /\ Faulty
  /\ Goto(r, "listing")
  /\ UNCHANGED <<periodSide, daySide, tracker, world, recorded, seen>>

\* The query returned these rows; without any the counter is not written.
Listed(r, rows) ==
  /\ seen' = [seen EXCEPT ![r] = rows]
  /\ IF rows # {} THEN Goto(r, "seeding") /\ UNCHANGED forgotten ELSE Proceed(r, inCounter)
  /\ UNCHANGED <<period, sentinel, inCounter, stuck, lost, resets, daySide,
                 tracker, world, recorded>>

\* ListByUserSince.
ListUsage(r) ==
  /\ pc[r] = "listing"
  /\ Listed(r, recorded) /\ UNCHANGED faults

\* A query that fails returns the rows it has read, if any.
ListFailed(r) ==
  /\ pc[r] = "listing" /\ Faulty
  /\ \E rows \in SUBSET recorded : Listed(r, rows)

\* Mutant: the reseed misses a row.
SeedCounterShort(r) ==
  /\ pc[r] = "seeding"
  /\ period' = Cardinality(seen[r]) - 1 /\ inCounter' = seen[r] /\ stuck' = {}
  /\ lost' = lost \cup ((inCounter \ seen[r]) \ stuck)
  /\ Proceed(r, seen[r])
  /\ seen' = [seen EXCEPT ![r] = {}]
  /\ UNCHANGED <<sentinel, resets, daySide, tracker, world, recorded, faults>>

SeedCounter(r) ==
  /\ pc[r] = "seeding"
  /\ Overwrite(seen[r]) /\ Proceed(r, seen[r])
  /\ seen' = [seen EXCEPT ![r] = {}]
  /\ UNCHANGED <<sentinel, resets, daySide, tracker, world, recorded, faults>>

\* The SET failed; its error is ignored.
SeedFailed(r) ==
  /\ pc[r] = "seeding" /\ Faulty
  /\ Proceed(r, inCounter)
  /\ seen' = [seen EXCEPT ![r] = {}]
  /\ UNCHANGED <<period, sentinel, inCounter, stuck, lost, resets, daySide,
                 tracker, world, recorded>>

-----------------------------------------------------------------------------
(* CheckRequestsPerPeriod and CheckPlanRPD                                 *)

\* Mutant: compares the counter from before the increment.
CheckRequestsPerPeriodOffByOne(r) ==
  /\ pc[r] = "counting"
  /\ period' = period + 1 /\ inCounter' = inCounter \cup {r}
  /\ IF period > EffectiveRPP
     THEN Goto(r, "overPeriod") /\ UNCHANGED tookPeriod
     ELSE /\ tookPeriod' = [tookPeriod EXCEPT ![r] = TRUE]
          /\ Goto(r, "daily")
  /\ UNCHANGED <<sentinel, stuck, lost, forgotten, resets, daySide, tookDay,
                 world, recorded, seen, faults>>

\* A cap of 0 or less is no cap: nothing is incremented, yet the caller marks
\* the period slot as consumed.
CheckRequestsPerPeriod(r) ==
  /\ pc[r] = "counting"
  /\ IF EffectiveRPP = 0
     THEN /\ tookPeriod' = [tookPeriod EXCEPT ![r] = TRUE]
          /\ Goto(r, "daily")
          /\ UNCHANGED <<period, inCounter>>
     ELSE /\ period' = period + 1 /\ inCounter' = inCounter \cup {r}
          /\ IF period + 1 > EffectiveRPP
             THEN Goto(r, "overPeriod") /\ UNCHANGED tookPeriod
             ELSE /\ tookPeriod' = [tookPeriod EXCEPT ![r] = TRUE]
                  /\ Goto(r, "daily")
  /\ UNCHANGED <<sentinel, stuck, lost, forgotten, resets, daySide, tookDay,
                 world, recorded, seen, faults>>

\* The INCR failed: the request is refused, and the increment, if it was
\* applied, stays.
CountFailed(r, applied) ==
  /\ pc[r] = "counting" /\ EffectiveRPP > 0 /\ Faulty
  /\ IF applied
     THEN /\ period' = period + 1 /\ inCounter' = inCounter \cup {r}
          /\ stuck' = stuck \cup {r}
     ELSE UNCHANGED <<period, inCounter, stuck>>
  /\ Goto(r, "rejected")
  /\ UNCHANGED <<sentinel, lost, forgotten, resets, daySide, tracker, world,
                 recorded, seen>>

\* Mutant: a rejected request keeps its increment.
PeriodExceededKept(r) ==
  /\ pc[r] = "overPeriod"
  /\ Goto(r, "rejected")
  /\ UNCHANGED <<periodSide, daySide, tracker, world, recorded, seen, faults>>

PeriodExceeded(r) ==
  /\ pc[r] = "overPeriod"
  /\ period' = period - 1 /\ inCounter' = inCounter \ {r}
  /\ Goto(r, "rejected")
  /\ UNCHANGED <<sentinel, stuck, lost, forgotten, resets, daySide, tracker,
                 world, recorded, seen, faults>>

\* The DECR failed, on the request's context; its error is ignored.
PeriodExceededFailed(r) ==
  /\ pc[r] = "overPeriod" /\ Faulty
  /\ stuck' = stuck \cup ({r} \cap inCounter)
  /\ Goto(r, "rejected")
  /\ UNCHANGED <<period, sentinel, inCounter, lost, forgotten, resets, daySide,
                 tracker, world, recorded, seen>>

\* Mutant: an off-by-one in the comparison with the daily cap.
CheckPlanRPDOffByOne(r) ==
  /\ pc[r] = "daily"
  /\ day' = [day EXCEPT ![today] = @ + 1]
  /\ dayOf' = [dayOf EXCEPT ![r] = today]
  /\ IF day[today] > RPD
     THEN Goto(r, "overDay") /\ UNCHANGED tookDay
     ELSE Goto(r, "running") /\ tookDay' = [tookDay EXCEPT ![r] = TRUE]
  /\ UNCHANGED <<periodSide, lostDay, tookPeriod, world, recorded, seen, faults>>

CheckPlanRPD(r) ==
  /\ pc[r] = "daily"
  /\ IF RPD = 0
     THEN Goto(r, "running") /\ UNCHANGED <<day, dayOf, tookDay>>
     ELSE /\ day' = [day EXCEPT ![today] = @ + 1]
          /\ dayOf' = [dayOf EXCEPT ![r] = today]
          /\ IF day[today] + 1 > RPD
             THEN Goto(r, "overDay") /\ UNCHANGED tookDay
             ELSE Goto(r, "running") /\ tookDay' = [tookDay EXCEPT ![r] = TRUE]
  /\ UNCHANGED <<periodSide, lostDay, tookPeriod, world, recorded, seen, faults>>

\* The INCR failed: the caller rolls the period slot back and refuses the
\* request; the increment, if it was applied, stays.
DayCountFailed(r, applied) ==
  /\ pc[r] = "daily" /\ RPD > 0 /\ Faulty
  /\ day' = IF applied THEN [day EXCEPT ![today] = @ + 1] ELSE day
  /\ Goto(r, "undoing")
  /\ UNCHANGED <<periodSide, dayOf, lostDay, tracker, world, recorded, seen>>

\* CheckPlanRPD takes its own increment back (same key) and the caller rolls
\* the period slot back.
DayExceeded(r) ==
  /\ pc[r] = "overDay"
  /\ day' = [day EXCEPT ![dayOf[r]] = @ - 1]
  /\ Goto(r, "undoing")
  /\ UNCHANGED <<periodSide, dayOf, lostDay, tracker, world, recorded, seen, faults>>

\* The DECR failed, on the request's context; its error is ignored.
DayExceededFailed(r) ==
  /\ pc[r] = "overDay" /\ Faulty
  /\ Goto(r, "undoing")
  /\ UNCHANGED <<periodSide, daySide, tracker, world, recorded, seen>>

-----------------------------------------------------------------------------
(* The end of the handler: commit or rollback                              *)

\* The request counts (CountRequest): the deferred rollback becomes a no-op.  A
\* streaming handler writes the ledger row before it commits, the others after;
\* since the slot stays taken either way, one order stands for both.
Commit(r) ==
  /\ pc[r] = "running"
  /\ Goto(r, "settling")
  /\ UNCHANGED <<periodSide, daySide, tracker, world, recorded, seen, faults>>

\* The success row of a completed request is written.
RecordSuccess(r) ==
  /\ pc[r] = "settling"
  /\ recorded' = recorded \cup {r}
  /\ Goto(r, "counted")
  /\ UNCHANGED <<periodSide, daySide, tracker, world, seen, faults>>

\* The request keeps its slots but the reseed will not see it: the client left
\* after the provider had started, so the row has status "failed", or the
\* asynchronous recordUsage failed.
RecordUncounted(r) ==
  /\ pc[r] = "settling"
  /\ Goto(r, "unrecorded")
  /\ UNCHANGED <<periodSide, daySide, tracker, world, recorded, seen, faults>>

\* Concurrency refused, reservation failed, upstream failed, an empty or
\* partial completion, or a streaming settlement that failed: the handler ends
\* without a commit.
Fail(r) ==
  /\ pc[r] = "running"
  /\ Goto(r, "undoing")
  /\ UNCHANGED <<periodSide, daySide, tracker, world, recorded, seen, faults>>

RollbackRequestsPerPeriod(r) ==
  /\ pc[r] = "undoing"
  /\ IF tookPeriod[r]
     THEN /\ period' = period - 1 /\ inCounter' = inCounter \ {r}
          /\ tookPeriod' = [tookPeriod EXCEPT ![r] = FALSE]
     ELSE UNCHANGED <<period, inCounter, tookPeriod>>
  /\ Goto(r, "undoingDay")
  /\ UNCHANGED <<sentinel, stuck, lost, forgotten, resets, daySide, tookDay,
                 world, recorded, seen, faults>>

\* RollbackPlanRPD takes the day from the clock, not from the increment.
RollbackPlanRPD(r) ==
  /\ pc[r] = "undoingDay"
  /\ IF tookDay[r]
     THEN /\ day' = [day EXCEPT ![today] = @ - 1]
          /\ tookDay' = [tookDay EXCEPT ![r] = FALSE]
     ELSE UNCHANGED <<day, tookDay>>
  /\ Goto(r, "failed")
  /\ UNCHANGED <<periodSide, dayOf, lostDay, tookPeriod, world, recorded, seen, faults>>

\* The DECR of a rollback failed; its error is ignored and the tracker is
\* cleared, so that nobody tries again.
RollbackFailed(r) ==
  /\ \/ /\ pc[r] = "undoing" /\ tookPeriod[r]
        /\ tookPeriod' = [tookPeriod EXCEPT ![r] = FALSE]
        /\ stuck' = stuck \cup ({r} \cap inCounter)
        /\ Goto(r, "undoingDay")
        /\ UNCHANGED tookDay
     \/ /\ pc[r] = "undoingDay" /\ tookDay[r]
        /\ tookDay' = [tookDay EXCEPT ![r] = FALSE]
        /\ Goto(r, "failed")
        /\ UNCHANGED <<tookPeriod, stuck>>
  /\ Faulty
  /\ UNCHANGED <<period, sentinel, inCounter, lost, forgotten, resets, daySide,
                 world, recorded, seen>>

-----------------------------------------------------------------------------
(* Environment                                                             *)

Midnight ==
  /\ today < MaxDay
  /\ today' = today + 1
  /\ UNCHANGED <<periodSide, daySide, tracker, needsReset, flushes, crashes,
                 recorded, pc, seen, faults>>

\* Redis loses the customer's keys: eviction, or a restart without its data.  A
\* request that has read the counter and is about to INCR it restarts it.
Flush ==
  /\ Mishap
  /\ flushes' = flushes + 1
  /\ Overwrite({}) /\ sentinel' = FALSE
  /\ forgotten' = IF \E r \in Requests : pc[r] = "counting"
                  THEN forgotten \cup Granted ELSE forgotten
  /\ day' = [d \in 1..MaxDay |-> 0]
  /\ lostDay' = lostDay \cup {r \in Requests : tookDay[r] \/ pc[r] = "overDay"}
  /\ UNCHANGED <<resets, dayOf, tracker, today, needsReset, crashes, recorded,
                 pc, seen, faults>>

\* The process dies: what its requests incremented stays incremented.
Crash ==
  /\ Mishap
  /\ crashes' = crashes + 1
  /\ pc' = [r \in Requests |-> IF pc[r] \in Active THEN "crashed" ELSE pc[r]]
  /\ stuck' = stuck \cup {r \in inCounter : pc[r] \in Active}
  /\ tookPeriod' = [r \in Requests |-> tookPeriod[r] /\ pc[r] \notin Active]
  /\ tookDay' = [r \in Requests |-> tookDay[r] /\ pc[r] \notin Active]
  /\ seen' = [r \in Requests |-> {}]
  /\ UNCHANGED <<period, sentinel, inCounter, lost, forgotten, resets, daySide,
                 today, needsReset, flushes, recorded, faults>>

Baseline(r) ==
  \/ Begin(r) \/ ResetCounter(r) \/ ReadCounter(r) \/ ListUsage(r) \/ SeedCounter(r)
  \/ ReadFailed(r) \/ ListFailed(r) \/ SeedFailed(r)
  \/ \E applied \in BOOLEAN : SentinelFailed(r, applied) \/ ResetFailed(r, applied)

Check(r) ==
  \/ CheckRequestsPerPeriod(r) \/ PeriodExceeded(r) \/ PeriodExceededFailed(r)
  \/ CheckPlanRPD(r) \/ DayExceeded(r) \/ DayExceededFailed(r)
  \/ \E applied \in BOOLEAN : CountFailed(r, applied) \/ DayCountFailed(r, applied)

Finish(r) ==
  \/ Commit(r) \/ RecordSuccess(r) \/ RecordUncounted(r) \/ Fail(r)
  \/ RollbackRequestsPerPeriod(r) \/ RollbackPlanRPD(r) \/ RollbackFailed(r)

Next ==
  \/ \E r \in Requests : Baseline(r) \/ Check(r) \/ Finish(r)
  \/ Midnight \/ Flush \/ Crash

Spec == Init /\ [][Next]_vars

-----------------------------------------------------------------------------
(* Properties                                                              *)

TypeOK ==
  /\ period \in Int /\ sentinel \in BOOLEAN
  /\ day \in [1..MaxDay -> Int] /\ today \in 1..MaxDay
  /\ recorded \subseteq Requests
  /\ pc \in [Requests -> Active \cup Terminal \cup {"new"}]
  /\ seen \in [Requests -> SUBSET Requests]
  /\ tookPeriod \in [Requests -> BOOLEAN] /\ tookDay \in [Requests -> BOOLEAN]
  /\ needsReset \in Resets
  /\ flushes \in Nat /\ crashes \in Nat /\ faults \in Nat
  /\ inCounter \subseteq Requests /\ stuck \subseteq Requests
  /\ lost \subseteq Requests /\ forgotten \subseteq Requests
  /\ resets \in Nat
  /\ dayOf \in [Requests -> 0..MaxDay] /\ lostDay \subseteq Requests

Admitted == {r \in Requests : pc[r] \in {"running", "settling", "counted", "unrecorded"}}

\* Requests that gave back an increment the counter no longer held, because it
\* had been overwritten or lost since: each makes room for one more.
Undercut == {r \in lost : ~tookPeriod[r] /\ pc[r] # "overPeriod"}

\* MaxRequestsPerPeriod, less the debt reserve, caps the requests of the period
\* whatever overlaps or fails: the baseline brings back what Redis lost, and a
\* request is admitted on the value its own INCR returned.  The cap is exceeded
\* only by what the counter did not count when it was taken up again (a request
\* still without a success row when the counter was reseeded, or granted since
\* the ledger was read; whatever a failing query missed; everything, when the SET
\* failed on an empty counter) and by DECRs of increments that were no longer in it.  The reset is
\* granted once, not on every request, unless Redis loses the sentinel.
PeriodCapHolds ==
  /\ resets <= flushes + 1
  /\ RPP > 0 /\ EffectiveRPP > 0 /\ Admitted \ (Past \cup forgotten) # {} =>
       Cardinality(Admitted \ forgotten) <= EffectiveRPP + Cardinality(Undercut)

\* A request that was refused or failed gives its place in the period counter
\* back, whichever check refused it: the counter never exceeds the requests that
\* hold a slot, except for those whose DECR failed, whose INCR was applied but
\* not answered, or whose process died, until the counter is next overwritten.
SlotsAccounted == period <= Cardinality(Slots \cup stuck)

\* Requests that may have decremented the counter of day d although it did not
\* hold their increment: failed ones of an earlier day (the rollback takes the
\* day from the clock) and those of day d whose increment Redis had lost.
Strays(d) ==
  {r \in Requests : pc[r] = "failed" /\ dayOf[r] \in 1..(d - 1)}
    \cup {r \in lostDay : dayOf[r] = d /\ ~tookDay[r] /\ pc[r] # "overDay"}

\* RPD caps the requests of one UTC day, apart from those whose increment Redis
\* lost, and one more for each stray decrement.
DayCapHolds ==
  RPD > 0 => \A d \in 1..MaxDay :
    Cardinality({r \in Admitted : dayOf[r] = d} \ lostDay) <= RPD + Cardinality(Strays(d))

-----------------------------------------------------------------------------
(* Inductive strengthening                                                 *)

\* Where a request stands decides what it holds.
PeriodPlaces ==
  \A r \in Requests :
    /\ RPP = 0 => pc[r] \notin {"resetting", "reading", "listing", "seeding", "counting", "overPeriod"}
    /\ pc[r] \in {"new", "resetting", "reading", "listing", "seeding", "counting",
                  "overPeriod", "rejected", "failed", "undoingDay", "crashed"} => ~tookPeriod[r]
    /\ pc[r] \in {"new", "resetting", "reading", "listing", "seeding", "counting"}
         => r \notin inCounter \cup lost
    /\ RPP > 0 /\ pc[r] \in {"daily", "overDay", "running", "settling", "counted", "unrecorded"}
         => tookPeriod[r]
    /\ r \in recorded => pc[r] = "counted"
    /\ r \in stuck => pc[r] \in {"rejected", "undoingDay", "failed", "crashed"}
    /\ RPP > 0 /\ EffectiveRPP > 0 /\ (tookPeriod[r] \/ pc[r] = "overPeriod")
         => r \in inCounter \cup lost
    /\ seen[r] \subseteq recorded

\* The counter is at most the requests it counts, each of which holds a slot or
\* is stuck, and at least their number less the decrements that were not its own.
CounterInv ==
  /\ inCounter \subseteq Slots \cup stuck
  /\ period <= Cardinality(inCounter)
  /\ RPP > 0 /\ EffectiveRPP > 0 => Cardinality(inCounter) <= period + Cardinality(Undercut)

\* Nobody increments a counter that misses a granted request not yet forgotten.
BaselineInv ==
  RPP > 0 /\ EffectiveRPP > 0 =>
    \/ Granted \ forgotten \subseteq inCounter
    \/ period <= 0 /\ \A r \in Requests : pc[r] # "counting"

GrantInv ==
  RPP > 0 /\ EffectiveRPP > 0 /\ Granted \ (Past \cup forgotten) # {} =>
    Cardinality(Granted \ forgotten) <= EffectiveRPP + Cardinality(Undercut)

\* A reset is done or under way only while its sentinel exists, or before a loss.
ResetInv ==
  resets + Cardinality({r \in Requests : pc[r] = "resetting"})
    <= flushes + (IF sentinel THEN 1 ELSE 0)

PeriodInv == PeriodPlaces /\ CounterInv /\ BaselineInv /\ GrantInv /\ ResetInv

=============================================================================
