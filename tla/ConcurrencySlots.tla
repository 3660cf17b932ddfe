------------------------- MODULE ConcurrencySlots -------------------------
(***************************************************************************)
(* The concurrency limit of one account: AcquireConcurrency and the release*)
(* function it returns.  The counter is one Redis key with a 10-minute     *)
(* expiry that is set by whoever creates it (INCR returned 1) and never    *)
(* renewed.  Each Redis command is a step of its own, and each may fail:   *)
(* the INCR and a refusal's DECR run on the request's context, the release *)
(* has two seconds, and all errors but the INCR's are ignored.  The names  *)
(* differ from those of PreRequestLimits, so that Limits_proofs can extend *)
(* both.                                                                   *)
(***************************************************************************)
EXTENDS Integers, FiniteSets

CONSTANTS
  Calls,        \* requests of the account
  Limit,        \* ConcurrentLimit of the plan, positive
  SlotTTL,      \* life of the key, in ticks (10 minutes)
  Recycle,      \* TRUE: the account keeps sending requests
  MaxDeaths,    \* bound on process crashes
  MaxFailures   \* bound on failing commands, EXPIRE apart

ASSUME SlotsAssumption ==
  /\ IsFiniteSet(Calls) /\ Limit \in Nat \ {0} /\ SlotTTL \in Nat \ {0}
  /\ MaxDeaths \in Nat /\ MaxFailures \in Nat
  /\ Recycle \in BOOLEAN

VARIABLES
  slots,    \* value of the key, 0 when it is absent
  present,  \* the key exists
  ttl,      \* remaining life of the key, 0 when it has no expiry
  at,       \* where each request is
  deaths,   \* crashes so far
  failures, \* failed commands so far
  leaked    \* history: increments that nobody will take back

key      == <<slots, present, ttl>>
mishaps  == <<deaths, failures>>
slotVars == <<key, at, mishaps, leaked>>

(***************************************************************************)
(* expiring   INCR returned 1, EXPIRE comes next                           *)
(* refusing   INCR went over the limit, DECR comes next                    *)
(* held       the request runs and will release the slot                   *)
(* deleting   the release read 0 or less, DEL comes next                   *)
(***************************************************************************)
Holding  == {"expiring", "refusing", "held"}
InFlight == Holding \cup {"deleting"}
Ended    == {"refused", "done", "crashed"}

SlotInit ==
  /\ slots = 0 /\ present = FALSE /\ ttl = 0
  /\ at = [r \in Calls |-> "new"]
  /\ deaths = 0 /\ failures = 0 /\ leaked = 0

Move(r, label) == at' = [at EXCEPT ![r] = label]
Fails          == failures < MaxFailures /\ failures' = failures + 1

\* INCR; the caller compares the new value with 1 and with the limit.
Acquire(r) ==
  /\ at[r] = "new"
  /\ slots' = slots + 1 /\ present' = TRUE
  /\ Move(r, IF slots + 1 = 1 THEN "expiring"
             ELSE IF slots + 1 > Limit THEN "refusing" ELSE "held")
  /\ UNCHANGED <<ttl, mishaps, leaked>>

\* The INCR failed: the request is turned away with an error.  When only the
\* reply was lost its increment stays in the key, and so does a key it created,
\* without an expiry.
AcquireFailed(r, applied) ==
  /\ at[r] = "new" /\ Fails
  /\ IF applied
     THEN slots' = slots + 1 /\ present' = TRUE /\ leaked' = leaked + 1
     ELSE UNCHANGED <<slots, present, leaked>>
  /\ Move(r, "refused")
  /\ UNCHANGED <<ttl, deaths>>

\* EXPIRE, which does nothing when the key is gone again.
SetExpiry(r) ==
  /\ at[r] = "expiring"
  /\ ttl' = IF present THEN SlotTTL ELSE ttl
  /\ Move(r, "held")
  /\ UNCHANGED <<slots, present, mishaps, leaked>>

\* The EXPIRE failed; its error is ignored.
ExpiryFailed(r) ==
  /\ at[r] = "expiring"
  /\ Move(r, "held")
  /\ UNCHANGED <<key, mishaps, leaked>>

\* Mutant: a refused request keeps its increment.
RefuseKept(r) ==
  /\ at[r] = "refusing"
  /\ Move(r, "refused")
  /\ UNCHANGED <<key, mishaps, leaked>>

\* Over the limit: take the increment back and answer 429.
Refuse(r) ==
  /\ at[r] = "refusing"
  /\ slots' = slots - 1 /\ present' = TRUE
  /\ Move(r, "refused")
  /\ UNCHANGED <<ttl, mishaps, leaked>>

\* That DECR failed, for instance because the client has left; its error is
\* ignored.
RefuseFailed(r) ==
  /\ at[r] = "refusing" /\ Fails
  /\ leaked' = leaked + 1
  /\ Move(r, "refused")
  /\ UNCHANGED <<key, deaths>>

\* The deferred release: DECR, and DEL when the result is 0 or less.
Release(r) ==
  /\ at[r] = "held"
  /\ slots' = slots - 1 /\ present' = TRUE
  /\ Move(r, IF slots - 1 <= 0 THEN "deleting" ELSE "done")
  /\ UNCHANGED <<ttl, mishaps, leaked>>

\* The release's DECR failed or timed out, before or after it was applied; in
\* either case there is no DEL.
ReleaseFailed(r, applied) ==
  /\ at[r] = "held" /\ Fails
  /\ IF applied
     THEN slots' = slots - 1 /\ present' = TRUE /\ leaked' = leaked
     ELSE leaked' = leaked + 1 /\ UNCHANGED <<slots, present>>
  /\ Move(r, "done")
  /\ UNCHANGED <<ttl, deaths>>

Delete(r) ==
  /\ at[r] = "deleting"
  /\ slots' = 0 /\ present' = FALSE /\ ttl' = 0 /\ leaked' = 0
  /\ Move(r, "done")
  /\ UNCHANGED mishaps

\* The DEL failed; its error is ignored.
DeleteFailed(r) ==
  /\ at[r] = "deleting" /\ Fails
  /\ Move(r, "done")
  /\ UNCHANGED <<key, deaths, leaked>>

\* The next request of the same client.
Arrive(r) ==
  /\ Recycle /\ at[r] \in Ended
  /\ Move(r, "new")
  /\ UNCHANGED <<key, mishaps, leaked>>

\* The process dies with its requests; their increments stay in the key.
ProcessDies ==
  /\ deaths < MaxDeaths
  /\ deaths' = deaths + 1
  /\ leaked' = leaked + Cardinality({r \in Calls : at[r] \in Holding})
  /\ at' = [r \in Calls |-> IF at[r] \in InFlight THEN "crashed" ELSE at[r]]
  /\ UNCHANGED <<key, failures>>

\* Mutant: the key's expiry is renewed as long as somebody holds a slot.
TickRenewing ==
  /\ ttl' = IF ttl = 0 \/ \E r \in Calls : at[r] = "held" THEN ttl ELSE ttl - 1
  /\ IF ttl = 1 /\ ttl' = 0
     THEN slots' = 0 /\ present' = FALSE /\ leaked' = 0
     ELSE UNCHANGED <<slots, present, leaked>>
  /\ UNCHANGED <<at, mishaps>>

\* Time passes; a key whose life ends disappears.
Tick ==
  /\ ttl' = IF ttl = 0 THEN 0 ELSE ttl - 1
  /\ IF ttl = 1
     THEN slots' = 0 /\ present' = FALSE /\ leaked' = 0
     ELSE UNCHANGED <<slots, present, leaked>>
  /\ UNCHANGED <<at, mishaps>>

Handler(r) ==
  \/ Acquire(r) \/ SetExpiry(r) \/ ExpiryFailed(r)
  \/ Refuse(r) \/ RefuseFailed(r)
  \/ Release(r) \/ Delete(r) \/ DeleteFailed(r)
  \/ \E applied \in BOOLEAN : AcquireFailed(r, applied) \/ ReleaseFailed(r, applied)

SlotNext ==
  \/ \E r \in Calls : Handler(r) \/ Arrive(r)
  \/ ProcessDies \/ Tick

SlotSpec == SlotInit /\ [][SlotNext]_slotVars

\* Time passes.  A request may hold its slot for ever: nothing ends a handler
\* whose client stops reading.
SlotFairSpec == SlotSpec /\ WF_slotVars(Tick)

-----------------------------------------------------------------------------
(* Properties                                                              *)

Holders == {r \in Calls : at[r] \in Holding}

SlotTypes ==
  /\ slots \in Int /\ present \in BOOLEAN /\ ttl \in 0..SlotTTL
  /\ ~present => slots = 0 /\ ttl = 0
  /\ at \in [Calls -> InFlight \cup Ended \cup {"new"}]
  /\ deaths \in 0..MaxDeaths /\ failures \in 0..MaxFailures /\ leaked \in Nat

\* A slot that was given back is never counted again: since the key was created
\* it counts no more than the requests that hold an increment and the increments
\* whose DECR never ran (a crash, a lost reply to the INCR, a failed DECR).
\* DECR, DEL, the key's expiry and their failures, in any order, otherwise only
\* lose increments.
NoPhantomSlots == slots <= Cardinality(Holders) + leaked

\* What was left behind in a key with an expiry goes away, however busy the
\* account is and however long its requests run (GetConcurrencyCount: "A stale
\* value can linger up to the 10-min slot TTL"): nothing renews the expiry, and a
\* key that is created anew while it is being deleted does not keep the leak.
LeakHealed ==
  (slots > Cardinality(Holders) /\ ttl > 0) ~> (slots <= Cardinality(Holders))

=============================================================================
