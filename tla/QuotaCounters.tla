--------------------------- MODULE QuotaCounters ---------------------------
(***************************************************************************)
(* The monthly token quota of one subscription, and what a change of its   *)
(* expiry does to it.                                                      *)
(*                                                                         *)
(* quota_counters has a row per (period_start, period_end).  A request     *)
(* looks the entitlement up (through a Redis cache), reserves an estimate  *)
(* in the row of the period it saw and, when it ends, finalizes in that    *)
(* same row.  An embeddings request reserves nothing and adds its tokens   *)
(* when it ends.  genfity-app may change period_end at any time, also by   *)
(* syncs that overlap: a sync upserts the entitlement, drops the cached    *)
(* copy and then folds the rows of the other period ends into the row of   *)
(* the one it brought, in a transaction of two statements at READ          *)
(* COMMITTED.  period_start stays what it is.                              *)
(*                                                                         *)
(* Every statement and every Redis command is a step.  A missing row and a *)
(* row of zeros behave alike: ReserveQuotaTokens checks tokens <= limit    *)
(* before it inserts, FinalizeQuotaTokens inserts what it would have added.*)
(***************************************************************************)
EXTENDS Integers, FiniteSets

CONSTANTS
  Requests,   \* requests of the customer
  Ends,       \* period ends the entitlement may have
  Limit,      \* quota_tokens_monthly, positive
  MaxTokens,  \* largest estimate a request reserves
  Syncs,      \* entitlement syncs, each of which may run once
  MaxFaults   \* bound on failing statements and crashes

ASSUME QuotaAssumption ==
  /\ IsFiniteSet(Requests) /\ IsFiniteSet(Ends) /\ "none" \notin Ends
  /\ Limit \in Nat \ {0} /\ MaxTokens \in Nat /\ MaxFaults \in Nat

VARIABLES
  used,      \* committed tokens_used per period end
  reserved,  \* committed tokens_reserved per period end
  current,   \* period_end of the entitlement row
  cached,    \* period_end of the cached entitlement, "none" when absent
  sync,      \* where each sync is
  target,    \* the period end each sync brings
  carry,     \* agg.used: what its migration read in the other rows
  faults,    \* failed statements and crashes so far
  pc,        \* where each request is
  end,       \* the period end the request saw
  hold,      \* QuotaTokens of its reservation
  \* History variables, read by the properties only.
  settled,   \* tokens reported by finalizes and increments so far
  late,      \* per migration: tokens that came onto rows it had read
  moved,     \* per migration: tokens another one took off rows it had read
  dropped,   \* the late tokens of the migrations that committed
  doubled,   \* the moved tokens of the migrations that committed
  loose,     \* tokens of live requests that a sweep, a migration or a repeated
             \* finalize took out of tokens_reserved
  unchecked  \* tokens the limit was not asked about, or could not see all of

table   == <<used, reserved>>
entity  == <<current, cached>>
syncing == <<sync, target, carry>>
local   == <<pc, end, hold>>
races   == <<late, moved, dropped, doubled>>
history == <<settled, races, loose, unchecked>>
vars    == <<table, entity, syncing, faults, local, history>>

(***************************************************************************)
(* filling    read the entitlement from the database, cache SET comes next *)
(* looked     holds an entitlement, the quota reservation comes next       *)
(* reserved   tokens are reserved: plan credits, the upstream call, and    *)
(*            then the settlement                                          *)
(* undoing    the tokens are about to go back unused                       *)
(* deferred   finalized, but the deferred finalize is about to run as well *)
(***************************************************************************)
Holding == {"reserved", "undoing"}
Active  == Holding \cup {"filling", "looked", "deferred"}

(***************************************************************************)
(* upserted   the entitlement row is written, the cache DEL comes next     *)
(* carrying   the migration is about to begin                              *)
(* read       its first statement has summed the other rows                *)
(* folded     and written the sum into the target's row, not yet committed *)
(***************************************************************************)
Migrating == {"read", "folded"}

Init ==
  /\ used = [e \in Ends |-> 0] /\ reserved = [e \in Ends |-> 0]
  /\ current \in Ends /\ cached = "none"
  /\ sync = [s \in Syncs |-> "new"]
  /\ target = [s \in Syncs |-> current]
  /\ carry = [s \in Syncs |-> 0]
  /\ faults = 0
  /\ pc = [r \in Requests |-> "new"]
  /\ end = [r \in Requests |-> current]
  /\ hold = [r \in Requests |-> 0]
  /\ settled = 0
  /\ late = [s \in Syncs |-> 0] /\ moved = [s \in Syncs |-> 0]
  /\ dropped = 0 /\ doubled = 0 /\ loose = 0 /\ unchecked = 0

\* Mutant: a give-back without the GREATEST floor.
MonusUnfloored(a, b) == a - b

Goto(r, label) == pc' = [pc EXCEPT ![r] = label]
Monus(a, b)    == IF a <= b THEN 0 ELSE a - b
Fault          == faults < MaxFaults /\ faults' = faults + 1

\* One element per token: the sum of the function's values.
Sum(f) == Cardinality(UNION {{e} \X (1..f[e]) : e \in DOMAIN f})

\* Tokens live requests hold in the rows of E.
Held(E) ==
  [r \in Requests |-> IF pc[r] \in Holding /\ end[r] \in E THEN hold[r] ELSE 0]
LiveOn(E)  == Sum(Held(E))
LiveTokens == LiveOn(Ends)

\* The row of the current period end shows every token used or held.
Whole == /\ \A e \in Ends \ {current} : used[e] = 0
         /\ \A r \in Requests : pc[r] \in Holding => end[r] = current

\* A migration that has written a row and not committed: other writers of that
\* row wait.  One that carries nothing but request counts writes the row as well;
\* that it makes others wait is left out, which only allows more.
Locks(s, e) == sync[s] = "folded" /\ carry[s] > 0 /\ target[s] = e
Locked(e)   == \E s \in Syncs : Locks(s, e)

\* The tokens n that come onto row e after s has read it.
LateFor(s, e, n) == IF sync[s] \in Migrating /\ target[s] # e THEN n ELSE 0

-----------------------------------------------------------------------------
(* EntitlementService.GetByUser                                            *)

GetByUser(r, e, label) ==
  /\ pc[r] = "new"
  /\ end' = [end EXCEPT ![r] = e]
  /\ Goto(r, label)
  /\ UNCHANGED <<table, entity, syncing, faults, hold, history>>

CacheHit(r) == cached # "none" /\ GetByUser(r, cached, "looked")

\* The row is read after a miss, and also when the GET fails.
CacheMiss(r) == GetByUser(r, current, "filling")

\* The read-through SET, whatever happened to the row since it was read; its
\* error is ignored.
CacheFill(r) ==
  /\ pc[r] = "filling"
  /\ cached' \in {end[r], cached}
  /\ Goto(r, "looked")
  /\ UNCHANGED <<table, current, syncing, faults, end, hold, history>>

CacheExpires ==
  /\ cached # "none"
  /\ cached' = "none"
  /\ UNCHANGED <<table, current, syncing, faults, local, history>>

-----------------------------------------------------------------------------
(* Reserving                                                               *)

\* Mutant: the WHERE clause forgets the reserved tokens.
ReserveFitsUsedOnly(e, n) == n <= Limit /\ used[e] + n <= Limit

ReserveFits(e, n) == n <= Limit /\ used[e] + reserved[e] + n <= Limit

\* The limit is checked against the row of the period end the request saw.
ReserveQuotaTokens(r, n) ==
  /\ pc[r] = "looked" /\ ~Locked(end[r]) /\ ReserveFits(end[r], n)
  /\ reserved' = [reserved EXCEPT ![end[r]] = @ + n]
  /\ hold' = [hold EXCEPT ![r] = n]
  /\ Goto(r, "reserved")
  /\ unchecked' = IF Whole /\ end[r] = current THEN unchecked ELSE unchecked + n
  /\ UNCHANGED <<used, entity, syncing, faults, end, settled, races, loose>>

\* quota_exceeded, an unbounded estimate, a failed statement, or an embeddings
\* request that has no tokens to report or whose increment failed.
ReserveRejected(r) ==
  /\ pc[r] = "looked"
  /\ Goto(r, "done")
  /\ UNCHANGED <<table, entity, syncing, faults, end, hold, history>>

\* The tokens will go back unused: the model has no credit cost, a plan-credit
\* limit refuses the request, or the handler ends before it settles anything.
Abandon(r) ==
  /\ pc[r] = "reserved"
  /\ Goto(r, "undoing")
  /\ UNCHANGED <<table, entity, syncing, faults, end, hold, history>>

-----------------------------------------------------------------------------
(* Settling                                                                *)

\* n tokens are added to tokens_used of row e, whose lock is free.
Settle(e, n) ==
  /\ ~Locked(e)
  /\ used' = [used EXCEPT ![e] = @ + n]
  /\ settled' = settled + n
  /\ late' = [s \in Syncs |-> late[s] + LateFor(s, e, n)]
  /\ UNCHANGED <<moved, dropped, doubled>>

\* An embeddings request ends: its tokens are added without asking the limit.
IncrementQuotaCounter(r, n) ==
  /\ pc[r] = "looked"
  /\ Settle(end[r], n)
  /\ Goto(r, "done")
  /\ unchecked' = unchecked + n
  /\ UNCHANGED <<reserved, entity, syncing, faults, end, hold, loose>>

\* The upsert gives the hold back, floored at zero, and adds what was used, in
\* the row of the period end the request saw.
FinalizeQuotaTokens(r, n) ==
  /\ Settle(end[r], n)
  /\ reserved' = [reserved EXCEPT ![end[r]] = Monus(@, hold[r])]

\* Tokens used beyond the estimate.
Overrun(r, n) == IF n > hold[r] THEN n - hold[r] ELSE 0

\* The upstream call is over: n is what the settlement charges, which may be
\* more than the estimate, and 0 for a request that is not billed.
Finalize(r, n) ==
  /\ pc[r] = "reserved"
  /\ FinalizeQuotaTokens(r, n)
  /\ Goto(r, "done")
  /\ unchecked' = unchecked + Overrun(r, n)
  /\ UNCHANGED <<entity, syncing, faults, end, hold, loose>>

\* The tokens were finalized but a plan-credit counter could not be: the
\* settlement reports an error, and in Messages the deferred finalize will run
\* as well.  (Elsewhere the request counts as settled: that is Finalize.)
FinalizeCreditFailed(r, n) ==
  /\ Fault
  /\ pc[r] = "reserved"
  /\ FinalizeQuotaTokens(r, n)
  /\ Goto(r, "deferred")
  /\ unchecked' = unchecked + Overrun(r, n)
  /\ UNCHANGED <<entity, syncing, end, hold, loose>>

\* Nothing is charged: the rollback, or the deferred finalize, which gives the
\* hold back a second time.
GiveBack(r) ==
  /\ pc[r] \in {"undoing", "deferred"}
  /\ FinalizeQuotaTokens(r, 0)
  /\ Goto(r, "done")
  /\ loose' = IF pc[r] = "deferred" THEN loose + hold[r] ELSE loose
  /\ UNCHANGED <<entity, syncing, faults, end, hold, unchecked>>

\* The settlement's statement failed; in Messages the deferred finalize follows.
FinalizeDeferred(r) ==
  /\ Fault
  /\ pc[r] = "reserved"
  /\ Goto(r, "undoing")
  /\ UNCHANGED <<table, entity, syncing, end, hold, history>>

\* The statement failed and nobody tries again: the reservation stays.
FinalizeFailed(r) ==
  /\ Fault
  /\ pc[r] \in {"reserved", "undoing", "deferred"}
  /\ Goto(r, "done")
  /\ UNCHANGED <<table, entity, syncing, end, hold, history>>

-----------------------------------------------------------------------------
(* SyncCustomerEntitlements                                                *)

SyncGoto(s, label) == sync' = [sync EXCEPT ![s] = label]

\* The entitlement row takes genfity-app's period end.
Upsert(s, e) ==
  /\ sync[s] = "new"
  /\ current' = e
  /\ target' = [target EXCEPT ![s] = e]
  /\ SyncGoto(s, "upserted")
  /\ UNCHANGED <<table, cached, carry, faults, local, history>>

CacheDel(s) ==
  /\ sync[s] = "upserted"
  /\ cached' = "none"
  /\ SyncGoto(s, "carrying")
  /\ UNCHANGED <<table, current, target, carry, faults, local, history>>

\* The DEL failed; its error is ignored.
CacheDelFailed(s) ==
  /\ Fault
  /\ sync[s] = "upserted"
  /\ SyncGoto(s, "carrying")
  /\ UNCHANGED <<table, entity, target, carry, local, history>>

-----------------------------------------------------------------------------
(* MigrateQuotaCounterPeriodEnd                                            *)

\* Mutant: the aggregate forgets period_end <> $3 and sums the target's row too.
OthersSumAll(e) == Sum(used)

\* SUM(tokens_used) WHERE period_end <> e.
OthersSum(e) == Sum([used EXCEPT ![e] = 0])

\* The first statement's snapshot.
MigrateRead(s) ==
  /\ sync[s] = "carrying"
  /\ carry' = [carry EXCEPT ![s] = OthersSum(target[s])]
  /\ SyncGoto(s, "read")
  /\ UNCHANGED <<table, entity, target, faults, local, history>>

\* Its INSERT ... ON CONFLICT DO UPDATE, which waits for the row's lock.
MigrateFold(s) ==
  /\ sync[s] = "read" /\ (carry[s] = 0 \/ ~Locked(target[s]))
  /\ SyncGoto(s, "folded")
  /\ UNCHANGED <<table, entity, target, carry, faults, local, history>>

\* DELETE and COMMIT: what the first statement wrote becomes visible, the other
\* rows are gone, their reserved tokens with them.  The DELETE waits for a row
\* another migration has written, but does not see one it has just inserted.
MigrateCommit(s) ==
  /\ sync[s] = "folded"
  /\ \A e \in Ends \ {target[s]} : Locked(e) => used[e] = 0 /\ reserved[e] = 0
  /\ used' = [e \in Ends |-> IF e = target[s] THEN used[e] + carry[s] ELSE 0]
  /\ reserved' = [e \in Ends |-> IF e = target[s] THEN reserved[e] ELSE 0]
  /\ SyncGoto(s, "done")
  /\ late' = [q \in Syncs |-> late[q] + LateFor(q, target[s], carry[s])]
  /\ moved' = [q \in Syncs |-> moved[q] + IF sync[q] \in Migrating
                 THEN Sum([used EXCEPT ![target[q]] = 0, ![target[s]] = 0]) ELSE 0]
  /\ dropped' = dropped + late[s]
  /\ doubled' = doubled + moved[s]
  /\ loose' = loose + LiveOn(Ends \ {target[s]})
  /\ UNCHANGED <<entity, target, carry, faults, local, settled, unchecked>>

\* Logged as a warning: the transaction is rolled back and the rows stay.
MigrateAborts(s) ==
  /\ sync[s] \in Migrating \cup {"carrying"}
  /\ SyncGoto(s, "done")
  /\ UNCHANGED <<table, entity, target, carry, local, history>>

MigrateFailed(s) == Fault /\ MigrateAborts(s)

\* Two migrations to different ends wait for each other's row.
MigrateDeadlock(s) ==
  /\ sync[s] = "folded"
  /\ \E q \in Syncs : sync[q] = "folded" /\ target[q] # target[s]
  /\ MigrateAborts(s)
  /\ UNCHANGED faults

-----------------------------------------------------------------------------
(* Environment                                                             *)

\* ReleaseStaleQuotaReservations.  A row that nobody touched for five minutes
\* may have reservations of live requests: REQUEST_TIMEOUT is longer.
Sweep(e) ==
  /\ reserved[e] > 0 /\ ~Locked(e)
  /\ reserved' = [reserved EXCEPT ![e] = 0]
  /\ loose' = loose + LiveOn({e})
  /\ UNCHANGED <<used, entity, syncing, faults, local, settled, races, unchecked>>

\* The process dies with its requests and the syncs it was serving.
Crash ==
  /\ Fault
  /\ pc' = [r \in Requests |-> IF pc[r] \in Active THEN "done" ELSE pc[r]]
  /\ sync' = [s \in Syncs |-> IF sync[s] = "new" THEN "new" ELSE "done"]
  /\ UNCHANGED <<table, entity, target, carry, end, hold, history>>

-----------------------------------------------------------------------------
Handler(r) ==
  \/ CacheHit(r) \/ CacheMiss(r) \/ CacheFill(r)
  \/ \E n \in 1..MaxTokens : ReserveQuotaTokens(r, n) \/ IncrementQuotaCounter(r, n)
  \/ ReserveRejected(r) \/ Abandon(r)
  \/ \E n \in 0..MaxTokens : Finalize(r, n) \/ FinalizeCreditFailed(r, n)
  \/ GiveBack(r) \/ FinalizeDeferred(r) \/ FinalizeFailed(r)

SyncCustomerEntitlements(s) ==
  \/ \E e \in Ends : Upsert(s, e)
  \/ CacheDel(s) \/ CacheDelFailed(s)
  \/ MigrateRead(s) \/ MigrateFold(s) \/ MigrateCommit(s)
  \/ MigrateFailed(s) \/ MigrateDeadlock(s)

Next ==
  \/ \E r \in Requests : Handler(r)
  \/ \E s \in Syncs : SyncCustomerEntitlements(s)
  \/ CacheExpires \/ Crash
  \/ \E e \in Ends : Sweep(e)

Spec == Init /\ [][Next]_vars

-----------------------------------------------------------------------------
(* Properties                                                              *)

TypeOK ==
  /\ used \in [Ends -> Nat] /\ reserved \in [Ends -> Nat]
  /\ current \in Ends /\ cached \in Ends \cup {"none"}
  /\ sync \in [Syncs -> Migrating \cup {"new", "upserted", "carrying", "done"}]
  /\ target \in [Syncs -> Ends] /\ carry \in [Syncs -> Nat]
  /\ faults \in 0..MaxFaults
  /\ pc \in [Requests -> Active \cup {"new", "done"}]
  /\ end \in [Requests -> Ends]
  /\ hold \in [Requests -> 0..MaxTokens]
  /\ settled \in Nat /\ late \in [Syncs -> Nat] /\ moved \in [Syncs -> Nat]
  /\ dropped \in Nat /\ doubled \in Nat /\ loose \in Nat /\ unchecked \in Nat

\* The rows keep what was settled, however often rows are folded together,
\* deleted and created again by late finalizes.  A migration that commits can
\* lose no more than the tokens that came onto a row between its SUM and its
\* DELETE, and can count twice no more than the tokens another migration moved
\* after its SUM: nothing else makes the rows differ from what was settled.
UsageConserved ==
  /\ settled <= Sum(used) + dropped
  /\ Sum(used) <= settled + doubled

\* What is used and held exceeds the monthly limit by no more than was lost by
\* a migration (dropped), was held by a live request whose reservation was taken
\* from it (loose), or was never checked against all of it: reserved while rows
\* of two period ends were in use, added by embeddings, or used beyond the
\* estimate.  So whenever the rows have been folded together again, the limit
\* is enforced against everything used before, over any number of extensions.
QuotaKept ==
  settled + LiveTokens <= Limit + dropped + loose + unchecked

=============================================================================
