------------------------- MODULE WalletSettlement -------------------------
(***************************************************************************)
(* The prepaid wallet of one customer and the requests that spend it.      *)
(*                                                                         *)
(* The wallet is the customer's single active customer_entitlements row of *)
(* a prepaid schema: credit_package (credit_balance and                    *)
(* credit_balance_reserved) or payg_topup (payg_usd_balance and            *)
(* payg_usd_balance_reserved).  The two schemas run the same statements on *)
(* different columns, so one model stands for both.                        *)
(*                                                                         *)
(* A request is one ChatCompletions or Messages handler run: it reserves   *)
(* an estimate, calls the router, writes the usage ledger row and then     *)
(* finalizes, i.e. gives the estimate back and debits the actual charge.   *)
(* Every database statement is one atomic step; handlers, asynchronous     *)
(* settlement goroutines, the sweeper and the balance sync interleave      *)
(* between statements, and the process may crash between any two.          *)
(***************************************************************************)
EXTENDS Integers, FiniteSets

CONSTANTS
  Requests,      \* the chat and messages requests of this customer
  Routes,        \* handlers in use, a subset of {"chat", "messages"}
  Faults,        \* statement failures considered: "record" (the ledger insert
                 \* fails), "finalize" (a finalize fails before it is applied),
                 \* "lost_reply" (a statement is applied but reported failed)
  Grants,        \* initial balances
  Pushes,        \* balances genfity-app may push while requests run
  LegacyCosts,   \* costs an embeddings request may debit; none for payg_topup
  MaxHold,       \* largest estimate a request reserves
  MaxCharge,     \* largest actual charge, which may exceed the estimate
  StaleAfter,    \* sweeper threshold, in ticks (5 minutes in main.go)
  MaxCrashes     \* bound on process crashes

ASSUME WalletAssumption ==
  /\ IsFiniteSet(Requests)
  /\ Routes \subseteq {"chat", "messages"}
  /\ Faults \subseteq {"record", "finalize", "lost_reply"}
  /\ Grants \subseteq Nat /\ Pushes \subseteq Nat /\ LegacyCosts \subseteq Nat
  /\ MaxHold \in Nat /\ MaxCharge \in Nat
  /\ StaleAfter \in Nat /\ MaxCrashes \in Nat

VARIABLES
  balance,   \* the balance column
  reserved,  \* the reserved column
  idle,      \* ticks since the row's updated_at, saturating past StaleAfter
  pc,        \* where each request's handler or settlement goroutine is
  hold,      \* the reservation struct the handler carries (its amount)
  due,       \* the charge of the settlement in progress
  armed,     \* TRUE while settled = false, so the deferred finalize will run
  age,       \* ticks since the reservation was taken, saturating likewise
  ledger,    \* amount of the request's usage_ledger row, 0 when none
  crashes,   \* number of crashes so far
  \* History variables, read by the properties only.
  held,      \* what the request reserved and has not released
  spent,     \* amount actually taken from the balance for the request
  posted,    \* amount handed to PostUsageDebitAsync for the request
  orphaned,  \* what `reserved' may contain that nobody will release
  excess,    \* what was released though a live request may still own it
  exposed    \* what left the balance without having been reserved

row   == <<balance, reserved, idle>>
local == <<hold, due, armed>>
blame == <<orphaned, excess, exposed>>
hist  == <<held, spent, posted, blame>>
vars  == <<row, pc, local, age, ledger, crashes, hist>>

(***************************************************************************)
(* calling    the upstream call is in progress                             *)
(* recording  recordUsage is about to insert the ledger row                *)
(* finalizing the settlement is about to be applied to the row             *)
(* releasing  recordUsage failed; the empty settlement is about to be      *)
(*            applied                                                      *)
(* deferred   the handler returned with settled = false; its deferred      *)
(*            finalize is about to run                                     *)
(* done       the handler and its settlement are over                      *)
(* stranded   over, but the last finalize failed                           *)
(* crashed    killed with the process                                      *)
(***************************************************************************)
Live     == {"calling", "recording", "finalizing", "releasing", "deferred"}
Terminal == {"done", "rejected", "stranded", "crashed"}
PC       == Live \cup Terminal \cup {"new"}

Init ==
  /\ balance \in Grants /\ reserved = 0 /\ idle = 0
  /\ pc = [r \in Requests |-> "new"]
  /\ hold = [r \in Requests |-> 0]
  /\ due = [r \in Requests |-> 0]
  /\ armed = [r \in Requests |-> FALSE]
  /\ age = [r \in Requests |-> 0]
  /\ ledger = [r \in Requests |-> 0]
  /\ crashes = 0
  /\ held = [r \in Requests |-> 0]
  /\ spent = [r \in Requests |-> 0]
  /\ posted = [r \in Requests |-> 0]
  /\ orphaned = 0 /\ excess = 0 /\ exposed = 0

\* Mutant: a debit without the LEAST cap.
LeastUncapped(a, b) == a

Goto(r, label) == pc' = [pc EXCEPT ![r] = label]
Least(a, b)    == IF a <= b THEN a ELSE b
Monus(a, b)    == IF a <= b THEN 0 ELSE a - b

\* The sum of an amount per request, as the number of its units.
Units(f) == {u \in Requests \X (1..(MaxHold + MaxCharge)) : u[2] <= f[u[1]]}
Total(f) == Cardinality(Units(f))
LiveHold == Total(held)

-----------------------------------------------------------------------------
(* Reserving: ReserveRequestCredits / ReservePaygUsdBalance                *)

\* Mutant: the WHERE clause forgets what is already reserved.
ReserveFitsBalanceOnly(a) == balance >= a

\* The guarded UPDATE: it matches the row only when the unreserved balance
\* covers the amount.
ReserveFits(a) == balance - reserved >= a

\* The reservation succeeds; the deferred finalize is now armed.
Reserve(r, a) ==
  /\ pc[r] = "new" /\ ReserveFits(a)
  /\ reserved' = reserved + a
  /\ idle' = 0
  /\ hold' = [hold EXCEPT ![r] = a]
  /\ held' = [held EXCEPT ![r] = a]
  /\ age' = [age EXCEPT ![r] = 0]
  /\ armed' = [armed EXCEPT ![r] = TRUE]
  /\ Goto(r, "calling")
  /\ UNCHANGED <<balance, due, ledger, crashes, spent, posted, blame>>

\* A zero-priced model reserves nothing, but still needs a positive balance.
ReserveFree(r) ==
  /\ pc[r] = "new" /\ balance > 0
  /\ hold' = [hold EXCEPT ![r] = 0]
  /\ age' = [age EXCEPT ![r] = 0]
  /\ armed' = [armed EXCEPT ![r] = TRUE]
  /\ Goto(r, "calling")
  /\ UNCHANGED <<row, due, ledger, crashes, hist>>

\* 402 insufficient balance, or a failed statement: nothing was reserved.
ReserveRejected(r) ==
  /\ pc[r] = "new"
  /\ Goto(r, "rejected")
  /\ UNCHANGED <<row, local, age, ledger, crashes, hist>>

\* The UPDATE committed but its reply was lost: the handler answers 500 and
\* forgets a reservation that is in the row.
ReserveReplyLost(r, a) ==
  /\ "lost_reply" \in Faults
  /\ pc[r] = "new" /\ ReserveFits(a)
  /\ reserved' = reserved + a
  /\ idle' = 0
  /\ orphaned' = orphaned + a
  /\ Goto(r, "rejected")
  /\ UNCHANGED <<balance, local, age, ledger, crashes, held, spent, posted,
                 excess, exposed>>

-----------------------------------------------------------------------------
(* The upstream call and what the handler does with its outcome            *)

\* A charge the settlement may carry: none for a free model; nothing bounds it
\* by the estimate, which guesses the completion's length.
Chargeable(r, d) == d > 0 => hold[r] > 0

\* Upstream status below 400.  Streaming settles at once on a detached
\* context, non-streaming in a detached goroutine; both leave settled = true
\* whatever the settlement returns.  d is what decideSettlementBilling and the
\* pricing make of the body: 0 for a failed, partial or empty completion.
Answered(r, d) ==
  /\ pc[r] = "calling" /\ Chargeable(r, d)
  /\ due' = [due EXCEPT ![r] = d]
  /\ armed' = [armed EXCEPT ![r] = FALSE]
  /\ Goto(r, "recording")
  /\ UNCHANGED <<row, hold, age, ledger, crashes, hist>>

\* Upstream status 400 or above.  ChatCompletions settles asynchronously with
\* settled = true; Messages settles on the request context and sets settled
\* only when that succeeded.  d is positive only for a relayed 499 that
\* carries usage.
Refused(r, route, d) ==
  /\ pc[r] = "calling" /\ Chargeable(r, d)
  /\ due' = [due EXCEPT ![r] = d]
  /\ armed' = [armed EXCEPT ![r] = (route = "messages")]
  /\ Goto(r, "recording")
  /\ UNCHANGED <<row, hold, age, ledger, crashes, hist>>

\* The call failed because the client left: recordAndFinalizeClientDisconnect
\* records status 499 without a body, hence without a charge.
Disconnected(r) ==
  /\ pc[r] = "calling"
  /\ due' = [due EXCEPT ![r] = 0]
  /\ armed' = [armed EXCEPT ![r] = FALSE]
  /\ Goto(r, "recording")
  /\ UNCHANGED <<row, hold, age, ledger, crashes, hist>>

\* No router client, or the call failed: all_candidates_failed.  There is no
\* ledger row and the finalize runs on the request context.
Unreachable(r) ==
  /\ pc[r] = "calling"
  /\ due' = [due EXCEPT ![r] = 0]
  /\ Goto(r, "finalizing")
  /\ UNCHANGED <<row, hold, armed, age, ledger, crashes, hist>>

\* Mutant: an early return without the deferred finalize.
AbortedWithoutDefer(r) ==
  /\ pc[r] = "calling"
  /\ Goto(r, "done")
  /\ held' = [held EXCEPT ![r] = 0]
  /\ UNCHANGED <<row, local, age, ledger, crashes, spent, posted, blame>>

\* The handler returned early or panicked before it settled anything.
Aborted(r) ==
  /\ pc[r] = "calling"
  /\ Goto(r, "deferred")
  /\ UNCHANGED <<row, local, age, ledger, crashes, hist>>

-----------------------------------------------------------------------------
(* Settlement: recordUsage, then finalizeRuntimeReservation                *)

RecordUsage(r) ==
  /\ pc[r] = "recording"
  /\ ledger' = [ledger EXCEPT ![r] = due[r]]
  /\ Goto(r, "finalizing")
  /\ UNCHANGED <<row, local, age, crashes, hist>>

\* Mutant: the error of the ledger insert is ignored.
RecordUsageErrorIgnored(r) ==
  /\ "record" \in Faults
  /\ pc[r] = "recording"
  /\ Goto(r, "finalizing")
  /\ UNCHANGED <<row, local, age, ledger, crashes, hist>>

\* Without a ledger row nothing is charged: the empty settlement follows.
RecordUsageFailed(r) ==
  /\ "record" \in Faults
  /\ pc[r] = "recording"
  /\ due' = [due EXCEPT ![r] = 0]
  /\ Goto(r, "releasing")
  /\ UNCHANGED <<row, hold, armed, age, ledger, crashes, hist>>

\* FinalizeRequestCredits / FinalizePaygUsdBalance: release the hold, floored
\* at zero, and debit what the balance can bear.  A free request has nothing
\* to finalize.  A finalize repeated by a request that already released its hold
\* releases somebody else's, and a charge above the hold is paid from credits
\* nobody reserved.
ApplyFinalize(r, actual) ==
  /\ reserved' = Monus(reserved, hold[r])
  /\ balance' = balance - Least(actual, balance)
  /\ idle' = IF hold[r] > 0 THEN 0 ELSE idle
  /\ held' = [held EXCEPT ![r] = 0]
  /\ spent' = [spent EXCEPT ![r] = @ + Least(actual, balance)]
  /\ excess' = excess + Monus(hold[r], held[r])
  /\ exposed' = exposed + Monus(actual, hold[r])

\* The deferred function checks `settled' when the handler returns.
HandlerReturns(r, settlementOk) ==
  IF settlementOk \/ ~armed[r]
  THEN pc' = [pc EXCEPT ![r] = "done"]
  ELSE pc' = [pc EXCEPT ![r] = "deferred"]

\* The settlement went through: the debit is handed to the callback.
Finalize(r) ==
  /\ pc[r] = "finalizing"
  /\ ApplyFinalize(r, due[r])
  /\ HandlerReturns(r, TRUE)
  /\ posted' = [posted EXCEPT ![r] = due[r]]
  /\ UNCHANGED <<local, age, ledger, crashes, orphaned>>

\* The empty settlement after a failed recordUsage; the settlement as a whole
\* still returns recordUsage's error.
Release(r) ==
  /\ pc[r] = "releasing"
  /\ ApplyFinalize(r, 0)
  /\ HandlerReturns(r, FALSE)
  /\ UNCHANGED <<local, age, ledger, crashes, posted, orphaned>>

\* The deferred finalize, on a background context; its result is ignored.
DeferredFinalize(r) ==
  /\ pc[r] = "deferred"
  /\ ApplyFinalize(r, 0)
  /\ Goto(r, "done")
  /\ UNCHANGED <<local, age, ledger, crashes, posted, orphaned>>

\* A finalize that failed before it was applied.  The handler's deferred
\* finalize gets a second chance when it is still armed; otherwise the hold
\* stays behind in the row.
FinalizeFailed(r) ==
  /\ "finalize" \in Faults
  /\ pc[r] \in {"finalizing", "releasing", "deferred"}
  /\ IF pc[r] # "deferred" /\ armed[r]
     THEN Goto(r, "deferred") /\ UNCHANGED hist
     ELSE /\ Goto(r, "stranded")
          /\ held' = [held EXCEPT ![r] = 0]
          /\ orphaned' = orphaned + held[r]
          /\ UNCHANGED <<spent, posted, excess, exposed>>
  /\ UNCHANGED <<row, local, age, ledger, crashes>>

\* A finalize that was applied but reported as failed.
FinalizeReplyLost(r) ==
  /\ "lost_reply" \in Faults
  /\ pc[r] \in {"finalizing", "releasing"}
  /\ ApplyFinalize(r, IF pc[r] = "finalizing" THEN due[r] ELSE 0)
  /\ HandlerReturns(r, FALSE)
  /\ UNCHANGED <<local, age, ledger, crashes, posted, orphaned>>

-----------------------------------------------------------------------------
(* The environment of the requests                                         *)

\* The process dies, or shuts down without waiting for the settlement
\* goroutines: every live request stops where it is.
Crash ==
  /\ crashes < MaxCrashes
  /\ \E r \in Requests : pc[r] \in Live
  /\ crashes' = crashes + 1
  /\ pc' = [r \in Requests |-> IF pc[r] \in Live THEN "crashed" ELSE pc[r]]
  /\ held' = [r \in Requests |-> 0]
  /\ orphaned' = orphaned + LiveHold
  /\ UNCHANGED <<row, local, age, ledger, spent, posted, excess, exposed>>

\* What the live requests hold that took their reservation longer ago than the
\* sweeper's threshold.
StaleHold == Total([r \in Requests |-> IF age[r] > StaleAfter THEN held[r] ELSE 0])

\* Mutant: the sweep ignores updated_at.
SweepAnyAge ==
  /\ reserved > 0
  /\ reserved' = 0
  /\ idle' = 0
  /\ orphaned' = 0
  /\ excess' = excess + StaleHold
  /\ UNCHANGED <<balance, pc, local, age, ledger, crashes, held, spent, posted,
                 exposed>>

\* Mutant: the sweep touches the row but clears the other schema's column.
SweepOtherColumn ==
  /\ reserved > 0 /\ idle > StaleAfter
  /\ idle' = 0
  /\ UNCHANGED <<balance, reserved, pc, local, age, ledger, crashes, hist>>

\* ReleaseStaleReservations, run every minute by the sweeper goroutine: a row
\* untouched for longer than the threshold loses all it has reserved, the holds
\* of requests that are still running included.
Sweep ==
  /\ reserved > 0 /\ idle > StaleAfter
  /\ reserved' = 0
  /\ idle' = 0
  /\ orphaned' = 0
  /\ excess' = excess + StaleHold
  /\ UNCHANGED <<balance, pc, local, age, ledger, crashes, held, spent, posted,
                 exposed>>

\* UpsertBalanceSnapshot and the entitlement upsert overwrite the balance with
\* genfity-app's figure and leave the reserved column alone.
SyncBalance(b) ==
  /\ balance' = b
  /\ idle' = 0
  /\ exposed' = exposed + Monus(balance, b)
  /\ UNCHANGED <<reserved, pc, local, age, ledger, crashes, held, spent, posted,
                 orphaned, excess>>

\* Mutant: the legacy debit forgets what is reserved.
DebitReservedCredits(d) ==
  /\ d > 0 /\ balance >= d
  /\ balance' = Monus(balance, d)
  /\ idle' = 0
  /\ UNCHANGED <<reserved, pc, local, age, ledger, crashes, hist>>

\* DebitCreditBalance: an embeddings request that cost something debits the
\* credit_package row after the call, without a reservation.  The WHERE clause
\* takes only what nobody reserved; without a match the caller ignores
\* ErrNotFound and nothing is debited.
DebitCreditBalance(d) ==
  /\ d > 0 /\ Monus(balance, reserved) >= d
  /\ balance' = Monus(balance, d)
  /\ idle' = 0
  /\ UNCHANGED <<reserved, pc, local, age, ledger, crashes, hist>>

\* Time passes.  Nothing ends a request before the sweeper's threshold: the
\* router client's timeout is longer by default, and a client that stops reading
\* keeps a handler writing for ever.
Tick ==
  /\ idle' = IF idle > StaleAfter THEN idle ELSE idle + 1
  /\ age' = [r \in Requests |-> IF held[r] > 0 /\ age[r] <= StaleAfter
                                THEN age[r] + 1 ELSE age[r]]
  /\ UNCHANGED <<balance, reserved, pc, local, ledger, crashes, hist>>

-----------------------------------------------------------------------------
Upstream(r) ==
  \/ \E d \in 0..MaxCharge : Answered(r, d)
  \/ \E route \in Routes, d \in 0..MaxCharge : Refused(r, route, d)
  \/ Disconnected(r) \/ Unreachable(r) \/ Aborted(r)

Settle(r) ==
  \/ RecordUsage(r) \/ RecordUsageFailed(r)
  \/ Finalize(r) \/ Release(r) \/ DeferredFinalize(r)
  \/ FinalizeFailed(r) \/ FinalizeReplyLost(r)

Admit(r) ==
  \/ \E a \in 1..MaxHold : Reserve(r, a) \/ ReserveReplyLost(r, a)
  \/ ReserveFree(r) \/ ReserveRejected(r)

Next ==
  \/ \E r \in Requests : Admit(r) \/ Upstream(r) \/ Settle(r)
  \/ Crash \/ Sweep \/ Tick
  \/ \E b \in Pushes : SyncBalance(b)
  \/ \E d \in LegacyCosts : DebitCreditBalance(d)

Spec == Init /\ [][Next]_vars

\* Time passes and the sweeper goroutine keeps ticking.  Nothing obliges a
\* client to send or to read, genfity-app to push, or a handler to end.
FairSpec == Spec /\ WF_vars(Tick) /\ WF_vars(Sweep)

-----------------------------------------------------------------------------
(* Properties                                                              *)

TypeOK ==
  /\ balance \in Nat /\ reserved \in Nat /\ idle \in 0..(StaleAfter + 1)
  /\ pc \in [Requests -> PC]
  /\ hold \in [Requests -> 0..MaxHold]
  /\ due \in [Requests -> 0..MaxCharge]
  /\ armed \in [Requests -> BOOLEAN]
  /\ age \in [Requests -> 0..(StaleAfter + 1)]
  /\ ledger \in [Requests -> 0..MaxCharge]
  /\ crashes \in 0..MaxCrashes
  /\ held \in [Requests -> 0..MaxHold]
  /\ spent \in [Requests -> Nat]
  /\ posted \in [Requests -> 0..MaxCharge]
  /\ orphaned \in Nat /\ excess \in Nat /\ exposed \in Nat

\* What live requests have reserved is in the reserved column, except for what
\* two things took from it: the sweeper, and only from requests whose own
\* reservation is older than the threshold; and a finalize that a request
\* repeats, which takes at most the amount it reserved.  No other request's
\* finalize (whose GREATEST(reserved - x, 0) cannot tell whose hold it
\* releases), no push and no legacy debit takes anything.
HoldsCovered == LiveHold <= reserved + excess

\* What main.go says of the sweeper and postgres_store.go of the statement:
\* what the sweeper releases is orphaned by definition, so a live request keeps
\* what it reserved.
HoldsUntouched == LiveHold <= reserved

\* Every way out of a handler gives its hold back: the reserved column holds
\* nothing but what live requests reserved and what a crash, a failed finalize
\* or a lost reply orphaned since the last sweep.
NoLeak == reserved <= LiveHold + orphaned

\* The same credit is never promised twice: the reserved column exceeds the
\* balance by no more than the charges that overran their estimates and the
\* pushes that lowered the balance under running requests.  Neither a sweep of
\* a live hold, nor a repeated finalize, nor a legacy debit adds to that.
Solvent == reserved <= balance + exposed

\* No debit without a ledger row that accounts for it, whatever fails between
\* recordUsage and the finalize, and however often a finalize is repeated.
DebitRecorded == \A r \in Requests : spent[r] <= ledger[r]

\* What genfity-app was told but the wallet did not pay, because
\* FinalizeRequestCredits hit its LEAST(actual, balance) cap.
Shortfall == [r \in Requests |-> Monus(posted[r], spent[r])]
Unpaid    == Total(Shortfall)

\* Genfity-app is told what the wallet paid, up to what overran the estimates,
\* was pushed away or was released too early: without these the LEAST cap is
\* never hit, and with them it never costs more than they put at risk.
BilledInFull == Unpaid <= exposed + excess

\* A finalize repeated for a reservation that is already released changes
\* nothing (UsageService: "a no-op the second time (GREATEST(..., 0) guards)").
RepeatFinalizeIsNoOp ==
  [][\A r \in Requests :
       (pc[r] = "deferred" /\ pc'[r] = "done" /\ hold[r] > 0 /\ held[r] = 0)
         => reserved' = reserved]_vars

\* Nothing touches the row on behalf of a new request or of genfity-app.
Undisturbed ==
  /\ \A r \in Requests : ~Admit(r)
  /\ \A b \in Pushes : ~SyncBalance(b)
  /\ \A d \in LegacyCosts : ~DebitCreditBalance(d)

\* What no live request holds any more does not stay reserved: once the row is
\* left alone, the sweeper gives back what a crash, a failed finalize or a lost
\* reply left in it, whatever happened before and whether or not the handlers
\* still running ever end.
OrphansReleased ==
  <>[][Undisturbed]_vars =>
    ((reserved > LiveHold) ~> (reserved <= LiveHold))

-----------------------------------------------------------------------------
(* Inductive strengthenings of the safety properties                       *)

\* Nothing is spent before the ledger row is written, and the settlement that
\* is about to be applied never exceeds that row.
DebitInv ==
  \A r \in Requests :
    /\ spent[r] <= ledger[r]
    /\ pc[r] \in {"new", "calling", "recording", "finalizing"} => spent[r] = 0
    /\ pc[r] = "finalizing" => due[r] <= ledger[r]

\* A request that has not finalized owns all it reserved, one that is over owns
\* nothing, and the row was last touched no earlier than any live reservation
\* was taken.
OwnInv ==
  \A r \in Requests :
    /\ pc[r] \in {"calling", "recording", "finalizing", "releasing"}
         => held[r] = hold[r]
    /\ pc[r] = "deferred" => held[r] \in {0, hold[r]}
    /\ pc[r] \notin Live => held[r] = 0
    /\ held[r] > 0 => idle <= age[r]
    /\ posted[r] > 0 => pc[r] \in Terminal

\* What live requests hold and what was not paid is in the reserved column, and
\* in the balance, up to what was released too early or exposed.
WorthInv ==
  /\ LiveHold + Unpaid <= reserved + excess + exposed
  /\ LiveHold + Unpaid <= balance + excess + exposed

\* All that speaks of sums.
SumsInv == HoldsCovered /\ NoLeak /\ Solvent /\ BilledInFull /\ WorthInv
=============================================================================
