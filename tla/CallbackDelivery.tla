------------------------- MODULE CallbackDelivery -------------------------
(***************************************************************************)
(* How a settled debit reaches genfity-app.                                *)
(*                                                                         *)
(* recordAndFinalizeRuntime hands every debit to PostUsageDebitAsync, whose*)
(* goroutine posts it a few times and then, when the callback was built    *)
(* WithQueue, inserts it into the pending_callbacks table.  A retry worker *)
(* per gateway process lists the rows that are due, posts them one by one  *)
(* and then deletes, reschedules or parks each row.  An operator may also  *)
(* replay the usage ledger.  genfity-app is external: it records a debit   *)
(* once per request id, and its answer may be lost after it did.           *)
(*                                                                         *)
(* Posting and marking are separate steps, so goroutines, workers of two   *)
(* processes and crashes interleave between them.                          *)
(***************************************************************************)
EXTENDS Integers, Sequences, FiniteSets

CONSTANTS
  Debits,      \* settled debits, named by their request id
  Processes,   \* gateway processes, each with one retry worker
  Attempts,    \* usageDebitCallbackAttempts, 3 in the code
  MaxRetry,    \* worker.maxRetry, 24 in the code
  Batch,       \* worker.batch, 50 in the code
  Queue,       \* TRUE: the handlers' callback was built WithQueue
  MaxEvents    \* bound on crashes, failing statements and replayed entries,
               \* taken together

ASSUME CallbackAssumption ==
  /\ IsFiniteSet(Debits) /\ IsFiniteSet(Processes)
  /\ Attempts \in Nat \ {0} /\ MaxRetry \in Nat \ {0} /\ Batch \in Nat \ {0}
  /\ Queue \in BOOLEAN
  /\ MaxEvents \in Nat
  /\ "nobody" \notin Processes

VARIABLES
  poster,    \* the PostUsageDebitAsync goroutine of each debit
  owner,     \* the process that runs it, "nobody" when it has ended
  tries,     \* in-process attempts made so far
  status,    \* status column of the debit's row, "none" without a row
  attempts,  \* attempts column
  dueRows,   \* pending rows with next_attempt_at <= now(), oldest first
  batch,     \* per worker: the rows it listed, with the attempts it read
  reply,     \* per worker: the outcome of the post it has yet to mark
  app,       \* debits in genfity-app's ledger (external)
  events,    \* crashes, failed statements and replays so far
  posts      \* history: posts workers made for the debit, up to MaxRetry

goroutine == <<poster, owner, tries>>
table     == <<status, attempts, dueRows>>
worker    == <<batch, reply>>
vars      == <<goroutine, table, worker, app, events, posts>>

Statuses == {"none", "pending", "abandoned", "failed_permanent"}
Parked   == {"abandoned", "failed_permanent"}

Init ==
  /\ poster = [d \in Debits |-> "unsettled"]
  /\ owner = [d \in Debits |-> "nobody"]
  /\ tries = [d \in Debits |-> 0]
  /\ status = [d \in Debits |-> "none"]
  /\ attempts = [d \in Debits |-> 0]
  /\ dueRows = << >>
  /\ batch = [p \in Processes |-> << >>]
  /\ reply = [p \in Processes |-> "none"]
  /\ app = {}
  /\ events = 0
  /\ posts = [d \in Debits |-> 0]

\* What a POST to genfity-app may come to: accepted; accepted but the answer
\* was lost; 5xx, 429 or unreachable; any other 4xx.
Outcomes == {"ok", "lost", "retriable", "rejected"}

\* PostUsageDebit, seen from genfity-app: idempotent on the request id.
PostUsageDebit(d, outcome) ==
  app' = IF outcome \in {"ok", "lost"} THEN app \cup {d} ELSE app

\* One of the bounded events of the environment happens.
Event == events < MaxEvents /\ events' = events + 1

\* The due rows without that of d, which is among them at most once.
NotDue(d) ==
  LET at == {i \in DOMAIN dueRows : dueRows[i] = d}
      i  == CHOOSE j \in at : TRUE
  IN IF at = {} THEN dueRows
     ELSE SubSeq(dueRows, 1, i - 1) \o SubSeq(dueRows, i + 1, Len(dueRows))

-----------------------------------------------------------------------------
(* PostUsageDebitAsync                                                     *)

\* A settlement succeeded: its goroutine starts.
Settled(d, p) ==
  /\ poster[d] = "unsettled"
  /\ poster' = [poster EXCEPT ![d] = "posting"]
  /\ owner' = [owner EXCEPT ![d] = p]
  /\ UNCHANGED <<tries, table, worker, app, events, posts>>

\* One in-process attempt.  Any error counts alike; after the last one the
\* goroutine turns to the queue.
PostInProcess(d, outcome) ==
  /\ poster[d] = "posting"
  /\ PostUsageDebit(d, outcome)
  /\ tries' = [tries EXCEPT ![d] = @ + 1]
  /\ poster' = [poster EXCEPT ![d] =
       IF outcome = "ok" THEN "over"
       ELSE IF tries[d] + 1 < Attempts THEN "posting" ELSE "enqueuing"]
  /\ owner' = [owner EXCEPT ![d] = IF outcome = "ok" THEN "nobody" ELSE @]
  /\ UNCHANGED <<table, worker, events, posts>>

\* EnqueuePendingCallback: ON CONFLICT DO NOTHING, due at once.  Without a
\* queue the goroutine just returns.
EnqueuePendingCallback(d) ==
  /\ poster[d] = "enqueuing"
  /\ poster' = [poster EXCEPT ![d] = "over"]
  /\ owner' = [owner EXCEPT ![d] = "nobody"]
  /\ IF Queue /\ status[d] = "none"
     THEN /\ status' = [status EXCEPT ![d] = "pending"]
          /\ dueRows' = Append(dueRows, d)
     ELSE UNCHANGED <<status, dueRows>>
  /\ UNCHANGED <<tries, attempts, worker, app, events, posts>>

\* The insert failed: the debit is dropped with a log line.
EnqueueFailed(d) ==
  /\ Event
  /\ Queue
  /\ poster[d] = "enqueuing"
  /\ poster' = [poster EXCEPT ![d] = "dropped"]
  /\ owner' = [owner EXCEPT ![d] = "nobody"]
  /\ UNCHANGED <<tries, table, worker, app, posts>>

-----------------------------------------------------------------------------
(* CallbackRetryWorker                                                     *)

Prefix(s) == SubSeq(s, 1, IF Len(s) <= Batch THEN Len(s) ELSE Batch)

\* processBatch lists the due rows and remembers what it read.
ListDuePendingCallbacks(p) ==
  /\ batch[p] = << >> /\ dueRows # << >>
  /\ batch' = [batch EXCEPT ![p] =
       [i \in DOMAIN Prefix(dueRows) |->
          [debit |-> dueRows[i], attempts |-> attempts[dueRows[i]]]]]
  /\ UNCHANGED <<goroutine, table, reply, app, events, posts>>

\* deliver posts the first row of the batch.
Deliver(p, outcome) ==
  /\ batch[p] # << >> /\ reply[p] = "none"
  /\ LET d == Head(batch[p]).debit
     IN /\ PostUsageDebit(d, outcome)
        /\ posts' = [posts EXCEPT ![d] = IF @ < MaxRetry THEN @ + 1 ELSE @]
  /\ reply' = [reply EXCEPT ![p] = outcome]
  /\ UNCHANGED <<goroutine, table, batch, events>>

\* The worker is done with the first row of its batch.
NextRow(p) ==
  /\ batch' = [batch EXCEPT ![p] = Tail(@)]
  /\ reply' = [reply EXCEPT ![p] = "none"]

\* Mutant: gives up one attempt early.
GiveUpEarly(read) == read + 2 >= MaxRetry

\* The attempts read when the row was listed decide whether to give up.
GiveUp(read) == read + 1 >= MaxRetry

MarkCallbackSucceeded(p) ==
  /\ reply[p] = "ok"
  /\ LET d == Head(batch[p]).debit
     IN /\ status' = [status EXCEPT ![d] = "none"]
        /\ attempts' = [attempts EXCEPT ![d] = 0]
        /\ dueRows' = NotDue(d)
  /\ NextRow(p)
  /\ UNCHANGED <<goroutine, app, events, posts>>

\* Mutant: the row of a rejected callback is deleted.
MarkRejectedDeletes(p) ==
  /\ reply[p] \notin {"none", "ok"}
  /\ reply[p] = "rejected" \/ GiveUp(Head(batch[p]).attempts)
  /\ LET d == Head(batch[p]).debit
     IN /\ status' = [status EXCEPT ![d] = "none"]
        /\ attempts' = [attempts EXCEPT ![d] = 0]
        /\ dueRows' = NotDue(d)
  /\ NextRow(p)
  /\ UNCHANGED <<goroutine, app, events, posts>>

\* A rejected callback, and one that ran out of attempts, is parked, if its
\* row is still there.
MarkCallbackAbandoned(p) ==
  /\ reply[p] \notin {"none", "ok"}
  /\ reply[p] = "rejected" \/ GiveUp(Head(batch[p]).attempts)
  /\ LET d == Head(batch[p]).debit
     IN IF status[d] = "none"
        THEN UNCHANGED table
        ELSE /\ status' = [status EXCEPT ![d] =
                  IF reply[p] = "rejected" THEN "failed_permanent" ELSE "abandoned"]
             /\ attempts' = [attempts EXCEPT ![d] = @ + 1]
             /\ dueRows' = NotDue(d)
  /\ NextRow(p)
  /\ UNCHANGED <<goroutine, app, events, posts>>

\* Mutant: rescheduling forgets to count the attempt.
MarkCallbackRetryUncounted(p) ==
  /\ reply[p] \in {"lost", "retriable"} /\ ~GiveUp(Head(batch[p]).attempts)
  /\ dueRows' = NotDue(Head(batch[p]).debit)
  /\ NextRow(p)
  /\ UNCHANGED <<goroutine, status, attempts, app, events, posts>>

\* Anything else is rescheduled: the status is left alone, whatever it is.
MarkCallbackRetry(p) ==
  /\ reply[p] \in {"lost", "retriable"} /\ ~GiveUp(Head(batch[p]).attempts)
  /\ LET d == Head(batch[p]).debit
     IN /\ attempts' = [attempts EXCEPT ![d] = IF status[d] = "none" THEN @ ELSE @ + 1]
        /\ dueRows' = NotDue(d)
  /\ NextRow(p)
  /\ UNCHANGED <<goroutine, status, app, events, posts>>

\* A Mark* statement failed: the row stays as it is.
MarkFailed(p) ==
  /\ Event
  /\ reply[p] # "none"
  /\ NextRow(p)
  /\ UNCHANGED <<goroutine, table, app, posts>>

-----------------------------------------------------------------------------
(* Environment                                                             *)

\* The backoff of a rescheduled row ran out.
BecomeDue(d) ==
  /\ status[d] = "pending" /\ d \notin {dueRows[i] : i \in DOMAIN dueRows}
  /\ dueRows' = Append(dueRows, d)
  /\ UNCHANGED <<goroutine, status, attempts, worker, app, events, posts>>

\* A process dies with its goroutines and its worker's batch; its successor
\* starts with an empty one.
Crash(p) ==
  /\ Event
  /\ poster' = [d \in Debits |->
       IF owner[d] = p THEN "killed" ELSE poster[d]]
  /\ owner' = [d \in Debits |-> IF owner[d] = p THEN "nobody" ELSE owner[d]]
  /\ batch' = [batch EXCEPT ![p] = << >>]
  /\ reply' = [reply EXCEPT ![p] = "none"]
  /\ UNCHANGED <<tries, table, app, posts>>

\* ReplayUsageDebits posts one entry of the usage ledger; it does not look at
\* the queue.
ReplayUsageDebits(d, outcome) ==
  /\ Event
  /\ poster[d] # "unsettled"
  /\ PostUsageDebit(d, outcome)
  /\ UNCHANGED <<goroutine, table, worker, posts>>

-----------------------------------------------------------------------------
Goroutine(d) ==
  \/ \E o \in Outcomes : PostInProcess(d, o)
  \/ EnqueuePendingCallback(d) \/ EnqueueFailed(d)

Worker(p) ==
  \/ ListDuePendingCallbacks(p)
  \/ \E o \in Outcomes : Deliver(p, o)
  \/ MarkCallbackSucceeded(p) \/ MarkCallbackAbandoned(p)
  \/ MarkCallbackRetry(p) \/ MarkFailed(p)

Next ==
  \/ \E d \in Debits : Goroutine(d) \/ BecomeDue(d)
  \/ \E d \in Debits, p \in Processes : Settled(d, p)
  \/ \E p \in Processes : Worker(p) \/ Crash(p)
  \/ \E d \in Debits, o \in Outcomes : ReplayUsageDebits(d, o)

Spec == Init /\ [][Next]_vars

\* Goroutines run, the workers' tickers fire, and backoffs end.
FairSpec ==
  /\ Spec
  /\ \A d \in Debits : WF_vars(Goroutine(d)) /\ WF_vars(BecomeDue(d))
  /\ \A p \in Processes : WF_vars(Worker(p))

-----------------------------------------------------------------------------
(* Properties                                                              *)

TypeOK ==
  /\ poster \in [Debits -> {"unsettled", "posting", "enqueuing", "over", "dropped", "killed"}]
  /\ owner \in [Debits -> Processes \cup {"nobody"}]
  /\ tries \in [Debits -> 0..Attempts]
  /\ status \in [Debits -> Statuses]
  /\ attempts \in [Debits -> Nat]
  /\ dueRows \in Seq(Debits)
  /\ batch \in [Processes -> Seq([debit : Debits, attempts : Nat])]
  /\ reply \in [Processes -> Outcomes \cup {"none"}]
  /\ app \subseteq Debits
  /\ events \in 0..MaxEvents
  /\ posts \in [Debits -> 0..MaxRetry]

\* A debit whose goroutine ran to its end is in genfity-app's ledger or still
\* has a row, pending or parked for inspection: no order of posts, marks of two
\* workers, lost answers and worker crashes drops it.  (A goroutine whose insert
\* failed, or that was killed, did not run to its end.)
NoDebitForgotten ==
  \A d \in Debits : poster[d] = "over" => d \in app \/ status[d] # "none"

\* A row is given up as "abandoned" only after MaxRetry posts of it, although
\* the worker decides on the attempts it read before it posted and another
\* worker may have counted in between.
AbandonedAfterMaxRetry ==
  \A d \in Debits : status[d] = "abandoned" => posts[d] >= MaxRetry

\* Every queued callback leaves the pending state, delivered or parked, even
\* when genfity-app never comes back and a worker crashes on the way.
QueueDrains ==
  \A d \in Debits : status[d] = "pending" ~> status[d] # "pending"

-----------------------------------------------------------------------------
\* The same for both callbacks the program builds: a debit that genfity-app does
\* not have and no row remembers was posted Attempts times by its goroutine, and
\* there was no queue to put it in, or its insert failed.  With a queue this is
\* NoDebitForgotten.
ForgottenOnlyUnqueued ==
  \A d \in Debits : poster[d] \in {"over", "dropped"} =>
    \/ d \in app \/ status[d] # "none"
    \/ tries[d] = Attempts /\ (Queue => poster[d] = "dropped")

\* Its inductive strengthening: an acknowledgement that a worker has yet to act
\* on is for a debit genfity-app has recorded, so the row may be deleted whatever
\* happened to it in the meantime; and a goroutine turns to the queue only after
\* its last attempt.
AcknowledgedInv ==
  /\ ForgottenOnlyUnqueued
  /\ \A d \in Debits : poster[d] = "enqueuing" => tries[d] = Attempts
  /\ \A p \in Processes :
       /\ reply[p] # "none" => batch[p] # << >>
       /\ reply[p] = "ok" => Head(batch[p]).debit \in app

=============================================================================
