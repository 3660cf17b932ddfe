---------------------------- MODULE UsageRollup ----------------------------
(***************************************************************************)
(* RollupAndPruneUsage: days older than the retention are summed up into   *)
(* usage_daily_rollup and their raw rows deleted, one transaction per day, *)
(* oldest first, while requests append rows.  The job is started by an     *)
(* HTTP call, so several may run at the same time.                         *)
(*                                                                         *)
(* The transactions run at READ COMMITTED: every statement sees what is    *)
(* committed when it begins, and an upsert of a row that another           *)
(* transaction has written waits for that transaction and then applies     *)
(* what it had computed before.                                            *)
(***************************************************************************)
EXTENDS UsageReports

CONSTANTS
  Jobs,        \* calls of the maintenance endpoint that may overlap
  Retentions,  \* retention_days the callers pass
  MaxLag,      \* days by which a row's insert may trail its started_at
  MaxRows,     \* bound on the requests
  MaxRuns,     \* bound on the calls
  MaxAborts    \* bound on failing transactions and crashes

\* The handler refuses retention_days below 1.  A request and its settlement
\* take minutes, so its row belongs to the current day or the one before.
ASSUME RollupAssumption ==
  /\ Retentions \subseteq Nat \ {0} /\ MaxLag \in Nat
  /\ \A n \in Retentions : MaxLag <= n
  /\ MaxDay \in Nat \ {0} /\ MaxRows \in Nat /\ MaxRuns \in Nat /\ MaxAborts \in Nat

VARIABLES
  today,      \* the current UTC day
  pc, todo,   \* of each job: where it is, and the days it still has to do
  dry,        \* its dry_run
  sums, gone, \* of its open transaction: the upserted cells, the deleted rows
  runs, aborts,
  served      \* every row ever appended, read by the properties only

job    == <<pc, todo, dry, sums, gone>>
bounds == <<runs, aborts>>
vars   == <<ledger, rollup, today, job, bounds, served>>

NoSums == [g \in Dims |-> Zero]

Init ==
  /\ ledger = {} /\ rollup = EmptyRollup /\ served = {}
  /\ today = 1
  /\ pc = [j \in Jobs |-> "idle"] /\ todo = [j \in Jobs |-> {}]
  /\ dry = [j \in Jobs |-> FALSE]
  /\ sums = [j \in Jobs |-> NoSums] /\ gone = [j \in Jobs |-> {}]
  /\ runs = 0 /\ aborts = 0

RowsOf(d) == {r \in ledger : DayOf(r) = d}

\* The day a job is at: the days it listed are done oldest first.
DayAt(j) == Min(todo[j])

-----------------------------------------------------------------------------
(* Requests and the clock                                                  *)

AppendUsage(t, g) ==
  /\ Cardinality(served) < MaxRows
  /\ LET n == Cardinality(served) + 1
         r == [id |-> n, t |-> t, dims |-> g, tokens |-> n]
     IN ledger' = ledger \cup {r} /\ served' = served \cup {r}
  /\ UNCHANGED <<rollup, today, job, bounds>>

Midnight ==
  /\ today < MaxDay
  /\ today' = today + 1
  /\ UNCHANGED <<ledger, rollup, job, bounds, served>>

-----------------------------------------------------------------------------
(* RollupAndPruneUsage                                                     *)

\* Mutant: the first day of the window is pruned, too.
EligibleOneMore(d, retention) == d <= today - retention

\* Strictly before the start of (today - retention).
Eligible(d, retention) == d < today - retention

\* The days to do are listed once.
ListDays(j, retention, dryRun) ==
  /\ pc[j] = "idle" /\ runs < MaxRuns
  /\ runs' = runs + 1
  /\ dry' = [dry EXCEPT ![j] = dryRun]
  /\ LET days == {d \in Days : RowsOf(d) # {} /\ Eligible(d, retention)}
     IN /\ todo' = [todo EXCEPT ![j] = days]
        /\ pc' = [pc EXCEPT ![j] = IF days = {} THEN "idle" ELSE "begin"]
  /\ UNCHANGED <<ledger, rollup, today, sums, gone, aborts, served>>

\* rollupOneDay: the SELECT of the upsert.
SumDay(j) ==
  /\ pc[j] = "begin"
  /\ sums' = [sums EXCEPT ![j] =
                [g \in Dims |-> Aggregate({r \in RowsOf(DayAt(j)) : r.dims = g})]]
  /\ pc' = [pc EXCEPT ![j] = "summed"]
  /\ UNCHANGED <<ledger, rollup, today, todo, dry, gone, bounds, served>>

\* Its INSERT ... ON CONFLICT: waits while another transaction has a cell of it.
UpsertDay(j) ==
  /\ pc[j] = "summed"
  /\ \A k \in Jobs \ {j} :
       pc[k] \in {"written", "pruned"} /\ DayAt(k) = DayAt(j) =>
         \A g \in Dims : sums[j][g] = Zero \/ sums[k][g] = Zero
  /\ pc' = [pc EXCEPT ![j] = "written"]
  /\ UNCHANGED <<ledger, rollup, today, todo, dry, sums, gone, bounds, served>>

\* Mutant: the DELETE runs outside the transaction.
PruneDayAtOnce(j) ==
  /\ pc[j] = "written"
  /\ ledger' = IF dry[j] THEN ledger ELSE ledger \ RowsOf(DayAt(j))
  /\ pc' = [pc EXCEPT ![j] = "pruned"]
  /\ UNCHANGED <<rollup, today, todo, dry, sums, gone, bounds, served>>

\* The DELETE; a dry run keeps the rows.
PruneDay(j) ==
  /\ pc[j] = "written"
  /\ gone' = [gone EXCEPT ![j] = IF dry[j] THEN {} ELSE RowsOf(DayAt(j))]
  /\ pc' = [pc EXCEPT ![j] = "pruned"]
  /\ UNCHANGED <<ledger, rollup, today, todo, dry, sums, bounds, served>>

\* DO UPDATE: the cell is overwritten; cells without raw rows are left alone.
Upserted(old, new) == [g \in Dims |-> IF new[g] = Zero THEN old[g] ELSE new[g]]

\* Mutant: the day is overwritten as a whole.
CommitWholeDay(j) ==
  /\ pc[j] = "pruned"
  /\ rollup' = [rollup EXCEPT ![DayAt(j)] = sums[j]]
  /\ ledger' = ledger \ gone[j]
  /\ todo' = [todo EXCEPT ![j] = @ \ {DayAt(j)}]
  /\ pc' = [pc EXCEPT ![j] = IF todo[j] = {DayAt(j)} THEN "idle" ELSE "begin"]
  /\ sums' = [sums EXCEPT ![j] = NoSums] /\ gone' = [gone EXCEPT ![j] = {}]
  /\ UNCHANGED <<today, dry, bounds, served>>

CommitDay(j) ==
  /\ pc[j] = "pruned"
  /\ rollup' = [rollup EXCEPT ![DayAt(j)] = Upserted(@, sums[j])]
  /\ ledger' = ledger \ gone[j]
  /\ todo' = [todo EXCEPT ![j] = @ \ {DayAt(j)}]
  /\ pc' = [pc EXCEPT ![j] = IF todo[j] = {DayAt(j)} THEN "idle" ELSE "begin"]
  /\ sums' = [sums EXCEPT ![j] = NoSums] /\ gone' = [gone EXCEPT ![j] = {}]
  /\ UNCHANGED <<today, dry, bounds, served>>

\* A statement or the process fails: the open transaction is rolled back and the
\* days not done stay for the next call.
Abort(j) ==
  /\ pc[j] # "idle" /\ aborts < MaxAborts
  /\ aborts' = aborts + 1
  /\ pc' = [pc EXCEPT ![j] = "idle"] /\ todo' = [todo EXCEPT ![j] = {}]
  /\ sums' = [sums EXCEPT ![j] = NoSums] /\ gone' = [gone EXCEPT ![j] = {}]
  /\ UNCHANGED <<ledger, rollup, today, dry, runs, served>>

Next ==
  \/ \E t \in (2 * today - 2 * MaxLag)..(2 * today + 1), g \in Dims :
       t >= 2 /\ AppendUsage(t, g)
  \/ Midnight
  \/ \E j \in Jobs :
       \/ \E n \in Retentions, b \in BOOLEAN : ListDays(j, n, b)
       \/ SumDay(j) \/ UpsertDay(j) \/ PruneDay(j) \/ CommitDay(j) \/ Abort(j)

Spec == Init /\ [][Next]_vars

-----------------------------------------------------------------------------
(* Properties                                                              *)

Rows == [id : 1..MaxRows, t : 2..(2 * MaxDay + 1), dims : Dims, tokens : 1..MaxRows]
Measures == [requests : Nat, tokens : Nat]

\* The variables have the types the code gives them; no sum goes beyond what was
\* served.
TypeOK ==
  /\ served \subseteq Rows /\ ledger \subseteq served
  /\ rollup \in [Days -> [Dims -> Measures]]
  /\ \A d \in Days, g \in Dims : rollup[d][g].requests <= Cardinality(served)
  /\ today \in Days
  /\ pc \in [Jobs -> {"idle", "begin", "summed", "written", "pruned"}]
  /\ \A j \in Jobs : todo[j] \in SUBSET Days /\ (pc[j] = "idle" <=> todo[j] = {})
  /\ dry \in [Jobs -> BOOLEAN]
  /\ sums \in [Jobs -> [Dims -> Measures]] /\ gone \in [Jobs -> SUBSET ledger]
  /\ runs \in 0..MaxRuns /\ aborts \in 0..MaxAborts

\* The same reports over a ledger that was never pruned.
Full == INSTANCE UsageReports WITH ledger <- served, rollup <- EmptyRollup

\* A report over whole days reads as if nothing had ever been rolled up or
\* pruned, at every moment of any number of overlapping or failing jobs.
ReportsExact == \A d \in Days : AllReports(2 * d) = Full!AllReports(2 * d)

\* A window that begins during a day may count that whole day once it has been
\* rolled up, and never less than its own rows.
WindowBounds ==
  \A s \in 2..(2 * MaxDay + 1) :
    LET n == Report(s, Dims).requests
    IN /\ Full!Report(s, Dims).requests <= n
       /\ n <= Full!Report(2 * (s \div 2), Dims).requests

\* Queries over raw rows are complete while their window lies within every
\* retention in use: the daily views, the latencies, the replay of debits and the
\* reseed of a period counter that began no earlier.
RecentRowsRaw ==
  \A s \in 2..(2 * MaxDay + 1) :
    (\A n \in Retentions : s >= 2 * (today - n)) => RawReports(s, today) = Full!RawReports(s, today)

\* What has been rolled up and pruned is final: no later or overlapping job
\* changes a day's cells once its raw rows are gone.
PrunedDaysFinal ==
  [][\A d \in Days :
       d < today - MaxLag /\ RowsOf(d) = {} => rollup'[d] = rollup[d]]_vars

\* The book that the ledger and the rollup stand for: raw rows from the oldest
\* raw day on, cells before it.
Booked ==
  [d \in Days |-> [g \in Dims |->
     IF d < FloorDay THEN rollup[d][g] ELSE Aggregate({r \in RowsOf(d) : r.dims = g})]]
Book == INSTANCE UsageBook WITH book <- Booked, Amounts <- 1..MaxRows

\* Rolling up and pruning are invisible: every step of the two tables is an
\* addition of one request to the book or leaves the book as it is.
BookSpec == Book!Spec
=============================================================================
