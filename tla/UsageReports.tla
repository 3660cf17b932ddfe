--------------------------- MODULE UsageReports ---------------------------
(***************************************************************************)
(* The usage reports of the admin dashboard.  Each is one query over the   *)
(* raw rows of usage_ledger and, for the days before the oldest raw row,   *)
(* the cells of usage_daily_rollup.                                        *)
(*                                                                         *)
(* Time is counted in half days, t \div 2 being the UTC day, so that a     *)
(* window may begin in the middle of a day.  A row carries the dimensions  *)
(* the reports group by; its many counters are abstracted to its tokens.   *)
(***************************************************************************)
EXTENDS Integers, FiniteSets, FiniteSetsExt

CONSTANTS
  Dims,     \* dimension tuples: records with group (the pricing
            \* group), user, model, mode, prefix, status and code
  FreeModels, \* models with the :free suffix
  MaxDay    \* last day considered; days are 1, 2, ...

VARIABLES
  ledger,   \* usage_ledger: rows [id, t, dims, tokens]
  rollup    \* usage_daily_rollup: a measure per day and dimension tuple

Days == 1..MaxDay
DayOf(r) == r.t \div 2

\* A cell of the rollup; a cell without requests is a row that is not there.
Zero == [requests |-> 0, tokens |-> 0]
Plus(a, b) == [requests |-> a.requests + b.requests, tokens |-> a.tokens + b.tokens]
EmptyRollup == [d \in Days |-> [g \in Dims |-> Zero]]

\* The sum of a function's values: the points below its graph.
SumOf(f) == Cardinality(UNION {{x} \X (1..f[x]) : x \in DOMAIN f})

\* COUNT and SUM over a set of rows, and over a set of cells.
Aggregate(rows) ==
  [requests |-> Cardinality(rows), tokens |-> SumOf([r \in rows |-> r.tokens])]
AddUp(cells) ==
  [requests |-> SumOf([c \in cells |-> rollup[c[1]][c[2]].requests]),
   tokens   |-> SumOf([c \in cells |-> rollup[c[1]][c[2]].tokens])]

\* Mutant: the boundary day is taken from both sides.
FloorDayLate ==
  1 + (IF ledger = {} THEN MaxDay + 1 ELSE Min({DayOf(r) : r \in ledger}))

\* The first day with a raw row, after all days when there is none.
FloorDay ==
  IF ledger = {} THEN MaxDay + 1 ELSE Min({DayOf(r) : r \in ledger})

\* What a WHERE or GROUP BY keeps: the dimension tuples D.
Values(field) == {g[field] : g \in Dims}
Where(field, v) == {g \in Dims : g[field] = v}
Success == Where("status", "success")

\* The two halves of a report's UNION.
Raw(since, D) == Aggregate({r \in ledger : r.t >= since /\ r.dims \in D})
Rolled(since, D) == AddUp({d \in Days : since \div 2 <= d /\ d < FloorDay} \X D)

Report(since, D) == Plus(Raw(since, D), Rolled(since, D))

Outcomes(since, D) ==
  [total   |-> Report(since, D),
   success |-> Report(since, D \cap Success).requests,
   error   |-> Report(since, D \ Success).requests]

-----------------------------------------------------------------------------
(* The reports                                                             *)

ListUsageSummaryGrouped(since) ==
  [k \in Values("group") \X Values("user") |->
     Report(since, Where("group", k[1]) \cap Where("user", k[2]))]

ListProviderStats(since) ==
  [p \in Values("prefix") |-> Outcomes(since, Where("prefix", p))]

ListTopModels(since) ==
  [m \in Values("model") |-> Outcomes(since, Where("model", m))]

ListBillingModeBreakdown(since) ==
  [b \in Values("mode") |-> Report(since, Where("mode", b))]

ListStatusBreakdown(since) ==
  [s \in Values("status") |-> Report(since, Where("status", s)).requests]

\* Failed rows that have an error code.
ListErrorCodeBreakdown(since) ==
  [c \in Values("code") \ {""} |->
     Report(since, Where("code", c) \ Success).requests]

\* Day buckets: a day has either its raw rows or its cells.
DayBucket(since, d, D) ==
  Plus(Aggregate({r \in ledger : r.t >= since /\ DayOf(r) = d /\ r.dims \in D}),
       IF since \div 2 <= d /\ d < FloorDay THEN AddUp({d} \X D) ELSE Zero)

\* Hour buckets, here half days, are raw rows only.
HourBucket(since, t, D) ==
  Aggregate({r \in ledger : r.t >= since /\ r.t = t /\ r.dims \in D})

ListUsageTimeseries(since) ==
  [d \in Days |->
     [total   |-> DayBucket(since, d, Dims),
      success |-> DayBucket(since, d, Success).requests]]

ListUsageTimeseriesHourly(since) ==
  [t \in 2..(2 * MaxDay + 1) |->
     [total   |-> HourBucket(since, t, Dims),
      success |-> HourBucket(since, t, Success).requests]]

\* The buckets of one provider prefix.
ListPrefixHourlyStats(since, p) ==
  [t \in 2..(2 * MaxDay + 1) |->
     [total   |-> HourBucket(since, t, Where("prefix", p)).requests,
      success |-> HourBucket(since, t, Where("prefix", p) \cap Success).requests]]

AllReports(since) ==
  <<ListUsageSummaryGrouped(since), ListProviderStats(since), ListTopModels(since),
    ListBillingModeBreakdown(since), ListStatusBreakdown(since),
    ListErrorCodeBreakdown(since), ListUsageTimeseries(since)>>

\* Queries over raw rows only: the admin's usage of a day by billing mode, hourly
\* buckets, a prefix's models and error codes, latencies, and the rows that
\* reseed a period counter.
ListUsageByBillingModeSince(since, u) ==
  [b \in Values("mode") |->
     Raw(since, Where("user", u) \cap Where("mode", b) \cap Success)]

ListPrefixModelStats(since, p) ==
  [m \in Values("model") |->
     [total   |-> Raw(since, Where("prefix", p) \cap Where("model", m)).requests,
      success |-> Raw(since, Where("prefix", p) \cap Where("model", m) \cap Success).requests]]

ListPrefixErrorCodes(since, p) ==
  [c \in Values("code") \ {""} |->
     Raw(since, (Where("prefix", p) \cap Where("code", c)) \ Success).requests]

LatencySample(since) == Raw(since, Dims).requests

ListUsageByUserSince(since, u) ==
  {r \in ledger : r.t >= since /\ r.dims.user = u}

\* A customer's own summary, with today's requests on free models kept apart.
SummaryByUser(since, today, u) ==
  LET rows  == ListUsageByUserSince(since, u)
      fresh == {r \in rows : r.t >= 2 * today}
      free  == {r \in fresh : r.dims.model \in FreeModels}
  IN [all |-> Aggregate(rows), today |-> Cardinality(fresh \ free), todayFree |-> Cardinality(free)]

\* The log view: a filter that is not set is "", and the total is that of the filter.
ListUsageLogs(from, to, f) ==
  LET rows == {r \in ledger : /\ from <= r.t /\ r.t < to
                              /\ \A k \in DOMAIN f : f[k] \in {"", r.dims[k]}}
  IN [rows |-> rows, total |-> Cardinality(rows)]

LogFilters == [user : Values("user") \cup {""}, status : Values("status") \cup {""}]

RawReports(since, today) ==
  <<[u \in Values("user") |-> ListUsageByBillingModeSince(since, u)],
    [u \in Values("user") |-> SummaryByUser(since, today, u)],
    [f \in LogFilters |-> ListUsageLogs(since, 2 * MaxDay + 2, f)],
    ListUsageTimeseriesHourly(since),
    [p \in Values("prefix") |-> ListPrefixHourlyStats(since, p)],
    [p \in Values("prefix") |-> ListPrefixModelStats(since, p)],
    [p \in Values("prefix") |-> ListPrefixErrorCodes(since, p)],
    LatencySample(since)>>
=============================================================================
