---------------------- MODULE CallbackDelivery_proofs ----------------------
(***************************************************************************)
(* Proofs that the variables keep their types, that no debit is forgotten  *)
(* when the handlers' callback has a queue, and that no row is given up    *)
(* early, for any number of debits, processes, crashes, failing statements *)
(* and replays.                                                            *)
(***************************************************************************)
EXTENDS CallbackDelivery, FiniteSetTheorems, SequenceTheorems, TLAPS

-----------------------------------------------------------------------------
(* Types                                                                   *)

\* A goroutine still posting has attempts left.
TriesLeft == \A d \in Debits : poster[d] \in {"unsettled", "posting"} => tries[d] < Attempts

\* Removing a row from the due rows closes the gap it leaves.
LEMMA NotDueFacts ==
  ASSUME dueRows \in Seq(Debits), NEW d
  PROVE  /\ NotDue(d) \in Seq(Debits)
         /\ \/ NotDue(d) = dueRows /\ \A i \in DOMAIN dueRows : dueRows[i] # d
            \/ \E i \in 1..Len(dueRows) :
                 /\ dueRows[i] = d
                 /\ Len(NotDue(d)) = Len(dueRows) - 1
                 /\ \A k \in 1..(Len(dueRows) - 1) :
                      NotDue(d)[k] = dueRows[IF k < i THEN k ELSE k + 1]
<1> DEFINE at == {i \in DOMAIN dueRows : dueRows[i] = d}
           i  == CHOOSE j \in at : TRUE
           low  == SubSeq(dueRows, 1, i - 1)
           high == SubSeq(dueRows, i + 1, Len(dueRows))
<1>1. CASE at = {}
  BY <1>1 DEF NotDue
<1>2. CASE at # {}
  <2>1. i \in 1..Len(dueRows) /\ dueRows[i] = d
    BY <1>2
  <2>2. NotDue(d) = low \o high
    BY <1>2 DEF NotDue
  <2> HIDE DEF i
  <2>3. \A k \in 1..Len(dueRows) : dueRows[k] \in Debits
    OBVIOUS
  <2>4. /\ low \in Seq(Debits) /\ Len(low) = i - 1
        /\ \A k \in 1..(i - 1) : low[k] = dueRows[k]
    BY <2>1, <2>3, SubSeqProperties
  <2>5. /\ high \in Seq(Debits) /\ Len(high) = Len(dueRows) - i
        /\ \A k \in 1..(Len(dueRows) - i) : high[k] = dueRows[i + k]
    <3>1. \A k \in (i + 1)..Len(dueRows) : dueRows[k] \in Debits
      BY <2>1, <2>3
    <3>2. i + 1 \in Int /\ Len(dueRows) \in Int
      BY <2>1
    <3>3. /\ high \in Seq(Debits)
          /\ Len(high) = IF i + 1 <= Len(dueRows) THEN Len(dueRows) - (i + 1) + 1 ELSE 0
          /\ \A k \in 1..(Len(dueRows) - (i + 1) + 1) : high[k] = dueRows[(i + 1) + k - 1]
      BY <3>1, <3>2, SubSeqProperties
    <3> HIDE DEF high
    <3> QED
      BY <2>1, <3>3
  <2> HIDE DEF low, high
  <2>6. /\ low \o high \in Seq(Debits) /\ Len(low \o high) = Len(dueRows) - 1
        /\ \A k \in 1..(Len(dueRows) - 1) :
             (low \o high)[k] = IF k <= i - 1 THEN low[k] ELSE high[k - (i - 1)]
    <3>1. /\ low \o high \in Seq(Debits) /\ Len(low \o high) = Len(low) + Len(high)
          /\ \A k \in 1..(Len(low) + Len(high)) :
               (low \o high)[k] = IF k <= Len(low) THEN low[k] ELSE high[k - Len(low)]
      BY <2>4, <2>5, ConcatProperties
    <3>2. Len(low) + Len(high) = Len(dueRows) - 1
      BY <2>1, <2>4, <2>5
    <3> QED
      BY <2>4, <3>1, <3>2
  <2>7. \A k \in 1..(Len(dueRows) - 1) : (low \o high)[k] = dueRows[IF k < i THEN k ELSE k + 1]
    <3> TAKE k \in 1..(Len(dueRows) - 1)
    <3>1. CASE k < i
      BY <2>1, <2>4, <2>6, <3>1
    <3>2. CASE ~(k < i)
      <4>1. k - (i - 1) \in 1..(Len(dueRows) - i) /\ i + (k - (i - 1)) = k + 1
        BY <2>1, <3>2
      <4>2. (low \o high)[k] = high[k - (i - 1)]
        BY <2>1, <2>6, <3>2
      <4> QED
        BY <2>5, <3>2, <4>1, <4>2
    <3> QED
      BY <3>1, <3>2
  <2> QED
    BY <2>1, <2>2, <2>6, <2>7
<1> QED
  BY <1>1, <1>2

\* A worker that has an answer to mark has the row it is for.
Marking == \A p \in Processes : reply[p] # "none" => batch[p] # << >>

Typed == TypeOK /\ TriesLeft /\ Marking

\* The first row of a batch, and the batch without it.
LEMMA BatchFacts ==
  ASSUME Typed, NEW p \in Processes, batch[p] # << >>
  PROVE  /\ Head(batch[p]) = batch[p][1] /\ 1 \in DOMAIN batch[p]
         /\ Head(batch[p]) \in [debit : Debits, attempts : Nat]
         /\ Tail(batch[p]) \in Seq([debit : Debits, attempts : Nat])
         /\ \A i \in DOMAIN Tail(batch[p]) : i + 1 \in DOMAIN batch[p] /\ Tail(batch[p])[i] = batch[p][i + 1]
<1>1. batch[p] \in Seq([debit : Debits, attempts : Nat])
  BY DEF Typed, TypeOK
<1>2. Len(batch[p]) \in Nat /\ Len(batch[p]) > 0 /\ DOMAIN batch[p] = 1..Len(batch[p])
  BY <1>1, EmptySeq, LenProperties
<1>3. /\ Head(batch[p]) \in [debit : Debits, attempts : Nat]
      /\ Tail(batch[p]) \in Seq([debit : Debits, attempts : Nat])
      /\ Len(Tail(batch[p])) = Len(batch[p]) - 1
      /\ \A i \in 1..Len(Tail(batch[p])) : Tail(batch[p])[i] = batch[p][i + 1]
  BY <1>1, HeadTailProperties
<1>4. DOMAIN Tail(batch[p]) = 1..Len(Tail(batch[p]))
  BY <1>3, LenProperties
<1>5. Head(batch[p]) = batch[p][1]
  BY <1>1
<1> QED
  BY <1>2, <1>3, <1>4, <1>5

\* What is left of a batch, and of the answers, after a row was marked.
LEMMA NextRowFacts ==
  ASSUME Typed, NEW p \in Processes, reply[p] # "none", NextRow(p)
  PROVE  /\ batch' \in [Processes -> Seq([debit : Debits, attempts : Nat])]
         /\ reply' \in [Processes -> Outcomes \cup {"none"}]
         /\ batch'[p] = Tail(batch[p]) /\ reply'[p] = "none"
         /\ \A q \in Processes \ {p} : batch'[q] = batch[q] /\ reply'[q] = reply[q]
         /\ Head(batch[p]).debit \in Debits /\ Head(batch[p]).attempts \in Nat
<1>1. batch[p] # << >>
  BY DEF Typed, Marking
<1>2. Tail(batch[p]) \in Seq([debit : Debits, attempts : Nat])
  BY <1>1, BatchFacts
<1>3. Head(batch[p]).debit \in Debits /\ Head(batch[p]).attempts \in Nat
  BY <1>1, BatchFacts
<1>4. /\ batch' \in [Processes -> Seq([debit : Debits, attempts : Nat])]
      /\ batch'[p] = Tail(batch[p])
  BY <1>2 DEF NextRow, Typed, TypeOK
<1>5. reply' \in [Processes -> Outcomes \cup {"none"}] /\ reply'[p] = "none"
  BY DEF NextRow, Typed, TypeOK
<1>6. \A q \in Processes \ {p} : batch'[q] = batch[q] /\ reply'[q] = reply[q]
  BY DEF NextRow, Typed, TypeOK
<1> QED
  BY <1>3, <1>4, <1>5, <1>6

\* What ListDuePendingCallbacks remembers: of each of the first due rows, the
\* attempts it has.
LEMMA ListFacts ==
  ASSUME Typed, NEW p \in Processes, ListDuePendingCallbacks(p)
  PROVE  /\ batch' \in [Processes -> Seq([debit : Debits, attempts : Nat])]
         /\ batch'[p] # << >>
         /\ \A i \in DOMAIN batch'[p] : /\ batch'[p][i].debit \in Debits
                                        /\ batch'[p][i].attempts = attempts[batch'[p][i].debit]
         /\ \A q \in Processes \ {p} : batch'[q] = batch[q]
<1> DEFINE n == IF Len(dueRows) <= Batch THEN Len(dueRows) ELSE Batch
           new == [i \in 1..n |-> [debit |-> dueRows[i], attempts |-> attempts[dueRows[i]]]]
<1>1. dueRows \in Seq(Debits) /\ Len(dueRows) \in Nat /\ Len(dueRows) > 0 /\ Batch \in Nat \ {0}
  BY EmptySeq, LenProperties, CallbackAssumption DEF ListDuePendingCallbacks, Typed, TypeOK
<1>2. n \in Nat \ {0} /\ n <= Len(dueRows)
  BY <1>1
<1>3. DOMAIN Prefix(dueRows) = 1..n
  <2>1. \A i \in 1..n : dueRows[i] \in Debits
    BY <1>1, <1>2
  <2>2. Prefix(dueRows) = SubSeq(dueRows, 1, n)
    BY DEF Prefix
  <2> HIDE DEF n
  <2>3. /\ SubSeq(dueRows, 1, n) \in Seq(Debits)
        /\ Len(SubSeq(dueRows, 1, n)) = IF 1 <= n THEN n - 1 + 1 ELSE 0
    BY <1>2, <2>1, SubSeqProperties
  <2>4. Len(SubSeq(dueRows, 1, n)) = n
    BY <1>2, <2>3
  <2> QED
    BY <2>2, <2>3, <2>4, LenProperties
<1>4. batch' = [batch EXCEPT ![p] = new]
  BY <1>3 DEF ListDuePendingCallbacks
<1> HIDE DEF n
<1>5. \A i \in 1..n : dueRows[i] \in Debits /\ attempts[dueRows[i]] \in Nat
  BY <1>1, <1>2 DEF Typed, TypeOK
<1>6. new \in Seq([debit : Debits, attempts : Nat])
  <2>1. new \in [1..n -> [debit : Debits, attempts : Nat]]
    BY <1>5
  <2> HIDE DEF new
  <2> QED
    BY <1>2, <2>1, SeqDef, ZenonT(40)
<1>7. new # << >>
  BY <1>2, <1>6, LenProperties
<1>8. DOMAIN new = 1..n /\ \A i \in 1..n : new[i].debit = dueRows[i] /\ new[i].attempts = attempts[dueRows[i]]
  OBVIOUS
<1> HIDE DEF new
<1>9. batch'[p] = new /\ \A q \in Processes \ {p} : batch'[q] = batch[q]
  BY <1>4 DEF Typed, TypeOK
<1>10. batch' \in [Processes -> Seq([debit : Debits, attempts : Nat])]
  BY <1>4, <1>6 DEF Typed, TypeOK
<1> QED
  BY <1>5, <1>7, <1>8, <1>9, <1>10

\* A post adds at most its own debit to genfity-app's ledger.
LEMMA PostFacts ==
  ASSUME app \subseteq Debits, NEW d \in Debits, NEW o, PostUsageDebit(d, o)
  PROVE  app' \subseteq Debits
BY DEF PostUsageDebit

\* Counting one more attempt or post of a debit keeps the counts in their range.
LEMMA OneMore ==
  ASSUME NEW f \in [Debits -> Nat], NEW d \in Debits, NEW b
  PROVE  /\ [f EXCEPT ![d] = @ + 1] \in [Debits -> Nat]
         /\ [f EXCEPT ![d] = IF b THEN @ ELSE @ + 1] \in [Debits -> Nat]
<1>1. f[d] \in Nat /\ f[d] + 1 \in Nat
  OBVIOUS
<1> QED
  BY <1>1

LEMMA CappedCount ==
  ASSUME NEW f \in [Debits -> 0..MaxRetry], NEW d \in Debits
  PROVE  [f EXCEPT ![d] = IF @ < MaxRetry THEN @ + 1 ELSE @] \in [Debits -> 0..MaxRetry]
<1>1. MaxRetry \in Nat /\ f[d] \in 0..MaxRetry
  BY CallbackAssumption
<1>2. (IF f[d] < MaxRetry THEN f[d] + 1 ELSE f[d]) \in 0..MaxRetry
  BY <1>1
<1> QED
  BY <1>2

\* Every step keeps the types, the attempts left to a posting goroutine, and the
\* row behind every unmarked answer.
LEMMA TypedStep == Typed /\ [Next]_vars => Typed'
<1> SUFFICES ASSUME Typed, [Next]_vars PROVE Typed'
  OBVIOUS
<1> USE CallbackAssumption DEF Typed, TypeOK, TriesLeft, Marking, Statuses, Outcomes
<1>1. ASSUME NEW d \in Debits, Goroutine(d) PROVE Typed'
  <2>1. ASSUME NEW o \in Outcomes, PostInProcess(d, o) PROVE Typed'
    <3>1. app' \subseteq Debits
      BY <2>1, PostFacts DEF PostInProcess
    <3>2. tries' \in [Debits -> 0..Attempts]
      BY <2>1 DEF PostInProcess
    <3>3. poster' \in [Debits -> {"unsettled", "posting", "enqueuing", "over", "dropped", "killed"}]
      BY <2>1 DEF PostInProcess
    <3>4. owner' \in [Debits -> Processes \cup {"nobody"}]
      BY <2>1 DEF PostInProcess
    <3>5. TriesLeft'
      BY <2>1 DEF PostInProcess
    <3> QED
      BY <2>1, <3>1, <3>2, <3>3, <3>4, <3>5 DEF PostInProcess, table, worker
  <2>2. ASSUME EnqueuePendingCallback(d) PROVE Typed'
    <3>1. dueRows' \in Seq(Debits)
      <4>1. Append(dueRows, d) \in Seq(Debits)
        BY AppendProperties
      <4>2. dueRows' = Append(dueRows, d) \/ dueRows' = dueRows
        BY <2>2 DEF EnqueuePendingCallback
      <4> QED
        BY <4>1, <4>2
    <3>2. status' \in [Debits -> Statuses]
      BY <2>2 DEF EnqueuePendingCallback
    <3>3. /\ poster' \in [Debits -> {"unsettled", "posting", "enqueuing", "over", "dropped", "killed"}]
          /\ owner' \in [Debits -> Processes \cup {"nobody"}] /\ TriesLeft'
      BY <2>2 DEF EnqueuePendingCallback
    <3> QED
      BY <2>2, <3>1, <3>2, <3>3 DEF EnqueuePendingCallback, worker
  <2>3. ASSUME EnqueueFailed(d) PROVE Typed'
    BY <2>3 DEF EnqueueFailed, Event, table, worker
  <2> QED
    BY <1>1, <2>1, <2>2, <2>3 DEF Goroutine
<1>2. ASSUME NEW d \in Debits, BecomeDue(d) PROVE Typed'
  BY <1>2, AppendProperties DEF BecomeDue, goroutine, worker
<1>3. ASSUME NEW d \in Debits, NEW p \in Processes, Settled(d, p) PROVE Typed'
  BY <1>3 DEF Settled, table, worker
<1>4. ASSUME NEW p \in Processes, Worker(p) PROVE Typed'
  <2>1. ASSUME ListDuePendingCallbacks(p) PROVE Typed'
    BY <2>1, ListFacts DEF ListDuePendingCallbacks, goroutine, table
  <2>2. ASSUME NEW o \in Outcomes, Deliver(p, o) PROVE Typed'
    <3>1. Head(batch[p]).debit \in Debits
      BY <2>2, BatchFacts DEF Deliver
    <3>2. app' \subseteq Debits
      BY <2>2, <3>1, PostFacts DEF Deliver
    <3>3. posts' \in [Debits -> 0..MaxRetry]
      <4>1. posts' = [posts EXCEPT ![Head(batch[p]).debit] = IF @ < MaxRetry THEN @ + 1 ELSE @]
        BY <2>2 DEF Deliver
      <4> QED
        BY <3>1, <4>1, CappedCount
    <3>4. reply' \in [Processes -> Outcomes \cup {"none"}]
      BY <2>2 DEF Deliver
    <3>5. Marking'
      BY <2>2 DEF Deliver
    <3> QED
      BY <2>2, <3>2, <3>3, <3>4, <3>5 DEF Deliver, goroutine, table
  <2>3. ASSUME MarkCallbackSucceeded(p) PROVE Typed'
    <3>1. NextRow(p) /\ reply[p] # "none" /\ UNCHANGED <<goroutine, app, events, posts>>
      BY <2>3 DEF MarkCallbackSucceeded
    <3>2. dueRows' \in Seq(Debits)
      BY <2>3, NotDueFacts DEF MarkCallbackSucceeded
    <3>3. attempts' \in [Debits -> Nat]
      BY <2>3 DEF MarkCallbackSucceeded
    <3>4. status' \in [Debits -> Statuses]
      BY <2>3 DEF MarkCallbackSucceeded
    <3> QED
      BY <3>1, <3>2, <3>3, <3>4, NextRowFacts DEF goroutine
  <2>4. ASSUME MarkCallbackAbandoned(p) PROVE Typed'
    <3>1. NextRow(p) /\ reply[p] # "none" /\ UNCHANGED <<goroutine, app, events, posts>>
      BY <2>4 DEF MarkCallbackAbandoned
    <3>2. dueRows' \in Seq(Debits)
      BY <2>4, NotDueFacts DEF MarkCallbackAbandoned, table
    <3>3. attempts' \in [Debits -> Nat]
      <4>1. Head(batch[p]).debit \in Debits
        BY <3>1, NextRowFacts
      <4>2. \/ attempts' = attempts
            \/ attempts' = [attempts EXCEPT ![Head(batch[p]).debit] = @ + 1]
        BY <2>4 DEF MarkCallbackAbandoned, table
      <4>3. CASE attempts' = attempts
        BY <4>3
      <4>4. CASE attempts' = [attempts EXCEPT ![Head(batch[p]).debit] = @ + 1]
        BY <4>1, <4>4, OneMore
      <4> QED
        BY <4>2, <4>3, <4>4
    <3>4. status' \in [Debits -> Statuses]
      BY <2>4, ZenonT(40) DEF MarkCallbackAbandoned, table
    <3> QED
      BY <3>1, <3>2, <3>3, <3>4, NextRowFacts DEF goroutine
  <2>5. ASSUME MarkCallbackRetry(p) PROVE Typed'
    <3>1. NextRow(p) /\ reply[p] # "none" /\ UNCHANGED <<goroutine, status, app, events, posts>>
      BY <2>5 DEF MarkCallbackRetry
    <3>2. dueRows' \in Seq(Debits)
      BY <2>5, NotDueFacts DEF MarkCallbackRetry
    <3>3. attempts' \in [Debits -> Nat]
      <4>1. Head(batch[p]).debit \in Debits
        BY <3>1, NextRowFacts
      <4>2. attempts' = [attempts EXCEPT ![Head(batch[p]).debit] =
                           IF status[Head(batch[p]).debit] = "none" THEN @ ELSE @ + 1]
        BY <2>5 DEF MarkCallbackRetry
      <4> QED
        BY <4>1, <4>2, OneMore
    <3> QED
      BY <3>1, <3>2, <3>3, NextRowFacts DEF goroutine
  <2>6. ASSUME MarkFailed(p) PROVE Typed'
    <3>1. /\ NextRow(p) /\ reply[p] # "none"
          /\ UNCHANGED <<poster, owner, tries, status, attempts, dueRows, app, posts>>
      BY <2>6 DEF MarkFailed, goroutine, table
    <3>2. events' \in 0..MaxEvents
      BY <2>6 DEF MarkFailed, Event
    <3> QED
      BY <3>1, <3>2, NextRowFacts
  <2> QED
    BY <1>4, <2>1, <2>2, <2>3, <2>4, <2>5, <2>6 DEF Worker
<1>5. ASSUME NEW p \in Processes, Crash(p) PROVE Typed'
  <2>1. << >> \in Seq([debit : Debits, attempts : Nat])
    BY EmptySeq
  <2>2. batch' \in [Processes -> Seq([debit : Debits, attempts : Nat])]
    BY <1>5, <2>1 DEF Crash
  <2>3. reply' \in [Processes -> Outcomes \cup {"none"}] /\ Marking'
    BY <1>5 DEF Crash
  <2>4. /\ poster' \in [Debits -> {"unsettled", "posting", "enqueuing", "over", "dropped", "killed"}]
        /\ owner' \in [Debits -> Processes \cup {"nobody"}] /\ TriesLeft'
    BY <1>5 DEF Crash
  <2>5. events' \in 0..MaxEvents
    BY <1>5 DEF Crash, Event
  <2> QED
    BY <1>5, <2>2, <2>3, <2>4, <2>5 DEF Crash, table
<1>6. ASSUME NEW d \in Debits, NEW o \in Outcomes, ReplayUsageDebits(d, o) PROVE Typed'
  <2>1. events' \in 0..MaxEvents
    BY <1>6 DEF ReplayUsageDebits, Event
  <2>2. app' \subseteq Debits
    BY <1>6, PostFacts DEF ReplayUsageDebits
  <2> QED
    BY <1>6, <2>1, <2>2 DEF ReplayUsageDebits, goroutine, table, worker
<1>7. ASSUME UNCHANGED vars PROVE Typed'
  BY <1>7 DEF vars, goroutine, table, worker
<1> QED
  BY <1>1, <1>2, <1>3, <1>4, <1>5, <1>6, <1>7 DEF Next

\* The strengthened types.
LEMMA TypesHold == Spec => []Typed
<1>1. Init => Typed
  BY EmptySeq, CallbackAssumption DEF Init, Typed, TypeOK, TriesLeft, Marking, Statuses, Outcomes
<1>2. Typed /\ [Next]_vars => Typed'
  BY TypedStep
<1> QED
  BY <1>1, <1>2, PTL DEF Spec

\* Every variable of the callback's goroutines, queue and workers keeps its type.
THEOREM TypeCorrect == Spec => []TypeOK
<1>1. Typed => TypeOK
  BY DEF Typed
<1> QED
  BY <1>1, TypesHold, PTL

-----------------------------------------------------------------------------
(* The due rows                                                            *)

\* The due rows are pending rows, each once.
DueRows ==
  /\ \A i \in DOMAIN dueRows : status[dueRows[i]] = "pending"
  /\ \A i, j \in DOMAIN dueRows : dueRows[i] = dueRows[j] => i = j

\* A row that was marked is no longer due, and the others stay so.
LEMMA RowNotDue ==
  ASSUME Typed, DueRows, NEW d \in Debits, dueRows' = NotDue(d),
         \A e \in Debits \ {d} : status'[e] = status[e]
  PROVE  DueRows'
<1>1. dueRows \in Seq(Debits) /\ dueRows' \in Seq(Debits)
  BY NotDueFacts DEF Typed, TypeOK
<1>2. CASE dueRows' = dueRows /\ \A i \in DOMAIN dueRows : dueRows[i] # d
  <2>1. \A i \in DOMAIN dueRows : dueRows[i] \in Debits \ {d}
    BY <1>1, <1>2, ElementOfSeq, LenProperties
  <2> QED
    BY <1>2, <2>1 DEF DueRows
<1>3. ASSUME NEW i \in 1..Len(dueRows), dueRows[i] = d, Len(dueRows') = Len(dueRows) - 1,
             \A k \in 1..(Len(dueRows) - 1) : dueRows'[k] = dueRows[IF k < i THEN k ELSE k + 1]
      PROVE  DueRows'
  <2> DEFINE at(k) == IF k < i THEN k ELSE k + 1
  <2>1. DOMAIN dueRows = 1..Len(dueRows) /\ DOMAIN dueRows' = 1..(Len(dueRows) - 1)
        /\ Len(dueRows) \in Nat
    BY <1>1, <1>3, LenProperties
  <2>2. \A k \in DOMAIN dueRows' : at(k) \in DOMAIN dueRows /\ at(k) # i /\ dueRows'[k] = dueRows[at(k)]
    BY <1>3, <2>1
  <2>3. \A k, l \in DOMAIN dueRows' : at(k) = at(l) => k = l
    BY <1>3, <2>1
  <2> HIDE DEF at
  <2>4. \A k \in DOMAIN dueRows' : dueRows'[k] # d /\ status[dueRows'[k]] = "pending"
    BY <1>3, <2>1, <2>2 DEF DueRows
  <2>5. \A k \in DOMAIN dueRows' : dueRows'[k] \in Debits
    BY <1>1, ElementOfSeq, LenProperties
  <2>6. \A k, l \in DOMAIN dueRows' : dueRows'[k] = dueRows'[l] => k = l
    BY <2>2, <2>3 DEF DueRows
  <2> QED
    BY <2>4, <2>5, <2>6 DEF DueRows
<1> QED
  BY <1>2, <1>3, NotDueFacts DEF Typed, TypeOK

\* A pending row that was not due becomes so.
LEMMA RowDue ==
  ASSUME Typed, DueRows, NEW d \in Debits, dueRows' = Append(dueRows, d),
         \A i \in DOMAIN dueRows : dueRows[i] # d,
         status'[d] = "pending", \A e \in Debits \ {d} : status'[e] = status[e]
  PROVE  DueRows'
<1>1. dueRows \in Seq(Debits) /\ Len(dueRows) \in Nat /\ DOMAIN dueRows = 1..Len(dueRows)
  BY LenProperties DEF Typed, TypeOK
<1>2. /\ DOMAIN dueRows' = 1..(Len(dueRows) + 1) /\ dueRows'[Len(dueRows) + 1] = d
      /\ \A i \in 1..Len(dueRows) : dueRows'[i] = dueRows[i] /\ dueRows[i] \in Debits \ {d}
  BY <1>1, AppendProperties, ElementOfSeq
<1>3. \A k \in DOMAIN dueRows' : k = Len(dueRows) + 1 \/ k \in DOMAIN dueRows
  BY <1>1, <1>2
<1>4. \A k \in DOMAIN dueRows' : status'[dueRows'[k]] = "pending"
  BY <1>1, <1>2, <1>3 DEF DueRows
<1>5. \A k, l \in DOMAIN dueRows' : dueRows'[k] = dueRows'[l] => k = l
  BY <1>1, <1>2, <1>3 DEF DueRows
<1> QED
  BY <1>4, <1>5 DEF DueRows

\* No step lists a row twice or leaves a row listed that is not pending.
LEMMA DueRowsStep ==
  ASSUME Typed, DueRows, [Next]_vars
  PROVE  DueRows'
<1>1. ASSUME UNCHANGED <<dueRows, status>> PROVE DueRows'
  BY <1>1 DEF DueRows
<1>2. ASSUME NEW d \in Debits, Goroutine(d) PROVE DueRows'
  <2>1. ASSUME EnqueuePendingCallback(d), status[d] = "none", dueRows' = Append(dueRows, d),
               status' = [status EXCEPT ![d] = "pending"]
        PROVE  DueRows'
    <3>1. \A i \in DOMAIN dueRows : dueRows[i] # d
      BY <2>1 DEF DueRows
    <3>2. status'[d] = "pending" /\ \A e \in Debits \ {d} : status'[e] = status[e]
      BY <2>1 DEF Typed, TypeOK
    <3> QED
      BY <2>1, <3>1, <3>2, RowDue
  <2> QED
    BY <1>1, <1>2, <2>1 DEF Goroutine, PostInProcess, EnqueuePendingCallback, EnqueueFailed, table
<1>3. ASSUME NEW d \in Debits, BecomeDue(d) PROVE DueRows'
  BY <1>3, RowDue DEF BecomeDue
<1>4. ASSUME NEW d \in Debits, NEW p \in Processes, Settled(d, p) PROVE DueRows'
  BY <1>1, <1>4 DEF Settled, table
<1>5. ASSUME NEW p \in Processes, Worker(p) PROVE DueRows'
  <2>1. ASSUME reply[p] # "none", dueRows' = NotDue(Head(batch[p]).debit),
               \/ status' = status
               \/ \E x : status' = [status EXCEPT ![Head(batch[p]).debit] = x]
        PROVE  DueRows'
    <3>1. Head(batch[p]).debit \in Debits
      BY <2>1, BatchFacts DEF Typed, Marking
    <3>2. \A e \in Debits \ {Head(batch[p]).debit} : status'[e] = status[e]
      BY <2>1 DEF Typed, TypeOK
    <3> QED
      BY <2>1, <3>1, <3>2, RowNotDue
  <2>2. ASSUME MarkCallbackSucceeded(p) PROVE DueRows'
    BY <2>1, <2>2 DEF MarkCallbackSucceeded
  <2>3. ASSUME MarkCallbackAbandoned(p) PROVE DueRows'
    BY <1>1, <2>1, <2>3 DEF MarkCallbackAbandoned, table
  <2>4. ASSUME MarkCallbackRetry(p) PROVE DueRows'
    BY <2>1, <2>4 DEF MarkCallbackRetry
  <2> QED
    BY <1>1, <1>5, <2>2, <2>3, <2>4 DEF Worker, ListDuePendingCallbacks, Deliver, MarkFailed, table
<1>6. ASSUME NEW p \in Processes, Crash(p) PROVE DueRows'
  BY <1>1, <1>6 DEF Crash, table
<1>7. ASSUME NEW d \in Debits, NEW o \in Outcomes, ReplayUsageDebits(d, o) PROVE DueRows'
  BY <1>1, <1>7 DEF ReplayUsageDebits, table
<1>8. ASSUME UNCHANGED vars PROVE DueRows'
  BY <1>1, <1>8 DEF vars, table
<1> QED
  BY <1>2, <1>3, <1>4, <1>5, <1>6, <1>7, <1>8 DEF Next

\* The rows that ListDuePendingCallbacks finds are pending rows, each listed once:
\* a marked row is never listed again by what was listed before.
THEOREM DueRowsPending == Spec => []DueRows
<1>1. Init => DueRows
  BY DEF Init, DueRows
<1>2. Typed /\ DueRows /\ [Next]_vars => DueRows'
  BY DueRowsStep
<1>3. Spec => []Typed
  BY TypesHold
<1> QED
  BY <1>1, <1>2, <1>3, PTL DEF Spec

-----------------------------------------------------------------------------
(* No debit is forgotten                                                   *)

\* As much of the type invariant as the argument needs.
Shape ==
  /\ poster \in [Debits -> {"unsettled", "posting", "enqueuing", "over", "dropped",
                         "killed"}]
  /\ tries \in [Debits -> 0..Attempts] /\ Attempts \in Nat
  /\ \A d \in Debits : poster[d] = "posting" => tries[d] < Attempts
  /\ status \in [Debits -> Statuses]
  /\ batch = [p \in Processes |-> batch[p]]
  /\ reply \in [Processes -> Outcomes \cup {"none"}]

\* No step forgets a debit: a row is deleted only on an acknowledgement, and
\* an acknowledgement is only ever waiting for a debit genfity-app recorded.
LEMMA AcknowledgedStep ==
  ASSUME Shape, AcknowledgedInv, [Next]_vars
  PROVE  AcknowledgedInv'
<1> USE DEF Shape, Statuses, Outcomes, AcknowledgedInv, ForgottenOnlyUnqueued
<1>1. ASSUME NEW d \in Debits, Goroutine(d) PROVE AcknowledgedInv'
  <2>1. ASSUME NEW o \in Outcomes, PostInProcess(d, o) PROVE AcknowledgedInv'
    <3>1. poster[d] = "posting" /\ tries[d] \in Nat /\ tries[d] < Attempts
      BY <2>1 DEF PostInProcess
    <3>2. tries[d] + 1 < Attempts \/ tries[d] + 1 = Attempts
      BY <3>1
    <3>3. /\ tries' = [tries EXCEPT ![d] = @ + 1]
          /\ poster' = [poster EXCEPT ![d] =
               IF o = "ok" THEN "over"
               ELSE IF tries[d] + 1 < Attempts THEN "posting" ELSE "enqueuing"]
          /\ app \subseteq app' /\ (o = "ok" => d \in app')
          /\ UNCHANGED <<status, batch, reply>>
      BY <2>1 DEF PostInProcess, PostUsageDebit, table, worker
    <3>4. \A e \in Debits : poster'[e] = "enqueuing" => tries'[e] = Attempts
      BY <3>1, <3>2, <3>3
    <3>5. ForgottenOnlyUnqueued'
      BY <3>1, <3>3
    <3> QED
      BY <3>3, <3>4, <3>5
  <2>2. ASSUME EnqueuePendingCallback(d) PROVE AcknowledgedInv'
    BY <2>2 DEF EnqueuePendingCallback, worker
  <2>3. ASSUME EnqueueFailed(d) PROVE AcknowledgedInv'
    BY <2>3 DEF EnqueueFailed, table, worker
  <2> QED
    BY <1>1, <2>1, <2>2, <2>3 DEF Goroutine
<1>2. ASSUME NEW d \in Debits, BecomeDue(d) PROVE AcknowledgedInv'
  BY <1>2 DEF BecomeDue, goroutine, worker
<1>3. ASSUME NEW d \in Debits, NEW p \in Processes, Settled(d, p) PROVE AcknowledgedInv'
  BY <1>3 DEF Settled, table, worker
<1>4. ASSUME NEW p \in Processes, Worker(p) PROVE AcknowledgedInv'
  <2>1. ASSUME ListDuePendingCallbacks(p) PROVE AcknowledgedInv'
    <3>1. reply' = reply /\ reply[p] = "none" /\ app' = app
      BY <2>1 DEF ListDuePendingCallbacks
    <3>2. \A q \in Processes : q # p => batch'[q] = batch[q]
      BY <2>1 DEF ListDuePendingCallbacks
    <3> QED
      BY <2>1, <3>1, <3>2 DEF ListDuePendingCallbacks, goroutine, table
  <2>2. ASSUME NEW o \in Outcomes, Deliver(p, o) PROVE AcknowledgedInv'
    BY <2>2 DEF Deliver, PostUsageDebit, goroutine, table
  <2>3. ASSUME MarkCallbackSucceeded(p) PROVE AcknowledgedInv'
    <3>1. Head(batch[p]).debit \in app /\ app' = app /\ poster' = poster /\ tries' = tries
      BY <2>3 DEF MarkCallbackSucceeded, goroutine
    <3>2. ForgottenOnlyUnqueued'
      BY <2>3, <3>1 DEF MarkCallbackSucceeded
    <3>3. /\ reply'[p] = "none"
          /\ \A q \in Processes : q # p => reply'[q] = reply[q] /\ batch'[q] = batch[q]
      BY <2>3 DEF MarkCallbackSucceeded, NextRow
    <3> QED
      BY <3>1, <3>2, <3>3
  <2>4. ASSUME MarkCallbackAbandoned(p) PROVE AcknowledgedInv'
    <3>1. app' = app /\ poster' = poster /\ tries' = tries
      BY <2>4 DEF MarkCallbackAbandoned, goroutine
    <3>2. ForgottenOnlyUnqueued'
      BY <2>4, <3>1 DEF MarkCallbackAbandoned, table
    <3>3. /\ reply'[p] = "none"
          /\ \A q \in Processes : q # p => reply'[q] = reply[q] /\ batch'[q] = batch[q]
      BY <2>4 DEF MarkCallbackAbandoned, NextRow
    <3> QED
      BY <3>1, <3>2, <3>3
  <2>5. ASSUME MarkCallbackRetry(p) PROVE AcknowledgedInv'
    BY <2>5 DEF MarkCallbackRetry, NextRow, goroutine
  <2>6. ASSUME MarkFailed(p) PROVE AcknowledgedInv'
    BY <2>6 DEF MarkFailed, NextRow, goroutine, table
  <2> QED
    BY <1>4, <2>1, <2>2, <2>3, <2>4, <2>5, <2>6 DEF Worker
<1>5. ASSUME NEW p \in Processes, Crash(p) PROVE AcknowledgedInv'
  BY <1>5 DEF Crash, table
<1>6. ASSUME NEW d \in Debits, NEW o \in Outcomes, ReplayUsageDebits(d, o)
      PROVE AcknowledgedInv'
  BY <1>6 DEF ReplayUsageDebits, PostUsageDebit, goroutine, table, worker
<1>7. ASSUME UNCHANGED vars PROVE AcknowledgedInv'
  BY <1>7 DEF vars, goroutine, table, worker
<1> QED
  BY <1>1, <1>2, <1>3, <1>4, <1>5, <1>6, <1>7 DEF Next

\* Whether or not a queue is behind the handlers' callback, every debit whose
\* goroutine ran to its end is recorded by genfity-app, or still has its
\* pending_callbacks row, or was posted Attempts times and could not be queued,
\* whatever workers, replays, failing marks and crashes do to it.
THEOREM NothingForgotten == Spec => []ForgottenOnlyUnqueued
<1>1. Init => AcknowledgedInv
  BY DEF Init, AcknowledgedInv, ForgottenOnlyUnqueued
<1>2. Typed => Shape
  BY CallbackAssumption DEF Typed, TypeOK, TriesLeft, Shape
<1>3. Shape /\ AcknowledgedInv /\ [Next]_vars => AcknowledgedInv'
  BY AcknowledgedStep
<1>4. AcknowledgedInv => ForgottenOnlyUnqueued
  BY DEF AcknowledgedInv
<1> QED
  BY <1>1, <1>2, <1>3, <1>4, TypesHold, PTL DEF Spec

-----------------------------------------------------------------------------
(* Giving up                                                               *)

\* The workers that posted the row of d and have yet to mark it.
Unmarked(d) == {p \in Processes : reply[p] # "none" /\ Head(batch[p]).debit = d}

\* The attempts column, the marks on their way to it, and the attempts that a
\* worker has read, count posts that were made.
Enough(d, n) == posts[d] = MaxRetry \/ n <= posts[d]

AttemptsPosted ==
  /\ \A d \in Debits : Enough(d, attempts[d] + Cardinality(Unmarked(d)))
  /\ \A p \in Processes :
       /\ \A i \in DOMAIN batch[p] : Enough(batch[p][i].debit, batch[p][i].attempts)
       /\ reply[p] # "none" => /\ batch[p] # << >>
                               /\ Enough(Head(batch[p]).debit, Head(batch[p]).attempts + 1)

\* Counting the workers of a set.
LEMMA Workers ==
  ASSUME NEW S \in SUBSET Processes
  PROVE  /\ IsFiniteSet(S) /\ Cardinality(S) \in Nat
         /\ \A T \in SUBSET S : Cardinality(T) \in Nat /\ Cardinality(T) <= Cardinality(S)
         /\ \A p \in S : Cardinality(S \ {p}) = Cardinality(S) - 1
         /\ \A p \in Processes \ S : Cardinality(S \cup {p}) = Cardinality(S) + 1
<1>1. IsFiniteSet(S)
  BY FS_Subset, CallbackAssumption
<1>2. Cardinality(S) \in Nat
  BY <1>1, FS_CardinalityType
<1>3. ASSUME NEW T \in SUBSET S PROVE Cardinality(T) \in Nat /\ Cardinality(T) <= Cardinality(S)
  BY <1>1, FS_Subset, FS_CardinalityType
<1> QED
  BY <1>1, <1>2, <1>3, FS_RemoveElement, FS_AddElement

\* A step that posts nothing and marks no attempt: the counts of the attempts stay
\* covered by the posts that were made.
LEMMA NothingPosted ==
  ASSUME Typed, Typed', AttemptsPosted, posts' = posts,
         \A d \in Debits : attempts'[d] <= attempts[d],
         \A q \in Processes : reply'[q] # "none" => reply'[q] = reply[q] /\ batch'[q] = batch[q],
         \A q \in Processes : \A i \in DOMAIN batch'[q] :
           Enough(batch'[q][i].debit, batch'[q][i].attempts)
  PROVE  AttemptsPosted'
<1>1. ASSUME NEW d \in Debits PROVE Enough(d, attempts[d] + Cardinality(Unmarked(d)))'
  <2>1. Unmarked(d)' \in SUBSET Unmarked(d) /\ Unmarked(d) \in SUBSET Processes
    BY DEF Unmarked
  <2>2. /\ Cardinality(Unmarked(d)) \in Nat /\ Cardinality(Unmarked(d)') \in Nat
        /\ Cardinality(Unmarked(d)') <= Cardinality(Unmarked(d))
    BY <2>1, Workers
  <2>3. attempts[d] \in Nat /\ attempts'[d] \in Nat /\ posts[d] \in Nat /\ attempts'[d] <= attempts[d]
    BY CallbackAssumption DEF Typed, TypeOK
  <2>4. Enough(d, attempts[d] + Cardinality(Unmarked(d)))
    BY DEF AttemptsPosted
  <2> QED
    BY <2>2, <2>3, <2>4 DEF Enough
<1>2. ASSUME NEW q \in Processes
      PROVE  (/\ \A i \in DOMAIN batch[q] : Enough(batch[q][i].debit, batch[q][i].attempts)
              /\ reply[q] # "none" => /\ batch[q] # << >>
                                      /\ Enough(Head(batch[q]).debit, Head(batch[q]).attempts + 1))'
  BY DEF AttemptsPosted, Enough
<1> QED
  BY <1>1, <1>2 DEF AttemptsPosted

\* A worker counts the attempt that it posted: the mark it had pending becomes one
\* in the column.
LEMMA AttemptMarked ==
  ASSUME Typed, Typed', AttemptsPosted, NEW p \in Processes, reply[p] # "none", NextRow(p),
         posts' = posts,
         \A d \in Debits : attempts'[d] <= IF d = Head(batch[p]).debit THEN attempts[d] + 1
                                                                       ELSE attempts[d]
  PROVE  AttemptsPosted'
<1>1. /\ batch[p] # << >> /\ batch'[p] = Tail(batch[p]) /\ reply'[p] = "none"
      /\ \A q \in Processes \ {p} : batch'[q] = batch[q] /\ reply'[q] = reply[q]
  BY NextRowFacts DEF Typed, Marking
<1>2. ASSUME NEW d \in Debits PROVE Enough(d, attempts[d] + Cardinality(Unmarked(d)))'
  <2>1. Unmarked(d)' = Unmarked(d) \ {p} /\ Unmarked(d) \in SUBSET Processes
    BY <1>1 DEF Unmarked
  <2>2. d = Head(batch[p]).debit => p \in Unmarked(d)
    BY DEF Unmarked
  <2>3. /\ Cardinality(Unmarked(d)) \in Nat /\ Cardinality(Unmarked(d) \ {p}) \in Nat
        /\ Cardinality(Unmarked(d) \ {p}) <= Cardinality(Unmarked(d))
        /\ p \in Unmarked(d) => Cardinality(Unmarked(d) \ {p}) = Cardinality(Unmarked(d)) - 1
    BY <2>1, Workers
  <2>4. attempts[d] \in Nat /\ attempts'[d] \in Nat /\ posts[d] \in Nat
    BY CallbackAssumption DEF Typed, TypeOK
  <2>5. Enough(d, attempts[d] + Cardinality(Unmarked(d)))
    BY DEF AttemptsPosted
  <2>6. attempts'[d] + Cardinality(Unmarked(d)') <= attempts[d] + Cardinality(Unmarked(d))
    BY <2>1, <2>2, <2>3, <2>4
  <2> QED
    BY <2>1, <2>3, <2>4, <2>5, <2>6 DEF Enough
<1>3. \A i \in DOMAIN batch'[p] : Enough(batch'[p][i].debit, batch'[p][i].attempts)
  BY <1>1, BatchFacts DEF AttemptsPosted
<1>4. ASSUME NEW q \in Processes
      PROVE  (/\ \A i \in DOMAIN batch[q] : Enough(batch[q][i].debit, batch[q][i].attempts)
              /\ reply[q] # "none" => /\ batch[q] # << >>
                                      /\ Enough(Head(batch[q]).debit, Head(batch[q]).attempts + 1))'
  BY <1>1, <1>3 DEF AttemptsPosted, Enough
<1> QED
  BY <1>2, <1>4 DEF AttemptsPosted

\* A worker posts: there is one post more, and one mark pending more.
LEMMA AttemptPosted ==
  ASSUME Typed, Typed', AttemptsPosted, NEW p \in Processes, NEW o \in Outcomes, Deliver(p, o)
  PROVE  AttemptsPosted'
<1> DEFINE e == Head(batch[p])
<1>1. /\ batch[p] # << >> /\ reply[p] = "none" /\ batch' = batch /\ attempts' = attempts
      /\ \A q \in Processes \ {p} : reply'[q] = reply[q]
      /\ e.debit \in Debits /\ e.attempts \in Nat /\ e = batch[p][1] /\ 1 \in DOMAIN batch[p]
  BY BatchFacts DEF Deliver, Typed, TypeOK, table
<1>2. /\ \A d \in Debits : posts[d] \in 0..MaxRetry /\ posts'[d] \in 0..MaxRetry
      /\ \A d \in Debits : posts[d] <= posts'[d]
      /\ posts'[e.debit] = MaxRetry \/ posts'[e.debit] = posts[e.debit] + 1
  <2>1. posts \in [Debits -> 0..MaxRetry] /\ posts' \in [Debits -> 0..MaxRetry] /\ MaxRetry \in Nat
    BY CallbackAssumption DEF Typed, TypeOK
  <2>2. posts' = [posts EXCEPT ![e.debit] = IF @ < MaxRetry THEN @ + 1 ELSE @]
    BY DEF Deliver
  <2> HIDE DEF e
  <2> QED
    BY <1>1, <2>1, <2>2
<1> HIDE DEF e
<1>3. ASSUME NEW d \in Debits PROVE Enough(d, attempts[d] + Cardinality(Unmarked(d)))'
  <2>1. Unmarked(d) \in SUBSET Processes /\ p \notin Unmarked(d)
    BY <1>1 DEF Unmarked
  <2>2. Unmarked(d)' \in SUBSET (IF d = e.debit THEN Unmarked(d) \cup {p} ELSE Unmarked(d))
    BY <1>1 DEF Unmarked, e
  <2>3. /\ Cardinality(Unmarked(d)) \in Nat /\ Cardinality(Unmarked(d)') \in Nat
        /\ Cardinality(Unmarked(d)') <= Cardinality(Unmarked(d))
             + (IF d = e.debit THEN 1 ELSE 0)
    <3>1. Cardinality(Unmarked(d)) \in Nat /\ Cardinality(Unmarked(d) \cup {p}) = Cardinality(Unmarked(d)) + 1
      BY <2>1, Workers
    <3>2. CASE d = e.debit
      <4>1. Unmarked(d) \cup {p} \in SUBSET Processes /\ Unmarked(d)' \in SUBSET (Unmarked(d) \cup {p})
        BY <2>1, <2>2, <3>2
      <4>2. /\ Cardinality(Unmarked(d)') \in Nat
            /\ Cardinality(Unmarked(d)') <= Cardinality(Unmarked(d) \cup {p})
        BY <4>1, Workers
      <4> QED
        BY <3>1, <3>2, <4>2
    <3>3. CASE d # e.debit
      <4>1. Cardinality(Unmarked(d)') \in Nat /\ Cardinality(Unmarked(d)') <= Cardinality(Unmarked(d))
        BY <2>1, <2>2, <3>3, Workers
      <4> QED
        BY <3>1, <3>3, <4>1
    <3> QED
      BY <3>2, <3>3
  <2>4. attempts[d] \in Nat /\ attempts'[d] = attempts[d]
    BY <1>1 DEF Typed, TypeOK
  <2>5. posts[d] = MaxRetry \/ attempts[d] + Cardinality(Unmarked(d)) <= posts[d]
    BY DEF AttemptsPosted, Enough
  <2>6. posts'[d] = MaxRetry \/ attempts[d] + Cardinality(Unmarked(d)') <= posts'[d]
    BY <1>2, <2>3, <2>4, <2>5, CallbackAssumption
  <2> QED
    BY <2>4, <2>6 DEF Enough
<1>4. ASSUME NEW d \in Debits, NEW n \in Nat, Enough(d, n)
      PROVE  /\ posts'[d] = MaxRetry \/ n <= posts'[d]
             /\ d = e.debit => posts'[d] = MaxRetry \/ n + 1 <= posts'[d]
  BY <1>2, <1>4, CallbackAssumption DEF Enough
<1>5. ASSUME NEW q \in Processes
      PROVE  (/\ \A i \in DOMAIN batch[q] : Enough(batch[q][i].debit, batch[q][i].attempts)
              /\ reply[q] # "none" => /\ batch[q] # << >>
                                      /\ Enough(Head(batch[q]).debit, Head(batch[q]).attempts + 1))'
  <2>1. \A i \in DOMAIN batch[q] : /\ batch[q][i].debit \in Debits /\ batch[q][i].attempts \in Nat
                                   /\ Enough(batch[q][i].debit, batch[q][i].attempts)
    <3>1. batch[q] \in Seq([debit : Debits, attempts : Nat])
      BY DEF Typed, TypeOK
    <3>2. \A i \in DOMAIN batch[q] : batch[q][i] \in [debit : Debits, attempts : Nat]
      BY <3>1, ElementOfSeq, LenProperties
    <3> QED
      BY <3>2 DEF AttemptsPosted
  <2>2. \A i \in DOMAIN batch[q] : \/ posts'[batch[q][i].debit] = MaxRetry
                                   \/ batch[q][i].attempts <= posts'[batch[q][i].debit]
    BY <1>4, <2>1
  <2>3. ASSUME reply'[q] # "none"
        PROVE  batch'[q] # << >> /\ Enough(Head(batch[q]).debit, Head(batch[q]).attempts + 1)'
    <3>1. CASE q = p
      <4>1. Enough(e.debit, e.attempts)
        BY <1>1, <2>1, <3>1
      <4>2. posts'[e.debit] = MaxRetry \/ e.attempts + 1 <= posts'[e.debit]
        BY <1>1, <1>4, <4>1
      <4> QED
        BY <1>1, <3>1, <4>2 DEF e, Enough
    <3>2. CASE q # p
      <4>1. reply[q] # "none" /\ batch[q] # << >>
        BY <1>1, <2>3, <3>2 DEF Typed, Marking
      <4>2. /\ Head(batch[q]).debit \in Debits /\ Head(batch[q]).attempts + 1 \in Nat
            /\ Enough(Head(batch[q]).debit, Head(batch[q]).attempts + 1)
        BY <4>1, BatchFacts DEF AttemptsPosted
      <4> QED
        BY <1>1, <1>4, <4>1, <4>2 DEF Enough
    <3> QED
      BY <3>1, <3>2
  <2> QED
    BY <1>1, <2>2, <2>3 DEF Enough
<1> QED
  BY <1>3, <1>5 DEF AttemptsPosted

\* Whoever posts, marks, fails or dies: no attempt is counted that was not posted.
LEMMA AttemptsStep ==
  ASSUME Typed, Typed', AttemptsPosted, [Next]_vars
  PROVE  AttemptsPosted'
<1>1. ASSUME UNCHANGED <<attempts, batch, reply, posts>> PROVE AttemptsPosted'
  <2>1. \A d \in Debits : attempts'[d] <= attempts[d]
    BY <1>1 DEF Typed, TypeOK
  <2>2. \A q \in Processes : \A i \in DOMAIN batch'[q] :
          Enough(batch'[q][i].debit, batch'[q][i].attempts)
    BY <1>1 DEF AttemptsPosted
  <2> QED
    BY <1>1, <2>1, <2>2, NothingPosted
<1>2. ASSUME NEW d \in Debits, Goroutine(d) \/ BecomeDue(d) PROVE AttemptsPosted'
  BY <1>1, <1>2 DEF Goroutine, PostInProcess, EnqueuePendingCallback, EnqueueFailed, BecomeDue,
                    table, worker
<1>3. ASSUME NEW d \in Debits, NEW p \in Processes, Settled(d, p) PROVE AttemptsPosted'
  BY <1>1, <1>3 DEF Settled, table, worker
<1>4. ASSUME NEW p \in Processes, ListDuePendingCallbacks(p) PROVE AttemptsPosted'
  <2>1. UNCHANGED <<attempts, reply, posts>> /\ reply[p] = "none"
    BY <1>4 DEF ListDuePendingCallbacks, table, Typed, Marking
  <2>2. \A d \in Debits : Enough(d, attempts[d]) /\ attempts'[d] <= attempts[d]
    <3> TAKE d \in Debits
    <3>1. Unmarked(d) \in SUBSET Processes /\ Cardinality(Unmarked(d)) \in Nat
      BY Workers DEF Unmarked
    <3>2. attempts[d] \in Nat /\ posts[d] \in Nat
      BY CallbackAssumption DEF Typed, TypeOK
    <3> QED
      BY <2>1, <3>1, <3>2 DEF AttemptsPosted, Enough
  <2>3. \A q \in Processes : \A i \in DOMAIN batch'[q] :
          Enough(batch'[q][i].debit, batch'[q][i].attempts)
    BY <1>4, <2>2, ListFacts DEF AttemptsPosted
  <2>4. \A q \in Processes : reply'[q] # "none" => reply'[q] = reply[q] /\ batch'[q] = batch[q]
    BY <1>4, <2>1, ListFacts
  <2> QED
    BY <2>1, <2>2, <2>3, <2>4, NothingPosted
<1>5. ASSUME NEW p \in Processes, NEW o \in Outcomes, Deliver(p, o) PROVE AttemptsPosted'
  BY <1>5, AttemptPosted
<1>6. ASSUME NEW p \in Processes, MarkCallbackSucceeded(p) PROVE AttemptsPosted'
  <2>1. reply[p] # "none" /\ NextRow(p) /\ posts' = posts
    BY <1>6 DEF MarkCallbackSucceeded
  <2>2. \A d \in Debits : attempts'[d] \in {0, attempts[d]} /\ attempts[d] \in Nat
    BY <1>6 DEF MarkCallbackSucceeded, Typed, TypeOK
  <2>3. \A d \in Debits : attempts'[d] <= IF d = Head(batch[p]).debit THEN attempts[d] + 1
                                                                      ELSE attempts[d]
    BY <2>2
  <2> QED
    BY <2>1, <2>3, AttemptMarked
<1>7. ASSUME NEW p \in Processes, MarkCallbackAbandoned(p) \/ MarkCallbackRetry(p)
      PROVE  AttemptsPosted'
  <2>1. reply[p] # "none" /\ NextRow(p) /\ posts' = posts
    BY <1>7 DEF MarkCallbackAbandoned, MarkCallbackRetry
  <2>2. \/ attempts' = attempts
        \/ attempts' = [attempts EXCEPT ![Head(batch[p]).debit] = @ + 1]
        \/ attempts' = [attempts EXCEPT ![Head(batch[p]).debit] = @]
    BY <1>7 DEF MarkCallbackAbandoned, MarkCallbackRetry, table
  <2>3. \A d \in Debits : attempts'[d] <= IF d = Head(batch[p]).debit THEN attempts[d] + 1
                                                                      ELSE attempts[d]
    <3>1. attempts \in [Debits -> Nat]
      BY DEF Typed, TypeOK
    <3> QED
      BY <2>2, <3>1
  <2> QED
    BY <2>1, <2>3, AttemptMarked
<1>8. ASSUME NEW p \in Processes, MarkFailed(p) PROVE AttemptsPosted'
  <2>1. reply[p] # "none" /\ NextRow(p) /\ UNCHANGED <<posts, attempts>>
    BY <1>8 DEF MarkFailed, table
  <2>2. \A d \in Debits : attempts'[d] <= IF d = Head(batch[p]).debit THEN attempts[d] + 1
                                                                      ELSE attempts[d]
    BY <2>1 DEF Typed, TypeOK
  <2> QED
    BY <2>1, <2>2, AttemptMarked
<1>9. ASSUME NEW p \in Processes, Crash(p) PROVE AttemptsPosted'
  <2>1. /\ UNCHANGED <<attempts, posts>> /\ batch'[p] = << >> /\ reply'[p] = "none"
        /\ \A q \in Processes \ {p} : batch'[q] = batch[q] /\ reply'[q] = reply[q]
    BY <1>9 DEF Crash, table, Typed, TypeOK
  <2>2. \A d \in Debits : attempts'[d] <= attempts[d]
    BY <2>1 DEF Typed, TypeOK
  <2>3. \A q \in Processes : \A i \in DOMAIN batch'[q] :
          Enough(batch'[q][i].debit, batch'[q][i].attempts)
    BY <2>1 DEF AttemptsPosted
  <2> QED
    BY <2>1, <2>2, <2>3, NothingPosted
<1>10. ASSUME NEW d \in Debits, NEW o \in Outcomes, ReplayUsageDebits(d, o) PROVE AttemptsPosted'
  BY <1>1, <1>10 DEF ReplayUsageDebits, table, worker
<1>11. ASSUME UNCHANGED vars PROVE AttemptsPosted'
  BY <1>1, <1>11 DEF vars, table, worker
<1> QED
  BY <1>2, <1>3, <1>4, <1>5, <1>6, <1>7, <1>8, <1>9, <1>10, <1>11 DEF Next, Worker

\* A row is parked as "abandoned" in a step that found enough posts behind the
\* attempts its worker had read.
LEMMA AbandonedStep ==
  ASSUME Typed, Typed', AttemptsPosted, AbandonedAfterMaxRetry, [Next]_vars
  PROVE  AbandonedAfterMaxRetry'
<1> USE DEF AbandonedAfterMaxRetry
<1>1. ASSUME NEW d \in Debits, status'[d] = "abandoned", status[d] # "abandoned"
      PROVE  \E p \in Processes : /\ MarkCallbackAbandoned(p) /\ reply[p] \notin {"none", "rejected"}
                                  /\ Head(batch[p]).debit = d
  <2> USE DEF Typed, TypeOK
  <2>1. \A e \in Debits : ~Goroutine(e) /\ ~BecomeDue(e)
    BY <1>1 DEF Goroutine, PostInProcess, EnqueuePendingCallback, EnqueueFailed, BecomeDue, table
  <2>2. \A e \in Debits, p \in Processes : ~Settled(e, p)
    BY <1>1 DEF Settled, table
  <2>3. \A p \in Processes : ~ListDuePendingCallbacks(p) /\ ~Crash(p) /\ ~MarkFailed(p)
                             /\ ~MarkCallbackRetry(p) /\ ~MarkCallbackSucceeded(p)
    BY ZenonT(40), <1>1 DEF ListDuePendingCallbacks, Crash, MarkFailed, MarkCallbackRetry,
                MarkCallbackSucceeded, table
  <2>4. \A p \in Processes, o \in Outcomes : ~Deliver(p, o)
    BY <1>1 DEF Deliver, table
  <2>5. \A e \in Debits, o \in Outcomes : ~ReplayUsageDebits(e, o)
    BY <1>1 DEF ReplayUsageDebits, table
  <2>6. ~UNCHANGED vars
    BY <1>1 DEF vars, table
  <2>7. PICK p \in Processes : MarkCallbackAbandoned(p)
    BY <2>1, <2>2, <2>3, <2>4, <2>5, <2>6 DEF Next, Worker
  <2>8. CASE status' = status
    BY <1>1, <2>8
  <2>9. CASE status' = [status EXCEPT ![Head(batch[p]).debit] =
                 IF reply[p] = "rejected" THEN "failed_permanent" ELSE "abandoned"]
    <3>1. Head(batch[p]).debit = d
      BY <1>1, <2>9
    <3>2. reply[p] # "rejected"
      BY <1>1, <2>9, <3>1
    <3>3. reply[p] # "none"
      BY <2>7 DEF MarkCallbackAbandoned
    <3> QED
      BY <2>7, <3>1, <3>2, <3>3
  <2> QED
    BY <2>7, <2>8, <2>9 DEF MarkCallbackAbandoned, table
<1>2. ASSUME NEW d \in Debits PROVE posts[d] \in 0..MaxRetry /\ posts'[d] \in 0..MaxRetry /\ posts[d] <= posts'[d]
  <2>1. posts \in [Debits -> 0..MaxRetry] /\ posts' \in [Debits -> 0..MaxRetry]
    BY DEF Typed, TypeOK
  <2>2. \/ posts' = posts
        \/ \E e : posts' = [posts EXCEPT ![e] = IF @ < MaxRetry THEN @ + 1 ELSE @]
    BY DEF Next, Goroutine, Worker, PostInProcess, EnqueuePendingCallback, EnqueueFailed, BecomeDue,
           Settled, ListDuePendingCallbacks, Deliver, MarkCallbackSucceeded, MarkCallbackAbandoned,
           MarkCallbackRetry, MarkFailed, Crash, ReplayUsageDebits, vars
  <2>3. CASE posts' = posts
    BY <2>1, <2>3, CallbackAssumption
  <2>4. ASSUME NEW e, posts' = [posts EXCEPT ![e] = IF @ < MaxRetry THEN @ + 1 ELSE @]
        PROVE  posts[d] <= posts'[d]
    <3>1. posts[d] \in 0..MaxRetry /\ MaxRetry \in Nat
      BY <2>1, CallbackAssumption
    <3>2. posts'[d] = posts[d] \/ posts'[d] = posts[d] + 1
      BY <2>1, <2>4
    <3> QED
      BY <3>1, <3>2
  <2> QED
    BY <2>1, <2>2, <2>3, <2>4
<1>3. ASSUME NEW d \in Debits, status'[d] = "abandoned" PROVE posts'[d] >= MaxRetry
  <2>1. CASE status[d] = "abandoned"
    BY <1>2, <2>1, CallbackAssumption
  <2>2. CASE status[d] # "abandoned"
    <3>1. PICK p \in Processes : /\ MarkCallbackAbandoned(p) /\ reply[p] \notin {"none", "rejected"}
                                 /\ Head(batch[p]).debit = d
      BY <1>1, <1>3, <2>2
    <3>2. Head(batch[p]).attempts + 1 >= MaxRetry
      BY <3>1 DEF MarkCallbackAbandoned, GiveUp
    <3>3. batch[p] # << >> /\ Head(batch[p]).attempts \in Nat
      BY <3>1, BatchFacts DEF Typed, Marking
    <3>4. posts[d] = MaxRetry \/ Head(batch[p]).attempts + 1 <= posts[d]
      BY <3>1 DEF AttemptsPosted, Enough
    <3> QED
      BY <1>2, <3>2, <3>3, <3>4, CallbackAssumption
  <2> QED
    BY <2>1, <2>2
<1> QED
  BY <1>3

\* No row is given up as "abandoned" before MaxRetry posts of it were made, for
\* any number of workers that read, post and mark the same row.
THEOREM GivenUpAfterMaxRetry == Spec => []AbandonedAfterMaxRetry
<1> DEFINE Inv == AttemptsPosted /\ AbandonedAfterMaxRetry
<1>1. Init => Inv
  <2> SUFFICES ASSUME Init PROVE Inv
    OBVIOUS
  <2>1. AttemptsPosted
    <3>1. \A d \in Debits : Unmarked(d) = {}
      BY DEF Init, Unmarked
    <3>2. \A d \in Debits : attempts[d] + Cardinality(Unmarked(d)) = 0 /\ posts[d] = 0
      <4>1. \A d \in Debits : Cardinality(Unmarked(d)) = 0
        BY <3>1, FS_EmptySet
      <4> QED
        BY <4>1 DEF Init
    <3>3. \A p \in Processes : batch[p] = << >> /\ reply[p] = "none" /\ DOMAIN batch[p] = {}
      BY DEF Init
    <3>4. \A d \in Debits : Enough(d, attempts[d] + Cardinality(Unmarked(d)))
      BY <3>2 DEF Enough
    <3>5. \A p \in Processes : \A i \in DOMAIN batch[p] : Enough(batch[p][i].debit, batch[p][i].attempts)
      BY <3>3
    <3> QED
      BY <3>3, <3>4, <3>5 DEF AttemptsPosted
  <2> QED
    BY <2>1 DEF Init, AbandonedAfterMaxRetry
<1>2. Typed /\ Inv /\ [Next]_vars => Inv'
  BY TypedStep, AttemptsStep, AbandonedStep
<1>3. Inv => AbandonedAfterMaxRetry
  OBVIOUS
<1> QED
  BY <1>1, <1>2, <1>3, TypesHold, PTL DEF Spec
=============================================================================
