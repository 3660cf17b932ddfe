---- MODULE RequestPipeline_proofs ----
(***************************************************************************)
(* The chat and Messages pipeline keeps its safety properties for every    *)
(* capture limit, every number of faults, every token count and every      *)
(* price. Four inductive invariants, one above the other, carry the        *)
(* proofs:                                                                 *)
(*                                                                         *)
(*   Control  relates the place of the handler, the step of the            *)
(*            settlement, the deferred finalize, the ledger row and the    *)
(*            reservation to each other;                                   *)
(*   Stream   says what upstream may have sent so far and that the capture *)
(*            is the last bytes of it;                                     *)
(*   Account  says where the body and the status that are settled came     *)
(*            from;                                                        *)
(*   Delivery says that the client has the safe form of the whole events   *)
(*            read so far and that the unfinished one is kept back.        *)
(*                                                                         *)
(* What the usage parser computes is proved along the events of a stream   *)
(* by taking the least number at which a claim would fail (Least, UpTo).   *)
(***************************************************************************)
EXTENDS RequestPipeline, WellFoundedInduction, SequenceTheorems, TLAPS

-----------------------------------------------------------------------------
(* Induction                                                               *)

\* A set of numbers that is not empty has a least element, on which the
\* inductions below rest.
LEMMA Least ==
  ASSUME NEW T \in SUBSET Nat, T # {}
  PROVE  \E n \in T : \A m \in T : n <= m
<1> DEFINE R == OpToRel(<, Nat)
<1>1. IsWellFoundedOn(R, Nat)
  BY NatLessThanWellFounded
<1>2. ASSUME NEW a \in Nat, NEW b \in Nat, <<a, b>> \notin R
      PROVE  b <= a
  BY <1>2 DEF OpToRel
<1> HIDE DEF R
<1>3. PICK n \in T : \A m \in T : <<m, n>> \notin R
  BY <1>1, WFMin
<1>4. \A m \in T : n <= m
  BY <1>2, <1>3
<1> QED
  BY <1>4

\* Induction up to a bound, for a set instead of a property.
LEMMA UpTo ==
  ASSUME NEW N \in Nat, NEW G, 0 \in G,
         \A n \in 1..N : n - 1 \in G => n \in G
  PROVE  0..N \subseteq G
<1> DEFINE T == (0..N) \ G
<1> SUFFICES ASSUME T # {} PROVE FALSE
  OBVIOUS
<1>1. T \in SUBSET Nat
  OBVIOUS
<1> HIDE DEF T
<1>2. PICK n \in T : \A m \in T : n <= m
  BY <1>1, Least
<1> USE DEF T
<1>3. n \in 1..N /\ n - 1 \in 0..N
  BY <1>2
<1>4. n - 1 \notin T
  BY <1>2, <1>3
<1> QED
  BY <1>3, <1>4

-----------------------------------------------------------------------------
(* What parseUsageFromSSEBody makes of a stream                            *)

\* The accumulator of parseUsageFromSSEBody after each event.
Accumulates(f, parts, N) ==
  f = [n \in 0..N |-> IF n = 0 THEN NoEvents ELSE ParseEvent(f[n - 1], parts[n])]

\* The accumulator exists for every number of events.
LEMMA AccumulatorExists ==
  ASSUME NEW parts, NEW N \in Nat
  PROVE  \E f : Accumulates(f, parts, N)
<1> DEFINE G == {n \in 0..N : \E f : Accumulates(f, parts, n)}
<1>1. 0 \in G
  <2> DEFINE f == [n \in 0..0 |-> NoEvents]
  <2>1. Accumulates(f, parts, 0)
    BY DEF Accumulates
  <2> QED
    BY <2>1
<1>2. ASSUME NEW n \in 1..N, n - 1 \in G
      PROVE  n \in G
  <2>1. PICK f : Accumulates(f, parts, n - 1)
    BY <1>2
  <2> DEFINE h == [i \in 0..n |-> IF i = n THEN ParseEvent(f[n - 1], parts[n]) ELSE f[i]]
  <2>2. ASSUME NEW i \in 0..n
        PROVE  h[i] = IF i = 0 THEN NoEvents ELSE ParseEvent(h[i - 1], parts[i])
    <3>1. CASE i = n
      <4>1. i - 1 \in 0..n /\ i - 1 # n /\ i # 0
        BY <3>1
      <4>2. h[i - 1] = f[n - 1] /\ h[i] = ParseEvent(f[n - 1], parts[n])
        BY <3>1, <4>1
      <4> QED
        BY <3>1, <4>1, <4>2
    <3>2. CASE i # n
      <4>1. i \in 0..(n - 1)
        BY <3>2
      <4>2. f[i] = IF i = 0 THEN NoEvents ELSE ParseEvent(f[i - 1], parts[i])
        BY <2>1, <4>1 DEF Accumulates
      <4>3. h[i] = f[i] /\ (i # 0 => h[i - 1] = f[i - 1])
        BY <4>1
      <4> QED
        BY <4>2, <4>3
    <3> QED
      BY <3>1, <3>2
  <2>3. Accumulates(h, parts, n)
    BY <2>2 DEF Accumulates
  <2> QED
    BY <2>3
<1> HIDE DEF G
<1>3. 0..N \subseteq G
  BY <1>1, <1>2, UpTo
<1> QED
  BY <1>3 DEF G

\* The usage parseUsageFromSSEBody makes of the accumulator.
Conclude(acc) ==
  LET out == IF acc.completion = 0 THEN EstimateTokens(acc.chars) ELSE acc.completion
  IN [prompt |-> acc.prompt, completion |-> out,
      total |-> IF acc.total = 0 THEN acc.prompt + out ELSE acc.total]

\* parseUsageFromSSEBody computes the accumulator after the last event and
\* concludes from it.
LEMMA Accumulated ==
  ASSUME NEW parts, Len(parts) \in Nat
  PROVE  \E f : /\ f[0] = NoEvents
                /\ \A n \in 1..Len(parts) : f[n] = ParseEvent(f[n - 1], parts[n])
                /\ ParseUsageFromSSEBody(parts) = Conclude(f[Len(parts)])
<1> DEFINE f == CHOOSE g : Accumulates(g, parts, Len(parts))
<1>1. Accumulates(f, parts, Len(parts))
  <2>1. \E g : Accumulates(g, parts, Len(parts))
    BY AccumulatorExists
  <2> QED
    BY <2>1
<1>2. ParseUsageFromSSEBody(parts) = Conclude(f[Len(parts)])
  BY DEF ParseUsageFromSSEBody, Conclude, Accumulates
<1> HIDE DEF f
<1>3. f[0] = NoEvents /\ \A n \in 1..Len(parts) : f[n] = ParseEvent(f[n - 1], parts[n])
  BY <1>1 DEF Accumulates
<1> QED
  BY <1>2, <1>3

\* What the accumulator and the usage range over.
Accumulators == [prompt : Nat, completion : Nat, total : Nat, chars : Nat, final : BOOLEAN]
Usages       == [prompt : Nat, completion : Nat, total : Nat]

\* The usage of one payload is three numbers.
LEMMA PayloadTyped ==
  ASSUME NEW k
  PROVE  ParseUsageFromPayload(k) \in Usages /\ ContentChars(k) \in Nat
<1>1. Prompt \in Nat /\ Completion \in Nat /\ Running \in Nat /\ TextChars \in Nat
  BY ResponseAssumption
<1>2. ContentChars(k) \in Nat
  BY <1>1 DEF ContentChars
<1>3. ParseUsageFromPayload(k) \in Usages
  BY <1>1 DEF ParseUsageFromPayload, Usages, NoUsage
<1> QED
  BY <1>2, <1>3

\* An event keeps the accumulator in its range.
LEMMA EventTyped ==
  ASSUME NEW acc \in Accumulators, NEW k
  PROVE  ParseEvent(acc, k) \in Accumulators
<1> DEFINE u == ParseUsageFromPayload(k)
<1>1. u \in Usages /\ ContentChars(k) \in Nat
  BY PayloadTyped
<1> HIDE DEF u
<1>2. [acc EXCEPT !.chars = @ + ContentChars(k)] \in Accumulators
  BY <1>1 DEF Accumulators
<1> QED
  BY <1>1, <1>2 DEF ParseEvent, Accumulators, Usages, u, IsFinalSSEEvent

\* So does the conclusion.
LEMMA ConcludeTyped ==
  ASSUME NEW acc \in Accumulators
  PROVE  Conclude(acc) \in Usages
BY DEF Conclude, Accumulators, Usages, EstimateTokens

\* The accumulator before the first event.
LEMMA NoEventsTyped ==
  /\ NoEvents \in Accumulators
  /\ NoEvents.prompt = 0 /\ NoEvents.completion = 0 /\ NoEvents.total = 0 /\ NoEvents.chars = 0
BY DEF NoEvents, Accumulators

\* Whatever the events, their usage is three numbers.
LEMMA UsageTyped ==
  ASSUME NEW parts, Len(parts) \in Nat
  PROVE  ParseUsageFromSSEBody(parts) \in Usages
<1>1. PICK f : /\ f[0] = NoEvents
               /\ \A n \in 1..Len(parts) : f[n] = ParseEvent(f[n - 1], parts[n])
               /\ ParseUsageFromSSEBody(parts) = Conclude(f[Len(parts)])
  BY Accumulated
<1> DEFINE G == {n \in Nat : f[n] \in Accumulators}
<1>2. 0 \in G
  BY <1>1, NoEventsTyped
<1>3. ASSUME NEW n \in 1..Len(parts), n - 1 \in G
      PROVE  n \in G
  BY <1>1, <1>3, EventTyped
<1> HIDE DEF G
<1>4. 0..Len(parts) \subseteq G
  BY <1>2, <1>3, UpTo
<1>5. f[Len(parts)] \in Accumulators
  BY <1>4 DEF G
<1> QED
  BY <1>1, <1>5, ConcludeTyped

\* A payload that neither holds content nor reports tokens.
Silent(k) == ContentChars(k) = 0 /\ ParseUsageFromPayload(k) = NoUsage

\* Such a payload leaves the counts as they are.
LEMMA SilentEvent ==
  ASSUME NEW acc \in Accumulators, NEW k, Silent(k)
  PROVE  /\ ParseEvent(acc, k).prompt = acc.prompt
         /\ ParseEvent(acc, k).completion = acc.completion
         /\ ParseEvent(acc, k).total = acc.total /\ ParseEvent(acc, k).chars = acc.chars
BY DEF Silent, ParseEvent, NoUsage, Accumulators

\* A stream of such payloads has used nothing.
LEMMA SilentStream ==
  ASSUME NEW parts, Len(parts) \in Nat, \A i \in 1..Len(parts) : Silent(parts[i])
  PROVE  ParseUsageFromSSEBody(parts).total = 0
<1>1. PICK f : /\ f[0] = NoEvents
               /\ \A n \in 1..Len(parts) : f[n] = ParseEvent(f[n - 1], parts[n])
               /\ ParseUsageFromSSEBody(parts) = Conclude(f[Len(parts)])
  BY Accumulated
<1> DEFINE Zero(a) == /\ a \in Accumulators
                      /\ a.prompt = 0 /\ a.completion = 0 /\ a.total = 0 /\ a.chars = 0
           G == {n \in Nat : Zero(f[n])}
<1>2. 0 \in G
  BY <1>1, NoEventsTyped
<1>3. ASSUME NEW n \in 1..Len(parts), n - 1 \in G
      PROVE  n \in G
  <2>1. Zero(f[n - 1]) /\ f[n] = ParseEvent(f[n - 1], parts[n]) /\ Silent(parts[n]) /\ n \in Nat
    BY <1>1, <1>3
  <2> QED
    BY <2>1, EventTyped, SilentEvent
<1> HIDE DEF G
<1>4. 0..Len(parts) \subseteq G
  BY <1>2, <1>3, UpTo
<1>5. Zero(f[Len(parts)])
  BY <1>4 DEF G
<1>6. EstimateTokens(0) = 0
  BY DEF EstimateTokens
<1> QED
  BY <1>1, <1>5, <1>6 DEF Conclude
-----------------------------------------------------------------------------
(* What recordUsage decides                                                *)

\* The completeness of a body is one of three classes.
LEMMA Classes ==
  ASSUME NEW b
  PROVE  ClassifyCompletionBody(b) \in {"complete", "partial", "empty"}
BY DEF ClassifyCompletionBody, ClassifySSECompletion

\* The ledger and the counters agree on what a success is: the error code is
\* empty exactly when the answer counts.
LEMMA CodeOfSuccess ==
  ASSUME NEW c, NEW b, c = 200 \/ c = 400 \/ c = 499 \/ c = 503
  PROVE  LedgerErrorCode(c, b) = "" <=> ShouldCountAsSuccess(c, b)
BY Classes DEF LedgerErrorCode, ShouldCountAsSuccess, StatusClientClosedRequest

\* A disconnect that is charged for the tokens the provider reported.
PaidQuit(c, b) == c = StatusClientClosedRequest /\ ParseUsageFromBody(b).total > 0

\* What recordUsage writes: the code of the row, whether the request is charged
\* and counted, and its price in credits.
LEMMA RowCode ==
  ASSUME NEW m, NEW c, NEW b, NEW st
  PROVE  UsageRow(m, c, b, st).code = LedgerErrorCode(c, b)
BY DEF UsageRow

\* A row is charged without an error code, or for a paid disconnect.
LEMMA RowCharge ==
  ASSUME NEW m, NEW c, NEW b, NEW st
  PROVE  UsageRow(m, c, b, st).charge <=> (LedgerErrorCode(c, b) = "" \/ PaidQuit(c, b))
BY DEF UsageRow, DecideSettlementBilling, PaidQuit

\* A row is counted when it is charged, and for a disconnect of an unlimited plan
\* after the provider started.
LEMMA RowCount ==
  ASSUME NEW m, NEW c, NEW b, NEW st
  PROVE  UsageRow(m, c, b, st).count <=>
           \/ LedgerErrorCode(c, b) = "" \/ PaidQuit(c, b)
           \/ c = StatusClientClosedRequest /\ st /\ m = "unlimited"
BY DEF UsageRow, DecideSettlementBilling, PaidQuit

\* The credits of a row are the price of its billed tokens, for the modes that
\* have credits, and nothing otherwise.
LEMMA RowCredits ==
  ASSUME NEW m, NEW c, NEW b, NEW st
  PROVE  UsageRow(m, c, b, st).credits =
           IF (LedgerErrorCode(c, b) = "" \/ PaidQuit(c, b)) /\ m \in {"credit_package", "unlimited"}
           THEN CalculateActualRequestCredits(BilledTokens(ParseUsageFromBody(b))) ELSE 0
BY DEF UsageRow, DecideSettlementBilling, ActualCredits, PaidQuit

\* The handler that commits the counters decides as recordUsage does.
LEMMA SameDecision ==
  ASSUME NEW m, NEW c, NEW b, LedgerErrorCode(c, b) = "" <=> ShouldCountAsSuccess(c, b)
  PROVE  ShouldCountSettlementRequest(m, c, b, TRUE) <=> UsageRow(m, c, b, TRUE).count
<1>1. ShouldCountSettlementRequest(m, c, b, TRUE) <=>
        \/ ShouldCountAsSuccess(c, b) \/ PaidQuit(c, b)
        \/ c = StatusClientClosedRequest /\ m = "unlimited"
  BY DEF ShouldCountSettlementRequest, DecideSettlementBilling, PaidQuit
<1>2. UsageRow(m, c, b, TRUE).count <=>
        \/ LedgerErrorCode(c, b) = "" \/ PaidQuit(c, b)
        \/ c = StatusClientClosedRequest /\ m = "unlimited"
  BY RowCount
<1> QED
  BY <1>1, <1>2

\* An upstream error has an error code and is no disconnect.
LEMMA ErrorCodes ==
  ASSUME NEW c, NEW b, c = 400 \/ c = 503
  PROVE  LedgerErrorCode(c, b) # "" /\ c # StatusClientClosedRequest
BY DEF LedgerErrorCode, StatusClientClosedRequest

\* A redirection counts for the ledger when it is whole, and never in Redis.
LEMMA Redirected ==
  ASSUME NEW m, NEW b
  PROVE  ~ShouldCountSettlementRequest(m, 300, b, TRUE)
<1>1. ~ShouldCountAsSuccess(300, b)
  BY DEF ShouldCountAsSuccess
<1>2. 300 # StatusClientClosedRequest
  BY DEF StatusClientClosedRequest
<1> QED
  BY <1>1, <1>2 DEF ShouldCountSettlementRequest, DecideSettlementBilling

\* A row with an error code that is no paid disconnect costs nothing.
LEMMA ErrorsAreFree ==
  ASSUME NEW m, NEW c, NEW b, NEW st, LedgerErrorCode(c, b) # "", ~PaidQuit(c, b),
         ~(c = StatusClientClosedRequest /\ st /\ m = "unlimited")
  PROVE  /\ ~UsageRow(m, c, b, st).charge /\ ~UsageRow(m, c, b, st).count
         /\ UsageRow(m, c, b, st).credits = 0
<1>3. ~UsageRow(m, c, b, st).charge
  BY RowCharge
<1>4. ~UsageRow(m, c, b, st).count
  BY RowCount
<1>5. UsageRow(m, c, b, st).credits = 0
  BY RowCredits
<1> QED
  BY <1>3, <1>4, <1>5

\* recordUsage never writes the code of a refusal.
LEMMA RowCodes ==
  ASSUME NEW m, NEW c, NEW b, NEW st
  PROVE  UsageRow(m, c, b, st).code \notin {"none", "rejected"} /\ UsageRow(m, c, b, st) # NoRow
<1>1. LedgerErrorCode(c, b) \notin {"none", "rejected"}
  BY DEF LedgerErrorCode
<1>2. NoRow.code = "none"
  BY DEF NoRow
<1>3. UsageRow(m, c, b, st).code = LedgerErrorCode(c, b)
  BY RowCode
<1> QED
  BY <1>1, <1>2, <1>3
-----------------------------------------------------------------------------
(* The control of the request                                              *)

\* The row recordUsage writes for the body in hand, and the one it writes for a
\* client that left before upstream answered.
Row  == UsageRow(mode, code, body, providerStarted)
Quit == UsageRow(mode, StatusClientClosedRequest, NoBody, FALSE)

\* What Redis should count, and whether the settlement is posted.
Commits == Row.count /\ ~CountedApart
Posting == settlement.charge /\ CallbackEnabled /\ AmountDue(settlement) > 0

\* The statuses of an upstream error.
Refusals == {400, 499, 503}

\* The amount a flag adds to a counter.
One(b) == IF b THEN 1 ELSE 0

\* Where no settlement has begun.
Before == {"arrived", "limited", "calling", "unanswered", "streaming", "reading"}

\* The types of the scalar state.
Types ==
  /\ route \in Routes /\ mode \in Modes
  /\ pc \in Before \cup {"captured", "answering", "leaving", "done"}
  /\ status \in {0, 200, 300, 400, 499, 503} /\ sent \in Nat /\ faults \in Nat
  /\ job \in {"none", "record", "finalize", "release", "over"}
  /\ hold \in {"none", "held", "settled"}
  /\ finals \in Nat /\ counted \in Nat /\ posted \in Nat
  /\ gone \in BOOLEAN /\ armed \in BOOLEAN /\ failed \in BOOLEAN /\ streamed \in BOOLEAN
  /\ counters \in {"none", "held", "committed", "returned"}

\* Until then nothing was written, and the deferred finalize guards every hold.
Fresh ==
  pc \in Before =>
    /\ job = "none" /\ row = NoRow /\ finals = 0 /\ counted = 0 /\ paid = EmptySettlement
    /\ hold \in {"none", "held"} /\ (armed <=> hold = "held") /\ counters \in {"none", "held"}

\* What a place in the handler says about the request.
Places ==
  /\ streamed => Chatting
  /\ pc \in {"limited", "streaming", "captured", "answering"} => Chatting
  /\ pc \in {"calling", "unanswered", "reading", "streaming", "captured", "answering"} /\ Chatting =>
       armed /\ counters = "held"
  /\ pc = "limited" => counters = "held"
  /\ pc \in {"arrived", "limited", "done"} => ~armed
  /\ pc \in {"arrived", "limited", "calling", "unanswered"} => status = 0
  /\ pc \in {"streaming", "captured"} => streamed /\ status \in {200, 300}
  /\ pc = "reading" => status # 0 /\ ~(streamed /\ status \in {200, 300})
  /\ pc = "answering" => route = "messages" /\ job # "none" /\ code = status /\ status \in Refusals

\* What a step of the settlement says about row, settlement and reservation.
Jobs ==
  /\ job # "none" => Chatting /\ pc \notin Before /\ code \in {200, 300, 400, 499, 503} /\ status # 0
  /\ job \in {"none", "record", "finalize"} => ~failed
  /\ job \in {"none", "record", "release"} => settlement = EmptySettlement
  /\ job # "over" => posted = 0
  /\ job \in {"record", "release"} => row = NoRow
  /\ job \in {"record", "finalize", "release"} =>
       finals = 0 /\ counted = 0 /\ paid = EmptySettlement /\ hold = "held"
  /\ job = "finalize" => row = Row /\ settlement = Row
  /\ job = "release" => failed
  /\ job = "over" => /\ row \in {NoRow, Row} /\ settlement \in {EmptySettlement, Row}
                     /\ row = Row => settlement = Row
                     /\ row = NoRow => failed
  /\ pc = "captured" /\ job = "none" =>
       row = NoRow /\ finals = 0 /\ counted = 0 /\ paid = EmptySettlement /\ hold = "held"
  /\ pc \in {"leaving", "done"} /\ armed =>
       job \in {"none", "over"} /\ (job = "over" => failed /\ code = status /\ code \in Refusals)

\* What holds as long as no statement failed: a hold is still guarded or was
\* settled once, and only the settlement of an upstream error can have failed,
\* because the client left.
Faultless ==
  faults = 0 =>
    /\ job = "release" => gone /\ pc = "answering"
    /\ hold = "held" =>
         finals = 0 /\ (pc \in {"leaving", "done"} => armed \/ job \in {"record", "finalize", "release"})
    /\ hold = "none" => finals = 0 /\ ~armed /\ job = "none"
    /\ hold = "settled" => /\ finals = 1 /\ job \in {"none", "over"} /\ pc \notin Before
                           /\ pc = "leaving" => ~armed
                           /\ pc = "answering" => ~failed
    /\ failed => pc # "captured"
    /\ pc = "answering" /\ job = "over" => (failed <=> hold = "held")
    /\ job = "over" /\ ~failed =>
         /\ hold = "settled" /\ paid = settlement /\ counted = One(settlement.count)
         /\ posted = One(Posting) /\ (mode # "unlimited" => invalidated)
    /\ job = "over" /\ failed =>
         /\ code = status /\ code \in Refusals /\ paid = EmptySettlement /\ posted = 0
         /\ code # 499 => counted = 0

\* The counters were committed by the decision the row records.
Agreed ==
  pc \in {"leaving", "done"} /\ job # "none" /\ (job = "record" \/ row # NoRow) =>
     (counters = "committed" <=> Commits)

\* A settled row without a settlement job is that of a client who left early.
Quitted ==
  Settled /\ job = "none" =>
    /\ row = Quit /\ pc \in {"leaving", "done"} /\ counters # "committed" /\ ~armed /\ status = 0
    /\ faults = 0 => paid = row /\ counted = 0

\* How often upstream may have got the request.
SentPlaces ==
  /\ pc \in {"arrived", "limited", "calling"} => sent = 0
  /\ pc = "unanswered" => sent <= 1
  /\ pc \in {"streaming", "captured", "reading", "answering"} => sent = 1

\* The invariant of the control.
Control ==
  Types /\ Fresh /\ Places /\ Jobs /\ Faultless /\ Agreed /\ Quitted /\ SentPlaces /\ SentOnce

-----------------------------------------------------------------------------
(* What the actions that settle do to the reservation and the row          *)

\* The row depends only on the mode, the status, the body and providerStarted.
LEMMA RowSame ==
  ASSUME UNCHANGED <<mode, code, body, providerStarted>>
  PROVE  Row' = Row
BY DEF Row

\* So does what Redis should count, with the request and the status.
LEMMA CommitSame ==
  ASSUME UNCHANGED <<mode, code, body, providerStarted, streamed, status>>
  PROVE  Commits' = Commits
<1>1. Row' = Row
  BY RowSame
<1> QED
  BY <1>1 DEF Commits, CountedApart

\* Whether a settlement is posted depends on it and the mode.
LEMMA PostingSame ==
  ASSUME UNCHANGED <<mode, settlement>>
  PROVE  Posting' = Posting
BY DEF Posting, AmountDue, CostUSD

\* The row of an early disconnect depends only on the mode.
LEMMA QuitSame ==
  ASSUME UNCHANGED mode
  PROVE  Quit' = Quit
BY DEF Quit

\* A client that left before upstream answered pays nothing.
LEMMA QuitFree == ~Quit.charge /\ ~Quit.count /\ Quit.credits = 0
<1>1. LedgerErrorCode(StatusClientClosedRequest, NoBody) # ""
  BY DEF LedgerErrorCode
<1>2. ParseUsageFromBody(NoBody) = ParseUsageFromSSEBody(<<>>)
  BY DEF ParseUsageFromBody, NoBody
<1>3. Len(<<>>) = 0
  OBVIOUS
<1>4. ParseUsageFromSSEBody(<<>>).total = 0
  BY <1>3, SilentStream
<1>5. ~PaidQuit(StatusClientClosedRequest, NoBody)
  BY <1>2, <1>4 DEF PaidQuit
<1> QED
  BY <1>1, <1>5, ErrorsAreFree DEF Quit

\* A row that recordUsage writes is no refusal and not the absence of a row.
LEMMA RowIsRow == Row.code \notin {"none", "rejected"} /\ Row # NoRow
BY RowCodes DEF Row

\* An empty settlement charges and counts nothing.
LEMMA EmptyFacts ==
  /\ ~EmptySettlement.count /\ ~EmptySettlement.charge /\ EmptySettlement.credits = 0
  /\ EmptySettlement.code = ""
BY DEF EmptySettlement

\* The row of a refusal has the code of a refusal.
LEMMA RejectedFacts == FailedRow("rejected").code = "rejected"
BY DEF FailedRow, EmptySettlement

\* What DisconnectedBeforeAnswer does: the row and the finalize of the
\* reservation, of which one may fail.
QuitStep ==
  /\ pc = "unanswered" /\ gone /\ Chatting
  /\ pc' = "leaving" /\ armed' = FALSE
  /\ UNCHANGED <<input, gone, answer, result, counters, task, after, counted>>
  /\ \/ /\ row' = Quit /\ hold' = "settled" /\ paid' = Quit /\ finals' = finals + 1
        /\ faults' = faults
     \/ /\ row' = Quit /\ faults' = faults + 1
        /\ UNCHANGED <<hold, paid, finals>>
     \/ /\ row' = row /\ hold' = "settled" /\ paid' = EmptySettlement /\ finals' = finals + 1
        /\ faults' = faults + 1
     \/ /\ UNCHANGED <<row, hold, paid, finals>>
        /\ faults' = faults + 1

\* DisconnectedBeforeAnswer is such a step.
LEMMA QuitFacts ==
  ASSUME counted \in Nat, DisconnectedBeforeAnswer
  PROVE  QuitStep
<1>1. counted + 0 = counted
  OBVIOUS
<1> QED
  BY <1>1, QuitFree, EmptyFacts
     DEF QuitStep, DisconnectedBeforeAnswer, Apply, CountedOrNot, Quit

\* What AllCandidatesFailed does: it finalizes the reservation, or tries to, or
\* left it to the deferred finalize.
UnansweredStep ==
  /\ pc \in {"calling", "unanswered"} /\ Chatting /\ pc' = "leaving"
  /\ counted' = counted \/ counted' = counted + 1
  /\ UNCHANGED <<input, gone, answer, result, counters, task, row, after>>
  /\ \/ /\ hold' = "settled" /\ finals' = finals + 1 /\ armed' = FALSE /\ faults' = faults
     \/ /\ UNCHANGED <<hold, armed, paid, finals>>
        /\ faults' = faults + 1
     \/ UNCHANGED <<hold, armed, paid, finals, faults>>

\* AllCandidatesFailed is such a step.
LEMMA UnansweredFacts ==
  ASSUME counted \in Nat, AllCandidatesFailed
  PROVE  UnansweredStep
<1> DEFINE s == [EmptySettlement EXCEPT !.count = TRUE]
<1>1. counted + (IF s.count THEN 1 ELSE 0) \in {counted, counted + 1}
  OBVIOUS
<1> HIDE DEF s
<1> QED
  BY <1>1 DEF UnansweredStep, AllCandidatesFailed, Apply, CountedOrNot, Succeeds, Fails, s

\* What the deferred finalize does: it returns the hold or fails.
DeferredStep ==
  /\ pc = "leaving" /\ armed /\ armed' = FALSE
  /\ UNCHANGED <<input, pc, gone, answer, result, counters, task, row, after, counted>>
  /\ \/ /\ hold' = "settled" /\ paid' = EmptySettlement
        /\ finals' = finals + 1 /\ faults' = faults
     \/ UNCHANGED <<hold, paid, finals>> /\ faults' = faults + 1

\* DeferredFinalize is such a step.
LEMMA DeferredFacts ==
  ASSUME counted \in Nat, DeferredFinalize
  PROVE  DeferredStep
<1>1. counted + 0 = counted
  OBVIOUS
<1> QED
  BY <1>1, EmptyFacts DEF DeferredStep, DeferredFinalize, Apply, Fails

\* What the finalize of the settlement does.
FinalizeStep ==
  /\ job \in {"finalize", "release"} /\ ~(OnRequestContext /\ gone) /\ job' = "over"
  /\ hold' = "settled" /\ paid' = settlement /\ finals' = finals + 1
  /\ counted' = counted + One(settlement.count)
  /\ posted' = posted + One(Posting)
  /\ faults' = faults \/ faults' = faults + 1
  /\ job = "finalize" /\ mode # "unlimited" /\ faults' = faults => invalidated'
  /\ UNCHANGED <<input, pc, gone, answer, result, counters, armed, failed,
                 settlement, row, legacy>>

\* Finalize is such a step.
LEMMA FinalizeFacts ==
  ASSUME faults \in Nat, Finalize
  PROVE  FinalizeStep
<1>1. counted' = counted + One(settlement.count) /\ posted' = posted + One(Posting)
  BY DEF Finalize, Apply, PostUsageDebit, One, Posting
<1>2. /\ faults' = faults \/ faults' = faults + 1
      /\ job = "finalize" /\ mode # "unlimited" /\ faults' = faults => invalidated'
  <2>1. CASE job = "finalize" /\ mode # "unlimited"
    <3>1. \/ invalidated' = TRUE /\ UNCHANGED faults
          \/ faults < MaxFaults /\ faults' = faults + 1
      BY <2>1 DEF Finalize, InvalidateUser
    <3> QED
      BY <2>1, <3>1, PipelineAssumption
  <2>2. CASE ~(job = "finalize" /\ mode # "unlimited")
    BY <2>2 DEF Finalize, InvalidateUser
  <2> QED
    BY <2>1, <2>2
<1> QED
  BY <1>1, <1>2 DEF FinalizeStep, Finalize, Apply

\* What a failed finalize does: the hold stays, the period counter may have been
\* written.
FinalizeFailedStep ==
  /\ job \in {"finalize", "release"} /\ job' = "over" /\ failed' = TRUE
  /\ faults' = faults + 1 \/ (OnRequestContext /\ gone /\ faults' = faults)
  /\ counted' = counted \/ counted' = counted + One(settlement.count)
  /\ UNCHANGED <<input, pc, gone, answer, result, counters, hold, armed,
                 settlement, row, paid, finals, after>>

\* FinalizeFailed is such a step.
LEMMA FinalizeFailedFacts ==
  ASSUME FinalizeFailed
  PROVE  FinalizeFailedStep
BY DEF FinalizeFailedStep, FinalizeFailed, CountedOrNot, One, Fails

\* What the images handler does once it has read the answer.
ImagesStep ==
  /\ pc = "reading" /\ route = "images" /\ pc' = "leaving"
  /\ armed' = (armed /\ status >= 400)
  /\ counted' = counted \/ counted' = counted + 1
  /\ \/ /\ status < 400 /\ armed /\ hold' = "settled" /\ finals' = finals + 1
        /\ faults' = faults \/ faults' = faults + 1
     \/ /\ ~(status < 400 /\ armed) /\ UNCHANGED <<hold, paid, finals>>
        /\ faults' = faults \/ faults' = faults + 1
     \/ UNCHANGED <<hold, paid, finals>> /\ faults' = faults + 1
  /\ UNCHANGED <<input, gone, call, wire, captured, pending, providerStarted, cut,
                 result, counters, task, after>>

\* ImagesRead is such a step.
LEMMA ImagesFacts ==
  ASSUME counted \in Nat, ImagesRead
  PROVE  ImagesStep
<1> DEFINE s == [EmptySettlement EXCEPT !.charge = TRUE, !.count = TRUE]
<1>1. counted + (IF s.count THEN 1 ELSE 0) \in {counted, counted + 1}
  OBVIOUS
<1> HIDE DEF s
<1> QED
  BY <1>1 DEF ImagesStep, ImagesRead, Apply, CountedOrNot, Succeeds, Fails, s

\* A counter stays a number.
LEMMA AddOne ==
  ASSUME NEW n \in Nat, NEW b
  PROVE  n + One(b) \in {n, n + 1} /\ n + One(b) \in Nat
BY DEF One

-----------------------------------------------------------------------------
(* Every step keeps the control                                            *)

\* Every step keeps the types.
LEMMA TypesStep ==
  ASSUME Types, [Next]_vars
  PROVE  Types'
<1>1. CASE AllCandidatesFailed
  <2>1. UnansweredStep
    BY <1>1, UnansweredFacts DEF Types
  <2>2. counted' \in Nat /\ finals' \in Nat /\ faults' \in Nat
    BY <2>1 DEF UnansweredStep, Types
  <2>3. armed' \in BOOLEAN /\ hold' \in {"none", "held", "settled"}
    BY <2>1 DEF UnansweredStep, Types
  <2> QED
    BY <2>1, <2>2, <2>3
       DEF UnansweredStep, input, call, answer, result, books, after, legacy, task, Succeeds, Fails,
           OnRequestContext, Types, Before, Chatting
<1>2. CASE DisconnectedBeforeAnswer
  <2>1. QuitStep
    BY <1>2, QuitFacts DEF Types
  <2>2. finals' \in Nat /\ faults' \in Nat
    BY <2>1 DEF QuitStep, Types
  <2>3. armed' \in BOOLEAN /\ hold' \in {"none", "held", "settled"}
    BY <2>1 DEF QuitStep, Types
  <2> QED
    BY <2>1, <2>2, <2>3
       DEF QuitStep, input, call, answer, result, books, after, legacy, task, Succeeds, Fails,
           OnRequestContext, Types, Before, Chatting
<1>3. CASE ImagesRead
  <2>1. ImagesStep
    BY <1>3, ImagesFacts DEF Types
  <2>2. counted' \in Nat /\ finals' \in Nat /\ faults' \in Nat
    BY <2>1 DEF ImagesStep, Types
  <2>3. armed' \in BOOLEAN /\ hold' \in {"none", "held", "settled"}
    BY <2>1 DEF ImagesStep, Types
  <2> QED
    BY <2>1, <2>2, <2>3
       DEF ImagesStep, input, call, answer, result, books, after, legacy, task, Succeeds, Fails,
           OnRequestContext, Types, Before, Chatting
<1>4. CASE DeferredFinalize
  <2>1. DeferredStep
    BY <1>4, DeferredFacts DEF Types
  <2>2. finals' \in Nat /\ faults' \in Nat
    BY <2>1 DEF DeferredStep, Types
  <2>3. armed' \in BOOLEAN /\ hold' \in {"none", "held", "settled"}
    BY <2>1 DEF DeferredStep, Types
  <2> QED
    BY <2>1, <2>2, <2>3
       DEF DeferredStep, input, call, answer, result, books, after, legacy, task, Succeeds, Fails,
           OnRequestContext, Types, Before, Chatting
<1>5. CASE Leave
  BY <1>5, PipelineAssumption
     DEF Leave, Rollback, input, call, answer, result, books, after, legacy, task, Succeeds, Fails,
         OnRequestContext, Types, Before, Chatting
<1>6. CASE Finalize
  <2>1. FinalizeStep
    BY <1>6, FinalizeFacts DEF Types
  <2>2. finals' \in Nat /\ counted' \in Nat /\ posted' \in Nat /\ faults' \in Nat
    BY <2>1, AddOne DEF FinalizeStep, Types
  <2>3. armed' \in BOOLEAN /\ hold' \in {"none", "held", "settled"}
    BY <2>1 DEF FinalizeStep, Types
  <2> QED
    BY <2>1, <2>2, <2>3
       DEF FinalizeStep, input, call, answer, result, books, after, legacy, task, Succeeds, Fails,
           OnRequestContext, Types, Before, Chatting
<1>7. CASE FinalizeFailed
  <2>1. FinalizeFailedStep
    BY <1>7, FinalizeFailedFacts
  <2>2. faults' \in Nat /\ counted' \in Nat
    BY <2>1, AddOne DEF FinalizeFailedStep, Types
  <2>3. armed' \in BOOLEAN /\ hold' \in {"none", "held", "settled"}
    BY <2>1 DEF FinalizeFailedStep, Types
  <2> QED
    BY <2>1, <2>2, <2>3
       DEF FinalizeFailedStep, input, call, answer, result, books, after, legacy, task, Succeeds, Fails,
           OnRequestContext, Types, Before, Chatting
<1> USE PipelineAssumption
    DEF input, call, answer, result, books, after, legacy, task, Succeeds, Fails, OnRequestContext,
        Types, Before, Chatting
<1>8. CASE Refuse
  BY <1>8 DEF Refuse
<1>9. CASE TakeCounters
  BY <1>9 DEF TakeCounters
<1>10. CASE RefuseLate
  BY <1>10 DEF RefuseLate
<1>11. CASE Reserve
  BY <1>11 DEF Reserve
<1>12. CASE PassThrough
  BY <1>12 DEF PassThrough
<1>13. CASE ConnectRefused
  BY <1>13 DEF ConnectRefused
<1>14. CASE CallFailed
  BY <1>14 DEF CallFailed
<1>15. CASE GiveUp
  BY <1>15 DEF GiveUp
<1>16. ASSUME NEW s \in Statuses, Answered(s)
       PROVE  Types'
  BY <1>16 DEF Answered, Statuses
<1>17. CASE Read
  BY <1>17 DEF Read, ReadChunk, Write
<1>18. CASE EndOfStream
  BY <1>18 DEF EndOfStream, Write, StreamOver
<1>19. CASE SettleStream
  BY <1>19 DEF SettleStream
<1>20. CASE StreamSettled
  BY <1>20 DEF StreamSettled
<1>21. ASSUME NEW b \in Bodies, AnswerRead(b)
       PROVE  Types'
  BY <1>21 DEF AnswerRead
<1>22. ASSUME NEW b \in Bodies, ErrorRead(b)
       PROVE  Types'
  BY <1>22 DEF ErrorRead
<1>23. ASSUME NEW b \in Bodies, EmbeddingsRead(b)
       PROVE  Types'
  BY <1>23 DEF EmbeddingsRead
<1>24. CASE ErrorSettled
  BY <1>24 DEF ErrorSettled
<1>25. CASE RecordUsage
  BY <1>25 DEF RecordUsage
<1>26. CASE RecordUsageFailed
  BY <1>26 DEF RecordUsageFailed
<1>27. CASE ClientLeaves
  BY <1>27 DEF ClientLeaves
<1>28. CASE UNCHANGED vars
  BY <1>28 DEF vars
<1> QED
  BY <1>1, <1>2, <1>3, <1>4, <1>5, <1>6, <1>7, <1>8, <1>9, <1>10, <1>11, <1>12, <1>13,
     <1>14, <1>15, <1>16, <1>17, <1>18, <1>19, <1>20, <1>21, <1>22, <1>23, <1>24, <1>25,
     <1>26, <1>27, <1>28
     DEF Next, Handler, Settler

\* Every step keeps the number of requests that reached upstream: a candidate is
\* tried only after a refused connection.
LEMMA SentStep ==
  ASSUME Types, SentPlaces, SentOnce, Places, [Next]_vars
  PROVE  SentPlaces' /\ SentOnce'
<1>1. CASE AllCandidatesFailed
  <2>1. UnansweredStep
    BY <1>1, UnansweredFacts DEF Types
  <2> QED
    BY <2>1
       DEF UnansweredStep, input, call, answer, result, books, after, legacy, task, Succeeds, Fails,
           OnRequestContext, Types, Before, SentPlaces, SentOnce, Places, Chatting
<1>2. CASE DisconnectedBeforeAnswer
  <2>1. QuitStep
    BY <1>2, QuitFacts DEF Types
  <2> QED
    BY <2>1
       DEF QuitStep, input, call, answer, result, books, after, legacy, task, Succeeds, Fails,
           OnRequestContext, Types, Before, SentPlaces, SentOnce, Places, Chatting
<1>3. CASE ImagesRead
  <2>1. ImagesStep
    BY <1>3, ImagesFacts DEF Types
  <2> QED
    BY <2>1
       DEF ImagesStep, input, call, answer, result, books, after, legacy, task, Succeeds, Fails,
           OnRequestContext, Types, Before, SentPlaces, SentOnce, Places, Chatting
<1>4. CASE DeferredFinalize
  <2>1. DeferredStep
    BY <1>4, DeferredFacts DEF Types
  <2> QED
    BY <2>1
       DEF DeferredStep, input, call, answer, result, books, after, legacy, task, Succeeds, Fails,
           OnRequestContext, Types, Before, SentPlaces, SentOnce, Places, Chatting
<1>5. CASE Leave
  BY <1>5
     DEF Leave, Rollback, input, call, answer, result, books, after, legacy, task, Succeeds, Fails,
         OnRequestContext, Types, Before, SentPlaces, SentOnce, Places, Chatting
<1>6. CASE Finalize
  <2>1. FinalizeStep
    BY <1>6, FinalizeFacts DEF Types
  <2> QED
    BY <2>1
       DEF FinalizeStep, input, call, answer, result, books, after, legacy, task, Succeeds, Fails,
           OnRequestContext, Types, Before, SentPlaces, SentOnce, Places, Chatting
<1>7. CASE FinalizeFailed
  <2>1. FinalizeFailedStep
    BY <1>7, FinalizeFailedFacts
  <2> QED
    BY <2>1
       DEF FinalizeFailedStep, input, call, answer, result, books, after, legacy, task, Succeeds, Fails,
           OnRequestContext, Types, Before, SentPlaces, SentOnce, Places, Chatting
<1> USE DEF input, call, answer, result, books, after, legacy, task, Succeeds, Fails, OnRequestContext,
            Types, Before, SentPlaces, SentOnce, Places, Chatting
<1>8. CASE Refuse
  BY <1>8 DEF Refuse
<1>9. CASE TakeCounters
  BY <1>9 DEF TakeCounters
<1>10. CASE RefuseLate
  BY <1>10 DEF RefuseLate
<1>11. CASE Reserve
  BY <1>11 DEF Reserve
<1>12. CASE PassThrough
  BY <1>12 DEF PassThrough
<1>13. CASE ConnectRefused
  BY <1>13 DEF ConnectRefused
<1>14. CASE CallFailed
  BY <1>14 DEF CallFailed
<1>15. CASE GiveUp
  BY <1>15 DEF GiveUp
<1>16. ASSUME NEW s \in Statuses, Answered(s)
       PROVE  SentPlaces' /\ SentOnce'
  BY <1>16 DEF Answered
<1>17. CASE Read
  BY <1>17 DEF Read, ReadChunk, Write
<1>18. CASE EndOfStream
  BY <1>18 DEF EndOfStream, Write, StreamOver
<1>19. CASE SettleStream
  BY <1>19 DEF SettleStream
<1>20. CASE StreamSettled
  BY <1>20 DEF StreamSettled
<1>21. ASSUME NEW b \in Bodies, AnswerRead(b)
       PROVE  SentPlaces' /\ SentOnce'
  BY <1>21 DEF AnswerRead
<1>22. ASSUME NEW b \in Bodies, ErrorRead(b)
       PROVE  SentPlaces' /\ SentOnce'
  BY <1>22 DEF ErrorRead
<1>23. ASSUME NEW b \in Bodies, EmbeddingsRead(b)
       PROVE  SentPlaces' /\ SentOnce'
  BY <1>23 DEF EmbeddingsRead
<1>24. CASE ErrorSettled
  BY <1>24 DEF ErrorSettled
<1>25. CASE RecordUsage
  BY <1>25 DEF RecordUsage
<1>26. CASE RecordUsageFailed
  BY <1>26 DEF RecordUsageFailed
<1>27. CASE ClientLeaves
  BY <1>27 DEF ClientLeaves
<1>28. CASE UNCHANGED vars
  BY <1>28 DEF vars
<1> QED
  BY <1>1, <1>2, <1>3, <1>4, <1>5, <1>6, <1>7, <1>8, <1>9, <1>10, <1>11, <1>12, <1>13,
     <1>14, <1>15, <1>16, <1>17, <1>18, <1>19, <1>20, <1>21, <1>22, <1>23, <1>24, <1>25,
     <1>26, <1>27, <1>28
     DEF Next, Handler, Settler

\* Nothing is written before a settlement begins.
LEMMA FreshStep ==
  ASSUME Types, Fresh, Places, [Next]_vars
  PROVE  Fresh'
<1>1. CASE AllCandidatesFailed
  <2>1. UnansweredStep
    BY <1>1, UnansweredFacts DEF Types
  <2> QED
    BY <2>1
       DEF UnansweredStep, input, call, answer, result, books, after, legacy, task, Succeeds, Fails,
           OnRequestContext, Types, Before, Fresh, Places, Chatting
<1>2. CASE DisconnectedBeforeAnswer
  <2>1. QuitStep
    BY <1>2, QuitFacts DEF Types
  <2> QED
    BY <2>1
       DEF QuitStep, input, call, answer, result, books, after, legacy, task, Succeeds, Fails,
           OnRequestContext, Types, Before, Fresh, Places, Chatting
<1>3. CASE ImagesRead
  <2>1. ImagesStep
    BY <1>3, ImagesFacts DEF Types
  <2> QED
    BY <2>1
       DEF ImagesStep, input, call, answer, result, books, after, legacy, task, Succeeds, Fails,
           OnRequestContext, Types, Before, Fresh, Places, Chatting
<1>4. CASE DeferredFinalize
  <2>1. DeferredStep
    BY <1>4, DeferredFacts DEF Types
  <2> QED
    BY <2>1
       DEF DeferredStep, input, call, answer, result, books, after, legacy, task, Succeeds, Fails,
           OnRequestContext, Types, Before, Fresh, Places, Chatting
<1>5. CASE Leave
  BY <1>5
     DEF Leave, Rollback, input, call, answer, result, books, after, legacy, task, Succeeds, Fails,
         OnRequestContext, Types, Before, Fresh, Places, Chatting
<1>6. CASE Finalize
  <2>1. FinalizeStep
    BY <1>6, FinalizeFacts DEF Types
  <2> QED
    BY <2>1
       DEF FinalizeStep, input, call, answer, result, books, after, legacy, task, Succeeds, Fails,
           OnRequestContext, Types, Before, Fresh, Places, Chatting
<1>7. CASE FinalizeFailed
  <2>1. FinalizeFailedStep
    BY <1>7, FinalizeFailedFacts
  <2> QED
    BY <2>1
       DEF FinalizeFailedStep, input, call, answer, result, books, after, legacy, task, Succeeds, Fails,
           OnRequestContext, Types, Before, Fresh, Places, Chatting
<1> USE DEF input, call, answer, result, books, after, legacy, task, Succeeds, Fails, OnRequestContext,
            Types, Before, Fresh, Places, Chatting
<1>8. CASE Refuse
  BY <1>8 DEF Refuse
<1>9. CASE TakeCounters
  BY <1>9 DEF TakeCounters
<1>10. CASE RefuseLate
  BY <1>10 DEF RefuseLate
<1>11. CASE Reserve
  BY <1>11 DEF Reserve
<1>12. CASE PassThrough
  BY <1>12 DEF PassThrough
<1>13. CASE ConnectRefused
  BY <1>13 DEF ConnectRefused
<1>14. CASE CallFailed
  BY <1>14 DEF CallFailed
<1>15. CASE GiveUp
  BY <1>15 DEF GiveUp
<1>16. ASSUME NEW s \in Statuses, Answered(s)
       PROVE  Fresh'
  BY <1>16 DEF Answered
<1>17. CASE Read
  BY <1>17 DEF Read, ReadChunk, Write
<1>18. CASE EndOfStream
  BY <1>18 DEF EndOfStream, Write, StreamOver
<1>19. CASE SettleStream
  BY <1>19 DEF SettleStream
<1>20. CASE StreamSettled
  BY <1>20 DEF StreamSettled
<1>21. ASSUME NEW b \in Bodies, AnswerRead(b)
       PROVE  Fresh'
  BY <1>21 DEF AnswerRead
<1>22. ASSUME NEW b \in Bodies, ErrorRead(b)
       PROVE  Fresh'
  BY <1>22 DEF ErrorRead
<1>23. ASSUME NEW b \in Bodies, EmbeddingsRead(b)
       PROVE  Fresh'
  BY <1>23 DEF EmbeddingsRead
<1>24. CASE ErrorSettled
  BY <1>24 DEF ErrorSettled
<1>25. CASE RecordUsage
  BY <1>25 DEF RecordUsage
<1>26. CASE RecordUsageFailed
  BY <1>26 DEF RecordUsageFailed
<1>27. CASE ClientLeaves
  BY <1>27 DEF ClientLeaves
<1>28. CASE UNCHANGED vars
  BY <1>28 DEF vars
<1> QED
  BY <1>1, <1>2, <1>3, <1>4, <1>5, <1>6, <1>7, <1>8, <1>9, <1>10, <1>11, <1>12, <1>13,
     <1>14, <1>15, <1>16, <1>17, <1>18, <1>19, <1>20, <1>21, <1>22, <1>23, <1>24, <1>25,
     <1>26, <1>27, <1>28
     DEF Next, Handler, Settler

\* Every step keeps what the handler's place says about the request.
LEMMA PlacesStep ==
  ASSUME Types, Fresh, Places, Jobs, [Next]_vars
  PROVE  Places'
<1>1. CASE AllCandidatesFailed
  <2>1. UnansweredStep
    BY <1>1, UnansweredFacts DEF Types
  <2> QED
    BY <2>1
       DEF UnansweredStep, input, call, answer, result, books, after, legacy, task, Succeeds, Fails,
           OnRequestContext, Types, Before, Fresh, Places, Chatting
<1>2. CASE DisconnectedBeforeAnswer
  <2>1. QuitStep
    BY <1>2, QuitFacts DEF Types
  <2> QED
    BY <2>1
       DEF QuitStep, input, call, answer, result, books, after, legacy, task, Succeeds, Fails,
           OnRequestContext, Types, Before, Fresh, Places, Chatting
<1>3. ASSUME NEW s \in Statuses, Answered(s)
      PROVE  Places'
  <2>1. (pc' = "streaming" /\ streamed /\ s \in {200, 300}) \/ pc' = "reading"
    BY <1>3 DEF Answered, Statuses
  <2>2. pc = "calling" /\ status' # 0 /\ (pc' = "streaming" => streamed /\ status' \in {200, 300})
        /\ (pc' = "reading" => ~(streamed /\ status' \in {200, 300}))
    BY <1>3, <2>1 DEF Answered, Statuses
  <2>3. UNCHANGED <<route, streamed, armed, counters>>
    BY <1>3 DEF Answered, input
  <2>4. pc' = "streaming" => Chatting
    BY <2>1 DEF Places
  <2> QED
    BY <2>1, <2>2, <2>3, <2>4 DEF Places, Chatting
<1>4. CASE ImagesRead
  <2>1. ImagesStep
    BY <1>4, ImagesFacts DEF Types
  <2> QED
    BY <2>1
       DEF ImagesStep, input, call, answer, result, books, after, legacy, task, Succeeds, Fails,
           OnRequestContext, Types, Before, Fresh, Places, Chatting
<1>5. CASE DeferredFinalize
  <2>1. DeferredStep
    BY <1>5, DeferredFacts DEF Types
  <2> QED
    BY <2>1
       DEF DeferredStep, input, call, answer, result, books, after, legacy, task, Succeeds, Fails,
           OnRequestContext, Types, Before, Fresh, Places, Chatting
<1>6. CASE Leave
  BY <1>6
     DEF Leave, Rollback, input, call, answer, result, books, after, legacy, task, Succeeds, Fails,
         OnRequestContext, Types, Before, Fresh, Places, Chatting
<1>7. CASE Finalize
  <2>1. FinalizeStep
    BY <1>7, FinalizeFacts DEF Types
  <2> QED
    BY <2>1
       DEF FinalizeStep, input, call, answer, result, books, after, legacy, task, Succeeds, Fails,
           OnRequestContext, Types, Before, Fresh, Places, Chatting
<1>8. CASE FinalizeFailed
  <2>1. FinalizeFailedStep
    BY <1>8, FinalizeFailedFacts
  <2> QED
    BY <2>1
       DEF FinalizeFailedStep, input, call, answer, result, books, after, legacy, task, Succeeds, Fails,
           OnRequestContext, Types, Before, Fresh, Places, Chatting
<1> USE DEF input, call, answer, result, books, after, legacy, task, Succeeds, Fails, OnRequestContext,
            Types, Before, Fresh, Places, Chatting
<1>9. CASE Refuse
  BY <1>9 DEF Refuse
<1>10. CASE TakeCounters
  BY <1>10 DEF TakeCounters
<1>11. CASE RefuseLate
  BY <1>11 DEF RefuseLate
<1>12. CASE Reserve
  BY <1>12 DEF Reserve
<1>13. CASE PassThrough
  BY <1>13 DEF PassThrough
<1>14. CASE ConnectRefused
  BY <1>14 DEF ConnectRefused
<1>15. CASE CallFailed
  BY <1>15 DEF CallFailed
<1>16. CASE GiveUp
  BY <1>16 DEF GiveUp
<1>17. CASE Read
  BY <1>17 DEF Read, ReadChunk, Write
<1>18. CASE EndOfStream
  BY <1>18 DEF EndOfStream, Write, StreamOver
<1>19. CASE SettleStream
  BY <1>19 DEF SettleStream
<1>20. CASE StreamSettled
  BY <1>20 DEF StreamSettled
<1>21. ASSUME NEW b \in Bodies, AnswerRead(b)
       PROVE  Places'
  BY <1>21 DEF AnswerRead
<1>22. ASSUME NEW b \in Bodies, ErrorRead(b)
       PROVE  Places'
  BY <1>22 DEF ErrorRead, Refusals
<1>23. ASSUME NEW b \in Bodies, EmbeddingsRead(b)
       PROVE  Places'
  BY <1>23 DEF EmbeddingsRead
<1>24. CASE ErrorSettled
  BY <1>24 DEF ErrorSettled
<1>25. CASE RecordUsage
  BY <1>25 DEF RecordUsage
<1>26. CASE RecordUsageFailed
  BY <1>26 DEF RecordUsageFailed
<1>27. CASE ClientLeaves
  BY <1>27 DEF ClientLeaves
<1>28. CASE UNCHANGED vars
  BY <1>28 DEF vars
<1> QED
  BY <1>1, <1>2, <1>3, <1>4, <1>5, <1>6, <1>7, <1>8, <1>9, <1>10, <1>11, <1>12, <1>13,
     <1>14, <1>15, <1>16, <1>17, <1>18, <1>19, <1>20, <1>21, <1>22, <1>23, <1>24, <1>25,
     <1>26, <1>27, <1>28
     DEF Next, Handler, Settler

\* Every step keeps what the settlement's step says about row, settlement and
\* reservation.
LEMMA JobsStep ==
  ASSUME Types, Fresh, Places, Jobs, [Next]_vars
  PROVE  Jobs'
<1>1. CASE AllCandidatesFailed
  <2>1. UnansweredStep
    BY <1>1, UnansweredFacts DEF Types
  <2> QED
    BY <2>1, RowSame
       DEF UnansweredStep, input, call, answer, result, books, after, legacy, task, Succeeds, Fails,
           OnRequestContext, Types, Before, Fresh, Places, Jobs, Chatting
<1>2. CASE DisconnectedBeforeAnswer
  <2>1. QuitStep
    BY <1>2, QuitFacts DEF Types
  <2> QED
    BY <2>1, RowSame
       DEF QuitStep, input, call, answer, result, books, after, legacy, task, Succeeds, Fails,
           OnRequestContext, Types, Before, Fresh, Places, Jobs, Chatting
<1>3. CASE SettleStream
  BY <1>3, RowSame
     DEF SettleStream, SettlementStatus, StatusClientClosedRequest, input, call, answer,
         result, books, after, legacy, task, Succeeds, Fails, OnRequestContext, Types, Before, Fresh, Places,
         Jobs, Chatting
<1>4. ASSUME NEW b \in Bodies, AnswerRead(b)
      PROVE  Jobs'
  BY <1>4, RowSame
     DEF AnswerRead, SettlementStatus, StatusClientClosedRequest, input, call, answer,
         result, books, after, legacy, task, Succeeds, Fails, OnRequestContext, Types, Before, Fresh, Places,
         Jobs, Chatting
<1>5. CASE ImagesRead
  <2>1. ImagesStep
    BY <1>5, ImagesFacts DEF Types
  <2> QED
    BY <2>1, RowSame
       DEF ImagesStep, input, call, answer, result, books, after, legacy, task, Succeeds, Fails,
           OnRequestContext, Types, Before, Fresh, Places, Jobs, Chatting
<1>6. CASE DeferredFinalize
  <2>1. DeferredStep
    BY <1>6, DeferredFacts DEF Types
  <2> QED
    BY <2>1, RowSame
       DEF DeferredStep, input, call, answer, result, books, after, legacy, task, Succeeds, Fails,
           OnRequestContext, Types, Before, Fresh, Places, Jobs, Chatting
<1>7. CASE Leave
  BY <1>7, RowSame
     DEF Leave, Rollback, input, call, answer, result, books, after, legacy, task, Succeeds, Fails,
         OnRequestContext, Types, Before, Fresh, Places, Jobs, Chatting
<1>8. CASE RecordUsage
  BY <1>8, RowSame
     DEF RecordUsage, Row, input, call, answer, result, books, after, legacy, task, Succeeds, Fails,
         OnRequestContext, Types, Before, Fresh, Places, Jobs, Chatting
<1>9. CASE Finalize
  <2>1. FinalizeStep
    BY <1>9, FinalizeFacts DEF Types
  <2>2. Row' = Row
    BY <2>1, RowSame DEF FinalizeStep, input, answer, result
  <2> QED
    BY <2>1, <2>2, RowIsRow
       DEF FinalizeStep, input, call, answer, result, books, after, legacy, task, Succeeds, Fails,
           OnRequestContext, Types, Before, Fresh, Places, Jobs, Chatting
<1>10. CASE FinalizeFailed
  <2>1. FinalizeFailedStep
    BY <1>10, FinalizeFailedFacts
  <2>2. Row' = Row
    BY <2>1, RowSame DEF FinalizeFailedStep, input, answer, result
  <2> QED
    BY <2>1, <2>2, RowIsRow
       DEF FinalizeFailedStep, input, call, answer, result, books, after, legacy, task, Succeeds, Fails,
           OnRequestContext, Types, Before, Fresh, Places, Jobs, Chatting
<1> USE RowSame
    DEF input, call, answer, result, books, after, legacy, task, Succeeds, Fails, OnRequestContext,
        Types, Before, Fresh, Places, Jobs, Chatting
<1>11. CASE Refuse
  BY <1>11 DEF Refuse
<1>12. CASE TakeCounters
  BY <1>12 DEF TakeCounters
<1>13. CASE RefuseLate
  BY <1>13 DEF RefuseLate
<1>14. CASE Reserve
  BY <1>14 DEF Reserve
<1>15. CASE PassThrough
  BY <1>15 DEF PassThrough
<1>16. CASE ConnectRefused
  BY <1>16 DEF ConnectRefused
<1>17. CASE CallFailed
  BY <1>17 DEF CallFailed
<1>18. CASE GiveUp
  BY <1>18 DEF GiveUp
<1>19. ASSUME NEW s \in Statuses, Answered(s)
       PROVE  Jobs'
  BY <1>19 DEF Answered
<1>20. CASE Read
  BY <1>20 DEF Read, ReadChunk, Write
<1>21. CASE EndOfStream
  BY <1>21 DEF EndOfStream, Write, StreamOver
<1>22. CASE StreamSettled
  BY <1>22 DEF StreamSettled
<1>23. ASSUME NEW b \in Bodies, ErrorRead(b)
       PROVE  Jobs'
  BY <1>23 DEF ErrorRead
<1>24. ASSUME NEW b \in Bodies, EmbeddingsRead(b)
       PROVE  Jobs'
  BY <1>24 DEF EmbeddingsRead
<1>25. CASE ErrorSettled
  BY <1>25 DEF ErrorSettled
<1>26. CASE RecordUsageFailed
  BY <1>26 DEF RecordUsageFailed
<1>27. CASE ClientLeaves
  BY <1>27 DEF ClientLeaves
<1>28. CASE UNCHANGED vars
  BY <1>28 DEF vars
<1> QED
  BY <1>1, <1>2, <1>3, <1>4, <1>5, <1>6, <1>7, <1>8, <1>9, <1>10, <1>11, <1>12, <1>13,
     <1>14, <1>15, <1>16, <1>17, <1>18, <1>19, <1>20, <1>21, <1>22, <1>23, <1>24, <1>25,
     <1>26, <1>27, <1>28, SMTT(40)
     DEF Next, Handler, Settler

\* Without a fault every step keeps the hold guarded or settled once.
LEMMA FaultlessStep ==
  ASSUME Types, Fresh, Places, Jobs, Faultless, [Next]_vars
  PROVE  Faultless'
<1>1. CASE AllCandidatesFailed
  <2>1. UnansweredStep
    BY <1>1, UnansweredFacts DEF Types
  <2> QED
    BY <2>1, RowSame, PostingSame
       DEF UnansweredStep, input, call, answer, result, books, after, legacy, task, Succeeds, Fails,
           OnRequestContext, Types, Before, Fresh, Places, Jobs, Faultless, Chatting
<1>2. CASE DisconnectedBeforeAnswer
  <2>1. QuitStep
    BY <1>2, QuitFacts DEF Types
  <2> QED
    BY <2>1, RowSame, PostingSame
       DEF QuitStep, input, call, answer, result, books, after, legacy, task, Succeeds, Fails,
           OnRequestContext, Types, Before, Fresh, Places, Jobs, Faultless, Chatting
<1>3. CASE ImagesRead
  <2>1. ImagesStep
    BY <1>3, ImagesFacts DEF Types
  <2> QED
    BY <2>1, RowSame, PostingSame
       DEF ImagesStep, input, call, answer, result, books, after, legacy, task, Succeeds, Fails,
           OnRequestContext, Types, Before, Fresh, Places, Jobs, Faultless, Chatting
<1>4. CASE DeferredFinalize
  <2>1. DeferredStep
    BY <1>4, DeferredFacts DEF Types
  <2> QED
    BY <2>1, RowSame, PostingSame
       DEF DeferredStep, input, call, answer, result, books, after, legacy, task, Succeeds, Fails,
           OnRequestContext, Types, Before, Fresh, Places, Jobs, Faultless, Chatting
<1>5. CASE Leave
  BY <1>5, RowSame, PostingSame
     DEF Leave, Rollback, input, call, answer, result, books, after, legacy, task, Succeeds, Fails,
         OnRequestContext, Types, Before, Fresh, Places, Jobs, Faultless, Chatting
<1>6. CASE Finalize
  <2>1. FinalizeStep
    BY <1>6, FinalizeFacts DEF Types
  <2>2. faults = 0 => job = "finalize"
    BY <2>1 DEF FinalizeStep, Faultless, Places, OnRequestContext
  <2>3. counted = 0 /\ posted = 0 /\ finals = 0 /\ (job = "finalize" => ~failed)
    BY <2>1 DEF FinalizeStep, Jobs
  <2>4. /\ counted' = One(settlement.count) /\ finals' = 1
        /\ posted' = One(Posting) /\ Posting' = Posting
    BY <2>1, <2>3, PostingSame DEF FinalizeStep, One, input
  <2>5. pc \notin Before
    BY <2>1 DEF FinalizeStep, Jobs
  <2>6. faults' = 0 => ~armed' \/ pc' # "leaving"
    BY <2>1 DEF FinalizeStep, Jobs
  <2>7. faults' = 0 => faults = 0 /\ faults' = faults
    BY <2>1 DEF FinalizeStep, Types
  <2>8. faults' = 0 /\ mode' # "unlimited" => invalidated'
    BY <2>1, <2>2, <2>7 DEF FinalizeStep, input
  <2> QED
    BY <2>1, <2>2, <2>3, <2>4, <2>5, <2>6, <2>7, <2>8 DEF FinalizeStep, Faultless, input, task
<1>7. CASE FinalizeFailed
  <2> SUFFICES ASSUME faults' = 0
               PROVE  Faultless'
    BY DEF Faultless
  <2>1. FinalizeFailedStep
    BY <1>7, FinalizeFailedFacts
  <2>2. pc = "answering" /\ gone /\ faults = 0 /\ code = status /\ code \in Refusals
    BY <2>1 DEF FinalizeFailedStep, OnRequestContext, Places, Types
  <2>3. counted = 0 /\ posted = 0 /\ finals = 0 /\ hold = "held" /\ paid = EmptySettlement
    BY <2>1 DEF FinalizeFailedStep, Jobs
  <2>4. ASSUME code # 499
        PROVE  counted' = 0
    <3>1. code = 400 \/ code = 503
      BY <2>2, <2>4 DEF Refusals
    <3>2. LedgerErrorCode(code, body) # "" /\ code # StatusClientClosedRequest
      BY <3>1, ErrorCodes
    <3>3. ~Row.count
      BY <3>2, ErrorsAreFree DEF PaidQuit, Row
    <3>4. settlement = Row \/ settlement = EmptySettlement
      BY <2>1 DEF FinalizeFailedStep, Jobs
    <3>5. ~settlement.count
      BY <3>3, <3>4, EmptyFacts
    <3> QED
      BY <2>1, <2>3, <3>5 DEF FinalizeFailedStep, One
  <2>5. posted' = posted /\ code' = code /\ status' = status
    BY <2>1 DEF FinalizeFailedStep, after, result, answer, call
  <2> QED
    BY <2>1, <2>2, <2>3, <2>4, <2>5 DEF FinalizeFailedStep, Faultless, input, result, task
<1> USE RowSame, PostingSame
    DEF input, call, answer, result, books, after, legacy, task, Succeeds, Fails, OnRequestContext,
        Types, Before, Fresh, Places, Jobs, Faultless, Chatting
<1>8. CASE Refuse
  BY <1>8 DEF Refuse
<1>9. CASE TakeCounters
  BY <1>9 DEF TakeCounters
<1>10. CASE RefuseLate
  BY <1>10 DEF RefuseLate
<1>11. CASE Reserve
  BY <1>11 DEF Reserve
<1>12. CASE PassThrough
  BY <1>12 DEF PassThrough
<1>13. CASE ConnectRefused
  BY <1>13 DEF ConnectRefused
<1>14. CASE CallFailed
  BY <1>14 DEF CallFailed
<1>15. CASE GiveUp
  BY <1>15 DEF GiveUp
<1>16. ASSUME NEW s \in Statuses, Answered(s)
       PROVE  Faultless'
  BY <1>16 DEF Answered
<1>17. CASE Read
  BY <1>17 DEF Read, ReadChunk, Write
<1>18. CASE EndOfStream
  BY <1>18 DEF EndOfStream, Write, StreamOver
<1>19. CASE SettleStream
  BY <1>19 DEF SettleStream
<1>20. CASE StreamSettled
  BY <1>20 DEF StreamSettled
<1>21. ASSUME NEW b \in Bodies, AnswerRead(b)
       PROVE  Faultless'
  BY <1>21 DEF AnswerRead
<1>22. ASSUME NEW b \in Bodies, ErrorRead(b)
       PROVE  Faultless'
  BY <1>22 DEF ErrorRead
<1>23. ASSUME NEW b \in Bodies, EmbeddingsRead(b)
       PROVE  Faultless'
  BY <1>23 DEF EmbeddingsRead
<1>24. CASE ErrorSettled
  BY <1>24 DEF ErrorSettled
<1>25. CASE RecordUsage
  BY <1>25 DEF RecordUsage
<1>26. CASE RecordUsageFailed
  BY <1>26 DEF RecordUsageFailed
<1>27. CASE ClientLeaves
  BY <1>27 DEF ClientLeaves
<1>28. CASE UNCHANGED vars
  BY <1>28 DEF vars
<1> QED
  BY <1>1, <1>2, <1>3, <1>4, <1>5, <1>6, <1>7, <1>8, <1>9, <1>10, <1>11, <1>12, <1>13,
     <1>14, <1>15, <1>16, <1>17, <1>18, <1>19, <1>20, <1>21, <1>22, <1>23, <1>24, <1>25,
     <1>26, <1>27, <1>28, SMTT(40)
     DEF Next, Handler, Settler

\* The counters are committed by the decision that the row records.
LEMMA AgreedStep ==
  ASSUME Types, Fresh, Places, Jobs, Agreed, [Next]_vars
  PROVE  Agreed'
<1>1. CASE AllCandidatesFailed
  <2>1. UnansweredStep
    BY <1>1, UnansweredFacts DEF Types
  <2> QED
    BY <2>1, CommitSame
       DEF UnansweredStep, input, call, answer, result, books, after, legacy, task, Succeeds, Fails,
           OnRequestContext, Types, Before, Fresh, Places, Jobs, Agreed, Chatting
<1>2. CASE DisconnectedBeforeAnswer
  <2>1. QuitStep
    BY <1>2, QuitFacts DEF Types
  <2> QED
    BY <2>1, CommitSame
       DEF QuitStep, input, call, answer, result, books, after, legacy, task, Succeeds, Fails,
           OnRequestContext, Types, Before, Fresh, Places, Jobs, Agreed, Chatting
<1>3. CASE StreamSettled
  <2>1. pc = "captured" /\ job = "over" /\ counters = "held" /\ Commits' = Commits
    BY <1>3, CommitSame DEF StreamSettled, Places, Chatting, input, answer, call, result
  <2>2. row' = row /\ counters' = (IF settlement.count THEN "committed" ELSE counters)
    BY <1>3 DEF StreamSettled, CountStream, books
  <2>3. row # NoRow => settlement = Row
    BY <2>1 DEF Jobs
  <2>4. ~CountedApart
    BY <2>1 DEF Places, CountedApart
  <2>5. row # NoRow => (counters' = "committed" <=> Commits)
    BY <2>1, <2>2, <2>3, <2>4 DEF Commits
  <2>6. job' = "over"
    BY <1>3, <2>1 DEF StreamSettled, task
  <2> QED
    BY <2>1, <2>2, <2>5, <2>6 DEF Agreed
<1>4. ASSUME NEW b \in Bodies, AnswerRead(b)
      PROVE  Agreed'
  <2>1. /\ (status = 200 \/ status = 300) /\ ~streamed /\ counters = "held"
        /\ status' = status /\ streamed' = streamed
    BY <1>4 DEF AnswerRead, Places, Types, Chatting, input, call
  <2>2. code' = 200 \/ code' = 300 \/ code' = 499
    BY <1>4, <2>1 DEF AnswerRead, SettlementStatus, StatusClientClosedRequest
  <2>3. Row' = UsageRow(mode, code', b, TRUE)
    BY <1>4 DEF AnswerRead, Row, input
  <2>4. counters' = "committed" <=> ShouldCountSettlementRequest(mode, code', b, TRUE)
    BY <1>4, <2>1 DEF AnswerRead
  <2>5. CASE code' = 300
    <3>1. CountedApart'
      BY <2>1, <2>5 DEF CountedApart
    <3>2. ~ShouldCountSettlementRequest(mode, code', b, TRUE)
      BY <2>5, Redirected
    <3> QED
      BY <2>4, <3>1, <3>2 DEF Agreed, Commits
  <2>6. CASE code' = 200 \/ code' = 499
    <3>1. ~CountedApart'
      BY <2>1, <2>6 DEF CountedApart
    <3>2. LedgerErrorCode(code', b) = "" <=> ShouldCountAsSuccess(code', b)
      BY <2>6, CodeOfSuccess
    <3>3. ShouldCountSettlementRequest(mode, code', b, TRUE) <=> UsageRow(mode, code', b, TRUE).count
      BY <3>2, SameDecision
    <3>4. counters' = "committed" <=> Row'.count
      BY <2>3, <2>4, <3>3
    <3> QED
      BY <3>1, <3>4 DEF Agreed, Commits
  <2> QED
    BY <2>2, <2>5, <2>6
<1>5. ASSUME NEW b \in Bodies, ErrorRead(b)
      PROVE  Agreed'
  <2>1. /\ Row' = UsageRow(mode, status, b, TRUE) /\ counters' = "held"
        /\ status' = status /\ status \in Refusals
    BY <1>5 DEF ErrorRead, Row, Places, Chatting, Types, Refusals, input, call
  <2>2. CASE status = 499
    <3>1. CountedApart'
      BY <2>1, <2>2 DEF CountedApart
    <3> QED
      BY <2>1, <3>1 DEF Agreed, Commits
  <2>3. CASE status = 400 \/ status = 503
    <3>1. LedgerErrorCode(status, b) # "" /\ status # StatusClientClosedRequest
      BY <2>3, ErrorCodes
    <3>2. ~UsageRow(mode, status, b, TRUE).count
      BY <3>1, ErrorsAreFree DEF PaidQuit
    <3> QED
      BY <2>1, <3>2 DEF Agreed, Commits
  <2> QED
    BY <2>1, <2>2, <2>3 DEF Refusals
<1>6. CASE ErrorSettled
  <2>1. /\ Commits' = Commits /\ counters' = "held"
        /\ code = status /\ code \in Refusals
    BY <1>6, CommitSame DEF ErrorSettled, Places, Chatting, input, call, result
  <2>2. CASE code = 499
    <3>1. CountedApart
      BY <2>1, <2>2 DEF CountedApart
    <3> QED
      BY <2>1, <3>1 DEF Agreed, Commits
  <2>3. CASE code = 400 \/ code = 503
    <3>1. LedgerErrorCode(code, body) # "" /\ code # StatusClientClosedRequest
      BY <2>3, ErrorCodes
    <3>2. ~Row.count
      BY <3>1, ErrorsAreFree DEF PaidQuit, Row
    <3>3. ~Commits'
      BY <2>1, <3>2 DEF Commits
    <3> QED
      BY <2>1, <3>3 DEF Agreed
  <2> QED
    BY <2>1, <2>2, <2>3 DEF Refusals
<1>7. CASE ImagesRead
  <2>1. ImagesStep
    BY <1>7, ImagesFacts DEF Types
  <2> QED
    BY <2>1, CommitSame
       DEF ImagesStep, input, call, answer, result, books, after, legacy, task, Succeeds, Fails,
           OnRequestContext, Types, Before, Fresh, Places, Jobs, Agreed, Chatting
<1>8. CASE DeferredFinalize
  <2>1. DeferredStep
    BY <1>8, DeferredFacts DEF Types
  <2> QED
    BY <2>1, CommitSame
       DEF DeferredStep, input, call, answer, result, books, after, legacy, task, Succeeds, Fails,
           OnRequestContext, Types, Before, Fresh, Places, Jobs, Agreed, Chatting
<1>9. CASE Leave
  BY <1>9, CommitSame
     DEF Leave, Rollback, input, call, answer, result, books, after, legacy, task, Succeeds, Fails,
         OnRequestContext, Types, Before, Fresh, Places, Jobs, Agreed, Chatting
<1>10. CASE Finalize
  <2>1. FinalizeStep
    BY <1>10, FinalizeFacts DEF Types
  <2> QED
    BY <2>1, CommitSame
       DEF FinalizeStep, input, call, answer, result, books, after, legacy, task, Succeeds, Fails,
           OnRequestContext, Types, Before, Fresh, Places, Jobs, Agreed, Chatting
<1>11. CASE FinalizeFailed
  <2>1. FinalizeFailedStep
    BY <1>11, FinalizeFailedFacts
  <2> QED
    BY <2>1, CommitSame
       DEF FinalizeFailedStep, input, call, answer, result, books, after, legacy, task, Succeeds, Fails,
           OnRequestContext, Types, Before, Fresh, Places, Jobs, Agreed, Chatting
<1> USE CommitSame
    DEF input, call, answer, result, books, after, legacy, task, Succeeds, Fails, OnRequestContext,
        Types, Before, Fresh, Places, Jobs, Agreed, Chatting
<1>12. CASE Refuse
  BY <1>12 DEF Refuse
<1>13. CASE TakeCounters
  BY <1>13 DEF TakeCounters
<1>14. CASE RefuseLate
  BY <1>14 DEF RefuseLate
<1>15. CASE Reserve
  BY <1>15 DEF Reserve
<1>16. CASE PassThrough
  BY <1>16 DEF PassThrough
<1>17. CASE ConnectRefused
  BY <1>17 DEF ConnectRefused
<1>18. CASE CallFailed
  BY <1>18 DEF CallFailed
<1>19. CASE GiveUp
  BY <1>19 DEF GiveUp
<1>20. ASSUME NEW s \in Statuses, Answered(s)
       PROVE  Agreed'
  BY <1>20 DEF Answered
<1>21. CASE Read
  BY <1>21 DEF Read, ReadChunk, Write
<1>22. CASE EndOfStream
  BY <1>22 DEF EndOfStream, Write, StreamOver
<1>23. CASE SettleStream
  BY <1>23 DEF SettleStream
<1>24. ASSUME NEW b \in Bodies, EmbeddingsRead(b)
       PROVE  Agreed'
  BY <1>24 DEF EmbeddingsRead
<1>25. CASE RecordUsage
  BY <1>25 DEF RecordUsage
<1>26. CASE RecordUsageFailed
  BY <1>26 DEF RecordUsageFailed
<1>27. CASE ClientLeaves
  BY <1>27 DEF ClientLeaves
<1>28. CASE UNCHANGED vars
  BY <1>28 DEF vars
<1> QED
  BY <1>1, <1>2, <1>3, <1>4, <1>5, <1>6, <1>7, <1>8, <1>9, <1>10, <1>11, <1>12, <1>13,
     <1>14, <1>15, <1>16, <1>17, <1>18, <1>19, <1>20, <1>21, <1>22, <1>23, <1>24, <1>25,
     <1>26, <1>27, <1>28
     DEF Next, Handler, Settler

\* Only an early disconnect writes a settled row without a settlement.
LEMMA QuittedStep ==
  ASSUME Types, Fresh, Places, Jobs, Quitted, [Next]_vars
  PROVE  Quitted'
<1>1. CASE Refuse
  BY <1>1, RejectedFacts
     DEF Refuse, input, call, answer, result, books, after, legacy, task, Succeeds, Fails,
         OnRequestContext, Fresh, Before, Quitted, Settled
<1>2. CASE RefuseLate
  BY <1>2, RejectedFacts
     DEF RefuseLate, input, call, answer, result, books, after, legacy, task, Succeeds, Fails,
         OnRequestContext, Fresh, Before, Quitted, Settled
<1>3. CASE AllCandidatesFailed
  <2>1. UnansweredStep
    BY <1>3, UnansweredFacts DEF Types
  <2> QED
    BY <2>1, RowSame, QuitSame
       DEF UnansweredStep, input, call, answer, result, books, after, legacy, task, Succeeds, Fails,
           OnRequestContext, Types, Before, Fresh, Places, Jobs, Quitted, Chatting, Settled
<1>4. CASE DisconnectedBeforeAnswer
  <2>1. QuitStep
    BY <1>4, QuitFacts DEF Types
  <2> QED
    BY <2>1, RowSame, QuitSame
       DEF QuitStep, input, call, answer, result, books, after, legacy, task, Succeeds, Fails,
           OnRequestContext, Types, Before, Fresh, Places, Jobs, Quitted, Chatting, Settled
<1>5. CASE ImagesRead
  <2>1. ImagesStep
    BY <1>5, ImagesFacts DEF Types
  <2> QED
    BY <2>1, RowSame, QuitSame
       DEF ImagesStep, input, call, answer, result, books, after, legacy, task, Succeeds, Fails,
           OnRequestContext, Types, Before, Fresh, Places, Jobs, Quitted, Chatting, Settled
<1>6. CASE DeferredFinalize
  <2>1. DeferredStep
    BY <1>6, DeferredFacts DEF Types
  <2> QED
    BY <2>1, RowSame, QuitSame
       DEF DeferredStep, input, call, answer, result, books, after, legacy, task, Succeeds, Fails,
           OnRequestContext, Types, Before, Fresh, Places, Jobs, Quitted, Chatting, Settled
<1>7. CASE Leave
  BY <1>7, RowSame, QuitSame
     DEF Leave, Rollback, input, call, answer, result, books, after, legacy, task, Succeeds, Fails,
         OnRequestContext, Types, Before, Fresh, Places, Jobs, Quitted, Chatting, Settled
<1>8. CASE Finalize
  <2>1. FinalizeStep
    BY <1>8, FinalizeFacts DEF Types
  <2> QED
    BY <2>1, RowSame, QuitSame
       DEF FinalizeStep, input, call, answer, result, books, after, legacy, task, Succeeds, Fails,
           OnRequestContext, Types, Before, Fresh, Places, Jobs, Quitted, Chatting, Settled
<1>9. CASE FinalizeFailed
  <2>1. FinalizeFailedStep
    BY <1>9, FinalizeFailedFacts
  <2> QED
    BY <2>1, RowSame, QuitSame
       DEF FinalizeFailedStep, input, call, answer, result, books, after, legacy, task, Succeeds, Fails,
           OnRequestContext, Types, Before, Fresh, Places, Jobs, Quitted, Chatting, Settled
<1> USE RowSame, QuitSame
    DEF input, call, answer, result, books, after, legacy, task, Succeeds, Fails, OnRequestContext,
        Types, Before, Fresh, Places, Jobs, Quitted, Chatting, Settled
<1>10. CASE TakeCounters
  BY <1>10 DEF TakeCounters
<1>11. CASE Reserve
  BY <1>11 DEF Reserve
<1>12. CASE PassThrough
  BY <1>12 DEF PassThrough
<1>13. CASE ConnectRefused
  BY <1>13 DEF ConnectRefused
<1>14. CASE CallFailed
  BY <1>14 DEF CallFailed
<1>15. CASE GiveUp
  BY <1>15 DEF GiveUp
<1>16. ASSUME NEW s \in Statuses, Answered(s)
       PROVE  Quitted'
  BY <1>16 DEF Answered
<1>17. CASE Read
  BY <1>17 DEF Read, ReadChunk, Write
<1>18. CASE EndOfStream
  BY <1>18 DEF EndOfStream, Write, StreamOver
<1>19. CASE SettleStream
  BY <1>19 DEF SettleStream
<1>20. CASE StreamSettled
  BY <1>20 DEF StreamSettled
<1>21. ASSUME NEW b \in Bodies, AnswerRead(b)
       PROVE  Quitted'
  BY <1>21 DEF AnswerRead
<1>22. ASSUME NEW b \in Bodies, ErrorRead(b)
       PROVE  Quitted'
  BY <1>22 DEF ErrorRead
<1>23. ASSUME NEW b \in Bodies, EmbeddingsRead(b)
       PROVE  Quitted'
  BY <1>23 DEF EmbeddingsRead
<1>24. CASE ErrorSettled
  BY <1>24 DEF ErrorSettled
<1>25. CASE RecordUsage
  BY <1>25 DEF RecordUsage
<1>26. CASE RecordUsageFailed
  BY <1>26 DEF RecordUsageFailed
<1>27. CASE ClientLeaves
  BY <1>27 DEF ClientLeaves
<1>28. CASE UNCHANGED vars
  BY <1>28 DEF vars
<1> QED
  BY <1>1, <1>2, <1>3, <1>4, <1>5, <1>6, <1>7, <1>8, <1>9, <1>10, <1>11, <1>12, <1>13,
     <1>14, <1>15, <1>16, <1>17, <1>18, <1>19, <1>20, <1>21, <1>22, <1>23, <1>24, <1>25,
     <1>26, <1>27, <1>28
     DEF Next, Handler, Settler

-----------------------------------------------------------------------------
(* The bytes of a stream and of its capture                                *)

\* The kinds of a stream's events, and whether one kind may come after another.
StreamKinds ==
  (IF route = "messages" THEN AnthropicKinds ELSE OpenAIKinds) \cup {"started", "error"}

\* Whether an event of kind b may follow one of kind a.
After(a, b) ==
  a # Heartbeat =>
    IF b = Heartbeat THEN StreamOrder[a] \notin 3..6
    ELSE IF b = "text" THEN StreamOrder[a] <= 2 ELSE StreamOrder[a] < StreamOrder[b]

\* The bytes of a stream: first and second halves alternate, the events come in
\* their order, and a message_delta not before a message_start.
WellFormed(w) ==
  /\ w \in Seq(Bytes)
  /\ \A i \in 1..Len(w) : w[i][1] \in StreamKinds
  /\ \A i \in 1..Len(w) : w[i][2] = 1 <=> i % 2 = 1
  /\ \A i \in 1..Len(w) : i % 2 = 0 => w[i][1] = w[i - 1][1]
  /\ \A j \in 1..Len(w) : \A i \in 1..(j - 1) :
       ~(j % 2 = 0 /\ i = j - 1) => After(w[i][1], w[j][1])
  /\ \A j \in 1..Len(w) : w[j][1] = "message_delta" =>
       \E i \in 1..(j - 1) : w[i][1] = "message_start"

\* The order of the kinds, value by value.
LEMMA OrderOf ==
  ASSUME NEW k \in Kinds
  PROVE  /\ k = "started" => StreamOrder[k] = 0
         /\ k = "message_start" => StreamOrder[k] = 1
         /\ k \in {"text", "refusal"} => StreamOrder[k] = 2
         /\ k \in {"message_delta", "finish"} => StreamOrder[k] = 3
         /\ k = "usage" => StreamOrder[k] = 4
         /\ k \in {"message_stop", "DONE"} => StreamOrder[k] = 5
         /\ k = "error" => StreamOrder[k] = 6
         /\ StreamOrder[k] = 1 => k = "message_start"
         /\ StreamOrder[k] \in 0..6
BY DEF StreamOrder

\* The kinds of a stream are kinds of payloads.
LEMMA StreamKindsAreKinds == StreamKinds \subseteq Kinds
BY DEF StreamKinds, Kinds

\* A stream stays well formed when an event begins that may follow every event
\* before it.
LEMMA BeginEvent ==
  ASSUME NEW w, WellFormed(w), Len(w) % 2 = 0, NEW k \in StreamKinds,
         \A i \in 1..Len(w) : After(w[i][1], k),
         k = "message_delta" => \E i \in 1..Len(w) : w[i][1] = "message_start"
  PROVE  WellFormed(Append(w, <<k, 1>>))
<1> DEFINE v == Append(w, <<k, 1>>)
<1>1. <<k, 1>> \in Bytes /\ w \in Seq(Bytes)
  BY StreamKindsAreKinds DEF Bytes, WellFormed
<1>2. /\ v \in Seq(Bytes) /\ Len(v) = Len(w) + 1 /\ Len(w) \in Nat
      /\ v[Len(w) + 1] = <<k, 1>> /\ \A i \in 1..Len(w) : v[i] = w[i]
  BY <1>1
<1> HIDE DEF v
<1>3. \A i \in 1..Len(v) : v[i][1] \in StreamKinds
  BY <1>2, SMTT(40) DEF WellFormed
<1>4. \A i \in 1..Len(v) : v[i][2] = 1 <=> i % 2 = 1
  <2> SUFFICES ASSUME NEW i \in 1..Len(v) PROVE v[i][2] = 1 <=> i % 2 = 1
    OBVIOUS
  <2>1. CASE i = Len(w) + 1
    <3>1. i % 2 = 1 /\ v[i][2] = 1
      BY <1>2, <2>1
    <3> QED
      BY <3>1
  <2>2. CASE i \in 1..Len(w)
    BY <1>2, <2>2 DEF WellFormed
  <2> QED
    BY <1>2, <2>1, <2>2
<1>5. \A i \in 1..Len(v) : i % 2 = 0 => v[i][1] = v[i - 1][1]
  <2> SUFFICES ASSUME NEW i \in 1..Len(v), i % 2 = 0
               PROVE  v[i][1] = v[i - 1][1]
    OBVIOUS
  <2>1. Len(w) \in Nat /\ i \in 1..(Len(w) + 1)
    BY <1>2
  <2>2. i # Len(w) + 1 /\ i # 1
    BY <2>1
  <2>3. i \in 1..Len(w) /\ i - 1 \in 1..Len(w)
    BY <2>1, <2>2
  <2> QED
    BY <1>2, <2>3, SMTT(40) DEF WellFormed
<1>6. ASSUME NEW j \in 1..Len(v), NEW i \in 1..(j - 1), ~(j % 2 = 0 /\ i = j - 1)
      PROVE  After(v[i][1], v[j][1])
  <2>1. i \in 1..Len(w) /\ v[i] = w[i]
    BY <1>2
  <2>2. CASE j = Len(w) + 1
    BY <1>2, <2>1, <2>2
  <2>3. CASE j \in 1..Len(w)
    BY <1>2, <1>6, <2>1, <2>3 DEF WellFormed
  <2> QED
    BY <1>2, <2>2, <2>3
<1>7. ASSUME NEW j \in 1..Len(v), v[j][1] = "message_delta"
      PROVE  \E i \in 1..(j - 1) : v[i][1] = "message_start"
  <2>1. CASE j = Len(w) + 1
    BY <1>2, <1>7, <2>1
  <2>2. CASE j \in 1..Len(w)
    <3>1. PICK i \in 1..(j - 1) : w[i][1] = "message_start"
      BY <1>2, <1>7, <2>2 DEF WellFormed
    <3>2. i \in 1..Len(w)
      BY <1>2, <2>2
    <3> QED
      BY <1>2, <3>1, <3>2
  <2> QED
    BY <1>2, <2>1, <2>2
<1>8. WellFormed(v)
  BY <1>2, <1>3, <1>4, <1>5, <1>6, <1>7 DEF WellFormed
<1> QED
  BY <1>8 DEF v

\* A stream stays well formed when its open event is finished.
LEMMA FinishEvent ==
  ASSUME NEW w, WellFormed(w), Len(w) % 2 = 1
  PROVE  WellFormed(Append(w, <<w[Len(w)][1], 2>>))
<1> DEFINE n == Len(w)
           v == Append(w, <<w[n][1], 2>>)
<1>1. w \in Seq(Bytes) /\ n \in Nat /\ n \in 1..n
  BY DEF WellFormed
<1>2. w[n] \in Bytes
  BY <1>1
<1>3. <<w[n][1], 2>> \in Bytes
  BY <1>2 DEF Bytes
<1>4. /\ v \in Seq(Bytes) /\ Len(v) = n + 1
      /\ v[n + 1] = <<w[n][1], 2>> /\ \A i \in 1..n : v[i] = w[i]
  BY <1>1, <1>3
<1> HIDE DEF v
<1>5. \A i \in 1..Len(v) : v[i][1] \in StreamKinds
  BY <1>1, <1>4 DEF WellFormed
<1>6. \A i \in 1..Len(v) : v[i][2] = 1 <=> i % 2 = 1
  <2> SUFFICES ASSUME NEW i \in 1..Len(v) PROVE v[i][2] = 1 <=> i % 2 = 1
    OBVIOUS
  <2>1. CASE i = n + 1
    <3>1. i % 2 = 0 /\ v[i][2] = 2
      BY <1>1, <1>4, <2>1
    <3> QED
      BY <3>1
  <2>2. CASE i \in 1..n
    BY <1>4, <2>2 DEF WellFormed
  <2> QED
    BY <1>1, <1>4, <2>1, <2>2
<1>7. \A i \in 1..Len(v) : i % 2 = 0 => v[i][1] = v[i - 1][1]
  <2> SUFFICES ASSUME NEW i \in 1..Len(v), i % 2 = 0
               PROVE  v[i][1] = v[i - 1][1]
    OBVIOUS
  <2>1. CASE i = n + 1
    BY <1>1, <1>4, <2>1
  <2>2. CASE i \in 1..n
    <3>1. i - 1 \in 1..n
      BY <1>1, <2>2
    <3> QED
      BY <1>4, <2>2, <3>1 DEF WellFormed
  <2> QED
    BY <1>1, <1>4, <2>1, <2>2
<1>8. ASSUME NEW j \in 1..Len(v), NEW i \in 1..(j - 1), ~(j % 2 = 0 /\ i = j - 1)
      PROVE  After(v[i][1], v[j][1])
  <2>1. i \in 1..n /\ v[i] = w[i]
    BY <1>1, <1>4
  <2>2. CASE j = n + 1
    <3>1. i \in 1..(n - 1) /\ v[j][1] = w[n][1]
      BY <1>1, <1>4, <1>8, <2>2
    <3>2. ~(n % 2 = 0 /\ i = n - 1)
      OBVIOUS
    <3>3. After(w[i][1], w[n][1])
      BY <1>1, <3>1, <3>2 DEF WellFormed
    <3> QED
      BY <2>1, <3>1, <3>3
  <2>3. CASE j \in 1..n
    BY <1>1, <1>4, <1>8, <2>1, <2>3 DEF WellFormed
  <2> QED
    BY <1>1, <1>4, <2>2, <2>3
<1>9. ASSUME NEW j \in 1..Len(v), v[j][1] = "message_delta"
      PROVE  \E i \in 1..(j - 1) : v[i][1] = "message_start"
  <2> DEFINE h == IF j = n + 1 THEN n ELSE j
  <2>1. h \in 1..n /\ w[h][1] = "message_delta" /\ h <= j
    BY <1>1, <1>4, <1>9
  <2> HIDE DEF h
  <2>2. PICK i \in 1..(h - 1) : w[i][1] = "message_start"
    BY <2>1 DEF WellFormed
  <2>3. i \in 1..(j - 1) /\ i \in 1..n
    BY <1>1, <2>1
  <2> QED
    BY <1>4, <2>2, <2>3
<1>10. WellFormed(v)
  BY <1>4, <1>5, <1>6, <1>7, <1>8, <1>9 DEF WellFormed
<1> QED
  BY <1>10 DEF v

\* The kinds that upstream may send next may follow every event it has sent.
LEMMA NextKindsFacts ==
  ASSUME WellFormed(wire), NEW k \in NextKinds
  PROVE  /\ k \in StreamKinds /\ \A i \in 1..Len(wire) : After(wire[i][1], k)
         /\ k = "message_delta" => \E i \in 1..Len(wire) : wire[i][1] = "message_start"
<1> DEFINE seen == {StreamOrder[wire[i][1]] : i \in {j \in DOMAIN wire : wire[j][1] # Heartbeat}}
<1>1. k \in StreamKinds
  BY DEF NextKinds, StreamKinds
<1>2. DOMAIN wire = 1..Len(wire)
  BY DEF WellFormed
<1>3. \A i \in 1..Len(wire) : wire[i][1] # Heartbeat => StreamOrder[wire[i][1]] \in seen
  BY <1>2
<1>4. /\ k = Heartbeat => seen \cap 3..6 = {}
      /\ k # Heartbeat => \A s \in seen : IF k = "text" THEN s <= 2 ELSE s < StreamOrder[k]
      /\ k # Heartbeat /\ StreamOrder[k] \in 2..5 => route = "chat" \/ 1 \in seen
  BY DEF NextKinds
<1>5. k = "message_delta" => \E i \in 1..Len(wire) : wire[i][1] = "message_start"
  <2> SUFFICES ASSUME k = "message_delta" PROVE \E i \in 1..Len(wire) : wire[i][1] = "message_start"
    OBVIOUS
  <2>1. route = "messages" /\ k \in Kinds /\ k # Heartbeat
    BY <1>1, StreamKindsAreKinds DEF StreamKinds, OpenAIKinds, Heartbeat
  <2>2. StreamOrder[k] = 3
    BY <2>1, OrderOf
  <2>3. 1 \in seen
    BY <1>4, <2>1, <2>2
  <2>4. PICK i \in 1..Len(wire) : StreamOrder[wire[i][1]] = 1
    BY <1>2, <2>3
  <2>5. wire[i][1] \in Kinds
    BY StreamKindsAreKinds DEF WellFormed
  <2> QED
    BY <2>4, <2>5, OrderOf
<1> HIDE DEF seen
<1>6. ASSUME NEW i \in 1..Len(wire)
      PROVE  After(wire[i][1], k)
  BY <1>3, <1>4 DEF After
<1> QED
  BY <1>1, <1>5, <1>6

\* Tuples of one and of two elements are sequences.
LEMMA Tuples ==
  ASSUME NEW S, NEW a \in S, NEW b \in S
  PROVE  /\ <<a>> \in Seq(S) /\ Len(<<a>>) \in 1..2
         /\ <<a, b>> \in Seq(S) /\ Len(<<a, b>>) \in 1..2
OBVIOUS

\* Concatenations of such tuples.
LEMMA Joined ==
  ASSUME NEW a, NEW b
  PROVE  <<a>> \o <<b>> = <<a, b>> /\ <<>> \o <<a>> = <<a>> /\ <<>> \o <<a, b>> = <<a, b>>
<1> DEFINE S == {a, b}
<1>1. <<a>> \in Seq(S) /\ <<b>> \in Seq(S) /\ <<a, b>> \in Seq(S) /\ <<>> \in Seq(S)
  OBVIOUS
<1>2. <<a>> \o <<b>> = <<a, b>>
  <2>1. <<a>> \o <<b>> \in Seq(S) /\ Len(<<a>> \o <<b>>) = 2 /\ Len(<<a, b>>) = 2
    BY <1>1
  <2>2. (<<a>> \o <<b>>)[1] = a /\ (<<a>> \o <<b>>)[2] = b
    BY <1>1
  <2>3. ASSUME NEW i \in 1..2 PROVE (<<a>> \o <<b>>)[i] = <<a, b>>[i]
    <3>1. i = 1 \/ i = 2
      OBVIOUS
    <3> QED
      BY <2>2, <3>1
  <2> DEFINE x == <<a>> \o <<b>>
             y == <<a, b>>
  <2>4. x \in Seq(S) /\ y \in Seq(S) /\ Len(x) = Len(y) /\ \A i \in 1..Len(x) : x[i] = y[i]
    BY <1>1, <2>1, <2>3
  <2> HIDE DEF x, y, S
  <2>5. x = y
    BY <2>4, SeqEqual
  <2> QED
    BY <2>5 DEF x, y
<1>3. <<>> \o <<a>> = <<a>> /\ <<>> \o <<a, b>> = <<a, b>>
  BY <1>1, ConcatEmptySeq
<1> QED
  BY <1>2, <1>3

\* The bytes of one read: the rest of the open event, the rest and the begin of
\* the next, the begin of an event, or a whole event.
LEMMA Chunks ==
  ASSUME NEW chunk \in NextChunks
  PROVE  LET open == wire # <<>> /\ wire[Len(wire)][2] = 1
         IN \/ open /\ chunk = <<<<wire[Len(wire)][1], 2>>>>
            \/ open /\ \E k \in NextKinds : chunk = <<<<wire[Len(wire)][1], 2>>, <<k, 1>>>>
            \/ ~open /\ \E k \in NextKinds : chunk = <<<<k, 1>>>>
            \/ ~open /\ \E k \in NextKinds : chunk = <<<<k, 1>>, <<k, 2>>>>
<1> DEFINE open == wire # <<>> /\ wire[Len(wire)][2] = 1
           rest == IF open THEN <<<<wire[Len(wire)][1], 2>>>> ELSE <<>>
           new(k) == IF open THEN {<<<<k, 1>>>>} ELSE {<<<<k, 1>>>>, <<<<k, 1>>, <<k, 2>>>>}
<1>1. \/ open /\ chunk = rest
      \/ \E k \in NextKinds : \E n \in new(k) : chunk = rest \o n
  BY DEF NextChunks, Last
<1>2. CASE open /\ chunk = rest
  BY <1>2
<1>3. ASSUME NEW k \in NextKinds, NEW n \in new(k), chunk = rest \o n
      PROVE  \/ open /\ chunk = <<<<wire[Len(wire)][1], 2>>, <<k, 1>>>>
             \/ ~open /\ (chunk = <<<<k, 1>>>> \/ chunk = <<<<k, 1>>, <<k, 2>>>>)
  <2>1. CASE open
    <3>1. n = <<<<k, 1>>>> /\ rest = <<<<wire[Len(wire)][1], 2>>>>
      BY <2>1
    <3> QED
      BY <1>3, <2>1, <3>1, Joined
  <2>2. CASE ~open
    <3>1. n \in {<<<<k, 1>>>>, <<<<k, 1>>, <<k, 2>>>>} /\ rest = <<>>
      BY <2>2
    <3> QED
      BY <1>3, <2>2, <3>1, Joined
  <2> QED
    BY <2>1, <2>2
<1> QED
  BY <1>1, <1>2, <1>3

\* However the stream is split into reads, it stays well formed.
LEMMA Reading ==
  ASSUME WellFormed(wire), NEW chunk \in NextChunks
  PROVE  WellFormed(wire \o chunk) /\ chunk \in Seq(Bytes) /\ Len(chunk) \in 1..2
<1> DEFINE n == Len(wire)
           open == wire # <<>> /\ wire[n][2] = 1
<1>1. n \in Nat /\ wire \in Seq(Bytes) /\ (wire # <<>> => n \in 1..n)
  BY DEF WellFormed
<1>2. open <=> n % 2 = 1
  BY <1>1 DEF WellFormed
<1>3. open => <<wire[n][1], 2>> \in Bytes
  BY <1>1 DEF Bytes
<1>4. \A k \in NextKinds : <<k, 1>> \in Bytes /\ <<k, 2>> \in Bytes
  BY NextKindsFacts, StreamKindsAreKinds DEF Bytes
<1>5. CASE open /\ chunk = <<<<wire[n][1], 2>>>>
  <2>1. wire \o chunk = Append(wire, <<wire[n][1], 2>>)
    BY <1>1, <1>3, <1>5
  <2>2. WellFormed(Append(wire, <<wire[n][1], 2>>))
    BY <1>2, <1>5, FinishEvent
  <2> QED
    BY <1>3, <1>5, <2>1, <2>2, Tuples
<1>6. ASSUME open, NEW k \in NextKinds, chunk = <<<<wire[n][1], 2>>, <<k, 1>>>>
      PROVE  WellFormed(wire \o chunk) /\ chunk \in Seq(Bytes) /\ Len(chunk) \in 1..2
  <2> DEFINE v == Append(wire, <<wire[n][1], 2>>)
  <2>1. WellFormed(v)
    BY <1>2, <1>6, FinishEvent
  <2>2. Len(v) = n + 1 /\ v[n + 1] = <<wire[n][1], 2>> /\ \A i \in 1..n : v[i] = wire[i]
    BY <1>1, <1>3, <1>6
  <2>3. wire \o chunk = Append(v, <<k, 1>>)
    BY <1>1, <1>3, <1>4, <1>6, SMTT(40)
  <2> HIDE DEF v
  <2>4. \A i \in 1..Len(v) : After(v[i][1], k)
    BY <1>1, <1>6, <2>2, NextKindsFacts
  <2>5. k = "message_delta" => \E i \in 1..Len(v) : v[i][1] = "message_start"
    BY <1>1, <2>2, NextKindsFacts
  <2>6. WellFormed(Append(v, <<k, 1>>))
    <3>1. n % 2 = 1
      BY <1>2, <1>6
    <3>2. Len(v) % 2 = 0
      BY <1>1, <2>2, <3>1
    <3> QED
      BY <2>1, <2>4, <2>5, <3>2, NextKindsFacts, BeginEvent
  <2> QED
    BY <1>3, <1>4, <1>6, <2>3, <2>6, Tuples
<1>7. ASSUME ~open, NEW k \in NextKinds, chunk = <<<<k, 1>>>>
      PROVE  WellFormed(wire \o chunk) /\ chunk \in Seq(Bytes) /\ Len(chunk) \in 1..2
  <2>1. wire \o chunk = Append(wire, <<k, 1>>)
    BY <1>1, <1>4, <1>7
  <2>2. WellFormed(Append(wire, <<k, 1>>))
    BY <1>1, <1>2, <1>7, NextKindsFacts, BeginEvent
  <2> QED
    BY <1>4, <1>7, <2>1, <2>2, Tuples
<1>8. ASSUME ~open, NEW k \in NextKinds, chunk = <<<<k, 1>>, <<k, 2>>>>
      PROVE  WellFormed(wire \o chunk) /\ chunk \in Seq(Bytes) /\ Len(chunk) \in 1..2
  <2> DEFINE v == Append(wire, <<k, 1>>)
  <2>1. WellFormed(v)
    BY <1>1, <1>2, <1>8, NextKindsFacts, BeginEvent
  <2>2. Len(v) = n + 1 /\ v[n + 1] = <<k, 1>>
    BY <1>1, <1>4
  <2>3. wire \o chunk = Append(v, <<k, 2>>)
    BY <1>1, <1>4, <1>8
  <2> HIDE DEF v
  <2>4. WellFormed(Append(v, <<k, 2>>))
    BY <1>1, <1>2, <1>8, <2>1, <2>2, FinishEvent, SMTT(40)
  <2> QED
    BY <1>4, <1>8, <2>3, <2>4, Tuples
<1> QED
  BY <1>5, <1>6, <1>7, <1>8, Chunks

\* What the capture holds: the last CaptureLimit bytes of the stream.
LastBytes(c, w) ==
  /\ c \in Seq(Bytes)
  /\ Len(c) = IF Len(w) <= CaptureLimit THEN Len(w) ELSE CaptureLimit
  /\ \A i \in 1..Len(c) : c[i] = w[Len(w) - Len(c) + i]

\* The last n elements of a sequence.
LEMMA LastPart ==
  ASSUME NEW s \in Seq(Bytes), NEW n \in 0..Len(s)
  PROVE  LET t == SubSeq(s, Len(s) - n + 1, Len(s))
         IN /\ t \in Seq(Bytes) /\ Len(t) = n
            /\ \A i \in 1..n : t[i] = s[Len(s) - n + i]
<1> DEFINE a == Len(s) - n + 1
           b == Len(s)
<1>1. b \in Nat /\ a \in Int /\ a >= 1 /\ b - a + 1 = n
  OBVIOUS
<1>2. \A i \in a..b : s[i] \in Bytes
  BY <1>1, ElementOfSeq
<1>3. \A i \in 1..n : a + i - 1 = Len(s) - n + i
  OBVIOUS
<1>4. (IF a <= b THEN b - a + 1 ELSE 0) = n
  BY <1>1
<1> HIDE DEF a, b
<1>5. /\ SubSeq(s, a, b) \in Seq(Bytes)
      /\ Len(SubSeq(s, a, b)) = IF a <= b THEN b - a + 1 ELSE 0
      /\ \A i \in 1..(b - a + 1) : SubSeq(s, a, b)[i] = s[a + i - 1]
  BY <1>1, <1>2, SubSeqProperties
<1>6. SubSeq(s, a, b) \in Seq(Bytes) /\ Len(SubSeq(s, a, b)) = n
  BY <1>4, <1>5
<1>7. \A i \in 1..n : SubSeq(s, a, b)[i] = s[Len(s) - n + i]
  BY <1>1, <1>3, <1>5
<1> QED
  BY <1>6, <1>7 DEF a, b

\* tailCaptureBuffer.Write keeps the last bytes, whatever it held and was given.
LEMMA Capturing ==
  ASSUME NEW w \in Seq(Bytes), NEW c, LastBytes(c, w), NEW p \in Seq(Bytes), Len(p) \in Nat \ {0}
  PROVE  LastBytes(CaptureWrite(c, p), w \o p)
<1> DEFINE L == CaptureLimit
           v == w \o p
<1>1. /\ Len(w) \in Nat /\ Len(p) \in Nat /\ Len(c) \in Nat /\ L \in Nat
      /\ c \in Seq(Bytes) /\ Len(c) <= Len(w) /\ Len(c) <= L
  BY PipelineAssumption DEF LastBytes
<1>2. /\ v \in Seq(Bytes) /\ Len(v) = Len(w) + Len(p)
      /\ \A i \in 1..Len(w) : v[i] = w[i]
      /\ \A i \in 1..Len(p) : v[Len(w) + i] = p[i]
  BY <1>1
<1> HIDE DEF v
<1>3. CASE L <= 0
  <2>1. CaptureWrite(c, p) = c /\ Len(c) = 0 /\ L = 0
    BY <1>1, <1>3 DEF CaptureWrite
  <2> QED
    BY <1>1, <1>2, <2>1 DEF LastBytes, v
<1>4. CASE L > 0 /\ Len(p) >= L
  <2> DEFINE d == SubSeq(p, Len(p) - L + 1, Len(p))
  <2>1. CaptureWrite(c, p) = d
    BY <1>1, <1>4 DEF CaptureWrite
  <2>2. d \in Seq(Bytes) /\ Len(d) = L /\ \A i \in 1..L : d[i] = p[Len(p) - L + i]
    BY <1>1, <1>4, LastPart
  <2> HIDE DEF d
  <2>3. ASSUME NEW i \in 1..L PROVE d[i] = v[Len(v) - L + i]
    <3>1. Len(p) - L + i \in 1..Len(p) /\ Len(v) - L + i = Len(w) + (Len(p) - L + i)
      BY <1>1, <1>2, <1>4
    <3> QED
      BY <1>2, <2>2, <3>1
  <2>4. Len(d) = IF Len(v) <= L THEN Len(v) ELSE L
    BY <1>1, <1>2, <1>4, <2>2
  <2> QED
    BY <2>1, <2>2, <2>3, <2>4 DEF LastBytes, v
<1>5. CASE L > 0 /\ Len(p) < L /\ Len(c) + Len(p) > L
  <2> DEFINE m == L - Len(p)
             q == SubSeq(c, Len(c) - m + 1, Len(c))
             d == q \o p
  <2>1. m \in 1..Len(c) /\ Len(c) - (Len(c) + Len(p) - L) = m
    BY <1>1, <1>5
  <2>2. CaptureWrite(c, p) = d
    <3>1. ~(L <= 0) /\ ~(Len(p) >= L) /\ Len(c) + Len(p) - L > 0
      BY <1>1, <1>5
    <3>2. CaptureWrite(c, p) =
            SubSeq(c, Len(c) - (Len(c) - (Len(c) + Len(p) - L)) + 1, Len(c)) \o p
      BY <3>1 DEF CaptureWrite
    <3> QED
      BY <2>1, <3>2
  <2>3. q \in Seq(Bytes) /\ Len(q) = m /\ \A i \in 1..m : q[i] = c[Len(c) - m + i]
    <3>1. m \in 0..Len(c)
      BY <1>1, <2>1
    <3> HIDE DEF m
    <3> QED
      BY <1>1, <3>1, LastPart
  <2> HIDE DEF q
  <2>4. /\ d \in Seq(Bytes) /\ Len(d) = L
        /\ \A i \in 1..m : d[i] = q[i]
        /\ \A i \in 1..Len(p) : d[m + i] = p[i]
    <3>1. m + Len(p) = L /\ m \in Nat
      BY <1>1, <2>1
    <3> HIDE DEF m
    <3>2. d \in Seq(Bytes) /\ Len(d) = Len(q) + Len(p)
      BY <2>3, ConcatProperties
    <3>3. \A i \in 1..m : d[i] = q[i]
      BY <1>1, <2>3, <3>1
    <3>4. \A i \in 1..Len(p) : d[m + i] = p[i]
      BY <1>1, <2>3, <3>1
    <3> QED
      BY <2>3, <3>1, <3>2, <3>3, <3>4
  <2> HIDE DEF d
  <2>5. ASSUME NEW i \in 1..L PROVE d[i] = v[Len(v) - L + i]
    <3>1. CASE i <= m
      <4>1. /\ i \in 1..m /\ Len(c) - m + i \in 1..Len(c)
            /\ Len(v) - L + i = Len(w) - Len(c) + (Len(c) - m + i)
            /\ Len(v) - L + i \in 1..Len(w)
        BY <1>1, <1>2, <1>5, <2>1, <3>1
      <4>2. d[i] = c[Len(c) - m + i]
        BY <2>3, <2>4, <4>1
      <4>3. c[Len(c) - m + i] = w[Len(v) - L + i]
        BY <4>1 DEF LastBytes
      <4> QED
        BY <1>2, <4>1, <4>2, <4>3
    <3>2. CASE i > m
      <4>1. i - m \in 1..Len(p) /\ m + (i - m) = i /\ Len(w) + (i - m) = Len(v) - L + i
        BY <1>1, <1>2, <1>5, <2>1, <3>2
      <4>2. d[m + (i - m)] = p[i - m] /\ v[Len(w) + (i - m)] = p[i - m]
        BY <1>2, <2>4, <4>1
      <4> QED
        BY <4>1, <4>2
    <3> QED
      BY <1>1, <2>1, <3>1, <3>2
  <2>6. Len(d) = IF Len(v) <= L THEN Len(v) ELSE L
    BY <1>1, <1>2, <1>5, <2>4
  <2> QED
    BY <2>2, <2>4, <2>5, <2>6 DEF LastBytes, v
<1>6. CASE L > 0 /\ Len(p) < L /\ Len(c) + Len(p) <= L
  <2> DEFINE d == c \o p
  <2>1. Len(c) = Len(w)
    BY <1>1, <1>6 DEF LastBytes
  <2>2. CaptureWrite(c, p) = d
    <3>1. ~(L <= 0) /\ ~(Len(p) >= L) /\ ~(Len(c) + Len(p) - L > 0)
      BY <1>1, <1>6
    <3> QED
      BY <3>1 DEF CaptureWrite
  <2>3. /\ d \in Seq(Bytes) /\ Len(d) = Len(w) + Len(p)
        /\ \A i \in 1..Len(w) : d[i] = c[i]
        /\ \A i \in 1..Len(p) : d[Len(w) + i] = p[i]
    BY <1>1, <2>1
  <2> HIDE DEF d
  <2>4. ASSUME NEW i \in 1..Len(d) PROVE d[i] = v[Len(v) - Len(d) + i]
    <3>1. Len(v) - Len(d) + i = i
      BY <1>1, <1>2, <2>3
    <3>2. CASE i \in 1..Len(w)
      <4>1. Len(w) - Len(c) + i = i
        BY <1>1, <2>1, <3>2
      <4>2. c[i] = w[i]
        BY <2>1, <3>2, <4>1 DEF LastBytes
      <4> QED
        BY <1>2, <2>3, <3>1, <3>2, <4>2
    <3>3. CASE i > Len(w)
      <4>1. i - Len(w) \in 1..Len(p) /\ Len(w) + (i - Len(w)) = i
        BY <1>1, <2>3, <3>3
      <4>2. d[Len(w) + (i - Len(w))] = v[Len(w) + (i - Len(w))]
        BY <1>2, <2>3, <4>1
      <4> QED
        BY <3>1, <4>1, <4>2
    <3> QED
      BY <1>1, <2>3, <3>2, <3>3
  <2>5. Len(d) = IF Len(v) <= L THEN Len(v) ELSE L
    BY <1>1, <1>2, <1>6, <2>1, <2>3
  <2> QED
    BY <2>2, <2>3, <2>4, <2>5 DEF LastBytes, v
<1> QED
  BY <1>1, <1>3, <1>4, <1>5, <1>6

\* The whole events among the bytes of a stream or of its capture.
LEMMA EventsOf ==
  ASSUME NEW s \in Seq(Bytes)
  PROVE  LET skip == IF s # <<>> /\ s[1][2] = 2 THEN 1 ELSE 0
         IN /\ Len(Events(s)) = (Len(s) - skip) \div 2 /\ Len(Events(s)) \in Nat
            /\ DOMAIN Events(s) = 1..Len(Events(s))
            /\ \A i \in 1..Len(Events(s)) : Events(s)[i] = s[skip + 2 * i][1]
<1> DEFINE skip == IF s # <<>> /\ s[1][2] = 2 THEN 1 ELSE 0
           n == (Len(s) - skip) \div 2
           f(i) == s[skip + 2 * i][1]
<1>1. Len(s) \in Nat /\ (s # <<>> => Len(s) > 0)
  OBVIOUS
<1>2. n \in Nat
  <2>1. skip \in 0..1 /\ Len(s) - skip \in Nat
    BY <1>1
  <2> HIDE DEF skip
  <2> QED
    BY <2>1
<1>3. Events(s) = [i \in 1..n |-> f(i)]
  BY DEF Events
<1> HIDE DEF n, f
<1>4. Len(Events(s)) = n /\ DOMAIN Events(s) = 1..n /\ \A i \in 1..n : Events(s)[i] = f(i)
  <2> DEFINE e == [i \in 1..n |-> f(i)]
             S == {f(i) : i \in 1..n}
  <2>1. DOMAIN e = 1..n /\ e \in [1..n -> S]
    OBVIOUS
  <2>2. e \in Seq(S)
    BY <1>2, <2>1, SMTT(40)
  <2>3. Len(e) = n
    BY <1>2, <2>1, <2>2, LenProperties
  <2> QED
    BY <1>3, <2>1, <2>3
<1> QED
  BY <1>2, <1>4 DEF n, f

-----------------------------------------------------------------------------
(* The body and the status that are settled                                *)

\* The client left when a write to it failed; only a streamed answer leaves
\* bytes; the settlement of a streamed answer has the captured events as its
\* body, and a disconnect status only for a client that left.
Account ==
  /\ cut => gone
  /\ ~(streamed /\ status \in {200, 300}) => wire = <<>>
  /\ body.json \/ Len(body.parts) \in Nat
  /\ job # "none" /\ code = 499 => gone \/ status = 499
  /\ job # "none" /\ streamed /\ status \in {200, 300} =>
       /\ body = [json |-> FALSE, parts |-> Events(captured)]
       /\ code = status \/ code = 499
       /\ code = 499 => cut \/ ClassifyCompletionBody(body) # "complete"
  /\ job # "none" /\ ~(streamed /\ status \in {200, 300}) =>
       /\ \/ body = NoBody
          \/ body.json /\ body.parts[1] \in {"message", "message_without_usage", "error", "nothing"}
       /\ code = status \/ (code = 499 /\ status \in {200, 300})
       /\ code = 499 /\ status # 499 => ClassifyCompletionBody(body) # "complete"

\* The stream and its capture.
Stream == WellFormed(wire) /\ LastBytes(captured, wire)

\* No other step than a read changes the stream and its capture.
LEMMA OnlyReadReads ==
  ASSUME [Next]_vars, ~Read
  PROVE  UNCHANGED <<route, wire, captured>>
<1> USE DEF input, answer
<1>1. CASE Refuse \/ TakeCounters \/ RefuseLate \/ Reserve \/ PassThrough
  BY <1>1 DEF Refuse, TakeCounters, RefuseLate, Reserve, PassThrough
<1>2. CASE \/ ConnectRefused \/ CallFailed \/ GiveUp \/ AllCandidatesFailed
           \/ DisconnectedBeforeAnswer
  BY <1>2
     DEF ConnectRefused, CallFailed, GiveUp, AllCandidatesFailed, DisconnectedBeforeAnswer
<1>3. CASE \E s \in Statuses : Answered(s)
  BY <1>3 DEF Answered
<1>4. CASE EndOfStream \/ SettleStream \/ StreamSettled
  BY <1>4 DEF EndOfStream, SettleStream, StreamSettled, StreamOver
<1>5. CASE \E b \in Bodies : AnswerRead(b) \/ ErrorRead(b) \/ EmbeddingsRead(b)
  BY <1>5 DEF AnswerRead, ErrorRead, EmbeddingsRead
<1>6. CASE ErrorSettled \/ ImagesRead \/ DeferredFinalize \/ Leave \/ ClientLeaves
  BY <1>6 DEF ErrorSettled, ImagesRead, DeferredFinalize, Leave, ClientLeaves
<1>7. CASE Settler
  BY <1>7 DEF Settler, RecordUsage, RecordUsageFailed, Finalize, FinalizeFailed
<1>8. CASE UNCHANGED vars
  BY <1>8 DEF vars
<1> QED
  BY <1>1, <1>2, <1>3, <1>4, <1>5, <1>6, <1>7, <1>8 DEF Next, Handler

\* Every step keeps the stream well formed and the capture its last bytes.
LEMMA StreamStep == Stream /\ [Next]_vars => Stream'
<1> SUFFICES ASSUME Stream, [Next]_vars PROVE Stream'
  OBVIOUS
<1>1. CASE ~Read
  <2>1. route' = route /\ wire' = wire /\ captured' = captured
    BY <1>1, OnlyReadReads
  <2>2. StreamKinds' = StreamKinds /\ Heartbeat' = Heartbeat
    BY <2>1 DEF StreamKinds, Heartbeat
  <2>3. \A a, b : After(a, b)' = After(a, b)
    BY <2>2 DEF After
  <2>4. WellFormed(wire)' = WellFormed(wire)
    BY <2>1, <2>2, <2>3 DEF WellFormed
  <2>5. LastBytes(captured, wire)' = LastBytes(captured, wire)
    BY <2>1 DEF LastBytes
  <2> QED
    BY <2>4, <2>5 DEF Stream
<1>2. CASE Read
  <2>1. PICK chunk \in NextChunks : ReadChunk(chunk)
    BY <1>2 DEF Read
  <2>2. wire' = wire \o chunk /\ captured' = CaptureWrite(captured, chunk) /\ route' = route
    BY <2>1 DEF ReadChunk, input
  <2>3. WellFormed(wire \o chunk) /\ chunk \in Seq(Bytes) /\ Len(chunk) \in 1..2
    BY Reading DEF Stream
  <2>4. LastBytes(captured', wire')
    <3>1. wire \in Seq(Bytes) /\ LastBytes(captured, wire)
      BY DEF Stream, WellFormed
    <3>2. Len(chunk) \in Nat \ {0}
      BY <2>3, SMTT(40)
    <3>3. LastBytes(CaptureWrite(captured, chunk), wire \o chunk)
      BY <2>3, <3>1, <3>2, Capturing
    <3> QED
      BY <2>2, <3>3
  <2>5. WellFormed(wire)'
    BY <2>2, <2>3 DEF WellFormed, After, StreamKinds, Heartbeat
  <2> QED
    BY <2>4, <2>5 DEF Stream
<1> QED
  BY <1>1, <1>2

\* Initially nothing has been streamed.
LEMMA StreamInit == Init => Stream
<1> SUFFICES ASSUME Init PROVE Stream
  OBVIOUS
<1>1. wire = <<>> /\ captured = <<>> /\ Len(<<>>) = 0 /\ <<>> \in Seq(Bytes)
  BY DEF Init
<1>2. CaptureLimit \in Nat
  BY PipelineAssumption
<1> QED
  BY <1>1, <1>2 DEF Stream, WellFormed, LastBytes

\* The whole events of a stream are those whose second half was read.
LEMMA WireEvents ==
  ASSUME NEW w, WellFormed(w), NEW k
  PROVE  k \in ToSet(Events(w)) <=> \E j \in 1..Len(w) : j % 2 = 0 /\ w[j][1] = k
<1>1. w \in Seq(Bytes) /\ Len(w) \in Nat
  BY DEF WellFormed
<1>2. ~(w # <<>> /\ w[1][2] = 2)
  <2> SUFFICES ASSUME w # <<>> PROVE w[1][2] = 1
    OBVIOUS
  <2>1. 1 \in 1..Len(w) /\ 1 % 2 = 1
    BY <1>1
  <2> QED
    BY <2>1 DEF WellFormed
<1>3. /\ Len(Events(w)) = (Len(w) - 0) \div 2 /\ Len(Events(w)) \in Nat
      /\ DOMAIN Events(w) = 1..Len(Events(w))
      /\ \A i \in 1..Len(Events(w)) : Events(w)[i] = w[0 + 2 * i][1]
  BY <1>1, <1>2, EventsOf
<1> DEFINE n == Len(Events(w))
<1>4. n = Len(w) \div 2 /\ n \in Nat
  BY <1>1, <1>3
<1>5. ASSUME NEW i \in 1..n PROVE 2 * i \in 1..Len(w) /\ (2 * i) % 2 = 0 /\ Events(w)[i] = w[2 * i][1]
  <2>1. 0 + 2 * i = 2 * i /\ 2 * i \in 1..Len(w) /\ (2 * i) % 2 = 0
    BY <1>1, <1>4
  <2> QED
    BY <1>3, <2>1
<1>6. ASSUME NEW j \in 1..Len(w), j % 2 = 0 PROVE \E i \in 1..n : j = 2 * i
  <2>1. j \div 2 \in 1..n /\ j = 2 * (j \div 2)
    BY <1>1, <1>4, <1>6
  <2> QED
    BY <2>1
<1>7. k \in ToSet(Events(w)) <=> \E i \in 1..n : Events(w)[i] = k
  BY <1>3 DEF ToSet
<1> HIDE DEF n
<1>8. ASSUME NEW i \in 1..n, Events(w)[i] = k
      PROVE  \E j \in 1..Len(w) : j % 2 = 0 /\ w[j][1] = k
  BY <1>5, <1>8
<1>9. ASSUME NEW j \in 1..Len(w), j % 2 = 0, w[j][1] = k
      PROVE  \E i \in 1..n : Events(w)[i] = k
  <2>1. PICK i \in 1..n : j = 2 * i
    BY <1>6, <1>9
  <2> QED
    BY <1>5, <1>9, <2>1
<1> QED
  BY <1>7, <1>8, <1>9

\* The whole events of the capture c are those of the stream w from byte o on.
StartsAt(o, c, w) ==
  /\ o \in 0..Len(w) /\ o % 2 = 0 /\ o <= Len(w) - Len(c) + 1
  /\ Len(Events(c)) = (Len(w) - o) \div 2 /\ Len(Events(c)) \in Nat
  /\ DOMAIN Events(c) = 1..Len(Events(c))
  /\ \A i \in 1..Len(Events(c)) : Events(c)[i] = w[o + 2 * i][1]

\* The whole events of a capture are the events of the stream from some byte on.
LEMMA CapturedEvents ==
  ASSUME NEW w, WellFormed(w), NEW c, LastBytes(c, w)
  PROVE  \E o : StartsAt(o, c, w)
<1> DEFINE skip == IF c # <<>> /\ c[1][2] = 2 THEN 1 ELSE 0
           off == Len(w) - Len(c)
           n == Len(Events(c))
<1>1. /\ w \in Seq(Bytes) /\ Len(w) \in Nat /\ c \in Seq(Bytes) /\ Len(c) \in Nat
      /\ CaptureLimit \in Nat /\ Len(c) <= Len(w) /\ off \in Nat
  BY PipelineAssumption DEF WellFormed, LastBytes
<1>2. /\ n = (Len(c) - skip) \div 2 /\ n \in Nat /\ DOMAIN Events(c) = 1..n
      /\ \A i \in 1..n : Events(c)[i] = c[skip + 2 * i][1]
  BY <1>1, EventsOf
<1>3. CASE c = <<>>
  <2> DEFINE o == IF Len(w) % 2 = 0 THEN Len(w) ELSE Len(w) - 1
  <2>1. Len(c) = 0 /\ n = 0
    BY <1>2, <1>3
  <2>2. o \in 0..Len(w) /\ o % 2 = 0 /\ o <= Len(w) - Len(c) + 1 /\ 0 = (Len(w) - o) \div 2
    <3>1. ASSUME NEW x \in Nat
          PROVE  LET y == IF x % 2 = 0 THEN x ELSE x - 1
                 IN y \in 0..x /\ y % 2 = 0 /\ 0 = (x - y) \div 2
      <4>1. CASE x % 2 = 0
        BY <4>1
      <4>2. CASE x % 2 = 1
        BY <4>2
      <4> QED
        BY <4>1, <4>2
    <3>2. o \in 0..Len(w) /\ o % 2 = 0 /\ 0 = (Len(w) - o) \div 2
      BY <1>1, <3>1
    <3> HIDE DEF o
    <3> QED
      BY <1>1, <2>1, <3>2
  <2> HIDE DEF o
  <2>3. StartsAt(o, c, w)
    BY <1>2, <2>1, <2>2 DEF StartsAt
  <2> QED
    BY <2>3
<1>4. CASE c # <<>>
  <2> DEFINE o == off + skip
  <2>1. Len(c) >= 1 /\ off + 1 \in 1..Len(w) /\ c[1] = w[off + 1]
    <3>1. Len(c) >= 1
      BY <1>1, <1>4
    <3>2. 1 \in 1..Len(c) /\ off + 1 \in 1..Len(w)
      BY <1>1, <3>1
    <3> QED
      BY <3>1, <3>2 DEF LastBytes
  <2>2. w[off + 1][2] = 1 <=> (off + 1) % 2 = 1
    BY <2>1 DEF WellFormed
  <2>3. w[off + 1] \in Bytes
    BY <1>1, <2>1
  <2>4. w[off + 1][2] = 1 \/ w[off + 1][2] = 2
    BY <2>3 DEF Bytes
  <2>5. (skip = 0 /\ off % 2 = 0) \/ (skip = 1 /\ off % 2 = 1)
    BY <1>1, <1>4, <2>1, <2>2, <2>4
  <2> HIDE DEF skip
  <2>6. /\ o \in 0..Len(w) /\ o % 2 = 0 /\ o <= Len(w) - Len(c) + 1
        /\ (Len(w) - o) \div 2 = (Len(c) - skip) \div 2
    BY <1>1, <2>1, <2>5
  <2>7. ASSUME NEW i \in 1..n PROVE Events(c)[i] = w[o + 2 * i][1]
    <3>1. skip + 2 * i \in 1..Len(c) /\ off + (skip + 2 * i) = o + 2 * i
      BY <1>1, <1>2, <2>5, SMTT(40)
    <3>2. c[skip + 2 * i] = w[o + 2 * i]
      BY <3>1 DEF LastBytes
    <3> QED
      BY <1>2, <3>2
  <2> HIDE DEF o
  <2>8. StartsAt(o, c, w)
    BY <1>2, <2>6, <2>7 DEF StartsAt
  <2> QED
    BY <2>8
<1> QED
  BY <1>3, <1>4

\* An error is the last event of a stream, the usage of a chat stream is followed
\* by its end or an error only, and so is the message_delta of a Messages stream.
LEMMA EventsAfter ==
  ASSUME route \in {"chat", "messages"}, NEW b \in StreamKinds
  PROVE  /\ ~After("error", b)
         /\ route = "chat" /\ After("usage", b) => b \in {"DONE", "error"}
         /\ route = "messages" /\ After("message_delta", b) => b \in {"message_stop", "error"}
         /\ After("DONE", b) => b = "error"
         /\ After("message_stop", b) => b = "error"
         /\ IsFinalSSEEvent(b) => ~After(b, "message_start")
<1>1. b \in Kinds /\ StreamOrder[b] \in 0..6
  BY StreamKindsAreKinds, OrderOf
<1>2. StreamOrder["error"] = 6 /\ StreamOrder["usage"] = 4 /\ StreamOrder["message_delta"] = 3
  BY OrderOf DEF Kinds, AnthropicKinds, OpenAIKinds
<1>3. "error" # Heartbeat /\ "usage" # Heartbeat /\ "message_delta" # Heartbeat
  BY DEF Heartbeat
<1>4. ~After("error", b)
  BY <1>1, <1>2, <1>3 DEF After
<1>5. ASSUME route = "chat", After("usage", b)
      PROVE  b \in {"DONE", "error"}
  <2>1. b # Heartbeat /\ b # "text" /\ 4 < StreamOrder[b]
    BY <1>2, <1>3, <1>5 DEF After
  <2>2. b \notin {"refusal", "finish", "usage", "started"}
    BY <1>1, <2>1, OrderOf
  <2> QED
    BY <1>5, <2>1, <2>2 DEF StreamKinds, OpenAIKinds, Heartbeat
<1>6. ASSUME route = "messages", After("message_delta", b)
      PROVE  b \in {"message_stop", "error"}
  <2>1. b # Heartbeat /\ b # "text" /\ 3 < StreamOrder[b]
    BY <1>2, <1>3, <1>6 DEF After
  <2>2. b \notin {"message_start", "message_delta", "started"}
    BY <1>1, <2>1, OrderOf
  <2> QED
    BY <1>6, <2>1, <2>2 DEF StreamKinds, AnthropicKinds, Heartbeat
<1>7. ASSUME NEW a \in {"DONE", "message_stop"}, After(a, b)
      PROVE  b = "error"
  <2>1. StreamOrder[a] = 5 /\ a # Heartbeat
    BY OrderOf DEF Kinds, AnthropicKinds, OpenAIKinds, Heartbeat
  <2>2. b # Heartbeat /\ b # "text" /\ 5 < StreamOrder[b]
    BY <1>7, <2>1 DEF After
  <2>3. b \notin {"refusal", "finish", "usage", "DONE", "started", "message_start",
                 "message_delta", "message_stop"}
    BY <1>1, <2>2, OrderOf
  <2> QED
    BY <2>2, <2>3 DEF StreamKinds, AnthropicKinds, OpenAIKinds, Heartbeat
<1>8. IsFinalSSEEvent(b) => ~After(b, "message_start")
  <2> SUFFICES ASSUME b \in {"message_delta", "finish", "usage"} PROVE ~After(b, "message_start")
    BY DEF IsFinalSSEEvent
  <2>1. StreamOrder[b] \in {3, 4} /\ b # Heartbeat
    BY <1>1, OrderOf DEF Heartbeat
  <2>2. StreamOrder["message_start"] = 1 /\ "message_start" # Heartbeat
    BY OrderOf DEF Kinds, AnthropicKinds, OpenAIKinds, Heartbeat
  <2> QED
    BY <2>1, <2>2 DEF After
<1>9. (After("DONE", b) => b = "error") /\ (After("message_stop", b) => b = "error")
  BY <1>7
<1> QED
  BY <1>4, <1>5, <1>6, <1>8, <1>9

\* The kinds of the capture's events are kinds of the stream's, and a whole error
\* event of the stream is among the last two bytes, which the capture holds.
LEMMA CapturedKinds ==
  ASSUME Stream, NEW i \in 1..Len(Events(captured))
  PROVE  Events(captured)[i] \in ToSet(Events(wire))
<1>1. PICK o : StartsAt(o, captured, wire)
  BY CapturedEvents DEF Stream
<1>2. Len(wire) \in Nat
  BY DEF Stream, WellFormed
<1>3. o + 2 * i \in 1..Len(wire) /\ (o + 2 * i) % 2 = 0
  BY <1>1, <1>2 DEF StartsAt
<1>4. Events(captured)[i] = wire[o + 2 * i][1]
  BY <1>1 DEF StartsAt
<1> QED
  BY <1>3, <1>4, WireEvents DEF Stream

\* A whole event of the stream that lies in the captured bytes is captured.
LEMMA Captured ==
  ASSUME NEW c, NEW w, NEW o, StartsAt(o, c, w), Len(w) \in Nat, Len(c) \in Nat,
         NEW j \in 1..Len(w), j % 2 = 0, j >= Len(w) - Len(c) + 2
  PROVE  \E i \in 1..Len(Events(c)) : j = o + 2 * i /\ Events(c)[i] = w[j][1]
<1> DEFINE i == (j - o) \div 2
<1>1. o \in Nat /\ o < j
  BY DEF StartsAt
<1>2. i \in Nat \ {0} /\ j = o + 2 * i
  BY <1>1, SMTT(40) DEF StartsAt
<1>3. i <= (Len(w) - o) \div 2
  BY <1>1, <1>2
<1> HIDE DEF i
<1>4. i \in 1..Len(Events(c))
  BY <1>2, <1>3 DEF StartsAt
<1> QED
  BY <1>2, <1>4 DEF StartsAt

\* A capture that holds one event holds the error of its stream.
LEMMA ErrorCaptured ==
  ASSUME Stream, route \in {"chat", "messages"}, CaptureLimit >= 2,
         "error" \in ToSet(Events(wire))
  PROVE  \E i \in 1..Len(Events(captured)) : Events(captured)[i] = "error"
<1> DEFINE n == Len(wire)
<1>1. PICK j \in 1..n : j % 2 = 0 /\ wire[j][1] = "error"
  BY WireEvents DEF Stream
<1>2. n \in Nat /\ \A i \in 1..n : wire[i][1] \in StreamKinds
  BY DEF Stream, WellFormed
<1>3. j = n
  <2> SUFFICES ASSUME j < n PROVE FALSE
    BY <1>2
  <2>1. j + 1 \in 1..n /\ j \in 1..((j + 1) - 1) /\ (j + 1) % 2 # 0
    BY <1>1, <1>2
  <2>2. After(wire[j][1], wire[j + 1][1])
    BY <2>1 DEF Stream, WellFormed
  <2> QED
    BY <1>1, <1>2, <2>1, <2>2, EventsAfter
<1>4. PICK o : StartsAt(o, captured, wire)
  BY CapturedEvents DEF Stream
<1>5. Len(captured) >= 2 /\ Len(captured) \in Nat
  BY <1>1, <1>2, <1>3, PipelineAssumption DEF Stream, LastBytes
<1>6. n \in 1..Len(wire) /\ n % 2 = 0 /\ n >= Len(wire) - Len(captured) + 2
  BY <1>1, <1>2, <1>3, <1>5
<1>7. PICK h \in 1..Len(Events(captured)) : Events(captured)[h] = wire[n][1]
  BY <1>2, <1>4, <1>5, <1>6, Captured, SMTT(40)
<1> QED
  BY <1>1, <1>3, <1>7

\* The bodies of an answer that is read as a whole.
LEMMA BodyKinds ==
  ASSUME NEW b \in Bodies
  PROVE  \/ b = NoBody /\ ~b.json /\ Len(b.parts) = 0
         \/ /\ b.json
            /\ Chatting => b.parts[1] \in {"message", "message_without_usage", "error", "nothing"}
<1>1. CASE b = NoBody
  BY <1>1 DEF NoBody
<1>2. CASE b # NoBody
  <2>1. PICK k \in (IF route = "embeddings" THEN {"vectors", "error", "nothing"}
                    ELSE {"message", "message_without_usage", "error", "nothing"}) :
          b = [json |-> TRUE, parts |-> <<k>>]
    BY <1>2 DEF Bodies
  <2>2. b.json /\ b.parts[1] = k
    BY <2>1
  <2>3. Chatting => k \in {"message", "message_without_usage", "error", "nothing"}
    BY DEF Chatting
  <2> QED
    BY <2>2, <2>3
<1> QED
  BY <1>1, <1>2

\* Initially there is no body.
LEMMA AccountInit == Init => Account
<1> SUFFICES ASSUME Init PROVE Account
  OBVIOUS
<1>1. cut = FALSE /\ wire = <<>> /\ body = NoBody /\ job = "none"
  BY DEF Init
<1>2. Len(NoBody.parts) = 0
  BY DEF NoBody
<1> QED
  BY <1>1, <1>2 DEF Account
\* Every step keeps the account.
LEMMA AccountStep ==
  ASSUME Types, Fresh, Places, Jobs, Stream, Account, [Next]_vars
  PROVE  Account'
<1>1. CASE AllCandidatesFailed
  <2>1. UnansweredStep
    BY <1>1, UnansweredFacts DEF Types
  <2> QED
    BY <2>1
       DEF UnansweredStep, input, call, answer, result, books, after, legacy, task, Succeeds, Fails,
           OnRequestContext, Types, Before, Fresh, Places, Jobs, Account, Chatting
<1>2. CASE DisconnectedBeforeAnswer
  <2>1. QuitStep
    BY <1>2, QuitFacts DEF Types
  <2> QED
    BY <2>1
       DEF QuitStep, input, call, answer, result, books, after, legacy, task, Succeeds, Fails,
           OnRequestContext, Types, Before, Fresh, Places, Jobs, Account, Chatting
<1>3. CASE SettleStream
  <2>1. /\ pc = "captured" /\ body' = [json |-> FALSE, parts |-> Events(captured)]
        /\ code' = IF cut THEN StatusClientClosedRequest ELSE SettlementStatus(gone, status, body')
        /\ UNCHANGED <<gone, cut, wire, captured, streamed, status>>
    BY <1>3 DEF SettleStream, input, answer, call
  <2>2. streamed /\ status \in {200, 300}
    BY <2>1 DEF Places
  <2>3. Len(body'.parts) \in Nat
    BY <2>1, EventsOf DEF Stream, LastBytes
  <2>4. code' = status \/ code' = 499
    BY <2>1, <2>2 DEF SettlementStatus, StatusClientClosedRequest
  <2>5. code' = 499 => cut \/ (gone /\ ClassifyCompletionBody(body') # "complete")
    BY <2>1, <2>2 DEF SettlementStatus, StatusClientClosedRequest
  <2>6. (cut => gone) /\ (~(streamed /\ status \in {200, 300}) => wire = <<>>)
    BY DEF Account
  <2>7. streamed' /\ status' = status /\ captured' = captured /\ gone' = gone /\ cut' = cut
    BY <2>1, <2>2
  <2>8. code' = 499 => gone'
    BY <2>5, <2>6, <2>7
  <2> QED
    BY <2>1, <2>2, <2>3, <2>4, <2>5, <2>6, <2>7, <2>8 DEF Account
<1>4. ASSUME NEW b \in Bodies, AnswerRead(b)
      PROVE  Account'
  <2>1. /\ pc = "reading" /\ Chatting /\ body' = b /\ code' = SettlementStatus(gone, status, b)
        /\ UNCHANGED <<gone, cut, wire, captured, streamed, status>>
    BY <1>4 DEF AnswerRead, input, call
  <2>2. ~(streamed /\ status \in {200, 300})
    BY <2>1, <1>4 DEF AnswerRead, Places
  <2>3. \/ b = NoBody /\ Len(b.parts) = 0
        \/ b.json /\ b.parts[1] \in {"message", "message_without_usage", "error", "nothing"}
    BY <2>1, BodyKinds
  <2>4. status \in {200, 300}
    BY <2>1, <1>4 DEF AnswerRead, Types, Places
  <2>5. /\ code' = 499 => gone /\ ClassifyCompletionBody(b) # "complete"
        /\ code' = status \/ code' = 499
    BY <2>1, <2>4 DEF SettlementStatus, StatusClientClosedRequest
  <2>6. (cut => gone) /\ wire = <<>>
    BY <2>2 DEF Account
  <2> QED
    BY <2>1, <2>2, <2>3, <2>4, <2>5, <2>6 DEF Account
<1>5. ASSUME NEW b \in Bodies, ErrorRead(b)
      PROVE  Account'
  <2>1. /\ pc = "reading" /\ Chatting /\ body' = b /\ code' = status /\ status >= 400
        /\ UNCHANGED <<gone, cut, wire, captured, streamed, status>>
    BY <1>5 DEF ErrorRead, input, call
  <2>2. status \notin {200, 300} /\ (code' = 499 => status = 499)
    BY <2>1 DEF Types
  <2>3. \/ b = NoBody /\ Len(b.parts) = 0
        \/ b.json /\ b.parts[1] \in {"message", "message_without_usage", "error", "nothing"}
    BY <2>1, BodyKinds
  <2>4. (cut => gone) /\ wire = <<>>
    BY <2>2 DEF Account
  <2> QED
    BY <2>1, <2>2, <2>3, <2>4 DEF Account
<1>6. ASSUME NEW b \in Bodies, EmbeddingsRead(b)
      PROVE  Account'
  <2>1. body' = b /\ job' = "none" /\ UNCHANGED <<gone, cut, wire, streamed, status>>
    BY <1>6 DEF EmbeddingsRead, input, call, task, Fresh, Before
  <2>2. b.json \/ Len(b.parts) \in Nat
    BY BodyKinds
  <2> QED
    BY <2>1, <2>2 DEF Account
<1>7. CASE ImagesRead
  <2>1. ImagesStep
    BY <1>7, ImagesFacts DEF Types
  <2> QED
    BY <2>1
       DEF ImagesStep, input, call, answer, result, books, after, legacy, task, Succeeds, Fails,
           OnRequestContext, Types, Before, Fresh, Places, Jobs, Account, Chatting
<1>8. CASE DeferredFinalize
  <2>1. DeferredStep
    BY <1>8, DeferredFacts DEF Types
  <2> QED
    BY <2>1
       DEF DeferredStep, input, call, answer, result, books, after, legacy, task, Succeeds, Fails,
           OnRequestContext, Types, Before, Fresh, Places, Jobs, Account, Chatting
<1>9. CASE Leave
  BY <1>9
     DEF Leave, Rollback, input, call, answer, result, books, after, legacy, task, Succeeds, Fails,
         OnRequestContext, Types, Before, Fresh, Places, Jobs, Account, Chatting
<1>10. CASE Finalize
  <2>1. FinalizeStep
    BY <1>10, FinalizeFacts DEF Types
  <2> QED
    BY <2>1
       DEF FinalizeStep, input, call, answer, result, books, after, legacy, task, Succeeds, Fails,
           OnRequestContext, Types, Before, Fresh, Places, Jobs, Account, Chatting
<1>11. CASE FinalizeFailed
  <2>1. FinalizeFailedStep
    BY <1>11, FinalizeFailedFacts
  <2> QED
    BY <2>1
       DEF FinalizeFailedStep, input, call, answer, result, books, after, legacy, task, Succeeds, Fails,
           OnRequestContext, Types, Before, Fresh, Places, Jobs, Account, Chatting
<1> USE DEF input, call, answer, result, books, after, legacy, task, Succeeds, Fails, OnRequestContext,
            Types, Before, Fresh, Places, Jobs, Account, Chatting
<1>12. CASE Refuse
  BY <1>12 DEF Refuse
<1>13. CASE TakeCounters
  BY <1>13 DEF TakeCounters
<1>14. CASE RefuseLate
  BY <1>14 DEF RefuseLate
<1>15. CASE Reserve
  BY <1>15 DEF Reserve
<1>16. CASE PassThrough
  BY <1>16 DEF PassThrough
<1>17. CASE ConnectRefused
  BY <1>17 DEF ConnectRefused
<1>18. CASE CallFailed
  BY <1>18 DEF CallFailed
<1>19. CASE GiveUp
  BY <1>19 DEF GiveUp
<1>20. ASSUME NEW s \in Statuses, Answered(s)
       PROVE  Account'
  BY <1>20 DEF Answered
<1>21. CASE Read
  BY <1>21 DEF Read, ReadChunk, Write
<1>22. CASE EndOfStream
  BY <1>22 DEF EndOfStream, Write, StreamOver
<1>23. CASE StreamSettled
  BY <1>23 DEF StreamSettled
<1>24. CASE ErrorSettled
  BY <1>24 DEF ErrorSettled
<1>25. CASE RecordUsage
  BY <1>25 DEF RecordUsage
<1>26. CASE RecordUsageFailed
  BY <1>26 DEF RecordUsageFailed
<1>27. CASE ClientLeaves
  BY <1>27 DEF ClientLeaves
<1>28. CASE UNCHANGED vars
  BY <1>28 DEF vars
<1> QED
  BY <1>1, <1>2, <1>3, <1>4, <1>5, <1>6, <1>7, <1>8, <1>9, <1>10, <1>11, <1>12, <1>13,
     <1>14, <1>15, <1>16, <1>17, <1>18, <1>19, <1>20, <1>21, <1>22, <1>23, <1>24, <1>25,
     <1>26, <1>27, <1>28
     DEF Next, Handler, Settler

-----------------------------------------------------------------------------
(* What follows from the control                                           *)

\* The control holds initially.
LEMMA ControlInit == Init => Control
<1> SUFFICES ASSUME Init PROVE Control
  OBVIOUS
<1>1. Types
  BY PipelineAssumption DEF Init, Types, Before
<1>2. Fresh
  BY DEF Init, Fresh
<1>3. Places
  BY DEF Init, Places, Chatting
<1>4. Jobs /\ Faultless
  BY DEF Init, Jobs, Faultless
<1>5. Agreed /\ Quitted
  BY DEF Init, Agreed, Quitted, Settled
<1>6. SentPlaces /\ SentOnce
  <2>1. sent = 0 /\ status = 0 /\ pc = "arrived"
    BY DEF Init
  <2>2. SentPlaces
    BY <2>1 DEF SentPlaces
  <2>3. SentOnce
    BY <2>1 DEF SentOnce
  <2> QED
    BY <2>2, <2>3
<1> QED
  BY <1>1, <1>2, <1>3, <1>4, <1>5, <1>6 DEF Control

\* Every step keeps the control.
LEMMA ControlStep == Control /\ [Next]_vars => Control'
BY TypesStep, SentStep, FreshStep, PlacesStep, JobsStep, FaultlessStep, AgreedStep,
   QuittedStep
   DEF Control

\* In every reachable state the handler's place, the settlement, the deferred
\* finalize, the row and the reservation fit each other.
THEOREM ControlInvariant == Spec => []Control
BY ControlInit, ControlStep, PTL DEF Spec

\* The upstream client fails over only when no connection was made, so a request
\* reaches upstream at most once.
THEOREM SentAtMostOnce == Spec => []SentOnce
<1>1. Control => SentOnce
  BY DEF Control
<1> QED
  BY <1>1, ControlInvariant, PTL

\* Without a fault, a request that is over has settled its reservation exactly
\* once, or never held one: the settlement, the early exits and the deferred
\* finalize never both do it.
THEOREM AlwaysSettledOnce == Spec => []SettledOnce
<1>1. Control => SettledOnce
  <2> SUFFICES ASSUME Control, Over, faults = 0
               PROVE  (hold = "none" /\ finals = 0) \/ (hold = "settled" /\ finals = 1)
    BY DEF SettledOnce
  <2>1. Types /\ Places /\ Faultless /\ pc = "done" /\ job \in {"none", "over"}
    BY DEF Control, Over
  <2>2. ~armed
    BY <2>1 DEF Places
  <2>3. hold # "held"
    BY <2>1, <2>2 DEF Faultless
  <2>4. hold = "none" \/ hold = "settled"
    BY <2>1, <2>3 DEF Types
  <2>5. (hold = "none" => finals = 0) /\ (hold = "settled" => finals = 1)
    BY <2>1 DEF Faultless
  <2> QED
    BY <2>4, <2>5
<1> QED
  BY <1>1, ControlInvariant, PTL

\* The row and the settlement of a finished settlement are those of recordUsage;
\* when the settlement failed because the client left, they are free.
LEMMA SettledRow ==
  ASSUME Control, Settled, job = "over", NothingFailed
  PROVE  row = Row /\ settlement = Row /\ (failed => ~Row.count /\ ~Row.charge /\ Row.credits = 0)
<1>1. row = Row /\ settlement = Row
  BY DEF Control, Settled, Jobs
<1>2. ASSUME failed
      PROVE  ~Row.count /\ ~Row.charge /\ Row.credits = 0
  <2>1. code = 400 \/ code = 503
    BY <1>2 DEF Control, Faultless, NothingFailed, Refusals
  <2>2. LedgerErrorCode(code, body) # "" /\ code # StatusClientClosedRequest
    BY <2>1, ErrorCodes
  <2> QED
    BY <2>2, ErrorsAreFree DEF PaidQuit, Row
<1> QED
  BY <1>1, <1>2

\* The handler commits the plan counters exactly when the ledger row is counted,
\* on every path but the two that CountedApart names, although the two decide
\* apart; and when no statement failed the durable counter was written once for
\* such a row.
THEOREM CountersAlwaysAgree == Spec => []CountersAgree
<1>1. Control => CountersAgree
  <2> SUFFICES ASSUME Control, Over, Settled
               PROVE  /\ counters = "committed" <=> row.count /\ ~CountedApart
                      /\ NothingFailed => counted = IF row.count THEN 1 ELSE 0
    BY DEF CountersAgree
  <2>1. pc = "done" /\ row # NoRow
    BY DEF Over, Settled
  <2>2. CASE job = "none"
    <3>1. row = Quit /\ counters # "committed" /\ (faults = 0 => counted = 0)
      BY <2>2 DEF Control, Quitted
    <3> QED
      BY <3>1, QuitFree DEF NothingFailed
  <2>3. CASE job = "over"
    <3>1. row = Row /\ settlement = Row
      BY <2>1, <2>3 DEF Control, Jobs
    <3>2. counters = "committed" <=> row.count /\ ~CountedApart
      BY <2>1, <2>3, <3>1 DEF Control, Agreed, Commits
    <3>3. ASSUME NothingFailed
          PROVE  counted = IF row.count THEN 1 ELSE 0
      <4>1. CASE ~failed
        BY <2>3, <3>1, <3>3, <4>1 DEF Control, Faultless, One, NothingFailed
      <4>2. CASE failed
        <5>1. counted = 0
          BY <2>3, <3>3, <4>2 DEF Control, Faultless, NothingFailed
        <5>2. ~Row.count
          BY <2>3, <3>3, <4>2, SettledRow
        <5> QED
          BY <3>1, <5>1, <5>2
      <4> QED
        BY <4>1, <4>2
    <3> QED
      BY <3>2, <3>3
  <2> QED
    BY <2>2, <2>3 DEF Over
<1> QED
  BY <1>1, ControlInvariant, PTL

-----------------------------------------------------------------------------
(* What the embeddings handler bills                                       *)

\* Nothing is billed before the handler is about to return, and only by the
\* embeddings handler, which has no settlement.
Metered ==
  /\ EmbeddingsBilled
  /\ (incremented = 0 /\ debited = 0) \/ (pc \in {"leaving", "done"} /\ route = "embeddings")

\* Every other step leaves the billing alone, and the row of a request that was
\* billed.
LEMMA BillingKept ==
  ASSUME Control, Metered, UNCHANGED <<route, legacy>>,
         pc' \in {"leaving", "done"} \/ pc \notin {"leaving", "done"},
         row' = row \/ pc \notin {"leaving", "done"} \/ Chatting
  PROVE  Metered'
<1>1. incremented' = incremented /\ debited' = debited /\ route' = route
  BY DEF legacy
<1>2. CASE incremented = 0 /\ debited = 0
  BY <1>1, <1>2 DEF Metered, EmbeddingsBilled
<1>3. CASE ~(incremented = 0 /\ debited = 0)
  <2>1. pc \in {"leaving", "done"} /\ route = "embeddings" /\ EmbeddingsBilled
    BY <1>3 DEF Metered
  <2>2. row' = row /\ pc' \in {"leaving", "done"}
    BY <2>1 DEF Chatting
  <2>3. CostUSD(row)' = CostUSD(row)
    BY <2>2 DEF CostUSD
  <2> QED
    BY <1>1, <2>1, <2>2, <2>3 DEF Metered, EmbeddingsBilled
<1> QED
  BY <1>2, <1>3

\* Every step keeps the billing of the embeddings handler.
LEMMA MeteredStep ==
  ASSUME Control, Metered, [Next]_vars
  PROVE  Metered'
<1> DEFINE kept == /\ UNCHANGED <<route, legacy>>
                   /\ pc' \in {"leaving", "done"} \/ pc \notin {"leaving", "done"}
                   /\ row' = row \/ pc \notin {"leaving", "done"} \/ Chatting
<1>1. ASSUME kept PROVE Metered'
  BY <1>1, BillingKept
<1>2. ASSUME NEW b \in Bodies, EmbeddingsRead(b)
      PROVE  Metered'
  <2> DEFINE r == UsageRow("none", status, b, status \in 200..299)
  <2>1. pc = "reading" /\ route = "embeddings" /\ route' = route /\ pc' = "leaving"
    BY <1>2 DEF EmbeddingsRead, input
  <2>2. incremented = 0 /\ debited = 0
    BY <2>1 DEF Metered
  <2>3. CASE UNCHANGED <<row, legacy>>
    <3>1. kept
      BY <2>1, <2>3
    <3> QED
      BY <1>1, <3>1
  <2>4. CASE row' = r /\ LegacyBilling(r)
    <3>1. r.code = LedgerErrorCode(status, b)
      BY RowCode
    <3>2. r # NoRow
      BY RowCodes
    <3> HIDE DEF r
    <3>3. status < 400 => r.code \notin {"http_error", "client_disconnected"}
      <4>1. status < 400 => ~(status >= 400) /\ status # StatusClientClosedRequest
        BY DEF Control, Types, StatusClientClosedRequest
      <4> QED
        BY <3>1, <4>1 DEF LedgerErrorCode
    <3>4. incremented' = 0 \/ (status < 400 /\ incremented' = r.total)
      BY <2>4 DEF LegacyBilling
    <3>5. debited' = 0 \/ (status < 400 /\ debited' = CostUSD(r))
      BY <2>4 DEF LegacyBilling
    <3>6. /\ incremented' > 0 => incremented' # 0
          /\ debited' > 0 => debited' # 0
      OBVIOUS
    <3>7. incremented' + debited' > 0 => incremented' # 0 \/ debited' # 0
      OBVIOUS
    <3>8. CostUSD(row)' = CostUSD(r)
      BY <2>4 DEF CostUSD
    <3>9. incremented' > 0 => row' # NoRow /\ incremented' = row'.total
      BY <2>4, <3>2, <3>4, <3>6
    <3>10. debited' > 0 => row' # NoRow /\ debited' = CostUSD(row)'
      BY <2>4, <3>2, <3>5, <3>6, <3>8
    <3>11. incremented' + debited' > 0 => row'.code \notin {"http_error", "client_disconnected"}
      BY <2>4, <3>3, <3>4, <3>5, <3>7
    <3> QED
      BY <2>1, <3>9, <3>10, <3>11 DEF Metered, EmbeddingsBilled
  <2> QED
    BY <1>2, <2>3, <2>4 DEF EmbeddingsRead
<1>3. CASE RecordUsage \/ RecordUsageFailed \/ Finalize \/ FinalizeFailed
  <2>1. Chatting /\ UNCHANGED <<route, pc, legacy>>
    <3>1. CASE RecordUsage
      BY <1>3, <3>1 DEF RecordUsage, Control, Jobs, input, after
    <3>2. CASE RecordUsageFailed
      BY <1>3, <3>2 DEF RecordUsageFailed, Control, Jobs, input, books, after
    <3>3. CASE Finalize
      BY <1>3, <3>3 DEF Finalize, Control, Jobs, input
    <3>4. CASE FinalizeFailed
      BY <1>3, <3>4 DEF FinalizeFailed, Control, Jobs, input, after
    <3> QED
      BY <1>3, <3>1, <3>2, <3>3, <3>4
  <2>2. kept
    BY <2>1
  <2> QED
    BY <1>1, <2>2
<1>4. CASE Refuse \/ TakeCounters \/ RefuseLate \/ Reserve \/ PassThrough
  <2>1. kept
    BY <1>4 DEF Refuse, TakeCounters, RefuseLate, Reserve, PassThrough, input, books, after
  <2> QED
    BY <1>1, <2>1
<1>5. CASE \/ ConnectRefused \/ CallFailed \/ GiveUp \/ AllCandidatesFailed
           \/ DisconnectedBeforeAnswer \/ \E s \in Statuses : Answered(s)
  <2>1. kept
    BY <1>5 DEF ConnectRefused, CallFailed, GiveUp, AllCandidatesFailed,
                DisconnectedBeforeAnswer, Answered, input, books, after
  <2> QED
    BY <1>1, <2>1
<1>6. CASE Read \/ EndOfStream \/ SettleStream \/ StreamSettled
  <2>1. kept
    BY <1>6 DEF Read, ReadChunk, EndOfStream, StreamOver, SettleStream, StreamSettled,
                input, books, after
  <2> QED
    BY <1>1, <2>1
<1>7. ASSUME NEW b \in Bodies, AnswerRead(b) \/ ErrorRead(b)
      PROVE  Metered'
  <2>1. kept
    BY <1>7 DEF AnswerRead, ErrorRead, input, books, after
  <2> QED
    BY <1>1, <2>1
<1>8. CASE ErrorSettled \/ ImagesRead \/ DeferredFinalize \/ Leave \/ ClientLeaves
  <2>1. kept
    BY <1>8 DEF ErrorSettled, ImagesRead, DeferredFinalize, Leave, ClientLeaves,
                input, books, after
  <2> QED
    BY <1>1, <2>1
<1>9. CASE UNCHANGED vars
  <2>1. kept
    BY <1>9 DEF vars, input, books, after
  <2> QED
    BY <1>1, <2>1
<1> QED
  BY <1>2, <1>3, <1>4, <1>5, <1>6, <1>7, <1>8, <1>9 DEF Next, Handler, Settler

\* Whatever the prices and the answer, the embeddings handler adds to the quota
\* and debits only what a ledger row it has written records, and never for an
\* upstream error.
THEOREM EmbeddingsAlwaysBilled == Spec => []EmbeddingsBilled
<1>1. Init => Control /\ Metered
  <2> SUFFICES ASSUME Init PROVE Metered
    BY ControlInit
  <2>1. incremented = 0 /\ debited = 0
    BY DEF Init
  <2> QED
    BY <2>1 DEF Metered, EmbeddingsBilled
<1>2. Control /\ Metered /\ [Next]_vars => (Control /\ Metered)'
  BY ControlStep, MeteredStep
<1>3. Metered => EmbeddingsBilled
  BY DEF Metered
<1> QED
  BY <1>1, <1>2, <1>3, PTL DEF Spec

-----------------------------------------------------------------------------
(* What follows from the account                                           *)

\* The price of a charged request: at least one bucket.
LEMMA OneBucket ==
  ASSUME NEW u, u.prompt \in Nat, u.completion \in Nat, u.total \in Nat
  PROVE  CalculateActualRequestCredits(BilledTokens(u)) >= Price
<1>1. BilledTokens(u) \in Nat \ {0}
  BY DEF BilledTokens
<1>2. Bucket \in Nat \ {0} /\ Price \in Nat \ {0}
  BY ResponseAssumption
<1>3. CreditBillingBuckets(BilledTokens(u)) \in Nat \ {0}
  <2> DEFINE n == BilledTokens(u)
  <2> HIDE DEF n
  <2>1. n \in Nat \ {0}
    BY <1>1 DEF n
  <2>2. n + Bucket - 1 >= Bucket
    BY <1>2, <2>1
  <2>3. (n + Bucket - 1) \div Bucket >= 1
    BY <1>2, <2>1, <2>2
  <2>4. (n + Bucket - 1) \div Bucket \in Nat
    BY <1>2, <2>1, <2>2
  <2> QED
    BY <2>3, <2>4 DEF CreditBillingBuckets, n
<1>4. ASSUME NEW x \in Nat \ {0}, NEW p \in Nat \ {0} PROVE x * p >= p
  BY <1>4
<1> QED
  BY <1>2, <1>3, <1>4 DEF CalculateActualRequestCredits

\* The usage of every body that is settled is three numbers.
LEMMA BodyTyped ==
  ASSUME NEW b, b.json \/ Len(b.parts) \in Nat
  PROVE  ParseUsageFromBody(b) \in Usages
<1>1. CASE ~b.json
  BY <1>1, UsageTyped DEF ParseUsageFromBody
<1>2. CASE b.json
  <2> DEFINE k == b.parts[1]
             u == ParseUsageFromPayload(k)
  <2>1. u \in Usages /\ ContentChars(k) \in Nat
    BY PayloadTyped
  <2> HIDE DEF u, k
  <2>2. u.prompt \in Nat /\ u.completion \in Nat /\ u.total \in Nat
    BY <2>1 DEF Usages
  <2>3. EstimateTokens(ContentChars(k)) \in Nat
    BY <2>1 DEF EstimateTokens
  <2> QED
    BY <1>2, <2>2, <2>3 DEF ParseUsageFromBody, Usages, u, k
<1> QED
  BY <1>1, <1>2

\* The three invariants hold in every reachable state.
LEMMA AccountInvariant == Spec => [](Control /\ Stream /\ Account)
<1>1. Init => Control /\ Stream /\ Account
  BY ControlInit, StreamInit, AccountInit
<1>2. Control /\ Stream /\ Account /\ [Next]_vars => (Control /\ Stream /\ Account)'
  BY ControlStep, StreamStep, AccountStep DEF Control
<1> QED
  BY <1>1, <1>2, PTL DEF Spec

\* When no statement failed the credits and dollars of the ledger row are those
\* the wallet paid, a debit was posted exactly for a charge of some amount, the
\* cached entitlement was dropped after it, and a charged request of a credit
\* package pays at least one bucket.
THEOREM ChargeAlwaysMatchesRow == Spec => []ChargeMatchesRow
<1>1. Control /\ Account => ChargeMatchesRow
  <2> SUFFICES ASSUME Control, Account, Over, Settled, NothingFailed
               PROVE  /\ row.credits = paid.credits /\ ChargedUSD(row) = ChargedUSD(paid)
                      /\ posted = 1 <=> CallbackEnabled /\ row.charge /\ AmountDue(row) > 0
                      /\ row.charge /\ mode = "credit_package" => row.credits >= Price
                      /\ row.charge /\ mode # "unlimited" => invalidated
    BY DEF ChargeMatchesRow
  <2>1. CASE job = "none"
    <3>1. row = Quit /\ paid = row
      BY <2>1 DEF Control, Quitted, NothingFailed
    <3>2. posted = 0
      BY <2>1 DEF Control, Jobs
    <3>3. ~row.charge
      BY <3>1, QuitFree
    <3> QED
      BY <3>1, <3>2, <3>3
  <2>2. CASE job = "over"
    <3>1. row = Row /\ settlement = Row /\ (failed => ~Row.count /\ ~Row.charge /\ Row.credits = 0)
      BY <2>2, SettledRow
    <3>2. row.credits = paid.credits /\ ChargedUSD(row) = ChargedUSD(paid)
      <4>1. CASE ~failed
        <5>1. paid = row
          BY <2>2, <3>1, <4>1 DEF Control, Faultless, NothingFailed
        <5> QED
          BY <5>1
      <4>2. CASE failed
        <5>1. paid = EmptySettlement
          BY <2>2, <4>2 DEF Control, Faultless, NothingFailed
        <5>2. ~row.charge /\ row.credits = 0 /\ ~paid.charge /\ paid.credits = 0
          BY <3>1, <4>2, <5>1, EmptyFacts
        <5> QED
          BY <5>2 DEF ChargedUSD
      <4> QED
        BY <4>1, <4>2
    <3>3. /\ posted = 1 <=> CallbackEnabled /\ row.charge /\ AmountDue(row) > 0
          /\ row.charge /\ mode # "unlimited" => invalidated
      <4>1. CASE ~failed
        <5>1. posted = One(Posting) /\ (mode # "unlimited" => invalidated)
          BY <2>2, <4>1 DEF Control, Faultless, NothingFailed
        <5>2. Posting <=> CallbackEnabled /\ row.charge /\ AmountDue(row) > 0
          BY <3>1 DEF Posting
        <5> QED
          BY <5>1, <5>2 DEF One
      <4>2. CASE failed
        <5>1. posted = 0
          BY <2>2, <4>2 DEF Control, Faultless, NothingFailed
        <5> QED
          BY <3>1, <4>2, <5>1
      <4> QED
        BY <4>1, <4>2
    <3>4. ASSUME row.charge, mode = "credit_package"
          PROVE  row.credits >= Price
      <4>1. Row.credits = CalculateActualRequestCredits(BilledTokens(ParseUsageFromBody(body)))
        <5>1. LedgerErrorCode(code, body) = "" \/ PaidQuit(code, body)
          BY <3>1, <3>4, RowCharge DEF Row
        <5> QED
          BY <3>4, <5>1, RowCredits DEF Row
      <4>2. ParseUsageFromBody(body) \in Usages
        BY BodyTyped DEF Account
      <4>3. /\ ParseUsageFromBody(body).prompt \in Nat /\ ParseUsageFromBody(body).completion \in Nat
            /\ ParseUsageFromBody(body).total \in Nat
        BY <4>2 DEF Usages
      <4>4. CalculateActualRequestCredits(BilledTokens(ParseUsageFromBody(body))) >= Price
        BY <4>3, OneBucket
      <4> QED
        BY <3>1, <4>1, <4>4
    <3> QED
      BY <3>2, <3>3, <3>4
  <2> QED
    BY <2>1, <2>2 DEF Over
<1> QED
  BY <1>1, AccountInvariant, PTL

\* Without a completion a row is charged only for a disconnect, for the tokens
\* that were produced or reported.
LEMMA ChargedRow ==
  ASSUME NEW m, NEW c, NEW b, NEW st, UsageRow(m, c, b, st).charge
  PROVE  \/ /\ c # 499 /\ ~(c >= 400)
            /\ ~DetectProviderError(b) /\ ClassifyCompletionBody(b) = "complete"
         \/ c = 499 /\ ParseUsageFromBody(b).total > 0
<1>1. LedgerErrorCode(c, b) = "" \/ PaidQuit(c, b)
  BY RowCharge
<1>2. CASE PaidQuit(c, b)
  BY <1>2 DEF PaidQuit, StatusClientClosedRequest
<1>3. CASE LedgerErrorCode(c, b) = ""
  BY <1>3, Classes DEF LedgerErrorCode, StatusClientClosedRequest
<1> QED
  BY <1>1, <1>2, <1>3

\* A JSON answer that is no completion holds no usage.
LEMMA SilentAnswer ==
  ASSUME NEW b, b.json, b.parts[1] \in {"error", "nothing"}
  PROVE  ParseUsageFromBody(b).total = 0
<1>1. /\ ParseUsageFromPayload(b.parts[1]) = NoUsage /\ ContentChars(b.parts[1]) = 0
  BY DEF ParseUsageFromPayload, ContentChars
<1>2. EstimateTokens(0) = 0
  BY DEF EstimateTokens
<1> QED
  BY <1>1, <1>2 DEF ParseUsageFromBody, NoUsage

\* A charge for a stream that is no completion rests on an event of it.
LEMMA PaidEvent ==
  ASSUME NEW parts, Len(parts) \in Nat, ParseUsageFromSSEBody(parts).total > 0
  PROVE  \E i \in 1..Len(parts) : ContentChars(parts[i]) > 0 \/ ParseUsageFromPayload(parts[i]) # NoUsage
<1> SUFFICES ASSUME \A i \in 1..Len(parts) :
                      ~(ContentChars(parts[i]) > 0) /\ ParseUsageFromPayload(parts[i]) = NoUsage
             PROVE  FALSE
  OBVIOUS
<1>1. ASSUME NEW i \in 1..Len(parts) PROVE Silent(parts[i])
  <2>1. ContentChars(parts[i]) \in Nat
    BY PayloadTyped
  <2> QED
    BY <2>1 DEF Silent
<1>2. ParseUsageFromSSEBody(parts).total = 0
  BY <1>1, SilentStream
<1> QED
  BY <1>2

\* A chat request is charged only for a completion without an error, or for a
\* disconnect after the provider had produced or reported tokens. The capture
\* must hold one event, or it would lose the error that ends a stream.
THEOREM AlwaysChargedForService ==
  ASSUME CaptureLimit >= 2
  PROVE  Spec => []ChargedForService
<1>1. Control /\ Stream /\ Account => ChargedForService
  <2> SUFFICES ASSUME Control, Stream, Account, Settled, row.charge
               PROVE  ChargedForService
    BY DEF ChargedForService
  <2>1. job # "none" /\ row = Row
    <3>1. job = "none" => row = Quit
      BY DEF Control, Quitted
    <3>2. job # "none"
      BY <3>1, QuitFree
    <3>3. job # "none" => row = Row
      BY DEF Control, Jobs, Settled, Types
    <3> QED
      BY <3>2, <3>3
  <2>2. \/ /\ code # 499 /\ ~(code >= 400)
           /\ ~DetectProviderError(body) /\ ClassifyCompletionBody(body) = "complete"
        \/ code = 499 /\ ParseUsageFromBody(body).total > 0
    BY <2>1, ChargedRow DEF Row
  <2>3. route \in {"chat", "messages"}
    BY DEF Settled, Chatting
  <2>4. row.code = "client_disconnected" <=> code = 499
    <3>1. row.code = LedgerErrorCode(code, body)
      BY <2>1, RowCode DEF Row
    <3> QED
      BY <3>1 DEF LedgerErrorCode, StatusClientClosedRequest
  <2>5. CASE body.json
    <3>1. LooksLikeJSONCompletion(body.parts[1])
      <4>1. CASE ClassifyCompletionBody(body) = "complete"
        BY <2>5, <4>1 DEF ClassifyCompletionBody
      <4>2. CASE ClassifyCompletionBody(body) # "complete"
        <5>1. ~(streamed /\ status \in {200, 300})
          BY <2>1, <2>5 DEF Account
        <5>2. body.parts[1] \in {"message", "message_without_usage", "error", "nothing"}
          <6>1. body # NoBody
            BY <2>5 DEF NoBody
          <6> QED
            BY <2>1, <5>1, <6>1 DEF Account
        <5>3. body.parts[1] \notin {"error", "nothing"}
          BY <2>2, <2>5, <4>2, SilentAnswer
        <5> QED
          BY <5>2, <5>3 DEF LooksLikeJSONCompletion
      <4> QED
        BY <4>1, <4>2
    <3>2. status \in {200, 300, 499}
      <4>1. ~(streamed /\ status \in {200, 300})
        BY <2>1, <2>5 DEF Account
      <4>2. code = status \/ status \in {200, 300}
        BY <2>1, <4>1 DEF Account
      <4>3. code \in {200, 300, 499}
        BY <2>1, <2>2 DEF Control, Jobs
      <4> QED
        BY <4>2, <4>3
    <3> QED
      BY <2>5, <3>1, <3>2 DEF ChargedForService
  <2>6. CASE ~body.json
    <3> DEFINE seen == ToSet(Events(wire))
    <3>1. Len(body.parts) \in Nat
      BY <2>6 DEF Account
    <3>2. \A i \in 1..Len(body.parts) : body.parts[i] \in seen
      <4>1. CASE streamed /\ status \in {200, 300}
        BY <2>1, <4>1, CapturedKinds DEF Account
      <4>2. CASE ~(streamed /\ status \in {200, 300})
        BY <2>1, <2>6, <4>2 DEF Account, NoBody
      <4> QED
        BY <4>1, <4>2
    <3> HIDE DEF seen
    <3>3. CASE code = 499
      <4>1. ParseUsageFromSSEBody(body.parts).total > 0
        BY <2>2, <2>6, <3>3 DEF ParseUsageFromBody
      <4>2. PICK i \in 1..Len(body.parts) :
              ContentChars(body.parts[i]) > 0 \/ ParseUsageFromPayload(body.parts[i]) # NoUsage
        BY <3>1, <4>1, PaidEvent
      <4>3. \E k \in seen : ContentChars(k) > 0 \/ ParseUsageFromPayload(k) # NoUsage
        BY <3>2, <4>2
      <4>4. streamed /\ status \in {200, 300}
        <5> SUFFICES ASSUME ~(streamed /\ status \in {200, 300}) PROVE FALSE
          OBVIOUS
        <5>1. body = NoBody
          BY <2>1, <2>6 DEF Account
        <5>2. Len(body.parts) = 0
          BY <5>1 DEF NoBody
        <5> QED
          BY <4>2, <5>2
      <4>5. gone /\ row.code = "client_disconnected"
        BY <2>1, <2>4, <3>3, <4>4 DEF Account
      <4> QED
        BY <2>6, <4>3, <4>5 DEF ChargedForService, seen
    <3>4. CASE code # 499
      <4>1. ~DetectProviderError(body) /\ ClassifySSECompletion(body.parts) = "complete"
        BY <2>2, <2>6, <3>4 DEF ClassifyCompletionBody
      <4>2. DOMAIN body.parts = 1..Len(body.parts)
        <5>1. CASE streamed /\ status \in {200, 300}
          <6>1. body.parts = Events(captured)
            BY <2>1, <5>1 DEF Account
          <6> QED
            BY <6>1, EventsOf DEF Stream, LastBytes
        <5>2. CASE ~(streamed /\ status \in {200, 300})
          BY <2>1, <2>6, <5>2 DEF Account, NoBody
        <5> QED
          BY <5>1, <5>2
      <4>3. /\ \E i \in 1..Len(body.parts) : SseEventHasOutput(body.parts[i])
            /\ \E i \in 1..Len(body.parts) :
                 IsFinalSSEEvent(body.parts[i]) \/ IsTerminalSSEEvent(body.parts[i])
        BY <4>1, <4>2 DEF ClassifySSECompletion
      <4>4. /\ \E k \in seen : SseEventHasOutput(k)
            /\ \E k \in seen : IsTerminalSSEEvent(k) \/ IsFinalSSEEvent(k)
        BY <3>2, <4>3
      <4>5. "error" \notin seen
        <5> SUFFICES ASSUME "error" \in seen PROVE FALSE
          OBVIOUS
        <5>1. "error" \in ToSet(Events(wire))
          BY DEF seen
        <5>2. PICK i \in 1..Len(Events(captured)) : Events(captured)[i] = "error"
          BY <2>3, <5>1, ErrorCaptured
        <5>3. streamed /\ status \in {200, 300}
          <6> SUFFICES ASSUME ~(streamed /\ status \in {200, 300}) PROVE FALSE
            OBVIOUS
          <6>1. wire = <<>> /\ 1..Len(wire) = {}
            BY DEF Account
          <6> QED
            BY <5>1, <6>1, WireEvents DEF Stream
        <5>4. body.parts = Events(captured)
          BY <2>1, <5>3 DEF Account
        <5>5. DetectProviderError(body)
          BY <4>2, <5>2, <5>4 DEF DetectProviderError, DetectErrorFromPayload
        <5> QED
          BY <4>1, <5>5
      <4>6. ~(gone /\ row.code = "client_disconnected")
        BY <2>4, <3>4
      <4> QED
        BY <2>6, <4>4, <4>5, <4>6 DEF ChargedForService, seen
    <3> QED
      BY <3>3, <3>4
  <2> QED
    BY <2>5, <2>6
<1> QED
  BY <1>1, AccountInvariant, PTL

\* A stream that fits the capture is captured as a whole.
LEMMA WholeStream ==
  ASSUME Stream, Len(wire) <= CaptureLimit
  PROVE  captured = wire
<1>1. /\ wire \in Seq(Bytes) /\ captured \in Seq(Bytes) /\ Len(captured) = Len(wire)
      /\ Len(wire) \in Nat
      /\ \A i \in 1..Len(captured) : captured[i] = wire[Len(wire) - Len(captured) + i]
  BY DEF Stream, WellFormed, LastBytes
<1>2. \A i \in 1..Len(captured) : Len(wire) - Len(captured) + i = i
  BY <1>1
<1>3. \A i \in 1..Len(captured) : captured[i] = wire[i]
  BY <1>1, <1>2
<1> QED
  BY <1>1, <1>3, SeqEqual

\* The statuses of a stream.
LEMMA StreamStatus ==
  ASSUME Control, status \in 200..399
  PROVE  status \in {200, 300}
BY DEF Control, Types

\* The settlement of a stream goes through its row and its captured events.
LEMMA StreamRow ==
  ASSUME Control, Stream, Account, Settled, streamed, status \in {200, 300}
  PROVE  /\ row = Row /\ body = [json |-> FALSE, parts |-> Events(captured)]
         /\ code = status \/ code = 499
         /\ code = 499 => cut \/ ClassifyCompletionBody(body) # "complete"
<1>1. job = "none" => status = 0
  BY DEF Control, Quitted
<1>2. job # "none"
  BY <1>1
<1>3. job # "none" => row = Row
  BY DEF Control, Jobs, Settled, Types
<1>4. row = Row
  BY <1>2, <1>3
<1>5. /\ body = [json |-> FALSE, parts |-> Events(captured)]
      /\ code = status \/ code = 499
      /\ code = 499 => cut \/ ClassifyCompletionBody(body) # "complete"
  BY <1>2 DEF Account
<1> QED
  BY <1>4, <1>5

\* A completion that reached the client, and that fits the capture, is charged
\* and counted, also when the client left right after its last byte.
THEOREM CompletionAlwaysCharged == Spec => []CompletionCharged
<1>1. Control /\ Stream /\ Account => CompletionCharged
  <2> DEFINE seen == ToSet(Events(wire))
  <2> SUFFICES ASSUME Control, Stream, Account,
                      Settled, streamed, status \in 200..399, ~cut, Len(wire) <= CaptureLimit,
                      "error" \notin seen, \E k \in seen : SseEventHasOutput(k),
                      \E k \in seen : IsTerminalSSEEvent(k) \/ IsFinalSSEEvent(k)
               PROVE  row.charge /\ row.count
    BY DEF CompletionCharged
  <2>0. status \in {200, 300}
    BY StreamStatus
  <2>1. /\ row = Row /\ body = [json |-> FALSE, parts |-> Events(captured)]
        /\ code = status \/ code = 499
        /\ code = 499 => cut \/ ClassifyCompletionBody(body) # "complete"
    BY <2>0, StreamRow
  <2>2. ~body.json /\ body.parts = Events(wire)
    BY <2>1, WholeStream
  <2>3. \A k : k \in seen <=> \E i \in DOMAIN body.parts : body.parts[i] = k
    BY <2>2 DEF ToSet
  <2> HIDE DEF seen
  <2>4. ~DetectProviderError(body)
    BY <2>3 DEF DetectProviderError, DetectErrorFromPayload
  <2>5. ClassifyCompletionBody(body) = "complete"
    <3>1. /\ \E i \in DOMAIN body.parts : SseEventHasOutput(body.parts[i])
          /\ \E i \in DOMAIN body.parts :
               IsFinalSSEEvent(body.parts[i]) \/ IsTerminalSSEEvent(body.parts[i])
      BY <2>3
    <3> QED
      BY <2>2, <3>1 DEF ClassifyCompletionBody, ClassifySSECompletion
  <2>6. code = 200 \/ code = 300
    BY <2>0, <2>1, <2>5
  <2>7. LedgerErrorCode(code, body) = ""
    BY <2>4, <2>5, <2>6 DEF LedgerErrorCode, StatusClientClosedRequest
  <2>8. UsageRow(mode, code, body, providerStarted).charge
    BY <2>7, RowCharge
  <2>9. UsageRow(mode, code, body, providerStarted).count
    BY <2>7, RowCount
  <2> QED
    BY <2>1, <2>8, <2>9 DEF Row
<1> QED
  BY <1>1, AccountInvariant, PTL

-----------------------------------------------------------------------------
(* What the final events of a stream report                                *)

\* The accumulator after each event of parts.
Accumulating(f, parts) ==
  /\ \A n \in 0..Len(parts) : f[n] \in Accumulators
  /\ ~f[0].final
  /\ \A n \in 1..Len(parts) : f[n] = ParseEvent(f[n - 1], parts[n])
  /\ ParseUsageFromSSEBody(parts) = Conclude(f[Len(parts)])

\* The accumulator of a stream is typed at every event.
LEMMA TypedAccumulator ==
  ASSUME NEW parts, Len(parts) \in Nat
  PROVE  \E f : Accumulating(f, parts)
<1>1. PICK f : /\ f[0] = NoEvents
               /\ \A n \in 1..Len(parts) : f[n] = ParseEvent(f[n - 1], parts[n])
               /\ ParseUsageFromSSEBody(parts) = Conclude(f[Len(parts)])
  BY Accumulated
<1> DEFINE G == {n \in Nat : f[n] \in Accumulators}
<1>2. 0 \in G
  BY <1>1, NoEventsTyped
<1>3. ASSUME NEW n \in 1..Len(parts), n - 1 \in G
      PROVE  n \in G
  BY <1>1, <1>3, EventTyped
<1> HIDE DEF G
<1>4. 0..Len(parts) \subseteq G
  BY <1>2, <1>3, UpTo
<1>5. \A n \in 0..Len(parts) : f[n] \in Accumulators
  BY <1>4 DEF G
<1>6. ~f[0].final
  BY <1>1 DEF NoEvents
<1> QED
  BY <1>1, <1>5, <1>6 DEF Accumulating

\* What one event does to the accumulator.
LEMMA FinalEvent ==
  ASSUME NEW acc \in Accumulators, NEW k, IsFinalSSEEvent(k)
  PROVE  LET u == ParseUsageFromPayload(k)
             r == ParseEvent(acc, k)
         IN /\ r.final
            /\ r.prompt = IF u.prompt # 0 THEN u.prompt ELSE acc.prompt
            /\ r.completion = IF u.completion # 0 THEN u.completion ELSE acc.completion
            /\ r.total = IF u.total # 0 THEN u.total ELSE acc.total
BY DEF ParseEvent, Accumulators

\* After a final event another one that is not final reports nothing.
LEMMA LaterEvent ==
  ASSUME NEW acc \in Accumulators, NEW k, acc.final, ~IsFinalSSEEvent(k)
  PROVE  /\ ParseEvent(acc, k).final
         /\ ParseEvent(acc, k).prompt = acc.prompt
         /\ ParseEvent(acc, k).completion = acc.completion
         /\ ParseEvent(acc, k).total = acc.total
BY DEF ParseEvent, Accumulators

\* An event that is not final does not make the accumulator final.
LEMMA EarlyEvent ==
  ASSUME NEW acc \in Accumulators, NEW k, ~acc.final, ~IsFinalSSEEvent(k)
  PROVE  ~ParseEvent(acc, k).final
BY DEF ParseEvent, Accumulators

\* The prompt tokens, once reported, stay; message_start reports them.
LEMMA PromptEvent ==
  ASSUME NEW acc \in Accumulators, NEW k
  PROVE  /\ acc.prompt = Prompt => ParseEvent(acc, k).prompt = Prompt
         /\ ~acc.final /\ k = "message_start" => ParseEvent(acc, k).prompt = Prompt
<1>1. Prompt \in Nat \ {0}
  BY ResponseAssumption
<1>2. ParseUsageFromPayload(k).prompt \in {0, Prompt}
  BY DEF ParseUsageFromPayload, NoUsage
<1>3. k = "message_start" => ParseUsageFromPayload(k).prompt = Prompt
  BY DEF ParseUsageFromPayload
<1>4. acc.prompt = Prompt => ParseEvent(acc, k).prompt = Prompt
  BY <1>1, <1>2 DEF ParseEvent, Accumulators
<1>5. ~acc.final /\ k = "message_start" => ParseEvent(acc, k).prompt = Prompt
  BY <1>1, <1>3 DEF ParseEvent, Accumulators
<1> QED
  BY <1>4, <1>5

\* After the last final event nothing is reported any more.
LEMMA AfterFinal ==
  ASSUME NEW f, NEW parts, Len(parts) \in Nat, Accumulating(f, parts),
         NEW i \in 1..Len(parts), f[i].final,
         \A j \in (i + 1)..Len(parts) : ~IsFinalSSEEvent(parts[j])
  PROVE  LET a == f[Len(parts)]
         IN a.prompt = f[i].prompt /\ a.completion = f[i].completion /\ a.total = f[i].total
<1> DEFINE Same(a) == /\ a.final /\ a.prompt = f[i].prompt
                      /\ a.completion = f[i].completion /\ a.total = f[i].total
           G == {n \in Nat : n >= i => Same(f[n])}
<1>1. 0 \in G
  OBVIOUS
<1>2. ASSUME NEW n \in 1..Len(parts), n - 1 \in G
      PROVE  n \in G
  <2>1. CASE n <= i
    <3>1. n >= i => n = i
      BY <2>1
    <3> QED
      BY <3>1
  <2>2. CASE n > i
    <3>1. n - 1 >= i /\ n - 1 \in 0..Len(parts) /\ n \in (i + 1)..Len(parts)
      BY <2>2
    <3>2. Same(f[n - 1])
      BY <1>2, <3>1
    <3>3. f[n - 1] \in Accumulators /\ f[n] = ParseEvent(f[n - 1], parts[n])
      BY <3>1 DEF Accumulating
    <3>4. ~IsFinalSSEEvent(parts[n])
      BY <3>1
    <3>5. Same(f[n])
      BY <3>2, <3>3, <3>4, LaterEvent
    <3> QED
      BY <3>5
  <2> QED
    BY <2>1, <2>2
<1> HIDE DEF G
<1>3. 0..Len(parts) \subseteq G
  BY <1>1, <1>2, UpTo
<1>4. Len(parts) \in G /\ Len(parts) >= i
  BY <1>3
<1>5. Same(f[Len(parts)])
  BY <1>4 DEF G
<1> QED
  BY <1>5

\* The usage event of a chat stream decides what is recorded.
LEMMA UsageReported ==
  ASSUME NEW parts, Len(parts) \in Nat, NEW i \in 1..Len(parts), parts[i] = "usage",
         \A j \in (i + 1)..Len(parts) : ~IsFinalSSEEvent(parts[j])
  PROVE  LET u == ParseUsageFromSSEBody(parts)
         IN u.prompt = Prompt /\ u.completion = Completion /\ u.total = Prompt + Completion
<1>1. PICK f : Accumulating(f, parts)
  BY TypedAccumulator
<1>2. Prompt \in Nat \ {0} /\ Completion \in Nat \ {0}
  BY ResponseAssumption
<1>3. f[i - 1] \in Accumulators /\ f[i] = ParseEvent(f[i - 1], "usage")
  BY <1>1 DEF Accumulating
<1>4. ParseUsageFromPayload("usage") =
        [prompt |-> Prompt, completion |-> Completion, total |-> Prompt + Completion]
  BY DEF ParseUsageFromPayload
<1>5. f[i].final /\ f[i].prompt = Prompt /\ f[i].completion = Completion /\ f[i].total = Prompt + Completion
  <2> DEFINE u == ParseUsageFromPayload("usage")
             r == ParseEvent(f[i - 1], "usage")
  <2>1. IsFinalSSEEvent("usage")
    BY DEF IsFinalSSEEvent
  <2>2. /\ r.final
        /\ r.prompt = IF u.prompt # 0 THEN u.prompt ELSE f[i - 1].prompt
        /\ r.completion = IF u.completion # 0 THEN u.completion ELSE f[i - 1].completion
        /\ r.total = IF u.total # 0 THEN u.total ELSE f[i - 1].total
    BY <1>3, <2>1, FinalEvent
  <2>3. u.prompt = Prompt /\ u.completion = Completion /\ u.total = Prompt + Completion
    BY <1>4
  <2>4. Prompt # 0 /\ Completion # 0 /\ Prompt + Completion # 0
    BY <1>2
  <2> HIDE DEF u, r
  <2>5. r.final /\ r.prompt = Prompt /\ r.completion = Completion /\ r.total = Prompt + Completion
    BY <2>2, <2>3, <2>4
  <2> QED
    BY <1>3, <2>5 DEF r
<1> DEFINE a == f[Len(parts)]
<1>6. a.prompt = Prompt /\ a.completion = Completion /\ a.total = Prompt + Completion
  BY <1>1, <1>5, AfterFinal
<1>7. ParseUsageFromSSEBody(parts) = Conclude(a)
  BY <1>1 DEF Accumulating
<1> HIDE DEF a
<1> QED
  BY <1>2, <1>6, <1>7 DEF Conclude

\* So does the message_delta event of a Messages stream; the prompt tokens come
\* from the message_start event before it.
LEMMA DeltaReported ==
  ASSUME NEW parts, Len(parts) \in Nat, NEW i \in 1..Len(parts), parts[i] = "message_delta",
         \A j \in (i + 1)..Len(parts) : ~IsFinalSSEEvent(parts[j])
  PROVE  LET u == ParseUsageFromSSEBody(parts)
         IN /\ u.completion = Completion
            /\ \A s \in 1..(i - 1) :
                 parts[s] = "message_start" /\ (\A j \in 1..s : ~IsFinalSSEEvent(parts[j]))
                 => u.prompt = Prompt
<1>1. PICK f : Accumulating(f, parts)
  BY TypedAccumulator
<1>2. Completion \in Nat \ {0}
  BY ResponseAssumption
<1>3. f[i - 1] \in Accumulators /\ f[i] = ParseEvent(f[i - 1], "message_delta")
  BY <1>1 DEF Accumulating
<1>4. /\ ParseUsageFromPayload("message_delta").completion = Completion
      /\ ParseUsageFromPayload("message_delta").prompt = 0
  BY DEF ParseUsageFromPayload
<1>5. f[i].final /\ f[i].prompt = f[i - 1].prompt /\ f[i].completion = Completion
  <2>1. IsFinalSSEEvent("message_delta")
    BY DEF IsFinalSSEEvent
  <2> QED
    BY <1>2, <1>3, <1>4, <2>1, FinalEvent
<1> DEFINE a == f[Len(parts)]
<1>6. a.prompt = f[i].prompt /\ a.completion = Completion
  BY <1>1, <1>5, AfterFinal
<1>7. ParseUsageFromSSEBody(parts) = Conclude(a)
  BY <1>1 DEF Accumulating
<1> HIDE DEF a
<1>8. ParseUsageFromSSEBody(parts).completion = Completion
  BY <1>2, <1>6, <1>7 DEF Conclude
<1>9. ParseUsageFromSSEBody(parts).prompt = f[i - 1].prompt
  BY <1>5, <1>6, <1>7 DEF Conclude
<1>10. ASSUME NEW s \in 1..(i - 1), parts[s] = "message_start",
              \A j \in 1..s : ~IsFinalSSEEvent(parts[j])
       PROVE  f[i - 1].prompt = Prompt
  <2> DEFINE G == {n \in Nat : /\ n < s => ~f[n].final
                               /\ n >= s => f[n].prompt = Prompt}
  <2>1. 0 \in G
    <3>1. ~f[0].final
      BY <1>1 DEF Accumulating
    <3> QED
      BY <3>1
  <2>2. ASSUME NEW n \in 1..Len(parts), n - 1 \in G
        PROVE  n \in G
    <3>1. f[n - 1] \in Accumulators /\ f[n] = ParseEvent(f[n - 1], parts[n])
      BY <1>1 DEF Accumulating
    <3>2. CASE n < s
      <4>1. ~f[n - 1].final /\ ~IsFinalSSEEvent(parts[n])
        BY <1>10, <2>2, <3>2
      <4>2. ~f[n].final
        BY <3>1, <4>1, EarlyEvent
      <4> QED
        BY <3>2, <4>2
    <3>3. CASE n = s
      <4>1. ~f[n - 1].final /\ parts[n] = "message_start"
        BY <1>10, <2>2, <3>3
      <4>2. f[n].prompt = Prompt
        BY <3>1, <4>1, PromptEvent
      <4> QED
        BY <3>3, <4>2
    <3>4. CASE n > s
      <4>1. f[n - 1].prompt = Prompt
        BY <2>2, <3>4
      <4>2. f[n].prompt = Prompt
        BY <3>1, <4>1, PromptEvent
      <4> QED
        BY <3>4, <4>2
    <3> QED
      BY <3>2, <3>3, <3>4
  <2> HIDE DEF G
  <2>3. 0..Len(parts) \subseteq G
    BY <2>1, <2>2, UpTo
  <2>4. i - 1 \in G /\ i - 1 >= s
    BY <2>3
  <2> QED
    BY <2>4 DEF G
<1> QED
  BY <1>8, <1>9, <1>10

\* The events that close a stream: at most two events follow them.
Closing(k) == (route = "chat" /\ k = "usage") \/ (route = "messages" /\ k = "message_delta")

\* After a closing event at most two events come, and none is final.
LEMMA AfterClosing ==
  ASSUME Stream, route \in {"chat", "messages"},
         NEW j \in 1..Len(wire), j % 2 = 0, Closing(wire[j][1])
  PROVE  /\ \A i \in (j + 1)..Len(wire) : ~IsFinalSSEEvent(wire[i][1])
         /\ Len(wire) <= j + 4
<1> DEFINE n == Len(wire)
<1>1. n \in Nat /\ \A i \in 1..n : wire[i][1] \in StreamKinds
  BY DEF Stream, WellFormed
<1>2. ASSUME NEW h \in 1..n, NEW i \in (h + 1)..n, h % 2 = 0
      PROVE  After(wire[h][1], wire[i][1])
  <2>1. i \in 1..n /\ h \in 1..(i - 1)
    BY <1>1
  <2>2. ASSUME h = i - 1 PROVE i % 2 = 1
    <3>1. i = h + 1 /\ h \in Nat
      BY <2>2
    <3> QED
      BY <1>2, <3>1
  <2>3. ~(i % 2 = 0 /\ h = i - 1)
    BY <2>2
  <2> QED
    BY <2>1, <2>3 DEF Stream, WellFormed
<1>3. ASSUME NEW i \in (j + 1)..n
      PROVE  wire[i][1] \in {"DONE", "message_stop", "error"}
  <2>1. After(wire[j][1], wire[i][1]) /\ wire[i][1] \in StreamKinds
    BY <1>1, <1>2
  <2> QED
    BY <2>1, EventsAfter DEF Closing
<1>4. ASSUME NEW i \in (j + 1)..n PROVE ~IsFinalSSEEvent(wire[i][1])
  BY <1>3 DEF IsFinalSSEEvent
<1>5. n <= j + 4
  <2> SUFFICES ASSUME n > j + 4 PROVE FALSE
    BY <1>1
  <2>1. /\ j + 2 \in (j + 1)..n /\ j + 4 \in ((j + 2) + 1)..n /\ j + 5 \in ((j + 4) + 1)..n
        /\ j + 2 \in 1..n /\ j + 4 \in 1..n /\ j + 5 \in 1..n
        /\ (j + 2) % 2 = 0 /\ (j + 4) % 2 = 0
    BY <1>1
  <2>2. After(wire[j + 2][1], wire[j + 4][1]) /\ wire[j + 4][1] \in StreamKinds
    BY <1>1, <1>2, <2>1
  <2>3. wire[j + 2][1] \in {"DONE", "message_stop", "error"}
    BY <1>3, <2>1
  <2>4. wire[j + 4][1] = "error"
    BY <2>2, <2>3, EventsAfter
  <2>5. After(wire[j + 4][1], wire[j + 5][1]) /\ wire[j + 5][1] \in StreamKinds
    BY <1>1, <1>2, <2>1
  <2> QED
    BY <2>4, <2>5, EventsAfter
<1> QED
  BY <1>4, <1>5

\* A closing event is captured, and no final event comes after it.
LEMMA ClosingCaptured ==
  ASSUME Stream, route \in {"chat", "messages"}, CaptureLimit >= 6,
         NEW k \in ToSet(Events(wire)), Closing(k)
  PROVE  \E i \in 1..Len(Events(captured)) :
           /\ Events(captured)[i] = k
           /\ \A h \in (i + 1)..Len(Events(captured)) : ~IsFinalSSEEvent(Events(captured)[h])
<1> DEFINE n == Len(wire)
           parts == Events(captured)
<1>1. PICK j \in 1..n : j % 2 = 0 /\ wire[j][1] = k
  BY WireEvents DEF Stream
<1>2. n \in Nat
  BY DEF Stream, WellFormed
<1>3. (\A i \in (j + 1)..n : ~IsFinalSSEEvent(wire[i][1])) /\ n <= j + 4
  BY <1>1, AfterClosing
<1>4. PICK o : StartsAt(o, captured, wire)
  BY CapturedEvents DEF Stream
<1>5. Len(captured) \in Nat /\ (Len(captured) = n \/ Len(captured) >= 6)
  BY <1>2, PipelineAssumption DEF Stream, LastBytes
<1>6. j >= 2 /\ j >= n - Len(captured) + 2
  BY <1>1, <1>2, <1>3, <1>5
<1>7. PICK i \in 1..Len(parts) : j = o + 2 * i /\ parts[i] = wire[j][1]
  BY <1>1, <1>2, <1>4, <1>5, <1>6, Captured
<1>8. o \in Nat /\ Len(parts) \in Nat /\ Len(parts) = (n - o) \div 2 /\ o <= n
  BY <1>2, <1>4 DEF StartsAt
<1>9. ASSUME NEW h \in (i + 1)..Len(parts) PROVE ~IsFinalSSEEvent(parts[h])
  <2>1. o + 2 * h \in (j + 1)..n /\ h \in 1..Len(parts)
    BY <1>2, <1>7, <1>8
  <2>2. parts[h] = wire[o + 2 * h][1]
    BY <1>4, <2>1 DEF StartsAt
  <2> QED
    BY <1>3, <2>1, <2>2
<1> QED
  BY <1>1, <1>7, <1>9

\* A message_delta comes after the message_start, and no final event before that.
LEMMA StartBeforeDelta ==
  ASSUME Stream, route \in {"chat", "messages"},
         NEW i \in 1..Len(Events(wire)), Events(wire)[i] = "message_delta"
  PROVE  \E s \in 1..(i - 1) :
           /\ Events(wire)[s] = "message_start"
           /\ \A h \in 1..s : ~IsFinalSSEEvent(Events(wire)[h])
<1> DEFINE n == Len(wire)
           parts == Events(wire)
<1>1. /\ n \in Nat /\ wire \in Seq(Bytes) /\ \A h \in 1..n : wire[h][1] \in StreamKinds
  BY DEF Stream, WellFormed
<1>2. ~(wire # <<>> /\ wire[1][2] = 2)
  <2> SUFFICES ASSUME wire # <<>> PROVE wire[1][2] = 1
    OBVIOUS
  <2>1. 1 \in 1..n /\ 1 % 2 = 1
    BY <1>1
  <2> QED
    BY <2>1 DEF Stream, WellFormed
<1>3. /\ Len(parts) = (n - 0) \div 2 /\ Len(parts) \in Nat
      /\ \A h \in 1..Len(parts) : parts[h] = wire[0 + 2 * h][1]
  BY <1>1, <1>2, EventsOf
<1>4. ASSUME NEW h \in 1..Len(parts)
      PROVE  2 * h \in 1..n /\ (2 * h) % 2 = 0 /\ parts[h] = wire[2 * h][1]
  <2>1. 0 + 2 * h = 2 * h /\ 2 * h \in 1..n /\ (2 * h) % 2 = 0
    BY <1>1, <1>3
  <2> QED
    BY <1>3, <2>1
<1>5. 2 * i \in 1..n /\ wire[2 * i][1] = "message_delta"
  BY <1>4
<1>6. PICK b \in 1..(2 * i - 1) : wire[b][1] = "message_start"
  BY <1>5 DEF Stream, WellFormed
<1> DEFINE e == IF b % 2 = 0 THEN b ELSE b + 1
<1>7. e \in 1..n /\ e % 2 = 0 /\ e <= 2 * i
  BY <1>1, <1>5, SMTT(40)
<1>8. wire[e][1] = "message_start"
  <2>1. CASE b % 2 = 0
    BY <1>6, <2>1
  <2>2. CASE b % 2 # 0
    <3>1. e = b + 1 /\ e - 1 = b
      BY <2>2
    <3>2. wire[e][1] = wire[e - 1][1]
      BY <1>7 DEF Stream, WellFormed
    <3> QED
      BY <1>6, <3>1, <3>2
  <2> QED
    BY <2>1, <2>2
<1> HIDE DEF e
<1>9. e # 2 * i
  BY <1>5, <1>8
<1> DEFINE s == e \div 2
<1>10. s \in 1..(i - 1) /\ e = 2 * s
  BY <1>7, <1>9
<1> HIDE DEF s
<1>11. s \in 1..Len(parts) /\ parts[s] = "message_start"
  BY <1>4, <1>8, <1>10
<1>12. ASSUME NEW h \in 1..s PROVE ~IsFinalSSEEvent(parts[h])
  <2>1. CASE h = s
    BY <1>11, <2>1 DEF IsFinalSSEEvent
  <2>2. CASE h < s
    <3>1. h \in 1..Len(parts) /\ 2 * h \in 1..(2 * s - 1) /\ 2 * h # 2 * s - 1 /\ 2 * s \in 1..n
      BY <1>4, <1>10, <1>11, <2>2
    <3>2. After(wire[2 * h][1], wire[2 * s][1])
      BY <3>1 DEF Stream, WellFormed
    <3>3. After(parts[h], "message_start") /\ parts[h] \in StreamKinds
      BY <1>1, <1>4, <1>11, <3>1, <3>2
    <3> QED
      BY <3>3, EventsAfter
  <2> QED
    BY <1>10, <2>1, <2>2
<1> QED
  BY <1>10, <1>11, <1>12

\* The tokens of the ledger row are those recordUsage parsed.
LEMMA RowUsage ==
  ASSUME NEW m, NEW c, NEW b, NEW st
  PROVE  /\ UsageRow(m, c, b, st).prompt = ParseUsageFromBody(b).prompt
         /\ UsageRow(m, c, b, st).completion = ParseUsageFromBody(b).completion
         /\ UsageRow(m, c, b, st).total = ParseUsageFromBody(b).total
BY DEF UsageRow

\* The row of a streamed answer holds the usage upstream reported at the end of
\* the stream, although the capture keeps only the last bytes; the prompt tokens
\* of a Messages stream are kept while the stream fits the capture. The capture
\* must hold three events: up to two follow the one that reports.
THEOREM UsageAlwaysAsReported ==
  ASSUME CaptureLimit >= 6
  PROVE  Spec => []UsageAsReported
<1>1. Control /\ Stream /\ Account => UsageAsReported
  <2> DEFINE seen == ToSet(Events(wire))
             u == ParseUsageFromSSEBody(Events(captured))
  <2> SUFFICES ASSUME Control, Stream, Account, Settled, streamed, status \in 200..399
               PROVE  /\ "usage" \in seen => /\ row.prompt = Prompt /\ row.completion = Completion
                                             /\ row.total = Prompt + Completion
                      /\ "message_delta" \in seen =>
                           /\ row.completion = Completion
                           /\ Len(wire) <= CaptureLimit => row.prompt = Prompt
    BY DEF UsageAsReported
  <2>0. status \in {200, 300}
    BY StreamStatus
  <2>1. row = Row /\ body = [json |-> FALSE, parts |-> Events(captured)]
    BY <2>0, StreamRow
  <2>2. ParseUsageFromBody(body) = u
    BY <2>1 DEF ParseUsageFromBody
  <2>3. row.prompt = u.prompt /\ row.completion = u.completion /\ row.total = u.total
    BY <2>1, <2>2, RowUsage DEF Row
  <2>4. route \in {"chat", "messages"}
    BY DEF Settled, Chatting
  <2>5. Len(Events(captured)) \in Nat
    BY EventsOf DEF Stream, LastBytes
  <2>6. ASSUME NEW k \in seen PROVE k \in StreamKinds
    <3>1. PICK j \in 1..Len(wire) : wire[j][1] = k
      BY WireEvents DEF Stream
    <3> QED
      BY <3>1 DEF Stream, WellFormed
  <2> HIDE DEF u
  <2>7. ASSUME "usage" \in seen
        PROVE  u.prompt = Prompt /\ u.completion = Completion /\ u.total = Prompt + Completion
    <3>1. Closing("usage")
      BY <2>4, <2>6, <2>7 DEF Closing, StreamKinds, AnthropicKinds
    <3>2. PICK i \in 1..Len(Events(captured)) :
            /\ Events(captured)[i] = "usage"
            /\ \A h \in (i + 1)..Len(Events(captured)) : ~IsFinalSSEEvent(Events(captured)[h])
      BY <2>4, <2>7, <3>1, ClosingCaptured
    <3> QED
      BY <2>5, <3>2, UsageReported DEF u
  <2>8. ASSUME "message_delta" \in seen
        PROVE  u.completion = Completion /\ (Len(wire) <= CaptureLimit => u.prompt = Prompt)
    <3>1. Closing("message_delta")
      BY <2>4, <2>6, <2>8 DEF Closing, StreamKinds, OpenAIKinds
    <3>2. PICK i \in 1..Len(Events(captured)) :
            /\ Events(captured)[i] = "message_delta"
            /\ \A h \in (i + 1)..Len(Events(captured)) : ~IsFinalSSEEvent(Events(captured)[h])
      BY <2>4, <2>8, <3>1, ClosingCaptured
    <3>3. /\ u.completion = Completion
          /\ \A s \in 1..(i - 1) :
               /\ Events(captured)[s] = "message_start"
               /\ \A j \in 1..s : ~IsFinalSSEEvent(Events(captured)[j])
               => u.prompt = Prompt
      BY <2>5, <3>2, DeltaReported DEF u
    <3>4. ASSUME Len(wire) <= CaptureLimit
          PROVE  u.prompt = Prompt
      <4>1. captured = wire
        BY <3>4, WholeStream
      <4>2. PICK s \in 1..(i - 1) :
              /\ Events(captured)[s] = "message_start"
              /\ \A j \in 1..s : ~IsFinalSSEEvent(Events(captured)[j])
        BY <2>4, <3>2, <4>1, StartBeforeDelta
      <4> QED
        BY <3>3, <4>2
    <3> QED
      BY <3>3, <3>4
  <2> QED
    BY <2>3, <2>7, <2>8
<1> QED
  BY <1>1, AccountInvariant, PTL

-----------------------------------------------------------------------------
(* What reaches the client                                                 *)

\* The sequence joined so far, after each of the sequences.
Joins(f, ss, N) ==
  f = [i \in 1..N |-> IF i = 1 THEN ss[i] ELSE f[i - 1] \o ss[i]]

\* It exists for every number of sequences.
LEMMA JoinExists ==
  ASSUME NEW ss, NEW N \in Nat
  PROVE  \E f : Joins(f, ss, N)
<1> DEFINE G == {n \in 0..N : \E f : Joins(f, ss, n)}
<1>1. 0 \in G
  <2> DEFINE f == [i \in 1..0 |-> ss[i]]
  <2>1. Joins(f, ss, 0)
    BY DEF Joins
  <2> QED
    BY <2>1
<1>2. ASSUME NEW n \in 1..N, n - 1 \in G
      PROVE  n \in G
  <2>1. PICK f : Joins(f, ss, n - 1)
    BY <1>2
  <2> DEFINE last == IF n = 1 THEN ss[n] ELSE f[n - 1] \o ss[n]
             h == [i \in 1..n |-> IF i = n THEN last ELSE f[i]]
  <2>2. ASSUME NEW i \in 1..n
        PROVE  h[i] = IF i = 1 THEN ss[i] ELSE h[i - 1] \o ss[i]
    <3>1. CASE i = n
      <4>1. h[i] = last /\ (i # 1 => h[i - 1] = f[n - 1])
        BY <3>1
      <4> QED
        BY <3>1, <4>1
    <3>2. CASE i # n
      <4>1. i \in 1..(n - 1)
        BY <3>2
      <4>2. f[i] = IF i = 1 THEN ss[i] ELSE f[i - 1] \o ss[i]
        BY <2>1, <4>1 DEF Joins
      <4>3. h[i] = f[i] /\ (i # 1 => h[i - 1] = f[i - 1])
        BY <4>1
      <4> QED
        BY <4>2, <4>3
    <3> QED
      BY <3>1, <3>2
  <2>3. Joins(h, ss, n)
    <3> HIDE DEF last
    <3> QED
      BY <2>2 DEF Joins
  <2> QED
    BY <2>3
<1> HIDE DEF G
<1>3. 0..N \subseteq G
  BY <1>1, <1>2, UpTo
<1> QED
  BY <1>3 DEF G

\* FlattenSeq joins the sequences one after the other.
LEMMA Flattened ==
  ASSUME NEW ss, Len(ss) \in Nat \ {0}
  PROVE  \E f : /\ f[1] = ss[1]
                /\ \A i \in 2..Len(ss) : f[i] = f[i - 1] \o ss[i]
                /\ FlattenSeq(ss) = f[Len(ss)]
<1> DEFINE f == CHOOSE g : Joins(g, ss, Len(ss))
<1>1. Joins(f, ss, Len(ss))
  <2>1. \E g : Joins(g, ss, Len(ss))
    BY JoinExists
  <2> QED
    BY <2>1
<1>2. FlattenSeq(ss) = f[Len(ss)]
  BY DEF FlattenSeq, Joins
<1> HIDE DEF f
<1>3. \A i \in 1..Len(ss) : f[i] = IF i = 1 THEN ss[i] ELSE f[i - 1] \o ss[i]
  BY <1>1, Zenon DEF Joins
<1>4. f[1] = ss[1]
  BY <1>3
<1>5. ASSUME NEW i \in 2..Len(ss)
      PROVE  f[i] = f[i - 1] \o ss[i]
  <2>1. i \in 1..Len(ss) /\ i # 1
    OBVIOUS
  <2> QED
    BY <1>3, <2>1, Zenon
<1> QED
  BY <1>2, <1>4, <1>5

\* Sequences joined are a sequence, and one more is joined at the end.
LEMMA FlattenTyped ==
  ASSUME NEW S, NEW ss \in Seq(Seq(S))
  PROVE  FlattenSeq(ss) \in Seq(S)
<1>1. CASE ss = <<>>
  BY <1>1, EmptySeq DEF FlattenSeq
<1>2. CASE ss # <<>>
  <2>1. Len(ss) \in Nat \ {0}
    BY <1>2
  <2>2. PICK f : /\ f[1] = ss[1]
                 /\ \A i \in 2..Len(ss) : f[i] = f[i - 1] \o ss[i]
                 /\ FlattenSeq(ss) = f[Len(ss)]
    BY <2>1, Flattened
  <2> DEFINE G == {n \in 0..Len(ss) : n # 0 => f[n] \in Seq(S)}
  <2>3. 0 \in G
    BY <2>1
  <2>4. ASSUME NEW n \in 1..Len(ss), n - 1 \in G
        PROVE  n \in G
    <3>1. ss[n] \in Seq(S)
      OBVIOUS
    <3>2. CASE n = 1
      BY <2>2, <3>1, <3>2
    <3>3. CASE n # 1
      <4>1. n \in 2..Len(ss) /\ f[n - 1] \in Seq(S)
        BY <2>4, <3>3
      <4>2. f[n - 1] \o ss[n] \in Seq(S)
        BY <3>1, <4>1, ConcatProperties
      <4>3. f[n] = f[n - 1] \o ss[n]
        BY <2>2, <4>1, Zenon
      <4>4. f[n] \in Seq(S)
        BY <4>2, <4>3, Zenon
      <4> QED
        BY <4>4
    <3> QED
      BY <3>2, <3>3
  <2> HIDE DEF G
  <2>5. 0..Len(ss) \subseteq G
    BY <2>1, <2>3, <2>4, UpTo
  <2>6. f[Len(ss)] \in Seq(S)
    BY <2>1, <2>5 DEF G
  <2> QED
    BY <2>2, <2>6
<1> QED
  BY <1>1, <1>2

LEMMA FlattenAppend ==
  ASSUME NEW S, NEW ss \in Seq(Seq(S)), NEW x \in Seq(S)
  PROVE  FlattenSeq(Append(ss, x)) = FlattenSeq(ss) \o x
<1> DEFINE t == Append(ss, x)
           N == Len(ss)
<1>1. /\ N \in Nat /\ Len(t) = N + 1 /\ t[N + 1] = x
      /\ \A i \in 1..N : t[i] = ss[i]
  OBVIOUS
<1> HIDE DEF t
<1>2. PICK g : /\ g[1] = t[1]
               /\ \A i \in 2..Len(t) : g[i] = g[i - 1] \o t[i]
               /\ FlattenSeq(t) = g[Len(t)]
  <2>1. Len(t) \in Nat \ {0}
    BY <1>1
  <2> QED
    BY <2>1, Flattened
<1>3. CASE N = 0
  <2>1. ss = <<>> /\ FlattenSeq(ss) = <<>>
    BY <1>3 DEF FlattenSeq
  <2>2. g[Len(t)] = x
    BY <1>1, <1>2, <1>3
  <2>3. <<>> \o x = x
    BY ConcatEmptySeq
  <2> QED
    BY <1>2, <2>1, <2>2, <2>3 DEF t
<1>4. CASE N # 0
  <2>1. N \in Nat \ {0}
    BY <1>1, <1>4
  <2>2. PICK f : /\ f[1] = ss[1]
                 /\ \A i \in 2..N : f[i] = f[i - 1] \o ss[i]
                 /\ FlattenSeq(ss) = f[N]
    BY <2>1, Flattened
  <2> DEFINE G == {n \in 0..N : n # 0 => g[n] = f[n]}
  <2>3. 0 \in G
    BY <2>1
  <2>4. ASSUME NEW n \in 1..N, n - 1 \in G
        PROVE  n \in G
    <3>1. t[n] = ss[n] /\ n \in 1..Len(t)
      BY <1>1
    <3>2. CASE n = 1
      BY <1>2, <2>2, <3>1, <3>2
    <3>3. CASE n # 1
      <4>1. n \in 2..N /\ n \in 2..Len(t) /\ g[n - 1] = f[n - 1]
        BY <1>1, <2>4, <3>3
      <4>2. g[n] = g[n - 1] \o t[n] /\ f[n] = f[n - 1] \o ss[n]
        BY <1>2, <2>2, <4>1, Zenon
      <4>3. g[n] = f[n]
        BY <3>1, <4>1, <4>2, Zenon
      <4> QED
        BY <4>3
    <3> QED
      BY <3>2, <3>3
  <2> HIDE DEF G
  <2>5. 0..N \subseteq G
    BY <1>1, <2>3, <2>4, UpTo
  <2>6. g[N] = f[N]
    BY <2>1, <2>5 DEF G
  <2>7. N + 1 \in 2..Len(t) /\ (N + 1) - 1 = N
    BY <1>1, <2>1
  <2>8. g[N + 1] = g[N] \o t[N + 1]
    BY <1>2, <2>7
  <2> QED
    BY <1>1, <1>2, <2>2, <2>6, <2>8 DEF t
<1> QED
  BY <1>3, <1>4

\* What the client may get of one event: the event rewritten, or its fragment.
Pieces == {SafeEvent(k)[1] : k \in Kinds} \cup {Fragment(<<k, 1>>) : k \in Kinds}

\* An event becomes one piece, or none.
LEMMA SafeEventTyped ==
  ASSUME NEW k \in Kinds
  PROVE  SafeEvent(k) \in Seq(Pieces)
<1>1. CASE k = "started"
  BY <1>1, EmptySeq DEF SafeEvent
<1>2. CASE k # "started"
  <2> DEFINE p == ReplaceHeartbeat(RewriteModel(Sanitize(<<k, "upstream">>)))
  <2>1. SafeEvent(k) = <<p>>
    BY <1>2 DEF SafeEvent
  <2> HIDE DEF p
  <2>2. SafeEvent(k)[1] = p
    BY <2>1
  <2>3. p \in Pieces
    BY <2>2 DEF Pieces
  <2> QED
    BY <2>1, <2>3, Tuples
<1> QED
  BY <1>1, <1>2

\* The rewritten events of a sequence of kinds, and of one kind more.
LEMMA SafeTyped ==
  ASSUME NEW ks \in Seq(Kinds)
  PROVE  /\ [i \in DOMAIN ks |-> SafeEvent(ks[i])] \in Seq(Seq(Pieces))
         /\ SafeEvents(ks) \in Seq(Pieces)
<1> DEFINE ss == [i \in DOMAIN ks |-> SafeEvent(ks[i])]
<1>1. \A i \in 1..Len(ks) : SafeEvent(ks[i]) \in Seq(Pieces)
  BY SafeEventTyped
<1>2. DOMAIN ks = 1..Len(ks) /\ Len(ks) \in Nat
  OBVIOUS
<1>3. ss \in [1..Len(ks) -> Seq(Pieces)]
  BY <1>1, <1>2
<1> HIDE DEF ss
<1>4. ss \in Seq(Seq(Pieces))
  <2> DEFINE T == Seq(Pieces)
  <2>1. ss \in [1..Len(ks) -> T]
    BY <1>3
  <2> HIDE DEF T
  <2>2. ss \in Seq(T)
    BY <1>2, <2>1
  <2> QED
    BY <2>2 DEF T
<1>5. FlattenSeq(ss) \in Seq(Pieces)
  BY <1>4, FlattenTyped
<1> QED
  BY <1>4, <1>5 DEF ss, SafeEvents

LEMMA SafeAppend ==
  ASSUME NEW ks \in Seq(Kinds), NEW k \in Kinds
  PROVE  SafeEvents(Append(ks, k)) = SafeEvents(ks) \o SafeEvent(k)
<1> DEFINE ss == [i \in DOMAIN ks |-> SafeEvent(ks[i])]
           kt == Append(ks, k)
           tt == [i \in DOMAIN kt |-> SafeEvent(kt[i])]
           x  == SafeEvent(k)
           T  == Seq(Pieces)
<1>1. kt \in Seq(Kinds) /\ Len(ks) \in Nat /\ DOMAIN ks = 1..Len(ks)
  OBVIOUS
<1>2. /\ DOMAIN kt = 1..(Len(ks) + 1) /\ kt[Len(ks) + 1] = k
      /\ \A i \in 1..Len(ks) : kt[i] = ks[i]
  OBVIOUS
<1> HIDE DEF kt
<1>3. ss \in Seq(T) /\ tt \in Seq(T) /\ x \in T
  BY <1>1, SafeTyped, SafeEventTyped
<1>4. DOMAIN ss = 1..Len(ks) /\ DOMAIN tt = 1..(Len(ks) + 1)
  BY <1>1, <1>2
<1>5. \A i \in 1..Len(ks) : tt[i] = ss[i]
  BY <1>1, <1>2
<1>6. tt[Len(ks) + 1] = x
  BY <1>1, <1>2
<1> HIDE DEF ss, tt, x, T
<1>7. tt = Append(ss, x)
  <2>1. Len(ss) = Len(ks) /\ Len(tt) = Len(ks) + 1
    BY <1>1, <1>3, <1>4, LenProperties
  <2>2. /\ Append(ss, x) \in Seq(T) /\ Len(Append(ss, x)) = Len(tt)
        /\ \A i \in 1..Len(ss) : Append(ss, x)[i] = ss[i]
        /\ Append(ss, x)[Len(ss) + 1] = x
    BY <1>3, <2>1, AppendProperties
  <2>3. ASSUME NEW i \in 1..Len(tt)
        PROVE  tt[i] = Append(ss, x)[i]
    <3>1. i \in 1..Len(ks) \/ i = Len(ks) + 1
      BY <1>1, <2>1
    <3> QED
      BY <1>5, <1>6, <2>1, <2>2, <3>1
  <2> QED
    BY <1>3, <2>2, <2>3, SeqEqual
<1>8. FlattenSeq(Append(ss, x)) = FlattenSeq(ss) \o x
  BY <1>3, FlattenAppend DEF T
<1> QED
  BY <1>7, <1>8 DEF SafeEvents, ss, tt, x, kt

\* Without events there is nothing to write.
LEMMA SafeNothing == SafeEvents(<<>>) = <<>>
<1> DEFINE ss == [i \in DOMAIN <<>> |-> SafeEvent(<<>>[i])]
<1>1. <<>> \in Seq(Kinds) /\ DOMAIN <<>> = 1..0
  OBVIOUS
<1>2. ss \in Seq(Seq(Pieces)) /\ DOMAIN ss = 1..0
  BY <1>1, SafeTyped
<1> HIDE DEF ss
<1>3. Len(ss) = 0 /\ ss = <<>>
  BY <1>2
<1> QED
  BY <1>3 DEF SafeEvents, FlattenSeq, ss

\* The events of a stream that has grown: the same, or one more.
LEMMA EventsGrow ==
  ASSUME NEW w, WellFormed(w), NEW v, WellFormed(v),
         Len(v) >= Len(w), \A i \in 1..Len(w) : v[i] = w[i]
  PROVE  LET n == Len(w) \div 2
         IN /\ Events(w) \in Seq(Kinds) /\ Len(Events(w)) = n
            /\ Len(v) \div 2 = n => Events(v) = Events(w)
            /\ Len(v) \div 2 = n + 1 => Events(v) = Append(Events(w), v[2 * n + 2][1])
<1> DEFINE n == Len(w) \div 2
<1>1. ASSUME NEW u, WellFormed(u)
      PROVE  /\ Events(u) \in Seq(Kinds) /\ Len(Events(u)) = Len(u) \div 2
             /\ \A i \in 1..(Len(u) \div 2) : 2 * i \in 1..Len(u) /\ Events(u)[i] = u[2 * i][1]
  <2>1. u \in Seq(Bytes) /\ Len(u) \in Nat
    BY <1>1 DEF WellFormed
  <2>2. ~(u # <<>> /\ u[1][2] = 2)
    <3> SUFFICES ASSUME u # <<>> PROVE u[1][2] = 1
      OBVIOUS
    <3>1. 1 \in 1..Len(u) /\ 1 % 2 = 1
      BY <2>1
    <3> QED
      BY <1>1, <3>1 DEF WellFormed
  <2>3. /\ Len(Events(u)) = (Len(u) - 0) \div 2 /\ Len(Events(u)) \in Nat
        /\ DOMAIN Events(u) = 1..Len(Events(u))
        /\ \A i \in 1..Len(Events(u)) : Events(u)[i] = u[0 + 2 * i][1]
    BY <2>1, <2>2, EventsOf
  <2>4. Len(Events(u)) = Len(u) \div 2
    BY <2>1, <2>3
  <2>5. ASSUME NEW i \in 1..(Len(u) \div 2)
        PROVE  2 * i \in 1..Len(u) /\ Events(u)[i] = u[2 * i][1] /\ Events(u)[i] \in Kinds
    <3>1. 0 + 2 * i = 2 * i /\ 2 * i \in 1..Len(u)
      BY <2>1
    <3>2. Events(u)[i] = u[2 * i][1]
      BY <2>3, <2>4, <3>1
    <3>3. u[2 * i] \in Bytes
      BY <2>1, <3>1
    <3> QED
      BY <3>1, <3>2, <3>3 DEF Bytes
  <2>6. Events(u) = [i \in 1..(Len(u) \div 2) |-> Events(u)[i]]
    <3>1. Events(u) = [i \in DOMAIN Events(u) |-> Events(u)[i]]
      BY DEF Events
    <3> QED
      BY <2>3, <2>4, <3>1
  <2>7. Events(u) \in [1..(Len(u) \div 2) -> Kinds] /\ Len(u) \div 2 \in Nat
    BY <2>1, <2>5, <2>6
  <2>8. Events(u) \in Seq(Kinds)
    BY <2>7
  <2> QED
    BY <2>4, <2>5, <2>8
<1>2. Len(w) \in Nat /\ Len(v) \in Nat /\ n \in Nat
  BY DEF WellFormed
<1>3. ASSUME NEW i \in 1..n, n <= Len(v) \div 2
      PROVE  Events(v)[i] = Events(w)[i]
  <2>1. 2 * i \in 1..Len(w) /\ Events(w)[i] = w[2 * i][1] /\ v[2 * i] = w[2 * i]
    BY <1>1
  <2> DEFINE m == Len(v) \div 2
  <2>2. m \in Nat /\ \A h \in 1..m : Events(v)[h] = v[2 * h][1]
    BY <1>1, <1>2
  <2>3. i \in 1..m
    <3> HIDE DEF n, m
    <3>1. n <= m
      BY <1>3 DEF m
    <3> QED
      BY <1>2, <2>2, <3>1
  <2>4. Events(v)[i] = v[2 * i][1]
    BY <2>2, <2>3
  <2> QED
    BY <2>1, <2>4
<1>4. CASE Len(v) \div 2 = n
  <2>1. n <= Len(v) \div 2
    BY <1>2, <1>4
  <2>2. /\ Events(v) \in Seq(Kinds) /\ Events(w) \in Seq(Kinds)
        /\ Len(Events(v)) = n /\ Len(Events(w)) = n
    BY <1>1, <1>4
  <2>3. \A i \in 1..n : Events(v)[i] = Events(w)[i]
    BY <1>3, <2>1
  <2>4. Events(v) = Events(w)
    BY <2>2, <2>3, SeqEqual
  <2>5. Len(v) \div 2 # n + 1
    <3> HIDE DEF n
    <3> QED
      BY <1>2, <1>4
  <2> QED
    BY <2>2, <2>4, <2>5
<1>5. CASE Len(v) \div 2 = n + 1
  <2> DEFINE e == v[2 * n + 2][1]
             a == Append(Events(w), e)
  <2>1. n + 1 \in 1..(Len(v) \div 2) /\ 2 * (n + 1) = 2 * n + 2
    BY <1>2, <1>5
  <2>2. Events(v)[n + 1] = e /\ e \in Kinds
    BY <1>1, <2>1
  <2> HIDE DEF e
  <2>3. Events(w) \in Seq(Kinds) /\ Len(Events(w)) = n /\ Events(v) \in Seq(Kinds)
    BY <1>1
  <2>4. a \in Seq(Kinds) /\ Len(a) = n + 1 /\ a[n + 1] = e /\ \A i \in 1..n : a[i] = Events(w)[i]
    BY <2>2, <2>3, AppendProperties
  <2>5. Len(Events(v)) = n + 1
    BY <1>1, <1>5
  <2> HIDE DEF a
  <2>6. ASSUME NEW i \in 1..Len(Events(v))
        PROVE  Events(v)[i] = a[i]
    <3>1. i \in 1..n \/ i = n + 1
      BY <1>2, <2>5
    <3> QED
      BY <1>2, <1>3, <1>5, <2>2, <2>4, <3>1
  <2>7. Events(v) = a
    BY <2>3, <2>4, <2>5, <2>6, SeqEqual
  <2> QED
    BY <1>1, <1>2, <1>5, <2>7 DEF a, e
<1>6. Events(w) \in Seq(Kinds) /\ Len(Events(w)) = n
  BY <1>1
<1> QED
  BY <1>2, <1>4, <1>5, <1>6

\* Halves of a number, its successor and the one after.
LEMMA Halves ==
  ASSUME NEW N \in Nat
  PROVE  /\ N % 2 = 1 => /\ (N + 1) % 2 = 0 /\ (N + 1) \div 2 = N \div 2 + 1
                         /\ (N + 2) % 2 = 1 /\ (N + 2) \div 2 = N \div 2 + 1
                         /\ 2 * (N \div 2) + 2 = N + 1
         /\ N % 2 # 1 => /\ (N + 1) % 2 = 1 /\ (N + 1) \div 2 = N \div 2
                         /\ (N + 2) % 2 = 0 /\ (N + 2) \div 2 = N \div 2 + 1
                         /\ 2 * (N \div 2) + 2 = N + 2
<1> DEFINE h == N \div 2
<1>1. h \in Nat /\ (N = 2 * h \/ N = 2 * h + 1)
  OBVIOUS
<1> HIDE DEF h
<1>2. CASE N = 2 * h
  BY <1>1, <1>2 DEF h
<1>3. CASE N = 2 * h + 1
  BY <1>1, <1>3 DEF h
<1> QED
  BY <1>1, <1>2, <1>3

\* Short sequences are tuples of their elements.
LEMMA ShortSeq ==
  ASSUME NEW S, NEW s \in Seq(S)
  PROVE  /\ Len(s) = 0 => s = <<>>
         /\ Len(s) = 1 => s = <<s[1]>>
         /\ Len(s) = 2 => s = <<s[1], s[2]>>
<1>1. ASSUME Len(s) = 1 PROVE s = <<s[1]>>
  <2>1. s[1] \in S
    BY <1>1
  <2> DEFINE t == <<s[1]>>
  <2>2. t \in Seq(S) /\ Len(t) = 1 /\ t[1] = s[1]
    BY <2>1
  <2> HIDE DEF t
  <2>3. \A i \in 1..Len(s) : s[i] = t[i]
    BY <1>1, <2>2
  <2> QED
    BY <1>1, <2>2, <2>3, SeqEqual DEF t
<1>2. ASSUME Len(s) = 2 PROVE s = <<s[1], s[2]>>
  <2>1. s[1] \in S /\ s[2] \in S
    <3>1. 1 \in 1..Len(s) /\ 2 \in 1..Len(s)
      BY <1>2
    <3> QED
      BY <3>1, ElementOfSeq
  <2> DEFINE t == <<s[1], s[2]>>
  <2>2. t \in Seq(S) /\ Len(t) = 2 /\ t[1] = s[1] /\ t[2] = s[2]
    BY <2>1
  <2> HIDE DEF t
  <2>3. \A i \in 1..Len(s) : s[i] = t[i]
    BY <1>2, <2>2
  <2> QED
    BY <1>2, <2>2, <2>3, SeqEqual DEF t
<1> QED
  BY <1>1, <1>2

\* The elements of short tuples.
LEMMA ShortTuples ==
  ASSUME NEW S, NEW a \in S, NEW b \in S
  PROVE  /\ <<a>> \in Seq(S) /\ Len(<<a>>) = 1 /\ <<a>>[1] = a /\ <<a>> # <<>>
         /\ <<a, b>> \in Seq(S) /\ Len(<<a, b>>) = 2 /\ <<a, b>>[2] = b
OBVIOUS

\* A sequence of bytes cut at the end of its last whole event.
LEMMA Cutting ==
  ASSUME NEW s \in Seq(Bytes), s # <<>>
  PROVE  LET N == Len(s)
             n == EventBoundary(s)
         IN /\ s[N][2] = 2 => n = N /\ SubSeq(s, 1, n) = s /\ SubSeq(s, n + 1, N) = <<>>
            /\ s[N][2] = 1 =>
                 /\ n = N - 1 /\ SubSeq(s, n + 1, N) = <<s[N]>>
                 /\ N = 1 => SubSeq(s, 1, n) = <<>>
                 /\ N = 3 => SubSeq(s, 1, n) = <<s[1], s[2]>>
<1> DEFINE N == Len(s)
<1>1. N \in Nat \ {0} /\ \A i \in 1..N : s[i] \in Bytes
  OBVIOUS
<1> HIDE DEF N
<1>2. ASSUME s[N][2] = 2
      PROVE  EventBoundary(s) = N /\ SubSeq(s, 1, N) = s /\ SubSeq(s, N + 1, N) = <<>>
  <2>1. EventBoundary(s) = N
    BY <1>2 DEF EventBoundary, Last, N
  <2>2. SubSeq(s, 1, N) = s
    <3>1. /\ SubSeq(s, 1, N) \in Seq(Bytes) /\ Len(SubSeq(s, 1, N)) = N
          /\ \A i \in 1..N : SubSeq(s, 1, N)[i] = s[i]
      BY <1>1, SubSeqProperties
    <3> QED
      BY <3>1, SeqEqual DEF N
  <2>3. SubSeq(s, N + 1, N) = <<>>
    BY <1>1, SubSeqEmpty
  <2> QED
    BY <2>1, <2>2, <2>3
<1>3. ASSUME s[N][2] = 1
      PROVE  /\ EventBoundary(s) = N - 1 /\ SubSeq(s, N, N) = <<s[N]>>
             /\ N = 1 => SubSeq(s, 1, N - 1) = <<>>
             /\ N = 3 => SubSeq(s, 1, N - 1) = <<s[1], s[2]>>
  <2>1. EventBoundary(s) = N - 1
    BY <1>3 DEF EventBoundary, Last, N
  <2>2. SubSeq(s, N, N) = <<s[N]>>
    <3> DEFINE t == SubSeq(s, N, N)
    <3>1. t \in Seq(Bytes) /\ Len(t) = 1 /\ t[1] = s[N]
      BY <1>1, SubSeqProperties
    <3> HIDE DEF t
    <3> QED
      BY <3>1, ShortSeq DEF t
  <2>3. N = 1 => SubSeq(s, 1, N - 1) = <<>>
    BY <1>1, SubSeqEmpty
  <2>4. ASSUME N = 3 PROVE SubSeq(s, 1, N - 1) = <<s[1], s[2]>>
    <3> DEFINE t == SubSeq(s, 1, N - 1)
    <3>1. t \in Seq(Bytes) /\ Len(t) = 2 /\ t[1] = s[1] /\ t[2] = s[2]
      BY <1>1, <2>4, SubSeqProperties
    <3> HIDE DEF t
    <3> QED
      BY <3>1, ShortSeq DEF t
  <2> QED
    BY <2>1, <2>2, <2>3, <2>4
<1>4. (N - 1) + 1 = N
  BY <1>1
<1> QED
  BY <1>2, <1>3, <1>4 DEF N

\* What is written for no bytes, for a whole event and for a fragment.
LEMMA SafeShort ==
  ASSUME NEW k \in Kinds
  PROVE  /\ Safe(<<>>) = <<>>
         /\ Safe(<<<<k, 1>>, <<k, 2>>>>) = SafeEvent(k)
         /\ Safe(<<<<k, 1>>>>) = <<Fragment(<<k, 1>>)>>
<1> DEFINE a == <<k, 1>>
           b == <<k, 2>>
<1>1. a \in Bytes /\ b \in Bytes
  BY DEF Bytes
<1>2. <<>> \in Seq(Bytes) /\ <<a>> \in Seq(Bytes) /\ <<a, b>> \in Seq(Bytes)
  BY <1>1
<1>3. ASSUME NEW s \in Seq(Bytes), ~(s # <<>> /\ s[1][2] = 2), Len(s) \div 2 = 0
      PROVE  Events(s) = <<>>
  <2>1. Len(Events(s)) = (Len(s) - 0) \div 2 /\ DOMAIN Events(s) = 1..Len(Events(s))
    BY <1>3, EventsOf
  <2>2. Len(Events(s)) = 0 /\ DOMAIN Events(s) = {}
    BY <1>3, <2>1
  <2>3. Events(s) = [i \in DOMAIN Events(s) |-> Events(s)[i]]
    BY DEF Events
  <2> QED
    BY <2>2, <2>3
<1>4. Safe(<<>>) = <<>>
  <2>1. Events(<<>>) = <<>>
    <3>1. <<>> \in Seq(Bytes) /\ ~(<<>> # <<>> /\ <<>>[1][2] = 2) /\ Len(<<>>) \div 2 = 0
      BY <1>2
    <3> QED
      BY <1>3, <3>1, Zenon
  <2>2. Safe(<<>>) = SafeEvents(Events(<<>>)) \o <<>>
    BY DEF Safe
  <2> QED
    BY <2>1, <2>2, SafeNothing, EmptySeq, ConcatEmptySeq
<1>5. Safe(<<a>>) = <<Fragment(a)>>
  <2>1. <<a>> # <<>> /\ Last(<<a>>) = a /\ <<a>>[1][2] = 1 /\ a[2] = 1 /\ Len(<<a>>) = 1
    BY DEF Last
  <2>2. Events(<<a>>) = <<>>
    BY <1>2, <1>3, <2>1
  <2>3. Safe(<<a>>) = SafeEvents(Events(<<a>>)) \o <<Fragment(a)>>
    BY <2>1 DEF Safe
  <2> HIDE DEF a
  <2> QED
    BY <2>2, <2>3, SafeNothing, Joined
<1>6. Safe(<<a, b>>) = SafeEvent(k)
  <2> DEFINE s == <<a, b>>
  <2>1. s # <<>> /\ Last(s) = b /\ s[1][2] = 1 /\ b[2] = 2 /\ Len(s) = 2 /\ s[2][1] = k
    BY DEF Last
  <2>2. s \in Seq(Bytes)
    BY <1>2
  <2>3. Safe(s) = SafeEvents(Events(s)) \o <<>>
    <3> HIDE DEF s, a, b
    <3> QED
      BY <2>1 DEF Safe
  <2> HIDE DEF s
  <2>4. /\ Len(Events(s)) = (Len(s) - 0) \div 2
        /\ DOMAIN Events(s) = 1..Len(Events(s))
        /\ \A i \in 1..Len(Events(s)) : Events(s)[i] = s[0 + 2 * i][1]
    <3>1. ~(s # <<>> /\ s[1][2] = 2)
      BY <2>1
    <3> HIDE DEF a, b
    <3> QED
      BY <2>2, <3>1, EventsOf
  <2>5. Len(Events(s)) = 1 /\ DOMAIN Events(s) = 1..1 /\ Events(s)[1] = k
    BY <2>1, <2>4
  <2>6. Events(s) = <<k>>
    <3>1. Events(s) = [i \in DOMAIN Events(s) |-> Events(s)[i]]
      BY DEF Events
    <3>2. <<k>> = [i \in 1..1 |-> k]
      OBVIOUS
    <3>3. \A i \in 1..1 : Events(s)[i] = k
      BY <2>5
    <3> QED
      BY <2>5, <3>1, <3>2, <3>3
  <2>7. <<k>> = Append(<<>>, k) /\ <<>> \in Seq(Kinds)
    OBVIOUS
  <2>8. SafeEvents(<<k>>) = <<>> \o SafeEvent(k)
    BY <2>7, SafeAppend, SafeNothing
  <2>9. SafeEvents(<<k>>) = SafeEvent(k)
    BY <2>8, SafeEventTyped, ConcatEmptySeq
  <2> QED
    BY <2>3, <2>6, <2>9, SafeEventTyped, ConcatEmptySeq DEF s
<1> QED
  BY <1>4, <1>5, <1>6

\* The unfinished event at the end of the stream w, which sseRewriteBuffer keeps.
Rest(w) == IF Len(w) % 2 = 1 THEN <<w[Len(w)]>> ELSE <<>>

\* However a read splits the events, the rewrite buffer writes the whole events
\* it completes and keeps the unfinished one.
LEMMA ReadOutcome ==
  ASSUME WellFormed(wire), NEW chunk \in NextChunks, NEW v, v = wire \o chunk,
         NEW all, all = Rest(wire) \o chunk, NEW n, n = EventBoundary(all)
  PROVE  /\ SubSeq(all, n + 1, Len(all)) = Rest(v)
         /\ SafeEvents(Events(v)) = SafeEvents(Events(wire)) \o Safe(SubSeq(all, 1, n))
         /\ SafeEvents(Events(wire)) \in Seq(Pieces)
         /\ Safe(SubSeq(all, 1, n)) \in Seq(Pieces)
<1> DEFINE N == Len(wire)
           L == wire[N]
<1>1. WellFormed(v) /\ chunk \in Seq(Bytes) /\ Len(chunk) \in 1..2
  BY Reading
<1>2. wire \in Seq(Bytes) /\ N \in Nat /\ (wire # <<>> <=> N > 0)
  BY DEF WellFormed
<1>3. (wire # <<>> /\ L[2] = 1) <=> N % 2 = 1
  BY <1>2 DEF WellFormed
<1>4. /\ Len(v) = N + Len(chunk) /\ \A i \in 1..N : v[i] = wire[i]
      /\ \A i \in 1..Len(chunk) : v[N + i] = chunk[i]
  BY <1>1, <1>2
<1>5. /\ Events(wire) \in Seq(Kinds)
      /\ Len(v) \div 2 = N \div 2 => Events(v) = Events(wire)
      /\ Len(v) \div 2 = N \div 2 + 1 => Events(v) = Append(Events(wire), v[2 * (N \div 2) + 2][1])
  <2>1. Len(v) >= Len(wire)
    BY <1>1, <1>2, <1>4
  <2> QED
    BY <1>1, <1>4, <2>1, EventsGrow
<1>6. SafeEvents(Events(wire)) \in Seq(Pieces)
  BY <1>5, SafeTyped
<1>7. ASSUME N % 2 = 1
      PROVE  \E e \in Kinds : L = <<e, 1>> /\ Rest(wire) = <<<<e, 1>>>>
  <2>1. N \in 1..N /\ L \in Bytes /\ L[2] = 1
    BY <1>2, <1>3, <1>7
  <2>2. L[1] \in Kinds /\ L = <<L[1], 1>>
    BY <2>1 DEF Bytes
  <2>3. Rest(wire) = <<L>>
    BY <1>7 DEF Rest
  <2> QED
    BY <2>2, <2>3
<1>8. \A k \in NextKinds : k \in Kinds
  BY NextKindsFacts, StreamKindsAreKinds
\* A whole event is written.
<1>9. ASSUME NEW e \in Kinds, Len(v) \div 2 = N \div 2 + 1, v[2 * (N \div 2) + 2][1] = e,
             SubSeq(all, 1, n) = <<<<e, 1>>, <<e, 2>>>>
      PROVE  /\ SafeEvents(Events(v)) = SafeEvents(Events(wire)) \o Safe(SubSeq(all, 1, n))
             /\ Safe(SubSeq(all, 1, n)) \in Seq(Pieces)
  <2>1. Events(v) = Append(Events(wire), e)
    BY <1>5, <1>9
  <2>2. Safe(SubSeq(all, 1, n)) = SafeEvent(e)
    BY <1>9, SafeShort
  <2> QED
    BY <1>5, <2>1, <2>2, SafeAppend, SafeEventTyped
\* The rest of an event, alone or with the begin of the next.
<1>10. CASE N % 2 = 1 /\ chunk = <<<<L[1], 2>>>>
  <2>1. PICK e \in Kinds : L = <<e, 1>> /\ Rest(wire) = <<<<e, 1>>>>
    BY <1>7, <1>10
  <2>2. chunk = <<<<e, 2>>>> /\ all = <<<<e, 1>>, <<e, 2>>>>
    BY <1>10, <2>1, Joined
  <2>3. all \in Seq(Bytes) /\ Len(all) = 2 /\ all[2][2] = 2
    <3> DEFINE x == <<e, 1>>
               y == <<e, 2>>
    <3>1. x \in Bytes /\ y \in Bytes /\ y[2] = 2
      BY DEF Bytes
    <3>2. all = <<x, y>>
      BY <2>2
    <3> HIDE DEF x, y
    <3> QED
      BY <3>1, <3>2, ShortTuples
  <2>4. SubSeq(all, 1, n) = <<<<e, 1>>, <<e, 2>>>> /\ SubSeq(all, n + 1, Len(all)) = <<>>
    <3>1. all # <<>> /\ all[Len(all)][2] = 2
      BY <2>3
    <3>2. SubSeq(all, 1, n) = all /\ SubSeq(all, n + 1, Len(all)) = <<>>
      BY <2>3, <3>1, Cutting
    <3> QED
      BY <2>2, <3>2
  <2>5. Len(chunk) = 1 /\ chunk[1][1] = e
    BY <2>2
  <2>6. Len(v) = N + 1 /\ v[N + 1][1] = e
    BY <1>4, <2>5
  <2>7. Len(v) % 2 = 0 /\ Len(v) \div 2 = N \div 2 + 1 /\ 2 * (N \div 2) + 2 = N + 1
    BY <1>2, <1>10, <2>6, Halves
  <2>8. Rest(v) = <<>>
    BY <2>7 DEF Rest
  <2>9. v[2 * (N \div 2) + 2][1] = e
    BY <2>6, <2>7
  <2> QED
    BY <1>6, <1>9, <2>4, <2>7, <2>8, <2>9
<1>11. ASSUME N % 2 = 1, NEW k \in NextKinds, chunk = <<<<L[1], 2>>, <<k, 1>>>>
       PROVE  /\ SubSeq(all, n + 1, Len(all)) = Rest(v)
              /\ SafeEvents(Events(v)) = SafeEvents(Events(wire)) \o Safe(SubSeq(all, 1, n))
              /\ Safe(SubSeq(all, 1, n)) \in Seq(Pieces)
  <2>1. PICK e \in Kinds : L = <<e, 1>> /\ Rest(wire) = <<<<e, 1>>>>
    BY <1>7, <1>11
  <2>2. <<e, 1>> \in Bytes /\ <<e, 2>> \in Bytes /\ <<k, 1>> \in Bytes
    BY <1>8 DEF Bytes
  <2>3. chunk = <<<<e, 2>>, <<k, 1>>>>
    BY <1>11, <2>1
  <2> DEFINE a == <<e, 1>>
             b == <<e, 2>>
             c == <<k, 1>>
  <2>4. a \in Bytes /\ b \in Bytes /\ c \in Bytes /\ a[2] = 1 /\ b[2] = 2 /\ c[2] = 1 /\ b[1] = e
    BY <2>2
  <2>5. Rest(wire) = <<a>> /\ chunk = <<b, c>>
    BY <2>1, <2>3
  <2> HIDE DEF a, b, c
  <2>6. all \in Seq(Bytes) /\ Len(all) = 3 /\ all[1] = a /\ all[2] = b /\ all[3] = c
    BY <2>4, <2>5
  <2>7. all # <<>> /\ all[Len(all)][2] = 1 /\ all[Len(all)] = c
    BY <2>4, <2>6
  <2>8. SubSeq(all, 1, n) = <<a, b>> /\ SubSeq(all, n + 1, Len(all)) = <<c>>
    BY <2>6, <2>7, Cutting
  <2>10. Len(chunk) = 2 /\ chunk[1][1] = e /\ chunk[2] = c
    BY <2>4, <2>5
  <2>11. Len(v) = N + 2 /\ v[N + 1][1] = e /\ v[N + 2] = c
    BY <1>4, <2>10
  <2>12. Len(v) % 2 = 1 /\ Len(v) \div 2 = N \div 2 + 1 /\ 2 * (N \div 2) + 2 = N + 1
    BY <1>2, <1>11, <2>11, Halves
  <2>13. Rest(v) = <<c>>
    BY <2>11, <2>12 DEF Rest
  <2>14. v[2 * (N \div 2) + 2][1] = e
    BY <2>11, <2>12
  <2> QED
    BY <1>9, <2>8, <2>12, <2>13, <2>14 DEF a, b
\* The begin of an event, or a whole event.
<1>12. ASSUME N % 2 # 1, NEW k \in NextKinds, chunk = <<<<k, 1>>>>
       PROVE  /\ SubSeq(all, n + 1, Len(all)) = Rest(v)
              /\ SafeEvents(Events(v)) = SafeEvents(Events(wire)) \o Safe(SubSeq(all, 1, n))
              /\ Safe(SubSeq(all, 1, n)) \in Seq(Pieces)
  <2> DEFINE c == <<k, 1>>
  <2>1. Rest(wire) = <<>> /\ all = <<c>>
    BY <1>12, Joined DEF Rest
  <2>2. c[2] = 1 /\ c \in Bytes
    BY <1>8 DEF Bytes
  <2>3. chunk = <<c>>
    BY <1>12
  <2> HIDE DEF c
  <2>4. all \in Seq(Bytes) /\ all # <<>> /\ Len(all) = 1 /\ all[Len(all)] = c
    <3>1. all \in Seq(Bytes) /\ all # <<>> /\ Len(all) = 1 /\ all[1] = c
      BY <2>1, <2>2, ShortTuples
    <3> QED
      BY <3>1
  <2>5. SubSeq(all, 1, n) = <<>> /\ SubSeq(all, n + 1, Len(all)) = <<c>>
    BY <2>2, <2>4, Cutting
  <2>6. Len(chunk) = 1 /\ chunk[1] = c
    BY <2>3
  <2>7. Len(v) = N + 1 /\ v[N + 1] = c
    BY <1>4, <2>6
  <2>8. Len(v) % 2 = 1 /\ Len(v) \div 2 = N \div 2
    BY <1>2, <1>12, <2>7, Halves
  <2>9. Rest(v) = <<c>> /\ Events(v) = Events(wire)
    BY <1>5, <2>7, <2>8 DEF Rest
  <2>10. Safe(<<>>) = <<>>
    BY <1>8, SafeShort
  <2> QED
    BY <1>6, <2>5, <2>9, <2>10, EmptySeq, ConcatEmptySeq
<1>13. ASSUME N % 2 # 1, NEW k \in NextKinds, chunk = <<<<k, 1>>, <<k, 2>>>>
       PROVE  /\ SubSeq(all, n + 1, Len(all)) = Rest(v)
              /\ SafeEvents(Events(v)) = SafeEvents(Events(wire)) \o Safe(SubSeq(all, 1, n))
              /\ Safe(SubSeq(all, 1, n)) \in Seq(Pieces)
  <2>1. Rest(wire) = <<>> /\ all = <<<<k, 1>>, <<k, 2>>>>
    BY <1>13, Joined DEF Rest
  <2>2. all \in Seq(Bytes) /\ Len(all) = 2 /\ all[2][2] = 2
    <3> DEFINE x == <<k, 1>>
               y == <<k, 2>>
    <3>1. x \in Bytes /\ y \in Bytes /\ y[2] = 2
      BY <1>8 DEF Bytes
    <3>2. all = <<x, y>>
      BY <2>1
    <3> HIDE DEF x, y
    <3> QED
      BY <3>1, <3>2, ShortTuples
  <2>3. SubSeq(all, 1, n) = <<<<k, 1>>, <<k, 2>>>> /\ SubSeq(all, n + 1, Len(all)) = <<>>
    <3>1. all # <<>> /\ all[Len(all)][2] = 2
      BY <2>2
    <3>2. SubSeq(all, 1, n) = all /\ SubSeq(all, n + 1, Len(all)) = <<>>
      BY <2>2, <3>1, Cutting
    <3> QED
      BY <2>1, <3>2
  <2>4. Len(chunk) = 2 /\ chunk[2][1] = k
    BY <1>13
  <2>5. Len(v) = N + 2 /\ v[N + 2][1] = k
    BY <1>4, <2>4
  <2>6. Len(v) % 2 # 1 /\ Len(v) \div 2 = N \div 2 + 1 /\ 2 * (N \div 2) + 2 = N + 2
    BY <1>2, <1>13, <2>5, Halves
  <2>7. Rest(v) = <<>>
    BY <2>6 DEF Rest
  <2>8. v[2 * (N \div 2) + 2][1] = k
    BY <2>5, <2>6
  <2> QED
    BY <1>8, <1>9, <2>3, <2>6, <2>7, <2>8
<1> QED
  BY <1>3, <1>6, <1>10, <1>11, <1>12, <1>13, Chunks

\* Until upstream answers nothing is written or kept; while a stream is read the
\* rewrite buffer keeps its unfinished event.
Unwritten == {"arrived", "limited", "calling", "unanswered", "reading"}
Delivery ==
  /\ pc \in Unwritten => forwarded = <<>> /\ pending = <<>>
  /\ pc = "streaming" => pending = Rest(wire)
  /\ ForwardedFaithfully

\* Without bytes there is nothing to write.
LEMMA NothingRead == SafeEvents(Events(<<>>)) = <<>> /\ Rest(<<>>) = <<>>
<1>1. /\ Len(Events(<<>>)) = (Len(<<>>) - 0) \div 2
      /\ DOMAIN Events(<<>>) = 1..Len(Events(<<>>))
  <2>1. <<>> \in Seq(Bytes) /\ ~(<<>> # <<>> /\ <<>>[1][2] = 2)
    OBVIOUS
  <2> QED
    BY <2>1, EventsOf
<1>2. DOMAIN Events(<<>>) = {}
  BY <1>1
<1>3. Events(<<>>) = [i \in DOMAIN Events(<<>>) |-> Events(<<>>)[i]]
  BY DEF Events
<1>4. Events(<<>>) = <<>>
  BY <1>2, <1>3
<1> QED
  BY <1>4, SafeNothing DEF Rest

\* A sequence is a prefix of its extensions.
LEMMA PrefixConcat ==
  ASSUME NEW S, NEW s \in Seq(S), NEW t \in Seq(S)
  PROVE  IsPrefix(s, s) /\ IsPrefix(s, s \o t)
<1>1. IsPrefix(s, s)
  BY DEF IsPrefix
<1>2. s \o t \in Seq(S) /\ Len(s \o t) >= Len(s) /\ \A i \in 1..Len(s) : (s \o t)[i] = s[i]
  BY ConcatProperties
<1> DEFINE u == s \o t
           x == SubSeq(s, 1, Len(s))
           y == SubSeq(u, 1, Len(s))
<1>3. Len(s) \in Nat /\ \A i \in 1..Len(s) : s[i] \in S
  OBVIOUS
<1>4. /\ x \in Seq(S) /\ Len(x) = Len(s) /\ \A i \in 1..Len(s) : x[i] = s[i]
  BY <1>3, SubSeqProperties
<1> HIDE DEF u
<1>5. /\ y \in Seq(S) /\ Len(y) = Len(s) /\ \A i \in 1..Len(s) : y[i] = s[i]
  <2>1. \A i \in 1..Len(s) : u[i] = s[i] /\ u[i] \in S
    BY <1>2, <1>3 DEF u
  <2>2. /\ y \in Seq(S) /\ Len(y) = Len(s) /\ \A i \in 1..Len(s) : y[i] = u[i]
    BY <1>3, <2>1, SubSeqProperties
  <2> QED
    BY <2>1, <2>2
<1> HIDE DEF x, y
<1>6. x = y
  BY <1>4, <1>5, SeqEqual
<1>7. IsPrefix(s, u)
  BY <1>2, <1>6 DEF IsPrefix, u, x, y
<1> QED
  BY <1>1, <1>7 DEF u

\* Initially nothing was written.
LEMMA DeliveryInit == Init => Delivery
<1> SUFFICES ASSUME Init PROVE Delivery
  OBVIOUS
<1>1. wire = <<>> /\ forwarded = <<>> /\ pending = <<>> /\ pc = "arrived" /\ status = 0
  BY DEF Init
<1>2. <<>> \in Seq(Pieces)
  BY EmptySeq
<1>3. IsPrefix(forwarded, SafeEvents(Events(wire)))
  BY <1>1, <1>2, NothingRead, PrefixConcat
<1>4. DOMAIN forwarded = {}
  BY <1>1
<1> QED
  BY <1>1, <1>3, <1>4 DEF Delivery, ForwardedFaithfully, Unwritten

\* A step that neither reads nor writes.
LEMMA QuietDelivers ==
  ASSUME Delivery, UNCHANGED <<streamed, status, wire, forwarded, pending, body>>,
         pc' = "streaming" => pc = "streaming",
         pc' \in Unwritten => pc \in Unwritten
  PROVE  Delivery'
<1> DEFINE expected == SafeEvents(Events(wire))
<1>1. expected' = expected /\ Rest(wire)' = Rest(wire)
  BY DEF Rest
<1>2. ForwardedFaithfully'
  <2>1. Last(wire)' = Last(wire)
    BY DEF Last
  <2>2. CASE streamed /\ status < 400
    BY <1>1, <2>1, <2>2 DEF Delivery, ForwardedFaithfully
  <2>3. CASE ~(streamed /\ status < 400)
    BY <2>3 DEF Delivery, ForwardedFaithfully
  <2> QED
    BY <2>2, <2>3
<1> QED
  BY <1>1, <1>2 DEF Delivery, Unwritten

\* An answer written as a whole.
LEMMA AnswerDelivers ==
  ASSUME ~(streamed /\ status < 400), UNCHANGED <<streamed, status>>,
         pc' \in {"answering", "leaving"},
         NEW x, forwarded' = <<x>>,
         body.json' => x[2] = "public", status >= 400 => x[1] = "masked_error"
  PROVE  Delivery'
<1>1. \A i \in DOMAIN <<x>> : <<x>>[i] = x
  OBVIOUS
<1> HIDE DEF Unwritten
<1>2. ForwardedFaithfully'
  BY <1>1 DEF ForwardedFaithfully
<1>3. pc' # "streaming" /\ pc' \notin Unwritten
  BY DEF Unwritten
<1> QED
  BY <1>2, <1>3 DEF Delivery

\* A read of the stream.
LEMMA ReadDelivers ==
  ASSUME Control, Stream, Delivery, Read
  PROVE  Delivery'
<1>1. pc = "streaming" /\ streamed /\ status \in {200, 300}
  BY DEF Read, Control, Places
<1>2. PICK chunk \in NextChunks : ReadChunk(chunk)
  BY DEF Read
<1> DEFINE all == Rest(wire) \o chunk
           n   == EventBoundary(all)
           out == Safe(SubSeq(all, 1, n))
           old == SafeEvents(Events(wire))
           v   == wire \o chunk
<1>3. pending = Rest(wire) /\ forwarded = old
  BY <1>1 DEF Delivery, ForwardedFaithfully
<1>4. /\ wire' = v /\ pending' = SubSeq(all, n + 1, Len(all))
      /\ Write(out) /\ streamed' = streamed /\ status' = status
      /\ pc' = IF cut' THEN "captured" ELSE pc
  BY <1>2, <1>3 DEF ReadChunk, input, call
<1>5. /\ SubSeq(all, n + 1, Len(all)) = Rest(v)
      /\ SafeEvents(Events(v)) = old \o out
      /\ old \in Seq(Pieces) /\ out \in Seq(Pieces)
  <2>1. WellFormed(wire)
    BY DEF Stream
  <2> QED
    BY <2>1, ReadOutcome
<1> HIDE DEF all, n, out, old, v
<1>6. old \o out \in Seq(Pieces) /\ IsPrefix(old, old \o out) /\ IsPrefix(old \o out, old \o out)
  BY <1>5, ConcatProperties, PrefixConcat
<1>7. pc' \in {"streaming", "captured"}
  BY <1>1, <1>4
<1>8. pc' \notin Unwritten
  BY <1>7 DEF Unwritten
<1>9. Rest(wire)' = Rest(v) /\ SafeEvents(Events(wire))' = old \o out
  BY <1>4, <1>5
<1>10. CASE forwarded' = forwarded \o out
  <2>1. forwarded' = SafeEvents(Events(wire))'
    BY <1>3, <1>9, <1>10
  <2>2. IsPrefix(forwarded, SafeEvents(Events(wire)))'
    BY <1>6, <1>9, <2>1
  <2>3. (streamed /\ status < 400)'
    BY <1>1, <1>4
  <2>4. ForwardedFaithfully'
    BY <2>1, <2>2, <2>3 DEF ForwardedFaithfully
  <2> QED
    BY <1>4, <1>5, <1>8, <1>9, <2>4 DEF Delivery
<1>11. CASE cut' = TRUE /\ forwarded' = forwarded
  <2>1. pc' = "captured"
    BY <1>4, <1>11
  <2>2. IsPrefix(forwarded, SafeEvents(Events(wire)))'
    BY <1>3, <1>6, <1>9, <1>11
  <2>3. (streamed /\ status < 400)'
    BY <1>1, <1>4
  <2>4. ForwardedFaithfully'
    BY <2>1, <2>2, <2>3 DEF ForwardedFaithfully
  <2> QED
    BY <1>8, <2>1, <2>4 DEF Delivery
<1> QED
  BY <1>4, <1>10, <1>11 DEF Write

\* The end of the stream: an unfinished event is flushed as it is.
LEMMA EndDelivers ==
  ASSUME Control, Stream, Delivery, EndOfStream
  PROVE  Delivery'
<1>1. pc = "streaming" /\ streamed /\ status \in {200, 300}
  BY DEF EndOfStream, Control, Places
<1> DEFINE old == SafeEvents(Events(wire))
           out == Safe(Rest(wire))
           L == wire[Len(wire)]
<1>2. pending = Rest(wire) /\ forwarded = old
  BY <1>1 DEF Delivery, ForwardedFaithfully
<1>3. /\ wire' = wire /\ streamed' = streamed /\ status' = status /\ pc' = "captured"
      /\ Write(out)
  BY <1>2 DEF EndOfStream, StreamOver, input, call
<1>4. WellFormed(wire) /\ wire \in Seq(Bytes) /\ Len(wire) \in Nat
  BY DEF Stream, WellFormed
<1>5. old \in Seq(Pieces)
  <2>1. Events(wire) \in Seq(Kinds)
    BY <1>4, EventsGrow
  <2> QED
    BY <2>1, SafeTyped
<1>6. \/ out = <<>>
      \/ wire # <<>> /\ L[2] = 1 /\ out = <<Fragment(L)>> /\ Fragment(L) \in Pieces
  <2>1. CASE Len(wire) % 2 = 1
    <3>1. Len(wire) \in 1..Len(wire) /\ wire # <<>>
      BY <1>4, <2>1
    <3>2. L \in Bytes /\ L[2] = 1
      BY <1>4, <2>1, <3>1 DEF WellFormed
    <3>3. PICK k \in Kinds : L = <<k, 1>>
      BY <3>2 DEF Bytes
    <3>4. Rest(wire) = <<<<k, 1>>>>
      BY <2>1, <3>3 DEF Rest
    <3>5. out = <<Fragment(<<k, 1>>)>>
      BY <3>4, SafeShort
    <3>6. Fragment(<<k, 1>>) \in Pieces
      BY DEF Pieces
    <3> HIDE DEF L
    <3> QED
      BY <3>1, <3>2, <3>3, <3>5, <3>6
  <2>2. CASE Len(wire) % 2 # 1
    <3>1. Rest(wire) = <<>>
      BY <2>2 DEF Rest
    <3>2. "text" \in Kinds
      BY DEF Kinds, AnthropicKinds
    <3> QED
      BY <3>1, <3>2, SafeShort
  <2> QED
    BY <2>1, <2>2
<1> HIDE DEF out, old, L
<1>7. pc' \notin Unwritten /\ pc' # "streaming" /\ (streamed /\ status < 400)'
  BY <1>1, <1>3 DEF Unwritten
<1>8. SafeEvents(Events(wire))' = old /\ Last(wire)' = L
  BY <1>3 DEF old, L, Last
<1>9. IsPrefix(old, old)
  BY <1>5, PrefixConcat
<1>10. CASE forwarded' = old
  <2>1. ForwardedFaithfully'
    BY <1>7, <1>8, <1>9, <1>10 DEF ForwardedFaithfully
  <2> QED
    BY <1>7, <2>1 DEF Delivery
<1>11. CASE wire # <<>> /\ L[2] = 1 /\ forwarded' = Append(old, Fragment(L))
  <2>1. ForwardedFaithfully'
    BY <1>3, <1>7, <1>8, <1>11 DEF ForwardedFaithfully
  <2> QED
    BY <1>7, <2>1 DEF Delivery
<1>12. forwarded' = forwarded \o out \/ forwarded' = forwarded
  BY <1>3 DEF Write
<1>13. out = <<>> => forwarded \o out = old
  BY <1>2, <1>5, ConcatEmptySeq
<1>14. Fragment(L) \in Pieces => old \o <<Fragment(L)>> = Append(old, Fragment(L))
  BY <1>5, AppendIsConcat
<1> QED
  BY <1>2, <1>6, <1>10, <1>11, <1>12, <1>13, <1>14

\* Every step keeps what was written to the client faithful.
LEMMA DeliveryStep ==
  Control /\ Stream /\ Account /\ Delivery /\ [Next]_vars => Delivery'
<1> SUFFICES ASSUME Control, Stream, Account, Delivery, [Next]_vars
             PROVE  Delivery'
  OBVIOUS
<1> USE DEF input, answer, call, result
<1> DEFINE quiet == /\ UNCHANGED <<streamed, status, wire, forwarded, pending, body>>
                    /\ pc' = "streaming" => pc = "streaming"
                    /\ pc' \in Unwritten => pc \in Unwritten
<1>1. quiet => Delivery'
  BY QuietDelivers
<1>2. CASE Refuse \/ TakeCounters \/ RefuseLate \/ Reserve \/ PassThrough
  <2>1. quiet
    BY <1>2 DEF Refuse, TakeCounters, RefuseLate, Reserve, PassThrough, Unwritten
  <2> QED
    BY <1>1, <2>1
<1>3. CASE \/ ConnectRefused \/ CallFailed \/ GiveUp \/ AllCandidatesFailed
           \/ DisconnectedBeforeAnswer
  <2>1. quiet
    BY <1>3 DEF ConnectRefused, CallFailed, GiveUp, AllCandidatesFailed,
                DisconnectedBeforeAnswer, Unwritten
  <2> QED
    BY <1>1, <2>1
<1>4. ASSUME NEW s \in Statuses, Answered(s)
      PROVE  Delivery'
  <2>1. /\ pc = "calling" /\ status' = s
        /\ pc' = (IF streamed /\ s < 400 THEN "streaming" ELSE "reading")
        /\ UNCHANGED <<streamed, wire, pending, forwarded>>
    BY <1>4 DEF Answered
  <2>2. status = 0
    BY <2>1 DEF Control, Places
  <2>3. wire = <<>> /\ forwarded = <<>> /\ pending = <<>>
    BY <2>1, <2>2 DEF Account, Delivery, Unwritten
  <2>4. SafeEvents(Events(wire))' = <<>> /\ Rest(wire)' = <<>> /\ forwarded' = <<>>
    BY <2>1, <2>3, NothingRead
  <2>5. IsPrefix(forwarded, SafeEvents(Events(wire)))'
    BY <2>4, EmptySeq, PrefixConcat
  <2>6. (DOMAIN forwarded)' = {}
    BY <2>4
  <2>7. ForwardedFaithfully'
    BY <2>4, <2>5, <2>6 DEF ForwardedFaithfully
  <2> QED
    BY <2>1, <2>3, <2>4, <2>7 DEF Delivery
<1>5. CASE Read
  BY <1>5, ReadDelivers
<1>6. CASE EndOfStream
  BY <1>6, EndDelivers
<1>7. CASE SettleStream
  <2>1. pc = "captured" /\ UNCHANGED <<pc, streamed, status, wire, forwarded>>
    BY <1>7 DEF SettleStream
  <2>2. streamed /\ status < 400
    BY <2>1 DEF Control, Places
  <2>3. ForwardedFaithfully'
    BY <2>1, <2>2 DEF Delivery, ForwardedFaithfully, Last
  <2> QED
    BY <2>1, <2>3 DEF Delivery, Unwritten
<1>8. CASE StreamSettled \/ DeferredFinalize \/ Leave \/ ClientLeaves
  <2>1. quiet
    BY <1>8 DEF StreamSettled, DeferredFinalize, Leave, ClientLeaves, Unwritten
  <2> QED
    BY <1>1, <2>1
\* An answer that is read as a whole is not a stream.
<1>9. pc \in {"reading", "answering"} => ~(streamed /\ status < 400)
  BY DEF Control, Types, Places, Refusals
<1>10. SanitizeErrorBody[1] = "masked_error" /\ SanitizeErrorBody[2] = "public"
  BY DEF SanitizeErrorBody
<1>11. ASSUME NEW b, WriteUpstreamResponse(b), pc \in {"reading", "answering"},
              UNCHANGED <<streamed, status>>, pc' = "leaving",
              status < 400 => body' = b
       PROVE  Delivery'
  <2> DEFINE x == IF status >= 400 THEN SanitizeErrorBody ELSE RewriteResponse(b)
  <2>1. forwarded' = <<x>>
    BY <1>11 DEF WriteUpstreamResponse
  <2>2. status \in Nat
    BY DEF Control, Types
  <2>3. status >= 400 => x[1] = "masked_error" /\ x[2] = "public"
    BY <1>10
  <2>4. status < 400 => (body.json' => x[2] = "public")
    BY <1>11, <2>2 DEF RewriteResponse
  <2> HIDE DEF x
  <2>5. body.json' => x[2] = "public"
    BY <2>2, <2>3, <2>4
  <2> QED
    BY <1>9, <1>11, <2>1, <2>3, <2>5, AnswerDelivers
<1>12. ASSUME NEW b \in Bodies, AnswerRead(b) \/ EmbeddingsRead(b)
       PROVE  Delivery'
  BY <1>11, <1>12 DEF AnswerRead, EmbeddingsRead
<1>13. ASSUME NEW b \in Bodies, ErrorRead(b)
       PROVE  Delivery'
  <2>1. CASE route # "messages"
    BY <1>11, <1>13, <2>1 DEF ErrorRead
  <2>2. CASE route = "messages"
    <3>1. pc = "reading" /\ pc' = "answering" /\ UNCHANGED <<streamed, status, forwarded>>
      BY <1>13, <2>2 DEF ErrorRead
    <3>2. (DOMAIN forwarded)' = {}
      BY <3>1 DEF Delivery, Unwritten
    <3>3. ForwardedFaithfully'
      BY <1>9, <3>1, <3>2 DEF ForwardedFaithfully
    <3> QED
      BY <3>1, <3>3 DEF Delivery, Unwritten
  <2> QED
    BY <2>1, <2>2
<1>14. CASE ErrorSettled
  <2>1. CASE failed
    <3>1. quiet
      BY <1>14, <2>1 DEF ErrorSettled, Unwritten
    <3> QED
      BY <1>1, <3>1
  <2>2. CASE ~failed
    BY <1>11, <1>14, <2>2 DEF ErrorSettled, Control, Places
  <2> QED
    BY <2>1, <2>2
<1>15. CASE ImagesRead
  <2> DEFINE x == IF status >= 400 THEN SanitizeErrorBody ELSE <<"image", "public">>
  <2>1. /\ forwarded' = <<x>> /\ pc = "reading" /\ pc' = "leaving"
        /\ UNCHANGED <<streamed, status>>
    BY <1>15 DEF ImagesRead
  <2>2. x[2] = "public" /\ (status >= 400 => x[1] = "masked_error")
    BY <1>10
  <2> HIDE DEF x
  <2> QED
    BY <1>9, <2>1, <2>2, AnswerDelivers
<1>16. CASE Settler
  <2>1. quiet
    BY <1>16 DEF Settler, RecordUsage, RecordUsageFailed, Finalize, FinalizeFailed
  <2> QED
    BY <1>1, <2>1
<1>17. CASE UNCHANGED vars
  <2>1. quiet
    BY <1>17 DEF vars
  <2> QED
    BY <1>1, <2>1
<1> QED
  BY <1>2, <1>3, <1>4, <1>5, <1>6, <1>7, <1>8, <1>12, <1>13, <1>14, <1>15, <1>16, <1>17
     DEF Next, Handler

\* However upstream's events are split into reads, and whenever the client
\* leaves, what was written to it is a prefix of the rewritten events, or all of
\* them and the fragment of an event that upstream never finished; a JSON answer
\* carries the public model name and an error status a masked body.
THEOREM AlwaysForwardedFaithfully == Spec => []ForwardedFaithfully
<1>1. Init => Delivery
  BY DeliveryInit
<1>2. (Control /\ Stream /\ Account) /\ Delivery /\ [Next]_vars => Delivery'
  BY DeliveryStep
<1>3. Delivery => ForwardedFaithfully
  BY DEF Delivery
<1> QED
  BY <1>1, <1>2, <1>3, AccountInvariant, PTL DEF Spec
====
