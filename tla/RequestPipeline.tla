-------------------------- MODULE RequestPipeline --------------------------
(***************************************************************************)
(* One request from its arrival to the end of its settlement: the handlers *)
(* ChatCompletions, Messages, Embeddings, ImagesGenerations and            *)
(* ImagesEdits.                                                            *)
(*                                                                         *)
(* A streamed answer arrives in network reads that split events anywhere.  *)
(* Each read is captured (the last CaptureLimit bytes are kept), rewritten *)
(* and forwarded to the client, who may leave at any moment.  When the     *)
(* stream is over the captured tail decides what the request costs.  The   *)
(* other answers are read as a whole and settled in a detached goroutine.  *)
(*                                                                         *)
(* An event is two bytes here, its first and its second half, which is all *)
(* that splitting, capturing and reassembling can tell apart.              *)
(***************************************************************************)
EXTENDS ResponseSettlement, FiniteSets

CONSTANTS
  Routes,        \* the handlers in use
  Modes,         \* billing modes a reservation may have
  MaxEvents,     \* bound on the events of a stream
  CaptureLimit,  \* bytes kept of a stream (maxStreamCaptureBytes)
  MaxAttempts,   \* connections tried (safePreconnectMaxAttempts, 80)
  CallbackEnabled, \* the callback to genfity-app is configured
  InputPrice,    \* price of an input and of an output token in dollars
  OutputPrice,
  MaxFaults      \* bound on failing statements

ASSUME PipelineAssumption ==
  /\ Routes \subseteq {"chat", "messages", "embeddings", "images"}
  /\ Modes \subseteq {"unlimited", "credit_package", "payg_topup"}
  /\ MaxEvents \in Nat /\ CaptureLimit \in Nat
  /\ MaxAttempts \in Nat \ {0} /\ MaxFaults \in Nat
  /\ CallbackEnabled \in BOOLEAN /\ InputPrice \in Nat /\ OutputPrice \in Nat

VARIABLES
  route, streamed, mode,      \* what was asked for, and how it is paid
  pc,                         \* where the handler is
  gone,                       \* the client left: the request context is cancelled
  status,                     \* status of the upstream answer, 0 before
  attempts, sent,             \* refused connections; times upstream got the request
  wire,                       \* bytes read from upstream
  captured,                   \* tailCaptureBuffer
  pending, providerStarted,   \* sseRewriteBuffer
  forwarded,                  \* what was written to the client
  cut,                        \* DownstreamWriteFailed
  code, body,                 \* settlementCode and the body it was taken from
  counters,                   \* preRequestCounters
  hold, armed,                \* the reservation, and settled = false
  job, failed,                \* the settlement under way, and its error
  settlement,                 \* what recordUsage returned
  row,                        \* usage_ledger row, or NoRow
  paid,                       \* the settlement last applied to the reservation
  finals, counted,            \* finalizes applied; durable request_count
  posted,                     \* debits handed to PostUsageDebitAsync
  invalidated,                \* the cached entitlement was dropped
  incremented, debited,       \* tokens and dollars billed by the embeddings handler
  faults

input  == <<route, streamed, mode>>
call   == <<status, attempts, sent>>
answer == <<call, wire, captured, pending, providerStarted, forwarded, cut>>
result == <<code, body>>
legacy == <<incremented, debited>>
after  == <<posted, invalidated, legacy>>
books  == <<row, paid, finals, counted, after>>
task   == <<job, failed, settlement>>
vars   == <<input, pc, gone, answer, result, counters, hold, armed, task, books, faults>>

NoRow  == [code |-> "none"]
NoBody == [json |-> FALSE, parts |-> <<>>]

\* The empty usageSettlement, and the ledger row of a refused request.
EmptySettlement ==
  [prompt |-> 0, completion |-> 0, total |-> 0, code |-> "", charge |-> FALSE,
   count |-> FALSE, credits |-> 0]
FailedRow(c) == [EmptySettlement EXCEPT !.code = c]

Init ==
  /\ route \in Routes /\ mode \in Modes
  /\ streamed \in (IF route \in {"chat", "messages"} THEN BOOLEAN ELSE {FALSE})
  /\ pc = "arrived" /\ gone = FALSE
  /\ status = 0 /\ attempts = 0 /\ sent = 0
  /\ wire = <<>> /\ captured = <<>> /\ pending = <<>>
  /\ providerStarted = FALSE /\ forwarded = <<>> /\ cut = FALSE
  /\ code = 0 /\ body = NoBody
  /\ counters = "none" /\ hold = "none" /\ armed = FALSE
  /\ job = "none" /\ failed = FALSE /\ settlement = EmptySettlement
  /\ row = NoRow /\ paid = EmptySettlement /\ finals = 0 /\ counted = 0 /\ posted = 0
  /\ invalidated = FALSE /\ incremented = 0 /\ debited = 0
  /\ faults = 0

\* Upstream answers: a success, a redirection, a refusal, a disconnect of its own
\* and an outage stand for the statuses the handlers tell apart.
Statuses == {200, 300, 400, 499, 503}

Chatting == route \in {"chat", "messages"}

\* A statement may fail by itself, and does when its context is cancelled.
Succeeds(onRequestContext) == ~(onRequestContext /\ gone) /\ UNCHANGED faults
Fails(onRequestContext) ==
  \/ faults < MaxFaults /\ faults' = faults + 1
  \/ onRequestContext /\ gone /\ UNCHANGED faults

-----------------------------------------------------------------------------
(* Before the upstream call                                                *)

\* Invalid body, unknown model, bad tool history, no subscription, model not
\* allowed, RPM or plan limit: refused, with a failed ledger row, which the
\* embeddings handler writes for the limits only.
Refuse ==
  /\ pc = "arrived" /\ pc' = "done"
  /\ \/ row' = FailedRow("rejected")
     \/ (route = "embeddings" \/ faults < MaxFaults) /\ UNCHANGED row
  /\ UNCHANGED <<input, gone, answer, result, counters, hold, armed, task,
                 paid, finals, counted, after, faults>>

\* applyPreRequestLimits took the counters; from here the deferred rollback
\* runs.  The image handlers take none.
TakeCounters ==
  /\ pc = "arrived" /\ route # "images"
  /\ counters' = "held"
  /\ pc' = IF Chatting THEN "limited" ELSE "calling"
  /\ UNCHANGED <<input, gone, answer, result, hold, armed, task, books, faults>>

\* Concurrency slot or reservation refused.
RefuseLate ==
  /\ \/ pc = "limited"
     \/ pc = "arrived" /\ route = "images"
  /\ row' = FailedRow("rejected")
  /\ pc' = "leaving"
  /\ UNCHANGED <<input, gone, answer, result, counters, hold, armed, task,
                 paid, finals, counted, after, faults>>

\* tryPriorityBilling; the deferred finalize is armed.
Reserve ==
  /\ \/ pc = "limited"
     \/ pc = "arrived" /\ route = "images"
  /\ hold' = "held" /\ armed' = TRUE
  /\ pc' = "calling"
  /\ UNCHANGED <<input, gone, answer, result, counters, task, books, faults>>

\* An image model that the catalogue does not list, or not as active, is passed
\* on unbilled.
PassThrough ==
  /\ pc = "arrived" /\ route = "images"
  /\ pc' = "calling"
  /\ UNCHANGED <<input, gone, answer, result, counters, hold, armed, task, books, faults>>

-----------------------------------------------------------------------------
(* Settling: recordUsage, finalizeRuntimeReservation                       *)

\* The effect of one applied finalize.
Apply(s) ==
  /\ hold' = "settled" /\ paid' = s
  /\ finals' = finals + 1
  /\ counted' = counted + (IF s.count THEN 1 ELSE 0)

\* Which settlements run on the request context: Messages settles an upstream
\* error before it answers.
OnRequestContext == pc = "answering" /\ route = "messages"

RecordUsage ==
  /\ job = "record" /\ Succeeds(OnRequestContext)
  /\ LET r == UsageRow(mode, code, body, providerStarted)
     IN row' = r /\ settlement' = r
  /\ job' = "finalize"
  /\ UNCHANGED <<input, pc, gone, answer, result, counters, hold, armed, failed,
                 paid, finals, counted, after>>

\* The insert failed: an empty settlement is applied, the error is returned.
RecordUsageFailed ==
  /\ job = "record" /\ Fails(OnRequestContext)
  /\ job' = "release" /\ failed' = TRUE
  /\ UNCHANGED <<input, pc, gone, answer, result, counters, hold, armed,
                 settlement, books>>

\* totalCostUsd of recordUsage.
CostUSD(s) == s.prompt * InputPrice + s.completion * OutputPrice

\* What the customer owes for the settlement, in the unit of the billing mode.
AmountDue(s) ==
  CASE mode = "credit_package" -> s.credits
    [] mode = "payg_topup"     -> CostUSD(s)
    [] OTHER                   -> 0

\* The dollars FinalizePaygUsdBalance takes.
ChargedUSD(s) == IF s.charge THEN CostUSD(s) ELSE 0

\* The debit handed to the callback: only a charge of some amount.
PostUsageDebit(s) ==
  posted' = posted + (IF s.charge /\ CallbackEnabled /\ AmountDue(s) > 0 THEN 1 ELSE 0)

\* InvalidateUser, when the reservation took money and the row was written; the
\* error of a failing DEL is ignored.
InvalidateUser ==
  IF job = "finalize" /\ mode # "unlimited"
    THEN \/ invalidated' = TRUE /\ UNCHANGED faults
         \/ faults < MaxFaults /\ faults' = faults + 1 /\ UNCHANGED invalidated
    ELSE UNCHANGED <<invalidated, faults>>

\* The reservation is finalized, the debit handed to the callback and the cached
\* entitlement dropped.
Finalize ==
  /\ job \in {"finalize", "release"} /\ ~(OnRequestContext /\ gone)
  /\ Apply(settlement)
  /\ PostUsageDebit(settlement)
  /\ InvalidateUser
  /\ job' = "over"
  /\ UNCHANGED <<input, pc, gone, answer, result, counters, armed, failed,
                 settlement, row, legacy>>

\* The request is counted by the first statement, the money moved by a later
\* one: the failure may come between the two.
CountedOrNot(s) == counted' \in {counted, counted + (IF s.count THEN 1 ELSE 0)}

FinalizeFailed ==
  /\ job \in {"finalize", "release"} /\ Fails(OnRequestContext)
  /\ job' = "over" /\ failed' = TRUE
  /\ CountedOrNot(settlement)
  /\ UNCHANGED <<input, pc, gone, answer, result, counters, hold, armed,
                 settlement, row, paid, finals, after>>

-----------------------------------------------------------------------------
(* The upstream call                                                       *)

\* forwardJSON: a connection that was refused is tried again after a pause,
\* which the end of the request context cuts short.
ConnectRefused ==
  /\ pc = "calling" /\ ~gone
  /\ attempts + 1 < MaxAttempts
  /\ attempts' = attempts + 1
  /\ UNCHANGED <<input, pc, gone, status, sent, wire, captured, pending, providerStarted,
                 forwarded, cut, result, counters, hold, armed, task, books, faults>>

\* Mutant: an answer that was lost is asked for again.
CallFailedRetried ==
  /\ pc = "calling"
  /\ sent' = sent + 1
  /\ attempts' = attempts + 1
  /\ pc' = IF attempts + 1 < MaxAttempts THEN "calling" ELSE "unanswered"
  /\ UNCHANGED <<input, gone, status, wire, captured, pending, providerStarted,
                 forwarded, cut, result, counters, hold, armed, task, books, faults>>

\* The call ends in an error: nobody took the connection, the client left, or the
\* request went out and no answer came back, which is not tried again.
CallFailed ==
  /\ pc = "calling"
  /\ attempts' = 0
  /\ sent' \in {sent, sent + 1}
  /\ pc' = "unanswered"
  /\ UNCHANGED <<input, gone, status, wire, captured, pending, providerStarted,
                 forwarded, cut, result, counters, hold, armed, task, books, faults>>

\* The payload cannot be cloned, or the handler is not a chat handler and has no
\* router or no answer: the request ends without a row.
GiveUp ==
  /\ \/ pc = "calling" /\ attempts = 0
     \/ pc = "unanswered" /\ ~Chatting
  /\ pc' = "leaving"
  /\ UNCHANGED <<input, gone, answer, result, counters, hold, armed, task, books, faults>>

\* No candidate answered: the reservation is finalized without a charge, but as
\* a counted request.
AllCandidatesFailed ==
  /\ Chatting
  /\ \/ pc = "calling" /\ attempts = 0    \* no router
     \/ pc = "unanswered" /\ ~gone
  /\ pc' = "leaving"
  /\ \/ /\ Apply([EmptySettlement EXCEPT !.count = TRUE])
        /\ armed' = FALSE /\ Succeeds(TRUE)
     \/ /\ Fails(TRUE) /\ CountedOrNot([EmptySettlement EXCEPT !.count = TRUE])
        /\ UNCHANGED <<hold, armed, paid, finals>>
  /\ UNCHANGED <<input, gone, answer, result, counters, task, row, after>>

\* The client left before upstream answered: recordAndFinalizeClientDisconnect,
\* after which the handler counts as settled whatever happened.
DisconnectedBeforeAnswer ==
  /\ pc = "unanswered" /\ Chatting /\ gone
  /\ LET r == UsageRow(mode, StatusClientClosedRequest, NoBody, FALSE)
     IN \/ /\ row' = r /\ Apply(r) /\ UNCHANGED faults
        \/ /\ faults < MaxFaults /\ faults' = faults + 1
           /\ \/ row' = r /\ CountedOrNot(r) /\ UNCHANGED <<hold, paid, finals>>
              \/ Apply(EmptySettlement) /\ UNCHANGED row
              \/ UNCHANGED <<row, hold, paid, finals, counted>>
  /\ armed' = FALSE
  /\ pc' = "leaving"
  /\ UNCHANGED <<input, gone, answer, result, counters, task, after>>

\* Upstream's answer has any status, also a redirection nobody follows (300) or
\* a 499 of its own.
Answered(s) ==
  /\ pc = "calling"
  /\ status' = s /\ attempts' = 0 /\ sent' = sent + 1
  /\ pc' = IF streamed /\ s < 400 THEN "streaming" ELSE "reading"
  /\ UNCHANGED <<input, gone, wire, captured, pending, providerStarted, forwarded,
                 cut, result, counters, hold, armed, task, books, faults>>

-----------------------------------------------------------------------------
(* Streaming: streamUpstreamResponse                                       *)

\* Upstream: an Anthropic stream for Messages, an OpenAI one for chat.  Events
\* come in this order; text and heartbeats repeat; any event may be the last.
StreamOrder ==
  [k \in Kinds |-> CASE k = "started"                     -> 0
                     [] k = "message_start"               -> 1
                     [] k \in {"text", "refusal"}         -> 2
                     [] k \in {"message_delta", "finish"} -> 3
                     [] k = "usage"                       -> 4
                     [] k \in {"message_stop", "DONE"}    -> 5
                     [] OTHER                             -> 6]
Heartbeat == IF route = "messages" THEN "ping" ELSE "comment"

\* The whole events among the bytes: a half event in front, which the capture
\* cut, and one at the end are left out.
Events(bytes) ==
  LET skip == IF bytes # <<>> /\ bytes[1][2] = 2 THEN 1 ELSE 0
  IN [i \in 1..((Len(bytes) - skip) \div 2) |-> bytes[skip + 2 * i][1]]

NextKinds ==
  LET seen  == {StreamOrder[wire[i][1]] : i \in {j \in DOMAIN wire : wire[j][1] # Heartbeat}}
      kinds == (IF route = "messages" THEN AnthropicKinds ELSE OpenAIKinds)
                 \cup {"started", "error"}
      opened == route = "chat" \/ 1 \in seen
  IN {k \in kinds :
        IF k = Heartbeat THEN seen \cap 3..6 = {}
        ELSE /\ \A s \in seen : IF k = "text" THEN s <= 2 ELSE s < StreamOrder[k]
             /\ StreamOrder[k] \in 2..5 => opened}

\* What one Read may return: the rest of an event begun, or a new one, with or
\* without the half that follows.
NextChunks ==
  LET open == wire # <<>> /\ Last(wire)[2] = 1
      rest == IF open THEN <<<<Last(wire)[1], 2>>>> ELSE <<>>
      new(k) == IF open THEN {<<<<k, 1>>>>} ELSE {<<<<k, 1>>>>, <<<<k, 1>>, <<k, 2>>>>}
      room == Cardinality({i \in DOMAIN wire : wire[i][2] = 1}) < MaxEvents
  IN {c \in {rest} : open}
       \cup {rest \o n : n \in UNION {new(k) : k \in IF room THEN NextKinds ELSE {}}}

\* tailCaptureBuffer.Write: the last CaptureLimit bytes survive.
CaptureWrite(buf, p) ==
  LET Suffix(s, n) == SubSeq(s, Len(s) - n + 1, Len(s))
      overflow == Len(buf) + Len(p) - CaptureLimit
  IN IF CaptureLimit <= 0 THEN buf
     ELSE IF Len(p) >= CaptureLimit THEN Suffix(p, CaptureLimit)
     ELSE IF overflow > 0 THEN Suffix(buf, Len(buf) - overflow) \o p
     ELSE buf \o p

\* Mutant: half events are sent on at once.
BoundaryAnywhere(bytes) == Len(bytes)

\* findLastSSEEventBoundary: how many bytes form whole events.
EventBoundary(bytes) ==
  IF bytes = <<>> \/ Last(bytes)[2] = 2 THEN Len(bytes) ELSE Len(bytes) - 1

\* What reaches the client is a kind and the model name it carries: upstream's,
\* or the public one.

\* sanitizeSSEChunk: a provider error is masked.
Sanitize(e) == IF e[1] = "error" THEN <<"masked_error", e[2]>> ELSE e

\* rewriteSSEChunkModel.
RewriteModel(e) == <<e[1], "public">>

\* replaceSSECommentHeartbeats: a comment becomes an event of the protocol.
ReplaceHeartbeat(e) == IF e[1] = "comment" THEN <<"heartbeat", e[2]>> ELSE e

\* One whole event; the marker upstream adds for the gateway is removed.
SafeEvent(k) ==
  IF k = "started" THEN <<>>
  ELSE <<ReplaceHeartbeat(RewriteModel(Sanitize(<<k, "upstream">>)))>>

SafeEvents(ks) == FlattenSeq([i \in DOMAIN ks |-> SafeEvent(ks[i])])

\* A half event at the end is no JSON: it is neither masked nor rewritten.
Fragment(b) == ReplaceHeartbeat(<<b[1], "upstream">>)
Safe(bytes) ==
  SafeEvents(Events(bytes))
    \o (IF bytes # <<>> /\ Last(bytes)[2] = 1 THEN <<Fragment(Last(bytes))>> ELSE <<>>)

StreamOver ==
  /\ pc' = "captured"
  /\ UNCHANGED <<input, gone, call, result, counters, hold, armed, task, books, faults>>

\* A write to a client that has left may fail, or may not yet.
Write(out) ==
  \/ forwarded' = forwarded \o out /\ cut' = cut
  \/ out # <<>> /\ gone /\ cut' = TRUE /\ UNCHANGED forwarded

\* A read that returns data: captured first, then rewritten and written.
ReadChunk(chunk) ==
  /\ wire' = wire \o chunk
  /\ captured' = CaptureWrite(captured, chunk)
  /\ LET all == pending \o chunk
         n   == EventBoundary(all)
         complete == SubSeq(all, 1, n)
     IN /\ pending' = SubSeq(all, n + 1, Len(all))
        /\ providerStarted' = (providerStarted \/ \E i \in 1..n : all[i][1] = "started")
        /\ Write(Safe(complete))
  /\ pc' = IF cut' THEN "captured" ELSE pc
  /\ UNCHANGED <<input, gone, call, result, counters, hold, armed, task, books, faults>>

Read == pc = "streaming" /\ \E chunk \in NextChunks : ReadChunk(chunk)

\* The read fails or ends: an unfinished event is flushed as it is.
EndOfStream ==
  /\ pc = "streaming"
  /\ \E seen \in {FALSE, pending # <<>> /\ pending[1][1] = "started"} :
       providerStarted' = (providerStarted \/ seen)
  /\ Write(Safe(pending))
  /\ pending' = <<>>
  /\ UNCHANGED <<wire, captured>>
  /\ StreamOver

\* The stream is settled before the handler returns, on a detached context.
SettleStream ==
  /\ pc = "captured" /\ job = "none"
  /\ body' = [json |-> FALSE, parts |-> Events(captured)]
  /\ code' = IF cut THEN StatusClientClosedRequest ELSE SettlementStatus(gone, status, body')
  /\ job' = "record"
  /\ UNCHANGED <<input, pc, gone, answer, counters, hold, armed, failed, settlement,
                 books, faults>>

\* Mutant: a stream is counted by its status.
CommitByStatus == code < 400

CountStream == settlement.count

\* Mutant: the deferred finalize stays armed.
StreamSettledArmed ==
  /\ pc = "captured" /\ job = "over"
  /\ counters' = IF CountStream THEN "committed" ELSE counters
  /\ pc' = "leaving"
  /\ UNCHANGED <<input, gone, answer, result, hold, armed, task, books, faults>>

\* Counted by what the settlement says, whether or not it could be applied.
StreamSettled ==
  /\ pc = "captured" /\ job = "over"
  /\ counters' = IF CountStream THEN "committed" ELSE counters
  /\ armed' = FALSE
  /\ pc' = "leaving"
  /\ UNCHANGED <<input, gone, answer, result, hold, task, books, faults>>

-----------------------------------------------------------------------------
(* Answers read as a whole                                                 *)

\* Bodies of an answer; a truncated one is not JSON.
Bodies ==
  {NoBody} \cup {[json |-> TRUE, parts |-> <<k>>] :
                   k \in IF route = "embeddings" THEN {"vectors", "error", "nothing"}
                         ELSE {"message", "message_without_usage", "error", "nothing"}}

\* rewriteResponseModel: a body that is not JSON passes unchanged.
RewriteResponse(b) ==
  IF b.json THEN <<b.parts[1], "public">> ELSE <<"unparsed", "upstream">>

\* sanitizeErrorBody: any error body is replaced.
SanitizeErrorBody == <<"masked_error", "public">>

\* writeUpstreamResponse.
WriteUpstreamResponse(b) ==
  forwarded' = <<IF status >= 400 THEN SanitizeErrorBody ELSE RewriteResponse(b)>>

\* A completed answer: the counters are committed by the same decision the
\* ledger row will record, the answer is written, and a goroutine settles.
AnswerRead(b) ==
  /\ pc = "reading" /\ Chatting /\ status < 400
  /\ body' = b /\ code' = SettlementStatus(gone, status, b)
  /\ providerStarted' = TRUE
  /\ armed' = FALSE
  /\ counters' = IF ShouldCountSettlementRequest(mode, code', b, TRUE)
                   THEN "committed" ELSE counters
  /\ WriteUpstreamResponse(b)
  /\ job' = "record"
  /\ pc' = "leaving"
  /\ UNCHANGED <<input, gone, call, wire, captured, pending, cut, hold,
                 failed, settlement, books, faults>>

\* An upstream error: chat settles it in a goroutine, Messages before it
\* answers.  ShouldCountAsSuccess is false for every such status.
ErrorRead(b) ==
  /\ pc = "reading" /\ Chatting /\ status >= 400
  /\ body' = b /\ code' = status
  /\ providerStarted' = TRUE
  /\ armed' = (route = "messages")
  /\ job' = "record"
  /\ IF route = "messages" THEN pc' = "answering" /\ UNCHANGED forwarded
                           ELSE pc' = "leaving" /\ WriteUpstreamResponse(b)
  /\ UNCHANGED <<input, gone, call, wire, captured, pending, cut,
                 counters, hold, failed, settlement, books, faults>>

\* Mutant: the handler waits until the settlement has gone through.
ErrorSettledWhenApplied ==
  /\ pc = "answering" /\ job = "over" /\ ~failed
  /\ armed' = FALSE
  /\ pc' = "leaving"
  /\ UNCHANGED <<input, gone, answer, result, counters, hold, task, books, faults>>

\* Messages: a failed settlement is answered by an error of the gateway's own
\* and leaves the deferred finalize armed.
ErrorSettled ==
  /\ pc = "answering" /\ job = "over"
  /\ armed' = failed
  /\ IF failed THEN UNCHANGED forwarded ELSE WriteUpstreamResponse(body)
  /\ pc' = "leaving"
  /\ UNCHANGED <<input, gone, call, wire, captured, pending, providerStarted, cut,
                 result, counters, hold, task, books, faults>>

\* recordUsageWithLegacyBilling: below 400 the quota is incremented by the total
\* of the row, whatever its limit, and the credit balance of a credit package is
\* debited by its cost.  A free model and a missing entitlement have no part in
\* it, and the errors of both statements are ignored: either may be left out.
LegacyBilling(r) ==
  LET billed == status < 400
  IN /\ incremented' \in {0, IF billed THEN r.total ELSE 0}
     /\ debited' \in {0, IF billed /\ mode = "credit_package" THEN CostUSD(r) ELSE 0}

\* Mutant: the quota is incremented although the row could not be written.
EmbeddingsReadUnrecorded(b) ==
  /\ pc = "reading" /\ route = "embeddings"
  /\ body' = b /\ code' = status
  /\ counters' = IF ShouldCountAsSuccess(status, b) /\ ~gone THEN "committed" ELSE counters
  /\ LET r == UsageRow("none", status, b, status \in 200..299)
     IN /\ \/ Succeeds(TRUE) /\ row' = r
           \/ Fails(TRUE) /\ UNCHANGED row
        /\ LegacyBilling(r)
  /\ WriteUpstreamResponse(b)
  /\ pc' = "leaving"
  /\ UNCHANGED <<input, gone, call, wire, captured, pending, providerStarted, cut,
                 hold, armed, task, paid, finals, counted, posted, invalidated>>

\* Embeddings: counters, ledger row and billing on the request context, without a
\* reservation.
EmbeddingsRead(b) ==
  /\ pc = "reading" /\ route = "embeddings"
  /\ body' = b /\ code' = status
  /\ counters' = IF ShouldCountAsSuccess(status, b) /\ ~gone THEN "committed" ELSE counters
  /\ LET r == UsageRow("none", status, b, status \in 200..299)
     IN \/ Succeeds(TRUE) /\ row' = r /\ LegacyBilling(r)
        \/ Fails(TRUE) /\ UNCHANGED <<row, legacy>>
  /\ WriteUpstreamResponse(b)
  /\ pc' = "leaving"
  /\ UNCHANGED <<input, gone, call, wire, captured, pending, providerStarted, cut,
                 hold, armed, task, paid, finals, counted, posted, invalidated>>

\* Images: a success is finalized as charged and counted, but with no amount;
\* the row carries the reserved credits as its cost.  The finalize runs on a
\* background context, the insert on the request's.
ImagesRead ==
  /\ pc = "reading" /\ route = "images"
  /\ LET ok == status < 400
         cost == IF ok /\ armed /\ mode = "credit_package" THEN Price ELSE 0
         r == [EmptySettlement EXCEPT !.code = IF ok THEN "" ELSE "http_error",
                                      !.charge = cost > 0, !.credits = cost]
         s == [EmptySettlement EXCEPT !.charge = TRUE, !.count = TRUE]
     IN \/ /\ IF ok /\ armed THEN Apply(s) ELSE UNCHANGED <<hold, paid, finals, counted>>
           /\ \/ row' = r /\ Succeeds(TRUE)
              \/ Fails(TRUE) /\ UNCHANGED row
        \/ /\ ok /\ armed /\ Fails(FALSE)
           /\ CountedOrNot(s) /\ UNCHANGED <<hold, paid, finals>>
           /\ row' = IF gone THEN row ELSE r
  /\ armed' = (armed /\ status >= 400)
  /\ forwarded' = <<IF status >= 400 THEN SanitizeErrorBody ELSE <<"image", "public">>>>
  /\ pc' = "leaving"
  /\ UNCHANGED <<input, gone, call, wire, captured, pending, providerStarted, cut,
                 result, counters, task, after>>

-----------------------------------------------------------------------------
(* Deferred functions, the client, the specification                       *)

\* The deferred finalize, unless the handler settled; its error is ignored.
DeferredFinalize ==
  /\ pc = "leaving" /\ armed
  /\ armed' = FALSE
  /\ \/ Apply(EmptySettlement) /\ UNCHANGED faults
     \/ Fails(FALSE) /\ UNCHANGED <<hold, paid, finals, counted>>
  /\ UNCHANGED <<input, pc, gone, answer, result, counters, task, row, after>>

\* preRequestCounters.rollback.
Rollback == IF counters = "held" THEN "returned" ELSE counters

Leave ==
  /\ pc = "leaving" /\ ~armed
  /\ counters' = Rollback
  /\ pc' = "done"
  /\ UNCHANGED <<input, gone, answer, result, hold, armed, task, books, faults>>

ClientLeaves ==
  /\ ~gone /\ pc # "done"
  /\ gone' = TRUE
  /\ UNCHANGED <<input, pc, answer, result, counters, hold, armed, task, books, faults>>

Handler ==
  \/ Refuse \/ TakeCounters \/ RefuseLate \/ Reserve \/ PassThrough
  \/ ConnectRefused \/ CallFailed \/ GiveUp \/ AllCandidatesFailed \/ DisconnectedBeforeAnswer
  \/ \E s \in Statuses : Answered(s)
  \/ Read \/ EndOfStream \/ SettleStream \/ StreamSettled
  \/ \E b \in Bodies : AnswerRead(b) \/ ErrorRead(b) \/ EmbeddingsRead(b)
  \/ ErrorSettled \/ ImagesRead
  \/ DeferredFinalize \/ Leave

Settler == RecordUsage \/ RecordUsageFailed \/ Finalize \/ FinalizeFailed

Next == Handler \/ Settler \/ ClientLeaves

Spec == Init /\ [][Next]_vars

\* Where a handler writes to the client, which has no deadline (WriteTimeout 0),
\* and where it waits for a statement on the request's or the background context,
\* which has none either.
ToClient ==
  \/ pc \in {"streaming", "reading"}
  \/ pc = "answering" /\ job = "over"
Untimed ==
  \/ pc \in {"arrived", "limited"}
  \/ pc = "unanswered" /\ ~gone
  \/ pc = "answering" /\ job # "over"
  \/ pc = "leaving" /\ armed

\* The fairness the code provides: handlers and goroutines are scheduled, the
\* HTTP client of the router gives up after its timeout, a settlement on a
\* detached context after 30 seconds, and a Redis command after the timeouts of
\* its client.
FairSpec ==
  /\ Spec
  /\ WF_vars(~ToClient /\ ~Untimed /\ Handler)
  /\ WF_vars(~OnRequestContext /\ Settler)

-----------------------------------------------------------------------------
(* Properties                                                              *)

Bytes == Kinds \X {1, 2}
Settlements ==
  [prompt : Nat, completion : Nat, total : Nat, charge : BOOLEAN, count : BOOLEAN,
   credits : Nat,
   code : {"", "rejected", "http_error", "upstream_error", "client_disconnected",
           "partial_upstream_response", "empty_upstream_response"}]

\* The variables have the types the code gives them.
TypeOK ==
  /\ route \in Routes /\ streamed \in BOOLEAN /\ mode \in Modes
  /\ pc \in {"arrived", "limited", "calling", "unanswered", "streaming", "captured", "reading",
             "answering", "leaving", "done"}
  /\ {gone, providerStarted, cut, armed, failed} \subseteq BOOLEAN
  /\ attempts \in 0..(MaxAttempts - 1) /\ sent \in Nat
  /\ status \in Statuses \cup {0} /\ code \in Statuses \cup {0}
  /\ {wire, captured, pending} \subseteq Seq(Bytes)
  /\ Len(captured) <= CaptureLimit /\ Len(pending) <= 1
  /\ counters \in {"none", "held", "committed", "returned"}
  /\ hold \in {"none", "held", "settled"}
  /\ job \in {"none", "record", "finalize", "release", "over"}
  /\ settlement \in Settlements /\ paid \in Settlements
  /\ row \in Settlements \cup {NoRow}
  /\ finals \in 0..2 /\ counted \in 0..1 /\ posted \in 0..1 /\ faults \in 0..MaxFaults
  /\ invalidated \in BOOLEAN /\ incremented \in Nat /\ debited \in Nat

Over == pc = "done" /\ job \in {"none", "over"}

\* The row of a request that reached the settlement of a chat handler.
Settled == Chatting /\ row # NoRow /\ row.code # "rejected"

\* However events are split, the client gets each whole event once, in order and
\* rewritten: a provider error masked, the internal marker removed.  Only the
\* fragment of an event that upstream never finished is passed on as it is.  A
\* JSON answer carries the public model name, and an error status a masked body.
ForwardedFaithfully ==
  LET expected == SafeEvents(Events(wire))
  IN IF streamed /\ status < 400
     THEN /\ \/ IsPrefix(forwarded, expected)
             \/ /\ pc # "streaming" /\ wire # <<>> /\ Last(wire)[2] = 1
                /\ forwarded = Append(expected, Fragment(Last(wire)))
          /\ pc = "streaming" => forwarded = expected
     ELSE \A i \in DOMAIN forwarded :
            /\ body.json => forwarded[i][2] = "public"
            /\ status >= 400 => forwarded[i][1] = "masked_error"

\* However often a connection is refused, upstream gets a request at most once:
\* a lost answer is never asked for again, so no provider is paid twice.
SentOnce == sent <= 1 /\ (status # 0 => sent = 1)

\* A customer pays for a chat request only when the provider finished a
\* completion and reported no error, or when the client left after the provider
\* had produced or reported tokens.  Heartbeats alone never cost anything.  An
\* error status costs nothing unless it is a 499 whose body holds a completion.
ChargedForService ==
  Settled /\ row.charge =>
    IF body.json THEN LooksLikeJSONCompletion(body.parts[1]) /\ status \in {200, 300, 499}
    ELSE LET seen == ToSet(Events(wire))
         IN IF gone /\ row.code = "client_disconnected"
              THEN \E k \in seen : ContentChars(k) > 0 \/ ParseUsageFromPayload(k) # NoUsage
              ELSE /\ "error" \notin seen
                   /\ \E k \in seen : SseEventHasOutput(k)
                   /\ \E k \in seen : IsTerminalSSEEvent(k) \/ IsFinalSSEEvent(k)

\* A completion that reached the client is paid for, also when the client left
\* right after its last byte, while the stream fits the capture.
CompletionCharged ==
  Settled /\ streamed /\ status \in 200..399 /\ ~cut /\ Len(wire) <= CaptureLimit =>
    LET seen == ToSet(Events(wire))
    IN /\ "error" \notin seen
       /\ \E k \in seen : SseEventHasOutput(k)
       /\ \E k \in seen : IsTerminalSSEEvent(k) \/ IsFinalSSEEvent(k)
       => row.charge /\ row.count

\* The usage a stream reports at its end is what is recorded, also when the
\* client left and the write of that very event failed, and whatever running
\* counters came before.  The prompt tokens an Anthropic stream reports at its
\* beginning are kept while the stream fits the capture.
UsageAsReported ==
  Settled /\ streamed /\ status \in 200..399 =>
    LET seen == ToSet(Events(wire))
    IN /\ "usage" \in seen => /\ row.prompt = Prompt /\ row.completion = Completion
                              /\ row.total = Prompt + Completion
       /\ "message_delta" \in seen =>
            /\ row.completion = Completion
            /\ Len(wire) <= CaptureLimit => row.prompt = Prompt

\* A whole answer the ledger counts and Redis does not: a redirection passes for
\* a success in recordUsage (below 400) but not in shouldCountAsSuccess (2xx), and
\* an upstream's own 499 for a disconnect of the client.
CountedApart ==
  /\ ~(streamed /\ status < 400)
  /\ code \in 300..399 \/ status = 499

\* No statement failed.  The one that a departing client fails by itself matters
\* only when Messages settles an upstream's own 499, the only error with a charge.
NothingFailed == faults = 0 /\ ~(failed /\ status = 499)

\* The counters in Redis and the ledger row agree on whether the request counts,
\* although the handlers decide the two at different times and, without a stream,
\* by different functions; the only exceptions are the answers of CountedApart,
\* which Redis never counts.  The durable request count agrees with the row when
\* no statement failed.
CountersAgree ==
  Over /\ Settled =>
    /\ counters = "committed" <=> row.count /\ ~CountedApart
    /\ NothingFailed => counted = (IF row.count THEN 1 ELSE 0)

\* On every way out of a handler the reservation is finalized exactly once, by
\* the settlement or by the deferred finalize, when no statement failed.
SettledOnce ==
  Over /\ faults = 0 =>
    \/ hold = "none" /\ finals = 0
    \/ hold = "settled" /\ finals = 1

\* What the ledger row of a chat request says was charged is what was applied to
\* the reservation and handed to the callback, and the balance cached before it is
\* dropped, when no statement failed.  A charge in credits is at least the price
\* of one bucket and always posted; one in dollars is posted unless it is nothing.
ChargeMatchesRow ==
  Over /\ Settled /\ NothingFailed =>
    /\ row.credits = paid.credits /\ ChargedUSD(row) = ChargedUSD(paid)
    /\ posted = 1 <=> CallbackEnabled /\ row.charge /\ AmountDue(row) > 0
    /\ row.charge /\ mode = "credit_package" => row.credits >= Price
    /\ row.charge /\ mode # "unlimited" => invalidated

\* The embeddings handler, which checks no limit and holds nothing back, bills at
\* most once, nothing that its ledger row does not record, and no error of upstream.
EmbeddingsBilled ==
  /\ incremented > 0 => route = "embeddings" /\ row # NoRow /\ incremented = row.total
  /\ debited > 0 => route = "embeddings" /\ row # NoRow /\ debited = CostUSD(row)
  /\ incremented + debited > 0 => row.code \notin {"http_error", "client_disconnected"}

\* What the program cannot enforce: the client takes what is written to it or
\* leaves, and Postgres answers a statement that has no deadline.
ClientTakes     == WF_vars(ToClient /\ Handler)
DatabaseAnswers == WF_vars(Untimed /\ Handler) /\ WF_vars(OnRequestContext /\ Settler)

\* Every request and its settlement come to an end if the client takes the answer
\* or leaves and the database answers; all other waits have a deadline.  Without
\* these two a handler may hang: no write to the client and no statement on the
\* request's or the background context has a timeout.
RequestEnds == ClientTakes /\ DatabaseAnswers => <>Over

=============================================================================
