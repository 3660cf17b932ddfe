------------------------ MODULE ResponseSettlement ------------------------
(***************************************************************************)
(* What the gateway concludes from an upstream answer: is it a completion, *)
(* how many tokens did it use, and is it billed and counted.  These are    *)
(* the pure functions recordUsage and the handlers call on the captured    *)
(* body.                                                                   *)
(*                                                                         *)
(* A body is the sequence of the payloads it holds, each abstracted to a   *)
(* kind: one JSON document (json = TRUE) or the data events of a stream.   *)
(* A kind carries what the functions below look at; its text is left out.  *)
(***************************************************************************)
EXTENDS Integers, Sequences, SequencesExt

CONSTANTS
  Prompt,       \* input tokens the provider reports
  Completion,   \* output tokens it reports at the end
  Running,      \* output tokens a message_start event reports
  TextChars,    \* characters of content in one output event
  Bucket,       \* tokens per billing bucket (20 000 in the code)
  Price         \* credits per bucket

ASSUME ResponseAssumption ==
  /\ {Prompt, Completion, TextChars, Bucket, Price} \subseteq Nat \ {0}
  /\ Running \in Nat

\* Payloads of an Anthropic and of an OpenAI stream, and of a JSON answer.
AnthropicKinds == {"ping", "message_start", "text", "message_delta", "message_stop"}
OpenAIKinds    == {"comment", "text", "refusal", "finish", "usage", "DONE"}
JSONKinds      == {"message", "message_without_usage", "vectors", "nothing"}
Kinds == AnthropicKinds \cup OpenAIKinds \cup JSONKinds \cup {"started", "error"}

StatusClientClosedRequest == 499

NoUsage == [prompt |-> 0, completion |-> 0, total |-> 0]

-----------------------------------------------------------------------------
(* One payload                                                             *)

\* extractContentCharsFromSSEEvent and estimateOutputTokensFromPayload: the
\* characters of text and of tool calls.
ContentChars(k) ==
  IF k \in {"text", "message", "message_without_usage"} THEN TextChars ELSE 0

EstimateTokens(chars) == (chars + 3) \div 4

\* parseUsageFromPayload: the usage block of the payload or of its message.
ParseUsageFromPayload(k) ==
  LET u(p, c) == [prompt |-> p, completion |-> c, total |-> p + c]
  IN CASE k = "message_start"         -> u(Prompt, Running)
       [] k = "message_delta"         -> u(0, Completion)
       [] k \in {"usage", "message"}  -> u(Prompt, Completion)
       [] k \in {"message_without_usage", "vectors"} -> u(Prompt, 0)
       [] OTHER                       -> NoUsage

SseEventHasOutput(k) == ContentChars(k) > 0 \/ k = "refusal"
IsTerminalSSEEvent(k) == k \in {"DONE", "message_stop"}

\* A stop or finish reason, or a top-level usage block.
IsFinalSSEEvent(k) == k \in {"message_delta", "finish", "usage"}

DetectErrorFromPayload(k) == k = "error"

-----------------------------------------------------------------------------
(* The body                                                                *)

DetectProviderError(body) ==
  \E i \in DOMAIN body.parts : DetectErrorFromPayload(body.parts[i])

LooksLikeJSONCompletion(k) ==
  k \in {"message", "message_without_usage", "vectors"}

\* Mutant: any event other than a heartbeat passes for output.
ClassifyAnyEvent(parts) ==
  IF \E i \in DOMAIN parts : parts[i] \notin {"DONE"} THEN "complete" ELSE "empty"

ClassifySSECompletion(parts) ==
  LET sawOutput   == \E i \in DOMAIN parts : SseEventHasOutput(parts[i])
      sawTerminal == \E i \in DOMAIN parts : IsFinalSSEEvent(parts[i]) \/ IsTerminalSSEEvent(parts[i])
  IN IF sawOutput THEN IF sawTerminal THEN "complete" ELSE "partial" ELSE "empty"

ClassifyCompletionBody(body) ==
  IF body.json
    THEN IF LooksLikeJSONCompletion(body.parts[1]) THEN "complete" ELSE "empty"
    ELSE ClassifySSECompletion(body.parts)

ShouldCountAsSuccess(status, body) ==
  /\ status \in 200..299
  /\ ~DetectProviderError(body)
  /\ ClassifyCompletionBody(body) = "complete"

\* Mutant: the first report wins.
ParseEventFirstReport(acc, k) ==
  LET u == ParseUsageFromPayload(k)
      over(old, new) == IF old # 0 THEN old ELSE new
  IN [acc EXCEPT !.chars = @ + ContentChars(k),
                 !.prompt = over(@, u.prompt),
                 !.completion = over(@, u.completion),
                 !.total = over(@, u.total)]

\* One event of parseUsageFromSSEBody: content is always summed; the counters
\* are overwritten by what the event reports, until a final event was seen, and
\* from then on by final events only.
ParseEvent(acc, k) ==
  LET u == ParseUsageFromPayload(k)
      final == IsFinalSSEEvent(k)
      over(old, new) == IF new # 0 THEN new ELSE old
      seen == [acc EXCEPT !.chars = @ + ContentChars(k)]
  IN IF acc.final /\ ~final THEN seen
     ELSE [seen EXCEPT !.prompt = over(@, u.prompt),
                       !.completion = over(@, u.completion),
                       !.total = over(@, u.total),
                       !.final = @ \/ final]

\* Before the first event.
NoEvents == [prompt |-> 0, completion |-> 0, total |-> 0, chars |-> 0, final |-> FALSE]

\* Without any reported output the content is estimated; without a reported
\* total it is the sum.
ParseUsageFromSSEBody(parts) ==
  LET upTo[n \in 0..Len(parts)] == IF n = 0 THEN NoEvents ELSE ParseEvent(upTo[n - 1], parts[n])
      acc == upTo[Len(parts)]
      out == IF acc.completion = 0 THEN EstimateTokens(acc.chars) ELSE acc.completion
  IN [prompt |-> acc.prompt, completion |-> out,
      total |-> IF acc.total = 0 THEN acc.prompt + out ELSE acc.total]

\* A JSON answer that reports no output but has content is estimated, too, and
\* its total raised to the sum.
ParseUsageFromBody(body) ==
  IF ~body.json THEN ParseUsageFromSSEBody(body.parts)
  ELSE LET k   == body.parts[1]
           u   == ParseUsageFromPayload(k)
           out == IF u.completion = 0 THEN EstimateTokens(ContentChars(k)) ELSE u.completion
       IN [prompt |-> u.prompt, completion |-> out,
           total |-> IF u.total < u.prompt + out THEN u.prompt + out ELSE u.total]

-----------------------------------------------------------------------------
(* Billing                                                                 *)

\* Mutant: every cancelled request is a disconnect.
SettlementStatusGone(gone, status, body) ==
  IF gone THEN StatusClientClosedRequest ELSE status

\* settlementStatus: a cancelled request whose body is not a whole completion
\* is booked as a disconnect.
SettlementStatus(gone, status, body) ==
  IF gone /\ ClassifyCompletionBody(body) # "complete"
    THEN StatusClientClosedRequest ELSE status

\* decideSettlementBilling.
DecideSettlementBilling(mode, success, status, total, started) ==
  LET disconnect == ~success /\ status = StatusClientClosedRequest
      withUsage  == disconnect /\ total > 0
  IN [charge |-> success \/ withUsage,
      count  |-> success \/ withUsage \/ (disconnect /\ started /\ mode = "unlimited")]

ShouldCountSettlementRequest(mode, status, body, started) ==
  DecideSettlementBilling(mode, ShouldCountAsSuccess(status, body), status,
                          ParseUsageFromBody(body).total, started).count

CreditBillingBuckets(tokens) == (tokens + Bucket - 1) \div Bucket

CalculateActualRequestCredits(tokens) == CreditBillingBuckets(tokens) * Price

\* Mutant: no floor of one token.
BilledWithoutFloor(u) == u.total

\* The tokens a charged request is billed for: never none.
BilledTokens(u) ==
  IF u.total > 0 THEN u.total
  ELSE IF u.prompt + u.completion > 0 THEN u.prompt + u.completion ELSE 1

ActualCredits(mode, charge, u) ==
  IF charge /\ mode \in {"credit_package", "unlimited"}
    THEN CalculateActualRequestCredits(BilledTokens(u)) ELSE 0

\* The error code of the ledger row, "" when it is a success.
LedgerErrorCode(status, body) ==
  IF status = StatusClientClosedRequest THEN "client_disconnected"
  ELSE IF status >= 400 THEN "http_error"
  ELSE IF DetectProviderError(body) THEN "upstream_error"
  ELSE CASE ClassifyCompletionBody(body) = "partial" -> "partial_upstream_response"
         [] ClassifyCompletionBody(body) = "empty"   -> "empty_upstream_response"
         [] OTHER                                    -> ""

\* recordUsage: the ledger row, which is also the settlement it returns.
UsageRow(mode, status, body, started) ==
  LET u == ParseUsageFromBody(body)
      code == LedgerErrorCode(status, body)
      d == DecideSettlementBilling(mode, code = "", status, u.total, started)
  IN [prompt |-> u.prompt, completion |-> u.completion, total |-> u.total,
      code |-> code, charge |-> d.charge, count |-> d.count,
      credits |-> ActualCredits(mode, d.charge, u)]
=============================================================================
