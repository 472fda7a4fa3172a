------------------------------- MODULE Pricing -------------------------------
(***************************************************************************)
(* What a call may cost and what it did cost: the limits put on a budgeted *)
(* call before it is sent (packages/quota/src/group-budget.ts), the usage  *)
(* that the suppliers report (packages/gateway-core/src/protocol.ts and    *)
(* stream-usage.ts) and the price of it (cost.ts).                         *)
(*                                                                         *)
(* Prices are numbers of units of 10^-8 CNY for a million tokens, amounts  *)
(* of money numbers of these units; a division is exact before it is       *)
(* rounded.                                                                *)
(***************************************************************************)
EXTENDS Integers

Million == 1000000
Protocols == {"openai_responses", "openai_chat", "anthropic_messages"}

\* PriceSnapshot, ProcurementTokenCounts.
Price == [input: Nat, output: Nat, cached: Nat, reasoning: Nat]
Tokens == [input: Nat, output: Nat, cached: Nat, reasoning: Nat]

Greater(m, n) == IF m >= n THEN m ELSE n
Lesser(m, n) == IF m <= n THEN m ELSE n

\* toFixed(8), and the same with ROUND_CEIL.
Nearest(n) == (2 * n + Million) \div (2 * Million)
Up(n) == (n + Million - 1) \div Million

-----------------------------------------------------------------------------
(* Before the call.                                                        *)

\* The cap on the output that the client gives, by the field it is given in;
\* 0 stands for a field that is absent.
CapFields == {"max_tokens", "max_completion_tokens", "max_output_tokens"}

\* The field in which the protocol takes the cap.
CapField(protocol, caps) ==
  CASE protocol = "openai_responses" -> "max_output_tokens"
    [] protocol = "openai_chat" /\ caps["max_completion_tokens"] # 0 -> "max_completion_tokens"
    [] OTHER -> "max_tokens"

\* `request` says of the body whether it is well formed, whether all of it is
\* text that has a price, and how many bytes it has.  The input is bounded by
\* its bytes and an envelope.
Envelope == 256
DefaultOutput == 4096
InputTokens(request) == request.bytes + Envelope

Given(caps) == {field \in CapFields : caps[field] # 0}

OutputTokens(request, context) ==
  LET caps == request.caps IN
  IF Given(caps) # {} THEN caps[CHOOSE field \in Given(caps) : TRUE]
  ELSE Lesser(DefaultOutput, context - InputTokens(request))

\* prepareBudgetRequest refuses the request: it is malformed or has no price,
\* the caps disagree or are not for this protocol, or it does not fit.
Refused(protocol, request, context) ==
  LET caps == request.caps
      output == OutputTokens(request, context)
  IN \/ ~request.valid \/ ~request.priced \/ context <= 0
     \/ \E f, g \in Given(caps) : caps[f] # caps[g]
     \/ \E f \in Given(caps) :
          IF protocol = "openai_chat" THEN f = "max_output_tokens"
          ELSE f # CapField(protocol, caps)
     \/ output <= 0 \/ InputTokens(request) + output > context

\* estimateBudgetCost for one price: the dearer rate on either side.
Bound(inputTokens, outputTokens, price) ==
  inputTokens * Greater(price.input, price.cached)
    + outputTokens * Greater(price.output, price.reasoning)

\* Its maximum over the prices of the routes, which are not empty.
EstimateBudgetCost(inputTokens, outputTokens, prices) ==
  LET bounds == {Up(Bound(inputTokens, outputTokens, p)) : p \in prices}
  IN CHOOSE n \in bounds : \A m \in bounds : m <= n

-----------------------------------------------------------------------------
(* After the call.                                                         *)

NoUsage == [input |-> 0, output |-> 0, cached |-> 0, reasoning |-> 0,
            unpriced |-> 0, source |-> "estimated"]

\* normalizeUsage: the cached tokens are a part of the input, and are added
\* to it for the supplier that counts them apart.
NormalizeUsage(report) ==
  IF ~report.present THEN NoUsage
  ELSE [input |-> report.input + (IF report.apart THEN report.cached ELSE 0),
        output |-> report.output, cached |-> report.cached,
        reasoning |-> report.reasoning, unpriced |-> report.creation,
        source |-> "upstream"]

\* push: the greatest of each count over the events of a stream.
Collect(collected, report) ==
  LET usage == NormalizeUsage(report)
      Most(f) == Greater(collected[f], usage[f])
  IN [input |-> Most("input"), output |-> Most("output"),
      cached |-> Most("cached"), reasoning |-> Most("reasoning"),
      unpriced |-> Most("unpriced"),
      source |-> IF "upstream" \in {collected.source, usage.source}
                 THEN "upstream" ELSE "estimated"]

\* usage: without a report, four bytes are taken for a token.
StreamUsage(collected, estimatedInput, bytes) ==
  IF collected.source = "upstream" THEN collected
  ELSE [NoUsage EXCEPT !.input = Greater(1, estimatedInput),
                       !.output = Greater(1, (bytes + 3) \div 4)]

\* calculateCost: tokens that are cached or reasoned are not paid for twice.
Charge(tokens, price) ==
  Greater(0, tokens.input - tokens.cached) * price.input
    + Greater(0, tokens.output - tokens.reasoning) * price.output
    + tokens.cached * price.cached
    + tokens.reasoning * price.reasoning

CalculateCost(tokens, price) == Nearest(Charge(tokens, price))

\* estimateProcurementCost: the parts of a charge, each rounded, and their sum,
\* rounded once.
EstimateProcurementCost(tokens, price) ==
  [input |-> Nearest(Greater(0, tokens.input - tokens.cached) * price.input),
   output |-> Nearest(Greater(0, tokens.output - tokens.reasoning) * price.output),
   cached |-> Nearest(tokens.cached * price.cached),
   reasoning |-> Nearest(tokens.reasoning * price.reasoning),
   total |-> Nearest(Charge(tokens, price))]
===============================================================================
