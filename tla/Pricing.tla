------------------------------ MODULE Pricing ------------------------------
(***************************************************************************)
(* internal/pricing: what a usage costs.  Amounts are nano-units in 64     *)
(* bits, products are computed without a bound and refused when they do    *)
(* not fit, so an amount is exact or absent, never wrapped.                *)
(*                                                                         *)
(* MaxInt64 and PerMillion stand for 2^63 - 1 and 1 000 000.  A text is    *)
(* what the estimator sees of it: its CJK characters and the others.       *)
(***************************************************************************)
EXTENDS Integers

CONSTANTS
    MaxInt64, PerMillion,
    NotReported    \* a count the provider left out

ASSUME PricingAssumption ==
    /\ MaxInt64 \in Nat
    /\ PerMillion \in Nat \ {0}
    /\ NotReported \notin Int

\* The result of an operation that returned an error.
NoAmount == -1

-----------------------------------------------------------------------------
\* EstimateTextV1, with its ceilDiv: four other characters make a token.
EstimateTextV1(text) == text.cjk + (text.other + 3) \div 4

\* One dimension of ResolveUsage: a reported count, or the estimate of a text.
\* A negative count is an error.
Resolve(reported, text) ==
    IF reported = NotReported THEN EstimateTextV1(text)
    ELSE IF reported < 0 THEN NoAmount ELSE reported

\* Rounded half up to the nearest nano-unit.
MultiplyTokens(tokens, rate) ==
    LET product == (tokens * rate + PerMillion \div 2) \div PerMillion
    IN  IF product <= MaxInt64 THEN product ELSE NoAmount

\* Decimal.Add
Add(a, b) == IF a > MaxInt64 - b THEN NoAmount ELSE a + b

\* Calculate.  Its total is NoAmount when any part of it fails.
Calculate(price, inputTokens, outputTokens) ==
    LET input == MultiplyTokens(inputTokens, price.input)
        output == MultiplyTokens(outputTokens, price.output)
    IN  [input |-> input, output |-> output,
         total |-> IF NoAmount \in {input, output} THEN NoAmount
                   ELSE Add(input, output)]

\* Mutant: the budget forgets the input.
EvaluateHardBudget_OutputOnly(price, inputTokens, maxOutputTokens, maxCharge) ==
    LET maximum == Calculate(price, 0, maxOutputTokens).total
    IN  maximum # NoAmount /\ maximum <= maxCharge

\* Whether a request may start under a hard budget in the price's currency.
EvaluateHardBudget(price, inputTokens, maxOutputTokens, maxCharge) ==
    LET maximum == Calculate(price, inputTokens, maxOutputTokens).total
    IN  maximum # NoAmount /\ maximum <= maxCharge
=============================================================================
