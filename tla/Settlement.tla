----------------------------- MODULE Settlement -----------------------------
(***************************************************************************)
(* One request from the upstream service's answer to the bill and to what  *)
(* the caller reads: the adapter's goroutine that reads the answer, the    *)
(* gateway's goroutine that consumes its events and settles, the handler   *)
(* that writes.  They are joined by unbuffered channels, and every send    *)
(* can also end by the request's context.                                  *)
(*                                                                         *)
(* Gateway.tla has the same goroutines over the store and forgets what     *)
(* they carry; here is what they carry: texts, reported usage, function    *)
(* calls, amounts.  The upstream service is external: it may send any of   *)
(* these frames in any order, and end at any point.                        *)
(*                                                                         *)
(* Four readers: "json" and "sse" of the OpenAI-compatible adapter,        *)
(* "direct" and "agent" (App Server) of the Codex adapter.                 *)
(***************************************************************************)
EXTENDS Pricing, ToolCall, FiniteSets

CONSTANTS
    Price,       \* the deployment's public price, in nano-units per million
    InputText,   \* the request's canonical input
    MaxOutput,   \* its max_output_tokens
    Budgets,     \* maximum charges of hard budgets, and NoBudget
    NoBudget,
    Chunks,      \* texts of one delta or message
    Calls,       \* calls the service may make, right and wrong ones
    Usages,      \* usages it may report
    MaxChunks,   \* bound on the deltas of an answer
    MaxItems     \* bound on the output items sent one by one

Text == [cjk : Nat, other : Nat]

ASSUME SettlementAssumption ==
    /\ Price \in [input : Nat, output : Nat]
    /\ InputText \in Text /\ Chunks \subseteq Text
    /\ MaxOutput \in Nat /\ MaxItems \in Nat
    /\ NoBudget \in Budgets /\ Budgets \ {NoBudget} \subseteq Int
    /\ Calls \subseteq Call
    /\ Usages \subseteq [input : Int \cup {NotReported}, output : Int \cup {NotReported}]

VARIABLES
    request,   \* how the request came: reader, streaming, functions, budget
    adapter,   \* the adapter's goroutine: reading, offering, closed
    offer,     \* the event it offers
    gathered,  \* what it has read and not offered yet: text, items, usage
    reported,  \* history: the last usage the service sent, or NoReport
    gate,      \* the gateway's goroutine: new, consuming, telling, closed
    output,    \* the deltas it has passed on
    outbox,    \* the events it has to send
    bill,      \* the settlement it has committed
    handler,   \* the handler: reading, done
    seen,      \* the events it has received
    cancelled  \* the request's context is done

adapterVars == <<adapter, offer, gathered>>
gateVars == <<gate, output, outbox, bill>>
vars == <<request, adapterVars, gateVars, handler, seen, cancelled, reported>>

-----------------------------------------------------------------------------
\* Texts, and output arrays reduced to the number of their items, their text and
\* their function calls; an item may have neither (reasoning).

Empty == [cjk |-> 0, other |-> 0]

Plus(s, t) == [cjk |-> s.cjk + t.cjk, other |-> s.other + t.other]

Array(length, text, calls) ==
    [present |-> TRUE, length |-> length, text |-> text, calls |-> calls]

Nothing == Array(0, Empty, <<>>)

NoArray == [Nothing EXCEPT !.present = FALSE]

Item == {Array(1, t, <<>>) : t \in Chunks \cup {Empty}}
            \cup {Array(1, Empty, <<c>>) : c \in Calls}

\* What the service may put in the output of its last event.
Arrays == {NoArray, Nothing} \cup Item
              \cup {Array(2, Empty, <<c, d>>) : c, d \in Calls}

Join(a, b) == Array(a.length + b.length, Plus(a.text, b.text), a.calls \o b.calls)

\* The JSON of an array: its brackets and its items.
EstimatedOutputText(array) ==
    IF array.present THEN [cjk |-> 0, other |-> 2 + 4 * array.length] ELSE Empty

Unreported == [input |-> NotReported, output |-> NotReported]

\* extractUsage and directInteger take a negative count for a missing one.
Extracted(usage) ==
    [d \in {"input", "output"} |->
        IF usage[d] # NotReported /\ usage[d] < 0 THEN NotReported ELSE usage[d]]

NoBill == [total |-> NoAmount]
NoReport == [sent |-> "nothing"]

NoOffer == [type |-> "none"]
Delta(text) == [type |-> "delta", text |-> text]
Failed == [type |-> "failed"]

Ungathered == [text |-> Empty, usage |-> Unreported, chunks |-> 0,
               items |-> [k \in 1..MaxItems |-> NoArray]]

Completed(response, array, text, usage) ==
    [type |-> "completed", response |-> response, array |-> array,
     text |-> text, usage |-> usage]

-----------------------------------------------------------------------------
\* Functions go to an adapter that forwards them; an App Server cannot.
Requests ==
    {r \in [reader : {"json", "sse", "direct", "agent"}, stream : BOOLEAN,
            functions : SUBSET FunctionNames,
            raw : {"absent"} \cup Modes \cup FunctionNames, budget : Budgets] :
        /\ r.reader = "json" => ~r.stream
        /\ r.reader = "sse" => r.stream
        /\ r.reader = "agent" => ~Enabled(r.functions)}

Choice == ParseChoice(request.raw, request.functions)

Init ==
    /\ request \in Requests
    /\ adapter = "closed" /\ offer = NoOffer /\ gathered = Ungathered
    /\ reported = NoReport
    /\ gate = "new" /\ output = Empty /\ outbox = <<>> /\ bill = NoBill
    /\ handler = "reading" /\ seen = <<>> /\ cancelled = FALSE

\* The gateway's context is done, and with it the adapter's.
ProviderCtxDone == cancelled \/ gate = "closed"

Affordable ==
    request.budget # NoBudget =>
        EvaluateHardBudget(Price, EstimateTextV1(InputText), MaxOutput, request.budget)

\* Refused by the handler (toolcall.Parse is one of its checks), by the hard
\* budget or by the upstream service; the caller reads an error.
Refuse ==
    /\ gate = "new" /\ gate' = "closed"
    /\ handler' = "done" /\ seen' = <<Failed>>
    /\ UNCHANGED <<request, adapterVars, output, outbox, bill, cancelled,
                   reported>>

Start ==
    /\ gate = "new" /\ Choice # "invalid" /\ Affordable
    /\ gate' = "consuming" /\ adapter' = "reading"
    /\ UNCHANGED <<request, offer, gathered, output, outbox, bill, handler, seen,
                   cancelled, reported>>

-----------------------------------------------------------------------------
\* The adapter reads the upstream service's answer.

Reading(readers) == adapter = "reading" /\ request.reader \in readers

\* Its last event; what it has gathered is no longer needed.
OfferLast(event) ==
    offer' = event /\ adapter' = "offering" /\ gathered' = Ungathered

\* Text deltas; those of the App Server are gathered for its final event.
ReadDelta(t) ==
    /\ Reading({"sse", "direct", "agent"})
    /\ gathered.chunks < MaxChunks
    /\ offer' = Delta(t) /\ adapter' = "offering"
    /\ gathered' = [gathered EXCEPT !.chunks = @ + 1,
           !.text = IF request.reader = "agent" THEN Plus(@, t) ELSE @]
    /\ UNCHANGED <<request, gateVars, handler, seen, cancelled, reported>>

\* response.output_item.done, at an index the service chooses; Nothing is null.
ReadItem(k, item) ==
    /\ Reading({"direct"})
    /\ gathered' = [gathered EXCEPT !.items[k] = item]
    /\ UNCHANGED <<request, adapter, offer, gateVars, handler, seen, cancelled,
                   reported>>

\* thread/tokenUsage/updated: the last one counts, whatever its sign.  It is
\* decoded into plain integers, so a count it leaves out is a zero reported.
ReadUsage(usage) ==
    LET decoded == [d \in {"input", "output"} |->
                       IF usage[d] = NotReported THEN 0 ELSE usage[d]]
    IN  /\ Reading({"agent"})
        /\ gathered' = [gathered EXCEPT !.usage = decoded] /\ reported' = usage
        /\ UNCHANGED <<request, adapter, offer, gateVars, handler, seen, cancelled>>

\* The response an OpenAI-compatible service ends with is passed on as it is.
ReadResponse(array, usage) ==
    /\ Reading({"json", "sse"})
    /\ OfferLast(Completed(TRUE, array, array.text, Extracted(usage)))
    /\ reported' = usage
    /\ UNCHANGED <<request, gateVars, handler, seen, cancelled>>

\* Codex may leave its output to the items, which replace an output without any;
\* it is passed on for functions only.
ReadDirectResponse(array, usage) ==
    LET items == FoldLeft(Join, Nothing, gathered.items)
        received == \E k \in 1..MaxItems : gathered.items[k] # NoArray
        compacted == IF array.length = 0 /\ received THEN items ELSE array
    IN  /\ Reading({"direct"})
        /\ OfferLast(Completed(Enabled(request.functions), compacted, compacted.text,
                               Extracted(usage)))
        /\ reported' = usage
        /\ UNCHANGED <<request, gateVars, handler, seen, cancelled>>

ReadTurnCompleted ==
    /\ Reading({"agent"})
    /\ OfferLast(Completed(FALSE, NoArray, gathered.text, gathered.usage))
    /\ UNCHANGED <<request, gateVars, handler, seen, cancelled, reported>>

\* An error event, a frame that does not decode, an item that is not allowed, a
\* read error, or the end of the answer before it was complete.
ReadFailure ==
    /\ Reading({"json", "sse", "direct", "agent"})
    /\ OfferLast(Failed)
    /\ UNCHANGED <<request, gateVars, handler, seen, cancelled, reported>>

\* Neither end of the unbuffered channel waits for the other once the context is
\* done: send gives up and the goroutine closes the channel.  The App Server was
\* killed by then, and its reader ends without a word.
GiveUpOffer ==
    /\ adapter = "offering" \/ Reading({"agent"})
    /\ ProviderCtxDone
    /\ adapter' = "closed"
    /\ UNCHANGED <<request, offer, gathered, gateVars, handler, seen, cancelled,
                   reported>>

-----------------------------------------------------------------------------
\* The gateway consumes an event.  After a delta the adapter reads on, after its
\* last event it closes the channel.

Consume(type) ==
    /\ adapter = "offering" /\ gate = "consuming" /\ offer.type = type
    /\ adapter' = IF type = "delta" THEN "reading" ELSE "closed"
    /\ UNCHANGED <<request, offer, gathered, handler, seen, cancelled, reported>>

\* What is left to send; with nothing to send consume returns.
Send(events) == outbox' = events /\ gate' = IF events = <<>> THEN "closed" ELSE "telling"

ReceiveDelta ==
    /\ Consume("delta")
    /\ output' = Plus(output, offer.text) /\ Send(<<offer>>)
    /\ UNCHANGED bill

ReceiveFailure ==
    /\ Consume("failed")
    /\ Send(<<Failed>>)
    /\ UNCHANGED <<output, bill>>

\* A function request needs a response that honours its functions.
Honoured(final) ==
    Enabled(request.functions) =>
        final.response /\ ValidateResponse(request.functions, Choice, final.array.calls)

OutputText(final) == IF final.text = Empty THEN output ELSE final.text

\* The text an unreported output is estimated by.
UsageOutput(final) ==
    IF OutputText(final) = Empty /\ final.response
    THEN EstimatedOutputText(final.array) ELSE OutputText(final)

\* ResolveUsage, Calculate and newBilling.
BillFor(final) ==
    LET input == Resolve(final.usage.input, InputText)
        out == Resolve(final.usage.output, UsageOutput(final))
        charge == IF NoAmount \in {input, out} THEN NoBill ELSE Calculate(Price, input, out)
    IN  IF charge.total = NoAmount THEN NoBill
        ELSE [inputTokens |-> input, outputTokens |-> out, total |-> charge.total,
              exceeded |-> request.budget # NoBudget /\ charge.total > request.budget]

\* publicResponse: the upstream output, or the text when there is none.
PublicResponse(final) ==
    IF final.response /\ final.array.present THEN final.array
    ELSE Array(1, OutputText(final), <<>>)

RunCompleted(final) ==
    [type |-> "run_completed", array |-> PublicResponse(final), bill |-> BillFor(final)]

BillingCompleted(final) == [type |-> "billing_completed", bill |-> BillFor(final)]

ReceiveDishonoured ==
    /\ Consume("completed") /\ ~Honoured(offer)
    /\ Send(<<Failed>>)
    /\ UNCHANGED <<output, bill>>

\* A negative count, or a charge that does not fit: consume returns.
ReceiveUnpriceable ==
    /\ Consume("completed") /\ Honoured(offer) /\ BillFor(offer) = NoBill
    /\ Send(<<>>)
    /\ UNCHANGED <<output, bill>>

\* The store commits the bill, then the caller is told.
Settle ==
    /\ Consume("completed") /\ Honoured(offer) /\ BillFor(offer) # NoBill
    /\ bill' = BillFor(offer)
    /\ Send(<<BillingCompleted(offer), RunCompleted(offer)>>)
    /\ UNCHANGED output

\* The store fails.
SettleFails ==
    /\ Consume("completed") /\ Honoured(offer) /\ BillFor(offer) # NoBill
    /\ Send(<<Failed>>)
    /\ UNCHANGED <<output, bill>>

\* The channel is closed without a last event, or the context is done.
StopConsuming ==
    /\ gate = "consuming" /\ (adapter = "closed" \/ cancelled)
    /\ gate' = "closed"
    /\ UNCHANGED <<request, adapterVars, output, outbox, bill, handler, seen,
                   cancelled, reported>>

-----------------------------------------------------------------------------
\* The handler.

Tell ==
    /\ gate = "telling" /\ handler = "reading"
    /\ seen' = Append(seen, Head(outbox)) /\ outbox' = Tail(outbox)
    /\ gate' = CASE outbox' # <<>> -> "telling"
                 [] Head(outbox).type = "delta" -> "consuming"
                 [] OTHER -> "closed"
    /\ UNCHANGED <<request, adapterVars, output, bill, handler, cancelled,
                   reported>>

GiveUpTelling ==
    /\ gate = "telling" /\ cancelled
    /\ gate' = "closed" /\ outbox' = <<>>
    /\ UNCHANGED <<request, adapterVars, output, bill, handler, seen, cancelled,
                   reported>>

\* writeResponse reads until the channel is closed; writeResponseStream returns
\* earlier when the caller is gone.
HandlerEnds ==
    /\ handler = "reading"
    /\ gate = "closed" \/ (gate # "new" /\ request.stream /\ cancelled)
    /\ handler' = "done"
    /\ UNCHANGED <<request, adapterVars, gateVars, seen, cancelled, reported>>

Cancel ==
    /\ ~cancelled /\ cancelled' = TRUE
    /\ UNCHANGED <<request, adapterVars, gateVars, handler, seen, reported>>

\* Nothing is left to do.
Ended ==
    /\ adapter = "closed" /\ gate = "closed" /\ handler = "done"
    /\ UNCHANGED vars

Next ==
    \/ Refuse \/ Start
    \/ \E t \in Chunks : ReadDelta(t)
    \/ \E k \in 1..MaxItems, item \in Item \cup {Nothing} : ReadItem(k, item)
    \/ \E usage \in Usages : ReadUsage(usage)
    \/ \E array \in Arrays, usage \in Usages :
           ReadResponse(array, usage) \/ ReadDirectResponse(array, usage)
    \/ ReadTurnCompleted \/ ReadFailure \/ GiveUpOffer
    \/ ReceiveDelta \/ ReceiveFailure \/ ReceiveDishonoured \/ ReceiveUnpriceable
    \/ Settle \/ SettleFails \/ StopConsuming
    \/ Tell \/ GiveUpTelling \/ HandlerEnds \/ Cancel \/ Ended

Spec == Init /\ [][Next]_vars

-----------------------------------------------------------------------------
\* What the caller has read: the events of a stream as they come; otherwise one
\* answer at the end, the failure if there is one.
Received(type) == {k \in DOMAIN seen : seen[k].type = type}

Answer ==
    IF Received("failed") = {} /\ Received("run_completed") # {}
    THEN <<seen[Max(Received("run_completed"))]>>
    ELSE <<Failed>>

Shown == IF request.stream THEN seen ELSE IF handler = "done" THEN Answer ELSE <<>>

TextOf(events) ==
    FoldLeft(LAMBDA t, e : IF e.type = "delta" THEN Plus(t, e.text) ELSE t, Empty, events)

Streamed == TextOf(seen)

-----------------------------------------------------------------------------
\* A request has one outcome and it comes last, whatever the service sends after
\* or instead of its final event; it is the bill on record, announced before;
\* and a completed function request has at most one call, of a function it
\* declared, which is the one it chose.
Outcomes == {k \in DOMAIN Shown : Shown[k].type \in {"failed", "run_completed"}}

CallerSeesOneVerifiedOutcome ==
    \A k \in Outcomes :
        /\ k = Len(Shown)
        /\ Shown[k].type = "run_completed" =>
              LET calls == Shown[k].array.calls
                  named == {calls[j].name : j \in DOMAIN calls}
              IN  /\ Shown[k].bill = bill
                  /\ request.stream => /\ k > 1
                                       /\ Shown[k - 1].type = "billing_completed"
                                       /\ Shown[k - 1].bill = bill
                  /\ Enabled(request.functions) =>
                        /\ Len(calls) <= 1 /\ named \subseteq request.functions
                        /\ request.raw = "none" => named = {}
                        /\ request.raw = "required" => named # {}
                        /\ request.raw \in FunctionNames => named = {request.raw}

\* A bill is made of what the service reported (reported, not what a reader made
\* of it) and, where it reported nothing, of the text the caller is sent: the
\* answer's, or the deltas when the answer has none, or the calls.  One case is
\* excepted: a count left out of an App Server's usage message is billed as zero,
\* see MissingCountIsEstimated.  The total is right to a nano-unit, and an answer
\* within the bounds of an accepted hard budget stays within the budget.
OutputEstimate(final) ==
    LET served == PublicResponse(final)
    IN  EstimateTextV1(IF served.text # Empty THEN served.text
                       ELSE IF Streamed # Empty THEN Streamed
                       ELSE IF final.response THEN EstimatedOutputText(final.array)
                       ELSE Empty)

Counted(d) ==
    reported # NoReport /\ reported[d] # NotReported /\ reported[d] >= 0

LeftOut(d) ==
    reported # NoReport /\ reported[d] = NotReported /\ request.reader = "agent"

BilledCount(d, estimate) ==
    IF Counted(d) THEN reported[d] ELSE IF LeftOut(d) THEN 0 ELSE estimate

Billed(final) ==
    /\ bill.inputTokens = BilledCount("input", EstimateTextV1(InputText))
    /\ bill.outputTokens = BilledCount("output", OutputEstimate(final))

BillFitsTheAnswer ==
    bill # NoBill =>
        LET exact == bill.inputTokens * Price.input + bill.outputTokens * Price.output
            error == bill.total * PerMillion - exact
        IN  /\ offer.type = "completed" /\ Billed(offer)
            /\ bill.total \in 0..MaxInt64
            /\ -PerMillion < error /\ error <= PerMillion
            /\ request.budget # NoBudget =>
                  /\ bill.exceeded <=> bill.total > request.budget
                  /\ /\ bill.inputTokens <= EstimateTextV1(InputText)
                     /\ bill.outputTokens <= MaxOutput
                     => ~bill.exceeded

\* docs/stage-2-codex.md:122 and 214: a dimension the service left out is
\* estimated, filling it in with a zero is forbidden.
MissingCountIsEstimated ==
    bill # NoBill /\ reported # NoReport =>
        /\ reported.input = NotReported =>
              bill.inputTokens = EstimateTextV1(InputText)
        /\ reported.output = NotReported =>
              bill.outputTokens = OutputEstimate(offer)
=============================================================================
