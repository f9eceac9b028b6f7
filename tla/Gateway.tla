------------------------------ MODULE Gateway ------------------------------
(***************************************************************************)
(* The request path of internal/gateway/gateway.go over the run store.     *)
(* Every request is a goroutine of its own: Start reserves a run, calls    *)
(* the provider adapter and marks the run running; consume then relays the *)
(* adapter's events and settles the run.  pc is where a request stands     *)
(* between two calls that another request, the client or a crash can       *)
(* observe.  A request mints its own run id, so a request and the run it   *)
(* may create share one identifier.                                        *)
(*                                                                         *)
(* Channels are unbuffered: a provider event is received, and a gateway    *)
(* event handed to the HTTP handler, in one step.  Both selects also watch *)
(* the request's context; when both cases are ready Go picks either.  The  *)
(* adapter is external: Start may take for ever and the goroutine behind   *)
(* its channel may send anything, but stops once its context is done.      *)
(***************************************************************************)
EXTENDS RunStore

CONSTANTS
    MaxFaults,    \* bound on store calls that fail for reasons of their own
    MaxRestarts   \* bound on crashes of the process

ASSUME BoundAssumption == MaxFaults \in Nat /\ MaxRestarts \in Nat

VARIABLES
    pc,         \* where each request stands
    ask,        \* its client, key and fingerprint, and midnight as it knows it
    cancelled,  \* requests whose context is done
    provider,   \* the adapter's goroutine for each run: off, live or ended
    called,     \* runs whose request reached the upstream service
    bill,       \* settlement computed or restored for each request
    source,     \* the run that settlement belongs to
    told,       \* the last thing handed to the HTTP handler
    faults, restarts

gatewayVars ==
    <<pc, ask, cancelled, provider, called, bill, source, told, faults, restarts>>

vars == <<storeVars, gatewayVars>>

NoAsk == [client |-> "none"]

Ask == [client : Clients, key : Keys \cup {NoKey}, fingerprint : Fingerprints,
        dayStart : Nat]

PC == {"idle", "reserving", "replaying", "starting", "startFailed", "marking",
       "markingFailed", "select", "sendDelta", "abandoning", "rejecting",
       "settling", "settleFailed", "sendFailed", "sendBilling",
       "sendCompleted", "done"}

TypeOK ==
    /\ StoreTypeOK
    /\ pc \in [RunIds -> PC]
    /\ ask \in [RunIds -> Ask \cup {NoAsk}]
    /\ \A q \in RunIds : pc[q] \notin {"idle", "done"} => ask[q] \in Ask
    /\ cancelled \subseteq RunIds
    /\ provider \in [RunIds -> {"off", "live", "ended"}]
    /\ called \subseteq RunIds
    /\ bill \in [RunIds -> Charges \cup {NoCharge}]
    /\ source \in [RunIds -> RunIds \cup {NoRun}]
    /\ told \in [RunIds -> {"nothing", "refused", "failed", "incomplete",
                            "billing", "completed"}]
    /\ faults \in 0..MaxFaults
    /\ restarts \in 0..MaxRestarts

Init ==
    /\ StoreInit
    /\ pc = [q \in RunIds |-> "idle"]
    /\ ask = [q \in RunIds |-> NoAsk]
    /\ cancelled = {}
    /\ provider = [q \in RunIds |-> "off"]
    /\ called = {}
    /\ bill = [q \in RunIds |-> NoCharge]
    /\ source = [q \in RunIds |-> NoRun]
    /\ told = [q \in RunIds |-> "nothing"]
    /\ faults = 0
    /\ restarts = 0

-----------------------------------------------------------------------------
\* Building blocks of the steps.

Goto(q, from, to) == pc[q] = from /\ pc' = [pc EXCEPT ![q] = to]

Tell(q, what) == told' = [told EXCEPT ![q] = what]

CtxDone(q) == q \in cancelled

\* Mutants: the adapter runs under a context of its own; the derived context is
\* not cancelled when Start or consume returns.
ProviderCtxDone_Detached(q) == FALSE

ProviderCtxDone_NotCancelled(q) == CtxDone(q)

\* The adapter runs under a context derived from the request's, which consume
\* and the error paths of Start cancel when they return.
ProviderCtxDone(q) == CtxDone(q) \/ pc[q] \in {"startFailed", "markingFailed", "done"}

\* A store call that fails of itself: I/O error, lock or its own timeout.
Fault == faults < MaxFaults /\ faults' = faults + 1

NoFault == UNCHANGED faults

\* A call made under the request's context also fails once that is done.
FailsUnder(q) == (CtxDone(q) /\ NoFault) \/ Fault

\* markFailed runs under a context of its own and its error is dropped.
TryMarkFailed(q, settlement) ==
    \/ MarkFailed(q, settlement) /\ NoFault
    \/ UNCHANGED storeVars /\ (Fault \/ (~Open(q) /\ NoFault))

-----------------------------------------------------------------------------
\* Start.

\* Unknown or forbidden model, unsupported option, budget: nothing is stored.
Refuse(q) ==
    /\ Goto(q, "idle", "done")
    /\ Tell(q, "refused")
    /\ UNCHANGED <<storeVars, ask, cancelled, provider, called, bill, source,
                   faults, restarts>>

\* Mutant: midnight is not passed on.
Arrive_WithoutMidnight(q, c, k, f) ==
    /\ Goto(q, "idle", "reserving")
    /\ ask' = [ask EXCEPT ![q] = [client |-> c, key |-> k, fingerprint |-> f]]
    /\ UNCHANGED <<storeVars, cancelled, provider, called, bill, source, told,
                   faults, restarts>>

Arrive(q, c, k, f) ==
    /\ Goto(q, "idle", "reserving")
    /\ ask' = [ask EXCEPT ![q] = [client |-> c, key |-> k, fingerprint |-> f,
                                  dayStart |-> DayStart(now)]]
    /\ UNCHANGED <<storeVars, cancelled, provider, called, bill, source, told,
                   faults, restarts>>

\* The client hangs up, at any moment of the request.
Cancel(q) ==
    /\ pc[q] \notin {"idle", "done"}
    /\ q \notin cancelled
    /\ cancelled' = cancelled \cup {q}
    /\ UNCHANGED <<storeVars, pc, ask, provider, called, bill, source, told,
                   faults, restarts>>

ReserveCreates(q) ==
    /\ ~CtxDone(q)
    /\ Goto(q, "reserving", "starting")
    /\ Reserve(q, ask[q].client, ask[q].key, ask[q].fingerprint, ask[q].dayStart)
    /\ UNCHANGED <<ask, cancelled, provider, called, bill, source, told,
                   faults, restarts>>

Existing(q) == keys[<<ask[q].client, ask[q].key>>]

Replayable(q) ==
    /\ runs[Existing(q)].fingerprint = ask[q].fingerprint
    /\ Completed(Existing(q))

\* The key's run completed: its stored response and bill are sent again.
ReserveFindsCompleted(q) ==
    /\ ~CtxDone(q)
    /\ Goto(q, "reserving", "replaying")
    /\ HasRun(ask[q].client, ask[q].key) /\ Replayable(q)
    /\ bill' = [bill EXCEPT ![q] = runs[Existing(q)].charge]
    /\ source' = [source EXCEPT ![q] = Existing(q)]
    /\ UNCHANGED <<storeVars, ask, cancelled, provider, called, told, faults,
                   restarts>>

\* Both stored events sit in a buffered channel that is already closed.
Replay(q) ==
    /\ Goto(q, "replaying", "done")
    /\ Tell(q, "completed")
    /\ UNCHANGED <<storeVars, ask, cancelled, provider, called, bill, source,
                   faults, restarts>>

\* Mutant: the quota is checked before the key is looked up.
ReserveRefuses_QuotaFirst(q) ==
    /\ Goto(q, "reserving", "done")
    /\ LET c == ask[q].client
           conflict == HasRun(c, ask[q].key) /\ ~Replayable(q)
           usedUp == QuotaExhausted(c, ask[q].dayStart)
       IN FailsUnder(q) \/ ((conflict \/ usedUp) /\ NoFault)
    /\ Tell(q, "refused")
    /\ UNCHANGED <<storeVars, ask, cancelled, provider, called, bill, source,
                   restarts>>

\* 409 for another body or an unfinished run, 402 for the quota, 500 when the
\* store fails: the request is refused and nothing is stored.
ReserveRefuses(q) ==
    /\ Goto(q, "reserving", "done")
    /\ LET c == ask[q].client
           k == ask[q].key
           conflict == HasRun(c, k) /\ ~Replayable(q)
           usedUp == ~HasRun(c, k) /\ QuotaExhausted(c, ask[q].dayStart)
       IN FailsUnder(q) \/ ((conflict \/ usedUp) /\ NoFault)
    /\ Tell(q, "refused")
    /\ UNCHANGED <<storeVars, ask, cancelled, provider, called, bill, source,
                   restarts>>

AdapterStarts(q) ==
    /\ Goto(q, "starting", "marking")
    /\ provider' = [provider EXCEPT ![q] = "live"]
    /\ called' = called \cup {q}
    /\ UNCHANGED <<storeVars, ask, cancelled, bill, source, told, faults,
                   restarts>>

\* The adapter gives up before (no slot, no worker, retired) or after
\* (HTTP error, protocol error) it reached the upstream service.
AdapterRefuses(q, reached) ==
    /\ Goto(q, "starting", "startFailed")
    /\ called' = IF reached THEN called \cup {q} ELSE called
    /\ UNCHANGED <<storeVars, ask, cancelled, provider, bill, source, told,
                   faults, restarts>>

\* This MarkFailed runs under the request's context.
MarkStartFailed(q) ==
    /\ Goto(q, "startFailed", "done")
    /\ \/ ~CtxDone(q) /\ TryMarkFailed(q, "unconfirmed")
       \/ CtxDone(q) /\ UNCHANGED <<storeVars, faults>>
    /\ Tell(q, "refused")
    /\ UNCHANGED <<ask, cancelled, provider, called, bill, source, restarts>>

MarkRunningSucceeds(q) ==
    /\ ~CtxDone(q)
    /\ Goto(q, "marking", "select")
    /\ MarkRunning(q)
    /\ UNCHANGED <<ask, cancelled, provider, called, bill, source, told,
                   faults, restarts>>

MarkRunningFails(q) ==
    /\ Goto(q, "marking", "markingFailed")
    /\ FailsUnder(q)
    /\ UNCHANGED <<storeVars, ask, cancelled, provider, called, bill, source,
                   told, restarts>>

MarkNeverRan(q) ==
    /\ Goto(q, "markingFailed", "done")
    /\ TryMarkFailed(q, "failed")
    /\ Tell(q, "refused")
    /\ UNCHANGED <<ask, cancelled, provider, called, bill, source, restarts>>

-----------------------------------------------------------------------------
\* consume: the select over the context and the adapter's channel.

SelectCancelled(q) ==
    /\ CtxDone(q)
    /\ Goto(q, "select", "abandoning")
    /\ UNCHANGED <<storeVars, ask, cancelled, provider, called, bill, source,
                   told, faults, restarts>>

\* Mutant: the return after the mark is missing.
MarkCancelled_NoReturn(q) ==
    /\ Goto(q, "abandoning", "select")
    /\ TryMarkFailed(q, "unconfirmed")
    /\ UNCHANGED <<ask, cancelled, provider, called, bill, source, told,
                   restarts>>

MarkCancelled(q) ==
    /\ Goto(q, "abandoning", "done")
    /\ TryMarkFailed(q, "unconfirmed")
    /\ Tell(q, "incomplete")
    /\ UNCHANGED <<ask, cancelled, provider, called, bill, source, restarts>>

\* The channel is closed: consume returns and marks nothing.
ReceiveClosed(q) ==
    /\ provider[q] = "ended"
    /\ Goto(q, "select", "done")
    /\ Tell(q, "incomplete")
    /\ UNCHANGED <<storeVars, ask, cancelled, provider, called, bill, source,
                   faults, restarts>>

ReceiveDelta(q) ==
    /\ provider[q] = "live"
    /\ Goto(q, "select", "sendDelta")
    /\ UNCHANGED <<storeVars, ask, cancelled, provider, called, bill, source,
                   told, faults, restarts>>

SendDelta(q) ==
    /\ Goto(q, "sendDelta", "select")
    /\ UNCHANGED <<storeVars, ask, cancelled, provider, called, bill, source,
                   told, faults, restarts>>

\* send gives up on a done context: consume returns and marks nothing.
DropDelta(q) ==
    /\ CtxDone(q)
    /\ Goto(q, "sendDelta", "done")
    /\ Tell(q, "incomplete")
    /\ UNCHANGED <<storeVars, ask, cancelled, provider, called, bill, source,
                   faults, restarts>>

\* The adapter's last event; it closes its channel after it.
ReceiveLast(q, to) ==
    /\ provider[q] = "live"
    /\ Goto(q, "select", to)
    /\ provider' = [provider EXCEPT ![q] = "ended"]

\* A completion whose usage is negative or whose charge overflows: consume
\* returns and marks nothing.
ReceiveUnpriceable(q) ==
    /\ ReceiveLast(q, "done")
    /\ Tell(q, "incomplete")
    /\ UNCHANGED <<storeVars, ask, cancelled, called, bill, source, faults,
                   restarts>>

\* A failure event, or a completion whose tool call does not validate.
ReceiveFailure(q) ==
    /\ ReceiveLast(q, "rejecting")
    /\ UNCHANGED <<storeVars, ask, cancelled, called, bill, source, told,
                   faults, restarts>>

\* Mutant: the bill is announced before it is committed.
ReceiveCompletion_TellsFirst(q, charge) ==
    /\ ReceiveLast(q, "sendBilling")
    /\ bill' = [bill EXCEPT ![q] = charge]
    /\ source' = [source EXCEPT ![q] = q]
    /\ UNCHANGED <<storeVars, ask, cancelled, called, told, faults, restarts>>

ReceiveCompletion(q, charge) ==
    /\ ReceiveLast(q, "settling")
    /\ bill' = [bill EXCEPT ![q] = charge]
    /\ source' = [source EXCEPT ![q] = q]
    /\ UNCHANGED <<storeVars, ask, cancelled, called, told, faults, restarts>>

\* Mutants: the error of Complete is ignored; Complete reports an error after
\* its commit.
Settle_IgnoresError(q) ==
    /\ Goto(q, "settling", "sendBilling")
    /\ (Complete(q, bill[q]) /\ NoFault) \/ (UNCHANGED storeVars /\ Fault)
    /\ UNCHANGED <<ask, cancelled, provider, called, bill, source, told,
                   restarts>>

Settle_FailsAfterCommit(q) ==
    /\ Complete(q, bill[q])
    /\ \/ Goto(q, "settling", "sendBilling") /\ NoFault
       \/ Goto(q, "settling", "settleFailed") /\ Fault
    /\ UNCHANGED <<ask, cancelled, provider, called, bill, source, told,
                   restarts>>

\* Complete runs under a context of its own.
Settle(q) ==
    /\ \/ Goto(q, "settling", "sendBilling") /\ Complete(q, bill[q]) /\ NoFault
       \/ /\ Goto(q, "settling", "settleFailed")
          /\ UNCHANGED storeVars
          /\ Fault \/ (~Open(q) /\ NoFault)
    /\ UNCHANGED <<ask, cancelled, provider, called, bill, source, told,
                   restarts>>

\* Mutant: a failed run is reported and not marked.
MarkRejected_OnlyTells(q) ==
    /\ Goto(q, "rejecting", "sendFailed")
    /\ UNCHANGED <<storeVars, ask, cancelled, provider, called, bill, source,
                   told, faults, restarts>>

MarkRejected(q) ==
    /\ Goto(q, "rejecting", "sendFailed")
    /\ TryMarkFailed(q, "unconfirmed")
    /\ UNCHANGED <<ask, cancelled, provider, called, bill, source, told,
                   restarts>>

MarkSettleFailed(q) ==
    /\ Goto(q, "settleFailed", "sendFailed")
    /\ TryMarkFailed(q, "failed")
    /\ UNCHANGED <<ask, cancelled, provider, called, bill, source, told,
                   restarts>>

\* The last events.  A done context may drop each of them.
SendLast(q, from, what, to) ==
    /\ \/ Goto(q, from, to) /\ Tell(q, what)
       \/ CtxDone(q) /\ Goto(q, from, "done") /\ UNCHANGED told
    /\ UNCHANGED <<storeVars, ask, cancelled, provider, called, bill, source,
                   faults, restarts>>

SendFailed(q) == SendLast(q, "sendFailed", "failed", "done")

SendBilling(q) == SendLast(q, "sendBilling", "billing", "sendCompleted")

SendCompleted(q) == SendLast(q, "sendCompleted", "completed", "done")

-----------------------------------------------------------------------------
\* The adapter's goroutine leaves when its context is done.
ProviderStops(q) ==
    /\ provider[q] = "live"
    /\ ProviderCtxDone(q)
    /\ provider' = [provider EXCEPT ![q] = "ended"]
    /\ UNCHANGED <<storeVars, pc, ask, cancelled, called, bill, source, told,
                   faults, restarts>>

\* The process dies and comes back: requests in flight are gone, the store
\* recovers before anything is served.
Restart ==
    /\ restarts < MaxRestarts
    /\ restarts' = restarts + 1
    /\ RecoverIncompleteRuns
    /\ pc' = [q \in RunIds |-> IF pc[q] = "idle" THEN "idle" ELSE "done"]
    /\ provider' = [q \in RunIds |-> IF provider[q] = "live" THEN "ended"
                                     ELSE provider[q]]
    /\ UNCHANGED <<ask, cancelled, called, bill, source, told, faults>>

Clock ==
    /\ Tick \/ \E c \in Clients, at \in 0..now : ResetDailyQuota(c, at)
    /\ UNCHANGED gatewayVars

StartStep(q) ==
    \/ ReserveCreates(q) \/ ReserveFindsCompleted(q) \/ ReserveRefuses(q)
    \/ Replay(q)
    \/ MarkStartFailed(q)
    \/ MarkRunningSucceeds(q) \/ MarkRunningFails(q) \/ MarkNeverRan(q)

\* adapter.Start returns.
AdapterStep(q) ==
    AdapterStarts(q) \/ \E reached \in BOOLEAN : AdapterRefuses(q, reached)

\* What consume does without waiting for the adapter.
ConsumeStep(q) ==
    \/ SelectCancelled(q) \/ MarkCancelled(q) \/ ReceiveClosed(q)
    \/ SendDelta(q) \/ DropDelta(q)
    \/ Settle(q) \/ MarkRejected(q) \/ MarkSettleFailed(q)
    \/ SendFailed(q) \/ SendBilling(q) \/ SendCompleted(q)

\* What consume receives from the adapter.
ReceiveStep(q) ==
    \/ ReceiveDelta(q) \/ ReceiveUnpriceable(q) \/ ReceiveFailure(q)
    \/ \E charge \in Charges : ReceiveCompletion(q, charge)

RequestStep(q) ==
    \/ Refuse(q)
    \/ \E c \in Clients, k \in Keys \cup {NoKey}, f \in Fingerprints :
           Arrive(q, c, k, f)
    \/ Cancel(q)
    \/ StartStep(q) \/ AdapterStep(q) \/ ConsumeStep(q) \/ ReceiveStep(q)
    \/ ProviderStops(q)

Next == (\E q \in RunIds : RequestStep(q)) \/ Restart \/ Clock

Spec == Init /\ [][Next]_vars

\* Goroutines run and a handler reads what it is sent: each step of a request
\* is weakly fair, and so is the end of the adapter's goroutine once its context
\* is done.  Nothing makes an adapter answer, a client hang up or a store fail;
\* nor does a done context end adapter.Start, which may be waiting for a Codex
\* App Server that does not answer initialize (codex/adapter.go:126, 158-174).
Fairness ==
    \A q \in RunIds : /\ WF_vars(StartStep(q))
                      /\ WF_vars(ConsumeStep(q))
                      /\ WF_vars(ProviderStops(q))

FairSpec == Spec /\ Fairness

-----------------------------------------------------------------------------
\* A bill reaches the caller only once it is durable, and it is the bill on
\* record: Settle commits before billing.completed is sent, and a replay reads
\* what was committed.  A restart or a failing store never takes it back.
ShownBillIsOnRecord ==
    \A q \in RunIds : told[q] \in {"billing", "completed"} =>
        /\ source[q] \in RunIds
        /\ Completed(source[q])
        /\ runs[source[q]].charge = bill[q]

\* A caller that was told its run failed is never charged for it, even when
\* the store failed on the way and the run had to be marked afterwards.
FailureIsFree ==
    \A q \in RunIds : told[q] = "failed" => ~Completed(q)

\* Requests with one client, key and body reach the upstream service at most
\* once between them, whatever the retries, races and restarts.
OneCallPerKey ==
    \A p, q \in called :
        /\ p # q
        /\ ask[p].client = ask[q].client
        /\ ask[p].key = ask[q].key
        => ask[p].key = NoKey

\* While consume works on a run the store's guard never turns it away: its run
\* is open until it settles or marks it itself.
OwnRunStaysOpen ==
    \A q \in RunIds :
        /\ pc[q] \in {"starting", "startFailed", "marking", "markingFailed",
                      "select", "sendDelta", "abandoning", "rejecting",
                      "settling", "settleFailed"} => Open(q)
        /\ pc[q] \in {"sendBilling", "sendCompleted"} => Completed(q)

\* What holds of each request between any two steps, of all requests at any
\* stage: the facts the properties above rest on, strong enough to be
\* preserved by every step.
Billed(q) ==
    /\ source[q] \in RunIds
    /\ Completed(source[q])
    /\ runs[source[q]].charge = bill[q]

BeforeRun == {"idle", "reserving", "replaying"}

BeforeOutcome == {"starting", "startFailed", "marking", "markingFailed",
                  "select", "sendDelta", "abandoning", "rejecting", "settling",
                  "settleFailed"}

AfterCall == {"marking", "markingFailed", "select", "sendDelta", "abandoning",
              "rejecting", "settling", "settleFailed", "sendFailed",
              "sendBilling", "sendCompleted"}

RequestInv(q) ==
    \* Before Reserve there is no run; a run belongs to its request's key.
    /\ pc[q] \in BeforeRun => runs[q] = Absent
    /\ runs[q] # Absent =>
           /\ ask[q] \in Ask
           /\ runs[q].client = ask[q].client
           /\ ask[q].key \in Keys => keys[<<ask[q].client, ask[q].key>>] = q
    \* The run is open until its request settles or marks it.
    /\ pc[q] \in BeforeOutcome => Open(q)
    /\ pc[q] = "sendFailed" => runs[q] # Absent /\ ~Completed(q)
    \* The upstream service is called once, for a run that exists.
    /\ runs[q] = Absent \/ pc[q] = "starting" => q \notin called
    /\ pc[q] \in AfterCall => q \in called
    \* What is settled, restored and shown is on record.
    /\ pc[q] = "settling" => source[q] = q /\ bill[q] \in Charges
    /\ pc[q] \in {"sendBilling", "sendCompleted"} => source[q] = q /\ Billed(q)
    /\ pc[q] = "replaying" =>
           /\ Billed(q)
           /\ ask[q].key \in Keys
           /\ keys[<<ask[q].client, ask[q].key>>] = source[q]
    /\ told[q] \in {"billing", "completed"} => Billed(q)
    /\ told[q] = "failed" => runs[q] # Absent /\ ~Completed(q)
    /\ pc[q] \notin {"sendCompleted", "done"} => told[q] = "nothing"
    /\ pc[q] = "sendCompleted" => told[q] = "billing"

RequestsConsistent == \A q \in RunIds : RequestInv(q)

\* When a request ends and its run does not, there is a reason: its client hung
\* up, the store failed, or the caller was told that the provider ended without
\* a response (a usage that cannot be priced).
RunLeftOpenHasACause ==
    \A q \in RunIds : pc[q] = "done" /\ Open(q) =>
        \/ q \in cancelled
        \/ faults > 0
        \/ told[q] = "incomplete"

\* The idempotency key is looked up before the quota is checked, so a retry of a
\* completed request gets its stored result even when the quota is used up
\* (README.md:174); only its client or a failing store can prevent it.
CompletedKeyIsReplayed ==
    [][\A q \in RunIds \ cancelled :
           /\ pc[q] = "reserving" /\ pc'[q] = "done"
           /\ HasRun(ask[q].client, ask[q].key) /\ Replayable(q)
           => faults' # faults \/ restarts' # restarts]_vars

\* A request whose client hung up ends and its adapter is released, from every
\* point of it but inside adapter.Start, which need not return: also when the
\* adapter is silent, the store fails or the end of the run cannot be recorded
\* (Start 320-348, consume 350-451).
CancelledRequestEnds ==
    \A q \in RunIds :
        q \in cancelled /\ pc[q] # "starting"
            ~> pc[q] = "done" /\ provider[q] # "live"

\* No adapter is left running after its request ended.
AdapterIsReleased ==
    \A q \in RunIds : pc[q] = "done" ~> provider[q] # "live"

\* docs/llm-server-product-design.md:184: a request that reached the upstream
\* service and whose usage cannot be confirmed keeps the settlement state
\* unconfirmed.  Here: once Start and consume are done with a call they made,
\* its run is settled or failed, not accepted or running and pending.
UpstreamCallIsAccountedFor == \A q \in called : pc[q] = "done" => ~Open(q)

-----------------------------------------------------------------------------
\* The run ledger the gateway implements.
Phase(r) ==
    IF runs[r] = Absent THEN "unopened"
    ELSE IF Open(r) THEN "open"
    ELSE IF Completed(r) THEN "settled" ELSE "abandoned"

Ledger == INSTANCE RunLedger WITH
    Runs    <- RunIds,
    Slots   <- Clients \X Keys,
    Bills   <- Charges,
    NoBill  <- NoCharge,
    phase   <- [r \in RunIds |-> Phase(r)],
    ledger  <- [r \in RunIds |-> IF runs[r] = Absent THEN NoCharge
                                 ELSE runs[r].charge],
    holder  <- keys,
    reached <- called,
    shown   <- [q \in RunIds |-> IF told[q] \in {"billing", "completed"}
                                 THEN source[q] ELSE NoRun]

\* Every behaviour of the gateway is one of the run ledger.
ImplementsRunLedger == Ledger!Spec
=============================================================================
