# A verification development of llmserver

llmserver is an HTTP gateway (Go) that lets the clients of an organisation call
language models through several providers (WorkBuddy, Codex, OpenAI-compatible
services, a mock) and bills every call. This directory holds TLA+ modules that
model its core, TLC configurations that check them on small instances, and
TLAPS proofs for every value of the constants.

Paths below are relative to the repository (`src/`). `PROJECT.json` maps each
definition to the lines it models and lists runs, mutants, findings, hazards
and theorems.

## The system

| component | state it keeps | operations | what makes it hard | what makes it correct, as far as it is checked |
|---|---|---|---|---|
| Run store `internal/store/sqlite.go` | runs, usage and charge rows, idempotency keys, quota resets (SQLite, one connection) | Reserve, MarkRunning, MarkFailed, Complete, recovery at start, ResetDailyQuota, reports | crash between any two calls; calls on runs that ended | columns agree, an ended run is final, a key holds one run of its client |
| Daily quota (`Reserve`, `ResetDailyQuota`, `DailyQuotaStatuses`) | none of its own: sums confirmed USD charges since midnight or the last reset | admit, consume, reset | checked at admission, consumed at settlement; midnight is read before the transaction | the overrun is bounded by the runs in flight; a used-up quota admits nothing |
| Gateway `internal/gateway` | one goroutine per request, a provider context, two channels | Start, consume, replay | cancellation, store failures and crashes at every step; retries racing for one key | one upstream call per key, bill durable before announced, failure is free, everything is released |
| Runtime manager `internal/runtimecfg` | current snapshot, adapters | Current, Reload, Update, Close | requests that hold an old snapshot; reuse and retirement of adapters; builds and saves that fail | a request whose provider did not change is served; no adapter is forgotten; adapters fit the configuration |
| Configuration `internal/config` | public and secret YAML file | LoadFiles, SaveFiles, bootstrap | two files written one after the other; slices shared with the running configuration | the files hold what is served, a token changes only when it is meant to |
| WorkBuddy adapter | pool of warm workers, waiters, pending replacements | Start, acquire, release, replenish, warm, drain, retire | lock released around process start and stop; timeouts, lost wake-ups | never more than the limit, no slot lost, every waiter is served or told |
| Codex adapter | direct client, blocked-until time, stack of App Server workers | Start, direct request, fallback, acquire, release, retire | fallback after a failed direct call; reuse of a long-lived worker; late watchers | a call that may have run is sent again after a gateway's error status only; processes bounded and owned |
| OpenAI-compatible and mock adapters | per call | Start, parse a stream | early end, duplicate or late events, missing output or usage | one outcome, and a bill that fits it |
| API server `internal/api` | none (reads the current runtime) | authenticate, models, responses (JSON or SSE) | two reads of the current runtime in one request | what a caller reads is one outcome, last (the handler as a part of other models) |
| Admin server `internal/admin` | none | update configuration, reset quota, reports, discovery | concurrent administrators | what the store and the runtime manager say of its calls; reports are not checked |
| Pricing, tool calls, access keys | none (pure) | ResolveUsage, Calculate, EvaluateHardBudget; Parse, ValidateResponse; Authenticate | 64-bit overflow, rounding | charges are the nearest amount or an error, a granted budget holds |
| Process `cmd/llmserver` | two HTTP servers, the store | start, shutdown | main waits for one of two servers | recovery after a crash at any moment; the order of its shutdown is not checked |
| Discovery, web pages, scripts | none | I/O | | not modelled |

How they interact: the API server authenticates a client against the current
runtime snapshot and calls `Service.Start`. Start reserves a run in the store
(which answers retries and checks the quota), calls the provider's adapter and
marks the run running; the goroutine `consume` relays the adapter's channel to
the HTTP handler's channel and settles the run in the store. The runtime
manager replaces the snapshot and retires adapters while requests are in
flight. At start the store closes every run a dead process left open.

## Modules

| module | models | abstract specification | proofs |
|---|---|---|---|
| `RunStore`, `DailyQuota` | the SQLite store and the daily quota | | `RunStoreProofs`, `QuotaProofs` |
| `Gateway` (over `DailyQuota`) | the request path of concurrent requests | `RunLedger` | `GatewayProofs` |
| `Settlement` (over `Pricing`, `ToolCall`) | one request with its data, from the upstream frames to what the caller reads | | `SettlementProofs` |
| `RuntimeManager` | configuration updates, the two files, adapters | | `RuntimeManagerProofs` |
| `WorkBuddyPool` | the WorkBuddy worker pool | `WorkerLease` | `WorkBuddyPoolProofs` |
| `CodexAdapter` | the Codex adapter's routes and workers | `WorkerLease` | `CodexAdapterProofs` |

`FoldLemmas` holds the lemmas about folds and sums that the proofs share.

`MC*` modules give the constants their values. Definitions named `A_B`, or
commented as *mutants*, are plausible mistakes; for each property of a passing
run one of them, put in the place of the definition it follows, breaks the
property (see `PROJECT.json`).

### RunStore and DailyQuota

Each method of the store is one action: the store has one connection, so its
transactions are serial, and a method that returns an error has rolled back.
`runs` joins a row of table runs with its usage and charge rows, which
`Complete` inserts in one transaction; `keys` is table idempotency_keys,
`resetAt` the quota resets, `now` the clock. `StoreNext` lets any caller make
any call at any time: more than the gateway ever does.

`DailyQuota` adds a history variable, the largest number of runs of a client
that were open together, against which the overrun of the quota is bounded. A
request's midnight (`dayStart`) is computed before the reservation's
transaction, so `StoreNext` takes it from any earlier moment.

### Gateway and RunLedger

A request is a goroutine, `pc` the place where it stands between two calls
another actor can observe:

| pc | code in gateway.go |
|---|---|
| idle, reserving | Start up to the reservation (232-287) |
| replaying | storedCompletion of a completed run (302-311) |
| starting, startFailed | adapter.Start and its error path (317-338) |
| marking, markingFailed | MarkRunning and its error path (339-345) |
| select, sendDelta | the loop of consume (358-376) |
| abandoning | request context done (360-363) |
| settling, settleFailed | Complete and its error path (433-451) |
| rejecting, sendFailed | failed provider, invalid tool call (385-397, 459-467) |
| sendBilling, sendCompleted | the last two events (453-458) |

`cancelled` is the set of requests whose context is done, `provider` the
adapter's goroutine, `called` the upstream calls actually made, `told` the last
event handed to the HTTP handler. The adapter is an environment: it may refuse
before or after contact, stream, fail, complete with any charge, complete with
a usage that cannot be priced, stay silent. Its goroutine stops once its
context is done; its Start may take for ever.
`Fault` is a store call that fails for reasons of its own, `Restart` a crash at
any moment followed by the recovery at start.

`RunLedger` is what a caller and an accountant may rely on, without handlers,
store or providers. A run opens once, holds its key for good, reaches the
upstream service at most once, is settled with one bill or abandoned without
any, and its bill is shown only after it is settled. `Gateway!Ledger`
instantiates it with a refinement mapping.

### Settlement, Pricing and ToolCall

`Gateway` forgets what its events carry; `Settlement` has the same goroutines
for one request with what they carry: texts, usage, function calls, amounts.
The upstream service may send any frame in any order and stop at any point.
`request.reader` says which goroutine reads it:

| reader | code |
|---|---|
| json, sse | the two readers of provider/openai/adapter.go |
| direct | the direct Responses stream of provider/codex/adapter.go |
| agent | appServerWorker.run, fed by an App Server |

`gathered` is what a reader keeps until its last event (text, output items,
token usage), `offer` the event it stands ready to send, `outbox` what the
gateway has yet to send, `seen` what the handler received. `Shown` is what the
handler writes of it: a stream event by event, otherwise one answer at the end.
`reported` is a history variable, the usage as the service sent it, which a
reader may take for something else: the App Server's is decoded into plain
integers, so that a count left out is a zero reported. An output array keeps
the number of its items, since the reader of the direct stream replaces an
output without any, not one without text. The mock and the reader of
WorkBuddy's ACP messages are not among the readers.

`Pricing` has estimation, charges and the hard budget over amounts that are
whole nano-units. A text is what the estimator counts in it; a sum that leaves
`MaxInt64` is `NoAmount`. `ToolCall` has ParseChoice and ValidateResponse; a
call is right or wrong as its schema check says.

### RuntimeManager

`phase` is how far the holder of `Manager.mu` is with its update (building,
savingPublic, savingSecret, publishing, retiring); requests and `Close` do not
take the mutex and may come between any two of its steps. `draft` is the
snapshot under construction, `base` the one it started from, `current` the
published one; `NoSnapshot` is the nil pointer in place of one. A request reads the current runtime twice, to authenticate and
to be served, and keeps the adapter the second read gave it. `publicFile` and
`secretFile` survive `Crash` and `Exit`; adapters do not. `shown` is the key
inside the configuration's provider list, which `SaveFiles` clears through a
slice the draft shares (config.go:200).

### WorkBuddyPool, CodexAdapter and WorkerLease

Code between Lock and Unlock is one step; process starts, waits, runs and
closes are outside the lock in the code and steps of their own here. In
`WorkBuddyPool`:

| pc | code in provider/workbuddy/adapter.go |
|---|---|
| queued | the select on the slot channel (102-106) |
| acquiring | the head of the loop of acquireWorker, about to lock (140-156) |
| creating | prepareACPWorker on behalf of the request (157-178) |
| waiting | the select on the captured ready channel (182-186) |
| running | acpWorker.run up to the final event (412-516) |
| draining | after the final event, until the prompt's result (517-615) |
| releasing, dropping | releaseWorker, reusable or not (190-205) |
| closing | worker.close after the unlock (205, 172-174) |
| leaving, done | the deferred receive that frees the slot (111, 119) |

`live`, `creating`, `idle`, `retired` are the fields of the same name; the
ready channel is the set `asleep` of waiters that captured it and were not
notified since. `replenishing` counts replenishWorker goroutines, `retries`
their AfterFunc timers. `open` are the workers whose `closed` is false.
`watch`, `timer`, `closers` are what may still close a worker asynchronously:
the cancellation watcher of a run, its drain timer, and those of either kind
that have fired and not yet called close. The ACP conversation is abstracted to
what the pool sees of it: a start or a run ends well, ends badly or says nothing.

In `CodexAdapter`:

| pc | code in provider/codex/adapter.go |
|---|---|
| queued, choosing | Start's select on the slot channel, the choice of a route |
| direct, streaming | the direct call, its stream |
| acquiring, creating | acquireWorker, newAppServerWorker |
| running, turning | run before and after turn/start is written |
| returning, closing | releaseWorker, close |
| leaving, done | the deferred receive that frees the slot |

`blocked` is directBlockedUntil in the future; `attempts` counts the chances
the upstream service had to execute a request, over both routes: a written
turn/start, or a direct call that was not refused by a status 400, 401, 403 or
404. The statuses 502, 503 and 504 are a gateway's and leave open what became
of the request, so they count; `bounced` remembers whose call ended in one of
them, after which the code falls back all the same. `watching` and
`late` are the cancellation watchers, the latter told to stop and not yet run:
their select may still pick the cancelled context and close a worker that was
given back.

`WorkerLease` is what callers of either adapter may rely on: one worker lent to
one request, at most Limit at once, none lent anew once the adapter is retired.
Both instantiate it with a refinement mapping.

## Runs

| run | instance | shows |
|---|---|---|
| store | 3 runs, 2 clients that may use the same key, limit 2, charges that count for the quota or not, two days | columns agree, keys stay with their client's run, ended runs are final; the overrun is less than one charge per run in flight; a used-up quota admits nothing, even with yesterday's midnight |
| gateway | 2 requests, 1 key, 2 bodies, limit 1, two days, 1 store failure, 1 restart | bills shown are on record, failures are free, one upstream call per key, a run left open has a cause, completed keys are replayed even when the quota is used up |
| liveness | 2 requests, 1 store failure, 1 restart, weak fairness | refinement of RunLedger; a cancelled request ends unless it stands in Start, adapters are released |
| accounting | 2 requests, no failures | a disagreement of code and documents, below |
| settlement | 1 request over each reader, 2 functions, every choice, 3 budgets, 8 usages, 2 deltas, 2 items | one outcome, verified against the functions; a bill made of what was reported and sent |
| settlement_missing | the same | a disagreement, below |
| runtime | 3 updates out of 9, 1 request, 1 failing build or write, 1 crash or shutdown | files, secrets, adapters and what is served stay in step |
| runtime_reuse | the same | a disagreement, below |
| pool | 3 requests, 3 workers, limit 2, 1 pending retry | counters are exact, capacity kept, one owner per worker, no process forgotten, no lost wake-up, workers replaced |
| pool_live | 2 requests, 3 workers, limit 1, 1 pending retry, fairness | refinement of WorkerLease; cancelled and drained calls end, a retired pool ends its processes |
| pool_late_close | as pool_live, safety only | a disagreement, below |
| codex | 2 requests of either kind, 2 workers, 1 or 2 slots, fairness | a request is sent again only after a 502, 503 or 504; workers within the limit, with one owner each; refinement of WorkerLease; a cancelled call ends |

### Bounds

Gateway. Interference between requests goes through a shared key, a shared
quota and a restart. Two requests on one key give every pair of stages; one
store failure and one restart may hit at every step of every request. In the
store three runs make two in flight overrun the quota and a third be refused.
Symmetry over run identifiers, clients and bodies is used in safety runs only.

Settlement. PerMillion = 2 makes every second product a rounding case, and an
input token costs 1.5 nano-units. MaxInt64 = 9 is reached exactly, left by a
product, and left by the sum of two products that fit. The budgets 5 and 6 lie
below and at the estimate's maximum charge. Two items at two indices may
overwrite each other or leave a gap; two calls in one array are what
ValidateResponse refuses. Reported counts include none, one of two, a negative
one, and counts above the estimate. Deadlock is checked here: `Ended` is the
only way to stop.

Runtime. The edits contain a plain save, a regenerated token, an added client,
a rename, a rename into a name given up in the same update, two API keys, and
changed or removed settings of either provider; three in a row let a cleared
key, an old snapshot and a reused adapter meet. One request at a time is
enough for a property of a request against updates, and its slot is used again.

Pools. A call of Start is made once per request: three requests on a limit of
two give one that queues for a slot, one that takes over a returned worker and
one that competes with a replenisher. In `WorkBuddyPool` a worker identity is
reused once nothing refers to its last bearer (`Fresh`), so three identities
stand for any number of processes; `MaxRetries` bounds pending retry timers,
each of which may fail again after it fired. Limit 1, where a request and its
replacement compete for the one place, is the liveness instance. In
`CodexAdapter` workers are numbered as they start; a request starts one at
most, so two workers are all that two requests need.

Except in settlement, the model may stop when every request has ended or the
clock or a counter of updates has reached its bound, so deadlock is not
checked; the liveness properties say that no request hangs. The proofs below
remove the bounds for the safety properties they cover.

### Fairness

Gateway: each goroutine's own steps are weakly fair (the Go scheduler runs
ready goroutines, the HTTP handler reads what it is sent), and so is the exit of
an adapter's goroutine on a done context. Nothing is assumed of an adapter
before that, of its Start (the Codex adapter may wait there for an App Server
that does not answer initialize, with neither a timeout nor the context), of
clients, of the store's success or of restarts. `CancelledRequestEnds`
therefore speaks of a cancelled request outside Start. Weak fairness of `ConsumeStep` leaves the
choice of a ready select case to chance, as Go does: with a client that is gone
and a silent adapter only the context case is ready, and an adapter that keeps
sending is stopped by the done context.

WorkBuddy pool: weakly fair are the steps of each request's goroutine that wait
for nobody, the end of a process start (initialization and warm-up have
timeouts, adapter.go:406-408), timers, watchers, and closes. The end of the
output of a process is assumed only of one that was closed. A waiter that is
woken and goes back to wait again and again sees its context case ready each
time; Go picks among ready cases at random, which is strong fairness of
`WaitCancelled`. `TakeSlot` is not assumed: a queued request ends because its
context does.

Codex: the goroutines' own steps and the watchers. A direct call and its stream
end once the context is done; reading from a closed or dead process ends.
Nothing is assumed of a silent process, nor of a start: initialize has neither
a timeout nor the request's context, so `CancelledCallEnds` has to except a
request that stands in `creating`.

## Findings

The violation runs state what the documents say, and TLC shows a run of
the code that does otherwise:

* `accounting`: a request that reached the upstream service ends and leaves its
  run accepted or running, and pending, until the process restarts. When a
  start fails and the client has hung up, `MarkFailed` runs under the dead
  context (gateway.go:335). And consume returns without a mark when usage
  cannot be resolved or priced, when the adapter closes its channel, or when a
  delta meets a client that hung up (402-409, 365-367, 374-376).
  docs/llm-server-product-design.md:184 says otherwise.
* `settlement_missing`: the App Server's usage message is decoded into plain
  integers and both counts are marked as present (codex/adapter.go:755-760,
  887-895), so a count left out is billed as zero. docs/stage-2-codex.md:122 and
  :214 demand an estimate and forbid the zero.
* `runtime_reuse`: after one save, the next update rebuilds every API provider
  that has a key, because `SaveFiles` cleared the key in the published snapshot
  (config.go:200); README.md:79 says that unchanged providers are reused. For
  the same reason model discovery (discovery.go:63) finds no key after a save.
* `pool_late_close`: a drain timer (or cancellation watcher) that has fired
  before `run` returned closes its worker later, when the worker may have been
  given back and lent to another request, whose run then fails. Timer.Stop does
  not wait for a function that has started (adapter.go:517, 424-430).
  docs/stage-3-workbuddy.md:51 says that the current worker only is closed.

`RunLeftOpenHasACause` states what does hold of the first: a run is left open
only after a cancelled client, a failing store or an outcome reported as
incomplete.

`BillFitsTheAnswer` states what holds of the second, with the App Server's
missing counts excepted by name.

Met while modelling, without a run of their own:

* After 502, 503 or 504 on the direct route the Codex adapter falls back to an
  App Server (codex/adapter.go:263-271) although the service behind the gateway
  may have executed the request; after a transport error, for that reason, it
  does not (251-255). docs/stage-2-codex.md disagrees with itself here: :31 lists
  these statuses among the answers to fall back on, as ones that say that
  generation has not started, and demands that nothing with an unknown result is
  replayed; :209 allows a fallback only where that can be proved.
  `OnlyGatewayErrorsAreReplayed` counts the second execution and excepts it.
* A start that fails before contact is recorded as unconfirmed, like one that
  fails after it (gateway.go:335); docs/stage-1-standard-api.md:202 reserves
  not_chargeable, which no code path writes, for it.
* A cancellation watcher of the Codex adapter may be as late as a timer of the
  WorkBuddy pool (codex/adapter.go:654) and close a worker that was lent again;
  docs/stage-2-codex.md:69 says that other workers are not affected. The model
  has the step, and it loses no process.
* An idle Codex worker may be a process that has died: it counts, and it is
  lent and fails its request (codex/adapter.go:168).
* A hard budget is granted on an estimate of the input (gateway.go:271) and
  charged by the provider's count, which may be higher; the charge may then
  exceed the budget that docs/stage-1-standard-api.md:173 calls hard. The bill
  says so (`exceeded`). `BillFitsTheAnswer` and `HardBudgetBoundsTheBill` state
  what holds: within the estimate, the budget does.
* Nothing ends a request at the threshold of a soft budget.
* acquireWorker of the WorkBuddy pool drops closed idle workers
  (adapter.go:150-155) without scheduling replacements, unlike every other path
  that loses a worker (compare docs/implementation-status.md:30);
  `WorkersAreReplaced` exempts that path by name.
* main returns with the first of its two servers to shut down
  (main.go:53), so the runtime may be closed under requests of the other.
  `Close` does not take the manager's mutex: an update in progress then
  publishes a snapshot whose shared adapters are retired.
* A cancelled Codex request may hold its slot as long as a new App Server does
  not answer initialize (acquireWorker has no context).

## Proofs

Proved for any values of the constants that satisfy the named assumptions:

* `RunStoreProofs` (`DataAssumption`: null values are distinct from others):
  `StoreTypeOK`, `LedgerConsistent`, `KeysOwnTheirRun` and the action property
  `EndedRunsAreFinal`. `StoreInv`, the conjunction of the three invariants, is
  inductive; one lemma per method gives its effect row by row, one that it
  keeps `StoreInv`. Both are cited again by the gateway's proofs.
* `QuotaProofs` (`QuotaAssumption`; `ChargeAssumption`: there are finitely many
  charges, so that a largest one exists): `OvershootIsBounded` and
  `UsedUpQuotaAdmitsNothing`, under `QuotaSpec`. The invariant is inductive with
  the store's and the fact that finitely many runs are stored. What a client has
  used is a fold over its rows; `UsedIsSize` turns it into the number of pairs of
  a counted run and one of its nano-units, so that a completion adds at most
  `MaxCharge` units while it takes one run out of `OpenInWindow`, and an
  admission finds fewer units than the limit. A reset or a midnight only shrinks
  both sets.
* `GatewayProofs` (also `QuotaAssumption`, `BoundAssumption`: bounds are
  numbers): `TypeOK`, `RequestsConsistent`, `ShownBillIsOnRecord`,
  `FailureIsFree`, `OwnRunStaysOpen`, `OneCallPerKey`. The properties are not
  inductive: that a bill shown is on record needs that a settling request owns
  an open run and that a replayed run is the key's. `RequestInv` collects these
  facts per request, and `Inv == StoreInv /\ TypeOK /\ RequestsConsistent` is
  inductive. The argument per step: it re-establishes `RequestInv` of its own
  request, and leaves alone what `RequestInv` of the others speaks of
  (`LeavesAlone`, `OthersKeepInv`). Restarts and the clock are separate lemmas.
  `RunLeftOpenHasACause` is inductive only if it speaks of the report too: a
  failure is reported after the mark was tried and ends the request whatever
  became of the mark (`Cause`). `CompletedKeyIsReplayed` follows from the guards
  of Reserve under `Inv`: the key is looked up before the quota. Last,
  `Spec => Ledger!Spec`: under `Inv` each step maps to a step of the ledger or to
  a stutter; a restart is one `Abandon` of all open runs.
* `WorkBuddyPoolProofs` (`PoolAssumption`: finitely many requests, a positive
  limit): `TypeOK`, `CountersExact`, `CapacityRespected`. None is inductive
  alone: that `live` stays a natural number needs that it counts the holders,
  and that a replenisher keeps the limit needs that `Target` is no larger.
  `CountInv`, their conjunction, is inductive. The counters are compared with
  cardinalities; `MoveTallies` says that a step of one request changes each of
  the three sets by that request at most, and the lemma of every action then
  only adds and subtracts numbers.
  On top of it: `EveryProcessHasOneOwner`, inductive under `TypeOK`; `SleepersWillBeWoken`, because who waits holds a slot, so that
  there are fewer holders than slots and the limit can be reached only with a
  start under way; `WorkersAreReplaced`, because `Schedule` fills the pool up to
  its target; and `ImplementsWorkerLease`: each step lends, gives back, refuses,
  closes or stutters, the limit of the lease from `CountInv`, the freedom of a
  worker that is lent from its having one owner.
* `CodexAdapterProofs` (`CodexAssumption`: finitely many requests, workers are
  numbers): `CodexTypeOK`, `OnlyGatewayErrorsAreReplayed`, `WorkersWithinLimit`,
  `EveryProcessHasOneOwner`, and from them `ImplementsWorkerLease`. Three
  inductive invariants, each resting on the first: `PlaceInv` says where a request may stand with an attempt made or a
  worker held, and that up to a worker's turn the only attempt is the one a
  gateway broke off; `CountInv` that slots and idle plus lent workers fit the limit,
  which is inductive only because a holder also holds a slot and a start empties
  the stack; `OwnerInv` adds to the owners that Retire finds nothing doomed.
* `RuntimeManagerProofs` (`ManagerAssumption`: None is nothing else, edits have
  their type and name finitely many clients): `UnaffectedRequestIsServed`,
  `NoAdapterLeaks`, `AdaptersFitConfig`, `SavedIsServed`, `RuntimeTypeOK`,
  `TokenChangesOnlyByUpdate`, `RenameMovesToken`. The inductive invariant `IInv`
  has a part per concern. `Phases` relates the mutex's holder to the process: a draft's base
  is the current snapshot, unless Close came between, which then has or had the
  base's adapters in hand. `Numbers` says that an adapter's number identifies it
  and tells local adapters from the others, so retiring one retires no other.
  `Lives` keeps what is served or drafted apart from what is retired, `Bindings`
  ties an unaffected request to the current adapter of its provider. `Adapters`
  carries the argument for reuse: SaveFiles may have cleared the keys the
  comparison reads, but a draft without a key has a base without one, so equal
  keys in the cleared copies are equal keys. `TokenInv` adds the tokens: while an
  update is under way and its secrets are not on disk, the draft's tokens are
  those on file as the edit changes them (`KeepsTokens`). Applying the renames is
  a fold over an order Go's map leaves open; `RenamedTokens` says that whatever
  the order, no token is overwritten and every new name that had none has the
  token of its old name.
* `SettlementProofs` (`PricingAssumption`: PerMillion is positive, MaxInt64 a
  number; `NamesAreNoModes`; `SettlementAssumption`: texts, calls, usages, prices
  and budgets have their types). A charge is the nearest nano-unit or an error
  (`ChargeIsNearest`), a total is an exact sum within the width or an error
  (`TotalNeverWraps`), and a budget granted on bounds of the usage bounds every
  bill within them (`HardBudgetBoundsTheBill`), by monotonicity of product,
  quotient and charge. Then `CallerSeesOneVerifiedOutcome` and
  `BillFitsTheAnswer` for any frames of the service. `SettlementInv` has four
  parts besides the types: what the outbox may hold and, with it, how the text
  the caller has read stands to the text the gateway has passed on (`Outboxes`);
  an outcome is the last event and follows its bill (`SeenInOrder`); nothing is
  consumed or billed for a request that was not affordable or whose choice is
  invalid (`Gates`); and `Settled`: once a bill is on record the adapter is
  closed, so the final event the bill was made of is still the one on offer.
  `UsageInv` ties what a reader holds or offers to what the service reported
  (`AsRead`: a negative count dropped, a missing one of an App Server a zero), so
  that `BillFitsTheAnswer` speaks of the service's own counts.

Four folds over data occur in these theorems: the charges in a window, the
renames of an update, the texts of a stream, the items of an answer. They are folds over finite sets
of the community modules; `FoldLemmas` proves that such a fold exists and what
it returns, by induction on finite sets in set form (`SubsetInduction`).

Model-checked only: the five liveness properties `CancelledRequestEnds`,
`AdapterIsReleased`, `CancelledCallEnds`, `DrainingCallEnds` and
`RetiredPoolEnds`, because liveness and ENABLED are out of the prover's reach.
Every invariant, action property and refinement that a passing run checks is
also a theorem. No module declares a RECURSIVE operator.

## What is left out

* Reports (UsageSummary, UsageReport) only read. They compare times as
  RFC3339Nano strings, whose fraction has no fixed length: a run at the very
  boundary of a period may be counted on the wrong side.
* Actual costs (the operator's records of what providers charge), and response
  documents beyond their text and calls.
* Parsing and printing of decimals: an amount is its number of nano-units.
* Strict request mode, validation rules, YAML, model lists, rendering.
* Of the ACP protocol, the order of messages within a run, usage and credit:
  the WorkBuddy pool learns only how the run ended, and neither its reader nor
  the mock's fixed answer is a reader of `Settlement`. Process isolation,
  credentials and proxies of the Codex adapter.
* A gateway without a repository exists in unit tests only; a Codex adapter
  whose direct route is disabled likewise.
* A store call that fails is assumed to have had no effect; SQLite reporting an
  error after a durable commit is outside the model.
* Resets of one client's quota are assumed to be issued one after the other. A
  chain of renames in one update cannot come from the web page, which sends
  one at a time, but from the administration interface behind it.
* Provider discovery, web pages and scripts are I/O and presentation.
