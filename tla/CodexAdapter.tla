---------------------------- MODULE CodexAdapter ----------------------------
(***************************************************************************)
(* internal/provider/codex/adapter.go: a request takes one of              *)
(* max_concurrency slots and is tried on the direct Responses route; where  *)
(* that is unavailable a text request falls back to an App Server worker,  *)
(* taken from a stack of idle ones or started for it.                      *)
(*                                                                         *)
(* Every request is a goroutine: Start up to the events channel, then the  *)
(* goroutine that feeds it.  pc is where it stands between two steps       *)
(* others can observe.  The watcher run starts is a goroutine of its own,  *)
(* so is the caller of Retire.  A worker that is being started counts as   *)
(* held: its process runs.  DisableDirect is for tests and left out.       *)
(***************************************************************************)
EXTENDS Naturals, FiniteSets, SequencesExt

CONSTANTS
    Requests,
    Workers,        \* numbered in the order they are started
    NoWorker,
    MaxConcurrency  \* bound on the setting of that name

ASSUME CodexAssumption ==
    /\ MaxConcurrency \in Nat \ {0}
    /\ Workers \subseteq Nat /\ NoWorker \notin Workers
    /\ IsFiniteSet(Requests)

VARIABLES
    limit,     \* the provider's max_concurrency
    tools,     \* the requests that carry functions
    pc,        \* where each request stands
    cancelled, \* requests whose context is done
    slots,     \* length of the slot channel
    blocked,   \* directBlockedUntil is in the future
    attempts,  \* times the upstream service may have executed the request
    bounced,   \* history: requests whose direct call ended in 502, 503 or 504
    idle,      \* the stack of idle workers
    held,      \* the worker of each request
    used,      \* workers started so far
    open,      \* workers whose closed flag is not set
    dead,      \* workers whose process has ended by itself
    watching,  \* watchers, as pairs of request and worker
    late,      \* watchers told to stop that have not run since
    retired,
    doomed     \* idle workers Retire has yet to close

settings == <<limit, tools>>
requestVars == <<pc, cancelled, slots, attempts>>
routeVars == <<blocked, bounced>>
poolVars == <<idle, held, used, open, dead, retired, doomed>>
watchVars == <<watching, late>>

vars == <<settings, requestVars, routeVars, poolVars, watchVars>>

Idle == ToSet(idle)

\* Where a request holds a worker, and where it only holds a slot.
Holding == {"creating", "running", "turning", "returning", "closing"}
SlotOnly == {"choosing", "direct", "streaming", "acquiring", "leaving"}

Seated == {q \in Requests : pc[q] \in SlotOnly \cup Holding}

RequestsOK ==
    /\ limit \in 1..MaxConcurrency /\ tools \subseteq Requests
    /\ pc \in [Requests -> {"queued", "done"} \cup SlotOnly \cup Holding]
    /\ attempts \in [Requests -> Nat]
    /\ held \in [Requests -> used \cup {NoWorker}]
    /\ \A q \in Requests : held[q] # NoWorker <=> pc[q] \in Holding
    /\ cancelled \subseteq Requests /\ bounced \subseteq Requests
    /\ blocked \in BOOLEAN /\ retired \in BOOLEAN

WorkersOK ==
    /\ used \subseteq Workers /\ idle \in Seq(used)
    /\ open \subseteq used /\ dead \subseteq used /\ doomed \subseteq used
    /\ watching \cup late \subseteq Requests \X used

SlotsExact == slots \in 0..limit /\ slots = Cardinality(Seated)

CodexTypeOK == RequestsOK /\ WorkersOK /\ SlotsExact

Init ==
    /\ limit \in 1..MaxConcurrency /\ tools \in SUBSET Requests
    /\ pc = [q \in Requests |-> "queued"]
    /\ cancelled = {} /\ slots = 0 /\ blocked = FALSE
    /\ attempts = [q \in Requests |-> 0] /\ bounced = {}
    /\ idle = <<>> /\ held = [q \in Requests |-> NoWorker]
    /\ used = {} /\ open = {} /\ dead = {}
    /\ watching = {} /\ late = {}
    /\ retired = FALSE /\ doomed = {}

GoesTo(q, place) == pc' = [pc EXCEPT ![q] = place]

MayExecute(q) == attempts' = [attempts EXCEPT ![q] = @ + 1]

Takes(q, w) == held' = [held EXCEPT ![q] = w]

\* Definitions named A_B are A with the defect B.

-----------------------------------------------------------------------------
\* Start: the slot and the direct route.

TakeSlot(q) ==
    /\ pc[q] = "queued" /\ slots < limit
    /\ slots' = slots + 1 /\ GoesTo(q, "choosing")
    /\ UNCHANGED <<settings, cancelled, attempts, routeVars, poolVars, watchVars>>

GiveUpQueued(q) ==
    /\ pc[q] = "queued" /\ q \in cancelled
    /\ GoesTo(q, "done")
    /\ UNCHANGED <<settings, cancelled, slots, attempts, routeVars, poolVars,
                   watchVars>>

\* Only text requests care whether the direct route failed a short while ago.
Choose(q) ==
    /\ pc[q] = "choosing"
    /\ GoesTo(q, IF q \in tools \/ ~blocked THEN "direct" ELSE "acquiring")
    /\ UNCHANGED <<settings, cancelled, slots, attempts, routeVars, poolVars,
                   watchVars>>

\* No credentials: the route is blocked also when a function request finds out.
DirectUnauthorized(q) ==
    /\ pc[q] = "direct"
    /\ blocked' = TRUE
    /\ GoesTo(q, IF q \in tools THEN "leaving" ELSE "acquiring")
    /\ UNCHANGED <<settings, cancelled, slots, attempts, bounced, poolVars,
                   watchVars>>

\* A status on which text requests fall back: 400, 401, 403 or 404, by which the
\* service refuses the request, or 502, 503 or 504, by which a gateway gives up
\* on a service that may have executed it.
DirectUnavailable(q) ==
    /\ pc[q] = "direct"
    /\ \/ UNCHANGED <<attempts, bounced>>
       \/ MayExecute(q) /\ bounced' = bounced \cup {q}
    /\ blocked' = (blocked \/ q \notin tools)
    /\ GoesTo(q, IF q \in tools THEN "leaving" ELSE "acquiring")
    /\ UNCHANGED <<settings, cancelled, slots, poolVars, watchVars>>

DirectFails_FallsBack(q) ==
    /\ pc[q] = "direct"
    /\ MayExecute(q)
    /\ GoesTo(q, IF q \in tools THEN "leaving" ELSE "acquiring")
    /\ UNCHANGED <<settings, cancelled, slots, routeVars, poolVars, watchVars>>

DirectFails_KeepsSlot(q) ==
    /\ pc[q] = "direct"
    /\ MayExecute(q) /\ GoesTo(q, "done")
    /\ UNCHANGED <<settings, cancelled, slots, routeVars, poolVars, watchVars>>

\* A transport error, the cancellation of the request, or another status: the
\* service may have started, the request ends here.
DirectFails(q) ==
    /\ pc[q] = "direct"
    /\ MayExecute(q) /\ GoesTo(q, "leaving")
    /\ UNCHANGED <<settings, cancelled, slots, routeVars, poolVars, watchVars>>

DirectStreams(q) ==
    /\ pc[q] = "direct"
    /\ MayExecute(q) /\ GoesTo(q, "streaming")
    /\ UNCHANGED <<settings, cancelled, slots, routeVars, poolVars, watchVars>>

StreamEnds(q) ==
    /\ pc[q] = "streaming"
    /\ GoesTo(q, "leaving")
    /\ UNCHANGED <<settings, cancelled, slots, attempts, routeVars, poolVars,
                   watchVars>>

\* The minute is over.
Unblock ==
    /\ blocked /\ blocked' = FALSE
    /\ UNCHANGED <<settings, requestVars, bounced, poolVars, watchVars>>

-----------------------------------------------------------------------------
\* acquireWorker.

AcquireRetired(q) ==
    /\ pc[q] = "acquiring" /\ retired
    /\ GoesTo(q, "leaving")
    /\ UNCHANGED <<settings, cancelled, slots, attempts, routeVars, poolVars,
                   watchVars>>

\* The topmost idle worker that is not closed; closed ones above it are dropped.
\* The goroutine that serves the request starts run's watcher.
AcquireIdle(q) ==
    /\ pc[q] = "acquiring" /\ ~retired
    /\ \E k \in DOMAIN idle :
          /\ idle[k] \in open
          /\ \A j \in k + 1 .. Len(idle) : idle[j] \notin open
          /\ idle' = SubSeq(idle, 1, k - 1) /\ Takes(q, idle[k])
          /\ watching' = watching \cup {<<q, idle[k]>>}
    /\ GoesTo(q, "running")
    /\ UNCHANGED <<settings, cancelled, slots, attempts, routeVars, used, open, dead,
                   retired, doomed, late>>

AcquireCreates_KeepsClosed(q, w) ==
    /\ pc[q] = "acquiring" /\ ~retired /\ Idle \cap open = {}
    /\ w \notin used /\ \A v \in Workers \ used : w <= v
    /\ Takes(q, w) /\ used' = used \cup {w} /\ open' = open \cup {w}
    /\ GoesTo(q, "creating")
    /\ UNCHANGED <<settings, cancelled, slots, attempts, routeVars, idle, dead,
                   retired, doomed, watchVars>>

AcquireCreates_WhenRetired(q, w) ==
    /\ pc[q] = "acquiring" /\ Idle \cap open = {}
    /\ w \notin used /\ \A v \in Workers \ used : w <= v
    /\ idle' = <<>> /\ Takes(q, w)
    /\ used' = used \cup {w} /\ open' = open \cup {w}
    /\ GoesTo(q, "creating")
    /\ UNCHANGED <<settings, cancelled, slots, attempts, routeVars, dead, retired,
                   doomed, watchVars>>

\* closed.Load is read under the lock; the loop has popped every idle worker.
AcquireCreates(q, w) ==
    /\ pc[q] = "acquiring" /\ ~retired /\ Idle \cap open = {}
    /\ w \notin used /\ \A v \in Workers \ used : w <= v
    /\ idle' = <<>> /\ Takes(q, w)
    /\ used' = used \cup {w} /\ open' = open \cup {w}
    /\ GoesTo(q, "creating")
    /\ UNCHANGED <<settings, cancelled, slots, attempts, routeVars, dead, retired,
                   doomed, watchVars>>

\* The process has answered initialize; nobody looks at retired any more.
CreateSucceeds(q) ==
    /\ pc[q] = "creating" /\ held[q] \notin dead
    /\ watching' = watching \cup {<<q, held[q]>>}
    /\ GoesTo(q, "running")
    /\ UNCHANGED <<settings, cancelled, slots, attempts, routeVars, poolVars, late>>

CreateFails(q) ==
    /\ pc[q] = "creating"
    /\ open' = open \ {held[q]} /\ Takes(q, NoWorker)
    /\ GoesTo(q, "leaving")
    /\ UNCHANGED <<settings, cancelled, slots, attempts, routeVars, idle, used, dead,
                   retired, doomed, watchVars>>

-----------------------------------------------------------------------------
\* run, and giving the worker back.

\* The thread exists, turn/start is written.
StartTurn(q) ==
    /\ pc[q] = "running" /\ held[q] \in open \ dead
    /\ MayExecute(q) /\ GoesTo(q, "turning")
    /\ UNCHANGED <<settings, cancelled, slots, routeVars, poolVars, watchVars>>

\* stopCancellationWatch: the watcher will see it when it next runs.
StopWatch(q) ==
    /\ watching' = watching \ {<<q, held[q]>>}
    /\ late' = late \cup {<<q, held[q]>>}

\* An error, a message that is not allowed, the end of the output, or an event
\* nobody receives.
RunFails(q) ==
    /\ pc[q] \in {"running", "turning"}
    /\ StopWatch(q) /\ GoesTo(q, "closing")
    /\ UNCHANGED <<settings, cancelled, slots, attempts, routeVars, poolVars>>

\* turn/completed: the watch is stopped before the last event is sent.
Complete(q) ==
    /\ pc[q] = "turning" /\ held[q] \notin dead
    /\ StopWatch(q)
    /\ \E reusable \in BOOLEAN :
          /\ reusable => held[q] \in open
          /\ ~reusable => q \in cancelled \/ held[q] \notin open
          /\ GoesTo(q, IF reusable THEN "returning" ELSE "closing")
    /\ UNCHANGED <<settings, cancelled, slots, attempts, routeVars, poolVars>>

ReturnWorker_WhenRetired(q) ==
    /\ pc[q] = "returning" /\ held[q] \in open
    /\ idle' = Append(idle, held[q]) /\ Takes(q, NoWorker)
    /\ GoesTo(q, "leaving")
    /\ UNCHANGED <<settings, cancelled, slots, attempts, routeVars, used, open, dead,
                   retired, doomed, watchVars>>

ReturnWorker(q) ==
    /\ pc[q] = "returning" /\ ~retired /\ held[q] \in open
    /\ idle' = Append(idle, held[q]) /\ Takes(q, NoWorker)
    /\ GoesTo(q, "leaving")
    /\ UNCHANGED <<settings, cancelled, slots, attempts, routeVars, used, open, dead,
                   retired, doomed, watchVars>>

CloseHeld(q) ==
    /\ \/ pc[q] = "closing"
       \/ pc[q] = "returning" /\ (retired \/ held[q] \notin open)
    /\ open' = open \ {held[q]} /\ Takes(q, NoWorker)
    /\ GoesTo(q, "leaving")
    /\ UNCHANGED <<settings, cancelled, slots, attempts, routeVars, idle, used, dead,
                   retired, doomed, watchVars>>

FreeSlot(q) ==
    /\ pc[q] = "leaving"
    /\ slots' = slots - 1 /\ GoesTo(q, "done")
    /\ UNCHANGED <<settings, cancelled, attempts, routeVars, poolVars, watchVars>>

WatcherFires_Never(q, w) == FALSE

\* The watcher of a cancelled context closes its worker, also one that has been
\* told to stop when both channels are ready: select picks either.
WatcherFires(q, w) ==
    /\ <<q, w>> \in watching \cup late /\ q \in cancelled
    /\ open' = open \ {w}
    /\ watching' = watching \ {<<q, w>>} /\ late' = late \ {<<q, w>>}
    /\ UNCHANGED <<settings, requestVars, routeVars, idle, held, used, dead, retired,
                   doomed>>

WatcherStops(q, w) ==
    /\ <<q, w>> \in late /\ late' = late \ {<<q, w>>}
    /\ UNCHANGED <<settings, requestVars, routeVars, poolVars, watching>>

-----------------------------------------------------------------------------
\* The rest of the world.

Retire ==
    /\ ~retired /\ retired' = TRUE
    /\ idle' = <<>> /\ doomed' = Idle
    /\ UNCHANGED <<settings, requestVars, routeVars, held, used, open, dead, watchVars>>

CloseDoomed(w) ==
    /\ w \in doomed
    /\ doomed' = doomed \ {w} /\ open' = open \ {w}
    /\ UNCHANGED <<settings, requestVars, routeVars, idle, held, used, dead, retired,
                   watchVars>>

\* The client hangs up, or the gateway is done with the provider's context.
Cancel(q) ==
    /\ q \notin cancelled /\ cancelled' = cancelled \cup {q}
    /\ UNCHANGED <<settings, pc, slots, attempts, routeVars, poolVars, watchVars>>

\* A process may end at any time; closed is not set by that.
WorkerDies(w) ==
    /\ w \in open \ dead /\ dead' = dead \cup {w}
    /\ UNCHANGED <<settings, requestVars, routeVars, idle, held, used, open, retired,
                   doomed, watchVars>>

Next ==
    \/ \E q \in Requests :
          \/ TakeSlot(q) \/ GiveUpQueued(q) \/ Choose(q)
          \/ DirectUnauthorized(q) \/ DirectUnavailable(q)
          \/ DirectFails(q) \/ DirectStreams(q) \/ StreamEnds(q)
          \/ AcquireRetired(q) \/ AcquireIdle(q) \/ CreateSucceeds(q) \/ CreateFails(q)
          \/ StartTurn(q) \/ RunFails(q) \/ Complete(q)
          \/ ReturnWorker(q) \/ CloseHeld(q) \/ FreeSlot(q) \/ Cancel(q)
          \/ \E w \in Workers :
                AcquireCreates(q, w) \/ WatcherFires(q, w) \/ WatcherStops(q, w)
    \/ \E w \in Workers : CloseDoomed(w) \/ WorkerDies(w)
    \/ Unblock \/ Retire

Spec == Init /\ [][Next]_vars

\* Goroutines that can take a step take it.  A direct call and its stream end
\* once the context is done, reading from a closed or dead process ends.
\* Nothing is assumed of a process that is silent, nor of a start: initialize
\* has no timeout and does not watch the context.
RequestStep(q) ==
    \/ GiveUpQueued(q) \/ Choose(q)
    \/ q \in cancelled /\ (DirectFails(q) \/ StreamEnds(q))
    \/ AcquireRetired(q) \/ AcquireIdle(q) \/ \E w \in Workers : AcquireCreates(q, w)
    \/ pc[q] = "creating" /\ held[q] \in dead /\ CreateFails(q)
    \/ held[q] \notin open \ dead /\ RunFails(q)
    \/ ReturnWorker(q) \/ CloseHeld(q) \/ FreeSlot(q)

Fairness ==
    \A q \in Requests :
        /\ WF_vars(RequestStep(q))
        /\ \A w \in Workers : WF_vars(WatcherFires(q, w) \/ WatcherStops(q, w))

FairSpec == Spec /\ Fairness

-----------------------------------------------------------------------------
Holders == {q \in Requests : held[q] # NoWorker}

\* What may have been executed is not sent again, over both routes: not after a
\* transport error, another status or a stream that broke off (startDirect
\* 251-275; docs/stage-2-codex.md:209), and a request with functions, which no
\* worker can express, is sent only once whatever the answer.  A text request
\* answered with 502, 503 or 504 is the exception: that status leaves open
\* whether the service ran it, and it is sent a second time, not a third.
OnlyGatewayErrorsAreReplayed ==
    \A q \in Requests :
        /\ attempts[q] <= IF q \in bounced \ tools THEN 2 ELSE 1
        /\ q \in tools => held[q] = NoWorker

\* Worker processes, idle ones included, never outnumber max_concurrency,
\* although only requests take slots and starts happen outside the lock
\* (acquireWorker 158-175; docs/stage-2-codex.md:47).
WorkersWithinLimit == Len(idle) + Cardinality(Holders) <= limit

\* A process that runs has exactly one owner: the stack of a live adapter,
\* one request, or Retire on its way to close it.
EveryProcessHasOneOwner ==
    /\ open \subseteq doomed \cup {held[q] : q \in Requests} \cup (IF retired THEN {} ELSE Idle)
    /\ IsInjective(idle) /\ Idle \cap doomed = {}
    /\ \A q \in Holders : held[q] \notin Idle \cup doomed
    /\ \A q, r \in Holders : held[q] = held[r] => q = r

\* What callers see is the lease the WorkBuddy adapter gives as well: a worker
\* counts as lent from the moment its start is decided, under the lock.
Lease == INSTANCE WorkerLease
             WITH Limit <- MaxConcurrency,
                  stage <- [q \in Requests |->
                      IF q \in Holders THEN "lent"
                      ELSE IF pc[q] \in {"leaving", "done"} THEN "over" ELSE "new"],
                  loan <- {<<q, held[q]>> : q \in Holders},
                  closing <- retired

ImplementsWorkerLease == Lease!Spec

\* A request whose context is done ends, on a slot or queued for one, streaming
\* or on a silent worker; all but one that waits for initialize, which no
\* cancellation reaches (acquireWorker has no context).
CancelledCallEnds ==
    \A q \in Requests :
        q \in cancelled ~> pc[q] = "done" \/ pc[q] = "creating"
=============================================================================
