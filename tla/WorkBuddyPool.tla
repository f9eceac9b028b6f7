--------------------------- MODULE WorkBuddyPool ---------------------------
(***************************************************************************)
(* The worker pool of internal/provider/workbuddy/adapter.go.  A request   *)
(* takes a slot, acquires a worker process (an idle one, or one it starts  *)
(* itself, or it waits for one being started), runs on it and gives it     *)
(* back.  Everything between Lock and Unlock is one step here; starting a  *)
(* process, waiting, running and closing a process happen outside the lock *)
(* and are steps of their own, so requests, replenishers, timers and       *)
(* Retire interleave as goroutines do.                                     *)
(*                                                                         *)
(* A worker's process is external: it may answer, fail or stay silent.     *)
(* Initialization and warm-up (prepareACPWorker) end in success or failure,*)
(* as their timeouts see to.                                               *)
(***************************************************************************)
EXTENDS Integers, Sequences, FiniteSets, SequencesExt

CONSTANTS
    Requests,        \* calls of Start, each with a context of its own
    Workers,         \* identities of worker processes
    NoWorker,        \* a nil *acpWorker
    MaxConcurrency,  \* max_concurrency: capacity of the slot channel
    MaxRetries       \* bound on pending AfterFunc timers of replenishWorker

ASSUME PoolAssumption ==
    /\ IsFiniteSet(Requests)
    /\ NoWorker \notin Workers
    /\ MaxConcurrency \in Nat \ {0}
    /\ MaxRetries \in Nat

VARIABLES
    pc,            \* where each request stands
    held,          \* the worker a request runs on or is about to close
    slots,         \* number of elements in the slot channel
    idle,          \* a.idle, a stack
    live,          \* a.live
    creating,      \* a.creating
    retired,       \* a.retired
    asleep,        \* waiters whose ready channel has not been closed
    replenishing,  \* number of replenishWorker goroutines
    retries,       \* number of pending AfterFunc timers
    open,          \* workers whose process runs, i.e. ~closed
    doomed,        \* removed workers that Retire or a replenisher will close
    watch,         \* the worker each request's cancellation watcher guards
    timer,         \* requests whose drain timer is armed
    closers,       \* fired watchers and timers: request, worker to close
    cancelled      \* requests whose context is done

counters == <<slots, live, creating, replenishing, retries>>
lateClosers == <<watch, timer, closers>>
vars == <<pc, held, counters, idle, retired, asleep, open, doomed, lateClosers,
          cancelled>>

PC == {"queued", "acquiring", "creating", "waiting", "running", "draining",
       "releasing", "dropping", "closing", "leaving", "done"}

\* Requests with a worker that counts as live.
Holding(q) == pc[q] \in {"running", "draining", "releasing", "dropping"}

Idle == ToSet(idle)

PlacesOK ==
    /\ pc \in [Requests -> PC]
    /\ held \in [Requests -> Workers \cup {NoWorker}]
    /\ \A q \in Requests : held[q] # NoWorker <=> (Holding(q) \/ pc[q] = "closing")
    /\ asleep \subseteq {q \in Requests : pc[q] = "waiting"}
    /\ timer \subseteq {q \in Requests : pc[q] = "draining"}

AmountsOK ==
    /\ slots \in 0..MaxConcurrency
    /\ idle \in Seq(Workers)
    /\ live \in Nat /\ creating \in Nat /\ replenishing \in Nat
    /\ retries \in 0..MaxRetries

WorkersOK ==
    /\ retired \in BOOLEAN
    /\ open \subseteq Workers /\ doomed \subseteq Workers
    /\ watch \in [Requests -> Workers \cup {NoWorker}]
    /\ closers \subseteq Requests \X Workers
    /\ cancelled \subseteq Requests

TypeOK == PlacesOK /\ AmountsOK /\ WorkersOK

\* New sizes the pool for two lanes at most.
Target == IF MaxConcurrency < 2 THEN MaxConcurrency ELSE 2

\* New returns at once and warms Target workers in the background.
Init ==
    /\ pc = [q \in Requests |-> "queued"]
    /\ held = [q \in Requests |-> NoWorker]
    /\ slots = 0
    /\ idle = <<>>
    /\ live = 0
    /\ creating = Target /\ replenishing = Target
    /\ retired = FALSE
    /\ asleep = {}
    /\ retries = 0
    /\ open = {} /\ doomed = {}
    /\ watch = [q \in Requests |-> NoWorker]
    /\ timer = {} /\ closers = {}
    /\ cancelled = {}

-----------------------------------------------------------------------------
Goto(q, from, to) == pc[q] = from /\ pc' = [pc EXCEPT ![q] = to]

\* notifyLocked closes the channel every waiter captured.
Notify == asleep' = {}

\* scheduleReplenishLocked, entered with c workers being created: starts what
\* the pool lacks.  live has its new value.
Schedule(c) ==
    LET lacking == IF ~retired /\ live' + c < Target THEN Target - (live' + c) ELSE 0
    IN  /\ creating' = c + lacking
        /\ replenishing' = replenishing + lacking

\* An identity for a new process: nobody refers to its last bearer any more.
Fresh(w) ==
    /\ w \notin open \cup doomed \cup Idle
    /\ \A q \in Requests : held[q] # w /\ watch[q] # w /\ <<q, w>> \notin closers

Usable(k) == /\ k \in DOMAIN idle
             /\ idle[k] \in open
             /\ \A j \in DOMAIN idle : j > k => idle[j] \notin open

-----------------------------------------------------------------------------
\* Start: the slot, then acquireWorker.

TakeSlot(q) ==
    /\ slots < MaxConcurrency
    /\ Goto(q, "queued", "acquiring")
    /\ slots' = slots + 1
    /\ UNCHANGED <<held, live, creating, replenishing, retries, idle, retired,
                   asleep, open, doomed, lateClosers, cancelled>>

GiveUpQueued(q) ==
    /\ q \in cancelled
    /\ Goto(q, "queued", "done")
    /\ UNCHANGED <<held, counters, idle, retired, asleep, open, doomed,
                   lateClosers, cancelled>>

AcquireRetired(q) ==
    /\ retired
    /\ Goto(q, "acquiring", "leaving")
    /\ UNCHANGED <<held, counters, idle, retired, asleep, open, doomed,
                   lateClosers, cancelled>>

\* Mutant: nobody watches the request's context.
RunOn_NoWatcher(q, w) ==
    /\ held' = [held EXCEPT ![q] = w]
    /\ UNCHANGED watch

\* run starts on the worker and a watcher on the request's context.
RunOn(q, w) ==
    /\ held' = [held EXCEPT ![q] = w]
    /\ watch' = [watch EXCEPT ![q] = w]

\* The topmost idle worker that is not closed; closed ones above it are dropped.
AcquireIdle(q) ==
    /\ ~retired
    /\ Goto(q, "acquiring", "running")
    /\ \E k \in DOMAIN idle :
           /\ Usable(k)
           /\ RunOn(q, idle[k])
           /\ idle' = SubSeq(idle, 1, k - 1)
           /\ live' = live - (Len(idle) - k)
    /\ UNCHANGED <<slots, creating, replenishing, retries, retired, asleep, open,
                   doomed, timer, closers, cancelled>>

\* No idle worker is usable: all are dropped.
EmptyIdle ==
    /\ ~retired
    /\ Idle \cap open = {}
    /\ idle' = <<>>
    /\ live' = live - Len(idle)

\* Mutant: workers being started are not counted.
AcquireCreates_CountsLiveOnly(q) ==
    /\ EmptyIdle
    /\ live' < MaxConcurrency
    /\ Goto(q, "acquiring", "creating")
    /\ creating' = creating + 1
    /\ UNCHANGED <<held, slots, replenishing, retries, retired, asleep, open,
                   doomed, lateClosers, cancelled>>

AcquireCreates(q) ==
    /\ EmptyIdle
    /\ live' + creating < MaxConcurrency
    /\ Goto(q, "acquiring", "creating")
    /\ creating' = creating + 1
    /\ UNCHANGED <<held, slots, replenishing, retries, retired, asleep, open,
                   doomed, lateClosers, cancelled>>

AcquireWaits(q) ==
    /\ EmptyIdle
    /\ live' + creating >= MaxConcurrency
    /\ Goto(q, "acquiring", "waiting")
    /\ asleep' = asleep \cup {q}
    /\ UNCHANGED <<held, slots, creating, replenishing, retries, retired, open,
                   doomed, lateClosers, cancelled>>

WaitEnds(q) ==
    /\ q \notin asleep
    /\ Goto(q, "waiting", "acquiring")
    /\ UNCHANGED <<held, counters, idle, retired, asleep, open, doomed,
                   lateClosers, cancelled>>

WaitCancelled(q) ==
    /\ q \in cancelled
    /\ Goto(q, "waiting", "leaving")
    /\ asleep' = asleep \ {q}
    /\ UNCHANGED <<held, counters, idle, retired, open, doomed, lateClosers,
                   cancelled>>

\* Mutant: retired is not read again after the start.
CreateSucceeds_WhenRetired(q) ==
    /\ Goto(q, "creating", "running")
    /\ \E w \in Workers : /\ Fresh(w)
                          /\ RunOn(q, w)
                          /\ open' = open \cup {w}
    /\ creating' = creating - 1
    /\ live' = live + 1
    /\ Notify
    /\ UNCHANGED <<slots, replenishing, retries, idle, retired, doomed, timer,
                   closers, cancelled>>

CreateSucceeds(q) ==
    /\ ~retired
    /\ Goto(q, "creating", "running")
    /\ \E w \in Workers : /\ Fresh(w)
                          /\ RunOn(q, w)
                          /\ open' = open \cup {w}
    /\ creating' = creating - 1
    /\ live' = live + 1
    /\ Notify
    /\ UNCHANGED <<slots, replenishing, retries, idle, retired, doomed, timer,
                   closers, cancelled>>

\* The adapter was retired while the worker started.
CreateTooLate(q) ==
    /\ retired
    /\ Goto(q, "creating", "closing")
    /\ \E w \in Workers : /\ Fresh(w)
                          /\ held' = [held EXCEPT ![q] = w]
                          /\ open' = open \cup {w}
    /\ UNCHANGED live
    /\ Schedule(creating - 1)
    /\ Notify
    /\ UNCHANGED <<slots, retries, idle, retired, doomed, lateClosers, cancelled>>

CreateFails(q) ==
    /\ Goto(q, "creating", "leaving")
    /\ UNCHANGED live
    /\ Schedule(creating - 1)
    /\ Notify
    /\ UNCHANGED <<held, slots, retries, idle, retired, open, doomed, lateClosers,
                   cancelled>>

-----------------------------------------------------------------------------
\* replenishWorker and its retry timer.

ReplenishSucceeds ==
    /\ replenishing > 0 /\ ~retired
    /\ \E w \in Workers : /\ Fresh(w)
                          /\ idle' = Append(idle, w)
                          /\ open' = open \cup {w}
    /\ replenishing' = replenishing - 1
    /\ creating' = creating - 1
    /\ live' = live + 1
    /\ Notify
    /\ UNCHANGED <<pc, held, slots, retries, retired, doomed, lateClosers, cancelled>>

\* Mutant: the worker that came too late is not closed.
ReplenishTooLate_Forgets ==
    /\ replenishing > 0 /\ retired
    /\ \E w \in Workers : /\ Fresh(w)
                          /\ open' = open \cup {w}
    /\ replenishing' = replenishing - 1
    /\ creating' = creating - 1
    /\ Notify
    /\ UNCHANGED <<pc, held, slots, live, retries, idle, retired, doomed, lateClosers,
                   cancelled>>

ReplenishTooLate ==
    /\ replenishing > 0 /\ retired
    /\ \E w \in Workers : /\ Fresh(w)
                          /\ doomed' = doomed \cup {w}
                          /\ open' = open \cup {w}
    /\ replenishing' = replenishing - 1
    /\ creating' = creating - 1
    /\ Notify
    /\ UNCHANGED <<pc, held, slots, live, retries, idle, retired, lateClosers,
                   cancelled>>

\* Mutant: a failed start wakes nobody.
ReplenishFails_Silently ==
    /\ replenishing > 0
    /\ replenishing' = replenishing - 1
    /\ creating' = creating - 1
    /\ IF retired THEN UNCHANGED retries
       ELSE retries < MaxRetries /\ retries' = retries + 1
    /\ UNCHANGED <<pc, held, slots, live, idle, retired, asleep, open, doomed, lateClosers,
                   cancelled>>

ReplenishFails ==
    /\ replenishing > 0
    /\ replenishing' = replenishing - 1
    /\ creating' = creating - 1
    /\ Notify
    /\ IF retired THEN UNCHANGED retries
       ELSE retries < MaxRetries /\ retries' = retries + 1
    /\ UNCHANGED <<pc, held, slots, live, idle, retired, open, doomed, lateClosers,
                   cancelled>>

Retry ==
    /\ retries > 0
    /\ retries' = retries - 1
    /\ UNCHANGED live
    /\ Schedule(creating)
    /\ UNCHANGED <<pc, held, slots, idle, retired, asleep, open, doomed,
                   lateClosers, cancelled>>

-----------------------------------------------------------------------------
\* acpWorker.run.

\* Every early return: a failed RPC, a disallowed action, an event that could
\* not be sent, the end of the process's output.
RunFails(q) ==
    /\ Goto(q, "running", "dropping")
    /\ UNCHANGED <<held, counters, idle, retired, asleep, open, doomed,
                   lateClosers, cancelled>>

\* Mutant: no drain timer.
Complete_WithoutTimer(q) ==
    /\ Goto(q, "running", "draining")
    /\ UNCHANGED timer
    /\ UNCHANGED <<held, counters, idle, retired, asleep, open, doomed, watch,
                   closers, cancelled>>

\* complete: the final event is sent and the drain timer armed.
Complete(q) ==
    /\ Goto(q, "running", "draining")
    /\ timer' = timer \cup {q}
    /\ UNCHANGED <<held, counters, idle, retired, asleep, open, doomed, watch,
                   closers, cancelled>>

StopTimer(q) == timer' = timer \ {q}

\* Mutant: the drain timer is not stopped.
DrainEnds_TimerArmed(q) ==
    /\ Goto(q, "draining", IF held[q] \in open THEN "releasing" ELSE "dropping")
    /\ UNCHANGED <<held, counters, idle, retired, asleep, open, doomed, lateClosers, cancelled>>

\* The prompt's result arrives: run returns whether the worker is still open.
DrainEnds(q) ==
    /\ Goto(q, "draining", IF held[q] \in open THEN "releasing" ELSE "dropping")
    /\ StopTimer(q)
    /\ UNCHANGED <<held, counters, idle, retired, asleep, open, doomed, watch,
                   closers, cancelled>>

DrainFails(q) ==
    /\ Goto(q, "draining", "dropping")
    /\ StopTimer(q)
    /\ UNCHANGED <<held, counters, idle, retired, asleep, open, doomed, watch,
                   closers, cancelled>>

\* A timer that has fired is no longer stopped by Stop.
TimerFires(q) ==
    /\ q \in timer
    /\ StopTimer(q)
    /\ closers' = closers \cup {<<q, held[q]>>}
    /\ UNCHANGED <<pc, held, counters, idle, retired, asleep, open, doomed, watch,
                   cancelled>>

\* watchDone is closed by complete and whenever run returns.
WatchDone(q) == pc[q] # "running"

\* The watcher's select: with both channels ready Go picks either.
WatcherFires(q) ==
    /\ watch[q] # NoWorker
    /\ q \in cancelled
    /\ watch' = [watch EXCEPT ![q] = NoWorker]
    /\ closers' = closers \cup {<<q, watch[q]>>}
    /\ UNCHANGED <<pc, held, counters, idle, retired, asleep, open, doomed, timer,
                   cancelled>>

WatcherStops(q) ==
    /\ watch[q] # NoWorker
    /\ WatchDone(q)
    /\ watch' = [watch EXCEPT ![q] = NoWorker]
    /\ UNCHANGED <<pc, held, counters, idle, retired, asleep, open, doomed, timer,
                   closers, cancelled>>

\* close is idempotent (closeOnce).
LateClose(q, w) ==
    /\ <<q, w>> \in closers
    /\ closers' = closers \ {<<q, w>>}
    /\ open' = open \ {w}
    /\ UNCHANGED <<pc, held, counters, idle, retired, asleep, doomed, watch, timer,
                   cancelled>>

-----------------------------------------------------------------------------
\* releaseWorker and the end of the goroutine.

Returnable(q) ==
    /\ pc[q] = "releasing"
    /\ ~retired
    /\ held[q] \in open
    /\ Len(idle) < MaxConcurrency

ReturnWorker(q) ==
    /\ Returnable(q)
    /\ pc' = [pc EXCEPT ![q] = "leaving"]
    /\ held' = [held EXCEPT ![q] = NoWorker]
    /\ idle' = Append(idle, held[q])
    /\ Notify
    /\ UNCHANGED <<counters, retired, open, doomed, lateClosers, cancelled>>

\* Mutant: a dropped worker is not replaced.
DropWorker_NoReplacement(q) ==
    /\ pc[q] \in {"releasing", "dropping"}
    /\ ~Returnable(q)
    /\ pc' = [pc EXCEPT ![q] = "closing"]
    /\ live' = live - 1
    /\ Notify
    /\ UNCHANGED <<held, slots, creating, replenishing, retries, idle, retired, open, doomed, lateClosers,
                   cancelled>>

DropWorker(q) ==
    /\ pc[q] \in {"releasing", "dropping"}
    /\ ~Returnable(q)
    /\ pc' = [pc EXCEPT ![q] = "closing"]
    /\ live' = live - 1
    /\ Notify
    /\ Schedule(creating)
    /\ UNCHANGED <<held, slots, retries, idle, retired, open, doomed, lateClosers,
                   cancelled>>

CloseHeld(q) ==
    /\ Goto(q, "closing", "leaving")
    /\ open' = open \ {held[q]}
    /\ held' = [held EXCEPT ![q] = NoWorker]
    /\ UNCHANGED <<counters, idle, retired, asleep, doomed, lateClosers, cancelled>>

FreeSlot(q) ==
    /\ Goto(q, "leaving", "done")
    /\ slots' = slots - 1
    /\ UNCHANGED <<held, live, creating, replenishing, retries, idle, retired,
                   asleep, open, doomed, lateClosers, cancelled>>

-----------------------------------------------------------------------------
\* Mutants: live keeps counting the idle workers; they are not closed.
Retire_KeepsCount ==
    /\ ~retired
    /\ retired' = TRUE
    /\ idle' = <<>>
    /\ doomed' = doomed \cup Idle
    /\ Notify
    /\ UNCHANGED <<pc, held, slots, live, creating, replenishing, retries, open,
                   lateClosers, cancelled>>

Retire_ClosesNothing ==
    /\ ~retired
    /\ retired' = TRUE
    /\ idle' = <<>>
    /\ live' = live - Len(idle)
    /\ Notify
    /\ UNCHANGED <<pc, held, slots, creating, replenishing, retries, open, doomed,
                   lateClosers, cancelled>>

\* Retire is called once, by the runtime manager.
Retire ==
    /\ ~retired
    /\ retired' = TRUE
    /\ idle' = <<>>
    /\ live' = live - Len(idle)
    /\ doomed' = doomed \cup Idle
    /\ Notify
    /\ UNCHANGED <<pc, held, slots, creating, replenishing, retries, open,
                   lateClosers, cancelled>>

CloseDoomed(w) ==
    /\ w \in doomed
    /\ doomed' = doomed \ {w}
    /\ open' = open \ {w}
    /\ UNCHANGED <<pc, held, counters, idle, retired, asleep, lateClosers, cancelled>>

\* The client hangs up, or the gateway is done with the provider's context.
Cancel(q) ==
    /\ q \notin cancelled
    /\ cancelled' = cancelled \cup {q}
    /\ UNCHANGED <<pc, held, counters, idle, retired, asleep, open, doomed,
                   lateClosers>>

Next ==
    \/ \E q \in Requests :
           \/ TakeSlot(q) \/ GiveUpQueued(q)
           \/ AcquireRetired(q) \/ AcquireIdle(q) \/ AcquireCreates(q) \/ AcquireWaits(q)
           \/ WaitEnds(q) \/ WaitCancelled(q)
           \/ CreateSucceeds(q) \/ CreateTooLate(q) \/ CreateFails(q)
           \/ RunFails(q) \/ Complete(q) \/ DrainEnds(q) \/ DrainFails(q)
           \/ TimerFires(q) \/ WatcherFires(q) \/ WatcherStops(q)
           \/ ReturnWorker(q) \/ DropWorker(q) \/ CloseHeld(q) \/ FreeSlot(q)
           \/ Cancel(q)
           \/ \E w \in Workers : LateClose(q, w)
    \/ \E w \in Workers : CloseDoomed(w)
    \/ ReplenishSucceeds \/ ReplenishTooLate \/ ReplenishFails \/ Retry
    \/ Retire

Spec == Init /\ [][Next]_vars

-----------------------------------------------------------------------------
\* Goroutines that can take a step take it, process starts end (initialization
\* and warm-up have timeouts), timers fire, output of a closed process ends.
\* A select whose context case is ready again and again takes it in the end: Go
\* picks at random.  Nothing is assumed of an open process, of clients, of Retire.
RequestStep(q) ==
    \/ GiveUpQueued(q)
    \/ AcquireRetired(q) \/ AcquireIdle(q) \/ AcquireCreates(q) \/ AcquireWaits(q)
    \/ WaitEnds(q) \/ WaitCancelled(q)
    \/ CreateSucceeds(q) \/ CreateTooLate(q) \/ CreateFails(q)
    \/ held[q] \notin open /\ (RunFails(q) \/ DrainFails(q))
    \/ ReturnWorker(q) \/ DropWorker(q) \/ CloseHeld(q) \/ FreeSlot(q)

ReplenishStep == ReplenishSucceeds \/ ReplenishTooLate \/ ReplenishFails

Fairness ==
    /\ \A q \in Requests :
           /\ WF_vars(RequestStep(q))
           /\ SF_vars(WaitCancelled(q))
           /\ WF_vars(TimerFires(q))
           /\ WF_vars(WatcherFires(q) \/ WatcherStops(q))
           /\ \A w \in Workers : WF_vars(LateClose(q, w))
    /\ \A w \in Workers : WF_vars(CloseDoomed(w))
    /\ WF_vars(ReplenishStep)
    /\ WF_vars(Retry)

FairSpec == Spec /\ Fairness

-----------------------------------------------------------------------------
Holders == {q \in Requests : Holding(q)}

Seated == {q \in Requests : pc[q] \notin {"queued", "done"}}

Creators == {q \in Requests : pc[q] = "creating"}

\* The counters say what the pool really has, whatever path a worker left it by
\* and however many are being replaced.  They are adjusted in eight places, and
\* one slip would shrink or overfill the pool until the process restarts.
CountersExact ==
    /\ live = Len(idle) + Cardinality(Holders)
    /\ creating = replenishing + Cardinality(Creators)
    /\ slots = Cardinality(Seated)

\* Workers in use, idle or being started never outnumber max_concurrency.
CapacityRespected == live + creating <= MaxConcurrency

\* Every process that runs has exactly one owner: the idle stack, unless the
\* adapter is retired, the request it serves, or whoever is about to close it.
\* Workers are started, lent, returned, replaced and doomed by requests,
\* replenishers and Retire at once, part of it without the lock.
EveryProcessHasOneOwner ==
    /\ open \subseteq Idle \cup doomed \cup {held[q] : q \in Requests}
    /\ retired => idle = <<>>
    /\ \A j, k \in DOMAIN idle : idle[j] = idle[k] => j = k
    /\ Idle \cap doomed = {}
    /\ \A q \in Requests : held[q] # NoWorker =>
           /\ held[q] \notin Idle \cup doomed
           /\ \A r \in Requests : held[r] = held[q] => r = q

\* A request that sleeps can count on a worker start that will wake it, so no
\* wake-up is lost between its look at the pool and its wait.
SleepersWillBeWoken == asleep # {} => creating > 0

\* The pool is short of its target and nothing is on the way.
FallsShort == ~retired /\ live + creating < Target /\ retries = 0

\* Whatever goes wrong with a worker or with its replacement, a next replacement
\* is being started or has its retry timer.  acquireWorker alone is exempt: it
\* drops closed idle workers without asking for new ones.
WorkersAreReplaced ==
    [][(FallsShort' /\ ~FallsShort) =>
           \E q \in Requests : pc[q] = "acquiring" /\ pc'[q] # pc[q]]_vars

-----------------------------------------------------------------------------
\* The promise to callers, in terms of requests and loans.
Stage(q) == CASE pc[q] \in {"queued", "acquiring", "creating", "waiting"} -> "new"
              [] Holding(q) -> "lent"
              [] OTHER -> "over"

Lease == INSTANCE WorkerLease
             WITH Limit <- MaxConcurrency,
                  stage <- [q \in Requests |-> Stage(q)],
                  loan <- {<<q, held[q]>> : q \in Holders},
                  closing <- retired

\* Whatever the pool, the waiters and the replenishers do, callers see a lease:
\* one worker for one request, MaxConcurrency at most, none after Retire.
ImplementsWorkerLease == Lease!Spec

\* A request whose context is done ends, wherever it stands: queued, waiting for
\* a worker, starting one, running on a silent one.
CancelledCallEnds == \A q \in Requests : q \in cancelled ~> pc[q] = "done"

\* After its final event a request frees its slot without anybody's help, even
\* if the process never answers the prompt: the drain timer sees to it.
DrainingCallEnds == \A q \in Requests : pc[q] = "draining" ~> pc[q] = "done"

\* Once the adapter is retired and its requests are given up, every process
\* ends, those that were being started at that moment included.
RetiredPoolEnds == (retired /\ cancelled = Requests) ~> [](open = {})

\* docs/stage-3-workbuddy.md:51: a cancellation or a polluted protocol closes the
\* current worker and no other.  A timer or watcher that fired before run
\* returned closes its worker after it was given back and lent again.
OnlyOwnWorkerIsClosed ==
    \A q \in Requests, r \in Holders : <<q, held[r]>> \in closers => q = r
=============================================================================
