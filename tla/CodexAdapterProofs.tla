------------------------- MODULE CodexAdapterProofs -------------------------
(***************************************************************************)
(* Theorems about the Codex adapter for any number of requests and workers *)
(* and any max_concurrency.                                                *)
(***************************************************************************)
EXTENDS CodexAdapter, FiniteSetTheorems, TLAPS

\* Up to the direct call the upstream service has seen nothing of a request; up
\* to a worker's turn it has seen at most the call a gateway broke off; and only
\* a text request asks for a worker.
AttemptsOK ==
    \A q \in Requests :
        /\ attempts[q] \in 0..2
        /\ pc[q] \in {"queued", "choosing", "direct"} => attempts[q] = 0 /\ q \notin bounced
        /\ pc[q] \in {"acquiring", "creating", "running"}
              => attempts[q] = (IF q \in bounced THEN 1 ELSE 0)
        /\ attempts[q] = 2 => q \in bounced \ tools
        /\ pc[q] \in {"acquiring"} \cup Holding => q \notin tools

PlaceInv == RequestsOK /\ WorkersOK /\ AttemptsOK

LEMMA InitPlaces == Init => PlaceInv
  <1> SUFFICES ASSUME Init PROVE PlaceInv
    OBVIOUS
  <1>1. RequestsOK
    BY CodexAssumption DEF Init, RequestsOK, Holding, SlotOnly
  <1>2. WorkersOK
    BY DEF Init, WorkersOK
  <1>3. AttemptsOK
    BY DEF Init, AttemptsOK, Holding
  <1> QED BY <1>1, <1>2, <1>3 DEF PlaceInv

\* Steps of a request that neither take nor give a worker.
LEMMA QueueKeepsPlaces ==
    ASSUME NEW q \in Requests, PlaceInv,
           \/ TakeSlot(q) \/ GiveUpQueued(q) \/ Choose(q)
           \/ DirectUnauthorized(q) \/ DirectUnavailable(q)
           \/ DirectFails(q) \/ DirectStreams(q) \/ StreamEnds(q)
           \/ AcquireRetired(q) \/ FreeSlot(q)
    PROVE  PlaceInv'
  <1> USE DEF settings, routeVars, poolVars, watchVars, GoesTo, MayExecute
  <1>1. /\ UNCHANGED <<settings, cancelled, poolVars, watchVars>>
        /\ blocked' \in BOOLEAN
    BY DEF PlaceInv, RequestsOK, TakeSlot, GiveUpQueued, Choose, DirectUnauthorized,
       DirectUnavailable, DirectFails, DirectStreams, StreamEnds, AcquireRetired, FreeSlot
  <1>2. PICK place \in {"done"} \cup SlotOnly :
            /\ pc' = [pc EXCEPT ![q] = place]
            /\ pc[q] \notin Holding
            /\ place = "acquiring" => q \notin tools
    BY DEF PlaceInv, RequestsOK, SlotOnly, Holding, TakeSlot, GiveUpQueued, Choose,
       DirectUnauthorized, DirectUnavailable, DirectFails, DirectStreams, StreamEnds,
       AcquireRetired, FreeSlot
  <1>3. \/ /\ attempts' = attempts /\ bounced' = bounced
           /\ (attempts[q] = 0 /\ q \notin bounced) \/ place \in {"leaving", "done"}
           /\ place = "direct" => q \notin bounced
        \/ /\ attempts[q] = 0 /\ attempts' = [attempts EXCEPT ![q] = 1]
           /\ q \notin bounced
           /\ \/ place \in {"leaving", "streaming"} /\ bounced' = bounced
              \/ /\ place \in {"leaving", "acquiring"}
                 /\ bounced' = bounced \cup {q}
    <2>1. CASE TakeSlot(q) \/ GiveUpQueued(q) \/ Choose(q) \/ DirectUnauthorized(q)
      BY <1>2, <2>1 DEF PlaceInv, AttemptsOK, TakeSlot, GiveUpQueued, Choose,
         DirectUnauthorized
    <2>2. CASE DirectUnavailable(q)
      <3>1. attempts[q] = 0 /\ q \notin bounced /\ place \in {"leaving", "acquiring"}
        BY <1>2, <2>2 DEF PlaceInv, RequestsOK, AttemptsOK, DirectUnavailable
      <3> QED BY <2>2, <3>1 DEF DirectUnavailable
    <2>3. CASE DirectFails(q) \/ DirectStreams(q)
      BY <1>2, <2>3 DEF PlaceInv, RequestsOK, AttemptsOK, DirectFails, DirectStreams
    <2>4. CASE StreamEnds(q) \/ AcquireRetired(q) \/ FreeSlot(q)
      BY <1>2, <2>4 DEF PlaceInv, RequestsOK, StreamEnds, AcquireRetired, FreeSlot
    <2> QED BY <2>1, <2>2, <2>3, <2>4
  <1>4. RequestsOK'
    BY <1>1, <1>2, <1>3 DEF PlaceInv, RequestsOK, Holding, SlotOnly
  <1>5. WorkersOK'
    BY <1>1 DEF PlaceInv, WorkersOK
  <1>6. AttemptsOK'
    BY <1>1, <1>2, <1>3 DEF PlaceInv, RequestsOK, AttemptsOK, Holding, SlotOnly
  <1> QED BY <1>4, <1>5, <1>6 DEF PlaceInv

\* acquireWorker.
LEMMA AcquireKeepsPlaces ==
    ASSUME NEW q \in Requests, PlaceInv,
           \/ AcquireIdle(q) \/ CreateSucceeds(q) \/ CreateFails(q)
           \/ \E w \in Workers : AcquireCreates(q, w)
    PROVE  PlaceInv'
  <1> USE CodexAssumption DEF PlaceInv, settings, routeVars, poolVars, watchVars, GoesTo,
          Takes
  <1>1. CASE AcquireIdle(q)
    <2>1. PICK k \in DOMAIN idle :
              /\ idle' = SubSeq(idle, 1, k - 1)
              /\ held' = [held EXCEPT ![q] = idle[k]]
              /\ watching' = watching \cup {<<q, idle[k]>>}
      BY <1>1 DEF AcquireIdle
    <2>2. idle[k] \in used /\ idle' \in Seq(used)
      BY <2>1 DEF WorkersOK
    <2>3. idle[k] # NoWorker
      BY <2>2 DEF WorkersOK
    <2>4. RequestsOK'
      BY <1>1, <2>1, <2>2, <2>3 DEF AcquireIdle, RequestsOK, Holding, SlotOnly
    <2>5. WorkersOK'
      BY <1>1, <2>1, <2>2 DEF AcquireIdle, WorkersOK
    <2>6. AttemptsOK'
      BY <1>1 DEF AcquireIdle, RequestsOK, AttemptsOK, Holding, SlotOnly
    <2> QED BY <2>4, <2>5, <2>6
  <1>2. ASSUME NEW w \in Workers, AcquireCreates(q, w) PROVE PlaceInv'
    <2>1. w # NoWorker /\ used' = used \cup {w} /\ held' = [held EXCEPT ![q] = w]
          /\ pc' = [pc EXCEPT ![q] = "creating"] /\ pc[q] = "acquiring"
      BY <1>2 DEF AcquireCreates
    <2>2. RequestsOK'
      BY <1>2, <2>1 DEF AcquireCreates, RequestsOK, Holding, SlotOnly
    <2>3. WorkersOK'
      BY <1>2 DEF AcquireCreates, WorkersOK
    <2>4. AttemptsOK'
      BY <1>2 DEF AcquireCreates, RequestsOK, AttemptsOK, Holding, SlotOnly
    <2> QED BY <2>2, <2>3, <2>4
  <1>3. CASE CreateSucceeds(q)
    <2>1. held[q] \in used
      BY <1>3 DEF CreateSucceeds, RequestsOK, Holding
    <2>2. RequestsOK'
      BY <1>3 DEF CreateSucceeds, RequestsOK, Holding, SlotOnly
    <2>3. WorkersOK'
      BY <1>3, <2>1 DEF CreateSucceeds, WorkersOK
    <2>4. AttemptsOK'
      BY <1>3 DEF CreateSucceeds, RequestsOK, AttemptsOK, Holding, SlotOnly
    <2> QED BY <2>2, <2>3, <2>4
  <1>4. CASE CreateFails(q)
    <2>1. RequestsOK'
      BY <1>4 DEF CreateFails, RequestsOK, Holding, SlotOnly
    <2>2. WorkersOK'
      BY <1>4 DEF CreateFails, WorkersOK
    <2>3. AttemptsOK'
      BY <1>4 DEF CreateFails, RequestsOK, AttemptsOK, Holding, SlotOnly
    <2> QED BY <2>1, <2>2, <2>3
  <1> QED BY <1>1, <1>2, <1>3, <1>4

\* run, and giving the worker back.
LEMMA RunKeepsPlaces ==
    ASSUME NEW q \in Requests, PlaceInv,
           StartTurn(q) \/ RunFails(q) \/ Complete(q) \/ ReturnWorker(q) \/ CloseHeld(q)
    PROVE  PlaceInv'
  <1> USE CodexAssumption DEF PlaceInv, settings, routeVars, poolVars, watchVars, GoesTo,
          Takes, StopWatch, MayExecute
  <1>1. held[q] \in used /\ pc[q] \in Holding /\ q \notin tools
    BY DEF RequestsOK, AttemptsOK, Holding, StartTurn, RunFails, Complete, ReturnWorker,
       CloseHeld
  <1>2. CASE StartTurn(q)
    <2>1. /\ attempts[q] = (IF q \in bounced THEN 1 ELSE 0)
          /\ attempts' = [attempts EXCEPT ![q] = attempts[q] + 1]
          /\ pc' = [pc EXCEPT ![q] = "turning"]
      BY <1>2 DEF StartTurn, AttemptsOK
    <2>2. RequestsOK'
      BY <1>2, <2>1 DEF StartTurn, RequestsOK, Holding, SlotOnly
    <2>3. WorkersOK'
      BY <1>2 DEF StartTurn, WorkersOK
    <2>4. AttemptsOK'
      BY <1>1, <1>2, <2>1 DEF StartTurn, RequestsOK, AttemptsOK, Holding, SlotOnly
    <2> QED BY <2>2, <2>3, <2>4
  <1>3. CASE RunFails(q) \/ Complete(q)
    <2>1. PICK place \in {"returning", "closing"} : pc' = [pc EXCEPT ![q] = place]
      BY <1>3 DEF RunFails, Complete
    <2>2. UNCHANGED <<settings, cancelled, attempts, routeVars, poolVars>>
      BY <1>3 DEF RunFails, Complete
    <2>3. RequestsOK'
      BY <1>1, <2>1, <2>2 DEF RequestsOK, Holding, SlotOnly
    <2>4. WorkersOK'
      BY <1>1, <1>3, <2>2 DEF WorkersOK, RunFails, Complete
    <2>5. AttemptsOK'
      <3>1. /\ \A r \in Requests \ {q} : pc'[r] = pc[r]
            /\ pc'[q] \in {"returning", "closing"}
        BY <2>1 DEF RequestsOK
      <3>2. UNCHANGED <<tools, attempts, bounced>>
        BY <2>2
      <3> QED BY <1>1, <3>1, <3>2 DEF AttemptsOK, Holding
    <2> QED BY <2>3, <2>4, <2>5
  <1>4. CASE ReturnWorker(q) \/ CloseHeld(q)
    <2>1. /\ pc' = [pc EXCEPT ![q] = "leaving"] /\ held' = [held EXCEPT ![q] = NoWorker]
          /\ UNCHANGED <<settings, cancelled, attempts, routeVars, used, dead, retired,
                         doomed, watchVars>>
          /\ idle' = idle \/ idle' = Append(idle, held[q])
          /\ open' \subseteq open
      BY <1>4 DEF ReturnWorker, CloseHeld
    <2>2. RequestsOK'
      BY <2>1 DEF RequestsOK, Holding, SlotOnly
    <2>3. WorkersOK'
      BY <1>1, <2>1 DEF WorkersOK
    <2>4. AttemptsOK'
      <3>1. \A r \in Requests : pc'[r] = pc[r] \/ pc'[r] = "leaving"
        BY <2>1 DEF RequestsOK
      <3>2. UNCHANGED <<tools, attempts, bounced>>
        BY <2>1
      <3> QED BY <3>1, <3>2 DEF AttemptsOK, Holding
    <2> QED BY <2>2, <2>3, <2>4
  <1> QED BY <1>2, <1>3, <1>4

\* The steps of watchers, clients, processes and Retire.
LEMMA OthersKeepPlaces ==
    ASSUME PlaceInv,
           \/ \E q \in Requests : \/ Cancel(q)
                                  \/ \E w \in Workers : WatcherFires(q, w) \/ WatcherStops(q, w)
           \/ \E w \in Workers : CloseDoomed(w) \/ WorkerDies(w)
           \/ Unblock \/ Retire
    PROVE  PlaceInv'
  <1> USE DEF PlaceInv, settings, requestVars, routeVars, poolVars, watchVars
  <1>1. UNCHANGED <<settings, pc, slots, attempts, bounced, held, used>>
    BY DEF Cancel, WatcherFires, WatcherStops, CloseDoomed, WorkerDies, Unblock, Retire
  <1>2. /\ cancelled' \subseteq Requests /\ blocked' \in BOOLEAN /\ retired' \in BOOLEAN
    BY DEF RequestsOK, Cancel, WatcherFires, WatcherStops, CloseDoomed, WorkerDies,
       Unblock, Retire
  <1>3. /\ open' \subseteq open /\ watching' \cup late' \subseteq watching \cup late
        /\ dead' \subseteq used
    BY DEF WorkersOK, Cancel, WatcherFires, WatcherStops, CloseDoomed, WorkerDies,
       Unblock, Retire
  <1>4. idle' \in Seq(used) /\ doomed' \subseteq used
    <2>1. CASE Retire
      BY <2>1 DEF WorkersOK, Retire, Idle, ToSet
    <2>2. CASE ~Retire
      BY <2>2 DEF WorkersOK, Cancel, WatcherFires, WatcherStops, CloseDoomed, WorkerDies,
         Unblock
    <2> QED BY <2>1, <2>2
  <1>5. RequestsOK' /\ AttemptsOK'
    BY <1>1, <1>2 DEF RequestsOK, AttemptsOK
  <1>6. WorkersOK'
    BY <1>1, <1>3, <1>4 DEF WorkersOK
  <1> QED BY <1>5, <1>6

LEMMA StepKeepsPlaces == PlaceInv /\ [Next]_vars => PlaceInv'
  <1> SUFFICES ASSUME PlaceInv, [Next]_vars PROVE PlaceInv'
    OBVIOUS
  <1>1. ASSUME NEW q \in Requests,
               \/ TakeSlot(q) \/ GiveUpQueued(q) \/ Choose(q)
               \/ DirectUnauthorized(q) \/ DirectUnavailable(q)
               \/ DirectFails(q) \/ DirectStreams(q) \/ StreamEnds(q)
               \/ AcquireRetired(q) \/ FreeSlot(q)
        PROVE  PlaceInv'
    BY <1>1, QueueKeepsPlaces
  <1>2. ASSUME NEW q \in Requests,
               \/ AcquireIdle(q) \/ CreateSucceeds(q) \/ CreateFails(q)
               \/ \E w \in Workers : AcquireCreates(q, w)
        PROVE  PlaceInv'
    BY <1>2, AcquireKeepsPlaces
  <1>3. ASSUME NEW q \in Requests,
               StartTurn(q) \/ RunFails(q) \/ Complete(q) \/ ReturnWorker(q) \/ CloseHeld(q)
        PROVE  PlaceInv'
    BY <1>3, RunKeepsPlaces
  <1>4. ASSUME \/ \E q \in Requests :
                      \/ Cancel(q)
                      \/ \E w \in Workers : WatcherFires(q, w) \/ WatcherStops(q, w)
               \/ \E w \in Workers : CloseDoomed(w) \/ WorkerDies(w)
               \/ Unblock \/ Retire
        PROVE  PlaceInv'
    BY <1>4, OthersKeepPlaces
  <1>5. CASE UNCHANGED vars
    BY <1>5 DEF vars, settings, requestVars, routeVars, poolVars, watchVars, PlaceInv,
       RequestsOK, WorkersOK, AttemptsOK
  <1> QED BY <1>1, <1>2, <1>3, <1>4, <1>5 DEF Next

LEMMA SpecKeepsPlaces == Spec => []PlaceInv
  BY InitPlaces, StepKeepsPlaces, PTL DEF Spec

\* A request is sent again only after a 502, 503 or 504 on the direct route, then
\* once, and never if it carries functions: no other answer, error or end of the
\* stream, and nothing a worker or Retire does, leads to a second execution.
THEOREM ReplayedOnlyAfterGatewayErrors == Spec => []OnlyGatewayErrorsAreReplayed
  <1>1. PlaceInv => OnlyGatewayErrorsAreReplayed
    BY DEF PlaceInv, RequestsOK, AttemptsOK, Holding, OnlyGatewayErrorsAreReplayed
  <1> QED BY SpecKeepsPlaces, <1>1, PTL

-----------------------------------------------------------------------------
(* Slots and workers.  A request holds at most one worker and a slot with  *)
(* it, and an idle worker was given back with a slot: the stack only grows *)
(* by what the holders lose, and a start empties it.                       *)

CountInv == SlotsExact /\ WorkersWithinLimit

LEMMA CountOneMember ==
    ASSUME NEW S, NEW T, NEW q, IsFiniteSet(S), T \ {q} = S \ {q}
    PROVE  /\ Cardinality(T) \in Nat /\ Cardinality(S) \in Nat
           /\ (q \in S <=> q \in T) => Cardinality(T) = Cardinality(S)
           /\ q \in S /\ q \notin T => Cardinality(T) = Cardinality(S) - 1
           /\ q \notin S /\ q \in T => Cardinality(T) = Cardinality(S) + 1
  <1>1. CASE q \in S <=> q \in T
    <2>1. T = S
      BY <1>1
    <2> QED BY <1>1, <2>1, FS_CardinalityType
  <1>2. CASE q \in S /\ q \notin T
    <2>1. T = S \ {q}
      BY <1>2
    <2> QED BY <1>2, <2>1, FS_RemoveElement, FS_CardinalityType
  <1>3. CASE q \notin S /\ q \in T
    <2>1. T = S \cup {q}
      BY <1>3
    <2> QED BY <1>3, <2>1, FS_AddElement, FS_CardinalityType
  <1> QED BY <1>1, <1>2, <1>3

\* Who holds a worker holds a slot, and a step of q moves only q.
LEMMA SeatsOf ==
    ASSUME NEW H, NEW S, NEW places,
           H = {q \in Requests : places[q] \in Holding},
           S = {q \in Requests : places[q] \in SlotOnly \cup Holding}
    PROVE  /\ IsFiniteSet(S) /\ IsFiniteSet(H)
           /\ Cardinality(H) \in Nat /\ Cardinality(S) \in Nat
           /\ Cardinality(H) <= Cardinality(S)
  <1>1. H \subseteq S /\ S \subseteq Requests
    OBVIOUS
  <1> QED BY <1>1, CodexAssumption, FS_Subset, FS_CardinalityType

LEMMA HoldersAreSeated ==
    ASSUME RequestsOK
    PROVE  /\ IsFiniteSet(Seated) /\ IsFiniteSet(Holders)
           /\ Cardinality(Holders) \in Nat /\ Cardinality(Seated) \in Nat
           /\ Cardinality(Holders) <= Cardinality(Seated)
  <1>1. Holders = {q \in Requests : pc[q] \in Holding}
    BY DEF RequestsOK, Holders
  <1> QED BY <1>1, SeatsOf DEF Seated

LEMMA HoldersStaySeated ==
    ASSUME RequestsOK'
    PROVE  /\ Cardinality(Holders') \in Nat /\ Cardinality(Seated') \in Nat
           /\ Cardinality(Holders') <= Cardinality(Seated')
  <1>1. Holders' = {q \in Requests : pc'[q] \in Holding}
    BY DEF RequestsOK, Holders
  <1>2. Seated' = {q \in Requests : pc'[q] \in SlotOnly \cup Holding}
    BY DEF Seated
  <1> QED BY <1>1, <1>2, SeatsOf

LEMMA MovesOnly ==
    ASSUME RequestsOK, RequestsOK', NEW q \in Requests,
           NEW place, pc' = [pc EXCEPT ![q] = place]
    PROVE  Holders' \ {q} = Holders \ {q} /\ Seated' \ {q} = Seated \ {q}
  <1>1. /\ Holders = {r \in Requests : pc[r] \in Holding}
        /\ Holders' = {r \in Requests : pc'[r] \in Holding}
    BY DEF RequestsOK, Holders
  <1> QED BY <1>1 DEF Seated, RequestsOK

LEMMA InitCounts == Init => CountInv
  <1> SUFFICES ASSUME Init PROVE CountInv
    OBVIOUS
  <1>1. Holders = {} /\ Seated = {}
    BY DEF Init, Holders, Seated, SlotOnly, Holding
  <1>2. Cardinality(Holders) = 0 /\ Cardinality(Seated) = 0 /\ Len(idle) = 0
    BY <1>1, FS_EmptySet DEF Init
  <1>3. limit \in Nat /\ slots = 0
    BY CodexAssumption DEF Init
  <1> QED BY <1>2, <1>3 DEF CountInv, SlotsExact, WorkersWithinLimit

\* TakeSlot and FreeSlot are the two ends of a request.
LEMMA QueueKeepsCounts ==
    ASSUME NEW q \in Requests, PlaceInv, PlaceInv', CountInv,
           \/ TakeSlot(q) \/ GiveUpQueued(q) \/ Choose(q)
           \/ DirectUnauthorized(q) \/ DirectUnavailable(q)
           \/ DirectFails(q) \/ DirectStreams(q) \/ StreamEnds(q)
           \/ AcquireRetired(q) \/ FreeSlot(q)
    PROVE  CountInv'
  <1> USE DEF settings, poolVars, watchVars, GoesTo
  <1>1. limit' = limit /\ idle' = idle /\ held' = held
    BY DEF TakeSlot, GiveUpQueued, Choose, DirectUnauthorized, DirectUnavailable,
       DirectFails, DirectStreams, StreamEnds, AcquireRetired, FreeSlot
  <1>2. WorkersWithinLimit'
    BY <1>1 DEF CountInv, WorkersWithinLimit, Holders
  <1>3. PICK place : pc' = [pc EXCEPT ![q] = place]
    BY DEF TakeSlot, GiveUpQueued, Choose, DirectUnauthorized, DirectUnavailable,
       DirectFails, DirectStreams, StreamEnds, AcquireRetired, FreeSlot
  <1>4. PICK s \in Nat : s = Cardinality(Seated)
    BY HoldersAreSeated DEF PlaceInv
  <1>5. PICK t \in Nat : t = Cardinality(Seated')
    BY HoldersStaySeated DEF PlaceInv
  <1>6. /\ (q \in Seated <=> q \in Seated') => t = s
        /\ q \in Seated /\ q \notin Seated' => t = s - 1
        /\ q \notin Seated /\ q \in Seated' => t = s + 1
    BY <1>3, <1>4, <1>5, MovesOnly, HoldersAreSeated, CountOneMember DEF PlaceInv
  <1>7. s = slots /\ limit \in Nat /\ s <= limit
    BY <1>4, CodexAssumption DEF CountInv, SlotsExact, PlaceInv, RequestsOK
  <1>8. CASE TakeSlot(q)
    <2>1. q \notin Seated /\ q \in Seated' /\ slots' = slots + 1 /\ slots < limit
      BY <1>8 DEF TakeSlot, Seated, SlotOnly, Holding, PlaceInv, RequestsOK
    <2> QED BY <1>1, <1>2, <1>5, <1>6, <1>7, <2>1 DEF CountInv, SlotsExact
  <1>9. CASE FreeSlot(q)
    <2>1. q \in Seated /\ q \notin Seated' /\ slots' = slots - 1
      BY <1>9 DEF FreeSlot, Seated, SlotOnly, Holding, PlaceInv, RequestsOK
    <2> QED BY <1>1, <1>2, <1>5, <1>6, <1>7, <2>1 DEF CountInv, SlotsExact
  <1>10. CASE \/ GiveUpQueued(q) \/ Choose(q)
              \/ DirectUnauthorized(q) \/ DirectUnavailable(q)
              \/ DirectFails(q) \/ DirectStreams(q) \/ StreamEnds(q)
              \/ AcquireRetired(q)
    <2>1. slots' = slots
      BY <1>10 DEF GiveUpQueued, Choose, DirectUnauthorized, DirectUnavailable,
         DirectFails, DirectStreams, StreamEnds, AcquireRetired
    <2>2. q \in Seated <=> q \in Seated'
      BY <1>10 DEF GiveUpQueued, Choose, DirectUnauthorized, DirectUnavailable,
         DirectFails, DirectStreams, StreamEnds, AcquireRetired, Seated, SlotOnly,
         Holding, PlaceInv, RequestsOK
    <2> QED BY <1>1, <1>2, <1>5, <1>6, <1>7, <2>1, <2>2 DEF CountInv, SlotsExact
  <1> QED BY <1>8, <1>9, <1>10

\* A worker changes hands; the request keeps its slot.
LEMMA WorkerStepsKeepCounts ==
    ASSUME NEW q \in Requests, PlaceInv, PlaceInv', CountInv,
           \/ AcquireIdle(q) \/ CreateSucceeds(q) \/ CreateFails(q)
           \/ \E w \in Workers : AcquireCreates(q, w)
           \/ StartTurn(q) \/ RunFails(q) \/ Complete(q) \/ ReturnWorker(q) \/ CloseHeld(q)
    PROVE  CountInv'
  <1> USE DEF settings, poolVars, watchVars, GoesTo
  <1>1. limit' = limit /\ slots' = slots
    BY DEF AcquireIdle, CreateSucceeds, CreateFails, AcquireCreates, StartTurn, RunFails,
       Complete, ReturnWorker, CloseHeld
  <1>2. PICK place \in {"leaving"} \cup Holding :
            pc' = [pc EXCEPT ![q] = place] /\ pc[q] \in {"acquiring"} \cup Holding
    BY DEF AcquireIdle, CreateSucceeds, CreateFails, AcquireCreates, StartTurn, RunFails,
       Complete, ReturnWorker, CloseHeld, Holding
  <1>3. Seated' = Seated
    BY <1>2 DEF Seated, SlotOnly, PlaceInv, RequestsOK
  <1>4. SlotsExact'
    BY <1>1, <1>3 DEF CountInv, SlotsExact
  <1>5. PICK n \in Nat : n = Len(idle)
    BY DEF PlaceInv, WorkersOK
  <1>6. PICK h \in Nat : h = Cardinality(Holders)
    BY HoldersAreSeated DEF PlaceInv
  <1>7. PICK g \in Nat : g = Cardinality(Holders') /\ g <= Cardinality(Seated')
    BY HoldersStaySeated DEF PlaceInv
  <1>8. /\ (q \in Holders <=> q \in Holders') => g = h
        /\ q \in Holders /\ q \notin Holders' => g = h - 1
        /\ q \notin Holders /\ q \in Holders' => g = h + 1
    BY <1>2, <1>6, <1>7, MovesOnly, HoldersAreSeated, CountOneMember DEF PlaceInv
  <1>9. limit \in Nat /\ n + h <= limit
    BY <1>5, <1>6, CodexAssumption DEF CountInv, WorkersWithinLimit, PlaceInv, RequestsOK
  <1>10. /\ q \in Holders <=> pc[q] \in Holding
         /\ q \in Holders' <=> pc'[q] \in Holding
    BY DEF PlaceInv, RequestsOK, Holders
  <1>11. CASE AcquireIdle(q)
    <2>1. PICK k \in 1..n : idle' = SubSeq(idle, 1, k - 1)
      BY <1>5, <1>11 DEF AcquireIdle, PlaceInv, WorkersOK
    <2>2. Len(idle') = k - 1
      BY <1>5, <2>1 DEF PlaceInv, WorkersOK
    <2>3. g = h + 1
      BY <1>8, <1>10, <1>11 DEF AcquireIdle, Holding, PlaceInv, RequestsOK
    <2> QED BY <1>1, <1>4, <1>7, <1>9, <2>2, <2>3 DEF CountInv, WorkersWithinLimit
  <1>12. CASE \E w \in Workers : AcquireCreates(q, w)
    <2>1. Len(idle') = 0
      BY <1>12 DEF AcquireCreates
    <2>2. g <= limit
      BY <1>1, <1>4, <1>7, <1>9 DEF SlotsExact
    <2> QED BY <1>1, <1>4, <1>7, <2>1, <2>2 DEF CountInv, WorkersWithinLimit
  <1>13. CASE ReturnWorker(q)
    <2>1. Len(idle') = n + 1
      BY <1>5, <1>13 DEF ReturnWorker, PlaceInv, RequestsOK, WorkersOK, Holding
    <2>2. q \in Holders /\ q \notin Holders'
      BY <1>10, <1>13 DEF ReturnWorker, Holding, PlaceInv, RequestsOK
    <2> QED BY <1>1, <1>4, <1>7, <1>8, <1>9, <2>1, <2>2 DEF CountInv, WorkersWithinLimit
  <1>14. CASE \/ CreateSucceeds(q) \/ CreateFails(q) \/ StartTurn(q) \/ RunFails(q)
              \/ Complete(q) \/ CloseHeld(q)
    <2>1. idle' = idle /\ q \in Holders
      BY <1>10, <1>14 DEF CreateSucceeds, CreateFails, StartTurn, RunFails, Complete,
         CloseHeld, Holding
    <2>2. g <= h
      BY <1>8, <2>1
    <2> QED BY <1>1, <1>4, <1>5, <1>7, <1>9, <2>1, <2>2 DEF CountInv, WorkersWithinLimit
  <1> QED BY <1>11, <1>12, <1>13, <1>14

LEMMA OthersKeepCounts ==
    ASSUME PlaceInv, CountInv,
           \/ \E q \in Requests : \/ Cancel(q)
                                  \/ \E w \in Workers : WatcherFires(q, w) \/ WatcherStops(q, w)
           \/ \E w \in Workers : CloseDoomed(w) \/ WorkerDies(w)
           \/ Unblock \/ Retire \/ UNCHANGED vars
    PROVE  CountInv'
  <1> USE DEF settings, requestVars, poolVars, watchVars
  <1>1. UNCHANGED <<limit, pc, slots, held>>
    BY DEF Cancel, WatcherFires, WatcherStops, CloseDoomed, WorkerDies, Unblock, Retire,
       vars
  <1>2. idle' = idle \/ idle' = <<>>
    BY DEF Cancel, WatcherFires, WatcherStops, CloseDoomed, WorkerDies, Unblock, Retire,
       vars
  <1>3. PICK n \in Nat, h \in Nat : n = Len(idle) /\ h = Cardinality(Holders)
    BY HoldersAreSeated DEF PlaceInv, WorkersOK
  <1>4. limit \in Nat /\ n + h <= limit
    BY <1>3, CodexAssumption DEF CountInv, WorkersWithinLimit, PlaceInv, RequestsOK
  <1>5. Cardinality(Holders') = h /\ SlotsExact'
    BY <1>1, <1>3 DEF Holders, SlotsExact, Seated, CountInv
  <1>6. PICK m \in Nat : m = Len(idle') /\ m <= n
    BY <1>2, <1>3
  <1> QED BY <1>1, <1>4, <1>5, <1>6 DEF CountInv, WorkersWithinLimit

LEMMA StepKeepsCounts ==
    PlaceInv /\ PlaceInv' /\ CountInv /\ [Next]_vars => CountInv'
  <1> SUFFICES ASSUME PlaceInv, PlaceInv', CountInv, [Next]_vars PROVE CountInv'
    OBVIOUS
  <1>1. ASSUME NEW q \in Requests,
               \/ TakeSlot(q) \/ GiveUpQueued(q) \/ Choose(q)
               \/ DirectUnauthorized(q) \/ DirectUnavailable(q)
               \/ DirectFails(q) \/ DirectStreams(q) \/ StreamEnds(q)
               \/ AcquireRetired(q) \/ FreeSlot(q)
        PROVE  CountInv'
    BY <1>1, QueueKeepsCounts
  <1>2. ASSUME NEW q \in Requests,
               \/ AcquireIdle(q) \/ CreateSucceeds(q) \/ CreateFails(q)
               \/ \E w \in Workers : AcquireCreates(q, w)
               \/ StartTurn(q) \/ RunFails(q) \/ Complete(q) \/ ReturnWorker(q)
               \/ CloseHeld(q)
        PROVE  CountInv'
    BY <1>2, WorkerStepsKeepCounts
  <1>3. ASSUME \/ \E q \in Requests :
                      \/ Cancel(q)
                      \/ \E w \in Workers : WatcherFires(q, w) \/ WatcherStops(q, w)
               \/ \E w \in Workers : CloseDoomed(w) \/ WorkerDies(w)
               \/ Unblock \/ Retire \/ UNCHANGED vars
        PROVE  CountInv'
    BY <1>3, OthersKeepCounts
  <1> QED BY <1>1, <1>2, <1>3 DEF Next

LEMMA SpecKeepsCounts == Spec => []CountInv
  BY SpecKeepsPlaces, InitCounts, StepKeepsCounts, PTL DEF Spec

\* Type correctness of the adapter; the slot channel holds exactly the requests
\* between Start's select and the deferred receive.
THEOREM CodexTypeCorrect == Spec => []CodexTypeOK
  <1>1. PlaceInv /\ CountInv => CodexTypeOK
    BY DEF PlaceInv, CountInv, CodexTypeOK
  <1> QED BY SpecKeepsPlaces, SpecKeepsCounts, <1>1, PTL

\* Never more worker processes than max_concurrency, idle ones included.
THEOREM WorkersStayWithinLimit == Spec => []WorkersWithinLimit
  <1>1. CountInv => WorkersWithinLimit
    BY DEF CountInv
  <1> QED BY SpecKeepsCounts, <1>1, PTL

-----------------------------------------------------------------------------
(* Owners.  Retire finds nothing left to close from before.                *)

OwnerInv == EveryProcessHasOneOwner /\ (~retired => doomed = {})

\* What a worker needs that q is to hold instead of any it holds.
LEMMA HolderGetsWorker ==
    ASSUME RequestsOK, OwnerInv, NEW q \in Requests, NEW w,
           q \notin Holders, w # NoWorker, \A r \in Holders : held[r] # w,
           held' = [held EXCEPT ![q] = w],
           w \notin Idle' \cup doomed', Idle' \subseteq Idle, doomed' = doomed
    PROVE  /\ Idle' \cap doomed' = {}
           /\ \A r \in Holders' : held'[r] \notin Idle' \cup doomed'
           /\ \A p, r \in Holders' : held'[p] = held'[r] => p = r
  <1>1. Holders' = Holders \cup {q} /\ held'[q] = w
        /\ \A r \in Requests \ {q} : held'[r] = held[r]
    BY DEF RequestsOK, Holders
  <1> QED BY <1>1 DEF OwnerInv, EveryProcessHasOneOwner, Holders

\* An idle worker, or one nobody has started before, comes to q.
LEMMA AcquireKeepsOwners ==
    ASSUME NEW q \in Requests, PlaceInv, OwnerInv,
           AcquireIdle(q) \/ \E w \in Workers : AcquireCreates(q, w)
    PROVE  OwnerInv'
  <1> USE CodexAssumption DEF Takes, GoesTo
  <1>1. q \notin Holders /\ ~retired /\ retired' = retired /\ doomed' = doomed
    BY DEF AcquireIdle, AcquireCreates, PlaceInv, RequestsOK, Holding, Holders
  <1>2. CASE AcquireIdle(q)
    <2>1. PICK n \in Nat : n = Len(idle) /\ DOMAIN idle = 1..n
      BY DEF PlaceInv, WorkersOK
    <2>2. PICK k \in 1..n :
              /\ \A j \in k + 1 .. n : idle[j] \notin open
              /\ idle' = SubSeq(idle, 1, k - 1) /\ held' = [held EXCEPT ![q] = idle[k]]
              /\ open' = open
      BY <1>2, <2>1 DEF AcquireIdle
    <2>3. DOMAIN idle' = 1..(k - 1) /\ \A i \in 1..(k - 1) : idle'[i] = idle[i]
      BY <2>1, <2>2 DEF PlaceInv, WorkersOK
    <2>4. /\ Idle = {idle[i] : i \in 1..n}
          /\ Idle' = {idle[i] : i \in 1..(k - 1)}
      BY <2>1, <2>3 DEF Idle, ToSet
    <2>5. \A a, b \in 1..n : idle[a] = idle[b] => a = b
      BY <2>1 DEF OwnerInv, EveryProcessHasOneOwner, IsInjective
    <2>6. IsInjective(idle')
      BY <2>3, <2>5 DEF IsInjective
    <2>7. idle[k] \in used /\ idle[k] # NoWorker
      <3>1. idle \in Seq(used) /\ k \in DOMAIN idle
        BY <2>1 DEF PlaceInv, WorkersOK
      <3>2. idle[k] \in used
        BY <3>1
      <3> QED BY <3>2 DEF PlaceInv, WorkersOK
    <2>8. Idle' \subseteq Idle /\ idle[k] \in Idle /\ idle[k] \notin Idle'
      BY <2>4, <2>5
    <2>9. idle[k] \notin doomed /\ \A r \in Holders : held[r] # idle[k]
      BY <2>8 DEF OwnerInv, EveryProcessHasOneOwner
    <2>10. /\ Idle' \cap doomed' = {}
           /\ \A r \in Holders' : held'[r] \notin Idle' \cup doomed'
           /\ \A p, r \in Holders' : held'[p] = held'[r] => p = r
      BY <1>1, <2>2, <2>7, <2>8, <2>9, HolderGetsWorker DEF PlaceInv
    <2>11. \A w \in open \cap Idle : w \in Idle' \/ w = idle[k]
      <3>1. ASSUME NEW i \in 1..n, idle[i] \in open PROVE i \in 1..(k - 1) \/ i = k
        BY <2>2, <3>1
      <3> QED BY <2>4, <3>1
    <2>12. open' \subseteq doomed' \cup {held'[r] : r \in Requests} \cup Idle'
      <3>1. /\ held'[q] = idle[k]
            /\ \A r \in Requests : held[r] # NoWorker => held'[r] = held[r]
        BY <1>1, <2>2 DEF PlaceInv, RequestsOK, Holders
      <3>2. open \subseteq doomed \cup {held[r] : r \in Requests} \cup Idle
        BY <1>1 DEF OwnerInv, EveryProcessHasOneOwner
      <3>3. NoWorker \notin open
        BY DEF PlaceInv, WorkersOK
      <3> QED BY <1>1, <2>2, <2>11, <3>1, <3>2, <3>3
    <2> QED BY <1>1, <2>6, <2>10, <2>12 DEF OwnerInv, EveryProcessHasOneOwner
  <1>3. ASSUME NEW w \in Workers, AcquireCreates(q, w) PROVE OwnerInv'
    <2>1. /\ w \notin used /\ idle' = <<>> /\ open' = open \cup {w}
          /\ held' = [held EXCEPT ![q] = w] /\ Idle \cap open = {}
      BY <1>3 DEF AcquireCreates
    <2>2. Idle' = {} /\ IsInjective(idle')
      BY <2>1 DEF Idle, ToSet, IsInjective
    <2>3. w # NoWorker /\ w \notin doomed /\ \A r \in Holders : held[r] # w
      BY <2>1 DEF PlaceInv, RequestsOK, WorkersOK, Holders
    <2>4. /\ Idle' \cap doomed' = {}
          /\ \A r \in Holders' : held'[r] \notin Idle' \cup doomed'
          /\ \A p, r \in Holders' : held'[p] = held'[r] => p = r
      BY <1>1, <2>1, <2>2, <2>3, HolderGetsWorker DEF PlaceInv
    <2>5. open' \subseteq doomed' \cup {held'[r] : r \in Requests}
      <3>1. /\ held'[q] = w
            /\ \A r \in Requests : held[r] # NoWorker => held'[r] = held[r]
        BY <1>1, <2>1 DEF PlaceInv, RequestsOK, Holders
      <3>2. open \subseteq doomed \cup {held[r] : r \in Requests}
        BY <1>1, <2>1 DEF OwnerInv, EveryProcessHasOneOwner
      <3>3. NoWorker \notin open
        BY DEF PlaceInv, WorkersOK
      <3> QED BY <1>1, <2>1, <3>1, <3>2, <3>3
    <2> QED BY <1>1, <2>2, <2>4, <2>5 DEF OwnerInv, EveryProcessHasOneOwner
  <1> QED BY <1>2, <1>3

\* q gives its worker back to the stack, or its process is closed.
LEMMA GivingUpKeepsOwners ==
    ASSUME NEW q \in Requests, PlaceInv, OwnerInv,
           CreateFails(q) \/ ReturnWorker(q) \/ CloseHeld(q)
    PROVE  OwnerInv'
  <1> USE CodexAssumption DEF Takes, GoesTo
  <1>1. q \in Holders /\ held[q] \in used /\ held' = [held EXCEPT ![q] = NoWorker]
        /\ retired' = retired /\ doomed' = doomed
    BY DEF CreateFails, ReturnWorker, CloseHeld, PlaceInv, RequestsOK, Holding, Holders
  <1>2. Holders' = Holders \ {q} /\ \A r \in Requests \ {q} : held'[r] = held[r]
    BY <1>1 DEF PlaceInv, RequestsOK, Holders
  <1>3. \A p, r \in Holders' : held'[p] = held'[r] => p = r
    BY <1>2 DEF OwnerInv, EveryProcessHasOneOwner, Holders
  <1>4. CASE CreateFails(q) \/ CloseHeld(q)
    <2>1. idle' = idle /\ open' = open \ {held[q]}
      BY <1>4 DEF CreateFails, CloseHeld
    <2>2. open' \subseteq doomed' \cup {held'[r] : r \in Requests}
                         \cup (IF retired' THEN {} ELSE Idle')
      BY <1>1, <1>2, <2>1 DEF OwnerInv, EveryProcessHasOneOwner, Idle
    <2> QED BY <1>1, <1>2, <1>3, <2>1, <2>2 DEF OwnerInv, EveryProcessHasOneOwner, Idle, Holders
  <1>5. CASE ReturnWorker(q)
    <2>1. ~retired /\ idle' = Append(idle, held[q]) /\ open' = open
      BY <1>5 DEF ReturnWorker
    <2>2. PICK n \in Nat : n = Len(idle) /\ DOMAIN idle = 1..n
      BY DEF PlaceInv, WorkersOK
    <2>3. /\ DOMAIN idle' = 1..(n + 1) /\ idle'[n + 1] = held[q]
          /\ \A i \in 1..n : idle'[i] = idle[i]
      BY <1>1, <2>1, <2>2 DEF PlaceInv, WorkersOK
    <2>4. Idle' = Idle \cup {held[q]}
      <3>1. Idle = {idle[i] : i \in 1..n} /\ Idle' = {idle'[i] : i \in 1..(n + 1)}
        BY <2>2, <2>3 DEF Idle, ToSet
      <3>2. \A i \in 1..(n + 1) : i \in 1..n \/ i = n + 1
        OBVIOUS
      <3>3. \A i \in 1..n : i \in 1..(n + 1)
        OBVIOUS
      <3>4. n + 1 \in 1..(n + 1)
        OBVIOUS
      <3> QED BY <2>3, <3>1, <3>2, <3>3, <3>4
    <2>5. IsInjective(idle')
      <3>1. \A i \in 1..n : idle[i] # held[q]
        BY <1>1, <2>2 DEF OwnerInv, EveryProcessHasOneOwner, Idle, ToSet
      <3>2. \A a, b \in 1..n : idle[a] = idle[b] => a = b
        BY <2>2 DEF OwnerInv, EveryProcessHasOneOwner, IsInjective
      <3>3. \A i \in 1..(n + 1) : i \in 1..n \/ i = n + 1
        OBVIOUS
      <3> QED BY <2>3, <3>1, <3>2, <3>3 DEF IsInjective
    <2>6. Idle' \cap doomed' = {} /\ \A r \in Holders' : held'[r] \notin Idle' \cup doomed'
      BY <1>1, <1>2, <2>4 DEF OwnerInv, EveryProcessHasOneOwner, Holders
    <2>7. open' \subseteq doomed' \cup {held'[r] : r \in Requests} \cup Idle'
      BY <1>1, <1>2, <2>1, <2>4 DEF OwnerInv, EveryProcessHasOneOwner
    <2> QED BY <1>1, <1>3, <2>1, <2>5, <2>6, <2>7 DEF OwnerInv, EveryProcessHasOneOwner
  <1> QED BY <1>4, <1>5

LEMMA RetireKeepsOwners ==
    ASSUME PlaceInv, OwnerInv, Retire \/ \E w \in Workers : CloseDoomed(w)
    PROVE  OwnerInv'
  <1> USE DEF settings, requestVars, watchVars, EveryProcessHasOneOwner
  <1>1. CASE Retire
    <2>1. Idle' = {} /\ IsInjective(idle')
      BY <1>1 DEF Retire, Idle, ToSet, IsInjective
    <2>2. ~retired /\ retired' /\ doomed = {} /\ doomed' = Idle /\ held' = held /\ open' = open
          /\ Holders' = Holders
      BY <1>1 DEF Retire, OwnerInv, Holders
    <2> QED BY <2>1, <2>2 DEF OwnerInv
  <1>2. ASSUME NEW w \in Workers, CloseDoomed(w) PROVE OwnerInv'
    <2>1. /\ doomed' = doomed \ {w} /\ open' = open \ {w}
          /\ UNCHANGED <<held, idle, retired>> /\ Holders' = Holders /\ Idle' = Idle
      BY <1>2 DEF CloseDoomed, Holders, Idle
    <2> QED BY <2>1 DEF OwnerInv
  <1> QED BY <1>1, <1>2

LEMMA StepKeepsOwners == PlaceInv /\ OwnerInv /\ [Next]_vars => OwnerInv'
  <1> SUFFICES ASSUME PlaceInv, OwnerInv, [Next]_vars PROVE OwnerInv'
    OBVIOUS
  <1>1. ASSUME UNCHANGED <<held, idle, retired, doomed>>, open' \subseteq open
        PROVE  OwnerInv'
    <2>1. Holders' = Holders /\ Idle' = Idle
      BY <1>1 DEF Holders, Idle
    <2> QED BY <1>1, <2>1 DEF OwnerInv, EveryProcessHasOneOwner
  <1>2. ASSUME NEW q \in Requests,
               \/ TakeSlot(q) \/ GiveUpQueued(q) \/ Choose(q)
               \/ DirectUnauthorized(q) \/ DirectUnavailable(q)
               \/ DirectFails(q) \/ DirectStreams(q) \/ StreamEnds(q)
               \/ AcquireRetired(q) \/ FreeSlot(q)
        PROVE  OwnerInv'
    BY <1>1, <1>2 DEF TakeSlot, GiveUpQueued, Choose, DirectUnauthorized,
       DirectUnavailable, DirectFails, DirectStreams, StreamEnds, AcquireRetired, FreeSlot,
       poolVars
  <1>3. ASSUME NEW q \in Requests,
               CreateSucceeds(q) \/ StartTurn(q) \/ RunFails(q) \/ Complete(q)
        PROVE  OwnerInv'
    BY <1>1, <1>3 DEF CreateSucceeds, StartTurn, RunFails, Complete, poolVars
  <1>4. ASSUME NEW q \in Requests,
               AcquireIdle(q) \/ \E w \in Workers : AcquireCreates(q, w)
        PROVE  OwnerInv'
    BY <1>4, AcquireKeepsOwners
  <1>5. ASSUME NEW q \in Requests, CreateFails(q) \/ ReturnWorker(q) \/ CloseHeld(q)
        PROVE  OwnerInv'
    BY <1>5, GivingUpKeepsOwners
  <1>6. ASSUME Retire \/ \E w \in Workers : CloseDoomed(w)
        PROVE  OwnerInv'
    BY <1>6, RetireKeepsOwners
  <1>7. ASSUME \/ \E q \in Requests :
                      \/ Cancel(q)
                      \/ \E w \in Workers : WatcherFires(q, w) \/ WatcherStops(q, w)
               \/ \E w \in Workers : WorkerDies(w)
               \/ Unblock \/ UNCHANGED vars
        PROVE  OwnerInv'
    BY <1>1, <1>7 DEF Cancel, WatcherFires, WatcherStops, WorkerDies, Unblock, vars, poolVars
  <1> QED BY <1>2, <1>3, <1>4, <1>5, <1>6, <1>7 DEF Next

LEMMA SpecKeepsOwners == Spec => []OwnerInv
  <1>1. Init => OwnerInv
    <2> SUFFICES ASSUME Init PROVE OwnerInv
      OBVIOUS
    <2>1. open = {} /\ Holders = {} /\ Idle = {} /\ doomed = {} /\ IsInjective(idle)
      BY DEF Init, Holders, Idle, ToSet, IsInjective
    <2> QED BY <2>1 DEF OwnerInv, EveryProcessHasOneOwner
  <1> QED BY <1>1, SpecKeepsPlaces, StepKeepsOwners, PTL DEF Spec

\* No running worker process is forgotten, and none is shared.
THEOREM ProcessesHaveOneOwner == Spec => []EveryProcessHasOneOwner
  <1>1. OwnerInv => EveryProcessHasOneOwner
    BY DEF OwnerInv
  <1> QED BY <1>1, SpecKeepsOwners, PTL

-----------------------------------------------------------------------------
(* The refinement of WorkerLease.                                          *)

LeaseStage(q) == IF q \in Holders THEN "lent"
                 ELSE IF pc[q] \in {"leaving", "done"} THEN "over" ELSE "new"

Loans == {<<q, held[q]>> : q \in Holders}

LEMMA SameCardinality == \A S : Lease!Cardinality(S) = Cardinality(S)
  BY ZenonT(20) DEF Lease!Cardinality, Cardinality

LEMMA LoansAreCounted ==
    ASSUME RequestsOK
    PROVE  Cardinality(Loans) \in Nat /\ Cardinality(Loans) <= Cardinality(Holders)
  <1> DEFINE f == [q \in Holders |-> <<q, held[q]>>]
  <1>1. f \in Surjection(Holders, Loans)
    BY DEF Surjection, Loans
  <1>2. IsFiniteSet(Holders)
    BY HoldersAreSeated
  <1> QED BY <1>1, <1>2, FS_Surjection, FS_CardinalityType

\* A step that changes no request's stage or worker.
LEMMA LeaseStutters ==
    ASSUME held' = held, retired' = retired,
           \A q \in Requests : LeaseStage(q)' = LeaseStage(q)
    PROVE  UNCHANGED Lease!leaseVars
  <1>1. Loans' = Loans
    BY DEF Loans, Holders
  <1> QED BY <1>1 DEF Lease!leaseVars, LeaseStage, Loans

LEMMA LeaseRefuses ==
    ASSUME NEW q \in Requests, held' = held, retired' = retired,
           LeaseStage(q) = "new", LeaseStage(q)' = "over",
           \A r \in Requests \ {q} : LeaseStage(r)' = LeaseStage(r)
    PROVE  Lease!Refuse(q)
  <1>1. Loans' = Loans
    BY DEF Loans, Holders
  <1> QED BY <1>1 DEF Lease!Refuse, LeaseStage, Loans

LEMMA LeaseLends ==
    ASSUME PlaceInv, CountInv, CountInv', NEW q \in Requests, NEW w \in Workers,
           LeaseStage(q) = "new", ~retired, retired' = retired, limit' = limit,
           idle' \in Seq(Workers),
           held' = [held EXCEPT ![q] = w], \A r \in Holders : held[r] # w,
           \A r \in Requests \ {q} : LeaseStage(r)' = LeaseStage(r)
    PROVE  Lease!Lend(q, w)
  <1>1. q \notin Holders /\ Holders' = Holders \cup {q} /\ held'[q] = w
    BY CodexAssumption DEF LeaseStage, Holders, PlaceInv, RequestsOK
  <1>2. Loans' = Loans \cup {<<q, w>>}
    BY <1>1 DEF Loans, PlaceInv, RequestsOK, Holders
  <1>3. Cardinality(Loans) < MaxConcurrency
    <2>1. PICK h \in Nat : h = Cardinality(Holders)
      BY HoldersAreSeated DEF PlaceInv
    <2>2. Cardinality(Holders') = h + 1
      BY <1>1, <2>1, HoldersAreSeated, FS_AddElement DEF PlaceInv
    <2>3. PICK n \in Nat : n = Len(idle')
      OBVIOUS
    <2>4. n + (h + 1) <= limit /\ limit \in Nat /\ limit <= MaxConcurrency
      BY <2>2, <2>3, CodexAssumption DEF CountInv, WorkersWithinLimit, PlaceInv, RequestsOK
    <2>5. PICK l \in Nat : l = Cardinality(Loans) /\ l <= h
      BY <2>1, LoansAreCounted DEF PlaceInv
    <2> QED BY <2>4, <2>5, CodexAssumption
  <1>4. \A l \in Loans : l[2] # w
    BY DEF Loans
  <1>5. [r \in Requests |-> LeaseStage(r)'] =
            [[r \in Requests |-> LeaseStage(r)] EXCEPT ![q] = "lent"]
    BY <1>1 DEF LeaseStage
  <1>6. Lease!Lend(q, w) <=>
            /\ [r \in Requests |-> LeaseStage(r)][q] = "new"
            /\ ~retired /\ (\A l \in Loans : l[2] # w)
            /\ Cardinality(Loans) < MaxConcurrency
            /\ [r \in Requests |-> LeaseStage(r)'] =
                   [[r \in Requests |-> LeaseStage(r)] EXCEPT ![q] = "lent"]
            /\ Loans' = Loans \cup {<<q, w>>} /\ retired' = retired
    BY SameCardinality DEF Lease!Lend, LeaseStage, Loans
  <1> QED BY <1>2, <1>3, <1>4, <1>5, <1>6

LEMMA LeaseGivesBack ==
    ASSUME PlaceInv, NEW q \in Requests, q \in Holders, retired' = retired,
           held' = [held EXCEPT ![q] = NoWorker], pc' = [pc EXCEPT ![q] = "leaving"]
    PROVE  \E w \in Workers : Lease!GiveBack(q, w)
  <1>1. PICK w \in Workers : w = held[q]
    BY DEF PlaceInv, RequestsOK, WorkersOK, Holders
  <1>2. Holders' = Holders \ {q} /\ \A r \in Requests \ {q} : held'[r] = held[r]
    BY DEF PlaceInv, RequestsOK, Holders
  <1>3. Loans' = Loans \ {<<q, w>>}
    BY <1>1, <1>2 DEF Loans, Holders
  <1>4. LeaseStage(q)' = "over" /\ \A r \in Requests \ {q} : LeaseStage(r)' = LeaseStage(r)
    BY <1>2 DEF LeaseStage, PlaceInv, RequestsOK
  <1>5. [r \in Requests |-> LeaseStage(r)'] =
            [[r \in Requests |-> LeaseStage(r)] EXCEPT ![q] = "over"]
    BY <1>4
  <1>6. Lease!GiveBack(q, w) <=>
            /\ <<q, w>> \in Loans
            /\ [r \in Requests |-> LeaseStage(r)'] =
                   [[r \in Requests |-> LeaseStage(r)] EXCEPT ![q] = "over"]
            /\ Loans' = Loans \ {<<q, w>>} /\ retired' = retired
    BY DEF Lease!GiveBack, LeaseStage, Loans
  <1>7. <<q, w>> \in Loans
    BY <1>1 DEF Loans
  <1>8. Lease!GiveBack(q, w)
    BY <1>3, <1>5, <1>6, <1>7
  <1> QED BY <1>8

LeaseStep == [Lease!Next]_(Lease!leaseVars)

\* The request moves without a worker.
LEMMA QueueRefines ==
    ASSUME NEW q \in Requests, PlaceInv, PlaceInv',
           \/ TakeSlot(q) \/ GiveUpQueued(q) \/ Choose(q)
           \/ DirectUnauthorized(q) \/ DirectUnavailable(q)
           \/ DirectFails(q) \/ DirectStreams(q) \/ StreamEnds(q)
           \/ AcquireRetired(q) \/ FreeSlot(q)
    PROVE  LeaseStep
  <1> USE DEF settings, poolVars, watchVars, GoesTo
  <1>1. held' = held /\ retired' = retired
    BY DEF TakeSlot, GiveUpQueued, Choose, DirectUnauthorized, DirectUnavailable,
       DirectFails, DirectStreams, StreamEnds, AcquireRetired, FreeSlot
  <1>2. PICK place : pc' = [pc EXCEPT ![q] = place]
    BY DEF TakeSlot, GiveUpQueued, Choose, DirectUnauthorized, DirectUnavailable,
       DirectFails, DirectStreams, StreamEnds, AcquireRetired, FreeSlot
  <1>3. pc[q] \notin Holding
    BY DEF Holding, TakeSlot, GiveUpQueued, Choose, DirectUnauthorized, DirectUnavailable,
       DirectFails, DirectStreams, StreamEnds, AcquireRetired, FreeSlot
  <1>4. q \notin Holders /\ Holders' = Holders
    BY <1>1, <1>3 DEF Holders, PlaceInv, RequestsOK
  <1>5. \A r \in Requests \ {q} : LeaseStage(r)' = LeaseStage(r)
    BY <1>2, <1>4 DEF LeaseStage, PlaceInv, RequestsOK
  <1>6. pc[q] \in {"leaving", "done"} => pc'[q] \in {"leaving", "done"}
    BY DEF TakeSlot, GiveUpQueued, Choose, DirectUnauthorized, DirectUnavailable,
       DirectFails, DirectStreams, StreamEnds, AcquireRetired, FreeSlot, PlaceInv, RequestsOK
  <1>7. LeaseStage(q) # "new" => LeaseStage(q)' = LeaseStage(q)
    BY <1>4, <1>6 DEF LeaseStage
  <1>8. LeaseStage(q)' \in {"new", "over"} /\ LeaseStage(q) \in {"new", "over"}
    BY <1>4 DEF LeaseStage
  <1>9. CASE LeaseStage(q)' = LeaseStage(q)
    BY <1>1, <1>5, <1>9, LeaseStutters DEF LeaseStep
  <1>10. CASE LeaseStage(q) = "new" /\ LeaseStage(q)' = "over"
    BY <1>1, <1>5, <1>10, LeaseRefuses DEF LeaseStep, Lease!Next
  <1> QED BY <1>7, <1>8, <1>9, <1>10

LEMMA AcquireRefines ==
    ASSUME NEW q \in Requests, PlaceInv, PlaceInv', CountInv, CountInv', OwnerInv,
           AcquireIdle(q) \/ \E w \in Workers : AcquireCreates(q, w)
    PROVE  LeaseStep
  <1> USE DEF settings, poolVars, watchVars, GoesTo, Takes
  <1>1. PICK w \in Workers :
            /\ held' = [held EXCEPT ![q] = w]
            /\ \A r \in Holders : held[r] # w
    <2>1. CASE AcquireIdle(q)
      <3>1. PICK k \in DOMAIN idle : held' = [held EXCEPT ![q] = idle[k]]
        BY <2>1 DEF AcquireIdle
      <3>2. idle[k] \in Workers /\ idle[k] \in Idle
        BY <3>1 DEF PlaceInv, WorkersOK, Idle, ToSet
      <3> QED BY <3>1, <3>2 DEF OwnerInv, EveryProcessHasOneOwner
    <2>2. ASSUME NEW w \in Workers, AcquireCreates(q, w)
          PROVE  w \notin used /\ held' = [held EXCEPT ![q] = w]
      BY <2>2 DEF AcquireCreates
    <2>3. \A r \in Holders : held[r] \in used
      BY DEF PlaceInv, RequestsOK, Holders
    <2> QED BY <2>1, <2>2, <2>3
  <1>2. /\ pc[q] = "acquiring" /\ ~retired /\ retired' = retired /\ limit' = limit
        /\ \A r \in Requests \ {q} : pc'[r] = pc[r]
    BY DEF AcquireIdle, AcquireCreates, PlaceInv, RequestsOK
  <1>3. idle' \in Seq(Workers)
    <2>1. idle' \in Seq(used') /\ used' \subseteq Workers
      BY DEF PlaceInv, WorkersOK
    <2> QED BY <2>1
  <1>4. LeaseStage(q) = "new"
    BY <1>2 DEF LeaseStage, Holders, Holding, PlaceInv, RequestsOK
  <1>5. \A r \in Requests \ {q} : LeaseStage(r)' = LeaseStage(r)
    BY <1>1, <1>2 DEF LeaseStage, Holders, PlaceInv, RequestsOK
  <1> QED BY <1>1, <1>2, <1>3, <1>4, <1>5, LeaseLends DEF LeaseStep, Lease!Next

LEMMA GivingUpRefines ==
    ASSUME NEW q \in Requests, PlaceInv,
           CreateFails(q) \/ ReturnWorker(q) \/ CloseHeld(q)
    PROVE  LeaseStep
  <1> USE DEF GoesTo, Takes
  <1>1. /\ pc[q] \in Holding /\ pc' = [pc EXCEPT ![q] = "leaving"]
        /\ held' = [held EXCEPT ![q] = NoWorker] /\ retired' = retired
    BY DEF CreateFails, ReturnWorker, CloseHeld, Holding
  <1>2. q \in Holders
    BY <1>1 DEF Holders, PlaceInv, RequestsOK
  <1> QED BY <1>1, <1>2, LeaseGivesBack DEF LeaseStep, Lease!Next

\* Steps that touch no loan.
LEMMA OthersRefine ==
    ASSUME PlaceInv,
           \/ \E q \in Requests : \/ CreateSucceeds(q) \/ StartTurn(q) \/ RunFails(q)
                                  \/ Complete(q) \/ Cancel(q)
                                  \/ \E w \in Workers : WatcherFires(q, w) \/ WatcherStops(q, w)
           \/ \E w \in Workers : CloseDoomed(w) \/ WorkerDies(w)
           \/ Unblock \/ UNCHANGED vars
    PROVE  LeaseStep
  <1> USE DEF settings, requestVars, poolVars, watchVars, GoesTo
  <1>1. held' = held /\ retired' = retired
    BY DEF CreateSucceeds, StartTurn, RunFails, Complete, Cancel, WatcherFires, WatcherStops,
       CloseDoomed, WorkerDies, Unblock, vars
  <1>2. \A r \in Requests : pc[r] \notin Holding => pc'[r] = pc[r]
    BY DEF CreateSucceeds, StartTurn, RunFails, Complete, Cancel, WatcherFires, WatcherStops,
       CloseDoomed, WorkerDies, Unblock, vars, PlaceInv, RequestsOK, Holding
  <1>3. \A r \in Requests : LeaseStage(r)' = LeaseStage(r)
    BY <1>1, <1>2 DEF LeaseStage, Holders, PlaceInv, RequestsOK
  <1> QED BY <1>1, <1>3, LeaseStutters DEF LeaseStep

LEMMA RetireRefines == ASSUME Retire PROVE LeaseStep
  <1>1. held' = held /\ pc' = pc /\ retired' = TRUE
    BY DEF Retire, requestVars
  <1>2. \A r \in Requests : LeaseStage(r)' = LeaseStage(r)
    BY <1>1 DEF LeaseStage, Holders
  <1>3. Loans' = Loans
    BY <1>1 DEF Loans, Holders
  <1>4. Lease!Close
    BY <1>1, <1>2, <1>3 DEF Lease!Close, LeaseStage, Loans
  <1> QED BY <1>4 DEF LeaseStep, Lease!Next

LEMMA StepRefinesLease ==
    ASSUME PlaceInv, PlaceInv', CountInv, CountInv', OwnerInv, [Next]_vars
    PROVE  LeaseStep
  <1>1. ASSUME NEW q \in Requests,
               \/ TakeSlot(q) \/ GiveUpQueued(q) \/ Choose(q)
               \/ DirectUnauthorized(q) \/ DirectUnavailable(q)
               \/ DirectFails(q) \/ DirectStreams(q) \/ StreamEnds(q)
               \/ AcquireRetired(q) \/ FreeSlot(q)
        PROVE  LeaseStep
    BY <1>1, QueueRefines
  <1>2. ASSUME NEW q \in Requests,
               AcquireIdle(q) \/ \E w \in Workers : AcquireCreates(q, w)
        PROVE  LeaseStep
    BY <1>2, AcquireRefines
  <1>3. ASSUME NEW q \in Requests, CreateFails(q) \/ ReturnWorker(q) \/ CloseHeld(q)
        PROVE  LeaseStep
    BY <1>3, GivingUpRefines
  <1>4. ASSUME \/ \E q \in Requests :
                      \/ CreateSucceeds(q) \/ StartTurn(q) \/ RunFails(q)
                      \/ Complete(q) \/ Cancel(q)
                      \/ \E w \in Workers : WatcherFires(q, w) \/ WatcherStops(q, w)
               \/ \E w \in Workers : CloseDoomed(w) \/ WorkerDies(w)
               \/ Unblock \/ UNCHANGED vars
        PROVE  LeaseStep
    BY <1>4, OthersRefine
  <1>5. CASE Retire
    BY <1>5, RetireRefines
  <1> QED BY <1>1, <1>2, <1>3, <1>4, <1>5 DEF Next

\* Callers of the Codex adapter see the lease: a worker for one request, as many
\* as the limit at most, and no new one once the adapter is retired.
THEOREM CodexImplementsWorkerLease == Spec => ImplementsWorkerLease
  <1>1. Init => Lease!Init
    <2> SUFFICES ASSUME Init PROVE Lease!Init
      OBVIOUS
    <2>1. Holders = {}
      BY DEF Init, Holders
    <2>2. Loans = {} /\ \A q \in Requests : LeaseStage(q) = "new"
      BY <2>1 DEF Init, Loans, LeaseStage
    <2> QED BY <2>2 DEF Init, Lease!Init, Loans, LeaseStage
  <1>2. PlaceInv /\ PlaceInv' /\ CountInv /\ CountInv' /\ OwnerInv /\ [Next]_vars
            => [Lease!Next]_(Lease!leaseVars)
    BY StepRefinesLease DEF LeaseStep
  <1> QED BY <1>1, <1>2, SpecKeepsPlaces, SpecKeepsCounts, SpecKeepsOwners, PTL
          DEF Spec, ImplementsWorkerLease, Lease!Spec
=============================================================================
