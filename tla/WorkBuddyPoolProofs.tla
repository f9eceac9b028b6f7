------------------------ MODULE WorkBuddyPoolProofs ------------------------
(***************************************************************************)
(* Theorems about the worker pool for any number of requests and workers   *)
(* and any max_concurrency.                                                *)
(*                                                                         *)
(* The counters keep their types only because they are exact (a counter    *)
(* that is decremented counts somebody), and stay below the limit only     *)
(* because of both: CountInv is inductive, none of its parts is.           *)
(*                                                                         *)
(* Then who owns a worker, why no sleeper is forgotten, and the refinement *)
(* of WorkerLease.                                                         *)
(***************************************************************************)
EXTENDS WorkBuddyPool, FiniteSetTheorems, TLAPS

CountInv == TypeOK /\ CountersExact /\ CapacityRespected

\* Two finite sets that differ in one element at most.
LEMMA CountOneMember ==
    ASSUME NEW S, NEW T, NEW q, IsFiniteSet(S), T \ {q} = S \ {q}
    PROVE  /\ IsFiniteSet(T) /\ Cardinality(T) \in Nat /\ Cardinality(S) \in Nat
           /\ (q \in S <=> q \in T) => Cardinality(T) = Cardinality(S)
           /\ q \in S /\ q \notin T => Cardinality(T) = Cardinality(S) - 1
           /\ q \notin S /\ q \in T => Cardinality(T) = Cardinality(S) + 1
           /\ q \in S => Cardinality(S) > 0
           /\ q \in T => Cardinality(T) > 0
  <1>1. T = S \/ T = S \cup {q} \/ T = S \ {q}
    OBVIOUS
  <1>2. IsFiniteSet(T)
    BY <1>1, FS_AddElement, FS_RemoveElement
  <1>3. Cardinality(T) \in Nat /\ Cardinality(S) \in Nat
    BY <1>2, FS_CardinalityType
  <1>4. (q \in S <=> q \in T) => T = S
    OBVIOUS
  <1>5. q \in S /\ q \notin T => Cardinality(T) = Cardinality(S) - 1
    <2> SUFFICES ASSUME q \in S, q \notin T PROVE Cardinality(T) = Cardinality(S) - 1
      OBVIOUS
    <2>1. T = S \ {q}
      OBVIOUS
    <2> QED BY <2>1, FS_RemoveElement
  <1>6. q \notin S /\ q \in T => Cardinality(T) = Cardinality(S) + 1
    <2> SUFFICES ASSUME q \notin S, q \in T PROVE Cardinality(T) = Cardinality(S) + 1
      OBVIOUS
    <2>1. T = S \cup {q}
      OBVIOUS
    <2> QED BY <2>1, FS_AddElement
  <1>7. \A X : IsFiniteSet(X) /\ q \in X => Cardinality(X) # 0
    BY FS_EmptySet
  <1> QED BY <1>2, <1>3, <1>4, <1>5, <1>6, <1>7

\* The three tallies the counters are compared with.
Tallied(h, s, c) ==
    /\ Cardinality(Holders) = h
    /\ Cardinality(Seated) = s
    /\ Cardinality(Creators) = c

\* S counts n before a step that can only move q in or out, T counts after it.
Tally(S, T, q, n) ==
    /\ q \in S => n > 0
    /\ (q \in S <=> q \in T) => Cardinality(T) = n
    /\ q \in S /\ q \notin T => Cardinality(T) = n - 1
    /\ q \notin S /\ q \in T => Cardinality(T) = n + 1

LEMMA MoveTallies ==
    ASSUME NEW q \in Requests, pc \in [Requests -> PC], NEW place \in PC,
           pc' = [pc EXCEPT ![q] = place],
           NEW h \in Nat, NEW s \in Nat, NEW c \in Nat, Tallied(h, s, c)
    PROVE  /\ Tally(Holders, Holders', q, h)
           /\ Tally(Seated, Seated', q, s)
           /\ Tally(Creators, Creators', q, c)
  <1>1. IsFiniteSet(Holders) /\ IsFiniteSet(Seated) /\ IsFiniteSet(Creators)
    BY PoolAssumption, FS_Subset DEF Holders, Seated, Creators
  <1>2. Holders' \ {q} = Holders \ {q}
    BY DEF Holders, Holding
  <1>3. Seated' \ {q} = Seated \ {q}
    BY DEF Seated
  <1>4. Creators' \ {q} = Creators \ {q}
    BY DEF Creators
  <1> QED BY <1>1, <1>2, <1>3, <1>4, CountOneMember DEF Tally, Tallied

LEMMA TalliesExist == \E h, s, c \in Nat : Tallied(h, s, c)
  <1>1. IsFiniteSet(Holders) /\ IsFiniteSet(Seated) /\ IsFiniteSet(Creators)
    BY PoolAssumption, FS_Subset DEF Holders, Seated, Creators
  <1> QED BY <1>1, FS_CardinalityType DEF Tallied

\* What scheduleReplenishLocked adds to l live workers and c starts.
LEMMA ScheduleAdds ==
    ASSUME NEW l \in Nat, NEW c \in Nat, l + c <= MaxConcurrency,
           live' = l, Schedule(c)
    PROVE  \E n \in Nat : /\ creating' = c + n
                          /\ replenishing' = replenishing + n
                          /\ l + c + n <= MaxConcurrency
  <1>1. Target \in Nat /\ Target <= MaxConcurrency
    BY PoolAssumption DEF Target
  <1>2. PICK n : /\ n = (IF ~retired /\ l + c < Target THEN Target - (l + c) ELSE 0)
                 /\ creating' = c + n
                 /\ replenishing' = replenishing + n
    BY DEF Schedule
  <1>3. n \in Nat /\ l + c + n <= MaxConcurrency
    BY <1>1, <1>2, PoolAssumption
  <1> QED BY <1>2, <1>3

-----------------------------------------------------------------------------
LEMMA InitCounts == Init => CountInv
  <1> SUFFICES ASSUME Init PROVE CountInv
    OBVIOUS
  <1>1. Target \in Nat /\ Target <= MaxConcurrency
    BY PoolAssumption DEF Target
  <1>2. Holders = {} /\ Seated = {} /\ Creators = {}
    BY DEF Init, Holders, Holding, Seated, Creators
  <1>3. CountersExact
    BY <1>1, <1>2, FS_EmptySet DEF Init, CountersExact
  <1>4. PlacesOK
    BY DEF Init, PlacesOK, PC, Holding
  <1>5. AmountsOK
    BY <1>1, PoolAssumption DEF Init, AmountsOK
  <1>6. WorkersOK
    BY DEF Init, WorkersOK
  <1>7. CapacityRespected
    BY <1>1 DEF Init, CapacityRespected
  <1> QED BY <1>3, <1>4, <1>5, <1>6, <1>7 DEF CountInv, TypeOK

\* Steps of a request in front of the pool and behind it.
LEMMA QueueKeepsCounts ==
    ASSUME NEW q \in Requests, CountInv,
           NEW h \in Nat, NEW s \in Nat, NEW c \in Nat, Tallied(h, s, c),
           \/ TakeSlot(q)
           \/ GiveUpQueued(q)
           \/ AcquireRetired(q)
           \/ WaitEnds(q)
           \/ WaitCancelled(q)
           \/ FreeSlot(q)
    PROVE  CountInv'
  <1> USE PoolAssumption DEF CountInv, TypeOK, Goto
  <1>1. CASE TakeSlot(q)
    <2>1. Tallied(h, s + 1, c)'
      <3>1. pc[q] = "queued" /\ pc' = [pc EXCEPT ![q] = "acquiring"]
        BY <1>1 DEF TakeSlot
      <3>2. /\ Tally(Holders, Holders', q, h)
            /\ Tally(Seated, Seated', q, s)
            /\ Tally(Creators, Creators', q, c)
        BY <3>1, MoveTallies DEF PlacesOK, PC
      <3>3. q \notin Holders /\ q \notin Seated /\ q \notin Creators
        BY <3>1 DEF Holders, Holding, Seated, Creators
      <3>4. q \notin Holders' /\ q \in Seated' /\ q \notin Creators'
        BY <3>1 DEF PlacesOK, Holders, Holding, Seated, Creators
      <3> QED BY <3>2, <3>3, <3>4 DEF Tally, Tallied
    <2>2. PlacesOK'
      BY <1>1 DEF TakeSlot, PlacesOK, PC, Holding, lateClosers
    <2>3. AmountsOK' /\ CountersExact' /\ CapacityRespected'
      BY <1>1, <2>1 DEF TakeSlot, Tallied, AmountsOK, CountersExact, CapacityRespected,
         counters
    <2>4. WorkersOK'
      BY <1>1 DEF TakeSlot, WorkersOK, AmountsOK, PlacesOK, lateClosers
    <2> QED BY <2>2, <2>3, <2>4
  <1>2. CASE GiveUpQueued(q)
    <2>1. Tallied(h, s, c)'
      <3>1. pc[q] = "queued" /\ pc' = [pc EXCEPT ![q] = "done"]
        BY <1>2 DEF GiveUpQueued
      <3>2. /\ Tally(Holders, Holders', q, h)
            /\ Tally(Seated, Seated', q, s)
            /\ Tally(Creators, Creators', q, c)
        BY <3>1, MoveTallies DEF PlacesOK, PC
      <3>3. q \notin Holders /\ q \notin Seated /\ q \notin Creators
        BY <3>1 DEF Holders, Holding, Seated, Creators
      <3>4. q \notin Holders' /\ q \notin Seated' /\ q \notin Creators'
        BY <3>1 DEF PlacesOK, Holders, Holding, Seated, Creators
      <3> QED BY <3>2, <3>3, <3>4 DEF Tally, Tallied
    <2>2. PlacesOK'
      BY <1>2 DEF GiveUpQueued, PlacesOK, PC, Holding, lateClosers
    <2>3. AmountsOK' /\ CountersExact' /\ CapacityRespected'
      BY <1>2, <2>1 DEF GiveUpQueued, Tallied, AmountsOK, CountersExact, CapacityRespected,
         counters
    <2>4. WorkersOK'
      BY <1>2 DEF GiveUpQueued, WorkersOK, AmountsOK, PlacesOK, lateClosers
    <2> QED BY <2>2, <2>3, <2>4
  <1>3. CASE AcquireRetired(q)
    <2>1. Tallied(h, s, c)'
      <3>1. pc[q] = "acquiring" /\ pc' = [pc EXCEPT ![q] = "leaving"]
        BY <1>3 DEF AcquireRetired
      <3>2. /\ Tally(Holders, Holders', q, h)
            /\ Tally(Seated, Seated', q, s)
            /\ Tally(Creators, Creators', q, c)
        BY <3>1, MoveTallies DEF PlacesOK, PC
      <3>3. q \notin Holders /\ q \in Seated /\ q \notin Creators
        BY <3>1 DEF Holders, Holding, Seated, Creators
      <3>4. q \notin Holders' /\ q \in Seated' /\ q \notin Creators'
        BY <3>1 DEF PlacesOK, Holders, Holding, Seated, Creators
      <3> QED BY <3>2, <3>3, <3>4 DEF Tally, Tallied
    <2>2. PlacesOK'
      BY <1>3 DEF AcquireRetired, PlacesOK, PC, Holding, lateClosers
    <2>3. AmountsOK' /\ CountersExact' /\ CapacityRespected'
      BY <1>3, <2>1 DEF AcquireRetired, Tallied, AmountsOK, CountersExact, CapacityRespected,
         counters
    <2>4. WorkersOK'
      BY <1>3 DEF AcquireRetired, WorkersOK, AmountsOK, PlacesOK, lateClosers
    <2> QED BY <2>2, <2>3, <2>4
  <1>4. CASE WaitEnds(q)
    <2>1. Tallied(h, s, c)'
      <3>1. pc[q] = "waiting" /\ pc' = [pc EXCEPT ![q] = "acquiring"]
        BY <1>4 DEF WaitEnds
      <3>2. /\ Tally(Holders, Holders', q, h)
            /\ Tally(Seated, Seated', q, s)
            /\ Tally(Creators, Creators', q, c)
        BY <3>1, MoveTallies DEF PlacesOK, PC
      <3>3. q \notin Holders /\ q \in Seated /\ q \notin Creators
        BY <3>1 DEF Holders, Holding, Seated, Creators
      <3>4. q \notin Holders' /\ q \in Seated' /\ q \notin Creators'
        BY <3>1 DEF PlacesOK, Holders, Holding, Seated, Creators
      <3> QED BY <3>2, <3>3, <3>4 DEF Tally, Tallied
    <2>2. PlacesOK'
      BY <1>4 DEF WaitEnds, PlacesOK, PC, Holding, lateClosers
    <2>3. AmountsOK' /\ CountersExact' /\ CapacityRespected'
      BY <1>4, <2>1 DEF WaitEnds, Tallied, AmountsOK, CountersExact, CapacityRespected,
         counters
    <2>4. WorkersOK'
      BY <1>4 DEF WaitEnds, WorkersOK, AmountsOK, PlacesOK, lateClosers
    <2> QED BY <2>2, <2>3, <2>4
  <1>5. CASE WaitCancelled(q)
    <2>1. Tallied(h, s, c)'
      <3>1. pc[q] = "waiting" /\ pc' = [pc EXCEPT ![q] = "leaving"]
        BY <1>5 DEF WaitCancelled
      <3>2. /\ Tally(Holders, Holders', q, h)
            /\ Tally(Seated, Seated', q, s)
            /\ Tally(Creators, Creators', q, c)
        BY <3>1, MoveTallies DEF PlacesOK, PC
      <3>3. q \notin Holders /\ q \in Seated /\ q \notin Creators
        BY <3>1 DEF Holders, Holding, Seated, Creators
      <3>4. q \notin Holders' /\ q \in Seated' /\ q \notin Creators'
        BY <3>1 DEF PlacesOK, Holders, Holding, Seated, Creators
      <3> QED BY <3>2, <3>3, <3>4 DEF Tally, Tallied
    <2>2. PlacesOK'
      BY <1>5 DEF WaitCancelled, PlacesOK, PC, Holding, lateClosers
    <2>3. AmountsOK' /\ CountersExact' /\ CapacityRespected'
      BY <1>5, <2>1 DEF WaitCancelled, Tallied, AmountsOK, CountersExact, CapacityRespected,
         counters
    <2>4. WorkersOK'
      BY <1>5 DEF WaitCancelled, WorkersOK, AmountsOK, PlacesOK, lateClosers
    <2> QED BY <2>2, <2>3, <2>4
  <1>6. CASE FreeSlot(q)
    <2>1. Tallied(h, s - 1, c)' /\ s > 0
      <3>1. pc[q] = "leaving" /\ pc' = [pc EXCEPT ![q] = "done"]
        BY <1>6 DEF FreeSlot
      <3>2. /\ Tally(Holders, Holders', q, h)
            /\ Tally(Seated, Seated', q, s)
            /\ Tally(Creators, Creators', q, c)
        BY <3>1, MoveTallies DEF PlacesOK, PC
      <3>3. q \notin Holders /\ q \in Seated /\ q \notin Creators
        BY <3>1 DEF Holders, Holding, Seated, Creators
      <3>4. q \notin Holders' /\ q \notin Seated' /\ q \notin Creators'
        BY <3>1 DEF PlacesOK, Holders, Holding, Seated, Creators
      <3> QED BY <3>2, <3>3, <3>4 DEF Tally, Tallied
    <2>2. PlacesOK'
      BY <1>6 DEF FreeSlot, PlacesOK, PC, Holding, lateClosers
    <2>3. AmountsOK' /\ CountersExact' /\ CapacityRespected'
      BY <1>6, <2>1 DEF FreeSlot, Tallied, AmountsOK, CountersExact, CapacityRespected,
         counters
    <2>4. WorkersOK'
      BY <1>6 DEF FreeSlot, WorkersOK, AmountsOK, PlacesOK, lateClosers
    <2> QED BY <2>2, <2>3, <2>4
  <1> QED BY <1>1, <1>2, <1>3, <1>4, <1>5, <1>6

\* acquireWorker.
LEMMA AcquireKeepsCounts ==
    ASSUME NEW q \in Requests, CountInv,
           NEW h \in Nat, NEW s \in Nat, NEW c \in Nat, Tallied(h, s, c),
           \/ AcquireIdle(q)
           \/ AcquireCreates(q)
           \/ AcquireWaits(q)
           \/ CreateSucceeds(q)
           \/ CreateTooLate(q)
           \/ CreateFails(q)
    PROVE  CountInv'
  <1> USE PoolAssumption DEF CountInv, TypeOK, Goto
  <1>1. CASE AcquireIdle(q)
    <2>1. Tallied(h + 1, s, c)'
      <3>1. pc[q] = "acquiring" /\ pc' = [pc EXCEPT ![q] = "running"]
        BY <1>1 DEF AcquireIdle
      <3>2. /\ Tally(Holders, Holders', q, h)
            /\ Tally(Seated, Seated', q, s)
            /\ Tally(Creators, Creators', q, c)
        BY <3>1, MoveTallies DEF PlacesOK, PC
      <3>3. q \notin Holders /\ q \in Seated /\ q \notin Creators
        BY <3>1 DEF Holders, Holding, Seated, Creators
      <3>4. q \in Holders' /\ q \in Seated' /\ q \notin Creators'
        BY <3>1 DEF PlacesOK, Holders, Holding, Seated, Creators
      <3> QED BY <3>2, <3>3, <3>4 DEF Tally, Tallied
    <2>2. PlacesOK'
      BY <1>1 DEF AcquireIdle, PlacesOK, PC, Holding, lateClosers, RunOn, AmountsOK
    <2>3. AmountsOK' /\ CountersExact' /\ CapacityRespected'
      <3>1. PICK n \in Nat : n = Len(idle) /\ live = n + h
        BY DEF AmountsOK, CountersExact, Tallied
      <3>2. PICK k \in DOMAIN idle : /\ idle' = SubSeq(idle, 1, k - 1)
                                    /\ live' = live - (Len(idle) - k)
        BY <1>1 DEF AcquireIdle
      <3>3. k \in 1..n
        BY <3>1, <3>2 DEF AmountsOK
      <3>4. idle' \in Seq(Workers) /\ Len(idle') = k - 1
        BY <3>1, <3>2, <3>3 DEF AmountsOK
      <3>5. live' = h + k
        <4>1. live' = (n + h) - (n - k)
          BY <3>1, <3>2
        <4>2. (n + h) - (n - k) = h + k
          BY <3>3
        <4> QED BY <4>1, <4>2
      <3>6. creating' = creating /\ replenishing' = replenishing /\ slots' = slots
            /\ retries' = retries
        BY <1>1 DEF AcquireIdle
      <3>7. live' = (k - 1) + (h + 1) /\ live' \in Nat
        BY <3>3, <3>5
      <3>8. AmountsOK'
        BY <3>4, <3>6, <3>7 DEF AmountsOK
      <3>9. CountersExact'
        BY <2>1, <3>4, <3>6, <3>7 DEF Tallied, CountersExact
      <3>10. PICK m \in Nat : creating = m /\ n + h + m <= MaxConcurrency
        BY <3>1 DEF AmountsOK, CapacityRespected
      <3>11. h + k + m <= MaxConcurrency
        BY <3>3, <3>10
      <3>12. CapacityRespected'
        BY <3>5, <3>6, <3>10, <3>11 DEF CapacityRespected
      <3> QED BY <3>8, <3>9, <3>12
    <2>4. WorkersOK'
      BY <1>1 DEF AcquireIdle, WorkersOK, AmountsOK, PlacesOK, lateClosers, RunOn
    <2> QED BY <2>2, <2>3, <2>4
  <1>2. CASE AcquireCreates(q)
    <2>1. Tallied(h, s, c + 1)'
      <3>1. pc[q] = "acquiring" /\ pc' = [pc EXCEPT ![q] = "creating"]
        BY <1>2 DEF AcquireCreates
      <3>2. /\ Tally(Holders, Holders', q, h)
            /\ Tally(Seated, Seated', q, s)
            /\ Tally(Creators, Creators', q, c)
        BY <3>1, MoveTallies DEF PlacesOK, PC
      <3>3. q \notin Holders /\ q \in Seated /\ q \notin Creators
        BY <3>1 DEF Holders, Holding, Seated, Creators
      <3>4. q \notin Holders' /\ q \in Seated' /\ q \in Creators'
        BY <3>1 DEF PlacesOK, Holders, Holding, Seated, Creators
      <3> QED BY <3>2, <3>3, <3>4 DEF Tally, Tallied
    <2>2. PlacesOK'
      BY <1>2 DEF AcquireCreates, PlacesOK, PC, Holding, lateClosers
    <2>3. AmountsOK' /\ CountersExact' /\ CapacityRespected'
      <3>1. PICK n \in Nat : n = Len(idle) /\ live = n + h
        BY DEF AmountsOK, CountersExact, Tallied
      <3>2. idle' = <<>> /\ live' = h /\ Len(<<>>) = 0 /\ <<>> \in Seq(Workers)
        BY <1>2, <3>1 DEF AcquireCreates, EmptyIdle
      <3>3. CountersExact' /\ AmountsOK'
        BY <1>2, <2>1, <3>2 DEF AcquireCreates, Tallied, AmountsOK, CountersExact
      <3> QED BY <1>2, <3>1, <3>2, <3>3 DEF AcquireCreates, AmountsOK, CapacityRespected
    <2>4. WorkersOK'
      BY <1>2 DEF AcquireCreates, WorkersOK, AmountsOK, PlacesOK, lateClosers, EmptyIdle
    <2> QED BY <2>2, <2>3, <2>4
  <1>3. CASE AcquireWaits(q)
    <2>1. Tallied(h, s, c)'
      <3>1. pc[q] = "acquiring" /\ pc' = [pc EXCEPT ![q] = "waiting"]
        BY <1>3 DEF AcquireWaits
      <3>2. /\ Tally(Holders, Holders', q, h)
            /\ Tally(Seated, Seated', q, s)
            /\ Tally(Creators, Creators', q, c)
        BY <3>1, MoveTallies DEF PlacesOK, PC
      <3>3. q \notin Holders /\ q \in Seated /\ q \notin Creators
        BY <3>1 DEF Holders, Holding, Seated, Creators
      <3>4. q \notin Holders' /\ q \in Seated' /\ q \notin Creators'
        BY <3>1 DEF PlacesOK, Holders, Holding, Seated, Creators
      <3> QED BY <3>2, <3>3, <3>4 DEF Tally, Tallied
    <2>2. PlacesOK'
      BY <1>3 DEF AcquireWaits, PlacesOK, PC, Holding, lateClosers
    <2>3. AmountsOK' /\ CountersExact' /\ CapacityRespected'
      <3>1. PICK n \in Nat : n = Len(idle) /\ live = n + h
        BY DEF AmountsOK, CountersExact, Tallied
      <3>2. idle' = <<>> /\ live' = h /\ Len(<<>>) = 0 /\ <<>> \in Seq(Workers)
        BY <1>3, <3>1 DEF AcquireWaits, EmptyIdle
      <3>3. CountersExact' /\ AmountsOK'
        BY <1>3, <2>1, <3>2 DEF AcquireWaits, Tallied, AmountsOK, CountersExact
      <3> QED BY <1>3, <3>1, <3>2, <3>3 DEF AcquireWaits, AmountsOK, CapacityRespected
    <2>4. WorkersOK'
      BY <1>3 DEF AcquireWaits, WorkersOK, AmountsOK, PlacesOK, lateClosers, EmptyIdle
    <2> QED BY <2>2, <2>3, <2>4
  <1>4. CASE CreateSucceeds(q)
    <2>1. Tallied(h + 1, s, c - 1)' /\ c > 0
      <3>1. pc[q] = "creating" /\ pc' = [pc EXCEPT ![q] = "running"]
        BY <1>4 DEF CreateSucceeds
      <3>2. /\ Tally(Holders, Holders', q, h)
            /\ Tally(Seated, Seated', q, s)
            /\ Tally(Creators, Creators', q, c)
        BY <3>1, MoveTallies DEF PlacesOK, PC
      <3>3. /\ q \notin Holders /\ q \in Seated /\ q \in Creators
            /\ q \in Holders' /\ q \in Seated' /\ q \notin Creators'
        BY <3>1 DEF PlacesOK, Holders, Holding, Seated, Creators
      <3> QED BY <3>2, <3>3 DEF Tally, Tallied
    <2>2. PlacesOK'
      BY <1>4 DEF CreateSucceeds, PlacesOK, PC, Holding, lateClosers, Notify, RunOn
    <2>3. AmountsOK' /\ CountersExact' /\ CapacityRespected'
      BY <1>4, <2>1 DEF CreateSucceeds, Tallied, AmountsOK, CountersExact, CapacityRespected,
         counters, Notify
    <2>4. WorkersOK'
      BY <1>4 DEF CreateSucceeds, WorkersOK, AmountsOK, PlacesOK, lateClosers, RunOn
    <2> QED BY <2>2, <2>3, <2>4
  <1>5. CASE CreateTooLate(q)
    <2>1. Tallied(h, s, c - 1)' /\ c > 0
      <3>1. pc[q] = "creating" /\ pc' = [pc EXCEPT ![q] = "closing"]
        BY <1>5 DEF CreateTooLate
      <3>2. /\ Tally(Holders, Holders', q, h)
            /\ Tally(Seated, Seated', q, s)
            /\ Tally(Creators, Creators', q, c)
        BY <3>1, MoveTallies DEF PlacesOK, PC
      <3>3. q \notin Holders /\ q \in Seated /\ q \in Creators
        BY <3>1 DEF Holders, Holding, Seated, Creators
      <3>4. q \notin Holders' /\ q \in Seated' /\ q \notin Creators'
        BY <3>1 DEF PlacesOK, Holders, Holding, Seated, Creators
      <3> QED BY <3>2, <3>3, <3>4 DEF Tally, Tallied
    <2>2. PlacesOK'
      BY <1>5 DEF CreateTooLate, PlacesOK, PC, Holding, lateClosers, Notify
    <2>3. AmountsOK' /\ CountersExact' /\ CapacityRespected'
      <3>1. creating - 1 \in Nat /\ live \in Nat /\ live + (creating - 1) <= MaxConcurrency
        BY <2>1 DEF Tallied, AmountsOK, CountersExact, CapacityRespected
      <3>2. PICK n \in Nat : /\ creating' = creating - 1 + n
                            /\ replenishing' = replenishing + n
                            /\ live + (creating - 1) + n <= MaxConcurrency
        BY <1>5, <3>1, ScheduleAdds DEF CreateTooLate, Schedule
      <3> QED BY <1>5, <2>1, <3>1, <3>2 DEF CreateTooLate, Tallied, AmountsOK, CountersExact,
              CapacityRespected
    <2>4. WorkersOK'
      BY <1>5 DEF CreateTooLate, WorkersOK, AmountsOK, PlacesOK, lateClosers
    <2> QED BY <2>2, <2>3, <2>4
  <1>6. CASE CreateFails(q)
    <2>1. Tallied(h, s, c - 1)' /\ c > 0
      <3>1. pc[q] = "creating" /\ pc' = [pc EXCEPT ![q] = "leaving"]
        BY <1>6 DEF CreateFails
      <3>2. /\ Tally(Holders, Holders', q, h)
            /\ Tally(Seated, Seated', q, s)
            /\ Tally(Creators, Creators', q, c)
        BY <3>1, MoveTallies DEF PlacesOK, PC
      <3>3. q \notin Holders /\ q \in Seated /\ q \in Creators
        BY <3>1 DEF Holders, Holding, Seated, Creators
      <3>4. q \notin Holders' /\ q \in Seated' /\ q \notin Creators'
        BY <3>1 DEF PlacesOK, Holders, Holding, Seated, Creators
      <3> QED BY <3>2, <3>3, <3>4 DEF Tally, Tallied
    <2>2. PlacesOK'
      BY <1>6 DEF CreateFails, PlacesOK, PC, Holding, lateClosers, Notify
    <2>3. AmountsOK' /\ CountersExact' /\ CapacityRespected'
      <3>1. creating - 1 \in Nat /\ live \in Nat /\ live + (creating - 1) <= MaxConcurrency
        BY <2>1 DEF Tallied, AmountsOK, CountersExact, CapacityRespected
      <3>2. PICK n \in Nat : /\ creating' = creating - 1 + n
                            /\ replenishing' = replenishing + n
                            /\ live + (creating - 1) + n <= MaxConcurrency
        BY <1>6, <3>1, ScheduleAdds DEF CreateFails, Schedule
      <3> QED BY <1>6, <2>1, <3>1, <3>2 DEF CreateFails, Tallied, AmountsOK, CountersExact,
              CapacityRespected
    <2>4. WorkersOK'
      BY <1>6 DEF CreateFails, WorkersOK, AmountsOK, PlacesOK, lateClosers
    <2> QED BY <2>2, <2>3, <2>4
  <1> QED BY <1>1, <1>2, <1>3, <1>4, <1>5, <1>6

\* run.
LEMMA RunKeepsCounts ==
    ASSUME NEW q \in Requests, CountInv,
           NEW h \in Nat, NEW s \in Nat, NEW c \in Nat, Tallied(h, s, c),
           \/ RunFails(q)
           \/ Complete(q)
           \/ DrainEnds(q)
           \/ DrainFails(q)
    PROVE  CountInv'
  <1> USE PoolAssumption DEF CountInv, TypeOK, Goto
  <1>1. CASE RunFails(q)
    <2>1. Tallied(h, s, c)'
      <3>1. pc[q] = "running" /\ pc' = [pc EXCEPT ![q] = "dropping"]
        BY <1>1 DEF RunFails
      <3>2. /\ Tally(Holders, Holders', q, h)
            /\ Tally(Seated, Seated', q, s)
            /\ Tally(Creators, Creators', q, c)
        BY <3>1, MoveTallies DEF PlacesOK, PC
      <3>3. q \in Holders /\ q \in Seated /\ q \notin Creators
        BY <3>1 DEF Holders, Holding, Seated, Creators
      <3>4. q \in Holders' /\ q \in Seated' /\ q \notin Creators'
        BY <3>1 DEF PlacesOK, Holders, Holding, Seated, Creators
      <3> QED BY <3>2, <3>3, <3>4 DEF Tally, Tallied
    <2>2. PlacesOK'
      BY <1>1 DEF RunFails, PlacesOK, PC, Holding, lateClosers
    <2>3. AmountsOK' /\ CountersExact' /\ CapacityRespected'
      BY <1>1, <2>1 DEF RunFails, Tallied, AmountsOK, CountersExact, CapacityRespected,
         counters
    <2>4. WorkersOK'
      BY <1>1 DEF RunFails, WorkersOK, AmountsOK, PlacesOK, lateClosers
    <2> QED BY <2>2, <2>3, <2>4
  <1>2. CASE Complete(q)
    <2>1. Tallied(h, s, c)'
      <3>1. pc[q] = "running" /\ pc' = [pc EXCEPT ![q] = "draining"]
        BY <1>2 DEF Complete
      <3>2. /\ Tally(Holders, Holders', q, h)
            /\ Tally(Seated, Seated', q, s)
            /\ Tally(Creators, Creators', q, c)
        BY <3>1, MoveTallies DEF PlacesOK, PC
      <3>3. q \in Holders /\ q \in Seated /\ q \notin Creators
        BY <3>1 DEF Holders, Holding, Seated, Creators
      <3>4. q \in Holders' /\ q \in Seated' /\ q \notin Creators'
        BY <3>1 DEF PlacesOK, Holders, Holding, Seated, Creators
      <3> QED BY <3>2, <3>3, <3>4 DEF Tally, Tallied
    <2>2. PlacesOK'
      BY <1>2 DEF Complete, PlacesOK, PC, Holding, lateClosers
    <2>3. AmountsOK' /\ CountersExact' /\ CapacityRespected'
      BY <1>2, <2>1 DEF Complete, Tallied, AmountsOK, CountersExact, CapacityRespected,
         counters
    <2>4. WorkersOK'
      BY <1>2 DEF Complete, WorkersOK, AmountsOK, PlacesOK, lateClosers
    <2> QED BY <2>2, <2>3, <2>4
  <1>3. CASE DrainEnds(q)
    <2>1. Tallied(h, s, c)'
      <3>1. pc[q] = "draining" /\ (\E p \in {"releasing", "dropping"} : pc' = [pc EXCEPT ![q] = p])
        BY <1>3 DEF DrainEnds
      <3>2. /\ Tally(Holders, Holders', q, h)
            /\ Tally(Seated, Seated', q, s)
            /\ Tally(Creators, Creators', q, c)
        BY <3>1, MoveTallies DEF PlacesOK, PC
      <3>3. q \in Holders /\ q \in Seated /\ q \notin Creators
        BY <3>1 DEF Holders, Holding, Seated, Creators
      <3>4. q \in Holders' /\ q \in Seated' /\ q \notin Creators'
        BY <3>1 DEF PlacesOK, Holders, Holding, Seated, Creators
      <3> QED BY <3>2, <3>3, <3>4 DEF Tally, Tallied
    <2>2. PlacesOK'
      BY <1>3 DEF DrainEnds, PlacesOK, PC, Holding, lateClosers, StopTimer
    <2>3. AmountsOK' /\ CountersExact' /\ CapacityRespected'
      BY <1>3, <2>1 DEF DrainEnds, Tallied, AmountsOK, CountersExact, CapacityRespected,
         counters
    <2>4. WorkersOK'
      BY <1>3 DEF DrainEnds, WorkersOK, AmountsOK, PlacesOK, lateClosers
    <2> QED BY <2>2, <2>3, <2>4
  <1>4. CASE DrainFails(q)
    <2>1. Tallied(h, s, c)'
      <3>1. pc[q] = "draining" /\ pc' = [pc EXCEPT ![q] = "dropping"]
        BY <1>4 DEF DrainFails
      <3>2. /\ Tally(Holders, Holders', q, h)
            /\ Tally(Seated, Seated', q, s)
            /\ Tally(Creators, Creators', q, c)
        BY <3>1, MoveTallies DEF PlacesOK, PC
      <3>3. q \in Holders /\ q \in Seated /\ q \notin Creators
        BY <3>1 DEF Holders, Holding, Seated, Creators
      <3>4. q \in Holders' /\ q \in Seated' /\ q \notin Creators'
        BY <3>1 DEF PlacesOK, Holders, Holding, Seated, Creators
      <3> QED BY <3>2, <3>3, <3>4 DEF Tally, Tallied
    <2>2. PlacesOK'
      BY <1>4 DEF DrainFails, PlacesOK, PC, Holding, lateClosers, StopTimer
    <2>3. AmountsOK' /\ CountersExact' /\ CapacityRespected'
      BY <1>4, <2>1 DEF DrainFails, Tallied, AmountsOK, CountersExact, CapacityRespected,
         counters
    <2>4. WorkersOK'
      BY <1>4 DEF DrainFails, WorkersOK, AmountsOK, PlacesOK, lateClosers
    <2> QED BY <2>2, <2>3, <2>4
  <1> QED BY <1>1, <1>2, <1>3, <1>4

\* releaseWorker.
LEMMA ReleaseKeepsCounts ==
    ASSUME NEW q \in Requests, CountInv,
           NEW h \in Nat, NEW s \in Nat, NEW c \in Nat, Tallied(h, s, c),
           \/ ReturnWorker(q)
           \/ DropWorker(q)
           \/ CloseHeld(q)
    PROVE  CountInv'
  <1> USE PoolAssumption DEF CountInv, TypeOK, Goto
  <1>1. CASE ReturnWorker(q)
    <2>1. Tallied(h - 1, s, c)' /\ h > 0
      <3>1. pc[q] = "releasing" /\ pc' = [pc EXCEPT ![q] = "leaving"]
        BY <1>1 DEF ReturnWorker, Returnable
      <3>2. /\ Tally(Holders, Holders', q, h)
            /\ Tally(Seated, Seated', q, s)
            /\ Tally(Creators, Creators', q, c)
        BY <3>1, MoveTallies DEF PlacesOK, PC
      <3>3. q \in Holders /\ q \in Seated /\ q \notin Creators
        BY <3>1 DEF Holders, Holding, Seated, Creators
      <3>4. q \notin Holders' /\ q \in Seated' /\ q \notin Creators'
        BY <3>1 DEF PlacesOK, Holders, Holding, Seated, Creators
      <3> QED BY <3>2, <3>3, <3>4 DEF Tally, Tallied
    <2>2. PlacesOK'
      BY <1>1 DEF ReturnWorker, PlacesOK, PC, Holding, lateClosers, Notify, Returnable
    <2>3. AmountsOK' /\ CountersExact' /\ CapacityRespected'
      <3>1. PICK n \in Nat : n = Len(idle) /\ live = n + h
        BY DEF AmountsOK, CountersExact, Tallied
      <3>2. idle' \in Seq(Workers) /\ Len(idle') = n + 1
        BY <1>1, <3>1 DEF ReturnWorker, Returnable, PlacesOK, AmountsOK, Holding
      <3> QED BY <1>1, <2>1, <3>1, <3>2 DEF ReturnWorker, Tallied, AmountsOK,
              CountersExact, CapacityRespected, counters
    <2>4. WorkersOK'
      BY <1>1 DEF ReturnWorker, WorkersOK, AmountsOK, PlacesOK, lateClosers
    <2> QED BY <2>2, <2>3, <2>4
  <1>2. CASE DropWorker(q)
    <2>1. Tallied(h - 1, s, c)' /\ h > 0
      <3>1. pc[q] \in {"releasing", "dropping"} /\ pc' = [pc EXCEPT ![q] = "closing"]
        BY <1>2 DEF DropWorker
      <3>2. /\ Tally(Holders, Holders', q, h)
            /\ Tally(Seated, Seated', q, s)
            /\ Tally(Creators, Creators', q, c)
        BY <3>1, MoveTallies DEF PlacesOK, PC
      <3>3. q \in Holders /\ q \in Seated /\ q \notin Creators
        BY <3>1 DEF Holders, Holding, Seated, Creators
      <3>4. q \notin Holders' /\ q \in Seated' /\ q \notin Creators'
        BY <3>1 DEF PlacesOK, Holders, Holding, Seated, Creators
      <3> QED BY <3>2, <3>3, <3>4 DEF Tally, Tallied
    <2>2. PlacesOK'
      BY <1>2 DEF DropWorker, PlacesOK, PC, Holding, lateClosers, Notify
    <2>3. AmountsOK' /\ CountersExact' /\ CapacityRespected'
      <3>1. creating \in Nat /\ (live - 1) \in Nat /\ (live - 1) + (creating) <= MaxConcurrency
        BY <2>1 DEF Tallied, AmountsOK, CountersExact, CapacityRespected
      <3>2. PICK n \in Nat : /\ creating' = creating + n
                            /\ replenishing' = replenishing + n
                            /\ (live - 1) + (creating) + n <= MaxConcurrency
        BY <1>2, <3>1, ScheduleAdds DEF DropWorker, Schedule
      <3> QED BY <1>2, <2>1, <3>1, <3>2 DEF DropWorker, Tallied, AmountsOK, CountersExact,
              CapacityRespected
    <2>4. WorkersOK'
      BY <1>2 DEF DropWorker, WorkersOK, AmountsOK, PlacesOK, lateClosers
    <2> QED BY <2>2, <2>3, <2>4
  <1>3. CASE CloseHeld(q)
    <2>1. Tallied(h, s, c)'
      <3>1. pc[q] = "closing" /\ pc' = [pc EXCEPT ![q] = "leaving"]
        BY <1>3 DEF CloseHeld
      <3>2. /\ Tally(Holders, Holders', q, h)
            /\ Tally(Seated, Seated', q, s)
            /\ Tally(Creators, Creators', q, c)
        BY <3>1, MoveTallies DEF PlacesOK, PC
      <3>3. q \notin Holders /\ q \in Seated /\ q \notin Creators
        BY <3>1 DEF Holders, Holding, Seated, Creators
      <3>4. q \notin Holders' /\ q \in Seated' /\ q \notin Creators'
        BY <3>1 DEF PlacesOK, Holders, Holding, Seated, Creators
      <3> QED BY <3>2, <3>3, <3>4 DEF Tally, Tallied
    <2>2. PlacesOK'
      BY <1>3 DEF CloseHeld, PlacesOK, PC, Holding, lateClosers
    <2>3. AmountsOK' /\ CountersExact' /\ CapacityRespected'
      BY <1>3, <2>1 DEF CloseHeld, Tallied, AmountsOK, CountersExact, CapacityRespected,
         counters
    <2>4. WorkersOK'
      BY <1>3 DEF CloseHeld, WorkersOK, AmountsOK, PlacesOK, lateClosers
    <2> QED BY <2>2, <2>3, <2>4
  <1> QED BY <1>1, <1>2, <1>3

\* Timers, watchers and late closes touch no counter and no place.
LEMMA LateClosersKeepCounts ==
    ASSUME CountInv,
           \/ \E q \in Requests :
                  \/ TimerFires(q) \/ WatcherFires(q) \/ WatcherStops(q) \/ Cancel(q)
                  \/ \E w \in Workers : LateClose(q, w)
           \/ \E w \in Workers : CloseDoomed(w)
    PROVE  CountInv'
  <1> USE DEF CountInv, TypeOK
  <1>1. UNCHANGED <<pc, held, counters, idle, retired, asleep>>
    BY DEF TimerFires, WatcherFires, WatcherStops, LateClose, CloseDoomed, Cancel
  <1>2. PlacesOK'
    BY <1>1 DEF PlacesOK, Holding, TimerFires, WatcherFires, WatcherStops, LateClose,
       CloseDoomed, Cancel, StopTimer, lateClosers
  <1>3. AmountsOK' /\ CountersExact' /\ CapacityRespected'
    BY <1>1 DEF AmountsOK, CountersExact, CapacityRespected, Holders, Holding, Seated,
       Creators, counters
  <1>4. \A q \in timer : held[q] \in Workers
    BY DEF PlacesOK, Holding
  <1>5. WorkersOK'
    <2>1. CASE \E q \in Requests : TimerFires(q)
      BY <1>4, <2>1 DEF WorkersOK, TimerFires
    <2>2. CASE \E q \in Requests : WatcherFires(q)
      BY <2>2 DEF WorkersOK, WatcherFires
    <2>3. CASE \E q \in Requests : WatcherStops(q) \/ Cancel(q)
      BY <2>3 DEF WorkersOK, WatcherStops, Cancel, lateClosers
    <2>4. CASE \/ \E q \in Requests : \E w \in Workers : LateClose(q, w)
               \/ \E w \in Workers : CloseDoomed(w)
      BY <2>4 DEF WorkersOK, LateClose, CloseDoomed, lateClosers
    <2> QED BY <2>1, <2>2, <2>3, <2>4
  <1> QED BY <1>2, <1>3, <1>5

\* The steps of no request: replenishers, their retry timer, Retire.
LEMMA PoolKeepsCounts ==
    ASSUME CountInv, NEW h \in Nat, NEW s \in Nat, NEW c \in Nat, Tallied(h, s, c),
           \/ ReplenishSucceeds
           \/ ReplenishTooLate
           \/ ReplenishFails
           \/ Retry
           \/ Retire
    PROVE  CountInv'
  <1> USE PoolAssumption DEF CountInv, TypeOK
  <1>1. pc' = pc /\ held' = held /\ slots' = slots /\ timer' = timer
    BY DEF ReplenishSucceeds, ReplenishTooLate, ReplenishFails, Retry, Retire, lateClosers
  <1>2. Tallied(h, s, c)'
    BY <1>1 DEF Tallied, Holders, Holding, Seated, Creators
  <1>3. PlacesOK'
    BY <1>1 DEF PlacesOK, Holding, ReplenishSucceeds, ReplenishTooLate, ReplenishFails,
       Retry, Retire, Notify
  <1>4. CASE ReplenishSucceeds
    <2>1. PICK n \in Nat : n = Len(idle) /\ live = n + h
      BY DEF AmountsOK, CountersExact, Tallied
    <2>2. idle' \in Seq(Workers) /\ Len(idle') = n + 1
      BY <1>4, <2>1 DEF ReplenishSucceeds, AmountsOK
    <2>3. AmountsOK' /\ CountersExact' /\ CapacityRespected'
      BY <1>1, <1>2, <1>4, <2>1, <2>2 DEF ReplenishSucceeds, Tallied, AmountsOK,
         CountersExact, CapacityRespected
    <2>4. WorkersOK'
      BY <1>4 DEF ReplenishSucceeds, WorkersOK, lateClosers
    <2> QED BY <1>3, <2>3, <2>4
  <1>5. CASE ReplenishTooLate \/ ReplenishFails
    <2>1. AmountsOK' /\ CountersExact' /\ CapacityRespected'
      <3>1. CASE ReplenishTooLate
        BY <1>1, <1>2, <3>1 DEF ReplenishTooLate, Tallied, AmountsOK, CountersExact,
           CapacityRespected
      <3>2. CASE ReplenishFails
        <4>1. retries' \in 0..MaxRetries
          BY <3>2 DEF ReplenishFails, AmountsOK
        <4>2. /\ creating' = creating - 1 /\ replenishing' = replenishing - 1
              /\ replenishing > 0 /\ live' = live /\ idle' = idle
          BY <3>2 DEF ReplenishFails
        <4> QED BY <1>1, <1>2, <4>1, <4>2 DEF Tallied, AmountsOK, CountersExact,
                CapacityRespected
      <3> QED BY <1>5, <3>1, <3>2
    <2>2. WorkersOK'
      BY <1>5 DEF ReplenishTooLate, ReplenishFails, WorkersOK, lateClosers
    <2> QED BY <1>3, <2>1, <2>2
  <1>6. CASE Retry
    <2>1. PICK n \in Nat : /\ creating' = creating + n
                          /\ replenishing' = replenishing + n
                          /\ live + creating + n <= MaxConcurrency
      BY <1>6, ScheduleAdds DEF Retry, AmountsOK, CapacityRespected, Schedule
    <2>2. AmountsOK' /\ CountersExact' /\ CapacityRespected'
      BY <1>1, <1>2, <1>6, <2>1 DEF Retry, Tallied, AmountsOK, CountersExact,
         CapacityRespected
    <2>3. WorkersOK'
      BY <1>6 DEF Retry, WorkersOK, lateClosers
    <2> QED BY <1>3, <2>2, <2>3
  <1>7. CASE Retire
    <2>1. PICK n \in Nat : n = Len(idle) /\ live = n + h
      BY DEF AmountsOK, CountersExact, Tallied
    <2>2. idle' = <<>> /\ live' = h /\ Len(<<>>) = 0 /\ <<>> \in Seq(Workers)
      BY <1>7, <2>1 DEF Retire
    <2>3. AmountsOK' /\ CountersExact'
      BY <1>1, <1>2, <1>7, <2>2 DEF Retire, Tallied, AmountsOK, CountersExact
    <2>4. CapacityRespected'
      BY <1>7, <2>1, <2>2, <2>3 DEF Retire, AmountsOK, CapacityRespected
    <2>5. WorkersOK'
      BY <1>7 DEF Retire, WorkersOK, AmountsOK, Idle, ToSet, lateClosers
    <2> QED BY <1>3, <2>3, <2>4, <2>5
  <1> QED BY <1>4, <1>5, <1>6, <1>7

-----------------------------------------------------------------------------
LEMMA StepKeepsCounts == CountInv /\ [Next]_vars => CountInv'
  <1> SUFFICES ASSUME CountInv, [Next]_vars PROVE CountInv'
    OBVIOUS
  <1>0. PICK h \in Nat, s \in Nat, c \in Nat : Tallied(h, s, c)
    BY TalliesExist
  <1>1. ASSUME NEW q \in Requests,
               \/ TakeSlot(q) \/ GiveUpQueued(q) \/ AcquireRetired(q)
               \/ WaitEnds(q) \/ WaitCancelled(q) \/ FreeSlot(q)
        PROVE  CountInv'
    BY <1>0, <1>1, QueueKeepsCounts
  <1>2. ASSUME NEW q \in Requests,
               \/ AcquireIdle(q) \/ AcquireCreates(q) \/ AcquireWaits(q)
               \/ CreateSucceeds(q) \/ CreateTooLate(q) \/ CreateFails(q)
        PROVE  CountInv'
    BY <1>0, <1>2, AcquireKeepsCounts
  <1>3. ASSUME NEW q \in Requests,
               RunFails(q) \/ Complete(q) \/ DrainEnds(q) \/ DrainFails(q)
        PROVE  CountInv'
    BY <1>0, <1>3, RunKeepsCounts
  <1>4. ASSUME NEW q \in Requests, ReturnWorker(q) \/ DropWorker(q) \/ CloseHeld(q)
        PROVE  CountInv'
    BY <1>0, <1>4, ReleaseKeepsCounts
  <1>5. ASSUME \/ \E q \in Requests :
                      \/ TimerFires(q) \/ WatcherFires(q) \/ WatcherStops(q) \/ Cancel(q)
                      \/ \E w \in Workers : LateClose(q, w)
               \/ \E w \in Workers : CloseDoomed(w)
        PROVE  CountInv'
    BY <1>5, LateClosersKeepCounts
  <1>6. CASE ReplenishSucceeds \/ ReplenishTooLate \/ ReplenishFails \/ Retry \/ Retire
    BY <1>0, <1>6, PoolKeepsCounts
  <1>7. CASE UNCHANGED vars
    <2>1. PlacesOK' /\ AmountsOK' /\ WorkersOK'
      BY <1>7 DEF CountInv, TypeOK, PlacesOK, AmountsOK, WorkersOK, Holding, vars,
         counters, lateClosers
    <2>2. CountersExact' /\ CapacityRespected'
      BY <1>7 DEF CountInv, CountersExact, CapacityRespected, Holders, Holding, Seated,
         Creators, vars, counters
    <2> QED BY <2>1, <2>2 DEF CountInv, TypeOK
  <1> QED BY <1>1, <1>2, <1>3, <1>4, <1>5, <1>6, <1>7 DEF Next

LEMMA SpecKeepsCounts == Spec => []CountInv
  BY InitCounts, StepKeepsCounts, PTL DEF Spec

\* Type correctness of the pool.
THEOREM PoolTypeCorrect == Spec => []TypeOK
  <1>1. CountInv => TypeOK
    BY DEF CountInv
  <1> QED BY SpecKeepsCounts, <1>1, PTL

\* The counters of the pool equal what they count, in every state.
THEOREM CountersAlwaysExact == Spec => []CountersExact
  <1>1. CountInv => CountersExact
    BY DEF CountInv
  <1> QED BY SpecKeepsCounts, <1>1, PTL

\* Never more workers than max_concurrency, started ones included.
THEOREM CapacityAlwaysRespected == Spec => []CapacityRespected
  <1>1. CountInv => CapacityRespected
    BY DEF CountInv
  <1> QED BY SpecKeepsCounts, <1>1, PTL

-----------------------------------------------------------------------------
(***************************************************************************)
(* Who owns a worker, that nobody sleeps for nothing, that lost workers    *)
(* are replaced, and that callers see the lease of WorkerLease.            *)
(***************************************************************************)

(* Owners.  EveryProcessHasOneOwner is inductive under the type invariant. *)

OwnerInv == EveryProcessHasOneOwner

IdleDistinct == \A j, k \in DOMAIN idle : idle[j] = idle[k] => j = k

HeldAlone ==
    \A q \in Requests : held[q] # NoWorker =>
        /\ held[q] \notin Idle \cup doomed
        /\ \A r \in Requests : held[r] = held[q] => r = q

\* Nothing comes to have or to lose an owner.
LEMMA OwnersStay ==
    ASSUME OwnerInv, UNCHANGED <<held, idle, retired, doomed>>, open' \subseteq open
    PROVE  OwnerInv'
  BY DEF OwnerInv, EveryProcessHasOneOwner, Idle, ToSet

\* q comes to hold w, which nobody has held and which is not idle any more.
LEMMA HolderGetsWorker ==
    ASSUME TypeOK, OwnerInv, NEW q \in Requests, NEW w, held[q] = NoWorker, w # NoWorker,
           \A r \in Requests : held[r] # w,
           held' = [held EXCEPT ![q] = w], doomed' = doomed,
           w \notin Idle' \cup doomed', Idle' \subseteq Idle
    PROVE  HeldAlone' /\ Idle' \cap doomed' = {}
  <1>1. held'[q] = w /\ \A r \in Requests \ {q} : held'[r] = held[r]
    BY DEF TypeOK, PlacesOK
  <1> QED BY <1>1 DEF OwnerInv, EveryProcessHasOneOwner, HeldAlone

\* A worker is taken from the stack.
LEMMA AcquireIdleKeepsOwners ==
    ASSUME NEW q \in Requests, TypeOK, OwnerInv, AcquireIdle(q)
    PROVE  OwnerInv'
  <1> USE PoolAssumption DEF Goto
  <1>1. ~retired /\ retired' = retired /\ doomed' = doomed /\ open' = open /\ held[q] = NoWorker
    BY DEF AcquireIdle, TypeOK, PlacesOK, Holding
  <1>2. PICK n \in Nat : n = Len(idle) /\ DOMAIN idle = 1..n
    BY DEF TypeOK, AmountsOK
  <1>3. PICK k \in 1..n :
            /\ \A j \in 1..n : j > k => idle[j] \notin open
            /\ idle' = SubSeq(idle, 1, k - 1) /\ held' = [held EXCEPT ![q] = idle[k]]
    BY <1>2 DEF AcquireIdle, Usable, RunOn
  <1>4. DOMAIN idle' = 1..(k - 1) /\ \A i \in 1..(k - 1) : idle'[i] = idle[i]
    BY <1>2, <1>3 DEF TypeOK, AmountsOK
  <1>5. Idle = {idle[i] : i \in 1..n} /\ Idle' = {idle[i] : i \in 1..(k - 1)}
    BY <1>2, <1>4 DEF Idle, ToSet
  <1>6. \A a, b \in 1..n : idle[a] = idle[b] => a = b
    BY <1>2 DEF OwnerInv, EveryProcessHasOneOwner
  <1>7. IdleDistinct'
    BY <1>4, <1>6 DEF IdleDistinct
  <1>8. Idle' \subseteq Idle /\ idle[k] \in Idle /\ idle[k] \notin Idle'
    BY <1>5, <1>6
  <1>9. idle[k] # NoWorker
    BY <1>2 DEF TypeOK, AmountsOK
  <1>10. \A r \in Requests : held[r] # idle[k]
    BY <1>8, <1>9 DEF OwnerInv, EveryProcessHasOneOwner
  <1>11. HeldAlone' /\ Idle' \cap doomed' = {}
    <2>1. idle[k] \notin doomed
      BY <1>8 DEF OwnerInv, EveryProcessHasOneOwner
    <2> QED BY <1>1, <1>3, <1>8, <1>9, <1>10, <2>1, HolderGetsWorker
  <1>12. \A w \in open \cap Idle : w \in Idle' \/ w = idle[k]
    <2>1. ASSUME NEW i \in 1..n, idle[i] \in open PROVE i \in 1..(k - 1) \/ i = k
      BY <1>3, <2>1
    <2> QED BY <1>5, <2>1
  <1>13. open' \subseteq Idle' \cup doomed' \cup {held'[r] : r \in Requests}
    <2>1. /\ held'[q] = idle[k]
          /\ \A r \in Requests : held[r] # NoWorker => held'[r] = held[r]
      BY <1>1, <1>3 DEF TypeOK, PlacesOK
    <2>2. open \subseteq Idle \cup doomed \cup {held[r] : r \in Requests}
      BY DEF OwnerInv, EveryProcessHasOneOwner
    <2>3. NoWorker \notin open
      BY DEF TypeOK, WorkersOK
    <2> QED BY <1>1, <1>12, <2>1, <2>2, <2>3
  <1> QED BY <1>1, <1>7, <1>11, <1>13
          DEF OwnerInv, EveryProcessHasOneOwner, IdleDistinct, HeldAlone

\* All idle workers are closed ones and dropped.
LEMMA EmptyIdleKeepsOwners ==
    ASSUME OwnerInv, EmptyIdle, UNCHANGED <<held, retired, open, doomed>>
    PROVE  OwnerInv'
  <1>1. Idle' = {} /\ idle' = <<>> /\ Idle \cap open = {}
    BY DEF EmptyIdle, Idle, ToSet
  <1> QED BY <1>1 DEF OwnerInv, EveryProcessHasOneOwner

\* A worker is started on behalf of a request.
LEMMA CreateKeepsOwners ==
    ASSUME NEW q \in Requests, TypeOK, OwnerInv, CreateSucceeds(q) \/ CreateTooLate(q)
    PROVE  OwnerInv'
  <1> USE PoolAssumption DEF Goto
  <1>1. PICK w \in Workers : /\ Fresh(w) /\ held' = [held EXCEPT ![q] = w]
                             /\ open' = open \cup {w}
    BY DEF CreateSucceeds, CreateTooLate, RunOn
  <1>2. UNCHANGED <<idle, retired, doomed>> /\ Idle' = Idle /\ held[q] = NoWorker
    BY DEF CreateSucceeds, CreateTooLate, TypeOK, PlacesOK, Holding, Idle
  <1>3. HeldAlone' /\ Idle' \cap doomed' = {}
    BY <1>1, <1>2, HolderGetsWorker DEF Fresh
  <1>4. open' \subseteq Idle' \cup doomed' \cup {held'[r] : r \in Requests}
    <2>1. /\ held'[q] = w
          /\ \A r \in Requests : held[r] # NoWorker => held'[r] = held[r]
      BY <1>1, <1>2 DEF TypeOK, PlacesOK
    <2>2. open \subseteq Idle \cup doomed \cup {held[r] : r \in Requests}
      BY DEF OwnerInv, EveryProcessHasOneOwner
    <2>3. NoWorker \notin open
      BY DEF TypeOK, WorkersOK
    <2> QED BY <1>1, <1>2, <2>1, <2>2, <2>3
  <1> QED BY <1>2, <1>3, <1>4 DEF OwnerInv, EveryProcessHasOneOwner, HeldAlone

\* w goes on the stack.
LEMMA StackGrows ==
    ASSUME TypeOK, OwnerInv, NEW w \in Workers, w \notin Idle, idle' = Append(idle, w)
    PROVE  Idle' = Idle \cup {w} /\ IdleDistinct'
  <1>1. PICK n \in Nat : n = Len(idle) /\ DOMAIN idle = 1..n
    BY DEF TypeOK, AmountsOK
  <1>2. /\ DOMAIN idle' = 1..(n + 1) /\ idle'[n + 1] = w
        /\ \A i \in 1..n : idle'[i] = idle[i]
    BY <1>1 DEF TypeOK, AmountsOK
  <1>3. Idle = {idle[i] : i \in 1..n} /\ Idle' = {idle'[i] : i \in 1..(n + 1)}
    BY <1>1, <1>2 DEF Idle, ToSet
  <1>4. \A i \in 1..(n + 1) : i \in 1..n \/ i = n + 1
    OBVIOUS
  <1>5. n + 1 \in 1..(n + 1) /\ \A i \in 1..n : i \in 1..(n + 1)
    OBVIOUS
  <1>6. Idle' = Idle \cup {w}
    BY <1>2, <1>3, <1>4, <1>5
  <1>7. \A a, b \in 1..n : idle[a] = idle[b] => a = b
    BY <1>1 DEF OwnerInv, EveryProcessHasOneOwner
  <1>8. \A i \in 1..n : idle[i] # w
    BY <1>3
  <1>9. IdleDistinct'
    BY <1>2, <1>4, <1>7, <1>8 DEF IdleDistinct
  <1> QED BY <1>6, <1>9

LEMMA ReplenishKeepsOwners ==
    ASSUME TypeOK, OwnerInv, ReplenishSucceeds \/ ReplenishTooLate
    PROVE  OwnerInv'
  <1> USE PoolAssumption
  <1>1. CASE ReplenishSucceeds
    <2>1. PICK w \in Workers : Fresh(w) /\ idle' = Append(idle, w) /\ open' = open \cup {w}
      BY <1>1 DEF ReplenishSucceeds
    <2>2. ~retired /\ UNCHANGED <<held, retired, doomed>>
      BY <1>1 DEF ReplenishSucceeds
    <2>3. Idle' = Idle \cup {w} /\ IdleDistinct'
      BY <2>1, StackGrows DEF Fresh
    <2>4. w \notin doomed /\ \A r \in Requests : held[r] # w
      BY <2>1 DEF Fresh
    <2>5. HeldAlone' /\ Idle' \cap doomed' = {}
      BY <2>2, <2>3, <2>4 DEF OwnerInv, EveryProcessHasOneOwner, HeldAlone
    <2>6. open' \subseteq Idle' \cup doomed' \cup {held'[r] : r \in Requests}
      BY <2>1, <2>2, <2>3 DEF OwnerInv, EveryProcessHasOneOwner
    <2> QED BY <2>2, <2>3, <2>5, <2>6
            DEF OwnerInv, EveryProcessHasOneOwner, IdleDistinct, HeldAlone
  <1>2. CASE ReplenishTooLate
    <2>1. PICK w \in Workers : /\ Fresh(w) /\ doomed' = doomed \cup {w}
                               /\ open' = open \cup {w}
      BY <1>2 DEF ReplenishTooLate
    <2>2. UNCHANGED <<held, retired, idle>> /\ Idle' = Idle
      BY <1>2 DEF ReplenishTooLate, Idle
    <2>3. w \notin Idle /\ \A r \in Requests : held[r] # w
      BY <2>1 DEF Fresh
    <2>4. HeldAlone' /\ Idle' \cap doomed' = {}
      BY <2>1, <2>2, <2>3 DEF OwnerInv, EveryProcessHasOneOwner, HeldAlone
    <2>5. open' \subseteq Idle' \cup doomed' \cup {held'[r] : r \in Requests}
      BY <2>1, <2>2 DEF OwnerInv, EveryProcessHasOneOwner
    <2> QED BY <2>2, <2>4, <2>5 DEF OwnerInv, EveryProcessHasOneOwner, HeldAlone
  <1> QED BY <1>1, <1>2

LEMMA ReleaseKeepsOwners ==
    ASSUME NEW q \in Requests, TypeOK, OwnerInv, ReturnWorker(q) \/ CloseHeld(q)
    PROVE  OwnerInv'
  <1> USE PoolAssumption DEF Goto
  <1>1. /\ held[q] \in Workers /\ held[q] # NoWorker
        /\ held' = [held EXCEPT ![q] = NoWorker] /\ UNCHANGED <<retired, doomed>>
    BY DEF ReturnWorker, Returnable, CloseHeld, TypeOK, PlacesOK, Holding
  <1>2. held'[q] = NoWorker /\ \A r \in Requests \ {q} : held'[r] = held[r]
    BY <1>1 DEF TypeOK, PlacesOK
  <1>3. CASE ReturnWorker(q)
    <2>1. ~retired /\ idle' = Append(idle, held[q]) /\ open' = open
      BY <1>3 DEF ReturnWorker, Returnable
    <2>2. PICK w \in Workers : w = held[q]
      BY <1>1
    <2>3. w \notin Idle \cup doomed /\ \A r \in Requests \ {q} : held'[r] # w
      BY <1>1, <1>2, <2>2 DEF OwnerInv, EveryProcessHasOneOwner
    <2>4. Idle' = Idle \cup {w} /\ IdleDistinct'
      BY <2>1, <2>2, <2>3, StackGrows
    <2>5. open' \subseteq Idle' \cup doomed' \cup {held'[r] : r \in Requests}
      BY <1>1, <1>2, <2>1, <2>2, <2>4 DEF OwnerInv, EveryProcessHasOneOwner
    <2>6. HeldAlone' /\ Idle' \cap doomed' = {}
      BY <1>1, <1>2, <2>2, <2>3, <2>4 DEF OwnerInv, EveryProcessHasOneOwner, HeldAlone
    <2> QED BY <1>1, <2>1, <2>4, <2>5, <2>6
            DEF OwnerInv, EveryProcessHasOneOwner, IdleDistinct, HeldAlone
  <1>4. CASE CloseHeld(q)
    <2>1. idle' = idle /\ Idle' = Idle /\ open' = open \ {held[q]}
      BY <1>4 DEF CloseHeld, Idle
    <2> QED BY <1>1, <1>2, <2>1 DEF OwnerInv, EveryProcessHasOneOwner
  <1> QED BY <1>3, <1>4

LEMMA RetireKeepsOwners ==
    ASSUME OwnerInv, Retire \/ \E w \in Workers : CloseDoomed(w)
    PROVE  OwnerInv'
  <1>1. CASE Retire
    <2>1. /\ Idle' = {} /\ idle' = <<>> /\ doomed' = doomed \cup Idle
          /\ UNCHANGED <<held, open>>
      BY <1>1 DEF Retire, Idle, ToSet
    <2> QED BY <2>1 DEF OwnerInv, EveryProcessHasOneOwner
  <1>2. ASSUME NEW w \in Workers, CloseDoomed(w) PROVE OwnerInv'
    <2>1. /\ doomed' = doomed \ {w} /\ open' = open \ {w}
          /\ UNCHANGED <<held, idle, retired>> /\ Idle' = Idle
      BY <1>2 DEF CloseDoomed, Idle
    <2> QED BY <2>1 DEF OwnerInv, EveryProcessHasOneOwner
  <1> QED BY <1>1, <1>2

LEMMA StepKeepsOwners == TypeOK /\ OwnerInv /\ [Next]_vars => OwnerInv'
  <1> SUFFICES ASSUME TypeOK, OwnerInv, [Next]_vars PROVE OwnerInv'
    OBVIOUS
  <1> USE DEF counters, lateClosers
  <1>1. ASSUME NEW q \in Requests,
               \/ TakeSlot(q) \/ GiveUpQueued(q) \/ AcquireRetired(q)
               \/ WaitEnds(q) \/ WaitCancelled(q) \/ CreateFails(q)
               \/ RunFails(q) \/ Complete(q) \/ DrainEnds(q) \/ DrainFails(q)
               \/ TimerFires(q) \/ WatcherFires(q) \/ WatcherStops(q)
               \/ DropWorker(q) \/ FreeSlot(q) \/ Cancel(q)
               \/ \E w \in Workers : LateClose(q, w)
        PROVE  OwnerInv'
    <2>1. UNCHANGED <<held, idle, retired, doomed>> /\ open' \subseteq open
      BY <1>1 DEF TakeSlot, GiveUpQueued, AcquireRetired, WaitEnds, WaitCancelled,
         CreateFails, RunFails, Complete, DrainEnds, DrainFails, TimerFires, WatcherFires,
         WatcherStops, DropWorker, FreeSlot, Cancel, LateClose
    <2> QED BY <2>1, OwnersStay
  <1>2. ASSUME NEW q \in Requests, AcquireCreates(q) \/ AcquireWaits(q) PROVE OwnerInv'
    BY <1>2, EmptyIdleKeepsOwners DEF AcquireCreates, AcquireWaits
  <1>3. ASSUME NEW q \in Requests,
               \/ AcquireIdle(q) \/ CreateSucceeds(q) \/ CreateTooLate(q)
               \/ ReturnWorker(q) \/ CloseHeld(q)
        PROVE  OwnerInv'
    BY <1>3, AcquireIdleKeepsOwners, CreateKeepsOwners, ReleaseKeepsOwners
  <1>4. CASE ReplenishFails \/ Retry \/ UNCHANGED vars
    <2>1. UNCHANGED <<held, idle, retired, doomed>> /\ open' \subseteq open
      BY <1>4 DEF ReplenishFails, Retry, vars
    <2> QED BY <2>1, OwnersStay
  <1>5. CASE ReplenishSucceeds \/ ReplenishTooLate
    BY <1>5, ReplenishKeepsOwners
  <1>6. CASE Retire \/ \E w \in Workers : CloseDoomed(w)
    BY <1>6, RetireKeepsOwners
  <1> QED BY <1>1, <1>2, <1>3, <1>4, <1>5, <1>6 DEF Next

\* No running process is forgotten, none is shared or idle twice, and a retired
\* pool keeps nothing idle.
THEOREM WorkersHaveOneOwner == Spec => []EveryProcessHasOneOwner
  <1>1. Init => OwnerInv
    BY DEF Init, OwnerInv, EveryProcessHasOneOwner, Idle, ToSet
  <1>2. CountInv => TypeOK
    BY DEF CountInv
  <1>3. OwnerInv <=> EveryProcessHasOneOwner
    BY DEF OwnerInv
  <1> QED BY <1>1, <1>2, <1>3, SpecKeepsCounts, StepKeepsOwners, PTL DEF Spec

-----------------------------------------------------------------------------
(* Sleepers.  Who does not get a worker has counted the workers in use: they *)
(* are fewer than the slots, so the limit is reached only with a start under *)
(* way.                                                                      *)

LEMMA WaiterSeesStart ==
    ASSUME NEW q \in Requests, CountInv, AcquireWaits(q)
    PROVE  creating > 0
  <1>1. PICK h \in Nat : h = Cardinality(Holders)
    BY TalliesExist DEF Tallied
  <1>2. PICK s \in Nat : s = Cardinality(Seated)
    BY TalliesExist DEF Tallied
  <1>3. h < s
    <2>1. q \in Seated \ Holders /\ Holders \subseteq Seated
      BY DEF AcquireWaits, Goto, Seated, Holders, Holding
    <2>2. IsFiniteSet(Seated)
      BY PoolAssumption, FS_Subset DEF Seated
    <2>3. Holders # Seated
      BY <2>1
    <2> QED BY <1>1, <1>2, <2>1, <2>2, <2>3, FS_Subset
  <1>4. s <= MaxConcurrency
    BY <1>2 DEF CountInv, TypeOK, AmountsOK, CountersExact
  <1>5. PICK n \in Nat : n = Len(idle) /\ live = n + h
    BY <1>1 DEF CountInv, TypeOK, AmountsOK, CountersExact
  <1>6. live' = h
    BY <1>5 DEF AcquireWaits, EmptyIdle
  <1>7. h + creating >= MaxConcurrency /\ creating \in Nat
    BY <1>6 DEF AcquireWaits, CountInv, TypeOK, AmountsOK
  <1> QED BY <1>3, <1>4, <1>7, PoolAssumption

\* Workers still to be started are not given up unnoticed.
LEMMA ScheduleKeepsStarts ==
    ASSUME CountInv, CountInv', Schedule(creating)
    PROVE  creating' >= creating
  <1>1. Target \in Nat
    BY PoolAssumption DEF Target
  <1>2. PICK l \in Nat, c \in Nat : l = live' /\ c = creating
    BY DEF CountInv, TypeOK, AmountsOK
  <1>3. CASE ~retired /\ l + c < Target
    <2>1. PICK t \in Nat : t = Target
      BY <1>1
    <2>2. l + c < t /\ creating' = c + (t - (l + c))
      BY <1>2, <1>3, <2>1 DEF Schedule
    <2>3. PICK n \in Nat : n = c + (t - (l + c)) /\ n >= c
      BY <2>2
    <2> QED BY <1>2, <2>2, <2>3
  <1>4. CASE ~(~retired /\ l + c < Target)
    BY <1>2, <1>4 DEF Schedule
  <1> QED BY <1>3, <1>4

LEMMA StepKeepsWakers ==
    CountInv /\ CountInv' /\ SleepersWillBeWoken /\ [Next]_vars => SleepersWillBeWoken'
  <1> SUFFICES ASSUME CountInv, CountInv', SleepersWillBeWoken, [Next]_vars
               PROVE  SleepersWillBeWoken'
    OBVIOUS
  <1> USE DEF counters, lateClosers
  <1>1. ASSUME asleep' \subseteq asleep, creating' = creating PROVE SleepersWillBeWoken'
    BY <1>1 DEF SleepersWillBeWoken
  <1>2. ASSUME asleep' = {} PROVE SleepersWillBeWoken'
    BY <1>2 DEF SleepersWillBeWoken
  <1>3. ASSUME NEW q \in Requests,
               \/ TakeSlot(q) \/ GiveUpQueued(q) \/ AcquireRetired(q) \/ AcquireIdle(q)
               \/ WaitEnds(q) \/ WaitCancelled(q)
               \/ RunFails(q) \/ Complete(q) \/ DrainEnds(q) \/ DrainFails(q)
               \/ TimerFires(q) \/ WatcherFires(q) \/ WatcherStops(q)
               \/ CloseHeld(q) \/ FreeSlot(q) \/ Cancel(q)
               \/ \E w \in Workers : LateClose(q, w)
        PROVE  SleepersWillBeWoken'
    BY <1>1, <1>3 DEF TakeSlot, GiveUpQueued, AcquireRetired, AcquireIdle, WaitEnds,
       WaitCancelled, RunFails, Complete, DrainEnds, DrainFails, TimerFires, WatcherFires,
       WatcherStops, CloseHeld, FreeSlot, Cancel, LateClose
  <1>4. ASSUME NEW q \in Requests, AcquireCreates(q) PROVE SleepersWillBeWoken'
    <2>1. creating \in Nat /\ creating' = creating + 1
      BY <1>4 DEF AcquireCreates, CountInv, TypeOK, AmountsOK
    <2> QED BY <2>1 DEF SleepersWillBeWoken
  <1>5. ASSUME NEW q \in Requests, AcquireWaits(q) PROVE SleepersWillBeWoken'
    <2>1. creating' = creating
      BY <1>5 DEF AcquireWaits
    <2> QED BY <1>5, <2>1, WaiterSeesStart DEF SleepersWillBeWoken
  <1>6. ASSUME NEW q \in Requests,
               \/ CreateSucceeds(q) \/ CreateTooLate(q) \/ CreateFails(q)
               \/ ReturnWorker(q) \/ DropWorker(q)
        PROVE  SleepersWillBeWoken'
    BY <1>2, <1>6 DEF CreateSucceeds, CreateTooLate, CreateFails, ReturnWorker, DropWorker,
       Notify
  <1>7. CASE ReplenishSucceeds \/ ReplenishTooLate \/ ReplenishFails \/ Retire
    BY <1>2, <1>7 DEF ReplenishSucceeds, ReplenishTooLate, ReplenishFails, Retire, Notify
  <1>8. CASE Retry
    <2>1. creating' >= creating /\ asleep' = asleep
      BY <1>8, ScheduleKeepsStarts DEF Retry
    <2>2. creating \in Nat /\ creating' \in Nat
      BY DEF CountInv, TypeOK, AmountsOK
    <2> QED BY <2>1, <2>2 DEF SleepersWillBeWoken
  <1>9. CASE UNCHANGED vars \/ \E w \in Workers : CloseDoomed(w)
    BY <1>1, <1>9 DEF CloseDoomed, vars
  <1> QED BY <1>3, <1>4, <1>5, <1>6, <1>7, <1>8, <1>9 DEF Next

\* No wake-up is lost: while a request sleeps a start is under way, whose end
\* wakes everybody.
THEOREM SleepersAreNeverForgotten == Spec => []SleepersWillBeWoken
  <1>1. Init => SleepersWillBeWoken
    BY DEF Init, SleepersWillBeWoken
  <1> QED BY <1>1, SpecKeepsCounts, StepKeepsWakers, PTL DEF Spec

-----------------------------------------------------------------------------
(* Replacement.  Schedule fills the pool up to its target.                   *)

LEMMA ScheduleFillsUp ==
    ASSUME NEW l \in Nat, NEW c \in Nat, live' = l, retired' = retired, Schedule(c)
    PROVE  ~FallsShort'
  <1>1. PICK t \in Nat : t = Target
    BY PoolAssumption DEF Target
  <1>2. CASE retired
    BY <1>2 DEF FallsShort
  <1>3. CASE ~retired /\ l + c < t
    <2>1. creating' = c + (t - (l + c))
      BY <1>1, <1>3 DEF Schedule
    <2>2. ~(l + (c + (t - (l + c))) < t)
      BY <1>3
    <2> QED BY <1>1, <2>1, <2>2 DEF FallsShort, Target
  <1>4. CASE ~retired /\ ~(l + c < t)
    <2>1. creating' = c + 0
      BY <1>1, <1>4 DEF Schedule
    <2> QED BY <1>1, <1>4, <2>1 DEF FallsShort, Target
  <1> QED BY <1>2, <1>3, <1>4

\* One worker start more or less, made good by a live worker less or more.
LEMMA SumStays ==
    ASSUME CountInv, creating' = creating - 1, live' = live + 1,
           retired' = retired, retries' = retries
    PROVE  FallsShort' => FallsShort
  <1>1. PICK l \in Nat, c \in Nat : l = live /\ c = creating
    BY DEF CountInv, TypeOK, AmountsOK
  <1>2. (l + 1) + (c - 1) = l + c
    OBVIOUS
  <1>3. live' + creating' = live + creating
    BY <1>1, <1>2
  <1> QED BY <1>3 DEF FallsShort, Target

LEMMA StepReplaces ==
    ASSUME CountInv, CountInv', [Next]_vars, FallsShort', ~FallsShort
    PROVE  \E q \in Requests : pc[q] = "acquiring" /\ pc'[q] # pc[q]
  <1> USE DEF counters, lateClosers
  <1> DEFINE Goal == \E q \in Requests : pc[q] = "acquiring" /\ pc'[q] # pc[q]
  <1>1. ~UNCHANGED <<live, creating, retired, retries>>
    BY DEF FallsShort, Target
  <1>2. ASSUME NEW q \in Requests, AcquireIdle(q) \/ AcquireCreates(q) \/ AcquireWaits(q)
        PROVE  Goal
    BY <1>2 DEF AcquireIdle, AcquireCreates, AcquireWaits, Goto, CountInv, TypeOK, PlacesOK
  <1>3. ASSUME NEW q \in Requests,
               \/ TakeSlot(q) \/ GiveUpQueued(q) \/ AcquireRetired(q)
               \/ WaitEnds(q) \/ WaitCancelled(q)
               \/ RunFails(q) \/ Complete(q) \/ DrainEnds(q) \/ DrainFails(q)
               \/ TimerFires(q) \/ WatcherFires(q) \/ WatcherStops(q)
               \/ ReturnWorker(q) \/ CloseHeld(q) \/ FreeSlot(q) \/ Cancel(q)
               \/ \E w \in Workers : LateClose(q, w)
        PROVE  FALSE
    BY <1>1, <1>3 DEF TakeSlot, GiveUpQueued, AcquireRetired, WaitEnds, WaitCancelled,
       RunFails, Complete, DrainEnds, DrainFails, TimerFires, WatcherFires, WatcherStops,
       ReturnWorker, CloseHeld, FreeSlot, Cancel, LateClose
  <1>4. CASE ReplenishSucceeds \/ \E q \in Requests : CreateSucceeds(q)
    BY <1>4, SumStays DEF ReplenishSucceeds, CreateSucceeds
  <1>5. CASE Retire \/ ReplenishTooLate
    BY <1>5 DEF Retire, ReplenishTooLate, FallsShort
  <1>6. CASE ReplenishFails
    <2>1. retired' = retired /\ (~retired => retries' = retries + 1)
      BY <1>6 DEF ReplenishFails
    <2>2. retries \in Nat
      BY PoolAssumption DEF CountInv, TypeOK, AmountsOK
    <2> QED BY <2>1, <2>2 DEF FallsShort
  <1>7. ASSUME NEW q \in Requests, CreateTooLate(q) \/ CreateFails(q)
        PROVE  FALSE
    <2>1. PICK l \in Nat : l = live' /\ retired' = retired
      BY <1>7 DEF CreateTooLate, CreateFails, CountInv, TypeOK, AmountsOK
    <2>2. Schedule(creating - 1)
      BY <1>7 DEF CreateTooLate, CreateFails
    <2>3. q \in Creators
      BY <1>7 DEF CreateTooLate, CreateFails, Goto, Creators
    <2>4. creating - 1 \in Nat
      <3>1. PICK h \in Nat, s \in Nat, c \in Nat : Tallied(h, s, c)
        BY TalliesExist
      <3>2. IsFiniteSet(Creators)
        BY PoolAssumption, FS_Subset DEF Creators
      <3>3. c # 0
        BY <2>3, <3>1, <3>2, FS_EmptySet DEF Tallied
      <3>4. PICK n \in Nat : n = replenishing /\ creating = n + c
        BY <3>1 DEF Tallied, CountInv, TypeOK, AmountsOK, CountersExact
      <3> QED BY <3>3, <3>4
    <2> QED BY <2>1, <2>2, <2>4, ScheduleFillsUp
  <1>8. ASSUME Retry \/ \E q \in Requests : DropWorker(q)
        PROVE  FALSE
    <2>1. PICK l \in Nat, c \in Nat : l = live' /\ c = creating
      BY DEF CountInv, TypeOK, AmountsOK
    <2>2. Schedule(c) /\ retired' = retired
      BY <1>8, <2>1 DEF Retry, DropWorker
    <2> QED BY <2>1, <2>2, ScheduleFillsUp
  <1>9. CASE UNCHANGED vars \/ \E w \in Workers : CloseDoomed(w)
    BY <1>1, <1>9 DEF CloseDoomed, vars
  <1> QED BY <1>2, <1>3, <1>4, <1>5, <1>6, <1>7, <1>8, <1>9 DEF Next

\* No worker is lost for good: a step that leaves the pool short of its target
\* with no start and no retry timer pending is a request's own acquireWorker.
THEOREM LostWorkersAreReplaced == Spec => WorkersAreReplaced
  <1>1. CountInv /\ CountInv' /\ [Next]_vars
            => [(FallsShort' /\ ~FallsShort) =>
                    \E q \in Requests : pc[q] = "acquiring" /\ pc'[q] # pc[q]]_vars
    BY StepReplaces
  <1> QED BY <1>1, SpecKeepsCounts, PTL DEF Spec, WorkersAreReplaced

-----------------------------------------------------------------------------
(* The lease.  A request is lent a worker by AcquireIdle and CreateSucceeds, *)
(* gives it back by ReturnWorker and DropWorker, and is refused wherever it  *)
(* leaves without one; Retire closes, and everything else stutters.          *)

Loans == {<<q, held[q]>> : q \in Holders}

New == {"queued", "acquiring", "creating", "waiting"}

Over == {"closing", "leaving", "done"}

LEMMA StageByPlace ==
    ASSUME TypeOK, NEW q \in Requests
    PROVE  /\ pc[q] \in New => Stage(q) = "new" /\ q \notin Holders
           /\ Holding(q) => Stage(q) = "lent" /\ q \in Holders
           /\ pc[q] \in Over => Stage(q) = "over" /\ q \notin Holders
           /\ pc[q] \in New \/ Holding(q) \/ pc[q] \in Over
  BY DEF TypeOK, PlacesOK, PC, Stage, Holding, Holders, New, Over

LEMMA StageByPlaceNext ==
    ASSUME TypeOK', NEW q \in Requests
    PROVE  /\ pc'[q] \in New => Stage(q)' = "new" /\ q \notin Holders'
           /\ Holding(q)' => Stage(q)' = "lent" /\ q \in Holders'
           /\ pc'[q] \in Over => Stage(q)' = "over" /\ q \notin Holders'
  BY DEF TypeOK, PlacesOK, PC, Stage, Holding, Holders, New, Over

\* The instance's Cardinality is the module's own.
LEMMA SameCardinality == \A S : Lease!Cardinality(S) = Cardinality(S)
  BY ZenonT(20) DEF Lease!Cardinality, Cardinality

LEMMA LoansAreCounted ==
    Cardinality(Loans) \in Nat /\ Cardinality(Loans) <= Cardinality(Holders)
  <1> DEFINE f == [q \in Holders |-> <<q, held[q]>>]
  <1>1. f \in Surjection(Holders, Loans)
    BY DEF Surjection, Loans
  <1>2. IsFiniteSet(Holders)
    BY PoolAssumption, FS_Subset DEF Holders
  <1> QED BY <1>1, <1>2, FS_Surjection, FS_CardinalityType

\* The places and the workers of all requests but q stay.
OnlyMoves(q, place) ==
    /\ pc' = [pc EXCEPT ![q] = place]
    /\ \A r \in Requests \ {q} : held'[r] = held[r]

LEMMA OthersStay ==
    ASSUME TypeOK, NEW q \in Requests, NEW place, OnlyMoves(q, place)
    PROVE  /\ pc'[q] = place
           /\ \A r \in Requests \ {q} : Stage(r)' = Stage(r)
           /\ Holders' \ {q} = Holders \ {q}
  <1>1. pc'[q] = place /\ \A r \in Requests \ {q} : pc'[r] = pc[r]
    BY DEF TypeOK, PlacesOK, OnlyMoves
  <1> QED BY <1>1 DEF Stage, Holding, Holders

\* A step that changes no request's stage or loan.
LEMMA LeaseStutters ==
    ASSUME retired' = retired, Holders' = Holders,
           \A q \in Holders : held'[q] = held[q],
           \A q \in Requests : Stage(q)' = Stage(q)
    PROVE  UNCHANGED Lease!leaseVars
  <1>1. Loans' = Loans
    BY DEF Loans
  <1> QED BY <1>1 DEF Lease!leaseVars, Loans

LEMMA LeaseRefuses ==
    ASSUME TypeOK, TypeOK', NEW q \in Requests, pc[q] \in New, NEW place \in Over,
           OnlyMoves(q, place), retired' = retired
    PROVE  Lease!Refuse(q)
  <1>1. Stage(q) = "new" /\ q \notin Holders
    BY StageByPlace
  <1>2. pc'[q] = place /\ \A r \in Requests \ {q} : Stage(r)' = Stage(r)
    BY OthersStay
  <1>3. Stage(q)' = "over" /\ q \notin Holders'
    BY <1>2, StageByPlaceNext
  <1>4. Holders' = Holders
    BY <1>1, <1>3, OthersStay
  <1>5. Loans' = Loans
    BY <1>1, <1>4 DEF Loans, OnlyMoves, Holders
  <1>6. [r \in Requests |-> Stage(r)'] = [[r \in Requests |-> Stage(r)] EXCEPT ![q] = "over"]
    BY <1>2, <1>3
  <1>7. Lease!Refuse(q) <=>
            /\ [r \in Requests |-> Stage(r)][q] = "new"
            /\ [r \in Requests |-> Stage(r)'] =
                   [[r \in Requests |-> Stage(r)] EXCEPT ![q] = "over"]
            /\ Loans' = Loans /\ retired' = retired
    BY DEF Lease!Refuse, Loans
  <1> QED BY <1>1, <1>5, <1>6, <1>7

LEMMA LeaseLends ==
    ASSUME CountInv, CountInv', NEW q \in Requests, NEW w \in Workers, pc[q] \in New,
           OnlyMoves(q, "running"), ~retired, retired' = retired,
           held'[q] = w, \A r \in Holders : held[r] # w
    PROVE  Lease!Lend(q, w)
  <1> USE DEF CountInv
  <1>1. Stage(q) = "new" /\ q \notin Holders
    BY StageByPlace
  <1>2. pc'[q] = "running" /\ \A r \in Requests \ {q} : Stage(r)' = Stage(r)
    BY OthersStay
  <1>3. Stage(q)' = "lent" /\ q \in Holders'
    BY <1>2, StageByPlaceNext DEF Holding
  <1>4. Holders' = Holders \cup {q}
    BY <1>1, <1>3, OthersStay
  <1>5. Loans' = Loans \cup {<<q, w>>}
    BY <1>1, <1>4 DEF Loans, OnlyMoves, Holders
  <1>6. Cardinality(Loans) < MaxConcurrency
    <2>1. IsFiniteSet(Holders)
      BY PoolAssumption, FS_Subset DEF Holders
    <2>2. PICK h \in Nat : h = Cardinality(Holders)
      BY <2>1, FS_CardinalityType
    <2>3. Cardinality(Holders') = h + 1
      BY <1>1, <1>4, <2>1, <2>2, FS_AddElement
    <2>4. PICK n \in Nat : n = Len(idle') /\ live' = n + (h + 1)
      BY <2>3 DEF TypeOK, AmountsOK, CountersExact
    <2>5. creating' \in Nat /\ live' + creating' <= MaxConcurrency
      BY DEF TypeOK, AmountsOK, CapacityRespected
    <2>6. PICK l \in Nat : l = Cardinality(Loans) /\ l <= h
      BY <2>2, LoansAreCounted
    <2> QED BY <2>4, <2>5, <2>6, PoolAssumption
  <1>7. \A l \in Loans : l[2] # w
    BY DEF Loans
  <1>8. [r \in Requests |-> Stage(r)'] = [[r \in Requests |-> Stage(r)] EXCEPT ![q] = "lent"]
    BY <1>2, <1>3
  <1>9. Lease!Lend(q, w) <=>
            /\ [r \in Requests |-> Stage(r)][q] = "new"
            /\ ~retired /\ (\A l \in Loans : l[2] # w)
            /\ Cardinality(Loans) < MaxConcurrency
            /\ [r \in Requests |-> Stage(r)'] =
                   [[r \in Requests |-> Stage(r)] EXCEPT ![q] = "lent"]
            /\ Loans' = Loans \cup {<<q, w>>} /\ retired' = retired
    BY SameCardinality DEF Lease!Lend, Loans
  <1> QED BY <1>1, <1>5, <1>6, <1>7, <1>8, <1>9

LEMMA LeaseGivesBack ==
    ASSUME TypeOK, TypeOK', NEW q \in Requests, Holding(q), NEW place \in Over,
           OnlyMoves(q, place), retired' = retired
    PROVE  \E w \in Workers : Lease!GiveBack(q, w)
  <1>1. Stage(q) = "lent" /\ q \in Holders
    BY StageByPlace
  <1>2. PICK w \in Workers : w = held[q]
    BY DEF TypeOK, PlacesOK
  <1>3. pc'[q] = place /\ \A r \in Requests \ {q} : Stage(r)' = Stage(r)
    BY OthersStay
  <1>4. Stage(q)' = "over" /\ q \notin Holders'
    BY <1>3, StageByPlaceNext
  <1>5. Holders' = Holders \ {q}
    BY <1>4, OthersStay
  <1>6. Loans' = Loans \ {<<q, w>>}
    BY <1>2, <1>5 DEF Loans, OnlyMoves, Holders
  <1>7. [r \in Requests |-> Stage(r)'] = [[r \in Requests |-> Stage(r)] EXCEPT ![q] = "over"]
    BY <1>3, <1>4
  <1>8. <<q, w>> \in Loans
    BY <1>1, <1>2 DEF Loans
  <1>9. Lease!GiveBack(q, w) <=>
            /\ <<q, w>> \in Loans
            /\ [r \in Requests |-> Stage(r)'] =
                   [[r \in Requests |-> Stage(r)] EXCEPT ![q] = "over"]
            /\ Loans' = Loans \ {<<q, w>>} /\ retired' = retired
    BY DEF Lease!GiveBack, Loans
  <1>10. Lease!GiveBack(q, w)
    BY <1>6, <1>7, <1>8, <1>9
  <1> QED BY <1>10

LeaseStep == [Lease!Next]_(Lease!leaseVars)

LEMMA RefusalsRefine ==
    ASSUME NEW q \in Requests, TypeOK, TypeOK',
           \/ GiveUpQueued(q) \/ AcquireRetired(q) \/ WaitCancelled(q)
           \/ CreateTooLate(q) \/ CreateFails(q)
    PROVE  LeaseStep
  <1> USE DEF Goto, TypeOK, PlacesOK, New, Over, OnlyMoves
  <1>1. retired' = retired
    BY DEF GiveUpQueued, AcquireRetired, WaitCancelled, CreateTooLate, CreateFails
  <1>2. pc[q] \in New
    BY DEF GiveUpQueued, AcquireRetired, WaitCancelled, CreateTooLate, CreateFails
  <1>3. \E place \in Over : OnlyMoves(q, place)
    BY DEF GiveUpQueued, AcquireRetired, WaitCancelled, CreateTooLate, CreateFails
  <1>4. Lease!Refuse(q)
    BY <1>1, <1>2, <1>3, LeaseRefuses
  <1> QED BY <1>4 DEF LeaseStep, Lease!Next

LEMMA AcquireRefines ==
    ASSUME NEW q \in Requests, CountInv, CountInv', OwnerInv,
           AcquireIdle(q) \/ CreateSucceeds(q)
    PROVE  LeaseStep
  <1> USE DEF Goto, CountInv
  <1>1. ~retired /\ retired' = retired /\ pc[q] \in New
    BY DEF AcquireIdle, CreateSucceeds, New
  <1>2. PICK w \in Workers : /\ held' = [held EXCEPT ![q] = w]
                             /\ \A r \in Holders : held[r] # w
    <2>1. CASE AcquireIdle(q)
      <3>1. PICK k \in DOMAIN idle : held' = [held EXCEPT ![q] = idle[k]]
        BY <2>1 DEF AcquireIdle, RunOn
      <3>2. idle[k] \in Workers /\ idle[k] \in Idle
        BY <3>1 DEF TypeOK, AmountsOK, Idle, ToSet
      <3>3. \A r \in Holders : held[r] # NoWorker
        BY DEF TypeOK, PlacesOK, Holders
      <3> QED BY <3>1, <3>2, <3>3 DEF OwnerInv, EveryProcessHasOneOwner, Holders
    <2>2. CASE CreateSucceeds(q)
      BY <2>2 DEF CreateSucceeds, RunOn, Fresh, Holders
    <2> QED BY <2>1, <2>2
  <1>3. OnlyMoves(q, "running") /\ held'[q] = w
    BY <1>2 DEF OnlyMoves, AcquireIdle, CreateSucceeds, TypeOK, PlacesOK
  <1>4. Lease!Lend(q, w)
    BY <1>1, <1>2, <1>3, LeaseLends
  <1> QED BY <1>4 DEF LeaseStep, Lease!Next

LEMMA ReleasesRefine ==
    ASSUME NEW q \in Requests, TypeOK, TypeOK', ReturnWorker(q) \/ DropWorker(q)
    PROVE  LeaseStep
  <1>1. retired' = retired /\ Holding(q)
    BY DEF ReturnWorker, DropWorker, Returnable, Holding
  <1>2. \E place \in Over : OnlyMoves(q, place)
    BY DEF ReturnWorker, DropWorker, Over, OnlyMoves, TypeOK, PlacesOK
  <1>3. \E w \in Workers : Lease!GiveBack(q, w)
    BY <1>1, <1>2, LeaseGivesBack
  <1> QED BY <1>3 DEF LeaseStep, Lease!Next

\* The request moves within its stage.
LEMMA MovesRefine ==
    ASSUME NEW q \in Requests, TypeOK, TypeOK',
           \/ TakeSlot(q) \/ AcquireCreates(q) \/ AcquireWaits(q) \/ WaitEnds(q)
           \/ RunFails(q) \/ Complete(q) \/ DrainEnds(q) \/ DrainFails(q)
           \/ CloseHeld(q) \/ FreeSlot(q)
    PROVE  LeaseStep
  <1> USE DEF Goto, counters, lateClosers
  <1>1. retired' = retired
    BY DEF TakeSlot, AcquireCreates, AcquireWaits, WaitEnds, RunFails, Complete, DrainEnds,
       DrainFails, CloseHeld, FreeSlot
  <1>2. PICK place : OnlyMoves(q, place)
    BY DEF TakeSlot, AcquireCreates, AcquireWaits, WaitEnds, RunFails, Complete, DrainEnds,
       DrainFails, CloseHeld, FreeSlot, OnlyMoves, TypeOK, PlacesOK
  <1>3. pc'[q] = place
    BY <1>2, OthersStay
  <1>4. Stage(q)' = Stage(q) /\ (q \in Holders' <=> q \in Holders)
    <2>1. CASE TakeSlot(q) \/ AcquireCreates(q) \/ AcquireWaits(q) \/ WaitEnds(q)
      <3>1. pc[q] \in New /\ pc'[q] \in New
        BY <2>1 DEF TakeSlot, AcquireCreates, AcquireWaits, WaitEnds, New, TypeOK, PlacesOK
      <3> QED BY <3>1, StageByPlace, StageByPlaceNext
    <2>2. CASE RunFails(q) \/ Complete(q) \/ DrainEnds(q) \/ DrainFails(q)
      <3>1. Holding(q) /\ Holding(q)'
        BY <2>2 DEF RunFails, Complete, DrainEnds, DrainFails, Holding, TypeOK, PlacesOK
      <3> QED BY <3>1, StageByPlace, StageByPlaceNext
    <2>3. CASE CloseHeld(q) \/ FreeSlot(q)
      <3>1. pc[q] \in Over /\ pc'[q] \in Over
        BY <2>3 DEF CloseHeld, FreeSlot, Over, TypeOK, PlacesOK
      <3> QED BY <3>1, StageByPlace, StageByPlaceNext
    <2> QED BY <2>1, <2>2, <2>3
  <1>5. \A r \in Requests \ {q} : Stage(r)' = Stage(r)
    BY <1>2, OthersStay
  <1>6. Holders' = Holders
    <2>1. Holders' \ {q} = Holders \ {q}
      BY <1>2, OthersStay
    <2> QED BY <1>4, <2>1
  <1>7. q \in Holders => held' = held
    <2>1. CASE CloseHeld(q)
      BY <2>1 DEF CloseHeld, Holders, Holding
    <2>2. CASE ~CloseHeld(q)
      BY <2>2 DEF TakeSlot, AcquireCreates, AcquireWaits, WaitEnds, RunFails, Complete,
         DrainEnds, DrainFails, FreeSlot
    <2> QED BY <2>1, <2>2
  <1>8. \A r \in Holders : held'[r] = held[r]
    BY <1>2, <1>7 DEF OnlyMoves, Holders
  <1> QED BY <1>1, <1>4, <1>5, <1>6, <1>8, LeaseStutters DEF LeaseStep

\* Steps that move no request.
LEMMA PoolStepsRefine ==
    ASSUME \/ \E q \in Requests :
                  \/ TimerFires(q) \/ WatcherFires(q) \/ WatcherStops(q) \/ Cancel(q)
                  \/ \E w \in Workers : LateClose(q, w)
           \/ \E w \in Workers : CloseDoomed(w)
           \/ ReplenishSucceeds \/ ReplenishTooLate \/ ReplenishFails \/ Retry
           \/ UNCHANGED vars
    PROVE  LeaseStep
  <1>1. pc' = pc /\ held' = held /\ retired' = retired
    BY DEF TimerFires, WatcherFires, WatcherStops, Cancel, LateClose, CloseDoomed,
       ReplenishSucceeds, ReplenishTooLate, ReplenishFails, Retry, vars
  <1>2. Holders' = Holders /\ \A q \in Requests : Stage(q)' = Stage(q)
    BY <1>1 DEF Holders, Holding, Stage
  <1> QED BY <1>1, <1>2, LeaseStutters DEF LeaseStep

LEMMA RetireRefines == ASSUME Retire PROVE LeaseStep
  <1>1. pc' = pc /\ held' = held /\ retired' = TRUE
    BY DEF Retire
  <1>2. Loans' = Loans /\ \A q \in Requests : Stage(q)' = Stage(q)
    BY <1>1 DEF Loans, Holders, Holding, Stage
  <1>3. Lease!Close
    BY <1>1, <1>2 DEF Lease!Close, Loans
  <1> QED BY <1>3 DEF LeaseStep, Lease!Next

LEMMA StepRefinesLease ==
    ASSUME CountInv, CountInv', OwnerInv, [Next]_vars
    PROVE  LeaseStep
  <1>0. TypeOK /\ TypeOK'
    BY DEF CountInv
  <1>1. ASSUME NEW q \in Requests,
               \/ GiveUpQueued(q) \/ AcquireRetired(q) \/ WaitCancelled(q)
               \/ CreateTooLate(q) \/ CreateFails(q)
        PROVE  LeaseStep
    BY <1>0, <1>1, RefusalsRefine
  <1>2. ASSUME NEW q \in Requests, AcquireIdle(q) \/ CreateSucceeds(q)
        PROVE  LeaseStep
    BY <1>2, AcquireRefines
  <1>3. ASSUME NEW q \in Requests, ReturnWorker(q) \/ DropWorker(q)
        PROVE  LeaseStep
    BY <1>0, <1>3, ReleasesRefine
  <1>4. ASSUME NEW q \in Requests,
               \/ TakeSlot(q) \/ AcquireCreates(q) \/ AcquireWaits(q) \/ WaitEnds(q)
               \/ RunFails(q) \/ Complete(q) \/ DrainEnds(q) \/ DrainFails(q)
               \/ CloseHeld(q) \/ FreeSlot(q)
        PROVE  LeaseStep
    BY <1>0, <1>4, MovesRefine
  <1>5. ASSUME \/ \E q \in Requests :
                      \/ TimerFires(q) \/ WatcherFires(q) \/ WatcherStops(q) \/ Cancel(q)
                      \/ \E w \in Workers : LateClose(q, w)
               \/ \E w \in Workers : CloseDoomed(w)
               \/ ReplenishSucceeds \/ ReplenishTooLate \/ ReplenishFails \/ Retry
               \/ UNCHANGED vars
        PROVE  LeaseStep
    BY <1>5, PoolStepsRefine
  <1>6. CASE Retire
    BY <1>6, RetireRefines
  <1> QED BY <1>1, <1>2, <1>3, <1>4, <1>5, <1>6 DEF Next

\* Callers of the WorkBuddy adapter see a lease, whatever the pool, the waiters and
\* the replenishers do: one worker for one request, max_concurrency loans at most,
\* and no new one once the adapter is retired.
THEOREM PoolImplementsWorkerLease == Spec => ImplementsWorkerLease
  <1>1. Init => Lease!Init
    <2> SUFFICES ASSUME Init PROVE Lease!Init
      OBVIOUS
    <2>1. Loans = {} /\ \A q \in Requests : Stage(q) = "new"
      BY DEF Init, Loans, Holders, Holding, Stage
    <2> QED BY <2>1 DEF Init, Lease!Init, Loans
  <1>2. CountInv /\ CountInv' /\ OwnerInv /\ [Next]_vars => [Lease!Next]_(Lease!leaseVars)
    BY StepRefinesLease DEF LeaseStep
  <1>3. OwnerInv <=> EveryProcessHasOneOwner
    BY DEF OwnerInv
  <1> QED BY <1>1, <1>2, <1>3, SpecKeepsCounts, WorkersHaveOneOwner, PTL
          DEF Spec, ImplementsWorkerLease, Lease!Spec
=============================================================================
