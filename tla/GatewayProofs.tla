--------------------------- MODULE GatewayProofs ---------------------------
(***************************************************************************)
(* Theorems about the gateway for any number of concurrent requests, any   *)
(* keys, quotas and charges, any number of store failures and restarts.    *)
(*                                                                         *)
(* The inductive invariant joins the store's (RunStoreProofs) with         *)
(* RequestInv of every request.  A step of request q keeps RequestInv of   *)
(* the others because it leaves their variables, their open runs and every *)
(* completed run alone (LeavesAlone, lemma OthersKeepInv).                 *)
(*                                                                         *)
(* Then why a run may be left open, what a retry gets, and the refinement  *)
(* of RunLedger.                                                           *)
(***************************************************************************)
EXTENDS Gateway, RunStoreProofs

Inv == StoreInv /\ TypeOK /\ RequestsConsistent

Untouched(p) ==
    /\ pc'[p] = pc[p] /\ ask'[p] = ask[p]
    /\ bill'[p] = bill[p] /\ source'[p] = source[p] /\ told'[p] = told[p]
    /\ p \in called' <=> p \in called
    /\ runs'[p] = runs[p]

LeavesAlone(q) ==
    /\ \A p \in RunIds \ {q} : Untouched(p)
    /\ Completed(q) => runs'[q] = runs[q]
    /\ \A s \in Clients \X Keys : keys[s] # NoRun => keys'[s] = keys[s]

LEMMA OthersKeepInv ==
    ASSUME NEW q \in RunIds, NEW p \in RunIds, p # q, TypeOK, RequestInv(p),
           LeavesAlone(q)
    PROVE  RequestInv(p)'
  <1>1. Untouched(p)
    BY DEF LeavesAlone
  <1>2. Billed(p) => Billed(p)'
    <2> SUFFICES ASSUME Billed(p) PROVE runs'[source[p]] = runs[source[p]]
      BY <1>1 DEF Billed, Completed, Untouched
    <2> QED BY DEF Billed, LeavesAlone, Untouched
  <1>3. \A s \in Clients \X Keys : keys[s] \in RunIds => keys'[s] = keys[s]
    BY DataAssumption DEF LeavesAlone
  <1>4. ask[p] \in Ask /\ ask[p].key \in Keys
            => <<ask[p].client, ask[p].key>> \in Clients \X Keys
    BY DEF Ask
  <1>5. pc[p] = "replaying" => ask[p] \in Ask
    BY DEF TypeOK
  <1>6. pc[p] = "replaying" => source[p] \in RunIds
    BY DEF RequestInv, Billed
  <1> QED BY <1>1, <1>2, <1>3, <1>4, <1>5, <1>6
          DEF RequestInv, Untouched, Open, Completed

-----------------------------------------------------------------------------
\* Steps of a request that do not touch the store.

NoStoreStep(q) ==
    /\ UNCHANGED storeVars
    /\ LeavesAlone(q)
    /\ RequestInv(q)'

LEMMA StartKeepsRequestInv ==
    ASSUME NEW q \in RunIds, Inv,
           \/ ReserveFindsCompleted(q)
           \/ \E c \in Clients, k \in Keys \cup {NoKey}, f \in Fingerprints :
                  Arrive(q, c, k, f)
           \/ \E reached \in BOOLEAN : AdapterRefuses(q, reached)
           \/ Refuse(q)
           \/ Cancel(q)
           \/ Replay(q)
           \/ ReserveRefuses(q)
           \/ AdapterStarts(q)
           \/ MarkRunningFails(q)
    PROVE  NoStoreStep(q)
  <1>0. TypeOK /\ RequestInv(q)
    BY DEF Inv, RequestsConsistent
  <1> USE <1>0 DEF TypeOK, RequestInv, BeforeRun, BeforeOutcome, AfterCall, Billed,
               LeavesAlone, Untouched, NoStoreStep, Goto, Tell, storeVars, Open,
               Completed
  <1>1. CASE ReserveFindsCompleted(q)
    <2>1. ask[q] \in Ask /\ ask[q].key \in Keys /\ Existing(q) \in RunIds
      BY <1>1 DEF ReserveFindsCompleted, HasRun, Existing, StoreTypeOK, Ask
    <2> QED BY <1>1, <2>1 DEF ReserveFindsCompleted, Replayable, Existing
  <1>2. ASSUME NEW c \in Clients, NEW k \in Keys \cup {NoKey},
               NEW f \in Fingerprints, Arrive(q, c, k, f)
        PROVE  NoStoreStep(q)
    BY <1>2 DEF Arrive
  <1>3. ASSUME NEW reached \in BOOLEAN, AdapterRefuses(q, reached)
        PROVE  NoStoreStep(q)
    BY <1>3 DEF AdapterRefuses, Absent
  <1>4. CASE Refuse(q)
    BY <1>4 DEF Refuse
  <1>5. CASE Cancel(q)
    BY <1>5 DEF Cancel
  <1>6. CASE Replay(q)
    BY <1>6 DEF Replay
  <1>7. CASE ReserveRefuses(q)
    BY <1>7 DEF ReserveRefuses, FailsUnder
  <1>8. CASE AdapterStarts(q)
    BY <1>8 DEF AdapterStarts, Absent
  <1>9. CASE MarkRunningFails(q)
    BY <1>9 DEF MarkRunningFails, FailsUnder
  <1> QED
    BY <1>1, <1>2, <1>3, <1>4, <1>5, <1>6, <1>7, <1>8, <1>9

LEMMA ConsumeKeepsRequestInv ==
    ASSUME NEW q \in RunIds, Inv,
           \/ \E charge \in Charges : ReceiveCompletion(q, charge)
           \/ SelectCancelled(q)
           \/ ReceiveClosed(q)
           \/ ReceiveDelta(q)
           \/ SendDelta(q)
           \/ DropDelta(q)
           \/ ReceiveUnpriceable(q)
           \/ ReceiveFailure(q)
           \/ SendFailed(q)
           \/ SendBilling(q)
           \/ SendCompleted(q)
           \/ ProviderStops(q)
    PROVE  NoStoreStep(q)
  <1>0. TypeOK /\ RequestInv(q)
    BY DEF Inv, RequestsConsistent
  <1> USE <1>0 DEF TypeOK, RequestInv, BeforeRun, BeforeOutcome, AfterCall, Billed,
               LeavesAlone, Untouched, NoStoreStep, Goto, Tell, storeVars, Open,
               Completed
  <1>1. ASSUME NEW charge \in Charges, ReceiveCompletion(q, charge)
        PROVE  NoStoreStep(q)
    BY <1>1 DEF ReceiveCompletion, ReceiveLast
  <1>2. CASE SelectCancelled(q)
    BY <1>2 DEF SelectCancelled
  <1>3. CASE ReceiveClosed(q)
    BY <1>3 DEF ReceiveClosed
  <1>4. CASE ReceiveDelta(q)
    BY <1>4 DEF ReceiveDelta
  <1>5. CASE SendDelta(q)
    BY <1>5 DEF SendDelta
  <1>6. CASE DropDelta(q)
    BY <1>6 DEF DropDelta
  <1>7. CASE ReceiveUnpriceable(q)
    BY <1>7 DEF ReceiveUnpriceable, ReceiveLast
  <1>8. CASE ReceiveFailure(q)
    BY <1>8 DEF ReceiveFailure, ReceiveLast
  <1>9. CASE SendFailed(q)
    BY <1>9 DEF SendFailed, SendLast
  <1>10. CASE SendBilling(q)
    BY <1>10 DEF SendBilling, SendLast
  <1>11. CASE SendCompleted(q)
    BY <1>11 DEF SendCompleted, SendLast
  <1>12. CASE ProviderStops(q)
    BY <1>12 DEF ProviderStops
  <1> QED
    BY <1>1, <1>2, <1>3, <1>4, <1>5, <1>6, <1>7, <1>8, <1>9, <1>10, <1>11,
       <1>12

-----------------------------------------------------------------------------
\* Steps of a request that call the store.

StoreStep(q) ==
    /\ StoreInv'
    /\ LeavesAlone(q)
    /\ RequestInv(q)'

LEMMA TryMarkFailedEffect ==
    ASSUME NEW q \in RunIds, NEW s \in FailureSettlements, StoreInv,
           TryMarkFailed(q, s)
    PROVE  /\ StoreInv'
           /\ \/ UNCHANGED storeVars
              \/ /\ Open(q)
                 /\ runs'[q] # Absent
                 /\ runs'[q].status = "failed"
                 /\ runs'[q].client = runs[q].client
                 /\ \A p \in RunIds \ {q} : runs'[p] = runs[p]
                 /\ keys' = keys
  <1>1. CASE MarkFailed(q, s)
    BY <1>1, UpdateStateEffect, UpdateStateKeepsStoreInv DEF MarkFailed, StoreInv
  <1>2. CASE UNCHANGED storeVars
    BY <1>2 DEF storeVars, StoreInv, StoreTypeOK, LedgerConsistent,
                KeysOwnTheirRun, Open
  <1> QED BY <1>1, <1>2 DEF TryMarkFailed

LEMMA CreateStep ==
    ASSUME NEW q \in RunIds, Inv, ReserveCreates(q)
    PROVE  StoreStep(q)
  <1>0. StoreInv /\ TypeOK /\ RequestInv(q)
    BY DEF Inv, RequestsConsistent
  <1> DEFINE c == ask[q].client
             k == ask[q].key
             f == ask[q].fingerprint
  <1>1. /\ ask[q] \in Ask
        /\ c \in Clients /\ k \in Keys \cup {NoKey} /\ f \in Fingerprints
        /\ Reserve(q, c, k, f, ask[q].dayStart)
    BY <1>0 DEF TypeOK, ReserveCreates, Goto, Ask
  <1>2. StoreInv'
    BY <1>0, <1>1, ReserveKeepsStoreInv
  <1>3. /\ runs'[q] # Absent /\ Open(q)' /\ runs'[q].client = c
        /\ runs[q] = Absent
        /\ \A p \in RunIds \ {q} : runs'[p] = runs[p]
        /\ k \in Keys => keys'[<<c, k>>] = q
        /\ \A s \in Clients \X Keys : keys[s] # NoRun => keys'[s] = keys[s]
    BY <1>0, <1>1, ReserveEffect DEF StoreInv
  <1>4. LeavesAlone(q)
    BY <1>0, <1>3
       DEF LeavesAlone, Untouched, ReserveCreates, Goto, TypeOK, Completed, Absent
  <1>5. RequestInv(q)'
    BY <1>0, <1>1, <1>3
       DEF RequestInv, BeforeRun, BeforeOutcome, AfterCall, ReserveCreates,
           Goto, TypeOK, Open, Completed
  <1> QED BY <1>2, <1>4, <1>5 DEF StoreStep

LEMMA MarkRunningStep ==
    ASSUME NEW q \in RunIds, Inv, MarkRunningSucceeds(q)
    PROVE  StoreStep(q)
  <1>0. StoreInv /\ TypeOK /\ RequestInv(q)
    BY DEF Inv, RequestsConsistent
  <1>1. UpdateState(q, "running", "pending")
    BY DEF MarkRunningSucceeds, MarkRunning
  <1>2. StoreInv'
    BY <1>0, <1>1, UpdateStateKeepsStoreInv
  <1>3. /\ Open(q) /\ runs[q] # Absent
        /\ runs'[q] # Absent
        /\ runs'[q].status = "running"
        /\ runs'[q].client = runs[q].client
        /\ \A p \in RunIds \ {q} : runs'[p] = runs[p]
        /\ keys' = keys
    BY <1>0, <1>1, UpdateStateEffect, RowFacts DEF StoreInv
  <1>4. LeavesAlone(q)
    BY <1>0, <1>3
       DEF LeavesAlone, Untouched, MarkRunningSucceeds, Goto, TypeOK, Completed,
           Open
  <1>5. RequestInv(q)'
    BY <1>0, <1>3
       DEF RequestInv, BeforeRun, BeforeOutcome, AfterCall, MarkRunningSucceeds,
           Goto, TypeOK, Open, Completed
  <1> QED BY <1>2, <1>4, <1>5 DEF StoreStep

\* The five steps that try to mark the run failed.
LEMMA MarkFailedStep ==
    ASSUME NEW q \in RunIds, Inv,
           \/ MarkStartFailed(q)
           \/ MarkNeverRan(q)
           \/ MarkCancelled(q)
           \/ MarkRejected(q)
           \/ MarkSettleFailed(q)
    PROVE  StoreStep(q)
  <1>0. StoreInv /\ TypeOK /\ RequestInv(q)
    BY DEF Inv, RequestsConsistent
  <1>1. /\ StoreInv'
        /\ \/ UNCHANGED storeVars
           \/ /\ Open(q)
              /\ runs'[q] # Absent
              /\ runs'[q].status = "failed"
              /\ runs'[q].client = runs[q].client
              /\ \A p \in RunIds \ {q} : runs'[p] = runs[p]
              /\ keys' = keys
    <2>1. CASE TryMarkFailed(q, "unconfirmed") \/ TryMarkFailed(q, "failed")
      BY <1>0, <2>1, TryMarkFailedEffect DEF FailureSettlements
    <2>2. CASE UNCHANGED storeVars
      BY <1>0, <2>2 DEF storeVars, StoreInv, StoreTypeOK, LedgerConsistent,
                        KeysOwnTheirRun, Open
    <2> QED BY <2>1, <2>2 DEF MarkStartFailed, MarkNeverRan, MarkCancelled,
                              MarkRejected, MarkSettleFailed
  <1>2. Open(q) /\ runs[q] # Absent /\ ~Completed(q)
    BY <1>0 DEF RequestInv, BeforeOutcome, Goto, Open, Completed, Absent,
                MarkStartFailed, MarkNeverRan, MarkCancelled, MarkRejected,
                MarkSettleFailed
  <1>3. /\ runs'[q] # Absent /\ ~Completed(q)'
        /\ runs'[q].client = runs[q].client
        /\ \A p \in RunIds \ {q} : runs'[p] = runs[p]
        /\ keys' = keys
    BY <1>1, <1>2 DEF storeVars, Completed
  <1>4. LeavesAlone(q)
    BY <1>0, <1>2, <1>3
       DEF LeavesAlone, Untouched, Goto, Tell, TypeOK, MarkStartFailed,
           MarkNeverRan, MarkCancelled, MarkRejected, MarkSettleFailed
  <1> USE DEF RequestInv, BeforeRun, BeforeOutcome, AfterCall, Goto, Tell, TypeOK
  <1>5. ASSUME MarkStartFailed(q) PROVE RequestInv(q)'
    BY <1>0, <1>2, <1>3, <1>5 DEF MarkStartFailed, Open, Completed
  <1>6. ASSUME MarkNeverRan(q) PROVE RequestInv(q)'
    BY <1>0, <1>2, <1>3, <1>6 DEF MarkNeverRan, Open, Completed
  <1>7. ASSUME MarkCancelled(q) PROVE RequestInv(q)'
    BY <1>0, <1>2, <1>3, <1>7 DEF MarkCancelled, Open, Completed
  <1>8. ASSUME MarkRejected(q) PROVE RequestInv(q)'
    BY <1>0, <1>2, <1>3, <1>8 DEF MarkRejected, Open, Completed
  <1>9. ASSUME MarkSettleFailed(q) PROVE RequestInv(q)'
    BY <1>0, <1>2, <1>3, <1>9 DEF MarkSettleFailed, Open, Completed
  <1> QED BY <1>1, <1>4, <1>5, <1>6, <1>7, <1>8, <1>9 DEF StoreStep

LEMMA SettleStep ==
    ASSUME NEW q \in RunIds, Inv, Settle(q)
    PROVE  StoreStep(q)
  <1>0. StoreInv /\ TypeOK /\ RequestInv(q)
    BY DEF Inv, RequestsConsistent
  <1>1. pc[q] = "settling" /\ bill[q] \in Charges /\ source[q] = q /\ Open(q)
    BY <1>0 DEF Settle, Goto, RequestInv, BeforeOutcome
  <1> USE DEF RequestInv, BeforeRun, BeforeOutcome, AfterCall, Goto, TypeOK, Settle
  <1>2. CASE pc'[q] = "sendBilling"
    <2>1. Complete(q, bill[q])
      BY <1>0, <1>1, <1>2
    <2>2. StoreInv'
      BY <1>0, <1>1, <2>1, CompleteKeepsStoreInv
    <2>3. /\ runs[q] # Absent
          /\ runs'[q] # Absent /\ Completed(q)'
          /\ runs'[q].client = runs[q].client
          /\ runs'[q].charge = bill[q]
          /\ \A p \in RunIds \ {q} : runs'[p] = runs[p]
          /\ keys' = keys
      BY <1>0, <2>1, CompleteEffect, RowFacts DEF StoreInv
    <2>4. LeavesAlone(q)
      BY <1>0, <1>1, <2>3 DEF LeavesAlone, Untouched, Completed, Open
    <2>5. RequestInv(q)'
      BY <1>0, <1>1, <1>2, <2>3 DEF Billed, Completed
    <2> QED BY <2>2, <2>4, <2>5 DEF StoreStep
  <1>3. CASE pc'[q] = "settleFailed"
    <2>1. UNCHANGED storeVars
      BY <1>0, <1>1, <1>3
    <2>2. StoreInv'
      BY <1>0, <2>1 DEF storeVars, StoreInv, StoreTypeOK, LedgerConsistent,
                        KeysOwnTheirRun, Open
    <2>3. LeavesAlone(q)
      BY <1>0, <2>1 DEF LeavesAlone, Untouched, storeVars
    <2>4. RequestInv(q)'
      BY <1>0, <1>1, <1>3, <2>1 DEF storeVars, Open, Completed, Billed
    <2> QED BY <2>2, <2>3, <2>4 DEF StoreStep
  <1> QED BY <1>0, <1>1, <1>2, <1>3

-----------------------------------------------------------------------------
\* Types.

LEMMA DayStartIsTime ==
    ASSUME NEW t \in Nat
    PROVE  DayStart(t) \in Nat
  BY QuotaAssumption DEF DayStart

LEMMA TypeStep ==
    ASSUME Inv, StoreInv', Next
    PROVE  TypeOK'
  <1>0. TypeOK /\ StoreTypeOK' /\ MaxFaults \in Nat /\ MaxRestarts \in Nat
    BY BoundAssumption DEF Inv, StoreInv
  <1> USE <1>0 DEF TypeOK, PC, Goto, Tell, Fault, NoFault, FailsUnder
  <1>1. ASSUME NEW q \in RunIds,
               \/ Refuse(q)
               \/ Cancel(q)
               \/ \E c \in Clients, k \in Keys \cup {NoKey}, f \in Fingerprints :
                      Arrive(q, c, k, f)
        PROVE  TypeOK'
    <2>1. ASSUME NEW c \in Clients, NEW k \in Keys \cup {NoKey},
                 NEW f \in Fingerprints, Arrive(q, c, k, f)
          PROVE  TypeOK'
      <3>1. DayStart(now) \in Nat
        BY DayStartIsTime DEF StoreTypeOK
      <3> QED BY <2>1, <3>1 DEF Arrive, Ask
    <2>2. CASE Refuse(q)
      BY <2>2 DEF Refuse
    <2>3. CASE Cancel(q)
      BY <2>3 DEF Cancel
    <2> QED BY <1>1, <2>1, <2>2, <2>3
  <1>2. ASSUME NEW q \in RunIds, StartStep(q)
        PROVE  TypeOK'
    <2>0. ask[q] \in Ask
      BY <1>2 DEF StartStep, ReserveCreates, ReserveFindsCompleted, Replay,
                  ReserveRefuses, MarkStartFailed, MarkRunningSucceeds,
                  MarkRunningFails, MarkNeverRan
    <2>1. CASE ReserveCreates(q)
      BY <2>0, <2>1 DEF ReserveCreates
    <2>2. CASE ReserveFindsCompleted(q)
      <3>1. Existing(q) \in RunIds
        BY <2>0, <2>2 DEF ReserveFindsCompleted, HasRun, Existing, StoreTypeOK,
                          Ask, Inv, StoreInv
      <3>2. runs[Existing(q)] \in Row
        BY <2>2, <3>1 DEF ReserveFindsCompleted, Replayable, Completed,
                          StoreTypeOK, Absent, Inv, StoreInv
      <3> QED BY <2>0, <2>2, <3>1, <3>2 DEF ReserveFindsCompleted, Row
    <2>3. CASE ReserveRefuses(q)
      BY <2>0, <2>3 DEF ReserveRefuses
    <2>4. CASE Replay(q)
      BY <2>0, <2>4 DEF Replay
    <2>5. CASE MarkStartFailed(q)
      BY <2>0, <2>5 DEF MarkStartFailed, TryMarkFailed
    <2>6. CASE MarkRunningSucceeds(q)
      BY <2>0, <2>6 DEF MarkRunningSucceeds
    <2>7. CASE MarkRunningFails(q)
      BY <2>0, <2>7 DEF MarkRunningFails
    <2>8. CASE MarkNeverRan(q)
      BY <2>0, <2>8 DEF MarkNeverRan, TryMarkFailed
    <2> QED BY <1>2, <2>1, <2>2, <2>3, <2>4, <2>5, <2>6, <2>7, <2>8
            DEF StartStep
  <1>3. ASSUME NEW q \in RunIds, AdapterStep(q)
        PROVE  TypeOK'
    BY <1>3 DEF AdapterStep, AdapterStarts, AdapterRefuses
  <1>4. ASSUME NEW q \in RunIds, ConsumeStep(q)
        PROVE  TypeOK'
    <2>1. CASE \/ SelectCancelled(q) \/ ReceiveClosed(q) \/ SendDelta(q)
               \/ DropDelta(q)
      BY <2>1 DEF SelectCancelled, ReceiveClosed, SendDelta, DropDelta
    <2>2. CASE MarkCancelled(q) \/ MarkRejected(q) \/ MarkSettleFailed(q)
      BY <2>2 DEF MarkCancelled, MarkRejected, MarkSettleFailed, TryMarkFailed
    <2>3. CASE Settle(q)
      BY <2>3 DEF Settle
    <2>4. CASE SendFailed(q) \/ SendBilling(q) \/ SendCompleted(q)
      BY <2>4 DEF SendFailed, SendBilling, SendCompleted, SendLast
    <2> QED BY <1>4, <2>1, <2>2, <2>3, <2>4 DEF ConsumeStep
  <1>5. ASSUME NEW q \in RunIds, ReceiveStep(q)
        PROVE  TypeOK'
    BY <1>5 DEF ReceiveStep, ReceiveDelta, ReceiveUnpriceable, ReceiveFailure,
                ReceiveCompletion, ReceiveLast
  <1>6. ASSUME NEW q \in RunIds, ProviderStops(q)
        PROVE  TypeOK'
    BY <1>6 DEF ProviderStops
  <1>7. CASE Restart
    BY <1>7 DEF Restart
  <1>8. CASE Clock
    BY <1>8 DEF Clock, gatewayVars
  <1> QED BY <1>1, <1>2, <1>3, <1>4, <1>5, <1>6, <1>7, <1>8
          DEF Next, RequestStep

-----------------------------------------------------------------------------
\* Every step keeps the invariant.

LEMMA StoreUntouched ==
    ASSUME StoreInv, UNCHANGED storeVars
    PROVE  StoreInv'
  BY DEF storeVars, StoreInv, StoreTypeOK, LedgerConsistent, KeysOwnTheirRun,
         Open

\* A step of request q keeps the store's invariant and leaves the others alone.
LEMMA RequestStepEffect ==
    ASSUME NEW q \in RunIds, Inv, RequestStep(q)
    PROVE  StoreInv' /\ LeavesAlone(q) /\ RequestInv(q)'
  <1>1. NoStoreStep(q) \/ StoreStep(q)
    BY StartKeepsRequestInv, ConsumeKeepsRequestInv, CreateStep,
       MarkRunningStep, MarkFailedStep, SettleStep
       DEF RequestStep, StartStep, AdapterStep, ConsumeStep, ReceiveStep
  <1> QED BY <1>1, StoreUntouched DEF NoStoreStep, StoreStep, Inv

LEMMA RequestStepKeepsInv ==
    ASSUME NEW q \in RunIds, Inv, RequestStep(q)
    PROVE  Inv'
  <1>1. StoreInv' /\ LeavesAlone(q) /\ RequestInv(q)'
    BY RequestStepEffect
  <1>2. TypeOK'
    BY <1>1, TypeStep DEF Next
  <1>3. ASSUME NEW p \in RunIds PROVE RequestInv(p)'
    BY <1>1, OthersKeepInv DEF Inv, RequestsConsistent
  <1> QED BY <1>1, <1>2, <1>3 DEF Inv, RequestsConsistent

\* A restart ends every request; recovery closes open runs and no other.
LEMMA RestartKeepsInv ==
    ASSUME Inv, Restart
    PROVE  Inv'
  <1>1. StoreInv'
    BY RecoverKeepsStoreInv DEF Restart, Inv
  <1>2. TypeOK'
    BY <1>1, TypeStep DEF Next
  <1>3. ASSUME NEW q \in RunIds PROVE RequestInv(q)'
    <2>1. StoreTypeOK /\ TypeOK /\ RequestInv(q)
      BY DEF Inv, StoreInv, RequestsConsistent
    <2>2. \A r \in RunIds :
              /\ ~Open(r) => runs'[r] = runs[r]
              /\ Open(r) => /\ runs[r] # Absent /\ runs'[r] # Absent
                            /\ runs'[r].status = "failed"
                            /\ runs'[r].client = runs[r].client
      BY <2>1, RecoverEffect, RowFacts DEF Restart
    <2>3. keys' = keys
      BY DEF Restart, RecoverIncompleteRuns
    <2>4. Billed(q) => Billed(q)'
      BY <2>2 DEF Restart, Billed, Completed, Open
    <2>5. ~Completed(q) => ~Completed(q)'
      BY <2>2 DEF Completed
    <2> QED BY <2>1, <2>2, <2>3, <2>4, <2>5
            DEF RequestInv, Restart, BeforeRun, BeforeOutcome, AfterCall,
                TypeOK, Open, Absent
  <1> QED BY <1>1, <1>2, <1>3 DEF Inv, RequestsConsistent

LEMMA ClockKeepsInv ==
    ASSUME Inv, Clock
    PROVE  Inv'
  <1>1. StoreInv'
    BY ClockKeepsStoreInv DEF Clock, Inv
  <1>2. TypeOK'
    BY <1>1, TypeStep DEF Next
  <1>3. UNCHANGED <<runs, keys, gatewayVars>>
    BY DEF Clock, Tick, ResetDailyQuota
  <1> QED BY <1>1, <1>2, <1>3
          DEF Inv, RequestsConsistent, RequestInv, Billed, Open, Completed,
              gatewayVars

LEMMA InitInv == Init => Inv
  <1> SUFFICES ASSUME Init PROVE Inv
    OBVIOUS
  <1>1. StoreInv
    BY StoreInitInv DEF Init
  <1>2. TypeOK
    BY <1>1, BoundAssumption DEF Init, TypeOK, StoreInv, PC
  <1>3. RequestsConsistent
    BY DEF Init, StoreInit, RequestsConsistent, RequestInv, BeforeRun,
           BeforeOutcome, AfterCall
  <1> QED BY <1>1, <1>2, <1>3 DEF Inv

LEMMA StepKeepsInv == Inv /\ [Next]_vars => Inv'
  <1> SUFFICES ASSUME Inv, [Next]_vars PROVE Inv'
    OBVIOUS
  <1>1. CASE \E q \in RunIds : RequestStep(q)
    BY <1>1, RequestStepKeepsInv
  <1>2. CASE Restart
    BY <1>2, RestartKeepsInv
  <1>3. CASE Clock
    BY <1>3, ClockKeepsInv
  <1>4. CASE UNCHANGED vars
    <2>1. StoreInv'
      BY <1>4, StoreUntouched DEF vars, Inv
    <2>2. TypeOK' /\ RequestsConsistent'
      BY <1>4, <2>1
         DEF vars, gatewayVars, storeVars, Inv, StoreInv, TypeOK,
             RequestsConsistent, RequestInv, Billed, Open, Completed
    <2> QED BY <2>1, <2>2 DEF Inv
  <1> QED BY <1>1, <1>2, <1>3, <1>4 DEF Next

-----------------------------------------------------------------------------
\* Theorems.

LEMMA SpecKeepsInv == Spec => []Inv
  BY InitInv, StepKeepsInv, PTL DEF Spec

\* Every variable of the gateway and the store keeps its type, with any number
\* of requests, store failures and restarts.
THEOREM GatewayTypeCorrect == Spec => []TypeOK
  <1>1. Inv => TypeOK
    BY DEF Inv
  <1> QED BY SpecKeepsInv, <1>1, PTL

\* The facts about each request (its run is open until it settles or marks it,
\* its provider was called once, its bill is on record) hold at every stage.
THEOREM RequestsAlwaysConsistent == Spec => []RequestsConsistent
  <1>1. Inv => RequestsConsistent
    BY DEF Inv
  <1> QED BY SpecKeepsInv, <1>1, PTL

\* A caller is only ever shown a bill that is on record, for good.
THEOREM ShownBillsAreOnRecord == Spec => []ShownBillIsOnRecord
  <1>1. Inv => ShownBillIsOnRecord
    BY DEF Inv, RequestsConsistent, RequestInv, Billed, ShownBillIsOnRecord
  <1> QED BY SpecKeepsInv, <1>1, PTL

\* A caller that was told its run failed is never charged for it.
THEOREM FailuresAreFree == Spec => []FailureIsFree
  <1>1. Inv => FailureIsFree
    BY DEF Inv, RequestsConsistent, RequestInv, FailureIsFree
  <1> QED BY SpecKeepsInv, <1>1, PTL

\* consume is never turned away from its own run.
THEOREM OwnRunsStayOpen == Spec => []OwnRunStaysOpen
  <1>1. Inv => OwnRunStaysOpen
    <2> SUFFICES ASSUME Inv, NEW q \in RunIds
                 PROVE  /\ pc[q] \in BeforeOutcome => Open(q)
                        /\ pc[q] \in {"sendBilling", "sendCompleted"} => Completed(q)
      BY DEF OwnRunStaysOpen, BeforeOutcome
    <2>1. /\ pc[q] \in BeforeOutcome => Open(q)
          /\ pc[q] \in {"sendBilling", "sendCompleted"} => source[q] = q /\ Billed(q)
      BY DEF Inv, RequestsConsistent, RequestInv
    <2> QED BY <2>1 DEF Billed
  <1> QED BY SpecKeepsInv, <1>1, PTL

\* Requests with one client and key call the provider at most once between
\* them: the runs of two callers would both be the key's.
THEOREM AtMostOneCallPerKey == Spec => []OneCallPerKey
  <1>1. Inv => OneCallPerKey
    <2> SUFFICES ASSUME Inv, NEW p \in called, NEW q \in called, p # q,
                        ask[p].client = ask[q].client,
                        ask[p].key = ask[q].key
                 PROVE  ask[p].key = NoKey
      BY DEF OneCallPerKey
    <2>1. /\ p \in RunIds /\ RequestInv(p) /\ runs[p] # Absent
          /\ q \in RunIds /\ RequestInv(q) /\ runs[q] # Absent
      BY DEF Inv, TypeOK, RequestsConsistent, RequestInv
    <2>2. ask[p] \in Ask
      BY <2>1 DEF RequestInv
    <2>3. CASE ask[p].key \in Keys
      BY <2>1, <2>3 DEF RequestInv
    <2> QED BY <2>2, <2>3 DEF Ask
  <1> QED BY SpecKeepsInv, <1>1, PTL

-----------------------------------------------------------------------------
\* Runs left open.

\* A run that is open when its request reports a failure or ends has a cause.
\* The report itself must be covered: it is sent after the mark was tried, and
\* ends the request whatever became of the mark.
Cause(q) ==
    pc[q] \in {"sendFailed", "done"} /\ Open(q) =>
        \/ q \in cancelled
        \/ faults > 0
        \/ pc[q] = "done" /\ told[q] = "incomplete"

CausesKnown == \A q \in RunIds : Cause(q)

\* Nothing takes a cause back.
LEMMA CausesStay ==
    ASSUME TypeOK, NEW q \in RunIds, RequestStep(q)
    PROVE  /\ cancelled \subseteq cancelled'
           /\ faults \in Nat /\ faults' \in Nat /\ faults <= faults'
  <1>0. faults \in Nat /\ MaxFaults \in Nat
    BY BoundAssumption DEF TypeOK
  <1> USE <1>0 DEF FailsUnder, Fault, NoFault, TryMarkFailed
  <1>1. CASE \/ Refuse(q) \/ Cancel(q) \/ ProviderStops(q) \/ AdapterStep(q)
             \/ ReceiveStep(q)
             \/ \E c \in Clients, k \in Keys \cup {NoKey}, f \in Fingerprints :
                    Arrive(q, c, k, f)
    BY <1>1 DEF Refuse, Cancel, ProviderStops, AdapterStep, AdapterStarts,
                AdapterRefuses, ReceiveStep, ReceiveDelta, ReceiveUnpriceable,
                ReceiveFailure, ReceiveCompletion, Arrive
  <1>2. CASE StartStep(q)
    BY <1>2 DEF StartStep, ReserveCreates, ReserveFindsCompleted, ReserveRefuses,
                Replay, MarkStartFailed, MarkRunningSucceeds, MarkRunningFails,
                MarkNeverRan
  <1>3. CASE ConsumeStep(q)
    BY <1>3 DEF ConsumeStep, SelectCancelled, MarkCancelled, ReceiveClosed,
                SendDelta, DropDelta, Settle, MarkRejected, MarkSettleFailed,
                SendFailed, SendBilling, SendCompleted, SendLast
  <1> QED BY <1>1, <1>2, <1>3 DEF RequestStep

\* A mark that is tried closes the run unless the store fails.
LEMMA TryMarkFailedCloses ==
    ASSUME NEW q \in RunIds, NEW s \in FailureSettlements, StoreInv, TypeOK,
           TryMarkFailed(q, s)
    PROVE  ~Open(q)' \/ faults' > 0
  <1>1. CASE MarkFailed(q, s)
    BY <1>1, UpdateStateEffect DEF MarkFailed, StoreInv, Open
  <1>2. CASE UNCHANGED storeVars /\ Fault
    BY <1>2, BoundAssumption DEF Fault, TypeOK
  <1>3. CASE UNCHANGED storeVars /\ ~Open(q)
    BY <1>3 DEF storeVars, Open
  <1> QED BY <1>1, <1>2, <1>3 DEF TryMarkFailed

LEMMA RequestStepKeepsCause ==
    ASSUME NEW q \in RunIds, Inv, Inv', Cause(q), RequestStep(q)
    PROVE  Cause(q)'
  <1>0. TypeOK /\ StoreInv /\ RequestInv(q) /\ RequestInv(q)'
    BY DEF Inv, RequestsConsistent
  <1>1. /\ cancelled \subseteq cancelled'
        /\ faults \in Nat /\ faults' \in Nat /\ faults <= faults'
    BY <1>0, CausesStay
  <1> SUFFICES ASSUME pc'[q] \in {"sendFailed", "done"}, Open(q)',
                      q \notin cancelled', ~ (faults' > 0)
               PROVE  pc'[q] = "done" /\ told'[q] = "incomplete"
    BY DEF Cause
  <1>2. q \notin cancelled /\ ~ (faults > 0)
    BY <1>1
  <1>3. runs'[q] # Absent
    BY DEF Open, Absent
  <1>4. ASSUME TryMarkFailed(q, "unconfirmed") \/ TryMarkFailed(q, "failed")
        PROVE  FALSE
    BY <1>0, <1>4, TryMarkFailedCloses DEF FailureSettlements
  <1>5. ASSUME UNCHANGED storeVars PROVE Open(q) /\ runs[q] # Absent
    BY <1>3, <1>5 DEF storeVars, Open
  <1> USE <1>0 DEF Goto, Tell, TypeOK, CtxDone
  <1>6. CASE \/ Refuse(q) \/ ReserveRefuses(q) \/ Replay(q)
    BY <1>5, <1>6 DEF Refuse, ReserveRefuses, Replay, RequestInv, BeforeRun
  <1>7. CASE \/ MarkStartFailed(q) \/ MarkNeverRan(q) \/ MarkCancelled(q)
             \/ MarkRejected(q) \/ MarkSettleFailed(q)
    BY <1>2, <1>4, <1>7 DEF MarkStartFailed, MarkNeverRan, MarkCancelled,
                            MarkRejected, MarkSettleFailed
  <1>8. CASE ReceiveClosed(q) \/ DropDelta(q) \/ ReceiveUnpriceable(q)
    BY <1>8 DEF ReceiveClosed, DropDelta, ReceiveUnpriceable, ReceiveLast
  <1>9. CASE SendBilling(q) \/ SendCompleted(q)
    <2>1. UNCHANGED storeVars /\ pc[q] \in {"sendBilling", "sendCompleted"}
      BY <1>9 DEF SendBilling, SendCompleted, SendLast
    <2>2. Completed(q)
      BY <2>1 DEF RequestInv, Billed
    <2> QED BY <1>5, <2>1, <2>2 DEF Completed, Open
  <1>10. CASE SendFailed(q) \/ Cancel(q) \/ ProviderStops(q)
    <2>1. UNCHANGED storeVars /\ pc[q] \in {"sendFailed", "done"}
      BY <1>10 DEF SendFailed, SendLast, Cancel, ProviderStops
    <2>2. Open(q)
      BY <1>5, <2>1
    <2>3. pc[q] = "done" /\ told[q] = "incomplete"
      BY <1>2, <2>1, <2>2 DEF Cause
    <2> QED BY <1>10, <2>3 DEF SendFailed, SendLast, Cancel, ProviderStops
  <1>11. CASE \/ ReserveCreates(q) \/ ReserveFindsCompleted(q)
              \/ MarkRunningSucceeds(q) \/ MarkRunningFails(q)
              \/ AdapterStep(q) \/ SelectCancelled(q) \/ SendDelta(q)
              \/ ReceiveDelta(q)
    BY <1>11 DEF ReserveCreates, ReserveFindsCompleted, MarkRunningSucceeds,
                 MarkRunningFails, AdapterStep, AdapterStarts, AdapterRefuses,
                 SelectCancelled, SendDelta, ReceiveDelta
  <1>12. CASE \/ Settle(q) \/ ReceiveFailure(q)
              \/ \E charge \in Charges : ReceiveCompletion(q, charge)
              \/ \E c \in Clients, k \in Keys \cup {NoKey}, f \in Fingerprints :
                     Arrive(q, c, k, f)
    BY <1>12 DEF Settle, ReceiveFailure, ReceiveCompletion, ReceiveLast, Arrive
  <1> QED BY <1>6, <1>7, <1>8, <1>9, <1>10, <1>11, <1>12
          DEF RequestStep, StartStep, ConsumeStep, ReceiveStep

LEMMA StepKeepsCauses ==
    Inv /\ Inv' /\ CausesKnown /\ [Next]_vars => CausesKnown'
  <1> SUFFICES ASSUME Inv, Inv', CausesKnown, [Next]_vars, NEW q \in RunIds
               PROVE  Cause(q)'
    BY DEF CausesKnown
  <1>0. Cause(q) /\ TypeOK
    BY DEF CausesKnown, Inv
  <1>1. ASSUME NEW p \in RunIds, RequestStep(p) PROVE Cause(q)'
    <2>1. CASE p = q
      BY <1>0, <1>1, <2>1, RequestStepKeepsCause
    <2>2. CASE p # q
      <3>1. /\ cancelled \subseteq cancelled'
            /\ faults \in Nat /\ faults' \in Nat /\ faults <= faults'
        BY <1>0, <1>1, CausesStay
      <3>2. Untouched(q)
        BY <1>1, <2>2, RequestStepEffect DEF LeavesAlone
      <3>3. faults > 0 => faults' > 0
        BY <3>1
      <3> QED BY <1>0, <3>1, <3>2, <3>3 DEF Cause, Untouched, Open
    <2> QED BY <2>1, <2>2
  <1>2. CASE Restart
    <2>1. ~Open(q)'
      BY <1>2, RecoverEffect DEF Restart, Inv, StoreInv, Open
    <2> QED BY <2>1 DEF Cause
  <1>3. CASE Clock \/ UNCHANGED vars
    <2>1. UNCHANGED <<runs, gatewayVars>>
      BY <1>3 DEF Clock, Tick, ResetDailyQuota, vars, storeVars
    <2> QED BY <1>0, <2>1 DEF Cause, Open, gatewayVars
  <1> QED BY <1>1, <1>2, <1>3 DEF Next

\* Whatever requests, failures and restarts come together: a run is left open
\* by its request only where the client, the store or the upstream gave a reason.
THEOREM RunsAreLeftOpenForACause == Spec => []RunLeftOpenHasACause
  <1>1. Init => CausesKnown
    BY DEF Init, CausesKnown, Cause
  <1>2. CausesKnown => RunLeftOpenHasACause
    BY DEF CausesKnown, Cause, RunLeftOpenHasACause
  <1> QED BY SpecKeepsInv, StepKeepsCauses, <1>1, <1>2, PTL DEF Spec

\* A retry of a completed request is refused only when its client hung up, the
\* store failed or the process restarted: never for the quota.
THEOREM CompletedKeysAreReplayed == Spec => CompletedKeyIsReplayed
  <1> DEFINE Replays ==
        \A q \in RunIds \ cancelled :
           /\ pc[q] = "reserving" /\ pc'[q] = "done"
           /\ HasRun(ask[q].client, ask[q].key) /\ Replayable(q)
           => faults' # faults \/ restarts' # restarts
  <1>1. Inv /\ [Next]_vars => [Replays]_vars
    <2> SUFFICES ASSUME Inv, Next, NEW q \in RunIds, q \notin cancelled,
                        pc[q] = "reserving", pc'[q] = "done",
                        HasRun(ask[q].client, ask[q].key), Replayable(q)
                 PROVE  faults' # faults \/ restarts' # restarts
      OBVIOUS
    <2>0. TypeOK /\ faults \in Nat /\ restarts \in Nat
      BY BoundAssumption DEF Inv, TypeOK
    <2>1. ASSUME NEW p \in RunIds, RequestStep(p), p # q PROVE FALSE
      BY <2>1, RequestStepEffect DEF LeavesAlone, Untouched
    <2>2. ASSUME RequestStep(q) PROVE faults' # faults
      <3> USE <2>0 DEF Goto, TypeOK
      <3>1. CASE ReserveRefuses(q)
        BY <3>1 DEF ReserveRefuses, FailsUnder, CtxDone, Fault
      <3>2. CASE \/ Refuse(q) \/ Cancel(q) \/ ProviderStops(q) \/ AdapterStep(q)
                 \/ ReceiveStep(q)
                 \/ \E c \in Clients, k \in Keys \cup {NoKey}, f \in Fingerprints :
                        Arrive(q, c, k, f)
        BY <3>2 DEF Refuse, Cancel, ProviderStops, AdapterStep, AdapterStarts,
                    AdapterRefuses, ReceiveStep, ReceiveDelta, ReceiveLast,
                    ReceiveUnpriceable, ReceiveFailure, ReceiveCompletion, Arrive
      <3>3. CASE \/ ReserveCreates(q) \/ ReserveFindsCompleted(q) \/ Replay(q)
                 \/ MarkStartFailed(q) \/ MarkRunningSucceeds(q)
                 \/ MarkRunningFails(q) \/ MarkNeverRan(q)
        BY <3>3 DEF ReserveCreates, ReserveFindsCompleted, Replay,
                    MarkStartFailed, MarkRunningSucceeds, MarkRunningFails,
                    MarkNeverRan
      <3>4. CASE ConsumeStep(q)
        BY <3>4 DEF ConsumeStep, SelectCancelled, MarkCancelled, ReceiveClosed,
                    SendDelta, DropDelta, Settle, MarkRejected, MarkSettleFailed,
                    SendFailed, SendBilling, SendCompleted, SendLast
      <3> QED BY <2>2, <3>1, <3>2, <3>3, <3>4 DEF RequestStep, StartStep
    <2>3. CASE Restart
      BY <2>0, <2>3 DEF Restart
    <2>4. CASE Clock
      BY <2>4 DEF Clock, gatewayVars
    <2> QED BY <2>1, <2>2, <2>3, <2>4 DEF Next
  <1>2. Spec => [][Replays]_vars
    BY SpecKeepsInv, <1>1, PTL DEF Spec
  <1> QED BY <1>2 DEF CompletedKeyIsReplayed

-----------------------------------------------------------------------------
(***************************************************************************)
(* The gateway implements the run ledger (RunLedger): under Inv every step *)
(* of a request is one step of the ledger or leaves it alone, and a        *)
(* restart abandons every open run at once.                                *)
(***************************************************************************)

\* What the ledger sees of one run and of the request with its identifier.
Billing(r) == IF runs[r] = Absent THEN NoCharge ELSE runs[r].charge

ShownTo(q) == IF told[q] \in {"billing", "completed"} THEN source[q] ELSE NoRun

SameLedger ==
    /\ \A r \in RunIds : Phase(r)' = Phase(r) /\ Billing(r)' = Billing(r)
    /\ keys' = keys

LEMMA SameRowSamePhase ==
    ASSUME NEW r \in RunIds, runs'[r] = runs[r]
    PROVE  Phase(r)' = Phase(r) /\ Billing(r)' = Billing(r)
  BY DEF Phase, Billing, Open, Completed

LEMMA SameStore == UNCHANGED <<runs, keys>> => SameLedger
  BY SameRowSamePhase DEF SameLedger

LEMMA AbstractState ==
    /\ Ledger!Init <=>
           /\ [r \in RunIds |-> Phase(r)] = [r \in RunIds |-> "unopened"]
           /\ [r \in RunIds |-> Billing(r)] = [r \in RunIds |-> NoCharge]
           /\ keys = [s \in Clients \X Keys |-> NoRun]
           /\ called = {}
           /\ [q \in RunIds |-> ShownTo(q)] = [q \in RunIds |-> NoRun]
  BY DEF Ledger!Init, Billing, ShownTo

LEMMA InitRefines == Init => Ledger!Init
  BY AbstractState
     DEF Init, StoreInit, Phase, Billing, ShownTo, Absent

-----------------------------------------------------------------------------
\* The steps of the ledger, from what a step of the gateway does to it.

LEMMA Stutter ==
    ASSUME SameLedger, called' = called,
           \A q \in RunIds : ShownTo(q)' = ShownTo(q)
    PROVE  UNCHANGED Ledger!ledgerVars
  BY DEF SameLedger, Ledger!ledgerVars, ShownTo, Billing

LEMMA Opens ==
    ASSUME NEW r \in RunIds,
           Phase(r) = "unopened", Phase(r)' = "open", Billing(r)' = Billing(r),
           \A p \in RunIds \ {r} : Phase(p)' = Phase(p) /\ Billing(p)' = Billing(p),
           \/ \E s \in Clients \X Keys : keys[s] = NoRun
                                        /\ keys' = [keys EXCEPT ![s] = r]
           \/ keys' = keys,
           called' = called,
           \A q \in RunIds : ShownTo(q)' = ShownTo(q)
    PROVE  Ledger!OpenRun(r)
  BY DEF Ledger!OpenRun, ShownTo, Billing

LEMMA Reaches ==
    ASSUME NEW r \in RunIds, SameLedger, Phase(r) = "open", r \notin called,
           called' = called \cup {r},
           \A q \in RunIds : ShownTo(q)' = ShownTo(q)
    PROVE  Ledger!Reach(r)
  BY DEF SameLedger, Ledger!Reach, ShownTo, Billing

LEMMA Settles ==
    ASSUME NEW r \in RunIds, NEW b \in Charges,
           Phase(r) = "open", Phase(r)' = "settled", Billing(r)' = b,
           \A p \in RunIds \ {r} : Phase(p)' = Phase(p) /\ Billing(p)' = Billing(p),
           keys' = keys, r \in called, called' = called,
           \A q \in RunIds : ShownTo(q)' = ShownTo(q)
    PROVE  Ledger!Settle(r, b)
  BY DEF Ledger!Settle, ShownTo, Billing

LEMMA Abandons ==
    ASSUME NEW S \in SUBSET RunIds, S # {},
           \A r \in S : Phase(r) = "open" /\ Phase(r)' = "abandoned",
           \A r \in RunIds \ S : Phase(r)' = Phase(r),
           \A r \in RunIds : Billing(r)' = Billing(r),
           keys' = keys, called' = called,
           \A q \in RunIds : ShownTo(q)' = ShownTo(q)
    PROVE  Ledger!Abandon(S)
  BY DEF Ledger!Abandon, ShownTo, Billing

LEMMA Shows ==
    ASSUME NEW q \in RunIds, NEW r \in RunIds, SameLedger, called' = called,
           Phase(r) = "settled", ShownTo(q) = NoRun, ShownTo(q)' = r,
           \A p \in RunIds \ {q} : ShownTo(p)' = ShownTo(p),
           q = r \/ (Phase(q) = "unopened"
                     /\ \E s \in Clients \X Keys : keys[s] = r)
    PROVE  Ledger!Show(q, r)
  BY DEF SameLedger, Ledger!Show, ShownTo, Billing

-----------------------------------------------------------------------------
\* What each step of the gateway does to the ledger.

LedgerStep == [Ledger!Next]_(Ledger!ledgerVars)

SameShown == \A q \in RunIds : ShownTo(q)' = ShownTo(q)

LEMMA QuietStep ==
    ASSUME SameLedger, called' = called, SameShown
    PROVE  LedgerStep
  BY Stutter DEF LedgerStep, SameShown

\* Steps that neither touch the store nor reach a provider nor show a bill.
LEMMA StartQuiet ==
    ASSUME NEW q \in RunIds, Inv,
           \/ Refuse(q)
           \/ Cancel(q)
           \/ \E c \in Clients, k \in Keys \cup {NoKey}, f \in Fingerprints :
                  Arrive(q, c, k, f)
           \/ ReserveFindsCompleted(q)
           \/ ReserveRefuses(q)
           \/ AdapterRefuses(q, FALSE)
           \/ MarkRunningFails(q)
    PROVE  LedgerStep
  <1>0. TypeOK /\ RequestInv(q)
    BY DEF Inv, RequestsConsistent
  <1> USE <1>0 DEF TypeOK, RequestInv, Goto, Tell, ShownTo, SameShown, storeVars
  <1>1. UNCHANGED <<runs, keys>> /\ called' = called
    BY DEF Refuse, Cancel, Arrive, ReserveFindsCompleted, ReserveRefuses,
           AdapterRefuses, MarkRunningFails
  <1>2. CASE Refuse(q) \/ ReserveRefuses(q)
    BY <1>1, <1>2, SameStore, QuietStep DEF Refuse, ReserveRefuses
  <1>3. CASE ReserveFindsCompleted(q)
    BY <1>1, <1>3, SameStore, QuietStep DEF ReserveFindsCompleted
  <1>4. CASE UNCHANGED <<told, source>>
    BY <1>1, <1>4, SameStore, QuietStep
  <1> QED BY <1>2, <1>3, <1>4 DEF Cancel, Arrive, AdapterRefuses, MarkRunningFails

LEMMA ConsumeQuiet ==
    ASSUME NEW q \in RunIds, Inv,
           \/ SelectCancelled(q)
           \/ ReceiveClosed(q)
           \/ SendDelta(q)
           \/ DropDelta(q)
           \/ SendFailed(q)
           \/ SendCompleted(q)
           \/ ReceiveStep(q)
           \/ ProviderStops(q)
    PROVE  LedgerStep
  <1>0. TypeOK /\ RequestInv(q)
    BY DEF Inv, RequestsConsistent
  <1> USE <1>0 DEF TypeOK, RequestInv, Goto, Tell, ShownTo, SameShown, storeVars,
               SendLast, ReceiveLast, ReceiveStep
  <1>1. UNCHANGED <<runs, keys>> /\ called' = called
    BY DEF SelectCancelled, ReceiveClosed, SendDelta, DropDelta, SendFailed,
           SendCompleted, ReceiveDelta, ReceiveUnpriceable, ReceiveFailure,
           ReceiveCompletion, ProviderStops
  <1>2. CASE ReceiveClosed(q) \/ DropDelta(q) \/ ReceiveUnpriceable(q)
    BY <1>1, <1>2, SameStore, QuietStep
       DEF ReceiveClosed, DropDelta, ReceiveUnpriceable
  <1>3. CASE SendFailed(q)
    BY <1>1, <1>3, SameStore, QuietStep DEF SendFailed
  <1>4. CASE SendCompleted(q)
    BY <1>1, <1>4, SameStore, QuietStep DEF SendCompleted
  <1>5. CASE \E charge \in Charges : ReceiveCompletion(q, charge)
    BY <1>1, <1>5, SameStore, QuietStep DEF ReceiveCompletion
  <1>6. CASE UNCHANGED <<told, source>>
    BY <1>1, <1>6, SameStore, QuietStep
  <1> QED BY <1>2, <1>3, <1>4, <1>5, <1>6
          DEF SelectCancelled, SendDelta, ReceiveDelta, ReceiveFailure,
              ProviderStops

LEMMA ShowingStep ==
    ASSUME NEW q \in RunIds, NEW r \in RunIds, SameLedger, called' = called,
           Phase(r) = "settled", ShownTo(q) = NoRun, ShownTo(q)' = r,
           \A p \in RunIds \ {q} : ShownTo(p)' = ShownTo(p),
           q = r \/ (Phase(q) = "unopened"
                     /\ \E s \in Clients \X Keys : keys[s] = r)
    PROVE  LedgerStep
  <1>1. Ledger!Show(q, r)
    BY Shows
  <1> QED BY <1>1 DEF LedgerStep, Ledger!Next

\* A stored or a fresh bill is shown: it belongs to a settled run.
LEMMA ShowStep ==
    ASSUME NEW q \in RunIds, Inv, Replay(q) \/ SendBilling(q)
    PROVE  LedgerStep
  <1>0. TypeOK /\ RequestInv(q)
    BY DEF Inv, RequestsConsistent
  <1> USE <1>0 DEF TypeOK, RequestInv, Goto, Tell, ShownTo, SameShown, storeVars
  <1>1. UNCHANGED <<runs, keys, source>> /\ called' = called
    BY DEF Replay, SendBilling, SendLast
  <1>2. SameLedger
    BY <1>1, SameStore
  <1>3. CASE told' = told
    BY <1>1, <1>2, <1>3, QuietStep
  <1>4. CASE Replay(q)
    <2>1. source[q] \in RunIds /\ Phase(source[q]) = "settled"
          /\ Phase(q) = "unopened"
      BY <1>4 DEF Replay, Billed, Phase, BeforeRun, Completed, Open, Absent
    <2>2. \E s \in Clients \X Keys : keys[s] = source[q]
      BY <1>4 DEF Replay, Ask
    <2>3. ShownTo(q) = NoRun /\ ShownTo(q)' = source[q]
          /\ \A p \in RunIds \ {q} : ShownTo(p)' = ShownTo(p)
      BY <1>1, <1>4 DEF Replay
    <2> QED BY <1>1, <1>2, <2>1, <2>2, <2>3, ShowingStep
  <1>5. CASE SendBilling(q) /\ told' # told
    <2>1. source[q] = q /\ Phase(q) = "settled"
      BY <1>5 DEF SendBilling, SendLast, Billed, Phase, Completed, Open, Absent
    <2>2. ShownTo(q) = NoRun /\ ShownTo(q)' = q
          /\ \A p \in RunIds \ {q} : ShownTo(p)' = ShownTo(p)
      BY <1>1, <1>5, <2>1 DEF SendBilling, SendLast
    <2>3. Ledger!Show(q, q)
      BY <1>1, <1>2, <2>1, <2>2, Shows
    <2> QED BY <2>3 DEF LedgerStep, Ledger!Next
  <1> QED BY <1>3, <1>4, <1>5

\* The adapter reaches the upstream service, and may still refuse.
LEMMA ReachStep ==
    ASSUME NEW q \in RunIds, Inv, AdapterStarts(q) \/ AdapterRefuses(q, TRUE)
    PROVE  LedgerStep
  <1>0. TypeOK /\ RequestInv(q)
    BY DEF Inv, RequestsConsistent
  <1>1. UNCHANGED <<runs, keys, told, source>> /\ called' = called \cup {q}
    BY DEF AdapterStarts, AdapterRefuses, storeVars
  <1>2. q \notin called /\ Phase(q) = "open"
    BY <1>0 DEF AdapterStarts, AdapterRefuses, Goto, RequestInv, BeforeOutcome,
                Phase, Open, Absent
  <1>3. SameLedger /\ \A p \in RunIds : ShownTo(p)' = ShownTo(p)
    BY <1>1, SameStore DEF ShownTo
  <1>4. Ledger!Reach(q)
    BY <1>1, <1>2, <1>3, Reaches
  <1> QED BY <1>4 DEF LedgerStep, Ledger!Next

LEMMA OpenStep ==
    ASSUME NEW q \in RunIds, Inv, ReserveCreates(q)
    PROVE  LedgerStep
  <1>0. StoreInv /\ TypeOK
    BY DEF Inv
  <1> DEFINE c == ask[q].client
             k == ask[q].key
             f == ask[q].fingerprint
  <1>1. /\ c \in Clients /\ k \in Keys \cup {NoKey} /\ f \in Fingerprints
        /\ Reserve(q, c, k, f, ask[q].dayStart)
    BY <1>0 DEF TypeOK, ReserveCreates, Goto, Ask
  <1>2. UNCHANGED <<called, told, source>>
    BY DEF ReserveCreates
  <1>3. /\ runs[q] = Absent
        /\ runs'[q] # Absent /\ Open(q)' /\ runs'[q].charge = NoCharge
        /\ \A p \in RunIds \ {q} : runs'[p] = runs[p]
    BY <1>0, <1>1, ReserveEffect DEF StoreInv
  <1>4. /\ Phase(q) = "unopened" /\ Phase(q)' = "open"
        /\ Billing(q)' = Billing(q)
    BY <1>3 DEF Phase, Billing
  <1>5. \A p \in RunIds \ {q} : Phase(p)' = Phase(p) /\ Billing(p)' = Billing(p)
    BY <1>3, SameRowSamePhase
  <1>6. \/ \E s \in Clients \X Keys : keys[s] = NoRun
                                     /\ keys' = [keys EXCEPT ![s] = q]
        \/ keys' = keys
    <2>1. CASE k \in Keys
      <3>1. <<c, k>> \in Clients \X Keys /\ keys[<<c, k>>] = NoRun
        BY <1>1, <2>1 DEF Reserve, HasRun
      <3>2. keys' = [keys EXCEPT ![<<c, k>>] = q]
        BY <1>0, <1>1, <3>1 DEF Reserve, StoreInv, StoreTypeOK
      <3> QED BY <3>1, <3>2
    <2>2. CASE k = NoKey
      BY <1>0, <1>1, <2>2, DataAssumption DEF Reserve, StoreInv, StoreTypeOK
    <2> QED BY <1>1, <2>1, <2>2
  <1>7. \A p \in RunIds : ShownTo(p)' = ShownTo(p)
    BY <1>2 DEF ShownTo
  <1> HIDE DEF c, k, f
  <1>8. Ledger!OpenRun(q)
    BY <1>2, <1>4, <1>5, <1>6, <1>7, Opens
  <1> QED BY <1>8 DEF LedgerStep, Ledger!Next

LEMMA RunStartsStep ==
    ASSUME NEW q \in RunIds, Inv, MarkRunningSucceeds(q)
    PROVE  LedgerStep
  <1>1. UpdateState(q, "running", "pending") /\ StoreTypeOK
    BY DEF MarkRunningSucceeds, MarkRunning, Inv, StoreInv
  <1>2. /\ Open(q) /\ runs[q] \in Row
        /\ runs'[q] # Absent /\ runs'[q].status = "running"
        /\ runs'[q].charge = runs[q].charge
        /\ \A p \in RunIds \ {q} : runs'[p] = runs[p]
        /\ keys' = keys
    BY <1>1, UpdateStateEffect
  <1>3. Phase(q)' = Phase(q) /\ Billing(q)' = Billing(q)
    BY <1>2, RowFacts DEF Phase, Billing, Open
  <1>4. SameLedger
    BY <1>2, <1>3, SameRowSamePhase DEF SameLedger
  <1>5. called' = called /\ SameShown
    BY DEF MarkRunningSucceeds, SameShown, ShownTo
  <1> QED BY <1>4, <1>5, QuietStep

LEMMA GiveUpStep ==
    ASSUME NEW q \in RunIds, Inv,
           \/ MarkStartFailed(q)
           \/ MarkNeverRan(q)
           \/ MarkCancelled(q)
           \/ MarkRejected(q)
           \/ MarkSettleFailed(q)
    PROVE  LedgerStep
  <1>0. StoreTypeOK /\ TypeOK /\ RequestInv(q)
    BY DEF Inv, StoreInv, RequestsConsistent
  <1>1. called' = called /\ SameShown
    BY <1>0
       DEF MarkStartFailed, MarkNeverRan, MarkCancelled, MarkRejected,
           MarkSettleFailed, SameShown, ShownTo, Goto, Tell, TypeOK, RequestInv
  <1>2. \/ UNCHANGED storeVars
        \/ \E s \in {"unconfirmed", "failed"} : UpdateState(q, "failed", s)
    BY DEF MarkStartFailed, MarkNeverRan, MarkCancelled, MarkRejected,
           MarkSettleFailed, TryMarkFailed, MarkFailed
  <1>3. CASE UNCHANGED storeVars
    BY <1>1, <1>3, SameStore, QuietStep DEF storeVars
  <1>4. ASSUME NEW s \in {"unconfirmed", "failed"}, UpdateState(q, "failed", s)
        PROVE  LedgerStep
    <2>1. /\ Open(q) /\ runs[q] \in Row
          /\ runs'[q] # Absent /\ runs'[q].status = "failed"
          /\ runs'[q].charge = runs[q].charge
          /\ \A p \in RunIds \ {q} : runs'[p] = runs[p]
          /\ keys' = keys
      BY <1>0, <1>4, UpdateStateEffect
    <2>2. /\ Phase(q) = "open" /\ Phase(q)' = "abandoned"
          /\ Billing(q)' = Billing(q)
      BY <2>1, RowFacts DEF Phase, Billing, Open, Completed
    <2>3. \A p \in RunIds \ {q} :
              Phase(p)' = Phase(p) /\ Billing(p)' = Billing(p)
      BY <2>1, SameRowSamePhase
    <2>4. Ledger!Abandon({q})
      BY <1>1, <2>1, <2>2, <2>3, Abandons DEF SameShown
    <2> QED BY <2>4 DEF LedgerStep, Ledger!Next
  <1> QED BY <1>2, <1>3, <1>4

LEMMA SettlingStep ==
    ASSUME NEW r \in RunIds, NEW b \in Charges,
           Phase(r) = "open", Phase(r)' = "settled", Billing(r)' = b,
           \A p \in RunIds \ {r} : Phase(p)' = Phase(p) /\ Billing(p)' = Billing(p),
           keys' = keys, r \in called, called' = called, SameShown
    PROVE  LedgerStep
  <1>1. Ledger!Settle(r, b)
    BY Settles DEF SameShown
  <1> QED BY <1>1 DEF LedgerStep, Ledger!Next

LEMMA SettlesStep ==
    ASSUME NEW q \in RunIds, Inv, Settle(q)
    PROVE  LedgerStep
  <1>0. StoreTypeOK /\ RequestInv(q) /\ pc[q] = "settling"
    BY DEF Inv, StoreInv, RequestsConsistent, Settle, Goto
  <1>1. called' = called /\ SameShown
    BY DEF Settle, SameShown, ShownTo
  <1>2. CASE UNCHANGED storeVars
    BY <1>1, <1>2, SameStore, QuietStep DEF storeVars
  <1>3. CASE Complete(q, bill[q])
    <2>1. /\ Open(q) /\ runs[q] \in Row
          /\ runs'[q] # Absent /\ Completed(q)'
          /\ runs'[q].charge = bill[q]
          /\ \A p \in RunIds \ {q} : runs'[p] = runs[p]
          /\ keys' = keys
      BY <1>0, <1>3, CompleteEffect
    <2>2. /\ Phase(q) = "open" /\ Phase(q)' = "settled"
          /\ Billing(q)' = bill[q]
      BY <2>1, RowFacts DEF Phase, Billing, Open, Completed
    <2>3. \A p \in RunIds \ {q} :
              Phase(p)' = Phase(p) /\ Billing(p)' = Billing(p)
      BY <2>1, SameRowSamePhase
    <2>4. q \in called /\ bill[q] \in Charges
      BY <1>0 DEF RequestInv, AfterCall
    <2> QED BY <1>1, <2>1, <2>2, <2>3, <2>4, SettlingStep
  <1> QED BY <1>2, <1>3 DEF Settle

\* The recovery at start abandons all open runs in one UPDATE.
LEMMA RecoveryStep ==
    ASSUME Inv, Restart
    PROVE  LedgerStep
  <1> DEFINE S == {r \in RunIds : Open(r)}
  <1>0. StoreTypeOK
    BY DEF Inv, StoreInv
  <1>1. called' = called /\ SameShown /\ keys' = keys
    BY DEF Restart, RecoverIncompleteRuns, SameShown, ShownTo
  <1>2. ASSUME NEW r \in RunIds \ S
        PROVE  Phase(r)' = Phase(r) /\ Billing(r)' = Billing(r)
    BY <1>0, <1>2, RecoverEffect, SameRowSamePhase DEF Restart
  <1>3. ASSUME NEW r \in S
        PROVE  /\ Phase(r) = "open" /\ Phase(r)' = "abandoned"
               /\ Billing(r)' = Billing(r)
    <2>1. /\ Open(r) /\ runs[r] \in Row
          /\ runs'[r] # Absent /\ runs'[r].status = "failed"
          /\ runs'[r].charge = runs[r].charge
      BY <1>0, <1>3, RecoverEffect DEF Restart
    <2> QED BY <2>1, RowFacts DEF Phase, Billing, Open, Completed
  <1>4. CASE S = {}
    BY <1>1, <1>2, <1>4, QuietStep DEF SameLedger
  <1>5. CASE S # {}
    <2> HIDE DEF S
    <2>1. S \in SUBSET RunIds
      BY DEF S
    <2>2. Ledger!Abandon(S)
      BY <1>1, <1>2, <1>3, <1>5, <2>1, Abandons DEF SameShown
    <2> QED BY <2>1, <2>2 DEF LedgerStep, Ledger!Next
  <1> QED BY <1>4, <1>5

-----------------------------------------------------------------------------
LEMMA StepRefines == Inv /\ [Next]_vars => LedgerStep
  <1> SUFFICES ASSUME Inv, [Next]_vars PROVE LedgerStep
    OBVIOUS
  <1>1. ASSUME NEW q \in RunIds, StartStep(q) \/ AdapterStep(q)
        PROVE  LedgerStep
    BY <1>1, StartQuiet, ReachStep, OpenStep, RunStartsStep, GiveUpStep, ShowStep
       DEF StartStep, AdapterStep
  <1>2. ASSUME NEW q \in RunIds,
               ConsumeStep(q) \/ ReceiveStep(q) \/ ProviderStops(q)
        PROVE  LedgerStep
    BY <1>2, ConsumeQuiet, GiveUpStep, SettlesStep, ShowStep DEF ConsumeStep
  <1>3. ASSUME NEW q \in RunIds, RequestStep(q)
        PROVE  LedgerStep
    BY <1>1, <1>2, <1>3, StartQuiet DEF RequestStep
  <1>4. CASE Restart
    BY <1>4, RecoveryStep
  <1>5. CASE Clock \/ UNCHANGED vars
    <2>1. UNCHANGED <<runs, keys, called, told, source>>
      BY <1>5 DEF Clock, Tick, ResetDailyQuota, vars, storeVars, gatewayVars
    <2>2. SameShown
      BY <2>1 DEF SameShown, ShownTo
    <2> QED BY <2>1, <2>2, SameStore, QuietStep
  <1> QED BY <1>3, <1>4, <1>5 DEF Next

\* Every behaviour of the gateway is a behaviour of the run ledger: one opening,
\* one call, one end and one bill per run, shown only once it is settled.
THEOREM GatewayImplementsRunLedger == Spec => ImplementsRunLedger
  <1>1. Inv /\ [Next]_vars => [Ledger!Next]_(Ledger!ledgerVars)
    BY StepRefines DEF LedgerStep
  <1> QED BY SpecKeepsInv, InitRefines, <1>1, PTL
          DEF Spec, ImplementsRunLedger, Ledger!Spec
=============================================================================
