--------------------------- MODULE RunStoreProofs ---------------------------
(***************************************************************************)
(* Theorems about the run store for any runs, clients, keys, charges and   *)
(* limits.  Every method is analysed once, in a lemma the gateway's proofs *)
(* cite again.                                                             *)
(***************************************************************************)
EXTENDS RunStore, TLAPS

StoreInv == StoreTypeOK /\ LedgerConsistent /\ KeysOwnTheirRun

\* A row is told apart from a missing one by its status.
LEMMA RowFacts ==
    ASSUME NEW row \in Row
    PROVE  /\ row # Absent
           /\ row.status # "absent"
    BY DEF Row, Absent

\* The effect of each method on the tables, row by row.
LEMMA ReserveEffect ==
    ASSUME NEW r \in RunIds, NEW c \in Clients, NEW k, NEW f \in Fingerprints,
           NEW d, StoreTypeOK, Reserve(r, c, k, f, d)
    PROVE  /\ runs[r] = Absent
           /\ runs'[r] # Absent /\ Open(r)'
           /\ runs'[r].client = c
           /\ runs'[r].charge = NoCharge
           /\ \A p \in RunIds \ {r} : runs'[p] = runs[p]
           /\ k \in Keys => keys'[<<c, k>>] = r
           /\ \A s \in Clients \X Keys : keys[s] # NoRun => keys'[s] = keys[s]
  <1>1. runs' = [runs EXCEPT ![r] = NewRow(c, f)] /\ runs[r] = Absent
    BY DEF Reserve
  <1>2. \A s \in Clients \X Keys : keys'[s] = IF s = <<c, k>> THEN r ELSE keys[s]
    BY DEF Reserve
  <1>3. NewRow(c, f) # Absent /\ NewRow(c, f).status = "accepted"
        /\ NewRow(c, f).client = c /\ NewRow(c, f).charge = NoCharge
    BY DEF NewRow, Absent
  <1>4. ASSUME NEW s \in Clients \X Keys, keys[s] # NoRun
        PROVE  keys'[s] = keys[s]
    BY <1>2, <1>4 DEF Reserve, HasRun
  <1> QED BY <1>1, <1>2, <1>3, <1>4 DEF StoreTypeOK, Open

LEMMA UpdateStateEffect ==
    ASSUME NEW r \in RunIds, NEW status, NEW settlement, StoreTypeOK,
           UpdateState(r, status, settlement)
    PROVE  /\ Open(r) /\ runs[r] \in Row
           /\ runs'[r] # Absent
           /\ runs'[r].status = status
           /\ runs'[r].settlement = settlement
           /\ runs'[r].client = runs[r].client
           /\ runs'[r].created = runs[r].created
           /\ runs'[r].charge = runs[r].charge
           /\ \A p \in RunIds \ {r} : runs'[p] = runs[p]
           /\ keys' = keys
  <1>1. runs[r] \in Row /\ Open(r)
    BY DEF UpdateState, StoreTypeOK, Open, Absent
  <1> DEFINE row == [runs[r] EXCEPT !.status = status,
                                    !.settlement = settlement]
  <1>2. /\ row.status = status
        /\ row.settlement = settlement
        /\ row.client = runs[r].client
        /\ row.created = runs[r].created
        /\ row.charge = runs[r].charge
        /\ row # Absent
    BY <1>1 DEF Row, Absent
  <1>3. runs' = [runs EXCEPT ![r] = row] /\ keys' = keys
    BY DEF UpdateState, StoreTypeOK
  <1> HIDE DEF row
  <1> QED BY <1>1, <1>2, <1>3 DEF StoreTypeOK

LEMMA CompleteEffect ==
    ASSUME NEW r \in RunIds, NEW ch, StoreTypeOK, Complete(r, ch)
    PROVE  /\ Open(r) /\ runs[r] \in Row
           /\ runs'[r] # Absent
           /\ Completed(r)'
           /\ runs'[r].client = runs[r].client
           /\ runs'[r].created = runs[r].created
           /\ runs'[r].charge = ch
           /\ \A p \in RunIds \ {r} : runs'[p] = runs[p]
           /\ keys' = keys
  <1>1. runs[r] \in Row /\ Open(r)
    BY DEF Complete, StoreTypeOK, Open, Absent
  <1> DEFINE row == [runs[r] EXCEPT !.status = "completed",
                                    !.settlement = "confirmed",
                                    !.charge = ch]
  <1>2. /\ row.status = "completed"
        /\ row.settlement = "confirmed"
        /\ row.client = runs[r].client
        /\ row.created = runs[r].created
        /\ row.charge = ch
        /\ row # Absent
    BY <1>1 DEF Row, Absent
  <1>3. runs' = [runs EXCEPT ![r] = row] /\ keys' = keys
    BY DEF Complete, StoreTypeOK
  <1> HIDE DEF row
  <1> QED BY <1>1, <1>2, <1>3 DEF StoreTypeOK, Completed

LEMMA RecoverEffect ==
    ASSUME StoreTypeOK, RecoverIncompleteRuns, NEW r \in RunIds
    PROVE  /\ ~Open(r) => runs'[r] = runs[r]
           /\ Open(r) => /\ runs[r] \in Row
                         /\ runs'[r] # Absent
                         /\ runs'[r].status = "failed"
                         /\ runs'[r].settlement = "unconfirmed"
                         /\ runs'[r].client = runs[r].client
                         /\ runs'[r].created = runs[r].created
                         /\ runs'[r].charge = runs[r].charge
           /\ keys' = keys
  <1> DEFINE row == [runs[r] EXCEPT !.status = "failed",
                                    !.settlement = "unconfirmed"]
  <1>1. Open(r) => runs[r] \in Row
    BY DEF StoreTypeOK, Open, Absent
  <1>2. Open(r) => /\ row.status = "failed"
                   /\ row.settlement = "unconfirmed"
                   /\ row.client = runs[r].client
                   /\ row.created = runs[r].created
                   /\ row.charge = runs[r].charge
                   /\ row # Absent
    BY <1>1 DEF Row, Absent
  <1>3. runs'[r] = (IF Open(r) THEN row ELSE runs[r]) /\ keys' = keys
    BY DEF RecoverIncompleteRuns
  <1> HIDE DEF row
  <1> QED BY <1>1, <1>2, <1>3

LEMMA ReserveKeepsStoreInv ==
    ASSUME NEW r \in RunIds, NEW c \in Clients, NEW k \in Keys \cup {NoKey},
           NEW f \in Fingerprints, NEW d, StoreInv, Reserve(r, c, k, f, d)
    PROVE  StoreInv'
  <1> USE DataAssumption DEF StoreInv
  <1>1. NewRow(c, f) \in Row
    BY DEF NewRow, Row, StoreTypeOK
  <1>2. StoreTypeOK'
    BY <1>1 DEF StoreTypeOK, Reserve
  <1>3. LedgerConsistent'
    BY RowFacts, <1>1 DEF StoreTypeOK, LedgerConsistent, Reserve, NewRow, Open
  <1>4. KeysOwnTheirRun'
    <2> SUFFICES ASSUME NEW ck \in Clients \X Keys, keys'[ck] # NoRun
                 PROVE  /\ runs'[keys'[ck]] # Absent
                        /\ runs'[keys'[ck]].client = ck[1]
                        /\ \A other \in Clients \X Keys :
                               keys'[other] = keys'[ck] => other = ck
      BY DEF KeysOwnTheirRun
    <2>1. \A s \in Clients \X Keys : keys[s] # r
      BY DEF KeysOwnTheirRun, StoreTypeOK, Reserve
    <2>2. \A s \in Clients \X Keys :
              keys'[s] = IF s = <<c, k>> THEN r ELSE keys[s]
      BY DEF Reserve
    <2>3. runs' = [runs EXCEPT ![r] = NewRow(c, f)]
      BY DEF Reserve
    <2>4. CASE ck = <<c, k>>
      <3>1. keys'[ck] = r
        BY <2>2, <2>4
      <3>2. runs'[r] = NewRow(c, f) /\ NewRow(c, f).client = ck[1]
        BY <2>3, <2>4 DEF StoreTypeOK, NewRow
      <3> QED BY <1>1, RowFacts, <2>1, <2>2, <2>4, <3>1, <3>2
    <2>5. CASE ck # <<c, k>>
      <3>1. keys'[ck] = keys[ck] /\ keys[ck] # r /\ keys[ck] \in RunIds
        BY <2>1, <2>2, <2>5 DEF StoreTypeOK
      <3>2. runs'[keys'[ck]] = runs[keys[ck]]
        BY <2>3, <3>1 DEF StoreTypeOK
      <3> QED BY <2>2, <3>1, <3>2 DEF KeysOwnTheirRun
    <2> QED BY <2>4, <2>5
  <1> QED BY <1>2, <1>3, <1>4

\* What UpdateState and Complete share: one open run changes its outcome.
LEMMA OutcomeKeepsStoreInv ==
    ASSUME NEW r \in RunIds, StoreInv, Open(r),
           NEW row \in Row,
           row.client = runs[r].client,
           row.charge # NoCharge <=> row.settlement = "confirmed",
           row.status = "completed" <=> row.settlement = "confirmed",
           row.status \in {"accepted", "running"} <=> row.settlement = "pending",
           runs' = [runs EXCEPT ![r] = row],
           UNCHANGED <<keys, resetAt, now>>
    PROVE  StoreInv'
  <1> USE DEF StoreInv
  <1>1. StoreTypeOK'
    BY DEF StoreTypeOK
  <1>2. LedgerConsistent'
    BY DEF StoreTypeOK, LedgerConsistent, Open
  <1>3. KeysOwnTheirRun'
    BY RowFacts DEF StoreTypeOK, KeysOwnTheirRun
  <1> QED BY <1>1, <1>2, <1>3

LEMMA OpenRow ==
    ASSUME NEW r \in RunIds, StoreTypeOK, Open(r)
    PROVE  runs[r] \in Row
    BY DEF StoreTypeOK, Open, Absent

LEMMA UpdateStateKeepsStoreInv ==
    ASSUME NEW r \in RunIds, StoreInv,
           NEW status, NEW settlement,
           \/ status = "running" /\ settlement = "pending"
           \/ status = "failed" /\ settlement \in FailureSettlements,
           UpdateState(r, status, settlement)
    PROVE  StoreInv'
  <1> DEFINE row == [runs[r] EXCEPT !.status = status,
                                    !.settlement = settlement]
  <1>1. runs[r] \in Row /\ Open(r)
    BY OpenRow DEF UpdateState, StoreInv
  <1>2. runs[r].charge = NoCharge
    BY <1>1, RowFacts DEF StoreInv, LedgerConsistent, Open
  <1>3. /\ row \in Row
        /\ row.client = runs[r].client
        /\ row.charge = NoCharge
        /\ row.status = status
        /\ row.settlement = settlement
    BY <1>1, <1>2 DEF Row, FailureSettlements
  <1>4. runs' = [runs EXCEPT ![r] = row] /\ UNCHANGED <<keys, resetAt, now>>
    BY DEF UpdateState, StoreInv, StoreTypeOK
  <1> HIDE DEF row
  <1> QED BY OutcomeKeepsStoreInv, <1>1, <1>3, <1>4 DEF FailureSettlements

LEMMA CompleteKeepsStoreInv ==
    ASSUME NEW r \in RunIds, NEW ch \in Charges, StoreInv, Complete(r, ch)
    PROVE  StoreInv'
  <1> DEFINE row == [runs[r] EXCEPT !.status = "completed",
                                    !.settlement = "confirmed",
                                    !.charge = ch]
  <1>1. runs[r] \in Row /\ Open(r)
    BY OpenRow DEF Complete, StoreInv
  <1>2. /\ row \in Row
        /\ row.client = runs[r].client
        /\ row.charge = ch
        /\ row.status = "completed"
        /\ row.settlement = "confirmed"
    BY <1>1 DEF Row
  <1>3. runs' = [runs EXCEPT ![r] = row] /\ UNCHANGED <<keys, resetAt, now>>
    BY DEF Complete, StoreInv, StoreTypeOK
  <1> HIDE DEF row
  <1> QED BY OutcomeKeepsStoreInv, <1>1, <1>2, <1>3, DataAssumption

LEMMA RecoverKeepsStoreInv ==
    ASSUME StoreInv, RecoverIncompleteRuns
    PROVE  StoreInv'
  <1> DEFINE recovered(r) == [runs[r] EXCEPT !.status = "failed",
                                             !.settlement = "unconfirmed"]
  <1> USE DEF StoreInv
  <1>1. \A r \in RunIds : runs'[r] = IF Open(r) THEN recovered(r) ELSE runs[r]
    BY DEF RecoverIncompleteRuns
  <1>2. ASSUME NEW r \in RunIds, Open(r)
        PROVE  /\ recovered(r) \in Row
               /\ recovered(r).status = "failed"
               /\ recovered(r).settlement = "unconfirmed"
               /\ recovered(r).charge = NoCharge
               /\ recovered(r).client = runs[r].client
    <2>1. runs[r] \in Row
      BY <1>2, OpenRow
    <2>2. runs[r].charge = NoCharge
      BY <1>2, <2>1, RowFacts DEF LedgerConsistent, Open
    <2> QED BY <2>1, <2>2 DEF Row
  <1> HIDE DEF recovered
  <1>3. StoreTypeOK'
    <2>1. \A r \in RunIds : runs'[r] \in Row \cup {Absent}
      BY <1>1, <1>2 DEF StoreTypeOK
    <2>2. \E f : runs' = [r \in RunIds |-> f[r]]
      <3>1. runs' = [r \in RunIds |-> runs'[r]]
        BY DEF RecoverIncompleteRuns
      <3> QED BY <3>1
    <2>3. UNCHANGED <<keys, resetAt, now>>
      BY DEF RecoverIncompleteRuns
    <2> QED BY <2>1, <2>2, <2>3 DEF StoreTypeOK
  <1>4. LedgerConsistent'
    BY <1>1, <1>2, RowFacts DEF StoreTypeOK, LedgerConsistent, Open
  <1>5. KeysOwnTheirRun'
    <2>1. keys' = keys
      BY DEF RecoverIncompleteRuns
    <2>2. \A r \in RunIds : runs[r] # Absent =>
              runs'[r] # Absent /\ runs'[r].client = runs[r].client
      BY <1>1, <1>2, RowFacts
    <2> QED BY <2>1, <2>2 DEF KeysOwnTheirRun, StoreTypeOK
  <1> QED BY <1>3, <1>4, <1>5

LEMMA ClockKeepsStoreInv ==
    ASSUME StoreInv,
           Tick \/ \E c \in Clients, at \in 0..now : ResetDailyQuota(c, at)
    PROVE  StoreInv'
  <1>1. resetAt' \in [Clients -> Nat] /\ now' \in Nat
    BY DEF StoreInv, StoreTypeOK, Tick, ResetDailyQuota
  <1>2. UNCHANGED <<runs, keys>>
    BY DEF Tick, ResetDailyQuota
  <1> QED BY <1>1, <1>2
          DEF StoreInv, StoreTypeOK, LedgerConsistent, KeysOwnTheirRun, Open

LEMMA StoreInitInv == StoreInit => StoreInv
  BY DEF StoreInit, StoreInv, StoreTypeOK, LedgerConsistent, KeysOwnTheirRun,
         Absent

LEMMA StoreStepKeepsInv == StoreInv /\ [StoreNext]_storeVars => StoreInv'
  <1> SUFFICES ASSUME StoreInv, [StoreNext]_storeVars PROVE StoreInv'
    OBVIOUS
  <1>1. ASSUME NEW r \in RunIds, NEW c \in Clients, NEW k \in Keys \cup {NoKey},
               NEW f \in Fingerprints, NEW t \in 0..now,
               Reserve(r, c, k, f, DayStart(t))
        PROVE  StoreInv'
    BY <1>1, ReserveKeepsStoreInv
  <1>2. ASSUME NEW r \in RunIds, MarkRunning(r)
        PROVE  StoreInv'
    BY <1>2, UpdateStateKeepsStoreInv DEF MarkRunning
  <1>3. ASSUME NEW r \in RunIds, NEW s \in FailureSettlements, MarkFailed(r, s)
        PROVE  StoreInv'
    BY <1>3, UpdateStateKeepsStoreInv DEF MarkFailed
  <1>4. ASSUME NEW r \in RunIds, NEW ch \in Charges, Complete(r, ch)
        PROVE  StoreInv'
    BY <1>4, CompleteKeepsStoreInv
  <1>5. CASE RecoverIncompleteRuns
    BY <1>5, RecoverKeepsStoreInv
  <1>6. CASE Tick \/ \E c \in Clients, at \in 0..now : ResetDailyQuota(c, at)
    BY <1>6, ClockKeepsStoreInv
  <1>7. CASE UNCHANGED storeVars
    BY <1>7 DEF storeVars, StoreInv, StoreTypeOK, LedgerConsistent,
                KeysOwnTheirRun, Open
  <1> QED BY <1>1, <1>2, <1>3, <1>4, <1>5, <1>6, <1>7 DEF StoreNext

\* The tables keep their types under every method in every order.
THEOREM StoreTypeCorrect == StoreSpec => []StoreTypeOK
  <1>1. StoreInv => StoreTypeOK
    BY DEF StoreInv
  <1> QED BY StoreInitInv, StoreStepKeepsInv, <1>1, PTL DEF StoreSpec

\* Status, settlement and charge rows agree in every reachable state.
THEOREM LedgerAlwaysConsistent == StoreSpec => []LedgerConsistent
  <1>1. StoreInv => LedgerConsistent
    BY DEF StoreInv
  <1> QED BY StoreInitInv, StoreStepKeepsInv, <1>1, PTL DEF StoreSpec

\* A key always names one run of its own client, and no other key does.
THEOREM KeysAlwaysOwnTheirRun == StoreSpec => []KeysOwnTheirRun
  <1>1. StoreInv => KeysOwnTheirRun
    BY DEF StoreInv
  <1> QED BY StoreInitInv, StoreStepKeepsInv, <1>1, PTL DEF StoreSpec

\* A run that ended is never rewritten and a key is never rebound.
THEOREM EndedRunsStayFinal == StoreSpec => EndedRunsAreFinal
  <1> DEFINE Final ==
        /\ \A r \in RunIds : runs[r] # Absent /\ ~Open(r) => runs'[r] = runs[r]
        /\ \A ck \in Clients \X Keys : keys[ck] # NoRun => keys'[ck] = keys[ck]
  <1>1. StoreInv /\ [StoreNext]_storeVars => [Final]_storeVars
    <2> SUFFICES ASSUME StoreInv, StoreNext PROVE Final
      OBVIOUS
    <2> USE DEF StoreInv, StoreTypeOK
    <2>1. ASSUME NEW r \in RunIds, NEW c \in Clients,
                 NEW k \in Keys \cup {NoKey}, NEW f \in Fingerprints,
                 NEW t \in 0..now, Reserve(r, c, k, f, DayStart(t))
          PROVE  Final
      BY <2>1, DataAssumption DEF Reserve, HasRun
    <2>2. ASSUME NEW r \in RunIds, NEW status, NEW settlement,
                 UpdateState(r, status, settlement)
          PROVE  Final
      BY <2>2 DEF UpdateState
    <2>3. ASSUME NEW r \in RunIds, NEW ch \in Charges, Complete(r, ch)
          PROVE  Final
      BY <2>3 DEF Complete
    <2>4. CASE RecoverIncompleteRuns
      BY <2>4 DEF RecoverIncompleteRuns
    <2>5. CASE Tick \/ \E c \in Clients, at \in 0..now : ResetDailyQuota(c, at)
      BY <2>5 DEF Tick, ResetDailyQuota
    <2> QED BY <2>1, <2>2, <2>3, <2>4, <2>5
            DEF StoreNext, MarkRunning, MarkFailed
  <1> QED BY StoreInitInv, StoreStepKeepsInv, <1>1, PTL
          DEF StoreSpec, EndedRunsAreFinal
=============================================================================
