------------------------------ MODULE RunStore ------------------------------
(***************************************************************************)
(* The durable run ledger of internal/store/sqlite.go.  The store holds    *)
(* one connection (SetMaxOpenConns(1)), so its transactions are serial and *)
(* each of its methods is one action here.  A method that returns an error *)
(* has rolled back and leaves the tables alone.                            *)
(*                                                                         *)
(* A run is the row of table runs together with its rows of run_usage,     *)
(* run_charges and upstream_cost_records, which Complete inserts in one    *)
(* transaction: charge stands for the three.  Money is a natural number    *)
(* (nano-units), time a natural number read by time.Now().                 *)
(***************************************************************************)
EXTENDS Naturals, FiniteSets, FiniteSetsExt

CONSTANTS
    RunIds,        \* the identifiers newRunID can mint, each at most once
    Clients,       \* configured access keys
    Keys,          \* idempotency keys a caller may send
    NoKey,         \* the empty idempotency key
    Fingerprints,  \* digests of request bodies
    Charges,       \* settlements: records [usd, total]
    DailyLimit,    \* daily_limit_usd of each client, or NoLimit
    NoLimit,       \* the empty daily limit
    NoRun,         \* sql.ErrNoRows of an idempotency lookup
    NoCharge,      \* no row of run_charges
    DayLength,     \* length of the local day
    MaxTime        \* bound on the clock

ASSUME DataAssumption ==
    /\ NoRun \notin RunIds
    /\ NoKey \notin Keys
    /\ NoCharge \notin Charges
    /\ Charges \subseteq [usd : BOOLEAN, total : Nat]

ASSUME QuotaAssumption ==
    /\ NoLimit \notin Nat
    /\ DailyLimit \in [Clients -> (Nat \ {0}) \cup {NoLimit}]
    /\ DayLength \in Nat \ {0}
    /\ MaxTime \in Nat

VARIABLES
    runs,     \* RunIds -> row, "absent" before Reserve inserts it
    keys,     \* table idempotency_keys: <<client, key>> -> run
    resetAt,  \* table client_daily_quota_resets (0: no row)
    now       \* the clock

storeVars == <<runs, keys, resetAt, now>>

Absent == [status |-> "absent"]

Row == [status      : {"accepted", "running", "completed", "failed"},
        settlement  : {"pending", "confirmed", "unconfirmed",
                       "not_chargeable", "failed"},
        client      : Clients,
        fingerprint : Fingerprints,
        created     : Nat,
        charge      : Charges \cup {NoCharge}]

StoreTypeOK ==
    /\ runs \in [RunIds -> Row \cup {Absent}]
    /\ keys \in [Clients \X Keys -> RunIds \cup {NoRun}]
    /\ resetAt \in [Clients -> Nat]
    /\ now \in Nat

StoreInit ==
    /\ runs = [r \in RunIds |-> Absent]
    /\ keys = [ck \in Clients \X Keys |-> NoRun]
    /\ resetAt = [c \in Clients |-> 0]
    /\ now = 0

-----------------------------------------------------------------------------
\* What the transactions read.

Open(r) == runs[r].status \in {"accepted", "running"}

Completed(r) == runs[r].status = "completed" /\ runs[r].settlement = "confirmed"

\* lookupIdempotency; Reserve skips it when the key is empty.
HasRun(c, k) == k \in Keys /\ keys[<<c, k>>] # NoRun

DayStart(t) == t - (t % DayLength)

\* The quota window opens at local midnight or at a later manual reset.
WindowStart(c, dayStart) ==
    IF resetAt[c] > dayStart THEN resetAt[c] ELSE dayStart

\* The rows dailyQuotaUsed adds up: confirmed USD charges, by creation time.
Counted(c, since) ==
    {r \in RunIds : /\ Completed(r)
                    /\ runs[r].client = c
                    /\ runs[r].created >= since
                    /\ runs[r].charge.usd}

DailyQuotaUsed(c, since) ==
    MapThenSumSet(LAMBDA r : runs[r].charge.total, Counted(c, since))

\* Mutant: the last unit of the quota admits one more request.
QuotaExhausted_Strict(c, dayStart) ==
    /\ DailyLimit[c] # NoLimit
    /\ DailyQuotaUsed(c, WindowStart(c, dayStart)) > DailyLimit[c]

QuotaExhausted(c, dayStart) ==
    /\ DailyLimit[c] # NoLimit
    /\ DailyQuotaUsed(c, WindowStart(c, dayStart)) >= DailyLimit[c]

-----------------------------------------------------------------------------
\* The transactions that change the tables.

NewRow(c, f) ==
    [status |-> "accepted", settlement |-> "pending", client |-> c,
     fingerprint |-> f, created |-> now, charge |-> NoCharge]

\* Mutants: keys are shared between clients; the key is not stored; requests
\* with a key escape the quota.
Reserve_SharesKey(r, c, k, f, dayStart) ==
    /\ runs[r] = Absent /\ ~HasRun(c, k) /\ ~QuotaExhausted(c, dayStart)
    /\ runs' = [runs EXCEPT ![r] = NewRow(c, f)]
    /\ keys' = [ck \in Clients \X Keys |-> IF ck[2] = k THEN r ELSE keys[ck]]
    /\ UNCHANGED <<resetAt, now>>

Reserve_ForgetsKey(r, c, k, f, dayStart) ==
    /\ runs[r] = Absent /\ ~HasRun(c, k) /\ ~QuotaExhausted(c, dayStart)
    /\ runs' = [runs EXCEPT ![r] = NewRow(c, f)]
    /\ UNCHANGED <<keys, resetAt, now>>

Reserve_KeySkipsQuota(r, c, k, f, dayStart) ==
    /\ runs[r] = Absent /\ ~HasRun(c, k)
    /\ k = NoKey => ~QuotaExhausted(c, dayStart)
    /\ runs' = [runs EXCEPT ![r] = NewRow(c, f)]
    /\ keys' = [ck \in Clients \X Keys |->
                    IF ck = <<c, k>> THEN r ELSE keys[ck]]
    /\ UNCHANGED <<resetAt, now>>

\* Reserve when it creates the run: no run under the key, quota not used up.
\* dayStart is midnight as the caller computed it before the call.
Reserve(r, c, k, f, dayStart) ==
    /\ runs[r] = Absent
    /\ ~HasRun(c, k)
    /\ ~QuotaExhausted(c, dayStart)
    /\ runs' = [runs EXCEPT ![r] = NewRow(c, f)]
    /\ keys' = [ck \in Clients \X Keys |->
                    IF ck = <<c, k>> THEN r ELSE keys[ck]]
    /\ UNCHANGED <<resetAt, now>>

\* Mutant: the UPDATE names only the run id.
UpdateState_Unguarded(r, status, settlement) ==
    /\ runs[r] # Absent
    /\ runs' = [runs EXCEPT ![r].status = status, ![r].settlement = settlement]
    /\ UNCHANGED <<keys, resetAt, now>>

\* updateState: the UPDATE applies only to an accepted or running run.
UpdateState(r, status, settlement) ==
    /\ Open(r)
    /\ runs' = [runs EXCEPT ![r].status = status, ![r].settlement = settlement]
    /\ UNCHANGED <<keys, resetAt, now>>

MarkRunning(r) == UpdateState(r, "running", "pending")

MarkFailed(r, settlement) == UpdateState(r, "failed", settlement)

Complete(r, charge) ==
    /\ Open(r)
    /\ runs' = [runs EXCEPT ![r].status = "completed",
                            ![r].settlement = "confirmed",
                            ![r].charge = charge]
    /\ UNCHANGED <<keys, resetAt, now>>

\* Mutant: the recovery leaves the settlement state pending.
RecoverIncompleteRuns_KeepsPending ==
    /\ runs' = [r \in RunIds |->
                    IF Open(r) THEN [runs[r] EXCEPT !.status = "failed"]
                    ELSE runs[r]]
    /\ UNCHANGED <<keys, resetAt, now>>

\* initialize, when the process starts on an existing database.
RecoverIncompleteRuns ==
    /\ runs' = [r \in RunIds |->
                    IF Open(r)
                    THEN [runs[r] EXCEPT !.status = "failed",
                                         !.settlement = "unconfirmed"]
                    ELSE runs[r]]
    /\ UNCHANGED <<keys, resetAt, now>>

\* The administrator's reset.  Its handler reads the clock before the call;
\* resets of one client are assumed to be issued one after the other.
ResetDailyQuota(c, at) ==
    /\ at \in resetAt[c]..now
    /\ resetAt' = [resetAt EXCEPT ![c] = at]
    /\ UNCHANGED <<runs, keys, now>>

Tick ==
    /\ now < MaxTime
    /\ now' = now + 1
    /\ UNCHANGED <<runs, keys, resetAt>>

FailureSettlements == {"unconfirmed", "failed", "not_chargeable"}

\* The store on its own answers any call, in any order.
StoreNext ==
    \/ \E r \in RunIds, c \in Clients, k \in Keys \cup {NoKey},
          f \in Fingerprints, midnight \in {DayStart(t) : t \in 0..now} :
          Reserve(r, c, k, f, midnight)
    \/ \E r \in RunIds : MarkRunning(r)
    \/ \E r \in RunIds, s \in FailureSettlements : MarkFailed(r, s)
    \/ \E r \in RunIds, ch \in Charges : Complete(r, ch)
    \/ RecoverIncompleteRuns
    \/ \E c \in Clients, at \in 0..now : ResetDailyQuota(c, at)
    \/ Tick

StoreSpec == StoreInit /\ [][StoreNext]_storeVars

-----------------------------------------------------------------------------
\* Status, settlement state and charge rows always agree: a charge is on
\* record exactly for the confirmed runs, an open run is pending, a failed
\* one is neither.  Reserve, updateState, Complete and the recovery at start
\* write these columns in separate statements.
LedgerConsistent ==
    \A r \in RunIds : runs[r] # Absent =>
        /\ runs[r].charge # NoCharge <=> runs[r].settlement = "confirmed"
        /\ runs[r].status = "completed" <=> runs[r].settlement = "confirmed"
        /\ Open(r) <=> runs[r].settlement = "pending"

\* A key names a run of the client that sent it, and two keys never share a
\* run, so a retry can only ever be answered from the caller's own run.
KeysOwnTheirRun ==
    \A ck \in Clients \X Keys : keys[ck] # NoRun =>
        /\ runs[keys[ck]] # Absent
        /\ runs[keys[ck]].client = ck[1]
        /\ \A other \in Clients \X Keys : keys[other] = keys[ck] => other = ck

\* A run that ended stays exactly as it ended: no later call, retry or
\* recovery rewrites its outcome or its charge, and no key is rebound.
EndedRunsAreFinal ==
    [][/\ \A r \in RunIds : runs[r] # Absent /\ ~Open(r) => runs'[r] = runs[r]
       /\ \A ck \in Clients \X Keys : keys[ck] # NoRun => keys'[ck] = keys[ck]
      ]_storeVars
=============================================================================
