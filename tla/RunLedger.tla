----------------------------- MODULE RunLedger -----------------------------
(***************************************************************************)
(* What the gateway promises about runs, without its handlers, store and   *)
(* providers: a run opens once, a key holds one run for good, a run ends   *)
(* once (settled with one bill, or abandoned without any), the upstream    *)
(* service is reached at most once per run and never without one, and a    *)
(* bill is shown only after it is settled.                                 *)
(***************************************************************************)
CONSTANTS Runs, Slots, Bills, NoRun, NoBill

VARIABLES
    phase,    \* Runs -> unopened, open, settled, abandoned
    ledger,   \* Runs -> the bill on record
    holder,   \* Slots (a client and one of its keys) -> the run that holds it
    reached,  \* runs that reached the upstream service
    shown     \* Runs -> the run whose bill the caller of a request was shown

ledgerVars == <<phase, ledger, holder, reached, shown>>

Init ==
    /\ phase = [r \in Runs |-> "unopened"]
    /\ ledger = [r \in Runs |-> NoBill]
    /\ holder = [s \in Slots |-> NoRun]
    /\ reached = {}
    /\ shown = [r \in Runs |-> NoRun]

\* A run opens under a free slot, or under none.
OpenRun(r) ==
    /\ phase[r] = "unopened"
    /\ phase' = [phase EXCEPT ![r] = "open"]
    /\ \/ \E s \in Slots : /\ holder[s] = NoRun
                           /\ holder' = [holder EXCEPT ![s] = r]
       \/ UNCHANGED holder
    /\ UNCHANGED <<ledger, reached, shown>>

Reach(r) ==
    /\ phase[r] = "open"
    /\ r \notin reached
    /\ reached' = reached \cup {r}
    /\ UNCHANGED <<phase, ledger, holder, shown>>

\* Only a run that reached the upstream service is charged.
Settle(r, b) ==
    /\ phase[r] = "open"
    /\ r \in reached
    /\ phase' = [phase EXCEPT ![r] = "settled"]
    /\ ledger' = [ledger EXCEPT ![r] = b]
    /\ UNCHANGED <<holder, reached, shown>>

\* Any number of open runs end without a bill: one in a failed request, all of
\* them when the process restarts.
Abandon(S) ==
    /\ S # {} /\ \A r \in S : phase[r] = "open"
    /\ phase' = [r \in Runs |-> IF r \in S THEN "abandoned" ELSE phase[r]]
    /\ UNCHANGED <<ledger, holder, reached, shown>>

\* The caller of q is shown the bill of a settled run: its own, or the one its
\* key holds.
Show(q, r) ==
    /\ phase[r] = "settled"
    /\ shown[q] = NoRun
    /\ q = r \/ (phase[q] = "unopened" /\ \E s \in Slots : holder[s] = r)
    /\ shown' = [shown EXCEPT ![q] = r]
    /\ UNCHANGED <<phase, ledger, holder, reached>>

Next ==
    \/ \E r \in Runs : OpenRun(r) \/ Reach(r) \/ \E b \in Bills : Settle(r, b)
    \/ \E S \in SUBSET Runs : Abandon(S)
    \/ \E q, r \in Runs : Show(q, r)

Spec == Init /\ [][Next]_ledgerVars
=============================================================================
