---------------------------- MODULE WorkerLease ----------------------------
(***************************************************************************)
(* What the WorkBuddy adapter promises its callers, without its pool, its  *)
(* waiters and its replacements: a request is lent at most one worker, no  *)
(* worker is lent to two requests, never more than Limit are lent at once, *)
(* and a retired adapter lends nothing more but lets the loans run out.    *)
(***************************************************************************)
EXTENDS Naturals, FiniteSets

CONSTANTS Requests, Workers, Limit

VARIABLES
    stage,    \* Requests -> new, lent, over
    loan,     \* the pairs of a request and the worker it was lent
    closing   \* the adapter is retired

leaseVars == <<stage, loan, closing>>

Init ==
    /\ stage = [r \in Requests |-> "new"]
    /\ loan = {}
    /\ closing = FALSE

Lend(r, w) ==
    /\ stage[r] = "new"
    /\ ~closing
    /\ \A l \in loan : l[2] # w
    /\ Cardinality(loan) < Limit
    /\ stage' = [stage EXCEPT ![r] = "lent"]
    /\ loan' = loan \cup {<<r, w>>}
    /\ UNCHANGED closing

GiveBack(r, w) ==
    /\ <<r, w>> \in loan
    /\ stage' = [stage EXCEPT ![r] = "over"]
    /\ loan' = loan \ {<<r, w>>}
    /\ UNCHANGED closing

\* A request that is told that there is no worker for it.
Refuse(r) ==
    /\ stage[r] = "new"
    /\ stage' = [stage EXCEPT ![r] = "over"]
    /\ UNCHANGED <<loan, closing>>

Close ==
    /\ closing' = TRUE
    /\ UNCHANGED <<stage, loan>>

Next ==
    \/ \E r \in Requests : Refuse(r) \/ \E w \in Workers : Lend(r, w) \/ GiveBack(r, w)
    \/ Close

Spec == Init /\ [][Next]_leaseVars
=============================================================================
