----------------------------- MODULE DailyQuota -----------------------------
(***************************************************************************)
(* The daily quota of an access key. Reserve checks it when a run is       *)
(* admitted, Complete consumes it when the run settles, the administrator  *)
(* resets it. Nothing holds the quota between admission and settlement,    *)
(* and the midnight a request was measured from may be yesterday's by the  *)
(* time its transaction runs.                                              *)
(*                                                                         *)
(* peak is a history variable: the largest number of runs of a client that *)
(* were ever open together in its window.                                  *)
(***************************************************************************)
EXTENDS RunStore

\* Amounts are 64-bit numbers of nano-units.
ASSUME ChargeAssumption == IsFiniteSet(Charges)

VARIABLE peak

quotaVars == <<runs, keys, resetAt, now, peak>>

CurrentWindow(c) == WindowStart(c, DayStart(now))

OpenInWindow(c) ==
    {r \in RunIds : /\ Open(r)
                    /\ runs[r].client = c
                    /\ runs[r].created >= CurrentWindow(c)}

\* What DailyQuotaStatuses reports as used.
UsedUSD(c) == DailyQuotaUsed(c, CurrentWindow(c))

QuotaInit == StoreInit /\ peak = [c \in Clients |-> 0]

QuotaNext ==
    /\ StoreNext
    /\ peak' = [c \in Clients |-> Max({peak[c], Cardinality(OpenInWindow(c)')})]

QuotaSpec == QuotaInit /\ [][QuotaNext]_quotaVars

-----------------------------------------------------------------------------
Capped == {c \in Clients : DailyLimit[c] # NoLimit}

MaxCharge == Max({ch.total : ch \in {x \in Charges : x.usd}} \cup {0})

\* The quota is checked at admission and consumed at settlement, so it can be
\* overrun, but only by the runs in flight together: with one request at a
\* time by the last admitted run, with n concurrent ones by n runs.
OvershootIsBounded ==
    \A c \in Capped :
        UsedUSD(c) + MaxCharge * Cardinality(OpenInWindow(c))
            < DailyLimit[c] + MaxCharge * peak[c]

\* Midnight is computed by the gateway and compared in the store's later
\* transaction.  A request that carries yesterday's midnight is still never
\* admitted once today's window is used up.
UsedUpQuotaAdmitsNothing ==
    [][\A c \in Capped, r \in RunIds :
           UsedUSD(c) >= DailyLimit[c] /\ runs[r] = Absent /\ runs'[r] # Absent
               => runs'[r].client # c]_quotaVars
=============================================================================
