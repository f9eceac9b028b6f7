----------------------------- MODULE MCRunStore -----------------------------
(* A small instance of the store and the daily quota: every call in every   *)
(* order over two days, two clients that may use the same key.              *)
EXTENDS DailyQuota, TLC

\* A USD charge below the limit, and one the quota does not count.
MCCharges == {[usd |-> TRUE, total |-> 1], [usd |-> FALSE, total |-> 2]}

Limited == [c \in Clients |-> 2]

Symmetry == Permutations(RunIds) \cup Permutations(Clients)
=============================================================================
