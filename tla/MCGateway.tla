----------------------------- MODULE MCGateway -----------------------------
(* Small instances of Gateway. *)
EXTENDS Gateway, TLC

MCCharges == {[usd |-> TRUE, total |-> 1], [usd |-> FALSE, total |-> 1]}

Unlimited == [c \in Clients |-> NoLimit]

Limited == [c \in Clients |-> 1]

Symmetry == Permutations(RunIds) \cup Permutations(Fingerprints)
=============================================================================
