-------------------------- MODULE MCWorkBuddyPool --------------------------
(* Small instances of WorkBuddyPool. *)
EXTENDS WorkBuddyPool, TLC

Symmetry == Permutations(Requests) \cup Permutations(Workers)
=============================================================================
