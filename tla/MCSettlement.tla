---------------------------- MODULE MCSettlement ----------------------------
(* A small instance of Settlement: with PerMillion = 2 an input token costs   *)
(* 1.5 nano-units and an output token 2; five output tokens leave MaxInt64.   *)
EXTENDS Settlement, TLC

CONSTANTS f, g

Functions == {f, g}

Symmetry == Permutations(Functions)

MCPrice == [input |-> 3, output |-> 4]

MCInputText == [cjk |-> 0, other |-> 3]

MCBudgets == {NoBudget, 5, 6}

MCChunks == {[cjk |-> 1, other |-> 1]}

MCCalls == Call

Reported(in, out) == [input |-> in, output |-> out]

MCUsages ==
    {Unreported, Reported(1, 2), Reported(0, 5), Reported(2, 3), Reported(2, 4),
     Reported(NotReported, 1), Reported(1, NotReported), Reported(-1, NotReported)}
=============================================================================
