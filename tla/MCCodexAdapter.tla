--------------------------- MODULE MCCodexAdapter ---------------------------
(* A small instance of CodexAdapter: two requests of either kind on one or    *)
(* two slots.                                                                 *)
EXTENDS CodexAdapter

MCWorkers == 1..2
=============================================================================
