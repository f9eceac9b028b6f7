-------------------------- MODULE MCRuntimeManager --------------------------
(* A small instance of the manager: an API provider and a local one, one to  *)
(* three clients that are added, renamed, removed or given a new token.      *)
EXTENDS RuntimeManager, TLC

CONSTANTS c1, c2, c3, api, local, http, proc1, proc2, key1, key2

NoKeys == [p \in Providers |-> None]

Both == [p \in Providers |-> IF p = api THEN http ELSE proc1]

Plain == [clients |-> {c1}, conn |-> Both, renames |-> <<>>,
          regenerate |-> {}, keys |-> NoKeys]

MCFirstConfig == [clients |-> {c1}, conn |-> Both]

MCEdits ==
    {Plain,
     [Plain EXCEPT !.regenerate = {c1}],
     [Plain EXCEPT !.clients = {c1, c2}, !.regenerate = {c2}],
     [Plain EXCEPT !.clients = {c2}, !.renames = c2 :> c1],
     [Plain EXCEPT !.clients = {c2, c3}, !.renames = c2 :> c1 @@ c3 :> c2],
     [Plain EXCEPT !.keys[api] = key1],
     [Plain EXCEPT !.keys[api] = key2, !.conn[local] = proc2],
     [Plain EXCEPT !.conn[api] = proc2],
     [Plain EXCEPT !.conn[local] = None]}
=============================================================================
