------------------------ MODULE RuntimeManagerProofs ------------------------
(***************************************************************************)
(* Theorems about the runtime manager, for any providers, updates, faults  *)
(* and requests: what an update may retire, that no adapter is forgotten,  *)
(* and that the adapters and the files fit what is served.                 *)
(*                                                                         *)
(* IInv says nothing of tokens: TokenInv, at the end, adds what the fold   *)
(* over the renames of an update and the minting of tokens make of them.   *)
(* NoSnapshot is told from a snapshot by its configuration.                *)
(***************************************************************************)
EXTENDS RuntimeManager, FoldLemmas, TLAPS

Keys == [Providers -> ApiKeys \cup {None}]

\* A snapshot whose tokens may be anything.
Shaped(s) ==
    /\ s = [config |-> s.config, secrets |-> s.secrets, shown |-> s.shown,
            adapter |-> s.adapter]
    /\ s.config \in Config
    /\ s.secrets = [tokens |-> s.secrets.tokens, keys |-> s.secrets.keys]
    /\ s.secrets.keys \in Keys /\ s.shown \in Keys
    /\ s.adapter \in [Providers -> Adapter \cup {None}]

Requested == [at : {"new", "authenticated", "bound", "running", "refused", "aborted"},
              provider : Providers \cup {None}, adapter : Adapter \cup {None}]

Drafting == {"building", "savingPublic", "savingSecret", "publishing"}

Shapes ==
    /\ proc \in {"down", "booting", "up", "stopping"}
    /\ phase \in Drafting \cup {"idle", "retiring"}
    /\ publicFile \in Config
    /\ secretFile = [tokens |-> secretFile.tokens, keys |-> secretFile.keys]
    /\ secretFile.keys \in Keys
    /\ Shaped(current) \/ current = NoSnapshot
    /\ Shaped(base) \/ base = NoSnapshot
    /\ IF phase \in Drafting THEN Shaped(draft) ELSE draft = NoSnapshot
    /\ retiring \cup closing \subseteq {a \in Adapter : a.conn \in LocalConns}
    /\ retired \subseteq pools /\ pools \subseteq 1..lastAdapter /\ lastAdapter \in Nat
    /\ req \in [Requests -> Requested] /\ unaffected \subseteq Requests

\* How far the process and the holder of the mutex can be from each other.
Phases ==
    /\ proc = "down" => phase = "idle" /\ current = NoSnapshot
    /\ proc = "booting" => /\ phase \in {"idle", "building", "publishing"}
                           /\ current = NoSnapshot
    /\ proc = "up" => Shaped(current)
    /\ phase = "idle" => base = NoSnapshot
    /\ phase \in Drafting /\ proc # "stopping" => base = current
    /\ phase \in Drafting /\ proc = "stopping" =>
           /\ current = NoSnapshot
           /\ \A a \in Retirables(base) : a \in closing \/ a.id \in retired
    /\ phase # "retiring" => retiring = {}
    /\ proc # "stopping" => closing = {}
    /\ unaffected # {} => proc = "up"

Held(s) == {s.adapter[p] : p \in Providers}

\* Every adapter anybody refers to.
Known == (Held(current) \cup Held(base) \cup Held(draft) \cup retiring \cup closing
             \cup {req[q].adapter : q \in Requests}) \ {None}

\* Adapters are known by their number, and the local ones are those of pools.
Numbers ==
    /\ \A a \in Known : a.id <= lastAdapter /\ (a.conn \in LocalConns <=> a.id \in pools)
    /\ \A a, b \in Known : a.id = b.id /\ a.id \in pools => a = b

\* What is served, or is about to be, is neither retired nor going to be.
Lives ==
    proc # "stopping" =>
        \A a \in Retirables(current) \cup Retirables(draft) :
            a.id \notin retired /\ a \notin retiring

Fits(s) ==
    \A p \in Providers : s.adapter[p] # None =>
        LET a == s.adapter[p]
            conn == s.config.conn[p]
            key == IF conn \in ApiConns THEN s.secrets.keys[p] ELSE None
        IN  /\ conn # None /\ a.conn = conn /\ a.key = key
            /\ a.id = 0 <=> conn \in ApiConns /\ key = None

Complete(s) == \A p \in Providers : s.config.conn[p] # None => s.adapter[p] # None

ShowsItsKeys(s) == \A p \in Providers : s.shown[p] \in {None, s.secrets.keys[p]}

\* The draft reuses what it may, and it drops no key its base has.
Adapters ==
    /\ \A s \in {current, base} : Shaped(s) => Fits(s) /\ Complete(s) /\ ShowsItsKeys(s)
    /\ phase \in Drafting => Fits(draft) /\ ShowsItsKeys(draft)
    /\ phase \in {"building", "savingPublic"} => draft.shown = draft.secrets.keys
    /\ phase \in Drafting \ {"building"} => Complete(draft)
    /\ phase \in Drafting /\ Shaped(base) =>
           \A p \in Providers :
               LET conn == draft.config.conn[p]
               IN  /\ conn # None /\ draft.secrets.keys[p] = None => base.secrets.keys[p] = None
                   /\ draft.adapter[p] # None /\ conn \in LocalConns /\ base.config.conn[p] = conn
                          => draft.adapter[p] = base.adapter[p]

\* An unaffected request's provider still has the settings it was bound with,
\* and, if it is a local one, still has that adapter.
Bindings ==
    \A q \in unaffected :
        LET p == req[q].provider
            a == req[q].adapter
        IN  /\ p \in Providers /\ a \in Adapter
            /\ current.config.conn[p] = a.conn
            /\ a.conn \in LocalConns => current.adapter[p] = a
            /\ a.id # 0 => req[q].at # "refused"

Files ==
    proc \in {"booting", "up"} =>
        /\ phase \in {"building", "savingPublic", "retiring", "idle"} /\ proc = "up"
               => secretFile = current.secrets /\ (publicFile = current.config \/ halfSaved)
        /\ phase = "savingSecret" => /\ secretFile = current.secrets
                                     /\ publicFile = draft.config /\ halfSaved
        /\ phase = "publishing" \/ (phase = "building" /\ proc = "booting")
               => secretFile = draft.secrets /\ publicFile = draft.config

IInv == Shapes /\ Phases /\ Numbers /\ Lives /\ Adapters /\ Bindings /\ Files /\ NoAdapterLeaks

-----------------------------------------------------------------------------
LEMMA NoSnapshotIsEmpty ==
    ~Shaped(NoSnapshot) /\ Retirables(NoSnapshot) = {} /\ Held(NoSnapshot) \subseteq {None}
  BY ManagerAssumption DEF Shaped, NoSnapshot, Retirables, Held

LEMMA KnownAreAdapters == ASSUME Shapes PROVE Known \subseteq Adapter
  <1>1. \A s : Shaped(s) => Held(s) \subseteq Adapter \cup {None}
    BY DEF Shaped, Held
  <1>2. \A q \in Requests : req[q].adapter \in Adapter \cup {None}
    BY DEF Shapes, Requested
  <1> QED BY <1>1, <1>2, NoSnapshotIsEmpty DEF Known, Shapes

LEMMA RetirablesAreHeld ==
    \A s : Retirables(s) = {a \in Held(s) : a # None /\ a.conn \in LocalConns}
  BY DEF Retirables, Held

LEMMA KnownKept ==
    ASSUME Numbers, Known' \subseteq Known, pools' = pools, lastAdapter' = lastAdapter
    PROVE  Numbers'
  BY DEF Numbers

-----------------------------------------------------------------------------
LEMMA InitHolds == Init => IInv
  <1> SUFFICES ASSUME Init PROVE IInv
    OBVIOUS
  <1> USE ManagerAssumption, NoSnapshotIsEmpty DEF Init, Drafting
  <1>1. Shapes
    BY DEF Shapes, Keys, NoSecrets, NoRequest, Requested
  <1>2. Phases
    BY DEF Phases
  <1>3. Known = {}
    BY DEF Known, NoRequest
  <1>4. Numbers /\ Lives /\ Bindings /\ Files /\ NoAdapterLeaks
    BY <1>3 DEF Numbers, Lives, Bindings, Files, NoAdapterLeaks
  <1>5. Adapters
    BY DEF Adapters
  <1> QED BY <1>1, <1>2, <1>4, <1>5 DEF IInv

LEMMA BootstrapHolds == ASSUME IInv, Bootstrap PROVE IInv'
  <1> USE NoSnapshotIsEmpty DEF IInv, Bootstrap, Drafting, updateVars, adapterVars, requestVars
  <1>1. Shapes'
    BY DEF Shapes, Shaped
  <1>2. Phases'
    BY DEF Phases, Retirables, Shaped
  <1>3. Known' = Known
    BY DEF Known, Held
  <1>4. Numbers'
    BY <1>3, KnownKept
  <1>5. Lives' /\ Bindings' /\ NoAdapterLeaks'
    BY DEF Lives, Bindings, NoAdapterLeaks, Retirables, Phases
  <1>6. Adapters'
    BY DEF Adapters, Fits, Complete, ShowsItsKeys, Shaped, Phases
  <1>7. Files'
    BY DEF Files, Phases
  <1> QED BY <1>1, <1>2, <1>4, <1>5, <1>6, <1>7

LEMMA LoadHolds == ASSUME IInv, Load PROVE IInv'
  <1> USE ManagerAssumption, NoSnapshotIsEmpty
      DEF IInv, Load, Drafting, adapterVars, requestVars
  <1>1. Shaped(draft')
    BY DEF Shapes, Shaped, Unbuilt, Keys
  <1>2. Shapes'
    BY <1>1 DEF Shapes, Shaped
  <1>3. Held(draft') \subseteq {None} /\ Retirables(draft') = {}
    BY DEF Unbuilt, Held, Retirables
  <1>4. current = NoSnapshot /\ base' = NoSnapshot /\ draft = NoSnapshot /\ current' = current
    BY DEF Phases, Shapes
  <1>5. Phases'
    BY <1>4 DEF Phases, Shaped
  <1>6. Known' \subseteq Known
    BY <1>3, <1>4 DEF Known, Held
  <1>7. Numbers'
    BY <1>6, KnownKept
  <1>8. Lives' /\ Bindings' /\ NoAdapterLeaks'
    BY <1>3, <1>4 DEF Lives, Bindings, NoAdapterLeaks, Retirables, Phases
  <1>9. Adapters'
    <2>1. Fits(draft') /\ ShowsItsKeys(draft') /\ draft'.shown = draft'.secrets.keys
      BY DEF Unbuilt, Fits, ShowsItsKeys
    <2>2. \A s \in {current', base'} : ~Shaped(s)
      BY <1>4
    <2>3. phase' = "building" /\ ~Shaped(base')
      BY <1>4
    <2> HIDE DEF IInv, Load
    <2> QED BY <2>1, <2>2, <2>3 DEF Adapters
  <1>10. Files'
    BY DEF Files, Phases, Unbuilt
  <1> QED BY <1>2, <1>5, <1>7, <1>8, <1>9, <1>10

LEMMA SubmitHolds == ASSUME IInv, NEW e \in Edits, Submit(e) PROVE IInv'
  <1> USE ManagerAssumption, NoSnapshotIsEmpty DEF IInv, Drafting, adapterVars, requestVars
  <1>1. PICK secrets :
            /\ \E order : secrets = UpdatedSecrets(e, current.secrets, order)
            /\ draft' = Unbuilt([clients |-> e.clients, conn |-> e.conn], secrets)
    BY DEF Submit
  <1>2. /\ phase = "idle" /\ phase' = "building" /\ proc = "up" /\ current # NoSnapshot
        /\ base' = current /\ retiring = {} /\ draft = NoSnapshot /\ Shaped(current)
        /\ UNCHANGED <<proc, current, publicFile, secretFile, halfSaved, retiring, closing,
                       retired, lastAdapter, pools, req, unaffected>>
    BY DEF Submit, Phases, Shapes
  <1>3. e.clients \in SUBSET Clients /\ e.conn \in [Providers -> Conns \cup {None}]
        /\ e.keys \in Keys
    BY DEF Edit, Keys
  <1>4. \A p \in Providers : secrets.keys[p] =
            IF e.conn[p] = None THEN None
            ELSE IF e.keys[p] # None THEN e.keys[p] ELSE current.secrets.keys[p]
    BY <1>1 DEF UpdatedSecrets
  <1>5. secrets.keys \in Keys
    BY <1>1, <1>2, <1>3 DEF UpdatedSecrets, Shaped, Keys
  <1>6. Shaped(draft')
    <2>1. PICK tokens, keys : secrets = [tokens |-> tokens, keys |-> keys]
      BY <1>1 DEF UpdatedSecrets
    <2> QED BY <1>1, <1>3, <1>5, <2>1 DEF Shaped, Unbuilt, Config
  <1>7. Shapes'
    BY <1>2, <1>6 DEF Shapes, Shaped
  <1>8. Phases'
    BY <1>2 DEF Phases, Shaped
  <1>9. Held(draft') \subseteq {None} /\ Retirables(draft') = {}
    BY <1>1 DEF Unbuilt, Held, Retirables
  <1>10. Known' \subseteq Known
    BY <1>2, <1>9 DEF Known, Held
  <1>11. Numbers'
    BY <1>2, <1>10, KnownKept
  <1>12. Lives' /\ Bindings' /\ NoAdapterLeaks'
    BY <1>2, <1>9 DEF Lives, Bindings, NoAdapterLeaks, Retirables
  <1>13. Adapters'
    <2>1. Shaped(base') /\ Shaped(current') => /\ Fits(base)' /\ Complete(base)' /\ ShowsItsKeys(base)'
                              /\ Fits(current)' /\ Complete(current)' /\ ShowsItsKeys(current)'
      BY <1>2 DEF Adapters, Fits, Complete, ShowsItsKeys
    <2>2. Fits(draft)' /\ ShowsItsKeys(draft)' /\ draft'.shown = draft'.secrets.keys
      BY <1>1 DEF Unbuilt, Fits, ShowsItsKeys
    <2>3. \A p \in Providers : /\ draft'.config.conn[p] # None /\ draft'.secrets.keys[p] = None
                                      => base'.secrets.keys[p] = None
                               /\ draft'.adapter[p] = None
      BY <1>1, <1>2, <1>4 DEF Unbuilt
    <2> QED BY <1>2, <2>1, <2>2, <2>3 DEF Adapters
  <1>14. Files'
    BY <1>2 DEF Files
  <1> QED BY <1>7, <1>8, <1>11, <1>12, <1>13, <1>14

\* The adapter the draft gets for p: the base's, a new one, or the unavailable one.
BuiltAdapter(p, a) ==
    LET conn == draft.config.conn[p]
        key == IF conn \in ApiConns THEN draft.shown[p] ELSE None
    IN  IF Reusable(p) THEN a = base.adapter[p]
        ELSE a = [id |-> IF conn \in LocalConns \/ key # None THEN lastAdapter + 1 ELSE 0,
                  conn |-> conn, key |-> key]

LEMMA BuiltAdapterFits ==
    ASSUME IInv, NEW p \in Providers, BuildProvider(p)
    PROVE  \E a \in Adapter :
        /\ BuiltAdapter(p, a)
        /\ draft' = [draft EXCEPT !.adapter[p] = a]
        /\ LET conn == draft.config.conn[p]
               key == IF conn \in ApiConns THEN draft.secrets.keys[p] ELSE None
           IN  /\ a.conn = conn /\ a.key = key
               /\ a.id = 0 <=> conn \in ApiConns /\ key = None
  <1> USE ManagerAssumption, NoSnapshotIsEmpty DEF IInv
  <1>1. /\ phase = "building" /\ draft.config.conn[p] # None /\ Shaped(draft)
        /\ draft.shown = draft.secrets.keys /\ draft.config.conn[p] \in Conns
    BY DEF BuildProvider, Shapes, Adapters, Drafting, Shaped, Config
  <1>2. CASE Reusable(p)
    <2>1. /\ Shaped(base) /\ base.config.conn[p] = draft.config.conn[p]
          /\ draft.config.conn[p] \in ApiConns => base.shown[p] = draft.shown[p]
      BY <1>2 DEF Reusable, Shapes
    <2>2. Fits(base) /\ Complete(base) /\ ShowsItsKeys(base)
      BY <2>1 DEF Adapters
    <2>3. PICK a \in Adapter : a = base.adapter[p]
      BY <1>1, <2>1, <2>2 DEF Complete, Shaped
    <2>4. draft.config.conn[p] \in ApiConns => base.secrets.keys[p] = draft.secrets.keys[p]
      BY <1>1, <2>1, <2>2 DEF ShowsItsKeys, Adapters, Drafting
    <2>5. draft' = [draft EXCEPT !.adapter[p] = a] /\ BuiltAdapter(p, a)
      BY <1>2, <2>3 DEF BuildProvider, BuiltAdapter
    <2> QED BY <1>1, <2>1, <2>2, <2>3, <2>4, <2>5 DEF Fits
  <1>3. CASE ~Reusable(p)
    <2> DEFINE conn == draft.config.conn[p]
               key == IF conn \in ApiConns THEN draft.shown[p] ELSE None
               id == IF conn \in LocalConns \/ key # None THEN lastAdapter + 1 ELSE 0
    <2>1. key \in ApiKeys \cup {None}
      BY <1>1 DEF Shaped, Keys
    <2>2. id \in Nat /\ (id = 0 <=> ~(conn \in LocalConns \/ key # None))
      BY DEF Shapes
    <2>3. PICK a \in Adapter : a = [id |-> id, conn |-> conn, key |-> key]
      BY <1>1, <2>1, <2>2 DEF Adapter
    <2>4. draft' = [draft EXCEPT !.adapter[p] = a] /\ BuiltAdapter(p, a)
      BY <1>3, <2>3 DEF BuildProvider, BuiltAdapter
    <2>5. a.conn = conn /\ a.key = key /\ a.id = id
      BY <2>3
    <2> HIDE DEF id
    <2> QED BY <1>1, <2>2, <2>3, <2>4, <2>5 DEF Conns
  <1> QED BY <1>2, <1>3

LEMMA BuildProviderHolds == ASSUME IInv, NEW p \in Providers, BuildProvider(p) PROVE IInv'
  <1> USE ManagerAssumption, NoSnapshotIsEmpty DEF IInv, Drafting, requestVars, diskVars
  <1>1. PICK a \in Adapter :
            /\ BuiltAdapter(p, a)
            /\ draft' = [draft EXCEPT !.adapter[p] = a]
            /\ LET conn == draft.config.conn[p]
                   key == IF conn \in ApiConns THEN draft.secrets.keys[p] ELSE None
               IN  /\ a.conn = conn /\ a.key = key
                   /\ a.id = 0 <=> conn \in ApiConns /\ key = None
    BY BuiltAdapterFits
  <1>2. /\ phase = "building" /\ Shaped(draft) /\ draft.adapter[p] = None
        /\ draft.config.conn[p] # None
        /\ UNCHANGED <<proc, current, publicFile, secretFile, halfSaved, phase, base,
                       retiring, closing, retired, req, unaffected>>
    BY DEF BuildProvider, Shapes
  <1>3. /\ draft'.config = draft.config /\ draft'.secrets = draft.secrets
        /\ draft'.shown = draft.shown
        /\ draft'.adapter = [draft.adapter EXCEPT ![p] = a]
        /\ Shaped(draft')
    BY <1>1, <1>2 DEF Shaped
  <1>4. draft'.adapter[p] = a /\ \A x \in Providers \ {p} : draft'.adapter[x] = draft.adapter[x]
    BY <1>2, <1>3 DEF Shaped
  <1>5. Held(draft') \subseteq Held(draft) \cup {a}
    BY <1>4 DEF Held
  <1>6. Known' \subseteq Known \cup {a}
    BY <1>2, <1>5 DEF Known, Held
  <1>7. PICK n \in Nat : n = lastAdapter
    BY DEF Shapes
  <1>8. \/ a \in Known /\ lastAdapter' = n /\ pools' = pools /\ a = base.adapter[p] /\ Reusable(p)
        \/ /\ a.id = 0 /\ a.conn \notin LocalConns /\ lastAdapter' = n /\ pools' = pools
        \/ /\ a.id = n + 1 /\ lastAdapter' = n + 1
           /\ pools' = IF a.conn \in LocalConns THEN pools \cup {n + 1} ELSE pools
    <2>1. CASE Reusable(p)
      <3>1. a = base.adapter[p] /\ a # None
        BY <1>1, <2>1 DEF BuiltAdapter
      <3>2. lastAdapter' = n /\ pools' = pools
        BY <1>7, <2>1 DEF BuildProvider
      <3> QED BY <2>1, <3>1, <3>2 DEF Known, Held
    <2>2. CASE ~Reusable(p)
      <3> DEFINE conn == draft.config.conn[p]
                 key == IF conn \in ApiConns THEN draft.shown[p] ELSE None
      <3>1. a.conn = conn /\ a.id = IF conn \in LocalConns \/ key # None THEN n + 1 ELSE 0
        BY <1>7, <2>2, <1>1 DEF BuiltAdapter
      <3>2. /\ lastAdapter' = n + (IF conn \in LocalConns \/ key # None THEN 1 ELSE 0)
            /\ pools' = pools \cup (IF conn \in LocalConns THEN {n + 1} ELSE {})
        BY <1>7, <2>2 DEF BuildProvider
      <3> HIDE DEF conn, key
      <3> QED BY <3>1, <3>2
    <2> QED BY <2>1, <2>2
  <1>9. pools \subseteq 1..n /\ retired \subseteq pools /\ n + 1 \notin pools /\ 0 \notin pools
    BY <1>7 DEF Shapes
  <1>10. \A b \in Known : b \in Adapter /\ b.id \in Nat /\ b.id <= n
    BY <1>7, KnownAreAdapters DEF Numbers, Adapter
  <1>11. Shapes'
    <2>1. \/ lastAdapter' = n /\ pools' = pools
          \/ lastAdapter' = n + 1 /\ pools \subseteq pools' /\ pools' \subseteq pools \cup {n + 1}
      BY <1>8
    <2>2. pools' \subseteq 1..lastAdapter' /\ lastAdapter' \in Nat
      <3>1. n + 1 \in 1..(n + 1) /\ 1..n \subseteq 1..(n + 1) /\ n + 1 \in Nat
        BY <1>7
      <3> QED BY <1>7, <1>9, <2>1, <3>1
    <2>3. retired' \subseteq pools'
      BY <1>2, <1>9, <2>1
    <2> QED BY <1>2, <1>3, <2>2, <2>3 DEF Shapes, Shaped
  <1>12. Numbers'
    <2>1. CASE a \in Known /\ lastAdapter' = n /\ pools' = pools
      BY <1>6, <1>7, <2>1, KnownKept
    <2>2. CASE a.id = 0 /\ a.conn \notin LocalConns /\ lastAdapter' = n /\ pools' = pools
      BY <1>6, <1>7, <1>9, <1>10, <2>2 DEF Numbers
    <2>3. CASE /\ a.id = n + 1 /\ lastAdapter' = n + 1
               /\ pools' = IF a.conn \in LocalConns THEN pools \cup {n + 1} ELSE pools
      <3>1. \A b \in Known : b.id # n + 1 /\ b.id <= n + 1 /\ (b.id \in pools' <=> b.id \in pools)
        BY <1>10, <2>3
      <3>2. a.id <= lastAdapter' /\ (a.conn \in LocalConns <=> a.id \in pools')
        BY <1>9, <2>3
      <3> QED BY <1>6, <1>7, <2>3, <3>1, <3>2 DEF Numbers
    <2> QED BY <1>8, <2>1, <2>2, <2>3
  <1>13. Phases'
    BY <1>2 DEF Phases, Shaped, Retirables
  <1>14. Retirables(draft') \subseteq Retirables(draft) \cup {a}
         /\ Retirables(draft) \subseteq Retirables(draft')
         /\ (a.conn \in LocalConns => a \in Retirables(draft'))
    <2>1. Held(draft) \subseteq Held(draft') \cup {None} /\ a \in Held(draft')
      BY <1>2, <1>4 DEF Held
    <2> QED BY <1>5, <2>1, RetirablesAreHeld
  <1>15. Retirables(current') = Retirables(current) /\ Retirables(base') = Retirables(base)
    BY <1>2
  <1>16. Lives'
    <2>1. ASSUME proc # "stopping", a.conn \in LocalConns PROVE a.id \notin retired /\ a \notin retiring
      <3>1. retiring = {} /\ base = current
        BY <1>2, <2>1 DEF Phases
      <3>2. CASE a = base.adapter[p]
        <4>1. a \in Retirables(current)
          BY <2>1, <3>1, <3>2 DEF Retirables
        <4> QED BY <2>1, <4>1 DEF Lives
      <3>3. CASE a.id = n + 1
        BY <1>9, <3>1, <3>3
      <3> QED BY <1>8, <2>1, <3>2, <3>3
    <2>2. \A b \in Retirables(draft') : b \in Retirables(draft) \/ (b = a /\ a.conn \in LocalConns)
      BY <1>14, RetirablesAreHeld
    <2> QED BY <1>2, <1>15, <2>1, <2>2 DEF Lives
  <1>17. Bindings'
    BY <1>2 DEF Bindings
  <1>18. NoAdapterLeaks'
    <2>1. \A id \in pools' \ retired' : id \in pools \ retired \/ (id = a.id /\ a.conn \in LocalConns)
      BY <1>2, <1>8
    <2> QED BY <1>2, <1>14, <1>15, <2>1 DEF NoAdapterLeaks
  <1>19. Adapters'
    <2>1. /\ \A s \in {current', base'} : Shaped(s) => Fits(s) /\ Complete(s) /\ ShowsItsKeys(s)
      BY <1>2 DEF Adapters
    <2>2. Fits(draft')
      BY <1>1, <1>2, <1>3, <1>4 DEF Fits, Adapters
    <2>3. ShowsItsKeys(draft') /\ draft'.shown = draft'.secrets.keys
      BY <1>2, <1>3 DEF ShowsItsKeys, Adapters
    <2>4. ASSUME Shaped(base), NEW x \in Providers
          PROVE  /\ draft'.config.conn[x] # None /\ draft'.secrets.keys[x] = None
                        => base.secrets.keys[x] = None
                 /\ draft'.adapter[x] # None /\ draft'.config.conn[x] \in LocalConns
                    /\ base.config.conn[x] = draft'.config.conn[x]
                        => draft'.adapter[x] = base.adapter[x]
      <3>1. CASE x = p
        <4>1. ASSUME draft.config.conn[p] \in LocalConns, base.config.conn[p] = draft.config.conn[p]
              PROVE  Reusable(p)
          BY <2>4, <4>1 DEF Reusable
        <4>2. Reusable(p) => a = base.adapter[p]
          BY <1>1 DEF BuiltAdapter
        <4> QED BY <1>2, <1>3, <1>4, <2>4, <3>1, <4>1, <4>2 DEF Adapters
      <3>2. CASE x # p
        BY <1>2, <1>3, <1>4, <2>4, <3>2 DEF Adapters
      <3> QED BY <3>1, <3>2
    <2> QED BY <1>2, <2>1, <2>2, <2>3, <2>4 DEF Adapters
  <1>20. Files'
    BY <1>2, <1>3 DEF Files
  <1> QED BY <1>11, <1>12, <1>13, <1>16, <1>17, <1>18, <1>19, <1>20

-----------------------------------------------------------------------------
LEMMA FinishBuildHolds == ASSUME IInv, FinishBuild PROVE IInv'
  <1> USE DEF IInv, FinishBuild, Drafting, adapterVars, requestVars, diskVars
  <1>1. phase = "building" /\ Shaped(draft)
    BY DEF Shapes
  <1>2. Shapes'
    BY <1>1 DEF Shapes, Shaped
  <1>3. Phases'
    BY DEF Phases, Shaped, Retirables
  <1>4. Known' = Known
    BY DEF Known, Held
  <1>5. Numbers'
    BY <1>4, KnownKept
  <1>6. Lives' /\ Bindings' /\ NoAdapterLeaks'
    BY DEF Lives, Bindings, NoAdapterLeaks, Retirables
  <1>7. Complete(draft)
    BY DEF Built, Complete
  <1>8. Adapters'
    BY <1>7 DEF Adapters, Fits, Complete, ShowsItsKeys, Shaped
  <1>9. Files'
    BY DEF Files, Phases
  <1> QED BY <1>2, <1>3, <1>5, <1>6, <1>8, <1>9

LEMMA DropDraftHolds ==
    ASSUME IInv, BuildFails \/ SavePublicFails \/ SaveSecretFails
    PROVE  IInv'
  <1> USE NoSnapshotIsEmpty DEF IInv, Drafting, adapterVars, requestVars, diskVars
  <1>1. /\ phase \in Drafting \ {"publishing"} /\ proc # "booting" /\ proc # "down"
        /\ phase' = "retiring" /\ draft' = NoSnapshot
        /\ retiring = {} /\ retiring' = Retirables(draft) \ Retirables(base)
        /\ UNCHANGED <<proc, current, publicFile, secretFile, halfSaved, base, closing,
                       retired, lastAdapter, pools, req, unaffected>>
    BY DEF BuildFails, SavePublicFails, SaveSecretFails, DropDraft, ToRetire, Phases
  <1>2. Shaped(draft)
    BY <1>1 DEF Shapes
  <1>3. retiring' \subseteq {a \in Adapter : a.conn \in LocalConns}
    BY <1>1, <1>2, RetirablesAreHeld DEF Shaped, Held
  <1>4. Shapes'
    BY <1>1, <1>3 DEF Shapes, Shaped
  <1>5. Phases'
    BY <1>1 DEF Phases, Shaped
  <1>6. Held(draft') \subseteq {None} /\ Retirables(draft') = {}
    BY <1>1
  <1>7. Known' \subseteq Known
    <2>1. retiring' \subseteq Held(draft)
      BY <1>1, RetirablesAreHeld
    <2> QED BY <1>1, <1>6, <2>1 DEF Known, Held
  <1>8. Numbers'
    BY <1>1, <1>7, KnownKept
  <1>9. Lives'
    <2>1. proc # "stopping" => base = current
      BY <1>1 DEF Phases
    <2>2. Retirables(current') = Retirables(current)
      BY <1>1
    <2> QED BY <1>1, <1>6, <2>1, <2>2 DEF Lives
  <1>10. Bindings'
    BY <1>1 DEF Bindings
  <1>11. NoAdapterLeaks'
    <2>1. \A a \in Retirables(draft) : \/ a \in retiring' \/ a \in Retirables(current)
                                       \/ a \in closing \/ a.id \in retired
      <3>1. proc # "stopping" => base = current
        BY <1>1 DEF Phases
      <3>2. proc = "stopping" => \A a \in Retirables(base) : a \in closing \/ a.id \in retired
        BY <1>1 DEF Phases
      <3> QED BY <1>1, <3>1, <3>2
    <2>2. Retirables(current') = Retirables(current)
      BY <1>1
    <2> QED BY <1>1, <2>1, <2>2 DEF NoAdapterLeaks
  <1>12. Adapters'
    BY <1>1 DEF Adapters, Fits, Complete, ShowsItsKeys, Shaped
  <1>13. Files'
    BY <1>1 DEF Files
  <1> QED BY <1>4, <1>5, <1>8, <1>9, <1>10, <1>11, <1>12, <1>13

LEMMA SaveHolds == ASSUME IInv, SavePublic \/ SaveSecret PROVE IInv'
  <1> USE NoSnapshotIsEmpty DEF IInv, Drafting, adapterVars, requestVars
  <1>1. /\ phase \in {"savingPublic", "savingSecret"} /\ phase' \in {"savingSecret", "publishing"}
        /\ proc # "booting" /\ proc # "down"
        /\ UNCHANGED <<proc, current, base, retiring, closing, retired, lastAdapter, pools,
                       req, unaffected>>
    BY DEF SavePublic, SaveSecret, Phases
  <1>2. Shaped(draft)
    BY <1>1 DEF Shapes
  <1>3. /\ draft'.config = draft.config /\ draft'.secrets = draft.secrets
        /\ draft'.adapter = draft.adapter
        /\ draft'.shown = draft.shown \/ draft'.shown = [p \in Providers |-> None]
        /\ Shaped(draft')
    BY <1>2 DEF SavePublic, SaveSecret, Shaped, Keys
  <1>4. publicFile' \in Config /\ secretFile'.keys \in Keys
        /\ secretFile' = [tokens |-> secretFile'.tokens, keys |-> secretFile'.keys]
    <2>1. CASE SavePublic
      BY <1>2, <2>1 DEF SavePublic, Shaped, Shapes
    <2>2. CASE SaveSecret
      <3>1. publicFile' = publicFile /\ secretFile' = draft.secrets
        BY <2>2 DEF SaveSecret
      <3> QED BY <1>2, <3>1 DEF Shaped, Shapes
    <2> QED BY <2>1, <2>2
  <1>5. Shapes'
    BY <1>1, <1>3, <1>4 DEF Shapes, Shaped
  <1>6. Phases'
    BY <1>1 DEF Phases, Shaped, Retirables
  <1>7. Held(draft') = Held(draft) /\ Retirables(draft') = Retirables(draft)
    BY <1>3 DEF Held, Retirables
  <1>8. Known' = Known
    BY <1>1, <1>7 DEF Known, Held
  <1>9. Numbers'
    BY <1>1, <1>8, KnownKept
  <1>10. Retirables(current') = Retirables(current)
    BY <1>1
  <1>11. Lives' /\ Bindings' /\ NoAdapterLeaks'
    BY <1>1, <1>7, <1>10 DEF Lives, Bindings, NoAdapterLeaks
  <1>12. Adapters'
    <2>1. Fits(draft') /\ Complete(draft')
      BY <1>1, <1>3 DEF Fits, Complete, Adapters
    <2>2. ShowsItsKeys(draft')
      BY <1>1, <1>3 DEF ShowsItsKeys, Adapters
    <2>3. \A s \in {current', base'} : Shaped(s) => Fits(s) /\ Complete(s) /\ ShowsItsKeys(s)
      BY <1>1 DEF Adapters
    <2> QED BY <1>1, <1>3, <2>1, <2>2, <2>3 DEF Adapters
  <1>13. Files'
    BY <1>1, <1>3 DEF Files, SavePublic, SaveSecret
  <1> QED BY <1>5, <1>6, <1>9, <1>11, <1>12, <1>13

LEMMA PublishHolds == ASSUME IInv, Publish PROVE IInv'
  <1> USE NoSnapshotIsEmpty DEF IInv, Drafting, adapterVars, requestVars, diskVars
  <1>1. /\ phase = "publishing" /\ phase' = "retiring" /\ draft' = NoSnapshot
        /\ current' = draft /\ retiring = {}
        /\ retiring' = Retirables(current) \ Retirables(draft)
        /\ unaffected' = unaffected \ Touched
        /\ proc' = (IF proc = "booting" THEN "up" ELSE proc)
        /\ UNCHANGED <<publicFile, secretFile, halfSaved, base, closing,
                       retired, lastAdapter, pools, req>>
    BY DEF Publish, ToRetire, Phases
  <1>2. Shaped(draft) /\ (Shaped(current) \/ current = NoSnapshot) /\ proc # "down"
    BY <1>1 DEF Shapes, Phases
  <1>3. retiring' \subseteq {a \in Adapter : a.conn \in LocalConns}
    BY <1>1, <1>2, RetirablesAreHeld DEF Shaped, Held
  <1>4. Shapes'
    BY <1>1, <1>2, <1>3 DEF Shapes, Shaped
  <1>5. Phases'
    BY <1>1, <1>2 DEF Phases, Shapes
  <1>6. Known' \subseteq Known
    <2>1. retiring' \subseteq Held(current) /\ Held(draft') \subseteq {None}
      BY <1>1, RetirablesAreHeld
    <2> QED BY <1>1, <2>1 DEF Known, Held
  <1>7. Numbers'
    BY <1>1, <1>6, KnownKept
  <1>8. Retirables(draft') = {} /\ Retirables(current') = Retirables(draft)
    BY <1>1
  <1>9. Lives'
    BY <1>1, <1>8 DEF Lives
  <1>10. Bindings'
    <2> SUFFICES ASSUME NEW q \in unaffected' PROVE
            LET p == req[q].provider
                a == req[q].adapter
            IN  /\ p \in Providers /\ a \in Adapter
                /\ draft.config.conn[p] = a.conn
                /\ a.conn \in LocalConns => draft.adapter[p] = a
                /\ a.id # 0 => req[q].at # "refused"
      BY <1>1 DEF Bindings
    <2>1. q \in unaffected /\ q \notin Touched /\ q \in Requests
      BY <1>1 DEF Shapes
    <2> DEFINE p == req[q].provider
               a == req[q].adapter
    <2>2. /\ p \in Providers /\ a \in Adapter /\ current.config.conn[p] = a.conn
          /\ a.conn \in LocalConns => current.adapter[p] = a
          /\ a.id # 0 => req[q].at # "refused"
      BY <2>1 DEF Bindings
    <2>3. draft.config.conn[p] = a.conn
      BY <2>1, <2>2, ManagerAssumption DEF Touched
    <2>4. base = current /\ Shaped(base)
      BY <1>1, <2>1 DEF Phases
    <2>5. ASSUME a.conn \in LocalConns PROVE draft.adapter[p] = a
      <3>1. a.conn # None
        BY <2>5, ManagerAssumption DEF Conns
      <3>2. draft.adapter[p] # None
        BY <1>1, <2>2, <2>3, <3>1 DEF Adapters, Complete
      <3> QED BY <1>1, <2>2, <2>3, <2>4, <2>5, <3>2 DEF Adapters
    <2> QED BY <2>2, <2>3, <2>5
  <1>11. NoAdapterLeaks'
    BY <1>1, <1>8 DEF NoAdapterLeaks
  <1>12. Adapters'
    <2>1. Fits(draft) /\ Complete(draft) /\ ShowsItsKeys(draft)
      BY <1>1 DEF Adapters
    <2>2. Shaped(base) => Fits(base) /\ Complete(base) /\ ShowsItsKeys(base)
      BY DEF Adapters
    <2>3. \A s \in {current', base'} : Shaped(s) => Fits(s) /\ Complete(s) /\ ShowsItsKeys(s)
      BY <1>1, <2>1, <2>2
    <2> QED BY <1>1, <2>3 DEF Adapters
  <1>13. Files'
    BY <1>1 DEF Files
  <1> QED BY <1>4, <1>5, <1>7, <1>9, <1>10, <1>11, <1>12, <1>13

-----------------------------------------------------------------------------
LEMMA RetireOneHolds == ASSUME IInv, NEW a \in retiring, RetireOne(a) PROVE IInv'
  <1> USE DEF IInv, Drafting, requestVars, diskVars
  <1>1. /\ phase = "retiring" /\ draft = NoSnapshot /\ retiring' = retiring \ {a}
        /\ retired' = retired \cup {a.id}
        /\ UNCHANGED <<proc, current, publicFile, secretFile, halfSaved, phase, base, draft,
                       closing, lastAdapter, pools, req, unaffected>>
    BY DEF RetireOne, Shapes
  <1>2. a \in Known /\ a # None /\ a.id \in pools
    BY ManagerAssumption DEF Known, Shapes, Numbers
  <1>3. Shapes'
    BY <1>1, <1>2 DEF Shapes, Shaped
  <1>4. Phases'
    BY <1>1 DEF Phases, Shaped
  <1>5. Known' \subseteq Known
    BY <1>1 DEF Known, Held
  <1>6. Numbers'
    BY <1>1, <1>5, KnownKept
  <1>7. /\ Retirables(current') = Retirables(current) /\ Retirables(current) \subseteq Known
        /\ Retirables(draft') = {} /\ Retirables(draft) = {}
    BY <1>1, RetirablesAreHeld, NoSnapshotIsEmpty DEF Known
  <1>8. Lives'
    <2>1. ASSUME NEW b \in Retirables(current), b \notin retiring PROVE b.id # a.id
      BY <1>2, <1>7, <2>1 DEF Numbers
    <2> QED BY <1>1, <1>7, <2>1 DEF Lives
  <1>9. Bindings'
    BY <1>1 DEF Bindings
  <1>10. NoAdapterLeaks'
    BY <1>1, <1>7 DEF NoAdapterLeaks
  <1>11. Adapters'
    BY <1>1 DEF Adapters, Fits, Complete, ShowsItsKeys, Shaped
  <1>12. Files'
    BY <1>1 DEF Files
  <1> QED BY <1>3, <1>4, <1>6, <1>8, <1>9, <1>10, <1>11, <1>12

LEMMA ReturnHolds == ASSUME IInv, Return PROVE IInv'
  <1> USE NoSnapshotIsEmpty DEF IInv, Drafting, adapterVars, requestVars, diskVars
  <1>1. /\ phase = "retiring" /\ phase' = "idle" /\ base' = NoSnapshot
        /\ draft = NoSnapshot
        /\ UNCHANGED <<proc, current, publicFile, secretFile, halfSaved, draft, retiring,
                       closing, retired, lastAdapter, pools, req, unaffected>>
    BY DEF Return, Shapes
  <1>2. Shapes'
    BY <1>1 DEF Shapes, Shaped
  <1>3. Phases'
    BY <1>1 DEF Phases, Shaped, Return
  <1>4. Known' \subseteq Known
    BY <1>1 DEF Known, Held
  <1>5. Numbers'
    BY <1>1, <1>4, KnownKept
  <1>6. Lives' /\ Bindings' /\ NoAdapterLeaks'
    BY <1>1 DEF Lives, Bindings, NoAdapterLeaks, Retirables
  <1>7. Adapters'
    <2>1. \A s \in {current', base'} : Shaped(s) => Fits(s) /\ Complete(s) /\ ShowsItsKeys(s)
      BY <1>1 DEF Adapters
    <2> QED BY <1>1, <2>1 DEF Adapters
  <1>8. Files'
    BY <1>1 DEF Files
  <1> QED BY <1>2, <1>3, <1>5, <1>6, <1>7, <1>8

-----------------------------------------------------------------------------
\* Steps of requests: only req and unaffected change, and a request refers to
\* no adapter that nobody refers to.
LEMMA RequestStepHolds ==
    ASSUME IInv, req' \in [Requests -> Requested], unaffected' \subseteq Requests,
           UNCHANGED <<proc, current, publicFile, secretFile, halfSaved, phase, base, draft,
                       retiring, closing, retired, lastAdapter, pools>>,
           \A q \in Requests : req'[q].adapter \in Known \cup {None},
           unaffected' # {} => proc = "up",
           Bindings'
    PROVE  IInv'
  <1> USE DEF IInv, Drafting
  <1>1. Shapes'
    BY DEF Shapes, Shaped
  <1>2. Phases'
    BY DEF Phases, Shaped, Retirables
  <1>3. Known' \subseteq Known
    BY DEF Known, Held
  <1>4. Numbers'
    BY <1>3, KnownKept
  <1>5. Lives' /\ NoAdapterLeaks'
    BY DEF Lives, NoAdapterLeaks, Retirables
  <1>6. Adapters'
    BY DEF Adapters, Fits, Complete, ShowsItsKeys, Shaped
  <1>7. Files'
    BY DEF Files
  <1> QED BY <1>1, <1>2, <1>4, <1>5, <1>6, <1>7

\* What the invariants say of a request that is unaffected.
LEMMA UnaffectedAdapterLives ==
    ASSUME IInv, NEW q \in unaffected, req[q].adapter.id # 0
    PROVE  req[q].adapter.id \notin retired /\ req[q].at # "refused"
  <1> USE DEF IInv
  <1>1. proc = "up" /\ q \in Requests
    BY DEF Phases, Shapes
  <1> DEFINE p == req[q].provider
             a == req[q].adapter
  <1>2. /\ p \in Providers /\ a \in Adapter /\ a # None /\ current.config.conn[p] = a.conn
        /\ a.conn \in LocalConns => current.adapter[p] = a
        /\ req[q].at # "refused"
    BY ManagerAssumption DEF Bindings
  <1>3. CASE a.conn \in LocalConns
    <2>1. a \in Retirables(current)
      BY <1>2, <1>3 DEF Retirables
    <2> QED BY <1>1, <1>2, <2>1 DEF Lives
  <1>4. CASE a.conn \notin LocalConns
    <2>1. a \in Known
      BY <1>1, <1>2 DEF Known
    <2> QED BY <1>2, <1>4, <2>1 DEF Numbers, Shapes
  <1> QED BY <1>2, <1>3, <1>4

LEMMA RequestHolds ==
    ASSUME IInv, NEW q \in Requests,
           \/ Authenticate(q) \/ ReadNothing(q) \/ StartAdapter(q) \/ EndRequest(q)
           \/ \E p \in Providers : ReadService(q, p)
    PROVE  IInv'
  <1> USE DEF diskVars, updateVars, adapterVars
  <1>1. UNCHANGED <<proc, current, publicFile, secretFile, halfSaved, phase, base, draft,
                    retiring, closing, retired, lastAdapter, pools>>
    BY DEF Authenticate, ReadNothing, StartAdapter, EndRequest, ReadService
  <1>2. req \in [Requests -> Requested] /\ unaffected \subseteq Requests
    BY DEF IInv, Shapes
  <1>3. \A r \in Requests : req[r].adapter \in Known \cup {None}
    BY DEF Known
  <1>4. unaffected # {} => proc = "up"
    BY DEF IInv, Phases
  <1>5. CASE Authenticate(q) \/ ReadNothing(q)
    <2>1. PICK place \in {"authenticated", "aborted"} :
              req' = [req EXCEPT ![q].at = place] /\ unaffected' = unaffected
      BY <1>5 DEF Authenticate, ReadNothing
    <2>2. /\ req'[q].at = place /\ req'[q].provider = req[q].provider
          /\ req'[q].adapter = req[q].adapter
          /\ \A r \in Requests \ {q} : req'[r] = req[r]
          /\ req' \in [Requests -> Requested]
      BY <1>2, <2>1 DEF Requested
    <2>3. Bindings'
      BY <1>1, <1>2, <2>1, <2>2 DEF IInv, Bindings
    <2> QED BY <1>1, <1>2, <1>3, <1>4, <2>1, <2>2, <2>3, RequestStepHolds
  <1>6. CASE StartAdapter(q)
    <2>1. PICK place \in {"running", "refused"} :
              /\ place = "refused" => req[q].adapter.id \in retired \cup {0}
              /\ req' = [req EXCEPT ![q].at = place] /\ unaffected' = unaffected
      BY <1>6 DEF StartAdapter
    <2>2. /\ req'[q].at = place /\ req'[q].provider = req[q].provider
          /\ req'[q].adapter = req[q].adapter
          /\ \A r \in Requests \ {q} : req'[r] = req[r]
          /\ req' \in [Requests -> Requested]
      BY <1>2, <2>1 DEF Requested
    <2>3. q \in unaffected /\ req[q].adapter.id # 0 => place # "refused"
      BY <2>1, UnaffectedAdapterLives
    <2>4. Bindings'
      BY <1>1, <1>2, <2>1, <2>2, <2>3 DEF IInv, Bindings
    <2> QED BY <1>1, <1>2, <1>3, <1>4, <2>1, <2>2, <2>4, RequestStepHolds
  <1>7. CASE EndRequest(q)
    <2>1. req' = [req EXCEPT ![q] = NoRequest] /\ unaffected' = unaffected \ {q}
      BY <1>7 DEF EndRequest
    <2>2. /\ req'[q] = NoRequest /\ \A r \in Requests \ {q} : req'[r] = req[r]
          /\ req' \in [Requests -> Requested]
      BY <1>2, <2>1 DEF Requested, NoRequest
    <2>3. Bindings'
      BY <1>1, <1>2, <2>1, <2>2 DEF IInv, Bindings
    <2>4. \A r \in Requests : req'[r].adapter \in Known \cup {None}
      BY <1>3, <2>2 DEF NoRequest
    <2> QED BY <1>1, <1>2, <1>4, <2>1, <2>2, <2>3, <2>4, RequestStepHolds
  <1>8. ASSUME NEW p \in Providers, ReadService(q, p) PROVE IInv'
    <2> DEFINE a == current.adapter[p]
    <2>1. /\ current # NoSnapshot /\ a # None
          /\ req' = [req EXCEPT ![q] = [at |-> "bound", provider |-> p, adapter |-> a]]
          /\ unaffected' = IF proc = "up" THEN unaffected \cup {q} ELSE unaffected
      BY <1>8 DEF ReadService
    <2>2. Shaped(current) /\ a \in Adapter /\ a \in Known
      <3>1. Shaped(current)
        BY <2>1 DEF IInv, Shapes
      <3> QED BY <2>1, <3>1 DEF Shaped, Known, Held
    <2>3. /\ req'[q] = [at |-> "bound", provider |-> p, adapter |-> a]
          /\ \A r \in Requests \ {q} : req'[r] = req[r]
          /\ req' \in [Requests -> Requested]
      BY <1>2, <2>1, <2>2 DEF Requested
    <2>4. current.config.conn[p] = a.conn
      BY <2>1, <2>2 DEF IInv, Adapters, Fits
    <2>5. Bindings'
      <3>1. /\ req'[q].at = "bound" /\ req'[q].provider = p /\ req'[q].adapter = a
        BY <2>3
      <3>2. unaffected' \subseteq unaffected \cup {q}
        BY <2>1
      <3> HIDE DEF a
      <3> SUFFICES ASSUME NEW r \in unaffected' PROVE
              LET x == req'[r].provider
                  b == req'[r].adapter
              IN  /\ x \in Providers /\ b \in Adapter
                  /\ current.config.conn[x] = b.conn
                  /\ b.conn \in LocalConns => current.adapter[x] = b
                  /\ b.id # 0 => req'[r].at # "refused"
        BY <1>1 DEF Bindings
      <3>3. CASE r = q
        BY <2>2, <2>4, <3>1, <3>3 DEF a
      <3>4. CASE r # q
        BY <1>2, <2>3, <3>2, <3>4 DEF IInv, Bindings
      <3> QED BY <3>3, <3>4
    <2>6. \A r \in Requests : req'[r].adapter \in Known \cup {None}
      BY <1>3, <2>2, <2>3
    <2>7. unaffected' \subseteq Requests /\ (unaffected' # {} => proc = "up")
      BY <1>2, <1>4, <2>1
    <2> QED BY <1>1, <2>3, <2>5, <2>6, <2>7, RequestStepHolds
  <1> QED BY <1>5, <1>6, <1>7, <1>8

-----------------------------------------------------------------------------
LEMMA CloseHolds == ASSUME IInv, Close PROVE IInv'
  <1> USE NoSnapshotIsEmpty DEF IInv, Drafting, updateVars, diskVars
  <1>1. /\ proc = "up" /\ proc' = "stopping" /\ Shaped(current) /\ closing = {}
        /\ closing' = Retirables(current) /\ current' = NoSnapshot /\ unaffected' = {}
        /\ UNCHANGED <<publicFile, secretFile, halfSaved, phase, base, draft, retiring,
                       retired, lastAdapter, pools, req>>
    BY DEF Close, Phases
  <1>2. closing' \subseteq {a \in Adapter : a.conn \in LocalConns}
    BY <1>1, RetirablesAreHeld DEF Shaped, Held
  <1>3. Shapes'
    BY <1>1, <1>2 DEF Shapes, Shaped
  <1>4. Retirables(base') = Retirables(base) /\ Retirables(draft') = Retirables(draft)
    BY <1>1
  <1>5. Phases'
    BY <1>1, <1>4 DEF Phases
  <1>6. Known' \subseteq Known
    <2>1. closing' \subseteq Held(current) /\ Held(current') \subseteq {None}
      BY <1>1, RetirablesAreHeld
    <2> QED BY <1>1, <2>1 DEF Known, Held
  <1>7. Numbers'
    BY <1>1, <1>6, KnownKept
  <1>8. Lives' /\ Bindings' /\ Files'
    BY <1>1 DEF Lives, Bindings, Files
  <1>9. NoAdapterLeaks'
    BY <1>1, <1>4 DEF NoAdapterLeaks
  <1>10. Adapters'
    <2>1. \A s \in {current', base'} : Shaped(s) => Fits(s) /\ Complete(s) /\ ShowsItsKeys(s)
      BY <1>1 DEF Adapters
    <2>2. UNCHANGED <<phase, base, draft>>
      BY <1>1
    <2> QED BY <2>1, <2>2 DEF Adapters
  <1> QED BY <1>3, <1>5, <1>7, <1>8, <1>9, <1>10

LEMMA CloseOneHolds == ASSUME IInv, NEW a \in closing, CloseOne(a) PROVE IInv'
  <1> USE DEF IInv, Drafting, updateVars, requestVars, diskVars
  <1>1. /\ proc = "stopping" /\ closing' = closing \ {a} /\ retired' = retired \cup {a.id}
        /\ UNCHANGED <<proc, current, publicFile, secretFile, halfSaved, phase, base, draft,
                       retiring, lastAdapter, pools, req, unaffected>>
    BY DEF CloseOne
  <1>2. a \in Known /\ a # None /\ a.id \in pools
    BY ManagerAssumption DEF Known, Shapes, Numbers
  <1>3. Shapes'
    BY <1>1, <1>2 DEF Shapes, Shaped
  <1>4. /\ Retirables(base') = Retirables(base) /\ Retirables(draft') = Retirables(draft)
        /\ Retirables(current') = Retirables(current)
    BY <1>1
  <1>5. Phases'
    BY <1>1, <1>4 DEF Phases
  <1>6. Known' \subseteq Known
    BY <1>1 DEF Known, Held
  <1>7. Numbers'
    BY <1>1, <1>6, KnownKept
  <1>8. Lives' /\ Bindings' /\ Files'
    BY <1>1 DEF Lives, Bindings, Files, Phases
  <1>9. NoAdapterLeaks'
    BY <1>1, <1>4 DEF NoAdapterLeaks
  <1>10. Adapters'
    BY <1>1 DEF Adapters, Fits, Complete, ShowsItsKeys, Shaped
  <1> QED BY <1>3, <1>5, <1>7, <1>8, <1>9, <1>10

LEMMA GoneHolds == ASSUME IInv, Gone PROVE IInv'
  <1> USE ManagerAssumption, NoSnapshotIsEmpty DEF IInv, Gone, Drafting, diskVars
  <1>1. Shapes'
    BY DEF Shapes, Requested, NoRequest
  <1>2. Phases'
    BY DEF Phases
  <1>3. Known' = {}
    BY DEF Known, NoRequest, Held
  <1>4. Numbers' /\ Lives' /\ Bindings' /\ Files' /\ NoAdapterLeaks'
    BY <1>3 DEF Numbers, Lives, Bindings, Files, NoAdapterLeaks
  <1>5. Adapters'
    BY DEF Adapters
  <1> QED BY <1>1, <1>2, <1>4, <1>5

LEMMA StutterHolds == ASSUME IInv, UNCHANGED vars PROVE IInv'
  <1> USE DEF vars, diskVars, updateVars, adapterVars, requestVars, bounds
  <1>1. Shapes' /\ Phases'
    BY DEF IInv, Shapes, Shaped, Phases, Retirables
  <1>2. Known' = Known
    BY DEF Known, Held
  <1>3. Numbers'
    BY <1>2, KnownKept DEF IInv
  <1>4. Lives' /\ Bindings' /\ Files' /\ NoAdapterLeaks'
    BY DEF IInv, Lives, Bindings, Files, NoAdapterLeaks, Retirables
  <1>5. Adapters'
    BY DEF IInv, Adapters, Fits, Complete, ShowsItsKeys, Shaped
  <1> QED BY <1>1, <1>3, <1>4, <1>5 DEF IInv

LEMMA StepHolds == IInv /\ [Next]_vars => IInv'
  <1> SUFFICES ASSUME IInv, [Next]_vars PROVE IInv'
    OBVIOUS
  <1>1. ASSUME NEW q \in Requests,
               \/ Authenticate(q) \/ ReadNothing(q) \/ StartAdapter(q) \/ EndRequest(q)
               \/ \E p \in Providers : ReadService(q, p)
        PROVE  IInv'
    BY <1>1, RequestHolds
  <1>2. CASE \E e \in Edits : Submit(e)
    BY <1>2, SubmitHolds
  <1>3. CASE \E p \in Providers : BuildProvider(p)
    BY <1>3, BuildProviderHolds
  <1>4. CASE \E a \in retiring : RetireOne(a)
    BY <1>4, RetireOneHolds
  <1>5. CASE \E a \in closing : CloseOne(a)
    BY <1>5, CloseOneHolds
  <1>6. CASE Exit \/ Crash
    BY <1>6, GoneHolds DEF Exit, Crash
  <1>7. CASE \/ Bootstrap \/ Load \/ FinishBuild \/ BuildFails
             \/ SavePublic \/ SavePublicFails \/ SaveSecret \/ SaveSecretFails
             \/ Publish \/ Return \/ Close
    BY <1>7, BootstrapHolds, LoadHolds, FinishBuildHolds, DropDraftHolds, SaveHolds,
       PublishHolds, ReturnHolds, CloseHolds
  <1>8. CASE UNCHANGED vars
    BY <1>8, StutterHolds
  <1> QED BY <1>1, <1>2, <1>3, <1>4, <1>5, <1>6, <1>7, <1>8 DEF Next

LEMMA SpecHolds == Spec => []IInv
  BY InitHolds, StepHolds, PTL DEF Spec

-----------------------------------------------------------------------------
\* No request whose provider kept its settings meets a retired adapter, whatever
\* updates were saved, published, failed or given up since it read the service.
THEOREM UnaffectedRequestsAreServed == Spec => []UnaffectedRequestIsServed
  <1>1. IInv => UnaffectedRequestIsServed
    BY UnaffectedAdapterLives DEF UnaffectedRequestIsServed
  <1> QED BY <1>1, SpecHolds, PTL

\* No failed build or save, no update and no shutdown forgets a worker pool it
\* has made: somebody holds it who uses it or will retire it.
THEOREM NoAdapterIsForgotten == Spec => []NoAdapterLeaks
  <1>1. IInv => NoAdapterLeaks
    BY DEF IInv
  <1> QED BY <1>1, SpecHolds, PTL

\* However often adapters are reused across updates, those that serve have the
\* settings and the keys of the configuration that is shown and saved.
THEOREM AdaptersAlwaysFit == Spec => []AdaptersFitConfig
  <1>1. ASSUME IInv PROVE AdaptersFitConfig
    <2> SUFFICES ASSUME current # NoSnapshot, NEW p \in Providers
                 PROVE  LET a == current.adapter[p]
                            conn == current.config.conn[p]
                            key == IF conn \in ApiConns THEN current.secrets.keys[p] ELSE None
                        IN  /\ conn = None <=> a = None
                            /\ conn # None => a.conn = conn /\ a.key = key
                            /\ conn # None => (a.id = 0 <=> conn \in ApiConns /\ key = None)
      BY DEF AdaptersFitConfig
    <2>1. Fits(current) /\ Complete(current)
      BY <1>1 DEF IInv, Shapes, Adapters
    <2> QED BY <2>1 DEF Fits, Complete
  <1> QED BY <1>1, SpecHolds, PTL

\* Whenever no update is under way the files hold what is served, unless a
\* public file is ahead of a secret one that could not be written.
THEOREM FilesMatchWhatIsServed == Spec => []SavedIsServed
  <1>1. IInv => SavedIsServed
    BY DEF IInv, Files, SavedIsServed
  <1> QED BY <1>1, SpecHolds, PTL

-----------------------------------------------------------------------------
(***************************************************************************)
(* Tokens.                                                                 *)
(***************************************************************************)

\* A permutation of a finite set meets every element.
LEMMA OrderMeetsAll ==
    ASSUME NEW S, IsFiniteSet(S), NEW order \in SetToSeqs(S)
    PROVE  /\ DOMAIN order = 1..Cardinality(S) /\ Cardinality(S) \in Nat
           /\ order \in [1..Cardinality(S) -> S]
           /\ \A x \in S : \E i \in DOMAIN order : order[i] = x
  <1> DEFINE D == 1..Cardinality(S)
  <1>1. Cardinality(S) \in Nat /\ Cardinality(S) \in Int /\ 1 \in Int
    BY FS_CardinalityType
  <1>2. IsFiniteSet(D) /\ Cardinality(D) = Cardinality(S)
    BY <1>1, FS_Interval
  <1>3. order \in [D -> S] /\ \A i, j \in D : i # j => order[i] # order[j]
    BY DEF SetToSeqs
  <1>4. order \in Injection(D, S)
    BY <1>3 DEF Injection, IsInjective
  <1>5. order \in Surjection(D, S)
    BY <1>2, <1>4, FS_Injection
  <1>6. \A x \in S : \E i \in D : order[i] = x
    BY <1>5 DEF Surjection
  <1> QED BY <1>1, <1>3, <1>6

\* What the renames do, whatever their order: no token is overwritten, and a
\* name without a token takes that of the old name.
LEMMA RenamedTokens ==
    ASSUME NEW R \in SUBSET Clients, IsFiniteSet(R), NEW renames \in [R -> Clients],
           NEW order \in SetToSeqs(R), NEW tokens \in [Clients -> Nat]
    PROVE  /\ Renamed(tokens, renames, order) \in [Clients -> Nat]
           /\ \A c \in Clients : tokens[c] # 0
                  => Renamed(tokens, renames, order)[c] = tokens[c]
           /\ \A new \in R : tokens[new] = 0 /\ tokens[renames[new]] # 0
                  => Renamed(tokens, renames, order)[new] = tokens[renames[new]]
  <1> DEFINE V == [Clients -> Nat]
             D == DOMAIN order
             Take(t, new) == IF t[new] = 0 THEN [t EXCEPT ![new] = t[renames[new]]] ELSE t
             step == [u \in V \X D |-> Take(u[1], order[u[2]])]
             IsFoldOf(g) == g = [s \in SUBSET D |->
                 IF s = {} THEN tokens
                 ELSE LET x == Max(s) IN Take(g[s \ {x}], order[x])]
  <1>1. /\ D \in SUBSET Nat /\ IsFiniteSet(D)
        /\ \A i \in D : order[i] \in R /\ order[i] \in Clients
    <2>1. D = 1..Cardinality(R) /\ Cardinality(R) \in Int /\ 1 \in Int
      BY OrderMeetsAll
    <2> QED BY <2>1, FS_Interval, OrderMeetsAll
  <1>2. \A t \in V, new \in R : Take(t, new) \in V
    OBVIOUS
  <1>3. step \in [V \X D -> V]
    BY <1>1, <1>2
  <1>4. PICK g \in [SUBSET D -> V] : IsFold(g, step, tokens, D)
    BY <1>1, <1>3, FoldExists
  <1>5. \A s \in SUBSET D : s # {} => Max(s) \in s
    BY <1>1, FS_Subset, GreatestNatural
  <1>6. IsFoldOf(g)
    <2>1. ASSUME NEW s \in SUBSET D, s # {}
          PROVE  LET x == Max(s) IN step[<<g[s \ {x}], x>>] = Take(g[s \ {x}], order[x])
      <3>1. Max(s) \in D /\ g[s \ {Max(s)}] \in V
        BY <1>5, <2>1
      <3> HIDE DEF V, D, Take
      <3> QED BY <3>1
    <2> HIDE DEF Take, step
    <2> QED BY <1>4, <2>1 DEF IsFold
  <1> DEFINE iter == CHOOSE h : IsFoldOf(h)
  <1>7. IsFoldOf(iter)
    BY <1>6
  <1>8. Renamed(tokens, renames, order) = iter[D]
    BY DEF Renamed, FoldLeft, MapThenFoldSet
  <1> DEFINE Met(s) == {order[i] : i \in s}
             Good(s, t) ==
                 /\ t \in V
                 /\ \A c \in Clients : tokens[c] # 0 => t[c] = tokens[c]
                 /\ \A new \in R : tokens[new] = 0 /\ tokens[renames[new]] # 0 =>
                        t[new] = IF new \in Met(s) THEN tokens[renames[new]] ELSE 0
             T == {s \in SUBSET D : Good(s, iter[s])}
  <1>9. ASSUME NEW s \in SUBSET D, \A x \in s : s \ {x} \in T
        PROVE  s \in T
    <2>1. CASE s = {}
      BY <1>7, <2>1
    <2>2. CASE s # {}
      <3> DEFINE x == Max(s)
                 t == iter[s \ {x}]
      <3>1. x \in s /\ x \in D
        BY <1>5, <2>2
      <3>2. iter[s] = Take(t, order[x])
        BY <1>7, <2>2
      <3>3. Good(s \ {x}, t)
        BY <1>9, <3>1
      <3>4. Met(s) = Met(s \ {x}) \cup {order[x]}
        BY <3>1
      <3>5. order[x] \in R /\ order[x] \in Clients
        BY <1>1, <3>1
      <3> HIDE DEF iter, x, t, Met, D
      <3>6. Good(s, Take(t, order[x]))
        BY <3>3, <3>4, <3>5
      <3> QED BY <3>2, <3>6
    <2> QED BY <2>1, <2>2
  <1>10. \A s \in SUBSET D : (\A x \in s : s \ {x} \in T) => s \in T
    BY <1>9
  <1> HIDE DEF T, D
  <1>11. \A s \in SUBSET D : s \in T
    BY <1>1, <1>10, SubsetInduction
  <1>12. Good(D, iter[D])
    BY <1>11 DEF T
  <1>13. Met(D) = R
    BY <1>1, OrderMeetsAll DEF D
  <1> HIDE DEF iter, Met
  <1> QED BY <1>8, <1>12, <1>13

\* There are enough new tokens, all of them greater than those minted before.
LEMMA Minted ==
    ASSUME NEW S, IsFiniteSet(S), lastToken \in Nat
    PROVE  /\ Mint(S) \in [S -> Nat \ {0}]
           /\ Cardinality(S) \in Nat
  <1> DEFINE n == Cardinality(S)
             M == lastToken + 1 .. lastToken + n
  <1>1. n \in Nat /\ n \in Int /\ lastToken + 1 \in Int /\ lastToken + n \in Int
    BY FS_CardinalityType
  <1>2. IsFiniteSet(M) /\ Cardinality(M) = n
    BY <1>1, FS_Interval
  <1>3. PICK f : f \in Bijection(S, M)
    BY <1>2, FS_SameCardinalityBij DEF ExistsBijection
  <1>4. f \in [S -> M] /\ \A c, d \in S : f[c] = f[d] => c = d
    BY <1>3 DEF Bijection, Injection, IsInjective
  <1>5. Mint(S) \in [S -> M]
    BY <1>4 DEF Mint
  <1>6. M \subseteq Nat \ {0}
    BY <1>1
  <1> QED BY <1>1, <1>5, <1>6

-----------------------------------------------------------------------------
\* What UpdatedSecrets makes of the tokens a device has now and is given.
KeepsTokens(e, old, new) ==
    /\ \A c \in e.clients \ e.regenerate : old[c] # 0 => new[c] = old[c]
    /\ \A c \in DOMAIN e.renames :
           /\ c \in e.clients \ e.regenerate
           /\ old[c] = 0 /\ old[e.renames[c]] # 0
           => new[c] = old[e.renames[c]]

\* The holder of the mutex has an update whose secrets are not saved yet.
Updating == phase \in {"building", "savingPublic", "savingSecret"} /\ proc # "booting"

TokenInv ==
    /\ lastToken \in Nat /\ edit \in Edits \cup {None} /\ halfSaved \in BOOLEAN
    /\ updates \in 0..MaxUpdates /\ faults \in 0..MaxFaults /\ stops \in 0..MaxStops
    /\ secretFile.tokens \in [Clients -> Nat] /\ IsFiniteSet(publicFile.clients)
    /\ \A s \in {current, base, draft} : Shaped(s) => s.secrets.tokens \in [Clients -> Nat]
    /\ phase \in Drafting => IsFiniteSet(draft.config.clients)
    /\ Updating => /\ edit \in Edits
                   /\ KeepsTokens(edit, secretFile.tokens, draft.secrets.tokens)

LEMMA EditParts ==
    ASSUME NEW e \in Edits
    PROVE  /\ e.clients \in SUBSET Clients /\ e.regenerate \in SUBSET Clients
           /\ DOMAIN e.renames \in SUBSET Clients
           /\ e.renames \in [DOMAIN e.renames -> Clients]
           /\ IsFiniteSet(e.clients) /\ IsFiniteSet(e.regenerate)
           /\ IsFiniteSet(DOMAIN e.renames)
  <1>1. e \in Edit /\ IsFiniteSet(e.clients \cup e.regenerate \cup DOMAIN e.renames)
    BY ManagerAssumption
  <1>2. IsFiniteSet(e.clients) /\ IsFiniteSet(e.regenerate) /\ IsFiniteSet(DOMAIN e.renames)
    BY <1>1, FS_Subset
  <1>3. PICK S \in SUBSET Clients : e.renames \in [S -> Clients]
    BY <1>1 DEF Edit
  <1> QED BY <1>1, <1>2, <1>3 DEF Edit

LEMMA InitTokens == Init => TokenInv
  <1> SUFFICES ASSUME Init PROVE TokenInv
    OBVIOUS
  <1>1. secretFile.tokens \in [Clients -> Nat]
    BY DEF Init, NoSecrets
  <1>2. \A s \in {current, base, draft} : ~Shaped(s)
    BY NoSnapshotIsEmpty DEF Init
  <1>3. 0 \in 0..MaxUpdates /\ 0 \in 0..MaxFaults /\ 0 \in 0..MaxStops
    BY ManagerAssumption
  <1> QED BY <1>1, <1>2, <1>3, ManagerAssumption DEF Init, TokenInv, Updating, Drafting

LEMMA BootstrapTokens == ASSUME IInv, TokenInv, Bootstrap PROVE TokenInv'
  <1> DEFINE missing == {c \in publicFile.clients : secretFile.tokens[c] = 0}
             minted == Mint(missing)
             tokens == [c \in Clients |->
                           IF c \in missing THEN minted[c] ELSE secretFile.tokens[c]]
  <1>1. publicFile.clients \subseteq Clients /\ IsFiniteSet(missing)
    BY FS_Subset DEF IInv, Shapes, Config, TokenInv
  <1>2. minted \in [missing -> Nat \ {0}] /\ Cardinality(missing) \in Nat
    BY <1>1, Minted DEF TokenInv
  <1>3. /\ secretFile' = [secretFile EXCEPT !.tokens = tokens]
        /\ lastToken' = lastToken + Cardinality(missing)
    BY DEF Bootstrap
  <1> HIDE DEF missing, minted
  <1>4. tokens \in [Clients -> Nat]
    BY <1>2 DEF TokenInv
  <1>5. secretFile'.tokens = tokens
    BY <1>3 DEF IInv, Shapes
  <1>6. lastToken' \in Nat
    BY <1>2, <1>3 DEF TokenInv
  <1>7. /\ proc' = "booting"
        /\ UNCHANGED <<current, publicFile, halfSaved, phase, edit, base, draft,
                       updates, faults, stops>>
    BY DEF Bootstrap, updateVars, bounds
  <1> HIDE DEF tokens
  <1> QED BY <1>4, <1>5, <1>6, <1>7 DEF TokenInv, Updating, Shaped

LEMMA SubmitTokens == ASSUME IInv, TokenInv, NEW e \in Edits, Submit(e) PROVE TokenInv'
  <1>1. /\ proc = "up" /\ phase = "idle" /\ current # NoSnapshot /\ updates < MaxUpdates
        /\ edit' = e /\ base' = current /\ phase' = "building"
        /\ lastToken' = lastToken + Cardinality(e.regenerate) /\ updates' = updates + 1
        /\ UNCHANGED <<proc, current, publicFile, secretFile, halfSaved, faults, stops>>
    BY DEF Submit
  <1>2. PICK order \in SetToSeqs(DOMAIN e.renames) :
            draft' = Unbuilt([clients |-> e.clients, conn |-> e.conn],
                             UpdatedSecrets(e, current.secrets, order))
    BY DEF Submit
  <1>3. current.secrets.tokens = secretFile.tokens
    BY <1>1 DEF IInv, Files
  <1> DEFINE old == secretFile.tokens
             moved == Renamed(old, e.renames, order)
             minted == Mint(e.regenerate)
             new == draft'.secrets.tokens
  <1>4. /\ minted \in [e.regenerate -> Nat \ {0}] /\ Cardinality(e.regenerate) \in Nat
    BY EditParts, Minted DEF TokenInv
  <1>5. /\ moved \in [Clients -> Nat]
        /\ \A c \in Clients : old[c] # 0 => moved[c] = old[c]
        /\ \A c \in DOMAIN e.renames : old[c] = 0 /\ old[e.renames[c]] # 0
               => moved[c] = old[e.renames[c]]
    <2>1. old \in [Clients -> Nat]
      BY DEF TokenInv
    <2> HIDE DEF old
    <2> QED BY <2>1, EditParts, RenamedTokens
  <1>6. new = [c \in Clients |-> IF c \notin e.clients THEN 0
                                 ELSE IF c \in e.regenerate THEN minted[c] ELSE moved[c]]
    BY <1>2, <1>3 DEF Unbuilt, UpdatedSecrets
  <1>7. draft'.config.clients = e.clients
    BY <1>2 DEF Unbuilt
  <1> HIDE DEF minted, moved, new
  <1>8. new \in [Clients -> Nat] /\ KeepsTokens(e, old, new)
    BY <1>4, <1>5, <1>6, EditParts DEF KeepsTokens
  <1>9. lastToken' \in Nat /\ updates' \in 0..MaxUpdates
    <2>1. lastToken \in Nat /\ updates \in 0..MaxUpdates /\ MaxUpdates \in Nat
      BY ManagerAssumption DEF TokenInv
    <2> QED BY <1>1, <1>4, <2>1
  <1>10. IsFiniteSet(draft'.config.clients)
    BY <1>7, EditParts
  <1> HIDE DEF old
  <1>11. draft'.secrets.tokens \in [Clients -> Nat]
         /\ KeepsTokens(edit', secretFile'.tokens, draft'.secrets.tokens)
    BY <1>1, <1>8 DEF new, old
  <1>12. \A s \in {current', base', draft'} :
             Shaped(s) => s.secrets.tokens \in [Clients -> Nat]
    BY <1>1, <1>11 DEF TokenInv
  <1> QED BY <1>1, <1>9, <1>10, <1>11, <1>12 DEF TokenInv, Updating

\* Steps that mint no token: the files and the snapshots take their tokens and
\* clients from one another.
LEMMA QuietTokens ==
    ASSUME IInv, TokenInv,
           lastToken' = lastToken, edit' \in {edit, None}, halfSaved' \in BOOLEAN,
           updates' = updates, faults' \in {faults, faults + 1}, faults' \in 0..MaxFaults,
           stops' \in {stops, stops + 1}, stops' \in 0..MaxStops,
           current' \in {current, draft, NoSnapshot}, base' \in {base, NoSnapshot},
           secretFile' = secretFile \/ (secretFile' = draft.secrets /\ phase \in Drafting),
           publicFile' = publicFile \/ (publicFile' = draft.config /\ phase \in Drafting),
           \/ draft' = NoSnapshot /\ phase' \notin Drafting
           \/ /\ phase \in Drafting /\ draft'.secrets = draft.secrets
              /\ draft'.config = draft.config
           \/ draft'.secrets = secretFile /\ draft'.config = publicFile,
           Updating' => /\ Updating /\ edit' = edit /\ secretFile' = secretFile
                        /\ draft'.secrets = draft.secrets
    PROVE  TokenInv'
  <1>1. /\ \A s \in {current, base, draft} : Shaped(s) => s.secrets.tokens \in [Clients -> Nat]
        /\ ~Shaped(NoSnapshot)
        /\ phase \in Drafting => Shaped(draft) /\ IsFiniteSet(draft.config.clients)
    BY NoSnapshotIsEmpty DEF TokenInv, IInv, Shapes
  <1>2. secretFile'.tokens \in [Clients -> Nat] /\ IsFiniteSet(publicFile'.clients)
    BY <1>1 DEF TokenInv
  <1>3. \A s \in {current', base', draft'} : Shaped(s) => s.secrets.tokens \in [Clients -> Nat]
    BY <1>1 DEF TokenInv
  <1>4. phase' \in Drafting => IsFiniteSet(draft'.config.clients)
    BY <1>1 DEF TokenInv
  <1>5. Updating' => KeepsTokens(edit', secretFile'.tokens, draft'.secrets.tokens) /\ edit' \in Edits
    BY DEF TokenInv
  <1> QED BY <1>2, <1>3, <1>4, <1>5 DEF TokenInv

LEMMA OtherTokens ==
    ASSUME IInv, TokenInv,
           \/ Load \/ FinishBuild \/ BuildFails \/ SavePublicFails \/ SaveSecretFails
           \/ SavePublic \/ SaveSecret \/ Publish \/ Return \/ Close \/ Exit \/ Crash
           \/ \E p \in Providers : BuildProvider(p)
           \/ \E a \in retiring : RetireOne(a)
           \/ \E a \in closing : CloseOne(a)
           \/ \E q \in Requests :
                 \/ Authenticate(q) \/ ReadNothing(q) \/ StartAdapter(q) \/ EndRequest(q)
                 \/ \E p \in Providers : ReadService(q, p)
           \/ UNCHANGED vars
    PROVE  TokenInv'
  <1> USE DEF diskVars, updateVars, adapterVars, requestVars, bounds, Drafting
  <1>1. /\ faults \in 0..MaxFaults /\ stops \in 0..MaxStops /\ halfSaved \in BOOLEAN
        /\ faults < MaxFaults => faults + 1 \in 0..MaxFaults
        /\ stops < MaxStops => stops + 1 \in 0..MaxStops
    BY ManagerAssumption DEF TokenInv
  <1>2. IF phase \in Drafting THEN Shaped(draft) ELSE draft = NoSnapshot
    BY DEF IInv, Shapes
  <1>3. CASE Load
    <2>1. draft'.secrets = secretFile /\ draft'.config = publicFile
      BY <1>3 DEF Load, Unbuilt
    <2>2. ~Updating'
      BY <1>3 DEF Load, Updating
    <2> QED BY <1>1, <1>3, <2>1, <2>2, QuietTokens DEF Load
  <1>4. CASE FinishBuild
    BY <1>1, <1>4, QuietTokens DEF FinishBuild, Updating
  <1>5. CASE BuildFails \/ SavePublicFails \/ SaveSecretFails
    BY <1>1, <1>5, QuietTokens
    DEF BuildFails, SavePublicFails, SaveSecretFails, DropDraft, Updating
  <1>6. CASE SavePublic
    <2>1. draft'.secrets = draft.secrets /\ draft'.config = draft.config
      BY <1>2, <1>6 DEF SavePublic, Shaped
    <2>2. Updating' => Updating
      BY <1>6 DEF SavePublic, Updating
    <2> QED BY <1>1, <1>6, <2>1, <2>2, QuietTokens DEF SavePublic
  <1>7. CASE SaveSecret
    <2>1. ~Updating'
      BY <1>7 DEF SaveSecret, Updating
    <2> QED BY <1>1, <1>7, <2>1, QuietTokens DEF SaveSecret
  <1>8. CASE Publish \/ Return
    <2>1. ~Updating' /\ draft' = NoSnapshot
      BY <1>2, <1>8 DEF Publish, Return, Updating
    <2> QED BY <1>1, <1>8, <2>1, QuietTokens DEF Publish, Return
  <1>9. CASE Close
    <2>1. Updating' => Updating
      BY <1>9 DEF Close, Updating
    <2> QED BY <1>1, <1>2, <1>9, <2>1, QuietTokens DEF Close
  <1>10. CASE Exit \/ Crash
    <2>1. ~Updating'
      BY <1>10 DEF Exit, Crash, Gone, Updating
    <2> QED BY <1>1, <1>10, <2>1, QuietTokens DEF Exit, Crash, Gone
  <1>11. ASSUME NEW p \in Providers, BuildProvider(p) PROVE TokenInv'
    <2>1. phase = "building" /\ phase' = phase /\ Shaped(draft)
      BY <1>2, <1>11 DEF BuildProvider
    <2>2. draft'.secrets = draft.secrets /\ draft'.config = draft.config
      BY <1>11, <2>1 DEF BuildProvider, Shaped
    <2>3. /\ Updating' => Updating
          /\ UNCHANGED <<proc, current, publicFile, secretFile, lastToken, halfSaved,
                         phase, edit, base, updates, faults, stops>>
      BY <1>11 DEF BuildProvider, Updating
    <2> QED BY <1>1, <2>1, <2>2, <2>3, QuietTokens
  <1>12. CASE \/ \E a \in retiring : RetireOne(a)
              \/ \E a \in closing : CloseOne(a)
              \/ \E q \in Requests :
                    \/ Authenticate(q) \/ ReadNothing(q) \/ StartAdapter(q) \/ EndRequest(q)
                    \/ \E p \in Providers : ReadService(q, p)
              \/ UNCHANGED vars
    <2>1. UNCHANGED <<proc, current, publicFile, secretFile, lastToken, halfSaved,
                      phase, edit, base, draft, updates, faults, stops>>
      BY <1>12 DEF RetireOne, CloseOne, Authenticate, ReadNothing, StartAdapter,
                   EndRequest, ReadService, vars
    <2>2. Updating' => Updating
      BY <2>1 DEF Updating
    <2> QED BY <1>1, <1>2, <2>1, <2>2, QuietTokens
  <1> QED BY <1>3, <1>4, <1>5, <1>6, <1>7, <1>8, <1>9, <1>10, <1>11, <1>12

LEMMA StepTokens == IInv /\ TokenInv /\ [Next]_vars => TokenInv'
  BY BootstrapTokens, SubmitTokens, OtherTokens DEF Next

LEMMA SpecTokens == Spec => [](IInv /\ TokenInv)
  BY InitHolds, StepHolds, InitTokens, StepTokens, PTL DEF Spec

LEMMA ShapedWithTokens ==
    ASSUME NEW s, Shaped(s), s.secrets.tokens \in [Clients -> Nat]
    PROVE  s \in Snapshot /\ s # NoSnapshot
  <1>1. s.secrets \in Secrets
    BY DEF Shaped, Secrets, Keys
  <1> QED BY <1>1, NoSnapshotIsEmpty DEF Shaped, Snapshot, Keys

\* Types, those of the tokens included: an update that renames devices in any
\* order and mints tokens for others leaves every device of the secrets with a
\* token or without one, and a start finds enough new ones.
THEOREM RuntimeTypes == Spec => []RuntimeTypeOK
  <1>1. ASSUME IInv, TokenInv PROVE RuntimeTypeOK
    <2>1. \A s \in {current, base, draft} : s \in Snapshot \cup {NoSnapshot}
      BY <1>1, ShapedWithTokens DEF IInv, Shapes, TokenInv
    <2>2. phase \in {"idle", "retiring"} <=> draft = NoSnapshot
      BY <1>1, NoSnapshotIsEmpty DEF IInv, Shapes, Drafting
    <2>3. publicFile \in Config /\ secretFile \in Secrets
      BY <1>1 DEF IInv, Shapes, TokenInv, Secrets, Keys
    <2>4. \A q \in Requests : req[q] \in Requested
      BY <1>1 DEF IInv, Shapes
    <2> QED BY <1>1, <2>1, <2>2, <2>3, <2>4
            DEF IInv, Shapes, TokenInv, RuntimeTypeOK, Drafting, Requested
  <1> QED BY <1>1, SpecTokens, PTL

\* No restart, rename, failed or half-saved update changes the token a device
\* has on file: the step that does writes the secrets of an update that gives
\* the device a new one or removes it.
THEOREM TokensChangeOnlyByUpdate == Spec => TokenChangesOnlyByUpdate
  <1> DEFINE ByUpdate ==
          \A c \in Clients :
              secretFile.tokens[c] # 0 /\ secretFile'.tokens[c] # secretFile.tokens[c] =>
                  /\ phase = "savingSecret" /\ edit # None
                  /\ c \in edit.regenerate \/ c \notin edit.clients
  <1>1. ASSUME IInv, TokenInv, [Next]_vars PROVE [ByUpdate]_vars
    <2>1. CASE Bootstrap
      <3>1. \A c \in Clients : secretFile.tokens[c] # 0
                => secretFile'.tokens[c] = secretFile.tokens[c]
        BY <1>1, <2>1 DEF Bootstrap, IInv, Shapes
      <3> QED BY <3>1
    <2>2. CASE SaveSecret
      <3>1. /\ phase = "savingSecret" /\ secretFile' = draft.secrets /\ edit \in Edits
            /\ KeepsTokens(edit, secretFile.tokens, draft.secrets.tokens)
        BY <1>1, <2>2 DEF SaveSecret, TokenInv, Updating, IInv, Phases
      <3> QED BY <3>1, ManagerAssumption DEF KeepsTokens
    <2>3. CASE ~Bootstrap /\ ~SaveSecret
      <3>1. secretFile' = secretFile
        BY <1>1, <2>3
        DEF Next, Load, Submit, BuildProvider, FinishBuild, BuildFails, SavePublic,
            SavePublicFails, SaveSecretFails, DropDraft, Publish, Return, RetireOne,
            Authenticate, ReadNothing, StartAdapter, EndRequest, ReadService, CloseOne,
            Close, Exit, Crash, Gone, vars, diskVars
      <3> QED BY <3>1
    <2> QED BY <2>1, <2>2, <2>3
  <1> QED BY <1>1, SpecTokens, PTL DEF Spec, TokenChangesOnlyByUpdate

\* A renamed device takes its token along, in whatever order Go's map gives the
\* renames of the update.
THEOREM RenamesMoveTokens == Spec => RenameMovesToken
  <1> DEFINE Moves ==
          phase = "savingSecret" /\ phase' = "publishing" =>
              \A new \in DOMAIN edit.renames :
                  LET old == edit.renames[new]
                  IN  /\ new \in edit.clients \ edit.regenerate
                      /\ secretFile.tokens[new] = 0 /\ secretFile.tokens[old] # 0
                      => secretFile'.tokens[new] = secretFile.tokens[old]
  <1>1. ASSUME IInv, TokenInv, [Next]_vars PROVE [Moves]_vars
    <2> SUFFICES ASSUME phase = "savingSecret", phase' = "publishing" PROVE Moves
      OBVIOUS
    <2>1. SaveSecret
      BY <1>1
      DEF Next, Bootstrap, Load, Submit, BuildProvider, FinishBuild, BuildFails, SavePublic,
          SavePublicFails, SaveSecretFails, DropDraft, Publish, Return, RetireOne,
          Authenticate, ReadNothing, StartAdapter, EndRequest, ReadService, CloseOne,
          Close, Exit, Crash, Gone, vars, updateVars, IInv, Phases
    <2>2. /\ secretFile' = draft.secrets
          /\ KeepsTokens(edit, secretFile.tokens, draft.secrets.tokens)
      BY <1>1, <2>1 DEF SaveSecret, TokenInv, Updating, IInv, Phases
    <2> QED BY <2>2 DEF KeepsTokens
  <1> QED BY <1>1, SpecTokens, PTL DEF Spec, RenameMovesToken
=============================================================================
