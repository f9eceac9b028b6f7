--------------------------- MODULE RuntimeManager ---------------------------
(***************************************************************************)
(* internal/runtimecfg/manager.go over internal/config: the two            *)
(* configuration files, the snapshot the process serves from, and the      *)
(* adapters the snapshots share.                                           *)
(*                                                                         *)
(* An administrator's Update holds the manager's mutex from Submit to      *)
(* Return; phase says how far it is.  Requests and Close do not take the   *)
(* mutex: they see, or replace, the current snapshot at any point of it.   *)
(* A request reads the current runtime twice, once to authenticate and     *)
(* once to be served, and keeps what the second read gave it.              *)
(*                                                                         *)
(* A configuration is reduced to its clients and to the connection         *)
(* settings of its providers (None for one that is not listed); the        *)
(* settings also tell the type of a provider.  Deployments, prices and     *)
(* names do not matter to the manager.  Tokens are numbers in the order    *)
(* they were minted, 0 is the empty string; adapters likewise.             *)
(***************************************************************************)
EXTENDS Integers, FiniteSets, SequencesExt

CONSTANTS
    Clients, Providers, Requests,
    LocalConns,     \* settings of codex_exec and workbuddy_exec providers
    ApiConns,       \* settings of openai_responses providers
    ApiKeys,        \* keys of the latter
    None,           \* an absent key, provider, adapter or update
    FirstConfig,    \* the public file of the first start
    Edits,          \* the updates administrators submit
    MaxUpdates,     \* bound on updates
    MaxFaults,      \* bound on failing builds and writes
    MaxStops        \* bound on crashes and shutdowns

Conns == LocalConns \cup ApiConns

Config == [clients : SUBSET Clients, conn : [Providers -> Conns \cup {None}]]

Secrets == [tokens : [Clients -> Nat], keys : [Providers -> ApiKeys \cup {None}]]

\* An adapter; id 0 is unavailableAdapter, which is a value and not a process.
Adapter == [id : Nat, conn : Conns, key : ApiKeys \cup {None}]

\* shown is the key in Config.Providers[i].APIKey, beside the one in Secrets.
Snapshot == [config : Config, secrets : Secrets,
             shown : [Providers -> ApiKeys \cup {None}],
             adapter : [Providers -> Adapter \cup {None}]]

\* The nil pointer in the place of one.
NoSnapshot == [config |-> None, secrets |-> None, shown |-> None,
               adapter |-> [p \in Providers |-> None]]

\* What an administrator sends: a whole configuration, the clients whose name
\* is new (renames[new] is the old one), the clients given a new token, and
\* the keys typed in (None where the field was left empty).
Edit == [clients : SUBSET Clients, conn : [Providers -> Conns \cup {None}],
         renames : UNION {[S -> Clients] : S \in SUBSET Clients},
         regenerate : SUBSET Clients, keys : [Providers -> ApiKeys \cup {None}]]

ASSUME ManagerAssumption ==
    /\ LocalConns \cap ApiConns = {}
    /\ None \notin Conns \cup ApiKeys \cup Providers \cup Adapter \cup Config \cup Edits
    /\ FirstConfig \in Config
    /\ Edits \subseteq Edit
    /\ IsFiniteSet(FirstConfig.clients)
    /\ \A e \in Edits : IsFiniteSet(e.clients \cup e.regenerate \cup DOMAIN e.renames)
    /\ MaxUpdates \in Nat /\ MaxFaults \in Nat /\ MaxStops \in Nat

VARIABLES
    proc,        \* the process: down, booting, up, stopping
    publicFile,  \* config.yaml
    secretFile,  \* xconfig.yaml; a missing one is one without entries
    current,     \* Manager.current
    phase,       \* how far the holder of Manager.mu is
    edit,        \* its update
    base,        \* the snapshot it found
    draft,       \* the snapshot it builds
    retiring,    \* adapters it has yet to retire
    closing,     \* adapters Close has yet to retire
    retired,     \* ids of the adapters of this process that are retired
    lastAdapter, \* adapters this process has made
    pools,       \* ids of the local ones among them
    lastToken,   \* tokens minted so far
    halfSaved,   \* the public file is ahead of the secret one
    req,         \* where each request stands, and the adapter it will start
    unaffected,  \* requests whose provider no change of settings, and no
                 \* shutdown, has touched
    updates, faults, stops

diskVars == <<publicFile, secretFile, lastToken, halfSaved>>
updateVars == <<phase, edit, base, draft, retiring>>
adapterVars == <<closing, retired, lastAdapter, pools>>
requestVars == <<req, unaffected>>
bounds == <<updates, faults, stops>>

vars == <<proc, current, diskVars, updateVars, adapterVars, requestVars, bounds>>

NoSecrets == [tokens |-> [c \in Clients |-> 0], keys |-> [p \in Providers |-> None]]

NoRequest == [at |-> "new", provider |-> None, adapter |-> None]

RuntimeTypeOK ==
    /\ proc \in {"down", "booting", "up", "stopping"}
    /\ publicFile \in Config /\ secretFile \in Secrets
    /\ {current, base, draft} \subseteq Snapshot \cup {NoSnapshot}
    /\ edit \in Edits \cup {None}
    /\ phase \in {"idle", "building", "savingPublic", "savingSecret",
                  "publishing", "retiring"}
    /\ phase \in {"idle", "retiring"} <=> draft = NoSnapshot
    /\ retiring \cup closing \subseteq Adapter
    /\ retired \subseteq pools /\ pools \subseteq 1..lastAdapter /\ lastAdapter \in Nat
    /\ lastToken \in Nat /\ halfSaved \in BOOLEAN
    /\ \A q \in Requests :
          /\ req[q].at \in {"new", "authenticated", "bound", "running",
                            "refused", "aborted"}
          /\ req[q].adapter \in Adapter \cup {None}
          /\ req[q].provider \in Providers \cup {None}
    /\ unaffected \subseteq Requests
    /\ updates \in 0..MaxUpdates /\ faults \in 0..MaxFaults
    /\ stops \in 0..MaxStops

Init ==
    /\ proc = "down"
    /\ publicFile = FirstConfig /\ secretFile = NoSecrets
    /\ current = NoSnapshot /\ base = NoSnapshot /\ draft = NoSnapshot
    /\ edit = None /\ phase = "idle"
    /\ retiring = {} /\ closing = {} /\ retired = {} /\ pools = {} /\ lastAdapter = 0
    /\ lastToken = 0 /\ halfSaved = FALSE
    /\ req = [q \in Requests |-> NoRequest] /\ unaffected = {}
    /\ updates = 0 /\ faults = 0 /\ stops = 0

-----------------------------------------------------------------------------
\* Adapters and secrets.

\* Definitions named A_B are A with the defect B.

\* Retires also adapters that are not Retirable.
Retirables_All(snapshot) ==
    {snapshot.adapter[p] : p \in Providers} \ {None}

\* The adapters of a snapshot that have something to retire, local processes.
Retirables(snapshot) ==
    {a \in {snapshot.adapter[p] : p \in Providers} : a # None /\ a.conn \in LocalConns}

ToRetire_KeepsNothing(snapshot, keep) == Retirables(snapshot)

\* What retireSnapshotExcept(snapshot, keep) retires.
ToRetire(snapshot, keep) == Retirables(snapshot) \ Retirables(keep)

\* A snapshot of a configuration whose adapters are still to be built.
Unbuilt(config, secrets) ==
    [config |-> config, secrets |-> secrets, shown |-> secrets.keys,
     adapter |-> [p \in Providers |-> None]]

\* A new token for every client of S.
Mint(S) == CHOOSE f \in [S -> lastToken + 1 .. lastToken + Cardinality(S)] :
               \A c, d \in S : f[c] = f[d] => c = d

Renamed_Overwrites(tokens, renames, order) ==
    FoldLeft(LAMBDA t, new : [t EXCEPT ![new] = t[renames[new]]], tokens, order)

\* The tokens after the renames of an update, in the order Go's map gives:
\* a name that has a token keeps it.
Renamed(tokens, renames, order) ==
    FoldLeft(LAMBDA t, new :
                 IF t[new] = 0 THEN [t EXCEPT ![new] = t[renames[new]]] ELSE t,
             tokens, order)

\* The secrets after an update, those of names that are gone pruned.
UpdatedSecrets(e, old, order) ==
    LET moved == Renamed(old.tokens, e.renames, order)
        minted == Mint(e.regenerate)
    IN  [tokens |-> [c \in Clients |->
             IF c \notin e.clients THEN 0
             ELSE IF c \in e.regenerate THEN minted[c] ELSE moved[c]],
         keys |-> [p \in Providers |->
             IF e.conn[p] = None THEN None
             ELSE IF e.keys[p] # None THEN e.keys[p] ELSE old.keys[p]]]

-----------------------------------------------------------------------------
\* Starting the process.

Bootstrap_Regenerates ==
    /\ proc = "down" /\ proc' = "booting"
    /\ LET minted == Mint(publicFile.clients)
       IN  /\ secretFile' = [secretFile EXCEPT !.tokens =
                  [c \in Clients |-> IF c \in publicFile.clients THEN minted[c] ELSE @[c]]]
           /\ lastToken' = lastToken + Cardinality(publicFile.clients)
    /\ UNCHANGED <<current, publicFile, halfSaved, updateVars, adapterVars, requestVars, bounds>>

\* BootstrapSecretFile: every client of the public file without a token is
\* given one.  It happens again at every start.
Bootstrap ==
    /\ proc = "down" /\ proc' = "booting"
    /\ LET missing == {c \in publicFile.clients : secretFile.tokens[c] = 0}
           minted == Mint(missing)
       IN  /\ secretFile' = [secretFile EXCEPT !.tokens =
                  [c \in Clients |-> IF c \in missing THEN minted[c] ELSE @[c]]]
           /\ lastToken' = lastToken + Cardinality(missing)
    /\ UNCHANGED <<current, publicFile, halfSaved, updateVars, adapterVars, requestVars, bounds>>

\* LoadFiles; Reload then builds everything anew.
Load ==
    /\ proc = "booting" /\ phase = "idle"
    /\ \A c \in publicFile.clients : secretFile.tokens[c] # 0
    /\ draft' = Unbuilt(publicFile, secretFile)
    /\ base' = NoSnapshot /\ phase' = "building" /\ halfSaved' = FALSE
    /\ UNCHANGED <<proc, current, publicFile, secretFile, lastToken, edit, retiring,
                   adapterVars, requestVars, bounds>>

-----------------------------------------------------------------------------
\* One update.

Submit(e) ==
    /\ proc = "up" /\ phase = "idle" /\ current # NoSnapshot /\ updates < MaxUpdates
    /\ \E order \in SetToSeqs(DOMAIN e.renames) :
          LET secrets == UpdatedSecrets(e, current.secrets, order)
          IN  /\ \A c \in e.clients : secrets.tokens[c] # 0
              /\ draft' = Unbuilt([clients |-> e.clients, conn |-> e.conn], secrets)
    /\ edit' = e /\ base' = current /\ phase' = "building"
    /\ lastToken' = lastToken + Cardinality(e.regenerate)
    /\ updates' = updates + 1
    /\ UNCHANGED <<proc, current, publicFile, secretFile, halfSaved, retiring,
                   adapterVars, requestVars, faults, stops>>

Reusable_IgnoresKey(p) ==
    base # NoSnapshot /\ base.config.conn[p] = draft.config.conn[p]

\* sameProviderRuntime(existing, candidate) for the provider p of the draft.
Reusable(p) ==
    /\ base # NoSnapshot
    /\ base.config.conn[p] = draft.config.conn[p]
    /\ draft.config.conn[p] \in ApiConns => base.shown[p] = draft.shown[p]

BuildProvider(p) ==
    LET conn == draft.config.conn[p]
        key == IF conn \in ApiConns THEN draft.shown[p] ELSE None
        available == conn \in LocalConns \/ key # None
    IN  /\ phase = "building" /\ conn # None /\ draft.adapter[p] = None
        /\ draft' = [draft EXCEPT !.adapter[p] =
               IF Reusable(p) THEN base.adapter[p]
               ELSE [id |-> IF available THEN lastAdapter + 1 ELSE 0,
                     conn |-> conn, key |-> key]]
        /\ lastAdapter' = lastAdapter + (IF available /\ ~Reusable(p) THEN 1 ELSE 0)
        /\ pools' = pools \cup
               (IF conn \in LocalConns /\ ~Reusable(p) THEN {lastAdapter + 1} ELSE {})
        /\ UNCHANGED <<proc, current, diskVars, phase, edit, base, retiring,
                       closing, retired, requestVars, bounds>>

Built == \A p \in Providers : draft.config.conn[p] # None => draft.adapter[p] # None

\* Reload publishes what it built, Update saves it first.
FinishBuild ==
    /\ phase = "building" /\ Built
    /\ phase' = IF proc = "booting" THEN "publishing" ELSE "savingPublic"
    /\ UNCHANGED <<proc, current, diskVars, edit, base, draft, retiring,
                   adapterVars, requestVars, bounds>>

DropDraft_Forgets ==
    /\ faults < MaxFaults /\ faults' = faults + 1
    /\ draft' = NoSnapshot /\ phase' = "retiring"
    /\ UNCHANGED <<proc, current, diskVars, edit, base, retiring, adapterVars,
                   requestVars, updates, stops>>

\* The holder of the mutex gives its draft up and retires what it built.
DropDraft ==
    /\ faults < MaxFaults /\ faults' = faults + 1
    /\ retiring' = ToRetire(draft, base)
    /\ draft' = NoSnapshot /\ phase' = "retiring"
    /\ UNCHANGED <<proc, current, diskVars, edit, base, adapterVars,
                   requestVars, updates, stops>>

\* An adapter cannot be made, the administrator hung up, or NewService refuses.
BuildFails == phase = "building" /\ proc # "booting" /\ DropDraft

SavePublicFails == phase = "savingPublic" /\ DropDraft

SaveSecretFails_Ignored ==
    /\ phase = "savingSecret" /\ faults < MaxFaults /\ faults' = faults + 1
    /\ phase' = "publishing"
    /\ UNCHANGED <<proc, current, diskVars, edit, base, draft, retiring,
                   adapterVars, requestVars, updates, stops>>

SaveSecretFails == phase = "savingSecret" /\ DropDraft

\* The copy SaveFiles clears the keys of shares its slices with the draft.
SavePublic ==
    /\ phase = "savingPublic"
    /\ publicFile' = draft.config /\ halfSaved' = TRUE
    /\ draft' = [draft EXCEPT !.shown = [p \in Providers |-> None]]
    /\ phase' = "savingSecret"
    /\ UNCHANGED <<proc, current, secretFile, lastToken, edit, base, retiring,
                   adapterVars, requestVars, bounds>>

SaveSecret ==
    /\ phase = "savingSecret"
    /\ secretFile' = draft.secrets /\ halfSaved' = FALSE
    /\ phase' = "publishing"
    /\ UNCHANGED <<proc, current, publicFile, lastToken, edit, base, draft, retiring,
                   adapterVars, requestVars, bounds>>

\* Requests whose provider has other settings, or is gone, in the draft.
Touched == {q \in Requests :
    req[q].provider # None /\ draft.config.conn[req[q].provider] # req[q].adapter.conn}

Publish ==
    /\ phase = "publishing"
    /\ current' = draft
    /\ retiring' = ToRetire(current, draft)
    /\ unaffected' = unaffected \ Touched
    /\ draft' = NoSnapshot /\ phase' = "retiring"
    /\ proc' = IF proc = "booting" THEN "up" ELSE proc
    /\ UNCHANGED <<diskVars, edit, base, adapterVars, req, bounds>>

RetireOne(a) ==
    /\ phase = "retiring" /\ a \in retiring
    /\ retiring' = retiring \ {a}
    /\ retired' = retired \cup {a.id}
    /\ UNCHANGED <<proc, current, diskVars, phase, edit, base, draft, closing,
                   lastAdapter, pools, requestVars, bounds>>

Return ==
    /\ phase = "retiring" /\ retiring = {}
    /\ phase' = "idle" /\ edit' = None /\ base' = NoSnapshot
    /\ UNCHANGED <<proc, current, diskVars, draft, retiring, adapterVars,
                   requestVars, bounds>>

-----------------------------------------------------------------------------
\* Requests.

\* authenticate: the first read of the current runtime.
Authenticate(q) ==
    /\ proc = "up" /\ req[q].at = "new"
    /\ current # NoSnapshot /\ current.config.clients # {}
    /\ req' = [req EXCEPT ![q].at = "authenticated"]
    /\ UNCHANGED <<proc, current, diskVars, updateVars, adapterVars, unaffected, bounds>>

\* handleResponses: the second read; the service knows the adapter of every
\* provider it lists.
ReadService(q, p) ==
    /\ req[q].at = "authenticated" /\ current # NoSnapshot
    /\ current.adapter[p] # None
    /\ req' = [req EXCEPT ![q] =
           [at |-> "bound", provider |-> p, adapter |-> current.adapter[p]]]
    /\ unaffected' = IF proc = "up" THEN unaffected \cup {q} ELSE unaffected
    /\ UNCHANGED <<proc, current, diskVars, updateVars, adapterVars, bounds>>

\* The second read finds no runtime: the handler panics on the nil service.
ReadNothing(q) ==
    /\ req[q].at = "authenticated" /\ current = NoSnapshot
    /\ req' = [req EXCEPT ![q].at = "aborted"]
    /\ UNCHANGED <<proc, current, diskVars, updateVars, adapterVars, unaffected, bounds>>

\* An adapter that is unavailable refuses to start; so does a retired one,
\* unless it is Codex and serves the request without a worker.
StartAdapter(q) ==
    /\ req[q].at = "bound"
    /\ \E outcome \in {"running", "refused"} :
          /\ outcome = "running" => req[q].adapter.id # 0
          /\ outcome = "refused" => req[q].adapter.id \in retired \cup {0}
          /\ req' = [req EXCEPT ![q].at = outcome]
    /\ UNCHANGED <<proc, current, diskVars, updateVars, adapterVars, unaffected, bounds>>

\* The request ends; the next one may take its place.
EndRequest(q) ==
    /\ req[q].at \in {"running", "refused", "aborted"}
    /\ req' = [req EXCEPT ![q] = NoRequest]
    /\ unaffected' = unaffected \ {q}
    /\ UNCHANGED <<proc, current, diskVars, updateVars, adapterVars, bounds>>

-----------------------------------------------------------------------------
\* Stopping the process.

\* On a signal main returns with the first server that has shut down, which
\* runs Close whatever the other server's handlers are doing.
Close ==
    /\ proc = "up" /\ stops < MaxStops /\ stops' = stops + 1
    /\ proc' = "stopping"
    /\ closing' = Retirables(current) /\ current' = NoSnapshot
    /\ unaffected' = {}
    /\ UNCHANGED <<diskVars, updateVars, retired, lastAdapter, pools, req, updates, faults>>

CloseOne(a) ==
    /\ proc = "stopping" /\ a \in closing
    /\ closing' = closing \ {a}
    /\ retired' = retired \cup {a.id}
    /\ UNCHANGED <<proc, current, diskVars, updateVars, lastAdapter, pools, requestVars, bounds>>

\* What the process held is gone, the files stay.
Gone ==
    /\ proc' = "down" /\ phase' = "idle" /\ edit' = None
    /\ current' = NoSnapshot /\ base' = NoSnapshot /\ draft' = NoSnapshot
    /\ retiring' = {} /\ closing' = {}
    /\ retired' = {} /\ pools' = {} /\ lastAdapter' = 0
    /\ req' = [q \in Requests |-> NoRequest] /\ unaffected' = {}
    /\ UNCHANGED <<diskVars, updates, faults>>

Exit == proc = "stopping" /\ closing = {} /\ Gone /\ UNCHANGED stops

Crash == proc # "down" /\ stops < MaxStops /\ Gone /\ stops' = stops + 1

-----------------------------------------------------------------------------
Next ==
    \/ Bootstrap \/ Load
    \/ \E e \in Edits : Submit(e)
    \/ \E p \in Providers : BuildProvider(p)
    \/ FinishBuild \/ BuildFails
    \/ SavePublic \/ SavePublicFails \/ SaveSecret \/ SaveSecretFails
    \/ Publish \/ Return
    \/ \E a \in retiring : RetireOne(a)
    \/ \E q \in Requests :
          \/ Authenticate(q) \/ ReadNothing(q) \/ StartAdapter(q) \/ EndRequest(q)
          \/ \E p \in Providers : ReadService(q, p)
    \/ \E a \in closing : CloseOne(a)
    \/ Close \/ Exit \/ Crash

Spec == Init /\ [][Next]_vars

-----------------------------------------------------------------------------
\* Safety.

\* A request bound to a local provider whose settings no published update has
\* changed since is not turned away by a retired adapter, however many updates
\* were saved, failed or given up meanwhile: Update (127-166) retires only
\* adapters that neither the published snapshot nor the kept one uses.
UnaffectedRequestIsServed ==
    \A q \in unaffected : req[q].adapter # None /\ req[q].adapter.id # 0 =>
        req[q].adapter.id \notin retired /\ req[q].at # "refused"

\* Every local adapter this process made and did not retire is in the current
\* snapshot, in the draft, or in the hands of whoever is retiring it: no
\* failed build or save, and no update, forgets a running worker pool.
NoAdapterLeaks ==
    \A id \in pools \ retired :
        \E a \in Retirables(current) \cup Retirables(draft) \cup retiring \cup closing :
            a.id = id

\* What the process serves with fits what it says it serves: the adapter of a
\* listed provider has the provider's settings and its key of the secrets,
\* and is unavailable exactly when an API provider has no key.  build (216-
\* 287) may reuse adapters across any number of updates, on the strength of
\* a copy of the configuration whose keys SaveFiles has cleared.
AdaptersFitConfig ==
    current # NoSnapshot => \A p \in Providers :
        LET a == current.adapter[p]
            conn == current.config.conn[p]
            key == IF conn \in ApiConns THEN current.secrets.keys[p] ELSE None
        IN  /\ conn = None <=> a = None
            /\ conn # None => a.conn = conn /\ a.key = key
            /\ conn # None => (a.id = 0 <=> conn \in ApiConns /\ key = None)

\* Between updates the files hold what is served, so that a restart serves
\* the same; only a public file whose secret one could not be written
\* differs (SaveFiles 220-225).
SavedIsServed ==
    proc = "up" /\ phase = "idle" =>
        /\ secretFile = current.secrets
        /\ publicFile = current.config \/ halfSaved

\* A device's token on file changes only by an update that gives the device
\* a new one or removes it: not by a restart, a rename, a failed or a half-
\* saved update (README.md:170: a restart does not change tokens).
TokenChangesOnlyByUpdate ==
    [][\A c \in Clients :
          secretFile.tokens[c] # 0 /\ secretFile'.tokens[c] # secretFile.tokens[c] =>
              /\ phase = "savingSecret" /\ edit # None
              /\ c \in edit.regenerate \/ c \notin edit.clients]_vars

\* An update that renames a device to a name without a token takes its token
\* along (Update 135-139), whatever order the renames are applied in.
RenameMovesToken ==
    [][phase = "savingSecret" /\ phase' = "publishing" =>
          \A new \in DOMAIN edit.renames :
              LET old == edit.renames[new]
              IN  /\ new \in edit.clients \ edit.regenerate
                  /\ secretFile.tokens[new] = 0 /\ secretFile.tokens[old] # 0
                  => secretFile'.tokens[new] = secretFile.tokens[old]]_vars

\* A published update keeps the adapter of every provider whose connection
\* settings and key it leaves alone (README.md:79).
UnchangedProviderIsReused ==
    [][current # NoSnapshot /\ current' # NoSnapshot /\ current' # current =>
          \A p \in Providers :
              /\ current.config.conn[p] = current'.config.conn[p]
              /\ current.secrets.keys[p] = current'.secrets.keys[p]
              => current'.adapter[p] = current.adapter[p]]_vars
=============================================================================
