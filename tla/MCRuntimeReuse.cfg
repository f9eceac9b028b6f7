SPECIFICATION Spec
CONSTANTS
    c1 = c1
    c2 = c2
    c3 = c3
    api = api
    local = local
    http = http
    proc1 = proc1
    proc2 = proc2
    key1 = key1
    key2 = key2
    Clients = {c1, c2, c3}
    Providers = {api, local}
    Requests = {q1}
    LocalConns = {proc1, proc2}
    ApiConns = {http}
    ApiKeys = {key1, key2}
    None = None
    FirstConfig <- MCFirstConfig
    Edits <- MCEdits
    MaxUpdates = 3
    MaxFaults = 1
    MaxStops = 1
PROPERTY UnchangedProviderIsReused
CHECK_DEADLOCK FALSE
