SPECIFICATION ServicesSpec
CONSTANTS
    Parts = {"budget", "health", "views", "recordings", "files", "schema", "cache", "charts", "signin", "logout", "writes", "drain", "serve", "terminals", "tails"}
    wa = wa
    wb = wb
    wc = wc
    wd = wd
    ida = ida
    idb = idb
    Workers = {wa, wb, wc, wd}
    Identities = {ida, idb}
    identity <- MCIdentity
    Global = 3
    PerIdentity = 2
    Units = {1, 2}
    Viewers = {v1}
    Sites = {c1}
    Misses = 2
    MaxDials = 2
    MaxFlips = 0
    Switches = {w1, w2}
    MaxViews = 2
    Tapes = {r1, r2, r3}
    Stops = {k1}
    Procs = {p1, p2}
    Entries = {e1, e2}
    MaxWrites = 3
    MaxFaults = 1
    Openers = {p1, p2}
    Known = 4
    ReadableFrom = 2
    MaxOpens = 4
    Readers = {r1, r2, r3}
    Ttl = 2
    MaxClock = 4
    Askers = {a1, a2, a3}
    ChartUnits = {u1, u2}
    KeepFor = 2
    FailFor = 1
    ChartRoom = 1
    WarmRoom = 2
    MaxMoment = 3
    Requests = {k1, k2}
    Sids = {s1}
    Flows = {f1}
    SessionTtl = 2
    MaxAge = 3
    FlowLife = 2
    FlowRoom = 1
    MaxNow = 4
    MaxRestarts = 1
    Verifiers = {v1, v2}
    Sources = {x1, x2, x3}
    GlobalRoom = 2
    SourceRoom = 1
    GlobalRate = 3
    SourceRate = 2
    Capacity = 2
    Window = 2
    Cooldown = 1
    MaxTime = 4
    Writes = {w1}
    Homes = {h1, h2}
    Pods = {p1, p2, p3}
    EvictRoom = 2
    Messages = {m1, m2, m3}
    AtOnce = 2
    Shells = {s1, s2}
    LogPods = {1, 2}
    Lives = 2
    Cap = 2
INVARIANTS BudgetSound PresenceSound RecordingsSound StoresSound CachesSound AccountsSound WritesSound  StreamsSound
CHECK_DEADLOCK FALSE
