SPECIFICATION Spec
CONSTANTS
    s1 = s1
    s2 = s2
    o1 = o1
    k1 = k1
    k2 = k2
    q1 = q1
    i1 = i1
    b1 = b1
    b2 = b2
    h1 = h1
    h2 = h2
    l1 = l1
    l2 = l2
    None = None
    Sessions = {s1, s2}
    Owner <- OneOwner
    Keys = {k1, k2}
    Requests = {q1}
    Sources = {i1}
    Bases = {b1, b2}
    Handlers = {h1, h2}
    Leases = {l1, l2}
    MaxSessions = 2
    MaxPerOwner = 2
    MaxTurns = 1
    MaxActive = 1
    MaxSources = 1
    MaxActiveSources = 1
    RateLimit = 2
    MaxFaults = 1
CHECK_DEADLOCK FALSE
SYMMETRY Interchangeable
INVARIANTS
    TypeOK
    RunsOnce
    PendingIsLeased
    WithinLimits
    OneSessionPerKey
PROPERTIES
    CancelHolds
    OutcomeIsKept
    BindingStays
    KeepsPromise
