SPECIFICATION Spec
CONSTANTS
    s1 = s1
    s2 = s2
    e1 = e1
    a1 = a1
    a2 = a2
    a3 = a3
    g1 = g1
    None = None
    Previews = {s1, s2, e1}
    Exact = {e1}
    Untracked = {e1}
    Action <- TwoActions
    Attempts = {a1, a2}
    Generators = {g1}
    MaxDrafts = 2
    MaxPreviews = 2
    SearchLag = TRUE
    StateFaults = TRUE
    MaxCrashes = 1
    MaxFaults = 1
CHECK_DEADLOCK FALSE
SYMMETRY Interchangeable
INVARIANTS
    TypeOK
    OneInDoubt
    OneObjectPerDraft
    DoneIsAudited
PROPERTIES
    DoneStays
    DoubtIsKept
