SPECIFICATION Spec
CONSTANTS
    Groups = {g1, g2}
    Moving = {g1}
    Heads = {h1, h2}
    Asks = {a1}
    Starts = {c1}
    Gets = {c2}
    Records = {r1, r2}
    None = None
    MaxOperations = 1
    MaxEntries = 1
    MaxFaults = 1
CHECK_DEADLOCK FALSE
INVARIANTS
    TypeOK
    AnswerIsCurrent
PROPERTIES
    ResultsAreKept
    RunningEnds
