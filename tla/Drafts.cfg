SPECIFICATION Spec
CONSTANTS
    r1 = r1
    r2 = r2
    r3 = r3
    NoRequest = NoRequest
    Background = Background
    Requests = {r1, r2}
    Handlers = {h1}
    Kind <- AllIssues
    Owner <- OneOwner
    Failure <- OneFailure
    Instruction <- OwnInstruction
    Builds = {}
    Expiring = {}
    Backend = "orka"
    MaxPending = 1
    MaxActive = 1
    MaxAttempts = 1
    ApiFaults = {}
    SearchLag = TRUE
    StateFaults = FALSE
    MaxCrashes = 1
    MaxSaveFaults = 1
CHECK_DEADLOCK FALSE
INVARIANTS
    WriteAhead
    AtMostOneWrite
    WriteIsRecorded
    WithinQuota
