SPECIFICATION Spec
CONSTANTS
    r1 = r1
    r2 = r2
    r3 = r3
    NoRequest = NoRequest
    Background = Background
    Requests = {r1, r2}
    Handlers = {h1}
    Kind <- AllIssues
    Owner <- TwoOwners
    Failure <- OneFailure
    Instruction <- OneInstruction
    Builds = {r1, r2}
    Expiring = {r1}
    Backend = "orka"
    MaxPending = 1
    MaxActive = 2
    MaxAttempts = 1
    ApiFaults = {}
    SearchLag = FALSE
    StateFaults = TRUE
    MaxCrashes = 1
    MaxSaveFaults = 0
CHECK_DEADLOCK FALSE
INVARIANTS
    OneObjectPerTarget
PROPERTIES
    KeepsPromise
