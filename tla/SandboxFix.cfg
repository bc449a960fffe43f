SPECIFICATION Spec
CONSTANTS
    r1 = r1
    r2 = r2
    r3 = r3
    NoRequest = NoRequest
    Background = Background
    Requests = {r1}
    Handlers = {h1,h2}
    Kind <- AllAnalysisFixes
    Owner <- OneOwner
    Failure <- OneFailure
    Instruction <- OneInstruction
    Builds = {}
    Expiring = {r1}
    Backend = "agent-sandbox"
    MaxPending = 1
    MaxActive = 1
    MaxAttempts = 1
    ApiFaults = {"run", "cleanup"}
    SearchLag = FALSE
    StateFaults = FALSE
    MaxCrashes = 1
    MaxSaveFaults = 1
SYMMETRY Interchangeable
CHECK_DEADLOCK FALSE
INVARIANTS
    CancelledLeavesNoSandbox
PROPERTIES
    NoWayBack
