SPECIFICATION Spec
CONSTANTS
    r1 = r1
    r2 = r2
    r3 = r3
    NoRequest = NoRequest
    Background = Background
    Requests = {r1}
    Handlers = {h1}
    Kind <- AllAnalysisFixes
    Owner <- OneOwner
    Failure <- OneFailure
    Instruction <- OneInstruction
    Builds = {}
    Expiring = {}
    Backend = "agent-sandbox"
    MaxPending = 1
    MaxActive = 1
    MaxAttempts = 1
    ApiFaults = {}
    SearchLag = FALSE
    StateFaults = FALSE
    MaxCrashes = 1
    MaxSaveFaults = 0
CHECK_DEADLOCK FALSE
INVARIANTS
    SettledLeavesNoSandbox
