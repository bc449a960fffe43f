SPECIFICATION FairSpec
CONSTANTS
    r1 = r1
    r2 = r2
    r3 = r3
    NoRequest = NoRequest
    Background = Background
    Requests = {r1}
    Handlers = {h1}
    Kind <- AllFixes
    Owner <- OneOwner
    Failure <- OneFailure
    Instruction <- OneInstruction
    Builds = {}
    Expiring = {}
    Backend = "orka"
    MaxPending = 1
    MaxActive = 1
    MaxAttempts = 2
    ApiFaults = {"cleanup"}
    SearchLag = FALSE
    StateFaults = FALSE
    MaxCrashes = 1
    MaxSaveFaults = 1
CHECK_DEADLOCK FALSE
INVARIANTS
    TypeOK
    SettledLeavesNoSandbox
    RecordedBeforeCreated
PROPERTIES
    CleanupEnds
    GenerationEnds
