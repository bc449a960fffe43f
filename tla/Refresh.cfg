SPECIFICATION Spec
CONSTANTS
    Items = {1, 2, 3}
    Builds = {3}
    Cohorts <- TwoAlikeAndABuild
    Works <- FirstPassFindsThem
    Reusable = {1}
    FollowUps <- RemediationAroundFixes
    MaxConcurrent = 2
    PatternJobs = 1
    HistoryLimit = 2
    MaxPasses = 3
    MaxFaults = 2
CHECK_DEADLOCK FALSE
INVARIANTS
    TypeOK
    FileIsAccepted
    CountersAreTrue
    PassesAreRemembered
    HistoryIsTrue
    NothingLeftRunning
PROPERTIES
    FreshnessKept
    PassEnds
