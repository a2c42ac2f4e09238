SPECIFICATION CronFairSpec
CONSTANTS
    dream = dream
    daily = daily
    once = once
    NoJob = NoJob
    Jobs <- ThreeJobs
    System <- OwnJob
    Schedule <- Kinds
    Environments <- Around
    Interval = 2
    AtTime = 2
    MaxSleep = 2
    Slots = 2
    Horizon = 3
    MaxJobs = 1
    MaxOps = 2
    MaxBoots = 2
INVARIANTS CronConsistent ChangesKept
PROPERTIES LastRunKept DueRuns
CHECK_DEADLOCK FALSE
