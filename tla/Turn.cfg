SPECIFICATION FairSpec
CONSTANTS
    Inputs <- TurnInputs
    Worlds <- TurnWorlds
    Commands <- TurnCommands
    Announces <- TurnAnnounces
    MaxIterations = 2
    MaxCycles = 2
    MaxPerDrain = 2
    MaxEmpty = 2
    MaxRecoveries = 1
    None = None
INVARIANTS TurnConsistent CallsAnswered NothingTwice AnsweredRecorded
PROPERTY TurnEnds
