SPECIFICATION FairSpec
CONSTANTS
    Inputs <- ThreeInputs
    Worlds <- ThreeChats
    Commands <- Nobody
    Announces <- Nobody
    MaxIterations = 2
    MaxCycles = 1
    MaxPerDrain = 2
    MaxEmpty = 2
    MaxRecoveries = 1
    None = None
PROPERTY SavedWhole
