CONSTANTS
    Workers = {w1}
    Slots = 1
    Batch = 1
    MaxGroups = 2
    MaxRounds = 2
    MaxAborts = 1
    MaxDeaths = 1
    MaxCrashes = 1
    MaxRejects = 1
SPECIFICATION FairSpec
PROPERTY PauseTerminates
CHECK_DEADLOCK FALSE
