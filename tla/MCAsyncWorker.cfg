CONSTANTS
    Concurrency = 2
    Target = 1
    MaxGroups = 3
    MaxRounds = 2
    MaxAborts = 1
SPECIFICATION FairSpec
INVARIANTS GroupsConserved
PROPERTY PauseTerminates
CHECK_DEADLOCK FALSE
