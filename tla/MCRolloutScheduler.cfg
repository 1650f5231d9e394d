CONSTANTS
    Workers = {w1, w2}
    Slots = 1
    Batch = 1
    MaxGroups = 2
    MaxRounds = 2
    MaxAborts = 1
    MaxDeaths = 1
    MaxCrashes = 0
    MaxRejects = 0
SPECIFICATION Spec
INVARIANTS GroupsConserved SaveQuiescent
CHECK_DEADLOCK FALSE
SYMMETRY Symmetry
