CONSTANTS
    Confs <- MCConfs
    Groups = {g1, g2, g3}
    Index = {s1, s2}
    Batch = 1
    Over = 2
    Slots = 2
    MaxTokens = 2
    MaxRollouts = 2
    MaxFaults = 1
    MaxUpsets = 2
SPECIFICATION Spec
INVARIANTS BatchSound AbortScope EnoughAvailable
PROPERTY PrefixesSurvive
SYMMETRY Symmetry
