CONSTANTS
    Drivers = {a, b}
    MaxStep = 1
    MaxPrompts = 2
    MaxCrashes = 2
    MaxExplicit = 1
    MaxDamage = 1
    MaxFaults = 2
    None = None
SPECIFICATION Spec
INVARIANTS CommittedModelKept JointBoundary AutomaticRestart
PROPERTY RewindCompletes
