CONSTANTS
    Drivers = {1, 2}
    e1 = e1
    e2 = e2
    Groups <- MCGroups
    NeedsOffload <- MCNeedsOffload
    MaxVersion = 2
    MaxFaults = 2
    MaxLate = 1
    None = None
SPECIFICATION Spec
INVARIANTS OwnerKept PublisherOwns QuietWhilePaused PublishReaches RolloutServesPublished
PROPERTY EngineVersionGrows
