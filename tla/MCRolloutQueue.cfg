CONSTANTS
    Readers = {a}
    Batch = 1
    RefillSize = 2
    MaxGroups = 2
    MaxRollouts = 2
    MaxManagers = 2
    MaxDeaths = 1
    MaxReturns = 0
    MaxRejects = 1
    MaxExpiries = 0
    MaxRestarts = 0
    MaxFailures = 0
SPECIFICATION Spec
INVARIANTS RetentionSound CompletedAvailable RetentionReleased
PROPERTY DeliveredOnce
CHECK_DEADLOCK FALSE
