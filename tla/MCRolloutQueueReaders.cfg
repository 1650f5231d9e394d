CONSTANTS
    Readers = {a, b}
    Batch = 2
    RefillSize = 2
    MaxGroups = 2
    MaxRollouts = 1
    MaxManagers = 1
    MaxDeaths = 1
    MaxReturns = 1
    MaxRejects = 1
    MaxExpiries = 1
    MaxRestarts = 1
    MaxFailures = 1
SPECIFICATION Spec
PROPERTY DeliveredOnce
CHECK_DEADLOCK FALSE
