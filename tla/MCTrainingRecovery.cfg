SPECIFICATION FairSpec
CONSTANTS NumRollouts = 3 MaxAttempts = 3 MaxDeaths = 2 MaxSessions = 2
INVARIANTS TypeOK JournalReadable NoRegeneration FinishedRetained NoRecommit WindowComplete
PROPERTY AttemptEnds
CHECK_DEADLOCK FALSE
