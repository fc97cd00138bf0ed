\* A file of four blocks (the block number comes round) and three faults; three
\* saves, three failures and two crashes.
SPECIFICATION MCSpec
CONSTANTS
    Pairings <- AppAndDevice
    Blocks = 4
    BlockMod = 3
    MaxRetries = 3
    MaxRequests = 2
    MaxFaults = 3
    MaxSaves = 3
    MaxFailures = 3
    MaxCrashes = 2
INVARIANTS DeliveredIntact SettingsSurvive
PROPERTY TransferEnds
\* A transfer comes to an end.
CHECK_DEADLOCK FALSE
