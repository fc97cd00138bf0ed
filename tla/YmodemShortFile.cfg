\* Two applications, which both retry: one file of three blocks, two faults.
SPECIFICATION Spec
CONSTANTS
    Pairings <- TwoApps
    Blocks = 3
    BlockMod = 256
    MaxRetries = 3
    MaxRequests = 2
    MaxFaults = 2
INVARIANT NoShortFile
CHECK_DEADLOCK FALSE
