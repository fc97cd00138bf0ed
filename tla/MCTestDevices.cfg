\* Every transport and every streaming device, one after the other.
SPECIFICATION MCSpec
CONSTANTS
    Modes = {"rtu", "ascii", "tcp"}
    Masters = {m1, m2}
    NoMaster = NoMaster
    Size = 2
    MaxRead = 2
    MaxWrite = 2
    WordMod = 4
    Incremented = 1
    AutoIncrement = TRUE
    Injected = 0
    Unit = 1
    Requests <- MCRequests
    MaxFrames = 2
    MaxTicks = 1
    MaxCommands = 1
    Devices = {"zobow", "justfloat", "text", "echo"}
    ShortLength = 2
    LongLength = 4
    Configs <- MCConfigs
    Encodings = 2
    BeatEvery = 2
    MaxConfigs = 2
    MaxNoise = 1
    MaxKeys = 2
INVARIANTS AnswerToAsker StreamsLastSelection
PROPERTY AccessIsAtomic
\* A script that was closed takes no further step.
CHECK_DEADLOCK FALSE
