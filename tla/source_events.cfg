SPECIFICATION FairSpec
CONSTANTS
    Event = {e1, e2}
    Artifact = {a1}
    Channel = {n1, n2}
    InitialChannels = {n1}
    Worker = {w1, w2}
    NoWork = NoWork
    NoArtifact = NoArtifact
    MaxAttempts = 2
    MaxCode = 3
    UserCode = {2}
    MaxFaults = 1
    MaxEdits = 1
INVARIANTS
    SourceTypeOK
    NothingTwice
PROPERTIES
    SettledRight
    EveryEventSettles
CHECK_DEADLOCK FALSE
