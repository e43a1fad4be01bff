SPECIFICATION FairSpec
CONSTANTS
    Agent = {a1}
    Protocol = {1, 3}
    MaxConcurrent = 1
    MaxRequests = 3
    MaxEdits = 1
    MaxFaults = 1
INVARIANTS
    AgentsTypeOK
    OneActiveCertificate
    AcceptedOnce
    DrainIsRespected
    BuildsCanReport
PROPERTIES
    RevokedIsFinal
    DrainsFinish
CHECK_DEADLOCK FALSE
