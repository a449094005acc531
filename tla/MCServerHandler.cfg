\* Two connection slots from one address over the ports of each [server]
\* configuration; a failed setup stops the application, so a final state
\* without steps is expected.
CONSTANTS
    Configs <- MCConfigs
    Headers <- MCHeaders
    Sessions = {s1, s2}
    Endpoints = {ip1}
    FeeInvalid = 2
    CommandFees = {1, 2}
    Drop = 3
    Missing = Missing
    None = None
SPECIFICATION FairSpec
CHECK_DEADLOCK FALSE
INVARIANTS
    TypeOK
    ServedWithinLimit
    ChargedOnce
    OverdraftBounded
    StandaloneWithoutPeer
PROPERTY RequestsAnswered
