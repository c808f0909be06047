CONSTANTS
    s1 = s1
    s2 = s2
    r1 = r1
    r2 = r2
    Nobody = Nobody
    NoFile = NoFile
    Sender <- MCSenders
    Receiver <- TwoReceivers
    Process <- MCProcess
    Socket <- MCSocket
    Outbound <- ExampleOutbound
    Incoming <- ExampleIncoming
    Path <- MCPath
    Counts <- UpToOne
    InPlace = 33
    WriteFields <- ValueAndVector
    ReadFields <- MixedFields
    HighWater = 1
    MaxRuns = 2
    MaxKills = 1
    MaxFiles = 3
SPECIFICATION SupervisedSpec
INVARIANTS
    Accounted
    ConnectionsConsistent
PROPERTIES
    SendersFinish
CHECK_DEADLOCK FALSE
