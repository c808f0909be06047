CONSTANTS
    s1 = s1
    s2 = s2
    r1 = r1
    r2 = r2
    Nobody = Nobody
    NoFile = NoFile
    Sender <- MCSenders
    Receiver <- TwoReceivers
    Process <- MCProcess
    Socket <- MCSocket
    Outbound <- ExampleOutbound
    Incoming <- ExampleIncoming
    Path <- MCPath
    Counts <- OneElement
    InPlace = 33
    WriteFields <- TwoFields
    ReadFields <- SameFields
    HighWater = 2
    MaxRuns = 2
    MaxKills = 0
    MaxFiles = 3
SPECIFICATION Spec
INVARIANT StructIntegrity
CHECK_DEADLOCK FALSE
