CONSTANTS
    s1 = s1
    s2 = s2
    r1 = r1
    r2 = r2
    Nobody = Nobody
    NoFile = NoFile
    Sender <- MCSenders
    Receiver <- OneReceiver
    Process <- MCProcess
    Socket <- MCSocket
    Outbound <- DefaultSocket
    Incoming <- DefaultSocket
    Path <- MCPath
    Counts <- OneElement
    InPlace = 33
    WriteFields <- TwoFields
    ReadFields <- SameFields
    HighWater = 2
    MaxRuns = 3
    MaxKills = 0
    MaxFiles = 3
SPECIFICATION SupervisedSpec
PROPERTY EventuallyStored
CHECK_DEADLOCK FALSE
