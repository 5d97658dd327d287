CONSTANTS
    N = 2
    WireId <- MCWireId
    MostLinesPerPoll = 2
    MostPerListen = 2
    MaxBuffered = 2
    MaxTalk = 2
    Floods = TRUE
SPECIFICATION FairSpec
INVARIANTS NothingLost NoOrphan
PROPERTIES KeepsPromise NoMutualWait CallsEnd
CHECK_DEADLOCK FALSE
