CONSTANTS
    Callers = {"a", "b"}
    Requests <- MixedRequests
    By <- MixedBy
    WireId <- MixedWireId
    Kind <- MixedKind
    MaxTalk = 1
SPECIFICATION FairSpec
INVARIANTS WaitsForSomething OneAnswerPerAsk EachGetsItsOwn
PROPERTIES CallersAreServed
CHECK_DEADLOCK FALSE
