CONSTANTS
    Clients = {"a", "b"}
    MaxSessions = 2
    MaxTurns = 4
SPECIFICATION Spec
INVARIANTS AnswersAreOwn NoSessionLeaks
PROPERTIES OnlyTheStalestGo EveryoneIsTold
CHECK_DEADLOCK FALSE
