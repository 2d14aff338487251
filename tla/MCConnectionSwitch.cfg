SPECIFICATION FairSpec
CONSTANTS
    s1 = s1
    s2 = s2
    s3 = s3
    Null = Null
    Sessions <- MCTwoSessions
    MaxConns = 3
    MaxCommands = 2

INVARIANTS
    TypeOK
    ConnectionsAreOwned
    DispatchIsCurrent
    GreeterIsOwned
PROPERTIES
    DeadGreeterEndsClient
    ImplementsClient
