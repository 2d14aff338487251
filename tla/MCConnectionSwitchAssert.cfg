SPECIFICATION Spec
CONSTANTS
    s1 = s1
    s2 = s2
    s3 = s3
    Null = Null
    Sessions <- MCSessions
    MaxConns = 3
    MaxCommands = 2

INVARIANTS
    DisconnectIsCounted
