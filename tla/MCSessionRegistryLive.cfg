SPECIFICATION FairSpec
CONSTANTS
    t1 = t1
    t2 = t2
    c1 = c1
    c2 = c2
    Main = Main
    Nobody = Nobody
    NoSession = NoSession
    NoName = NoName
    alice = alice
    Tunnels <- MCOneTunnel
    Controllers <- MCTwoControllers
    Names <- MCNoNames
    MaxSessions = 2
    MaxVersion = 1
    AlwaysShowGreeter = TRUE

PROPERTIES
    ManagerLockIsReleased
    DeadSessionIsDelisted
