SPECIFICATION Spec
CONSTANTS
    t1 = t1
    t2 = t2
    c1 = c1
    c2 = c2
    Main = Main
    Nobody = Nobody
    NoSession = NoSession
    NoName = NoName
    alice = alice
    Tunnels <- MCTunnels
    Controllers <- MCControllers
    Names <- MCNames
    MaxSessions = 2
    MaxVersion = 2
    AlwaysShowGreeter = FALSE
SYMMETRY Symmetry

INVARIANTS
    TypeOK
    DestroyedAlone
    ManagerHolderRuns
    ReapedIsDelisted
    GreeterUpToDate
    WrongCountIsRepaired
PROPERTIES
    ImplementsLife
