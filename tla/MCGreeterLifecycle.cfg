SPECIFICATION FairSpec
CONSTANTS
    t1 = t1
    t2 = t2
    x1 = x1
    p1 = p1
    p2 = p2
    Main = Main
    None = None
    Tunnels <- MCTunnels
    Servers <- MCServers
    Pids <- MCPids
    PromptReuse = FALSE

INVARIANTS
    TypeOK
    NoDanglingGreeter
    MarkedIsDead
    KillHitsOwn
    LiveIsRegistered
PROPERTIES
    DeadGreeterIsNoticed
    MainServes
