SPECIFICATION FairSpec
CONSTANTS
    Controllers = {c}
    MaxSessions = 2
    Displays = {1}
    Addresses = {a}
    Greeted = {a}
    Signals = {"TERM"}
    approvalTries = 1

INVARIANTS
    TypeOK
    ControlsOwnSession
PROPERTIES
    ApprovedIsAdmitted
    
\* The server ends.
CHECK_DEADLOCK FALSE
