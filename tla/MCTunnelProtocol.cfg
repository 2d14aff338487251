SPECIFICATION FairSpec
CONSTANTS
    HostBig = FALSE
    Formats <- MCFormats
    Native <- MCNative
    Lists <- MCLists
    MaxRects = 4
    MaxContents = 2
    MaxFlight = 1
    MaxChanges = 2

INVARIANTS
    TypeOK
    AnnouncedIsSent
    NeverUnasked
    MeasuredAsSent
    TightStreamsMatch
    ServerInSync
PROPERTIES
    RequestIsAnswered
