SPECIFICATION Spec
CONSTANTS
    HostBig = FALSE
    Formats <- MCBothFormats
    Native <- MCNative
    Lists <- MCLists
    MaxRects = 4
    MaxContents = 2
    MaxFlight = 1
    MaxChanges = 2

INVARIANT FormatArrives
