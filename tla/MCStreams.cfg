SPECIFICATION FairSpec
CONSTANTS
    Lengths <- MCLengths
    Headers <- MCHeaders
    BufferLength = 2

INVARIANTS
    InOrderOnce
    MessagesStayWhole
PROPERTIES
    InputIsHandled
