SPECIFICATION FairSpec
CONSTANTS
    Lengths <- MCLengths
    Headers <- MCHeaders
    BufferLength = 2

PROPERTY
    SelectSeesInput
