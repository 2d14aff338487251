SPECIFICATION FairSpec
CONSTANTS
    Tokens <- MCTokens
    Offers <- MCOffers

INVARIANTS
    TypeOK
    CoverIsConfigured
    InStep
PROPERTIES
    HalvesFinish
\* The handshake ends.
CHECK_DEADLOCK FALSE
