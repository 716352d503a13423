SPECIFICATION FairSpec
CONSTANTS
    Process = {p1, p2}
    Resource = {r1}
    Operation = {READ, GRANT}
    RootOperations = {{READ, GRANT}}
    GRANT = GRANT
    NoEntry = NoEntry
    NoToken = NoToken
    MaxCapabilities = 3
    MaxTokens = 4
INVARIANTS
    CapInv
    Attenuation
    RevocationReaches
    OwnerIndexAgrees
PROPERTIES
    RefusedForever
    RevokeReturns
