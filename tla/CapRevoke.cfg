SPECIFICATION FairSpec
CONSTANTS
    Process = {p1}
    Resource = {r1}
    Operation = {READ, GRANT}
    RootOperations = {{READ, GRANT}}
    GRANT = GRANT
    NoEntry = NoEntry
    NoToken = NoToken
    MaxCapabilities = 3
    MaxTokens = 4
PROPERTIES
    RevokeIsComplete
