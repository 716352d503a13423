SPECIFICATION Spec
CONSTANTS
    a = a
    b = b
    c = c
    x = x
    y = y
    Tokens = {a, b, c}
    Callers = {x, y}
    NoToken = NoToken
    Bits = {1, 2}
    bits <- MCBits
    use_bloom_filter = TRUE
    default_cascade = FALSE
    Registrations <- MCRegistrations
    Revocations <- MCRevocations
    Lookups = {b, c}
    Durations = {0}
    MaxChildren = 1
    MaxTime = 1
SYMMETRY Symmetry
INVARIANTS
    RevocationInv
    RevokeReaches
    RevokedForGood
    ExpiryNotLost
