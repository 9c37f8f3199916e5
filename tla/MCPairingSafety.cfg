SPECIFICATION Spec
CONSTANTS
    k1 = k1
    k2 = k2
    c1 = c1
    c2 = c2
    Challenges = {k1, k2}
    Certs = {c1, c2}
    NoCert = NoCert
    Withdrawn = Withdrawn
    NoRequest = NoRequest
    TTL = 1
    HISTORY_SECONDS = 1
    MAX_PENDING_PER_CHALLENGE = 2
    MAX_PENDING = 3
    MAX_CANDIDATES_PER_CHALLENGE = 2
    MaxTime = 2
    MaxCrashes = 1
    ClockSetBack = TRUE
SYMMETRY Symmetry
CHECK_DEADLOCK FALSE
INVARIANTS TrustOnlyApproved OneLivePerKey
PROPERTY ImplementsCodeTrust
