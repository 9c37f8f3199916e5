SPECIFICATION FairSpec
CONSTANTS
    k1 = k1
    k2 = k2
    c1 = c1
    c2 = c2
    Challenges = {k1, k2}
    Certs = {c1}
    NoCert = NoCert
    Withdrawn = Withdrawn
    NoRequest = NoRequest
    TTL = 1
    HISTORY_SECONDS = 1
    MAX_PENDING_PER_CHALLENGE = 1
    MAX_PENDING = 2
    MAX_CANDIDATES_PER_CHALLENGE = 1
    MaxTime = 3
    MaxCrashes = 2
    ClockSetBack = FALSE
CHECK_DEADLOCK FALSE
PROPERTIES UntrustedSessionEnds BegunPairingFinishes
