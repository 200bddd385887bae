CONSTANTS
    i1 = i1
    i2 = i2
    t = t
    x = x
    u1 = u1
    u2 = u2
    u3 = u3
    n1 = n1
    Documents = {i1, t, x}
    Urls = {u1, u2, u3}
    Numbers = {n1}
    Accounts = {a1}
    References = {r1}
    Content <- MCContent
    CallEntries <- LifeEntries
    Definitions <- LifeTerms
    MAX_VERSIONS = 2
    MaxPolicies = 1
    MaxTime = 3
    MAX_ROUNDS = 3
    MAX_CLAIMS_PER_VERSION = 3
    AdmissionOutcomes = {TRUE, FALSE}
    MaxEntries = 1
    MaxClaims = 1
SPECIFICATION FairSpec
INVARIANTS
    TypeOK
    RoundsAreDisciplined
    JudgedEvidenceStays
    AcceptedWhileOpen
PROPERTIES
    RecordsAreFinal
    ConsumabilityNeverReturns
    PendingIsAnswered
\* Claims, policies, the clock and the rounds are bounded: a run may stop.
CHECK_DEADLOCK FALSE
