CONSTANTS
    i1 = i1
    i2 = i2
    t = t
    x = x
    u1 = u1
    u2 = u2
    u3 = u3
    n1 = n1
    Documents = {i1, i2}
    Urls = {u1, u2}
    Numbers = {n1}
    Accounts = {a1, a2}
    References = {r1, r2}
    Content <- MCContent
    CallEntries <- EditionEntries
    Definitions <- LifeTerms
    MAX_VERSIONS = 1
    MaxPolicies = 1
    MaxTime = 2
    MAX_ROUNDS = 2
    MAX_CLAIMS_PER_VERSION = 3
    AdmissionOutcomes = {TRUE}
    MaxEntries = 1
    MaxClaims = 2
SYMMETRY Symmetry
SPECIFICATION Spec
INVARIANTS
    RegistrySupport
    EarliestCommitmentHolds
PROPERTIES
    ConsumabilityNeverReturns
    KeepsPromise
\* Claims, policies, the clock and the rounds are bounded: a run may stop.
CHECK_DEADLOCK FALSE
