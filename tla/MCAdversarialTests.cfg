CONSTANTS
    i1 = i1
    i2 = i2
    u1 = u1
    u2 = u2
    n1 = n1
    Documents = {i1, i2}
    Urls = {u1, u2}
    Numbers = {n1}
    Accounts = {a1, a2}
    References = {r1}
    Content <- MCContent
    CallEntries <- MCEntries
    Definitions <- MCTerms
    MAX_VERSIONS = 2
    MaxPolicies = 1
    MaxTime = 1
    MAX_ROUNDS = 1
    MAX_CLAIMS_PER_VERSION = 1
    AdmissionOutcomes = {TRUE}
    MaxEntries = 1
    MaxClaims = 2
    Attacks <- MCAttacks
    Expectations <- MCExpectations
    ReportingWindow <- MCWindow
    WithinLimits <- AlwaysWithin
    MAX_TESTS_PER_VERSION = 1
    MaxTests = 2
SYMMETRY Symmetry
SPECIFICATION EngineSpec
INVARIANTS
    TestTypeOK
    TestsMeetWhatClaimsMeet
    EarliestCommitmentHolds
    WithinCapacity
PROPERTIES
    ResultsAreFinal
\* Claims, tests, policies and the clock are bounded: a run may stop.
CHECK_DEADLOCK FALSE
