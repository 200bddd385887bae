CONSTANTS
    i1 = i1
    i2 = i2
    t = t
    x = x
    u1 = u1
    u2 = u2
    u3 = u3
    n1 = n1
    Documents = {i1, t}
    Urls = {u1, u2}
    Numbers = {n1}
    Accounts = {a1}
    References = {r1, r2, r3}
    Content <- MCContent
    CallEntries <- TextEntries
    Definitions <- BriefTerms
    MAX_VERSIONS = 1
    MaxPolicies = 1
    MaxTime = 1
    MAX_ROUNDS = 1
    MAX_CLAIMS_PER_VERSION = 3
    AdmissionOutcomes = {TRUE}
    MaxEntries = 1
    MaxClaims = 3
SYMMETRY Symmetry
SPECIFICATION Spec
INVARIANTS
    NoDoubleDipping
CHECK_DEADLOCK FALSE
