CONSTANTS
    Accounts = {a1, a2}
    Definitions <- MCDefinitions
    MAX_VERSIONS = 2
    MaxPolicies = 2
    MaxTime = 3
SYMMETRY AccountSymmetry
SPECIFICATION PolicySpec
INVARIANTS
    PolicyTypeOK
    SingleLineOfSuccession
PROPERTIES
    VersionsOnlyClose
\* The clock and the number of policies are bounded: the last state stops.
CHECK_DEADLOCK FALSE
