CONSTANTS
    Subjects <- MCSubjects
SPECIFICATION Spec
INVARIANTS
    SkippingIsHarmless
    PartialReadingsAreFinal
    VerdictInLedgerRange
    ValidLeavesNothingOpen
    ReasonsExplainTheVerdict
\* A round ends.
CHECK_DEADLOCK FALSE
