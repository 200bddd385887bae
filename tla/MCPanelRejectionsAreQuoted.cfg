CONSTANTS
    Subjects <- MCSubjects
SPECIFICATION Spec
INVARIANTS
    PanelRejectionsAreQuoted
\* A round ends.
CHECK_DEADLOCK FALSE
