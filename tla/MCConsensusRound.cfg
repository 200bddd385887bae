CONSTANTS
    v1 = v1
    v2 = v2
    v3 = v3
    Validators <- MCValidators
    Subjects <- MCSubjects
    Notes <- MCNotes
    Deviations <- MCDeviations
    MaxRotations = 1
SPECIFICATION Spec
SYMMETRY Alike
CHECK_DEADLOCK FALSE
INVARIANTS
    RecordedVerdictIsEveryones
    RecordedQuotesWereSeen
    HonestAnswersAgree
    ErrorsAreShared
    NeverRefused
