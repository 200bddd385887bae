CONSTANTS
    Documents = {d1, d2, d3}
    Urls = {u1, u2, u3}
    Definition <- MCDefinition
    CallEntries <- MCEntries
SYMMETRY MCSymmetry
SPECIFICATION Spec
INVARIANTS
    LoopIsAmendment
    CommittedDistinct
PROPERTIES
    NothingWithdrawn
