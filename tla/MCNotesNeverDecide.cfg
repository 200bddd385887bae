CONSTANTS
    Tasks <- MCTasks
    Width <- MCWidth
    QUOTE_MIN = 3
    QUOTE_CAP = 6
    MAX_QUOTES = 2
    NOTE_CAP = 3
SPECIFICATION Spec
INVARIANTS
    NotesNeverDecide
\* A behaviour is one answer: it ends when the finding is concluded.
CHECK_DEADLOCK FALSE
