\* A screen of two lines of two cells, a buffer that can be filled.
CONSTANTS
    SIZE = 5
    SLACK = 1
    ROWS = 2
    COLS = 2
    TabLength = 2
    Texts <- MCTexts
    Patterns <- MCPatterns
    Sought = {"a"}
    Printable = {"a", "nl"}
    MaxEdits = 2
SPECIFICATION Spec
CONSTRAINT Explored
CHECK_DEADLOCK FALSE
PROPERTIES ComesBack
INVARIANTS EditorInv VersionsDiffer
