CONSTANTS
    NPROC = 7
    NOFILE = 6
    NFILE = 8
    NINODES = 14
    PIPESIZE = 2
    PHYSTOP = 7
    Sessions <- MCSessions
    Image <- MCImage
SPECIFICATION Spec
CHECK_DEADLOCK FALSE
PROPERTIES AllEnd
INVARIANTS ResultsRight SystemWhole
