CONSTANTS
    p1 = p1
    p2 = p2
    Proc <- Procs
    NINODES = 3
    Names = {"x", "y"}
    Calls <- SomeCalls
SPECIFICATION Spec
SYMMETRY Symmetry
INVARIANTS RefsExact NoPanic TreeInv
