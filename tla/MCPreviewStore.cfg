CONSTANTS
    Token = {t1, t2, t3}
    Preview = {p, q}
    None = None
    Ttl = 1
    MaxEntries = 2
    ClockSteps <- Steps
    MaxNow = 2
SYMMETRY Symmetry
SPECIFICATION Spec
CHECK_DEADLOCK FALSE
INVARIANTS
    IInv
    SingleUse
    AcceptsOnlyFresh
    ExplainsTruthfully
    ForgetsOnlyLate
    TablesBounded
PROPERTIES
    ImplementsTokenBook
