CONSTANTS
    Limit = 3
    Window = 3
    None = None
    MaxStep = 2
    MaxNow = 9
    MaxCount = 4
SPECIFICATION Spec
CHECK_DEADLOCK FALSE
INVARIANTS
    IInv
    NeverTooMany
    WaitIsExact
    CheckedSlotsStayFree
