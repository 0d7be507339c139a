CONSTANTS
    Call = {c1, c2, c3}
    Token = {t1, t2}
    Jobs <- LiveJobs
    None = None
    Threshold = 1
    OrderSize = 2
    MaxSlots = 2
    AllowLive = TRUE
    LiveConfirm = TRUE
    MaxResets = 1
    MaxLogins = 2
SYMMETRY Symmetry
SPECIFICATION Spec
CHECK_DEADLOCK FALSE
INVARIANTS
    IInv
    OneSubmitPerToken
PROPERTIES
    DeclinedIsFinal
    NewOrdersHaltWhileOpen
