CONSTANTS
    Call = {c1, c2}
    Token = {t1, t2}
    Jobs <- PaperOrders
    None = None
    Threshold = 2
    OrderSize = 1
    MaxSlots = 2
    AllowLive = FALSE
    LiveConfirm = TRUE
    MaxResets = 0
    MaxLogins = 1
SPECIFICATION Spec
CHECK_DEADLOCK FALSE
INVARIANTS
    RejectionsHaltSubmission
