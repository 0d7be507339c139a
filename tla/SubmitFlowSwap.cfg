CONSTANTS
    Call = {c1, c2}
    Token = {t1, t2}
    Jobs <- SwapJobs
    None = None
    Threshold = 1
    OrderSize = 1
    MaxSlots = 1
    AllowLive = TRUE
    LiveConfirm = TRUE
    MaxResets = 0
    MaxLogins = 2
SPECIFICATION FairSpec
CHECK_DEADLOCK FALSE
INVARIANTS
    LiveNeedsAHuman
    RightAccount
PROPERTIES
    SubmitReturns
