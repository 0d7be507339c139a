CONSTANTS
    Caller = {a, b}
    Pricing = {a}
    None = None
    MaxFills = 0
SPECIFICATION Spec
CHECK_DEADLOCK FALSE
INVARIANT RejectionIsOwn
