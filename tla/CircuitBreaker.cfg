CONSTANTS
    Caller = {c1, c2}
    Threshold = 3
    MaxOutcomes = 5
    MaxCrashes = 2
    MaxResets = 2
SPECIFICATION Spec
INVARIANTS
    IInv
    HaltedUntilReset
    ClosedLeavesNoFile
    OpensExactlyAtTheThreshold
    ResetsAreConfirmed
