SPECIFICATION Spec
CONSTANTS
    Caller = {a, b, c}
    None = None
    quote = quote
    bars1 = bars1
    bars2 = bars2
    scan = scan
    live = live
    Key <- MCKey
    Ticker = {quote}
    Bars <- MCBars
    Scan = {scan}
    Live = {live}
    Capped = {scan}
    KindCap = 1
    MaxSubscriptions = 2
    MaxLosses = 2
CHECK_DEADLOCK FALSE
INVARIANTS
    IInv
    FrozenOnlyIfOvertaken
    LeaksOnlyByReRequest
SYMMETRY Symmetry
