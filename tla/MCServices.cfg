CONSTANTS
    None = None
    Caller = {a, b}
    Single = {a}
    Own = {q}
    Foreign = {z}
    PreviewKinds = {"order", "oca", "modify", "exercise"}
    MaxPreviews = 2
    Scanner = {a, b, c}
    Advisor = {a, b}
    Reader = {q}
    First = first
    Other = other
    Account = {first, other}
    Home = first
    TickType = {q, z}
    Feed = {a, b}
    Series = {q, z}
    BidAsk = {z}
    PacingWindow = 3
    MaxPaced = 3
    Burst = 2
    MaxBurst = 2
    TTL = 2
    Slots = 1
    Timeout = 2
    MaxTime = 3
    MaxCalls = 3
    MaxSends = 4
    MaxLookups = 3
    MaxStrays = 1
    MaxReads = 1
    MaxSubscriptions = 3
    MaxStreams = 1
    MaxRequests = 4
    MaxLosses = 1
    MaxScans = 1
    MaxIds = 3
    MaxScanIds = 4
    MaxSessions = 2
    MaxKeptSessions = 3
    MaxFetches = 2
    MaxFills = 0
    MaxUnread = 1
    MaxPolls = 1
    MaxErrors = 1
    MaxResets = 1
    IdleAfter = 1
    TwofaSilence = 1
    Silence = 2
    Stall = 2
    ReadTimeout = 1
    MaxClock = 3
    MaxRounds = 2
    MaxReadings = 2
    MaxFiles = 3
    MaxTotal = 4
    MaxFile = 2
    MaxLines = 5
    MaxSegments = 2
SPECIFICATION Spec
CHECK_DEADLOCK FALSE
INVARIANTS
    AnswersAreOwn
    SessionsAreApart
    HistoryIsPaced
    ModificationsAreTrue
    BracketsAreWhole
    OverwritesWhatWasShown
    LogIsReadRight
    OrdersAreFound
    PreviewsAreChecked
    CalculationsAreRight
