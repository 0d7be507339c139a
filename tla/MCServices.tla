----------------------------- MODULE MCServices -----------------------------
(***************************************************************************)
(* The parts of the services that share no state, checked side by side:    *)
(* every behaviour is that of one part.  To those of AnswerParts and       *)
(* SessionParts come those that only calculate: each of their behaviours   *)
(* is one case, and no step.                                               *)
(***************************************************************************)
EXTENDS AnswerParts, SessionParts

VARIABLES case    \* what is calculated

-----------------------------------------------------------------------------
(* The parts that only calculate *)

OrderTerm == INSTANCE OrderTerms

Slices == INSTANCE OptionSlices

RowsOf == INSTANCE AccountRows

QuoteList == INSTANCE QuoteLists

Resolve == INSTANCE Resolving

Catalog == INSTANCE Catalogs

-----------------------------------------------------------------------------
(* One part at a time *)

Blank ==
    /\ IF part = "Shared" THEN TRUE
       ELSE hook = None /\ answered = None /\ online = None /\ abandoned = None
    /\ IF part \in {"Shared", "Cache"} THEN TRUE ELSE kind = None
    /\ IF part \in {"Shared", "Records", "Pnl", "Quote", "Updates", "Cache", "History",
                   "Lookups"} THEN TRUE
       ELSE calls = None
    /\ IF part \in {"Shared", "Records", "Pnl"} THEN TRUE ELSE keyLock = None
    /\ IF part \in {"Shared", "Records"} THEN TRUE ELSE future = None
    /\ IF part \in {"Shared", "Records", "Fa", "Updates"} THEN TRUE ELSE asked = None
    /\ IF part \in {"Shared", "Records", "Updates"} THEN TRUE ELSE sends = None
    /\ IF part = "Records" THEN TRUE
       ELSE readOnly = None /\ back = None /\ strays = None
    /\ IF part \in {"Records", "Updates"} THEN TRUE ELSE known = None
    /\ IF part \in {"Records", "Pnl", "Quote", "News", "Scanners", "Updates", "Cache",
                   "Bracket"} THEN TRUE
       ELSE up = None
    /\ IF part = "Fa" THEN TRUE
       ELSE /\ doing = None /\ attempt = None /\ got = None /\ basis = None
            /\ requestLock = None /\ replaceLock = None /\ awaited = None
            /\ pendingAnswer = None /\ answers = None /\ groups = None /\ replacing = None
            /\ reads = None /\ overtaken = None /\ lost = None
    /\ IF part = "Pnl" THEN TRUE
       ELSE position = None /\ subscribed = None /\ asserted = None
    /\ IF part \in {"Pnl", "Quote"} THEN TRUE ELSE filed = None
    /\ IF part \in {"Pnl", "Quote", "News", "Scanners"} THEN TRUE ELSE live = None
    /\ IF part \in {"Pnl", "Quote", "History", "Bracket"} THEN TRUE ELSE sent = None
    /\ IF part = "Quote" THEN TRUE
       ELSE /\ entry = None /\ stale = None /\ streams = None /\ openLock = None
            /\ pass = None /\ replaced = None
    /\ IF part \in {"Quote", "Previews"} THEN TRUE
       ELSE refused = None /\ losses = None
    /\ IF part = "News" THEN TRUE
       ELSE stream = None /\ routes = None /\ astray = None
    /\ IF part \in {"News", "Scanners", "Updates", "Cache"} THEN TRUE
       ELSE session = None
    /\ IF part \in {"News", "Scanners"} THEN TRUE ELSE nextId = None /\ hit = None
    /\ IF part = "Scanners" THEN TRUE
       ELSE scan = None /\ running = None /\ raced = None
    /\ IF part = "Updates" THEN TRUE
       ELSE knownIn = None /\ ended = None /\ target = None /\ late = None
    /\ IF part \in {"Updates", "Cache", "Modify"} THEN TRUE ELSE lock = None
    /\ IF part = "Cache" THEN TRUE
       ELSE slot = None /\ requested = None /\ fetches = None
    /\ IF part = "History" THEN TRUE
       ELSE now = None /\ window = None /\ bursts = None /\ started = None
    /\ IF part \in {"History", "Lookups"} THEN TRUE ELSE cached = None
    /\ IF part \in {"History", "Bracket"} THEN TRUE ELSE told = None
    /\ IF part = "Modify" THEN TRUE
       ELSE /\ pc = None /\ purpose = None /\ modified = None /\ original = None
            /\ fillsSeen = None /\ termsBefore = None /\ logStart = None /\ woken = None
            /\ echoed = None /\ modifyOutcome = None /\ terms = None /\ status = None
            /\ fills = None /\ log = None /\ toIbkr = None /\ news = None /\ fate = None
            /\ overlapped = None
    /\ IF part \in {"Modify", "Lookups"} THEN TRUE ELSE ibkr = None
    /\ IF part = "Bracket" THEN TRUE
       ELSE /\ stage = None /\ placed = None /\ tradesShown = None /\ book = None
            /\ partial = None /\ verdict = None /\ sweeper = None /\ swept = None
            /\ skipped = None /\ unanswered = None /\ complaint = None /\ knewFill = None
            /\ rejectedLate = None
    /\ IF part = "Previews" THEN TRUE
       ELSE /\ previews = None /\ taken = None /\ rule = None /\ ticker = None /\ link = None
            /\ records = None
    /\ IF part = "Lookups" THEN TRUE
       ELSE remembered = None /\ complaints = None /\ resets = None
    /\ IF part \in {"Login", "Worker"} THEN TRUE ELSE clock = None
    /\ IF part = "Login" THEN TRUE
       ELSE /\ fold = None /\ mtime = None /\ gateway = None /\ auto = None
            /\ atStart = None /\ since0 = None /\ paused = None /\ rounds = None
            /\ pushes = None /\ logins = None
    /\ IF part = "Worker" THEN TRUE
       ELSE reader = None /\ overdue = None /\ asks = None /\ readings = None

Init ==
    /\ \/ (AnswersInit \/ SessionsInit) /\ case = None
       \/ part = "Reading" /\ case \in Reading!Cases
       \/ part = "Durations" /\ case \in Catalog!DurationCases
       \/ part = "OrderTerm" /\ case \in OrderTerm!Cases
       \/ part = "Policy" /\ case \in OrderTerm!PolicyCases
       \/ part = "Grids" /\ case \in OrderTerm!GridCases
       \/ part = "Slices" /\ case \in Slices!SliceCases
       \/ part = "RowsOf" /\ case \in RowsOf!RowCases
       \/ part = "QuoteList" /\ case \in QuoteList!QuoteCases
       \/ part = "Resolve" /\ case \in Resolve!ResolvingCases
       \/ part = "Catalog" /\ case \in Catalog!CatalogCases
    /\ Blank

Next == (AnswersNext \/ SessionsNext) /\ UNCHANGED case

vars == <<part, named, case>>

Spec == Init /\ [][Next]_vars

-----------------------------------------------------------------------------
(* Properties, each of the parts that share its hazard *)

\* What only calculates does it right.  The gateway's log is read in one stretch and dated
\* right, and a health report says what it shows (LogReading).  A list is whole or told as
\* cut, and of what was asked for: contracts, chains, option slices, quotes, account rows,
\* headlines, events, and the spans of historical data; the terms of an order are on its
\* price increments and within bounds no fill can pass (Resolving, OptionSlices,
\* QuoteLists, AccountRows, Catalogs, OrderTerms).
CalculationsAreRight ==
    /\ part = "Reading" => Reading!ReadingRight(case)
    /\ part = "Resolve" => Resolve!ResolvingRight(case)
    /\ part = "Slices" => Slices!SlicesRight(case)
    /\ part = "QuoteList" => QuoteList!QuoteListRight(case)
    /\ part = "RowsOf" => RowsOf!RowsRight(case)
    /\ part = "Catalog" => Catalog!CatalogRight(case)
    /\ part = "Durations" => Catalog!DurationsRight(case)
    /\ part = "OrderTerm" => OrderTerm!TermsRight(case)
    /\ part = "Grids" => OrderTerm!GridRight(case)
    /\ part = "Policy" => OrderTerm!PolicyRight(case)
=============================================================================
