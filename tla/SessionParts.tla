---------------------------- MODULE SessionParts ----------------------------
(***************************************************************************)
(* The parts of the services that outlive a session of the connection or   *)
(* keep what came in one: streams, caches and the orders that go on moving *)
(* at IBKR, as instances over the names of ServiceState.                   *)
(***************************************************************************)
EXTENDS ServiceState

Quote == INSTANCE QuoteStreams

News == INSTANCE NewsStreams

Scanners == INSTANCE ScannerStreams WITH Caller <- Scanner, MaxIds <- MaxScanIds

Updates == INSTANCE AccountUpdates

Cache == INSTANCE SessionCache WITH MaxSessions <- MaxKeptSessions

Bracket == INSTANCE Brackets WITH shown <- tradesShown

Lookups == INSTANCE OrderLookups WITH
    Caller <- Single, cache <- cached, call <- calls, errors <- complaints

ASSUME SessionPartsAssumption ==
    /\ Quote!QuoteAssumption
    /\ News!NewsAssumption
    /\ Scanners!ScannerAssumption
    /\ Updates!UpdatesAssumption
    /\ Cache!CacheAssumption
    /\ Bracket!BracketAssumption
    /\ Lookups!LookupAssumption

-----------------------------------------------------------------------------
(* One part at a time *)

SessionsInit ==
    \/ part = "Quote" /\ Quote!Init
    \/ part = "News" /\ News!Init
    \/ part = "Scanners" /\ Scanners!Init
    \/ part = "Updates" /\ Updates!Init
    \/ part = "Cache" /\ Cache!Init
    \/ part = "Bracket" /\ Bracket!Init
    \/ part = "Lookups" /\ Lookups!Init

SessionsNext ==
    \/ /\ part = "Quote" /\ Quote!Next
       /\ UNCHANGED <<part, ofNews, ofScanners, ofUpdates, ofCache, ofBracket, ofLookups,
                      session, nextId, hit, kind, asked, sends, known, lock, cached, told,
                      ibkr, ofAnswers>>
    \/ /\ part = "News" /\ News!Next
       /\ UNCHANGED <<part, ofQuote, ofScanners, ofUpdates, ofCache, ofBracket, ofLookups,
                      kind, calls, asked, sends, known, filed, sent, lock, refused, losses,
                      cached, told, ibkr, ofAnswers>>
    \/ /\ part = "Scanners" /\ Scanners!Next
       /\ UNCHANGED <<part, ofQuote, ofNews, ofUpdates, ofCache, ofBracket, ofLookups, kind,
                      calls, asked, sends, known, filed, sent, lock, refused, losses,
                      cached, told, ibkr, ofAnswers>>
    \/ /\ part = "Updates" /\ Updates!Next
       /\ UNCHANGED <<part, ofQuote, ofNews, ofScanners, ofCache, ofBracket, ofLookups,
                      nextId, hit, kind, filed, live, sent, refused, losses, cached, told,
                      ibkr, ofAnswers>>
    \/ /\ part = "Cache" /\ Cache!Next
       /\ UNCHANGED <<part, ofQuote, ofNews, ofScanners, ofUpdates, ofBracket, ofLookups,
                      nextId, hit, asked, sends, known, filed, live, sent, refused, losses,
                      cached, told, ibkr, ofAnswers>>
    \/ /\ part = "Bracket" /\ Bracket!Next
       /\ UNCHANGED <<part, ofQuote, ofNews, ofScanners, ofUpdates, ofCache, ofLookups,
                      session, nextId, hit, kind, calls, asked, sends, known, filed, live,
                      lock, refused, losses, cached, ibkr, ofAnswers>>
    \/ /\ part = "Lookups" /\ Lookups!Next
       /\ UNCHANGED <<part, ofQuote, ofNews, ofScanners, ofUpdates, ofCache, ofBracket,
                      session, nextId, hit, kind, asked, sends, known, up, filed, live,
                      sent, lock, refused, losses, told, ofAnswers>>

sessionvars == <<part, named>>

SessionsSpec == SessionsInit /\ [][SessionsNext]_sessionvars

-----------------------------------------------------------------------------
(* Properties, each of the parts that share its hazard *)

\* What a session began is its own.  Streams of quotes, headlines and scans hold what
\* IBKR sends them and never take or stop another's, though ids start again with every
\* session (QuoteStreams, NewsStreams, ScannerStreams); what is kept is not used past
\* the session it came in (AccountUpdates, SessionCache).
SessionsAreApart ==
    /\ part = "Quote" => Quote!IInv
    /\ part = "News" => News!IInv
    /\ part = "Scanners" => Scanners!IInv
    /\ part = "Updates" => Updates!IInv
    /\ part = "Cache" => Cache!IInv

\* A bracket IBKR took in part is unwound while the session lasts: no entry works without
\* both exits, unless the answer says that it had begun to fill, or IBKR rejected one of the
\* orders after the wait.  A filled entry has no exit cancelled, unless the other one fills,
\* a cancel-all takes it, or the entry fills unheard of before IBKR takes the cancel that
\* the submit had sent.  A cancel-all skips only orders that are over, unless it asked IBKR
\* for the open ones in vain (Brackets).
BracketsAreWhole ==
    part = "Bracket" =>
        /\ Bracket!IInv /\ Bracket!NoNakedEntry /\ Bracket!ExitsOutliveTheFill
        /\ Bracket!SkippedIsOver

\* An order is found wherever it moves while it is looked for, and what is told of it,
\* or of its cancel, is so (OrderLookups).
OrdersAreFound == part = "Lookups" => Lookups!IInv
=============================================================================
