---------------------------- MODULE AnswerParts -----------------------------
(***************************************************************************)
(* The parts of the services that must tell the answers and messages they  *)
(* get apart: requests and reports, pacing, previews and modifications,    *)
(* and the lines of the gateway's log, as instances over the names of      *)
(* ServiceState.                                                           *)
(***************************************************************************)
EXTENDS ServiceState

Shared == INSTANCE SharedRequests

Records == INSTANCE OrderRecords WITH MaxSends <- MaxLookups

Fa == INSTANCE FaConfig

Pnl == INSTANCE PnlReadings

History == INSTANCE HistoricalRequests

Modify == INSTANCE Modifications WITH
    Pricing <- Single, before <- termsBefore, start <- logStart, outcome <- modifyOutcome

Previews == INSTANCE PreviewSteps WITH
    Kinds <- PreviewKinds, step <- previews, slots <- taken

Login == INSTANCE LoginPhases WITH MaxTime <- MaxClock, now <- clock

Reading == INSTANCE LogReading WITH
    Timeout <- ReadTimeout, MaxTime <- MaxClock, MaxReads <- MaxReadings, running <- reader

ASSUME AnswerPartsAssumption ==
    /\ Shared!SharedAssumption
    /\ Records!RecordsAssumption
    /\ Fa!FaAssumption
    /\ Pnl!PnlAssumption
    /\ History!HistoryAssumption
    /\ Modify!ModifyAssumption
    /\ Previews!PreviewAssumption
    /\ Login!LogAssumption
    /\ Reading!ReadingAssumption

-----------------------------------------------------------------------------
(* One part at a time *)

AnswersInit ==
    \/ part = "Shared" /\ Shared!Init
    \/ part = "Records" /\ Records!Init
    \/ part = "Fa" /\ Fa!Init
    \/ part = "Pnl" /\ Pnl!Init
    \/ part = "History" /\ History!Init
    \/ part = "Modify" /\ Modify!Init
    \/ part = "Previews" /\ Previews!Init
    \/ part = "Login" /\ Login!Init
    \/ part = "Worker" /\ Reading!Init

AnswersNext ==
    \/ /\ part = "Shared" /\ Shared!Next
       /\ UNCHANGED <<part, ofLog, ofRecords, ofFa, ofPnl, ofHistory, ofModify, ofPreviews, known,
                      up, filed, live, sent, lock, refused, losses, cached, told, ibkr,
                      ofSessions>>
    \/ /\ part = "Records" /\ Records!Next
       /\ UNCHANGED <<part, ofLog, ofShared, ofFa, ofPnl, ofHistory, ofModify, ofPreviews, kind,
                      filed, live, sent, lock, refused, losses, cached, told, ibkr,
                      ofSessions>>
    \/ /\ part = "Fa" /\ Fa!Next
       /\ UNCHANGED <<part, ofLog, ofShared, ofRecords, ofPnl, ofHistory, ofModify, ofPreviews,
                      keyLock, future, kind, calls, sends, known, up, filed, live, sent,
                      lock, refused, losses, cached, told, ibkr, ofSessions>>
    \/ /\ part = "Pnl" /\ Pnl!Next
       /\ UNCHANGED <<part, ofLog, ofShared, ofRecords, ofFa, ofHistory, ofModify, ofPreviews,
                      future, kind, asked, sends, known, lock, refused, losses, cached,
                      told, ibkr, ofSessions>>
    \/ /\ part = "History" /\ History!Next
       /\ UNCHANGED <<part, ofLog, ofShared, ofRecords, ofFa, ofPnl, ofModify, ofPreviews, keyLock,
                      future, kind, asked, sends, known, up, filed, live, lock, refused,
                      losses, ibkr, ofSessions>>
    \/ /\ part = "Modify" /\ Modify!Next
       /\ UNCHANGED <<part, ofLog, ofShared, ofRecords, ofFa, ofPnl, ofHistory, ofPreviews,
                      keyLock, future, kind, calls, asked, sends, known, up, filed, live,
                      sent, refused, losses, cached, told, ofSessions>>
    \/ /\ part = "Previews" /\ Previews!Next
       /\ UNCHANGED <<part, ofLog, ofShared, ofRecords, ofFa, ofPnl, ofHistory, ofModify, keyLock,
                      future, kind, calls, asked, sends, known, up, filed, live, sent, lock,
                      cached, told, ibkr, ofSessions>>
    \/ /\ part = "Login" /\ Login!Next
       /\ UNCHANGED <<part, ofWorker, ofShared, ofRecords, ofFa, ofPnl, ofHistory, ofModify,
                      ofPreviews, keyLock, future, ofBoth, ofSessions>>
    \/ /\ part = "Worker" /\ Reading!Next
       /\ UNCHANGED <<part, ofLogin, ofShared, ofRecords, ofFa, ofPnl, ofHistory, ofModify,
                      ofPreviews, keyLock, future, ofBoth, ofSessions>>

answervars == <<part, named>>

AnswersSpec == AnswersInit /\ [][AnswersNext]_answervars

-----------------------------------------------------------------------------
(* Properties, each of the parts that share its hazard *)

\* Every answer is its caller's own.  Requests that IBKR answers without an id are
\* asked one at a time (SharedRequests); a refusal is taken by the call it is about
\* (OrderRecords); an FA document answers what was asked (FaConfig); a P&L reading is of
\* the position it was asked for (PnlReadings).
AnswersAreOwn ==
    /\ part = "Shared" => Shared!IInv
    /\ part = "Records" => Records!IInv
    /\ part = "Fa" => Fa!IInv
    /\ part = "Pnl" => Pnl!IInv

\* A replacement of the FA groups overwrites nothing but what its preview showed
\* (FaConfig).
OverwritesWhatWasShown == part = "Fa" => Fa!OverwritesWhatWasShown

\* IBKR's pacing limits for historical data are kept, a caller told to wait waits long
\* enough, and a timeout is told from an empty answer (HistoricalRequests).
HistoryIsPaced ==
    part = "History" => History!IInv

\* A modification is reported rejected only for an error of its own while it is alone,
\* and the terms the cache shows in the end are IBKR's (Modifications).
ModificationsAreTrue ==
    part = "Modify" => Modify!IInv

\* What gets a token was checked: IBKR took its what-ifs, its prices fit the market rule
\* or the rule was asked for in vain, it is within the limits, if need be by a reference
\* price, and it held a slot of the preview limit (PreviewSteps).
PreviewsAreChecked == part = "Previews" => Previews!IInv

\* The phase a log shows is its gateway's, and the hint asks for what the login needs
\* (LoginPhases); no call waits behind a reading of it that hangs (LogReading).
LogIsReadRight ==
    /\ part = "Login" => Login!IInv
    /\ part = "Worker" => Reading!IInv
=============================================================================
