---------------------------- MODULE ServiceState ----------------------------
(***************************************************************************)
(* The names of the parts of the services that theorems are about: what    *)
(* they are instantiated with, and whose their variables are.  No          *)
(* behaviour has more than one part, so parts that name a variable or a    *)
(* bound alike share it.  AnswerParts and SessionParts have the parts.     *)
(***************************************************************************)
CONSTANTS None, Caller, Scanner, Advisor, Reader, First, Other, Account, Home, TickType, Feed,
          Series, BidAsk, PacingWindow, MaxPaced, Burst, MaxBurst, TTL, Slots, Timeout, MaxTime,
          MaxCalls,
          Single,    \* a caller, alone
          Own, Foreign, PreviewKinds, MaxPreviews,
          MaxSends, MaxLookups, MaxStrays, MaxReads, MaxSubscriptions,    \* bounds of the parts
          MaxStreams, MaxRequests, MaxLosses, MaxScans, MaxIds, MaxScanIds,
          MaxSessions, MaxKeptSessions, MaxFetches, MaxFills, MaxUnread, MaxPolls, MaxErrors,
          MaxResets,
          IdleAfter, TwofaSilence, Silence, Stall, ReadTimeout,
          MaxClock, MaxRounds, MaxReadings, MaxFiles, MaxTotal, MaxFile, MaxLines, MaxSegments

VARIABLES part,    \* whose behaviour it is
          calls, keyLock, kind, future, hook, asked, answered, sends, online, abandoned,
          readOnly, known, up, back, strays,
          doing, attempt, got, basis, requestLock, replaceLock, awaited, pendingAnswer,
          answers, groups, replacing, reads, overtaken, lost,
          position, filed, live, sent, subscribed, asserted,
          entry, stale, streams, openLock, refused, pass, losses, replaced,
          stream, routes, session, nextId, astray, hit,
          scan, running, raced,
          knownIn, lock, ended, target, late,
          slot, requested, fetches,
          now, window, bursts, cached, told, started,
          pc, purpose, modified, original, fillsSeen, termsBefore, logStart, woken, echoed,
          modifyOutcome, terms, status, fills, log, toIbkr, news, ibkr, fate, overlapped,
          stage, placed, tradesShown, book, partial, verdict, sweeper, swept, skipped,
          unanswered, complaint, knewFill, rejectedLate,
          previews, taken, rule, ticker, link, records,
          remembered, complaints, resets,
          clock, fold, mtime, gateway, auto, atStart, since0, paused, rounds, pushes, logins,
          reader, overdue, asks, readings

-----------------------------------------------------------------------------
(* The variables that are one part's alone *)

ofShared == <<hook, answered, online, abandoned>>
ofRecords == <<readOnly, back, strays>>
ofFa == <<doing, attempt, got, basis, requestLock, replaceLock, awaited, pendingAnswer,
          answers, groups, replacing, reads, overtaken, lost>>
ofPnl == <<position, subscribed, asserted>>
ofHistory == <<now, window, bursts, started>>
ofModify == <<pc, purpose, modified, original, fillsSeen, termsBefore, logStart, woken,
              echoed, modifyOutcome, terms, status, fills, log, toIbkr, news, fate,
              overlapped>>
ofPreviews == <<previews, taken, rule, ticker, link, records>>
ofQuote == <<entry, stale, streams, openLock, pass, replaced>>
ofNews == <<stream, routes, astray>>
ofScanners == <<scan, running, raced>>
ofUpdates == <<knownIn, ended, target, late>>
ofCache == <<slot, requested, fetches>>
ofBracket == <<stage, placed, tradesShown, book, partial, verdict, sweeper, swept, skipped,
               unanswered, complaint, knewFill, rejectedLate>>
ofLookups == <<remembered, complaints, resets>>
ofLogin == <<fold, mtime, gateway, auto, atStart, since0, paused, rounds, pushes, logins>>
ofWorker == <<reader, overdue, asks, readings>>

ofLog == <<ofLogin, ofWorker, clock>>

\* The variables of the parts of either module, and those they share.
ofAnswers == <<ofShared, ofRecords, ofFa, ofPnl, ofHistory, ofModify, ofPreviews, ofLog,
               keyLock, future>>

ofSessions == <<ofQuote, ofNews, ofScanners, ofUpdates, ofCache, ofBracket, ofLookups,
                session, nextId, hit>>

ofBoth == <<kind, calls, asked, sends, known, up, filed, live, sent, lock, refused, losses, cached,
            told, ibkr>>

named == <<ofAnswers, ofSessions, ofBoth>>
=============================================================================
