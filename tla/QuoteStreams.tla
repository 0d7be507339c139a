---------------------------- MODULE QuoteStreams ----------------------------
(***************************************************************************)
(* The quote stream of one contract: opened once, widened by later         *)
(* subscribers who ask for more generic ticks (rolled back when IBKR       *)
(* refuses them), re-requested after a reconnect or a loss of data (1101), *)
(* unsubscribed at any time, and read by quote snapshots while it flows.   *)
(*                                                                         *)
(* Streams and requests are numbered as they are made.  IBKR's messages    *)
(* carry the request's number; ib_async keeps one number per ticker, with  *)
(* which a cancel goes out.                                                *)
(***************************************************************************)
EXTENDS Naturals, FiniteSets

CONSTANTS Caller, TickType, None,
          MaxStreams, MaxRequests, MaxLosses    \* bound streams, requests, drops and 1101s

QuoteAssumption == {MaxStreams, MaxRequests} \subseteq Nat \ {0} /\ MaxLosses \in Nat /\ None \notin Caller

VARIABLES up,        \* the session
          entry,     \* the registered stream, 0 for none
          stale,     \* what the registry says of it
          streams,   \* every stream made so far
          calls,     \* the subscribe calls
          openLock,  \* who holds the registry's open lock
          filed,     \* the request ib_async has under the ticker, 0 for none
          live,      \* the requests IBKR streams
          refused,   \* requests whose refusal is still to be delivered
          sent,      \* requests so far
          pass,      \* the resubscribe pass: "none", "due", or the stream it found
          losses,
          replaced   \* history: requests a pass replaced without cancelling them

reg == <<entry, stale, openLock>>
wire == <<filed, live, refused, sent, replaced>>
qvars == <<up, entry, stale, streams, calls, openLock, filed, live, refused, sent, pass, losses, replaced>>

Call0 == [at |-> "idle", ticks |-> {}, stream |-> 0, before |-> {}]
Closed(s) == ~streams[s].listening

Call == [at : {"idle", "queued", "opening", "waiting", "widening", "done", "failed"},
         ticks : SUBSET TickType, stream : 0..MaxStreams, before : SUBSET TickType]

Stream == [ticks : SUBSET TickType, request : 1..MaxRequests,
           listening : BOOLEAN, failed : BOOLEAN, flows : BOOLEAN]

TypeOK ==
    /\ up \in BOOLEAN /\ stale \in BOOLEAN /\ entry \in {0} \cup DOMAIN streams
    /\ \E n \in 0..MaxStreams : streams \in [1..n -> Stream]
    /\ calls \in [Caller -> Call] /\ openLock \in Caller \cup {None}
    /\ sent \in 0..MaxRequests /\ filed \in 0..sent
    /\ DOMAIN live \subseteq 1..sent /\ refused \subseteq 1..sent
    /\ \A s \in DOMAIN streams : streams[s].request <= sent
    /\ pass \in {"none", "due", "found"} /\ losses \in 0..MaxLosses

Init ==
    /\ up = TRUE /\ entry = 0 /\ stale = FALSE /\ streams = <<>>
    /\ calls = [c \in Caller |-> Call0] /\ openLock = None
    /\ filed = 0 /\ live = <<>> /\ refused = {} /\ sent = 0 /\ pass = "none" /\ losses = 0
    /\ replaced = {}

Goes(c, where) == calls' = [calls EXCEPT ![c].at = where]
Without(f, ids) == [i \in DOMAIN f \ ids |-> f[i]]

-----------------------------------------------------------------------------
(* What a stream does *)

\* The request as ib_async sends it: a new number, filed under the ticker.
Requested(ticks) ==
    /\ sent < MaxRequests /\ sent' = sent + 1 /\ filed' = sent'
    /\ UNCHANGED refused

Asking(s, ticks) ==
    [streams[s] EXCEPT !.ticks = ticks, !.request = sent + 1, !.failed = FALSE]

\* cancel: no more listening, and the filed request is cancelled at IBKR.
Cancel(s) ==
    /\ streams' = [streams EXCEPT ![s].listening = FALSE]
    /\ live' = IF up THEN Without(live, {filed}) ELSE live
    /\ filed' = IF up THEN 0 ELSE filed
    /\ UNCHANGED <<refused, sent, replaced>>

\* _restart while connected: cancelled, then requested with the new ticks.
Restart(s, ticks) ==
    /\ Requested(ticks)
    /\ streams' = [streams EXCEPT ![s] = Asking(s, ticks)]
    /\ live' = [i \in (DOMAIN live \ {filed}) \cup {sent'} |-> IF i = sent' THEN ticks ELSE live[i]]
    /\ UNCHANGED replaced

\* _restart_or_raise with the socket gone: the ticks stay as they were.
NotSent(s, ticks) ==
    /\ streams' = [streams EXCEPT ![s].ticks = ticks]
    /\ UNCHANGED wire

-----------------------------------------------------------------------------
(* subscribe_quotes *)

Subscribe(c, ticks) ==
    /\ calls[c].at = "idle" /\ up      \* bound: each caller once
    /\ calls' = [calls EXCEPT ![c] = [Call0 EXCEPT !.at = "queued", !.ticks = ticks]]
    /\ UNCHANGED <<up, reg, streams, wire, pass, losses>>

\* Under the open lock: nothing is open yet.
Open(c) ==
    /\ calls[c].at = "queued" /\ openLock = None /\ entry = 0 /\ up
    /\ Cardinality(DOMAIN streams) < MaxStreams
    /\ Requested(calls[c].ticks)
    /\ LET s == Cardinality(DOMAIN streams) + 1
       IN /\ streams' = [i \in DOMAIN streams \cup {s} |->
                           IF i # s THEN streams[i]
                           ELSE [ticks |-> calls[c].ticks, request |-> sent', listening |-> TRUE,
                                 failed |-> FALSE, flows |-> FALSE]]
          /\ calls' = [calls EXCEPT ![c].at = "opening", ![c].stream = s]
    /\ live' = [i \in DOMAIN live \cup {sent'} |-> IF i = sent' THEN calls[c].ticks ELSE live[i]]
    /\ openLock' = c
    /\ UNCHANGED <<up, entry, stale, pass, losses, replaced>>

NotOpened(c) ==
    /\ calls[c].at = "queued" /\ openLock = None /\ entry = 0 /\ ~up
    /\ Goes(c, "failed") /\ UNCHANGED <<up, reg, streams, wire, pass, losses>>

\* settle ends: with data, an error, or neither in time.
Opened(c) ==
    /\ calls[c].at = "opening" /\ ~streams[calls[c].stream].failed
    /\ entry' = calls[c].stream /\ stale' = FALSE /\ openLock' = None
    /\ Goes(c, "done") /\ UNCHANGED <<up, streams, wire, pass, losses>>

OpenRefused(c) ==
    /\ calls[c].at = "opening" /\ streams[calls[c].stream].failed
    /\ Cancel(calls[c].stream) /\ openLock' = None
    /\ Goes(c, "failed") /\ UNCHANGED <<up, entry, stale, pass, losses>>

\* It is open already: the ticks it lacks are added.
Joins(c) ==
    /\ calls[c].at = "queued" /\ openLock = None /\ entry # 0
    /\ calls' = [calls EXCEPT ![c].at = IF calls[c].ticks = {} THEN "done" ELSE "waiting", ![c].stream = entry]
    /\ UNCHANGED <<up, reg, streams, wire, pass, losses>>

\* _widening, the stream's lock.
Free(s) == \A c \in Caller : ~(calls[c].at = "widening" /\ calls[c].stream = s)

HasAll(c) == calls[c].ticks \subseteq streams[calls[c].stream].ticks

Widen(c) ==
    /\ calls[c].at = "waiting" /\ Free(calls[c].stream)
    /\ ~HasAll(c) /\ ~Closed(calls[c].stream) /\ up
    /\ calls' = [calls EXCEPT ![c].at = "widening", ![c].before = streams[calls[c].stream].ticks]
    /\ Restart(calls[c].stream, streams[calls[c].stream].ticks \cup calls[c].ticks)
    /\ UNCHANGED <<up, reg, pass, losses>>

NothingToWiden(c) ==
    /\ calls[c].at = "waiting" /\ Free(calls[c].stream)
    /\ HasAll(c) \/ Closed(calls[c].stream)
    /\ Goes(c, "done") /\ UNCHANGED <<up, reg, streams, wire, pass, losses>>

CannotWiden(c) ==
    /\ calls[c].at = "waiting" /\ Free(calls[c].stream)
    /\ ~HasAll(c) /\ ~Closed(calls[c].stream) /\ ~up
    /\ NotSent(calls[c].stream, streams[calls[c].stream].ticks)
    /\ Goes(c, "failed") /\ UNCHANGED <<up, reg, pass, losses>>

Widened(c) ==
    /\ calls[c].at = "widening" /\ ~streams[calls[c].stream].failed
    /\ Goes(c, "done") /\ UNCHANGED <<up, reg, streams, wire, pass, losses>>

\* Refused: requested as it was before, unless it was unsubscribed meanwhile.
RollBack(c) ==
    /\ calls[c].at = "widening" /\ streams[calls[c].stream].failed
    /\ CASE Closed(calls[c].stream) -> UNCHANGED <<streams, wire>>
         [] ~Closed(calls[c].stream) /\ up -> Restart(calls[c].stream, calls[c].before)
         [] ~Closed(calls[c].stream) /\ ~up -> NotSent(calls[c].stream, calls[c].before)
    /\ Goes(c, "failed") /\ UNCHANGED <<up, reg, pass, losses>>

Unsubscribe ==
    /\ entry # 0 /\ entry' = 0
    /\ Cancel(entry) /\ UNCHANGED <<up, stale, openLock, calls, pass, losses>>

-----------------------------------------------------------------------------
(* IBKR and the session *)

\* An update of the ticker, which every stream that watches it takes for its own.
Data ==
    /\ live # <<>>
    /\ streams' = [s \in DOMAIN streams |->
                     IF streams[s].listening THEN [streams[s] EXCEPT !.flows = TRUE] ELSE streams[s]]
    /\ UNCHANGED <<up, reg, calls, wire, pass, losses>>

Refuse(i) ==
    /\ i \in DOMAIN live
    /\ live' = Without(live, {i}) /\ refused' = refused \cup {i}
    /\ UNCHANGED <<up, reg, streams, calls, filed, sent, replaced, pass, losses>>

\* _on_error: an error of the stream's own request.
Refused(i) ==
    /\ i \in refused /\ refused' = refused \ {i}
    /\ streams' = [s \in DOMAIN streams |->
                     IF streams[s].listening /\ streams[s].request = i
                     THEN [streams[s] EXCEPT !.failed = TRUE] ELSE streams[s]]
    /\ UNCHANGED <<up, reg, calls, filed, live, sent, replaced, pass, losses>>

Drop ==
    /\ up /\ losses < MaxLosses
    /\ up' = FALSE /\ losses' = losses + 1
    /\ live' = <<>> /\ refused' = {} /\ filed' = 0
    /\ stale' = (entry # 0) /\ UNCHANGED <<entry, openLock, streams, calls, sent, pass, replaced>>

\* The wait for the first data is shorter than a reconnect.
Connect ==
    /\ \A c \in Caller : calls[c].at \notin {"opening", "widening"}
    /\ ~up /\ up' = TRUE /\ pass' = "due"
    /\ UNCHANGED <<reg, streams, calls, wire, losses>>

\* 1101: IBKR lost the requests of the session.  (While an open is awaited the
\* pass does not see its stream: Subscriptions shows what becomes of it.)
Lost ==
    /\ up /\ openLock = None /\ losses < MaxLosses /\ losses' = losses + 1
    /\ live' = <<>> /\ pass' = "due"
    /\ UNCHANGED <<up, reg, streams, calls, filed, refused, sent, replaced>>

\* resubscribe_all goes through the entries it finds when it begins.
PassBegins ==
    /\ pass = "due" /\ pass' = IF entry = 0 THEN "none" ELSE "found"
    /\ UNCHANGED <<up, reg, streams, calls, wire, losses>>

\* The stream is requested again, without a cancel: IBKR is taken to have lost it.
Resubscribe ==
    /\ pass = "found" /\ entry # 0 /\ up
    /\ Requested(streams[entry].ticks)
    /\ streams' = [streams EXCEPT ![entry] = Asking(entry, streams[entry].ticks)]
    /\ live' = [i \in DOMAIN live \cup {sent'} |-> IF i = sent' THEN streams[entry].ticks ELSE live[i]]
    /\ replaced' = replaced \cup ({filed} \cap DOMAIN live)
    /\ stale' = FALSE /\ pass' = "none"
    /\ UNCHANGED <<up, entry, openLock, calls, losses>>

\* The socket is gone again: the stream is cancelled and forgotten.
CannotResubscribe ==
    /\ pass = "found" /\ entry # 0 /\ ~up
    /\ Cancel(entry) /\ entry' = 0 /\ stale' = TRUE
    /\ pass' = "none" /\ UNCHANGED <<up, openLock, calls, losses>>

Passed ==
    /\ pass = "found" /\ entry = 0 /\ pass' = "none"
    /\ UNCHANGED <<up, reg, streams, calls, wire, losses>>

Next ==
    \/ \E c \in Caller :
       \/ \E ticks \in SUBSET TickType : Subscribe(c, ticks)
       \/ Open(c) \/ NotOpened(c) \/ Opened(c) \/ OpenRefused(c) \/ Joins(c)
       \/ Widen(c) \/ NothingToWiden(c) \/ CannotWiden(c) \/ Widened(c) \/ RollBack(c)
    \/ Unsubscribe \/ Data \/ Drop \/ Connect \/ Lost
    \/ \E i \in 1..MaxRequests : Refuse(i) \/ Refused(i)
    \/ PassBegins \/ Resubscribe \/ CannotResubscribe \/ Passed

Spec == Init /\ [][Next]_qvars

-----------------------------------------------------------------------------
(* Properties *)

InUse(s) == s = entry \/ (openLock # None /\ calls[openLock].at = "opening" /\ calls[openLock].stream = s)

\* Everything IBKR streams is the stream in use, or was replaced by a pass: an
\* unsubscribe, a refusal or a roll-back leaves no request behind.
NoneLeftBehind ==
    \A i \in DOMAIN live \ replaced : \E s \in DOMAIN streams : InUse(s) /\ streams[s].request = i

\* Generic ticks a subscriber was granted stay in the stream, whatever others
\* are refused afterwards, and are what IBKR was asked for.
GrantedIsKept ==
    /\ \A c \in Caller : calls[c].at = "done" /\ entry # 0 /\ calls[c].stream = entry =>
                            calls[c].ticks \subseteq streams[entry].ticks
    /\ entry # 0 /\ streams[entry].request \in DOMAIN live =>
          live[streams[entry].request] = streams[entry].ticks

\* _live_quote: a snapshot answered from the stream (quotes needs the session).
LiveQuote == up /\ entry # 0 /\ streams[entry].flows /\ ~streams[entry].failed /\ ~stale

\* A snapshot is answered from the stream only while IBKR streams it: what it
\* lost or refused is about to be noticed.
LiveIsStreamed ==
    LiveQuote => \/ streams[entry].request \in DOMAIN live \cup refused
                 \/ pass # "none"

\* A stream is listened to while it is open or being opened, and no longer.
Listened == \A s \in DOMAIN streams : streams[s].listening <=> InUse(s)

\* What is being opened is nobody else's, is all there is, and waits for an answer.
OpensAlone ==
    /\ openLock # None => calls[openLock].at = "opening"
    /\ \A c \in Caller : calls[c].at = "opening" =>
          /\ openLock = c /\ entry = 0 /\ calls[c].stream \in DOMAIN streams
          /\ calls[c].ticks = streams[calls[c].stream].ticks
          /\ \A d \in Caller \ {c} : calls[d].stream # calls[c].stream
          /\ (up /\ ~streams[calls[c].stream].failed =>
                streams[calls[c].stream].request \in DOMAIN live \cup refused)

\* The request under the ticker is that of a stream that is listened to; IBKR streams no
\* other, but what a pass replaced, and none while the session is down.
FiledIsHeld ==
    /\ filed # 0 =>
          \E s \in DOMAIN streams : streams[s].listening /\ streams[s].request = filed
    /\ DOMAIN live \ replaced \subseteq {filed}
    /\ ~up => filed = 0 /\ DOMAIN live = {}

\* IBKR streams the ticks a stream has now.
TicksAreStreamed ==
    \A s \in DOMAIN streams :
       streams[s].listening /\ streams[s].request \in DOMAIN live =>
          live[streams[s].request] = streams[s].ticks

\* A stream is widened for one caller at a time, who knows what the others were granted.
WidenedAlone ==
    \A c \in Caller :
       /\ calls[c].stream \in {0} \cup DOMAIN streams
       /\ calls[c].at \in {"waiting", "widening", "done"} => calls[c].stream # 0
       /\ calls[c].at = "done" /\ streams[calls[c].stream].listening =>
             calls[c].ticks \subseteq streams[calls[c].stream].ticks
       /\ calls[c].at = "widening" =>
             /\ calls[c].ticks \subseteq streams[calls[c].stream].ticks
             /\ \A d \in Caller \ {c} : calls[d].stream = calls[c].stream =>
                   /\ calls[d].at # "widening"
                   /\ (calls[d].at = "done" /\ streams[calls[c].stream].listening =>
                         calls[d].ticks \subseteq calls[c].before)

\* What a session or IBKR took from the stream that is open shows, or a pass is to come.
LossIsNoticed ==
    up /\ entry # 0 /\ ~streams[entry].failed /\ ~stale =>
        streams[entry].request \in DOMAIN live \cup refused \/ pass # "none"

IInv ==
    /\ TypeOK /\ NoneLeftBehind /\ GrantedIsKept /\ LiveIsStreamed
    /\ Listened /\ OpensAlone /\ FiledIsHeld /\ TicksAreStreamed /\ WidenedAlone
    /\ LossIsNoticed
=============================================================================
