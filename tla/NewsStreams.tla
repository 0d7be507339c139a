---------------------------- MODULE NewsStreams ----------------------------
(***************************************************************************)
(* Streams of live headlines.  ib_async drops the request id of a headline,*)
(* so a router (TickNewsRouter) hands each to the stream of its request.   *)
(* Ids start again with each session: a stream that still has an id of the *)
(* last session must not take, nor give up, what the id stands for now.    *)
(***************************************************************************)
EXTENDS Naturals, FiniteSets

CONSTANTS None, Feed, MaxIds, MaxSessions

NewsAssumption == None \notin Feed /\ MaxIds \in Nat \ {0} /\ MaxSessions \in Nat

Id == 1..MaxIds

\* stream[s]: at "closed", "opening" (IBKR has its second to refuse it) or "open", with
\* the request id it holds (0 for none), the session it was sent in and its error;
\* routes: of the router; live: whose request IBKR has under each id; session, up,
\* nextId: of the connection, bounded; astray: streams that got a headline of another, or
\* whose own was lost; hit: streams whose request another's cancel stopped.
VARIABLES stream, routes, live, session, up, nextId, astray, hit

vars == <<stream, routes, live, session, up, nextId, astray, hit>>

-----------------------------------------------------------------------------
(* Requests, as functions of the state before and the one they came from *)

Closed == [at |-> "closed", id |-> 0, sentIn |-> 0, error |-> FALSE]

\* Slip: an id is given up whoever has it now.
WithoutIdAlways(s) == [id \in Id |-> IF id = stream[s].id THEN None ELSE routes[id]]

\* remove: only what still goes to the stream.
WithoutId(s) == [id \in Id |-> IF id = stream[s].id /\ routes[id] = s THEN None ELSE routes[id]]

\* close: an id of an earlier session is not cancelled, for it may be another's now.
Cancels(s) == stream[s].id # 0 /\ up /\ stream[s].sentIn = session

LiveWithout(s) == [id \in Id |-> IF Cancels(s) /\ id = stream[s].id THEN None ELSE live[id]]

Hits(s) == IF Cancels(s) /\ live[stream[s].id] \notin {None, s} THEN {live[stream[s].id]} ELSE {}

\* open: a new id, routed to the stream before the request goes out.
Send(s, at) ==
    /\ up /\ nextId <= MaxIds
    /\ nextId' = nextId + 1
    /\ stream' = [stream EXCEPT ![s] = [at |-> at, id |-> nextId, sentIn |-> session, error |-> FALSE]]
    /\ routes' = [WithoutId(s) EXCEPT ![nextId] = s]
    /\ live' = [LiveWithout(s) EXCEPT ![nextId] = s]
    /\ hit' = hit \cup Hits(s)
    /\ UNCHANGED <<session, up, astray>>

\* open_and_check
Open(s) == stream[s].at = "closed" /\ Send(s, "opening")

\* No refusal in its second: the stream is kept.
GraceEnds(s) ==
    /\ stream[s].at = "opening" /\ ~stream[s].error
    /\ stream' = [stream EXCEPT ![s].at = "open"]
    /\ UNCHANGED <<routes, live, session, up, nextId, astray, hit>>

\* close: of a stream that is refused, cancelled or expires.
Close(s) ==
    /\ stream[s].at = "open" \/ (stream[s].at = "opening" /\ stream[s].error)
    /\ stream' = [stream EXCEPT ![s] = Closed]
    /\ routes' = WithoutId(s) /\ live' = LiveWithout(s)
    /\ hit' = hit \cup Hits(s)
    /\ UNCHANGED <<session, up, nextId, astray>>

\* reopen: after the session came back, or after IBKR lost its requests.
Reopen(s) == stream[s].at = "open" /\ Send(s, "open")

-----------------------------------------------------------------------------
(* IBKR and the connection *)

\* Another request takes an id, and IBKR refuses it.
OtherRequest ==
    /\ up /\ nextId <= MaxIds
    /\ nextId' = nextId + 1
    /\ stream' = [s \in Feed |-> IF stream[s].id = nextId THEN [stream[s] EXCEPT !.error = TRUE] ELSE stream[s]]
    /\ UNCHANGED <<routes, live, session, up, astray, hit>>

\* tick_news: to the stream the id is routed to, if any.
Headline(id) ==
    /\ up /\ live[id] # None
    /\ astray' = astray \cup (IF routes[id] = live[id] THEN {}
                              ELSE {live[id]} \cup (IF routes[id] = None THEN {} ELSE {routes[id]}))
    /\ UNCHANGED <<stream, routes, live, session, up, nextId, hit>>

\* A fatal error ends the request; every stream hears it, and knows its own id.
Refuse(id) ==
    /\ up /\ live[id] # None
    /\ live' = [live EXCEPT ![id] = None]
    /\ stream' = [s \in Feed |-> IF stream[s].id = id THEN [stream[s] EXCEPT !.error = TRUE] ELSE stream[s]]
    /\ UNCHANGED <<routes, session, up, nextId, astray, hit>>

\* 1101: the session goes on without its requests.
DataLost ==
    /\ up /\ (\E id \in Id : live[id] # None)
    /\ live' = [id \in Id |-> None]
    /\ UNCHANGED <<stream, routes, session, up, nextId, astray, hit>>

Drop ==
    /\ up
    /\ up' = FALSE /\ live' = [id \in Id |-> None]
    /\ UNCHANGED <<stream, routes, session, nextId, astray, hit>>

Connect ==
    /\ ~up /\ session < MaxSessions
    /\ up' = TRUE /\ session' = session + 1 /\ nextId' = 1
    /\ UNCHANGED <<stream, routes, live, astray, hit>>

-----------------------------------------------------------------------------

Init ==
    /\ stream = [s \in Feed |-> Closed]
    /\ routes = [id \in Id |-> None] /\ live = [id \in Id |-> None]
    /\ session = 0 /\ up = TRUE /\ nextId = 1
    /\ astray = {} /\ hit = {}

Next ==
    \/ \E s \in Feed : Open(s) \/ GraceEnds(s) \/ Close(s) \/ Reopen(s)
    \/ \E id \in Id : Headline(id) \/ Refuse(id)
    \/ OtherRequest \/ DataLost \/ Drop \/ Connect

Spec == Init /\ [][Next]_vars

-----------------------------------------------------------------------------
(* Invariants *)

TypeOK ==
    /\ stream \in [Feed -> [at : {"closed", "opening", "open"}, id : 0..MaxIds,
                            sentIn : 0..MaxSessions, error : BOOLEAN]]
    /\ routes \in [Id -> Feed \cup {None}] /\ live \in [Id -> Feed \cup {None}]
    /\ session \in 0..MaxSessions /\ up \in BOOLEAN /\ nextId \in 1..(MaxIds + 1)

\* Every headline reaches the stream whose request it is of, and no other, though the
\* ids of one session are those of the next.
HeadlinesFindTheirStream == astray = {}

\* Closing or re-requesting a stream never stops the request of another.
CancelsOnlyOwn == hit = {}

\* What IBKR goes on sending is held by the stream it is for: no request is left open
\* that nobody can cancel.
LiveIsHeld == \A id \in Id : live[id] # None => stream[live[id]].id = id /\ stream[live[id]].sentIn = session

\* What IBKR sends is routed to the stream that holds it.
Routed == \A id \in Id : live[id] # None => up /\ routes[id] = live[id]

\* A session gives each id out once.
IdsAreApart ==
    /\ \A s \in Feed : /\ stream[s].sentIn <= session
                       /\ stream[s].sentIn = session => stream[s].id < nextId
    /\ \A s, t \in Feed :
          stream[s].id # 0 /\ stream[s].id = stream[t].id
          /\ stream[s].sentIn = session /\ stream[t].sentIn = session => s = t

IInv ==
    /\ TypeOK /\ HeadlinesFindTheirStream /\ CancelsOnlyOwn /\ LiveIsHeld
    /\ Routed /\ IdsAreApart
=============================================================================
