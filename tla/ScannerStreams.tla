--------------------------- MODULE ScannerStreams ---------------------------
(***************************************************************************)
(* IBKR's scanner slots: scans run once (run_scanner) and scans kept open  *)
(* (subscribe_scanner) share them.  A scan run once opens a subscription,  *)
(* waits for its first rows and cancels it whatever happened; one that is  *)
(* kept is registered when its first rows came.  Request ids start again   *)
(* with each session.                                                      *)
(***************************************************************************)
EXTENDS Naturals, FiniteSets

CONSTANTS None, Caller, MaxScans, MaxIds, MaxSessions

ScannerAssumption ==
    /\ None \notin Caller /\ IsFiniteSet(Caller)
    /\ MaxScans \in Nat \ {0} /\ MaxIds \in Nat \ {0} /\ MaxSessions \in Nat

Id == 1..MaxIds

\* scan[c]: the scan of c, at "idle", "waiting" (for its first rows) or "open" (kept), with
\* the request id it holds (0 for none) and the session it was sent in; running: scans run
\* once, as the service counts them; live: whose request IBKR has under each id; session,
\* up, nextId: of the connection, bounded; hit: scans whose request another's cancel
\* stopped; raced: a scan was let in while another was being subscribed.
VARIABLES scan, running, live, session, up, nextId, hit, raced

vars == <<scan, running, live, session, up, nextId, hit, raced>>

-----------------------------------------------------------------------------
(* _ScanStream *)

Idle == [at |-> "idle", once |-> FALSE, id |-> 0, sentIn |-> 0]

\* close: an id of an earlier session is not cancelled, for it may be another's now.
Cancels(c) == scan[c].id # 0 /\ up /\ scan[c].sentIn = session

LiveWithout(c) == [id \in Id |-> IF Cancels(c) /\ id = scan[c].id THEN None ELSE live[id]]

Hits(c) == IF Cancels(c) /\ live[scan[c].id] \notin {None, c} THEN {live[scan[c].id]} ELSE {}

Send(c, at, once) ==
    /\ up /\ nextId <= MaxIds
    /\ nextId' = nextId + 1
    /\ scan' = [scan EXCEPT ![c] = [at |-> at, once |-> once, id |-> nextId, sentIn |-> session]]
    /\ live' = [LiveWithout(c) EXCEPT ![nextId] = c]
    /\ hit' = hit \cup Hits(c)
    /\ UNCHANGED <<session, up>>

\* A scan that ends: the slot a scan run once took is given back, then it is cancelled.
Ends(c) ==
    /\ scan' = [scan EXCEPT ![c] = Idle]
    /\ running' = IF scan[c].once THEN running - 1 ELSE running
    /\ live' = LiveWithout(c)
    /\ hit' = hit \cup Hits(c)
    /\ UNCHANGED <<session, up, nextId, raced>>

-----------------------------------------------------------------------------
(* ScannersService *)

Subscribed == Cardinality({c \in Caller : scan[c].at = "open"})

\* _ensure_scanner_slot
SlotFree == Subscribed + running < MaxScans

Subscribing == {c \in Caller : scan[c].at = "waiting" /\ ~scan[c].once}

\* run_scanner
RunScanner(c) ==
    /\ scan[c].at = "idle" /\ SlotFree /\ Send(c, "waiting", TRUE)
    /\ running' = running + 1 /\ raced' = (raced \/ Subscribing # {})

\* subscribe_scanner
SubscribeScanner(c) ==
    /\ scan[c].at = "idle" /\ SlotFree /\ Send(c, "waiting", FALSE)
    /\ raced' = (raced \/ Subscribing # {})
    /\ UNCHANGED running

\* The first rows, or message 165 that there are none (_on_update, _on_error).
FirstRows(c) ==
    /\ up /\ scan[c].at = "waiting" /\ live[scan[c].id] = c
    /\ IF scan[c].once THEN Ends(c)
       ELSE /\ scan' = [scan EXCEPT ![c].at = "open"]
            /\ UNCHANGED <<running, live, session, up, nextId, hit, raced>>

\* No rows in time, or the caller gave up.
TimeOut(c) == scan[c].at = "waiting" /\ Ends(c)

Unsubscribe(c) == scan[c].at = "open" /\ Ends(c)

\* reopen, of a kept scan: after the session came back, or IBKR lost its requests.
Reopen(c) == scan[c].at = "open" /\ Send(c, "open", FALSE) /\ UNCHANGED <<running, raced>>

-----------------------------------------------------------------------------
(* IBKR and the connection *)

\* IBKR refuses a scan (or ends it): a scan that waits ends with it.
Refuse(c) ==
    /\ up /\ scan[c].id # 0 /\ scan[c].sentIn = session /\ live[scan[c].id] = c
    /\ IF scan[c].at = "waiting" THEN Ends(c)
       ELSE /\ live' = [live EXCEPT ![scan[c].id] = None]
            /\ UNCHANGED <<scan, running, session, up, nextId, hit, raced>>

\* 1101: the session goes on without its requests.
DataLost ==
    /\ up /\ (\E id \in Id : live[id] # None)
    /\ live' = [id \in Id |-> None]
    /\ UNCHANGED <<scan, running, session, up, nextId, hit, raced>>

\* Every wait fails; each scan that waited then ends as by TimeOut.
Drop ==
    /\ up
    /\ up' = FALSE /\ live' = [id \in Id |-> None]
    /\ UNCHANGED <<scan, running, session, nextId, hit, raced>>

Connect ==
    /\ ~up /\ session < MaxSessions
    /\ up' = TRUE /\ session' = session + 1 /\ nextId' = 1
    /\ UNCHANGED <<scan, running, live, hit, raced>>

-----------------------------------------------------------------------------

Init ==
    /\ scan = [c \in Caller |-> Idle] /\ running = 0
    /\ live = [id \in Id |-> None] /\ session = 0 /\ up = TRUE /\ nextId = 1
    /\ hit = {} /\ raced = FALSE

Next ==
    \/ \E c \in Caller : RunScanner(c) \/ SubscribeScanner(c) \/ FirstRows(c) \/ TimeOut(c)
    \/ \E c \in Caller : Unsubscribe(c) \/ Reopen(c) \/ Refuse(c)
    \/ DataLost \/ Drop \/ Connect

Spec == Init /\ [][Next]_vars

-----------------------------------------------------------------------------
(* Invariants *)

TypeOK ==
    /\ scan \in [Caller -> [at : {"idle", "waiting", "open"}, once : BOOLEAN, id : 0..MaxIds,
                            sentIn : 0..MaxSessions]]
    /\ live \in [Id -> Caller \cup {None}] /\ hit \subseteq Caller
    /\ session \in 0..MaxSessions /\ nextId \in 1..(MaxIds + 1)
    /\ up \in BOOLEAN /\ raced \in BOOLEAN

\* IBKR never runs more scans than it allows, unless one was let in while another was
\* being subscribed: a scan is counted as subscribed only when its first rows came.
SlotsKept ==
    raced \/ Cardinality({id \in Id : live[id] # None}) <= MaxScans

\* Each scan run once gives its slot back, however it ends.
SlotsGivenBack == running = Cardinality({c \in Caller : scan[c].once /\ scan[c].at = "waiting"})

\* What IBKR runs is held by the scan it is for, waiting or kept: nothing is left running.
NothingLeftRunning ==
    \A id \in Id : live[id] # None =>
        scan[live[id]].id = id /\ scan[live[id]].sentIn = session /\ scan[live[id]].at # "idle"

\* Ending or re-requesting a scan never stops the request of another.
CancelsOnlyOwn == hit = {}

\* A session gives each id out once, and nothing runs while it is down.
IdsAreApart ==
    /\ \A c \in Caller : /\ scan[c].sentIn <= session
                         /\ scan[c].sentIn = session => scan[c].id < nextId
    /\ \A c, d \in Caller :
          scan[c].id # 0 /\ scan[c].id = scan[d].id
          /\ scan[c].sentIn = session /\ scan[d].sentIn = session => c = d
    /\ \A id \in Id : live[id] # None => up

\* A scan that is kept was not to run once; and no more scans wait or are kept than IBKR
\* allows, unless one was let in while another was being subscribed.
SlotsCounted ==
    /\ \A c \in Caller : scan[c].at = "open" => ~scan[c].once
    /\ raced \/ Cardinality({c \in Caller : scan[c].at # "idle"}) <= MaxScans

IInv ==
    /\ TypeOK /\ SlotsKept /\ SlotsGivenBack /\ NothingLeftRunning /\ CancelsOnlyOwn
    /\ IdsAreApart /\ SlotsCounted
=============================================================================
