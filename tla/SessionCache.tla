---------------------------- MODULE SessionCache ----------------------------
(***************************************************************************)
(* Answers kept for one gateway session: the market depth exchanges, the   *)
(* scanner parameters, the news providers and the Wall Street Horizon      *)
(* (WSH) metadata, without which IBKR refuses the WSH events of a session. *)
(*                                                                         *)
(* Every kind has one slot [label, from]: the session it is kept under and *)
(* (history) the one that answered.  connected_since is the number of the  *)
(* session.                                                                *)
(***************************************************************************)
EXTENDS Naturals, FiniteSets

CONSTANTS Caller, None,
          MaxSessions, MaxFetches    \* bound the sessions and the requests

CacheAssumption == {MaxSessions, MaxFetches} \subseteq Nat \ {0} /\ None \notin Caller

VARIABLES kind,      \* "depth", "catalog", "providers" or "events"
          session, up,
          slot,
          lock,      \* holder of the kind's lock
          calls,     \* what each call is at, the session it saw, what it got
          requested, \* sessions in which IBKR answered a request for the metadata
          fetches    \* history: the sessions of the requests answered

cvars == <<kind, session, up, slot, lock, calls, requested, fetches>>

Empty == [label |-> 0, from |-> 0]
Call0 == [at |-> "idle", began |-> 0, saw |-> 0, got |-> 0, retried |-> FALSE]

Call == [at : {"idle", "queued", "asking", "ready", "done", "failed", "refused"},
         began : 0..MaxSessions, saw : 0..MaxSessions, got : 0..MaxSessions, retried : BOOLEAN]

TypeOK ==
    /\ kind \in {"depth", "catalog", "providers", "events"}
    /\ session \in 1..MaxSessions /\ up \in BOOLEAN
    /\ slot \in [label : 0..MaxSessions, from : 0..MaxSessions]
    /\ lock \in Caller \cup {None}
    /\ calls \in [Caller -> Call]
    /\ requested \subseteq 1..MaxSessions /\ fetches \in [1..MaxSessions -> Nat]

Init ==
    /\ kind \in {"depth", "catalog", "providers", "events"}
    /\ session = 1 /\ up = TRUE /\ slot = Empty /\ lock = None
    /\ calls = [c \in Caller |-> Call0]
    /\ requested = {} /\ fetches = [s \in 1..MaxSessions |-> 0]

Answers == fetches[session] < MaxFetches

-----------------------------------------------------------------------------
(* What is kept *)

\* Kept under the session the call saw: for the exchanges and the metadata the
\* one that is up, for the others the one that was up when it was called.
Usable(c) ==
    /\ slot # Empty
    /\ slot.label = IF kind \in {"depth", "events"} THEN session ELSE calls[c].saw

\* What a call goes on to with an answer: the caller, or its request for events.
After == IF kind = "events" THEN "ready" ELSE "done"

-----------------------------------------------------------------------------
(* A call *)

New == [Call0 EXCEPT !.began = session, !.saw = session]

\* What is kept answers at once.  The exchanges are only looked up in the lock,
\* and a listing of the providers always asks.
AskKept(c) ==
    /\ calls[c].at \in {"idle", "done", "failed", "refused"} /\ up
    /\ kind # "depth" /\ slot # Empty /\ slot.label = session
    /\ calls' = [calls EXCEPT ![c] = [New EXCEPT !.at = After, !.got = slot.from]]
    /\ UNCHANGED <<kind, session, up, slot, lock, requested, fetches>>

Ask(c) ==
    /\ calls[c].at \in {"idle", "done", "failed", "refused"} /\ up
    /\ kind \in {"depth", "providers"} \/ slot = Empty \/ slot.label # session
    /\ calls' = [calls EXCEPT ![c] = [New EXCEPT !.at = "queued"]]
    /\ UNCHANGED <<kind, session, up, slot, lock, requested, fetches>>

\* With the lock, a caller before may have fetched it; the providers are asked
\* for all the same.
Found(c) ==
    /\ calls[c].at = "queued" /\ lock = None /\ up
    /\ kind # "providers" /\ Usable(c)
    /\ calls' = [calls EXCEPT ![c].at = After, ![c].got = slot.from]
    /\ UNCHANGED <<kind, session, up, slot, lock, requested, fetches>>

Request(c) ==
    /\ calls[c].at = "queued" /\ lock = None /\ up
    /\ kind = "providers" \/ ~Usable(c)
    /\ lock' = c
    /\ calls' = [calls EXCEPT ![c].at = "asking",
                              ![c].saw = IF kind = "depth" THEN session ELSE @]
    /\ UNCHANGED <<kind, session, up, slot, requested, fetches>>

Answer(c) ==
    /\ calls[c].at = "asking" /\ up /\ Answers
    /\ slot' = [label |-> calls[c].saw, from |-> session]
    /\ requested' = requested \cup {session}
    /\ fetches' = [fetches EXCEPT ![session] = @ + 1]
    /\ calls' = [calls EXCEPT ![c].at = After, ![c].got = session]
    /\ lock' = None /\ UNCHANGED <<kind, session, up>>

\* A timeout, an error, or no session any more.
Fail(c) ==
    /\ \/ calls[c].at = "asking"
       \/ calls[c].at = "queued" /\ lock = None /\ ~up
       \/ calls[c].at = "ready" /\ ~up
    /\ calls' = [calls EXCEPT ![c].at = "failed"]
    /\ lock' = IF lock = c THEN None ELSE lock
    /\ UNCHANGED <<kind, session, up, slot, requested, fetches>>

\* The request for events: once more with new metadata when IBKR misses them.
Events(c) ==
    /\ calls[c].at = "ready" /\ up /\ session \in requested
    /\ calls' = [calls EXCEPT ![c].at = "done"]
    /\ UNCHANGED <<kind, session, up, slot, lock, requested, fetches>>

EventsMissing(c) ==
    /\ calls[c].at = "ready" /\ up /\ session \notin requested
    /\ IF calls[c].retried
       THEN calls' = [calls EXCEPT ![c].at = "refused"] /\ UNCHANGED slot
       ELSE /\ calls' = [calls EXCEPT ![c].at = "queued", ![c].saw = session, ![c].retried = TRUE]
            /\ slot' = [slot EXCEPT !.label = 0]
    /\ UNCHANGED <<kind, session, up, lock, requested, fetches>>

Drop ==
    /\ up /\ up' = FALSE
    /\ calls' = [c \in Caller |-> IF calls[c].at = "asking" THEN [calls[c] EXCEPT !.at = "failed"]
                                  ELSE calls[c]]
    /\ lock' = None /\ UNCHANGED <<kind, session, slot, requested, fetches>>

Connect ==
    /\ ~up /\ session < MaxSessions /\ up' = TRUE /\ session' = session + 1
    /\ UNCHANGED <<kind, slot, lock, calls, requested, fetches>>

Next ==
    \/ \E c \in Caller : \/ AskKept(c) \/ Ask(c) \/ Found(c) \/ Request(c) \/ Answer(c)
                         \/ Fail(c) \/ Events(c) \/ EventsMissing(c)
    \/ Drop \/ Connect

Spec == Init /\ [][Next]_cvars

-----------------------------------------------------------------------------
(* Properties *)

\* Nothing is kept under a session later than the one that answered, and no call
\* gets what a session before its own answered.
FreshEnough ==
    /\ slot.label <= slot.from
    /\ \A c \in Caller : calls[c].got # 0 => calls[c].got >= calls[c].began

\* The market depth exchanges are fetched once a session, whoever asks.
DepthOnce == kind = "depth" => \A s \in 1..MaxSessions : fetches[s] <= 1

\* A request for events fails for want of metadata only when the session has
\* changed since it got them, twice.
RefusedAfterChange ==
    \A c \in Caller : calls[c].at = "refused" => calls[c].retried /\ calls[c].saw < session

\* The lock is its who asks; only the events have a second request; and no call saw a
\* session before it began, nor one to come.
Locked ==
    \A c \in Caller : /\ calls[c].at = "asking" => lock = c /\ up
                      /\ calls[c].at = "ready" => kind = "events"
                      /\ calls[c].began <= calls[c].saw /\ calls[c].saw <= session

\* What is kept was answered in a session that has been, which has its metadata then.
SlotFits == /\ slot.from <= session /\ (slot.from # 0 => slot.from \in requested)
            /\ \A c \in Caller : calls[c].at = "ready" /\ calls[c].saw = session =>
                                      session \in requested

\* The exchanges that were fetched in this session are kept under it.
DepthKept ==
    /\ \A s \in 1..MaxSessions : s > session => fetches[s] = 0
    /\ kind = "depth" =>
          /\ fetches[session] # 0 => slot.label = session
          /\ \A c \in Caller : calls[c].at = "asking" =>
                                    calls[c].saw = session /\ fetches[session] = 0

IInv ==
    /\ TypeOK /\ FreshEnough /\ DepthOnce /\ RefusedAfterChange
    /\ Locked /\ SlotFits /\ DepthKept
=============================================================================
