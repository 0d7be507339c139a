---------------------------- MODULE Subscriptions ----------------------------
(***************************************************************************)
(* SubscriptionRegistry, the tools that subscribe and unsubscribe, and the *)
(* streams it holds at IBKR, while the session drops, comes back, and IBKR *)
(* loses the data (1101).                                                  *)
(*                                                                         *)
(* A call of subscribe_* opens at most one stream, so the stream bears its *)
(* caller's name.  Unsubscribing and reaping suspend nowhere, since every  *)
(* cancel is synchronous, and a resubscribe pass suspends only on streams  *)
(* whose resubscribe waits for IBKR.  Snapshots and the buffers behind     *)
(* them, and the time since a stream was last read, are left out.          *)
(***************************************************************************)
EXTENDS Naturals, FiniteSets, Functions

CONSTANTS Caller, None,
          Key,        \* what can be subscribed to, a (kind, key) of the registry
          Ticker,     \* keys whose re-request cancels nothing (quotes, bulletins)
          Bars,       \* real-time bars: a cancel carries the request id of old
          Scan,       \* scanners: the open waits for a first result
          Live,       \* live bars: a slow open, and a resubscribe that waits
          Capped,     \* keys of a kind with a limit of its own
          KindCap, MaxSubscriptions,
          MaxLosses   \* bounds drops and data losses

ASSUME RegistryAssumption ==
    /\ None \notin Caller \cup Key
    /\ Ticker \cup Bars \cup Scan \cup Live \subseteq Key
    /\ Live \cap (Ticker \cup Bars \cup Scan \cup Capped) = {}
    /\ Ticker \cap (Bars \cup Scan) = {} /\ Bars \cap Scan = {}
    /\ {KindCap, MaxSubscriptions, MaxLosses} \subseteq Nat
    /\ IsFiniteSet(Caller)

VARIABLES
    pc, key,          \* each call of subscribe_*: where it is, what it asks for
    openLock,         \* who holds _open_lock
    ids,              \* how many ids _ids has given out
    entries,          \* _entries: the streams, by the ids that order the dict
    index,            \* _by_key
    stale,            \* entries marked stale
    passing, rerun,   \* _resubscribing, _rerun
    pending,          \* resubscribe tasks that have not started
    todo, at, asking, \* the pass: what is left of its copy, what it waits for
    session,          \* down, being set up, up
    held,             \* streams whose present request IBKR serves
    old,              \* streams that hold a request of an earlier session
    leaked,           \* streams with a request at IBKR that nothing refers to
    missed,           \* history: streams lost unnoticed, because they were being
                      \* opened when IBKR lost its data, or by another's cancel
    losses

calls == <<pc, key, openLock>>
registry == <<ids, entries, index, stale>>
pass == <<passing, rerun, todo, at, asking>>
ibkr == <<held, old, leaked, missed>>
vars == <<calls, registry, pass, pending, session, ibkr, losses>>

Registered == DOMAIN entries
Opening == {c \in Caller : pc[c] \in {"settling", "asked", "answered", "failed"}}
Settling == {c \in Caller : pc[c] = "settling"}
Answered == {c \in Caller : pc[c] = "answered"} \cup (IF asking = "answered" THEN {at} ELSE {})
Reserved == {c \in Caller : pc[c] \in {"asked", "answered", "failed"} /\ key[c] \in Live}

TypeOK ==
    /\ pc \in [Caller -> {"idle", "queued", "waiting", "settling", "asked", "answered",
                          "failed", "done"}]
    /\ key \in [Caller -> Key \cup {None}]
    /\ openLock \in Caller \cup {None}
    /\ ids \in Nat /\ Registered \subseteq Caller /\ entries \in [Registered -> 1..ids]
    /\ index \in [Key -> Caller \cup {None}]
    /\ stale \subseteq Caller
    /\ passing \in BOOLEAN /\ rerun \in BOOLEAN /\ pending \in Nat
    /\ todo \subseteq Caller /\ at \in Caller \cup {None}
    /\ asking \in {"none", "asked", "answered", "failed"}
    /\ session \in {"down", "setup", "up"}
    /\ held \subseteq Caller /\ old \subseteq Caller /\ leaked \subseteq Caller
    /\ losses \in 0..MaxLosses /\ missed \subseteq Caller

Init ==
    /\ pc = [c \in Caller |-> "idle"] /\ key = [c \in Caller |-> None]
    /\ openLock = None
    /\ ids = 0 /\ entries = [c \in {} |-> None]
    /\ index = [k \in Key |-> None] /\ stale = {}
    /\ passing = FALSE /\ rerun = FALSE /\ pending = 0
    /\ todo = {} /\ at = None /\ asking = "none"
    /\ session = "up"
    /\ held = {} /\ old = {} /\ leaked = {} /\ missed = {}
    /\ losses = 0

-----------------------------------------------------------------------------
(* Registering, forgetting, cancelling *)

\* _register.
Register(c) ==
    /\ ids' = ids + 1
    /\ entries' = [d \in Registered \cup {c} |-> IF d = c THEN ids + 1 ELSE entries[d]]
    /\ index' = [index EXCEPT ![key[c]] = c]

\* _forget, of several entries.
Forget(S) ==
    /\ entries' = Restrict(entries, Registered \ S)
    /\ UNCHANGED ids
    /\ index' = [k \in Key |-> IF \E c \in S : key[c] = k THEN None ELSE index[k]]

\* The streams that a cancel of S ends besides S.  Request ids start anew with
\* every session, so bars of an earlier one may bear the id of bars of this one.
Bystanders(S) ==
    IF session = "down" THEN {{}}
    ELSE {v \in SUBSET (held \ S) :
             \A m \in v : \E c \in S : c \in old /\ c # at
                                       /\ \/ key[c] \in Bars /\ key[m] \in Bars
                                          \/ key[c] \in Live /\ key[m] \in Live}

\* stream.cancel, of several streams.  One that is being re-requested has
\* nothing to cancel yet.
CancelStreams(S) ==
    \E v \in Bystanders(S) :
        /\ held' = held \ ((S \ {at}) \cup v)
        /\ old' = old \ (S \ {at})
        /\ missed' = missed \cup v
        /\ UNCHANGED leaked

-----------------------------------------------------------------------------
(* subscribe_* *)

\* Slip: slots of slow opens in progress are not counted.
HasRoomForEntries(k) ==
    /\ Cardinality(Registered) < MaxSubscriptions
    /\ k \in Capped => Cardinality({c \in Registered : key[c] \in Capped}) < KindCap

\* ensure_capacity, and _check_kind_cap in the openers that have one.
HasRoom(k) ==
    /\ Cardinality(Registered) + Cardinality(Reserved) < MaxSubscriptions
    /\ k \in Capped => Cardinality({c \in Registered : key[c] \in Capped}) < KindCap

\* The call has resolved its contract on a session that is up.
CallSubscribe(c, k) ==
    /\ pc[c] = "idle" /\ session = "up"
    /\ pc' = [pc EXCEPT ![c] = "queued"] /\ key' = [key EXCEPT ![c] = k]
    /\ UNCHANGED <<openLock, registry, pass, pending, session, ibkr, losses>>

\* add gets the open lock, and returns, waits or opens.
Acquire(c) ==
    /\ pc[c] = "queued" /\ openLock = None
    /\ \/ /\ index[key[c]] # None
          /\ pc' = [pc EXCEPT ![c] = "done"] /\ UNCHANGED <<openLock, held>>
       \/ /\ index[key[c]] = None /\ \E d \in Reserved : key[d] = key[c]
          /\ pc' = [pc EXCEPT ![c] = "waiting"] /\ UNCHANGED <<openLock, held>>
       \/ /\ index[key[c]] = None /\ \A d \in Reserved : key[d] # key[c]
          /\ ~HasRoom(key[c]) \/ session = "down"
          /\ pc' = [pc EXCEPT ![c] = "done"] /\ UNCHANGED <<openLock, held>>
       \/ /\ index[key[c]] = None /\ \A d \in Reserved : key[d] # key[c]
          /\ HasRoom(key[c]) /\ session # "down"
          /\ pc' = [pc EXCEPT ![c] = IF key[c] \in Scan \cup Live THEN "asked" ELSE "settling"]
          /\ openLock' = IF key[c] \in Live THEN None ELSE c
          /\ held' = IF key[c] \in Live THEN held ELSE held \cup {c}
    /\ UNCHANGED <<key, registry, pass, pending, session, old, leaked, missed, losses>>

\* Another call's open of the key has ended: look again.
WaitEnds(c) ==
    /\ pc[c] = "waiting" /\ \A d \in Reserved : key[d] # key[c]
    /\ pc' = [pc EXCEPT ![c] = "queued"]
    /\ UNCHANGED <<key, openLock, registry, pass, pending, session, ibkr, losses>>

\* IBKR sends the first result, or the backfill.
OpenAnswered(c) ==
    /\ pc[c] = "asked" /\ session # "down"
    /\ key[c] \in Scan => c \in held
    /\ pc' = [pc EXCEPT ![c] = "answered"]
    /\ held' = held \cup {c}
    /\ UNCHANGED <<key, openLock, registry, pass, pending, session, old, leaked, missed, losses>>

\* The open settled, or was answered: its entry is made, and lock or slot freed.
Opened(c) ==
    /\ pc[c] \in {"settling", "answered"}
    /\ pc' = [pc EXCEPT ![c] = "done"]
    /\ openLock' = IF openLock = c THEN None ELSE openLock
    /\ Register(c)
    /\ UNCHANGED <<key, stale, pass, pending, session, ibkr, losses>>

\* Slip: the stream of a refused or cancelled open is left as it is.
OpenFailsUncancelled(c) ==
    /\ pc[c] \in {"settling", "asked", "answered", "failed"}
    /\ pc' = [pc EXCEPT ![c] = "done"]
    /\ openLock' = IF openLock = c THEN None ELSE openLock
    /\ leaked' = leaked \cup (held \cap {c}) /\ held' = held \ {c}
    /\ UNCHANGED <<key, registry, pass, pending, session, old, missed, losses>>

\* IBKR refuses the stream, the request times out, the session drops under it,
\* or the caller is cancelled: the opener cancels what it opened.
OpenFails(c) ==
    /\ pc[c] \in {"settling", "asked", "answered", "failed"}
    /\ pc' = [pc EXCEPT ![c] = "done"]
    /\ openLock' = IF openLock = c THEN None ELSE openLock
    /\ CancelStreams({c})
    /\ UNCHANGED <<key, registry, pass, pending, session, losses>>

\* The caller is cancelled while it waits its turn.
GivesUp(c) ==
    /\ pc[c] \in {"queued", "waiting"}
    /\ pc' = [pc EXCEPT ![c] = "done"]
    /\ UNCHANGED <<key, openLock, registry, pass, pending, session, ibkr, losses>>

\* unsubscribe, unsubscribe_all, and the reaper with what has not been read.
Unsubscribe(S) ==
    /\ S # {} /\ S \subseteq Registered
    /\ Forget(S)
    /\ stale' = stale \ S
    /\ CancelStreams(S)
    /\ UNCHANGED <<calls, pass, pending, session, losses>>

-----------------------------------------------------------------------------
(* The resubscribe pass *)

\* A pass gets to the streams of now, which are re-requested at once.
ReRequest(now) ==
    \/ /\ session = "down"
       /\ Forget(now)
       /\ stale' = (stale \ now) \cup ({at'} \ {None})
       /\ UNCHANGED ibkr
    \/ /\ session # "down"
       /\ stale' = (stale \ now) \cup ({at'} \ {None})
       /\ held' = (held \cup now) \ {at'}
       /\ old' = old \ (now \cup {at'})
       /\ leaked' = leaked \cup {c \in now \cap held : key[c] \in Ticker}
       /\ missed' = missed \ (now \cup {at'})
       /\ UNCHANGED <<ids, entries, index>>

\* The pass goes on over its copy of the entries: those not removed meanwhile
\* are re-requested in order, up to the next whose resubscribe has to wait.
GoOn(copy) ==
    LET present == copy \cap Registered
        slow == {c \in present : key[c] \in Live}
    IN  \/ /\ slow = {}
           /\ todo' = {} /\ at' = None /\ asking' = "none"
           /\ ReRequest(present)
        \/ \E c \in slow :
              /\ \A d \in slow : entries[c] <= entries[d]
              /\ todo' = {d \in present : entries[d] > entries[c]} /\ at' = c
              /\ asking' = IF session = "down" THEN "failed" ELSE "asked"
              /\ ReRequest({d \in present : entries[d] < entries[c]})

\* Slip: a call while a run is in progress does nothing.
ResubscribeStartsOnce ==
    /\ pending > 0 /\ pending' = pending - 1
    /\ \/ /\ passing
          /\ UNCHANGED <<registry, pass, ibkr>>
       \/ /\ ~passing
          /\ passing' = TRUE /\ rerun' = FALSE
          /\ GoOn(Registered)
    /\ UNCHANGED <<calls, session, losses>>

\* resubscribe_all: a run in progress does one more pass instead.
ResubscribeStarts ==
    /\ pending > 0 /\ pending' = pending - 1
    /\ \/ /\ passing
          /\ rerun' = TRUE
          /\ UNCHANGED <<registry, passing, todo, at, asking, ibkr>>
       \/ /\ ~passing
          /\ passing' = TRUE /\ rerun' = FALSE
          /\ GoOn(Registered)
    /\ UNCHANGED <<calls, session, losses>>

\* IBKR answers the re-request the pass waits for.
ReRequestAnswered ==
    /\ asking = "asked" /\ session # "down"
    /\ asking' = "answered"
    /\ held' = held \cup {at}
    /\ UNCHANGED <<calls, registry, passing, rerun, todo, at, pending, session, old, leaked,
                   missed, losses>>

\* The pass resumes: the entry is fresh, or gone with its stream.  A stream
\* that was cancelled meanwhile keeps the request that it has just made.
ReRequestEnds ==
    /\ \/ /\ asking = "answered"
          /\ stale' = stale \ {at}
          /\ leaked' = leaked \cup ((held \cap {at}) \ Registered)
          /\ held' = held \ ({at} \ Registered)
          /\ UNCHANGED <<ids, entries, index>>
       \/ /\ asking \in {"asked", "failed"}
          /\ Forget({at} \cap Registered)
          /\ stale' = stale \ {at}
          /\ UNCHANGED <<held, leaked>>
    /\ at' = None /\ asking' = "none"
    /\ UNCHANGED <<calls, passing, rerun, todo, pending, session, old, missed, losses>>

\* The loop of the pass goes on, starts over, or ends.
PassGoesOn ==
    /\ passing /\ at = None
    /\ \/ /\ todo # {}
          /\ GoOn(todo)
          /\ UNCHANGED <<passing, rerun>>
       \/ /\ todo = {} /\ rerun
          /\ rerun' = FALSE
          /\ GoOn(Registered)
          /\ UNCHANGED passing
       \/ /\ todo = {} /\ ~rerun
          /\ passing' = FALSE
          /\ UNCHANGED <<rerun, todo, at, asking, registry, ibkr>>
    /\ UNCHANGED <<calls, pending, session, losses>>

-----------------------------------------------------------------------------
(* The session *)

\* What a drop does to the streams: every request is gone, those waited for fail.
Drop ==
    /\ session # "down" /\ losses < MaxLosses
    /\ session' = "down" /\ losses' = losses + 1
    /\ stale' = stale \cup Registered
    /\ held' = {} /\ leaked' = {}
    /\ old' = old \cup ((Registered \cup Settling) \ {at}) \cup Answered
    /\ pc' = [c \in Caller |-> IF pc[c] = "asked" /\ key[c] \in Live THEN "failed" ELSE pc[c]]
    /\ asking' = IF asking = "asked" THEN "failed" ELSE asking
    /\ UNCHANGED <<key, openLock, ids, entries, index, passing, rerun, todo, at, pending, missed>>

\* The next session's socket is open.  INITIAL_BACKOFF has passed, and with it
\* the second a stream settles in and the steps of what has failed.
SetUpBegins ==
    /\ session = "down"
    /\ Settling \cup Answered = {} /\ asking # "failed" /\ \A c \in Caller : pc[c] # "failed"
    /\ session' = "setup"
    /\ UNCHANGED <<calls, registry, pass, pending, ibkr, losses>>

\* _on_connected ends, and spawns a resubscribe.
SetUpEnds ==
    /\ session = "setup"
    /\ session' = "up" /\ pending' = pending + 1
    /\ UNCHANGED <<calls, registry, pass, ibkr, losses>>

\* 1101: IBKR has lost what it streamed; a resubscribe is spawned.
DataLost ==
    /\ session # "down" /\ losses < MaxLosses
    /\ losses' = losses + 1
    /\ held' = {} /\ leaked' = {}
    /\ pending' = pending + 1
    /\ missed' = missed \cup Settling \cup {c \in Caller : pc[c] = "answered"}
    /\ UNCHANGED <<calls, registry, pass, session, old>>

-----------------------------------------------------------------------------
Step(c) == Acquire(c) \/ WaitEnds(c) \/ Opened(c) \/ OpenFails(c)
Pass == ResubscribeStarts \/ ReRequestEnds \/ PassGoesOn

Next ==
    \/ \E c \in Caller :
          \/ \E k \in Key : CallSubscribe(c, k)
          \/ Step(c) \/ OpenAnswered(c) \/ GivesUp(c)
    \/ \E S \in SUBSET Caller : Unsubscribe(S)
    \/ Pass \/ ReRequestAnswered
    \/ Drop \/ SetUpBegins \/ SetUpEnds \/ DataLost

Spec == Init /\ [][Next]_vars

-----------------------------------------------------------------------------
(* Properties *)

\* Entries and index agree, and a key has at most one stream, open or being
\* opened, whoever else asked for it, unsubscribed or gave up meanwhile.
OneStreamPerKey ==
    /\ \A k \in Key : index[k] # None => index[k] \in Registered /\ key[index[k]] = k
    /\ \A c \in Registered : index[key[c]] = c
    /\ IsInjective(entries)
    /\ \A c \in Opening :
           /\ index[key[c]] = None
           /\ \A d \in Opening \ {c} : key[d] # key[c]

\* No more streams are open or being opened than the settings allow, nor more
\* of a kind than IBKR allows.
CapsHold ==
    /\ Cardinality(Registered) + Cardinality(Opening) <= MaxSubscriptions
    /\ Cardinality({c \in Registered \cup Opening : key[c] \in Capped}) <= KindCap

\* Nobody waits forever: whoever holds the open lock is opening a stream that
\* is not slow, which has a time limit, and gives it back however that ends.
LockIsHeld ==
    \A c \in Caller : openLock = c <=> c \in Opening /\ key[c] \notin Live

\* A call has its key from the start, and a stream is opened once.
OpenedOnce ==
    /\ \A c \in Caller : pc[c] # "idle" => key[c] \in Key
    /\ \A c \in Settling : key[c] \notin Live
    /\ \A c \in Registered \cup stale \cup todo \cup leaked \cup ({at} \ {None}) : pc[c] = "done"

\* A pass waits for one live stream at a time, which has no request until it answers.
PassInOrder ==
    /\ passing \/ (todo = {} /\ at = None /\ ~rerun)
    /\ asking = "none" <=> at = None
    /\ at # None => key[at] \in Live
    /\ asking \in {"asked", "failed"} => at \notin held

\* A stream that is not served was overtaken, or will be seen to: by the pass that comes
\* with the session, by one that has not started or will start over, or by the present
\* one, which has not got to it yet.
SeenTo ==
    LET served == held \cup missed
        after == session # "up" \/ pending > 0 \/ rerun
    IN  /\ session = "down" => held = {}
        /\ session # "down" => Settling \cup {c \in Caller : pc[c] = "answered"} \subseteq served
        /\ session # "down" /\ asking = "answered" => pending > 0 \/ rerun \/ at \in served
        /\ ~after => \A c \in Registered \ (todo \cup {at}) : c \in served \ stale

IInv == /\ TypeOK /\ OneStreamPerKey /\ CapsHold /\ LockIsHeld
        /\ OpenedOnce /\ PassInOrder /\ SeenTo

Settled == session = "up" /\ pending = 0 /\ ~passing

\* Once the passes after a drop or a loss are over, every subscription that
\* does not say it is stale is served by IBKR, except one that was being opened
\* when IBKR lost the data, or whose request bore the id that a late cancel of
\* other bars named; and none says it is stale.
FrozenOnlyIfOvertaken ==
    Settled => stale \cap Registered = {} /\ Registered \ held \subseteq missed

\* A stream that was opened in vain, or unsubscribed, is not left running at
\* IBKR: only a re-request leaves one, either twice, or because the stream was
\* cancelled before IBKR answered.
LeaksOnlyByReRequest ==
    /\ held \subseteq Registered \cup {at} \cup
                     {c \in Opening : pc[c] # "failed"}
    /\ \A c \in leaked : key[c] \in Ticker \/ (key[c] \in Live /\ c \notin Registered)

\* resubscribe_all: a stream that cannot be re-requested "is forgotten rather
\* than left frozen".
NoneLeftFrozen == Settled => Registered \subseteq held \cup stale
=============================================================================
