---------------------------- MODULE OrderLookups ----------------------------
(***************************************************************************)
(* Finding an order while it moves: order_status looks in the cache, then  *)
(* in the open orders of every client, then in the completed ones; cancel  *)
(* finds this client's order, sends the cancel and waits; a global cancel  *)
(* asks where the orders of others ended up.  Meanwhile IBKR fills and     *)
(* cancels, and ib_async marks an order Cancelled on any error about it.   *)
(***************************************************************************)
EXTENDS Naturals, FiniteSets

CONSTANTS Caller, Own, Foreign, MaxPolls, MaxErrors, MaxResets

LookupAssumption == Own \cap Foreign = {} /\ {MaxPolls, MaxErrors, MaxResets} \subseteq Nat

Order == Own \cup Foreign

\* ibkr: where IBKR has each order; cache: where ib_async does ("stale": Cancelled by an
\* error, "absent": not in the cache); remembered: the orders whose perm id the server
\* knows; call[c]: the call of c; errors, resets: bounded.
VARIABLES ibkr, cache, remembered, call, errors, resets

vars == <<ibkr, cache, remembered, call, errors, resets>>

-----------------------------------------------------------------------------

Done == {"filled", "cancelled"}

\* known: it can be told by its perm id; a completed order has no other.
Idle == [at |-> "idle", what |-> "", order |-> CHOOSE o \in Order : TRUE, known |-> TRUE, polls |-> 0,
         failed |-> FALSE, says |-> "", seen |-> {}]

Waiting == {"sync", "refresh", "open", "completed", "wait"}

\* seen: where IBKR had the order since the call began (to judge its answer by).
Begun(what, o) == [Idle EXCEPT !.what = what, !.order = o, !.seen = {ibkr[o]}, !.at = "open"]

Says(s, what) == [s EXCEPT !.at = "over", !.says = what]

\* How a cached state reads: an error made it Cancelled.
Shown(state) == IF state = "stale" THEN "cancelled" ELSE state

\* _kept_current: IBKR streams the status of this client's orders to it; a copy of
\* another's is as old as the list it came in.
Current(o) == o \in Own /\ cache[o] # "absent"

\* _remember: an order of this client that order_status found.
Remembering(s) ==
    IF s.what = "status" /\ s.order \in Own /\ s.says \in {"open"} \cup Done THEN remembered \cup {s.order} ELSE remembered

-----------------------------------------------------------------------------
(* order_status *)

\* Slip: the completed orders are asked for first.
ListsBackwards == <<"completed", "open">>

\* Where order_status looks after the cache.
Lists == <<"open", "completed">>

\* By its perm id, or by the id this server gave it (its perm id if it was seen before).
Status(c, o, byPermId) ==
    LET s == [Begun("status", o) EXCEPT !.known = byPermId \/ o \in remembered]
        now == IF ~Current(o) THEN [s EXCEPT !.at = Lists[1]]
               ELSE IF cache[o] = "stale" THEN [s EXCEPT !.at = "sync"] ELSE Says(s, cache[o])
    IN /\ call[c].at = "idle" /\ (o \in Foreign => byPermId)
       /\ call' = [call EXCEPT ![c] = now]
       /\ remembered' = Remembering(now)
       /\ UNCHANGED <<ibkr, cache, errors, resets>>

\* Where a list has the order of s, if it does; a completed one has its perm id alone.
InList(s) ==
    CASE s.at = "open" /\ ibkr[s.order] = "open" -> "open"
      [] s.at = "completed" /\ ibkr[s.order] \in Done /\ s.known -> ibkr[s.order]
      [] OTHER -> "no"

\* The list of open orders of every client, copies of which enter the cache.
Listed == [o \in Order |-> IF ibkr[o] = "open" THEN "open" ELSE cache[o]]

\* The order is there, or the next list is asked for, if there is one.
AfterList(s) ==
    IF InList(s) # "no" THEN Says(s, InList(s))
    ELSE IF s.what = "status" /\ s.at = Lists[1] THEN [s EXCEPT !.at = Lists[2]]
    ELSE Says(s, "not found")

ListComes(c) ==
    /\ call[c].at = "completed" \/ (call[c].at = "open" /\ call[c].what = "status")
    /\ cache' = IF call[c].at = "open" THEN Listed ELSE cache
    /\ call' = [call EXCEPT ![c] = AfterList(call[c])]
    /\ remembered' = Remembering(call'[c])
    /\ UNCHANGED <<ibkr, errors, resets>>

-----------------------------------------------------------------------------
(* _own_trade and cancel *)

\* Cancelling what is not open is refused; else the cancel goes out.
Try(s) == IF cache[s.order] = "open" THEN [s EXCEPT !.at = "wait"] ELSE Says(s, "not open")

Cancel(c, o) ==
    LET s == Begun("cancel", o)
    IN /\ call[c].at = "idle"
       /\ call' = [call EXCEPT ![c] =
                      IF o \notin Own /\ cache[o] # "absent" THEN Says(s, "not ours")
                      ELSE IF cache[o] = "stale" THEN [s EXCEPT !.at = "sync"]
                      ELSE IF cache[o] = "absent" THEN [s EXCEPT !.at = "refresh"]
                      ELSE Try(s)]
       /\ UNCHANGED <<ibkr, cache, remembered, errors, resets>>

\* _resync_open_orders: IBKR sends this client's open orders again.
Resynced == [o \in Order |-> IF o \in Own /\ ibkr[o] = "open" THEN "open" ELSE cache[o]]

AfterSync(s, synced) ==
    IF s.what = "status" THEN Says(s, Shown(synced[s.order]))
    ELSE IF synced[s.order] = "absent" THEN Says(s, "not found")
    ELSE IF s.order \in Foreign THEN Says(s, "not ours")
    ELSE IF synced[s.order] = "open" THEN [s EXCEPT !.at = "wait"] ELSE Says(s, "not open")

Sync(c) ==
    /\ call[c].at \in {"sync", "refresh"}
    /\ cache' = Resynced
    /\ call' = [call EXCEPT ![c] = AfterSync(call[c], Resynced)]
    /\ remembered' = Remembering(call'[c])
    /\ UNCHANGED <<ibkr, errors, resets>>

\* A sync that fails leaves the cache as it was; any other request that fails is raised.
Fail(c) ==
    /\ call[c].at \in {"sync", "refresh", "open", "completed"}
    /\ call' = [call EXCEPT ![c] = IF call[c].at = "sync" THEN AfterSync(call[c], cache)
                                   ELSE Says(call[c], "error")]
    /\ remembered' = Remembering(call'[c])
    /\ UNCHANGED <<ibkr, cache, errors, resets>>

\* cancel waits until the order is done, or for status_wait seconds: accepted unless an
\* error about the order arrived since.
Result(s) ==
    IF s.failed THEN "refused" ELSE IF cache[s.order] \in Done THEN cache[s.order] ELSE "unconfirmed"

Waited(c) ==
    /\ call[c].at = "wait" /\ call[c].what = "cancel"
    /\ call' = [call EXCEPT ![c] = Says(call[c], Result(call[c]))]
    /\ UNCHANGED <<ibkr, cache, remembered, errors, resets>>

-----------------------------------------------------------------------------
(* A global cancel: the orders of others, of which only IBKR knows *)

GlobalCancel(c, o) ==
    /\ call[c].at = "idle" /\ o \in Foreign
    /\ call' = [call EXCEPT ![c] = Begun("global", o)]
    /\ UNCHANGED <<ibkr, cache, remembered, errors, resets>>

\* _others_after_global_cancel: again while it is open and there is time left.
Poll(c) ==
    LET s == call[c]
    IN /\ s.at = "open" /\ s.what = "global"
       /\ cache' = Listed
       /\ \E again \in BOOLEAN :
             call' = [call EXCEPT ![c] =
                         IF InList(s) = "no" THEN [s EXCEPT !.at = "completed"]
                         ELSE IF again /\ s.polls < MaxPolls THEN [s EXCEPT !.polls = @ + 1]
                         ELSE Says(s, "open")]
       /\ UNCHANGED <<ibkr, remembered, errors, resets>>

-----------------------------------------------------------------------------
(* IBKR, and ib_async's cache *)

Seen(to) ==
    [c \in Caller |-> IF call[c].at \in Waiting THEN [call[c] EXCEPT !.seen = @ \cup {to[call[c].order]}]
                      ELSE call[c]]

Moves(o, to) ==
    /\ ibkr[o] = "open"
    /\ ibkr' = [ibkr EXCEPT ![o] = to]
    /\ call' = Seen(ibkr')
    /\ UNCHANGED <<cache, remembered, errors, resets>>

\* The status of an own order reaches the client later, one by one.
StatusComes(o) ==
    /\ o \in Own /\ cache[o] # "absent" /\ ibkr[o] \in Done /\ cache[o] # ibkr[o]
    /\ cache' = [cache EXCEPT ![o] = ibkr[o]]
    /\ UNCHANGED <<ibkr, remembered, call, errors, resets>>

\* An error about an order it goes on working on, or that was done: a cancel refused, a
\* modification rejected.
Complains(o) ==
    /\ o \in Own /\ cache[o] = "open" /\ errors < MaxErrors
    /\ errors' = errors + 1
    /\ cache' = [cache EXCEPT ![o] = "stale"]
    /\ call' = [c \in Caller |-> IF call[c].at = "wait" /\ call[c].order = o
                                 THEN [call[c] EXCEPT !.failed = TRUE] ELSE call[c]]
    /\ UNCHANGED <<ibkr, remembered, resets>>

\* A new session: every wait failed, and the cache holds this client's open orders.
Reset ==
    /\ resets < MaxResets
    /\ resets' = resets + 1
    /\ cache' = [o \in Order |-> IF o \in Own /\ ibkr[o] = "open" THEN "open" ELSE "absent"]
    /\ call' = [c \in Caller |->
                   CASE call[c].at = "sync" -> AfterSync(call[c], cache)
                     [] call[c].at = "wait" -> Says(call[c], Result(call[c]))
                     [] call[c].at \in {"refresh", "open", "completed"} -> Says(call[c], "error")
                     [] OTHER -> call[c]]
    /\ UNCHANGED <<ibkr, remembered, errors>>

-----------------------------------------------------------------------------

Init ==
    /\ ibkr \in [Order -> {"none", "open", "filled"}]
    /\ cache \in [Order -> {"absent", "open", "filled"}]
    /\ \A o \in Order : cache[o] \in {"absent"} \cup (IF o \in Own THEN {ibkr[o]} ELSE {ibkr[o], "open"})
    /\ \A o \in Order : ibkr[o] = "none" => cache[o] = "absent"
    /\ \A o \in Own : ibkr[o] = "open" => cache[o] = "open"
    /\ call = [c \in Caller |-> Idle] /\ remembered \in SUBSET {o \in Own : ibkr[o] # "none"}
    /\ errors = 0 /\ resets = 0

Next ==
    \/ \E c \in Caller : ListComes(c) \/ Sync(c) \/ Fail(c) \/ Waited(c) \/ Poll(c)
    \/ \E c \in Caller, o \in Order, byPermId \in BOOLEAN : Status(c, o, byPermId)
    \/ \E c \in Caller, o \in Order : Cancel(c, o) \/ GlobalCancel(c, o)
    \/ \E o \in Order, to \in Done : Moves(o, to)
    \/ \E o \in Order : StatusComes(o) \/ Complains(o)
    \/ Reset

Spec == Init /\ [][Next]_vars

-----------------------------------------------------------------------------
(* Invariants *)

Words == {"", "open", "not found", "not ours", "not open", "absent", "error", "refused",
          "unconfirmed"} \cup Done

Call == [at : {"idle", "over"} \cup Waiting, what : {"", "status", "cancel", "global"},
         order : Order \cup {Idle.order}, known : BOOLEAN, polls : Nat, failed : BOOLEAN,
         says : Words, seen : SUBSET ({"none", "open"} \cup Done)]

TypeOK ==
    /\ ibkr \in [Order -> {"none", "open"} \cup Done]
    /\ cache \in [Order -> {"absent", "open", "stale"} \cup Done]
    /\ call \in [Caller -> Call]

Answers(what) == {call[c] : c \in {d \in Caller : call[d].at = "over" /\ call[d].what \in what}}

\* An order that exists is found, in whichever list it moves while it is looked for
\* (a completed one by its perm id, given or remembered).
NotFoundIsTrue ==
    \A s \in Answers({"status", "global"}) : s.says = "not found" /\ s.known => s.seen = {"none"}

\* What is told of another client's order, or of any order after a request, is where
\* IBKR had it during the call.
StatusIsFresh ==
    \A s \in Answers({"status", "global"}) :
        s.order \in Foreign /\ s.says \in {"open"} \cup Done => s.says \in s.seen

\* A cancel that was accepted and confirmed did cancel; a fill is told as one.
CancelIsTrue ==
    \A s \in Answers({"cancel"}) : s.says \in Done => ibkr[s.order] = s.says

\* Only this client's orders are cancelled one by one.
OnlyOwnCancelled ==
    \A c \in Caller : call[c].at = "wait" => call[c].order \in Own

\* What a call that is under way knows: it saw where IBKR has its order; one that was not
\* there yet it saw nowhere else; and past the open orders, the order is not open.
LooksOn ==
    \A c \in Caller : call[c].at \in Waiting =>
        /\ call[c].order \in Order /\ ibkr[call[c].order] \in call[c].seen
        /\ ibkr[call[c].order] = "none" => call[c].seen = {"none"}
        /\ call[c].at = "completed" => ibkr[call[c].order] # "open"
        /\ call[c].at = "sync" => call[c].order \in Own /\ call[c].what \in {"status", "cancel"}
        /\ call[c].at = "refresh" => call[c].what = "cancel"

\* What the cache tells of an own order that is done is so.
CacheIsTrue == \A o \in Own : cache[o] \in Done => ibkr[o] = cache[o]

IInv ==
    /\ TypeOK /\ LooksOn /\ CacheIsTrue
    /\ NotFoundIsTrue /\ StatusIsFresh /\ CancelIsTrue /\ OnlyOwnCancelled
=============================================================================
