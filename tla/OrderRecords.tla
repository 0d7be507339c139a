---------------------------- MODULE OrderRecords ----------------------------
(***************************************************************************)
(* Open and completed orders, whose requests ib_async files under a fixed  *)
(* name.  A gateway whose API is read-only refuses some of them with an    *)
(* error 321 of no request: whoever waits must decide whether it was his.  *)
(***************************************************************************)
EXTENDS Naturals, Sequences

CONSTANTS Caller, None,
          MaxSends, MaxStrays      \* bound the requests, and the refusals of other requests

RecordsAssumption ==
    /\ MaxSends \in Nat \ {0} /\ MaxStrays \in Nat
    /\ None \notin Caller \cup {"openOrders", "completedOrders"}

VARIABLES readOnly,     \* the gateway's setting
          known,        \* the connection has seen a refusal (api_read_only)
          up,
          calls,        \* the calls of open_orders and completed_orders
          keyLock, future,   \* by name: who holds its lock, and the request filed under it
          asked, back,  \* requests on their way to IBKR, and what comes back
          sends, strays

line == <<asked, back, strays>>
ovars == <<readOnly, known, up, calls, keyLock, future, line, sends>>

Wanted == {"own", "all", "completed"}
Keys == {"openOrders", "completedOrders"}
Key(kind) == IF kind = "completed" THEN "completedOrders" ELSE "openOrders"

Call0 == [at |-> "idle", want |-> "all", kind |-> "all", request |-> 0, got |-> None,
          waited |-> FALSE, spoilt |-> FALSE]

Call == [at : {"idle", "queued", "asking", "grace", "rows", "refused", "failed"},
         want : Wanted, kind : Wanted, request : 0..MaxSends, got : Wanted \cup {None},
         waited : BOOLEAN, spoilt : BOOLEAN]

TypeOK ==
    /\ {readOnly, known, up} \subseteq BOOLEAN
    /\ calls \in [Caller -> Call]
    /\ keyLock \in [Keys -> Caller \cup {None}] /\ future \in [Keys -> 0..MaxSends]
    /\ asked \in Seq([n : 1..MaxSends, kind : Wanted])
    /\ back \in Seq([key : Keys \cup {None}, kind : Wanted \cup {None}])
    /\ sends \in 0..MaxSends /\ strays \in 0..MaxStrays

Init ==
    /\ readOnly \in BOOLEAN /\ known = FALSE /\ up = TRUE
    /\ calls = [c \in Caller |-> Call0]
    /\ keyLock = [k \in Keys |-> None] /\ future = [k \in Keys |-> 0]
    /\ asked = <<>> /\ back = <<>> /\ sends = 0 /\ strays = 0

Waiting(c) == calls[c].at \in {"asking", "grace"}

-----------------------------------------------------------------------------
(* A call *)

\* open_orders and completed_orders: a known read-only API is not asked what it refuses.
Calls(c, want) ==
    /\ calls[c].at \in {"idle", "rows", "refused", "failed"} /\ up
    /\ calls' = [calls EXCEPT ![c] =
                   [Call0 EXCEPT !.at = IF want = "completed" /\ known THEN "refused" ELSE "queued",
                                 !.want = want,
                                 !.kind = IF want = "own" /\ known THEN "all" ELSE want]]
    /\ UNCHANGED <<readOnly, known, up, keyLock, future, line, sends>>

\* Answers of the name to requests given up, which may still come.
Orphans(k) == {i \in DOMAIN asked : Key(asked[i].kind) = k} \cup {i \in DOMAIN back : back[i].key = k}

Asks(c) ==
    LET k == Key(calls[c].kind)
    IN /\ calls[c].at = "queued" /\ keyLock[k] = None /\ up /\ sends < MaxSends
       /\ sends' = sends + 1
       /\ calls' = [calls EXCEPT ![c].at = "asking", ![c].request = sends',
                                 ![c].spoilt = (Orphans(k) # {})]
       /\ asked' = Append(asked, [n |-> sends', kind |-> calls[c].kind])
       /\ keyLock' = [keyLock EXCEPT ![k] = c] /\ future' = [future EXCEPT ![k] = sends']
       /\ UNCHANGED <<readOnly, known, up, back, strays>>

NotConnected(c) ==
    /\ calls[c].at = "queued" /\ ~up
    /\ calls' = [calls EXCEPT ![c].at = "failed"]
    /\ UNCHANGED <<readOnly, known, up, keyLock, future, line, sends>>

\* The callers the sets name are done with their requests, which are dropped.
Release(callers) ==
    /\ keyLock' = [k \in Keys |-> IF keyLock[k] \in callers THEN None ELSE keyLock[k]]
    /\ future' = [k \in Keys |-> IF keyLock[k] \in callers THEN 0 ELSE future[k]]

\* No answer in time, or none within the grace after a refusal.
TimesOut(c) ==
    /\ Waiting(c) /\ calls' = [calls EXCEPT ![c].at = "failed"] /\ Release({c})
    /\ UNCHANGED <<readOnly, known, up, line, sends>>

GraceEnds(c) ==
    /\ calls[c].at = "grace"
    /\ calls' = [calls EXCEPT ![c].at = "refused", ![c].waited = TRUE] /\ Release({c})
    /\ UNCHANGED <<readOnly, known, up, line, sends>>

-----------------------------------------------------------------------------
(* What comes back *)

\* Only the list of all orders may be answered although something was refused.
Grace(kind) == kind = "all"

\* A request for this client's orders alone is followed by one for all of them.
AfterRefusal(call) ==
    CASE Grace(call.kind) -> [call EXCEPT !.at = "grace"]
      [] ~Grace(call.kind) /\ call.want = "own" /\ call.kind = "own" ->
           [call EXCEPT !.at = "queued", !.kind = "all"]
      [] OTHER -> [call EXCEPT !.at = "refused"]

\* A refusal of no request: everyone who waits takes it for his own.
Refused ==
    /\ back # <<>> /\ Head(back).key = None /\ back' = Tail(back) /\ known' = TRUE
    /\ calls' = [c \in Caller |-> IF calls[c].at = "asking" THEN AfterRefusal(calls[c]) ELSE calls[c]]
    /\ Release({c \in Caller : calls[c].at = "asking" /\ calls'[c].at # "grace"})
    /\ UNCHANGED <<readOnly, up, asked, strays, sends>>

\* The end of a list ends whatever request is filed under its name.
Answered ==
    /\ back # <<>> /\ Head(back).key # None /\ back' = Tail(back)
    /\ LET holders == {c \in Caller : Waiting(c) /\ keyLock[Head(back).key] = c}
       IN /\ calls' = [c \in Caller |-> IF c \in holders
                                        THEN [calls[c] EXCEPT !.at = "rows", !.got = Head(back).kind]
                                        ELSE calls[c]]
          /\ Release(holders)
    /\ UNCHANGED <<readOnly, known, up, asked, strays, sends>>

Refusal == [key |-> None, kind |-> None]

Answer ==
    /\ asked # <<>> /\ asked' = Tail(asked)
    /\ back' = Append(back, IF readOnly /\ Head(asked).kind # "all" THEN Refusal
                            ELSE [key |-> Key(Head(asked).kind), kind |-> Head(asked).kind])
    /\ UNCHANGED <<readOnly, known, up, calls, keyLock, future, sends, strays>>

\* Some other request of this server is refused.
Stray ==
    /\ readOnly /\ up /\ strays < MaxStrays /\ strays' = strays + 1
    /\ back' = Append(back, Refusal)
    /\ UNCHANGED <<readOnly, known, up, calls, keyLock, future, asked, sends>>

Drop ==
    /\ up /\ up' = FALSE
    /\ calls' = [c \in Caller |-> IF Waiting(c) THEN [calls[c] EXCEPT !.at = "failed"] ELSE calls[c]]
    /\ Release({c \in Caller : Waiting(c)})
    /\ asked' = <<>> /\ back' = <<>>
    /\ UNCHANGED <<readOnly, known, sends, strays>>

Connect ==
    /\ ~up /\ up' = TRUE /\ known' = FALSE
    /\ UNCHANGED <<readOnly, calls, keyLock, future, line, sends>>

Next ==
    \/ \E c \in Caller :
       \/ \E want \in Wanted : Calls(c, want)
       \/ Asks(c) \/ NotConnected(c) \/ TimesOut(c) \/ GraceEnds(c)
    \/ Refused \/ Answered \/ Answer \/ Stray \/ Drop \/ Connect

Spec == Init /\ [][Next]_ovars

-----------------------------------------------------------------------------
(* Properties *)

\* A list of all orders is not this client's alone: that is told apart by the
\* lock and the order of the answers only.  (A list asked for while an answer to
\* a request given up may still come is not judged.)
RowsAreComplete ==
    \A c \in Caller : calls[c].at = "rows" /\ ~calls[c].spoilt =>
        calls[c].got \in {calls[c].kind, calls[c].want}

\* The open orders are refused only after the answer had its time: the refusal
\* may have been another request's.
OpenOrdersHadTheirTime ==
    \A c \in Caller : calls[c].at = "refused" /\ calls[c].want # "completed" => calls[c].waited

\* No list is left filed when nobody waits for it: it would swallow the updates
\* of orders that follow.
NothingSwallowed ==
    \A k \in Keys : future[k] # 0 =>
        \E c \in Caller : Waiting(c) /\ keyLock[k] = c /\ calls[c].request = future[k]

\* Who waits holds the lock of its name, which holds its request.
Locked ==
    /\ \A c \in Caller : Waiting(c) => keyLock[Key(calls[c].kind)] = c
    /\ \A k \in Keys :
       IF keyLock[k] = None THEN future[k] = 0
       ELSE /\ Waiting(keyLock[k]) /\ Key(calls[keyLock[k]].kind) = k
            /\ future[k] = calls[keyLock[k]].request

\* Only a list of this client's orders is asked for in place of another.
KindFits ==
    \A c \in Caller : calls[c].kind = calls[c].want
                         \/ (calls[c].want = "own" /\ calls[c].kind = "all")

\* What is on the line under the name of who waits is its own, or it is spoilt.
OnTheLine ==
    \A c \in Caller : Waiting(c) /\ ~calls[c].spoilt =>
        /\ \A i \in DOMAIN asked : Key(asked[i].kind) = Key(calls[c].kind) =>
                                      asked[i].kind = calls[c].kind
        /\ \A i \in DOMAIN back : back[i].key = Key(calls[c].kind) =>
                                      back[i].kind = calls[c].kind

IInv ==
    /\ TypeOK /\ Locked /\ KindFits /\ OnTheLine
    /\ RowsAreComplete /\ OpenOrdersHadTheirTime /\ NothingSwallowed
=============================================================================
