---------------------------- MODULE Modifications ----------------------------
(***************************************************************************)
(* Calls that modify one working order: the terms each preview remembers,  *)
(* the terms ib_async's cached trade holds, IBKR's answers, which name the *)
(* order and never the modification, and the re-sync after a rejection.    *)
(*                                                                         *)
(* IBKR's openOrder message brings a trade's status and price up to date   *)
(* and leaves its other terms alone.  ib_async marks a trade Cancelled on  *)
(* an error and ValidationError on a warning.  The session holds, and the  *)
(* order's only other changes are fills.                                   *)
(***************************************************************************)
EXTENDS Naturals, Sequences, Functions

CONSTANTS Caller, None,
          Pricing,     \* callers that change the price; the others, the tif
          MaxFills     \* bounds partial fills; one more fills the order

ModifyAssumption == None \notin Caller /\ Pricing \subseteq Caller /\ MaxFills \in Nat

VARIABLES pc, purpose,      \* where each call is, what its re-sync is for
          modified, original, fillsSeen,    \* what its token stores
          before, start,    \* terms to put back, its place in the log
          woken, echoed,    \* events of _wait_modify
          outcome,          \* what the caller was told
          lock,             \* the openOrders request lock
          terms, status, fills, log,        \* the cached trade
          toIbkr, news,     \* messages in transit
          ibkr,             \* the order at IBKR: terms and fills
          fate,             \* history: what IBKR made of each modification
          overlapped        \* history: sent while another's was unanswered

token == <<modified, original, fillsSeen>>
waitVars == <<woken, echoed>>
trade == <<terms, status, fills, log>>
wires == <<toIbkr, news>>
history == <<fate, overlapped>>
mvars == <<pc, purpose, token, before, start, waitVars, outcome, lock, trade, wires, ibkr,
           history>>

Terms == [{"price", "tif"} -> Caller \cup {None}]
Untouched == [f \in {"price", "tif"} |-> None]
Full == MaxFills + 1

TypeOK ==
    /\ pc \in [Caller -> {"idle", "queued", "syncing", "answered", "describing", "previewed",
                          "waiting", "done"}]
    /\ purpose \in [Caller -> {"none", "preview", "submit", "restore"}]
    /\ modified \in [Caller -> Terms] /\ original \in [Caller -> Terms] /\ before \in [Caller -> Terms]
    /\ fillsSeen \in [Caller -> 0..Full] /\ start \in [Caller -> Nat]
    /\ woken \subseteq Caller /\ echoed \subseteq Caller
    /\ outcome \in [Caller -> {"none", "refused", "accepted", "silent", "rejected"}]
    /\ lock \in Caller \cup {None}
    /\ terms \in Terms /\ fills \in 0..Full
    /\ status \in {"Submitted", "Cancelled", "ValidationError", "Filled"}
    /\ log \in Seq({"modify", "status", "error", "warning"})
    /\ toIbkr \in Seq([what : {"modify", "open"}, by : Caller, terms : Terms])
    /\ news \in Seq([what : {"echo", "error", "warning", "end", "status"}, by : Caller \cup {None},
                     price : Caller \cup {None}, fills : 0..Full])
    /\ ibkr \in [terms : Terms, fills : 0..Full]
    /\ fate \in [Caller -> {"none", "accepted", "rejected"}]
    /\ overlapped \subseteq Caller

Init ==
    /\ pc = [c \in Caller |-> "idle"] /\ purpose = [c \in Caller |-> "none"]
    /\ modified = [c \in Caller |-> Untouched] /\ original = modified /\ before = modified
    /\ fillsSeen = [c \in Caller |-> 0] /\ start = fillsSeen
    /\ woken = {} /\ echoed = {} /\ overlapped = {}
    /\ outcome = [c \in Caller |-> "none"] /\ fate = [c \in Caller |-> "none"]
    /\ lock = None
    /\ terms = Untouched /\ status = "Submitted" /\ fills = 0 /\ log = <<>>
    /\ toIbkr = <<>> /\ news = <<>>
    /\ ibkr = [terms |-> Untouched, fills |-> 0]

-----------------------------------------------------------------------------
(* Reading the trade *)

Since(place) == {log[i] : i \in (place + 1)..Len(log)}

IsOpen == status \in {"Submitted", "ValidationError"}

LooksStale == status = "Cancelled" /\ log # <<>> /\ log[Len(log)] = "error"

Acknowledged(c) == Since(start[c]) \ {"modify"} # {} \/ ~IsOpen

\* Slip: any error in the log of the trade counts.
RefusedEver(c) ==
    \/ "warning" \in Range(log)
    \/ status = "Cancelled" /\ "error" \in Range(log)

\* _modify_rejection.
Refused(c) ==
    \/ "warning" \in Since(start[c])
    \/ status = "Cancelled" /\ "error" \in Since(start[c])

\* Calls whose modification has not been answered and settled.
Unanswered == {c \in Caller : \/ pc[c] = "waiting"
                              \/ purpose[c] = "restore" /\ pc[c] # "done"
                              \/ \E m \in Range(toIbkr) \cup Range(news) : m.by = c}

-----------------------------------------------------------------------------
(* Looking the order up, previewing and submitting *)

Look(c, why) ==
    /\ LooksStale
    /\ pc' = [pc EXCEPT ![c] = "queued"] /\ purpose' = [purpose EXCEPT ![c] = why]

\* preview_modify up to its first await: the modified order is a copy of the
\* cached one.
Copy(c) ==
    /\ IF IsOpen
       THEN /\ pc' = [pc EXCEPT ![c] = "describing"]
            /\ modified' = [modified EXCEPT ![c] =
                              [terms EXCEPT ![IF c \in Pricing THEN "price" ELSE "tif"] = c]]
            /\ UNCHANGED outcome
       ELSE /\ pc' = [pc EXCEPT ![c] = "done"] /\ outcome' = [outcome EXCEPT ![c] = "refused"]
            /\ UNCHANGED modified
    /\ UNCHANGED <<original, fillsSeen>>

Preview(c) ==
    /\ pc[c] = "idle"
    /\ \/ Look(c, "preview") /\ UNCHANGED <<token, outcome>>
       \/ ~LooksStale /\ Copy(c) /\ UNCHANGED purpose
    /\ UNCHANGED <<before, start, waitVars, lock, trade, wires, ibkr, history>>

\* The contract details are in: the token remembers the order as it is now.
\* A price change awaits them; without one the copy and this are one step.
Describe(c) ==
    /\ pc[c] = "describing"
    /\ pc' = [pc EXCEPT ![c] = "previewed"]
    /\ original' = [original EXCEPT ![c] = terms]
    /\ fillsSeen' = [fillsSeen EXCEPT ![c] = fills]
    /\ UNCHANGED <<purpose, modified, before, start, waitVars, outcome, lock, trade, wires,
                   ibkr, history>>

Unchanged(c) == original[c] = terms /\ fillsSeen[c] = fills

\* _submit_modify from the lookup to the wait: no await from the checks to
\* placeOrder.
CheckAndSend(c) ==
    IF IsOpen /\ Unchanged(c)
    THEN /\ before' = [before EXCEPT ![c] = terms]
         /\ terms' = modified[c]
         /\ start' = [start EXCEPT ![c] = Len(log)]
         /\ log' = Append(log, "modify")
         /\ toIbkr' = Append(toIbkr, [what |-> "modify", by |-> c, terms |-> modified[c]])
         /\ pc' = [pc EXCEPT ![c] = "waiting"]
         /\ overlapped' = overlapped \cup
                            (IF Unanswered # {} THEN Unanswered \cup {c} ELSE {})
         /\ UNCHANGED <<outcome, status, fills>>
    ELSE /\ pc' = [pc EXCEPT ![c] = "done"] /\ outcome' = [outcome EXCEPT ![c] = "refused"]
         /\ UNCHANGED <<before, start, trade, toIbkr, overlapped>>

Submit(c) ==
    /\ pc[c] = "previewed"
    /\ \/ Look(c, "submit") /\ UNCHANGED <<before, start, outcome, trade, toIbkr, overlapped>>
       \/ ~LooksStale /\ CheckAndSend(c) /\ UNCHANGED purpose
    /\ UNCHANGED <<token, waitVars, lock, news, ibkr, fate>>

Resume(c) ==
    /\ pc[c] = "waiting"
    /\ IF Refused(c)
       THEN /\ terms' = before[c]
            /\ outcome' = [outcome EXCEPT ![c] = "rejected"]
            /\ pc' = [pc EXCEPT ![c] = "queued"]
            /\ purpose' = [purpose EXCEPT ![c] = "restore"]
       ELSE /\ outcome' = [outcome EXCEPT ![c] =
                             IF c \in echoed \/ Acknowledged(c) THEN "accepted" ELSE "silent"]
            /\ pc' = [pc EXCEPT ![c] = "done"]
            /\ UNCHANGED <<purpose, terms>>
    /\ UNCHANGED <<token, before, start, waitVars, lock, status, fills, log, wires, ibkr,
                   history>>

\* _wait_modify ends: an answer woke the task, or status_wait is over.
Answered(c) == c \in woken /\ Resume(c)
TimesOut(c) == c \notin woken /\ Resume(c)

-----------------------------------------------------------------------------
(* _resync_open_orders, one at a time *)

Ask(c) ==
    /\ pc[c] = "queued" /\ lock = None
    /\ lock' = c
    /\ pc' = [pc EXCEPT ![c] = "syncing"]
    /\ toIbkr' = Append(toIbkr, [what |-> "open", by |-> c, terms |-> Untouched])
    /\ UNCHANGED <<purpose, token, before, start, waitVars, outcome, trade, news, ibkr, history>>

\* It ends with an answer, or without one: the caller goes on either way.
Synced(c) ==
    /\ \/ pc[c] = "answered"
       \/ pc[c] = "syncing"     \* times out
    /\ lock' = None
    /\ \/ /\ purpose[c] = "preview" /\ Copy(c)
          /\ UNCHANGED <<before, start, trade, toIbkr, overlapped>>
       \/ purpose[c] = "submit" /\ CheckAndSend(c) /\ UNCHANGED token
       \/ /\ purpose[c] = "restore"
          /\ pc' = [pc EXCEPT ![c] = "done"]
          /\ UNCHANGED <<token, before, start, outcome, trade, toIbkr, overlapped>>
    /\ UNCHANGED <<purpose, waitVars, news, ibkr, fate>>

-----------------------------------------------------------------------------
(* IBKR *)

\* by: whose request it answers, which the message itself does not say.
Says(what, by) == [what |-> what, by |-> by,
                   price |-> ibkr'.terms["price"], fills |-> ibkr'.fills]

\* IBKR takes the next message: a modification it accepts or rejects, which a
\* filled order leaves no choice about, or a request for the open orders.
IbkrReads ==
    /\ toIbkr # <<>>
    /\ toIbkr' = Tail(toIbkr)
    /\ LET m == Head(toIbkr) IN
       \/ /\ m.what = "modify" /\ ibkr.fills < Full
          /\ ibkr' = [ibkr EXCEPT !.terms = m.terms]
          /\ news' = Append(news, Says("echo", m.by))
          /\ fate' = [fate EXCEPT ![m.by] = "accepted"]
       \/ /\ m.what = "modify"
          /\ UNCHANGED ibkr
          /\ \E what \in {"error", "warning"} : news' = Append(news, Says(what, m.by))
          /\ fate' = [fate EXCEPT ![m.by] = "rejected"]
       \/ /\ m.what = "open"
          /\ UNCHANGED <<ibkr, fate>>
          /\ news' = news \o (IF ibkr.fills < Full THEN <<Says("echo", m.by)>> ELSE <<>>)
                          \o <<Says("end", m.by)>>
    /\ UNCHANGED <<pc, purpose, token, before, start, waitVars, outcome, lock, trade,
                   overlapped>>

Fill ==
    /\ ibkr.fills < Full
    /\ ibkr' = [ibkr EXCEPT !.fills = @ + 1]
    /\ news' = Append(news, Says("status", None))
    /\ UNCHANGED <<pc, purpose, token, before, start, waitVars, outcome, lock, trade, toIbkr,
                   history>>

Shown(n) == IF n = Full THEN "Filled" ELSE "Submitted"

\* ib_async's handling of a message, and the events a waiting call listens to.
Deliver ==
    /\ news # <<>>
    /\ news' = Tail(news)
    /\ LET m == Head(news) IN
       /\ terms' = IF m.what = "echo" THEN [terms EXCEPT !["price"] = m.price] ELSE terms
       /\ fills' = IF m.what \in {"echo", "status"} THEN m.fills ELSE fills
       /\ status' = CASE m.what = "error" -> "Cancelled"
                      [] m.what = "warning" -> "ValidationError"
                      [] m.what = "end" -> status
                      [] OTHER -> Shown(m.fills)
       /\ log' = CASE m.what \in {"error", "warning", "status"} -> Append(log, m.what)
                   [] m.what = "echo" /\ status' # status -> Append(log, "status")
                   [] OTHER -> log
       /\ LET waiting == {c \in Caller : pc[c] = "waiting"} IN
          /\ echoed' = echoed \cup (IF m.what = "echo" THEN waiting ELSE {})
          /\ woken' = woken \cup (IF m.what # "end" THEN waiting ELSE {})
       /\ pc' = [c \in Caller |-> IF m.what = "end" /\ lock = c /\ pc[c] = "syncing"
                                  THEN "answered" ELSE pc[c]]
    /\ UNCHANGED <<purpose, token, before, start, outcome, lock, toIbkr, ibkr, fate,
                   overlapped>>

Next ==
    \/ \E c \in Caller : \/ Preview(c) \/ Describe(c) \/ Submit(c)
                         \/ Answered(c) \/ TimesOut(c) \/ Ask(c) \/ Synced(c)
    \/ IbkrReads \/ Fill \/ Deliver

Spec == Init /\ [][Next]_mvars

-----------------------------------------------------------------------------
(* Properties *)

\* A call is told that its modification was rejected only if IBKR rejected
\* that very modification.
RejectionIsOwn == \A c \in Caller : outcome[c] = "rejected" => fate[c] = "rejected"

\* ... which holds of modifications that no other one overlapped.
RejectionIsOwnAlone ==
    \A c \in Caller \ overlapped : outcome[c] = "rejected" => fate[c] = "rejected"

Quiet == toIbkr = <<>> /\ news = <<>> /\ \A c \in Caller : pc[c] \in {"idle", "previewed", "done"}

Noticed == \A c \in Caller : fate[c] = "rejected" => outcome[c] = "rejected"

\* With all calls answered, the cached order has the terms IBKR has, unless
\* modifications overlapped, or a rejection went unnoticed: it came after its
\* call had ended, or a fill came right behind it.
TermsAreIbkrs ==
    Quiet /\ overlapped = {} /\ Noticed /\ ibkr.fills < Full => terms = ibkr.terms

\* Not sent: the call is on its way to its modification, or looks its order up for it.
Unsent(c) ==
    \/ pc[c] \in {"idle", "describing", "previewed"}
    \/ pc[c] \in {"queued", "syncing", "answered"} /\ purpose[c] \in {"preview", "submit"}

Asks(i) == toIbkr[i].what = "modify"
Rejects(i) == news[i].what \in {"error", "warning"}

\* A call sends one modification, of which IBKR makes something once; what only Fill says
\* answers nobody.
SentOnce ==
    /\ \A c \in Caller : /\ Unsent(c) => fate[c] = "none"
                         /\ pc[c] \in {"queued", "syncing", "answered"} => purpose[c] # "none"
                         /\ pc[c] = "waiting" => start[c] <= Len(log)
    /\ \A c \in Caller : \A i \in DOMAIN toIbkr : Asks(i) /\ toIbkr[i].by = c =>
          /\ fate[c] = "none" /\ ~Unsent(c)
          /\ \A j \in DOMAIN toIbkr : Asks(j) /\ toIbkr[j].by = c => j = i
    /\ \A i \in DOMAIN news : /\ Rejects(i) => fate[news[i].by] = "rejected"
                              /\ news[i].by = None <=> news[i].what = "status"

\* A call that waits alone hears no answers but its own.
HearsItsOwn ==
    \A c \in Caller \ overlapped : pc[c] = "waiting" =>
       /\ \A i \in DOMAIN toIbkr : Asks(i) => toIbkr[i].by = c
       /\ \A i \in DOMAIN news : Rejects(i) => news[i].by = c
       /\ {"error", "warning"} \cap Since(start[c]) # {} => fate[c] = "rejected"

\* Without overlaps IBKR reads a modification before anything that was asked after it, and
\* an echo has the price IBKR has.
ReadInTurn ==
    overlapped = {} =>
       /\ \A i \in DOMAIN toIbkr : Asks(i) => i = 1 /\ \A j \in DOMAIN news : news[j].by = None
       /\ \A i \in DOMAIN news : news[i].what = "echo" => news[i].price = ibkr.terms["price"]

\* ... the cache has the terms IBKR has or is about to read, and a call that is to be told
\* of its rejection has those to put back.
TermsToKeep ==
    overlapped = {} /\ (\A c \in Caller : fate[c] = "rejected" => outcome[c] = "rejected" \/ pc[c] = "waiting") =>
       LET asked == {i \in DOMAIN toIbkr : Asks(i)}
           refusing == {c \in Caller : pc[c] = "waiting" /\ fate[c] = "rejected"}
       IN /\ \A i \in asked : terms = toIbkr[i].terms /\ before[toIbkr[i].by] = ibkr.terms
          /\ \A c \in refusing : before[c] = ibkr.terms
          /\ asked = {} /\ refusing = {} => terms = ibkr.terms

IInv ==
    /\ TypeOK /\ SentOnce /\ HearsItsOwn /\ ReadInTurn /\ TermsToKeep
    /\ RejectionIsOwnAlone /\ TermsAreIbkrs
=============================================================================
