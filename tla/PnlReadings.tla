----------------------------- MODULE PnlReadings -----------------------------
(***************************************************************************)
(* Readings of the profit and loss of an account or a position: IBKR only  *)
(* streams it, so a reading subscribes, waits for the first update and     *)
(* cancels.  ib_async has room for one subscription of a key, and asserts  *)
(* that there is none when it is asked to subscribe.                       *)
(***************************************************************************)
EXTENDS Naturals

CONSTANTS Caller, None,
          MaxSubscriptions     \* bounds the subscriptions made

PnlAssumption == MaxSubscriptions \in Nat \ {0} /\ None \notin Caller

VARIABLES position,     \* what is read: the whole account, or a position it holds or not
          up,
          calls,        \* the readings of one key
          keyLock,
          filed,        \* the subscription ib_async has under the key, 0 for none
          live,         \* subscriptions IBKR streams
          sent,         \* updates and refusals on their way
          subscribed,   \* subscriptions so far
          asserted      \* ib_async was asked for a second subscription of the key

line == <<filed, live, sent, subscribed, asserted>>
pvars == <<position, up, calls, keyLock, line>>

Positions == {"account", "held", "not_held"}
Contents == {"values", "nothing"}
Call0 == [at |-> "idle", subscription |-> 0, from |-> 0]

Call == [at : {"idle", "queued", "waiting", "read", "no_position", "failed"},
         subscription : 0..MaxSubscriptions, from : 0..MaxSubscriptions]

TypeOK ==
    /\ position \in Positions /\ up \in BOOLEAN /\ asserted \in BOOLEAN
    /\ calls \in [Caller -> Call]
    /\ keyLock \in Caller \cup {None} /\ {filed, subscribed} \subseteq 0..MaxSubscriptions
    /\ live \subseteq 1..MaxSubscriptions /\ sent \subseteq (1..MaxSubscriptions) \X (Contents \cup {"error"})

Init ==
    /\ position \in Positions /\ up = TRUE
    /\ calls = [c \in Caller |-> Call0] /\ keyLock = None
    /\ filed = 0 /\ live = {} /\ sent = {} /\ subscribed = 0 /\ asserted = FALSE

-----------------------------------------------------------------------------
(* A reading *)

Read(c) ==
    /\ calls[c].at \in {"idle", "read", "no_position", "failed"} /\ up
    /\ calls' = [calls EXCEPT ![c] = [Call0 EXCEPT !.at = "queued"]]
    /\ UNCHANGED <<position, up, keyLock, line>>

\* The lock of the account and position is free.
May(c) == keyLock = None

\* _first_update: listening first, then the subscription.
Subscribe(c) ==
    /\ calls[c].at = "queued" /\ May(c) /\ up /\ subscribed < MaxSubscriptions
    /\ subscribed' = subscribed + 1
    /\ calls' = [calls EXCEPT ![c].at = "waiting", ![c].subscription = subscribed']
    /\ keyLock' = c /\ asserted' = (asserted \/ filed # 0)
    /\ filed' = subscribed' /\ live' = live \cup {subscribed'}
    /\ UNCHANGED <<position, up, sent>>

NotConnected(c) ==
    /\ calls[c].at = "queued" /\ May(c) /\ ~up
    /\ calls' = [calls EXCEPT ![c].at = "failed"]
    /\ UNCHANGED <<position, up, keyLock, line>>

\* However the wait ended, the subscription is cancelled and the key free.
Ends(c, outcome, from) ==
    /\ calls' = [calls EXCEPT ![c].at = outcome, ![c].from = from]
    /\ keyLock' = None /\ filed' = 0 /\ live' = live \ {filed}

Outcome(content) ==
    IF position # "account" /\ content = "nothing" THEN "no_position" ELSE "read"

\* An update or a refusal reaches ib_async, which knows the filed subscription only.
Arrive(c, n, content) ==
    /\ <<n, content>> \in sent /\ sent' = sent \ {<<n, content>>}
    /\ calls[c].at = "waiting" /\ n = filed
    /\ IF content = "error"
       THEN calls[c].subscription = n /\ Ends(c, "failed", 0)
       ELSE Ends(c, Outcome(content), n)
    /\ UNCHANGED <<position, up, subscribed, asserted>>

Unheard(n, content) ==
    /\ <<n, content>> \in sent /\ n # filed
    /\ sent' = sent \ {<<n, content>>}
    /\ UNCHANGED <<position, up, calls, keyLock, filed, live, subscribed, asserted>>

\* Silence is no news of a position that is held, and means none otherwise.
TimeOut(c) ==
    /\ calls[c].at = "waiting"
    /\ Ends(c, IF position = "not_held" THEN "no_position" ELSE "failed", 0)
    /\ UNCHANGED <<position, up, sent, subscribed, asserted>>

-----------------------------------------------------------------------------
(* IBKR and the session *)

\* IBKR is silent about a position that does not exist.
Send(n, content) ==
    /\ n \in live
    /\ content = "nothing" => position # "account"
    /\ content = "values" => position # "not_held"
    /\ sent' = sent \cup {<<n, content>>}
    /\ live' = IF content = "error" THEN live \ {n} ELSE live
    /\ UNCHANGED <<position, up, calls, keyLock, filed, subscribed, asserted>>

Drop ==
    /\ up /\ up' = FALSE
    /\ calls' = [c \in Caller |-> IF calls[c].at = "waiting"
                                  THEN [calls[c] EXCEPT !.at = "failed"] ELSE calls[c]]
    /\ keyLock' = None /\ filed' = 0 /\ live' = {} /\ sent' = {}
    /\ UNCHANGED <<position, subscribed, asserted>>

Connect == ~up /\ up' = TRUE /\ UNCHANGED <<position, calls, keyLock, line>>

Next ==
    \/ \E c \in Caller : Read(c) \/ Subscribe(c) \/ NotConnected(c) \/ TimeOut(c)
    \/ \E n \in 1..MaxSubscriptions, content \in Contents \cup {"error"} :
       \/ Unheard(n, content) \/ Send(n, content)
       \/ \E c \in Caller : Arrive(c, n, content)
    \/ Drop \/ Connect

Spec == Init /\ [][Next]_pvars

-----------------------------------------------------------------------------
(* Properties *)

\* A reading leaves no subscription behind at IBKR, nor in ib_async, where it
\* would refuse the readings that follow.
NoneLeftOpen ==
    /\ \A n \in live : \E c \in Caller : calls[c].at = "waiting" /\ calls[c].subscription = n
    /\ filed # 0 => keyLock # None
    /\ ~asserted

\* What is returned came from the reading's own subscription, made for it.
ReadingIsOwn ==
    \A c \in Caller : calls[c].at = "read" => calls[c].from = calls[c].subscription

\* The reading that waits holds the lock, and its subscription is the one filed.
Locked ==
    /\ \A c \in Caller : calls[c].at = "waiting" => keyLock = c
    /\ IF keyLock = None THEN filed = 0
       ELSE calls[keyLock].at = "waiting" /\ calls[keyLock].subscription = filed

\* IBKR streams the filed subscription, if any.
FiledOnly == live \subseteq {filed}

IInv == TypeOK /\ Locked /\ FiledOnly /\ NoneLeftOpen /\ ReadingIsOwn
=============================================================================
