----------------------------- MODULE SubmitFlow -----------------------------
(***************************************************************************)
(* The way of a previewed order to IBKR: the submit_order tool, the human  *)
(* it asks, OrdersService.submit with its safety rails, and the answer     *)
(* that feeds the circuit breaker.  Calls run as tasks of one event loop,  *)
(* so an action runs from one await to the next.                           *)
(*                                                                         *)
(* The parts are abstract: tokens are those of TokenBook (what             *)
(* PreviewStore implements), the breaker is BreakerRules (CircuitBreaker   *)
(* adds its file), and the rate window is a number of slots in use, freed  *)
(* at any time (RateLimiter has the clock).  Order limits (OrderTerms)     *)
(* depend on the stored preview only, which passed them, and are left out. *)
(* An "order" job places OrderSize orders: one, a bracket, an OCA group.   *)
(***************************************************************************)
EXTENDS BreakerRules, FiniteSets

CONSTANTS Call,         \* calls of submit_order
          Token,        \* preview tokens
          Jobs,         \* what may be previewed: [kind, account]
          None,         \* no token, no answer yet
          OrderSize,    \* orders an "order" job places
          MaxSlots,     \* IBKR_MCP_MAX_ORDERS_PER_MINUTE
          AllowLive,    \* IBKR_MCP_ALLOW_LIVE
          LiveConfirm,  \* IBKR_MCP_LIVE_CONFIRM
          MaxResets,    \* bound: breaker resets by a human
          MaxLogins     \* bound: connections made

Kind == {"order", "exercise", "modify", "cancel_mine", "cancel_global"}
Account == {"paper", "live"}

ASSUME FlowAssumption ==
    /\ Jobs \subseteq [kind : Kind, account : Account]
    /\ None \notin Jobs \cup Token
    /\ None \notin {"not_required", "unavailable", "accepted", "declined", "unheard"}
    /\ OrderSize \in Nat \ {0} /\ MaxSlots \in Nat
    /\ AllowLive \in BOOLEAN /\ LiveConfirm \in BOOLEAN
    /\ MaxResets \in Nat /\ MaxLogins \in Nat

VARIABLES login,      \* the login of the session, "none" while not connected
          breaker,    \* the circuit breaker
          taken,      \* rate slots in use
          status, bound, granted,   \* the tokens (TokenBook)
          call,       \* each call of submit_order
          resets, logins            \* counts, for the bounds

book == <<status, bound, granted>>
vars == <<login, breaker, taken, book, call, resets, logins>>

Book == INSTANCE TokenBook WITH Preview <- Jobs

\* pc: idle; asking the human; body of the tool next; looking an order up;
\* waiting for IBKR's first status; done.
\* answer: how the confirmation was settled; "unheard": the human said no, and the
\* call was refused before its body could act on it.  spent: it consumed its token.
\* sent: how many orders it sent, to which login.  fate: what IBKR made of them.
CallState == [pc : {"idle", "asking", "body", "looking", "waiting", "done"},
              token : Token \cup {None},
              answer : {None, "not_required", "unavailable", "accepted", "declined", "unheard"},
              spent : BOOLEAN,
              sent : Nat,
              reached : {"none"} \cup Account,
              fate : {"silent", "working", "rejected"}]

NewCall == [pc |-> "idle", token |-> None, answer |-> None, spent |-> FALSE,
            sent |-> 0, reached |-> "none", fate |-> "silent"]

TypeOK ==
    /\ login \in {"none"} \cup Account
    /\ breaker \in Breaker
    /\ taken \in Nat
    /\ status \in [Token -> {"fresh", "pending", "redeemed", "lapsed"}]
    /\ bound \in [Token -> Jobs \cup {None}]
    /\ granted \in [Token -> Jobs \cup {None}]
    /\ call \in [Call -> CallState]
    /\ resets \in Nat /\ logins \in Nat

Init ==
    /\ login = "none" /\ logins = 0
    /\ breaker = Armed /\ resets = 0
    /\ taken = 0
    /\ Book!BookInit
    /\ call = [c \in Call |-> NewCall]

-----------------------------------------------------------------------------
(* The checks *)

\* ConnectionManager.require_trading, the gate in front of every write.
Gate == login = "paper" \/ (login = "live" /\ AllowLive)

\* _order_count: cancels count no order.
Slots(j) == CASE j.kind = "order" -> OrderSize
              [] j.kind \in {"exercise", "modify"} -> 1
              [] OTHER -> 0

\* Slip: a global cancel, which names no account, passes for a paper action.
ReachesLiveByOrder(j) == j.kind # "cancel_global" /\ j.account = "live"

\* _is_paper_action: a global cancel reaches every account of the login.
ReachesLive(j) == IF j.kind = "cancel_global" THEN login # "paper" ELSE j.account = "live"

\* _check_live.
LiveAllowed(j, human) == ReachesLive(j) => AllowLive /\ (LiveConfirm => human)

\* Slips: a check of _check_submit left out.
CheckSubmitAnyAccount(j, human) ==
    /\ Slots(j) > 0 => ~breaker.open
    /\ LiveAllowed(j, human)
    /\ Slots(j) > 0 => taken + Slots(j) <= MaxSlots

CheckSubmitUnhalted(j, human) ==
    /\ j.account = login
    /\ LiveAllowed(j, human)
    /\ Slots(j) > 0 => taken + Slots(j) <= MaxSlots

\* _check_submit: everything that refuses a submit, without side effects.
CheckSubmit(j, human) ==
    /\ j.account = login
    /\ Slots(j) > 0 => ~breaker.open
    /\ LiveAllowed(j, human)
    /\ Slots(j) > 0 => taken + Slots(j) <= MaxSlots

\* The resolver's refusals: the gate, the token, and submit's own checks as if
\* the human had said yes (precheck).
Described(t) == Gate /\ status[t] = "pending" /\ CheckSubmit(bound[t], TRUE)

AsksHuman(t) == ReachesLive(bound[t]) /\ LiveConfirm

-----------------------------------------------------------------------------
(* The call *)

Job(c) == bound[call[c].token]

\* The tool is called; its resolver runs first (resolve_live_confirmation).
CallSubmit(c, t) ==
    /\ call[c].pc = "idle"
    /\ \/ /\ ~Described(t)
          /\ call' = [call EXCEPT ![c].token = t, ![c].pc = "done"]
       \/ /\ Described(t) /\ ~AsksHuman(t)
          /\ call' = [call EXCEPT ![c].token = t, ![c].pc = "body",
                                  ![c].answer = "not_required"]
       \/ /\ Described(t) /\ AsksHuman(t)
          /\ \/ call' = [call EXCEPT ![c].token = t, ![c].pc = "asking"]
             \/ call' = [call EXCEPT ![c].token = t, ![c].pc = "body",
                                     ![c].answer = "unavailable"]
    /\ UNCHANGED <<login, breaker, taken, book, resets, logins>>

\* What is left of an answer when the call is refused before its body runs.
Unheard(answer) == IF answer = "declined" THEN "unheard" ELSE answer

\* The human accepts, or declines, cancels or leaves the box unticked.  Under
\* the protocol that answers with a new request the resolver runs again first,
\* and may refuse.  (It never finds that nobody need be asked: the login it
\* demands is the token's account, which is why a human was asked.)
HumanAnswers(c, a) ==
    LET t == call[c].token IN
    /\ call[c].pc = "asking"
    /\ \/ call' = [call EXCEPT ![c].pc = "body", ![c].answer = a]
       \/ /\ ~Described(t)
          /\ call' = [call EXCEPT ![c].pc = "done", ![c].answer = Unheard(a)]
    /\ UNCHANGED <<login, breaker, taken, book, resets, logins>>

Confirmed(c) == call[c].answer \in {"accepted", "not_required"}

\* Slip: a decline ends the call, and leaves the token to the next one.
DiscardTokenLater(c) ==
    /\ call[c].pc = "body" /\ Gate /\ ~Confirmed(c)
    /\ call' = [call EXCEPT ![c].pc = "done"]
    /\ UNCHANGED <<login, breaker, taken, book, resets, logins>>

\* The tool's body, when nobody confirmed: the token is discarded.
DiscardToken(c) ==
    LET t == call[c].token IN
    /\ call[c].pc = "body" /\ Gate /\ ~Confirmed(c)
    /\ call' = [call EXCEPT ![c].pc = "done"]
    /\ \/ status[t] = "pending" /\ Book!Lapse({t})
       \/ status[t] # "pending" /\ UNCHANGED book
    /\ UNCHANGED <<login, breaker, taken, resets, logins>>

\* submit checks everything again, after the human's answer.
Passes(c) ==
    /\ status[call[c].token] = "pending"
    /\ CheckSubmit(Job(c), call[c].answer = "accepted")

\* Refused by the gate or by the checks: the token stays as it is, also when
\* the gate, which comes before the tool's body, refuses a call told no.
RefuseSubmit(c) ==
    /\ call[c].pc = "body"
    /\ ~Gate \/ (Confirmed(c) /\ ~Passes(c))
    /\ call' = [call EXCEPT ![c].pc = "done", ![c].answer = Unheard(@)]
    /\ UNCHANGED <<login, breaker, taken, book, resets, logins>>

\* Orders, or messages of another kind, that a job sends.
Messages(j) == IF j.kind = "order" THEN OrderSize ELSE 1

\* Everything goes out, or the connection is lost on the way, or (n = 0) the
\* order to modify or cancel turned out to be gone or changed.
Send(c) ==
    \E n \in 0 .. Messages(Job(c)) :
        call' = [call EXCEPT
                    ![c].spent = TRUE,
                    ![c].sent = n,
                    ![c].reached = IF n > 0 THEN login ELSE "none",
                    ![c].pc = IF n = Messages(Job(c)) THEN "waiting" ELSE "done"]

\* Finding the order to modify or cancel may ask IBKR (_own_trade).
LooksUp(j) == j.kind \in {"modify", "cancel_mine"}

\* Slip: the token is peeked at, not consumed.
SubmitWithoutConsuming(c) ==
    /\ call[c].pc = "body" /\ Gate /\ Confirmed(c) /\ Passes(c)
    /\ taken' = taken + Slots(Job(c))
    /\ Send(c)
    /\ UNCHANGED <<login, breaker, book, resets, logins>>

\* submit: consume the token, take the slots, and send, without an await
\* between the checks and the slots; then send, or look the order up first.
Submit(c) ==
    /\ call[c].pc = "body" /\ Gate /\ Confirmed(c) /\ Passes(c)
    /\ Book!Redeem({}, call[c].token)
    /\ taken' = taken + Slots(Job(c))
    /\ \/ Send(c)
       \/ /\ LooksUp(Job(c))
          /\ call' = [call EXCEPT ![c].pc = "looking", ![c].spent = TRUE]
    /\ UNCHANGED <<login, breaker, resets, logins>>

\* The lookup is answered, refused or times out; what was found is acted upon.
LookupEnds(c) ==
    /\ call[c].pc = "looking"
    /\ Send(c)
    /\ UNCHANGED <<login, breaker, taken, book, resets, logins>>

\* IBKR's view of what was sent, now or long after the call has returned.  It
\* acknowledges no exercise.
Verdict(c, fate) ==
    /\ call[c].sent > 0 /\ call[c].reached = login
    /\ Slots(Job(c)) > 0
    /\ \/ fate = "working" /\ call[c].fate = "silent" /\ Job(c).kind # "exercise"
       \/ fate = "rejected" /\ call[c].fate # "rejected"
    /\ call' = [call EXCEPT ![c].fate = fate]
    /\ UNCHANGED <<login, breaker, taken, book, resets, logins>>

\* The wait for the first status ends, by a status or by its timeout, and the
\* result is built (_order_result, _submit_exercise, _submit_cancel_all).
Fed(c) ==
    CASE Slots(Job(c)) = 0 -> breaker
      [] Slots(Job(c)) > 0 /\ call[c].fate = "rejected" -> Rejected(breaker)
      [] Slots(Job(c)) > 0 /\ (call[c].fate = "working"
            \/ (call[c].fate = "silent" /\ Job(c).kind = "exercise")) -> Succeeded(breaker)
      [] OTHER -> breaker

\* Slip: the wait has no timeout.
ReturnResultOnStatus(c) ==
    /\ call[c].pc = "waiting" /\ call[c].fate # "silent"
    /\ breaker' = Fed(c)
    /\ call' = [call EXCEPT ![c].pc = "done"]
    /\ UNCHANGED <<login, taken, book, resets, logins>>

ReturnResult(c) ==
    /\ call[c].pc = "waiting"
    /\ breaker' = Fed(c)
    /\ call' = [call EXCEPT ![c].pc = "done"]
    /\ UNCHANGED <<login, taken, book, resets, logins>>

-----------------------------------------------------------------------------
(* Everything else *)

\* A preview_* tool issues a token, for an account of the login.
IssueToken(t, j) ==
    /\ Gate /\ j.account = login
    /\ Book!Issue({}, t, j)
    /\ UNCHANGED <<login, breaker, taken, call, resets, logins>>

\* Tokens expire, are evicted, or fail their digest.
TokenLapses(t) ==
    /\ status[t] = "pending"
    /\ Book!Lapse({t})
    /\ UNCHANGED <<login, breaker, taken, call, resets, logins>>

\* Orders leave the rate window.
SlotsFree ==
    /\ taken' \in 0 .. taken /\ taken' < taken
    /\ UNCHANGED <<login, breaker, book, call, resets, logins>>

\* A human confirms reset_circuit_breaker.
HumanResets ==
    /\ NeedsReset(breaker) /\ resets < MaxResets
    /\ breaker' = Armed /\ resets' = resets + 1
    /\ UNCHANGED <<login, taken, book, call, logins>>

\* Slip: a lookup outlives the session it was asked in.
DisconnectQuietly ==
    /\ login # "none" /\ login' = "none"
    /\ UNCHANGED <<breaker, taken, book, call, resets, logins>>

\* The session drops; a lookup under way fails with it.
Disconnect ==
    /\ login # "none" /\ login' = "none"
    /\ call' = [c \in Call |-> IF call[c].pc = "looking"
                               THEN [call[c] EXCEPT !.pc = "done"] ELSE call[c]]
    /\ UNCHANGED <<breaker, taken, book, resets, logins>>

\* It comes back, perhaps as another login.
Connect(l) ==
    /\ login = "none" /\ logins < MaxLogins
    /\ login' = l /\ logins' = logins + 1
    /\ UNCHANGED <<breaker, taken, book, call, resets>>

Body(c) == DiscardToken(c) \/ RefuseSubmit(c) \/ Submit(c)

Next ==
    \/ \E c \in Call, t \in Token : CallSubmit(c, t)
    \/ \E c \in Call, a \in {"accepted", "declined"} : HumanAnswers(c, a)
    \/ \E c \in Call : Body(c)
    \/ \E c \in Call : LookupEnds(c)
    \/ \E c \in Call, fate \in {"working", "rejected"} : Verdict(c, fate)
    \/ \E c \in Call : ReturnResult(c)
    \/ \E t \in Token, j \in Jobs : IssueToken(t, j)
    \/ \E t \in Token : TokenLapses(t)
    \/ SlotsFree
    \/ HumanResets
    \/ Disconnect
    \/ \E l \in Account : Connect(l)

Spec == Init /\ [][Next]_vars

\* A task runs when the event loop reaches it; lookups and waits have timeouts
\* (IB_REQUEST_TIMEOUT, status_wait).  Humans and IBKR may never answer.
Fairness == \A c \in Call : /\ WF_vars(Body(c))
                            /\ WF_vars(LookupEnds(c))
                            /\ WF_vars(ReturnResult(c))

FairSpec == Spec /\ Fairness

-----------------------------------------------------------------------------
(* Properties *)

\* However many calls name a token, in whatever order their humans answer, at
\* most one of them consumes it, and only that one sends anything.  A token
\* nobody consumed is not used up: a refused submit leaves it usable.
OneSubmitPerToken ==
    /\ \A c \in Call : call[c].sent > 0 => call[c].spent
    /\ \A c, d \in Call :
           call[c].spent /\ call[d].spent /\ call[c].token = call[d].token => c = d
    /\ \A t \in Token :
           status[t] = "redeemed" <=> \E c \in Call : call[c].spent /\ call[c].token = t

\* What reaches a live login does so with IBKR_MCP_ALLOW_LIVE and, if humans
\* must confirm, with this very call's own human's yes; also when the login
\* changed between the preview, the question and the submit.  A global cancel
\* is live whenever the login is.
LiveNeedsAHuman ==
    \A c \in Call : call[c].reached = "live" =>
        /\ AllowLive
        /\ LiveConfirm => call[c].answer = "accepted"

\* A human turned down the action of token t when call d asked.
TurnedDown(d, t) == call[d].token = t /\ call[d].answer \in {"declined", "unheard"}

Executes(c) == call'[c].spent /\ ~call[c].spent

\* Once a human has said no, a token is executed only by another call whose own
\* human says yes, and then only if the no did not reach the body of its tool:
\* it was refused first, by the resolver or the gate (the caller gets that
\* refusal, not confirmation_declined), or its body has not run yet, and the
\* other's runs before.  From the moment the body has run it is final.
DeclinedIsFinal ==
    [][\A c, d \in Call : Executes(c) /\ TurnedDown(d, call[c].token) =>
           /\ call[c].answer = "accepted"
           /\ call[d].answer = "unheard" \/ call[d].pc = "body"]_vars

\* Orders only go to the account they were previewed for.
RightAccount ==
    \A c \in Call : call[c].reached # "none" =>
        call[c].reached = Job(c).account

\* Concurrent submits, each checked before its human was asked, never take more
\* slots than the limit.
RateHolds == taken <= MaxSlots

\* Where a call stands agrees with what it has done; one that looks an order up
\* still has every permission to send.
CallsConsistent ==
    \A c \in Call :
        /\ call[c].pc # "idle" => call[c].token \in Token
        /\ call[c].spent => call[c].pc \in {"looking", "waiting", "done"}
        /\ call[c].pc \in {"looking", "waiting"} => call[c].spent
        /\ call[c].reached # "none" => call[c].spent
        /\ call[c].pc = "looking" =>
               /\ LooksUp(Job(c)) /\ login = Job(c).account
               /\ LiveAllowed(Job(c), call[c].answer = "accepted")

\* Humans are asked about live accounts only, and a no the body heard ended the token.
AnswersConsistent ==
    \A c \in Call :
        /\ call[c].pc \in {"idle", "asking"} => call[c].answer = None
        /\ call[c].pc = "asking" \/ call[c].answer \in {"accepted", "declined", "unheard"} =>
               /\ status[call[c].token] # "fresh"
               /\ LiveConfirm /\ Job(c).account = "live"
        /\ call[c].answer = "declined" /\ call[c].pc # "body" =>
               status[call[c].token] \in {"lapsed", "redeemed"}

TokensConsistent == \A t \in Token : status[t] # "fresh" => bound[t] \in Jobs

\* The inductive invariant of SubmitFlowProofs.
IInv == /\ TypeOK /\ CallsConsistent /\ AnswersConsistent /\ TokensConsistent
        /\ OneSubmitPerToken /\ LiveNeedsAHuman /\ RightAccount /\ RateHolds

Reaches(c) == call'[c].sent # call[c].sent

\* While the breaker is open no order is placed and no option exercised, even
\* if the human was asked before it opened.
NewOrdersHaltWhileOpen ==
    [][\A c \in Call : Reaches(c) /\ Job(c).kind \in {"order", "exercise"} =>
           ~breaker.open]_vars

\* A submit always returns: whatever IBKR, the human of another call or the
\* connection do, the body of the tool ends.
SubmitReturns ==
    \A c \in Call : call[c].pc \in {"body", "looking", "waiting"} ~> call[c].pc = "done"

\* README and tools.md: after consecutive rejections the breaker halts order
\* submission.  Read for every kind it counts, modifications included.
BreakerHaltsSubmission ==
    [][\A c \in Call : Reaches(c) /\ Slots(Job(c)) > 0 => ~breaker.open]_vars

\* README: Threshold consecutive IBKR rejections halt order submission.  Read
\* for orders that IBKR rejects after its first status, or after the wait.
RejectionsHaltSubmission ==
    LET orders == {c \in Call : call[c].sent > 0 /\ Slots(Job(c)) > 0}
    IN  /\ resets = 0
        /\ Cardinality(orders) >= Threshold
        /\ \A c \in orders : call[c].pc = "done" /\ call[c].fate = "rejected"
        => breaker.open
=============================================================================
