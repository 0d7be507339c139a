---------------------------- MODULE PreviewSteps ----------------------------
(***************************************************************************)
(* A preview on its way to a token: the gate and a slot of the preview     *)
(* limit, the contract, the price increments, the reference prices, the    *)
(* order limits, a what-if for each order that can have one, the token.    *)
(* Every step but the limits waits on IBKR, previews of one contract run   *)
(* side by side, and the session may go at any of them.                    *)
(***************************************************************************)
EXTENDS Naturals, FiniteSets

CONSTANTS Caller, Kinds, MaxPreviews, MaxLosses

\* step[c]: where the preview of c is and what it found; slots: taken of the limit;
\* rule: the market rule of the contract, cached for the session of the server; ticker:
\* the cached one of the contract; link: "down", "reading" or "trading"; records: what
\* was audited; refused: whose own what-if IBKR refused; losses: of the session, bounded.
VARIABLES step, slots, rule, ticker, link, records, refused, losses

vars == <<step, slots, rule, ticker, link, records, refused, losses>>

-----------------------------------------------------------------------------

Flaw == {"none", "ticks", "limits"}

Kind == {"order", "bracket", "oca", "combo", "modify", "exercise", "cancel_all"}

PreviewAssumption == Kinds \subseteq Kind /\ MaxPreviews \in Nat /\ MaxLosses \in Nat

\* what_if: the entry alone of a bracket (its exits depend on it), every order of a group.
WhatIfs(kind) ==
    CASE kind = "oca" -> 2
      [] kind \in {"exercise", "cancel_all"} -> 0
      [] OTHER -> 1

\* Combos have rules of their own; the increments of the others are checked.
ChecksTicks(kind) == kind \in {"order", "bracket", "oca", "modify"}

\* flaw: what is wrong with it, a price off the increments or an order past the limits (a
\* cancel-all: there is no order to cancel); market: the limits need a reference price;
\* ticks: what the check of its prices came to.
Idle == [at |-> "idle", kind |-> "order", flaw |-> "none", market |-> FALSE, details |-> FALSE,
         ticks |-> "unchecked", price |-> "unknown", passed |-> 0, why |-> ""]

Waiting == {"qualify", "rule", "prices", "whatif"}
Over == {"issued", "rejected"}

Rejected(s, why) == [Idle EXCEPT !.at = "rejected", !.why = why]

-----------------------------------------------------------------------------
(* What follows a step that is over, up to the next wait *)

\* Of _finish_preview: the next what-if, or the token.
ToWhatIf(s) ==
    IF s.passed = WhatIfs(s.kind) THEN [s EXCEPT !.at = "issued"]
    ELSE IF link = "down" THEN Rejected(s, "not connected") ELSE [s EXCEPT !.at = "whatif"]

\* _check_limits: every order is held against the limits, and one that cannot be bounded
\* is refused.
ToLimits(s) ==
    IF s.flaw = "limits" \/ (s.market /\ s.price # "within") THEN Rejected(s, "limit")
    ELSE ToWhatIf(s)

\* _reference_prices: a fresh cached ticker, else a snapshot.
ToPrices(s) ==
    IF ~s.market THEN ToLimits(s)
    ELSE IF link = "down" THEN Rejected(s, "not connected")
    ELSE IF ticker \in {"within", "over"} THEN ToLimits([s EXCEPT !.price = ticker])
    ELSE [s EXCEPT !.at = "prices"]

\* _check_ticks, of a rule that is known or not.
Checked(s, known) ==
    IF known /\ s.flaw = "ticks" THEN Rejected(s, "ticks")
    ELSE ToPrices([s EXCEPT !.ticks = IF known THEN "fit" ELSE "unknown"])

ToRule(s) ==
    IF ~ChecksTicks(s.kind) \/ ~s.details THEN ToPrices(s)
    ELSE IF rule = "known" THEN Checked(s, TRUE)
    ELSE IF link = "down" THEN Rejected(s, "not connected") ELSE [s EXCEPT !.at = "rule"]

\* The contract is known (of a cancel-all, the working orders); an exercise and a
\* cancel-all ask for no more.
Qualified(s) ==
    IF s.kind \notin {"exercise", "cancel_all"} THEN ToRule([s EXCEPT !.details = TRUE])
    ELSE IF s.flaw = "limits" THEN Rejected(s, "limit") ELSE ToWhatIf(s)

\* The wait at s failed: a market rule, a price and the details of an order that is
\* modified can be done without (_market_rule, _reference_prices, _details_for).
Failed(s, why) ==
    CASE s.at = "rule" -> Checked(s, FALSE)
      [] s.at = "prices" -> ToLimits([s EXCEPT !.price = "none"])
      [] s.at = "qualify" /\ s.kind = "modify" -> ToRule(s)
      [] OTHER -> Rejected(s, why)

\* _refusals and _issue: a preview that is over is audited, once.
Audit(before, after) ==
    [c \in Caller |-> records[c] + (IF after[c].at \in Over /\ before[c].at \notin Over THEN 1 ELSE 0)]

Put(c, s) ==
    /\ step' = [step EXCEPT ![c] = s]
    /\ records' = Audit(step, step')

-----------------------------------------------------------------------------
(* Calls *)

\* preview_order and its like: nothing is asked of IBKR without the gate and a slot.
Begin(c, kind, flaw, market) ==
    LET s == [Idle EXCEPT !.kind = kind, !.flaw = flaw, !.market = market, !.at = "qualify"]
    IN /\ step[c].at = "idle"
       /\ market \/ flaw = "ticks" => kind \notin {"exercise", "cancel_all"}
       /\ Put(c, IF link # "trading" THEN Rejected(s, "gate")
                 ELSE IF slots = MaxPreviews THEN Rejected(s, "rate") ELSE s)
       /\ slots' = IF step'[c].at = "qualify" THEN slots + 1 ELSE slots
       /\ UNCHANGED <<rule, ticker, link, refused, losses>>

\* preview_modify of another term than a price, a quantity say: no details are asked for,
\* but an order that fills at the market still needs a reference price.
BeginPlain(c, flaw, market) ==
    LET s == [Idle EXCEPT !.kind = "modify", !.flaw = flaw, !.market = market, !.at = "qualify"]
    IN /\ step[c].at = "idle" /\ flaw # "ticks"
       /\ link = "trading" /\ slots < MaxPreviews
       /\ Put(c, ToRule(s))
       /\ slots' = slots + 1
       /\ UNCHANGED <<rule, ticker, link, refused, losses>>

-----------------------------------------------------------------------------
(* IBKR *)

Answer(c) ==
    /\ CASE step[c].at = "qualify" -> Put(c, Qualified(step[c])) /\ UNCHANGED rule
         [] step[c].at = "rule" -> Put(c, Checked(step[c], TRUE)) /\ rule' = "known"
         [] step[c].at = "prices" ->
              /\ \E price \in {"within", "over"} : Put(c, ToLimits([step[c] EXCEPT !.price = price]))
              /\ UNCHANGED rule
         [] step[c].at = "whatif" ->
              Put(c, ToWhatIf([step[c] EXCEPT !.passed = @ + 1])) /\ UNCHANGED rule
         [] OTHER -> FALSE
    /\ UNCHANGED <<slots, ticker, link, refused, losses>>

\* No such contract, no rule, no data, no answer in time.
Fail(c) ==
    /\ step[c].at \in Waiting
    /\ Put(c, Failed(step[c], step[c].at))
    /\ refused' = IF step[c].at = "whatif" THEN refused \cup {c} ELSE refused
    /\ UNCHANGED <<slots, rule, ticker, link, losses>>

\* Slip: every open what-if takes the error for its own.
EndsAny(listener, c) == step[listener].at = "whatif"

\* Every open what-if hears the error; each knows its own by the copy of the contract
\* it sent (ended, of _what_if).
Ends(listener, c) == listener = c /\ step[listener].at = "whatif"

\* Warning 321: a gateway with a read-only API refuses the what-if of c.
ReadOnly(c) ==
    /\ step[c].at = "whatif"
    /\ step' = [d \in Caller |-> IF Ends(d, c) THEN Rejected(step[d], "whatif") ELSE step[d]]
    /\ records' = Audit(step, step')
    /\ refused' = refused \cup {c}
    /\ UNCHANGED <<slots, rule, ticker, link, losses>>

Ticks ==
    /\ link # "down"
    /\ ticker' \in {"old", "within", "over"} \ {ticker}
    /\ UNCHANGED <<step, slots, rule, link, records, refused, losses>>

\* Every wait fails; what follows finds no session.
Drop ==
    /\ link # "down" /\ losses < MaxLosses
    /\ link' = "down" /\ losses' = losses + 1
    /\ step' = [c \in Caller |->
                   IF step[c].at \notin Waiting THEN step[c]
                   ELSE LET s == Failed(step[c], "not connected")
                        IN IF s.at \in Waiting THEN Rejected(s, "not connected") ELSE s]
    /\ records' = Audit(step, step')
    /\ UNCHANGED <<slots, rule, ticker, refused>>

Connect(how) ==
    /\ link # how
    /\ link' = how
    /\ UNCHANGED <<step, slots, rule, ticker, records, refused, losses>>

-----------------------------------------------------------------------------

Init ==
    /\ step = [c \in Caller |-> Idle]
    /\ slots = 0 /\ rule = "unknown" /\ ticker = "old" /\ link = "trading"
    /\ records = [c \in Caller |-> 0] /\ refused = {} /\ losses = 0

Next ==
    \/ \E c \in Caller, kind \in Kinds, flaw \in Flaw, market \in BOOLEAN :
          Begin(c, kind, flaw, market)
    \/ \E c \in Caller, flaw \in Flaw, market \in BOOLEAN : BeginPlain(c, flaw, market)
    \/ \E c \in Caller : Answer(c) \/ Fail(c) \/ ReadOnly(c)
    \/ Ticks \/ Drop
    \/ \E how \in {"reading", "trading"} : Connect(how)

Spec == Init /\ [][Next]_vars

-----------------------------------------------------------------------------
(* Invariants *)

Step == [at : {"idle"} \cup Waiting \cup Over, kind : Kind, flaw : Flaw, market : BOOLEAN,
         details : BOOLEAN, ticks : {"unchecked", "unknown", "fit"},
         price : {"unknown", "none", "within", "over"}, passed : 0..2,
         why : {"", "gate", "rate", "limit", "ticks", "not connected"} \cup Waiting]

TypeOK ==
    /\ step \in [Caller -> Step] /\ records \in [Caller -> Nat]
    /\ slots \in 0..MaxPreviews /\ link \in {"down", "reading", "trading"} /\ refused \subseteq Caller
    /\ ticker \in {"old", "within", "over"} /\ rule \in {"unknown", "known"}

\* The prices were held against the market rule and fit it, or the rule was asked for in
\* vain; nobody asks for one for a combo, an exercise, a cancel-all, or a modification of
\* an order whose details are unknown or whose prices stay.
TicksChecked(s) ==
    /\ s.ticks = "fit" => s.flaw # "ticks"
    /\ s.ticks = "unchecked" =>
          \/ s.kind \in {"combo", "exercise", "cancel_all"}
          \/ s.kind = "modify" /\ ~s.details

\* A token stands for orders IBKR checked, every one of them it can check, within the
\* limits, if need be by a reference price, and with prices that were checked.
TokensAreChecked ==
    \A c \in Caller : step[c].at = "issued" =>
        /\ step[c].passed = (CASE step[c].kind = "oca" -> 2
                               [] step[c].kind \in {"exercise", "cancel_all"} -> 0 [] OTHER -> 1)
        /\ c \notin refused
        /\ step[c].flaw # "limits" /\ (step[c].market => step[c].price = "within")
        /\ TicksChecked(step[c])

\* A preview whose what-if was refused was refused itself: the refusal of another's (of
\* the same contract, at the same time) is not taken for its own.
RefusalsAreOwn ==
    \A c \in Caller : step[c].why = "whatif" => c \in refused

\* What is over was audited once, what is not over was not audited.
AuditedOnce == \A c \in Caller : records[c] = IF step[c].at \in Over THEN 1 ELSE 0

\* Nothing waits on IBKR without a slot of the limit.
Holding == {c \in Caller : step[c].at \in Waiting \cup {"issued"}}

SlotsCover == IsFiniteSet(Holding) /\ Cardinality(Holding) <= slots

\* What a preview has passed where it waits: its what-ifs come one by one, after the
\* increments and the limits, and it was not refused.
OnItsWay(s) ==
    /\ s.ticks = "fit" => s.flaw # "ticks"
    /\ s.at \in {"prices", "whatif"} => TicksChecked(s)
    /\ s.market => s.kind \notin {"exercise", "cancel_all"}
    /\ s.at \in {"qualify", "rule", "prices"} => s.passed = 0
    /\ s.at = "whatif" => s.passed < WhatIfs(s.kind) /\ s.flaw # "limits"
                         /\ (s.market => s.price = "within")
    /\ s.at # "rejected" => s.why = ""

StepsInOrder ==
    /\ \A c \in Caller : OnItsWay(step[c])
    /\ \A c \in refused : step[c].at = "rejected"

IInv ==
    /\ TypeOK /\ StepsInOrder
    /\ TokensAreChecked /\ RefusalsAreOwn /\ AuditedOnce /\ SlotsCover
=============================================================================
