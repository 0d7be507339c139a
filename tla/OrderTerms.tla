----------------------------- MODULE OrderTerms -----------------------------
(***************************************************************************)
(* The terms of orders: which prices and times in force every order type   *)
(* takes, what a modification may change, the orders of a bracket, the     *)
(* price increments a preview checks; and the order limits: the notional   *)
(* an order may reach, and the checks of OrderPolicy.check, run at preview *)
(* and again at submit.                                                    *)
(*                                                                         *)
(* A price is a number, Unset when there is none (IBKR's unset markers);   *)
(* a time is a number too.  Problems are kept as a set of their names: an  *)
(* empty one accepts.                                                      *)
(***************************************************************************)
EXTENDS Integers, FiniteSetsExt, SequencesExt

Unset == -1

LimitRequired == {"LMT", "STP LMT", "LIT", "LOC"}
LimitTypes == LimitRequired \cup {"REL", "MIDPRICE", "TRAIL LIMIT", "PEG MID"}
AuxRequired == {"STP", "STP LMT", "MIT", "LIT"}
Trailing == {"TRAIL", "TRAIL LIMIT"}
AuxTypes == AuxRequired \cup Trailing \cup {"REL", "PEG MID", "PEG MKT"}
OrderTypes == LimitTypes \cup AuxTypes \cup {"MKT", "MOC"}

Given(x) == x # Unset
ProblemIf(condition, name) == IF condition THEN {name} ELSE {}

-----------------------------------------------------------------------------
(* The rules.  Terms are [type, limit, aux, percent, stop, offset]. *)

TrailingProblems(t) ==
    UNION {
      ProblemIf(t.type \in Trailing /\ (Given(t.aux) <=> Given(t.percent)), "one trail"),
      ProblemIf(t.type \in Trailing /\ t.aux = 0 /\ ~Given(t.percent), "positive trail"),
      ProblemIf(t.type \notin Trailing /\ Given(t.percent), "no percent"),
      ProblemIf(t.type \notin Trailing /\ Given(t.stop), "no trail stop"),
      ProblemIf(t.type = "TRAIL LIMIT" /\ (Given(t.limit) <=> Given(t.offset)), "one limit"),
      ProblemIf(t.type = "TRAIL LIMIT" /\ ~Given(t.stop), "trail stop"),
      ProblemIf(t.type # "TRAIL LIMIT" /\ Given(t.offset), "no offset") }

PriceProblems(t) ==
    TrailingProblems(t) \cup UNION {
      ProblemIf(t.type \in LimitRequired /\ ~Given(t.limit), "limit"),
      ProblemIf(t.type \notin LimitTypes /\ Given(t.limit), "no limit"),
      ProblemIf(t.type \in AuxRequired /\ ~Given(t.aux), "aux"),
      ProblemIf(t.type \in AuxRequired /\ t.aux = 0, "positive aux"),
      ProblemIf(t.type \notin AuxTypes /\ Given(t.aux), "no aux") }

TifProblems(type, tif, date) ==
    UNION {
      ProblemIf(tif = "GTD" /\ ~Given(date), "date"),
      ProblemIf(tif # "GTD" /\ Given(date), "no date"),
      ProblemIf(tif = "OPG" /\ type \notin {"MKT", "LMT"}, "at the open"),
      ProblemIf(type \in {"MOC", "LOC"} /\ tif # "DAY", "at the close") }

\* A spec is an order's terms and [quantity, tif, date, after, display, hidden,
\* algo]: a single contract's order.
SpecProblems(s) ==
    PriceProblems(s) \cup TifProblems(s.type, s.tif, s.date) \cup UNION {
      ProblemIf(s.algo /\ s.type \notin {"MKT", "LMT"}, "no algo"),
      ProblemIf(Given(s.display) /\ s.display >= s.quantity, "display"),
      ProblemIf(Given(s.display) /\ s.hidden, "hidden"),
      ProblemIf(Given(s.after) /\ Given(s.date) /\ s.after >= s.date, "after") }

-----------------------------------------------------------------------------
(* Modifications.  Changes are [quantity, limit, aux, percent, stop, tif,    *)
(* date], each Unset or "" when it stays.                                    *)

TifAfter(o, c) == IF c.tif # "" THEN c.tif ELSE o.tif
DateAfter(o, c) == IF ~Given(c.date) /\ TifAfter(o, c) = "GTD" THEN o.date ELSE c.date

TifChangeProblems(o, c) ==
    IF c.tif # "" \/ Given(c.date)
    THEN TifProblems(o.type, TifAfter(o, c), DateAfter(o, c)) ELSE {}

ModifyProblems(o, c) ==
    TifChangeProblems(o, c) \cup UNION {
      ProblemIf(Given(c.limit) /\ o.type \notin LimitTypes, "no limit"),
      ProblemIf(Given(c.aux) /\ o.type \notin AuxTypes, "no aux"),
      ProblemIf(o.type \notin Trailing /\ (Given(c.percent) \/ Given(c.stop)), "no trail"),
      ProblemIf(Given(c.aux) /\ Given(c.percent), "one trail") }

Changed(old, new) == IF Given(new) THEN new ELSE old

\* A fixed limit replaces an offset, an amount a percentage and the other way
\* round, and a time in force other than GTD drops the date.
Apply(o, c) ==
    [o EXCEPT
       !.quantity = Changed(@, c.quantity),
       !.limit = Changed(@, c.limit),
       !.offset = IF Given(c.limit) /\ o.type = "TRAIL LIMIT" THEN Unset ELSE @,
       !.aux = IF Given(c.percent) THEN Unset ELSE Changed(@, c.aux),
       !.percent = CASE Given(c.percent) -> c.percent
                     [] ~Given(c.percent) /\ Given(c.aux) /\ o.type \in Trailing -> Unset
                     [] OTHER -> @,
       !.stop = Changed(@, c.stop),
       !.tif = IF c.tif # "" THEN c.tif ELSE @,
       !.date = CASE Given(c.date) -> c.date
                  [] ~Given(c.date) /\ c.tif \notin {"", "GTD"} -> Unset
                  [] OTHER -> @]

\* An order at IBKR: a price of 0 counts as none.
OrderProblems(o) ==
    LET unset(x) == IF x = 0 THEN Unset ELSE x
    IN PriceProblems([o EXCEPT !.limit = unset(@), !.aux = unset(@), !.percent = unset(@),
                               !.stop = unset(@), !.offset = unset(@)])

ModifyAccepted(o, c) ==
    /\ ModifyProblems(o, c) = {}
    /\ OrderProblems(Apply(o, c)) \subseteq OrderProblems(o)

-----------------------------------------------------------------------------
(* Brackets: [action, type, price, stop, profit, loss, tif, date]. *)

Opposite(action) == IF action = "BUY" THEN "SELL" ELSE "BUY"

BracketProblems(b) ==
    LET low == IF b.action = "BUY" THEN b.loss ELSE b.profit
        high == IF b.action = "BUY" THEN b.profit ELSE b.loss
    IN TifProblems("LMT", b.tif, b.date) \cup UNION {
         ProblemIf((b.type = "MKT") <=> Given(b.price), "entry price"),
         ProblemIf((b.type = "STP LMT") # Given(b.stop), "entry stop"),
         ProblemIf(low >= high, "exits crossed"),
         ProblemIf(low < high /\ Given(b.price) /\ ~(low < b.price /\ b.price < high), "outside") }

NewOrder(action, type, limit, aux, b, transmit) ==
    [action |-> action, type |-> type, limit |-> limit, aux |-> aux, percent |-> Unset,
     stop |-> Unset, offset |-> Unset, tif |-> b.tif, date |-> b.date, transmit |-> transmit]

\* Entry, take profit and stop loss, sent in this order: the last transmits all.
BracketOrders(b) ==
    << NewOrder(b.action, b.type,
                IF b.type \in {"LMT", "STP LMT"} THEN b.price ELSE Unset,
                IF b.type = "STP" THEN b.price ELSE b.stop, b, FALSE),
       NewOrder(Opposite(b.action), "LMT", b.profit, Unset, b, FALSE),
       NewOrder(Opposite(b.action), "STP", Unset, b.loss, b, TRUE) >>

-----------------------------------------------------------------------------
(* Cases: every valid order with a change of one or two of its terms, and   *)
(* every valid bracket.                                                      *)

Tifs == {"DAY", "GTC", "GTD", "OPG"}

Specs ==
    {s \in [type : OrderTypes, limit : {Unset, 2}, aux : {Unset, 0, 2}, percent : {Unset, 5},
            stop : {Unset, 2}, offset : {Unset, 2}, quantity : {2}, tif : Tifs,
            date : {Unset, 2}, after : {Unset, 1}, display : {Unset, 1}, hidden : {FALSE},
            algo : {FALSE}] : SpecProblems(s) = {}}

NoChange == [quantity |-> Unset, limit |-> Unset, aux |-> Unset, percent |-> Unset,
             stop |-> Unset, tif |-> "", date |-> Unset]
Edit == (({"limit", "stop"} \X {1}) \cup ({"aux"} \X {0, 1}) \cup {<<"percent", 4>>, <<"date", 3>>})
        \cup ({"tif"} \X Tifs)
Changes ==
    {[[NoChange EXCEPT ![e[1]] = e[2]] EXCEPT ![f[1]] = f[2]] : e \in Edit, f \in Edit}

Entries ==
    {b \in [action : {"BUY", "SELL"}, type : {"LMT", "MKT", "STP", "STP LMT"},
            price : {Unset} \cup 1..3, stop : {Unset} \cup 1..3, profit : 1..3, loss : 1..3,
            tif : {"DAY", "GTC", "GTD"}, date : {Unset, 2}] : BracketProblems(b) = {}}

Cases == [kind : {"modify"}, order : Specs, changes : Changes] \cup [kind : {"bracket"}, entry : Entries]

-----------------------------------------------------------------------------
(* Properties *)

\* A modification that passed its checks leaves an order with every price and
\* date its type needs and none it cannot use (preview_modify, _modify_problems,
\* _apply_changes), and a new positive price is not refused on a type that
\* takes it, even where it has to replace another one.
ModifyRight(o, c) ==
    LET m == Apply(o, c)
        prices == {f \in {"limit", "aux", "percent", "stop"} : Given(c[f])}
        taken == CASE prices = {"limit"} -> o.type \in LimitTypes
                   [] prices = {"aux"} -> o.type \in AuxTypes
                   [] prices \in {{"percent"}, {"stop"}} -> o.type \in Trailing
                   [] OTHER -> FALSE
    IN /\ ModifyAccepted(o, c) => /\ OrderProblems(m) = {}
                                  /\ TifProblems(m.type, m.tif, m.date) = {}
       /\ taken /\ c.aux # 0 /\ c.tif = "" /\ ~Given(c.date) => ModifyAccepted(o, c)

\* The three orders of a valid bracket are valid orders themselves, the exits
\* close what the entry opens at prices on both sides of it, and nothing is
\* transmitted before the stop loss that protects it (preview_bracket).
BracketRight(b) ==
    LET orders == BracketOrders(b)
    IN /\ \A i \in 1..3 : /\ PriceProblems(orders[i]) = {}
                          /\ TifProblems(orders[i].type, orders[i].tif, orders[i].date) = {}
                          /\ orders[i].transmit <=> i = 3
       /\ orders[2].action = orders[3].action /\ orders[2].action # orders[1].action
       /\ b.action = "BUY" => orders[3].aux < orders[2].limit
       /\ b.action = "SELL" => orders[2].limit < orders[3].aux

TermsRight(c) ==
    IF c.kind = "modify" THEN ModifyRight(c.order, c.changes) ELSE BracketRight(c.entry)
-----------------------------------------------------------------------------
(* Price increments (IBKR's market rules): which rules may apply to an order, and
   whether its prices fit one of them.  A rule's ladder is a set of rungs
   [edge, step]; rule ids and venues are lists that line up, "" is a blank entry. *)

-----------------------------------------------------------------------------
(* _ladders: rules gives the ladder of every rule that could be fetched.    *)

Index(venues, exchange) == Min({i \in DOMAIN venues : venues[i] = exchange})

Chosen(ids, venues, exchange) ==
    IF Len(ids) = Len(venues) /\ exchange \in Range(venues)
    THEN {ids[Index(venues, exchange)]} ELSE Range(ids)

\* No ladder when any candidate is unknown: it could be the one a price fits.
Ladders(ids, venues, exchange, rules) ==
    LET chosen == Chosen(ids, venues, exchange)
    IN IF chosen \subseteq DOMAIN rules THEN {rules[i] : i \in chosen} ELSE {}

-----------------------------------------------------------------------------
(* _tick_problem *)

\* The steps a ladder sets at a price: none below its first edge, or a step of 0.
StepAt(ladder, price) ==
    LET below == {r.edge : r \in {x \in ladder : x.edge <= price}}
    IN {r.step : r \in {x \in ladder : below # {} /\ x.edge = Max(below) /\ x.step > 0}}

OffEveryGrid(price, ladders) ==
    LET steps == UNION {StepAt(l, price) : l \in ladders}
    IN steps # {} /\ \A s \in steps : price % s # 0

\* The absolute prices of an order: no offset and no trailing amount.
TickPrices(o) ==
    {p \in {o.limit, IF o.type \in AuxRequired THEN o.aux ELSE Unset, o.stop} : Given(p)}

\* _check_ticks for one order whose details are known.
TicksRefused(o, ids, venues, exchange, rules) ==
    \E p \in TickPrices(o) : OffEveryGrid(p, Ladders(ids, venues, exchange, rules))

-----------------------------------------------------------------------------
(* Cases of orders and increments *)

Fine == {[edge |-> 0, step |-> 1]}
Coarse == {[edge |-> 0, step |-> 2], [edge |-> 4, step |-> 3]}
OddLadder == {[edge |-> 2, step |-> 0], [edge |-> 3, step |-> 5]}

GridCases ==
    [ids : SeqOf({"1", "2", ""}, 2), venues : SeqOf({"A", "B"}, 2), exchange : {"A", "SMART"},
     known : SUBSET {"1", "2"}, two : {Coarse, OddLadder},
     order : {t \in [type : {"LMT", "STP LMT", "TRAIL", "REL"}, limit : {Unset, 3, 6}, aux : {Unset, 1, 5},
                     percent : {Unset}, stop : {Unset, 4}, offset : {Unset}] : PriceProblems(t) = {}}]

RulesOf(c) == [id \in c.known |-> IF id = "1" THEN Fine ELSE c.two]

-----------------------------------------------------------------------------
(* Properties of the increments *)

Fits(price, ladder) == \A s \in StepAt(ladder, price) : price % s = 0

\* Whichever of the contract's rules holds at the exchange - the one listed for
\* it, else any of them, known or not - an order whose prices all fit that rule
\* is not refused for its increments; one refused on a listed exchange is off
\* that exchange's own grid.
GridRight(c) ==
    LET rules == RulesOf(c)
        every == [id \in {"1", "2"} |-> IF id = "1" THEN Fine ELSE c.two]
        candidates == Chosen(c.ids, c.venues, c.exchange) \cap {"1", "2"}
    IN TicksRefused(c.order, c.ids, c.venues, c.exchange, rules) =>
         \A id \in candidates : \E p \in TickPrices(c.order) : ~Fits(p, every[id])

-----------------------------------------------------------------------------
(* The order limits.  Quantities and multipliers are positive numbers,     *)
(* Unset when unknown.  An order summary is [symbol, secType, action,      *)
(* quantity, type, limit, aux, multiplier, currency, reference, legs], a   *)
(* leg [symbol, secType, ratio, multiplier, price]; limits are [notional,  *)
(* quantity, symbols, secTypes, currencies], Unset or {} when there is     *)
(* none.                                                                   *)


AuxIsTrigger == {"STP", "STP LMT", "STP PRT", "MIT", "LIT"}
Capping == {"LMT", "STP LMT", "LIT", "LOC", "LOO"}
NeedsMultiplier == {"OPT", "FOP", "FUT", "CONTFUT", "WAR", "IOPT"}
Unbounded == {"BOND", "EVENT"}

Larger(x, y) == IF x > y THEN x ELSE y

-----------------------------------------------------------------------------
(* The reference price: a quote is [last, ask, bid, mark, close, age]. *)

Prices(quote) == {quote.last, quote.ask, quote.bid, quote.mark} \ {Unset}

\* The highest price shown, else the previous close.
TickerPrice(quote) == IF Prices(quote) # {} THEN Max(Prices(quote)) ELSE quote.close

\* A stream that ticked within MaxAge, else a snapshot; an unanswered or
\* unpriced snapshot gives none.
Reference(stream, snapshot, MaxAge) ==
    IF Given(stream.age) /\ stream.age <= MaxAge /\ Given(TickerPrice(stream))
    THEN TickerPrice(stream) ELSE TickerPrice(snapshot)

-----------------------------------------------------------------------------
(* estimate_notional *)

IsCapped(o) == o.action = "BUY" /\ o.type \in Capping /\ Given(o.limit)

\* The price per unit a fill cannot exceed; Unset when nothing bounds it.
PriceBasis(o) ==
    LET own == CASE Given(o.limit) -> o.limit
                 [] ~Given(o.limit) /\ o.type \in AuxIsTrigger -> o.aux
                 [] OTHER -> Unset
    IN CASE IsCapped(o) -> o.limit
         [] ~IsCapped(o) /\ ~Given(o.reference) -> Unset
         [] OTHER -> Larger(own, o.reference)

Units(multiplier) == IF Given(multiplier) THEN multiplier ELSE 1

LegNotional(o, leg) == leg.ratio * o.quantity * leg.price * Units(leg.multiplier)

Notional(o) ==
    IF o.legs # <<>>
    THEN IF \A i \in DOMAIN o.legs : Given(o.legs[i].price)
         THEN MapThenSumSet(LAMBDA i : LegNotional(o, o.legs[i]), DOMAIN o.legs) ELSE Unset
    ELSE IF Given(PriceBasis(o)) THEN o.quantity * PriceBasis(o) * Units(o.multiplier) ELSE Unset

-----------------------------------------------------------------------------
(* OrderPolicy.check *)

\* What the limits look at: the legs of a combo, else the order itself.
Parts(o) == IF o.legs # <<>> THEN {o.legs[i] : i \in DOMAIN o.legs} ELSE {o}

SymbolOk(lim, o) == lim.symbols # {} => \A p \in Parts(o) : p.symbol \in lim.symbols

SecTypeOk(lim, o) ==
    lim.secTypes # {} =>
        {o.secType} \cup {p.secType : p \in Parts(o)} \subseteq lim.secTypes

CurrencyOk(lim, o) == lim.currencies # {} => o.currency \in lim.currencies

QuantityOk(lim, o) ==
    \/ ~Given(lim.quantity)
    \/ /\ o.quantity <= lim.quantity
       /\ \A i \in DOMAIN o.legs : o.legs[i].ratio * o.quantity <= lim.quantity

MultiplierKnown(o) ==
    \A p \in Parts(o) : /\ p.secType \notin Unbounded
                        /\ p.secType \in NeedsMultiplier => Given(p.multiplier)

NotionalOk(lim, o) ==
    \/ ~Given(lim.notional)
    \/ MultiplierKnown(o) /\ Given(Notional(o)) /\ Notional(o) <= lim.notional

Admitted(lim, o) ==
    /\ SymbolOk(lim, o) /\ SecTypeOk(lim, o) /\ CurrencyOk(lim, o)
    /\ QuantityOk(lim, o) /\ NotionalOk(lim, o)

-----------------------------------------------------------------------------
(* The summaries of a preview *)

\* _needs_reference: the price is fetched only where the notional may use it.
NeedsReference(lim, o) == Given(lim.notional) /\ ~IsCapped(o)

Summary(lim, o, reference) ==
    [o EXCEPT !.reference = IF NeedsReference(lim, o) THEN reference ELSE Unset]

\* An exercise of an option [symbol, secType, right, strike, multiplier, under]
\* as the limits see it, and what it delivers: nothing when it settles in cash.
ExerciseSummary(x, quantity) ==
    [symbol |-> x.symbol, secType |-> x.secType, quantity |-> quantity, type |-> "LMT",
     action |-> IF x.right = "C" THEN "BUY" ELSE "SELL", limit |-> x.strike, aux |-> Unset,
     reference |-> x.strike, multiplier |-> x.multiplier, currency |-> "USD", legs |-> <<>>]

Under(x) ==
    CASE x.under # "" -> x.under
      [] x.under = "" /\ x.secType = "OPT" -> "STK"
      [] x.under = "" /\ x.secType = "FOP" -> "FUT"

DeliveredSummary(x, quantity) ==
    [ExerciseSummary(x, quantity) EXCEPT
       !.secType = Under(x),
       !.quantity = IF Under(x) = "FUT" THEN quantity ELSE quantity * Units(x.multiplier),
       !.multiplier = IF Under(x) = "FUT" THEN x.multiplier ELSE Unset]

Summaries(x, quantity, action) ==
    {ExerciseSummary(x, quantity)}
    \cup IF action = "exercise" /\ Under(x) # "IND" THEN {DeliveredSummary(x, quantity)} ELSE {}

-----------------------------------------------------------------------------
(* Cases *)

Limits ==
    [notional : {Unset, 8}, quantity : {Unset, 2}, symbols : {{}}, secTypes : {{}, {"STK", "BAG"}},
     currencies : {{}}]
    \cup [notional : {8}, quantity : {Unset}, symbols : {{"x"}}, secTypes : {{}}, currencies : {{"EUR"}}]

PricesOf == {t \in [type : OrderTypes, limit : {Unset, 1, 3}, aux : {Unset, 1, 4}, percent : {Unset, 1},
                    stop : {Unset, 3}, offset : {Unset}] : PriceProblems(t) = {}}

Singles ==
    {[symbol |-> "x", secType |-> kind, action |-> action, quantity |-> n, type |-> t.type,
      limit |-> t.limit, aux |-> t.aux, multiplier |-> m, currency |-> "USD", reference |-> r,
      legs |-> <<>>] :
        t \in PricesOf, kind \in {"STK", "OPT", "BOND"}, action \in {"BUY", "SELL"}, n \in 1..3,
        m \in {Unset, 2}, r \in {Unset, 2}}

Leg == [symbol : {"x", "y"}, secType : {"STK", "OPT"}, ratio : 1..2, multiplier : {Unset, 2}, price : {Unset, 1, 2}]

Combos ==
    {[symbol |-> "x,y", secType |-> "BAG", action |-> "BUY", quantity |-> n, type |-> "LMT",
      limit |-> 1, aux |-> Unset, multiplier |-> Unset, currency |-> c, reference |-> Unset,
      legs |-> <<l, k>>] : l \in Leg, k \in Leg, n \in 1..2, c \in {"USD", "EUR"}}

Option ==
    [symbol : {"x"}, secType : {"OPT", "FOP"}, right : {"C", "P"}, strike : {1, 3}, multiplier : {Unset, 2},
     under : {"", "STK", "FUT", "IND"}]

Quote == [last : {Unset, 1}, ask : {Unset, 3}, bid : {Unset, 2}, mark : {Unset}, close : {Unset, 4}, age : {Unset, 1, 2}]

PolicyCases ==
    [kind : {"order"}, limits : Limits, order : Singles \cup Combos]
    \cup [kind : {"exercise"}, limits : Limits, option : Option, quantity : 1..3]
    \cup [kind : {"quote"}, stream : Quote, snapshot : Quote]

-----------------------------------------------------------------------------
(* Properties *)

\* The prices an order may fill at: up to the limit of a capped purchase; for
\* the rest, about the market and at its limit, or its trigger where it has no
\* limit.  (A limit-if-touched sale may fill at its trigger too: the estimate
\* leaves that out.)
FillPrices(o) ==
    IF IsCapped(o) THEN 1..o.limit
    ELSE {o.reference, o.limit} \cup {IF o.type \in {"STP", "MIT"} THEN o.aux ELSE Unset}

\* With a largest notional, no price an admitted order may fill at takes its
\* cost past it, and the estimate never rests on a price or a multiplier nobody
\* knows.
AdmittedIsBounded(lim, o) ==
    Given(lim.notional) /\ Admitted(lim, o) /\ o.legs = <<>> =>
        /\ \A p \in FillPrices(o) : o.quantity * p * Units(o.multiplier) <= lim.notional
        /\ IsCapped(o) \/ Given(o.reference)
        /\ o.secType \in NeedsMultiplier => Given(o.multiplier)

\* An admitted combo is bounded leg by leg, as its legs may fill one at a time:
\* each leg's quantity, its cost, and its symbol and type.
LegsAreBounded(lim, o) ==
    Admitted(lim, o) =>
        \A i \in DOMAIN o.legs :
            LET leg == o.legs[i]
                units == leg.ratio * o.quantity
            IN /\ Given(lim.quantity) => units <= lim.quantity
               /\ Given(lim.notional) => /\ Given(leg.price)
                                         /\ units * leg.price * Units(leg.multiplier) <= lim.notional
               /\ lim.symbols # {} => leg.symbol \in lim.symbols
               /\ lim.secTypes # {} => {leg.secType, o.secType} \subseteq lim.secTypes

\* An order admitted is admitted with a smaller quantity, so a modification or
\* a retry that only shrinks it is never stopped by the limits.
SmallerIsAdmitted(lim, o) ==
    Admitted(lim, o) => \A n \in 1..o.quantity : Admitted(lim, [o EXCEPT !.quantity = n])

\* Leaving the market snapshot out where the limit caps the fill never changes
\* the verdict.
SnapshotSpared(lim, o) ==
    o.legs = <<>> => (Admitted(lim, Summary(lim, o, o.reference)) <=> Admitted(lim, o))

\* An admitted exercise delivers no more units of the underlying, and costs no
\* more at the strike, than an order may; what it delivers has an allowed type.
ExerciseIsBounded(lim, x, n) ==
    LET units == n * Units(x.multiplier)
        delivers == Under(x) # "IND"
    IN (\A o \in Summaries(x, n, "exercise") : Admitted(lim, o)) =>
           /\ Given(lim.notional) => units * x.strike <= lim.notional
           /\ Given(lim.quantity) /\ delivers => (IF Under(x) = "FUT" THEN n ELSE units) <= lim.quantity
           /\ lim.secTypes # {} /\ delivers => Under(x) \in lim.secTypes

\* A reference price is at least everything its source shows but the previous
\* close, and a stream's only while it ticks.
ReferenceIsHigh(stream, snapshot) ==
    LET price == Reference(stream, snapshot, 1)
        source == IF price = TickerPrice(stream) /\ stream.age \in 0..1 THEN stream ELSE snapshot
    IN /\ \A p \in Prices(source) : p <= price
       /\ stream.age \notin 0..1 => price = TickerPrice(snapshot)

PolicyRight(c) ==
    CASE c.kind = "order" ->
           /\ AdmittedIsBounded(c.limits, c.order)
           /\ LegsAreBounded(c.limits, c.order)
           /\ SmallerIsAdmitted(c.limits, c.order)
           /\ SnapshotSpared(c.limits, c.order)
      [] c.kind = "exercise" -> ExerciseIsBounded(c.limits, c.option, c.quantity)
      [] c.kind = "quote" -> ReferenceIsHigh(c.stream, c.snapshot)
=============================================================================
