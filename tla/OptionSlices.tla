---------------------------- MODULE OptionSlices ----------------------------
(***************************************************************************)
(* A slice of an option chain: which chain lists the expiration, which     *)
(* strikes are taken, and what becomes of every leg (option_quotes).       *)
(*                                                                         *)
(* A row of the chain is [exchange, class, expirations, strikes]; a leg is *)
(* <<strike, right>>.  A result is [error] or what was asked for.          *)
(***************************************************************************)
EXTENDS Integers, FiniteSetsExt, SequencesExt

Absent == -1       \* an argument that is not given, a price nobody knows

Refusal(why) == [error |-> why]
IsRefusal(result) == "error" \in DOMAIN result

-----------------------------------------------------------------------------
(* _check_quote_args: the arguments [min, max, around, right, exchange, class, limit]. *)

ArgumentsOk(args) ==
    /\ (args.min # Absent \/ args.max # Absent) => args.around = Absent
    /\ args.min # Absent /\ args.max # Absent => args.min <= args.max
    /\ args.around # 0

Around(args, default) == IF args.around = Absent THEN default ELSE args.around
UseRange(args) == args.min # Absent \/ args.max # Absent

-----------------------------------------------------------------------------
(* _chain *)

ExchangesOf(rows) == {r.exchange : r \in rows}
ClassesOf(rows) == {r.class : r \in rows}

WantedExchange(rows, args) ==
    CASE args.exchange # "" -> args.exchange
      [] args.exchange = "" /\ "SMART" \in ExchangesOf(rows) -> "SMART"
      [] args.exchange = "" /\ "SMART" \notin ExchangesOf(rows) /\ Cardinality(ExchangesOf(rows)) = 1 ->
           CHOOSE e \in ExchangesOf(rows) : TRUE
      [] OTHER -> ""

\* The rows that list the expiration on the wanted exchange, in the wanted class.
Listing(rows, args, expiry) ==
    {r \in rows : /\ r.exchange = WantedExchange(rows, args)
                  /\ args.class # "" => r.class = args.class
                  /\ expiry \in r.expirations}

\* Of several classes the one named like the underlying.
Preferred(listing, symbol) ==
    IF Cardinality(ClassesOf(listing)) > 1 THEN {r \in listing : r.class = symbol} ELSE listing

Chain(rows, args, expiry, symbol) ==
    LET exchange == WantedExchange(rows, args)
        listing == Listing(rows, args, expiry)
        chosen == Preferred(listing, symbol)
    IN CASE rows = {} -> Refusal("no options")
         [] rows # {} /\ exchange = "" -> Refusal("exchange")
         [] rows # {} /\ exchange # "" /\ listing = {} -> Refusal("not listed")
         [] listing # {} /\ chosen = {} -> Refusal("class")
         [] OTHER -> [exchange |-> exchange, classes |-> ClassesOf(chosen),
                      strikes |-> UNION {r.strikes : r \in chosen}]

-----------------------------------------------------------------------------
(* The legs *)

Distance(strike, price) == IF strike > price THEN strike - price ELSE price - strike

Ascending(strikes) == SetToSortSeq(strikes, LAMBDA x, y : x < y)

Nearest(strikes, price) ==
    SetToSortSeq(strikes, LAMBDA x, y : \/ Distance(x, price) < Distance(y, price)
                                        \/ Distance(x, price) = Distance(y, price) /\ x < y)

FirstOf(seq, n) == SubSeq(seq, 1, Min({n, Len(seq)}))

\* _select_strikes: the range, else the nearest, the lower of two as near.
SelectStrikes(strikes, args, around, price) ==
    IF UseRange(args)
    THEN SelectSeq(Ascending(strikes), LAMBDA s : /\ args.min # Absent => s >= args.min
                                                  /\ args.max # Absent => s <= args.max)
    ELSE FirstOf(Nearest(strikes, price), around)

RightsOf(args) == IF args.right # "" THEN <<args.right>> ELSE <<"C", "P">>

LegsOf(strikes, args) ==
    FlattenSeq([i \in DOMAIN strikes |->
                  [j \in DOMAIN RightsOf(args) |-> <<strikes[i], RightsOf(args)[j]>>]])

Kept(strikes, args) == ToSet(FirstOf(LegsOf(strikes, args), args.limit))

-----------------------------------------------------------------------------
(* The quotes.  Of every leg: "unlisted", "ambiguous", "refused" (no market   *)
(* data, or no answer in time) or "quoted".                                   *)

Slice(rows, args, expiry, symbol, price, outcome, default) ==
    LET chain == Chain(rows, args, expiry, symbol)
        strikes == SelectStrikes(chain.strikes, args, Around(args, default), price)
        legs == Kept(strikes, args)
        skipped == {l \in legs : outcome[l] # "quoted"}
        qualified == {l \in legs : outcome[l] \in {"quoted", "refused"}}
    IN CASE ~ArgumentsOk(args) -> Refusal("arguments")
         [] ArgumentsOk(args) /\ IsRefusal(chain) -> chain
         [] ArgumentsOk(args) /\ ~IsRefusal(chain) /\ ~UseRange(args) /\ price = Absent -> Refusal("no price")
         [] ArgumentsOk(args) /\ ~IsRefusal(chain) /\ (UseRange(args) \/ price # Absent) ->
              IF strikes = <<>> THEN Refusal("no strikes")
              ELSE IF qualified = {} THEN Refusal("none listed")
              ELSE IF qualified \subseteq skipped THEN Refusal("no data")
              ELSE [exchange |-> chain.exchange, classes |-> chain.classes, quotes |-> legs \ skipped,
                    skipped |-> skipped, total |-> Len(LegsOf(strikes, args)), price |-> price]

-----------------------------------------------------------------------------
(* _reference_price: a quote is [bid, ask, last, close]. *)

ReferencePrice(quote) ==
    CASE quote.bid > 0 /\ quote.ask >= quote.bid -> (quote.bid + quote.ask) \div 2
      [] ~(quote.bid > 0 /\ quote.ask >= quote.bid) /\ quote.last > 0 -> quote.last
      [] ~(quote.bid > 0 /\ quote.ask >= quote.bid) /\ quote.last <= 0 /\ quote.close > 0 -> quote.close
      [] OTHER -> Absent

-----------------------------------------------------------------------------
(* Cases *)

Row == [exchange : {"SMART", "A"}, class : {"X", "XW"}, expirations : {{"jan"}}, strikes : {{1, 2, 5}}]
       \cup [exchange : {"SMART"}, class : {"X", "XW", "XX"}, expirations : {{"feb"}, {"jan", "feb"}}, strikes : {{2, 3}}]

Args ==
    [min : {Absent, 2}, max : {Absent, 3}, around : {Absent, 2}, right : {"", "P"}, exchange : {"", "A"},
     class : {"", "XW"}, limit : {1, 3}]

Outcomes ==
    {[l \in (1..5) \X {"C", "P"} |-> IF l[1] = 2 THEN two ELSE other] :
        two \in {"ambiguous", "quoted"}, other \in {"unlisted", "refused", "quoted"}}

SliceCases ==
    [rows : {s \in SUBSET Row : Cardinality(s) \in 0..2}, args : Args, outcome : Outcomes,
     quote : [bid : {4}, ask : {4}, last : {2}, close : {Absent}]
             \cup [bid : {Absent}, ask : {4}, last : {Absent}, close : {2, Absent}]]

PriceOf(c) == ReferencePrice(c.quote)

SliceOf(c) == Slice(c.rows, c.args, "jan", "X", PriceOf(c), c.outcome, 3)

-----------------------------------------------------------------------------
(* Properties *)

\* Every leg of the slice up to the limit is quoted or named among the skipped
\* ones, exactly one of the two; and something is quoted.
LegsAccounted(c, slice) ==
    /\ slice.quotes \cap slice.skipped = {} /\ slice.quotes # {}
    /\ Cardinality(slice.quotes \cup slice.skipped) = Min({slice.total, c.args.limit})
    /\ \A l \in slice.quotes : c.outcome[l] = "quoted"

\* All of it is of one class on one exchange, whose rows list the expiration and
\* every strike taken.
OneChain(c, slice) ==
    /\ Cardinality(slice.classes) = 1
    /\ \A l \in slice.quotes \cup slice.skipped :
          \E r \in c.rows : /\ {r.class} = slice.classes /\ r.exchange = slice.exchange
                            /\ "jan" \in r.expirations /\ l[1] \in r.strikes

\* Around the money, no strike left out is nearer than one that was taken; in a
\* range, none left out for the limit is lower.
NearestTaken(c, slice) ==
    LET taken == {l[1] : l \in slice.quotes \cup slice.skipped}
        chain == {r \in c.rows : /\ {r.class} = slice.classes /\ r.exchange = slice.exchange
                                 /\ "jan" \in r.expirations}
        left == UNION {r.strikes : r \in chain} \ taken
    IN \A s \in taken, other \in left :
         IF UseRange(c.args)
         THEN (c.args.min # Absent => other >= c.args.min) => s < other
         ELSE Distance(s, slice.price) <= Distance(other, slice.price)

SlicesRight(c) ==
    LET slice == SliceOf(c)
    IN ~IsRefusal(slice) => LegsAccounted(c, slice) /\ OneChain(c, slice) /\ NearestTaken(c, slice)
=============================================================================
