----------------------------- MODULE QuoteLists -----------------------------
(***************************************************************************)
(* A list of quotes: every contract asked for is answered once, from its   *)
(* open stream or with one snapshot (quotes); what IBKR's numbers mean     *)
(* (markers of no value, empty sides of the book, halts); following and    *)
(* ending a subscription.                                                  *)
(***************************************************************************)
EXTENDS Integers, SequencesExt, FiniteSetsExt

-----------------------------------------------------------------------------
(* IBKR's numbers *)

NaN == 1000       \* NaN, an infinity, the unset marker, or nothing
Absent == 1000      \* and what they become

\* clean_float
Clean(value) == IF value = NaN THEN Absent ELSE value

\* _book_price: -1 with no size is an empty side of the book.
BookPrice(price, size) == IF price = -1 /\ size \in {0, NaN} THEN Absent ELSE Clean(price)

\* _tick_price: an empty side may come as 0 too.
TickPrice(price, size) == IF price = NaN \/ (price <= 0 /\ size \in {0, NaN}) THEN Absent ELSE price

\* _nonnegative: -1 for a size or a count IBKR does not have.
Nonnegative(value) == IF value = NaN \/ value < 0 THEN Absent ELSE value

\* _halted: of the delayed tick when there is no live one.
Halted(halted, delayed) ==
    LET value == IF halted = NaN THEN delayed ELSE halted
    IN IF value = NaN \/ value < 0 THEN "unknown" ELSE IF value > 0 THEN "halted" ELSE "trading"

\* greeks_from_computation: markers of what was not computed; nothing at all is none.
Greeks(computation) ==
    LET price == IF computation.price = -1 THEN Absent ELSE Clean(computation.price)
        delta == IF computation.delta = -2 THEN Absent ELSE Clean(computation.delta)
    IN IF price = Absent /\ delta = Absent THEN <<>> ELSE <<price, delta>>

\* _levels: by their positions, else in the order they came.
Levels(byPosition, ordered) ==
    IF DOMAIN byPosition = {} THEN [i \in DOMAIN ordered |-> <<i - 1, ordered[i]>>]
    ELSE LET positions == SetToSortSeq(DOMAIN byPosition, <)
         IN [i \in DOMAIN positions |-> <<positions[i], byPosition[positions[i]]>>]

\* _window: later than since, items without a time too; the newest limit of them.
Window(times, limit, since) ==
    LET later == SelectSeq(times, LAMBDA t : since = Absent \/ t = Absent \/ t > since)
    IN IF Len(later) > limit THEN SubSeq(later, Len(later) - limit + 1, Len(later)) ELSE later

Truncated(times, limit, since) == Window(times, limit, since) # Window(times, Len(times), since)

-----------------------------------------------------------------------------
(* quotes: a contract resolves to a key, or to an error; a key has an open     *)
(* stream that is healthy, or needs a snapshot, which fails or answers.        *)

\* The snapshots to take: one for each contract that is not live.
Snapshots(asked, world) ==
    {world.resolves[asked[i]] : i \in DOMAIN asked} \ ({"error"} \cup world.live)

AnswerOf(contract, world) ==
    LET key == world.resolves[contract]
    IN CASE key = "error" -> "unresolved"
         [] key # "error" /\ key \in world.live -> "live"
         [] key # "error" /\ key \notin world.live /\ key \in world.failing -> "refused"
         [] OTHER -> "snapshot"

IsQuote(answer) == answer \in {"live", "snapshot"}

\* What is answered, or the failure of the first when there is no quote.
Quotes(asked, world, regulatory) ==
    LET answers == [i \in DOMAIN asked |-> AnswerOf(asked[i], world)]
        quotes == {i \in DOMAIN asked : IsQuote(answers[i])}
    IN CASE asked = <<>> \/ Len(asked) > world.max \/ (regulatory /\ ~world.allowed) ->
              [raised |-> "arguments", quotes |-> {}, errors |-> {}, billed |-> 0, audited |-> 0]
         [] ~(asked = <<>> \/ Len(asked) > world.max \/ (regulatory /\ ~world.allowed)) ->
              [raised |-> IF quotes = {} THEN answers[1] ELSE "",
               quotes |-> IF quotes = {} THEN {} ELSE quotes,
               errors |-> IF quotes = {} THEN {} ELSE DOMAIN asked \ quotes,
               billed |-> IF regulatory THEN Cardinality(Snapshots(asked, world)) ELSE 0,
               audited |-> IF regulatory THEN Cardinality(Snapshots(asked, world)) ELSE 0]

-----------------------------------------------------------------------------
(* Reading a subscription, and ending it *)

\* _poll: what is yielded of what is read each interval; 0: the subscription is gone.
Polled(reads, onlyChanges) ==
    LET gone == {i \in DOMAIN reads : reads[i] = 0}
        there == IF gone = {} THEN reads ELSE SubSeq(reads, 1, Min(gone) - 1)
        changed == SelectSeq([i \in DOMAIN there |-> i], LAMBDA i :
                       i = 1 \/ ~onlyChanges \/ there[i] # there[i - 1])
    IN [raised |-> gone # {} /\ there = <<>>, yields |-> [i \in DOMAIN changed |-> there[changed[i]]]]

\* unsubscribe, of one (0: none named) or of all that are open; one that ended meanwhile
\* is passed over.
Unsubscribed(id, all, open, ended) ==
    LET wanted == IF all THEN open ELSE {id}
    IN IF all = (id # 0) THEN [raised |-> "invalid", cancelled |-> {}]
       ELSE IF ~all /\ id \notin open \ ended THEN [raised |-> "not found", cancelled |-> {}]
       ELSE [raised |-> "", cancelled |-> wanted \ ended]

-----------------------------------------------------------------------------
(* Cases *)

Keys == {"k", "m"}
World == [resolves : [{1, 2} -> Keys \cup {"error"}], live : SUBSET Keys, failing : SUBSET Keys,
          max : {2}, allowed : BOOLEAN]
Number == {NaN, -2, -1, 0, 1, 2}

QuoteCases ==
    [kind : {"quotes"}, asked : BoundedSeq({1, 2}, 3), world : World, regulatory : BOOLEAN]
    \cup [kind : {"numbers"}, price : Number, size : Number, other : Number]
    \cup [kind : {"window"}, times : BoundedSeq({1, 2, 3, Absent}, 3), limit : 1..3, since : {Absent, 1, 2}]
    \cup [kind : {"levels"}, byPosition : {<<>>} \cup [{0, 2} -> {5, 6}], ordered : BoundedSeq({5, 6}, 2)]
    \cup [kind : {"poll"}, reads : BoundedSeq(0..2, 4), onlyChanges : BOOLEAN]
    \cup [kind : {"end"}, id : 0..2, all : BOOLEAN, open : SUBSET {1, 2}, ended : SUBSET {1, 2}]

-----------------------------------------------------------------------------
(* Properties *)

\* Every contract asked for gets its own quote or error, or everything failed;
\* one snapshot is taken for those that resolve to the same instrument, none
\* for one that streams, and what is billed is what is audited.
QuotesRight(c) ==
    LET answer == Quotes(c.asked, c.world, c.regulatory)
    IN /\ answer.raised = "" => /\ answer.quotes \cup answer.errors = DOMAIN c.asked
                                /\ answer.quotes \cap answer.errors = {} /\ answer.quotes # {}
       /\ answer.raised \notin {"", "arguments"} => \A i \in DOMAIN c.asked : ~IsQuote(AnswerOf(c.asked[i], c.world))
       /\ answer.billed = answer.audited
       /\ answer.billed <= Cardinality(DOMAIN c.asked) /\ (answer.billed > 0 => c.world.allowed)
       /\ Snapshots(c.asked, c.world) \cap c.world.live = {}
       /\ \A i, j \in DOMAIN c.asked : c.world.resolves[c.asked[i]] = c.world.resolves[c.asked[j]] =>
             (i \in answer.quotes <=> j \in answer.quotes)

\* A marker never becomes a price, a size or a greek, and a price below zero that
\* has a size is kept: futures and spreads do trade there.
NumbersRight(c) ==
    /\ c.size \in {0, NaN} => BookPrice(c.price, c.size) # -1 /\ (TickPrice(c.price, c.size) = Absent \/ c.price > 0)
    /\ c.size \notin {0, NaN} => TickPrice(c.price, c.size) = c.price /\ BookPrice(c.price, c.size) = c.price
    /\ Nonnegative(c.size) >= 0
    /\ Halted(c.price, c.other) = "trading" => 0 \in {c.price, c.other}
    /\ LET greeks == Greeks([price |-> c.price, delta |-> c.other])
       IN greeks = <<>> \/ (greeks[1] # -1 /\ greeks[2] # -2)

\* A window holds the newest of what came later, in its order; nothing is left out
\* silently.
WindowRight(c) ==
    LET window == Window(c.times, c.limit, c.since)
    IN /\ IsSuffix(window, SelectSeq(c.times, LAMBDA t : c.since = Absent \/ t = Absent \/ t > c.since))
       /\ Truncated(c.times, c.limit, c.since) =>
             Len(window) = c.limit /\ Len(window) < Len(c.times)
       /\ ~Truncated(c.times, c.limit, c.since) =>
             \A i \in DOMAIN c.times : c.times[i] > c.since => \E j \in DOMAIN window : window[j] = c.times[i]

LevelsRight(c) ==
    LET levels == Levels(c.byPosition, c.ordered)
    IN \A i, j \in DOMAIN levels : i < j => levels[i][1] < levels[j][1]

\* A follower is given every change, the state it had last included, no state twice in a
\* row, and ends with the subscription.
PollRight(c) ==
    LET answer == Polled(c.reads, c.onlyChanges)
        there == {i \in DOMAIN c.reads : \A j \in 1..i : c.reads[j] # 0}
    IN /\ answer.raised <=> c.reads # <<>> /\ there = {}
       /\ there # {} => Last(answer.yields) = c.reads[Max(there)] /\ Head(answer.yields) = c.reads[1]
       /\ c.onlyChanges => \A i \in 2..Len(answer.yields) : answer.yields[i] # answer.yields[i - 1]
       /\ ~c.onlyChanges => Len(answer.yields) = Cardinality(there)
       /\ \A i \in there : c.reads[i] \in ToSet(answer.yields)

\* All is never meant by leaving the id out, and what is told as cancelled was open.
EndRight(c) ==
    LET answer == Unsubscribed(c.id, c.all, c.open, c.ended)
    IN /\ answer.cancelled \subseteq c.open \ c.ended
       /\ ~c.all => answer.cancelled \subseteq {c.id}
       /\ c.all /\ c.id = 0 => answer.cancelled = c.open \ c.ended

QuoteListRight(c) ==
    CASE c.kind = "quotes" -> QuotesRight(c)
      [] c.kind = "numbers" -> NumbersRight(c)
      [] c.kind = "window" -> WindowRight(c)
      [] c.kind = "levels" -> LevelsRight(c)
      [] c.kind = "poll" -> PollRight(c)
      [] c.kind = "end" -> EndRight(c)
=============================================================================
