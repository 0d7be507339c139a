----------------------------- MODULE AccountRows -----------------------------
(***************************************************************************)
(* What becomes of the rows IBKR sends about accounts: executions without  *)
(* their commissions, orders sent twice, values of several accounts,       *)
(* currencies and models, and quantities before any status.                *)
(***************************************************************************)
EXTENDS Integers, SequencesExt, FiniteSetsExt

Unknown == -1        \* a time, commission or number that IBKR did not send

-----------------------------------------------------------------------------
(* executions: a fill is [id, account, side, time, commission]; the cached    *)
(* fills give commissions by execution.                                       *)

\* Fills the session already knew come back without their commission.
Report(fill, cached) ==
    IF fill.commission = Unknown /\ fill.id \in DOMAIN cached THEN cached[fill.id] ELSE fill.commission

WantedFill(fill, args) ==
    /\ fill.account = args.account
    /\ args.side # "" => fill.side = args.side
    /\ args.since # Unknown => fill.time # Unknown /\ fill.time >= args.since

\* One row per execution: the last one sent, in the place of the first.
Rows(fills, args) ==
    LET wanted == SelectSeq(fills, LAMBDA f : WantedFill(f, args))
        firsts == {i \in DOMAIN wanted : \A j \in 1..(i - 1) : wanted[j].id # wanted[i].id}
        Latest(i) == wanted[Max({j \in DOMAIN wanted : wanted[j].id = wanted[i].id})]
    IN [k \in 1..Cardinality(firsts) |-> Latest(SetToSortSeq(firsts, <)[k])]

\* Newest first, those without a time last, and those of one time in their order.
NewestFirst(rows) ==
    LET order == SetToSortSeq(DOMAIN rows, LAMBDA i, j : \/ rows[i].time > rows[j].time
                                                         \/ rows[i].time = rows[j].time /\ i < j)
    IN [k \in DOMAIN rows |-> rows[order[k]]]

Executions(fills, cached, args) ==
    LET ordered == NewestFirst(Rows(fills, args))
        selected == SubSeq(ordered, 1, Min({args.limit, Len(ordered)}))
    IN [rows |-> [k \in DOMAIN selected |->
                    [selected[k] EXCEPT !.commission = Report(selected[k], cached)]],
        total |-> Len(ordered), truncated |-> Len(ordered) > args.limit]

-----------------------------------------------------------------------------
(* Orders on record: a trade is [perm, order, client, account, done], 0 for   *)
(* an identifier it does not have.                                            *)

TradeKey(trades, i) ==
    LET t == trades[i]
    IN CASE t.perm # 0 -> <<"perm", t.perm, 0>>
         [] t.perm = 0 /\ t.order > 0 -> <<"order", t.client, t.order>>
         [] OTHER -> <<"object", i, 0>>

\* open_orders
OpenOrders(trades, account, includeOthers, own) ==
    LET kept == {i \in DOMAIN trades : /\ trades[i].account = account /\ ~trades[i].done
                                       /\ includeOthers \/ trades[i].client = own}
    IN {trades[i] : i \in {j \in kept : \A k \in kept : TradeKey(trades, k) = TradeKey(trades, j) => k <= j}}

Modifiable(trade, own) == trade.order > 0 /\ trade.client = own

-----------------------------------------------------------------------------
(* account_summary: a value is [tag, currency, model, amount]. *)

\* The rows are in the order of currency and model; the first that is not of a
\* model or of the base currency gives the headline of its tag.
Headlines(values) ==
    SelectSeq(values, LAMBDA v : v.model = "" /\ v.currency # "BASE")

Headline(values, tag) ==
    LET rows == SelectSeq(Headlines(values), LAMBDA v : v.tag = tag)
    IN IF rows = <<>> THEN Unknown ELSE rows[1].amount

\* _filter_tags: an unknown tag is an error, no tag means all.
TagError(values, tags) == \E t \in tags : \A i \in DOMAIN values : values[i].tag # t

FilterTags(values, tags) ==
    IF tags = {} THEN values ELSE SelectSeq(values, LAMBDA v : v.tag \in tags)

-----------------------------------------------------------------------------
(* trade_quantities: of the status, or of the order before any status. *)

Quantities(t) ==
    IF t.filled # 0 \/ t.remaining # 0 THEN <<t.filled, t.remaining>>
    ELSE <<t.orderFilled, Max({t.total - t.orderFilled, 0})>>

-----------------------------------------------------------------------------
(* Cases *)

Fill == [id : {1, 2}, account : {"U1"}, side : {"BUY"}, time : {Unknown, 1, 2}, commission : {Unknown, 5}]
        \cup [id : {3}, account : {"U1", "U2"}, side : {"SELL"}, time : {2}, commission : {Unknown}]

\* IBKR sends an execution with one account, side and time; a report may be missing.
SameFill(f, g) == f.id = g.id => f.time = g.time /\ f.account = g.account

Fills == {s \in BoundedSeq(Fill, 3) : \A i, j \in DOMAIN s : SameFill(s[i], s[j])}

Trades == BoundedSeq([perm : {0, 7}, order : {0, 4}, client : {1, 2}, account : {"U1"}, done : {FALSE}]
                     \cup [perm : {0, 8}, order : {4}, client : {1}, account : {"U1", "U2"}, done : BOOLEAN], 2)

Values == BoundedSeq([tag : {"SMA"}, currency : {"BASE", "USD"}, model : {"", "M"}, amount : {0, 3}]
                     \cup [tag : {"Cushion"}, currency : {""}, model : {""}, amount : {4}], 3)

RowCases ==
    [kind : {"fills"}, fills : Fills, cached : {<<>>, [id \in {1, 3} |-> 6]},
     args : [account : {"U1"}, side : {"", "BUY"}, since : {Unknown, 2}, limit : {1, 2}]]
    \cup [kind : {"trades"}, trades : Trades, others : BOOLEAN]
    \cup [kind : {"values"}, values : Values, tags : SUBSET {"SMA", "Cushion"}]
    \cup [kind : {"quantities"}, filled : 0..2, remaining : 0..2, orderFilled : 0..2, total : 0..2]

-----------------------------------------------------------------------------
(* Properties *)

\* Every wanted execution is listed once, newest first, up to the limit, and
\* with its commission as soon as either IBKR or the session knows it.
ExecutionsRight(c) ==
    LET answer == Executions(c.fills, c.cached, c.args)
        wanted == {c.fills[i] : i \in {j \in DOMAIN c.fills : WantedFill(c.fills[j], c.args)}}
        ids == {f.id : f \in wanted}
    IN /\ answer.total = Cardinality(ids) /\ Len(answer.rows) = Min({Cardinality(ids), c.args.limit})
       /\ \A i, j \in DOMAIN answer.rows : i < j =>
             /\ answer.rows[i].id # answer.rows[j].id
             /\ answer.rows[i].time >= answer.rows[j].time
       /\ \A i \in DOMAIN answer.rows :
             answer.rows[i].commission = Unknown => answer.rows[i].id \notin DOMAIN c.cached
       /\ \A f \in wanted : (\A i \in DOMAIN answer.rows : answer.rows[i].id # f.id) =>
             \A i \in DOMAIN answer.rows : answer.rows[i].time >= f.time

\* No order is listed twice, none of another account or that is done, and what
\* this server can modify it lists whatever is left out.
OrdersRight(c) ==
    LET open == OpenOrders(c.trades, "U1", c.others, 1)
    IN /\ \A t \in open : t.account = "U1" /\ ~t.done
       /\ \A t, u \in open : t # u /\ t.perm # 0 => t.perm # u.perm
       /\ \A i \in DOMAIN c.trades :
             LET t == c.trades[i]
             IN t.account = "U1" /\ ~t.done /\ Modifiable(t, 1) =>
                   \E u \in open : IF t.perm # 0 THEN u.perm = t.perm
                                   ELSE u.order = t.order /\ u.client = t.client

\* A headline is a value of its tag for the whole account in a real currency, and
\* is there when such a value is; a tag that is asked for is listed or refused.
ValuesRight(c) ==
    /\ Headline(c.values, "SMA") # Unknown <=>
          \E i \in DOMAIN c.values : /\ c.values[i].tag = "SMA" /\ c.values[i].model = ""
                                     /\ c.values[i].currency = "USD"
    /\ LET listed == FilterTags(c.values, c.tags)
       IN ~TagError(c.values, c.tags) => c.tags \subseteq {listed[i].tag : i \in DOMAIN listed}

\* What is filled and what remains never add up to less than the order, before
\* any status either.
QuantitiesRight(c) ==
    c.filled = 0 /\ c.remaining = 0 => Quantities(c)[1] + Quantities(c)[2] >= c.total

RowsRight(c) ==
    CASE c.kind = "fills" -> ExecutionsRight(c)
      [] c.kind = "trades" -> OrdersRight(c)
      [] c.kind = "values" -> ValuesRight(c)
      [] c.kind = "quantities" -> QuantitiesRight(c)
=============================================================================
