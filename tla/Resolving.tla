----------------------------- MODULE Resolving -----------------------------
(***************************************************************************)
(* From a description to one contract: what is asked of IBKR (ContractSpec,*)
(* details_request), which of its rows is chosen (pick_details), the list  *)
(* of all of them (contract_details), and the option chains, trading hours *)
(* and market rules read with them.                                        *)
(***************************************************************************)
EXTENDS Integers, SequencesExt, FiniteSetsExt

-----------------------------------------------------------------------------
(* Specs and the requests they become *)

\* conId 0 is none; given: the fields the caller set (model_fields_set); a field not
\* given has its default, STK and SMART.
Spec ==
    {spec \in [conId : 0..1, symbol : BOOLEAN, secId : BOOLEAN, secIdType : BOOLEAN, legs : {0, 1, 2},
               given : SUBSET {"type", "exchange"}, type : {"STK", "FOP", "BAG"},
               exchange : {"SMART", "CME"}] :
        /\ "type" \notin spec.given => spec.type = "STK"
        /\ "exchange" \notin spec.given => spec.exchange = "SMART"}

\* ContractSpec._check_identifiable
Identifiable(spec) ==
    /\ IF spec.type = "BAG" THEN spec.legs >= 2 ELSE spec.legs = 0
    /\ spec.secId = spec.secIdType
    /\ spec.conId # 0 \/ spec.symbol \/ spec.secId

\* details_request: an id goes out with what the caller set alone; "" is anything.
Request(spec) ==
    IF spec.conId = 0 THEN [conId |-> 0, type |-> spec.type, exchange |-> spec.exchange]
    ELSE [conId |-> spec.conId,
          type |-> IF "type" \in spec.given THEN spec.type ELSE "",
          exchange |-> IF "exchange" \in spec.given THEN spec.exchange ELSE ""]

-----------------------------------------------------------------------------
(* Rows: [id, type, exchange, smart]; id 0 is a row without a contract *)

\* Rows of another type are dropped, unless there are no others.
Found(rows, request) ==
    LET known == SelectSeq(rows, LAMBDA row : row.id # 0)
        ofType == SelectSeq(known, LAMBDA row : row.type = request.type)
    IN IF request.type # "" /\ ofType # <<>> THEN ofType ELSE known

\* The rows of the first found's contract.
Group(found) == SelectSeq(found, LAMBDA row : row.id = found[1].id)

FirstOn(rows, exchange) ==
    LET on == SelectSeq(rows, LAMBDA row : row.exchange = exchange)
    IN IF on = <<>> THEN rows[1] ELSE on[1]

\* SMART was asked for and the contract can be routed so.
Routed(row, spec) ==
    IF spec.exchange = "SMART" /\ (Request(spec).exchange = "SMART" \/ row.smart)
    THEN [row EXCEPT !.exchange = "SMART"] ELSE row

\* pick_details, of the lookup: one contract, no contract, or a choice of up to max.
Pick(rows, spec, max) ==
    LET found == Found(rows, Request(spec))
        ids == {found[i].id : i \in DOMAIN found}
    IN CASE ids = {} -> [raised |-> "not found", candidates |-> 0]
         [] Cardinality(ids) > 1 -> [raised |-> "ambiguous", candidates |-> Min({Cardinality(ids), max})]
         [] Cardinality(ids) = 1 ->
              [raised |-> "", chosen |-> Routed(FirstOn(Group(found), spec.exchange), spec)]

\* _lookup: a combo has no details; error 200 is no match.
Lookup(spec, answer, max) ==
    IF spec.type = "BAG" THEN [raised |-> "invalid", candidates |-> 0]
    ELSE IF answer.error = 200 THEN [raised |-> "not found", candidates |-> 0]
    ELSE IF answer.error # 0 THEN [raised |-> "IBKR", candidates |-> 0]
    ELSE Pick(answer.rows, spec, max)

\* _unique_details: one row of each contract.
Unique(rows, spec) ==
    LET found == Found(rows, Request(spec))
    IN [id \in {found[i].id : i \in DOMAIN found} |->
           FirstOn(SelectSeq(found, LAMBDA row : row.id = id), spec.exchange)]

\* clamp_limit
Clamp(limit, default, maximum) ==
    IF limit = 0 THEN default ELSE Max({1, Min({limit - 1, maximum})})

\* contract_details, in the order _derivative_order sorts them by (here their ids).
Details(answer, spec, limit) ==
    LET unique == Unique(answer.rows, spec)
        ordered == SetToSortSeq(DOMAIN unique, <)
        raised == CASE spec.type = "BAG" -> "invalid"
                    [] spec.type # "BAG" /\ answer.error \notin {0, 200} -> "IBKR"
                    [] spec.type # "BAG" /\ (answer.error = 200 \/ (answer.error = 0 /\ ordered = <<>>)) -> "not found"
                    [] OTHER -> ""
    IN [raised |-> raised, total |-> Len(ordered),
        contracts |-> SubSeq(ordered, 1, Min({Len(ordered), limit})), truncated |-> Len(ordered) > limit]

\* qualify_many: all in their order, or the failure of the first that failed.
QualifyMany(results) ==
    LET failed == {i \in DOMAIN results : results[i].raised # ""}
    IN IF failed = {} THEN [raised |-> "", chosen |-> results] ELSE results[Min(failed)]

-----------------------------------------------------------------------------
(* Option chains *)

\* option_underlying_sec_type and fop_exchange
ListedOn(type) == IF type = "CONTFUT" THEN "FUT" ELSE type

FopExchange(contract, asked) ==
    IF asked # "unset" THEN asked
    ELSE IF ListedOn(contract.type) = "FUT" THEN contract.exchange ELSE ""

\* _merge_chains: rows that differ by their exchange alone are one chain.
Merge(rows) ==
    {[class |-> rows[i].class, strikes |-> rows[i].strikes \ {0},
      exchanges |-> {rows[j].exchange : j \in {k \in DOMAIN rows :
                        rows[k].class = rows[i].class /\ rows[k].strikes \ {0} = rows[i].strikes \ {0}}}] :
        i \in DOMAIN rows}

\* option_chain, of rows on every exchange.
Chains(contract, rows, wanted) ==
    LET kept == SelectSeq(rows, LAMBDA row : wanted = "" \/ row.exchange = wanted)
    IN CASE contract.type \in {"OPT", "FOP", "BAG"} -> [raised |-> "invalid"]
         [] contract.type \notin {"OPT", "FOP", "BAG"} /\ kept = <<>> -> [raised |-> "not found"]
         [] OTHER -> [raised |-> "", chains |-> Merge(kept)]

-----------------------------------------------------------------------------
(* Trading hours: days of DayLength units; an end without a day (older format) *)
(* that is not after its start is on the next day.                             *)

DayLength == 3
NoDay == 9

End(segment, part) ==
    LET end == DayLength * (IF part.endDay = NoDay THEN segment.day ELSE part.endDay) + part.end
        start == DayLength * segment.day + part.start
    IN IF part.endDay = NoDay /\ end <= start THEN end + DayLength ELSE end

\* _sessions: what cannot be parsed is kept as it came.
Sessions(segments) ==
    LET parts == {p \in (1..Len(segments)) \X (1..2) : p[2] \in DOMAIN segments[p[1]].parts}
        start(p) == DayLength * segments[p[1]].day + segments[p[1]].parts[p[2]].start
        end(p) == End(segments[p[1]], segments[p[1]].parts[p[2]])
    IN IF \E p \in parts : end(p) < start(p) THEN [raw |-> TRUE, sessions |-> {}, closed |-> {}]
       ELSE [raw |-> FALSE, sessions |-> {<<start(p), end(p)>> : p \in parts},
             closed |-> {segments[i].day : i \in {k \in DOMAIN segments : segments[k].closed}}]

-----------------------------------------------------------------------------
(* Market rules *)

Distinct(ids) == FoldLeft(LAMBDA seen, id : IF Contains(seen, id) THEN seen ELSE Append(seen, id), <<>>, ids)

\* market_rules: each id is asked once; one without an answer is missing; of errors the
\* first in the order of the ids is raised.
MarketRules(ids, answers, max) ==
    LET asked == Distinct(ids)
        of(kind) == {i \in DOMAIN asked : answers[asked[i]] = kind}
        valid == asked # <<>> /\ Len(asked) <= max /\ \A i \in DOMAIN asked : asked[i] >= 0
        raised == IF ~valid THEN "invalid"
                  ELSE IF of("error") # {} THEN "IBKR" ELSE IF of("rule") = {} THEN "not found" ELSE ""
    IN [raised |-> raised, requests |-> IF valid THEN Len(asked) ELSE 0,
        failed |-> IF raised = "IBKR" THEN asked[Min(of("error"))] ELSE -1,
        rules |-> {asked[i] : i \in of("rule")}, missing |-> {asked[i] : i \in of("none")}]

-----------------------------------------------------------------------------
(* Cases *)

Row == [id : {1, 2}, type : {"STK", "FOP"}, exchange : {"SMART", "CME"}, smart : BOOLEAN]
       \cup {[id |-> 0, type |-> "", exchange |-> "", smart |-> FALSE]}
Rows == {rows \in BoundedSeq(Row, 3) :
            \A i, j \in DOMAIN rows : rows[i].id = rows[j].id =>
                rows[i].type = rows[j].type /\ rows[i].smart = rows[j].smart}

ResolvingCases ==
    [kind : {"spec"}, spec : Spec]
    \cup [kind : {"rows"}, rows : Rows, error : {0},
          spec : {spec \in Spec : Identifiable(spec) /\ spec.type # "BAG" /\ ~spec.secId}]
    \cup [kind : {"rows"}, rows : {<<>>}, error : {200, 162}, spec : {spec \in Spec : Identifiable(spec)}]
    \cup [kind : {"chains"}, wanted : {"", "CME"}, asked : {"unset", "", "CME"},
          contract : [type : {"FUT", "CONTFUT", "STK", "OPT"}, exchange : {"CME"}],
          rows : BoundedSeq([exchange : {"CME", "SMART"}, class : {"x", "y"}, strikes : SUBSET {0, 1, 2}], 2)]
    \cup [kind : {"hours"}, segments : BoundedSeq(
            [day : {0}, closed : {TRUE}, parts : {<<>>}]
            \cup [day : {0, 1}, closed : {FALSE}, parts : BoundedSeq(
                    [start : 0..2, end : 0..2, endDay : {0, 1, NoDay}], 2) \ {<<>>}], 1)]
    \cup [kind : {"rules"}, ids : BoundedSeq({-1, 1, 2, 3}, 3), answers : [{-1, 1, 2, 3} -> {"rule", "none", "error"}]]
    \cup [kind : {"lists"}, limit : 0..5, rows : {rows \in Rows : Len(rows) = 2},
          results : BoundedSeq([raised : {"", "not found", "ambiguous"}], 3)]

-----------------------------------------------------------------------------
(* Properties *)

\* What is asked of IBKR by an id holds nothing the caller did not set, so a default
\* (STK, SMART) never makes IBKR reject the id of a future or an option.
RequestRight(spec) ==
    spec.conId # 0 =>
        /\ Request(spec).type \in (IF "type" \in spec.given THEN {spec.type} ELSE {""})
        /\ Request(spec).exchange \in (IF "exchange" \in spec.given THEN {spec.exchange} ELSE {""})

\* The lookup of one contract (qualify) and the list of all (contract_details) agree:
\* it resolves exactly when the list has one, to the row listed (but for its routing
\* to SMART), is ambiguous when the list has more, and fails as the list does.
PickRight(answer, spec) ==
    LET unique == Unique(answer.rows, spec)
        lookup == Lookup(spec, answer, 1)
        listed == lookup.raised \in {"", "ambiguous"}
    IN /\ Details(answer, spec, 1).raised = (IF listed THEN "" ELSE lookup.raised)
       /\ listed => (lookup.raised = "") = (Cardinality(DOMAIN unique) = 1)
       /\ lookup.raised = "" =>
             \A id \in DOMAIN unique :
                 \/ lookup.chosen = unique[id]
                 \/ lookup.chosen = [unique[id] EXCEPT !.exchange = "SMART"] /\ spec.exchange = "SMART"
       /\ \A id \in DOMAIN unique : unique[id].exchange # spec.exchange =>
             ~\E i \in DOMAIN answer.rows :
                 answer.rows[i].id = id /\ answer.rows[i].exchange = spec.exchange

\* Merged chains list what the rows list, each row of the wanted exchange in one chain.
ChainsRight(c) ==
    LET answer == Chains(c.contract, c.rows, c.wanted)
        wanted == {i \in DOMAIN c.rows : c.wanted \in {"", c.rows[i].exchange}}
        listed(chain) == chain.exchanges \X {chain.class} \X chain.strikes
    IN /\ answer.raised = "" =>
            /\ UNION {listed(chain) : chain \in answer.chains} =
                  UNION {{c.rows[i].exchange} \X {c.rows[i].class} \X (c.rows[i].strikes \ {0}) : i \in wanted}
            /\ \A i \in wanted : Cardinality({chain \in answer.chains :
                  chain.class = c.rows[i].class /\ chain.strikes = c.rows[i].strikes \ {0}}) = 1
       /\ FopExchange(c.contract, c.asked) # "" /\ c.asked = "unset" => c.contract.type \in {"FUT", "CONTFUT"}

\* Trading hours are sessions of positive length (or none: an empty one is kept only
\* with both days written), at most a day long in the older format, or the text itself.
HoursRight(segments) ==
    LET hours == Sessions(segments)
    IN /\ \A session \in hours.sessions : session[1] <= session[2]
       /\ hours.raw => hours.sessions = {} /\ hours.closed = {}
       /\ ~hours.raw => \A i \in DOMAIN segments : \A j \in DOMAIN segments[i].parts :
             LET part == segments[i].parts[j]
             IN part.endDay = NoDay =>
                    \E session \in hours.sessions :
                        /\ session[1] = DayLength * segments[i].day + part.start
                        /\ session[2] \in (session[1] + 1)..(session[1] + DayLength)
                        /\ session[2] % DayLength = part.end

\* Every market rule asked for is answered or missing, and asked once.
RulesRight(c) ==
    LET answer == MarketRules(c.ids, c.answers, 2)
    IN /\ answer.raised = "" => answer.rules \cup answer.missing = ToSet(c.ids)
                                 /\ answer.rules \cap answer.missing = {} /\ answer.rules # {}
       /\ answer.requests \in {0, Cardinality(ToSet(c.ids))}
       /\ answer.raised = "IBKR" => \A i \in DOMAIN c.ids :
             (\A j \in 1..i : c.answers[c.ids[j]] # "error") => c.ids[i] # answer.failed

\* A list cut short says so, never is empty, and holds the first; the failure raised
\* is that of the first contract that failed.
ListsRight(c) ==
    LET spec == [conId |-> 0, symbol |-> TRUE, secId |-> FALSE, secIdType |-> FALSE, legs |-> 0,
                 given |-> {"type"}, type |-> "FOP", exchange |-> "SMART"]
        details == Details([error |-> 0, rows |-> c.rows], spec, Clamp(c.limit, 1, 2))
        many == QualifyMany(c.results)
    IN /\ details.truncated <=> Len(details.contracts) < details.total
       /\ details.total > 0 => details.contracts # <<>>
       /\ many.raised # "" => \E i \in DOMAIN c.results :
             many = c.results[i] /\ \A j \in 1..(i - 1) : c.results[j].raised = ""
       /\ many.raised = "" => \A i \in DOMAIN c.results : c.results[i].raised = ""

ResolvingRight(c) ==
    CASE c.kind = "spec" -> RequestRight(c.spec)
      [] c.kind = "rows" -> PickRight([error |-> c.error, rows |-> c.rows], c.spec)
      [] c.kind = "chains" -> ChainsRight(c)
      [] c.kind = "hours" -> HoursRight(c.segments)
      [] c.kind = "rules" -> RulesRight(c)
      [] c.kind = "lists" -> ListsRight(c)
=============================================================================
