------------------------------ MODULE Catalogs ------------------------------
(***************************************************************************)
(* What is read whole and handed out in parts: past headlines and articles *)
(* (news), IBKR's scanner parameters (scanners), fundamental reports and   *)
(* Wall Street Horizon events (fundamentals).  IBKR cuts what it sends at  *)
(* the number asked for, and the services cut again.  Then the spans of    *)
(* historical requests: how durations, periods and bar sizes are put in    *)
(* IBKR's form, and which combinations are refused.                        *)
(***************************************************************************)
EXTENDS Integers, SequencesExt, FiniteSetsExt

Cut(rows, limit) == SubSeq(rows, 1, Min({Len(rows), limit}))

\* Each of a sequence once, where it first was.
Once(rows) == FoldLeft(LAMBDA seen, row : IF Contains(seen, row) THEN seen ELSE Append(seen, row), <<>>, rows)

-----------------------------------------------------------------------------
(* News *)

\* _resolve_provider_codes: of the subscribed; all of them when none is named; 0 is blank.
ProviderCodes(all, codes, available) ==
    LET wanted == IF all THEN available ELSE Once(SelectSeq(codes, LAMBDA code : code # 0))
    IN CASE available = <<>> -> [raised |-> "not found", codes |-> <<>>]
         [] available # <<>> /\ (wanted = <<>> \/ ~(ToSet(wanted) \subseteq ToSet(available))) ->
              [raised |-> "invalid", codes |-> <<>>]
         [] OTHER -> [raised |-> "", codes |-> wanted]

\* Slip: just as many are asked for as are answered with.
AskedExactly(limit, cap) == Min({limit, cap})

\* One more than is answered with, to know of more; IBKR sends cap at most.
Asked(limit, cap) == Min({limit + 1, cap})

\* historical_news, of IBKR's rows (in no order), named by their times; wsh_events cuts
\* the same way, in IBKR's order.
Headlines(rows, limit, cap) ==
    LET newest == SortSeq(rows, >)
    IN IF rows = <<>> THEN [raised |-> "not found", rows |-> <<>>, truncated |-> FALSE]
       ELSE [raised |-> "", rows |-> Cut(newest, limit),
             truncated |-> Len(rows) > limit \/ Len(rows) >= cap]

\* article: a binary document is named by its size; HTML becomes text when asked to.
Article(result, plain, binary, cap) ==
    CASE result.chars = 0 -> [raised |-> "not found"]
      [] result.chars > 0 /\ result.type = "binary" ->
           [raised |-> "", format |-> "binary", chars |-> IF binary THEN result.chars ELSE 0,
            total |-> result.chars, truncated |-> FALSE]
      [] OTHER ->
           LET html == result.type = "html"
               total == IF html /\ plain THEN result.chars - result.tags ELSE result.chars
           IN [raised |-> "", format |-> IF html /\ ~plain THEN "html" ELSE "text",
               chars |-> Min({total, cap}), total |-> total, truncated |-> total > cap]

-----------------------------------------------------------------------------
(* Scanner parameters *)

\* _locations: a location is under the nearest one around it that has a code; location i
\* is in the tree of location around[i] < i (0: the top), code 0 is none.
Parents(locations) ==
    LET code(i) == IF i = 0 THEN 0 ELSE locations[i].code
        parent[i \in 0..Len(locations)] ==
            IF i = 0 THEN 0
            ELSE IF code(locations[i].around) # 0 THEN code(locations[i].around)
            ELSE parent[locations[i].around]
    IN parent

Locations(locations) ==
    {[code |-> locations[i].code, parent |-> Parents(locations)[i]] :
        i \in {j \in DOMAIN locations : locations[j].code # 0}}

\* parse_scanner_parameters: the first of each instrument type; its filter groups.
Instruments(listed) ==
    [type \in {listed[i].type : i \in DOMAIN listed} |->
        listed[Min({i \in DOMAIN listed : listed[i].type = type})].groups]

\* _filters, keyed by group and tag: a list nested in another does not list twice.
Filters(fields) == Once(SelectSeq(fields, LAMBDA field : field.group # 0 /\ field.tag # 0))

\* parameters, of the filters: of one instrument's groups, matching the query, cut.
Parameters(listed, fields, instrument, query, limit) ==
    LET known == Instruments(listed)
        found == SelectSeq(Filters(fields), LAMBDA field :
                     /\ instrument = "any" \/ field.group \in known[instrument]
                     /\ query = 0 \/ query \in {field.tag, field.group})
    IN IF (instrument # "any" /\ instrument \notin DOMAIN known) \/ found = <<>>
       THEN [raised |-> "not found", total |-> 0, rows |-> <<>>, truncated |-> FALSE]
       ELSE [raised |-> "", total |-> Len(found), rows |-> Cut(found, limit),
             truncated |-> Len(found) > limit]

-----------------------------------------------------------------------------
(* Fundamentals *)

\* fundamental_data, of the contract as described, as it qualified, and IBKR's answer.
Report(type, described, qualified, answer, cap) ==
    CASE type = "unknown" \/ described # "STK" \/ qualified # "STK" -> [raised |-> "invalid"]
      [] answer.error # 0 -> [raised |-> IF answer.error = 430 THEN "not found" ELSE "IBKR"]
      [] OTHER -> IF answer.chars = 0 THEN [raised |-> "not found"]
                  ELSE [raised |-> "", chars |-> Min({answer.chars, cap}), truncated |-> answer.chars > cap]

\* _check_portfolio_scope: IBKR fills in what is held in every account of the login.
ScopeRefuses(ask) == ask.portfolio /\ (~ask.ready \/ ask.hidden # {})

\* _check_event_types: against the metadata, if it lists any.
UnknownTypes(types, known) == IF known = {} THEN {} ELSE types \ known

\* wsh_events: a raw filter (_filter_text: a JSON object) replaces contract and types;
\* _event_target.
EventsRequest(ask) ==
    LET raw == ask.raw = "object"
        types == IF raw THEN {} ELSE ask.types
        contract == ask.contract /\ ~raw
        nothing == ~raw /\ ~ask.contract /\ ask.types = {} /\ ~ask.watchlist /\ ~ask.portfolio
        invalid == ask.start > ask.end \/ ask.raw = "other" \/ nothing
        why == CASE invalid -> "invalid"
                 [] ~invalid /\ ScopeRefuses(ask) -> IF ask.ready THEN "account" ELSE "not connected"
                 [] OTHER -> IF UnknownTypes(types, ask.known) # {} THEN "invalid" ELSE ""
    IN [raised |-> why, note |-> raw /\ (ask.contract \/ ask.types # {}), raw |-> raw,
        conId |-> contract /\ types = {}, watchlist |-> contract /\ types # {}, types |-> types,
        portfolio |-> ask.portfolio]

Events(rows, limit, cap) ==
    IF rows = <<>> THEN [raised |-> "not found", rows |-> <<>>, truncated |-> FALSE]
    ELSE [raised |-> "", rows |-> Cut(rows, limit),
          truncated |-> Len(rows) > limit \/ Len(rows) >= Asked(limit, cap)]

\* _json_values, of documents in a row: all up to the first that is none, the rest raw.
JsonValues(documents) ==
    LET broken == {i \in DOMAIN documents : documents[i].kind = "broken"}
    IN IF broken = {} THEN documents
       ELSE Append(SubSeq(documents, 1, Min(broken) - 1), [kind |-> "raw", events |-> <<0>>])

\* _parse_events: a list of events, a holder of one, a single event, or null.
ParseEvents(documents) ==
    FlattenSeq([i \in DOMAIN JsonValues(documents) |->
        CASE JsonValues(documents)[i].kind = "null" -> <<>>
          [] JsonValues(documents)[i].kind \in {"list", "holder", "event", "raw"} ->
               JsonValues(documents)[i].events])

\* _filter_metadata and _prune, of an object whose values are lists: a key that mentions
\* the query keeps its list, another the items that do.
Prune(metadata) ==
    [i \in {k \in DOMAIN metadata : metadata[k].key \/ \E j \in DOMAIN metadata[k].items : metadata[k].items[j]} |->
        IF metadata[i].key THEN DOMAIN metadata[i].items
        ELSE {j \in DOMAIN metadata[i].items : metadata[i].items[j]}]

-----------------------------------------------------------------------------
(* Durations, periods and bars of historical requests *)

Refused == [amount |-> 0, unit |-> "none"]

Day == 86400

\* Words for units; a single m means months.
UnitWords == [S |-> {"s", "sec", "secs", "second", "seconds"},
              min |-> {"min", "mins", "minute", "minutes"},
              h |-> {"h", "hr", "hrs", "hour", "hours"},
              D |-> {"d", "day", "days"},
              W |-> {"w", "wk", "wks", "week", "weeks"},
              M |-> {"m", "mo", "mon", "month", "months"},
              Y |-> {"y", "yr", "yrs", "year", "years"}]

Unit(word) == CHOOSE u \in DOMAIN UnitWords : word \in UnitWords[u]

Known(word) == \E u \in DOMAIN UnitWords : word \in UnitWords[u]

\* A month counts 30 days.
UnitSeconds == [S |-> 1, D |-> Day, W |-> 7 * Day, M |-> 30 * Day, Y |-> 365 * Day]

SmallBarSeconds == 30

BarSeconds == {1, 5, 10, 15, 30, 60, 120, 180, 300, 600, 900, 1200, 1800, 3600, 7200, 10800,
               14400, 28800, Day, 7 * Day, 30 * Day}

\* A length in seconds: over a day, in days if it is whole days.
InSeconds(seconds) ==
    IF seconds <= Day THEN [amount |-> seconds, unit |-> "S"]
    ELSE IF seconds % Day = 0 THEN [amount |-> seconds \div Day, unit |-> "D"] ELSE Refused

\* normalize_duration
Normalized(amount, word) ==
    IF ~Known(word) \/ amount < 1 THEN Refused
    ELSE CASE Unit(word) = "S" -> InSeconds(amount)
           [] Unit(word) = "min" -> InSeconds(amount * 60)
           [] Unit(word) = "h" -> InSeconds(amount * 3600)
           [] OTHER -> [amount |-> amount, unit |-> Unit(word)]

Seconds(duration) == duration.amount * UnitSeconds[duration.unit]

\* normalize_period
Period(amount, word) ==
    IF ~Known(word) \/ Unit(word) \notin {"D", "W", "M", "Y"} \/ amount < 1 THEN Refused
    ELSE [amount |-> amount, unit |-> Unit(word)]

\* _SMALL_BAR_MIN_BAR: the smallest bar for a length.
SmallestBar(seconds) ==
    CASE seconds < 3600 -> 1
      [] seconds \in 3600..14399 -> 5
      [] seconds \in 14400..28799 -> 10
      [] seconds \in 28800..(Day - 1) -> 30
      [] OTHER -> 60

\* check_bar_request
Served(bar, seconds, adjusted, ended) ==
    /\ bar \in BarSeconds
    /\ bar <= seconds
    /\ bar <= SmallBarSeconds => bar >= SmallestBar(seconds)
    /\ ~(adjusted /\ ended)

-----------------------------------------------------------------------------
(* Cases *)

Field == [group : 0..2, tag : 0..2]
Listed == [type : {"STK", "FUT"}, groups : SUBSET {1, 2}]
Document == [kind : {"list", "holder"}, events : BoundedSeq({1, 2}, 2)]
            \cup [kind : {"event"}, events : {<<1>>}] \cup [kind : {"null", "broken"}, events : {<<>>}]

CatalogCases ==
    [kind : {"codes"}, codes : BoundedSeq(0..3, 3), all : BOOLEAN, available : {<<>>, <<1>>, <<1, 2>>}]
    \cup [kind : {"rows"}, there : 0..6, limit : 1..4, turned : BOOLEAN]
    \cup [kind : {"article"}, plain : BOOLEAN, binary : BOOLEAN,
          result : [type : {"text", "html", "binary"}, chars : 0..4, tags : {0, 1}]]
    \cup [kind : {"locations"}, locations : {locations \in BoundedSeq([code : 0..2, around : 0..2], 3) :
                                                \A i \in DOMAIN locations : locations[i].around < i}]
    \cup [kind : {"filters"}, listed : BoundedSeq(Listed, 2), fields : BoundedSeq(Field, 2),
          instrument : {"any", "STK", "BOND"}, query : 0..2, limit : {1}]
    \cup [kind : {"report"}, type : {"snapshot", "unknown"}, described : {"STK", "FUT"},
          qualified : {"STK", "FUT"}, answer : [error : {0, 430, 10358}, chars : 0..3]]
    \cup [kind : {"events"}, raw : {"none", "object", "other"}, contract : BOOLEAN, types : SUBSET {1, 2}, known : SUBSET {1},
          watchlist : BOOLEAN, portfolio : BOOLEAN, ready : BOOLEAN, hidden : SUBSET {1},
          start : 0..1, end : 0..1]
    \cup [kind : {"json"}, documents : BoundedSeq(Document, 3)]
    \cup [kind : {"prune"}, metadata : BoundedSeq([key : BOOLEAN, items : BoundedSeq(BOOLEAN, 2)], 2)]

Amounts == {0, 1, 2, 3, 24, 25, 48, 60, 1440, 1800, 2880, 3599, 3600, 14400, 28800, 86399,
            86400, 86401, 172800}

\* Large amounts only of the short units.
DurationCases ==
    {c \in [amount : Amounts, word : UNION {UnitWords[u] : u \in DOMAIN UnitWords} \cup {"weekly"},
            bar : BarSeconds \cup {45}] :
       c.amount <= 60 \/ ~Known(c.word) \/ Unit(c.word) \in {"S", "min", "h"}}

-----------------------------------------------------------------------------
(* Properties *)

\* Only subscribed providers are searched, each once; with none named, all of them.
CodesRight(c) ==
    LET answer == ProviderCodes(c.all, c.codes, c.available)
    IN answer.raised = "" =>
           /\ ToSet(answer.codes) \subseteq ToSet(c.available) /\ IsInjective(answer.codes)
           /\ answer.codes # <<>> /\ (c.all => answer.codes = c.available)

\* What IBKR has is all answered or the answer says that it is cut, though IBKR cuts at
\* what is asked for and at its own cap; the headlines kept are the newest.
RowsRight(c) ==
    LET cap == 3
        limit == Min({c.limit, cap})
        sent == Cut([i \in 1..c.there |-> c.there + 1 - i], Asked(limit, cap))
        rows == IF c.turned THEN Reverse(sent) ELSE sent
        news == Headlines(rows, limit, cap)
        events == Events(rows, limit, cap)
    IN \A answer \in {news, events} :
           /\ ~answer.truncated => Len(answer.rows) = c.there
           /\ c.there > limit => answer.truncated
           /\ Len(answer.rows) <= limit
           /\ answer = news => \A i \in DOMAIN answer.rows : answer.rows[i] = c.there + 1 - i

\* An article is told whole or as cut, and a document never passes for text.
ArticleRight(c) ==
    LET answer == Article(c.result, c.plain, c.binary, 2)
    IN answer.raised = "" /\ answer.format # "binary" =>
           /\ c.result.type # "binary" /\ answer.truncated = (answer.chars < answer.total)
           /\ answer.chars <= 2

\* The parent a location is listed with is listed too, and around it.
LocationsRight(c) ==
    \A location \in Locations(c.locations) :
        location.parent # 0 => location.parent \in {other.code : other \in Locations(c.locations)}

\* Filters listed for an instrument apply to it; none is listed twice; a cut is told.
FiltersRight(c) ==
    LET answer == Parameters(c.listed, c.fields, c.instrument, c.query, c.limit)
    IN answer.raised = "" =>
           /\ IsInjective(answer.rows) /\ answer.rows # <<>>
           /\ answer.truncated = (Len(answer.rows) < answer.total)
           /\ c.instrument # "any" => \A i \in DOMAIN answer.rows :
                 \E j \in DOMAIN c.listed :
                     c.listed[j].type = c.instrument /\ answer.rows[i].group \in c.listed[j].groups

\* A report is of a stock, whole or told as cut.
ReportRight(c) ==
    LET answer == Report(c.type, c.described, c.qualified, c.answer, 2)
    IN answer.raised = "" => c.qualified = "STK" /\ answer.truncated = (answer.chars < c.answer.chars)

\* Events are asked for by something, never by the holdings of accounts the server may
\* not read, and a contract or type that does not select them is told as ignored.
EventsRight(c) ==
    LET request == EventsRequest(c)
    IN request.raised = "" =>
           /\ request.raw \/ request.conId \/ request.watchlist \/ request.types # {}
                 \/ c.watchlist \/ request.portfolio
           /\ request.portfolio => c.ready /\ c.hidden = {}
           /\ c.contract => request.conId \/ request.watchlist \/ request.note
           /\ c.types # {} => request.types = c.types \/ request.note
           /\ ~(request.conId /\ request.types # {})
           /\ c.known # {} => request.types \subseteq c.known

\* Every event up to the first broken document is listed once, in order.
JsonRight(c) ==
    LET whole == {i \in DOMAIN c.documents : \A j \in 1..i : c.documents[j].kind # "broken"}
        events == FlattenSeq([i \in 1..Cardinality(whole) |-> c.documents[i].events])
    IN ParseEvents(c.documents) = IF Cardinality(whole) < Len(c.documents) THEN Append(events, 0) ELSE events

\* What mentions the query is kept, with the key that leads to it; what is kept under a
\* key that does not mention it does itself.
PruneRight(c) ==
    /\ \A i \in DOMAIN c.metadata : \A j \in DOMAIN c.metadata[i].items :
           c.metadata[i].items[j] => i \in DOMAIN Prune(c.metadata) /\ j \in Prune(c.metadata)[i]
    /\ \A i \in DOMAIN Prune(c.metadata) : ~c.metadata[i].key =>
           Prune(c.metadata)[i] # {} /\ \A j \in Prune(c.metadata)[i] : c.metadata[i].items[j]

CatalogRight(c) ==
    CASE c.kind = "codes" -> CodesRight(c)
      [] c.kind = "rows" -> RowsRight(c)
      [] c.kind = "article" -> ArticleRight(c)
      [] c.kind = "locations" -> LocationsRight(c)
      [] c.kind = "filters" -> FiltersRight(c)
      [] c.kind = "report" -> ReportRight(c)
      [] c.kind = "events" -> EventsRight(c)
      [] c.kind = "json" -> JsonRight(c)
      [] c.kind = "prune" -> PruneRight(c)

\* What a duration's words mean, in seconds, whatever form they take.
Meaning(amount, word) ==
    CASE Unit(word) = "min" -> amount * 60
      [] Unit(word) = "h" -> amount * 3600
      [] OTHER -> amount * UnitSeconds[Unit(word)]

\* A duration keeps its length on its way to IBKR, and seconds stay within
\* the day IBKR takes.
LengthKept(c) ==
    LET d == Normalized(c.amount, c.word) IN
    d # Refused =>
      /\ Seconds(d) = Meaning(c.amount, c.word)
      /\ d.unit = "S" => d.amount \in 1..Day
      /\ Period(c.amount, c.word) \in {d, Refused}

\* Bars that are served number at least one, and the small ones at most an
\* hour of seconds.
BarsBounded(c) ==
    LET d == Normalized(c.amount, c.word) IN
    d # Refused /\ Served(c.bar, Seconds(d), FALSE, FALSE) =>
      LET bars == Seconds(d) \div c.bar IN
      bars >= 1 /\ (c.bar <= SmallBarSeconds => bars < 3600)

DurationsRight(c) == LengthKept(c) /\ BarsBounded(c)
=============================================================================
