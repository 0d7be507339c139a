------------------------------- MODULE Brackets -------------------------------
(***************************************************************************)
(* Placing a bracket, waiting for IBKR's first answers, unwinding it when  *)
(* IBKR rejected one of its orders, and a cancel-all that listed them.     *)
(*                                                                         *)
(* Order 1 is the entry, its children 2 and 3 the exits.  IBKR cancels the *)
(* children with the entry, and the other exit when one fills.  Only the   *)
(* last order transmits: until it is placed IBKR works on none of them.    *)
(* Other groups of orders are placed and awaited alike, never unwound.     *)
(***************************************************************************)
EXTENDS Naturals, Sequences, FiniteSets, Functions

CONSTANTS MaxUnread    \* bounds the messages IBKR sends ahead of ib_async

BracketAssumption == MaxUnread \in Nat \ {0}

VARIABLES stage,     \* where _submit_orders is
          placed,    \* how many orders it has placed
          shown,     \* the cached trade of each order: status, entry fill, the log: an error
                     \* in it, and whether the last entry is one
          book,      \* each order at IBKR
          partial,   \* the entry has filled, in part or whole, at IBKR
          sent, told,    \* messages to IBKR and from it, in order
          up,        \* the session is up
          verdict,   \* what the submit answered
          sweeper,   \* the cancel-all: where it is, the order it is at
          swept, skipped,  \* the orders it cancelled, and those it left out
          unanswered,      \* history: it asked for the open orders in vain
          complaint,       \* an order IBKR sent an error about and kept working on:
                           \* a rejected modification, say
          knewFill,        \* history: the entry had filled when the submit judged
          rejectedLate     \* history: a rejection came after the wait for it

submit == <<stage, placed, verdict, knewFill>>
cancelAll == <<sweeper, swept, skipped, unanswered>>
market == <<book, partial, complaint>>
wire == <<sent, told>>
bvars == <<submit, shown, market, wire, up, cancelAll, rejectedLate>>

Orders == 1..3
Exits == {2, 3}
Alive == {"held", "working"}
Done == {"Filled", "Cancelled", "Inactive"}

\* Warned: ValidationError by a warning that leaves the order working (399, say).
Open == {"PendingSubmit", "Submitted", "Warned"}

Trade == [status : {"none", "ValidationError"} \cup Open \cup Done,
          error : BOOLEAN, last : BOOLEAN, filled : BOOLEAN]

Request == [what : {"place", "cancel", "open"}, order : Orders]

News == [what : {"Submitted", "notice", "PartFilled", "Cancelled", "Filled", "error", "warning",
                 "end"},
         order : Orders]

TypeOK ==
    /\ stage \in {"placing", "waiting", "unwinding", "done"} /\ placed \in 0..3
    /\ shown \in [Orders -> Trade]
    /\ book \in [Orders -> {"none", "held", "working", "filled", "cancelled", "rejected"}]
    /\ partial \in BOOLEAN /\ complaint \subseteq Orders /\ up \in BOOLEAN
    /\ verdict \in {"none", "answered", "interrupted", "none_working", "left_filled",
                    "unwound", "unconfirmed", "not_connected"}
    /\ sweeper \in {"idle", "asking", "answered", "swept", "failed"}
    /\ swept \subseteq Orders /\ skipped \subseteq Orders /\ unanswered \in BOOLEAN
    /\ rejectedLate \in BOOLEAN /\ knewFill \in BOOLEAN
    /\ sent \in Seq(Request) /\ told \in Seq(News)

Init ==
    /\ stage = "placing" /\ placed = 0 /\ verdict = "none"
    /\ shown = [o \in Orders |-> [status |-> "none", error |-> FALSE, last |-> FALSE, filled |-> FALSE]]
    /\ book = [o \in Orders |-> "none"] /\ partial = FALSE /\ complaint = {}
    /\ sent = <<>> /\ told = <<>> /\ up = TRUE
    /\ sweeper = "idle" /\ swept = {} /\ skipped = {} /\ unanswered = FALSE /\ rejectedLate = FALSE /\ knewFill = FALSE

-----------------------------------------------------------------------------
(* Reading the trades *)

IsDone(o) == shown[o].status \in Done

\* _is_open; a never placed order shows ValidationError until it is marked.
IsOpen(o) == shown[o].status \in Open

\* _rejection, once never placed orders are marked.
Rejected(t, o) ==
    \/ t[o].status = "Inactive"
    \/ t[o].status = "Cancelled" /\ t[o].error

-----------------------------------------------------------------------------
(* _submit_orders *)

Message(what, o) == [what |-> what, order |-> o]

\* Messages that follow each other, in some order.  (SetToSeq of SequencesExt; that module
\* whole would be a part of every proof about sessions.)
InARow(messages) ==
    CHOOSE row \in [1..Cardinality(messages) -> messages] : IsInjective(row)

\* The three orders go out with no await between them, but a connection found
\* lost stops the row: what was placed is cancelled, as far as that goes.
Place ==
    /\ stage = "placing"
    /\ \/ /\ up
          /\ placed' = 3 /\ stage' = "waiting"
          /\ shown' = [o \in Orders |-> [shown[o] EXCEPT !.status = "PendingSubmit"]]
          /\ sent' = Append(sent, Message("place", 3))
          /\ UNCHANGED <<verdict, up, told>>
       \/ \E n \in 0..2 :
          /\ placed' = n /\ stage' = "done" /\ verdict' = "interrupted"
          /\ shown' = [o \in Orders |-> IF o <= n THEN [shown[o] EXCEPT !.status = "PendingSubmit"]
                                        ELSE shown[o]]
          /\ up' = FALSE /\ sent' = <<>> /\ told' = <<>>
    /\ UNCHANGED <<knewFill, market, cancelAll, rejectedLate>>

\* _mark_never_placed: an order refused by a warning was never working.
Marked == [o \in Orders |-> IF shown[o].status = "ValidationError"
                            THEN [shown[o] EXCEPT !.status = "Inactive"] ELSE shown[o]]

\* What _unwind_bracket cancels: the entry, which takes its exits along; if it
\* is not open, what else is; nothing once the entry has filled.
Targets(t) ==
    IF t[1].filled THEN {}
    ELSE IF t[1].status \in Open THEN {1}
    ELSE {o \in Orders : t[o].status \in Open}

\* Slip: only the entry's rejection counts.
NeedsUnwindingForEntry(t) == Rejected(t, 1)

\* Some order of the bracket was rejected.
NeedsUnwinding(t) == \E o \in Orders : Rejected(t, o)

Cancels(orders) == InARow({Message("cancel", o) : o \in orders})

\* Every order is answered, or status_wait is over: the trades are judged, and
\* a bracket with a rejected order is unwound.  With the session gone self.ib raises
\* there: the submit raises, nothing is cancelled and the breaker hears of no rejection.
Judge ==
    /\ stage = "waiting"
    /\ shown' = Marked
    /\ LET working == {o \in Orders : shown'[o].status \in Open} IN
       \/ /\ ~NeedsUnwinding(shown')
          /\ stage' = "done" /\ verdict' = "answered" /\ UNCHANGED sent
       \/ /\ NeedsUnwinding(shown') /\ working = {}
          /\ stage' = "done" /\ verdict' = "none_working" /\ UNCHANGED sent
       \/ /\ NeedsUnwinding(shown') /\ working # {} /\ Targets(shown') = {}
          /\ stage' = "done" /\ verdict' = "left_filled" /\ UNCHANGED sent
       \/ /\ NeedsUnwinding(shown') /\ Targets(shown') # {} /\ ~up
          /\ stage' = "done" /\ verdict' = "not_connected" /\ UNCHANGED sent
       \/ /\ NeedsUnwinding(shown') /\ Targets(shown') # {} /\ up
          /\ stage' = "unwinding" /\ sent' = sent \o Cancels(Targets(shown'))
          /\ UNCHANGED verdict
    /\ knewFill' = shown[1].filled
    /\ UNCHANGED <<placed, market, told, up, cancelAll, rejectedLate>>

\* The wait for the cancels is over: everything is done, or status_wait is.
Unwound ==
    /\ stage = "unwinding"
    /\ stage' = "done"
    /\ verdict' = IF \E o \in Orders : ~IsDone(o) THEN "unconfirmed" ELSE "unwound"
    /\ UNCHANGED <<placed, knewFill, shown, market, wire, up, cancelAll, rejectedLate>>

-----------------------------------------------------------------------------
(* _submit_cancel_all with its token's list, which named all the orders *)

\* _looks_stale: Cancelled by an error, the last entry of its log, not by IBKR's status.
LooksStale(o) == shown[o].status = "Cancelled" /\ shown[o].last

\* The cancels go out with no await between them; an order that is not open
\* here is left out.
CancelListed ==
    /\ sweeper' = IF up THEN "swept" ELSE "failed"
    /\ LET open == {o \in Orders : IsOpen(o)} IN
       IF up
       THEN swept' = open /\ skipped' = Orders \ open /\ sent' = sent \o Cancels(open)
       ELSE UNCHANGED <<swept, skipped, sent>>

\* A trade that looks stale makes it ask IBKR for the open orders first.
Sweep ==
    /\ sweeper = "idle" /\ placed = 3
    /\ \/ (\A o \in Orders : ~LooksStale(o)) /\ CancelListed
       \/ /\ \E o \in Orders : LooksStale(o)
          /\ up
          /\ sweeper' = "asking" /\ sent' = Append(sent, Message("open", 1))
          /\ UNCHANGED <<swept, skipped>>
    /\ UNCHANGED <<submit, shown, market, told, up, unanswered, rejectedLate>>

Synced == sweeper = "answered" /\ CancelListed
          /\ UNCHANGED <<submit, shown, market, told, up, unanswered, rejectedLate>>

\* The answer did not come in time, or the session went.
SyncFails == sweeper = "asking" /\ CancelListed
             /\ unanswered' = TRUE
             /\ UNCHANGED <<submit, shown, market, told, up, rejectedLate>>

-----------------------------------------------------------------------------
(* IBKR *)

Tell(news) == told' = told \o InARow(news)

\* The orders that end with order o: the exits with their entry.
With(o) == IF o = 1 THEN {p \in Orders : p = 1 \/ book[p] \in Alive} ELSE {o}

IbkrTakes ==
    /\ sent # <<>> /\ up
    /\ sent' = Tail(sent)
    /\ LET m == Head(sent) IN
       \/ /\ m.what = "place"
          /\ book' = [o \in Orders |-> "held"]
          /\ UNCHANGED told
       \/ /\ m.what = "cancel" /\ book[m.order] \in Alive
          /\ book' = [o \in Orders |-> IF o \in With(m.order) THEN "cancelled" ELSE book[o]]
          /\ Tell({Message("Cancelled", o) : o \in With(m.order)})
       \/ /\ m.what = "cancel" /\ book[m.order] \notin Alive
          /\ UNCHANGED <<book, told>>
       \/ /\ m.what = "open"
          /\ told' = told \o InARow({Message("Submitted", o) : o \in {p \in Orders : book[p] \in Alive}})
                          \o <<Message("end", 1)>>
          /\ UNCHANGED book
    /\ UNCHANGED <<submit, shown, partial, complaint, up, cancelAll, rejectedLate>>

Room == Len(told) < MaxUnread

\* IBKR starts to work on an order it holds, and says so, or warns of it.
Works(o) ==
    /\ book[o] = "held" /\ Room
    /\ book' = [book EXCEPT ![o] = "working"]
    /\ \E what \in {"Submitted", "notice"} : Tell({Message(what, o)})
    /\ UNCHANGED <<submit, shown, partial, complaint, sent, up, cancelAll, rejectedLate>>

\* It refuses one, by an error or (321) by a warning; an entry takes its exits
\* along.
Refuses(o) ==
    /\ book[o] \in Alive /\ (o = 1 => ~partial) /\ Room
    /\ \E what \in {"error", "warning"} :
       /\ book' = [p \in Orders |-> IF p = o THEN "rejected"
                                    ELSE IF p \in With(o) THEN "cancelled" ELSE book[p]]
       /\ told' = Append(told, Message(what, o))
                    \o InARow({Message("Cancelled", p) : p \in With(o) \ {o}})
    /\ UNCHANGED <<submit, shown, partial, complaint, sent, up, cancelAll, rejectedLate>>

\* Part of the entry fills, or the whole of an order: an exit once the entry
\* has filled, and the other exit is cancelled.
PartFills ==
    /\ book[1] = "working" /\ ~partial /\ Room
    /\ partial' = TRUE
    /\ told' = Append(told, Message("PartFilled", 1))
    /\ UNCHANGED <<submit, shown, book, complaint, sent, up, cancelAll, rejectedLate>>

Fills(o) ==
    /\ book[o] = "working" /\ Room /\ (o \in Exits => book[1] = "filled")
    /\ partial' = (partial \/ o = 1)
    /\ LET others == {p \in Exits \ {o} : o \in Exits /\ book[p] \in Alive} IN
       /\ book' = [p \in Orders |-> IF p = o THEN "filled"
                                    ELSE IF p \in others THEN "cancelled" ELSE book[p]]
       /\ told' = Append(told, Message("Filled", o))
                    \o InARow({Message("Cancelled", p) : p \in others})
    /\ UNCHANGED <<submit, shown, complaint, sent, up, cancelAll, rejectedLate>>

\* IBKR complains of an order once, before the cancel-all, and keeps working
\* on it.
Complains(o) ==
    /\ stage = "done" /\ sweeper = "idle" /\ complaint = {} /\ book[o] = "working" /\ Room
    /\ complaint' = {o}
    /\ told' = Append(told, Message("error", o))
    /\ UNCHANGED <<submit, shown, book, partial, sent, up, cancelAll, rejectedLate>>

Errors == {"error", "warning", "notice"}

\* ib_async takes a message in: an error makes the trade Cancelled, a warning
\* ValidationError; a status is logged when it is another.
Deliver ==
    /\ told # <<>>
    /\ told' = Tail(told)
    /\ LET m == Head(told) IN
       /\ shown' = IF m.what = "end" THEN shown ELSE
                   [shown EXCEPT ![m.order] =
                   [status |-> CASE m.what = "error" -> "Cancelled"
                                 [] m.what = "warning" -> "ValidationError"
                                 [] m.what = "notice" -> "Warned"
                                 [] m.what = "PartFilled" -> "Submitted"
                                 [] OTHER -> m.what,
                    error |-> @.error \/ m.what \in Errors,
                    last |-> \/ m.what \in Errors
                             \/ @.last /\ m.what = "Cancelled" /\ @.status = "Cancelled",
                    filled |-> @.filled \/ m.what \in {"Filled", "PartFilled"}]]
       /\ sweeper' = IF m.what = "end" /\ sweeper = "asking" THEN "answered" ELSE sweeper
    /\ rejectedLate' = (\/ rejectedLate
                        \/ stage # "waiting" /\ Head(told).what \in {"error", "warning"})
    /\ UNCHANGED <<submit, market, sent, up, swept, skipped, unanswered>>

Drop ==
    /\ up /\ stage # "placing"
    /\ up' = FALSE /\ sent' = <<>> /\ told' = <<>>
    /\ UNCHANGED <<submit, shown, market, cancelAll, rejectedLate>>

Next ==
    \/ Place \/ Judge \/ Unwound \/ Sweep \/ Synced \/ SyncFails
    \/ IbkrTakes \/ PartFills \/ Deliver \/ Drop
    \/ \E o \in Orders : Works(o) \/ Refuses(o) \/ Fills(o) \/ Complains(o)

Spec == Init /\ [][Next]_bvars

-----------------------------------------------------------------------------
(* Properties *)

Landed == stage = "done" /\ sent = <<>> /\ told = <<>> /\ up

\* Once a bracket's submit has answered and all messages have landed, the session still up,
\* no entry works at IBKR without both exits, filled in part or not, unless the answer said
\* so (the entry had begun to fill), or IBKR rejected one of the orders only after the wait.
NoNakedEntry ==
    Landed /\ book[1] \in Alive /\ ~rejectedLate
        => verdict = "left_filled" \/ \A o \in Exits : book[o] \in Alive

\* A submit that says the rest of the bracket was cancelled says so of a
\* bracket none of whose orders is left at IBKR.
UnwoundIsOver == verdict \in {"unwound", "none_working"} => \A o \in Orders : book[o] \notin Alive

\* What has filled keeps the exits that remain: only a filled exit, or a cancel-all, takes
\* an exit away from it.  One race loses it: the submit judged and sent the entry's cancel
\* before a fill it had not heard of, and IBKR took the cancel, exits and all, after it.
ExitsOutliveTheFill ==
    partial /\ swept = {} => \A o \in Exits : book[o] = "cancelled" =>
        (\E p \in Exits : book[p] = "filled") \/ (book[1] = "cancelled" /\ ~knewFill)

\* A cancel-all leaves an order out only if it is over at IBKR, unless it
\* asked for the open orders and got no answer.
SkippedIsOver == unanswered \/ \A o \in skipped : book[o] \notin Alive

-----------------------------------------------------------------------------
(* What the properties rest on *)

Over == {"filled", "cancelled", "rejected"}

\* Where a submit and a cancel-all stand.
InTurn ==
    /\ stage = "placing" => sent = <<>> /\ \A o \in Orders : book[o] = "none"
    /\ stage # "done" => verdict = "none"
    /\ stage \in {"placing", "waiting"} => ~knewFill
    /\ stage \in {"waiting", "unwinding"} => placed = 3
    /\ verdict \in {"unwound", "none_working"} => stage = "done"
    /\ placed = 3 => stage # "placing" /\ \A o \in Orders : shown[o].status # "none"
    /\ sweeper # "idle" => placed = 3
    /\ sweeper \in {"asking", "answered"} => book[1] # "none"
    /\ sweeper \in {"idle", "asking", "answered"} => swept = {} /\ skipped = {}
    /\ complaint # {} => stage = "done"

\* IBKR has none of the orders until it reads that they are placed, which comes first.
PlacedFirst ==
    /\ \A o \in Orders : book[o] = "none" <=> book[1] = "none"
    /\ \A i \in DOMAIN sent : sent[i].what = "place" => i = 1 /\ book[1] = "none"
    /\ book[1] = "none" /\ up /\ stage # "placing" => sent # <<>> /\ sent[1].what = "place"

\* An exit fills after its entry, whose fills leave it as it is or over.
FillsInTurn ==
    /\ partial => book[1] \in {"working", "filled", "cancelled"}
    /\ book[1] = "filled" => partial
    /\ \A o \in Exits : book[o] = "filled" => book[1] = "filled"
    /\ \A o \in complaint : book[o] \notin {"none", "held"}
    /\ knewFill => partial

IsSo(m) ==
    /\ m.what \in {"Submitted", "notice"} => book[m.order] # "none"
    /\ m.what = "Cancelled" => book[m.order] = "cancelled"
    /\ m.what = "Filled" => book[m.order] = "filled"
    /\ m.what = "PartFilled" => m.order = 1 /\ partial
    /\ m.what = "warning" => book[m.order] = "rejected"
    /\ m.what = "error" => book[m.order] = "rejected" \/ m.order \in complaint

\* What IBKR says of an order is so, and after a refusal it says no more of it.
NewsIsTrue ==
    \A i \in DOMAIN told :
       /\ IsSo(told[i])
       /\ told[i].what \in {"error", "warning"} /\ complaint = {} =>
             \A j \in DOMAIN told : j > i /\ told[j].order = told[i].order => told[j].what = "end"

\* An order that shows as over is over, unless IBKR only complained of it.
ShownIsTrue ==
    \A o \in Orders :
       /\ shown[o].status = "Filled" => book[o] = "filled"
       /\ shown[o].status \in {"ValidationError", "Inactive"} => book[o] = "rejected"
       /\ shown[o].status = "Cancelled" => \/ book[o] \in {"cancelled", "rejected"}
                                           \/ o \in complaint /\ shown[o].last /\ rejectedLate
       /\ \/ shown[o].status \in {"Submitted", "Warned"} \/ shown[o].error \/ shown[o].filled
         => book[o] # "none"
       /\ shown[o].status = "Filled" => shown[o].filled
       /\ shown[1].filled => partial

\* The entry is over, or its cancel is under way.
EntryEnds ==
    \/ book[1] \in Over
    \/ \E i \in DOMAIN sent : sent[i] = Message("cancel", 1)

\* A rejected exit is still to be shown, or was shown in time to be judged, and then the
\* entry ends.
RejectionsAreHeard ==
    up /\ ~rejectedLate => \A o \in Exits : book[o] = "rejected" =>
       \/ \E i \in DOMAIN told : told[i].order = o /\ told[i].what \in {"error", "warning"}
       \/ /\ stage = "waiting" /\ shown[o].error
          /\ shown[o].status \in {"Cancelled", "ValidationError", "Inactive"}
          /\ \A i \in DOMAIN told : told[i].order = o => told[i].what = "end"
       \/ stage \in {"unwinding", "done"} /\ (EntryEnds \/ verdict = "left_filled")

\* No exit is cancelled without its entry.
CancelsTakeTheEntry ==
    up /\ ~rejectedLate =>
       /\ \A o \in Exits : book[o] = "cancelled" => EntryEnds
       /\ \A i \in DOMAIN sent : sent[i].what = "cancel" => EntryEnds

Unwinds == stage \in {"unwinding", "done"} /\ ~knewFill

\* Without a cancel-all only a submit that knew of no fill cancels, the entry or, once that
\* is over, an exit; and an exit goes with the entry, or when the other has filled.
FillsAreSpared ==
    swept = {} =>
       /\ \A i \in DOMAIN sent : sent[i].what = "cancel" =>
             Unwinds /\ (sent[i].order # 1 => book[1] \in {"cancelled", "rejected"})
       /\ \A o \in Exits : book[o] = "cancelled" =>
             \/ book[1] = "cancelled" /\ Unwinds
             \/ book[1] = "rejected" \/ \E p \in Exits : book[p] = "filled"

Opens(i, o) == told[i].order = o /\ told[i].what \in {"Submitted", "notice", "PartFilled"}
Complaint(i, o) == told[i].order = o /\ told[i].what = "error"

\* Order o shows as open once the message at j has come.
ShowsBy(j, o) ==
    /\ IsOpen(o) \/ \E i \in 1..(j - 1) : Opens(i, o)
    /\ \A k \in DOMAIN told : Complaint(k, o) => \E i \in (k + 1)..(j - 1) : Opens(i, o)

\* Once IBKR has listed the open orders, those that are alive show as open.
AnswerShowsAll ==
    /\ sweeper = "idle" => /\ \A i \in DOMAIN sent : sent[i].what # "open"
                           /\ \A i \in DOMAIN told : told[i].what # "end"
    /\ sweeper = "asking" =>
          \A j \in DOMAIN told : told[j].what = "end" =>
             \A o \in Orders : book[o] \in Alive => ShowsBy(j, o)
    /\ sweeper = "answered" =>
          \A o \in Orders : book[o] \in Alive =>
             IsOpen(o) /\ \A k \in DOMAIN told : ~Complaint(k, o)

\* What a verdict or a cancel-all called over stays over.
StaysOver ==
    /\ verdict \in {"unwound", "none_working"} => \A o \in Orders : book[o] \in Over
    /\ unanswered \/ \A o \in skipped : book[o] \in Over

IInv == /\ TypeOK /\ InTurn /\ PlacedFirst /\ FillsInTurn /\ NewsIsTrue /\ ShownIsTrue
        /\ RejectionsAreHeard /\ CancelsTakeTheEntry /\ FillsAreSpared /\ AnswerShowsAll
        /\ StaysOver
        /\ NoNakedEntry /\ UnwoundIsOver /\ ExitsOutliveTheFill /\ SkippedIsOver
=============================================================================
