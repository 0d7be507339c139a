-------------------------- MODULE HistoricalRequests --------------------------
(***************************************************************************)
(* Historical requests: the cache of identical ones, the copy of IBKR's    *)
(* pacing rules, the slots for open requests, and what a call makes of     *)
(* IBKR's answer or of none.  Requests differ in the contract and data     *)
(* type their burst counts for, and in weight: BID_ASK counts twice.       *)
(* Bars of a minute or more are not paced; the model has only paced ones.  *)
(***************************************************************************)
EXTENDS Integers, Sequences, FiniteSets

CONSTANTS Caller,
          Series,       \* what can be asked for
          BidAsk,        \* the requests that count twice, each with its own burst
          PacingWindow, MaxPaced,    \* PACING_WINDOW, PACING_MAX_REQUESTS
          Burst, MaxBurst,     \* PACING_BURST_WINDOW, PACING_BURST_MAX
          TTL,           \* IDENTICAL_REQUEST_TTL
          Slots,         \* MAX_OPEN_REQUESTS
          Timeout,       \* the request timeout
          None,
          MaxTime, MaxCalls    \* bound the clock and the calls

HistoryAssumption ==
    /\ {PacingWindow, Burst, TTL, Slots, Timeout, MaxTime, MaxCalls} \subseteq Nat \ {0}
    /\ {MaxPaced, MaxBurst} \subseteq Nat \ {0, 1}
    /\ BidAsk \subseteq Series /\ None \notin Series
    /\ IsFiniteSet(Caller)

VARIABLES now,
          window,    \* times of the paced requests of the long window
          bursts,    \* times of each burst key's
          cached,    \* when each request's result was put in the cache
          calls,     \* what each call is at
          sent,      \* history: requests sent to IBKR, by number
          told,      \* history: refusals since the last admission, with when to retry
          started    \* calls made

pacer == <<window, bursts>>
hvars == <<now, pacer, cached, calls, sent, told, started>>

Weight(r) == IF r \in BidAsk THEN 2 ELSE 1

\* The other requests are for one contract and data type.
Key(r) == IF r \in BidAsk THEN r ELSE None
Keys == BidAsk \cup {None}

\* The call's request, when its limit began, when it was admitted and sent,
\* the requests whose results it could have seen, and what it answered.
Call0 == [at |-> "idle", request |-> None, began |-> 0, admitted |-> 0, sentAt |-> 0,
          ended |-> 0, known |-> {}, answer |-> "none"]

Call == [at : {"idle", "qualifying", "waiting", "open", "done"}, request : Series \cup {None},
         began : 0..MaxTime, admitted : 0..MaxTime, sentAt : 0..MaxTime, ended : 0..MaxTime,
         known : SUBSET Nat, answer : {"none", "rows", "no_data", "timed_out", "paced"}]

Sent == [request : Series, at : 0..MaxTime, by : Caller, admitted : 0..MaxTime,
         known : SUBSET Nat, done : BOOLEAN]

TypeOK ==
    /\ now \in 0..MaxTime
    /\ cached \in [Series -> Int]
    /\ calls \in [Caller -> Call]
    /\ sent \in Seq(Sent)

Init ==
    /\ now = 0 /\ window = <<>> /\ bursts = [k \in Keys |-> <<>>]
    /\ cached = [r \in Series |-> -TTL]
    /\ calls = [c \in Caller |-> Call0]
    /\ sent = <<>> /\ told = {} /\ started = 0

-----------------------------------------------------------------------------
(* _Pacer.admit *)

\* How many stamps at the head of the deque have left the window.
Expired(times, length) ==
    CHOOSE k \in 0..Len(times) : /\ \A i \in 1..k : now - times[i] >= length
                                 /\ k < Len(times) => now - times[k + 1] < length

Recent(times, length) == SubSeq(times, Expired(times, length) + 1, Len(times))

Overflow(times, weight, max) == Len(times) + weight - max

\* Until as many stamps are gone as the request needs.
RetryAfter(times, overflow, length) == length - (now - times[overflow])

Times(n) == [i \in 1..n |-> now]

\* Slip: a BID_ASK request is counted once.
AdmitSingle(r) ==
    /\ window' = Recent(window, PacingWindow) \o Times(1)
    /\ bursts' = [k \in Keys |-> Recent(bursts[k], Burst) \o (IF k = Key(r) THEN Times(1) ELSE <<>>)]

Admit(r) ==
    /\ window' = Recent(window, PacingWindow) \o Times(Weight(r))
    /\ bursts' = [k \in Keys |-> Recent(bursts[k], Burst)
                                   \o (IF k = Key(r) THEN Times(Weight(r)) ELSE <<>>)]

LongOverflow(r) == Overflow(Recent(window, PacingWindow), Weight(r), MaxPaced)
BurstOverflow(r) == Overflow(Recent(bursts[Key(r)], Burst), Weight(r), MaxBurst)

\* A refused request leaves only its purge behind.
Refuse(r) ==
    /\ window' = Recent(window, PacingWindow)
    /\ bursts' = [k \in Keys |-> Recent(bursts[k], Burst)]
    /\ told' = told \cup
         {IF LongOverflow(r) > 0
          THEN [request |-> r, long |-> TRUE,
                retry |-> now + RetryAfter(Recent(window, PacingWindow), LongOverflow(r), PacingWindow)]
          ELSE [request |-> r, long |-> FALSE,
                retry |-> now + RetryAfter(Recent(bursts[Key(r)], Burst), BurstOverflow(r), Burst)]}

-----------------------------------------------------------------------------
(* A call: historical_bars, historical_ticks *)

Succeeded == {i \in DOMAIN sent : sent[i].done}

Cached(r) == now - cached[r] < TTL

\* The cache is looked at; without a result the contract is qualified first,
\* which awaits IBKR.
Start(c) ==
    /\ calls[c].at \in {"idle", "done"} /\ started < MaxCalls
    /\ started' = started + 1
    /\ \E r \in Series :
         calls' = [calls EXCEPT ![c] =
                     IF Cached(r) THEN [Call0 EXCEPT !.at = "done", !.request = r, !.answer = "rows"]
                     ELSE [Call0 EXCEPT !.at = "qualifying", !.request = r, !.known = Succeeded]]
    /\ UNCHANGED <<now, pacer, cached, sent, told>>

\* The call is admitted, or refused with the time to wait.
Qualified(c) ==
    /\ calls[c].at = "qualifying"
    /\ LET r == calls[c].request IN
       IF LongOverflow(r) > 0 \/ BurstOverflow(r) > 0
       THEN /\ Refuse(r)
            /\ calls' = [calls EXCEPT ![c].at = "done", ![c].answer = "paced"]
       ELSE /\ Admit(r)
            /\ told' = {}
            /\ calls' = [calls EXCEPT ![c].at = "waiting", ![c].began = now, ![c].admitted = now]
    /\ UNCHANGED <<now, cached, sent, started>>

Open == {c \in Caller : calls[c].at = "open"}

\* A slot is free: the request is sent.
Send(c) ==
    /\ calls[c].at = "waiting" /\ Cardinality(Open) < Slots
    /\ calls' = [calls EXCEPT ![c].at = "open", ![c].sentAt = now]
    /\ sent' = Append(sent, [request |-> calls[c].request, at |-> now, by |-> c,
                             admitted |-> calls[c].admitted, known |-> calls[c].known,
                             done |-> FALSE])
    /\ UNCHANGED <<now, pacer, cached, told, started>>

LastOf(c) == CHOOSE i \in DOMAIN sent : sent[i].by = c /\ \A j \in DOMAIN sent : sent[j].by = c => j <= i

\* IBKR's rows come, and are kept for identical requests.
Rows(c) ==
    /\ calls[c].at = "open"
    /\ calls' = [calls EXCEPT ![c].at = "done", ![c].answer = "rows"]
    /\ cached' = [cached EXCEPT ![calls[c].request] = now]
    /\ sent' = [sent EXCEPT ![LastOf(c)].done = TRUE]
    /\ UNCHANGED <<now, pacer, told, started>>

\* About as long as ib_async waits: a timer may fire early (_TIMED_OUT_FRACTION, 0.9).
LooksTimedOut(elapsed) == 10 * elapsed >= 9 * Timeout

TookTooLong(c) == LooksTimedOut(now - calls[c].sentAt)

\* No rows: IBKR has none, or ib_async cancelled the request after its time
\* and answers with none; only the time tells them apart.
NoRows(c) ==
    /\ calls[c].at = "open"
    /\ calls' = [calls EXCEPT ![c].at = "done", ![c].ended = now,
                              ![c].answer = IF TookTooLong(c) THEN "timed_out" ELSE "no_data"]
    /\ UNCHANGED <<now, pacer, cached, sent, told, started>>

\* The limit of the call, a little longer and with its wait for a slot.
TimesOut(c) ==
    /\ calls[c].at \in {"waiting", "open"} /\ now - calls[c].began > Timeout
    /\ calls' = [calls EXCEPT ![c].at = "done", ![c].ended = now, ![c].answer = "timed_out"]
    /\ UNCHANGED <<now, pacer, cached, sent, told, started>>

Tick ==
    /\ now < MaxTime
    /\ \A c \in Open : now - calls[c].sentAt < Timeout
    /\ \A c \in Caller : calls[c].at \in {"waiting", "open"} => now - calls[c].began <= Timeout
    /\ now' = now + 1
    /\ UNCHANGED <<pacer, cached, calls, sent, told, started>>

Next ==
    \/ \E c \in Caller : \/ Start(c) \/ Qualified(c) \/ Send(c) \/ Rows(c) \/ NoRows(c)
                         \/ TimesOut(c)
    \/ Tick

Spec == Init /\ [][Next]_hvars

-----------------------------------------------------------------------------
(* Properties *)

WeightOf(sends) == Cardinality(sends) + Cardinality({i \in sends : sent[i].request \in BidAsk})

AtOnce(i) == sent[i].admitted = sent[i].at

\* IBKR's pacing rules hold of what was sent, in every window, unless a
\* request of the window had waited for a slot after it was counted.
PacingKept ==
    \A t \in 0..now :
      LET long == {i \in DOMAIN sent : sent[i].at \in t..(t + PacingWindow - 1)}
          short(k) == {i \in DOMAIN sent : sent[i].at \in t..(t + Burst - 1) /\ Key(sent[i].request) = k}
      IN /\ (\A i \in long : AtOnce(i)) => WeightOf(long) <= MaxPaced
         /\ \A k \in Keys : (\A i \in short(k) : AtOnce(i)) => WeightOf(short(k)) <= MaxBurst

\* A request IBKR answered with rows is not sent again within the TTL by a
\* call that looked after the answer: one that looked before may send it.
NotIdentical ==
    \A j \in DOMAIN sent : \A i \in sent[j].known :
       sent[i].request = sent[j].request => sent[j].at - sent[i].at >= TTL

\* Whoever retries at the time a refusal named is not refused for the same
\* rule again, if nothing was admitted meanwhile.
RetryIsLongEnough ==
    \A t \in told : now >= t.retry =>
       IF t.long THEN LongOverflow(t.request) <= 0 ELSE BurstOverflow(t.request) <= 0

\* A call that says IBKR timed out had a request open about that long, or was
\* over its own limit.
TimedOutIsTrue ==
    \A c \in Caller : calls[c].answer = "timed_out" =>
       \/ LooksTimedOut(calls[c].ended - calls[c].sentAt)
       \/ calls[c].ended - calls[c].began > Timeout

\* IBKR never has more requests open than it takes.
SlotsSuffice == Cardinality(Open) <= Slots

\* A request with rows is in the cache, from when it was sent or later.
CacheHolds ==
    \A i \in DOMAIN sent :
       /\ sent[i].at <= now
       /\ sent[i].done => cached[sent[i].request] >= sent[i].at

\* What a call that is to send knew of its request was too old when it looked.
LookedInVain ==
    \A c \in Caller : calls[c].at \in {"qualifying", "waiting"} =>
       /\ calls[c].request \in Series /\ calls[c].known \subseteq DOMAIN sent
       /\ \A i \in calls[c].known :
            sent[i].request = calls[c].request => now - sent[i].at >= TTL

\* The request a call has open is the last it sent.
LastIsOpen ==
    \A c \in Caller : calls[c].at = "open" =>
       \E i \in DOMAIN sent :
          /\ sent[i].by = c /\ sent[i].request = calls[c].request
          /\ \A j \in DOMAIN sent : sent[j].by = c => j <= i

\* A request was sent after those that its call knew.
KnownWereSent == \A i \in DOMAIN sent : sent[i].known \subseteq DOMAIN sent

\* A call has no answer before its end.
Unanswered ==
    \A c \in Caller : calls[c].at \in {"qualifying", "waiting", "open"} => calls[c].answer = "none"

\* What is proved of any number of calls, and what the pacing rules add to it.
Spaced == /\ TypeOK /\ CacheHolds /\ LookedInVain /\ LastIsOpen /\ Unanswered
          /\ KnownWereSent /\ NotIdentical /\ TimedOutIsTrue /\ SlotsSuffice

\* The requests of a kind that were admitted in a time, and what they weigh: those that
\* were sent, and those of calls that wait for a slot.
Admitted(requests, times) ==
    Cardinality({i \in DOMAIN sent : sent[i].request \in requests /\ sent[i].admitted \in times})
    + Cardinality({c \in Caller : /\ calls[c].at = "waiting"
                                  /\ calls[c].request \in requests /\ calls[c].admitted \in times})

Load(requests, times) == Admitted(requests, times) + Admitted(requests \cap BidAsk, times)

\* Stamps of requests, in order, within the limit: since any time in the window no more was
\* admitted than there are stamps since then, and in no window more than the limit.
Counts(stamps, requests, length, max) ==
    /\ stamps \in Seq(Nat) /\ Len(stamps) <= max
    /\ \A j \in DOMAIN stamps : stamps[j] <= now /\ \A i \in 1..j : stamps[i] <= stamps[j]
    /\ \A from \in 0..MaxTime, j \in 0..Len(stamps) :
          now - from < length /\ (j > 0 => stamps[j] < from)
             => Load(requests, from..MaxTime) <= Len(stamps) - j
    /\ \A from \in 0..MaxTime : Load(requests, from..(from + length - 1)) <= max

WithinLimits ==
    /\ Counts(window, Series, PacingWindow, MaxPaced)
    /\ bursts = [k \in Keys |-> bursts[k]]
    /\ \A k \in Keys : Counts(bursts[k], {r \in Series : Key(r) = k}, Burst, MaxBurst)

\* At the time a refusal named, the stamps that left no room will have left the window.
LeavesInTime(stamps, weight, max, length, retry) ==
    \A j \in 1..Overflow(stamps, weight, max) : j \in DOMAIN stamps /\ stamps[j] + length <= retry

RefusalsAreBrief ==
    \A t \in told :
       /\ t.request \in Series /\ t.retry \in Int
       /\ IF t.long THEN LeavesInTime(window, Weight(t.request), MaxPaced, PacingWindow, t.retry)
          ELSE LeavesInTime(bursts[Key(t.request)], Weight(t.request), MaxBurst, Burst, t.retry)

IInv == Spaced /\ WithinLimits /\ RefusalsAreBrief /\ PacingKept /\ RetryIsLongEnough
=============================================================================
