---------------------------- MODULE RateLimiter ----------------------------
(***************************************************************************)
(* safety/ratelimit.py, RateLimiter: at most Limit orders in any rolling   *)
(* window, on a monotonic clock.  The deque of stamps is a sequence.       *)
(* acquire() reads the clock twice: check() reads it, and the slots are    *)
(* stamped with a later reading.  Limit = None (no limit) does nothing in  *)
(* the code and is left out.                                               *)
(***************************************************************************)
EXTENDS Integers, Sequences, FiniteSets

CONSTANTS Limit,      \* max_per_minute
          Window,     \* length of the window
          None,       \* no answer yet
          MaxStep,    \* bound: how far the clock moves at a time
          MaxNow,     \* bound: the last reading of the clock
          MaxCount    \* bound: the most slots one action asks for

ASSUME LimiterAssumption ==
    /\ Limit \in Nat \ {0} /\ Window \in Nat \ {0}
    /\ MaxStep \in Nat /\ MaxNow \in Nat /\ MaxCount \in Nat

VARIABLES now,      \* the monotonic clock
          stamps,   \* _stamps: when each slot still counted was taken
          taken,    \* when every slot was taken since the last reset, in order
          reply     \* the answer of the last call

vars == <<now, stamps, taken, reply>>

Counts == 1 .. MaxCount

TypeOK ==
    /\ now \in Nat
    /\ stamps \in Seq(Nat)
    /\ taken \in Seq(Nat)

-----------------------------------------------------------------------------
\* Slip: the comparison of _expire turned around.
StaleFlipped(q, t) == CHOOSE k \in 0 .. Len(q) :
    /\ \A i \in 1 .. k : q[i] > t - Window
    /\ k < Len(q) => q[k + 1] <= t - Window

\* How many stamps at the head of q are outside the window that ends at t.
Stale(q, t) == CHOOSE k \in 0 .. Len(q) :
    /\ \A i \in 1 .. k : q[i] <= t - Window
    /\ k < Len(q) => q[k + 1] > t - Window

\* _expire: pop the stamps that left the window, oldest first.
Expired(q, t) == SubSeq(q, Stale(q, t) + 1, Len(q))

Current == Expired(stamps, now)

\* Slip: the window has room for one order, whatever was asked for.
FitsOneAt(n, t) == n <= Limit /\ Len(Expired(stamps, t)) < Limit

FitsAt(n, t) == n <= Limit /\ Len(Expired(stamps, t)) + n <= Limit
Fits(n) == FitsAt(n, now)

\* Slip: waits for the oldest stamp, though n orders need more room.
WaitForOldest(n) == LET w == Current[1] + Window - now IN IF w > 0 THEN w ELSE 0

\* The seconds check() tells the caller to wait; "never" if n is over the limit.
Wait(n) == LET w == Current[Len(Current) + n - Limit] + Window - now
           IN  IF w > 0 THEN w ELSE 0

Refusal(n) == IF n > Limit THEN [answer |-> "never", count |-> n]
              ELSE [answer |-> "wait", count |-> n, seconds |-> Wait(n)]

-----------------------------------------------------------------------------
Init == now = 0 /\ stamps = <<>> /\ taken = <<>> /\ reply = None

\* check: whether n orders fit now.  Takes no slot.
Check(n) ==
    /\ stamps' = Current
    /\ reply' = IF Fits(n) THEN [answer |-> "fits", count |-> n] ELSE Refusal(n)
    /\ UNCHANGED <<now, taken>>

\* Slip: a bracket is stamped as one order.
AcquireOnce(n, d) ==
    /\ Fits(n)
    /\ now' = now + d
    /\ stamps' = Append(Current, now + d)
    /\ taken' = taken \o [i \in 1 .. n |-> now + d]
    /\ reply' = [answer |-> "taken", count |-> n]

\* acquire: check, then stamp n slots with the clock's next reading, now + d.
Acquire(n, d) ==
    \/ /\ Fits(n)
       /\ now' = now + d
       /\ stamps' = Current \o [i \in 1 .. n |-> now + d]
       /\ taken' = taken \o [i \in 1 .. n |-> now + d]
       /\ reply' = [answer |-> "taken", count |-> n]
    \/ /\ ~Fits(n) /\ d = 0
       /\ stamps' = Current
       /\ reply' = Refusal(n)
       /\ UNCHANGED <<now, taken>>

\* remaining and retry_after.
Query ==
    /\ stamps' = Current
    /\ reply' = [answer |-> "query", remaining |-> Limit - Len(Current),
                 seconds |-> IF Len(Current) < Limit THEN 0
                             ELSE IF Current[1] + Window > now
                                  THEN Current[1] + Window - now ELSE 0]
    /\ UNCHANGED <<now, taken>>

Reset ==
    /\ stamps' = <<>> /\ taken' = <<>>
    /\ reply' = None
    /\ UNCHANGED now

Tick(d) ==
    /\ d > 0
    /\ now' = now + d
    /\ reply' = None
    /\ UNCHANGED <<stamps, taken>>

Steps == {d \in 0 .. MaxStep : now + d <= MaxNow}

Next ==
    \/ \E n \in Counts : Check(n)
    \/ \E n \in Counts, d \in Steps : Acquire(n, d)
    \/ Query
    \/ Reset
    \/ \E d \in Steps : Tick(d)

Spec == Init /\ [][Next]_vars

-----------------------------------------------------------------------------
(* Properties *)

\* Any Limit + 1 slots taken in a row span a whole window: no window of the
\* code's half-open kind, wherever it starts, ever holds more than Limit orders.
NeverTooMany ==
    \A i \in 1 .. Len(taken) : i + Limit <= Len(taken) =>
        taken[i + Limit] >= taken[i] + Window

\* The stamps still kept are the most recent of the slots taken, in order, and
\* the others have left the window; so counting the stamps counts the window.
StampsAreTheRecent ==
    LET dropped == Len(taken) - Len(stamps)
    IN  /\ \A i, j \in 1 .. Len(taken) : i <= j => taken[i] <= taken[j]
        /\ \A i \in 1 .. Len(taken) : taken[i] <= now
        /\ dropped >= 0
        /\ \A j \in 1 .. Len(stamps) : stamps[j] = taken[dropped + j]
        /\ dropped > 0 => taken[dropped] <= now - Window
        /\ Len(stamps) <= Limit

\* The inductive invariant of RateLimiterProofs.
IInv == TypeOK /\ StampsAreTheRecent /\ NeverTooMany

\* The reference: the slots that count at time t, out of all that were taken.
TakenAt(t) == {i \in 1 .. Len(taken) : taken[i] > t - Window /\ taken[i] <= t}

\* The wait a refusal or retry_after announces is exact: with nothing taken in
\* between there is room after that many seconds, and not a second earlier.
Opens(n, w) ==
    /\ Cardinality(TakenAt(now + w)) + n <= Limit
    /\ \A d \in 0 .. w - 1 : Cardinality(TakenAt(now + d)) + n > Limit

WaitIsExact ==
    reply # None =>
        /\ reply.answer = "wait" => Opens(reply.count, reply.seconds)
        /\ reply.answer = "query" => Opens(1, reply.seconds)

\* Slots that a check found free are free at every later reading of the clock
\* until somebody takes some.  submit consumes the token between its check and
\* its acquire, so an acquire that refused would burn the token for nothing.
CheckedSlotsStayFree ==
    \A n \in Counts, d \in 0 .. Window : Fits(n) => FitsAt(n, now + d)
=============================================================================
