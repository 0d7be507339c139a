--------------------------- MODULE BreakerRules ---------------------------
(***************************************************************************)
(* safety/ratelimit.py, CircuitBreaker: what an accepted and a rejected    *)
(* order do to the breaker in memory, a record of the rejection count and  *)
(* whether it is open.  Shared by CircuitBreaker and SubmitFlow.           *)
(***************************************************************************)
EXTENDS Naturals

CONSTANT Threshold      \* consecutive rejections that open the breaker

ASSUME ThresholdAssumption == Threshold \in Nat \ {0}

Breaker == [rejections : Nat, open : BOOLEAN]

Armed == [rejections |-> 0, open |-> FALSE]

\* Slip: an accepted order does not clear the count.
SucceededKeepsCount(b) == b

\* record_success clears the count, but never an open breaker.
Succeeded(b) == IF b.open THEN b ELSE Armed

\* record_rejection counts, and opens the breaker at the threshold.
Rejected(b) == [rejections |-> b.rejections + 1,
                open       |-> b.open \/ b.rejections + 1 >= Threshold]

\* This rejection is the one that opens it.
Trips(b) == ~b.open /\ Rejected(b).open

\* CircuitBreakerStatus.needs_reset.
NeedsReset(b) == b.open \/ b.rejections > 0
=============================================================================
