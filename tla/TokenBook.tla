----------------------------- MODULE TokenBook -----------------------------
(***************************************************************************)
(* What a preview token promises, without saying how the store keeps it:   *)
(* a token is issued for one preview, may lapse at any time while it is    *)
(* pending, and is redeemed at most once, for exactly the preview it was   *)
(* issued for.  PreviewStore implements this specification.                *)
(***************************************************************************)

CONSTANTS Token, Preview, None

VARIABLES status,     \* [Token -> {"fresh", "pending", "redeemed", "lapsed"}]
          bound,      \* the preview each token was issued for
          granted     \* the preview each redeemed token handed out

bookVars == <<status, bound, granted>>

Pending == {t \in Token : status[t] = "pending"}

BookInit == /\ status = [t \in Token |-> "fresh"]
            /\ bound = [t \in Token |-> None]
            /\ granted = [t \in Token |-> None]

\* The tokens of lost lapse, and t (if it is not one of them) moves to state.
Move(lost, t, state) ==
    status' = [u \in Token |-> IF u = t THEN state
                               ELSE IF u \in lost THEN "lapsed" ELSE status[u]]

Lapse(lost) ==
    /\ status' = [u \in Token |-> IF u \in lost THEN "lapsed" ELSE status[u]]
    /\ UNCHANGED <<bound, granted>>

\* Old tokens may lapse in the same step, e.g. to make room.
Issue(lost, t, p) ==
    /\ status[t] = "fresh"
    /\ Move(lost, t, "pending")
    /\ bound' = [bound EXCEPT ![t] = p]
    /\ UNCHANGED granted

Redeem(lost, t) ==
    /\ t \in Pending \ lost
    /\ Move(lost, t, "redeemed")
    /\ granted' = [granted EXCEPT ![t] = bound[t]]
    /\ UNCHANGED bound

BookNext ==
    \E lost \in SUBSET Pending :
        \/ Lapse(lost)
        \/ \E t \in Token, p \in Preview : Issue(lost, t, p)
        \/ \E t \in Token : Redeem(lost, t)

BookSpec == BookInit /\ [][BookNext]_bookVars
=============================================================================
