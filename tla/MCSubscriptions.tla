--------------------------- MODULE MCSubscriptions ---------------------------
(***************************************************************************)
(* Subscriptions with three calls and one or two keys of each kind that    *)
(* behaves differently.                                                    *)
(***************************************************************************)
EXTENDS Subscriptions, TLC

CONSTANTS quote, bars1, bars2, scan, live

MCKey == {quote, bars1, bars2, scan, live}
MCBars == {bars1, bars2}

Symmetry == Permutations(Caller) \cup Permutations(MCBars)
=============================================================================
