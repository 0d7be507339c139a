---------------------------- MODULE MCConnection ----------------------------
(***************************************************************************)
(* Connection with a paper and a live account.  The configurations are the *)
(* read-only server, the paper trader with and without an account of its   *)
(* own, and the live trader.                                               *)
(***************************************************************************)
EXTENDS Connection

CONSTANTS p, l

MCAccount == {p, l}
MCLive == {l}

Setting(default, allowlist, write, live) ==
    [default |-> default, allowlist |-> allowlist, needsWrite |-> write, allowLive |-> live]

MCConfigs == {Setting(NoAccount, {}, FALSE, FALSE), Setting(NoAccount, {}, TRUE, FALSE),
              Setting(p, {l}, TRUE, FALSE), Setting(p, {}, TRUE, TRUE)}
=============================================================================
