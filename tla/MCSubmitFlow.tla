---------------------------- MODULE MCSubmitFlow ----------------------------
(* SubmitFlow on small instances. *)
EXTENDS SubmitFlow, TLC

Job2(kinds, accounts) == [kind : kinds, account : accounts]

\* Logins change between paper and live.
SwapJobs == Job2({"order", "cancel_mine", "cancel_global"}, Account)

\* One live login, every kind of job.
LiveJobs == Job2(Kind, {"live"})

\* Orders and modifications, on paper.
PaperJobs == Job2({"order", "modify"}, {"paper"})
PaperOrders == Job2({"order"}, {"paper"})

Symmetry == Permutations(Call) \cup Permutations(Token)
=============================================================================
