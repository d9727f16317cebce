------------------------------- MODULE MCWallet --------------------------------
(* TLC instance of the wallet request: two preflights of one intent, two tabs, two slots. *)
EXTENDS WalletDispatch, TLC

CONSTANTS p1, p2, r1, r2, t1, t2, pa, pb, x, y, b1

\* Reconciliation reads nothing of the edge and the clients, who can no longer reach a row
\* with a submission: it is explored for the rows of the dispatcher, with everyone else at rest.
Quiet ==
  (\E p \in Preflights : rows[p] # None /\ rows[p].state \notin NoTransactionStates \union {"SUBMISSION_REPORTED"})
    => abuse.count = 0 /\ edge = "active" /\ \A r \in Slots : requests[r].phase = "idle"

\* A fourth request is explored where both preflights are prepared and nothing is reported.
Rivals == abuse.count > 3 =>
  (\A p \in Preflights : handles[p].state # "none") /\ \A r \in Slots : requests[r].kind # "outcome"

Symmetry == Permutations(Preflights) \union Permutations(Slots) \union Permutations(Tabs)
================================================================================
