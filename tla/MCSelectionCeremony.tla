-------------------------- MODULE MCSelectionCeremony --------------------------
(* TLC instance of SelectionCeremony: two requests of one wallet; three delivery paths     *)
(* whose offers have a duplicate, dearer second offers of one solver, one that is forged   *)
(* and one that is not covered, and end before the pricing: sessions of the two solvers    *)
(* end at 2 or 3, so that a request can claim again while its authorization lives.                   *)
EXTENDS SelectionCeremony

MCIdentity == [q \in Requests |-> "wallet"]
MCPricingExpiry == [q \in Requests |-> IF q = "q1" THEN 4 ELSE 5]
MCAuthorizationExpiry == [q \in Requests |-> IF q = "q1" THEN 4 ELSE 2]
Offer(id, solver, price, expiresAt, genuine, covered) ==
  [id |-> id, solver |-> solver, price |-> price, expiresAt |-> expiresAt, genuine |-> genuine,
   covered |-> covered]
Dear == Offer(1, "s1", 3, 4, TRUE, TRUE)
Cheap == Offer(2, "s1", 1, 4, TRUE, TRUE)
Short == Offer(3, "s2", 2, 3, TRUE, TRUE)
Forged == Offer(4, "s2", 0, 3, FALSE, TRUE)
Brief == Offer(6, "s1", 2, 2, TRUE, TRUE)
Uncovered == Offer(5, "s3", 0, 3, TRUE, FALSE)
MCPlan == <<"relay1", "relay2", "direct">>
MCPathKind == [p \in ToSet(MCPlan) |-> IF p = "direct" THEN "direct-solver" ELSE "relay"]
MCEnvelopes == [p \in ToSet(MCPlan) |->
  CASE p = "relay1" -> <<Dear, Cheap, Forged>> [] p = "relay2" -> <<Short, Uncovered>>
    [] p = "direct" -> <<Short, Brief>>]

\* The second request and the sessions that end at 2 are there for the quotas, the replay and
\* the limit of pending selections: they are not followed once the first is reserved.  A swap
\* reserved at once lives until 2, and is not followed past that.
Focus == /\ firm["q2"] = NoFirm
         /\ firm["q1"].state # "NONE" =>
              rows["q2"] = NoRow /\ rows["q1"].expiresAt > 2 /\ now <= 2
\* One fault: a restart of the coordinator, or a crash of a solver process.
OneFault == restarts + crashes <= 1
Interchangeable == Permutations(Calls)
================================================================================
