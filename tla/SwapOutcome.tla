----------------------------- MODULE SwapOutcome -----------------------------
(***************************************************************************)
(* What a swap promises, without coordinator, daemon or chains.  The       *)
(* decisive Lightning leg of every swap is decided at most once, and the   *)
(* outcome the coordinator records follows that decision: completed only   *)
(* for a leg that was paid, refunded only for one that can never be paid.  *)
(* A halted swap records no outcome.  SolverDaemon is shown to implement   *)
(* this specification.                                                     *)
(***************************************************************************)
CONSTANT Swaps

VARIABLES leg,      \* what Lightning did: "undecided", "paid", "unpaid"
          outcome   \* what the coordinator recorded

swapVars == <<leg, outcome>>

SwapInit ==
  /\ leg = [s \in Swaps |-> "undecided"]
  /\ outcome = [s \in Swaps |-> "open"]

Decide(s, verdict) ==
  /\ leg[s] = "undecided" /\ outcome[s] \in {"open", "halted"}
  /\ leg' = [leg EXCEPT ![s] = verdict]
  /\ UNCHANGED outcome

Complete(s) ==
  /\ outcome[s] = "open" /\ leg[s] = "paid"
  /\ outcome' = [outcome EXCEPT ![s] = "completed"]
  /\ UNCHANGED leg

Refund(s) ==
  /\ outcome[s] = "open" /\ leg[s] = "unpaid"
  /\ outcome' = [outcome EXCEPT ![s] = "refunded"]
  /\ UNCHANGED leg

Halt(s) ==
  /\ outcome[s] = "open"
  /\ outcome' = [outcome EXCEPT ![s] = "halted"]
  /\ UNCHANGED leg

SwapNext ==
  \E s \in Swaps :
    \/ Decide(s, "paid")
    \/ Decide(s, "unpaid")
    \/ Complete(s)
    \/ Refund(s)
    \/ Halt(s)

SwapSpec == SwapInit /\ [][SwapNext]_swapVars
===============================================================================
