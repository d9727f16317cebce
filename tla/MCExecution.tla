------------------------------ MODULE MCExecution ------------------------------
(***************************************************************************)
(* TLC instance of the two guards in front of an effect of the coordinator *)
(* service: the lease between processes, and the fence inside one.  A      *)
(* behaviour is about one of them; the other keeps its initial state.      *)
(***************************************************************************)
EXTENDS ExecutionCycle, ServiceLease

VARIABLE focus
executionVars == <<cycleVars, leaseVars, focus>>

Init == CycleInit /\ LeaseInit /\ focus \in {"fence", "lease"}
                  /\ (focus = "lease" => ledger = [s \in Settlements |-> "none"])
Fenced(A) == focus = "fence" /\ A /\ UNCHANGED <<leaseVars, focus>>
Leased(A) == focus = "lease" /\ A /\ UNCHANGED <<cycleVars, focus>>
Next == Fenced(CycleNext) \/ Leased(LeaseNext)

\* The fairness of FairCycleSpec; a process that shares the lease promises nothing.
Spec == /\ Init /\ [][Next]_executionVars
        /\ WF_executionVars(Fenced(CycleStep)) /\ SF_executionVars(Fenced(StepReturns \/ StepFails))
        /\ WF_executionVars(Fenced(StartCycle)) /\ WF_executionVars(Fenced(Drained))
================================================================================
