------------------------------- MODULE OpenGate -------------------------------
(***************************************************************************)
(* contracts/src/TreeSwapOpenGate.sol: the fail-closed gate that new swaps *)
(* must pass.  The controller stages an attestation, anyone executes it    *)
(* after the delay, controller or guardian halt at once.  A call that      *)
(* reverts is no step; callers without the role always revert and are      *)
(* left out.  Blocks carry timestamps: now is the timestamp of the current *)
(* block and several calls may share it.                                   *)
(***************************************************************************)
EXTENDS Integers

CONSTANTS RiskDigests,       \* digests of reviewed risk snapshots
          ResumeDelay,       \* resumeDelay, at least one day in the code
          MaxOpenDuration,   \* maxOpenDuration, at most seven days in the code
          MaxTime            \* bound on timestamps

NoDigest == "none"
NoPending == [riskDigest |-> NoDigest, executeAfter |-> 0, validUntil |-> 0]

ASSUME GateAssumption ==
  /\ ResumeDelay \in Nat \ {0} /\ MaxOpenDuration \in Nat \ {0} /\ MaxTime \in Nat
  /\ NoDigest \notin RiskDigests

VARIABLES now, emergencyHalted, openUntil, activeRiskDigest, pendingOpen,
          lastHalt,   \* history: when the gate was last halted (deployment counts)
          stagedFor   \* history: executeAfter of the attestation that is in force

gateVars == <<emergencyHalted, openUntil, activeRiskDigest, pendingOpen, lastHalt, stagedFor>>

\* The gate is deployed halted.
GateInit ==
  /\ now = 0
  /\ emergencyHalted = TRUE
  /\ openUntil = 0
  /\ activeRiskDigest = NoDigest
  /\ pendingOpen = NoPending
  /\ lastHalt = 0
  /\ stagedFor = 0

IsOpen == ~emergencyHalted /\ now < openUntil

\* scheduleOpen: replaces whatever was staged; never opens by itself.
ScheduleOpen(digest, validUntil) ==
  /\ validUntil > now + ResumeDelay
  /\ validUntil <= now + ResumeDelay + MaxOpenDuration
  /\ pendingOpen' = [riskDigest |-> digest, executeAfter |-> now + ResumeDelay,
                     validUntil |-> validUntil]
  /\ UNCHANGED <<now, emergencyHalted, openUntil, activeRiskDigest, lastHalt, stagedFor>>

\* executeOpen: the exact staged attestation, between its delay and its end.
ExecuteOpen(digest) ==
  /\ pendingOpen.riskDigest # NoDigest /\ pendingOpen.riskDigest = digest
  /\ now >= pendingOpen.executeAfter
  /\ now < pendingOpen.validUntil
  /\ pendingOpen' = NoPending
  /\ activeRiskDigest' = digest
  /\ openUntil' = pendingOpen.validUntil
  /\ emergencyHalted' = FALSE
  /\ stagedFor' = pendingOpen.executeAfter
  /\ UNCHANGED <<now, lastHalt>>

\* halt: closes the gate and discards a staged reopening.
Halt ==
  /\ emergencyHalted' = TRUE
  /\ openUntil' = 0
  /\ activeRiskDigest' = NoDigest
  /\ pendingOpen' = NoPending
  /\ lastHalt' = now
  /\ UNCHANGED <<now, stagedFor>>

\* The next block has a later timestamp.
NextBlock ==
  /\ now < MaxTime
  /\ now' \in now + 1 .. MaxTime
  /\ UNCHANGED gateVars

GateCall ==
  \/ \E digest \in RiskDigests, validUntil \in 0 .. MaxTime : ScheduleOpen(digest, validUntil)
  \/ \E digest \in RiskDigests : ExecuteOpen(digest)
  \/ Halt

GateNext == GateCall \/ NextBlock

GateSpec == GateInit /\ [][GateNext]_<<now, gateVars>>

-------------------------------------------------------------------------------
PendingOpens == [riskDigest : RiskDigests \cup {NoDigest}, executeAfter : Nat, validUntil : Nat]

\* The storage of the gate has its types.
GateTypeOK ==
  /\ now \in Nat /\ openUntil \in Nat /\ lastHalt \in Nat /\ stagedFor \in Nat
  /\ emergencyHalted \in BOOLEAN
  /\ activeRiskDigest \in RiskDigests \cup {NoDigest}
  /\ pendingOpen \in PendingOpens

\* A halt closes the gate for at least the resume delay, whatever had been staged
\* before it: an attestation in force was staged after the last halt.
HaltHolds == IsOpen => now >= lastHalt + ResumeDelay

\* No call, and no sequence of stagings and executions, keeps the gate open for longer
\* than the maximal duration from the current block without a new staging.
OpeningBounded == IsOpen => openUntil <= now + MaxOpenDuration

\* What makes them inductive: every staged or executed attestation is younger than the
\* last halt by the delay, and its window is bounded.
GateInv ==
  /\ GateTypeOK
  /\ lastHalt <= now
  /\ pendingOpen.riskDigest # NoDigest =>
       /\ pendingOpen.executeAfter >= lastHalt + ResumeDelay
       /\ pendingOpen.validUntil <= pendingOpen.executeAfter + MaxOpenDuration
  /\ ~emergencyHalted =>
       /\ stagedFor >= lastHalt + ResumeDelay
       /\ stagedFor <= now
       /\ openUntil <= stagedFor + MaxOpenDuration
===============================================================================
