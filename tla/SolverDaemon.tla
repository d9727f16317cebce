----------------------------- MODULE SolverDaemon -----------------------------
(***************************************************************************)
(* The unattended solver daemon over the settlement ledger:                *)
(* lib/solver-daemon-planner.mjs chooses the next step of a settlement     *)
(* from the ledger alone, lib/solver-daemon-runtime.mjs performs it, the   *)
(* two runners lib/coordinator-action-runner.mjs (Lightning) and           *)
(* lib/evm-action-runner.mjs (EVM claim) talk to the outside world, and    *)
(* lib/active-solver-daemon-runtime.mjs decides which steps an active and  *)
(* a recovery process may take.                                            *)
(*                                                                         *)
(* A worker is one coordinator process.  Its step is split at every await: *)
(* what it read before the await may be stale when it is used, another     *)
(* worker may have moved the ledger, and the process may die (Abort, then  *)
(* Restart).  The service lease that keeps two processes apart is left     *)
(* out: what holds here holds even for a process that lost the lease       *)
(* between its ownership check and the write behind it.                    *)
(*                                                                         *)
(* The Lightning node with its adapter, the escrow contract, the claim     *)
(* transaction's life on chain and time are external: they are modelled    *)
(* by what the code above can observe of them.  Evidence operators are     *)
(* honest: a verified record was true when it was observed.                *)
(***************************************************************************)
EXTENDS SettlementLedger, Sequences

CONSTANTS Workers,         \* coordinator processes
          ActiveWorkers,   \* those under an active release; the others recover only
          LightningActionDeadline,   \* a settlement's two deadlines, in seconds of its clock
          EvmRefundAt,
          MinimumEvmSafety,          \* policy: the least time between the two
          AuthorizationLifetime,     \* policy: how long a signed envelope is good
          MaxClock                   \* bound of the model: time is followed up to here

ASSUME WorkersAssumption == ActiveWorkers \subseteq Workers

\* normalizePacket: no packet is used whose deadlines are closer than the policy asks.
\* Nothing relates the policy to the lifetime of an envelope.
ASSUME DeadlineAssumption ==
  /\ {LightningActionDeadline, EvmRefundAt, MaxClock} \subseteq Nat
  /\ {MinimumEvmSafety, AuthorizationLifetime} \subseteq Nat \ {0}
  /\ EvmRefundAt - LightningActionDeadline >= MinimumEvmSafety

\* The daemon plans the two Lightning legs and the claim, and halts with its own codes.
ASSUME DaemonAssumption ==
  /\ {SettleInvoice, SendPaymentV2, EvmClaim} \subseteq PlannedMethods
  /\ {"DAEMON_ORDERING", "DAEMON_RESERVATION_EVIDENCE", "DAEMON_AUTH_MISMATCH",
      "DAEMON_ASSET_MISMATCH"} \subseteq HaltCodes

VARIABLES
  job,          \* the step each worker is performing
  transit,      \* signed requests on their way to the adapter, as their expiry
  executed,     \* how often the node performed the leg's side effect
  payment,      \* the node's record of the settlement's payment or hold invoice
  escrow,       \* the on-chain reservation of the settlement
  claimTx,      \* the solver's claim transaction on chain
  claimBlock,   \* the block that includes it
  clock         \* the time of the settlement, in seconds

lightning  == <<transit, executed, payment>>
chain      == <<escrow, claimTx, claimBlock>>
world      == <<lightning, chain, clock>>
daemonVars == <<ledgerVars, job, world>>

Idle == [for |-> None, kind |-> "IDLE", method |-> None, phase |-> "idle", seen |-> <<None, None>>]

DaemonInit ==
  /\ LedgerInit
  /\ job = [w \in Workers |-> Idle]
  /\ transit = [s \in Settlements |-> <<>>]
  /\ executed = [s \in Settlements |-> 0]
  /\ payment = [s \in Settlements |-> "NOT_FOUND"]
  /\ escrow = [s \in Settlements |-> "NONE"]
  /\ claimTx = [s \in Settlements |-> "NONE"]
  /\ claimBlock = [s \in Settlements |-> None]
  /\ clock = [s \in Settlements |-> 0]

-------------------------------------------------------------------------------
\* The planner: the next step of a settlement, from durable state alone.

\* unresolvedStep and the checks of classifySolverDaemonStep before a direction's own.
DirectionMethods(s) ==
  IF direction[s] = "bit-to-lightning" THEN {SendPaymentV2, EvmClaim} ELSE {SettleInvoice}

\* paymentDirectionStep: pay over Lightning first, then claim the user's BIT.
PaymentDirectionStep(s) ==
  LET pay   == actionState[s][SendPaymentV2]
      claim == actionState[s][EvmClaim]
  IN CASE claim # "ABSENT" /\ pay # "CONFIRMED" -> "HALT_REQUIRED"
       [] claim = "ABSENT" /\ pay = "ABSENT"    -> "PLAN_LIGHTNING_ACTION"
       [] claim = "ABSENT" /\ pay = "PENDING"   -> "AUTHORIZE_AND_DISPATCH_LIGHTNING"
       [] claim = "ABSENT" /\ pay = "FAILED"    -> "VERIFY_REFUND_AND_RECONCILE"
       [] claim = "ABSENT" /\ pay = "CONFIRMED" -> "RECOVER_PAYMENT_PROOF_AND_PREPARE_EVM_CLAIM"
       [] claim = "PENDING" /\ pay = "CONFIRMED" /\ txState[s] = "ABSENT"
                                                -> "PREPARE_EVM_CLAIM_TRANSACTION"
       [] claim = "PENDING" /\ pay = "CONFIRMED" /\ txState[s] # "ABSENT"
                                                -> "DISPATCH_EVM_CLAIM"
       [] claim = "CONFIRMED" /\ pay = "CONFIRMED" -> "VERIFY_BOTH_ASSETS_AND_COMPLETE"
       [] OTHER                                 -> "HALT_REQUIRED"

\* invoiceDirectionStep: settle the hold invoice, then wait for the user's claim.
InvoiceDirectionStep(s) ==
  LET settle == actionState[s][SettleInvoice]
  IN CASE settle = "ABSENT"    -> "PLAN_LIGHTNING_ACTION"
       [] settle = "PENDING"   -> "AUTHORIZE_AND_DISPATCH_LIGHTNING"
       [] settle = "CONFIRMED" -> "WAIT_FOR_BIT_CLAIM_AND_RECONCILE"
       [] settle = "FAILED"    -> "VERIFY_REFUND_AND_RECONCILE"
       [] OTHER                -> "HALT_REQUIRED"

\* Mutant of ClassifySolverDaemonStep: a halt is honoured before anything unresolved.
ClassifySolverDaemonStep_HaltFirst(s) ==
  IF terminalState[s] # None THEN "DONE"
  ELSE IF haltCode[s] # None THEN "HALTED"
  ELSE IF Interrupted(s) # {} THEN "RECOVER_INTERRUPTED_ACTION"
  ELSE IF Unknown(s) # {} THEN "RECONCILE_ACTION"
  ELSE IF reconciliationRequired[s] THEN "HALT_REQUIRED"
  ELSE IF ~(Planned(s) \subseteq DirectionMethods(s)) THEN "HALT_REQUIRED"
  ELSE IF ~reservation[s] THEN "WAIT_FOR_RESERVATION"
  ELSE IF direction[s] = "bit-to-lightning" THEN PaymentDirectionStep(s)
  ELSE InvoiceDirectionStep(s)

\* classifySolverDaemonStep: the checks are ordered; the first that applies decides.
ClassifySolverDaemonStep(s) ==
  IF terminalState[s] # None THEN "DONE"
  ELSE IF Interrupted(s) # {} THEN "RECOVER_INTERRUPTED_ACTION"
  ELSE IF Unknown(s) # {} THEN "RECONCILE_ACTION"
  ELSE IF reconciliationRequired[s] /\ haltCode[s] = None THEN "HALT_REQUIRED"
  ELSE IF haltCode[s] # None THEN "HALTED"
  ELSE IF ~(Planned(s) \subseteq DirectionMethods(s)) THEN "HALT_REQUIRED"
  ELSE IF ~reservation[s] THEN "WAIT_FOR_RESERVATION"
  ELSE IF direction[s] = "bit-to-lightning" THEN PaymentDirectionStep(s)
  ELSE InvoiceDirectionStep(s)

\* The action a step is about: its actionId is fixed when the step is planned.
StepMethod(s, kind) ==
  CASE kind = "RECOVER_INTERRUPTED_ACTION" -> CHOOSE m \in Methods : m \in Interrupted(s)
    [] kind = "RECONCILE_ACTION"           -> CHOOSE m \in Methods : m \in Unknown(s)
    [] kind \in {"PLAN_LIGHTNING_ACTION", "AUTHORIZE_AND_DISPATCH_LIGHTNING"} -> LightningLeg(s)
    [] OTHER                               -> EvmClaim

RECOVERY_FORBIDDEN_STEPS == {"PLAN_LIGHTNING_ACTION", "AUTHORIZE_AND_DISPATCH_LIGHTNING"}

\* The active lifecycle attempts nothing while any open settlement is halted.
Degraded == \E s \in Settlements : terminalState[s] = None /\ haltCode[s] # None

\* A recovery process may not plan or dispatch on Lightning.
Allowed(w, kind) ==
  IF w \in ActiveWorkers THEN ~Degraded ELSE kind \notin RECOVERY_FORBIDDEN_STEPS

-------------------------------------------------------------------------------
\* A worker's step, one action per stretch of code between two awaits.

At(w, s, kind, phase) == job[w].for = s /\ job[w].kind = kind /\ job[w].phase = phase

Advance(w, phase, seen) ==
  job' = [job EXCEPT ![w] = [for |-> job[w].for, kind |-> job[w].kind, method |-> job[w].method,
                             phase |-> phase, seen |-> seen]]

Return(w) == job' = [job EXCEPT ![w] = Idle]

\* executeActiveSolverDaemonStep / executeRecoverySolverDaemonStep up to the first await.
StartStep(w, s) ==
  LET kind == ClassifySolverDaemonStep(s)
  IN /\ job[w] = Idle
     /\ Exists(s) /\ executionPolicy[s]
     /\ kind \notin {"DONE", "HALTED"}
     /\ Allowed(w, kind)
     /\ job' = [job EXCEPT ![w] = [for |-> s, kind |-> kind, method |-> StepMethod(s, kind),
                                   phase |-> "begun", seen |-> <<None, None>>]]
     /\ UNCHANGED <<ledgerVars, world>>

\* A step that throws, waits, finds its gate closed, or dies with its process.
Abort(w) ==
  /\ job[w] # Idle
  /\ Return(w)
  /\ UNCHANGED <<ledgerVars, world>>

\* Service start: recoverInterruptedActions runs before the first cycle.
Restart(w) ==
  /\ RecoverInterruptedActions
  /\ Return(w)
  /\ UNCHANGED world

\* controls.observeReservation: the operators saw the finalized reservation.
ObserveReservation(w, s) ==
  /\ At(w, s, "WAIT_FOR_RESERVATION", "begun")
  /\ escrow[s] = "RESERVED"
  /\ Advance(w, "evidence", <<"RESERVED", None>>)
  /\ UNCHANGED <<ledgerVars, world>>

RecordObservedReservation(w, s) ==
  /\ At(w, s, "WAIT_FOR_RESERVATION", "evidence")
  /\ RecordReservation(s)
  /\ Return(w)
  /\ UNCHANGED world

\* Evidence that fails its checks halts the settlement; the code of each control.
EvidenceHalt ==
  [kind \in {"WAIT_FOR_RESERVATION", "AUTHORIZE_AND_DISPATCH_LIGHTNING", "DISPATCH_EVM_CLAIM",
             "VERIFY_BOTH_ASSETS_AND_COMPLETE", "WAIT_FOR_BIT_CLAIM_AND_RECONCILE",
             "VERIFY_REFUND_AND_RECONCILE"} |->
    CASE kind = "WAIT_FOR_RESERVATION" -> "DAEMON_RESERVATION_EVIDENCE"
      [] kind \in {"AUTHORIZE_AND_DISPATCH_LIGHTNING", "DISPATCH_EVM_CLAIM"} -> "DAEMON_AUTH_MISMATCH"
      [] OTHER -> "DAEMON_ASSET_MISMATCH"]

HaltOnEvidence(w, s) ==
  /\ job[w].for = s /\ job[w].kind \in DOMAIN EvidenceHalt
  /\ job[w].phase = IF job[w].kind = "DISPATCH_EVM_CLAIM" THEN "proof" ELSE "begun"
  /\ HaltSettlement(s, EvidenceHalt[job[w].kind])
  /\ Return(w)
  /\ UNCHANGED world

HaltRequired(w, s) ==
  /\ At(w, s, "HALT_REQUIRED", "begun")
  /\ HaltSettlement(s, "DAEMON_ORDERING")
  /\ Return(w)
  /\ UNCHANGED world

PlanLightningAction(w, s) ==
  /\ At(w, s, "PLAN_LIGHTNING_ACTION", "begun")
  /\ PlanAction(s, LightningLeg(s))
  /\ Return(w)
  /\ UNCHANGED world

\* Mutant of AuthorizationLive: the dispatch is held to the refund deadline only.
AuthorizationLive_RefundDeadline(s) == clock[s] < EvmRefundAt

\* beforeAuthorizedDispatch: an authorization ends with lightningActionDeadline.
AuthorizationLive(s) == clock[s] < LightningActionDeadline

\* An envelope is good for its lifetime from its signature on, whatever the deadlines.
EnvelopeExpiry(s) == clock[s] + AuthorizationLifetime
Expired(s, expiry) == clock[s] >= expiry

\* controls.authorizeLightning: BIT is locked and the Lightning deadline is ahead.
AuthorizeLightning(w, s) ==
  /\ At(w, s, "AUTHORIZE_AND_DISPATCH_LIGHTNING", "begun")
  /\ escrow[s] = "RESERVED" /\ clock[s] < LightningActionDeadline
  /\ direction[s] = "lightning-to-bit" => payment[s] = "ACCEPTED"
  /\ Advance(w, "authorized", <<"RESERVED", None>>)
  /\ UNCHANGED <<ledgerVars, world>>

\* dispatchLightningAction up to claimAction, with the envelope signed.
ClaimLightning(w, s) ==
  /\ At(w, s, "AUTHORIZE_AND_DISPATCH_LIGHTNING", "authorized")
  /\ AuthorizationLive(s)
  /\ ClaimAction(s, LightningLeg(s))
  /\ Advance(w, "claimed", <<"RESERVED", EnvelopeExpiry(s)>>)
  /\ UNCHANGED world

\* dispatchLightningAction, the send: the deadline and the envelope are checked again.
SendLightning(w, s) ==
  /\ At(w, s, "AUTHORIZE_AND_DISPATCH_LIGHTNING", "claimed")
  /\ AuthorizationLive(s) /\ ~Expired(s, job[w].seen[2])
  /\ transit' = [transit EXCEPT ![s] = Append(@, job[w].seen[2])]
  /\ Advance(w, "sent", job[w].seen)
  /\ UNCHANGED <<ledgerVars, executed, payment, chain, clock>>

\* An authenticated success proof bound to this request came back.
ConfirmLightning(w, s) ==
  /\ At(w, s, "AUTHORIZE_AND_DISPATCH_LIGHTNING", "sent")
  /\ payment[s] \in {"SUCCEEDED", "SETTLED"}
  /\ RecordConfirmed(s, LightningLeg(s))
  /\ Return(w)
  /\ UNCHANGED world

\* Timeout, transport error, rejection or an invalid proof: nothing is known.
LightningAmbiguous(w, s) ==
  /\ At(w, s, "AUTHORIZE_AND_DISPATCH_LIGHTNING", "sent")
  /\ RecordAmbiguous(s, LightningLeg(s))
  /\ Return(w)
  /\ UNCHANGED world

RecoverInterrupted(w, s) ==
  /\ At(w, s, "RECOVER_INTERRUPTED_ACTION", "begun")
  /\ RecoverInterruptedAction(s, job[w].method)
  /\ Return(w)
  /\ UNCHANGED world

\* reconcileAction with whatever was observed.
ReconcileAction(s, m, observed) ==
  \/ ReconcileUnresolved(s, m, observed)
  \/ ReconcileMismatch(s, m, observed)
  \/ ReconcileResolved(s, m, observed)

\* reconcileLightningAction: an authenticated read of the node's record.
ObserveLightning(w, s) ==
  /\ At(w, s, "RECONCILE_ACTION", "begun")
  /\ job[w].method # EvmClaim /\ actionState[s][job[w].method] = "UNKNOWN"
  /\ Advance(w, "observed", <<payment[s], None>>)
  /\ UNCHANGED <<ledgerVars, world>>

\* observeEvmClaimAction: what both providers agree on about the bound transaction,
\* and the canonical block that includes it.
ClaimObservation(s) ==
  CASE claimTx[s] \in {"NONE", "MEMPOOL"} /\ inclusion[s] # None -> <<"REORGED", None>>
    [] claimTx[s] = "NONE" /\ inclusion[s] = None                -> <<"NOT_FOUND", None>>
    [] claimTx[s] = "MEMPOOL" /\ inclusion[s] = None             -> <<"LOCKED", None>>
    [] claimTx[s] \notin {"NONE", "MEMPOOL"} /\ inclusion[s] \notin {None, claimBlock[s]}
                                                                 -> <<"REORGED", None>>
    [] claimTx[s] \in {"CLAIMING", "REVERTING"} /\ inclusion[s] \in {None, claimBlock[s]}
                                                                 -> <<"INCLUDED", claimBlock[s]>>
    [] claimTx[s] = "CLAIMED" /\ inclusion[s] \in {None, claimBlock[s]}
                                                                 -> <<"CLAIMED", claimBlock[s]>>
    [] claimTx[s] = "REVERTED" /\ inclusion[s] \in {None, claimBlock[s]}
                                                                 -> <<"REVERTED", claimBlock[s]>>

ObserveClaim(w, s) ==
  /\ At(w, s, "RECONCILE_ACTION", "begun")
  /\ job[w].method = EvmClaim /\ actionState[s][EvmClaim] = "UNKNOWN"
  /\ Advance(w, "observed", ClaimObservation(s))
  /\ UNCHANGED <<ledgerVars, world>>

\* applyEvmClaimObservation, first transaction: a canonical inclusion is recorded.
RecordObservedInclusion(w, s) ==
  /\ At(w, s, "RECONCILE_ACTION", "observed")
  /\ job[w].seen[2] # None
  /\ RecordEvmInclusion(s, job[w].seen[2])
  /\ Advance(w, "included", job[w].seen)
  /\ UNCHANGED world

\* The reconciliation itself, the last transaction of either runner.
ReconcileObserved(w, s) ==
  /\ \/ At(w, s, "RECONCILE_ACTION", "observed") /\ job[w].seen[2] = None
     \/ At(w, s, "RECONCILE_ACTION", "included")
  /\ ReconcileAction(s, job[w].method, job[w].seen[1])
  /\ Return(w)
  /\ UNCHANGED world

\* prepareClaim: the payment's preimage is read back from the node, never stored.
ReadPaymentProof(w, s) ==
  /\ \/ At(w, s, "RECOVER_PAYMENT_PROOF_AND_PREPARE_EVM_CLAIM", "begun")
     \/ At(w, s, "PREPARE_EVM_CLAIM_TRANSACTION", "begun")
     \/ At(w, s, "DISPATCH_EVM_CLAIM", "begun")
  /\ actionState[s][SendPaymentV2] = "CONFIRMED" /\ payment[s] = "SUCCEEDED"
  /\ Advance(w, "proof", <<payment[s], None>>)
  /\ UNCHANGED <<ledgerVars, world>>

\* prepareEvmClaimAction, first transaction: planAction.
PlanClaim(w, s) ==
  /\ At(w, s, "RECOVER_PAYMENT_PROOF_AND_PREPARE_EVM_CLAIM", "proof")
  /\ PlanAction(s, EvmClaim)
  /\ Advance(w, "planned", job[w].seen)
  /\ UNCHANGED world

\* Mutant of BindClaim: a claim planned before a crash is never bound.
BindClaim_FreshOnly(w, s) ==
  /\ At(w, s, "RECOVER_PAYMENT_PROOF_AND_PREPARE_EVM_CLAIM", "planned")
  /\ BindEvmTransaction(s)
  /\ Return(w)
  /\ UNCHANGED world

\* prepareEvmClaimAction, second transaction; a planned action is replayed first.
BindClaim(w, s) ==
  /\ \/ At(w, s, "RECOVER_PAYMENT_PROOF_AND_PREPARE_EVM_CLAIM", "planned")
     \/ At(w, s, "PREPARE_EVM_CLAIM_TRANSACTION", "proof")
  /\ BindEvmTransaction(s)
  /\ Return(w)
  /\ UNCHANGED world

\* controls.authorizeEvmClaim: the refund deadline is ahead.
AuthorizeClaim(w, s) ==
  /\ At(w, s, "DISPATCH_EVM_CLAIM", "proof")
  /\ clock[s] < EvmRefundAt
  /\ Advance(w, "authorized", job[w].seen)
  /\ UNCHANGED <<ledgerVars, world>>

\* dispatchEvmClaimAction re-reads the action: pending, or unknown by now.
ClaimBroadcast(w, s) ==
  /\ At(w, s, "DISPATCH_EVM_CLAIM", "authorized")
  /\ clock[s] < EvmRefundAt
  /\ ClaimFirstBroadcast(s) \/ ClaimRebroadcast(s)
  /\ Advance(w, "claimed", job[w].seen)
  /\ UNCHANGED world

\* eth_sendRawTransaction: the node takes the transaction, or the call is lost.
SendClaim(w, s) ==
  /\ At(w, s, "DISPATCH_EVM_CLAIM", "claimed")
  /\ clock[s] < EvmRefundAt
  /\ claimTx' \in {claimTx, [claimTx EXCEPT ![s] = IF @ = "NONE" THEN "MEMPOOL" ELSE @]}
  /\ Advance(w, "sent", job[w].seen)
  /\ UNCHANGED <<ledgerVars, lightning, escrow, claimBlock, clock>>

\* Whatever the RPC answered, the result is ambiguous.
RecordBroadcast(w, s) ==
  /\ At(w, s, "DISPATCH_EVM_CLAIM", "sent")
  /\ RecordAmbiguous(s, EvmClaim) \/ RecordRebroadcastResult(s)
  /\ Return(w)
  /\ UNCHANGED world

ExpectedTerminal(kind) == IF kind = "VERIFY_REFUND_AND_RECONCILE" THEN "REFUNDED" ELSE "COMPLETED"

\* controls.verifyAssets: what both operators must have seen, finally, on both sides.
AssetsReconciled(s, terminal) ==
  IF terminal = "COMPLETED"
  THEN escrow[s] = "CLAIMED" /\ claimTx[s] # "CLAIMING" /\ payment[s] \in {"SUCCEEDED", "SETTLED"}
  ELSE escrow[s] = "REFUNDED" /\ payment[s] \notin {"SUCCEEDED", "SETTLED"}

\* controls.verifyAssets answers with verified evidence of both sides.
VerifyAssets(w, s) ==
  /\ job[w].for = s /\ job[w].phase = "begun"
  /\ job[w].kind \in {"VERIFY_BOTH_ASSETS_AND_COMPLETE", "WAIT_FOR_BIT_CLAIM_AND_RECONCILE",
                      "VERIFY_REFUND_AND_RECONCILE"}
  /\ AssetsReconciled(s, ExpectedTerminal(job[w].kind))
  /\ Advance(w, "evidence", <<ExpectedTerminal(job[w].kind), None>>)
  /\ UNCHANGED <<ledgerVars, world>>

RecordVerifiedTerminal(w, s) ==
  /\ job[w].for = s /\ job[w].phase = "evidence" /\ job[w].kind # "WAIT_FOR_RESERVATION"
  /\ RecordTerminal(s, job[w].seen[1])
  /\ Return(w)
  /\ UNCHANGED world

-------------------------------------------------------------------------------
\* The world outside the coordinator.

\* The handoff from the RFQ side; a hold invoice exists before its settlement does.
AcceptHandoff(s, h, d) ==
  /\ AcceptSettlement(s, h, d)
  /\ payment' = [payment EXCEPT ![s] = IF d = "lightning-to-bit" THEN "OPEN" ELSE @]
  /\ UNCHANGED <<job, transit, executed, chain, clock>>

BindHandoff(s) ==
  /\ BindContractIntent(s) \/ BindSettlementExecutionPolicy(s)
  /\ UNCHANGED <<job, world>>

ReserveOnChain(s) ==
  /\ contractIntent[s] /\ escrow[s] = "NONE" /\ clock[s] < LightningActionDeadline
  /\ escrow' = [escrow EXCEPT ![s] = "RESERVED"]
  /\ UNCHANGED <<ledgerVars, job, lightning, claimTx, claimBlock, clock>>

\* A request in transit reaches the node before its envelope expires and is performed;
\* a node pays a hash whose earlier attempt failed.
AdapterExecutes(s) ==
  /\ transit[s] # <<>> /\ ~Expired(s, Head(transit[s]))
  /\ transit' = [transit EXCEPT ![s] = Tail(@)]
  /\ \/ payment[s] \in {"NOT_FOUND", "FAILED"} /\ payment' = [payment EXCEPT ![s] = "IN_FLIGHT"]
     \/ payment[s] = "ACCEPTED" /\ payment' = [payment EXCEPT ![s] = "SETTLED"]
  /\ executed' = [executed EXCEPT ![s] = @ + 1]
  /\ UNCHANGED <<ledgerVars, job, chain, clock>>

\* A request is lost, rejected by the adapter, or arrives expired.
RequestLost(s) ==
  /\ transit[s] # <<>>
  /\ transit' = [transit EXCEPT ![s] = Tail(@)]
  /\ UNCHANGED <<ledgerVars, job, executed, payment, chain, clock>>

LightningProgress(s) ==
  /\ \/ payment[s] = "IN_FLIGHT" /\ payment' \in {[payment EXCEPT ![s] = "SUCCEEDED"],
                                                 [payment EXCEPT ![s] = "FAILED"]}
     \/ payment[s] = "OPEN" /\ payment' \in {[payment EXCEPT ![s] = "ACCEPTED"],
                                            [payment EXCEPT ![s] = "CANCELED"]}
     \/ payment[s] = "ACCEPTED" /\ payment' = [payment EXCEPT ![s] = "CANCELED"]
  /\ UNCHANGED <<ledgerVars, job, transit, executed, chain, clock>>

TimePasses(s) ==
  /\ clock[s] < MaxClock
  /\ clock' = [clock EXCEPT ![s] = @ + 1]
  /\ UNCHANGED <<ledgerVars, job, lightning, chain>>

\* Anybody who knows the preimage may claim for the beneficiary before refundAfter.
RelayerClaims(s) ==
  /\ escrow[s] = "RESERVED" /\ clock[s] < EvmRefundAt
  /\ payment[s] \in {"SUCCEEDED", "SETTLED"}
  /\ escrow' = [escrow EXCEPT ![s] = "CLAIMED"]
  /\ UNCHANGED <<ledgerVars, job, lightning, claimTx, claimBlock, clock>>

RefundOnChain(s) ==
  /\ escrow[s] = "RESERVED" /\ clock[s] >= EvmRefundAt
  /\ escrow' = [escrow EXCEPT ![s] = "REFUNDED"]
  /\ UNCHANGED <<ledgerVars, job, lightning, claimTx, claimBlock, clock>>

\* The claim transaction is mined: it succeeds exactly when the escrow allows it.
MineClaim(s, b) ==
  /\ claimTx[s] = "MEMPOOL"
  /\ claimBlock' = [claimBlock EXCEPT ![s] = b]
  /\ IF escrow[s] = "RESERVED" /\ clock[s] < EvmRefundAt
     THEN /\ claimTx' = [claimTx EXCEPT ![s] = "CLAIMING"]
          /\ escrow' = [escrow EXCEPT ![s] = "CLAIMED"]
     ELSE /\ claimTx' = [claimTx EXCEPT ![s] = "REVERTING"]
          /\ UNCHANGED escrow
  /\ UNCHANGED <<ledgerVars, job, lightning, clock>>

FinalizeClaim(s) ==
  /\ claimTx[s] \in {"CLAIMING", "REVERTING"}
  /\ claimTx' = [claimTx EXCEPT ![s] = IF @ = "CLAIMING" THEN "CLAIMED" ELSE "REVERTED"]
  /\ UNCHANGED <<ledgerVars, job, lightning, escrow, claimBlock, clock>>

\* The block that held the claim is not canonical any more.
ReorgClaim(s) ==
  /\ claimTx[s] \in {"CLAIMING", "REVERTING"}
  /\ claimTx' = [claimTx EXCEPT ![s] = "MEMPOOL"]
  /\ escrow' = [escrow EXCEPT ![s] = IF claimTx[s] = "CLAIMING" THEN "RESERVED" ELSE @]
  /\ claimBlock' = [claimBlock EXCEPT ![s] = None]
  /\ UNCHANGED <<ledgerVars, job, lightning, clock>>

DropClaim(s) ==
  /\ claimTx[s] = "MEMPOOL"
  /\ claimTx' = [claimTx EXCEPT ![s] = "NONE"]
  /\ UNCHANGED <<ledgerVars, job, lightning, escrow, claimBlock, clock>>

-------------------------------------------------------------------------------
WorkerStep(w, s) ==
  \/ StartStep(w, s)
  \/ ObserveReservation(w, s)
  \/ RecordObservedReservation(w, s)
  \/ HaltOnEvidence(w, s)
  \/ HaltRequired(w, s)
  \/ PlanLightningAction(w, s)
  \/ AuthorizeLightning(w, s)
  \/ ClaimLightning(w, s)
  \/ SendLightning(w, s)
  \/ ConfirmLightning(w, s)
  \/ LightningAmbiguous(w, s)
  \/ RecoverInterrupted(w, s)
  \/ ObserveLightning(w, s)
  \/ ObserveClaim(w, s)
  \/ RecordObservedInclusion(w, s)
  \/ ReconcileObserved(w, s)
  \/ ReadPaymentProof(w, s)
  \/ PlanClaim(w, s)
  \/ BindClaim(w, s)
  \/ AuthorizeClaim(w, s)
  \/ ClaimBroadcast(w, s)
  \/ SendClaim(w, s)
  \/ RecordBroadcast(w, s)
  \/ VerifyAssets(w, s)
  \/ RecordVerifiedTerminal(w, s)

WorldStep(s) ==
  \/ \E h \in PaymentHashes, d \in Directions : AcceptHandoff(s, h, d)
  \/ BindHandoff(s)
  \/ ReserveOnChain(s)
  \/ AdapterExecutes(s)
  \/ RequestLost(s)
  \/ LightningProgress(s)
  \/ TimePasses(s)
  \/ RelayerClaims(s)
  \/ RefundOnChain(s)
  \/ \E b \in Blocks : MineClaim(s, b)
  \/ FinalizeClaim(s)
  \/ ReorgClaim(s)
  \/ DropClaim(s)

DaemonNext ==
  \/ \E w \in Workers : Abort(w) \/ Restart(w)
  \/ \E w \in Workers, s \in Settlements : WorkerStep(w, s)
  \/ \E s \in Settlements : WorldStep(s)

DaemonSpec == DaemonInit /\ [][DaemonNext]_daemonVars

\* Fairness, of the recovery processes only: an active process may stop for good at any
\* point.  Their steps end (every call of the runners has a timeout), the cycle starts the
\* next one, and what can succeed again and again does at some point: reads of the node and
\* of the packets are retried every cycle and are not refused for ever.
Eventually(w, s) ==
  /\ SF_daemonVars(StartStep(w, s))
  /\ SF_daemonVars(RecoverInterrupted(w, s))
  /\ SF_daemonVars(ObserveLightning(w, s))
  /\ SF_daemonVars(ReconcileObserved(w, s))
  /\ SF_daemonVars(ReadPaymentProof(w, s))
  /\ SF_daemonVars(PlanClaim(w, s))
  /\ SF_daemonVars(BindClaim(w, s))
  /\ SF_daemonVars(AuthorizeClaim(w, s))
  /\ SF_daemonVars(ClaimBroadcast(w, s))

FairDaemonSpec ==
  /\ DaemonSpec
  /\ \A w \in Workers \ ActiveWorkers :
       WF_daemonVars(Abort(w)) /\ \A s \in Settlements : Eventually(w, s)

-------------------------------------------------------------------------------
\* Properties of the daemon and the world it acts on.

Paid(s)   == payment[s] \in {"SUCCEEDED", "SETTLED"}
Unpaid(s) == payment[s] \in {"FAILED", "CANCELED"}

\* No request is on its way that could still move money: a payment the node has no
\* success for yet must not be sent any more, a cancelled invoice cannot be settled.
NothingUnderWay(s) == payment[s] = "CANCELED" \/ transit[s] = <<>>

\* However many processes race and crash around one dispatch, at most one signed
\* request for the leg exists and the node performs its side effect at most once.
ExecutedOnce ==
  \A s \in Settlements : Len(transit[s]) + executed[s] <= 1

\* The coordinator's verdicts are true: a leg it calls confirmed did move the money
\* and one it calls failed never will, although every observation was made before an
\* await and applied after it, with other processes, reorgs and restarts in between.  So is a
\* recorded outcome, on both sides: COMPLETED means Lightning was paid and the BIT claimed,
\* REFUNDED that the BIT went back and nothing was paid or is still on its way to the node.
VerdictTrue ==
  \A s \in Settlements :
    /\ actionState[s][LightningLeg(s)] = "CONFIRMED" => Paid(s)
    /\ actionState[s][LightningLeg(s)] = "FAILED" => Unpaid(s) /\ NothingUnderWay(s)
    /\ actionState[s][EvmClaim] = "CONFIRMED" => claimTx[s] = "CLAIMED" /\ escrow[s] = "CLAIMED"
    /\ actionState[s][EvmClaim] = "FAILED" => claimTx[s] = "REVERTED"
    /\ terminalState[s] = "COMPLETED" => Paid(s) /\ escrow[s] = "CLAIMED"
    /\ terminalState[s] = "REFUNDED" => Unpaid(s) /\ escrow[s] = "REFUNDED" /\ NothingUnderWay(s)
    /\ terminalState[s] \in {None, "COMPLETED", "REFUNDED"}

\* What an envelope's lifetime exceeds the safety margin by: nothing, under a policy that
\* relates the two.
Uncovered == AuthorizationLifetime - MinimumEvmSafety - 1

\* The Lightning side effect happens while the counterparty's BIT is locked (or already
\* claimed with this preimage), whoever delayed the request: it outlives the reservation
\* that authorised it by less than the seconds that the lifetime exceeds the margin by.
ExposureCovered ==
  [][\A s \in Settlements : executed'[s] # executed[s] =>
       \/ escrow[s] \in {"RESERVED", "CLAIMED"}
       \/ escrow[s] = "REFUNDED" /\ clock[s] < EvmRefundAt + Uncovered]_daemonVars

\* What the swap promises, with the node's record as the leg and the ledger as the outcome.
Swap == INSTANCE SwapOutcome WITH
  Swaps <- Settlements,
  leg <- [s \in Settlements |-> IF Paid(s) THEN "paid" ELSE IF Unpaid(s) THEN "unpaid" ELSE "undecided"],
  outcome <- [s \in Settlements |->
    IF terminalState[s] = "COMPLETED" THEN "completed"
    ELSE IF terminalState[s] # None THEN "refunded"
    ELSE IF haltCode[s] # None THEN "halted" ELSE "open"]

\* The daemon, with its crashes, retries and late answers, implements SwapOutcome: the
\* leg is decided once and the recorded outcome follows that decision.
ImplementsSwap == Swap!SwapSpec

\* A payment or settlement that succeeded is eventually known to the ledger, whatever
\* happened to the process that sent it and to its answer, even if the settlement was
\* halted meanwhile: a recovery process resolves unknown actions before it honours a halt.
PaidIsLearned ==
  \A s \in Settlements :
    Paid(s) ~> actionState[s][LightningLeg(s)] = "CONFIRMED"

\* A solver that knows it has paid goes on to claim: the claim is broadcast, unless
\* the settlement is halted or the refund deadline overtakes it.
PaidIsClaimed ==
  \A s \in Settlements :
    actionState[s][SendPaymentV2] = "CONFIRMED"
      ~> broadcastCount[s] > 0 \/ haltCode[s] # None \/ clock[s] >= EvmRefundAt
===============================================================================
