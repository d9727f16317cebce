--------------------------- MODULE SettlementLedger ---------------------------
(***************************************************************************)
(* The settlement half of the coordinator's durable store                  *)
(* (lib/coordinator-store.mjs): the tables settlements,                    *)
(* coordinator_actions and coordinator_evm_transactions, and one action    *)
(* per exported store method that writes them.  Every method is a single   *)
(* SQLite transaction (#transaction), so every action below is one atomic  *)
(* step; a method that throws rolls back and is no step at all, and a      *)
(* replay of an identical call returns the stored row, which is a stutter. *)
(*                                                                         *)
(* Callers are unconstrained: any method may be called at any moment, in   *)
(* any order, by any process, and a process may die between any two calls. *)
(* Timestamps, digests and amounts are compared for equality only and are  *)
(* left out, except the payment hash, whose uniqueness the ledger owes.    *)
(***************************************************************************)
EXTENDS Integers

CONSTANTS Settlements,      \* settlement identifiers
          PaymentHashes,    \* Lightning payment hashes
          Blocks,           \* EVM blocks that may hold the claim transaction
          PlannedMethods,   \* the methods callers plan in this instance
          HaltCodes,        \* reasons a caller may give to haltSettlement
          BroadcastLimit    \* rebroadcast limit, 16 in the code

AddHoldInvoice == "AddHoldInvoice"
SettleInvoice  == "SettleInvoice"
CancelInvoice  == "CancelInvoice"
SendPaymentV2  == "SendPaymentV2"
EvmClaim       == "evm:claim"

LightningMethods == {AddHoldInvoice, SettleInvoice, CancelInvoice, SendPaymentV2}
Methods == LightningMethods \cup {EvmClaim}
METHODS_REQUIRING_RESERVATION == {SettleInvoice, SendPaymentV2, EvmClaim}

None == "none"

ASSUME ConstantsAssumption ==
  /\ PlannedMethods \subseteq Methods
  /\ BroadcastLimit \in Nat \ {0}
  /\ None \notin PaymentHashes \cup Blocks \cup HaltCodes

Mismatch == "RECONCILIATION_MISMATCH"
Directions == {"bit-to-lightning", "lightning-to-bit"}
TERMINAL_STATES == {"COMPLETED", "REFUNDED", "FAILED", "CANCELED"}
ActionStates == {"ABSENT", "PENDING", "DISPATCHING", "CONFIRMED", "FAILED", "UNKNOWN"}
Unresolved == {"PENDING", "DISPATCHING", "UNKNOWN"}
TransactionStates == {"ABSENT", "PREPARED", "BROADCASTING", "UNKNOWN", "INCLUDED",
                      "FINALIZED", "REVERTED", "REORGED", "MISMATCH"}
OpenStates == {"INTENT_ACCEPTED", "CONTRACT_INTENT_BOUND", "EXECUTION_POLICY_BOUND",
               "RESERVATION_OBSERVED", "ACTION_PENDING", "ACTION_DISPATCHING",
               "ACTION_CONFIRMED", "ACTION_FAILED", "RECONCILIATION_REQUIRED", "HALTED"}

VARIABLES
  \* table settlements, one function per column that decides anything
  state, direction, paymentHash, contractIntent, executionPolicy, reservation,
  reconciliationRequired, haltCode, terminalState,
  \* table coordinator_actions, UNIQUE (settlement_id, method)
  actionState, dispatchCount,
  \* table coordinator_evm_transactions, the row of a settlement's claim
  txState, broadcastCount, inclusion,
  \* history: how often the ledger handed out the right to perform m for s
  sends

terms    == <<direction, paymentHash>>
bindings == <<contractIntent, executionPolicy, reservation>>
closing  == <<haltCode, terminalState>>
outbox   == <<actionState, dispatchCount>>
evmTx    == <<txState, broadcastCount, inclusion>>

ledgerVars == <<state, terms, bindings, reconciliationRequired, closing, outbox, evmTx, sends>>

LedgerInit ==
  /\ state = [s \in Settlements |-> "ABSENT"]
  /\ direction = [s \in Settlements |-> None]
  /\ paymentHash = [s \in Settlements |-> None]
  /\ contractIntent = [s \in Settlements |-> FALSE]
  /\ executionPolicy = [s \in Settlements |-> FALSE]
  /\ reservation = [s \in Settlements |-> FALSE]
  /\ reconciliationRequired = [s \in Settlements |-> FALSE]
  /\ haltCode = [s \in Settlements |-> None]
  /\ terminalState = [s \in Settlements |-> None]
  /\ actionState = [s \in Settlements |-> [m \in Methods |-> "ABSENT"]]
  /\ dispatchCount = [s \in Settlements |-> [m \in Methods |-> 0]]
  /\ txState = [s \in Settlements |-> "ABSENT"]
  /\ broadcastCount = [s \in Settlements |-> 0]
  /\ inclusion = [s \in Settlements |-> None]
  /\ sends = [s \in Settlements |-> [m \in Methods |-> 0]]

-------------------------------------------------------------------------------
\* Reading the ledger.

Exists(s)  == state[s] # "ABSENT"
Closed(s)  == terminalState[s] # None \/ haltCode[s] # None
Planned(s) == {m \in Methods : actionState[s][m] # "ABSENT"}
Pending(s) == {m \in Methods : actionState[s][m] \in Unresolved}
Unknown(s) == {m \in Methods : actionState[s][m] = "UNKNOWN"}

\* The Lightning leg whose confirmation decides a settlement: the payment out
\* (BIT to Lightning) or the settlement of the hold invoice (Lightning to BIT).
LightningLeg(s) ==
  IF direction[s] = "bit-to-lightning" THEN SendPaymentV2 ELSE SettleInvoice

-------------------------------------------------------------------------------
\* Acceptance and binding.

\* Mutant of AcceptSettlement: payment_hash is not UNIQUE.
AcceptSettlement_DuplicateHash(s, h, d) ==
  /\ ~Exists(s)
  /\ state' = [state EXCEPT ![s] = "INTENT_ACCEPTED"]
  /\ direction' = [direction EXCEPT ![s] = d]
  /\ paymentHash' = [paymentHash EXCEPT ![s] = h]
  /\ UNCHANGED <<bindings, reconciliationRequired, closing, outbox, evmTx, sends>>

\* acceptSettlement: one row per settlement, payment_hash UNIQUE over the table.
AcceptSettlement(s, h, d) ==
  /\ ~Exists(s)
  /\ \A t \in Settlements : paymentHash[t] # h
  /\ state' = [state EXCEPT ![s] = "INTENT_ACCEPTED"]
  /\ direction' = [direction EXCEPT ![s] = d]
  /\ paymentHash' = [paymentHash EXCEPT ![s] = h]
  /\ UNCHANGED <<bindings, reconciliationRequired, closing, outbox, evmTx, sends>>

\* bindContractIntent: only a freshly accepted settlement, once.
BindContractIntent(s) ==
  /\ state[s] = "INTENT_ACCEPTED"
  /\ ~contractIntent[s] /\ ~executionPolicy[s] /\ ~reservation[s]
  /\ Planned(s) = {} /\ ~Closed(s) /\ ~reconciliationRequired[s]
  /\ state' = [state EXCEPT ![s] = "CONTRACT_INTENT_BOUND"]
  /\ contractIntent' = [contractIntent EXCEPT ![s] = TRUE]
  /\ UNCHANGED <<terms, executionPolicy, reservation, reconciliationRequired, closing, outbox,
                 evmTx, sends>>

\* bindSettlementExecutionPolicy: optional, between the intent and the reservation.
BindSettlementExecutionPolicy(s) ==
  /\ state[s] = "CONTRACT_INTENT_BOUND"
  /\ contractIntent[s] /\ ~executionPolicy[s] /\ ~reservation[s]
  /\ Planned(s) = {} /\ ~Closed(s) /\ ~reconciliationRequired[s]
  /\ state' = [state EXCEPT ![s] = "EXECUTION_POLICY_BOUND"]
  /\ executionPolicy' = [executionPolicy EXCEPT ![s] = TRUE]
  /\ UNCHANGED <<terms, contractIntent, reservation, reconciliationRequired, closing, outbox,
                 evmTx, sends>>

\* recordReservation: the on-chain reservation was observed.
RecordReservation(s) ==
  /\ ~Closed(s)
  /\ contractIntent[s] /\ ~reservation[s]
  /\ state[s] \in {"CONTRACT_INTENT_BOUND", "EXECUTION_POLICY_BOUND"}
  /\ state' = [state EXCEPT ![s] = "RESERVATION_OBSERVED"]
  /\ reservation' = [reservation EXCEPT ![s] = TRUE]
  /\ UNCHANGED <<terms, contractIntent, executionPolicy, reconciliationRequired, closing, outbox,
                 evmTx, sends>>

-------------------------------------------------------------------------------
\* The action outbox.

\* Mutant of PlanAction: money moves before the reservation is recorded.
PlanAction_Unreserved(s, m) ==
  /\ actionState[s][m] = "ABSENT"
  /\ Exists(s) /\ ~Closed(s) /\ ~reconciliationRequired[s]
  /\ contractIntent[s]
  /\ Pending(s) = {}
  /\ actionState' = [actionState EXCEPT ![s][m] = "PENDING"]
  /\ state' = [state EXCEPT ![s] = "ACTION_PENDING"]
  /\ UNCHANGED <<terms, bindings, reconciliationRequired, closing, dispatchCount, evmTx, sends>>

\* planAction: at most one action per method, and none while another is unresolved.
PlanAction(s, m) ==
  /\ actionState[s][m] = "ABSENT"
  /\ Exists(s) /\ ~Closed(s) /\ ~reconciliationRequired[s]
  /\ contractIntent[s]
  /\ m \in METHODS_REQUIRING_RESERVATION => reservation[s]
  /\ Pending(s) = {}
  /\ actionState' = [actionState EXCEPT ![s][m] = "PENDING"]
  /\ state' = [state EXCEPT ![s] = "ACTION_PENDING"]
  /\ UNCHANGED <<terms, bindings, reconciliationRequired, closing, dispatchCount, evmTx, sends>>

\* The action row of a claimed side effect: dispatch_count goes from 0 to 1.
MarkDispatching(s, m) ==
  /\ actionState' = [actionState EXCEPT ![s][m] = "DISPATCHING"]
  /\ dispatchCount' = [dispatchCount EXCEPT ![s][m] = 1]
  /\ state' = [state EXCEPT ![s] = "ACTION_DISPATCHING"]

\* claimAction: the one durable permission to contact the Lightning adapter.
ClaimAction(s, m) ==
  /\ m # EvmClaim
  /\ actionState[s][m] = "PENDING" /\ dispatchCount[s][m] = 0
  /\ ~Closed(s) /\ ~reconciliationRequired[s]
  /\ MarkDispatching(s, m)
  /\ sends' = [sends EXCEPT ![s][m] = @ + 1]
  /\ UNCHANGED <<terms, bindings, reconciliationRequired, closing, evmTx>>

\* bindEvmTransaction: the signed claim transaction enters the outbox.
BindEvmTransaction(s) ==
  /\ actionState[s][EvmClaim] = "PENDING" /\ dispatchCount[s][EvmClaim] = 0
  /\ txState[s] = "ABSENT"
  /\ txState' = [txState EXCEPT ![s] = "PREPARED"]
  /\ UNCHANGED <<state, terms, bindings, reconciliationRequired, closing, outbox,
                 broadcastCount, inclusion, sends>>

\* What every claimEvmBroadcast does: no included transaction, none past the limit.
Broadcast(s) ==
  /\ inclusion[s] = None
  /\ broadcastCount[s] < BroadcastLimit
  /\ ~Closed(s)
  /\ txState' = [txState EXCEPT ![s] = "BROADCASTING"]
  /\ broadcastCount' = [broadcastCount EXCEPT ![s] = @ + 1]
  /\ sends' = [sends EXCEPT ![s][EvmClaim] = @ + 1]
  /\ UNCHANGED <<terms, bindings, reconciliationRequired, closing, inclusion>>

\* claimEvmBroadcast, initial: the first broadcast claims the action.
ClaimFirstBroadcast(s) ==
  /\ actionState[s][EvmClaim] = "PENDING" /\ dispatchCount[s][EvmClaim] = 0
  /\ txState[s] = "PREPARED"
  /\ MarkDispatching(s, EvmClaim)
  /\ Broadcast(s)

\* claimEvmBroadcast, replay: the same signed bytes are broadcast again.
ClaimRebroadcast(s) ==
  /\ actionState[s][EvmClaim] = "UNKNOWN"
  /\ txState[s] \in {"UNKNOWN", "BROADCASTING"}
  /\ Broadcast(s)
  /\ UNCHANGED <<state, outbox>>

\* recordEvmInclusion: the block of the claim transaction; it may not change.
RecordEvmInclusion(s, b) ==
  /\ txState[s] # "ABSENT"
  /\ actionState[s][EvmClaim] = "UNKNOWN"
  /\ inclusion[s] \in {None, b}
  /\ txState' = [txState EXCEPT ![s] = "INCLUDED"]
  /\ inclusion' = [inclusion EXCEPT ![s] = b]
  /\ UNCHANGED <<state, terms, bindings, reconciliationRequired, closing, outbox,
                 broadcastCount, sends>>

-------------------------------------------------------------------------------
\* Results, recovery and reconciliation.

\* The transaction row moves only with the claim action.
SetTransaction(s, m, new) ==
  /\ txState' = IF m = EvmClaim THEN [txState EXCEPT ![s] = new] ELSE txState
  /\ UNCHANGED <<broadcastCount, inclusion>>

\* The rows after the claimed action m of s turns out to have no durable result.
MarkUnknown(s, m) ==
  /\ actionState[s][m] = "DISPATCHING"
  /\ actionState' = [actionState EXCEPT ![s][m] = "UNKNOWN"]
  /\ SetTransaction(s, m, "UNKNOWN")
  /\ state' = [state EXCEPT ![s] = "RECONCILIATION_REQUIRED"]
  /\ reconciliationRequired' = [reconciliationRequired EXCEPT ![s] = TRUE]
  /\ UNCHANGED <<terms, bindings, closing, dispatchCount, sends>>

\* The rows after action m of s is resolved as CONFIRMED or FAILED.
Resolve(s, m, verdict) ==
  /\ actionState' = [actionState EXCEPT ![s][m] = verdict]
  /\ SetTransaction(s, m, IF verdict = "CONFIRMED" THEN "FINALIZED" ELSE "REVERTED")
  /\ state' = [state EXCEPT ![s] = IF verdict = "CONFIRMED" THEN "ACTION_CONFIRMED"
                                                            ELSE "ACTION_FAILED"]
  /\ reconciliationRequired' = [reconciliationRequired EXCEPT ![s] = FALSE]
  /\ UNCHANGED <<terms, bindings, closing, dispatchCount, sends>>

\* recordActionResult with outcome "confirmed": a Lightning adapter's proof.
RecordConfirmed(s, m) ==
  /\ m # EvmClaim
  /\ actionState[s][m] = "DISPATCHING"
  /\ Resolve(s, m, "CONFIRMED")

\* recordActionResult with outcome "ambiguous": no proof either way.
RecordAmbiguous(s, m) == MarkUnknown(s, m)

\* recordActionResult "ambiguous" for a rebroadcast: only the transaction row moves.
RecordRebroadcastResult(s) ==
  /\ actionState[s][EvmClaim] = "UNKNOWN"
  /\ txState[s] = "BROADCASTING"
  /\ txState' = [txState EXCEPT ![s] = "UNKNOWN"]
  /\ UNCHANGED <<state, terms, bindings, reconciliationRequired, closing, outbox,
                 broadcastCount, inclusion, sends>>

Interrupted(s) == {m \in Methods : actionState[s][m] = "DISPATCHING"}

\* recoverInterruptedActions: on restart, every claimed action without a durable
\* result becomes UNKNOWN, whatever happened to its side effect.
RecoverInterruptedActions ==
  /\ \E s \in Settlements : Interrupted(s) # {}
  /\ actionState' = [s \in Settlements |-> [m \in Methods |->
        IF m \in Interrupted(s) THEN "UNKNOWN" ELSE actionState[s][m]]]
  /\ txState' = [s \in Settlements |->
        IF EvmClaim \in Interrupted(s) THEN "UNKNOWN" ELSE txState[s]]
  /\ state' = [s \in Settlements |->
        IF Interrupted(s) # {} THEN "RECONCILIATION_REQUIRED" ELSE state[s]]
  /\ reconciliationRequired' = [s \in Settlements |->
        Interrupted(s) # {} \/ reconciliationRequired[s]]
  /\ UNCHANGED <<terms, bindings, closing, dispatchCount, broadcastCount, inclusion, sends>>

\* Mutant of RecoverInterruptedAction: an interrupted action is queued again.
RecoverInterruptedAction_Requeue(s, m) ==
  /\ actionState[s][m] = "DISPATCHING"
  /\ actionState' = [actionState EXCEPT ![s][m] = "PENDING"]
  /\ dispatchCount' = [dispatchCount EXCEPT ![s][m] = 0]
  /\ state' = [state EXCEPT ![s] = "ACTION_PENDING"]
  /\ UNCHANGED <<terms, bindings, reconciliationRequired, closing, evmTx, sends>>

\* recoverInterruptedAction: the same for one action, called by the solver daemon.
RecoverInterruptedAction(s, m) == MarkUnknown(s, m)

\* reconciliationDisposition: what an observed state proves about each method; a
\* state the table does not list for the method is a mismatch.
ConfirmedBy ==
  [m \in Methods |->
    CASE m = AddHoldInvoice -> {"OPEN", "ACCEPTED", "SETTLED"}
      [] m = SettleInvoice  -> {"SETTLED"}
      [] m = CancelInvoice  -> {"CANCELED"}
      [] m = SendPaymentV2  -> {"SUCCEEDED"}
      [] m = EvmClaim       -> {"CLAIMED"}]

\* Mutant of RefutedBy: a payment the node does not know counts as failed.
RefutedBy_NotFound ==
  [m \in Methods |->
    CASE m \in {AddHoldInvoice, SettleInvoice} -> {"CANCELED"}
      [] m = CancelInvoice  -> {}
      [] m = SendPaymentV2  -> {"FAILED", "NOT_FOUND"}
      [] m = EvmClaim       -> {"REVERTED"}]

RefutedBy ==
  [m \in Methods |->
    CASE m = AddHoldInvoice -> {"CANCELED"}
      [] m = SettleInvoice  -> {"CANCELED"}
      [] m = CancelInvoice  -> {}
      [] m = SendPaymentV2  -> {"FAILED"}
      [] m = EvmClaim       -> {"REVERTED"}]

UnresolvedBy ==
  [m \in Methods |->
    CASE m = AddHoldInvoice -> {"NOT_FOUND"}
      [] m = SettleInvoice  -> {"ACCEPTED", "OPEN", "NOT_FOUND"}
      [] m = CancelInvoice  -> {"ACCEPTED", "OPEN", "NOT_FOUND"}
      [] m = SendPaymentV2  -> {"IN_FLIGHT", "INITIATED", "NOT_FOUND"}
      [] m = EvmClaim       -> {"INCLUDED", "LOCKED", "NOT_FOUND"}]

ObservedStates ==
  {"OPEN", "ACCEPTED", "SETTLED", "CANCELED", "NOT_FOUND", "SUCCEEDED", "FAILED", "IN_FLIGHT",
   "INITIATED", "CLAIMED", "INCLUDED", "LOCKED", "REVERTED", "REFUNDED", "REORGED", "MISMATCH"}

Disposition(m, observed) ==
  CASE observed \in ConfirmedBy[m]  -> "confirmed"
    [] observed \in RefutedBy[m]    -> "failed"
    [] observed \in UnresolvedBy[m] -> "unresolved"
    [] OTHER                        -> "mismatch"

\* reconcileAction, disposition "unresolved": nothing is proved yet.
ReconcileUnresolved(s, m, observed) ==
  /\ actionState[s][m] = "UNKNOWN"
  /\ Disposition(m, observed) = "unresolved"
  /\ SetTransaction(s, m, IF observed = "INCLUDED" THEN "INCLUDED" ELSE "UNKNOWN")
  /\ UNCHANGED <<state, terms, bindings, reconciliationRequired, closing, outbox, sends>>

\* reconcileAction, disposition "mismatch": halt; the action stays UNKNOWN.
ReconcileMismatch(s, m, observed) ==
  /\ actionState[s][m] = "UNKNOWN"
  /\ Disposition(m, observed) = "mismatch"
  /\ SetTransaction(s, m, IF observed = "REORGED" THEN "REORGED" ELSE "MISMATCH")
  /\ state' = [state EXCEPT ![s] = "HALTED"]
  /\ reconciliationRequired' = [reconciliationRequired EXCEPT ![s] = TRUE]
  /\ haltCode' = [haltCode EXCEPT ![s] = Mismatch]
  /\ UNCHANGED <<terms, bindings, terminalState, outbox, sends>>

\* reconcileAction, disposition "confirmed" or "failed": the action is resolved.
ReconcileResolved(s, m, observed) ==
  /\ actionState[s][m] = "UNKNOWN"
  /\ \/ Disposition(m, observed) = "confirmed" /\ Resolve(s, m, "CONFIRMED")
     \/ Disposition(m, observed) = "failed"    /\ Resolve(s, m, "FAILED")

-------------------------------------------------------------------------------
\* Closing a settlement.

\* haltSettlement: any open settlement, at any moment; the code never un-halts.
HaltSettlement(s, reason) ==
  /\ Exists(s)
  /\ terminalState[s] = None
  /\ haltCode[s] \in {None, reason}
  /\ state' = [state EXCEPT ![s] = "HALTED"]
  /\ reconciliationRequired' = [reconciliationRequired EXCEPT ![s] = TRUE]
  /\ haltCode' = [haltCode EXCEPT ![s] = reason]
  /\ UNCHANGED <<terms, bindings, terminalState, outbox, evmTx, sends>>

\* Mutant of RecordTerminal: any outcome, whatever the Lightning leg did.
RecordTerminal_Unchecked(s, t) ==
  /\ Exists(s) /\ ~Closed(s) /\ ~reconciliationRequired[s]
  /\ Pending(s) = {}
  /\ state' = [state EXCEPT ![s] = t]
  /\ terminalState' = [terminalState EXCEPT ![s] = t]
  /\ UNCHANGED <<terms, bindings, reconciliationRequired, haltCode, outbox, evmTx, sends>>

\* Mutant of RecordTerminal: a halted settlement may still be closed.
RecordTerminal_WhileHalted(s, t) ==
  /\ Exists(s) /\ terminalState[s] = None
  /\ Pending(s) = {}
  /\ t = "COMPLETED" => actionState[s][LightningLeg(s)] = "CONFIRMED"
  /\ t = "REFUNDED"  => actionState[s][LightningLeg(s)] # "CONFIRMED"
  /\ state' = [state EXCEPT ![s] = t]
  /\ terminalState' = [terminalState EXCEPT ![s] = t]
  /\ UNCHANGED <<terms, bindings, reconciliationRequired, haltCode, outbox, evmTx, sends>>

\* recordTerminal: nothing unresolved, and the outcome agrees with the Lightning leg.
RecordTerminal(s, t) ==
  /\ Exists(s) /\ ~Closed(s) /\ ~reconciliationRequired[s]
  /\ Pending(s) = {}
  /\ t = "COMPLETED" => actionState[s][LightningLeg(s)] = "CONFIRMED"
  /\ t = "REFUNDED"  => actionState[s][LightningLeg(s)] # "CONFIRMED"
  /\ state' = [state EXCEPT ![s] = t]
  /\ terminalState' = [terminalState EXCEPT ![s] = t]
  /\ UNCHANGED <<terms, bindings, reconciliationRequired, haltCode, outbox, evmTx, sends>>

-------------------------------------------------------------------------------
LedgerNext ==
  \/ \E s \in Settlements :
       \/ \E h \in PaymentHashes, d \in Directions : AcceptSettlement(s, h, d)
       \/ BindContractIntent(s)
       \/ BindSettlementExecutionPolicy(s)
       \/ RecordReservation(s)
       \/ BindEvmTransaction(s)
       \/ ClaimFirstBroadcast(s)
       \/ ClaimRebroadcast(s)
       \/ \E b \in Blocks : RecordEvmInclusion(s, b)
       \/ RecordRebroadcastResult(s)
       \/ \E reason \in HaltCodes : HaltSettlement(s, reason)
       \/ \E t \in TERMINAL_STATES : RecordTerminal(s, t)
       \/ \E m \in PlannedMethods :
            \/ PlanAction(s, m)
            \/ ClaimAction(s, m)
            \/ RecordConfirmed(s, m)
            \/ RecordAmbiguous(s, m)
            \/ RecoverInterruptedAction(s, m)
            \/ \E observed \in ObservedStates :
                 \/ ReconcileUnresolved(s, m, observed)
                 \/ ReconcileMismatch(s, m, observed)
                 \/ ReconcileResolved(s, m, observed)
  \/ RecoverInterruptedActions

LedgerSpec == LedgerInit /\ [][LedgerNext]_ledgerVars

-------------------------------------------------------------------------------
\* Properties of the ledger, whatever its callers do.

\* The columns keep the types the schema's CHECK clauses give them.
TypeOK ==
  /\ state \in [Settlements -> {"ABSENT"} \cup OpenStates \cup TERMINAL_STATES]
  /\ direction \in [Settlements -> Directions \cup {None}]
  /\ paymentHash \in [Settlements -> PaymentHashes \cup {None}]
  /\ contractIntent \in [Settlements -> BOOLEAN]
  /\ executionPolicy \in [Settlements -> BOOLEAN]
  /\ reservation \in [Settlements -> BOOLEAN]
  /\ reconciliationRequired \in [Settlements -> BOOLEAN]
  /\ haltCode \in [Settlements -> HaltCodes \cup {Mismatch, None}]
  /\ terminalState \in [Settlements -> TERMINAL_STATES \cup {None}]
  /\ actionState \in [Settlements -> [Methods -> ActionStates]]
  /\ dispatchCount \in [Settlements -> [Methods -> 0..1]]
  /\ txState \in [Settlements -> TransactionStates]
  /\ broadcastCount \in [Settlements -> 0..BroadcastLimit]
  /\ inclusion \in [Settlements -> Blocks \cup {None}]
  /\ sends \in [Settlements -> [Methods -> Nat]]

\* planAction's promise kept by every other method: at most one action of a
\* settlement is pending, dispatching or unknown at any time.
OneUnresolvedAction ==
  \A s \in Settlements : \A m, n \in Pending(s) : m = n

\* The permission to contact Lightning for a payment hash is handed out at most
\* once per method, over all settlements, crashes, recoveries and reconciliations.
AtMostOneDispatch ==
  \A s, t \in Settlements : \A m \in LightningMethods :
    /\ sends[s][m] <= 1
    /\ sends[s][m] = 1 /\ sends[t][m] = 1 /\ paymentHash[s] = paymentHash[t] => s = t

\* reconciliation_required is exactly the presence of an unknown action, until a
\* halt: so the daemon's "reconciliation is required without an unknown action"
\* step is never needed, and no unknown action is ever left without the flag.
ReconciliationFlagExact ==
  \A s \in Settlements :
    /\ Unknown(s) # {} => reconciliationRequired[s]
    /\ reconciliationRequired[s] /\ haltCode[s] = None => Unknown(s) # {}

\* The state column and the outbox tell the same story: while a claimed action
\* has no result the column says so, unless a halt intervened.
StateColumnHonest ==
  \A s \in Settlements :
    /\ state[s] = "ACTION_DISPATCHING" => Interrupted(s) # {}
    /\ Interrupted(s) # {} => state[s] \in {"ACTION_DISPATCHING", "HALTED"}
    /\ state[s] = "RECONCILIATION_REQUIRED" => Unknown(s) # {}
    /\ state[s] \in TERMINAL_STATES <=> terminalState[s] # None

\* A terminal settlement has no unresolved action and no open reconciliation, and
\* COMPLETED / REFUNDED still agree with the decisive Lightning leg.
TerminalIsSettled ==
  \A s \in Settlements : terminalState[s] # None =>
    /\ Pending(s) = {}
    /\ ~reconciliationRequired[s] /\ haltCode[s] = None
    /\ terminalState[s] = "COMPLETED" => actionState[s][LightningLeg(s)] = "CONFIRMED"
    /\ terminalState[s] = "REFUNDED"  => actionState[s][LightningLeg(s)] # "CONFIRMED"

\* No Lightning money movement and no EVM claim was ever authorised for a
\* settlement whose contract intent and on-chain reservation were not recorded first.
ReservedBeforeMoney ==
  \A s \in Settlements, m \in METHODS_REQUIRING_RESERVATION :
    sends[s][m] > 0 => reservation[s] /\ contractIntent[s]

\* The EVM outbox: broadcasts were counted truly, a claim that left PENDING has its
\* signed transaction broadcast, and claim and transaction are resolved together.
OutboxConsistent ==
  \A s \in Settlements :
    /\ sends[s][EvmClaim] = broadcastCount[s]
    /\ actionState[s][EvmClaim] \in {"DISPATCHING", "UNKNOWN", "CONFIRMED", "FAILED"}
         <=> broadcastCount[s] > 0
    /\ actionState[s][EvmClaim] = "CONFIRMED" <=> txState[s] = "FINALIZED"
    /\ actionState[s][EvmClaim] = "FAILED" <=> txState[s] = "REVERTED"

\* dispatch_count and the history agree with the action's state: a side effect was
\* authorised exactly when the action left PENDING.
DispatchAccounting ==
  \A s \in Settlements, m \in Methods :
    /\ dispatchCount[s][m] = 0 <=> actionState[s][m] \in {"ABSENT", "PENDING"}
    /\ m # EvmClaim => sends[s][m] = dispatchCount[s][m]

\* Who owns what: a payment hash has one settlement, actions exist only under a
\* contract intent, and the money-moving ones only under a reservation.
RowsOwned ==
  /\ \A s, t \in Settlements : paymentHash[s] = paymentHash[t] /\ paymentHash[s] # None => s = t
  /\ \A s \in Settlements :
       /\ state[s] = "ABSENT" <=> paymentHash[s] = None
       /\ contractIntent[s] => state[s] # "ABSENT"
       /\ \A m \in Methods : actionState[s][m] # "ABSENT" =>
            /\ contractIntent[s]
            /\ m \in METHODS_REQUIRING_RESERVATION => reservation[s]

\* The inductive invariant of the ledger.
LedgerInv ==
  /\ TypeOK
  /\ OneUnresolvedAction
  /\ DispatchAccounting
  /\ RowsOwned
  /\ ReconciliationFlagExact
  /\ StateColumnHonest
  /\ TerminalIsSettled
  /\ OutboxConsistent

===============================================================================
