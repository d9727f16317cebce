--------------------------- MODULE SettlementProofs ---------------------------
(***************************************************************************)
(* Machine-checked proofs about the parts that move money: the settlement  *)
(* ledger, the solver daemon and the contracts, for any number of          *)
(* settlements, payment hashes, halt codes, processes, blocks, users,      *)
(* solvers and quotes.  The first part is about the ledger under any       *)
(* callers.                                                                *)
(*                                                                         *)
(* The argument for the daemon. Every step of the daemon is a step of the  *)
(* ledger or leaves it alone, so the ledger's inductive invariant carries  *)
(* over. On top of it DaemonInv says what each settlement's rows tell      *)
(* about the world (RowsTrue), that a request exists only for a dispatched *)
(* leg (RequestAccounted), and that whatever a process learnt before an    *)
(* await is still true when it uses it (KnowledgeTrue). Two frames carry   *)
(* these across the steps of other actors: what the ledger never takes     *)
(* back (LedgerKeeps) and what the world never takes back (WorldKeeps).    *)
(*                                                                         *)
(* The contracts come last. What a call may do to the swaps is stated once *)
(* (SwapStep), and solvency, single use of payment hashes, exclusive exits *)
(* and gated exposure follow from it. That the totals of the contracts are *)
(* exactly what their swaps add up to (LiabilitiesExact) takes, for each   *)
(* call, the swap it adds or ends and the balance it moves.                *)
(***************************************************************************)
EXTENDS SolverDaemon, Escrows, SumTheorems

-------------------------------------------------------------------------------
(* The ledger. *)

\* Counting one more use of the right to perform m for s leaves a table of counts.
LEMMA CountOneMore ==
  ASSUME NEW S, NEW M, NEW f \in [S -> [M -> Nat]], NEW s \in S, NEW m \in M
  PROVE  [f EXCEPT ![s][m] = @ + 1] \in [S -> [M -> Nat]]
<1>1. f[s] \in [M -> Nat] /\ f[s][m] \in Nat
  OBVIOUS
<1>2. f[s][m] + 1 \in Nat
  BY <1>1
<1>3. [f[s] EXCEPT ![m] = f[s][m] + 1] \in [M -> Nat]
  BY <1>1, <1>2
<1> QED
  BY <1>3

\* Claiming a side effect keeps the action table well typed.
LEMMA MarkDispatchingType ==
  ASSUME TypeOK, NEW s \in Settlements, NEW m \in Methods, MarkDispatching(s, m)
  PROVE  /\ actionState' \in [Settlements -> [Methods -> ActionStates]]
         /\ dispatchCount' \in [Settlements -> [Methods -> 0..1]]
         /\ state' \in [Settlements -> {"ABSENT"} \cup OpenStates \cup TERMINAL_STATES]
<1>1. actionState' \in [Settlements -> [Methods -> ActionStates]]
  BY DEF TypeOK, MarkDispatching, ActionStates
<1>2. dispatchCount' \in [Settlements -> [Methods -> 0..1]]
  <2>1. dispatchCount[s] \in [Methods -> 0..1] /\ 1 \in 0..1
    BY DEF TypeOK
  <2>2. [dispatchCount[s] EXCEPT ![m] = 1] \in [Methods -> 0..1]
    BY <2>1, Zenon
  <2> QED
    BY <2>2, Zenon DEF TypeOK, MarkDispatching
<1>3. state' \in [Settlements -> {"ABSENT"} \cup OpenStates \cup TERMINAL_STATES]
  BY DEF TypeOK, MarkDispatching, OpenStates
<1> QED
  BY <1>1, <1>2, <1>3

\* Every method of the store keeps the columns within the types of the schema.
LEMMA TypeOKStep == TypeOK /\ [LedgerNext]_ledgerVars => TypeOK'
<1> SUFFICES ASSUME TypeOK, [LedgerNext]_ledgerVars PROVE TypeOK'
  OBVIOUS
<1> USE ConstantsAssumption DEF TypeOK, OpenStates, TERMINAL_STATES, ActionStates,
      TransactionStates, Methods, EvmClaim, Mismatch, ledgerVars, terms, bindings, closing,
      outbox, evmTx
<1>1. CASE UNCHANGED ledgerVars
  BY <1>1
<1>2. ASSUME NEW s \in Settlements, NEW h \in PaymentHashes, NEW d \in Directions,
             AcceptSettlement(s, h, d)
      PROVE  TypeOK'
  BY <1>2 DEF AcceptSettlement
<1>3. ASSUME NEW s \in Settlements, BindContractIntent(s) PROVE TypeOK'
  BY <1>3 DEF BindContractIntent
<1>4. ASSUME NEW s \in Settlements, BindSettlementExecutionPolicy(s) PROVE TypeOK'
  BY <1>4 DEF BindSettlementExecutionPolicy
<1>5. ASSUME NEW s \in Settlements, RecordReservation(s) PROVE TypeOK'
  BY <1>5 DEF RecordReservation
<1>6. ASSUME NEW s \in Settlements, NEW m \in Methods, PlanAction(s, m) PROVE TypeOK'
  BY <1>6 DEF PlanAction
<1>7. ASSUME NEW s \in Settlements, NEW m \in Methods, ClaimAction(s, m) PROVE TypeOK'
  <2>1. sends' \in [Settlements -> [Methods -> Nat]]
    BY <1>7, CountOneMore, Zenon DEF ClaimAction
  <2> QED
    BY <1>7, <2>1, MarkDispatchingType DEF ClaimAction
<1>8. ASSUME NEW s \in Settlements, BindEvmTransaction(s) PROVE TypeOK'
  BY <1>8 DEF BindEvmTransaction
<1>9. ASSUME NEW s \in Settlements, ClaimFirstBroadcast(s) PROVE TypeOK'
  <2>1. sends' \in [Settlements -> [Methods -> Nat]]
    BY <1>9, CountOneMore, EvmClaim \in Methods, Zenon DEF ClaimFirstBroadcast, Broadcast
  <2>2. broadcastCount' \in [Settlements -> 0..BroadcastLimit]
    BY <1>9 DEF ClaimFirstBroadcast, Broadcast
  <2> QED
    BY <1>9, <2>1, <2>2, MarkDispatchingType DEF ClaimFirstBroadcast, Broadcast
<1>10. ASSUME NEW s \in Settlements, ClaimRebroadcast(s) PROVE TypeOK'
  <2>1. sends' \in [Settlements -> [Methods -> Nat]]
    BY <1>10, CountOneMore, EvmClaim \in Methods, Zenon DEF ClaimRebroadcast, Broadcast
  <2>2. broadcastCount' \in [Settlements -> 0..BroadcastLimit]
    BY <1>10 DEF ClaimRebroadcast, Broadcast
  <2> QED
    BY <1>10, <2>1, <2>2 DEF ClaimRebroadcast, Broadcast
<1>11. ASSUME NEW s \in Settlements, NEW b \in Blocks, RecordEvmInclusion(s, b) PROVE TypeOK'
  BY <1>11 DEF RecordEvmInclusion
<1>12. ASSUME NEW s \in Settlements, NEW m \in Methods, MarkUnknown(s, m) PROVE TypeOK'
  BY <1>12 DEF MarkUnknown, SetTransaction
<1>13. ASSUME NEW s \in Settlements, NEW m \in Methods, NEW v \in {"CONFIRMED", "FAILED"},
              Resolve(s, m, v)
       PROVE  TypeOK'
  BY <1>13 DEF Resolve, SetTransaction
<1>14. ASSUME NEW s \in Settlements, RecordRebroadcastResult(s) PROVE TypeOK'
  BY <1>14 DEF RecordRebroadcastResult
<1>15. ASSUME RecoverInterruptedActions PROVE TypeOK'
  <2>1. actionState' \in [Settlements -> [Methods -> ActionStates]]
    BY <1>15 DEF RecoverInterruptedActions
  <2>2. reconciliationRequired' \in [Settlements -> BOOLEAN]
    BY <1>15, Zenon DEF RecoverInterruptedActions
  <2>3. /\ state' \in [Settlements -> {"ABSENT"} \cup OpenStates \cup TERMINAL_STATES]
        /\ txState' \in [Settlements -> TransactionStates]
    BY <1>15 DEF RecoverInterruptedActions
  <2> QED
    BY <1>15, <2>1, <2>2, <2>3 DEF RecoverInterruptedActions
<1>16. ASSUME NEW s \in Settlements, NEW m \in Methods, NEW o, ReconcileUnresolved(s, m, o)
       PROVE  TypeOK'
  BY <1>16 DEF ReconcileUnresolved, SetTransaction
<1>17. ASSUME NEW s \in Settlements, NEW m \in Methods, NEW o, ReconcileMismatch(s, m, o)
       PROVE  TypeOK'
  BY <1>17 DEF ReconcileMismatch, SetTransaction
<1>18. ASSUME NEW s \in Settlements, NEW r \in HaltCodes, HaltSettlement(s, r) PROVE TypeOK'
  BY <1>18 DEF HaltSettlement
<1>19. ASSUME NEW s \in Settlements, NEW t \in TERMINAL_STATES, RecordTerminal(s, t) PROVE TypeOK'
  BY <1>19 DEF RecordTerminal
<1>20. QED
  BY <1>1, <1>2, <1>3, <1>4, <1>5, <1>6, <1>7, <1>8, <1>9, <1>10, <1>11, <1>12, <1>13,
     <1>14, <1>15, <1>16, <1>17, <1>18, <1>19
     DEF LedgerNext, RecordConfirmed, RecordAmbiguous, RecoverInterruptedAction, ReconcileResolved

\* Every method of the store preserves the inductive invariant.
LEMMA LedgerInvStep == LedgerInv /\ [LedgerNext]_ledgerVars => LedgerInv'
<1> SUFFICES ASSUME LedgerInv, [LedgerNext]_ledgerVars PROVE LedgerInv'
  OBVIOUS
<1>t. TypeOK /\ TypeOK'
  BY TypeOKStep DEF LedgerInv
<1>c. EvmClaim \in Methods
  BY DEF Methods
<1> USE <1>t, <1>c, ConstantsAssumption
        DEF TypeOK, LedgerInv, terms, bindings, closing, outbox, evmTx, Exists, Closed, Planned,
            Pending, Unresolved, Unknown, Interrupted, SetTransaction, MarkDispatching, Broadcast
<1>1. ASSUME NEW s \in Settlements, NEW h \in PaymentHashes, NEW d \in Directions, AcceptSettlement(s, h, d)
      PROVE  LedgerInv'
  <2>1. OneUnresolvedAction'
    BY <1>1 DEF OneUnresolvedAction, AcceptSettlement
  <2>2. DispatchAccounting'
    BY <1>1 DEF DispatchAccounting, AcceptSettlement
  <2>3. RowsOwned'
    BY <1>1 DEF RowsOwned, AcceptSettlement
  <2>4. ReconciliationFlagExact'
    BY <1>1 DEF ReconciliationFlagExact, AcceptSettlement
  <2>5. StateColumnHonest'
    BY <1>1 DEF StateColumnHonest, AcceptSettlement, TerminalIsSettled, OneUnresolvedAction, TERMINAL_STATES
  <2>6. TerminalIsSettled'
    BY <1>1 DEF TerminalIsSettled, AcceptSettlement, StateColumnHonest, LightningLeg, TERMINAL_STATES
  <2>7. OutboxConsistent'
    BY <1>1 DEF OutboxConsistent, AcceptSettlement
  <2> QED
    BY <2>1, <2>2, <2>3, <2>4, <2>5, <2>6, <2>7
<1>2. ASSUME NEW s \in Settlements, BindContractIntent(s)
      PROVE  LedgerInv'
  <2>1. OneUnresolvedAction'
    BY <1>2 DEF OneUnresolvedAction, BindContractIntent
  <2>2. DispatchAccounting'
    BY <1>2 DEF DispatchAccounting, BindContractIntent
  <2>3. RowsOwned'
    BY <1>2 DEF RowsOwned, BindContractIntent
  <2>4. ReconciliationFlagExact'
    BY <1>2 DEF ReconciliationFlagExact, BindContractIntent
  <2>5. StateColumnHonest'
    BY <1>2 DEF StateColumnHonest, BindContractIntent, TerminalIsSettled, OneUnresolvedAction, TERMINAL_STATES
  <2>6. TerminalIsSettled'
    BY <1>2 DEF TerminalIsSettled, BindContractIntent, StateColumnHonest, LightningLeg, TERMINAL_STATES
  <2>7. OutboxConsistent'
    BY <1>2 DEF OutboxConsistent, BindContractIntent
  <2> QED
    BY <2>1, <2>2, <2>3, <2>4, <2>5, <2>6, <2>7
<1>3. ASSUME NEW s \in Settlements, BindSettlementExecutionPolicy(s)
      PROVE  LedgerInv'
  <2>1. OneUnresolvedAction'
    BY <1>3 DEF OneUnresolvedAction, BindSettlementExecutionPolicy
  <2>2. DispatchAccounting'
    BY <1>3 DEF DispatchAccounting, BindSettlementExecutionPolicy
  <2>3. RowsOwned'
    BY <1>3 DEF RowsOwned, BindSettlementExecutionPolicy
  <2>4. ReconciliationFlagExact'
    BY <1>3 DEF ReconciliationFlagExact, BindSettlementExecutionPolicy
  <2>5. StateColumnHonest'
    BY <1>3 DEF StateColumnHonest, BindSettlementExecutionPolicy, TerminalIsSettled, OneUnresolvedAction, TERMINAL_STATES
  <2>6. TerminalIsSettled'
    BY <1>3 DEF TerminalIsSettled, BindSettlementExecutionPolicy, StateColumnHonest, LightningLeg, TERMINAL_STATES
  <2>7. OutboxConsistent'
    BY <1>3 DEF OutboxConsistent, BindSettlementExecutionPolicy
  <2> QED
    BY <2>1, <2>2, <2>3, <2>4, <2>5, <2>6, <2>7
<1>4. ASSUME NEW s \in Settlements, RecordReservation(s)
      PROVE  LedgerInv'
  <2>1. OneUnresolvedAction'
    BY <1>4 DEF OneUnresolvedAction, RecordReservation
  <2>2. DispatchAccounting'
    BY <1>4 DEF DispatchAccounting, RecordReservation
  <2>3. RowsOwned'
    BY <1>4 DEF RowsOwned, RecordReservation
  <2>4. ReconciliationFlagExact'
    BY <1>4 DEF ReconciliationFlagExact, RecordReservation
  <2>5. StateColumnHonest'
    BY <1>4 DEF StateColumnHonest, RecordReservation, TerminalIsSettled, OneUnresolvedAction, TERMINAL_STATES
  <2>6. TerminalIsSettled'
    BY <1>4 DEF TerminalIsSettled, RecordReservation, StateColumnHonest, LightningLeg, TERMINAL_STATES
  <2>7. OutboxConsistent'
    BY <1>4 DEF OutboxConsistent, RecordReservation
  <2> QED
    BY <2>1, <2>2, <2>3, <2>4, <2>5, <2>6, <2>7
<1>5. ASSUME NEW s \in Settlements, NEW m \in Methods, PlanAction(s, m)
      PROVE  LedgerInv'
  <2>1. OneUnresolvedAction'
    BY <1>5 DEF OneUnresolvedAction, PlanAction
  <2>2. DispatchAccounting'
    BY <1>5 DEF DispatchAccounting, PlanAction
  <2>3. RowsOwned'
    BY <1>5 DEF RowsOwned, PlanAction
  <2>4. ReconciliationFlagExact'
    BY <1>5 DEF ReconciliationFlagExact, PlanAction
  <2>5. StateColumnHonest'
    BY <1>5 DEF StateColumnHonest, PlanAction, TerminalIsSettled, OneUnresolvedAction, TERMINAL_STATES
  <2>6. TerminalIsSettled'
    BY <1>5 DEF TerminalIsSettled, PlanAction, StateColumnHonest, LightningLeg, TERMINAL_STATES
  <2>7. OutboxConsistent'
    BY <1>5 DEF OutboxConsistent, PlanAction
  <2> QED
    BY <2>1, <2>2, <2>3, <2>4, <2>5, <2>6, <2>7
<1>6. ASSUME NEW s \in Settlements, NEW m \in Methods, ClaimAction(s, m)
      PROVE  LedgerInv'
  <2>1. OneUnresolvedAction'
    BY <1>6 DEF OneUnresolvedAction, ClaimAction
  <2>2. DispatchAccounting'
    BY <1>6 DEF DispatchAccounting, ClaimAction
  <2>3. RowsOwned'
    BY <1>6 DEF RowsOwned, ClaimAction
  <2>4. ReconciliationFlagExact'
    BY <1>6 DEF ReconciliationFlagExact, ClaimAction
  <2>5. StateColumnHonest'
    BY <1>6 DEF StateColumnHonest, ClaimAction, TerminalIsSettled, OneUnresolvedAction, TERMINAL_STATES
  <2>6. TerminalIsSettled'
    BY <1>6 DEF TerminalIsSettled, ClaimAction, StateColumnHonest, LightningLeg, TERMINAL_STATES
  <2>7. OutboxConsistent'
    BY <1>6 DEF OutboxConsistent, ClaimAction
  <2> QED
    BY <2>1, <2>2, <2>3, <2>4, <2>5, <2>6, <2>7
<1>7. ASSUME NEW s \in Settlements, BindEvmTransaction(s)
      PROVE  LedgerInv'
  <2>1. OneUnresolvedAction'
    BY <1>7 DEF OneUnresolvedAction, BindEvmTransaction
  <2>2. DispatchAccounting'
    BY <1>7 DEF DispatchAccounting, BindEvmTransaction
  <2>3. RowsOwned'
    BY <1>7 DEF RowsOwned, BindEvmTransaction
  <2>4. ReconciliationFlagExact'
    BY <1>7 DEF ReconciliationFlagExact, BindEvmTransaction
  <2>5. StateColumnHonest'
    BY <1>7 DEF StateColumnHonest, BindEvmTransaction
  <2>6. TerminalIsSettled'
    BY <1>7 DEF TerminalIsSettled, BindEvmTransaction, StateColumnHonest, LightningLeg, TERMINAL_STATES
  <2>7. OutboxConsistent'
    BY <1>7 DEF OutboxConsistent, BindEvmTransaction
  <2> QED
    BY <2>1, <2>2, <2>3, <2>4, <2>5, <2>6, <2>7
<1>8. ASSUME NEW s \in Settlements, ClaimFirstBroadcast(s)
      PROVE  LedgerInv'
  <2>1. OneUnresolvedAction'
    BY <1>8 DEF OneUnresolvedAction, ClaimFirstBroadcast
  <2>2. DispatchAccounting'
    BY <1>8 DEF DispatchAccounting, ClaimFirstBroadcast
  <2>3. RowsOwned'
    BY <1>8 DEF RowsOwned, ClaimFirstBroadcast
  <2>4. ReconciliationFlagExact'
    BY <1>8 DEF ReconciliationFlagExact, ClaimFirstBroadcast
  <2>5. StateColumnHonest'
    BY <1>8 DEF StateColumnHonest, ClaimFirstBroadcast, TerminalIsSettled, OneUnresolvedAction, TERMINAL_STATES
  <2>6. TerminalIsSettled'
    BY <1>8 DEF TerminalIsSettled, ClaimFirstBroadcast, StateColumnHonest, LightningLeg, TERMINAL_STATES
  <2>7. OutboxConsistent'
    BY <1>8 DEF OutboxConsistent, ClaimFirstBroadcast
  <2> QED
    BY <2>1, <2>2, <2>3, <2>4, <2>5, <2>6, <2>7
<1>9. ASSUME NEW s \in Settlements, ClaimRebroadcast(s)
      PROVE  LedgerInv'
  <2>1. OneUnresolvedAction'
    BY <1>9 DEF OneUnresolvedAction, ClaimRebroadcast
  <2>2. DispatchAccounting'
    BY <1>9 DEF DispatchAccounting, ClaimRebroadcast
  <2>3. RowsOwned'
    BY <1>9 DEF RowsOwned, ClaimRebroadcast
  <2>4. ReconciliationFlagExact'
    BY <1>9 DEF ReconciliationFlagExact, ClaimRebroadcast
  <2>5. StateColumnHonest'
    BY <1>9 DEF StateColumnHonest, ClaimRebroadcast
  <2>6. TerminalIsSettled'
    BY <1>9 DEF TerminalIsSettled, ClaimRebroadcast, StateColumnHonest, LightningLeg, TERMINAL_STATES
  <2>7. OutboxConsistent'
    BY <1>9 DEF OutboxConsistent, ClaimRebroadcast
  <2> QED
    BY <2>1, <2>2, <2>3, <2>4, <2>5, <2>6, <2>7
<1>10. ASSUME NEW s \in Settlements, NEW b \in Blocks, RecordEvmInclusion(s, b)
      PROVE  LedgerInv'
  <2>1. OneUnresolvedAction'
    BY <1>10 DEF OneUnresolvedAction, RecordEvmInclusion
  <2>2. DispatchAccounting'
    BY <1>10 DEF DispatchAccounting, RecordEvmInclusion
  <2>3. RowsOwned'
    BY <1>10 DEF RowsOwned, RecordEvmInclusion
  <2>4. ReconciliationFlagExact'
    BY <1>10 DEF ReconciliationFlagExact, RecordEvmInclusion
  <2>5. StateColumnHonest'
    BY <1>10 DEF StateColumnHonest, RecordEvmInclusion
  <2>6. TerminalIsSettled'
    BY <1>10 DEF TerminalIsSettled, RecordEvmInclusion, StateColumnHonest, LightningLeg, TERMINAL_STATES
  <2>7. OutboxConsistent'
    BY <1>10 DEF OutboxConsistent, RecordEvmInclusion
  <2> QED
    BY <2>1, <2>2, <2>3, <2>4, <2>5, <2>6, <2>7
<1>11. ASSUME NEW s \in Settlements, NEW m \in Methods, MarkUnknown(s, m)
      PROVE  LedgerInv'
  <2>1. OneUnresolvedAction'
    BY <1>11 DEF OneUnresolvedAction, MarkUnknown
  <2>2. DispatchAccounting'
    BY <1>11 DEF DispatchAccounting, MarkUnknown
  <2>3. RowsOwned'
    BY <1>11 DEF RowsOwned, MarkUnknown
  <2>4. ReconciliationFlagExact'
    BY <1>11 DEF ReconciliationFlagExact, MarkUnknown
  <2>5. StateColumnHonest'
    BY <1>11 DEF StateColumnHonest, MarkUnknown, TerminalIsSettled, OneUnresolvedAction, TERMINAL_STATES
  <2>6. TerminalIsSettled'
    BY <1>11 DEF TerminalIsSettled, MarkUnknown, StateColumnHonest, LightningLeg, TERMINAL_STATES
  <2>7. OutboxConsistent'
    BY <1>11 DEF OutboxConsistent, MarkUnknown
  <2> QED
    BY <2>1, <2>2, <2>3, <2>4, <2>5, <2>6, <2>7
<1>12. ASSUME NEW s \in Settlements, NEW m \in Methods, actionState[s][m] \in {"DISPATCHING", "UNKNOWN"}, Resolve(s, m, "CONFIRMED")
      PROVE  LedgerInv'
  <2>1. OneUnresolvedAction'
    BY <1>12 DEF OneUnresolvedAction, Resolve
  <2>2. DispatchAccounting'
    BY <1>12 DEF DispatchAccounting, Resolve
  <2>3. RowsOwned'
    BY <1>12 DEF RowsOwned, Resolve
  <2>4. ReconciliationFlagExact'
    BY <1>12 DEF ReconciliationFlagExact, Resolve, OneUnresolvedAction, TerminalIsSettled
  <2>5. StateColumnHonest'
    BY <1>12 DEF StateColumnHonest, Resolve, TerminalIsSettled, OneUnresolvedAction, TERMINAL_STATES
  <2>6. TerminalIsSettled'
    BY <1>12 DEF TerminalIsSettled, Resolve, StateColumnHonest, LightningLeg, TERMINAL_STATES
  <2>7. OutboxConsistent'
    BY <1>12 DEF OutboxConsistent, Resolve
  <2> QED
    BY <2>1, <2>2, <2>3, <2>4, <2>5, <2>6, <2>7
<1>13. ASSUME NEW s \in Settlements, NEW m \in Methods, actionState[s][m] = "UNKNOWN", Resolve(s, m, "FAILED")
      PROVE  LedgerInv'
  <2>1. OneUnresolvedAction'
    BY <1>13 DEF OneUnresolvedAction, Resolve
  <2>2. DispatchAccounting'
    BY <1>13 DEF DispatchAccounting, Resolve
  <2>3. RowsOwned'
    BY <1>13 DEF RowsOwned, Resolve
  <2>4. ReconciliationFlagExact'
    BY <1>13 DEF ReconciliationFlagExact, Resolve, OneUnresolvedAction, TerminalIsSettled
  <2>5. StateColumnHonest'
    BY <1>13 DEF StateColumnHonest, Resolve, TerminalIsSettled, OneUnresolvedAction, TERMINAL_STATES
  <2>6. TerminalIsSettled'
    BY <1>13 DEF TerminalIsSettled, Resolve, StateColumnHonest, LightningLeg, TERMINAL_STATES
  <2>7. OutboxConsistent'
    BY <1>13 DEF OutboxConsistent, Resolve
  <2> QED
    BY <2>1, <2>2, <2>3, <2>4, <2>5, <2>6, <2>7
<1>14. ASSUME NEW s \in Settlements, RecordRebroadcastResult(s)
      PROVE  LedgerInv'
  <2>1. OneUnresolvedAction'
    BY <1>14 DEF OneUnresolvedAction, RecordRebroadcastResult
  <2>2. DispatchAccounting'
    BY <1>14 DEF DispatchAccounting, RecordRebroadcastResult
  <2>3. RowsOwned'
    BY <1>14 DEF RowsOwned, RecordRebroadcastResult
  <2>4. ReconciliationFlagExact'
    BY <1>14 DEF ReconciliationFlagExact, RecordRebroadcastResult
  <2>5. StateColumnHonest'
    BY <1>14 DEF StateColumnHonest, RecordRebroadcastResult
  <2>6. TerminalIsSettled'
    BY <1>14 DEF TerminalIsSettled, RecordRebroadcastResult, StateColumnHonest, LightningLeg, TERMINAL_STATES
  <2>7. OutboxConsistent'
    BY <1>14 DEF OutboxConsistent, RecordRebroadcastResult
  <2> QED
    BY <2>1, <2>2, <2>3, <2>4, <2>5, <2>6, <2>7
<1>15. ASSUME NEW s \in Settlements, NEW m \in Methods, NEW o, ReconcileUnresolved(s, m, o)
      PROVE  LedgerInv'
  <2>1. OneUnresolvedAction'
    BY <1>15 DEF OneUnresolvedAction, ReconcileUnresolved
  <2>2. DispatchAccounting'
    BY <1>15 DEF DispatchAccounting, ReconcileUnresolved
  <2>3. RowsOwned'
    BY <1>15 DEF RowsOwned, ReconcileUnresolved
  <2>4. ReconciliationFlagExact'
    BY <1>15 DEF ReconciliationFlagExact, ReconcileUnresolved
  <2>5. StateColumnHonest'
    BY <1>15 DEF StateColumnHonest, ReconcileUnresolved
  <2>6. TerminalIsSettled'
    BY <1>15 DEF TerminalIsSettled, ReconcileUnresolved, StateColumnHonest, LightningLeg, TERMINAL_STATES
  <2>7. OutboxConsistent'
    BY <1>15 DEF OutboxConsistent, ReconcileUnresolved
  <2> QED
    BY <2>1, <2>2, <2>3, <2>4, <2>5, <2>6, <2>7
<1>16. ASSUME NEW s \in Settlements, NEW m \in Methods, NEW o, ReconcileMismatch(s, m, o)
      PROVE  LedgerInv'
  <2>1. OneUnresolvedAction'
    BY <1>16 DEF OneUnresolvedAction, ReconcileMismatch, Mismatch
  <2>2. DispatchAccounting'
    BY <1>16 DEF DispatchAccounting, ReconcileMismatch, Mismatch
  <2>3. RowsOwned'
    BY <1>16 DEF RowsOwned, ReconcileMismatch, Mismatch
  <2>4. ReconciliationFlagExact'
    BY <1>16 DEF ReconciliationFlagExact, ReconcileMismatch, Mismatch
  <2>5. StateColumnHonest'
    BY <1>16 DEF StateColumnHonest, ReconcileMismatch, Mismatch, TerminalIsSettled, OneUnresolvedAction, TERMINAL_STATES
  <2>6. TerminalIsSettled'
    BY <1>16 DEF TerminalIsSettled, ReconcileMismatch, Mismatch, StateColumnHonest, LightningLeg, TERMINAL_STATES
  <2>7. OutboxConsistent'
    BY <1>16 DEF OutboxConsistent, ReconcileMismatch, Mismatch
  <2> QED
    BY <2>1, <2>2, <2>3, <2>4, <2>5, <2>6, <2>7
<1>17. CASE RecoverInterruptedActions
  <2>1. OneUnresolvedAction'
    BY <1>17 DEF OneUnresolvedAction, RecoverInterruptedActions
  <2>2. DispatchAccounting'
    BY <1>17 DEF DispatchAccounting, RecoverInterruptedActions
  <2>3. RowsOwned'
    BY <1>17 DEF RowsOwned, RecoverInterruptedActions
  <2>4. ReconciliationFlagExact'
    <3> SUFFICES ASSUME NEW s \in Settlements
                 PROVE  /\ Unknown(s)' # {} => reconciliationRequired'[s]
                        /\ reconciliationRequired'[s] /\ haltCode'[s] = None => Unknown(s)' # {}
      BY DEF ReconciliationFlagExact
    <3>1. CASE Interrupted(s) = {}
      <4>1. /\ \A m \in Methods : actionState'[s][m] = actionState[s][m]
            /\ haltCode'[s] = haltCode[s]
        BY <1>17, <3>1 DEF RecoverInterruptedActions
      <4>2. reconciliationRequired'[s] <=> reconciliationRequired[s]
        BY <1>17, <3>1, Zenon DEF RecoverInterruptedActions
      <4> QED
        BY <4>1, <4>2 DEF ReconciliationFlagExact
    <3>2. CASE Interrupted(s) # {}
      BY <1>17, <3>2 DEF RecoverInterruptedActions
    <3> QED
      BY <3>1, <3>2
  <2>5. StateColumnHonest'
    BY <1>17 DEF StateColumnHonest, RecoverInterruptedActions, TerminalIsSettled, OneUnresolvedAction, TERMINAL_STATES
  <2>6. TerminalIsSettled'
    <3>1. ASSUME NEW s \in Settlements, terminalState[s] # None
          PROVE  /\ actionState'[s] = actionState[s]
                 /\ reconciliationRequired'[s] = reconciliationRequired[s]
      <4>1. Interrupted(s) = {}
        BY <3>1 DEF TerminalIsSettled
      <4> QED
        BY <1>17, <4>1 DEF RecoverInterruptedActions
    <3>2. ASSUME NEW s \in Settlements, terminalState[s] # None
          PROVE  /\ Pending(s)' = {}
                 /\ ~reconciliationRequired'[s] /\ haltCode'[s] = None
                 /\ terminalState'[s] = "COMPLETED" => actionState'[s][LightningLeg(s)'] = "CONFIRMED"
                 /\ terminalState'[s] = "REFUNDED"  => actionState'[s][LightningLeg(s)'] # "CONFIRMED"
      <4>1. LightningLeg(s)' = LightningLeg(s) /\ UNCHANGED closing
        BY <1>17 DEF RecoverInterruptedActions, LightningLeg
      <4> QED
        BY <3>1, <3>2, <4>1 DEF TerminalIsSettled
    <3> QED
      BY <1>17, <3>2 DEF TerminalIsSettled, RecoverInterruptedActions
  <2>7. OutboxConsistent'
    BY <1>17 DEF OutboxConsistent, RecoverInterruptedActions
  <2> QED
    BY <2>1, <2>2, <2>3, <2>4, <2>5, <2>6, <2>7
<1>18. CASE UNCHANGED ledgerVars
  <2>1. OneUnresolvedAction'
    BY <1>18 DEF OneUnresolvedAction, ledgerVars
  <2>2. DispatchAccounting'
    BY <1>18 DEF DispatchAccounting, ledgerVars
  <2>3. RowsOwned'
    BY <1>18 DEF RowsOwned, ledgerVars
  <2>4. ReconciliationFlagExact'
    BY <1>18 DEF ReconciliationFlagExact, ledgerVars
  <2>5. StateColumnHonest'
    BY <1>18 DEF StateColumnHonest, ledgerVars
  <2>6. TerminalIsSettled'
    BY <1>18 DEF TerminalIsSettled, ledgerVars, StateColumnHonest, LightningLeg, TERMINAL_STATES
  <2>7. OutboxConsistent'
    BY <1>18 DEF OutboxConsistent, ledgerVars
  <2> QED
    BY <2>1, <2>2, <2>3, <2>4, <2>5, <2>6, <2>7
<1>19. ASSUME NEW s \in Settlements, NEW r \in HaltCodes, HaltSettlement(s, r)
      PROVE  LedgerInv'
  <2>1. OneUnresolvedAction'
    BY <1>19 DEF OneUnresolvedAction, HaltSettlement
  <2>2. DispatchAccounting'
    BY <1>19 DEF DispatchAccounting, HaltSettlement
  <2>3. RowsOwned'
    BY <1>19 DEF RowsOwned, HaltSettlement
  <2>4. ReconciliationFlagExact'
    BY <1>19 DEF ReconciliationFlagExact, HaltSettlement
  <2>5. StateColumnHonest'
    BY <1>19 DEF StateColumnHonest, HaltSettlement, TerminalIsSettled, OneUnresolvedAction, TERMINAL_STATES
  <2>6. TerminalIsSettled'
    BY <1>19 DEF TerminalIsSettled, HaltSettlement, StateColumnHonest, LightningLeg, TERMINAL_STATES
  <2>7. OutboxConsistent'
    BY <1>19 DEF OutboxConsistent, HaltSettlement
  <2> QED
    BY <2>1, <2>2, <2>3, <2>4, <2>5, <2>6, <2>7
<1>20. ASSUME NEW s \in Settlements, NEW t \in TERMINAL_STATES, RecordTerminal(s, t)
      PROVE  LedgerInv'
  <2>1. OneUnresolvedAction'
    BY <1>20 DEF OneUnresolvedAction, RecordTerminal
  <2>2. DispatchAccounting'
    BY <1>20 DEF DispatchAccounting, RecordTerminal
  <2>3. RowsOwned'
    BY <1>20 DEF RowsOwned, RecordTerminal, TERMINAL_STATES
  <2>4. ReconciliationFlagExact'
    BY <1>20 DEF ReconciliationFlagExact, RecordTerminal
  <2>5. StateColumnHonest'
    BY <1>20 DEF StateColumnHonest, RecordTerminal, TerminalIsSettled, OneUnresolvedAction, TERMINAL_STATES, None, LightningLeg
  <2>6. TerminalIsSettled'
    BY <1>20 DEF TerminalIsSettled, RecordTerminal, StateColumnHonest, LightningLeg, TERMINAL_STATES
  <2>7. OutboxConsistent'
    BY <1>20 DEF OutboxConsistent, RecordTerminal
  <2> QED
    BY <2>1, <2>2, <2>3, <2>4, <2>5, <2>6, <2>7
<1> QED
  BY <1>1, <1>2, <1>3, <1>4, <1>5, <1>6, <1>7, <1>8, <1>9, <1>10,
     <1>11, <1>12, <1>13, <1>14, <1>15, <1>16, <1>17, <1>18, <1>19, <1>20
     DEF LedgerNext, RecordConfirmed, RecordAmbiguous, RecoverInterruptedAction, ReconcileResolved

\* The empty ledger satisfies the inductive invariant.
LEMMA LedgerInvInit == LedgerInit => LedgerInv
<1> SUFFICES ASSUME LedgerInit PROVE LedgerInv
  OBVIOUS
<1> USE ConstantsAssumption DEF LedgerInit
<1>1. EvmClaim \in Methods
  BY DEF Methods
<1>2. TypeOK
  BY DEF TypeOK, ActionStates, TransactionStates
<1>3. OneUnresolvedAction /\ DispatchAccounting /\ RowsOwned
  BY DEF OneUnresolvedAction, DispatchAccounting, RowsOwned, Pending, Unresolved
<1>4. ReconciliationFlagExact /\ StateColumnHonest /\ TerminalIsSettled
  BY DEF ReconciliationFlagExact, StateColumnHonest, TerminalIsSettled, Unknown, Interrupted,
         TERMINAL_STATES
<1>5. OutboxConsistent
  <2>1. \A s \in Settlements : /\ sends[s][EvmClaim] = 0 /\ broadcastCount[s] = 0
                               /\ actionState[s][EvmClaim] = "ABSENT" /\ txState[s] = "ABSENT"
    BY <1>1
  <2>2. ~(0 > 0)
    OBVIOUS
  <2> QED
    BY <2>1, <2>2, Zenon DEF OutboxConsistent
<1> QED
  BY <1>2, <1>3, <1>4, <1>5 DEF LedgerInv

\* The inductive invariant holds in every reachable state of the ledger.
THEOREM LedgerInvariant == LedgerSpec => []LedgerInv
  BY LedgerInvInit, LedgerInvStep, PTL DEF LedgerSpec

\* The columns of the three tables always have the types of the schema.
THEOREM LedgerTypeCorrect == LedgerSpec => []TypeOK
<1>1. LedgerInv => TypeOK
  BY DEF LedgerInv
<1> QED
  BY <1>1, LedgerInvariant, PTL

\* For a payment hash, each Lightning side effect is authorised at most once, over
\* all settlements and whatever crashes, recoveries and reconciliations happen.
THEOREM DispatchSafety == LedgerSpec => []AtMostOneDispatch
<1>1. LedgerInv => AtMostOneDispatch
  <2> SUFFICES ASSUME LedgerInv, NEW s \in Settlements, NEW t \in Settlements,
                      NEW m \in LightningMethods
               PROVE  /\ sends[s][m] <= 1
                      /\ sends[s][m] = 1 /\ sends[t][m] = 1 /\ paymentHash[s] = paymentHash[t]
                           => s = t
    BY DEF AtMostOneDispatch
  <2>1. m \in Methods /\ m # EvmClaim
    BY DEF Methods, LightningMethods, EvmClaim, AddHoldInvoice, SettleInvoice, CancelInvoice,
           SendPaymentV2
  <2>2. \A u \in Settlements : sends[u][m] = dispatchCount[u][m] /\ dispatchCount[u][m] \in 0..1
    BY <2>1 DEF LedgerInv, TypeOK, DispatchAccounting
  <2>3. \A u \in Settlements : sends[u][m] = 1 => paymentHash[u] # None
    BY <2>1, <2>2 DEF LedgerInv, DispatchAccounting, RowsOwned
  <2> QED
    BY <2>2, <2>3 DEF LedgerInv, RowsOwned
<1> QED
  BY <1>1, LedgerInvariant, PTL

\* A terminal settlement is settled: nothing unresolved, and COMPLETED or REFUNDED
\* agree with its decisive Lightning leg.
THEOREM TerminalSafety == LedgerSpec => []TerminalIsSettled
<1>1. LedgerInv => TerminalIsSettled
  BY DEF LedgerInv
<1> QED
  BY <1>1, LedgerInvariant, PTL

\* Money moves only for settlements whose reservation was recorded first.
THEOREM ReservationSafety == LedgerSpec => []ReservedBeforeMoney
<1>1. LedgerInv => ReservedBeforeMoney
  <2> SUFFICES ASSUME LedgerInv, NEW s \in Settlements, NEW m \in METHODS_REQUIRING_RESERVATION,
                      sends[s][m] > 0
               PROVE  reservation[s] /\ contractIntent[s]
    BY DEF ReservedBeforeMoney
  <2>1. m \in Methods
    BY DEF METHODS_REQUIRING_RESERVATION, Methods, LightningMethods
  <2>2. actionState[s][m] # "ABSENT"
    <3>1. CASE m = EvmClaim
      BY <2>1, <3>1 DEF LedgerInv, TypeOK, OutboxConsistent
    <3>2. CASE m # EvmClaim
      BY <2>1, <3>2 DEF LedgerInv, TypeOK, DispatchAccounting
    <3> QED
      BY <3>1, <3>2
  <2> QED
    BY <2>1, <2>2 DEF LedgerInv, RowsOwned
<1> QED
  BY <1>1, LedgerInvariant, PTL

-------------------------------------------------------------------------------
(* The daemon over the ledger. *)

StepKinds ==
  {"IDLE", "RECOVER_INTERRUPTED_ACTION", "RECONCILE_ACTION", "HALT_REQUIRED", "WAIT_FOR_RESERVATION",
   "PLAN_LIGHTNING_ACTION", "AUTHORIZE_AND_DISPATCH_LIGHTNING", "VERIFY_REFUND_AND_RECONCILE",
   "RECOVER_PAYMENT_PROOF_AND_PREPARE_EVM_CLAIM", "PREPARE_EVM_CLAIM_TRANSACTION",
   "DISPATCH_EVM_CLAIM", "VERIFY_BOTH_ASSETS_AND_COMPLETE", "WAIT_FOR_BIT_CLAIM_AND_RECONCILE",
   "DONE", "HALTED"}
Phases == {"idle", "begun", "evidence", "authorized", "claimed", "sent", "observed", "included",
           "proof", "planned"}
PaymentStates == {"NOT_FOUND", "OPEN", "ACCEPTED", "SETTLED", "CANCELED", "IN_FLIGHT", "SUCCEEDED",
                  "FAILED"}

\* What the policy lets an envelope of this settlement expire at.
Expiries == {e \in Nat : e < LightningActionDeadline + AuthorizationLifetime}

Seen == (ObservedStates \cup TERMINAL_STATES \cup {"RESERVED", None}) \X (Blocks \cup Expiries \cup {None})
JobRecords == [for : Settlements \cup {None}, kind : StepKinds, method : Methods \cup {None},
               phase : Phases, seen : Seen]

\* The types of a process' step and of the world; every request in transit is one
\* that was signed before the Lightning deadline.
DaemonTypeOK ==
  /\ job \in [Workers -> JobRecords]
  /\ transit \in [Settlements -> Seq(Expiries)]
  /\ executed \in [Settlements -> Nat]
  /\ payment \in [Settlements -> PaymentStates]
  /\ escrow \in [Settlements -> {"NONE", "RESERVED", "CLAIMED", "REFUNDED"}]
  /\ claimTx \in [Settlements -> {"NONE", "MEMPOOL", "CLAIMING", "CLAIMED", "REVERTING", "REVERTED"}]
  /\ claimBlock \in [Settlements -> Blocks \cup {None}]
  /\ clock \in [Settlements -> Nat]

Dispatched(s, m) == actionState[s][m] \notin {"ABSENT", "PENDING"}
Requests(s) == Len(transit[s]) + executed[s]
BitClaimed(s) == escrow[s] = "CLAIMED" /\ claimTx[s] # "CLAIMING"

\* Only the methods of the settlement's own direction are ever planned.
OwnMethods(s) ==
  \A m \in Methods : actionState[s][m] # "ABSENT" =>
    m = LightningLeg(s) \/ (m = EvmClaim /\ direction[s] = "bit-to-lightning")

\* A request exists only once the leg was dispatched, exists once, and was authorised by a
\* reservation; a payment the node knows of is the one it performed.
RequestAccounted(s) ==
  /\ Requests(s) <= 1
  /\ Requests(s) > 0 => Dispatched(s, LightningLeg(s)) /\ escrow[s] # "NONE"
  /\ payment[s] \in {"IN_FLIGHT", "SUCCEEDED", "FAILED"} => executed[s] = 1
  /\ ~Exists(s) => payment[s] = "NOT_FOUND"

\* A refund waits for its deadline, a successful claim transaction moved the BIT.
ChainConsistent(s) ==
  /\ escrow[s] = "REFUNDED" => clock[s] >= EvmRefundAt
  /\ claimTx[s] \in {"CLAIMING", "CLAIMED"} => escrow[s] = "CLAIMED"

\* What the rows of a settlement say is so in the world.
RowsTrue(s) ==
  /\ actionState[s][LightningLeg(s)] = "CONFIRMED" => Paid(s)
  /\ actionState[s][LightningLeg(s)] = "FAILED" => Unpaid(s)
  /\ actionState[s][EvmClaim] = "CONFIRMED" => claimTx[s] = "CLAIMED"
  /\ actionState[s][EvmClaim] = "FAILED" => claimTx[s] = "REVERTED"
  /\ terminalState[s] \in {None, "COMPLETED", "REFUNDED"}
  /\ terminalState[s] = "COMPLETED" => Paid(s) /\ BitClaimed(s)
  /\ terminalState[s] = "REFUNDED" =>
       escrow[s] = "REFUNDED" /\ actionState[s][LightningLeg(s)] = "FAILED"

\* An observation of the node or of the claim transaction that proves something still does.
ObservationTrue(s, m, observed) ==
  IF m = EvmClaim
  THEN /\ observed \in {"REORGED", "NOT_FOUND", "LOCKED", "INCLUDED", "CLAIMED", "REVERTED"}
       /\ observed = "CLAIMED" => claimTx[s] = "CLAIMED"
       /\ observed = "REVERTED" => claimTx[s] = "REVERTED"
  ELSE /\ observed \in PaymentStates
       /\ observed \in {"SUCCEEDED", "SETTLED", "FAILED", "CANCELED"} => payment[s] = observed

\* What process w knows about the settlement it works on is still true.
KnowledgeOf(w, s) ==
  /\ Exists(s)
  /\ job[w].kind = "AUTHORIZE_AND_DISPATCH_LIGHTNING" /\ job[w].phase \in {"authorized", "claimed", "sent"}
       => escrow[s] # "NONE"
  /\ At(w, s, "AUTHORIZE_AND_DISPATCH_LIGHTNING", "claimed")
       => job[w].seen[2] \in Expiries /\ Requests(s) = 0 /\ Dispatched(s, LightningLeg(s))
  /\ job[w].kind \in {"RECOVER_INTERRUPTED_ACTION", "RECONCILE_ACTION"}
       => job[w].method \in Planned(s)
  /\ job[w].kind = "RECONCILE_ACTION" /\ job[w].phase \in {"observed", "included"}
       => job[w].seen[2] \in Blocks \cup {None} /\ ObservationTrue(s, job[w].method, job[w].seen[1])
  /\ job[w].kind = "RECOVER_PAYMENT_PROOF_AND_PREPARE_EVM_CLAIM" /\ job[w].phase \in {"proof", "planned"}
       => actionState[s][SendPaymentV2] = "CONFIRMED"
  /\ job[w].kind = "VERIFY_REFUND_AND_RECONCILE" => actionState[s][LightningLeg(s)] = "FAILED"
  /\ job[w].phase = "evidence" /\ job[w].kind # "WAIT_FOR_RESERVATION"
       => \/ job[w].seen[1] = "COMPLETED" /\ Paid(s) /\ BitClaimed(s)
          \/ /\ job[w].seen[1] = "REFUNDED" /\ escrow[s] = "REFUNDED"
             /\ actionState[s][LightningLeg(s)] = "FAILED"

KnowledgeTrue(w) == job[w] # Idle => job[w].for \in Settlements /\ KnowledgeOf(w, job[w].for)

\* One process at a time is between its claim of the leg and the send.
OneClaimant ==
  \A s \in Settlements, v, w \in Workers :
    /\ At(v, s, "AUTHORIZE_AND_DISPATCH_LIGHTNING", "claimed")
    /\ At(w, s, "AUTHORIZE_AND_DISPATCH_LIGHTNING", "claimed")
    => v = w

\* The inductive invariant of the daemon.
DaemonInv ==
  /\ LedgerInv
  /\ DaemonTypeOK
  /\ \A s \in Settlements :
       OwnMethods(s) /\ RequestAccounted(s) /\ ChainConsistent(s) /\ RowsTrue(s)
  /\ \A w \in Workers : KnowledgeTrue(w)
  /\ OneClaimant

-------------------------------------------------------------------------------
\* The daemon calls the store only through its methods: every step of a process or of the
\* world is one transaction of the ledger, or none.
LEMMA DaemonLedgerStep == DaemonInv /\ [DaemonNext]_daemonVars => [LedgerNext]_ledgerVars
<1> SUFFICES ASSUME DaemonInv, [DaemonNext]_daemonVars PROVE [LedgerNext]_ledgerVars
  OBVIOUS
<1>a. /\ SettleInvoice \in PlannedMethods /\ SendPaymentV2 \in PlannedMethods
      /\ EvmClaim \in PlannedMethods
      /\ \A s : LightningLeg(s) \in PlannedMethods
  BY DaemonAssumption DEF LightningLeg
<1>b. ASSUME NEW s \in Settlements, NEW m \in Planned(s) PROVE m \in PlannedMethods
  BY <1>a, <1>b DEF DaemonInv, OwnMethods, Planned
<1>1. CASE UNCHANGED daemonVars
  BY <1>1 DEF daemonVars
<1>2. ASSUME NEW w \in Workers, Abort(w) \/ Restart(w) PROVE [LedgerNext]_ledgerVars
  BY <1>2 DEF Abort, Restart, LedgerNext
<1>3. ASSUME NEW w \in Workers, NEW s \in Settlements, WorkerStep(w, s) PROVE [LedgerNext]_ledgerVars
  <2>1. CASE StartStep(w, s) \/ ObserveReservation(w, s) \/ AuthorizeLightning(w, s) \/ SendLightning(w, s)
             \/ ObserveLightning(w, s) \/ ObserveClaim(w, s) \/ ReadPaymentProof(w, s)
             \/ AuthorizeClaim(w, s) \/ SendClaim(w, s) \/ VerifyAssets(w, s)
    <3>1. UNCHANGED ledgerVars
      BY <2>1 DEF StartStep, ObserveReservation, AuthorizeLightning, SendLightning, ObserveLightning,
                  ObserveClaim, ReadPaymentProof, AuthorizeClaim, SendClaim, VerifyAssets
    <3> QED
      BY <3>1
  <2>2. CASE RecordObservedReservation(w, s)
    BY <2>2 DEF RecordObservedReservation, LedgerNext
  <2>3. CASE HaltOnEvidence(w, s) \/ HaltRequired(w, s)
    <3>1. \A k \in DOMAIN EvidenceHalt : EvidenceHalt[k] \in HaltCodes
      BY DaemonAssumption DEF EvidenceHalt
    <3>2. \E r \in HaltCodes : HaltSettlement(s, r)
      BY <2>3, <3>1, DaemonAssumption DEF HaltOnEvidence, HaltRequired
    <3> QED
      BY <3>2 DEF LedgerNext
  <2>4. CASE PlanLightningAction(w, s) \/ ClaimLightning(w, s) \/ ConfirmLightning(w, s)
             \/ LightningAmbiguous(w, s)
    BY <2>4, <1>a DEF PlanLightningAction, ClaimLightning, ConfirmLightning, LightningAmbiguous, LedgerNext
  <2>5. CASE RecoverInterrupted(w, s)
    <3>1. job[w].method \in PlannedMethods
      BY <2>5, <1>b DEF RecoverInterrupted, At, Idle, DaemonInv, KnowledgeTrue, KnowledgeOf
    <3> QED
      BY <2>5, <3>1 DEF RecoverInterrupted, LedgerNext
  <2>6. CASE RecordObservedInclusion(w, s)
    <3>1. job[w].seen[2] \in Blocks
      BY <2>6 DEF RecordObservedInclusion, At, Idle, DaemonInv, KnowledgeTrue, KnowledgeOf
    <3> QED
      BY <2>6, <3>1 DEF RecordObservedInclusion, LedgerNext
  <2>7. CASE ReconcileObserved(w, s)
    <3>1. job[w].method \in PlannedMethods
      BY <2>7, <1>b DEF ReconcileObserved, At, Idle, DaemonInv, KnowledgeTrue, KnowledgeOf
    <3>2. job[w].seen[1] \in ObservedStates
      BY <2>7 DEF ReconcileObserved, At, Idle, DaemonInv, KnowledgeTrue, KnowledgeOf, ObservationTrue,
                  PaymentStates, ObservedStates
    <3> QED
      BY <2>7, <3>1, <3>2 DEF ReconcileObserved, ReconcileAction, LedgerNext
  <2>8. CASE PlanClaim(w, s) \/ BindClaim(w, s) \/ ClaimBroadcast(w, s) \/ RecordBroadcast(w, s)
    BY <2>8, <1>a DEF PlanClaim, BindClaim, ClaimBroadcast, RecordBroadcast, LedgerNext
  <2>9. CASE RecordVerifiedTerminal(w, s)
    <3>1. job[w].seen[1] \in TERMINAL_STATES
      BY <2>9 DEF RecordVerifiedTerminal, Idle, DaemonInv, KnowledgeTrue, KnowledgeOf, TERMINAL_STATES
    <3> QED
      BY <2>9, <3>1 DEF RecordVerifiedTerminal, LedgerNext
  <2> QED
    BY <1>3, <2>1, <2>2, <2>3, <2>4, <2>5, <2>6, <2>7, <2>8, <2>9 DEF WorkerStep
<1>4. ASSUME NEW s \in Settlements, WorldStep(s) PROVE [LedgerNext]_ledgerVars
  <2>1. CASE \E h \in PaymentHashes, d \in Directions : AcceptHandoff(s, h, d)
    BY <2>1 DEF AcceptHandoff, LedgerNext
  <2>2. CASE BindHandoff(s)
    BY <2>2 DEF BindHandoff, LedgerNext
  <2>3. CASE UNCHANGED ledgerVars
    BY <2>3
  <2> QED
    BY <1>4, <2>1, <2>2, <2>3
       DEF WorldStep, ReserveOnChain, AdapterExecutes, RequestLost, LightningProgress, TimePasses,
           RelayerClaims, RefundOnChain, MineClaim, FinalizeClaim, ReorgClaim, DropClaim
<1> QED
  BY <1>1, <1>2, <1>3, <1>4 DEF DaemonNext

-------------------------------------------------------------------------------
\* What the ledger never takes back: a settlement's existence and direction, a planned
\* action, the permission given for it, its verdict and the settlement's outcome.
LedgerKeeps(s) ==
  /\ Exists(s) => state'[s] # "ABSENT" /\ direction'[s] = direction[s]
  /\ ~Exists(s) => actionState'[s] = actionState[s]
  /\ \A m \in Methods :
       /\ actionState[s][m] # "ABSENT" => actionState'[s][m] # "ABSENT"
       /\ Dispatched(s, m) => actionState'[s][m] \notin {"ABSENT", "PENDING"}
       /\ actionState[s][m] \in {"CONFIRMED", "FAILED"} => actionState'[s][m] = actionState[s][m]
  /\ terminalState[s] # None => terminalState'[s] = terminalState[s]

\* No method of the store takes any of it back.
LEMMA LedgerKeepsStep ==
  ASSUME LedgerInv, [LedgerNext]_ledgerVars, NEW s \in Settlements
  PROVE  LedgerKeeps(s)
<1>c. EvmClaim \in Methods
  BY DEF Methods
<1>t. TypeOK
  BY DEF LedgerInv
<1>r. ~Exists(s) => \A m \in Methods : actionState[s][m] = "ABSENT"
  BY DEF LedgerInv, RowsOwned, Exists
<1> USE <1>t, <1>c, <1>r
    DEF LedgerKeeps, Exists, Dispatched, TypeOK, terms, closing, outbox, bindings, evmTx, Methods
<1>1. CASE UNCHANGED ledgerVars
  BY <1>1 DEF ledgerVars
<1>2. ASSUME NEW r \in Settlements, NEW h \in PaymentHashes, NEW d \in Directions, AcceptSettlement(r, h, d)
      PROVE  LedgerKeeps(s)
  BY <1>2 DEF AcceptSettlement
<1>3. ASSUME NEW r \in Settlements, BindContractIntent(r) \/ BindSettlementExecutionPolicy(r) \/ RecordReservation(r)
      PROVE  LedgerKeeps(s)
  BY <1>3 DEF BindContractIntent, BindSettlementExecutionPolicy, RecordReservation
<1>4. ASSUME NEW r \in Settlements, NEW m \in Methods, PlanAction(r, m) PROVE LedgerKeeps(s)
  BY <1>4 DEF PlanAction
<1>5. ASSUME NEW r \in Settlements, NEW m \in Methods, ClaimAction(r, m) PROVE LedgerKeeps(s)
  BY <1>5 DEF ClaimAction, MarkDispatching
<1>6. ASSUME NEW r \in Settlements, BindEvmTransaction(r) \/ ClaimRebroadcast(r) \/ RecordRebroadcastResult(r)
      PROVE  LedgerKeeps(s)
  BY <1>6 DEF BindEvmTransaction, ClaimRebroadcast, Broadcast, RecordRebroadcastResult
<1>7. ASSUME NEW r \in Settlements, ClaimFirstBroadcast(r) PROVE LedgerKeeps(s)
  BY <1>7 DEF ClaimFirstBroadcast, MarkDispatching, Broadcast
<1>8. ASSUME NEW r \in Settlements, NEW m \in Methods, MarkUnknown(r, m) PROVE LedgerKeeps(s)
  BY <1>8 DEF MarkUnknown, SetTransaction
<1>9. ASSUME NEW r \in Settlements, NEW m \in Methods, NEW v \in {"CONFIRMED", "FAILED"},
             actionState[r][m] \in {"DISPATCHING", "UNKNOWN"}, Resolve(r, m, v)
      PROVE  LedgerKeeps(s)
  BY <1>9 DEF Resolve, SetTransaction
<1>10. ASSUME RecoverInterruptedActions PROVE LedgerKeeps(s)
  BY <1>10 DEF RecoverInterruptedActions, Interrupted
<1>11. ASSUME NEW r \in Settlements, NEW m \in Methods, NEW o,
              ReconcileUnresolved(r, m, o) \/ ReconcileMismatch(r, m, o)
       PROVE  LedgerKeeps(s)
  BY <1>11 DEF ReconcileUnresolved, ReconcileMismatch, SetTransaction
<1>12. ASSUME NEW r \in Settlements, NEW c \in HaltCodes, HaltSettlement(r, c) PROVE LedgerKeeps(s)
  BY <1>12 DEF HaltSettlement
<1>13. ASSUME NEW r \in Settlements, NEW t \in TERMINAL_STATES, RecordTerminal(r, t) PROVE LedgerKeeps(s)
  BY <1>13 DEF RecordTerminal, Closed, TERMINAL_STATES
<1>14. PlannedMethods \subseteq Methods
  BY ConstantsAssumption
<1>15. ASSUME NEW r \in Settlements, NEW b \in Blocks, RecordEvmInclusion(r, b) PROVE LedgerKeeps(s)
  BY <1>15 DEF RecordEvmInclusion
<1> HIDE DEF LedgerKeeps, Exists, Dispatched, TypeOK, terms, closing, outbox, bindings, evmTx, Methods
<1> QED
  BY <1>1, <1>2, <1>3, <1>4, <1>5, <1>6, <1>7, <1>8, <1>9, <1>10, <1>11, <1>12, <1>13, <1>14, <1>15
     DEF LedgerNext, RecordConfirmed, RecordAmbiguous, RecoverInterruptedAction, ReconcileResolved

-------------------------------------------------------------------------------
\* What a process knows when it starts a step: the planner's choice is a known kind of step,
\* its method is one that is in the state the kind is about, and a refund is verified only
\* after the leg failed.
LEMMA StartStepFacts ==
  ASSUME NEW w \in Workers, NEW s \in Settlements, StartStep(w, s)
  PROVE  LET kind == ClassifySolverDaemonStep(s) IN
         /\ kind \in StepKinds
         /\ StepMethod(s, kind) \in Methods
         /\ kind = "RECOVER_INTERRUPTED_ACTION" => StepMethod(s, kind) \in Interrupted(s)
         /\ kind = "RECONCILE_ACTION" => StepMethod(s, kind) \in Unknown(s)
         /\ kind = "VERIFY_REFUND_AND_RECONCILE" => actionState[s][LightningLeg(s)] = "FAILED"
<1> DEFINE kind == ClassifySolverDaemonStep(s)
<1>1. /\ PaymentDirectionStep(s) \in StepKinds \ {"RECOVER_INTERRUPTED_ACTION", "RECONCILE_ACTION"}
      /\ PaymentDirectionStep(s) = "VERIFY_REFUND_AND_RECONCILE" => actionState[s][SendPaymentV2] = "FAILED"
  BY DEF PaymentDirectionStep, StepKinds
<1>2. /\ InvoiceDirectionStep(s) \in StepKinds \ {"RECOVER_INTERRUPTED_ACTION", "RECONCILE_ACTION"}
      /\ InvoiceDirectionStep(s) = "VERIFY_REFUND_AND_RECONCILE" => actionState[s][SettleInvoice] = "FAILED"
  BY DEF InvoiceDirectionStep, StepKinds
<1>3. /\ kind \in StepKinds
      /\ kind = "RECOVER_INTERRUPTED_ACTION" => Interrupted(s) # {}
      /\ kind = "RECONCILE_ACTION" => Unknown(s) # {}
      /\ kind = "VERIFY_REFUND_AND_RECONCILE" => actionState[s][LightningLeg(s)] = "FAILED"
  BY <1>1, <1>2 DEF ClassifySolverDaemonStep, StepKinds, LightningLeg
<1>4. kind = "RECOVER_INTERRUPTED_ACTION" => StepMethod(s, kind) \in Interrupted(s)
  BY <1>3 DEF StepMethod, Interrupted
<1>5. kind = "RECONCILE_ACTION" => StepMethod(s, kind) \in Unknown(s)
  BY <1>3 DEF StepMethod, Unknown
<1>6. StepMethod(s, kind) \in Methods
  <2>1. LightningLeg(s) \in Methods /\ EvmClaim \in Methods
    BY DEF LightningLeg, Methods, LightningMethods
  <2> QED
    BY <1>4, <1>5, <2>1 DEF StepMethod, Interrupted, Unknown
<1> QED
  BY <1>3, <1>4, <1>5, <1>6

\* What both providers agree on about the claim transaction is true when they say it.
LEMMA ClaimObservationFacts ==
  ASSUME DaemonInv, NEW s \in Settlements
  PROVE  /\ ClaimObservation(s) \in Seen
         /\ ClaimObservation(s)[2] \in Blocks \cup {None}
         /\ ObservationTrue(s, EvmClaim, ClaimObservation(s)[1])
<1> DEFINE o == ClaimObservation(s)
<1>1. /\ claimTx[s] \in {"NONE", "MEMPOOL", "CLAIMING", "CLAIMED", "REVERTING", "REVERTED"}
      /\ claimBlock[s] \in Blocks \cup {None}
      /\ inclusion[s] \in Blocks \cup {None}
  BY DEF DaemonInv, DaemonTypeOK, LedgerInv, TypeOK
<1>2. \/ o = <<"REORGED", None>>
      \/ o = <<"NOT_FOUND", None>>
      \/ o = <<"LOCKED", None>>
      \/ o = <<"INCLUDED", claimBlock[s]>>
      \/ o = <<"CLAIMED", claimBlock[s]>> /\ claimTx[s] = "CLAIMED"
      \/ o = <<"REVERTED", claimBlock[s]>> /\ claimTx[s] = "REVERTED"
  BY <1>1 DEF ClaimObservation
<1> QED
  BY <1>1, <1>2 DEF Seen, ObservedStates, ObservationTrue

\* An envelope signed before the Lightning deadline expires within its lifetime of it.
LEMMA LiveExpiry ==
  ASSUME DaemonTypeOK, NEW s \in Settlements, AuthorizationLive(s)
  PROVE  EnvelopeExpiry(s) \in Expiries
  BY DeadlineAssumption DEF DaemonTypeOK, AuthorizationLive, EnvelopeExpiry, Expiries

\* A process that goes on with its step keeps a well-formed record of it.
LEMMA AdvanceType ==
  ASSUME DaemonTypeOK, NEW w \in Workers, NEW phase \in Phases, NEW seen \in Seen,
         Advance(w, phase, seen) \/ Return(w)
  PROVE  job' \in [Workers -> JobRecords]
<1>1. job[w] \in JobRecords
  BY DEF DaemonTypeOK
<1>2. [for |-> job[w].for, kind |-> job[w].kind, method |-> job[w].method, phase |-> phase,
       seen |-> seen] \in JobRecords
  BY <1>1 DEF JobRecords
<1>3. Idle \in JobRecords
  BY DEF Idle, JobRecords, StepKinds, Phases, Seen
<1> QED
  BY <1>2, <1>3 DEF DaemonTypeOK, Advance, Return

\* Taking the first request off a queue.
LEMMA TakeFirst ==
  ASSUME NEW S, NEW q \in Seq(S), q # <<>>
  PROVE  Tail(q) \in Seq(S) /\ Len(Tail(q)) = Len(q) - 1 /\ Len(q) >= 1 /\ Head(q) \in S
  OBVIOUS

\* The worker steps after which nothing outside the coordinator has changed.
LEMMA QuietWorkerStep ==
  ASSUME NEW w \in Workers, NEW s \in Settlements, WorkerStep(w, s),
         ~SendLightning(w, s), ~SendClaim(w, s)
  PROVE  UNCHANGED world
  BY DEF WorkerStep, StartStep, ObserveReservation, RecordObservedReservation, HaltOnEvidence, HaltRequired,
         PlanLightningAction, AuthorizeLightning, ClaimLightning, ConfirmLightning, LightningAmbiguous,
         RecoverInterrupted, ObserveLightning, ObserveClaim, RecordObservedInclusion, ReconcileObserved,
         ReadPaymentProof, PlanClaim, BindClaim, AuthorizeClaim, ClaimBroadcast, RecordBroadcast,
         VerifyAssets, RecordVerifiedTerminal

\* Every step keeps the processes' records and the world within their types.
LEMMA DaemonTypeStep == DaemonInv /\ [DaemonNext]_daemonVars => DaemonTypeOK'
<1> SUFFICES ASSUME DaemonInv, [DaemonNext]_daemonVars PROVE DaemonTypeOK'
  OBVIOUS
<1>t. DaemonTypeOK
  BY DEF DaemonInv
<1>w. ASSUME job' \in [Workers -> JobRecords], UNCHANGED world PROVE DaemonTypeOK'
  BY <1>t, <1>w DEF DaemonTypeOK, world, lightning, chain
<1>1. CASE UNCHANGED daemonVars
  BY <1>t, <1>1 DEF DaemonTypeOK, daemonVars, world, lightning, chain
<1>2. ASSUME NEW w \in Workers, Abort(w) \/ Restart(w) PROVE DaemonTypeOK'
  <2>1. "idle" \in Phases /\ <<None, None>> \in Seen
    BY DEF Phases, Seen
  <2>2. job' \in [Workers -> JobRecords]
    BY <1>t, <1>2, <2>1, AdvanceType DEF Abort, Restart
  <2> QED
    BY <1>2, <1>w, <2>2 DEF Abort, Restart
<1>3. ASSUME NEW w \in Workers, NEW s \in Settlements, WorkerStep(w, s) PROVE DaemonTypeOK'
  <2>1. job' \in [Workers -> JobRecords]
    <3>1. CASE StartStep(w, s)
      <4>1. [for |-> s, kind |-> ClassifySolverDaemonStep(s),
             method |-> StepMethod(s, ClassifySolverDaemonStep(s)), phase |-> "begun",
             seen |-> <<None, None>>] \in JobRecords
        BY <3>1, StartStepFacts DEF JobRecords, Phases, Seen
      <4> QED
        BY <1>t, <3>1, <4>1 DEF StartStep, DaemonTypeOK
    <3>2. CASE \E phase \in Phases, seen \in Seen : Advance(w, phase, seen) \/ Return(w)
      BY <1>t, <3>2, AdvanceType
    <3>3. job[w].seen \in Seen
      BY <1>t DEF DaemonTypeOK, JobRecords
    <3>4. AuthorizationLive(s) => EnvelopeExpiry(s) \in Expiries /\ <<"RESERVED", EnvelopeExpiry(s)>> \in Seen
      <4>1. AuthorizationLive(s) => EnvelopeExpiry(s) \in Expiries
        BY <1>t, LiveExpiry
      <4> QED
        BY <4>1 DEF Seen
    <3>5. /\ <<"RESERVED", None>> \in Seen
          /\ <<payment[s], None>> \in Seen /\ <<None, None>> \in Seen
          /\ \A k : <<ExpectedTerminal(k), None>> \in Seen
      BY <1>t DEF Seen, DaemonTypeOK, PaymentStates, ObservedStates, ExpectedTerminal, TERMINAL_STATES
    <3>6. ClaimObservation(s) \in Seen
      BY ClaimObservationFacts
    <3>7. CASE ~StartStep(w, s)
      <4>1. \E phase \in Phases, seen \in Seen : Advance(w, phase, seen) \/ Return(w)
        BY <1>3, <3>3, <3>4, <3>5, <3>6, <3>7
           DEF WorkerStep, ObserveReservation, RecordObservedReservation, HaltOnEvidence, HaltRequired,
               PlanLightningAction, AuthorizeLightning, ClaimLightning, SendLightning, ConfirmLightning,
               LightningAmbiguous, RecoverInterrupted, ObserveLightning, ObserveClaim,
               RecordObservedInclusion, ReconcileObserved, ReadPaymentProof, PlanClaim, BindClaim,
               AuthorizeClaim, ClaimBroadcast, SendClaim, RecordBroadcast, VerifyAssets,
               RecordVerifiedTerminal, Phases
      <4> QED
        BY <3>2, <4>1
    <3> QED
      BY <3>1, <3>7
  <2>2. CASE SendLightning(w, s)
    <3>1. job[w].seen[2] \in Expiries
      BY <2>2 DEF SendLightning, At, DaemonInv, KnowledgeTrue, KnowledgeOf, Idle
    <3>2. transit' \in [Settlements -> Seq(Expiries)]
      BY <1>t, <2>2, <3>1 DEF SendLightning, DaemonTypeOK
    <3> QED
      BY <1>t, <2>1, <2>2, <3>2 DEF SendLightning, DaemonTypeOK, chain
  <2>3. CASE SendClaim(w, s)
    BY <1>t, <2>1, <2>3 DEF SendClaim, DaemonTypeOK, lightning
  <2> QED
    BY <1>3, <1>w, <2>1, <2>2, <2>3, QuietWorkerStep
<1>4. ASSUME NEW s \in Settlements, WorldStep(s) PROVE DaemonTypeOK'
  <2>1. ASSUME NEW h \in PaymentHashes, NEW d \in Directions, AcceptHandoff(s, h, d) PROVE DaemonTypeOK'
    BY <1>t, <2>1 DEF AcceptHandoff, DaemonTypeOK, chain, PaymentStates
  <2>2. CASE BindHandoff(s)
    BY <1>t, <2>2 DEF BindHandoff, DaemonTypeOK, world, lightning, chain
  <2>3. CASE AdapterExecutes(s) \/ RequestLost(s)
    <3>1. transit[s] \in Seq(Expiries) /\ transit[s] # <<>> /\ executed[s] + 1 \in Nat
      BY <1>t, <2>3 DEF AdapterExecutes, RequestLost, DaemonTypeOK
    <3>2. Tail(transit[s]) \in Seq(Expiries)
      BY <3>1, TakeFirst
    <3>3. transit' \in [Settlements -> Seq(Expiries)]
      BY <1>t, <2>3, <3>2, Zenon DEF AdapterExecutes, RequestLost, DaemonTypeOK
    <3>4. executed' \in [Settlements -> Nat]
      BY <1>t, <2>3, <3>1 DEF AdapterExecutes, RequestLost, DaemonTypeOK
    <3>5. payment' \in [Settlements -> PaymentStates]
      <4>1. \/ payment' = payment
            \/ payment' = [payment EXCEPT ![s] = "IN_FLIGHT"]
            \/ payment' = [payment EXCEPT ![s] = "SETTLED"]
        BY <2>3, Zenon DEF AdapterExecutes, RequestLost
      <4> QED
        BY <1>t, <4>1 DEF DaemonTypeOK, PaymentStates
    <3> QED
      BY <1>t, <2>3, <3>3, <3>4, <3>5 DEF AdapterExecutes, RequestLost, DaemonTypeOK, chain
  <2>4. CASE LightningProgress(s)
    BY <1>t, <2>4 DEF LightningProgress, DaemonTypeOK, chain, PaymentStates
  <2>5. CASE TimePasses(s)
    BY <1>t, <2>5 DEF TimePasses, DaemonTypeOK, lightning, chain
  <2>6. CASE ReserveOnChain(s) \/ RelayerClaims(s) \/ RefundOnChain(s)
    BY <1>t, <2>6 DEF ReserveOnChain, RelayerClaims, RefundOnChain, DaemonTypeOK, lightning
  <2>7. ASSUME NEW b \in Blocks, MineClaim(s, b) PROVE DaemonTypeOK'
    BY <1>t, <2>7 DEF MineClaim, DaemonTypeOK, lightning
  <2>8. CASE FinalizeClaim(s) \/ ReorgClaim(s) \/ DropClaim(s)
    BY <1>t, <2>8 DEF FinalizeClaim, ReorgClaim, DropClaim, DaemonTypeOK, lightning
  <2> QED
    BY <1>4, <2>1, <2>2, <2>3, <2>4, <2>5, <2>6, <2>7, <2>8 DEF WorldStep
<1> QED
  BY <1>1, <1>2, <1>3, <1>4 DEF DaemonNext

-------------------------------------------------------------------------------
\* What the world never takes back: a decided payment, a reservation (it only ends), a
\* refund, BIT claimed by a transaction that cannot be reorganised, a final claim.
WorldKeeps(s) ==
  /\ payment[s] \in {"SUCCEEDED", "SETTLED", "FAILED", "CANCELED"} => payment'[s] = payment[s]
  /\ escrow[s] # "NONE" => escrow'[s] # "NONE"
  /\ escrow[s] = "REFUNDED" => escrow'[s] = "REFUNDED"
  /\ BitClaimed(s) => escrow'[s] = "CLAIMED" /\ claimTx'[s] # "CLAIMING"
  /\ claimTx[s] \in {"CLAIMED", "REVERTED"} => claimTx'[s] = claimTx[s]

\* A node that performed the leg's only request has nothing left to perform.
LEMMA NothingLeft ==
  ASSUME DaemonInv, NEW s \in Settlements, transit[s] # <<>>
  PROVE  /\ executed[s] = 0 /\ Len(transit[s]) = 1
         /\ payment[s] \notin {"IN_FLIGHT", "SUCCEEDED", "FAILED"}
<1>1. transit[s] \in Seq(Expiries) /\ executed[s] \in Nat
  BY DEF DaemonInv, DaemonTypeOK
<1>2. Len(transit[s]) \in Nat /\ Len(transit[s]) >= 1
  BY <1>1, TakeFirst
<1>3. /\ Len(transit[s]) + executed[s] <= 1
      /\ payment[s] \in {"IN_FLIGHT", "SUCCEEDED", "FAILED"} => executed[s] = 1
  BY DEF DaemonInv, RequestAccounted, Requests
<1>4. executed[s] = 0 /\ Len(transit[s]) = 1
  <2>1. \A a, b \in Nat : a >= 1 /\ a + b <= 1 => a = 1 /\ b = 0
    OBVIOUS
  <2> QED
    BY <1>1, <1>2, <1>3, <2>1, Zenon
<1> QED
  BY <1>3, <1>4

\* No step takes any of it back.
LEMMA WorldKeepsStep ==
  ASSUME DaemonInv, [DaemonNext]_daemonVars, NEW s \in Settlements
  PROVE  WorldKeeps(s)
<1>t. DaemonTypeOK /\ ChainConsistent(s) /\ RequestAccounted(s)
  BY DEF DaemonInv
<1>1. ASSUME UNCHANGED world PROVE WorldKeeps(s)
  BY <1>1 DEF world, lightning, chain, WorldKeeps, BitClaimed
<1>2. ASSUME NEW w \in Workers, Abort(w) \/ Restart(w) PROVE WorldKeeps(s)
  BY <1>1, <1>2 DEF Abort, Restart
<1>3. ASSUME NEW w \in Workers, NEW r \in Settlements, WorkerStep(w, r) PROVE WorldKeeps(s)
  <2>1. CASE SendLightning(w, r)
    BY <2>1 DEF SendLightning, chain, WorldKeeps, BitClaimed
  <2>2. CASE SendClaim(w, r)
    BY <1>t, <2>2 DEF SendClaim, lightning, WorldKeeps, BitClaimed, DaemonTypeOK
  <2> QED
    BY <1>1, <1>3, <2>1, <2>2, QuietWorkerStep
<1>4. ASSUME NEW r \in Settlements, WorldStep(r) PROVE WorldKeeps(s)
  <2>1. ASSUME NEW h \in PaymentHashes, NEW d \in Directions, AcceptHandoff(r, h, d) PROVE WorldKeeps(s)
    BY <1>t, <2>1 DEF AcceptHandoff, AcceptSettlement, chain, WorldKeeps, BitClaimed, DaemonTypeOK,
                      RequestAccounted
  <2>2. CASE BindHandoff(r)
    BY <1>1, <2>2 DEF BindHandoff
  <2>3. CASE AdapterExecutes(r)
    <3>1. transit[r] # <<>>
      BY <2>3 DEF AdapterExecutes
    <3>2. payment[r] \in {"NOT_FOUND", "ACCEPTED"}
      BY <2>3, <3>1, NothingLeft, Zenon DEF AdapterExecutes
    <3>3. /\ UNCHANGED chain
          /\ \/ payment' = [payment EXCEPT ![r] = "IN_FLIGHT"]
             \/ payment' = [payment EXCEPT ![r] = "SETTLED"]
      BY <2>3, Zenon DEF AdapterExecutes
    <3> QED
      BY <1>t, <3>2, <3>3 DEF chain, WorldKeeps, BitClaimed, DaemonTypeOK
  <2>4. CASE RequestLost(r)
    BY <2>4 DEF RequestLost, chain, WorldKeeps, BitClaimed
  <2>5. CASE LightningProgress(r)
    BY <1>t, <2>5 DEF LightningProgress, chain, WorldKeeps, BitClaimed, DaemonTypeOK
  <2>6. CASE TimePasses(r)
    BY <2>6 DEF TimePasses, lightning, chain, WorldKeeps, BitClaimed
  <2>7. CASE ReserveOnChain(r) \/ RelayerClaims(r) \/ RefundOnChain(r)
    BY <1>t, <2>7 DEF ReserveOnChain, RelayerClaims, RefundOnChain, lightning, WorldKeeps, BitClaimed,
                      DaemonTypeOK
  <2>8. ASSUME NEW b \in Blocks, MineClaim(r, b) PROVE WorldKeeps(s)
    BY <1>t, <2>8 DEF MineClaim, lightning, WorldKeeps, BitClaimed, DaemonTypeOK
  <2>9. CASE FinalizeClaim(r) \/ ReorgClaim(r) \/ DropClaim(r)
    BY <1>t, <2>9 DEF FinalizeClaim, ReorgClaim, DropClaim, lightning, WorldKeeps, BitClaimed,
                      DaemonTypeOK, ChainConsistent
  <2> QED
    BY <1>4, <2>1, <2>2, <2>3, <2>4, <2>5, <2>6, <2>7, <2>8, <2>9 DEF WorldStep
<1> QED
  BY <1>1, <1>2, <1>3, <1>4 DEF DaemonNext, daemonVars

\* Only a send adds to the requests of a settlement.
LEMMA RequestsStep ==
  ASSUME DaemonInv, [DaemonNext]_daemonVars, NEW s \in Settlements,
         \A w \in Workers : ~SendLightning(w, s)
  PROVE  /\ Requests(s)' \in Nat /\ Requests(s)' <= Requests(s)
         /\ executed'[s] # executed[s] => transit[s] # <<>>
<1>t. /\ transit[s] \in Seq(Expiries) /\ executed[s] \in Nat /\ Len(transit[s]) \in Nat
      /\ transit \in [Settlements -> Seq(Expiries)] /\ executed \in [Settlements -> Nat]
  BY DEF DaemonInv, DaemonTypeOK
<1>1. ASSUME transit'[s] = transit[s], executed'[s] = executed[s]
      PROVE  /\ Requests(s)' \in Nat /\ Requests(s)' <= Requests(s)
             /\ executed'[s] # executed[s] => transit[s] # <<>>
  BY <1>t, <1>1 DEF Requests
<1>2. ASSUME NEW r \in Settlements, AdapterExecutes(r) \/ RequestLost(r)
      PROVE  /\ Requests(s)' \in Nat /\ Requests(s)' <= Requests(s)
             /\ executed'[s] # executed[s] => transit[s] # <<>>
  <2>1. CASE r # s
    BY <1>1, <1>t, <1>2, <2>1 DEF AdapterExecutes, RequestLost
  <2>2. CASE r = s
    <3>1. /\ transit[s] # <<>>
          /\ transit' = [transit EXCEPT ![s] = Tail(@)]
          /\ executed' = executed \/ executed' = [executed EXCEPT ![s] = @ + 1]
      BY <1>2, <2>2, Zenon DEF AdapterExecutes, RequestLost
    <3>2. transit'[s] = Tail(transit[s]) /\ executed'[s] \in {executed[s], executed[s] + 1}
      BY <1>t, <3>1
    <3>3. Len(transit'[s]) = Len(transit[s]) - 1 /\ Len(transit[s]) >= 1
      BY <1>t, <3>1, <3>2, TakeFirst
    <3> QED
      BY <1>t, <3>1, <3>2, <3>3 DEF Requests
  <2> QED
    BY <2>1, <2>2
<1>3. CASE /\ ~(\E r \in Settlements : AdapterExecutes(r) \/ RequestLost(r))
           /\ \A w \in Workers, r \in Settlements : ~SendLightning(w, r)
  <2>1. UNCHANGED <<transit, executed>>
    <3>1. ASSUME NEW w \in Workers, NEW r \in Settlements, WorkerStep(w, r)
          PROVE  UNCHANGED <<transit, executed>>
      BY <1>3, <3>1, QuietWorkerStep DEF SendClaim, world, lightning
    <3>2. ASSUME NEW r \in Settlements, WorldStep(r) PROVE UNCHANGED <<transit, executed>>
      BY <1>3, <3>2 DEF WorldStep, AcceptHandoff, BindHandoff, ReserveOnChain, LightningProgress,
                        TimePasses, RelayerClaims, RefundOnChain, MineClaim, FinalizeClaim, ReorgClaim,
                        DropClaim, world, lightning
    <3> QED
      BY <3>1, <3>2 DEF DaemonNext, daemonVars, world, lightning, Abort, Restart
  <2> QED
    BY <1>1, <2>1
<1>4. ASSUME NEW w \in Workers, NEW r \in Settlements, SendLightning(w, r), r # s
      PROVE  transit'[s] = transit[s] /\ executed'[s] = executed[s]
  BY <1>t, <1>4 DEF SendLightning
<1> QED
  BY <1>1, <1>2, <1>3, <1>4

-------------------------------------------------------------------------------
\* What the reconciliation table takes as proof for the leg and for the claim.
LEMMA ProofStates ==
  /\ ConfirmedBy[SettleInvoice] = {"SETTLED"} /\ RefutedBy[SettleInvoice] = {"CANCELED"}
  /\ ConfirmedBy[SendPaymentV2] = {"SUCCEEDED"} /\ RefutedBy[SendPaymentV2] = {"FAILED"}
  /\ ConfirmedBy[EvmClaim] = {"CLAIMED"} /\ RefutedBy[EvmClaim] = {"REVERTED"}
<1>1. /\ SettleInvoice \in Methods /\ SendPaymentV2 \in Methods /\ EvmClaim \in Methods
  BY DEF Methods, LightningMethods
<1> USE <1>1 DEF SettleInvoice, SendPaymentV2, EvmClaim, AddHoldInvoice, CancelInvoice
<1>2. ConfirmedBy[SettleInvoice] = {"SETTLED"} /\ RefutedBy[SettleInvoice] = {"CANCELED"}
  BY DEF ConfirmedBy, RefutedBy
<1>3. ConfirmedBy[SendPaymentV2] = {"SUCCEEDED"} /\ RefutedBy[SendPaymentV2] = {"FAILED"}
  BY DEF ConfirmedBy, RefutedBy
<1>4. ConfirmedBy[EvmClaim] = {"CLAIMED"} /\ RefutedBy[EvmClaim] = {"REVERTED"}
  BY DEF ConfirmedBy, RefutedBy
<1> QED
  BY <1>2, <1>3, <1>4

\* A verdict is recorded only on evidence that is still true: of the node for the leg, of a
\* final transaction for the claim.
LEMMA VerdictFromEvidence ==
  ASSUME DaemonInv, NEW w \in Workers, NEW r \in Settlements, WorkerStep(w, r),
         NEW s \in Settlements, NEW m \in Methods,
         actionState'[s][m] \in {"CONFIRMED", "FAILED"}, actionState'[s][m] # actionState[s][m]
  PROVE  /\ m = LightningLeg(s) /\ actionState'[s][m] = "CONFIRMED" => Paid(s)
         /\ m = LightningLeg(s) /\ actionState'[s][m] = "FAILED" => Unpaid(s)
         /\ m = EvmClaim /\ actionState'[s][m] = "CONFIRMED" => claimTx[s] = "CLAIMED"
         /\ m = EvmClaim /\ actionState'[s][m] = "FAILED" => claimTx[s] = "REVERTED"
<1>t. actionState \in [Settlements -> [Methods -> ActionStates]]
  BY DEF DaemonInv, LedgerInv, TypeOK
<1>m. /\ LightningLeg(s) \in Methods /\ LightningLeg(r) \in Methods /\ EvmClaim \in Methods
      /\ LightningLeg(s) # EvmClaim
  BY DEF LightningLeg, Methods, LightningMethods, SettleInvoice, SendPaymentV2, EvmClaim
<1>1. CASE ConfirmLightning(w, r)
  BY <1>t, <1>m, <1>1 DEF ConfirmLightning, RecordConfirmed, Resolve, Paid
<1>2. CASE ReconcileObserved(w, r)
  <2> DEFINE n == job[w].method
             o == job[w].seen[1]
  <2>1. n \in Methods /\ ObservationTrue(r, n, o)
    BY <1>2 DEF ReconcileObserved, At, Idle, DaemonInv, KnowledgeTrue, KnowledgeOf, Planned
  <2>2. PICK v \in {"CONFIRMED", "FAILED"} :
          /\ actionState' = [actionState EXCEPT ![r][n] = v]
          /\ v = "CONFIRMED" => Disposition(n, o) = "confirmed"
          /\ v = "FAILED" => Disposition(n, o) = "failed"
    BY <1>t, <1>2, Zenon DEF ReconcileObserved, ReconcileAction, ReconcileResolved, ReconcileUnresolved,
                      ReconcileMismatch, Resolve, outbox
  <2>3. r = s /\ m = n /\ actionState'[s][m] = v
    BY <1>t, <2>1, <2>2
  <2>4. /\ v = "CONFIRMED" => o \in ConfirmedBy[n]
        /\ v = "FAILED" => o \in RefutedBy[n]
    BY <2>2 DEF Disposition
  <2>5. CASE m = EvmClaim
    BY <1>m, <2>1, <2>3, <2>4, <2>5, ProofStates DEF ObservationTrue
  <2>6. CASE m = LightningLeg(s)
    <3>1. v = "CONFIRMED" => o \in {"SUCCEEDED", "SETTLED"}
      BY <2>3, <2>4, <2>6, ProofStates DEF LightningLeg
    <3>2. v = "FAILED" => o \in {"CANCELED", "FAILED"}
      BY <2>3, <2>4, <2>6, ProofStates DEF LightningLeg
    <3> QED
      BY <1>m, <2>1, <2>3, <2>6, <3>1, <3>2 DEF ObservationTrue, Paid, Unpaid
  <2> QED
    BY <2>5, <2>6
<1>3. CASE ~ConfirmLightning(w, r) /\ ~ReconcileObserved(w, r)
  <2>1. CASE actionState' = actionState
    BY <2>1
  <2>2. CASE \E n \in Methods, v \in {"PENDING", "DISPATCHING", "UNKNOWN"} :
               actionState' = [actionState EXCEPT ![r][n] = v]
    BY <1>t, <2>2
  <2>3. job[w] # Idle /\ job[w].for = r /\ job[w].kind = "RECOVER_INTERRUPTED_ACTION" => job[w].method \in Methods
    BY DEF DaemonInv, KnowledgeTrue, KnowledgeOf, Planned
  <2> QED
    BY <1>3, <1>m, <2>1, <2>2, <2>3
       DEF WorkerStep, StartStep, ObserveReservation, RecordObservedReservation, RecordReservation,
           HaltOnEvidence, HaltRequired, HaltSettlement, PlanLightningAction, PlanAction, AuthorizeLightning,
           ClaimLightning, ClaimAction, MarkDispatching, SendLightning, LightningAmbiguous, RecordAmbiguous,
           MarkUnknown, RecoverInterrupted, RecoverInterruptedAction, ObserveLightning, ObserveClaim,
           RecordObservedInclusion, RecordEvmInclusion, ReadPaymentProof, PlanClaim, BindClaim,
           BindEvmTransaction, AuthorizeClaim, ClaimBroadcast, ClaimFirstBroadcast, ClaimRebroadcast,
           Broadcast, SendClaim, RecordBroadcast, RecordRebroadcastResult, VerifyAssets,
           RecordVerifiedTerminal, RecordTerminal, ledgerVars, outbox, At, Idle
<1> QED
  BY <1>1, <1>2, <1>3

\* Only the planning steps add a row to the outbox: the leg, or the claim of a paid leg.
LEMMA PlannedBy ==
  ASSUME DaemonInv, NEW w \in Workers, NEW r \in Settlements, WorkerStep(w, r),
         NEW s \in Settlements, NEW m \in Methods,
         actionState[s][m] = "ABSENT", actionState'[s][m] # "ABSENT"
  PROVE  /\ r = s /\ Exists(s)
         /\ \/ m = LightningLeg(s)
            \/ m = EvmClaim /\ actionState[s][SendPaymentV2] = "CONFIRMED"
<1>t. actionState \in [Settlements -> [Methods -> ActionStates]]
  BY DEF DaemonInv, LedgerInv, TypeOK
<1>m. LightningLeg(r) \in Methods /\ EvmClaim \in Methods
  BY DEF LightningLeg, Methods, LightningMethods
<1>1. CASE PlanLightningAction(w, r)
  BY <1>t, <1>m, <1>1 DEF PlanLightningAction, PlanAction
<1>2. CASE PlanClaim(w, r)
  <2>1. actionState[r][SendPaymentV2] = "CONFIRMED"
    BY <1>2 DEF PlanClaim, At, Idle, DaemonInv, KnowledgeTrue, KnowledgeOf
  <2> QED
    BY <1>t, <1>m, <1>2, <2>1 DEF PlanClaim, PlanAction
<1>3. CASE ~PlanLightningAction(w, r) /\ ~PlanClaim(w, r)
  <2>1. CASE actionState' = actionState
    BY <2>1
  <2>2. CASE \E n \in Methods, v \in {"DISPATCHING", "UNKNOWN", "CONFIRMED", "FAILED"} :
               /\ actionState[r][n] # "ABSENT"
               /\ actionState' = [actionState EXCEPT ![r][n] = v]
    BY <1>t, <2>2
  <2>3. job[w] # Idle /\ job[w].for = r /\ job[w].kind \in {"RECOVER_INTERRUPTED_ACTION", "RECONCILE_ACTION"}
          => job[w].method \in Methods
    BY DEF DaemonInv, KnowledgeTrue, KnowledgeOf, Planned
  <2> QED
    BY <1>3, <1>m, <2>1, <2>2, <2>3
       DEF WorkerStep, StartStep, ObserveReservation, RecordObservedReservation, RecordReservation,
           HaltOnEvidence, HaltRequired, HaltSettlement, AuthorizeLightning, ClaimLightning, ClaimAction,
           MarkDispatching, SendLightning, ConfirmLightning, RecordConfirmed, LightningAmbiguous,
           RecordAmbiguous, MarkUnknown, RecoverInterrupted, RecoverInterruptedAction, ObserveLightning,
           ObserveClaim, RecordObservedInclusion, RecordEvmInclusion, ReconcileObserved, ReconcileAction,
           ReconcileUnresolved, ReconcileMismatch, ReconcileResolved, Resolve, ReadPaymentProof,
           BindClaim, BindEvmTransaction, AuthorizeClaim, ClaimBroadcast, ClaimFirstBroadcast,
           ClaimRebroadcast, Broadcast, SendClaim, RecordBroadcast, RecordRebroadcastResult, VerifyAssets,
           RecordVerifiedTerminal, RecordTerminal, ledgerVars, outbox, At, Idle
<1> QED
  BY <1>1, <1>2, <1>3

\* Outside the workers' steps no row is added and no verdict is given.
LEMMA NoRowElsewhere ==
  ASSUME DaemonInv, NEW s \in Settlements, NEW m \in Methods,
         \/ UNCHANGED daemonVars
         \/ \E w \in Workers : Abort(w) \/ Restart(w)
         \/ \E r \in Settlements : WorldStep(r)
  PROVE  /\ actionState[s][m] = "ABSENT" => actionState'[s][m] = "ABSENT"
         /\ actionState'[s][m] \in {"CONFIRMED", "FAILED"} => actionState'[s][m] = actionState[s][m]
         /\ UNCHANGED closing
<1>1. CASE UNCHANGED ledgerVars
  BY <1>1 DEF ledgerVars, outbox
<1>2. CASE RecoverInterruptedActions
  BY <1>2 DEF RecoverInterruptedActions, Interrupted
<1>3. CASE \E r \in Settlements, h \in PaymentHashes, d \in Directions : AcceptHandoff(r, h, d)
  BY <1>3 DEF AcceptHandoff, AcceptSettlement, outbox
<1>4. CASE \E r \in Settlements : BindHandoff(r)
  BY <1>4 DEF BindHandoff, BindContractIntent, BindSettlementExecutionPolicy, outbox
<1> QED
  BY <1>1, <1>2, <1>3, <1>4
     DEF daemonVars, Abort, Restart, WorldStep, ReserveOnChain, AdapterExecutes, RequestLost,
         LightningProgress, TimePasses, RelayerClaims, RefundOnChain, MineClaim, FinalizeClaim,
         ReorgClaim, DropClaim

\* Only methods of the settlement's own direction are planned, whoever plans them.
LEMMA OwnMethodsStep ==
  ASSUME DaemonInv, [DaemonNext]_daemonVars, NEW s \in Settlements
  PROVE  OwnMethods(s)'
<1> SUFFICES ASSUME NEW m \in Methods, actionState'[s][m] # "ABSENT"
             PROVE  m = LightningLeg(s)' \/ (m = EvmClaim /\ direction'[s] = "bit-to-lightning")
  BY DEF OwnMethods
<1>1. LedgerKeeps(s)
  BY DaemonLedgerStep, LedgerKeepsStep DEF DaemonInv
<1>2. CASE actionState[s][m] # "ABSENT"
  <2>1. Exists(s)
    BY <1>2 DEF DaemonInv, LedgerInv, RowsOwned, Exists
  <2> QED
    BY <1>1, <1>2, <2>1 DEF DaemonInv, OwnMethods, LedgerKeeps, LightningLeg
<1>3. CASE actionState[s][m] = "ABSENT"
  <2>1. PICK w \in Workers, r \in Settlements : WorkerStep(w, r)
    BY <1>3, NoRowElsewhere DEF DaemonNext
  <2>2. /\ Exists(s)
        /\ \/ m = LightningLeg(s)
           \/ m = EvmClaim /\ actionState[s][SendPaymentV2] = "CONFIRMED"
    BY <1>3, <2>1, PlannedBy
  <2>3. actionState[s][SendPaymentV2] = "CONFIRMED" => direction[s] = "bit-to-lightning"
    BY DEF DaemonInv, OwnMethods, LightningLeg, Methods, LightningMethods, SendPaymentV2, SettleInvoice,
           EvmClaim
  <2> QED
    BY <1>1, <2>2, <2>3 DEF LedgerKeeps, LightningLeg
<1> QED
  BY <1>2, <1>3

\* Who moves the node's record: the handoff, the adapter, or Lightning itself.
LEMMA PaymentMovedBy ==
  ASSUME DaemonInv, [DaemonNext]_daemonVars, NEW s \in Settlements, payment'[s] # payment[s]
  PROVE  \/ AdapterExecutes(s) \/ LightningProgress(s)
         \/ \E h \in PaymentHashes, d \in Directions : AcceptHandoff(s, h, d)
<1>t. payment \in [Settlements -> PaymentStates]
  BY DEF DaemonInv, DaemonTypeOK
<1>1. ASSUME NEW r \in Settlements, r # s,
             \/ AdapterExecutes(r) \/ LightningProgress(r)
             \/ \E h \in PaymentHashes, d \in Directions : AcceptHandoff(r, h, d)
      PROVE  payment'[s] = payment[s]
  <2>1. \E p : payment' = [payment EXCEPT ![r] = p]
    BY <1>1, Zenon DEF AdapterExecutes, LightningProgress, AcceptHandoff
  <2> QED
    BY <1>t, <1>1, <2>1
<1>2. CASE \E w \in Workers, r \in Settlements : WorkerStep(w, r)
  BY <1>2, QuietWorkerStep DEF SendLightning, SendClaim, world, lightning
<1>3. CASE \E w \in Workers : Abort(w) \/ Restart(w)
  BY <1>3 DEF Abort, Restart, world, lightning
<1>4. CASE UNCHANGED daemonVars
  BY <1>4 DEF daemonVars, world, lightning
<1>5. ASSUME NEW r \in Settlements, WorldStep(r), payment'[s] # payment[s]
      PROVE  \/ AdapterExecutes(r) \/ LightningProgress(r)
             \/ \E h \in PaymentHashes, d \in Directions : AcceptHandoff(r, h, d)
  BY <1>5 DEF WorldStep, BindHandoff, ReserveOnChain, RequestLost, TimePasses, RelayerClaims,
              RefundOnChain, MineClaim, FinalizeClaim, ReorgClaim, DropClaim, world, lightning
<1> QED
  BY <1>1, <1>2, <1>3, <1>4, <1>5 DEF DaemonNext

\* The node performs the leg's side effect only for a request that reached it in time.
LEMMA ExecutedBy ==
  ASSUME DaemonInv, [DaemonNext]_daemonVars, NEW s \in Settlements, executed'[s] # executed[s]
  PROVE  AdapterExecutes(s)
<1>t. executed \in [Settlements -> Nat]
  BY DEF DaemonInv, DaemonTypeOK
<1>1. CASE \E w \in Workers, r \in Settlements : WorkerStep(w, r)
  BY <1>1, QuietWorkerStep DEF SendLightning, SendClaim, world, lightning
<1>2. CASE \E w \in Workers : Abort(w) \/ Restart(w)
  BY <1>2 DEF Abort, Restart, world, lightning
<1>3. CASE UNCHANGED daemonVars
  BY <1>3 DEF daemonVars, world, lightning
<1>4. ASSUME NEW r \in Settlements, WorldStep(r), executed'[s] # executed[s]
      PROVE  AdapterExecutes(r)
  BY <1>4 DEF WorldStep, AcceptHandoff, BindHandoff, ReserveOnChain, RequestLost, LightningProgress,
              TimePasses, RelayerClaims, RefundOnChain, MineClaim, FinalizeClaim, ReorgClaim, DropClaim,
              world, lightning
<1>5. ASSUME NEW r \in Settlements, AdapterExecutes(r) PROVE r = s
  <2>1. executed' = [executed EXCEPT ![r] = @ + 1]
    BY <1>5 DEF AdapterExecutes
  <2> QED
    BY <1>t, <2>1
<1> QED
  BY <1>1, <1>2, <1>3, <1>4, <1>5 DEF DaemonNext

\* The requests of a settlement stay accounted for.
LEMMA RequestAccountedStep ==
  ASSUME DaemonInv, [DaemonNext]_daemonVars, NEW s \in Settlements
  PROVE  RequestAccounted(s)'
<1>t. /\ transit \in [Settlements -> Seq(Expiries)] /\ transit[s] \in Seq(Expiries)
      /\ executed[s] \in Nat /\ Len(transit[s]) \in Nat
  BY DEF DaemonInv, DaemonTypeOK
<1>i. RequestAccounted(s)
  BY DEF DaemonInv
<1>k. LedgerKeeps(s) /\ WorldKeeps(s)
  BY DaemonLedgerStep, LedgerKeepsStep, WorldKeepsStep DEF DaemonInv
<1>l. LightningLeg(s) \in Methods /\ (Dispatched(s, LightningLeg(s)) => Exists(s))
  BY DEF LightningLeg, Methods, LightningMethods, DaemonInv, LedgerInv, RowsOwned, Exists, Dispatched
<1>d. Dispatched(s, LightningLeg(s)) => LightningLeg(s)' = LightningLeg(s) /\ Dispatched(s, LightningLeg(s))'
  BY <1>k, <1>l DEF LedgerKeeps, LightningLeg, Dispatched
<1>1. /\ Requests(s)' <= 1
      /\ Requests(s)' > 0 => Dispatched(s, LightningLeg(s))' /\ escrow'[s] # "NONE"
  <2>1. ASSUME NEW w \in Workers, SendLightning(w, s)
        PROVE  /\ Requests(s)' <= 1
               /\ Requests(s)' > 0 => Dispatched(s, LightningLeg(s))' /\ escrow'[s] # "NONE"
    <3>1. Requests(s) = 0 /\ Dispatched(s, LightningLeg(s)) /\ escrow[s] # "NONE" /\ job[w].seen[2] \in Expiries
      BY <2>1 DEF SendLightning, At, Idle, DaemonInv, KnowledgeTrue, KnowledgeOf
    <3>2. transit'[s] = Append(transit[s], job[w].seen[2]) /\ executed'[s] = executed[s]
      BY <1>t, <2>1, <3>1 DEF SendLightning
    <3>3. Len(transit'[s]) = Len(transit[s]) + 1
      BY <1>t, <3>1, <3>2
    <3>4. Requests(s)' = 1
      BY <1>t, <3>1, <3>2, <3>3 DEF Requests
    <3> QED
      BY <1>d, <1>k, <3>1, <3>4 DEF WorldKeeps
  <2>2. CASE \A w \in Workers : ~SendLightning(w, s)
    <3>1. Requests(s)' \in Nat /\ Requests(s)' <= Requests(s) /\ Requests(s) \in Nat
      BY <1>t, <2>2, RequestsStep DEF Requests
    <3>2. \A a, b \in Nat : a <= b => (b <= 1 => a <= 1) /\ (a > 0 => b > 0)
      OBVIOUS
    <3>3. (Requests(s) <= 1 => Requests(s)' <= 1) /\ (Requests(s)' > 0 => Requests(s) > 0)
      BY <3>1, <3>2, Zenon
    <3> QED
      BY <1>i, <1>d, <1>k, <3>3 DEF RequestAccounted, WorldKeeps
  <2> QED
    BY <2>1, <2>2
<1>2. ASSUME payment'[s] \in {"IN_FLIGHT", "SUCCEEDED", "FAILED"} PROVE executed'[s] = 1
  <2>1. CASE payment[s] \in {"IN_FLIGHT", "SUCCEEDED", "FAILED"}
    <3>1. executed[s] = 1 /\ transit[s] = <<>>
      BY <1>i, <2>1, NothingLeft DEF RequestAccounted
    <3>2. CASE \E w \in Workers : SendLightning(w, s)
      BY <3>1, <3>2 DEF SendLightning
    <3>3. CASE \A w \in Workers : ~SendLightning(w, s)
      BY <3>1, <3>3, RequestsStep
    <3> QED
      BY <3>2, <3>3
  <2>2. CASE payment[s] \notin {"IN_FLIGHT", "SUCCEEDED", "FAILED"}
    <3>1. payment \in [Settlements -> PaymentStates] /\ executed \in [Settlements -> Nat]
      BY DEF DaemonInv, DaemonTypeOK
    <3>2. AdapterExecutes(s)
      BY <1>2, <2>2, <3>1, PaymentMovedBy DEF LightningProgress, AcceptHandoff
    <3>3. executed' = [executed EXCEPT ![s] = @ + 1] /\ executed[s] = 0
      BY <3>2, NothingLeft, Zenon DEF AdapterExecutes
    <3> QED
      BY <3>1, <3>3
  <2> QED
    BY <2>1, <2>2
<1>3. ASSUME ~Exists(s)' PROVE payment'[s] = "NOT_FOUND"
  <2>1. ~Exists(s) /\ payment[s] = "NOT_FOUND"
    BY <1>3, <1>i, <1>k DEF LedgerKeeps, Exists, RequestAccounted
  <2>2. ~AdapterExecutes(s)
    <3>1. SUFFICES ASSUME transit[s] # <<>> PROVE FALSE
      BY DEF AdapterExecutes
    <3>2. executed[s] = 0 /\ Len(transit[s]) = 1
      BY <3>1, NothingLeft
    <3>3. Requests(s) > 0
      BY <3>2 DEF Requests
    <3> QED
      BY <1>i, <1>l, <2>1, <3>3 DEF RequestAccounted
  <2>3. ~LightningProgress(s)
    BY <2>1 DEF LightningProgress
  <2>4. \A h \in PaymentHashes, d \in Directions : ~AcceptHandoff(s, h, d)
    BY <1>3 DEF AcceptHandoff, AcceptSettlement, Exists, DaemonInv, LedgerInv, TypeOK
  <2> QED
    BY <2>1, <2>2, <2>3, <2>4, PaymentMovedBy
<1> QED
  BY <1>1, <1>2, <1>3 DEF RequestAccounted

\* Refunds wait for their deadline and a mined claim holds the BIT until it is reorganised.
LEMMA ChainConsistentStep ==
  ASSUME DaemonInv, [DaemonNext]_daemonVars, NEW s \in Settlements
  PROVE  ChainConsistent(s)'
<1>t. DaemonTypeOK /\ ChainConsistent(s)
  BY DEF DaemonInv
<1>1. ASSUME UNCHANGED <<chain, clock>> PROVE ChainConsistent(s)'
  BY <1>t, <1>1 DEF chain, ChainConsistent
<1>2. ASSUME NEW w \in Workers, NEW r \in Settlements, WorkerStep(w, r) PROVE ChainConsistent(s)'
  <2>1. CASE SendClaim(w, r)
    BY <1>t, <2>1 DEF SendClaim, ChainConsistent, DaemonTypeOK
  <2> QED
    BY <1>1, <1>2, <2>1, QuietWorkerStep DEF SendLightning, world
<1>3. ASSUME NEW r \in Settlements, WorldStep(r) PROVE ChainConsistent(s)'
  <2>1. CASE TimePasses(r)
    <3>1. clock[s] \in Nat /\ clock'[s] \in {clock[s], clock[s] + 1} /\ UNCHANGED <<escrow, claimTx>>
      BY <1>t, <2>1 DEF TimePasses, chain, DaemonTypeOK
    <3> QED
      BY <1>t, <3>1, DeadlineAssumption DEF ChainConsistent
  <2>2. CASE ReserveOnChain(r) \/ RelayerClaims(r) \/ RefundOnChain(r)
    BY <1>t, <2>2 DEF ReserveOnChain, RelayerClaims, RefundOnChain, ChainConsistent, DaemonTypeOK
  <2>3. ASSUME NEW b \in Blocks, MineClaim(r, b) PROVE ChainConsistent(s)'
    BY <1>t, <2>3 DEF MineClaim, ChainConsistent, DaemonTypeOK
  <2>4. CASE FinalizeClaim(r) \/ ReorgClaim(r) \/ DropClaim(r)
    BY <1>t, <2>4 DEF FinalizeClaim, ReorgClaim, DropClaim, ChainConsistent, DaemonTypeOK
  <2> QED
    BY <1>1, <1>3, <2>1, <2>2, <2>3, <2>4
       DEF WorldStep, AcceptHandoff, BindHandoff, AdapterExecutes, RequestLost, LightningProgress, world
<1> QED
  BY <1>1, <1>2, <1>3 DEF DaemonNext, Abort, Restart, daemonVars, world

\* An outcome is recorded by the step that verified it, and by no other.
LEMMA TerminalBy ==
  ASSUME DaemonInv, [DaemonNext]_daemonVars, NEW s \in Settlements, terminalState'[s] # terminalState[s]
  PROVE  \E w \in Workers : RecordVerifiedTerminal(w, s)
<1>t. terminalState \in [Settlements -> TERMINAL_STATES \cup {None}]
  BY DEF DaemonInv, LedgerInv, TypeOK
<1>m. EvmClaim \in Methods
  BY DEF Methods
<1>1. PICK w \in Workers, r \in Settlements : WorkerStep(w, r)
  BY <1>m, NoRowElsewhere DEF DaemonNext, closing
<1>2. RecordVerifiedTerminal(w, r)
  BY <1>1
     DEF WorkerStep, StartStep, ObserveReservation, RecordObservedReservation, RecordReservation,
         HaltOnEvidence, HaltRequired, HaltSettlement, PlanLightningAction, PlanAction, AuthorizeLightning,
         ClaimLightning, ClaimAction, SendLightning, ConfirmLightning, RecordConfirmed, LightningAmbiguous,
         RecordAmbiguous, MarkUnknown, RecoverInterrupted, RecoverInterruptedAction, ObserveLightning,
         ObserveClaim, RecordObservedInclusion, RecordEvmInclusion, ReconcileObserved, ReconcileAction,
         ReconcileUnresolved, ReconcileMismatch, ReconcileResolved, Resolve, ReadPaymentProof, PlanClaim,
         BindClaim, BindEvmTransaction, AuthorizeClaim, ClaimBroadcast, ClaimFirstBroadcast,
         ClaimRebroadcast, Broadcast, SendClaim, RecordBroadcast, RecordRebroadcastResult, VerifyAssets,
         ledgerVars, closing
<1>3. r = s
  BY <1>t, <1>2 DEF RecordVerifiedTerminal, RecordTerminal
<1> QED
  BY <1>2, <1>3

\* The rows keep telling the truth.
LEMMA RowsTrueStep ==
  ASSUME DaemonInv, [DaemonNext]_daemonVars, NEW s \in Settlements
  PROVE  RowsTrue(s)'
<1>i. RowsTrue(s)
  BY DEF DaemonInv
<1>k. LedgerKeeps(s) /\ WorldKeeps(s)
  BY DaemonLedgerStep, LedgerKeepsStep, WorldKeepsStep DEF DaemonInv
<1>p. /\ Paid(s) => Paid(s)'
      /\ Unpaid(s) => Unpaid(s)'
      /\ BitClaimed(s) => BitClaimed(s)'
      /\ claimTx[s] \in {"CLAIMED", "REVERTED"} => claimTx'[s] = claimTx[s]
      /\ escrow[s] = "REFUNDED" => escrow'[s] = "REFUNDED"
  BY <1>k DEF WorldKeeps, Paid, Unpaid, BitClaimed
<1>m. LightningLeg(s) \in Methods /\ LightningLeg(s)' \in Methods /\ EvmClaim \in Methods
  BY DEF LightningLeg, Methods, LightningMethods
<1>l. ASSUME NEW m \in Methods, actionState[s][m] # "ABSENT" \/ actionState'[s][m] # actionState[s][m]
      PROVE  LightningLeg(s)' = LightningLeg(s)
  <2>1. Exists(s)
    BY <1>k, <1>l DEF LedgerKeeps, DaemonInv, LedgerInv, RowsOwned, Exists
  <2> QED
    BY <1>k, <2>1 DEF LedgerKeeps, LightningLeg
<1>1. ASSUME NEW m \in Methods, actionState'[s][m] \in {"CONFIRMED", "FAILED"}
      PROVE  /\ m = LightningLeg(s)' /\ actionState'[s][m] = "CONFIRMED" => Paid(s)'
             /\ m = LightningLeg(s)' /\ actionState'[s][m] = "FAILED" => Unpaid(s)'
             /\ m = EvmClaim /\ actionState'[s][m] = "CONFIRMED" => claimTx'[s] = "CLAIMED"
             /\ m = EvmClaim /\ actionState'[s][m] = "FAILED" => claimTx'[s] = "REVERTED"
  <2>1. CASE actionState'[s][m] = actionState[s][m]
    BY <1>1, <1>i, <1>p, <1>l, <2>1 DEF RowsTrue
  <2>2. CASE actionState'[s][m] # actionState[s][m]
    <3>1. PICK w \in Workers, r \in Settlements : WorkerStep(w, r)
      BY <1>1, <2>2, NoRowElsewhere DEF DaemonNext
    <3> QED
      BY <1>1, <1>p, <1>l, <2>2, <3>1, VerdictFromEvidence
  <2> QED
    BY <2>1, <2>2
<1>2. /\ terminalState'[s] \in {None, "COMPLETED", "REFUNDED"}
      /\ terminalState'[s] = "COMPLETED" => Paid(s)' /\ BitClaimed(s)'
      /\ terminalState'[s] = "REFUNDED" =>
           escrow'[s] = "REFUNDED" /\ actionState'[s][LightningLeg(s)'] = "FAILED"
  <2>f. actionState[s][LightningLeg(s)] = "FAILED" => actionState'[s][LightningLeg(s)'] = "FAILED"
    BY <1>k, <1>m, <1>l DEF LedgerKeeps
  <2>1. CASE terminalState'[s] = terminalState[s]
    BY <1>i, <1>p, <2>f, <2>1 DEF RowsTrue
  <2>2. CASE terminalState'[s] # terminalState[s]
    <3>1. PICK w \in Workers : RecordVerifiedTerminal(w, s)
      BY <2>2, TerminalBy
    <3>2. terminalState'[s] = job[w].seen[1]
      BY <3>1 DEF RecordVerifiedTerminal, RecordTerminal, DaemonInv, LedgerInv, TypeOK
    <3>3. \/ job[w].seen[1] = "COMPLETED" /\ Paid(s) /\ BitClaimed(s)
          \/ /\ job[w].seen[1] = "REFUNDED" /\ escrow[s] = "REFUNDED"
             /\ actionState[s][LightningLeg(s)] = "FAILED"
      BY <3>1 DEF RecordVerifiedTerminal, Idle, DaemonInv, KnowledgeTrue, KnowledgeOf
    <3> QED
      BY <1>p, <2>f, <3>2, <3>3
  <2> QED
    BY <2>1, <2>2
<1> QED
  BY <1>1, <1>2, <1>m DEF RowsTrue

-------------------------------------------------------------------------------
\* What a process knows stays true while others act.
LEMMA KnowledgeKept ==
  ASSUME DaemonInv, [DaemonNext]_daemonVars, NEW w \in Workers, job'[w] = job[w]
  PROVE  KnowledgeTrue(w)'
<1> DEFINE s == job[w].for
<1> SUFFICES ASSUME job[w] # Idle PROVE s \in Settlements /\ KnowledgeOf(w, s)'
  BY DEF KnowledgeTrue
<1>1. s \in Settlements /\ KnowledgeOf(w, s)
  BY DEF DaemonInv, KnowledgeTrue
<1>2. Exists(s)
  BY <1>1 DEF KnowledgeOf
<1>k. LedgerKeeps(s) /\ WorldKeeps(s)
  BY <1>1, DaemonLedgerStep, LedgerKeepsStep, WorldKeepsStep DEF DaemonInv
<1>l. LightningLeg(s)' = LightningLeg(s) /\ Exists(s)' /\ LightningLeg(s) \in Methods /\ SendPaymentV2 \in Methods
  BY <1>2, <1>k DEF LedgerKeeps, LightningLeg, Exists, Methods, LightningMethods
<1>3. At(w, s, "AUTHORIZE_AND_DISPATCH_LIGHTNING", "claimed") => Requests(s)' = 0
  <2> SUFFICES ASSUME At(w, s, "AUTHORIZE_AND_DISPATCH_LIGHTNING", "claimed") PROVE Requests(s)' = 0
    OBVIOUS
  <2>1. ASSUME NEW v \in Workers, SendLightning(v, s) PROVE FALSE
    <3>1. v = w
      BY <1>1, <2>1 DEF SendLightning, DaemonInv, OneClaimant
    <3>2. job'[w].phase = "sent"
      BY <2>1, <3>1 DEF SendLightning, Advance, DaemonInv, DaemonTypeOK
    <3> QED
      BY <3>2 DEF At
  <2>2. Requests(s)' \in Nat /\ Requests(s)' <= Requests(s)
    BY <1>1, <2>1, RequestsStep
  <2>3. Requests(s) = 0
    BY <1>1 DEF KnowledgeOf
  <2> QED
    BY <2>2, <2>3
<1>4. Planned(s) \subseteq Planned(s)'
  BY <1>k DEF LedgerKeeps, Planned
<1>5. ASSUME NEW m, NEW o, ObservationTrue(s, m, o) PROVE ObservationTrue(s, m, o)'
  BY <1>k, <1>5 DEF ObservationTrue, WorldKeeps
<1>6. /\ Paid(s) /\ BitClaimed(s) => Paid(s)' /\ BitClaimed(s)'
      /\ escrow[s] = "REFUNDED" => escrow'[s] = "REFUNDED"
      /\ escrow[s] # "NONE" => escrow'[s] # "NONE"
  BY <1>k DEF WorldKeeps, Paid, BitClaimed
<1>7. /\ \A m \in Methods : actionState[s][m] \in {"CONFIRMED", "FAILED"} => actionState'[s][m] = actionState[s][m]
      /\ Dispatched(s, LightningLeg(s)) => Dispatched(s, LightningLeg(s))'
  BY <1>k, <1>l DEF LedgerKeeps, Dispatched
<1> QED
  BY <1>1, <1>l, <1>3, <1>4, <1>5, <1>6, <1>7 DEF KnowledgeOf, At

\* A process changes its own record only.
LEMMA JobChangedBy ==
  ASSUME DaemonInv, [DaemonNext]_daemonVars, NEW w \in Workers, job'[w] # job[w], job'[w] # Idle
  PROVE  /\ \E s \in Settlements : WorkerStep(w, s)
         /\ \A v \in Workers \ {w} : job'[v] = job[v]
<1>t. job \in [Workers -> JobRecords]
  BY DEF DaemonInv, DaemonTypeOK
<1>1. ASSUME NEW v \in Workers, Abort(v) \/ Restart(v) PROVE FALSE
  BY <1>t, <1>1 DEF Abort, Restart, Return
<1>2. ASSUME NEW s \in Settlements, WorldStep(s) PROVE FALSE
  BY <1>2 DEF WorldStep, AcceptHandoff, BindHandoff, ReserveOnChain, AdapterExecutes, RequestLost,
              LightningProgress, TimePasses, RelayerClaims, RefundOnChain, MineClaim, FinalizeClaim,
              ReorgClaim, DropClaim
<1>3. ASSUME NEW v \in Workers, NEW s \in Settlements, WorkerStep(v, s)
      PROVE  v = w /\ \A u \in Workers \ {w} : job'[u] = job[u]
  <2>1. \E x : job' = [job EXCEPT ![v] = x]
    BY <1>3, Zenon
       DEF WorkerStep, StartStep, ObserveReservation, RecordObservedReservation, HaltOnEvidence, HaltRequired,
           PlanLightningAction, AuthorizeLightning, ClaimLightning, SendLightning, ConfirmLightning,
           LightningAmbiguous, RecoverInterrupted, ObserveLightning, ObserveClaim, RecordObservedInclusion,
           ReconcileObserved, ReadPaymentProof, PlanClaim, BindClaim, AuthorizeClaim, ClaimBroadcast,
           SendClaim, RecordBroadcast, VerifyAssets, RecordVerifiedTerminal, Advance, Return
  <2> QED
    BY <1>t, <2>1
<1>4. ~UNCHANGED daemonVars
  BY DEF daemonVars
<1> QED
  BY <1>1, <1>2, <1>3, <1>4 DEF DaemonNext

\* What a process learns in a step is true when it writes it down.
LEMMA KnowledgeGained ==
  ASSUME DaemonInv, [DaemonNext]_daemonVars, NEW w \in Workers, NEW s \in Settlements, WorkerStep(w, s),
         job'[w] # job[w], job'[w] # Idle
  PROVE  KnowledgeTrue(w)'
<1>t. job \in [Workers -> JobRecords] /\ DaemonTypeOK
  BY DEF DaemonInv, DaemonTypeOK
<1>k. LedgerKeeps(s) /\ WorldKeeps(s)
  BY DaemonLedgerStep, LedgerKeepsStep, WorldKeepsStep DEF DaemonInv
<1>m. LightningLeg(s) \in Methods /\ SendPaymentV2 \in Methods
  BY DEF LightningLeg, Methods, LightningMethods
<1>1. CASE StartStep(w, s)
  <2> DEFINE kind == ClassifySolverDaemonStep(s)
  <2>1. job'[w] = [for |-> s, kind |-> kind, method |-> StepMethod(s, kind), phase |-> "begun",
                   seen |-> <<None, None>>]
    BY <1>t, <1>1 DEF StartStep
  <2>2. /\ Exists(s) /\ UNCHANGED <<state, direction, actionState>>
        /\ kind \in {"RECOVER_INTERRUPTED_ACTION", "RECONCILE_ACTION"} => StepMethod(s, kind) \in Planned(s)
        /\ kind = "VERIFY_REFUND_AND_RECONCILE" => actionState[s][LightningLeg(s)] = "FAILED"
    BY <1>1, StartStepFacts DEF StartStep, Planned, Interrupted, Unknown, ledgerVars, terms, outbox
  <2> QED
    BY <2>1, <2>2 DEF KnowledgeTrue, KnowledgeOf, At, Exists, Planned, LightningLeg
<1>2. CASE ~StartStep(w, s)
  <2>1. job[w] # Idle /\ job[w].for = s /\ KnowledgeOf(w, s)
    <3>1. job[w].for = s /\ (job[w].phase # "idle" \/ job[w].kind # "IDLE")
      BY <1>t, <1>2
         DEF WorkerStep, ObserveReservation, RecordObservedReservation, HaltOnEvidence, HaltRequired,
           PlanLightningAction, AuthorizeLightning, ClaimLightning, SendLightning, ConfirmLightning,
           LightningAmbiguous, RecoverInterrupted, ObserveLightning, ObserveClaim, RecordObservedInclusion,
           ReconcileObserved, ReadPaymentProof, PlanClaim, BindClaim, AuthorizeClaim, ClaimBroadcast,
           SendClaim, RecordBroadcast, VerifyAssets, RecordVerifiedTerminal, At
    <3> QED
      BY <3>1 DEF Idle, DaemonInv, KnowledgeTrue
  <2>2. /\ Exists(s)' /\ LightningLeg(s)' = LightningLeg(s)
        /\ Planned(s) \subseteq Planned(s)'
        /\ \A m \in Methods : actionState[s][m] \in {"CONFIRMED", "FAILED"}
             => actionState'[s][m] = actionState[s][m]
        /\ escrow[s] # "NONE" => escrow'[s] # "NONE"
    BY <1>k, <2>1 DEF KnowledgeOf, LedgerKeeps, WorldKeeps, Exists, LightningLeg, Planned
  <2>3. /\ job[w].kind \in {"RECOVER_INTERRUPTED_ACTION", "RECONCILE_ACTION"} => job[w].method \in Planned(s)'
        /\ job[w].kind = "VERIFY_REFUND_AND_RECONCILE" => actionState'[s][LightningLeg(s)'] = "FAILED"
    BY <1>m, <2>1, <2>2 DEF KnowledgeOf
  <2>4. ASSUME job'[w].for = s, job'[w].kind = job[w].kind, job'[w].method = job[w].method,
               job'[w].phase \in {"authorized", "claimed", "sent"} /\ job[w].kind = "AUTHORIZE_AND_DISPATCH_LIGHTNING"
                 => escrow'[s] # "NONE",
               job'[w].phase = "claimed" /\ job[w].kind = "AUTHORIZE_AND_DISPATCH_LIGHTNING"
                 => job'[w].seen[2] \in Expiries /\ Requests(s)' = 0 /\ Dispatched(s, LightningLeg(s))',
               job'[w].phase \in {"observed", "included"} /\ job[w].kind = "RECONCILE_ACTION"
                 => job'[w].seen[2] \in Blocks \cup {None} /\ ObservationTrue(s, job[w].method, job[w].seen[1])',
               job'[w].phase \in {"proof", "planned"}
               /\ job[w].kind = "RECOVER_PAYMENT_PROOF_AND_PREPARE_EVM_CLAIM"
                 => actionState'[s][SendPaymentV2] = "CONFIRMED",
               job'[w].phase = "evidence" /\ job[w].kind # "WAIT_FOR_RESERVATION"
                 => \/ job'[w].seen[1] = "COMPLETED" /\ Paid(s)' /\ BitClaimed(s)'
                    \/ /\ job'[w].seen[1] = "REFUNDED" /\ escrow'[s] = "REFUNDED"
                       /\ actionState'[s][LightningLeg(s)'] = "FAILED"
        PROVE  KnowledgeTrue(w)'
    BY <2>2, <2>3, <2>4 DEF KnowledgeTrue, KnowledgeOf, At
  <2> USE <1>t, <2>1 DEF Advance
  <2>5. CASE ObserveReservation(w, s)
    BY <2>4, <2>5 DEF ObserveReservation, At
  <2>6. CASE AuthorizeLightning(w, s)
    BY <2>2, <2>4, <2>6 DEF AuthorizeLightning, At
  <2>7. CASE ClaimLightning(w, s)
    <3>1. EnvelopeExpiry(s) \in Expiries
      BY <1>t, <2>7, LiveExpiry DEF ClaimLightning
    <3>2. actionState[s][LightningLeg(s)] = "PENDING" /\ actionState'[s][LightningLeg(s)] = "DISPATCHING"
      BY <1>m, <2>7 DEF ClaimLightning, ClaimAction, MarkDispatching, DaemonInv, LedgerInv, TypeOK
    <3>3. Requests(s) \in Nat /\ ~(Requests(s) > 0)
      BY <3>2 DEF DaemonInv, RequestAccounted, Dispatched, DaemonTypeOK, Requests
    <3>4. Requests(s)' = 0
      BY <2>7, <3>3 DEF ClaimLightning, world, lightning, Requests
    <3>5. escrow[s] # "NONE"
      BY <2>7 DEF ClaimLightning, At, KnowledgeOf
    <3>6. Dispatched(s, LightningLeg(s))'
      BY <2>2, <3>2 DEF Dispatched
    <3> QED
      BY <2>2, <2>4, <2>7, <3>1, <3>4, <3>5, <3>6 DEF ClaimLightning, At
  <2>8. CASE SendLightning(w, s)
    <3>1. escrow[s] # "NONE"
      BY <2>8 DEF SendLightning, At, KnowledgeOf
    <3> QED
      BY <2>2, <2>4, <2>8, <3>1 DEF SendLightning, At
  <2>9. CASE ObserveLightning(w, s)
    <3>1. /\ job'[w].for = s /\ job'[w].kind = job[w].kind /\ job'[w].method = job[w].method
          /\ job'[w].phase = "observed" /\ job'[w].seen = <<payment[s], None>>
          /\ job[w].method # EvmClaim /\ UNCHANGED payment /\ job[w].kind = "RECONCILE_ACTION"
      BY <2>9 DEF ObserveLightning, world, lightning, At
    <3>2. ObservationTrue(s, job[w].method, job[w].seen[1])'
      BY <3>1 DEF ObservationTrue, DaemonTypeOK
    <3> QED
      BY <2>4, <3>1, <3>2
  <2>10. CASE ObserveClaim(w, s)
    <3> DEFINE o == ClaimObservation(s)
    <3>1. o[2] \in Blocks \cup {None} /\ ObservationTrue(s, EvmClaim, o[1])
      BY ClaimObservationFacts
    <3>2. Advance(w, "observed", o)
      BY <2>10 DEF ObserveClaim
    <3> HIDE DEF o
    <3>3. /\ job'[w].for = s /\ job'[w].kind = job[w].kind /\ job'[w].method = job[w].method
          /\ job'[w].phase = "observed" /\ job'[w].seen = o
      BY <3>2
    <3>4. job[w].method = EvmClaim /\ UNCHANGED claimTx /\ job[w].kind = "RECONCILE_ACTION"
      BY <2>10 DEF ObserveClaim, world, chain, At
    <3>5. ObservationTrue(s, job[w].method, job[w].seen[1])'
      BY <3>1, <3>3, <3>4 DEF ObservationTrue
    <3> QED
      BY <2>4, <3>1, <3>3, <3>4, <3>5
  <2>11. CASE RecordObservedInclusion(w, s)
    <3>1. /\ ObservationTrue(s, job[w].method, job[w].seen[1]) /\ job[w].seen[2] \in Blocks \cup {None}
          /\ UNCHANGED <<payment, claimTx>> /\ job[w].kind = "RECONCILE_ACTION"
      BY <2>11 DEF RecordObservedInclusion, At, KnowledgeOf, world, lightning, chain
    <3>2. /\ job'[w].for = s /\ job'[w].kind = job[w].kind /\ job'[w].method = job[w].method
          /\ job'[w].phase = "included" /\ job'[w].seen = job[w].seen
      BY <2>11 DEF RecordObservedInclusion
    <3>3. ObservationTrue(s, job[w].method, job[w].seen[1])'
      BY <3>1, <3>2 DEF ObservationTrue
    <3> QED
      BY <2>4, <3>1, <3>2, <3>3
  <2>12. CASE ReadPaymentProof(w, s)
    <3>1. actionState'[s][SendPaymentV2] = "CONFIRMED"
      BY <1>m, <2>2, <2>12 DEF ReadPaymentProof
    <3> QED
      BY <2>4, <2>12, <3>1 DEF ReadPaymentProof, At
  <2>13. CASE PlanClaim(w, s)
    <3>1. actionState'[s][SendPaymentV2] = "CONFIRMED"
      BY <1>m, <2>2, <2>13 DEF PlanClaim, At, KnowledgeOf
    <3> QED
      BY <2>4, <2>13, <3>1 DEF PlanClaim, At
  <2>14. CASE AuthorizeClaim(w, s) \/ ClaimBroadcast(w, s) \/ SendClaim(w, s)
    BY <2>4, <2>14 DEF AuthorizeClaim, ClaimBroadcast, SendClaim, At
  <2>15. CASE VerifyAssets(w, s)
    <3> DEFINE t == ExpectedTerminal(job[w].kind)
    <3>1. /\ AssetsReconciled(s, t) /\ UNCHANGED <<payment, escrow, claimTx>>
          /\ Advance(w, "evidence", <<t, None>>)
      BY <2>15 DEF VerifyAssets, world, lightning, chain
    <3>2. t = "COMPLETED" => Paid(s)' /\ BitClaimed(s)'
      BY <3>1 DEF AssetsReconciled, Paid, BitClaimed
    <3>3. t = "REFUNDED" => escrow'[s] = "REFUNDED" /\ actionState'[s][LightningLeg(s)'] = "FAILED"
      BY <2>3, <2>15, <3>1 DEF VerifyAssets, AssetsReconciled, ExpectedTerminal
    <3>4. t \in {"COMPLETED", "REFUNDED"}
      BY DEF ExpectedTerminal
    <3> HIDE DEF t
    <3> QED
      BY <2>4, <3>1, <3>2, <3>3, <3>4
  <2> QED
    BY <1>t, <1>2, <2>5, <2>6, <2>7, <2>8, <2>9, <2>10, <2>11, <2>12, <2>13, <2>14, <2>15
       DEF WorkerStep, RecordObservedReservation, HaltOnEvidence, HaltRequired, PlanLightningAction,
           ConfirmLightning, LightningAmbiguous, RecoverInterrupted, ReconcileObserved, BindClaim,
           RecordBroadcast, RecordVerifiedTerminal, Return
<1> QED
  BY <1>1, <1>2

\* The ledger hands the leg to one process: no second one is between claim and send.
LEMMA OneClaimantStep == DaemonInv /\ [DaemonNext]_daemonVars => OneClaimant'
<1> DEFINE Claimant(v, s) == At(v, s, "AUTHORIZE_AND_DISPATCH_LIGHTNING", "claimed")
<1> SUFFICES ASSUME DaemonInv, [DaemonNext]_daemonVars,
                    NEW s \in Settlements, NEW v \in Workers, NEW w \in Workers, v # w,
                    Claimant(v, s)', Claimant(w, s)'
             PROVE  FALSE
  BY DEF OneClaimant
<1>t. job \in [Workers -> JobRecords]
  BY DEF DaemonInv, DaemonTypeOK
<1>i. job'[v] # Idle /\ job'[w] # Idle
  BY DEF At, Idle
<1>1. ASSUME NEW a \in Workers, NEW b \in Workers, a # b, Claimant(a, s)', Claimant(b, s)', job'[a] # job[a]
      PROVE  FALSE
  <2>1. PICK r \in Settlements : WorkerStep(a, r)
    BY <1>1, JobChangedBy DEF At, Idle
  <2>2. job'[b] = job[b]
    BY <1>1, JobChangedBy DEF At, Idle
  <2>3. ClaimLightning(a, r) /\ r = s
    BY <1>t, <1>1, <2>1
       DEF WorkerStep, StartStep, ObserveReservation, RecordObservedReservation, HaltOnEvidence, HaltRequired,
           PlanLightningAction, AuthorizeLightning, ClaimLightning, SendLightning, ConfirmLightning,
           LightningAmbiguous, RecoverInterrupted, ObserveLightning, ObserveClaim, RecordObservedInclusion,
           ReconcileObserved, ReadPaymentProof, PlanClaim, BindClaim, AuthorizeClaim, ClaimBroadcast,
           SendClaim, RecordBroadcast, VerifyAssets, RecordVerifiedTerminal, Advance, Return, At, Idle
  <2>4. Dispatched(s, LightningLeg(s))
    BY <1>1, <2>2 DEF At, Idle, DaemonInv, KnowledgeTrue, KnowledgeOf
  <2> QED
    BY <2>3, <2>4 DEF ClaimLightning, ClaimAction, Dispatched
<1>2. CASE job'[v] = job[v] /\ job'[w] = job[w]
  BY <1>2 DEF DaemonInv, OneClaimant, At
<1> QED
  BY <1>1, <1>2

\* Every step preserves the daemon's inductive invariant.
LEMMA DaemonInvStep == DaemonInv /\ [DaemonNext]_daemonVars => DaemonInv'
<1> SUFFICES ASSUME DaemonInv, [DaemonNext]_daemonVars PROVE DaemonInv'
  OBVIOUS
<1>1. LedgerInv'
  BY DaemonLedgerStep, LedgerInvStep DEF DaemonInv
<1>2. ASSUME NEW w \in Workers PROVE KnowledgeTrue(w)'
  <2>1. CASE job'[w] = job[w]
    BY <2>1, KnowledgeKept
  <2>2. CASE job'[w] # job[w] /\ job'[w] # Idle
    BY <2>2, JobChangedBy, KnowledgeGained
  <2>3. CASE job'[w] = Idle
    BY <2>3 DEF KnowledgeTrue, Idle
  <2> QED
    BY <2>1, <2>2, <2>3
<1>3. ASSUME NEW s \in Settlements
      PROVE  OwnMethods(s)' /\ RequestAccounted(s)' /\ ChainConsistent(s)' /\ RowsTrue(s)'
  BY OwnMethodsStep, RequestAccountedStep, ChainConsistentStep, RowsTrueStep
<1> QED
  BY <1>1, <1>2, <1>3, DaemonTypeStep, OneClaimantStep DEF DaemonInv

\* The initial states satisfy it.
LEMMA DaemonInvInit == DaemonInit => DaemonInv
<1> SUFFICES ASSUME DaemonInit PROVE DaemonInv
  OBVIOUS
<1>1. LedgerInv
  BY LedgerInvInit DEF DaemonInit
<1>2. DaemonTypeOK
  <2>1. Idle \in JobRecords
    BY DEF Idle, JobRecords, StepKinds, Phases, Seen
  <2>2. <<>> \in Seq(Expiries)
    OBVIOUS
  <2> QED
    BY <2>1, <2>2 DEF DaemonInit, DaemonTypeOK, PaymentStates
<1>3. ASSUME NEW s \in Settlements
      PROVE  OwnMethods(s) /\ RequestAccounted(s) /\ ChainConsistent(s) /\ RowsTrue(s)
  <2>1. /\ \A m \in Methods : actionState[s][m] = "ABSENT"
        /\ terminalState[s] = None /\ Requests(s) = 0 /\ payment[s] = "NOT_FOUND"
        /\ escrow[s] = "NONE" /\ claimTx[s] = "NONE"
    BY DEF DaemonInit, LedgerInit, Requests
  <2>2. LightningLeg(s) \in Methods /\ EvmClaim \in Methods
    BY DEF LightningLeg, Methods, LightningMethods
  <2>3. OwnMethods(s)
    BY <2>1, Zenon DEF OwnMethods
  <2>4. RequestAccounted(s)
    BY <2>1 DEF RequestAccounted
  <2>5. ChainConsistent(s)
    BY <2>1 DEF ChainConsistent
  <2>6. actionState[s][LightningLeg(s)] = "ABSENT" /\ actionState[s][EvmClaim] = "ABSENT"
    BY <2>1, <2>2
  <2>7. RowsTrue(s)
    BY <2>1, <2>6 DEF RowsTrue, None
  <2> QED
    BY <2>3, <2>4, <2>5, <2>7
<1>4. OneClaimant /\ \A w \in Workers : KnowledgeTrue(w)
  BY DEF DaemonInit, OneClaimant, KnowledgeTrue, At, Idle
<1> QED
  BY <1>1, <1>2, <1>3, <1>4 DEF DaemonInv

\* The inductive invariant holds in every reachable state, for any number of processes.
THEOREM DaemonInvariant == DaemonSpec => []DaemonInv
  BY DaemonInvInit, DaemonInvStep, PTL DEF DaemonSpec

\* The daemon with its two runners uses the store as the store is specified: whatever
\* the first part shows of the ledger holds of the running system.
THEOREM DaemonImplementsLedger == DaemonSpec => LedgerSpec
<1>1. DaemonInit => LedgerInit
  BY DEF DaemonInit
<1> QED
  BY <1>1, DaemonLedgerStep, DaemonInvariant, PTL DEF DaemonSpec, LedgerSpec

\* However many processes race and crash around one dispatch, at most one signed request for
\* the leg exists and the node performs its side effect at most once.
THEOREM DaemonExecutedOnce == DaemonSpec => []ExecutedOnce
<1>1. DaemonInv => ExecutedOnce
  BY DEF DaemonInv, RequestAccounted, Requests, ExecutedOnce
<1> QED
  BY <1>1, DaemonInvariant, PTL

\* The ledger's verdicts and outcomes are true of Lightning and of the chain, although every
\* observation was made before an await and applied after it.
THEOREM DaemonVerdictTrue == DaemonSpec => []VerdictTrue
<1>1. DaemonInv => VerdictTrue
  <2> SUFFICES ASSUME DaemonInv, NEW s \in Settlements
               PROVE  /\ actionState[s][LightningLeg(s)] = "CONFIRMED" => Paid(s)
                      /\ actionState[s][LightningLeg(s)] = "FAILED" => Unpaid(s) /\ NothingUnderWay(s)
                      /\ actionState[s][EvmClaim] = "CONFIRMED" => claimTx[s] = "CLAIMED" /\ escrow[s] = "CLAIMED"
                      /\ actionState[s][EvmClaim] = "FAILED" => claimTx[s] = "REVERTED"
                      /\ terminalState[s] = "COMPLETED" => Paid(s) /\ escrow[s] = "CLAIMED"
                      /\ terminalState[s] = "REFUNDED" =>
                           Unpaid(s) /\ escrow[s] = "REFUNDED" /\ NothingUnderWay(s)
                      /\ terminalState[s] \in {None, "COMPLETED", "REFUNDED"}
    BY DEF VerdictTrue
  <2>1. RowsTrue(s) /\ ChainConsistent(s)
    BY DEF DaemonInv
  <2>2. Unpaid(s) => NothingUnderWay(s)
    BY NothingLeft DEF Unpaid, NothingUnderWay
  <2> QED
    BY <2>1, <2>2 DEF RowsTrue, ChainConsistent, BitClaimed
<1> QED
  BY <1>1, DaemonInvariant, PTL

\* The node performs the leg while the counterparty's BIT is locked, or already claimed with
\* this preimage; after a refund only within what an envelope's lifetime exceeds the margin by.
THEOREM DaemonExposureCovered == DaemonSpec => ExposureCovered
<1>1. ASSUME DaemonInv, [DaemonNext]_daemonVars, NEW s \in Settlements, executed'[s] # executed[s]
      PROVE  \/ escrow[s] \in {"RESERVED", "CLAIMED"}
             \/ escrow[s] = "REFUNDED" /\ clock[s] < EvmRefundAt + Uncovered
  <2>1. AdapterExecutes(s)
    BY <1>1, ExecutedBy
  <2>2. transit[s] # <<>> /\ ~Expired(s, Head(transit[s])) /\ transit[s] \in Seq(Expiries)
    BY <1>1, <2>1 DEF AdapterExecutes, DaemonInv, DaemonTypeOK
  <2>3. executed[s] = 0 /\ Len(transit[s]) = 1
    BY <1>1, <2>2, NothingLeft
  <2>4. escrow[s] # "NONE"
    BY <1>1, <2>3 DEF DaemonInv, RequestAccounted, Requests
  <2>5. clock[s] < EvmRefundAt + Uncovered
    <3>1. PICK e \in Expiries : clock[s] \in Nat /\ clock[s] < e
      BY <1>1, <2>2, TakeFirst DEF Expired, DaemonInv, DaemonTypeOK, Expiries
    <3> QED
      BY <3>1, DeadlineAssumption DEF Expiries, Uncovered
  <2> QED
    BY <1>1, <2>4, <2>5 DEF DaemonInv, DaemonTypeOK
<1>2. DaemonInv /\ [DaemonNext]_daemonVars
        => [\A s \in Settlements : executed'[s] # executed[s] =>
              \/ escrow[s] \in {"RESERVED", "CLAIMED"}
              \/ escrow[s] = "REFUNDED" /\ clock[s] < EvmRefundAt + Uncovered]_daemonVars
  BY <1>1
<1> QED
  BY <1>2, DaemonInvariant, PTL DEF DaemonSpec, ExposureCovered

\* Under a policy whose lifetime of an envelope is at most a second above the margin, the
\* second case of ExposureCovered is empty: BIT that was refunded is never paid for.
COROLLARY NothingUncovered ==
  ASSUME AuthorizationLifetime <= MinimumEvmSafety + 1
  PROVE  DaemonSpec => [][\A s \in Settlements : executed'[s] # executed[s] =>
                            escrow[s] \in {"RESERVED", "CLAIMED"}]_daemonVars
<1>1. ASSUME DaemonInv, NEW s \in Settlements, escrow[s] = "REFUNDED"
      PROVE  ~(clock[s] < EvmRefundAt + Uncovered)
  <2>1. clock[s] \in Nat /\ clock[s] >= EvmRefundAt
    BY <1>1 DEF DaemonInv, DaemonTypeOK, ChainConsistent
  <2> QED
    BY <2>1, DeadlineAssumption DEF Uncovered
<1>2. DaemonInv /\ [\A s \in Settlements : executed'[s] # executed[s] =>
                       \/ escrow[s] \in {"RESERVED", "CLAIMED"}
                       \/ escrow[s] = "REFUNDED" /\ clock[s] < EvmRefundAt + Uncovered]_daemonVars
        => [\A s \in Settlements : executed'[s] # executed[s] => escrow[s] \in {"RESERVED", "CLAIMED"}]_daemonVars
  BY <1>1
<1> QED
  BY <1>2, DaemonInvariant, DaemonExposureCovered, PTL DEF ExposureCovered

-------------------------------------------------------------------------------
\* The ledger closes one settlement at a time, and only one that has no outcome: it halts
\* it, or records the outcome of one that is not halted either.
LEMMA ClosingBy ==
  ASSUME LedgerInv, [LedgerNext]_ledgerVars
  PROVE  \/ UNCHANGED closing
         \/ \E s \in Settlements, c \in HaltCodes \cup {Mismatch} :
              /\ terminalState[s] = None /\ UNCHANGED terminalState
              /\ haltCode' = [haltCode EXCEPT ![s] = c]
         \/ \E s \in Settlements, t \in TERMINAL_STATES :
              /\ ~Closed(s) /\ UNCHANGED haltCode
              /\ terminalState' = [terminalState EXCEPT ![s] = t]
<1>1. CASE UNCHANGED ledgerVars
  BY <1>1 DEF ledgerVars
<1>2. ASSUME NEW s \in Settlements, NEW m \in PlannedMethods, NEW o, ReconcileMismatch(s, m, o)
      PROVE  terminalState[s] = None
  BY <1>2, ConstantsAssumption DEF LedgerInv, TerminalIsSettled, ReconcileMismatch, Pending, Unresolved
<1>3. ASSUME NEW s \in Settlements, NEW m \in PlannedMethods, NEW o, ReconcileMismatch(s, m, o)
      PROVE  \E c \in HaltCodes \cup {Mismatch} :
              /\ terminalState[s] = None /\ UNCHANGED terminalState
              /\ haltCode' = [haltCode EXCEPT ![s] = c]
  BY <1>2, <1>3 DEF ReconcileMismatch
<1>4. ASSUME NEW s \in Settlements, NEW c \in HaltCodes, HaltSettlement(s, c)
      PROVE  /\ terminalState[s] = None /\ UNCHANGED terminalState
             /\ haltCode' = [haltCode EXCEPT ![s] = c]
  BY <1>4 DEF HaltSettlement
<1>5. ASSUME NEW s \in Settlements, NEW t \in TERMINAL_STATES, RecordTerminal(s, t)
      PROVE  /\ ~Closed(s) /\ UNCHANGED haltCode
             /\ terminalState' = [terminalState EXCEPT ![s] = t]
  BY <1>5 DEF RecordTerminal
<1> QED
  BY <1>1, <1>3, <1>4, <1>5
     DEF LedgerNext, AcceptSettlement, BindContractIntent, BindSettlementExecutionPolicy, RecordReservation,
         PlanAction, ClaimAction, RecordConfirmed, RecordAmbiguous, MarkUnknown, Resolve,
         RecoverInterruptedAction, RecoverInterruptedActions, ReconcileUnresolved, ReconcileResolved,
         BindEvmTransaction, ClaimFirstBroadcast, ClaimRebroadcast, Broadcast, RecordRebroadcastResult,
         RecordEvmInclusion, closing

LegOf(s) == IF Paid(s) THEN "paid" ELSE IF Unpaid(s) THEN "unpaid" ELSE "undecided"
OutcomeOf(s) ==
  IF terminalState[s] = "COMPLETED" THEN "completed"
  ELSE IF terminalState[s] # None THEN "refunded"
  ELSE IF haltCode[s] # None THEN "halted" ELSE "open"

\* A leg is decided by the node alone, once, while the settlement has no outcome.
LEMMA LegDecided ==
  ASSUME DaemonInv, [DaemonNext]_daemonVars, NEW s \in Settlements, LegOf(s)' # LegOf(s)
  PROVE  /\ LegOf(s) = "undecided" /\ LegOf(s)' \in {"paid", "unpaid"}
         /\ OutcomeOf(s) \in {"open", "halted"} /\ UNCHANGED closing
         /\ \A r \in Settlements : r # s => LegOf(r)' = LegOf(r)
<1>t. payment \in [Settlements -> PaymentStates]
  BY DEF DaemonInv, DaemonTypeOK
<1>1. payment'[s] # payment[s]
  BY DEF LegOf, Paid, Unpaid
<1>2. \/ AdapterExecutes(s) \/ LightningProgress(s)
      \/ \E h \in PaymentHashes, d \in Directions : AcceptHandoff(s, h, d)
  BY <1>1, PaymentMovedBy
<1>3. UNCHANGED closing /\ \E p : payment' = [payment EXCEPT ![s] = p]
  BY <1>2, Zenon DEF AdapterExecutes, LightningProgress, AcceptHandoff, AcceptSettlement, ledgerVars, closing
<1>4. \A r \in Settlements : r # s => payment'[r] = payment[r]
  BY <1>t, <1>3
<1>5. LegOf(s) = "undecided"
  BY <1>1, WorldKeepsStep DEF WorldKeeps, LegOf, Paid, Unpaid
<1>6. terminalState[s] = None
  BY <1>5 DEF DaemonInv, RowsTrue, LegOf, Paid, Unpaid
<1> QED
  BY <1>3, <1>4, <1>5, <1>6 DEF LegOf, Paid, Unpaid, OutcomeOf, None

\* An outcome is recorded for an open settlement, and follows the leg.
LEMMA OutcomeRecorded ==
  ASSUME DaemonInv, [DaemonNext]_daemonVars, NEW s \in Settlements, terminalState'[s] # terminalState[s]
  PROVE  /\ OutcomeOf(s) = "open"
         /\ \/ OutcomeOf(s)' = "completed" /\ LegOf(s) = "paid"
            \/ OutcomeOf(s)' = "refunded" /\ LegOf(s) = "unpaid"
         /\ \A r \in Settlements : r # s => OutcomeOf(r)' = OutcomeOf(r)
<1>t. terminalState \in [Settlements -> TERMINAL_STATES \cup {None}]
  BY DEF DaemonInv, LedgerInv, TypeOK
<1>1. PICK w \in Workers : RecordVerifiedTerminal(w, s)
  BY TerminalBy
<1>2. /\ ~Closed(s) /\ UNCHANGED haltCode
      /\ terminalState' = [terminalState EXCEPT ![s] = job[w].seen[1]]
      /\ job[w].for = s /\ job[w].phase = "evidence" /\ job[w].kind # "WAIT_FOR_RESERVATION"
  BY <1>1 DEF RecordVerifiedTerminal, RecordTerminal
<1>3. job[w] # Idle
  BY <1>2 DEF Idle
<1>4. \/ job[w].seen[1] = "COMPLETED" /\ Paid(s)
      \/ job[w].seen[1] = "REFUNDED" /\ actionState[s][LightningLeg(s)] = "FAILED"
  BY <1>2, <1>3 DEF DaemonInv, KnowledgeTrue, KnowledgeOf
<1>5. actionState[s][LightningLeg(s)] = "FAILED" => Unpaid(s) /\ ~Paid(s)
  BY DEF DaemonInv, RowsTrue, Paid, Unpaid
<1>6. terminalState'[s] = job[w].seen[1] /\ \A r \in Settlements : r # s => terminalState'[r] = terminalState[r]
  BY <1>t, <1>2
<1> QED
  BY <1>2, <1>4, <1>5, <1>6 DEF OutcomeOf, LegOf, Closed, None

\* What changes the halt code of a settlement changes its outcome from open to halted, or
\* not at all.
LEMMA HaltRecorded ==
  ASSUME DaemonInv, [DaemonNext]_daemonVars, UNCHANGED terminalState,
         NEW s \in Settlements, OutcomeOf(s)' # OutcomeOf(s)
  PROVE  /\ OutcomeOf(s) = "open" /\ OutcomeOf(s)' = "halted"
         /\ \A r \in Settlements : r # s => OutcomeOf(r)' = OutcomeOf(r)
<1>t. haltCode \in [Settlements -> HaltCodes \cup {Mismatch, None}]
  BY DEF DaemonInv, LedgerInv, TypeOK
<1>1. [LedgerNext]_ledgerVars /\ LedgerInv
  BY DaemonLedgerStep DEF DaemonInv
<1>2. haltCode'[s] # haltCode[s] /\ terminalState[s] = None
  BY DEF OutcomeOf
<1>3. \E r \in Settlements, c \in HaltCodes \cup {Mismatch} : haltCode' = [haltCode EXCEPT ![r] = c]
  BY <1>1, <1>2, ClosingBy DEF closing
<1>4. /\ haltCode'[s] # None
      /\ \A r \in Settlements : r # s => haltCode'[r] = haltCode[r]
  BY <1>t, <1>2, <1>3, ConstantsAssumption DEF Mismatch, None
<1> QED
  BY <1>2, <1>4 DEF OutcomeOf, None

\* Every step of the daemon is a step of the swap, or none.
LEMMA OutcomeStep == DaemonInv /\ [DaemonNext]_daemonVars => [Swap!SwapNext]_(Swap!swapVars)
<1> SUFFICES ASSUME DaemonInv, [DaemonNext]_daemonVars PROVE [Swap!SwapNext]_(Swap!swapVars)
  OBVIOUS
<1> DEFINE leg == [s \in Settlements |-> LegOf(s)]
           outcome == [s \in Settlements |-> OutcomeOf(s)]
<1>m. /\ leg = [s \in Settlements |-> IF Paid(s) THEN "paid" ELSE IF Unpaid(s) THEN "unpaid" ELSE "undecided"]
      /\ outcome = [s \in Settlements |->
           IF terminalState[s] = "COMPLETED" THEN "completed"
           ELSE IF terminalState[s] # None THEN "refunded"
           ELSE IF haltCode[s] # None THEN "halted" ELSE "open"]
  BY DEF LegOf, OutcomeOf
<1>1. CASE \E s \in Settlements : LegOf(s)' # LegOf(s)
  <2>1. PICK s \in Settlements : LegOf(s)' # LegOf(s)
    BY <1>1
  <2>2. /\ leg[s] = "undecided" /\ outcome[s] \in {"open", "halted"} /\ UNCHANGED closing
        /\ LegOf(s)' \in {"paid", "unpaid"}
        /\ \A r \in Settlements : r # s => LegOf(r)' = LegOf(r)
    BY <2>1, LegDecided
  <2>3. UNCHANGED outcome
    BY <2>2 DEF OutcomeOf, closing
  <2>4. leg' = [leg EXCEPT ![s] = LegOf(s)']
    BY <2>2
  <2>5. Swap!Decide(s, LegOf(s)')
    BY <2>2, <2>3, <2>4, <1>m DEF Swap!Decide, LegOf, OutcomeOf
  <2> QED
    BY <2>2, <2>5 DEF Swap!SwapNext
<1>2. CASE (\A s \in Settlements : LegOf(s)' = LegOf(s)) /\ \E s \in Settlements : OutcomeOf(s)' # OutcomeOf(s)
  <2>1. PICK s \in Settlements : OutcomeOf(s)' # OutcomeOf(s)
    BY <1>2
  <2>2. UNCHANGED leg
    BY <1>2
  <2>3. CASE \E r \in Settlements : terminalState'[r] # terminalState[r]
    <3>1. PICK r \in Settlements : terminalState'[r] # terminalState[r]
      BY <2>3
    <3>2. /\ OutcomeOf(r) = "open"
          /\ \/ OutcomeOf(r)' = "completed" /\ LegOf(r) = "paid"
             \/ OutcomeOf(r)' = "refunded" /\ LegOf(r) = "unpaid"
          /\ \A q \in Settlements : q # r => OutcomeOf(q)' = OutcomeOf(q)
      BY <3>1, OutcomeRecorded
    <3>3. outcome' = [outcome EXCEPT ![r] = OutcomeOf(r)']
      BY <3>2
    <3>4. Swap!Complete(r) \/ Swap!Refund(r)
      BY <2>2, <3>2, <3>3, <1>m DEF Swap!Complete, Swap!Refund, LegOf, OutcomeOf
    <3> QED
      BY <3>4 DEF Swap!SwapNext
  <2>4. CASE \A r \in Settlements : terminalState'[r] = terminalState[r]
    <3>1. UNCHANGED terminalState
      BY <2>4, DaemonInvStep DEF DaemonInv, LedgerInv, TypeOK
    <3>2. /\ OutcomeOf(s) = "open" /\ OutcomeOf(s)' = "halted"
          /\ \A r \in Settlements : r # s => OutcomeOf(r)' = OutcomeOf(r)
      BY <2>1, <3>1, HaltRecorded
    <3>3. outcome' = [outcome EXCEPT ![s] = "halted"]
      BY <3>2
    <3>4. Swap!Halt(s)
      BY <2>2, <3>2, <3>3, <1>m DEF Swap!Halt, LegOf, OutcomeOf
    <3> QED
      BY <3>4 DEF Swap!SwapNext
  <2> QED
    BY <2>3, <2>4
<1>3. CASE \A s \in Settlements : LegOf(s)' = LegOf(s) /\ OutcomeOf(s)' = OutcomeOf(s)
  <2>1. UNCHANGED <<leg, outcome>>
    BY <1>3
  <2> QED
    BY <2>1, <1>m DEF Swap!swapVars, LegOf, OutcomeOf
<1> QED
  BY <1>1, <1>2, <1>3

\* The daemon, with its crashes, retries, late answers and races, implements SwapOutcome: the
\* leg of every swap is decided once and the recorded outcome follows that decision.
THEOREM DaemonImplementsSwap == DaemonSpec => ImplementsSwap
<1>1. DaemonInit => Swap!SwapInit
  BY DEF DaemonInit, LedgerInit, Swap!SwapInit, Paid, Unpaid, None
<1> QED
  BY <1>1, OutcomeStep, DaemonInvariant, PTL DEF DaemonSpec, ImplementsSwap, Swap!SwapSpec


-------------------------------------------------------------------------------
(* The gate alone, for every delay, duration and sequence of calls: a halt keeps it closed  *)
(* for the resume delay and no opening outlives the maximum.                               *)

\* The deployed gate satisfies the inductive invariant.
LEMMA GateInitInv == GateInit => GateInv
  BY GateAssumption DEF GateInit, GateInv, GateTypeOK, PendingOpens, NoPending

\* No call and no block breaks it: a staging is younger than the last halt by the delay,
\* an execution needs one that was staged and not discarded since.
LEMMA GateStepInv == GateInv /\ [GateNext]_<<now, gateVars>> => GateInv'
  <1> SUFFICES ASSUME GateInv, [GateNext]_<<now, gateVars>>
               PROVE  GateInv'
    OBVIOUS
  <1> USE GateAssumption
  <1> USE DEF GateInv, GateTypeOK
  <1>0. /\ pendingOpen.riskDigest \in RiskDigests \cup {NoDigest}
        /\ pendingOpen.executeAfter \in Nat /\ pendingOpen.validUntil \in Nat
    BY DEF PendingOpens
  <1>a. /\ NoPending \in PendingOpens /\ NoPending.riskDigest = NoDigest
    BY DEF NoPending, PendingOpens
  <1>1. CASE \E digest \in RiskDigests, validUntil \in 0 .. MaxTime : ScheduleOpen(digest, validUntil)
    <2> PICK digest \in RiskDigests, validUntil \in 0 .. MaxTime : ScheduleOpen(digest, validUntil)
      BY <1>1
    <2>1. /\ pendingOpen' = [riskDigest |-> digest, executeAfter |-> now + ResumeDelay,
                             validUntil |-> validUntil]
          /\ validUntil <= now + ResumeDelay + MaxOpenDuration
          /\ UNCHANGED <<now, emergencyHalted, openUntil, activeRiskDigest, lastHalt, stagedFor>>
      BY DEF ScheduleOpen
    <2>2. pendingOpen' \in PendingOpens
      BY <2>1 DEF PendingOpens
    <2>3. /\ pendingOpen'.executeAfter = now + ResumeDelay /\ pendingOpen'.validUntil = validUntil
      BY <2>1
    <2> QED BY <2>1, <2>2, <2>3
  <1>2. CASE \E digest \in RiskDigests : ExecuteOpen(digest)
    <2> PICK digest \in RiskDigests : ExecuteOpen(digest)
      BY <1>2
    <2>1. /\ pendingOpen.riskDigest # NoDigest /\ now >= pendingOpen.executeAfter
          /\ pendingOpen' = NoPending /\ activeRiskDigest' = digest
          /\ openUntil' = pendingOpen.validUntil /\ emergencyHalted' = FALSE
          /\ stagedFor' = pendingOpen.executeAfter /\ now' = now /\ lastHalt' = lastHalt
      BY DEF ExecuteOpen
    <2>2. GateTypeOK'
      BY <2>1, <1>0, <1>a
    <2>3. /\ stagedFor' >= lastHalt' + ResumeDelay /\ stagedFor' <= now'
          /\ openUntil' <= stagedFor' + MaxOpenDuration
      BY <2>1, <1>0
    <2>4. pendingOpen'.riskDigest = NoDigest
      BY <2>1, <1>a
    <2> QED BY <2>1, <2>2, <2>3, <2>4
  <1>3. CASE Halt
    BY <1>3, <1>a DEF Halt
  <1>4. CASE NextBlock
    <2>1. now' \in Nat /\ now' > now
      BY <1>4 DEF NextBlock, GateInv, GateTypeOK
    <2> QED BY <1>4, <2>1 DEF GateInv, GateTypeOK, NextBlock, gateVars
  <1>5. CASE UNCHANGED <<now, gateVars>>
    BY <1>5 DEF GateInv, GateTypeOK, gateVars
  <1> QED BY <1>1, <1>2, <1>3, <1>4, <1>5 DEF GateNext, GateCall

\* The invariant holds throughout, for every value of the constants.
THEOREM GateInvariant == GateSpec => []GateInv
  BY GateInitInv, GateStepInv, PTL DEF GateSpec

\* Type correctness of the gate's storage.
THEOREM GateTypeCorrect == GateSpec => []GateTypeOK
  <1>1. GateInv => GateTypeOK
    BY DEF GateInv
  <1> QED BY GateInvariant, <1>1, PTL

\* A halt closes the gate for at least the resume delay.
THEOREM GateHaltHolds == GateSpec => []HaltHolds
  <1>1. GateInv => HaltHolds
    BY GateAssumption DEF GateInv, GateTypeOK, HaltHolds, IsOpen
  <1> QED BY GateInvariant, <1>1, PTL

\* No opening reaches further ahead than the maximal duration.
THEOREM GateOpeningBounded == GateSpec => []OpeningBounded
  <1>1. GateInv => OpeningBounded
    BY GateAssumption DEF GateInv, GateTypeOK, OpeningBounded, IsOpen
  <1> QED BY GateInvariant, <1>1, PTL

-------------------------------------------------------------------------------
(* The escrows behind it. *)

Quotes == VaultQuotes \cup EscrowQuotes

\* No swap changes; the registry only grows.
Quiet ==
  /\ \A t \in Swaps : SwapAt(t)' = SwapAt(t)
  /\ paymentHashUsed' = paymentHashUsed /\ approvedEscrow \subseteq approvedEscrow'
  /\ isSealed => isSealed'

\* Only s changes: it is locked under a valid quote whose hash is consumed.
Locks(s, q) ==
  /\ \A t \in Swaps : t # s => SwapAt(t)' = SwapAt(t)
  /\ StateOf(s) = "UNSET" /\ SwapAt(s)' = Locked(q)
  /\ q \in Quotes /\ ValidTerms(q) /\ IsOpen
  /\ isSealed /\ s[1] \in approvedEscrow /\ isSealed' = isSealed /\ approvedEscrow' = approvedEscrow
  /\ q.paymentHash \notin paymentHashUsed
  /\ paymentHashUsed' = paymentHashUsed \cup {q.paymentHash}

\* Only s changes: it leaves LOCKED in its window.
Exits(s) ==
  /\ \A t \in Swaps : t # s => SwapAt(t)' = SwapAt(t)
  /\ StateOf(s) = "LOCKED"
  /\ \/ StateOf(s)' = "CLAIMED" /\ now < QuoteOf(s).refundAfter
     \/ StateOf(s)' = "REFUNDED" /\ now >= QuoteOf(s).refundAfter
  /\ QuoteOf(s)' = QuoteOf(s) /\ SwapAt(s)'.lockedAt = SwapAt(s).lockedAt
  /\ UNCHANGED registryVars

\* How a swap of either contract is found.
LEMMA SwapLookup ==
  /\ \A i \in QuoteIds : <<Vault, i>> \in Swaps /\ <<Escrow, i>> \in Swaps
  /\ \A i \in QuoteIds : SwapAt(<<Vault, i>>) = vaultSwaps[i] /\ SwapAt(<<Escrow, i>>) = escrowSwaps[i]
  /\ \A s \in Swaps : \E i \in QuoteIds : s = <<Vault, i>> \/ s = <<Escrow, i>>
  <1>1. Vault # Escrow
    BY DEF Vault, Escrow
  <1> QED BY <1>1 DEF Swaps, SwapAt

\* If the vault's swaps change at one identifier only, so do the swaps of both contracts.
LEMMA VaultFrame ==
  ASSUME NEW i \in QuoteIds, escrowSwaps' = escrowSwaps,
         \A j \in QuoteIds : j # i => vaultSwaps'[j] = vaultSwaps[j]
  PROVE  \A t \in Swaps : t # <<Vault, i>> => SwapAt(t)' = SwapAt(t)
  BY DEF Swaps, SwapAt, Vault, Escrow

\* The same for the user escrow.
LEMMA EscrowFrame ==
  ASSUME NEW i \in QuoteIds, vaultSwaps' = vaultSwaps,
         \A j \in QuoteIds : j # i => escrowSwaps'[j] = escrowSwaps[j]
  PROVE  \A t \in Swaps : t # <<Escrow, i>> => SwapAt(t)' = SwapAt(t)
  BY DEF Swaps, SwapAt, Vault, Escrow

\* A call that touches neither swap table nor the registry is quiet.
LEMMA QuietFrame == UNCHANGED <<vaultSwaps, escrowSwaps, registryVars>> => Quiet
  BY DEF Quiet, SwapAt, registryVars

\* reserve locks the swap of its quote.
LEMMA ReserveLocks ==
  ASSUME EscrowsTypeOK, NEW q \in VaultQuotes, Reserve(q), UNCHANGED escrowVars
  PROVE  Locks(<<Vault, q.quoteId>>, q)
  <1> DEFINE s == <<Vault, q.quoteId>>
  <1>1. q.quoteId \in QuoteIds /\ q \in Quotes
    BY QuoteAssumption DEF Quotes
  <1>2. vaultSwaps' = [vaultSwaps EXCEPT ![q.quoteId] = Locked(q)] /\ escrowSwaps' = escrowSwaps
    BY DEF Reserve, escrowVars
  <1>3. vaultSwaps'[q.quoteId] = Locked(q) /\ \A j \in QuoteIds : j # q.quoteId => vaultSwaps'[j] = vaultSwaps[j]
    BY <1>1, <1>2 DEF EscrowsTypeOK
  <1>4. SwapAt(s) = vaultSwaps[q.quoteId] /\ SwapAt(s)' = vaultSwaps'[q.quoteId] /\ s[1] = Vault
    BY DEF SwapAt
  <1>5. \A t \in Swaps : t # s => SwapAt(t)' = SwapAt(t)
    BY <1>1, <1>2, <1>3, VaultFrame
  <1>6. /\ StateOf(s) = "UNSET" /\ ValidTerms(q) /\ IsOpen
        /\ isSealed /\ Vault \in approvedEscrow /\ isSealed' = isSealed /\ approvedEscrow' = approvedEscrow
        /\ q.paymentHash \notin paymentHashUsed /\ paymentHashUsed' = paymentHashUsed \cup {q.paymentHash}
    BY <1>4 DEF Reserve, ReserveAllowed, RequireOpen, ConsumePaymentHash, StateOf
  <1> QED BY <1>1, <1>3, <1>4, <1>5, <1>6 DEF Locks

\* open locks the swap of its quote.
LEMMA OpenLocks ==
  ASSUME EscrowsTypeOK, NEW q \in EscrowQuotes, Open(q), UNCHANGED vaultVars
  PROVE  Locks(<<Escrow, q.quoteId>>, q)
  <1> DEFINE s == <<Escrow, q.quoteId>>
  <1>1. q.quoteId \in QuoteIds /\ q \in Quotes
    BY QuoteAssumption DEF Quotes
  <1>2. escrowSwaps' = [escrowSwaps EXCEPT ![q.quoteId] = Locked(q)] /\ vaultSwaps' = vaultSwaps
    BY DEF Open, vaultVars
  <1>3. escrowSwaps'[q.quoteId] = Locked(q) /\ \A j \in QuoteIds : j # q.quoteId => escrowSwaps'[j] = escrowSwaps[j]
    BY <1>1, <1>2 DEF EscrowsTypeOK
  <1>4. SwapAt(s) = escrowSwaps[q.quoteId] /\ SwapAt(s)' = escrowSwaps'[q.quoteId] /\ s[1] = Escrow
    BY DEF SwapAt, Vault, Escrow
  <1>5. \A t \in Swaps : t # s => SwapAt(t)' = SwapAt(t)
    BY <1>1, <1>2, <1>3, EscrowFrame
  <1>6. /\ StateOf(s) = "UNSET" /\ ValidTerms(q) /\ IsOpen
        /\ isSealed /\ Escrow \in approvedEscrow /\ isSealed' = isSealed /\ approvedEscrow' = approvedEscrow
        /\ q.paymentHash \notin paymentHashUsed /\ paymentHashUsed' = paymentHashUsed \cup {q.paymentHash}
    BY <1>4 DEF Open, OpenAllowed, RequireOpen, ConsumePaymentHash, StateOf
  <1> QED BY <1>1, <1>3, <1>4, <1>5, <1>6 DEF Locks

\* claim and refund of the vault release the swap they name.
LEMMA VaultExits ==
  ASSUME EscrowsTypeOK, NEW i \in QuoteIds, VaultClaim(i) \/ VaultRefund(i), UNCHANGED escrowVars
  PROVE  Exits(<<Vault, i>>)
  <1> DEFINE s == <<Vault, i>>
  <1>1. PICK st \in {"CLAIMED", "REFUNDED"} : vaultSwaps' = [vaultSwaps EXCEPT ![i].state = st]
    BY DEF VaultClaim, VaultRefund
  <1>2. vaultSwaps[i] \in SwapRecords(VaultQuotes) /\ vaultSwaps'[i] = [vaultSwaps[i] EXCEPT !.state = st]
    BY <1>1 DEF EscrowsTypeOK
  <1>3. /\ vaultSwaps'[i].state = st /\ vaultSwaps'[i].quote = vaultSwaps[i].quote
        /\ vaultSwaps'[i].lockedAt = vaultSwaps[i].lockedAt
    BY <1>2 DEF SwapRecords
  <1>4. SwapAt(s) = vaultSwaps[i] /\ SwapAt(s)' = vaultSwaps'[i]
    BY DEF SwapAt
  <1>5. \A t \in Swaps : t # s => SwapAt(t)' = SwapAt(t)
    <2>1. escrowSwaps' = escrowSwaps /\ \A j \in QuoteIds : j # i => vaultSwaps'[j] = vaultSwaps[j]
      BY <1>1 DEF EscrowsTypeOK, escrowVars
    <2> QED BY <2>1, VaultFrame
  <1>6. CASE VaultClaim(i)
    <2>1. /\ vaultSwaps[i].state = "LOCKED" /\ now < vaultSwaps[i].quote.refundAfter
          /\ vaultSwaps' = [vaultSwaps EXCEPT ![i].state = "CLAIMED"] /\ UNCHANGED registryVars
      BY <1>6 DEF VaultClaim
    <2>2. vaultSwaps'[i].state = "CLAIMED"
      BY <2>1, <1>2 DEF EscrowsTypeOK, SwapRecords
    <2> QED BY <2>1, <2>2, <1>3, <1>4, <1>5 DEF Exits, StateOf, QuoteOf
  <1>7. CASE VaultRefund(i)
    <2>1. /\ vaultSwaps[i].state = "LOCKED" /\ now >= vaultSwaps[i].quote.refundAfter
          /\ vaultSwaps' = [vaultSwaps EXCEPT ![i].state = "REFUNDED"] /\ UNCHANGED registryVars
      BY <1>7 DEF VaultRefund
    <2>2. vaultSwaps'[i].state = "REFUNDED"
      BY <2>1, <1>2 DEF EscrowsTypeOK, SwapRecords
    <2> QED BY <2>1, <2>2, <1>3, <1>4, <1>5 DEF Exits, StateOf, QuoteOf
  <1> QED BY <1>6, <1>7

\* claim and refund of the user escrow release the swap they name.
LEMMA EscrowExits ==
  ASSUME EscrowsTypeOK, NEW i \in QuoteIds, EscrowClaim(i) \/ EscrowRefund(i), UNCHANGED vaultVars
  PROVE  Exits(<<Escrow, i>>)
  <1> DEFINE s == <<Escrow, i>>
  <1>1. PICK st \in {"CLAIMED", "REFUNDED"} : escrowSwaps' = [escrowSwaps EXCEPT ![i].state = st]
    BY DEF EscrowClaim, EscrowRefund
  <1>2. escrowSwaps[i] \in SwapRecords(EscrowQuotes) /\ escrowSwaps'[i] = [escrowSwaps[i] EXCEPT !.state = st]
    BY <1>1 DEF EscrowsTypeOK
  <1>3. /\ escrowSwaps'[i].state = st /\ escrowSwaps'[i].quote = escrowSwaps[i].quote
        /\ escrowSwaps'[i].lockedAt = escrowSwaps[i].lockedAt
    BY <1>2 DEF SwapRecords
  <1>4. SwapAt(s) = escrowSwaps[i] /\ SwapAt(s)' = escrowSwaps'[i]
    BY DEF SwapAt, Vault, Escrow
  <1>5. \A t \in Swaps : t # s => SwapAt(t)' = SwapAt(t)
    <2>1. vaultSwaps' = vaultSwaps /\ \A j \in QuoteIds : j # i => escrowSwaps'[j] = escrowSwaps[j]
      BY <1>1 DEF EscrowsTypeOK, vaultVars
    <2> QED BY <2>1, EscrowFrame
  <1>6. CASE EscrowClaim(i)
    <2>1. /\ escrowSwaps[i].state = "LOCKED" /\ now < escrowSwaps[i].quote.refundAfter
          /\ escrowSwaps' = [escrowSwaps EXCEPT ![i].state = "CLAIMED"] /\ UNCHANGED registryVars
      BY <1>6 DEF EscrowClaim
    <2>2. escrowSwaps'[i].state = "CLAIMED"
      BY <2>1, <1>2 DEF EscrowsTypeOK, SwapRecords
    <2> QED BY <2>1, <2>2, <1>3, <1>4, <1>5 DEF Exits, StateOf, QuoteOf
  <1>7. CASE EscrowRefund(i)
    <2>1. /\ escrowSwaps[i].state = "LOCKED" /\ now >= escrowSwaps[i].quote.refundAfter
          /\ escrowSwaps' = [escrowSwaps EXCEPT ![i].state = "REFUNDED"] /\ UNCHANGED registryVars
      BY <1>7 DEF EscrowRefund
    <2>2. escrowSwaps'[i].state = "REFUNDED"
      BY <2>1, <1>2 DEF EscrowsTypeOK, SwapRecords
    <2> QED BY <2>1, <2>2, <1>3, <1>4, <1>5 DEF Exits, StateOf, QuoteOf
  <1> QED BY <1>6, <1>7

\* Every step of the contracts is quiet, locks one swap or releases one.
LEMMA SwapStep ==
  ASSUME EscrowsTypeOK, [EscrowsNext]_allVars
  PROVE  Quiet \/ (\E s \in Swaps, q \in Quotes : Locks(s, q)) \/ (\E s \in Swaps : Exits(s))
  <1>1. CASE CallGate \/ CallToken \/ AdvanceBlock \/ UNCHANGED allVars
    BY <1>1, QuietFrame DEF CallGate, CallToken, AdvanceBlock, allVars, vaultVars, escrowVars
  <1>2. CASE CallRegistry
    <2>1. /\ UNCHANGED <<vaultSwaps, escrowSwaps>> /\ paymentHashUsed' = paymentHashUsed
          /\ approvedEscrow \subseteq approvedEscrow' /\ (isSealed => isSealed')
      BY <1>2 DEF CallRegistry, RegistryCall, RegisterEscrow, Seal, vaultVars, escrowVars
    <2> QED BY <2>1 DEF Quiet, SwapAt
  <1>3. CASE CallVault
    <2>0. UNCHANGED escrowVars
      BY <1>3 DEF CallVault
    <2>1. CASE \E s \in Solvers, amount \in DepositAmounts :
                 Deposit(s, amount) \/ \E recipient \in Accounts : Withdraw(s, amount, recipient)
      BY <2>0, <2>1, QuietFrame DEF Deposit, Withdraw, escrowVars
    <2>2. CASE \E q \in VaultQuotes : Reserve(q)
      <3> PICK q \in VaultQuotes : Reserve(q)
        BY <2>2
      <3>1. <<Vault, q.quoteId>> \in Swaps /\ q \in Quotes
        BY QuoteAssumption, SwapLookup DEF Quotes
      <3> QED BY <2>0, <3>1, ReserveLocks
    <2>3. CASE \E i \in QuoteIds : VaultClaim(i) \/ VaultRefund(i)
      BY <2>0, <2>3, VaultExits, SwapLookup
    <2> QED BY <1>3, <2>1, <2>2, <2>3 DEF CallVault, VaultCall
  <1>4. CASE CallEscrow
    <2>0. UNCHANGED vaultVars
      BY <1>4 DEF CallEscrow
    <2>1. CASE \E q \in EscrowQuotes : Open(q)
      <3> PICK q \in EscrowQuotes : Open(q)
        BY <2>1
      <3>1. <<Escrow, q.quoteId>> \in Swaps /\ q \in Quotes
        BY QuoteAssumption, SwapLookup DEF Quotes
      <3> QED BY <2>0, <3>1, OpenLocks
    <2>2. CASE \E i \in QuoteIds : EscrowClaim(i) \/ EscrowRefund(i)
      BY <2>0, <2>2, EscrowExits, SwapLookup
    <2> QED BY <1>4, <2>1, <2>2 DEF CallEscrow, EscrowCall
  <1> QED BY <1>1, <1>2, <1>3, <1>4 DEF EscrowsNext

-------------------------------------------------------------------------------
\* The gate inside the composition takes only steps of the gate.
LEMMA GateFrame == GateInv /\ [EscrowsNext]_allVars => GateInv'
  <1> SUFFICES ASSUME [EscrowsNext]_allVars PROVE [GateNext]_<<now, gateVars>>
    BY GateStepInv
  <1> QED BY DEF EscrowsNext, CallGate, CallRegistry, CallToken, CallVault, CallEscrow,
                 AdvanceBlock, GateNext, allVars

\* A locked swap of the vault holds a validated quote for the vault.
LEMMA VaultQuoteFacts ==
  ASSUME EscrowsInv, NEW i \in QuoteIds, vaultSwaps[i].state = "LOCKED"
  PROVE  LET q == vaultSwaps[i].quote
         IN /\ q \in Quotes /\ q.amount \in Nat /\ q.fee \in Nat /\ q.fee < q.amount
            /\ q.user \in Users /\ q.solver \in Solvers /\ q.beneficiary \in Accounts
  <1> DEFINE s == <<Vault, i>>
  <1>1. s \in Taken /\ QuoteOf(s) = vaultSwaps[i].quote
    BY SwapLookup DEF Taken, StateOf, QuoteOf
  <1>2. vaultSwaps[i].quote \in Quotes /\ vaultSwaps[i].quote.fee < vaultSwaps[i].quote.amount
    BY <1>1 DEF EscrowsInv, TakenValid, Quotes
  <1> QED BY <1>2, QuoteAssumption DEF Quotes

\* The same for the user escrow.
LEMMA EscrowQuoteFacts ==
  ASSUME EscrowsInv, NEW i \in QuoteIds, escrowSwaps[i].state = "LOCKED"
  PROVE  LET q == escrowSwaps[i].quote
         IN /\ q \in Quotes /\ q.amount \in Nat /\ q.fee \in Nat /\ q.fee < q.amount
            /\ q.user \in Users /\ q.solver \in Solvers /\ q.beneficiary \in Accounts
  <1> DEFINE s == <<Escrow, i>>
  <1>1. s \in Taken /\ QuoteOf(s) = escrowSwaps[i].quote
    BY SwapLookup DEF Taken, StateOf, QuoteOf
  <1>2. escrowSwaps[i].quote \in Quotes /\ escrowSwaps[i].quote.fee < escrowSwaps[i].quote.amount
    BY <1>1 DEF EscrowsInv, TakenValid, Quotes
  <1> QED BY <1>2, QuoteAssumption DEF Quotes

\* An exact transfer between accounts keeps balances natural and moves just the amount.
LEMMA TransferMoves ==
  ASSUME bit \in [Accounts -> Nat], NEW from \in Accounts, NEW to \in Accounts, NEW amount \in Nat,
         Transfer(from, to, amount)
  PROVE  /\ bit' \in [Accounts -> Nat] /\ bit'[from] = bit[from] - amount
         /\ bit'[to] = bit[to] + amount
         /\ \A a \in Accounts : a # from => bit'[a] >= bit[a]
  BY DEF Transfer

\* The payout of a claim takes the amount from the contract and nothing from anyone else.
LEMMA PayOutMoves ==
  ASSUME bit \in [Accounts -> Nat], NEW from \in {Vault, Escrow}, NEW to \in Accounts,
         NEW amount \in Nat, NEW fee \in Nat, fee < amount, PayOut(from, to, amount, fee)
  PROVE  /\ bit' \in [Accounts -> Nat] /\ bit'[from] = bit[from] - amount
         /\ \A a \in Accounts : a # from => bit'[a] >= bit[a]
  <1>1. from \in Accounts /\ from # Collector
    BY DEF Accounts, Vault, Escrow, Collector
  <1>2. \A a \in Accounts : bit'[a] = bit[a] - (IF a = from THEN amount ELSE 0)
                                      + (IF a = to THEN amount - fee ELSE 0)
                                      + (IF a = Collector THEN fee ELSE 0)
    BY DEF PayOut
  <1>3. \A a \in Accounts : a # from => bit'[a] \in Nat /\ bit'[a] >= bit[a]
    BY <1>2
  <1>4. bit'[from] = bit[from] - amount /\ bit'[from] \in Nat
    BY <1>1, <1>2 DEF PayOut
  <1>5. DOMAIN bit' = Accounts /\ bit' = [a \in Accounts |-> bit'[a]]
    BY DEF PayOut
  <1> QED BY <1>3, <1>4, <1>5

\* The part of the types that balances and totals have.
MoneyTypeOK ==
  /\ bit \in [Accounts -> Nat] /\ tokenPaused \in BOOLEAN
  /\ availableBalance \in [Solvers -> Nat] /\ totalAvailable \in Nat
  /\ vaultLocked \in Nat /\ escrowLocked \in Nat
  /\ activeUserReservations \in [Users -> Nat]

\* No call of the vault leaves either contract short.
LEMMA VaultMoney ==
  ASSUME EscrowsInv, VaultCall, UNCHANGED escrowVars
  PROVE  MoneyTypeOK' /\ Solvent'
  <1> USE QuoteAssumption
  <1>0. /\ MoneyTypeOK /\ Solvent /\ escrowLocked' = escrowLocked
        /\ Vault \in Accounts /\ Escrow \in Accounts /\ Vault # Escrow
        /\ \A a \in Users \cup Solvers : a \in Accounts /\ a # Vault /\ a # Escrow
    BY RiskConfigAssumption DEF EscrowsInv, EscrowsTypeOK, MoneyTypeOK, Accounts, Vault, Escrow, Collector, escrowVars
  <1>1. ASSUME NEW s \in Solvers, NEW amount \in DepositAmounts, Deposit(s, amount)
        PROVE  MoneyTypeOK' /\ Solvent'
    <2>1. /\ amount \in Nat /\ s \in Accounts /\ Transfer(s, Vault, amount)
          /\ availableBalance' = [availableBalance EXCEPT ![s] = @ + amount]
          /\ totalAvailable' = totalAvailable + amount
          /\ UNCHANGED <<activeUserReservations, vaultLocked>>
      BY <1>0, <1>1 DEF Deposit
    <2>2. /\ bit' \in [Accounts -> Nat] /\ bit'[Vault] = bit[Vault] + amount
          /\ bit'[Escrow] >= bit[Escrow] /\ tokenPaused' = tokenPaused
      <3>1. tokenPaused' = tokenPaused /\ s # Escrow
        BY <1>0, <2>1 DEF Transfer
      <3> QED BY <1>0, <2>1, <3>1, TransferMoves DEF MoneyTypeOK
    <2> QED BY <1>0, <2>1, <2>2 DEF MoneyTypeOK, Solvent
  <1>2. ASSUME NEW s \in Solvers, NEW amount \in DepositAmounts, NEW recipient \in Accounts,
               Withdraw(s, amount, recipient)
        PROVE  MoneyTypeOK' /\ Solvent'
    <2>1. /\ amount \in Nat /\ Transfer(Vault, recipient, amount) /\ availableBalance[s] >= amount
          /\ availableBalance' = [availableBalance EXCEPT ![s] = @ - amount]
          /\ totalAvailable >= amount /\ totalAvailable' = totalAvailable - amount
          /\ UNCHANGED <<activeUserReservations, vaultLocked>>
      BY <1>2 DEF Withdraw
    <2>2. /\ bit' \in [Accounts -> Nat] /\ bit'[Vault] = bit[Vault] - amount
          /\ bit'[Escrow] >= bit[Escrow] /\ tokenPaused' = tokenPaused
      <3>1. tokenPaused' = tokenPaused
        BY <2>1 DEF Transfer
      <3> QED BY <1>0, <2>1, <3>1, TransferMoves DEF MoneyTypeOK
    <2> QED BY <1>0, <2>1, <2>2 DEF MoneyTypeOK, Solvent
  <1>3. ASSUME NEW q \in VaultQuotes, Reserve(q)
        PROVE  MoneyTypeOK' /\ Solvent'
    <2>1. q.amount \in Nat /\ q.solver \in Solvers /\ q.user \in Users
      OBVIOUS
    <2>2. /\ availableBalance[q.solver] >= q.amount
          /\ availableBalance' = [availableBalance EXCEPT ![q.solver] = @ - q.amount]
          /\ totalAvailable >= q.amount /\ totalAvailable' = totalAvailable - q.amount
          /\ vaultLocked' = vaultLocked + q.amount
          /\ activeUserReservations' = [activeUserReservations EXCEPT ![q.user] = @ + 1]
          /\ UNCHANGED <<bit, tokenPaused>>
      BY <1>3 DEF Reserve, ReserveAllowed, tokenVars
    <2> QED BY <1>0, <2>1, <2>2 DEF MoneyTypeOK, Solvent
  <1>4. ASSUME NEW i \in QuoteIds, VaultClaim(i)
        PROVE  MoneyTypeOK' /\ Solvent'
    <2> DEFINE q == vaultSwaps[i].quote
    <2>1. /\ q.amount \in Nat /\ q.fee \in Nat /\ q.fee < q.amount
          /\ q.user \in Users /\ q.beneficiary \in Accounts
      BY <1>4, VaultQuoteFacts DEF VaultClaim
    <2>2. /\ vaultLocked >= q.amount /\ vaultLocked' = vaultLocked - q.amount
          /\ activeUserReservations[q.user] > 0
          /\ activeUserReservations' = [activeUserReservations EXCEPT ![q.user] = @ - 1]
          /\ PayOut(Vault, q.beneficiary, q.amount, q.fee)
          /\ UNCHANGED <<availableBalance, totalAvailable>>
      BY <1>4 DEF VaultClaim, inventory
    <2> HIDE DEF q
    <2>3. /\ bit' \in [Accounts -> Nat] /\ bit'[Vault] = bit[Vault] - q.amount
          /\ bit'[Escrow] >= bit[Escrow] /\ tokenPaused' = tokenPaused
      <3>1. tokenPaused' = tokenPaused
        BY <2>2 DEF PayOut
      <3> QED BY <1>0, <2>1, <2>2, <3>1, PayOutMoves DEF MoneyTypeOK
    <2> QED BY <1>0, <2>1, <2>2, <2>3 DEF MoneyTypeOK, Solvent
  <1>5. ASSUME NEW i \in QuoteIds, VaultRefund(i)
        PROVE  MoneyTypeOK' /\ Solvent'
    <2> DEFINE q == vaultSwaps[i].quote
    <2>1. q.amount \in Nat /\ q.user \in Users /\ q.solver \in Solvers
      BY <1>5, VaultQuoteFacts DEF VaultRefund
    <2>2. /\ vaultLocked >= q.amount /\ vaultLocked' = vaultLocked - q.amount
          /\ totalAvailable' = totalAvailable + q.amount
          /\ availableBalance' = [availableBalance EXCEPT ![q.solver] = @ + q.amount]
          /\ activeUserReservations[q.user] > 0
          /\ activeUserReservations' = [activeUserReservations EXCEPT ![q.user] = @ - 1]
          /\ UNCHANGED <<bit, tokenPaused>>
      BY <1>5 DEF VaultRefund, tokenVars
    <2> HIDE DEF q
    <2> QED BY <1>0, <2>1, <2>2 DEF MoneyTypeOK, Solvent
  <1> QED BY <1>1, <1>2, <1>3, <1>4, <1>5 DEF VaultCall

\* No call of the user escrow does.
LEMMA EscrowMoney ==
  ASSUME EscrowsInv, EscrowCall, UNCHANGED vaultVars
  PROVE  MoneyTypeOK' /\ Solvent'
  <1> USE QuoteAssumption
  <1>0. /\ MoneyTypeOK /\ Solvent
        /\ UNCHANGED <<availableBalance, totalAvailable, vaultLocked, activeUserReservations>>
        /\ Vault \in Accounts /\ Escrow \in Accounts /\ Vault # Escrow
        /\ \A a \in Users \cup Solvers : a \in Accounts /\ a # Vault /\ a # Escrow
    BY RiskConfigAssumption DEF EscrowsInv, EscrowsTypeOK, MoneyTypeOK, Accounts, Vault, Escrow, Collector,
         vaultVars, inventory
  <1>1. ASSUME NEW q \in EscrowQuotes, Open(q)
        PROVE  MoneyTypeOK' /\ Solvent'
    <2>1. q.amount \in Nat /\ q.user \in Accounts /\ q.user # Vault
      BY <1>0
    <2>2. Transfer(q.user, Escrow, q.amount) /\ escrowLocked' = escrowLocked + q.amount
      BY <1>1 DEF Open
    <2>3. /\ bit' \in [Accounts -> Nat] /\ bit'[Escrow] = bit[Escrow] + q.amount
          /\ bit'[Vault] >= bit[Vault] /\ tokenPaused' = tokenPaused
      <3>1. tokenPaused' = tokenPaused
        BY <2>2 DEF Transfer
      <3> QED BY <1>0, <2>1, <2>2, <3>1, TransferMoves DEF MoneyTypeOK
    <2> QED BY <1>0, <2>1, <2>2, <2>3 DEF MoneyTypeOK, Solvent
  <1>2. ASSUME NEW i \in QuoteIds, EscrowClaim(i)
        PROVE  MoneyTypeOK' /\ Solvent'
    <2> DEFINE q == escrowSwaps[i].quote
    <2>1. q.amount \in Nat /\ q.fee \in Nat /\ q.fee < q.amount /\ q.beneficiary \in Accounts
      BY <1>2, EscrowQuoteFacts DEF EscrowClaim
    <2>2. /\ escrowLocked >= q.amount /\ escrowLocked' = escrowLocked - q.amount
          /\ PayOut(Escrow, q.beneficiary, q.amount, q.fee)
      BY <1>2 DEF EscrowClaim
    <2> HIDE DEF q
    <2>3. /\ bit' \in [Accounts -> Nat] /\ bit'[Escrow] = bit[Escrow] - q.amount
          /\ bit'[Vault] >= bit[Vault] /\ tokenPaused' = tokenPaused
      <3>1. tokenPaused' = tokenPaused
        BY <2>2 DEF PayOut
      <3> QED BY <1>0, <2>1, <2>2, <3>1, PayOutMoves DEF MoneyTypeOK
    <2> QED BY <1>0, <2>1, <2>2, <2>3 DEF MoneyTypeOK, Solvent
  <1>3. ASSUME NEW i \in QuoteIds, EscrowRefund(i)
        PROVE  MoneyTypeOK' /\ Solvent'
    <2> DEFINE q == escrowSwaps[i].quote
    <2>1. q.amount \in Nat /\ q.user \in Users
      BY <1>3, EscrowQuoteFacts DEF EscrowRefund
    <2>2. /\ escrowLocked >= q.amount /\ escrowLocked' = escrowLocked - q.amount
          /\ Transfer(Escrow, q.user, q.amount)
      BY <1>3 DEF EscrowRefund
    <2> HIDE DEF q
    <2>3. /\ bit' \in [Accounts -> Nat] /\ bit'[Escrow] = bit[Escrow] - q.amount
          /\ bit'[Vault] >= bit[Vault] /\ tokenPaused' = tokenPaused
      <3>1. tokenPaused' = tokenPaused
        BY <2>2 DEF Transfer
      <3> QED BY <1>0, <2>1, <2>2, <3>1, TransferMoves DEF MoneyTypeOK
    <2> QED BY <1>0, <2>1, <2>2, <2>3 DEF MoneyTypeOK, Solvent
  <1> QED BY <1>1, <1>2, <1>3 DEF EscrowCall

\* The rest of the types: what the registry and the swap tables hold.
LEMMA TableTypes ==
  ASSUME EscrowsInv, [EscrowsNext]_allVars
  PROVE  /\ isSealed' \in BOOLEAN /\ approvedEscrow' \subseteq Contracts /\ paymentHashUsed' \subseteq Hashes
         /\ vaultSwaps' \in [QuoteIds -> SwapRecords(VaultQuotes)]
         /\ escrowSwaps' \in [QuoteIds -> SwapRecords(EscrowQuotes)]
  <1> USE QuoteAssumption
  <1>0. /\ isSealed \in BOOLEAN /\ approvedEscrow \subseteq Contracts /\ paymentHashUsed \subseteq Hashes
        /\ vaultSwaps \in [QuoteIds -> SwapRecords(VaultQuotes)]
        /\ escrowSwaps \in [QuoteIds -> SwapRecords(EscrowQuotes)] /\ now \in Nat
    BY DEF EscrowsInv, EscrowsTypeOK, GateTypeOK
  <1>1. CASE CallGate \/ CallToken \/ AdvanceBlock \/ UNCHANGED allVars
    BY <1>0, <1>1 DEF CallGate, CallToken, AdvanceBlock, allVars, registryVars, vaultVars, escrowVars
  <1>2. CASE CallRegistry
    <2>1. UNCHANGED <<vaultSwaps, escrowSwaps>>
      BY <1>2 DEF CallRegistry, vaultVars, escrowVars
    <2>2. isSealed' \in BOOLEAN /\ approvedEscrow' \subseteq Contracts /\ paymentHashUsed' = paymentHashUsed
      BY <1>0, <1>2 DEF CallRegistry, RegistryCall, RegisterEscrow, Seal
    <2> QED BY <1>0, <2>1, <2>2
  <1>3. CASE CallVault
    <2>0. escrowSwaps' = escrowSwaps
      BY <1>3 DEF CallVault, escrowVars
    <2>1. CASE \E s \in Solvers, amount \in DepositAmounts :
                 Deposit(s, amount) \/ \E recipient \in Accounts : Withdraw(s, amount, recipient)
      BY <1>0, <2>0, <2>1 DEF Deposit, Withdraw, registryVars
    <2>2. CASE \E q \in VaultQuotes : Reserve(q)
      <3> PICK q \in VaultQuotes : Reserve(q)
        BY <2>2
      <3>1. Locked(q) \in SwapRecords(VaultQuotes) /\ q.paymentHash \in Hashes
        BY <1>0 DEF Locked, SwapRecords
      <3>2. /\ vaultSwaps' = [vaultSwaps EXCEPT ![q.quoteId] = Locked(q)]
            /\ isSealed' = isSealed /\ approvedEscrow' = approvedEscrow
            /\ paymentHashUsed' = paymentHashUsed \cup {q.paymentHash}
        BY DEF Reserve, ConsumePaymentHash
      <3> QED BY <1>0, <2>0, <3>1, <3>2
    <2>3. CASE \E i \in QuoteIds : VaultClaim(i) \/ VaultRefund(i)
      <3> PICK i \in QuoteIds : VaultClaim(i) \/ VaultRefund(i)
        BY <2>3
      <3>1. UNCHANGED registryVars
        BY DEF VaultClaim, VaultRefund
      <3>2. PICK st \in {"CLAIMED", "REFUNDED"} : vaultSwaps' = [vaultSwaps EXCEPT ![i].state = st]
        BY DEF VaultClaim, VaultRefund
      <3>3. vaultSwaps' \in [QuoteIds -> SwapRecords(VaultQuotes)]
        BY <1>0, <3>2 DEF SwapRecords
      <3> QED BY <1>0, <2>0, <3>1, <3>3 DEF registryVars
    <2> QED BY <1>3, <2>1, <2>2, <2>3 DEF CallVault, VaultCall
  <1>4. CASE CallEscrow
    <2>0. vaultSwaps' = vaultSwaps
      BY <1>4 DEF CallEscrow, vaultVars
    <2>1. CASE \E q \in EscrowQuotes : Open(q)
      <3> PICK q \in EscrowQuotes : Open(q)
        BY <2>1
      <3>1. Locked(q) \in SwapRecords(EscrowQuotes) /\ q.paymentHash \in Hashes
        BY <1>0 DEF Locked, SwapRecords
      <3>2. /\ escrowSwaps' = [escrowSwaps EXCEPT ![q.quoteId] = Locked(q)]
            /\ isSealed' = isSealed /\ approvedEscrow' = approvedEscrow
            /\ paymentHashUsed' = paymentHashUsed \cup {q.paymentHash}
        BY DEF Open, ConsumePaymentHash
      <3> QED BY <1>0, <2>0, <3>1, <3>2
    <2>2. CASE \E i \in QuoteIds : EscrowClaim(i) \/ EscrowRefund(i)
      <3> PICK i \in QuoteIds : EscrowClaim(i) \/ EscrowRefund(i)
        BY <2>2
      <3>1. UNCHANGED registryVars
        BY DEF EscrowClaim, EscrowRefund
      <3>2. PICK st \in {"CLAIMED", "REFUNDED"} : escrowSwaps' = [escrowSwaps EXCEPT ![i].state = st]
        BY DEF EscrowClaim, EscrowRefund
      <3>3. escrowSwaps' \in [QuoteIds -> SwapRecords(EscrowQuotes)]
        BY <1>0, <3>2 DEF SwapRecords
      <3> QED BY <1>0, <2>0, <3>1, <3>3 DEF registryVars
    <2> QED BY <1>4, <2>1, <2>2 DEF CallEscrow, EscrowCall
  <1> QED BY <1>1, <1>2, <1>3, <1>4 DEF EscrowsNext

\* Balances: neither contract is left short by any step.
LEMMA MoneyStep ==
  ASSUME EscrowsInv, [EscrowsNext]_allVars
  PROVE  MoneyTypeOK' /\ Solvent'
  <1>0. MoneyTypeOK /\ Solvent
    BY DEF EscrowsInv, EscrowsTypeOK, MoneyTypeOK
  <1>1. CASE CallGate \/ CallRegistry \/ AdvanceBlock \/ UNCHANGED allVars
    BY <1>0, <1>1 DEF CallGate, CallRegistry, AdvanceBlock, allVars, tokenVars, vaultVars, inventory,
         escrowVars, MoneyTypeOK, Solvent
  <1>2. CASE CallToken
    <2>1. tokenPaused' \in BOOLEAN /\ UNCHANGED <<bit, vaultVars, escrowVars>>
      BY <1>0, <1>2 DEF CallToken, PauseToken, MoneyTypeOK
    <2> QED BY <1>0, <2>1 DEF vaultVars, inventory, escrowVars, MoneyTypeOK, Solvent
  <1>3. CASE CallVault
    BY <1>3, VaultMoney DEF CallVault
  <1>4. CASE CallEscrow
    BY <1>4, EscrowMoney DEF CallEscrow
  <1> QED BY <1>1, <1>2, <1>3, <1>4 DEF EscrowsNext

\* Swaps: quotes stay valid and their hashes distinct.
LEMMA SwapsStep ==
  ASSUME EscrowsInv, [EscrowsNext]_allVars
  PROVE  TakenValid' /\ HashOnce'
  <1> USE DEF Taken, StateOf, QuoteOf
  <1>0. EscrowsTypeOK /\ TakenValid /\ HashOnce /\ now \in Nat
    BY DEF EscrowsInv, EscrowsTypeOK, GateTypeOK
  <1>1. CASE Quiet
    BY <1>0, <1>1 DEF Quiet, TakenValid, HashOnce
  <1>2. CASE \E s \in Swaps, q \in Quotes : Locks(s, q)
    <2> PICK s \in Swaps, q \in Quotes : Locks(s, q)
      BY <1>2
    <2>1. SwapAt(s)'.state = "LOCKED" /\ SwapAt(s)'.quote = q /\ SwapAt(s)'.lockedAt = now
      BY DEF Locks, Locked
    <2>2. /\ q.fee < q.amount /\ q.fee <= FeeCap(q.amount)
          /\ q.refundAfter >= now + MinSettlementWindow + MinClaimBuffer
      BY <1>0, QuoteAssumption, RiskConfigAssumption DEF Locks, ValidTerms, DeadlinesOrdered, Quotes
    <2>3. /\ \A t \in Swaps : t # s => SwapAt(t)' = SwapAt(t)
          /\ paymentHashUsed' = paymentHashUsed \cup {q.paymentHash} /\ q.paymentHash \notin paymentHashUsed
          /\ isSealed' /\ s[1] \in approvedEscrow' /\ approvedEscrow' = approvedEscrow
      BY DEF Locks
    <2>4. TakenValid'
      BY <1>0, <2>1, <2>2, <2>3 DEF TakenValid, Quotes
    <2>5. \A t \in Taken : QuoteOf(t).paymentHash # q.paymentHash
      BY <1>0, <2>3 DEF TakenValid
    <2>6. HashOnce'
      BY <1>0, <2>1, <2>3, <2>5 DEF HashOnce
    <2> QED BY <2>4, <2>6
  <1>3. CASE \E s \in Swaps : Exits(s)
    <2> PICK s \in Swaps : Exits(s)
      BY <1>3
    <2>1. /\ \A t \in Swaps : /\ SwapAt(t)'.quote = SwapAt(t).quote
                              /\ SwapAt(t)'.lockedAt = SwapAt(t).lockedAt
          /\ UNCHANGED registryVars /\ Taken' = Taken
      BY DEF Exits
    <2> QED BY <1>0, <2>1 DEF TakenValid, HashOnce, registryVars
  <1> QED BY <1>0, <1>1, <1>2, <1>3, SwapStep

\* The invariant is inductive.
LEMMA EscrowsStepInv == EscrowsInv /\ [EscrowsNext]_allVars => EscrowsInv'
  <1> SUFFICES ASSUME EscrowsInv, [EscrowsNext]_allVars PROVE EscrowsInv'
    OBVIOUS
  <1>1. GateInv' /\ GateTypeOK'
    BY GateFrame DEF EscrowsInv, GateInv
  <1>2. EscrowsTypeOK'
    BY <1>1, TableTypes, MoneyStep DEF EscrowsTypeOK, MoneyTypeOK
  <1> QED BY <1>1, <1>2, MoneyStep, SwapsStep DEF EscrowsInv

\* The deployed contracts satisfy it.
LEMMA EscrowsInitInv == EscrowsInit => EscrowsInv
  <1> SUFFICES ASSUME EscrowsInit PROVE EscrowsInv
    OBVIOUS
  <1>1. GateInv /\ GateTypeOK
    BY GateInitInv DEF EscrowsInit, GateInv
  <1>2. Taken = {}
    BY DEF EscrowsInit, VaultInit, UserEscrowInit, Taken, Swaps, StateOf, SwapAt, NoSwap
  <1>3. NoSwap \in SwapRecords(VaultQuotes) /\ NoSwap \in SwapRecords(EscrowQuotes)
    BY DEF NoSwap, SwapRecords
  <1>4. EscrowsTypeOK
    BY <1>1, <1>3, QuoteAssumption DEF EscrowsInit, RegistryInit, TokenInit, VaultInit, UserEscrowInit, EscrowsTypeOK
  <1>5. Solvent
    <2>1. Vault \in Accounts /\ Escrow \in Accounts /\ Vault \notin Users \cup Solvers /\ Escrow \notin Users \cup Solvers
      BY RiskConfigAssumption DEF Accounts
    <2> QED BY <2>1 DEF EscrowsInit, TokenInit, VaultInit, UserEscrowInit, Solvent
  <1> QED BY <1>1, <1>2, <1>4, <1>5 DEF EscrowsInv, TakenValid, HashOnce

\* The invariant holds throughout, for all users, solvers, quotes and parameters.
THEOREM EscrowsInvariant == EscrowsSpec => []EscrowsInv
  BY EscrowsInitInv, EscrowsStepInv, PTL DEF EscrowsSpec

\* Type correctness of the contracts and the token.
THEOREM EscrowsTypeCorrect == EscrowsSpec => []EscrowsTypeOK
  <1>1. EscrowsInv => EscrowsTypeOK
    BY DEF EscrowsInv
  <1> QED BY EscrowsInvariant, <1>1, PTL

\* Neither contract ever holds less BIT than it owes.
THEOREM EscrowsSolvent == EscrowsSpec => []Solvent
  <1>1. EscrowsInv => Solvent
    BY DEF EscrowsInv
  <1> QED BY EscrowsInvariant, <1>1, PTL

\* A payment hash funds at most one swap, across both directions.
THEOREM EscrowsHashOnce == EscrowsSpec => []HashOnce
  <1>1. EscrowsInv => HashOnce
    BY DEF EscrowsInv
  <1> QED BY EscrowsInvariant, <1>1, PTL

\* The split computation of the cap never exceeds the exact proportion.
LEMMA FeeCapExact ==
  ASSUME NEW amount \in Nat
  PROVE  FeeCap(amount) \in Nat /\ FeeCap(amount) * 10000 <= amount * MaxFeeBps
  <1> DEFINE k == amount \div 10000
             r == amount % 10000
             m == MaxFeeBps
             d == (r * m) \div 10000
  <1>1. k \in Nat /\ r \in Nat /\ m \in Nat /\ amount = 10000 * k + r
    BY RiskConfigAssumption
  <1>2. r * m \in Nat
    BY <1>1
  <1>3. \A x \in Nat : x \div 10000 \in Nat /\ 10000 * (x \div 10000) <= x
    OBVIOUS
  <1>4. d \in Nat /\ 10000 * d <= r * m
    BY <1>2, <1>3
  <1>5. FeeCap(amount) = k * m + d
    BY DEF FeeCap
  <1>6. amount * m = 10000 * (k * m) + r * m
    BY <1>1
  <1>7. k * m \in Nat
    BY <1>1
  <1> HIDE DEF d, k, r
  <1>8. (k * m + d) * 10000 <= 10000 * (k * m) + r * m /\ k * m + d \in Nat
    BY <1>2, <1>4, <1>7
  <1> QED BY <1>5, <1>6, <1>8

\* The fee of every swap is within maxFeeBps of its amount, without rounding in its favour.
THEOREM EscrowsFeeBounded == EscrowsSpec => []FeeBounded
  <1>1. EscrowsInv => FeeBounded
    <2> SUFFICES ASSUME EscrowsInv, NEW s \in Taken
                 PROVE  QuoteOf(s).fee * 10000 <= QuoteOf(s).amount * MaxFeeBps
      BY DEF FeeBounded
    <2>1. QuoteOf(s) \in VaultQuotes \cup EscrowQuotes /\ QuoteOf(s).fee <= FeeCap(QuoteOf(s).amount)
      BY DEF EscrowsInv, TakenValid
    <2>2. QuoteOf(s).fee \in Nat /\ QuoteOf(s).amount \in Nat
      BY <2>1, QuoteAssumption
    <2>3. FeeCap(QuoteOf(s).amount) \in Nat /\ FeeCap(QuoteOf(s).amount) * 10000 <= QuoteOf(s).amount * MaxFeeBps
      BY <2>2, FeeCapExact
    <2>4. QuoteOf(s).amount * MaxFeeBps \in Nat
      BY <2>2, RiskConfigAssumption
    <2> QED BY <2>1, <2>2, <2>3, <2>4
  <1> QED BY EscrowsInvariant, <1>1, PTL

\* New exposure appears only under an attestation staged after the last halt and in force.
THEOREM EscrowsExposureGated == EscrowsSpec => ExposureGated
  <1> DEFINE Gated == \A s \in Swaps : StateOf(s) = "UNSET" /\ StateOf(s)' # "UNSET" =>
                        /\ stagedFor >= lastHalt + ResumeDelay
                        /\ now >= stagedFor /\ now < stagedFor + MaxOpenDuration
  <1>1. EscrowsInv /\ [EscrowsNext]_allVars => Gated
    <2> SUFFICES ASSUME EscrowsInv, [EscrowsNext]_allVars, NEW s \in Swaps,
                        StateOf(s) = "UNSET", StateOf(s)' # "UNSET"
                 PROVE  /\ stagedFor >= lastHalt + ResumeDelay
                        /\ now >= stagedFor /\ now < stagedFor + MaxOpenDuration
      OBVIOUS
    <2>1. IsOpen
      BY SwapStep DEF EscrowsInv, Quiet, Locks, Exits, StateOf
    <2> QED BY <2>1, GateAssumption DEF EscrowsInv, GateInv, GateTypeOK, IsOpen
  <1>2. EscrowsInv /\ [EscrowsNext]_allVars => [Gated]_allVars
    BY <1>1
  <1> QED BY EscrowsInvariant, <1>2, PTL DEF EscrowsSpec, ExposureGated

\* A swap leaves LOCKED once, by a claim before refundAfter or a refund from then on.
THEOREM EscrowsExitExclusive == EscrowsSpec => ExitExclusive
  <1> DEFINE Exclusive ==
        \A s \in Swaps : StateOf(s) # "UNSET" /\ StateOf(s)' # StateOf(s) =>
          /\ StateOf(s) = "LOCKED"
          /\ StateOf(s)' = "CLAIMED" => now < QuoteOf(s).refundAfter
          /\ StateOf(s)' = "REFUNDED" =>
               /\ now >= QuoteOf(s).refundAfter
               /\ now >= SwapAt(s).lockedAt + MinSettlementWindow + MinClaimBuffer
          /\ QuoteOf(s)' = QuoteOf(s)
  <1>1. ASSUME EscrowsInv, [EscrowsNext]_allVars, NEW s \in Swaps,
               StateOf(s) # "UNSET", StateOf(s)' # StateOf(s)
        PROVE  /\ StateOf(s) = "LOCKED"
               /\ StateOf(s)' = "CLAIMED" => now < QuoteOf(s).refundAfter
               /\ StateOf(s)' = "REFUNDED" =>
                    /\ now >= QuoteOf(s).refundAfter
                    /\ now >= SwapAt(s).lockedAt + MinSettlementWindow + MinClaimBuffer
               /\ QuoteOf(s)' = QuoteOf(s)
    <2>1. Exits(s)
      BY <1>1, SwapStep DEF EscrowsInv, Quiet, Locks, Exits, StateOf
    <2>2. s \in Taken /\ now \in Nat
      BY <1>1 DEF Taken, EscrowsInv, GateInv, GateTypeOK
    <2>3. SwapAt(s).lockedAt \in Nat
      <3>1. \A i \in QuoteIds : vaultSwaps[i].lockedAt \in Nat /\ escrowSwaps[i].lockedAt \in Nat
        BY <1>1 DEF EscrowsInv, EscrowsTypeOK, SwapRecords
      <3> QED BY <3>1, SwapLookup
    <2>4. QuoteOf(s).refundAfter \in Nat
      BY <1>1, <2>2, QuoteAssumption DEF EscrowsInv, TakenValid
    <2>5. QuoteOf(s).refundAfter >= SwapAt(s).lockedAt + MinSettlementWindow + MinClaimBuffer
      BY <1>1, <2>2 DEF EscrowsInv, TakenValid
    <2> QED BY <2>1, <2>2, <2>3, <2>4, <2>5, RiskConfigAssumption DEF Exits
  <1>2. EscrowsInv /\ [EscrowsNext]_allVars => [Exclusive]_allVars
    BY <1>1
  <1> QED BY EscrowsInvariant, <1>2, PTL DEF EscrowsSpec, ExitExclusive

-------------------------------------------------------------------------------
(* What they owe, exactly. *)

\* There are finitely many swaps, and the locked ones have an amount.
LEMMA LockedFinite ==
  ASSUME EscrowsInv
  PROVE  /\ IsFiniteSet(Swaps) /\ DOMAIN AmountOf = Swaps
         /\ \A c : IsFiniteSet(LockedIn(c)) /\ LockedIn(c) \subseteq Swaps
         /\ \A u : IsFiniteSet(SlotsOf(u)) /\ SlotsOf(u) \subseteq LockedIn(Vault)
         /\ \A c : \A s \in LockedIn(c) : AmountOf[s] = QuoteOf(s).amount /\ AmountOf[s] \in Nat
  <1>1. IsFiniteSet(Swaps)
    <2>1. IsFiniteSet({Vault, Escrow})
      <3>1. {Vault, Escrow} = {Vault} \cup {Escrow}
        OBVIOUS
      <3>2. IsFiniteSet({Vault})
        BY FS_Singleton
      <3>3. IsFiniteSet({Vault} \cup {Escrow})
        BY <3>2, FS_AddElement
      <3> QED BY <3>1, <3>3
    <2> QED BY <2>1, QuoteAssumption, FS_Product DEF Swaps
  <1>2. \A c : LockedIn(c) \in SUBSET Swaps
    BY DEF LockedIn
  <1>3. \A u : SlotsOf(u) \in SUBSET LockedIn(Vault)
    BY DEF SlotsOf
  <1>4. ASSUME NEW c, NEW s \in LockedIn(c)
        PROVE  AmountOf[s] = QuoteOf(s).amount /\ AmountOf[s] \in Nat
    <2>1. s \in Taken /\ s \in Swaps
      BY DEF LockedIn, Taken
    <2>2. QuoteOf(s).amount \in Nat
      BY <2>1, QuoteAssumption DEF EscrowsInv, TakenValid
    <2> QED BY <2>1, <2>2 DEF AmountOf
  <1>5. \A c : IsFiniteSet(LockedIn(c))
    BY <1>1, <1>2, FS_Subset
  <1> QED BY <1>1, <1>2, <1>3, <1>4, <1>5, FS_Subset DEF AmountOf

\* A call that changes no swap leaves what is locked.
LEMMA QuietKeeps ==
  ASSUME UNCHANGED <<vaultSwaps, escrowSwaps>>
  PROVE  /\ \A c : Amounts(LockedIn(c))' = Amounts(LockedIn(c))
         /\ \A u : SlotsOf(u)' = SlotsOf(u)
  <1>1. \A s \in Swaps : StateOf(s)' = StateOf(s) /\ QuoteOf(s)' = QuoteOf(s)
    BY DEF SwapAt, StateOf, QuoteOf
  <1>2. AmountOf' = AmountOf
    BY <1>1 DEF AmountOf
  <1>3. \A c : LockedIn(c)' = LockedIn(c)
    BY <1>1 DEF LockedIn
  <1>4. \A u : SlotsOf(u)' = SlotsOf(u)
    BY <1>1, <1>3 DEF SlotsOf, LockedIn
  <1> QED BY <1>2, <1>3, <1>4 DEF Amounts

\* A call that locks a swap adds its amount to what its contract has locked.
LEMMA LocksAdds ==
  ASSUME EscrowsInv, NEW s \in Swaps, NEW q \in Quotes, Locks(s, q)
  PROVE  /\ Amounts(LockedIn(s[1]))' = Amounts(LockedIn(s[1])) + q.amount
         /\ \A c : c # s[1] => Amounts(LockedIn(c))' = Amounts(LockedIn(c))
         /\ \A u : IF s[1] = Vault /\ u = q.user
                   THEN s \notin SlotsOf(u) /\ SlotsOf(u)' = SlotsOf(u) \cup {s}
                   ELSE SlotsOf(u)' = SlotsOf(u)
  <1> DEFINE c == s[1]
  <1>1. /\ \A t \in Swaps : t # s => StateOf(t)' = StateOf(t) /\ QuoteOf(t)' = QuoteOf(t)
        /\ StateOf(s) = "UNSET" /\ StateOf(s)' = "LOCKED" /\ QuoteOf(s)' = q
    BY DEF Locks, Locked, StateOf, QuoteOf
  <1>2. s \notin LockedIn(c) /\ LockedIn(c)' = LockedIn(c) \cup {s}
    BY <1>1 DEF LockedIn
  <1>3. \A d : d # c => LockedIn(d)' = LockedIn(d) /\ s \notin LockedIn(d)
    BY <1>1 DEF LockedIn
  <1>4. /\ \A t \in Swaps : t # s => AmountOf'[t] = AmountOf[t]
        /\ AmountOf'[s] = q.amount /\ q.amount \in Nat
    BY <1>1, QuoteAssumption DEF AmountOf, Quotes
  <1>5. \A d : Total(AmountOf', LockedIn(d)) = Total(AmountOf, LockedIn(d))
    <2> SUFFICES ASSUME NEW d PROVE Total(AmountOf', LockedIn(d)) = Total(AmountOf, LockedIn(d))
      OBVIOUS
    <2>1. \A t \in LockedIn(d) : AmountOf[t] \in Int /\ AmountOf'[t] = AmountOf[t]
      BY <1>1, <1>4, LockedFinite DEF LockedIn
    <2> QED BY <2>1, LockedFinite, TotalSame
  <1>6. Total(AmountOf', LockedIn(c) \cup {s}) = Total(AmountOf', LockedIn(c)) + AmountOf'[s]
    <2>1. \A t \in LockedIn(c) : AmountOf'[t] \in Int
      BY <1>2, <1>4, LockedFinite DEF LockedIn
    <2>2. IsFiniteSet(LockedIn(c)) /\ AmountOf'[s] \in Int
      BY <1>4, LockedFinite
    <2> HIDE DEF c
    <2> QED BY <1>2, <2>1, <2>2, TotalWith
  <1>7. \A u : IF c = Vault /\ u = q.user
               THEN s \notin SlotsOf(u) /\ SlotsOf(u)' = SlotsOf(u) \cup {s}
               ELSE SlotsOf(u)' = SlotsOf(u)
    BY <1>1 DEF SlotsOf, LockedIn
  <1> QED BY <1>2, <1>3, <1>4, <1>5, <1>6, <1>7 DEF Amounts

\* A call that releases a swap takes its amount off again.
LEMMA ExitsTakes ==
  ASSUME EscrowsInv, NEW s \in Swaps, Exits(s)
  PROVE  /\ Amounts(LockedIn(s[1]))' = Amounts(LockedIn(s[1])) - QuoteOf(s).amount
         /\ \A c : c # s[1] => Amounts(LockedIn(c))' = Amounts(LockedIn(c))
         /\ \A u : IF s[1] = Vault /\ u = QuoteOf(s).user
                   THEN s \in SlotsOf(u) /\ SlotsOf(u)' = SlotsOf(u) \ {s}
                   ELSE SlotsOf(u)' = SlotsOf(u)
  <1> DEFINE c == s[1]
  <1>1. /\ \A t \in Swaps : t # s => StateOf(t)' = StateOf(t)
        /\ \A t \in Swaps : QuoteOf(t)' = QuoteOf(t)
        /\ StateOf(s) = "LOCKED" /\ StateOf(s)' # "LOCKED"
    BY DEF Exits, StateOf, QuoteOf
  <1>2. s \in LockedIn(c) /\ LockedIn(c)' = LockedIn(c) \ {s}
    BY <1>1 DEF LockedIn
  <1>3. \A d : d # c => LockedIn(d)' = LockedIn(d)
    BY <1>1 DEF LockedIn
  <1>4. AmountOf' = AmountOf
    BY <1>1 DEF AmountOf
  <1>5. Total(AmountOf, LockedIn(c) \ {s}) = Total(AmountOf, LockedIn(c)) - AmountOf[s]
    <2>1. IsFiniteSet(LockedIn(c)) /\ \A t \in LockedIn(c) : AmountOf[t] \in Int
      BY LockedFinite
    <2> HIDE DEF c
    <2> QED BY <1>2, <2>1, TotalWithout
  <1>6. AmountOf[s] = QuoteOf(s).amount
    BY DEF AmountOf
  <1>7. \A u : IF c = Vault /\ u = QuoteOf(s).user
               THEN s \in SlotsOf(u) /\ SlotsOf(u)' = SlotsOf(u) \ {s}
               ELSE SlotsOf(u)' = SlotsOf(u)
    BY <1>1 DEF SlotsOf, LockedIn
  <1> QED BY <1>2, <1>3, <1>4, <1>5, <1>6, <1>7 DEF Amounts

\* Crediting or debiting one solver changes the total by as much.
LEMMA CreditChanges ==
  ASSUME EscrowsInv, NEW l \in Solvers, NEW d \in Int,
         availableBalance'[l] = availableBalance[l] + d,
         \A x \in Solvers : x # l => availableBalance'[x] = availableBalance[x]
  PROVE  Total(availableBalance, Solvers)' = Total(availableBalance, Solvers) + d
  <1>1. availableBalance \in [Solvers -> Nat]
    BY DEF EscrowsInv, EscrowsTypeOK
  <1> DEFINE a == availableBalance
             b == availableBalance'
  <1>2. \A x \in Solvers : a[x] \in Int /\ b[x] \in Int
    BY <1>1
  <1>0. \A x \in Solvers \ {l} : b[x] = a[x]
    OBVIOUS
  <1>7. b[l] = a[l] + d
    OBVIOUS
  <1>3. IsFiniteSet(Solvers)
    BY QuoteAssumption
  <1> HIDE DEF a, b
  <1>4. Total(b, Solvers) = Total(a, Solvers) - a[l] + b[l]
    <2>1. IsFiniteSet(Solvers \ {l}) /\ \A x \in Solvers \ {l} : a[x] \in Int /\ b[x] = a[x]
      BY <1>0, <1>2, <1>3, FS_Subset
    <2>2. Total(b, Solvers \ {l}) = Total(a, Solvers \ {l})
      BY <2>1, TotalSame
    <2>3. /\ Total(a, Solvers \ {l}) = Total(a, Solvers) - a[l]
          /\ Total(b, Solvers \ {l}) = Total(b, Solvers) - b[l]
      BY <1>2, <1>3, TotalWithout
    <2>4. Total(b, Solvers) \in Int /\ Total(a, Solvers) \in Int /\ a[l] \in Int /\ b[l] \in Int
      BY <1>2, <1>3, TotalInt
    <2> QED BY <2>2, <2>3, <2>4
  <1>5. Total(a, Solvers) \in Int /\ a[l] \in Int
    BY <1>2, <1>3, TotalInt
  <1>6. Total(b, Solvers) = Total(a, Solvers) + d
    BY <1>7, <1>4, <1>5
  <1> QED BY <1>6 DEF a, b

\* What is locked in either contract adds up to an integer.
LEMMA AmountsInt == ASSUME EscrowsInv, NEW c PROVE Amounts(LockedIn(c)) \in Int
  BY LockedFinite, TotalInt DEF Amounts

\* The slots in use stay the locked reservations of the user, and at most one.
SlotsExact ==
  \A u \in Users : activeUserReservations[u] = Cardinality(SlotsOf(u)) /\ activeUserReservations[u] <= 1

\* Taking a slot that was free.
LEMMA SlotTaken ==
  ASSUME EscrowsInv, SlotsExact, NEW s, NEW v \in Users, activeUserReservations[v] < 1,
         activeUserReservations' = [activeUserReservations EXCEPT ![v] = @ + 1],
         \A u : IF u = v THEN s \notin SlotsOf(u) /\ SlotsOf(u)' = SlotsOf(u) \cup {s}
                         ELSE SlotsOf(u)' = SlotsOf(u)
  PROVE  SlotsExact'
  <1>1. activeUserReservations \in [Users -> Nat]
    BY DEF EscrowsInv, EscrowsTypeOK
  <1>2. SUFFICES ASSUME NEW u \in Users
                 PROVE  activeUserReservations'[u] = Cardinality(SlotsOf(u)') /\ activeUserReservations'[u] <= 1
    BY DEF SlotsExact
  <1>3. activeUserReservations[u] = Cardinality(SlotsOf(u)) /\ activeUserReservations[u] <= 1
    BY DEF SlotsExact
  <1>4. CASE u = v
    <2>1. Cardinality(SlotsOf(u) \cup {s}) = Cardinality(SlotsOf(u)) + 1
      BY <1>4, LockedFinite, FS_AddElement
    <2>2. SlotsOf(u)' = SlotsOf(u) \cup {s}
      BY <1>4
    <2>3. activeUserReservations'[u] = activeUserReservations[u] + 1 /\ activeUserReservations[u] = 0
      BY <1>1, <1>4
    <2> QED BY <1>3, <2>1, <2>2, <2>3
  <1>5. CASE u # v
    BY <1>1, <1>3, <1>5
  <1> QED BY <1>4, <1>5

\* Giving a slot back.
LEMMA SlotFreed ==
  ASSUME EscrowsInv, SlotsExact, NEW s, NEW v \in Users,
         activeUserReservations' = [activeUserReservations EXCEPT ![v] = @ - 1],
         \A u : IF u = v THEN s \in SlotsOf(u) /\ SlotsOf(u)' = SlotsOf(u) \ {s}
                         ELSE SlotsOf(u)' = SlotsOf(u)
  PROVE  SlotsExact'
  <1>1. activeUserReservations \in [Users -> Nat]
    BY DEF EscrowsInv, EscrowsTypeOK
  <1>2. SUFFICES ASSUME NEW u \in Users
                 PROVE  activeUserReservations'[u] = Cardinality(SlotsOf(u)') /\ activeUserReservations'[u] <= 1
    BY DEF SlotsExact
  <1>3. activeUserReservations[u] = Cardinality(SlotsOf(u)) /\ activeUserReservations[u] <= 1
    BY DEF SlotsExact
  <1>4. CASE u = v
    <2>1. Cardinality(SlotsOf(u) \ {s}) = Cardinality(SlotsOf(u)) - 1
      BY <1>4, LockedFinite, FS_RemoveElement
    <2> QED BY <1>1, <1>3, <1>4, <2>1
  <1>5. CASE u # v
    BY <1>1, <1>3, <1>5
  <1> QED BY <1>4, <1>5

\* The other parts of the invariant.
LockedExact == vaultLocked = Amounts(LockedIn(Vault)) /\ escrowLocked = Amounts(LockedIn(Escrow))
AvailableExact == totalAvailable = Total(availableBalance, Solvers)

\* The calls of the vault keep its totals exact.
LEMMA VaultExact ==
  ASSUME EscrowsInv, LockedExact, AvailableExact, SlotsExact, VaultCall, UNCHANGED escrowVars
  PROVE  LockedExact' /\ AvailableExact' /\ SlotsExact'
  <1> USE DEF LockedExact, AvailableExact
  <1>0. /\ EscrowsTypeOK /\ Vault # Escrow /\ escrowLocked' = escrowLocked
        /\ availableBalance \in [Solvers -> Nat] /\ Amounts(LockedIn(Vault)) \in Int
    BY AmountsInt DEF EscrowsInv, EscrowsTypeOK, Vault, Escrow, escrowVars
  <1>1. ASSUME NEW l \in Solvers, NEW amount \in DepositAmounts,
               Deposit(l, amount) \/ \E recipient \in Accounts : Withdraw(l, amount, recipient)
        PROVE  LockedExact' /\ AvailableExact' /\ SlotsExact'
    <2>1. /\ UNCHANGED <<vaultSwaps, escrowSwaps>>
          /\ vaultLocked' = vaultLocked /\ activeUserReservations' = activeUserReservations
      BY <1>1 DEF Deposit, Withdraw, escrowVars
    <2>2. LockedExact' /\ SlotsExact'
      BY <1>0, <2>1, QuietKeeps DEF SlotsExact
    <2>3. amount \in Nat
      BY QuoteAssumption
    <2>4. CASE Deposit(l, amount)
      <3>1. /\ availableBalance' = [availableBalance EXCEPT ![l] = @ + amount]
            /\ totalAvailable' = totalAvailable + amount
        BY <2>4 DEF Deposit
      <3>2. /\ availableBalance'[l] = availableBalance[l] + amount
            /\ \A x \in Solvers : x # l => availableBalance'[x] = availableBalance[x]
        BY <1>0, <3>1
      <3>3. Total(availableBalance, Solvers)' = Total(availableBalance, Solvers) + amount
        BY <2>3, <3>2, CreditChanges
      <3> QED BY <2>2, <3>1, <3>3
    <2>5. CASE \E recipient \in Accounts : Withdraw(l, amount, recipient)
      <3>1. /\ availableBalance' = [availableBalance EXCEPT ![l] = @ - amount]
            /\ totalAvailable' = totalAvailable - amount
        BY <2>5 DEF Withdraw
      <3>2. /\ 0 - amount \in Int /\ availableBalance'[l] = availableBalance[l] + (0 - amount)
            /\ \A x \in Solvers : x # l => availableBalance'[x] = availableBalance[x]
        BY <1>0, <2>3, <3>1
      <3>3. Total(availableBalance, Solvers)' = Total(availableBalance, Solvers) + (0 - amount)
        BY <3>2, CreditChanges
      <3>4. totalAvailable \in Nat
        BY <1>0 DEF EscrowsTypeOK
      <3> QED BY <2>2, <2>3, <3>1, <3>3, <3>4
    <2> QED BY <1>1, <2>4, <2>5
  <1>2. ASSUME NEW q \in VaultQuotes, Reserve(q)
        PROVE  LockedExact' /\ AvailableExact' /\ SlotsExact'
    <2> DEFINE s == <<Vault, q.quoteId>>
    <2>1. /\ s \in Swaps /\ s[1] = Vault /\ q \in Quotes /\ q.amount \in Nat
          /\ q.user \in Users /\ q.solver \in Solvers
      BY QuoteAssumption, SwapLookup DEF Quotes
    <2>2. Locks(s, q)
      BY <1>0, <1>2, ReserveLocks
    <2>3. /\ vaultLocked' = vaultLocked + q.amount /\ totalAvailable' = totalAvailable - q.amount
          /\ availableBalance' = [availableBalance EXCEPT ![q.solver] = @ - q.amount]
          /\ activeUserReservations[q.user] < 1
          /\ activeUserReservations' = [activeUserReservations EXCEPT ![q.user] = @ + 1]
      BY <1>2 DEF Reserve, ReserveAllowed
    <2> HIDE DEF s
    <2>4. LockedExact'
      BY <1>0, <2>1, <2>2, <2>3, LocksAdds
    <2>5. AvailableExact'
      <3>1. /\ 0 - q.amount \in Int
            /\ availableBalance'[q.solver] = availableBalance[q.solver] + (0 - q.amount)
            /\ \A x \in Solvers : x # q.solver => availableBalance'[x] = availableBalance[x]
        BY <1>0, <2>1, <2>3
      <3>2. Total(availableBalance, Solvers)' = Total(availableBalance, Solvers) + (0 - q.amount)
        BY <2>1, <3>1, CreditChanges
      <3>3. totalAvailable \in Nat
        BY <1>0 DEF EscrowsTypeOK
      <3> QED BY <2>1, <2>3, <3>2, <3>3
    <2>6. \A u : IF u = q.user THEN s \notin SlotsOf(u) /\ SlotsOf(u)' = SlotsOf(u) \cup {s}
                               ELSE SlotsOf(u)' = SlotsOf(u)
      BY <2>1, <2>2, LocksAdds
    <2> QED BY <2>1, <2>3, <2>4, <2>5, <2>6, SlotTaken
  <1>3. ASSUME NEW i \in QuoteIds, VaultClaim(i) \/ VaultRefund(i)
        PROVE  LockedExact' /\ AvailableExact' /\ SlotsExact'
    <2> DEFINE s == <<Vault, i>>
               q == vaultSwaps[i].quote
    <2>1. s \in Swaps /\ s[1] = Vault /\ QuoteOf(s) = q
      BY SwapLookup DEF QuoteOf
    <2>2. q.amount \in Nat /\ q.user \in Users /\ q.solver \in Solvers
      BY <1>3, VaultQuoteFacts DEF VaultClaim, VaultRefund
    <2>3. Exits(s)
      BY <1>0, <1>3, VaultExits
    <2>4. /\ vaultLocked' = vaultLocked - q.amount
          /\ activeUserReservations' = [activeUserReservations EXCEPT ![q.user] = @ - 1]
      BY <1>3 DEF VaultClaim, VaultRefund
    <2>5. ASSUME VaultClaim(i) PROVE AvailableExact'
      BY <2>5 DEF VaultClaim, inventory
    <2>6. ASSUME VaultRefund(i) PROVE AvailableExact'
      <3>1. /\ totalAvailable' = totalAvailable + q.amount
            /\ availableBalance' = [availableBalance EXCEPT ![q.solver] = @ + q.amount]
        BY <2>6 DEF VaultRefund
      <3> HIDE DEF q
      <3>2. /\ availableBalance'[q.solver] = availableBalance[q.solver] + q.amount
            /\ \A x \in Solvers : x # q.solver => availableBalance'[x] = availableBalance[x]
        BY <1>0, <2>2, <3>1
      <3>3. Total(availableBalance, Solvers)' = Total(availableBalance, Solvers) + q.amount
        BY <2>2, <3>2, CreditChanges
      <3> QED BY <3>1, <3>3
    <2> HIDE DEF s, q
    <2>7. LockedExact'
      BY <1>0, <2>1, <2>2, <2>3, <2>4, ExitsTakes
    <2>8. AvailableExact'
      BY <1>3, <2>5, <2>6
    <2>9. \A u : IF u = q.user THEN s \in SlotsOf(u) /\ SlotsOf(u)' = SlotsOf(u) \ {s}
                               ELSE SlotsOf(u)' = SlotsOf(u)
      BY <2>1, <2>3, ExitsTakes
    <2> QED BY <2>2, <2>4, <2>7, <2>8, <2>9, SlotFreed
  <1> QED BY <1>1, <1>2, <1>3 DEF VaultCall

\* So do the calls of the user escrow.
LEMMA EscrowExact ==
  ASSUME EscrowsInv, LockedExact, AvailableExact, SlotsExact, EscrowCall, UNCHANGED vaultVars
  PROVE  LockedExact' /\ AvailableExact' /\ SlotsExact'
  <1>0. /\ EscrowsTypeOK /\ Vault # Escrow /\ vaultLocked' = vaultLocked
        /\ activeUserReservations' = activeUserReservations
    BY DEF EscrowsInv, Vault, Escrow, vaultVars
  <1>1. AvailableExact'
    BY DEF AvailableExact, vaultVars, inventory
  <1>2. CASE \E q \in EscrowQuotes : Open(q)
    <2> PICK q \in EscrowQuotes : Open(q)
      BY <1>2
    <2> DEFINE s == <<Escrow, q.quoteId>>
    <2>1. s \in Swaps /\ s[1] = Escrow /\ q \in Quotes
      BY QuoteAssumption, SwapLookup DEF Quotes
    <2>2. Locks(s, q)
      BY <1>0, OpenLocks
    <2>3. escrowLocked' = escrowLocked + q.amount
      BY DEF Open
    <2> HIDE DEF s
    <2>4. LockedExact'
      BY <1>0, <2>1, <2>2, <2>3, LocksAdds DEF LockedExact
    <2>5. \A u : SlotsOf(u)' = SlotsOf(u)
      BY <1>0, <2>1, <2>2, LocksAdds
    <2>6. SlotsExact'
      BY <1>0, <2>5 DEF SlotsExact
    <2> QED BY <1>1, <2>4, <2>6
  <1>3. CASE \E i \in QuoteIds : EscrowClaim(i) \/ EscrowRefund(i)
    <2> PICK i \in QuoteIds : EscrowClaim(i) \/ EscrowRefund(i)
      BY <1>3
    <2> DEFINE s == <<Escrow, i>>
               q == escrowSwaps[i].quote
    <2>1. s \in Swaps /\ s[1] = Escrow /\ QuoteOf(s) = q
      BY SwapLookup DEF QuoteOf
    <2>2. Exits(s)
      BY <1>0, EscrowExits
    <2>3. escrowLocked' = escrowLocked - q.amount
      BY DEF EscrowClaim, EscrowRefund
    <2> HIDE DEF s, q
    <2>4. LockedExact'
      BY <1>0, <2>1, <2>2, <2>3, ExitsTakes DEF LockedExact
    <2>5. \A u : SlotsOf(u)' = SlotsOf(u)
      BY <1>0, <2>1, <2>2, ExitsTakes
    <2>6. SlotsExact'
      BY <1>0, <2>5 DEF SlotsExact
    <2> QED BY <1>1, <2>4, <2>6
  <1> QED BY <1>2, <1>3 DEF EscrowCall

\* Every step keeps the totals exact.
LEMMA ExactStep ==
  ASSUME EscrowsInv, LiabilitiesExact, [EscrowsNext]_allVars
  PROVE  LiabilitiesExact'
  <1>0. LockedExact /\ AvailableExact /\ SlotsExact
    BY DEF LiabilitiesExact, LockedExact, AvailableExact, SlotsExact
  <1> SUFFICES LockedExact' /\ AvailableExact' /\ SlotsExact'
    BY DEF LiabilitiesExact, LockedExact, AvailableExact, SlotsExact
  <1>1. CASE CallGate \/ CallRegistry \/ CallToken \/ AdvanceBlock \/ UNCHANGED allVars
    <2>1. UNCHANGED <<vaultVars, escrowVars>>
      BY <1>1 DEF CallGate, CallRegistry, CallToken, AdvanceBlock, allVars
    <2>2. /\ UNCHANGED <<vaultSwaps, escrowSwaps, vaultLocked, escrowLocked>>
          /\ UNCHANGED <<totalAvailable, availableBalance, activeUserReservations>>
      BY <2>1 DEF vaultVars, escrowVars, inventory
    <2> QED BY <1>0, <2>2, QuietKeeps DEF LockedExact, AvailableExact, SlotsExact
  <1>2. CASE CallVault
    BY <1>0, <1>2, VaultExact DEF CallVault
  <1>3. CASE CallEscrow
    BY <1>0, <1>3, EscrowExact DEF CallEscrow
  <1> QED BY <1>1, <1>2, <1>3 DEF EscrowsNext

\* Fresh contracts owe nothing.
LEMMA ExactInit == EscrowsInit => LiabilitiesExact
  <1> SUFFICES ASSUME EscrowsInit PROVE LiabilitiesExact
    OBVIOUS
  <1>1. \A c : LockedIn(c) = {}
    BY DEF EscrowsInit, VaultInit, UserEscrowInit, LockedIn, Swaps, StateOf, SwapAt, NoSwap
  <1>2. \A c : Amounts(LockedIn(c)) = 0
    BY <1>1, TotalEmpty DEF Amounts
  <1>3. \A u : Cardinality(SlotsOf(u)) = 0
    BY <1>1, FS_EmptySet DEF SlotsOf
  <1>4. \A l \in Solvers : availableBalance[l] = 0
    BY DEF EscrowsInit, VaultInit
  <1>5. Total(availableBalance, Solvers) = 0
    BY <1>4, QuoteAssumption, TotalZero
  <1> QED BY <1>2, <1>3, <1>5 DEF EscrowsInit, VaultInit, UserEscrowInit, LiabilitiesExact

\* The totals of both contracts are the sums they stand for, and the slots of a user the
\* locked reservations of that user, whatever the order of the calls.
THEOREM EscrowsLiabilitiesExact == EscrowsSpec => []LiabilitiesExact
  <1>1. EscrowsInit => EscrowsInv /\ LiabilitiesExact
    BY EscrowsInitInv, ExactInit
  <1>2. EscrowsInv /\ LiabilitiesExact /\ [EscrowsNext]_allVars => EscrowsInv' /\ LiabilitiesExact'
    BY EscrowsStepInv, ExactStep
  <1> QED BY <1>1, <1>2, PTL DEF EscrowsSpec

===============================================================================
