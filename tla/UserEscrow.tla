------------------------------ MODULE UserEscrow ------------------------------
(***************************************************************************)
(* contracts/src/TreeSwapUserEscrow.sol: the escrow of BIT-to-Lightning    *)
(* swaps, funded by the user at opening.  Conventions as in BitVault.      *)
(***************************************************************************)
EXTENDS EscrowRules

VARIABLES escrowSwaps, escrowHashUsed, solverNonceUsed, escrowEpochVolume, escrowLocked

escrowUsed == <<escrowHashUsed, solverNonceUsed, escrowEpochVolume>>
escrowVars == <<escrowUsed, escrowSwaps, escrowLocked>>

UserEscrowInit ==
  /\ escrowSwaps = [i \in QuoteIds |-> NoSwap]
  /\ escrowHashUsed = {}
  /\ solverNonceUsed = {}
  /\ escrowEpochVolume = [s \in Solvers |-> [e \in Epochs |-> 0]]
  /\ escrowLocked = 0

\* _validateQuote: the escrow's own conditions.
OpenAllowed(q) ==
  /\ ValidTerms(q)
  /\ q.beneficiary # Escrow
  /\ escrowSwaps[q.quoteId].state = "UNSET"
  /\ q.paymentHash \notin escrowHashUsed
  /\ <<q.solver, q.nonce>> \notin solverNonceUsed

\* open: the user pulls its own BIT into a swap on the solver's signed quote.
Open(q) ==
  /\ RequireOpen
  /\ OpenAllowed(q)
  /\ escrowEpochVolume[q.solver][Epoch] + q.amount <= MaxEpochVolume
  /\ ConsumePaymentHash(Escrow, q.paymentHash)
  /\ Transfer(q.user, Escrow, q.amount)
  /\ escrowLocked' = escrowLocked + q.amount
  /\ escrowEpochVolume' = [escrowEpochVolume EXCEPT ![q.solver][Epoch] = @ + q.amount]
  /\ escrowHashUsed' = escrowHashUsed \cup {q.paymentHash}
  /\ solverNonceUsed' = solverNonceUsed \cup {<<q.solver, q.nonce>>}
  /\ escrowSwaps' = [escrowSwaps EXCEPT ![q.quoteId] = Locked(q)]

\* claim, by anyone who has the preimage.
EscrowClaim(i) ==
  LET q == escrowSwaps[i].quote
  IN /\ escrowSwaps[i].state = "LOCKED"
     /\ now < q.refundAfter
     /\ escrowSwaps' = [escrowSwaps EXCEPT ![i].state = "CLAIMED"]
     /\ escrowLocked >= q.amount /\ escrowLocked' = escrowLocked - q.amount
     /\ PayOut(Escrow, q.beneficiary, q.amount, q.fee)
     /\ UNCHANGED <<escrowUsed, registryVars>>

\* Mutant of EscrowRefund: refunds need an open gate.
EscrowRefund_NeedsGate(i) ==
  LET q == escrowSwaps[i].quote
  IN /\ RequireOpen
     /\ escrowSwaps[i].state = "LOCKED"
     /\ now >= q.refundAfter
     /\ escrowSwaps' = [escrowSwaps EXCEPT ![i].state = "REFUNDED"]
     /\ escrowLocked >= q.amount /\ escrowLocked' = escrowLocked - q.amount
     /\ Transfer(Escrow, q.user, q.amount)
     /\ UNCHANGED <<escrowUsed, registryVars>>

\* refund: the complete amount, to the user.
EscrowRefund(i) ==
  LET q == escrowSwaps[i].quote
  IN /\ escrowSwaps[i].state = "LOCKED"
     /\ now >= q.refundAfter
     /\ escrowSwaps' = [escrowSwaps EXCEPT ![i].state = "REFUNDED"]
     /\ escrowLocked >= q.amount /\ escrowLocked' = escrowLocked - q.amount
     /\ Transfer(Escrow, q.user, q.amount)
     /\ UNCHANGED <<escrowUsed, registryVars>>

EscrowCall ==
  \/ \E q \in EscrowQuotes : Open(q)
  \/ \E i \in QuoteIds : EscrowClaim(i) \/ EscrowRefund(i)
===============================================================================
