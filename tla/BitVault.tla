------------------------------- MODULE BitVault -------------------------------
(***************************************************************************)
(* contracts/src/TreeSwapBitVault.sol: solver inventory of BIT and the     *)
(* reservations of Lightning-to-BIT swaps.  Every external function is one *)
(* transaction, so one step; checked arithmetic that would underflow       *)
(* reverts and is a guard here.  The actions leave the gate, the registry  *)
(* (unless consumed) and the other escrow to the composition in Escrows.   *)
(***************************************************************************)
EXTENDS EscrowRules

VARIABLES availableBalance, vaultSwaps, vaultHashUsed, vaultNonceUsed,
          activeUserReservations, vaultEpochVolume, totalAvailable, vaultLocked

inventory == <<availableBalance, totalAvailable>>
vaultUsed == <<vaultHashUsed, vaultNonceUsed, vaultEpochVolume>>
vaultVars == <<inventory, vaultUsed, vaultSwaps, activeUserReservations, vaultLocked>>

VaultInit ==
  /\ availableBalance = [s \in Solvers |-> 0]
  /\ totalAvailable = 0
  /\ vaultSwaps = [i \in QuoteIds |-> NoSwap]
  /\ vaultHashUsed = {}
  /\ vaultNonceUsed = {}
  /\ activeUserReservations = [u \in Users |-> 0]
  /\ vaultEpochVolume = [s \in Solvers |-> [e \in Epochs |-> 0]]
  /\ vaultLocked = 0

\* deposit
Deposit(s, amount) ==
  /\ amount > 0
  /\ Transfer(s, Vault, amount)
  /\ availableBalance' = [availableBalance EXCEPT ![s] = @ + amount]
  /\ totalAvailable' = totalAvailable + amount
  /\ UNCHANGED <<vaultUsed, vaultSwaps, activeUserReservations, vaultLocked, registryVars>>

\* withdraw: the caller's unreserved inventory only.
Withdraw(s, amount, recipient) ==
  /\ amount > 0
  /\ availableBalance[s] >= amount
  /\ availableBalance' = [availableBalance EXCEPT ![s] = @ - amount]
  /\ totalAvailable >= amount /\ totalAvailable' = totalAvailable - amount
  /\ Transfer(Vault, recipient, amount)
  /\ UNCHANGED <<vaultUsed, vaultSwaps, activeUserReservations, vaultLocked, registryVars>>

\* Mutant of ReserveAllowed: a user may hold several reservations.
ReserveAllowed_ManyPerUser(q) ==
  /\ ValidTerms(q)
  /\ availableBalance[q.solver] >= q.amount
  /\ vaultSwaps[q.quoteId].state = "UNSET"
  /\ q.paymentHash \notin vaultHashUsed
  /\ <<q.user, q.nonce>> \notin vaultNonceUsed

\* _validateQuote: the vault's own conditions.
ReserveAllowed(q) ==
  /\ ValidTerms(q)
  /\ availableBalance[q.solver] >= q.amount
  /\ activeUserReservations[q.user] < 1
  /\ vaultSwaps[q.quoteId].state = "UNSET"
  /\ q.paymentHash \notin vaultHashUsed
  /\ <<q.user, q.nonce>> \notin vaultNonceUsed

\* reserve: the user exercises a dual-signed quote against the solver's inventory.
Reserve(q) ==
  /\ RequireOpen
  /\ ReserveAllowed(q)
  /\ vaultEpochVolume[q.solver][Epoch] + q.amount <= MaxEpochVolume
  /\ ConsumePaymentHash(Vault, q.paymentHash)
  /\ availableBalance' = [availableBalance EXCEPT ![q.solver] = @ - q.amount]
  /\ totalAvailable >= q.amount /\ totalAvailable' = totalAvailable - q.amount
  /\ vaultLocked' = vaultLocked + q.amount
  /\ vaultEpochVolume' = [vaultEpochVolume EXCEPT ![q.solver][Epoch] = @ + q.amount]
  /\ vaultHashUsed' = vaultHashUsed \cup {q.paymentHash}
  /\ vaultNonceUsed' = vaultNonceUsed \cup {<<q.user, q.nonce>>}
  /\ activeUserReservations' = [activeUserReservations EXCEPT ![q.user] = @ + 1]
  /\ vaultSwaps' = [vaultSwaps EXCEPT ![q.quoteId] = Locked(q)]
  /\ UNCHANGED tokenVars

\* claim, by anyone who has the preimage of the swap's payment hash.
VaultClaim(i) ==
  LET q == vaultSwaps[i].quote
  IN /\ vaultSwaps[i].state = "LOCKED"
     /\ now < q.refundAfter
     /\ vaultSwaps' = [vaultSwaps EXCEPT ![i].state = "CLAIMED"]
     /\ vaultLocked >= q.amount /\ vaultLocked' = vaultLocked - q.amount
     /\ activeUserReservations[q.user] > 0
     /\ activeUserReservations' = [activeUserReservations EXCEPT ![q.user] = @ - 1]
     /\ PayOut(Vault, q.beneficiary, q.amount, q.fee)
     /\ UNCHANGED <<inventory, vaultUsed, registryVars>>

\* Mutant of VaultRefund: the refund is paid out of the vault and credited as well.
VaultRefund_PaidTwice(i) ==
  LET q == vaultSwaps[i].quote
  IN /\ vaultSwaps[i].state = "LOCKED"
     /\ now >= q.refundAfter
     /\ vaultSwaps' = [vaultSwaps EXCEPT ![i].state = "REFUNDED"]
     /\ vaultLocked >= q.amount /\ vaultLocked' = vaultLocked - q.amount
     /\ totalAvailable' = totalAvailable + q.amount
     /\ availableBalance' = [availableBalance EXCEPT ![q.solver] = @ + q.amount]
     /\ activeUserReservations[q.user] > 0
     /\ activeUserReservations' = [activeUserReservations EXCEPT ![q.user] = @ - 1]
     /\ Transfer(Vault, q.solver, q.amount)
     /\ UNCHANGED <<vaultUsed, registryVars>>

\* Mutant of VaultRefund: the refund opens when the last safe claim is due.
VaultRefund_FromLastClaim(i) ==
  LET q == vaultSwaps[i].quote
  IN /\ vaultSwaps[i].state = "LOCKED"
     /\ now >= q.lastSafeClaimAt
     /\ vaultSwaps' = [vaultSwaps EXCEPT ![i].state = "REFUNDED"]
     /\ vaultLocked >= q.amount /\ vaultLocked' = vaultLocked - q.amount
     /\ totalAvailable' = totalAvailable + q.amount
     /\ availableBalance' = [availableBalance EXCEPT ![q.solver] = @ + q.amount]
     /\ activeUserReservations[q.user] > 0
     /\ activeUserReservations' = [activeUserReservations EXCEPT ![q.user] = @ - 1]
     /\ UNCHANGED <<vaultUsed, tokenVars, registryVars>>

\* refund: back into the solver's inventory, without a fee.
VaultRefund(i) ==
  LET q == vaultSwaps[i].quote
  IN /\ vaultSwaps[i].state = "LOCKED"
     /\ now >= q.refundAfter
     /\ vaultSwaps' = [vaultSwaps EXCEPT ![i].state = "REFUNDED"]
     /\ vaultLocked >= q.amount /\ vaultLocked' = vaultLocked - q.amount
     /\ totalAvailable' = totalAvailable + q.amount
     /\ availableBalance' = [availableBalance EXCEPT ![q.solver] = @ + q.amount]
     /\ activeUserReservations[q.user] > 0
     /\ activeUserReservations' = [activeUserReservations EXCEPT ![q.user] = @ - 1]
     /\ UNCHANGED <<vaultUsed, tokenVars, registryVars>>

VaultCall ==
  \/ \E s \in Solvers, amount \in DepositAmounts :
       Deposit(s, amount) \/ \E recipient \in Accounts : Withdraw(s, amount, recipient)
  \/ \E q \in VaultQuotes : Reserve(q)
  \/ \E i \in QuoteIds : VaultClaim(i) \/ VaultRefund(i)
===============================================================================
