------------------------------ MODULE EscrowRules ------------------------------
(***************************************************************************)
(* What TreeSwapBitVault.sol and TreeSwapUserEscrow.sol share: the BIT     *)
(* token (external), the immutable risk configuration, the validation of a *)
(* quote and the payout of a claim.  A quote of the model is one whose     *)
(* required signatures are valid; its fields are those both contracts sign *)
(* (the invoice digest is left out, solverNonce is called nonce).          *)
(***************************************************************************)
EXTENDS OpenGate, PaymentHashRegistry

CONSTANTS Users, Solvers,
          QuoteIds,
          VaultQuotes, EscrowQuotes,   \* signed quotes for either contract
          InitialBit,                  \* BIT each user and solver starts with
          DepositAmounts,              \* amounts solvers deposit and withdraw
          MaxFeeBps, MaxPriceDeviationBps, ReferenceSatsPerBit, BitScale,
          EpochDuration, MinSettlementWindow, MinClaimBuffer, MaxLockDuration,
          MaxSwapAmount, MaxEpochVolume

Vault == "vault"
Escrow == "escrow"
Collector == "collector"
Accounts == Users \cup Solvers \cup {Vault, Escrow, Collector}
Epochs == 0 .. MaxTime \div EpochDuration

QuoteFields == {"quoteId", "user", "solver", "beneficiary", "amount", "fee", "lightningAmountSats",
                "paymentHash", "nonce", "quoteExpiresAt", "lastSafeClaimAt", "refundAfter"}

\* The constructors' checks of the risk configuration.
ASSUME RiskConfigAssumption ==
  /\ MaxFeeBps \in 0 .. 500 /\ MaxPriceDeviationBps \in 0 .. 2500
  /\ ReferenceSatsPerBit \in Nat \ {0} /\ BitScale \in Nat \ {0} /\ EpochDuration \in Nat \ {0}
  /\ MinSettlementWindow \in Nat \ {0} /\ MinClaimBuffer \in Nat \ {0}
  /\ MaxLockDuration \in Nat /\ MaxLockDuration >= MinSettlementWindow + MinClaimBuffer
  /\ MaxSwapAmount \in Nat \ {0} /\ MaxEpochVolume \in Nat /\ MaxEpochVolume >= MaxSwapAmount
  /\ Contracts \cap {Vault, Escrow} = {Vault, Escrow}
  /\ {Vault, Escrow, Collector} \cap (Users \cup Solvers) = {}

\* What the signed types of a quote give; identifiers and addresses are 32 and 20 bytes.
ASSUME QuoteAssumption ==
  /\ IsFiniteSet(QuoteIds) /\ IsFiniteSet(Solvers)
  /\ InitialBit \in Nat /\ DepositAmounts \subseteq Nat
  /\ \A q \in VaultQuotes \cup EscrowQuotes :
       /\ q.quoteId \in QuoteIds /\ q.user \in Users /\ q.solver \in Solvers
       /\ q.beneficiary \in Accounts /\ q.paymentHash \in Hashes
       /\ {q.amount, q.fee, q.lightningAmountSats, q.quoteExpiresAt, q.lastSafeClaimAt,
           q.refundAfter} \subseteq Nat

VARIABLES bit,          \* BIT balances
          tokenPaused   \* BIT's paused() flag, which stops new swaps only

tokenVars == <<bit, tokenPaused>>

TokenInit ==
  /\ bit = [a \in Accounts |-> IF a \in Users \cup Solvers THEN InitialBit ELSE 0]
  /\ tokenPaused = FALSE

\* An exact transfer; a transfer to oneself fails the balance-delta check.
Transfer(from, to, amount) ==
  /\ from # to /\ bit[from] >= amount
  /\ bit' = [bit EXCEPT ![from] = @ - amount, ![to] = @ + amount]
  /\ UNCHANGED tokenPaused

\* The two transfers of a claim: the net amount, and the fee to the collector.
PayOut(from, to, amount, fee) ==
  /\ from # to /\ bit[from] >= amount
  /\ bit' = [a \in Accounts |-> bit[a] - (IF a = from THEN amount ELSE 0)
                                      + (IF a = to THEN amount - fee ELSE 0)
                                      + (IF a = Collector THEN fee ELSE 0)]
  /\ UNCHANGED tokenPaused

PauseToken ==
  /\ tokenPaused' = ~tokenPaused
  /\ UNCHANGED bit

-------------------------------------------------------------------------------

\* _feeCap: amount * maxFeeBps / 10000 without overflowing the product.
FeeCap(amount) ==
  (amount \div 10000) * MaxFeeBps + ((amount % 10000) * MaxFeeBps) \div 10000

\* _validatePriceBand: quoted satoshis within the deviation around the reference.
PriceInBand(net, sats) ==
  LET quoted == sats * BitScale * 10000
      reference == net * ReferenceSatsPerBit
  IN /\ quoted >= reference * (10000 - MaxPriceDeviationBps)
     /\ quoted <= reference * (10000 + MaxPriceDeviationBps)

DeadlinesOrdered(q) ==
  /\ now < q.quoteExpiresAt
  /\ q.quoteExpiresAt < q.lastSafeClaimAt
  /\ q.lastSafeClaimAt >= now + MinSettlementWindow
  /\ q.refundAfter >= q.lastSafeClaimAt + MinClaimBuffer
  /\ q.refundAfter <= now + MaxLockDuration

\* _validateQuote, the part both contracts share.
ValidTerms(q) ==
  /\ q.amount > 0 /\ q.fee < q.amount /\ q.lightningAmountSats > 0
  /\ q.amount <= MaxSwapAmount
  /\ q.fee <= FeeCap(q.amount)
  /\ DeadlinesOrdered(q)
  /\ PriceInBand(q.amount - q.fee, q.lightningAmountSats)

\* _requireOpen: the gate is open and the token has its expected configuration.
RequireOpen == IsOpen /\ ~tokenPaused

Epoch == now \div EpochDuration

NoQuote == [f \in QuoteFields |-> 0]
NoSwap == [state |-> "UNSET", quote |-> NoQuote, lockedAt |-> 0]
Locked(q) == [state |-> "LOCKED", quote |-> q, lockedAt |-> now]   \* lockedAt: history
===============================================================================
