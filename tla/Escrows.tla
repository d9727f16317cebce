-------------------------------- MODULE Escrows --------------------------------
(***************************************************************************)
(* The deployed contracts together: both escrows behind one gate and one   *)
(* payment-hash registry, over one BIT token.  A step is one external call *)
(* to one of them, or the next block.                                      *)
(***************************************************************************)
EXTENDS BitVault, UserEscrow, Totals

allVars == <<now, gateVars, registryVars, tokenVars, vaultVars, escrowVars>>

EscrowsInit == GateInit /\ RegistryInit /\ TokenInit /\ VaultInit /\ UserEscrowInit

CallGate == GateCall /\ UNCHANGED <<registryVars, tokenVars, vaultVars, escrowVars>>
CallRegistry == RegistryCall /\ UNCHANGED <<now, gateVars, tokenVars, vaultVars, escrowVars>>
CallToken == PauseToken /\ UNCHANGED <<now, gateVars, registryVars, vaultVars, escrowVars>>
CallVault == VaultCall /\ UNCHANGED <<now, gateVars, escrowVars>>
CallEscrow == EscrowCall /\ UNCHANGED <<now, gateVars, vaultVars>>
AdvanceBlock == NextBlock /\ UNCHANGED <<registryVars, tokenVars, vaultVars, escrowVars>>

EscrowsNext == CallGate \/ CallRegistry \/ CallToken \/ CallVault \/ CallEscrow \/ AdvanceBlock

EscrowsSpec == EscrowsInit /\ [][EscrowsNext]_allVars

\* Blocks go on, and whoever is owed a refund calls for it.
FairEscrowsSpec ==
  /\ EscrowsSpec
  /\ WF_allVars(AdvanceBlock)
  /\ \A i \in QuoteIds :
       /\ WF_allVars(VaultRefund(i) /\ UNCHANGED <<now, gateVars, escrowVars>>)
       /\ WF_allVars(EscrowRefund(i) /\ UNCHANGED <<now, gateVars, vaultVars>>)

-------------------------------------------------------------------------------
\* A swap of either contract, by contract and quote id.
Swaps == {Vault, Escrow} \X QuoteIds
SwapAt(s) == IF s[1] = Vault THEN vaultSwaps[s[2]] ELSE escrowSwaps[s[2]]
StateOf(s) == SwapAt(s).state
QuoteOf(s) == SwapAt(s).quote
Taken == {s \in Swaps : StateOf(s) # "UNSET"}
LockedIn(c) == {s \in Swaps : s[1] = c /\ StateOf(s) = "LOCKED"}
AmountOf == [s \in Swaps |-> QuoteOf(s).amount]
Amounts(S) == Total(AmountOf, S)
SlotsOf(u) == {s \in LockedIn(Vault) : QuoteOf(s).user = u}

SwapRecords(quotes) ==
  [state : {"UNSET", "LOCKED", "CLAIMED", "REFUNDED"}, quote : quotes \cup {NoQuote}, lockedAt : Nat]

\* The storage of the contracts and the token has its types.
EscrowsTypeOK ==
  /\ GateTypeOK
  /\ isSealed \in BOOLEAN /\ approvedEscrow \subseteq Contracts /\ paymentHashUsed \subseteq Hashes
  /\ bit \in [Accounts -> Nat] /\ tokenPaused \in BOOLEAN
  /\ availableBalance \in [Solvers -> Nat] /\ totalAvailable \in Nat
  /\ vaultLocked \in Nat /\ escrowLocked \in Nat
  /\ activeUserReservations \in [Users -> Nat]
  /\ vaultSwaps \in [QuoteIds -> SwapRecords(VaultQuotes)]
  /\ escrowSwaps \in [QuoteIds -> SwapRecords(EscrowQuotes)]

\* Each contract holds at least the BIT it owes (more only if somebody sends it BIT
\* directly): no sequence of deposits, withdrawals, reservations, claims and refunds
\* leaves it short of its liabilities.
Solvent ==
  /\ bit[Vault] >= totalAvailable + vaultLocked
  /\ bit[Escrow] >= escrowLocked

\* The totals are the sums they stand for, so the checked subtractions of claim and
\* refund can never revert and strand a locked swap; and the slot count of a user is
\* the number of its locked reservations, at most one.
LiabilitiesExact ==
  /\ vaultLocked = Amounts(LockedIn(Vault))
  /\ escrowLocked = Amounts(LockedIn(Escrow))
  /\ totalAvailable = Total(availableBalance, Solvers)
  /\ \A u \in Users :
       /\ activeUserReservations[u] = Cardinality(SlotsOf(u))
       /\ activeUserReservations[u] <= 1

\* A payment hash funds at most one swap ever, across both directions: a preimage
\* revealed by one claim can never release a second escrow.  No swap
\* exists before the registry is sealed.
HashOnce ==
  /\ \A s, t \in Taken : QuoteOf(s).paymentHash = QuoteOf(t).paymentHash => s = t
  /\ \A s \in Taken : isSealed /\ s[1] \in approvedEscrow

\* The fee of a swap is within maxFeeBps of its amount, exactly, not just after rounding.
FeeBounded == \A s \in Taken : QuoteOf(s).fee * 10000 <= QuoteOf(s).amount * MaxFeeBps

\* New exposure needs an attestation staged after the last halt and still within its
\* window, whatever was staged, executed or halted before.
ExposureGated ==
  [][\A s \in Swaps : StateOf(s) = "UNSET" /\ StateOf(s)' # "UNSET" =>
       /\ stagedFor >= lastHalt + ResumeDelay
       /\ now >= stagedFor /\ now < stagedFor + MaxOpenDuration]_allVars

\* A swap leaves LOCKED once: by a claim strictly before refundAfter or by a refund from
\* then on, so never by both at one time, and the refund comes at least the promised windows
\* after the lock, whenever that was.  It keeps the quote it was locked with.
ExitExclusive ==
  [][\A s \in Swaps : StateOf(s) # "UNSET" /\ StateOf(s)' # StateOf(s) =>
       /\ StateOf(s) = "LOCKED"
       /\ StateOf(s)' = "CLAIMED" => now < QuoteOf(s).refundAfter
       /\ StateOf(s)' = "REFUNDED" =>
            /\ now >= QuoteOf(s).refundAfter
            /\ now >= SwapAt(s).lockedAt + MinSettlementWindow + MinClaimBuffer
       /\ QuoteOf(s)' = QuoteOf(s)]_allVars

\* What makes the safety properties inductive: a taken swap holds a quote that passed
\* validation, its hash is consumed and its windows are those checked when it was locked.
TakenValid ==
  \A s \in Taken :
    LET q == QuoteOf(s)
    IN /\ q \in VaultQuotes \cup EscrowQuotes
       /\ q.fee < q.amount /\ q.fee <= FeeCap(q.amount)
       /\ q.paymentHash \in paymentHashUsed
       /\ q.refundAfter >= SwapAt(s).lockedAt + MinSettlementWindow + MinClaimBuffer

EscrowsInv == EscrowsTypeOK /\ GateInv /\ TakenValid /\ HashOnce /\ Solvent

\* Every locked swap is released eventually: no halt, pause or neighbouring swap can
\* block both of its exits.
LockedIsReleased ==
  \A s \in Swaps : StateOf(s) = "LOCKED" ~> StateOf(s) \in {"CLAIMED", "REFUNDED"}
===============================================================================
