-------------------------- MODULE PaymentHashRegistry --------------------------
(***************************************************************************)
(* contracts/src/TreeSwapPaymentHashRegistry.sol: a Lightning payment hash *)
(* may be consumed once, by one of the two escrows the registrar installed *)
(* before it sealed the list.                                              *)
(***************************************************************************)
EXTENDS Integers, FiniteSets

CONSTANTS Contracts,   \* contracts that could be registered
          Hashes       \* payment hashes

VARIABLES isSealed, approvedEscrow, paymentHashUsed

registryVars == <<isSealed, approvedEscrow, paymentHashUsed>>

RegistryInit ==
  /\ isSealed = FALSE
  /\ approvedEscrow = {}
  /\ paymentHashUsed = {}

\* registerEscrow, by the registrar: two at most, none after the seal.
RegisterEscrow(c) ==
  /\ ~isSealed
  /\ c \notin approvedEscrow /\ Cardinality(approvedEscrow) < 2
  /\ approvedEscrow' = approvedEscrow \cup {c}
  /\ UNCHANGED <<isSealed, paymentHashUsed>>

\* seal, by the registrar, once both are installed.
Seal ==
  /\ ~isSealed /\ Cardinality(approvedEscrow) = 2
  /\ isSealed' = TRUE
  /\ UNCHANGED <<approvedEscrow, paymentHashUsed>>

\* consumePaymentHash, called by escrow c; it reverts the whole call of the escrow.
ConsumePaymentHash(c, h) ==
  /\ isSealed /\ c \in approvedEscrow
  /\ h \notin paymentHashUsed
  /\ paymentHashUsed' = paymentHashUsed \cup {h}
  /\ UNCHANGED <<isSealed, approvedEscrow>>

RegistryCall == (\E c \in Contracts : RegisterEscrow(c)) \/ Seal
===============================================================================
