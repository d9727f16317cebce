-------------------------- MODULE MCSettlementLedger --------------------------
(* TLC instances of SettlementLedger. *)
EXTENDS SettlementLedger, TLC

Symmetry == Permutations(Settlements) \cup Permutations(PaymentHashes) \cup Permutations(Blocks)
===============================================================================
