------------------------------- MODULE MCEscrows -------------------------------
(* TLC instances of Escrows: two signed quotes for each contract. *)
EXTENDS Escrows

CONSTANTS u1, u2, l1, h1, h2, q1, q2

Terms(id, user, beneficiary, amount, fee, hash, nonce, opens) ==
  [quoteId |-> id, user |-> user, solver |-> l1, beneficiary |-> beneficiary, amount |-> amount,
   fee |-> fee, lightningAmountSats |-> amount, paymentHash |-> hash, nonce |-> nonce,
   quoteExpiresAt |-> opens + 2, lastSafeClaimAt |-> opens + 3, refundAfter |-> opens + 4]

\* Two reservations of one user, the second with a larger fee than the cap allows
\* after rounding down.
MCVaultQuotes ==
  {Terms(q1, u1, u1, 20, 1, h1, 1, 1), Terms(q2, u1, u2, 20, 1, h2, 2, 1),
   Terms(q2, u2, u2, 30, 2, h2, 1, 1)}

\* Two openings of one solver that share an epoch, one with the vault's hash.
MCEscrowQuotes ==
  {Terms(q1, u2, l1, 20, 1, h1, 1, 1), Terms(q2, u2, l1, 20, 0, h2, 2, 1)}
===============================================================================
