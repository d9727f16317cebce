------------------------------- MODULE Totals -------------------------------
(* The sum of an amount over a finite set: of balances, of commitments, of    *)
(* what a day's reservations are worth.                                       *)
EXTENDS Integers, FiniteSets, FiniteSetsExt

\* The amounts of the members of S, added up.
Total(amount, S) == MapThenSumSet(LAMBDA x : amount[x], S)
=============================================================================
