------------------------ MODULE MCLightningAdapter ------------------------
(* Both roles, executed by two calls at a time: two invoices of one hash,    *)
(* which a day has room for, and their settlement; two payments of two       *)
(* hashes, which one day has no room for, one of them good on the next.      *)
EXTENDS LightningAdapter, TLC

CONSTANTS c1, c2, hash, other, add1, add2, settle, send1, send2

MCMethod == [r \in Requests |-> CASE r \in {add1, add2} -> "AddHold" [] r = settle -> "Settle"
                                  [] OTHER -> "Send"]
MCHashOf == [r \in Requests |-> IF r = send2 THEN other ELSE hash]
MCAmount == [r \in Requests |-> IF r = add2 THEN 1 ELSE 2]
MCExpiresAt == [r \in Requests |-> IF r = send1 THEN 2 ELSE 1]
MCCalls == {c1, c2}
CallSymmetry == Permutations(MCCalls)
=============================================================================
