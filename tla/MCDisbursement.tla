---------------------------- MODULE MCDisbursement ----------------------------
(* Small instances of Disbursement.  The requests are one of each kind the *)
(* code tells apart: settled at once, left pending by the gateway, refused *)
(* by it, invalid, and one whose schedule raises.                          *)
EXTENDS Disbursement, TLC

MCSettleLimit == 5
MCMaxTenure == 3
Request(tenure, net) == [approved_amount |-> 6, approved_tenure_months |-> tenure,
                         interest_rate |-> 1, disbursement_amount |-> net]
Small == Request(2, 4)
Large == Request(2, 5)
Refused == Request(2, -1)
Invalid == Request(2, 0)
Endless == Request(4, 4)
MCRequests == {Small, Large, Refused, Invalid, Endless}
MCFewRequests == {Small, Refused, Endless}

AllOutcomes == {"done", "refused", "unacknowledged"}
Reliable == {"done"}
Symmetry == Permutations(Workers)
=============================================================================
