------------------------------ MODULE MCPipeline ------------------------------
(* Small instances of Pipeline: two offers of different terms, so that a   *)
(* re-run can change what was offered; one moves money, the other is       *)
(* refused by the gateway.                                                 *)
EXTENDS Pipeline, TLC

MCSettleLimit == 5
MCMaxTenure == 3
Offer(net) == [approved_amount |-> 6, approved_tenure_months |-> 2,
               interest_rate |-> 1, disbursement_amount |-> net]
Paying == Offer(4)
Refused == Offer(-1)
TwoOffers == {Paying, Refused}
AllShapes == {"flat", "nested"}
NestedShape == {"nested"}
Symmetry == Permutations(Jobs)
=============================================================================
