-------------------------- MODULE MCDisbursementGraph -------------------------
(* Small instance of DisbursementGraph: every mix of missing, negative,    *)
(* small, limit and large values of the terms the nodes branch on.         *)
EXTENDS DisbursementGraph

MCSettleLimit == 5
MCMaxTenure == 3
MCRequests == [approved_amount : {0, 6}, approved_tenure_months : {-1, 0, 1, 3, 4},
               interest_rate : {0, 1}, disbursement_amount : {-1, 0, 1, 4, 5, 6}]
=============================================================================
