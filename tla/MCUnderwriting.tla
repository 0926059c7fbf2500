---------------------------- MODULE MCUnderwriting ----------------------------
(* Three credit reports whose policy decisions are an approval, a decline  *)
(* and a counter offer, and two that differ in their payments only.        *)
EXTENDS Underwriting

Trade(limit, balance, payment, late, charged_off) ==
    [accountNumber |-> "number", open |-> TRUE, revolving |-> limit > 0, limit |-> limit,
     balance |-> balance, payment |-> payment, late |-> late, charged_off |-> charged_off]
Record(kind, age) == [courtName |-> "court", referenceNumber |-> "number", kind |-> kind, age |-> age]
Report(score, records, trades, inquiries) ==
    [firstName |-> "name", surname |-> "name", address |-> "address", employer |-> "employer",
     score |-> score, publicRecord |-> records, tradeline |-> trades, inquiries |-> inquiries]

MCReports ==
    [prime |-> Report(790, <<>>, <<Trade(20000, 1000, 200, 0, FALSE)>>, 0),
     bankrupt |-> Report(790, <<Record("bankruptcy", 3)>>, <<Trade(20000, 1000, 200, 0, FALSE)>>, 0),
     fair |-> Report(650, <<Record("judgment", 0)>>, <<Trade(10000, 5000, 2000, 1, FALSE)>>, 4)]
MCPayments ==
    [late |-> Report(700, <<>>, <<Trade(20000, 1000, 200, 4, FALSE)>>, 0),
     charged_off |-> Report(700, <<>>, <<Trade(20000, 1000, 200, 4, TRUE)>>, 0)]

MCTerms == {[amount |-> 30000, tenure |-> 12]}
AllOutcomes == {"done", "refused", "unacknowledged"}
Reliable == {"done"}
Symmetry == Permutations(Workers)
=============================================================================
