---------------------------- MODULE MCAmortization ----------------------------
(* Loans of a few dozen cents: the smaller the amount, the larger the part *)
(* of it that rounding is.  The rates are 0, 2, 10 and 50 percent a month. *)
EXTENDS Amortization

Rate(n, d) == [num |-> n, den |-> d]
Rates == {Rate(0, 1), Rate(1, 50), Rate(1, 10), Rate(1, 2)}
MCLoans == {[principal |-> p, tenure |-> t, num |-> r.num, den |-> r.den] :
               p \in 20..60, t \in 1..4, r \in Rates}
ASSUME LoansAreSizeable == \A l \in Loans : Sizeable(l)
=============================================================================
