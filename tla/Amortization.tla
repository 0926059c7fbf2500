----------------------------- MODULE Amortization -----------------------------
(***************************************************************************)
(* The repayment schedule of a loan, one action per installment of the     *)
(* loop.  Amounts are integer cents and a monthly rate is a fraction       *)
(* num/den, so that rounding to cents is exact; on a tie the code's binary *)
(* floats may round either way, and so does the model.                     *)
(* The definitions are named apart from those of DisbursementGraph, whose  *)
(* second node builds the schedule, so that a module can extend both.      *)
(***************************************************************************)
EXTENDS Integers

CONSTANT Loans          \* a set of [principal, tenure, num, den]
ASSUME LoansAssumption ==
    Loans \subseteq [principal : Nat \ {0}, tenure : Nat \ {0}, num : Nat, den : Nat \ {0}]

VARIABLES loan,      \* the loan the schedule is built for
          emi,       \* the rounded installment
          month,     \* the next installment
          balance,   \* what is still owed
          interest,  \* total_interest
          repaid,    \* the sum of the principal components so far
          charged    \* the sum of the emi_amounts so far
scheduleVars == <<loan, emi, month, balance, interest, repaid, charged>>

ScheduleTypeOK ==
    /\ loan \in Loans
    /\ emi \in Nat
    /\ month \in 1..(loan.tenure + 1)
    /\ balance \in 0..loan.principal
    /\ interest \in Nat /\ repaid \in Nat /\ charged \in Nat

Abs(n) == IF n < 0 THEN -n ELSE n
(* round(a / b, 2) in cents: the nearest integer, either one on a tie.     *)
Rounded(a, b) == {q \in {a \div b, a \div b + 1} : 2 * Abs(q * b - a) <= b}

(* The powers of x, by exponent.                                           *)
PowersOf(x) == LET p[n \in Nat] == IF n = 0 THEN 1 ELSE x * p[n - 1] IN p

\* mutant: the principal is divided by the tenure whatever the rate
CalculateEmi_Flat(l) == Rounded(l.principal, l.tenure)

(* P * r * (1+r)^n / ((1+r)^n - 1), with r = num/den                       *)
Grown(l) == PowersOf(l.den + l.num)[l.tenure]
Whole(l) == PowersOf(l.den)[l.tenure]
CalculateEmi(l) ==
    IF l.num = 0 THEN Rounded(l.principal, l.tenure)
    ELSE Rounded(l.principal * l.num * Grown(l), l.den * (Grown(l) - Whole(l)))

ScheduleInit ==
    /\ loan \in Loans
    /\ emi \in CalculateEmi(loan)
    /\ month = 1
    /\ balance = loan.principal
    /\ interest = 0 /\ repaid = 0 /\ charged = 0

InterestOn(amount) == Rounded(amount * loan.num, loan.den)

(* The end of the loop body: the closing balance, kept from below zero.    *)
Pay(principal, rate_part, amount) ==
    /\ month' = month + 1
    /\ balance' = IF balance < principal THEN 0 ELSE balance - principal
    /\ interest' = interest + rate_part
    /\ repaid' = repaid + principal
    /\ charged' = charged + amount
    /\ UNCHANGED <<loan, emi>>

Installment ==
    /\ month < loan.tenure
    /\ \E i \in InterestOn(balance) : Pay(emi - i, i, emi)

\* mutant: the last installment is like the others
LastInstallment_Plain ==
    /\ month = loan.tenure
    /\ \E i \in InterestOn(balance) : Pay(emi - i, i, emi)
\* mutant: the last installment keeps the usual amount
LastInstallment_SameAmount ==
    /\ month = loan.tenure
    /\ Pay(balance, IF emi > balance THEN emi - balance ELSE 0, emi)

(* The last installment repays the balance, whatever rounding has left of  *)
(* it, and books what is left of the EMI as interest.                      *)
LastInstallment ==
    /\ month = loan.tenure
    /\ LET rest == IF emi > balance THEN emi - balance ELSE 0
       IN  Pay(balance, rest, balance + rest)

ScheduleNext == Installment \/ LastInstallment
ScheduleSpec == ScheduleInit /\ [][ScheduleNext]_scheduleVars

-----------------------------------------------------------------------------
ScheduleFinished == month = loan.tenure + 1

(* The principal components add up to the principal, so that rounding      *)
(* loses nothing and charges nothing twice, and the total_repayment the    *)
(* receipt shows, principal plus total interest, is what the installments  *)
(* add up to.                                                              *)
LoanIsRepaid ==
    ScheduleFinished => /\ repaid = loan.principal /\ balance = 0
                /\ charged = loan.principal + interest

(* The last installment makes up for rounding only: what it adds to the    *)
(* EMI is at most what one cent a month can grow to.                       *)
LastIsNearEmi ==
    [][ScheduleFinished' => Abs((charged' - charged) - emi) * Whole(loan)
                        <= loan.tenure * Grown(loan)]_scheduleVars

(* The loans LoanIsRepaid can be expected of: the installment, rounded     *)
(* down, is not less than what a cent a month grows to, and that is as     *)
(* much as rounding may add up to.                                         *)
Sizeable(l) ==
    LET growth == Grown(l) - Whole(l)
    IN  IF l.num = 0 THEN l.tenure <= l.principal \div l.tenure
        ELSE l.den * growth
               <= l.num * Whole(l) * ((l.principal * l.num * Grown(l)) \div (l.den * growth))
=============================================================================
