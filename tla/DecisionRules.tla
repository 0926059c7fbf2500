---------------------------- MODULE DecisionRules -----------------------------
(***************************************************************************)
(* What the underwriting graph computes: the evaluations of a credit       *)
(* report, the weighted score and its tier, the decision and the counter   *)
(* offer.  The evaluations and the decision are asked of a language model. *)
(* An evaluation is taken to follow the policy its prompt lays down, or to *)
(* be missing; for a missing decision or counter offer the code has        *)
(* deterministic fallbacks.                                                *)
(*                                                                         *)
(* Money is in dollars, and in cents where the code rounds to two          *)
(* decimals; a score is in hundredths of a point, a factor or a ratio in   *)
(* percent, an interest rate in hundredths of a percent.                   *)
(***************************************************************************)
EXTENDS Integers, Sequences, FiniteSetsExt

CONSTANT None   \* no value

(* chain.invoke, attempted one time more than there are retries: the first *)
(* reply that can be parsed, else the fallback.  Without a fallback None   *)
(* stands for the RuntimeError.                                            *)
ExecuteLlm(replies, fallback) ==
    LET useful == {i \in DOMAIN replies : replies[i] # None}
    IN  IF useful = {} THEN fallback ELSE replies[Min(useful)]

-----------------------------------------------------------------------------
(* Masking drops what identifies the applicant, section by section.        *)
Personal == {"firstName", "middleName", "surname", "address", "employer",
             "accountNumber", "courtName", "referenceNumber"}
Without(r) == [f \in DOMAIN r \ Personal |-> r[f]]
PiDeletion(report) ==
    [Without(report) EXCEPT !.tradeline = [i \in DOMAIN @ |-> Without(@[i])],
                            !.publicRecord = [i \in DOMAIN @ |-> Without(@[i])]]

-----------------------------------------------------------------------------
(* The policies of the evaluation prompts, of what the prompt is given.    *)

Total(records, Field(_)) == MapThenSumSet(LAMBDA i : Field(records[i]), DOMAIN records)
Band(value, bands, otherwise) ==
    LET fitting == {i \in DOMAIN bands : value <= bands[i][1]}
    IN  IF fitting = {} THEN otherwise ELSE bands[Min(fitting)][2]

CreditScore(score) ==
    LET band == Band(score, <<<<639, "SUBPRIME">>, <<679, "FAIR">>, <<719, "NEAR_PRIME">>>>, "PRIME")
    IN  [score |-> score,
         score_band |-> band,
         base_limit |-> CASE band = "PRIME" -> 75000 [] band = "NEAR_PRIME" -> 50000
                          [] band = "FAIR" -> 35000 [] band = "SUBPRIME" -> 20000]

(* A record is a judgment or a bankruptcy of some age in years.            *)
PublicRecord(records) ==
    LET bankrupt == {i \in DOMAIN records : records[i].kind = "bankruptcy"}
        severity ==
            IF records = <<>> THEN "NONE"
            ELSE IF \/ \E i \in bankrupt : records[i].age <= 5
                    \/ Cardinality(DOMAIN records \ bankrupt) > 1 THEN "SEVERE"
            ELSE IF bankrupt # {} THEN "MODERATE" ELSE "LOW"
    IN  [severity |-> severity,
         factor |-> CASE severity = "NONE" -> 100 [] severity = "LOW" -> 90
                      [] severity = "MODERATE" -> 75 [] severity = "SEVERE" -> 50,
         hard_decline |-> severity = "SEVERE"]

Utilization(trades) ==
    LET limit == Total(trades, LAMBDA t : t.limit)
        ratio == IF limit = 0 THEN 0
                 ELSE (100 * Total(SelectSeq(trades, LAMBDA t : t.open), LAMBDA t : t.balance)) \div limit
        risk == Band(ratio, <<<<15, "EXCELLENT">>, <<35, "GOOD">>, <<60, "HIGH">>>>, "CRITICAL")
    IN  [risk |-> risk,
         factor |-> CASE risk = "EXCELLENT" -> 110 [] risk = "GOOD" -> 100
                      [] risk = "HIGH" -> 85 [] risk = "CRITICAL" -> 70]

Exposure(trades) ==
    [risk |-> Band(Total(trades, LAMBDA t : t.payment), <<<<499, "LOW">>, <<1500, "MODERATE">>, <<3500, "HIGH">>>>, "EXTREME")]

Behavior(trades) ==
    LET late == Total(trades, LAMBDA t : t.late)
    IN  IF \E i \in DOMAIN trades : trades[i].charged_off
        THEN [behavior_score |-> 0]
        ELSE [behavior_score |-> Band(late, <<<<0, 100>>, <<2, 75>>>>, 40)]

Inquiry(inquiries) ==
    LET risk == Band(inquiries, <<<<2, "LOW">>, <<5, "MODERATE">>>>, "HIGH")
    IN  [risk |-> risk,
         factor |-> CASE risk = "LOW" -> 100 [] risk = "MODERATE" -> 95 [] risk = "HIGH" -> 85]

(* An income of zero is sent as UNKNOWN.                                   *)
Income(obligations, income) ==
    LET dti == IF income = 0 THEN 9990 ELSE (100 * obligations) \div income
    IN  [dti |-> dti,
         risk |-> Band(dti, <<<<24, "LOW">>, <<35, "MODERATE">>, <<45, "HIGH">>>>, "UNACCEPTABLE"),
         affordable |-> dti <= 45]

(* The parallel nodes: what each gives to its prompt.                      *)
OpenTrades(masked) == SelectSeq(masked.tradeline, LAMBDA t : t.open)
CreditScoreNode(masked) == CreditScore(masked.score)
PublicRecordNode(masked) == PublicRecord(masked.publicRecord)
UtilizationNode(masked) == Utilization(SelectSeq(masked.tradeline, LAMBDA t : t.revolving))
ExposureNode(masked) == Exposure(OpenTrades(masked))
BehaviorNode(masked) == Behavior(masked.tradeline)
InquiryNode(masked) == Inquiry(masked.inquiries)
IncomeNode(masked, income) == Income(Total(OpenTrades(masked), LAMBDA t : t.payment), income)

(* What they leave in the graph state.                                     *)
Signals(report, income) ==
    LET masked == PiDeletion(report)
    IN  [credit_score |-> CreditScoreNode(masked), public_record |-> PublicRecordNode(masked),
         utilization |-> UtilizationNode(masked), exposure |-> ExposureNode(masked),
         behavior |-> BehaviorNode(masked), inquiry |-> InquiryNode(masked),
         income |-> IncomeNode(masked, income)]

-----------------------------------------------------------------------------
Weights == [credit_score |-> 25, public_record |-> 15, utilization |-> 15, exposure |-> 10,
            behavior |-> 15, inquiry |-> 5, income |-> 15]

FlagPoints == [LOW |-> 90, MODERATE |-> 60, HIGH |-> 30, EXCELLENT |-> 95, GOOD |-> 75,
               CRITICAL |-> 10, EXTREME |-> 5, FAIR |-> 65, POOR |-> 30, UNACCEPTABLE |-> 5,
               NONE |-> 100, SEVERE |-> 10]
NormalizeRiskFlag(flag) == IF flag \in DOMAIN FlagPoints THEN FlagPoints[flag] ELSE 50

Clamp(n, low, high) == IF n < low THEN low ELSE IF n > high THEN high ELSE n

(* A sub-score in elevenths of a point, so that (score - 300) / 5.5 is     *)
(* exact.  A behavior score of zero is falsy and replaced by 50.           *)
SubScores(s) ==
    [credit_score |-> 2 * Clamp(s.credit_score.score - 300, 0, 550),
     public_record |-> 11 * NormalizeRiskFlag(s.public_record.severity),
     utilization |-> 11 * NormalizeRiskFlag(s.utilization.risk),
     exposure |-> 11 * NormalizeRiskFlag(s.exposure.risk),
     behavior |-> 11 * (IF s.behavior.behavior_score = 0 THEN 50 ELSE s.behavior.behavior_score),
     inquiry |-> 11 * NormalizeRiskFlag(s.inquiry.risk),
     income |-> 11 * NormalizeRiskFlag(s.income.risk)]

ScoreToTier(score) ==
    Band(score, <<<<3499, "F">>, <<4999, "D">>, <<6499, "C">>, <<7999, "B">>>>, "A")

\* mutant: a hard decline does not override the score
RiskAggregator_NoOverride(s) ==
    LET sub == SubScores(s)
        score == (2 * MapThenSumSet(LAMBDA k : Weights[k] * sub[k], DOMAIN Weights) + 11) \div 22
    IN  [score |-> score, tier |-> ScoreToTier(score)]

RiskAggregator(s) ==
    LET sub == SubScores(s)
        rounded == (2 * MapThenSumSet(LAMBDA k : Weights[k] * sub[k], DOMAIN Weights) + 11) \div 22
        score == IF s.public_record.hard_decline THEN 0 ELSE rounded
    IN  [score |-> score, tier |-> ScoreToTier(score)]

-----------------------------------------------------------------------------
Max2(a, b) == IF a > b THEN a ELSE b
(* amount * percent / 100 rounded: on dollars the result is exact cents.   *)
Cents(amount, percent) == amount * percent
NetOf(cents) == (98 * cents + 50) \div 100

Decision(kind, cents, tenure, rate) ==
    [decision |-> kind, approved_amount |-> cents, approved_tenure |-> tenure,
     interest_rate |-> rate, disbursement_amount |-> NetOf(cents)]
Decline == Decision("DECLINE", 0, 0, 0)

(* The policy of the decision prompt.                                      *)
LendingCapacity(s) ==
    ((s.credit_score.base_limit \div 1000)
        * s.public_record.factor * s.utilization.factor * s.inquiry.factor) \div 1000
RateOfTier(tier) == CASE tier = "A" -> 750 [] tier = "B" -> 1000 [] tier = "C" -> 1350 [] tier = "D" -> 1800
PolicyDecision(s, risk, terms) ==
    IF risk.tier = "F" \/ s.public_record.hard_decline \/ ~s.income.affordable THEN Decline
    ELSE IF terms.amount <= LendingCapacity(s)
    THEN Decision("APPROVE", Cents(terms.amount, 100), terms.tenure, RateOfTier(risk.tier))
    ELSE Decision("COUNTER_OFFER", 0, 0, RateOfTier(risk.tier))

FallbackDecision(risk, terms) ==
    IF risk.score >= 7500
    THEN Decision("APPROVE", Cents(terms.amount, 100), terms.tenure, 1200)
    ELSE IF risk.score >= 5500
    THEN Decision("COUNTER_OFFER", Cents(terms.amount, 80), Max2(terms.tenure, 24), 1450)
    ELSE Decline

(* The options of the fallback counter offer: the installment is a share   *)
(* of what the income affords, whatever the amount.                        *)
FallbackCounterOffer(income, terms) ==
    LET max_emi == Cents(income, 35)
        Option(percent, tenure, rate, twentieths) ==
            [proposed_amount |-> Cents(terms.amount, percent), proposed_tenure |-> tenure,
             proposed_rate |-> rate, disbursement_amount |-> NetOf(Cents(terms.amount, percent)),
             emi |-> (max_emi * twentieths + 10) \div 20,
             total_repayment |-> (max_emi * twentieths * tenure + 10) \div 20]
    IN  [max_affordable_emi |-> max_emi,
         options |-> <<Option(85, Max2(terms.tenure, 24), 1450, 19),
                       Option(70, Max2(terms.tenure + 12, 36), 1375, 16)>>]
=============================================================================
