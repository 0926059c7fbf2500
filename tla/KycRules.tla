------------------------------- MODULE KycRules -------------------------------
(***************************************************************************)
(* What the verification graph of the KYC agent computes: the vendor's     *)
(* report on a social security number, the four checks made of it, and the *)
(* rule engine that turns them into a status.                              *)
(*                                                                         *)
(* A request is [ssnArea, words, dob, line1Words, stateLetters, phone,     *)
(* domain, mx]: the first three digits, the number of words of the name    *)
(* and of the address line, a date <<year, month, day>>, the kind of the   *)
(* number and of the mail domain and whether its MX record resolves.       *)
(* Scores are in thousandths, the confidence in ten-thousandths.           *)
(***************************************************************************)
EXTENDS Integers, Sequences, FiniteSets, SequencesExt

CONSTANTS None,    \* no value
          Today    \* the date of the run, <<year, month, day>>

-----------------------------------------------------------------------------
(* The vendor.  It answers from tables keyed by the area of the number and *)
(* echoes name and address of the request.                                 *)
OnFile == [score |-> 680, code |-> "00", dob |-> <<1980, 4, 15>>, name |-> "echoed",
           deceased |-> FALSE, issued |-> 1980, bankruptcies |-> 0]

CreditReport(req) ==
    CASE req.ssnArea \in 545..573 -> [OnFile EXCEPT !.score = 750, !.dob = req.dob]
      [] req.ssnArea \in 574..576 -> [OnFile EXCEPT !.score = 580, !.code = "01", !.dob = <<1970, 1, 1>>,
                                                    !.bankruptcies = 1]
      [] req.ssnArea \in 600..619 -> [OnFile EXCEPT !.score = 720, !.code = "08", !.issued = Today[1] + 5]
      [] req.ssnArea \in 620..639 -> [OnFile EXCEPT !.score = 700, !.code = "04", !.name = "another"]
      [] req.ssnArea \in 640..659 -> [OnFile EXCEPT !.score = 710, !.code = "05", !.dob = <<1965, 1, 1>>]
      [] req.ssnArea \in 660..679 -> [OnFile EXCEPT !.score = 500, !.code = "09", !.deceased = TRUE]
      [] req.ssnArea \in 680..699 -> [OnFile EXCEPT !.score = 450, !.code = "12"]
      [] OTHER -> OnFile

(* The request the vendor accepts; the others raise in the node: no word   *)
(* to take a first name from, or a state that is not two letters.          *)
CanBeSent(req) == req.words > 0 /\ req.stateLetters = 2

-----------------------------------------------------------------------------
Later(d, e) == d[2] > e[2] \/ (d[2] = e[2] /\ d[3] > e[3])
Age(dob) == Today[1] - dob[1] - (IF Later(dob, Today) THEN 1 ELSE 0)

(* The name matches when it is contained in first and last word.           *)
SsnVerification(req, report) ==
    LET age == Age(req.dob)
    IN  [ssn_valid |-> age >= 18 /\ age <= 120,
         ssn_plausible |-> age <= 120,
         identity_theft_flag |-> FALSE,
         deceased_flag |-> report.deceased,
         ssn_score |-> report.score,
         name_ssn_match |-> report.name = "echoed" /\ req.words <= 2,
         dob_ssn_match |-> report.dob = req.dob,
         issued_year |-> report.issued,
         flags |-> {f \in {"AGE_WARNING", "DOB_ERROR"} :
                       IF f = "AGE_WARNING" THEN age < 18 ELSE age > 120}]

(* The echoed street differs only when the line is a single word, to which *)
(* the vendor adds a street name.                                          *)
AddressVerification(req) ==
    LET matches == {"city", "state", "zip"} \cup (IF req.line1Words > 1 THEN {"street"} ELSE {})
        count == Cardinality(matches)
    IN  [address_match |-> count >= 3,
         risk_score |-> 1000 - 250 * count,
         geo_risk_flag |-> FALSE,
         deliverable |-> count >= 3,
         mismatches |-> {"street", "city", "state", "zip"} \ matches]

Within(n, low, high) == IF n < low THEN low ELSE IF n > high THEN high ELSE n

AmlCheck(report) ==
    LET ofac == report.code = "12"
        risk == 1000 - report.score + (IF report.code # "00" THEN 200 ELSE 0)
                + (IF report.bankruptcies > 0 THEN 100 ELSE 0) + (IF report.deceased THEN 200 ELSE 0)
    IN  [ofac_match |-> ofac,
         ofac_confidence |-> IF ofac THEN 990 ELSE 300,
         pep_match |-> report.code \in {"01", "08", "09"},
         aml_score |-> Within(IF ofac THEN 1000 ELSE risk, 0, 1000),
         flags |-> (IF report.code # "00" THEN {"EXPERIAN_FRAUD_CODE"} ELSE {})
                   \cup (IF report.bankruptcies > 0 THEN {"PUBLIC_RECORD_PRESENT"} ELSE {})
                   \cup (IF report.deceased THEN {"DECEASED_SSN_FLAG"} ELSE {})]

ContactVerification(req) ==
    LET phone_valid == req.phone \in {"fixed", "voip"}
        email_valid == req.domain # "none" /\ req.mx
    IN  [phone_valid |-> phone_valid,
         email_valid |-> email_valid,
         is_high_risk_phone |-> req.phone = "voip",
         is_disposable_email |-> req.domain = "disposable",
         flags |-> (IF req.phone = "voip" THEN {"PHONE_RISK"} ELSE {})
                   \cup (IF req.phone = "malformed" THEN {"PHONE_ERROR"} ELSE {})
                   \cup (IF req.domain = "disposable" THEN {"EMAIL_DISPOSABLE"} ELSE {})
                   \cup (IF req.domain # "none" /\ ~email_valid THEN {"EMAIL_DOMAIN_ERROR"} ELSE {})]

-----------------------------------------------------------------------------
(* The rule set: a rule fires when any of its signals is set.              *)
Rule(id, condition, outcome, priority) ==
    [id |-> id, condition |-> condition, outcome |-> outcome, priority |-> priority]
RuleSet ==
    [version |-> "2026.02.25.v1",
     soft_signal_threshold |-> 3,
     hard_fail_rules |-> <<Rule("OFAC_MATCH", {<<"aml", "ofac_match">>}, "FAIL", 1),
                           Rule("IDENTITY_INTEGRITY_FAIL_SSN",
                                {<<"ssn", "identity_theft_flag">>, <<"ssn", "deceased_flag">>}, "FAIL", 3)>>,
     soft_review_rules |-> <<Rule("PEP_MATCH", {<<"aml", "pep_match">>}, "REVIEW", None),
                             Rule("HIGH_GEO_RISK", {<<"address", "geo_risk_flag">>}, "REVIEW", None)>>,
     weights |-> [ssn |-> 33, address |-> 34, aml |-> 33]]

Ids(rules) == {rules[i].id : i \in DOMAIN rules}
Unique(rules) == \A i, j \in DOMAIN rules : rules[i].id = rules[j].id => i = j

(* The rule file is validated each time it is loaded.                      *)
ValidRuleSet(rules) ==
    /\ rules.version # ""
    /\ Unique(rules.hard_fail_rules) /\ Unique(rules.soft_review_rules)
    /\ Ids(rules.hard_fail_rules) \cap Ids(rules.soft_review_rules) = {}
    /\ \A i \in DOMAIN rules.hard_fail_rules : rules.hard_fail_rules[i].outcome = "FAIL"
    /\ \A i \in DOMAIN rules.soft_review_rules : rules.soft_review_rules[i].outcome = "REVIEW"
    /\ rules.weights.ssn + rules.weights.address + rules.weights.aml \in 99..101

(* A signal that is missing cannot satisfy a condition.                    *)
Holds(rule, signals) ==
    \E path \in rule.condition :
        path[2] \in DOMAIN signals[path[1]] /\ signals[path[1]][path[2]]

Verdict(status, triggered, soft) ==
    [final_status |-> status, triggered_rules |-> triggered, soft_flags |-> soft]

\* mutant: soft rules are evaluated first and may settle the matter
ExecuteRules_SoftFirst(rules, signals) ==
    LET hard == {i \in DOMAIN rules.hard_fail_rules : Holds(rules.hard_fail_rules[i], signals)}
        soft == {i \in DOMAIN rules.soft_review_rules : Holds(rules.soft_review_rules[i], signals)}
    IN  IF soft # {} THEN Verdict("PASS", {}, {})
        ELSE IF hard # {} THEN Verdict("FAIL", {rules.hard_fail_rules[i].id : i \in hard}, {})
        ELSE Verdict("PASS", {}, {})

(* The first hard rule that holds, by priority, fails the applicant and is *)
(* the only one reported.                                                  *)
ExecuteRules(rules, signals) ==
    LET hard == {i \in DOMAIN rules.hard_fail_rules : Holds(rules.hard_fail_rules[i], signals)}
        first == CHOOSE i \in hard : \A j \in hard :
                    rules.hard_fail_rules[i].priority <= rules.hard_fail_rules[j].priority
        soft == {rules.soft_review_rules[i].id :
                   i \in {j \in DOMAIN rules.soft_review_rules : Holds(rules.soft_review_rules[j], signals)}}
    IN  IF hard # {} THEN Verdict("FAIL", {rules.hard_fail_rules[first].id}, {})
        ELSE IF Cardinality(soft) >= rules.soft_signal_threshold
        THEN Verdict("NEEDS_HUMAN_REVIEW", soft, soft)
        ELSE Verdict("PASS", {}, {})

(* Hundredths times thousandths are hundred-thousandths, rounded to four   *)
(* places.                                                                 *)
Confidence(weights, s) ==
    (weights.ssn * s.ssn.ssn_score + weights.address * (1000 - s.address.risk_score)
        + weights.aml * (1000 - s.aml.aml_score) + 5) \div 10

RiskAggregator(rules, signals) ==
    LET verdict == ExecuteRules(rules, signals)
        failed == verdict.final_status = "FAIL"
    IN  [final_status |-> verdict.final_status,
         confidence_score |-> Confidence(rules.weights, signals),
         hard_fail_triggered |-> failed,
         triggered_rules |-> verdict.triggered_rules,
         soft_flags |-> verdict.soft_flags,
         hard_fail_rules |-> IF failed THEN verdict.triggered_rules ELSE {},
         rule_version |-> rules.version]

Explanation(decision) ==
    IF decision.final_status = "PASS" THEN [status |-> "PASS", rules |-> {}]
    ELSE [status |-> decision.final_status, rules |-> decision.triggered_rules]
===============================================================================
