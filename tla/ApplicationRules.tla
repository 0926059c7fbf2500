--------------------------- MODULE ApplicationRules ---------------------------
(***************************************************************************)
(* What the intake agent asks of an application form: the types of its     *)
(* fields, the blocking validation before anything is stored, the          *)
(* normalisation, and the validations whose findings are stored next to    *)
(* the application.                                                        *)
(*                                                                         *)
(* A value is reduced to what the checks tell apart.  A name, a line of an *)
(* address, a city, an employer and a job title are [text, marks, pad]:    *)
(* the text without the blanks around it, which may be "" or "short" of    *)
(* the length asked for, marks saying whether it has hyphens or            *)
(* apostrophes ("allowed") or digits, and pad whether there are blanks     *)
(* around it, enough to make up the length.  A ZIP is [base, plus4, dash]; *)
(* a date of birth is its year, so that ages count whole years.  An e-mail *)
(* address, which is only looked at when stripped, is [form, who], of a    *)
(* form that both patterns match ("plain"), one ("odd") or none ("bad").   *)
(* Letter case and the form of phone numbers are left out.                 *)
(***************************************************************************)
EXTENDS Integers, Sequences, FiniteSets

CONSTANTS None,      \* a missing value
          Today      \* the current year
ASSUME TodayAssumption == Today \in Nat
ASSUME NoneAssumption == None \notin [text : STRING, marks : STRING, pad : BOOLEAN]

(* The fields of a form; every one is there, though it may be None.        *)
Texts == [text : STRING, marks : STRING, pad : BOOLEAN]
IsText(value) == value \in Texts \cup {None}
IsAddress(address) ==
    /\ DOMAIN address = {"line", "city", "state", "zip"}
    /\ IsText(address.line) /\ IsText(address.city)
    /\ DOMAIN address.zip = {"base", "plus4", "dash"} /\ address.zip.plus4 \in BOOLEAN
IsEmployment(job) ==
    job # None => /\ DOMAIN job = {"type", "employer", "title", "phone", "income"}
                  /\ IsText(job.employer) /\ IsText(job.title)
IsApplicant(applicant) ==
    /\ DOMAIN applicant = {"first", "middle", "last", "ssn", "last4", "dob", "gender", "email",
                           "addresses", "employment"}
    /\ IsText(applicant.first) /\ IsText(applicant.middle) /\ IsText(applicant.last)
    /\ \A j \in DOMAIN applicant.addresses : IsAddress(applicant.addresses[j])
    /\ IsEmployment(applicant.employment)
IsForm(request) ==
    /\ DOMAIN request = {"amount", "day", "term", "applicants"}
    /\ \A i \in DOMAIN request.applicants : IsApplicant(request.applicants[i])

(* What the types of the form require; another one is answered by a 422.   *)
(* Names, dates, numbers and even the applicants may be missing.           *)
Genders == {"MALE", "FEMALE", "NON_BINARY", "OTHER", "PREFER_NOT_TO_SAY"}
WellFormed(request) ==
    /\ request.amount > 0 /\ request.day \in 1..28
    /\ \A i \in DOMAIN request.applicants :
          LET applicant == request.applicants[i]
          IN  /\ applicant.gender \in Genders
              /\ \A j \in DOMAIN applicant.addresses :
                    applicant.addresses[j].line # None /\ applicant.addresses[j].city # None

-----------------------------------------------------------------------------
(* The blocking validation *)

(* Blanks count: they make a text that is not empty, and one long enough.  *)
Given(value) == value # None /\ (value.text # "" \/ value.pad)
LongEnough(value) == value # None /\ (value.text \notin {"", "short"} \/ value.pad)

ValidTerm(months) == months > 1
ValidName(name) == Given(name) /\ name.marks # "digits"
ValidSsn(ssn) == ssn # "bad"
ValidLast4(digits) == digits # None /\ digits # "bad"
AgeOf(dob) == Today - dob
DatedInPast(dob) == dob # None /\ dob < Today
OfAge(dob) == AgeOf(dob) >= 18
(* The first of two patterns, see SoftErrors.                              *)
ValidEmail(email) == email = None \/ email.form # "bad"
ValidAddressLine(line) == LongEnough(line)
ValidCity(city) == LongEnough(city)
ValidState(state) == state # "unlisted"
(* Five digits, or five and four with a dash between them.                 *)
ValidZip(zip) == zip.plus4 = zip.dash
EmploymentTypes == {"salaried", "self_employed", "retired", "unemployed"}
ValidEmployer(name) == LongEnough(name)
ValidIncome(amount) == amount # None /\ amount > 0

(* What is wrong with a form is the set of the fields it is wrong with.    *)
Where(holds, field) == IF holds THEN {} ELSE {field}

AddressErrors(address) ==
    Where(ValidAddressLine(address.line), "line1") \cup Where(ValidCity(address.city), "city")
        \cup Where(ValidState(address.state), "state") \cup Where(ValidZip(address.zip), "zip")

EmploymentErrors(job) ==
    Where(job.type \in EmploymentTypes, "type")
        \cup Where(ValidEmployer(job.employer), "employer_name")
        \cup Where(ValidEmployer(job.title), "job_title")
        \cup Where(ValidIncome(job.income), "monthly_income")

PlaceErrors(applicant) ==
    UNION {AddressErrors(applicant.addresses[i]) : i \in DOMAIN applicant.addresses}
JobErrors(applicant) ==
    IF applicant.employment = None THEN {} ELSE EmploymentErrors(applicant.employment)

\* mutant: what is wrong with an employment is not collected
ApplicantErrors_NoEmployment(applicant) ==
    Where(ValidName(applicant.first), "first_name")
        \cup Where(ValidName(applicant.last), "last_name")
        \cup Where(ValidLast4(applicant.last4), "ssn_last4")
        \cup Where(ValidSsn(applicant.ssn), "ssn_no")
        \cup Where(DatedInPast(applicant.dob), "dob")
        \cup PlaceErrors(applicant)

(* validate_applicant_blocking: a minor and a bad e-mail address are       *)
(* recorded later and block nothing.  (docs/error-semantics.md has all     *)
(* these findings recorded and none of them block.)                        *)
ApplicantErrors(applicant) ==
    Where(ValidName(applicant.first), "first_name")
        \cup Where(ValidName(applicant.last), "last_name")
        \cup Where(ValidLast4(applicant.last4), "ssn_last4")
        \cup Where(ValidSsn(applicant.ssn), "ssn_no")
        \cup Where(DatedInPast(applicant.dob), "dob")
        \cup PlaceErrors(applicant) \cup JobErrors(applicant)

(* validate_all_applicants_blocking; the amount is positive already.       *)
BlockingErrors(request) ==
    Where(ValidTerm(request.term), "requested_term_months")
        \cup UNION {ApplicantErrors(request.applicants[i]) : i \in DOMAIN request.applicants}

-----------------------------------------------------------------------------
(* RequestNormalizer *)

(* _clean_str, after the blocking validation has counted the blanks.  (The *)
(* last digits of the number and the state are stripped as well, but with  *)
(* blanks they have been blocked.)                                         *)
CleanStr(value) == IF value = None THEN None ELSE [value EXCEPT !.pad = FALSE]
(* _clean_zip keeps the digits only.                                       *)
CleanZip(zip) == [zip EXCEPT !.dash = FALSE]
CleanAddress(address) ==
    [address EXCEPT !.line = CleanStr(@), !.city = CleanStr(@), !.zip = CleanZip(@)]
CleanEmployment(job) ==
    IF job = None THEN None
    ELSE [job EXCEPT !.employer = CleanStr(@), !.title = CleanStr(@)]
CleanApplicant(applicant) ==
    [applicant EXCEPT !.first = CleanStr(@), !.middle = CleanStr(@), !.last = CleanStr(@),
                      !.addresses = [i \in DOMAIN @ |-> CleanAddress(@[i])],
                      !.employment = CleanEmployment(@)]
Normalized(request) ==
    [request EXCEPT !.applicants = [i \in DOMAIN @ |-> CleanApplicant(@[i])]]

(* An employment without its optional employer_phone: formatting the       *)
(* missing number raises a TypeError.                                      *)
NormalizeRaises(request) ==
    \E i \in DOMAIN request.applicants :
        LET job == request.applicants[i].employment IN job # None /\ job.phone = None

-----------------------------------------------------------------------------
(* The validations that do not block *)

(* validate_applicant: a second, stricter pattern for e-mail addresses.    *)
SoftErrors(applicant) ==
    Where(applicant.email = None \/ applicant.email.form = "plain", "email")
        \cup Where(applicant.last4 # "bad", "ssn_last4")
        \cup Where(applicant.dob # None /\ applicant.dob <= Today /\ OfAge(applicant.dob), "dob")

TypedErrors(applicant) ==
    Where(ValidName(applicant.first), "first_name")
        \cup Where(ValidName(applicant.last), "last_name")
        \cup Where(ValidLast4(applicant.last4), "ssn_last4")
        \cup Where(DatedInPast(applicant.dob) /\ OfAge(applicant.dob), "dob")
        \cup Where(ValidEmail(applicant.email), "email")

(* The validation_issues of an application, of its normalised form.        *)
IssuesOf(request) ==
    UNION {LET applicant == request.applicants[i]
           IN  SoftErrors(applicant) \cup TypedErrors(applicant)
                   \cup PlaceErrors(applicant) \cup JobErrors(applicant) :
               i \in DOMAIN request.applicants}
=============================================================================
