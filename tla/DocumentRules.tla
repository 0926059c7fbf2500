----------------------------- MODULE DocumentRules ----------------------------
(***************************************************************************)
(* What the intake agent reads from an uploaded document and how it is     *)
(* compared with an applicant.  A file is [type, mime, mb, pixels, ext,    *)
(* picture, content]: picture says who can decode it ("good", "odd": not   *)
(* OpenCV, "corrupt": nobody), and content is what Textract or the barcode *)
(* reader finds in it, see the rules of each type.                         *)
(***************************************************************************)
EXTENDS ApplicationRules

Images == {"image/jpeg", "image/png", "image/jpg"}
Rule(mimes, mb, pixels) == [mimes |-> mimes, mb |-> mb, pixels |-> pixels]
AnySize == 100000
Rules ==
    [passport |-> Rule(Images, 5, 5000), drivers_license |-> Rule(Images, 3, 4000),
     state_id |-> Rule(Images, 3, 4000), ssn_card |-> Rule(Images, 2, 3000),
     bank_statement |-> Rule({"application/pdf"}, 10, AnySize),
     pay_stub |-> Rule({"application/pdf", "application/octet-stream"}, 5, AnySize),
     photo |-> Rule(Images, 2, 3000),
     w2 |-> Rule(Images \cup {"application/pdf", "application/octet-stream"}, 5, 4000),
     itr |-> Rule(Images \cup {"application/pdf"}, 5, 4000)]
(* The types that can be uploaded: the endpoints of the two others are     *)
(* commented out.                                                          *)
UploadedTypes == {"ssn_card", "passport", "drivers_license", "w2", "pay_stub", "itr", "photo"}
IsImage(file) == file.mime \in Images

(* The four checks before anything is written.                             *)
FitsItsType(file) ==
    /\ file.type \in DOMAIN Rules
    /\ file.mime \in Rules[file.type].mimes
    /\ file.mb <= Rules[file.type].mb
    /\ IsImage(file) /\ Rules[file.type].pixels # AnySize =>
           file.picture # "corrupt" /\ file.pixels <= Rules[file.type].pixels

(* preprocess: deskewed, denoised and of better contrast, unless OpenCV    *)
(* cannot decode it.                                                       *)
PreprocessRaises(file) == IsImage(file) /\ file.picture # "good"

(* normalize_image, of both Textract readers                               *)
ImageIsReadable(file) == file.ext = "jpg" /\ file.picture # "corrupt"

(* normalize_name drops the punctuation a stored name keeps.               *)
NormalizeName(name) ==
    IF Given(name) THEN [name EXCEPT !.marks = "none", !.pad = FALSE] ELSE None

-----------------------------------------------------------------------------
(* Passports: content is [text, zone, mrz].  text is the set of phrases    *)
(* Textract finds, zone the lengths of its lines of capitals, digits and   *)
(* "<", and mrz what the last two of these say: [dated, surname, given,    *)
(* birth, sex], given being the set of names it contains.                  *)

(* is_passport_document: any of three phrases will do.                     *)
IsPassport(text) == text \cap {"PASSPORT", "UNITED STATES OF AMERICA", "USA"} # {}

(* Lines of 44 characters, or up to two more, which are dropped.           *)
MrzLines(zone) == {i \in DOMAIN zone : zone[i] \in 44..46}
(* parse_mrz; the check digits are not checked.                            *)
ParseMrz(content) == IF Cardinality(MrzLines(content.zone)) < 2 THEN None ELSE content.mrz

(* parse_mrz_date, of a year of which only two digits are printed          *)
MrzYear(year) == LET yy == year % 100 IN IF yy > 30 THEN 1900 + yy ELSE 2000 + yy

NormalizeSex(letter) ==
    CASE letter \in {"1", "M", "MALE"}   -> "MALE"
      [] letter \in {"2", "F", "FEMALE"} -> "FEMALE"
      [] letter = "<"                    -> "UNSPECIFIED"
      [] OTHER                           -> letter

(* How process_file ends once the picture is in the bucket.  extract_text  *)
(* takes a call of Textract that is refused, with a ClientError, for a     *)
(* picture without text; any other error of the call escapes.              *)
PassportReading(content, call) ==
    IF call = "raised" THEN "raises"
    ELSE IF call = "refused" \/ content.text = {} THEN "ocr_failed"
    ELSE IF ~IsPassport(content.text) THEN "not_passport"
    ELSE IF ParseMrz(content) = None THEN "invalid_mrz"
    ELSE IF ParseMrz(content).dated THEN "success" ELSE "raises"

\* mutant: the surname is not compared
PassportMatches_NoSurname(applicant, mrz) ==
    /\ applicant.first.text # "" =>
           applicant.first \in {NormalizeName(name) : name \in mrz.given}
    /\ applicant.dob = MrzYear(mrz.birth)
    /\ applicant.gender = NormalizeSex(mrz.sex)

(* validate_passport; a name is compared unless the applicant's is empty,  *)
(* and raises if the passport has none.  A nationality or a passport       *)
(* number is never compared, for applicants have none.                     *)
PassportMatches(applicant, mrz) ==
    /\ applicant.last.text # "" => applicant.last = NormalizeName(mrz.surname)
    /\ applicant.first.text # "" =>
           applicant.first \in {NormalizeName(name) : name \in mrz.given}
    /\ applicant.dob = MrzYear(mrz.birth)
    /\ applicant.gender = NormalizeSex(mrz.sex)

-----------------------------------------------------------------------------
(* Driving licences: content is [barcode, missing, dates, expired, first,  *)
(* middle, last, birth, line, city, state, zip].                           *)

RequiredFields ==
    {"license_number", "first_name", "last_name", "date_of_birth", "expiry_date", "state"}

(* validate_dl: at least 80 % of the required fields, that is 5 of 6.  The *)
(* date is parsed as an ISO date, which the MMDDYYYY of the United States  *)
(* never is, and what cannot be parsed has not expired.                    *)
LicenceIsValid(content) ==
    /\ Cardinality(RequiredFields \ content.missing) >= 5
    /\ ~(content.expired /\ content.dates = "YYYYMMDD" /\ "expiry_date" \notin content.missing)

Printed(content, field, value) == IF field \in content.missing THEN None ELSE value
(* A ZIP of nine digits is printed with a dash.                            *)
NormalizeZip(zip) == IF zip = None THEN None ELSE [zip EXCEPT !.dash = zip.plus4]

CanonicalAddress(content) ==
    [line |-> IF Given(content.line) THEN CleanStr(content.line) ELSE None,
     city |-> NormalizeName(content.city),
     state |-> Printed(content, "state", content.state), zip |-> NormalizeZip(content.zip)]

\* mutant: only the names are compared
LicenceMatches_NamesOnly(applicant, content) ==
    /\ applicant.first = NormalizeName(Printed(content, "first_name", content.first))
    /\ applicant.middle = NormalizeName(content.middle)
    /\ applicant.last = NormalizeName(Printed(content, "last_name", content.last))

(* DriversLicenseNormalizer and validate_drivers_license                   *)
LicenceMatches(applicant, content) ==
    /\ applicant.first = NormalizeName(Printed(content, "first_name", content.first))
    /\ applicant.middle = NormalizeName(content.middle)
    /\ applicant.last = NormalizeName(Printed(content, "last_name", content.last))
    /\ applicant.dob = Printed(content, "date_of_birth", content.birth)
    /\ applicant.addresses # <<>> =>
           \E i \in DOMAIN applicant.addresses : applicant.addresses[i] = CanonicalAddress(content)

-----------------------------------------------------------------------------
(* Social security cards: content is [lines, last4, worded].               *)

CardIsValid(content) == content.lines /\ content.last4 # None /\ content.worded
CardMatches(applicant, content) == applicant.last4 = content.last4

-----------------------------------------------------------------------------
(* Files whose content has the parts that are read of their type.          *)
IsReading(file) ==
    CASE file.type = "passport" ->
             /\ file.content.zone \in Seq(Nat)
             /\ file.content.mrz # None => /\ IsText(file.content.mrz.surname)
                                           /\ \A name \in file.content.mrz.given : IsText(name)
                                           /\ file.content.mrz.birth \in Nat
      [] file.type = "drivers_license" -> IsText(file.content.last)
      [] OTHER -> TRUE

-----------------------------------------------------------------------------
(* Income documents: content is the set of phrases printed on it.          *)

PayStubKeywords ==
    {"PAY BEGIN DATE", "PAY END DATE", "HOURS AND EARNINGS", "NET PAY", "GROSS PAY",
     "BEFORE-TAX DEDUCTIONS", "AFTER-TAX DEDUCTIONS", "YTD", "EARNINGS", "DEDUCTIONS"}
W2Mandatory == {"W-2", "WAGE AND TAX STATEMENT"}
W2Strong == {"EMPLOYER IDENTIFICATION NUMBER", "FEDERAL INCOME TAX WITHHELD",
             "SOCIAL SECURITY WAGES", "MEDICARE WAGES"}
W2Negative == {"PAY PERIOD", "NET PAY", "ACCOUNT BALANCE"}
Form1040Keywords ==
    {"FORM 1040", "U.S. INDIVIDUAL INCOME TAX RETURN", "INTERNAL REVENUE SERVICE",
     "FILING STATUS", "DEPENDENTS", "TAXABLE INCOME", "TOTAL INCOME",
     "ADJUSTED GROSS INCOME", "FEDERAL INCOME TAX WITHHELD", "REFUND", "AMOUNT YOU OWE",
     "STANDARD DEDUCTION", "SIGN HERE"}

(* A phrase within another one is found, too.                              *)
TextOf(phrases) ==
    phrases \cup (IF "HOURS AND EARNINGS" \in phrases THEN {"EARNINGS"} ELSE {})
            \cup (IF phrases \cap {"BEFORE-TAX DEDUCTIONS", "AFTER-TAX DEDUCTIONS"} # {}
                  THEN {"DEDUCTIONS"} ELSE {})
Hits(text, keywords) == Cardinality(text \cap keywords)

(* Confidences, in percent *)
PayStubMatch(text) ==
    LET hits == Hits(text, PayStubKeywords)
    IN  CASE hits >= 4 -> 90 [] hits = 3 -> 80 [] hits = 2 -> 65 [] OTHER -> 0
W2Match(text) ==
    LET named == Hits(text, W2Mandatory)
        strong == Hits(text, W2Strong)
    IN  IF text \cap W2Negative # {} \/ named = 0 \/ strong = 0 THEN 0
        ELSE IF named = 2 /\ strong >= 3 THEN 97
        ELSE IF strong >= 2 THEN 90 ELSE 85
Form1040Match(text) ==
    LET hits == Hits(text, Form1040Keywords)
    IN  CASE hits >= 5 -> 92 [] hits = 4 -> 85 [] hits = 3 -> 72 [] hits = 2 -> 60 [] OTHER -> 0

Forbidden(type) ==
    CASE type = "w2"       -> {"PAY PERIOD", "NET PAY"}
      [] type = "pay_stub" -> W2Mandatory
      [] OTHER             -> {}

\* mutant: a phrase of another document does not count against it
KeywordsMatch_AllowForbidden(type, phrases) ==
    LET text == TextOf(phrases)
    IN  CASE type = "pay_stub" -> PayStubMatch(text) >= 85
          [] type = "w2"       -> W2Match(text) >= 85
          [] type = "itr"      -> Form1040Match(text) >= 85
          [] OTHER             -> FALSE

(* KeywordDocumentValidator.validate; there is no rule for a photo, so     *)
(* that none is ever accepted.                                             *)
KeywordsMatch(type, phrases) ==
    LET text == TextOf(phrases)
    IN  /\ text \cap Forbidden(type) = {}
        /\ CASE type = "pay_stub" -> PayStubMatch(text) >= 85
             [] type = "w2"       -> W2Match(text) >= 85
             [] type = "itr"      -> Form1040Match(text) >= 85
             [] OTHER             -> FALSE
=============================================================================
