----------------------------- MODULE MCLoanIntake -----------------------------
(* Small instance of LoanIntake: one application, forms on both sides of   *)
(* every rule, and documents of every way a reading or a comparison ends.  *)
EXTENDS LoanIntake, TLC

MCToday == 2026
Name(text) == [text |-> text, marks |-> "none", pad |-> FALSE]
Padded(text) == [Name(text) EXCEPT !.pad = TRUE]
Home == [line |-> Name("L1"), city |-> Name("C1"), state |-> "CA",
         zip |-> [base |-> "z", plus4 |-> FALSE, dash |-> FALSE]]
LongZip == [Home EXCEPT !.zip = [base |-> "z", plus4 |-> TRUE, dash |-> TRUE]]
Job == [type |-> "salaried", employer |-> Name("E"), title |-> Name("T"), phone |-> "P", income |-> 1]
Ann == [first |-> Name("ANN"), middle |-> None, last |-> Name("LEE"), ssn |-> "good",
        last4 |-> "1111", dob |-> 1990, gender |-> "FEMALE",
        email |-> [form |-> "plain", who |-> "ann"],
        addresses |-> <<Home>>, employment |-> None]
Bob == [Ann EXCEPT !.first = Name("BOB"), !.last = Name("RAY"), !.last4 = "2222", !.dob = 2009,
        !.gender = "MALE", !.email = [form |-> "odd", who |-> "bob"],
        !.addresses = <<LongZip>>, !.employment = Job]
(* They pass the blocking validation, and lose their blanks after it.      *)
Nameless == [Ann EXCEPT !.last = Padded(""), !.addresses[1].line = Padded("short")]
PaddedBob == [Bob EXCEPT !.first = Padded("BOB"), !.employment.title = Padded("")]
Form(applicants) == [amount |-> 1, day |-> 1, term |-> 12, applicants |-> applicants]
MCRequests ==
    {Form(<<Ann, Bob>>), Form(<<Nameless, PaddedBob>>), Form(<<>>),
     Form(<<[Ann EXCEPT !.last = Name("")]>>),                   \* blocked
     Form(<<[Ann EXCEPT !.last.marks = "allowed"]>>),            \* matches no document
     Form(<<Ann, [Bob EXCEPT !.email = Ann.email]>>),            \* the address is used twice
     Form(<<[Bob EXCEPT !.employment.phone = None]>>),           \* the normalisation raises
     Form(<<[Bob EXCEPT !.employment.type = "other"]>>),         \* blocked
     [Form(<<Ann>>) EXCEPT !.term = 1],                          \* blocked
     [Form(<<Ann>>) EXCEPT !.day = 31]}                          \* not well formed

Picture(type, content) ==
    [type |-> type, mime |-> "image/jpeg", mb |-> 1, pixels |-> 1000, ext |-> "jpg",
     picture |-> "good", content |-> content]
Mrz(surname, given, birth, sex) ==
    [dated |-> TRUE, surname |-> Name(surname), given |-> {Name(given)}, birth |-> birth, sex |-> sex]
AnnsMrz == Mrz("LEE", "ANN", 1990, "F")
Passport(text, zone, mrz) ==
    Picture("passport", [text |-> text, zone |-> zone, mrz |-> mrz])
Licence == [barcode |-> "PDF417", missing |-> {}, dates |-> "MMDDYYYY", expired |-> TRUE,
            first |-> Name("ANN"), middle |-> None, last |-> Name("LEE"), birth |-> 1990,
            line |-> Name("L1"), city |-> Name("C1"), state |-> "CA", zip |-> Home.zip]
Card(last4) == Picture("ssn_card", [lines |-> TRUE, last4 |-> last4, worded |-> TRUE])
Pdf(type, phrases) == [Picture(type, phrases) EXCEPT !.mime = "application/pdf"]
PayStub == {"HOURS AND EARNINGS", "NET PAY", "GROSS PAY"}
W2 == {"W-2", "MEDICARE WAGES"}

MCFiles ==
    {Passport({"USA"}, <<44, 45>>, AnnsMrz),
     Passport({"PASSPORT"}, <<9, 44, 44>>, Mrz("ZED", "ANN", 1990, "F")),
     Passport({"MEMBER CARD"}, <<>>, None),
     Passport({"USA"}, <<44, 43>>, None),                        \* a line too short
     Passport({"USA"}, <<44, 44>>, [AnnsMrz EXCEPT !.dated = FALSE]),
     Picture("drivers_license", Licence),
     Picture("drivers_license", [Licence EXCEPT !.state = "NY", !.missing = {"expiry_date"}]),
     Picture("drivers_license", [Licence EXCEPT !.barcode = "none"]),
     Card("1111"), [Card("2222") EXCEPT !.picture = "odd"],
     Pdf("pay_stub", PayStub), Pdf("pay_stub", PayStub \cup {"W-2"}),
     Pdf("w2", W2), [Picture("photo", {}) EXCEPT !.mb = 3], Picture("photo", {})}

AllOutcomes == {"done", "refused", "unacknowledged"}
BothOutcomes == {"done", "refused"}
CallOutcomes == {"done", "refused", "raised"}
Symmetry == Permutations(Workers)
=============================================================================
