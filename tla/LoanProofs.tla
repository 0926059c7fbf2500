------------------------------ MODULE LoanProofs ------------------------------
(***************************************************************************)
(* Proofs about LoanIntake, for any number of workers, applications, forms *)
(* and files, and any failures of commits, of the bucket and of Textract,  *)
(* and crashes.                                                            *)
(***************************************************************************)
EXTENDS LoanIntake, FiniteSetTheorems, SequenceTheorems, TLAPS

-----------------------------------------------------------------------------
(* What the blocking validation makes sure of. *)

LEMMA NothingWhere ==
    ASSUME NEW holds, NEW field, Where(holds, field) = {}
    PROVE  holds
  BY DEF Where

(* Nothing is wrong with an applicant of an accepted form.                 *)
LEMMA NoErrors ==
    ASSUME NEW r, Accepted(r), NEW i \in DOMAIN r.applicants
    PROVE  ApplicantErrors(r.applicants[i]) = {}
  BY DEF Accepted, BlockingErrors

LEMMA ValidApplicant ==
    ASSUME NEW x, ApplicantErrors(x) = {}
    PROVE  /\ ValidName(x.first) /\ ValidName(x.last) /\ ValidLast4(x.last4)
           /\ DatedInPast(x.dob)
           /\ PlaceErrors(x) = {} /\ JobErrors(x) = {}
  <1>1. /\ Where(ValidName(x.first), "first_name") = {}
        /\ Where(ValidName(x.last), "last_name") = {}
        /\ Where(ValidLast4(x.last4), "ssn_last4") = {}
        /\ Where(DatedInPast(x.dob), "dob") = {}
        /\ PlaceErrors(x) = {} /\ JobErrors(x) = {}
    BY DEF ApplicantErrors
  <1>2. QED
    BY <1>1, NothingWhere

(* Normalising leaves a text its letters and takes the blanks around it.   *)
LEMMA CleanText ==
    ASSUME NEW value, IsText(value), value # None
    PROVE  LET clean == CleanStr(value)
           IN  clean # None /\ clean.text = value.text /\ clean.marks = value.marks /\ ~clean.pad
  BY NoneAssumption DEF CleanStr, IsText, Texts

LEMMA CleanKeeps ==
    ASSUME NEW x, IsApplicant(x)
    PROVE  LET y == CleanApplicant(x)
           IN  /\ y.first = CleanStr(x.first) /\ y.last = CleanStr(x.last)
               /\ y.last4 = x.last4 /\ y.dob = x.dob /\ y.email = x.email
               /\ y.employment = CleanEmployment(x.employment)
               /\ DOMAIN y.addresses = DOMAIN x.addresses
               /\ \A j \in DOMAIN x.addresses : y.addresses[j] = CleanAddress(x.addresses[j])
  BY DEF CleanApplicant, IsApplicant

(* What is wrong with a text of a stored form is that it is empty now, or  *)
(* too short.                                                              *)
LEMMA SoftName ==
    ASSUME NEW name, IsText(name), ValidName(name), NEW field
    PROVE  /\ CleanStr(name) # None
           /\ Where(ValidName(CleanStr(name)), field) \subseteq Where(CleanStr(name).text # "", field)
  <1> DEFINE clean == CleanStr(name)
  <1>1. name # None /\ name.marks # "digits"
    BY DEF ValidName, Given
  <1>2. clean # None /\ clean.marks # "digits"
    BY <1>1, CleanText
  <1>3. clean.text # "" => ValidName(clean)
    BY <1>2 DEF ValidName, Given
  <1>4. QED
    BY <1>2, <1>3 DEF Where

LEMMA SoftText ==
    ASSUME NEW text, IsText(text), LongEnough(text), NEW field
    PROVE  Where(LongEnough(CleanStr(text)), field)
               \subseteq Where(CleanStr(text).text \notin {"", "short"}, field)
  <1> DEFINE clean == CleanStr(text)
  <1>1. text # None /\ clean # None
    BY CleanText DEF LongEnough
  <1>2. clean.text \notin {"", "short"} => LongEnough(clean)
    BY <1>1 DEF LongEnough
  <1>3. QED
    BY <1>2 DEF Where

LEMMA NormalizedApplicants ==
    ASSUME NEW r \in Requests
    PROVE  /\ DOMAIN Normalized(r).applicants = DOMAIN r.applicants
           /\ \A i \in DOMAIN r.applicants :
                 /\ IsApplicant(r.applicants[i])
                 /\ Normalized(r).applicants[i] = CleanApplicant(r.applicants[i])
  <1>1. IsForm(r)
    BY InputsAssumption
  <1>2. Normalized(r).applicants = [i \in DOMAIN r.applicants |-> CleanApplicant(r.applicants[i])]
    BY <1>1 DEF Normalized, IsForm
  <1>3. QED
    BY <1>1, <1>2 DEF IsForm

LEMMA SoftPlaces ==
    ASSUME NEW x, IsApplicant(x), PlaceErrors(x) = {}
    PROVE  PlaceErrors(CleanApplicant(x)) \subseteq Softened(CleanApplicant(x))
  <1> DEFINE y == CleanApplicant(x)
             Softer(address) ==
                 Where(address.line.text \notin {"", "short"}, "line1")
                     \cup Where(address.city.text \notin {"", "short"}, "city")
                     \cup Where(~address.zip.plus4, "zip")
  <1>0. UNION {Softer(y.addresses[j]) : j \in DOMAIN y.addresses} \subseteq Softened(y)
    BY DEF Softened
  <1>1. SUFFICES ASSUME NEW j \in DOMAIN y.addresses
                 PROVE  AddressErrors(y.addresses[j]) \subseteq Softer(y.addresses[j])
    <2> HIDE DEF Softer
    <2>1. PlaceErrors(y) = UNION {AddressErrors(y.addresses[j]) : j \in DOMAIN y.addresses}
      BY DEF PlaceErrors
    <2>2. QED
      BY <1>0, <2>1
  <1> DEFINE z == x.addresses[j]  clean == CleanAddress(z)
  <1>2. j \in DOMAIN x.addresses /\ y.addresses[j] = clean
    BY CleanKeeps
  <1>3. AddressErrors(z) = {}
    BY <1>2 DEF PlaceErrors
  <1>4. LongEnough(z.line) /\ LongEnough(z.city) /\ ValidState(z.state)
    <2>1. /\ Where(LongEnough(z.line), "line1") = {} /\ Where(LongEnough(z.city), "city") = {}
          /\ Where(ValidState(z.state), "state") = {}
      BY <1>3 DEF AddressErrors, ValidAddressLine, ValidCity
    <2>2. QED
      BY <2>1, NothingWhere
  <1>5. IsAddress(z)
    BY <1>2 DEF IsApplicant
  <1>6. /\ clean.line = CleanStr(z.line) /\ clean.city = CleanStr(z.city)
        /\ clean.state = z.state /\ clean.zip = CleanZip(z.zip)
    BY <1>5 DEF CleanAddress, IsAddress
  <1>7. clean.zip.plus4 \in BOOLEAN /\ clean.zip.dash = FALSE
    BY <1>5, <1>6 DEF IsAddress, CleanZip
  <1> HIDE DEF y, z, clean
  <1>8. /\ Where(LongEnough(clean.line), "line1")
               \subseteq Where(clean.line.text \notin {"", "short"}, "line1")
        /\ Where(LongEnough(clean.city), "city")
               \subseteq Where(clean.city.text \notin {"", "short"}, "city")
    BY <1>4, <1>5, <1>6, SoftText DEF IsAddress
  <1>9. Where(ValidState(clean.state), "state") = {}
    BY <1>4, <1>6 DEF Where
  <1>10. Where(ValidZip(clean.zip), "zip") \subseteq Where(~clean.zip.plus4, "zip")
    BY <1>7 DEF Where, ValidZip
  <1>11. QED
    BY <1>2, <1>8, <1>9, <1>10 DEF AddressErrors, ValidAddressLine, ValidCity

LEMMA SoftJob ==
    ASSUME NEW x, IsApplicant(x), JobErrors(x) = {}
    PROVE  JobErrors(CleanApplicant(x)) \subseteq Softened(CleanApplicant(x))
  <1> DEFINE job == x.employment  clean == CleanApplicant(x).employment
  <1>1. clean = CleanEmployment(job) /\ IsEmployment(job)
    BY CleanKeeps DEF IsApplicant
  <1>2. CASE clean = None
    BY <1>2 DEF JobErrors
  <1>3. CASE clean # None
    <2>1. job # None
      BY <1>1, <1>3 DEF CleanEmployment
    <2>2. EmploymentErrors(job) = {}
      BY <2>1 DEF JobErrors
    <2>3. /\ job.type \in EmploymentTypes /\ LongEnough(job.employer)
          /\ LongEnough(job.title) /\ ValidIncome(job.income)
      <3>1. /\ Where(job.type \in EmploymentTypes, "type") = {}
            /\ Where(LongEnough(job.employer), "employer_name") = {}
            /\ Where(LongEnough(job.title), "job_title") = {}
            /\ Where(ValidIncome(job.income), "monthly_income") = {}
        BY <2>2 DEF EmploymentErrors, ValidEmployer
      <3> HIDE DEF job, clean
      <3>2. job.type \in EmploymentTypes
        BY <3>1 DEF Where
      <3>3. LongEnough(job.employer) /\ LongEnough(job.title) /\ ValidIncome(job.income)
        BY <3>1, NothingWhere
      <3>4. QED
        BY <3>2, <3>3
    <2>4. /\ clean.type = job.type /\ clean.income = job.income
          /\ clean.employer = CleanStr(job.employer) /\ clean.title = CleanStr(job.title)
      BY <1>1, <2>1 DEF CleanEmployment, IsEmployment
    <2>5. JobErrors(CleanApplicant(x)) = EmploymentErrors(clean)
      BY <1>3 DEF JobErrors
    <2>6. /\ Where(clean.employer.text \notin {"", "short"}, "employer_name")
                 \subseteq Softened(CleanApplicant(x))
          /\ Where(clean.title.text \notin {"", "short"}, "job_title")
                 \subseteq Softened(CleanApplicant(x))
      BY <1>3 DEF Softened
    <2> HIDE DEF job, clean
    <2>7. /\ Where(LongEnough(clean.employer), "employer_name")
                 \subseteq Where(clean.employer.text \notin {"", "short"}, "employer_name")
          /\ Where(LongEnough(clean.title), "job_title")
                 \subseteq Where(clean.title.text \notin {"", "short"}, "job_title")
      BY <1>1, <2>1, <2>3, <2>4, SoftText DEF IsEmployment
    <2>8. /\ Where(clean.type \in EmploymentTypes, "type") = {}
          /\ Where(ValidIncome(clean.income), "monthly_income") = {}
      BY <2>3, <2>4 DEF Where
    <2>9. QED
      BY <2>5, <2>6, <2>7, <2>8 DEF EmploymentErrors, ValidEmployer
  <1>4. QED
    BY <1>2, <1>3

(* What an accepted form leaves to complain about.                         *)
LEMMA SoftIssues ==
    ASSUME NEW r \in Requests, Accepted(r)
    PROVE  IssuesOf(Normalized(r)) \subseteq
               UNION {Softened(Normalized(r).applicants[i]) : i \in DOMAIN Normalized(r).applicants}
  <1> DEFINE Found(y) == SoftErrors(y) \cup TypedErrors(y) \cup PlaceErrors(y) \cup JobErrors(y)
  <1>1. SUFFICES ASSUME NEW i \in DOMAIN Normalized(r).applicants
                 PROVE  Found(Normalized(r).applicants[i]) \subseteq Softened(Normalized(r).applicants[i])
    BY DEF IssuesOf
  <1> DEFINE x == r.applicants[i]  y == Normalized(r).applicants[i]
  <1>2. IsApplicant(x) /\ y = CleanApplicant(x) /\ ApplicantErrors(x) = {}
    BY NormalizedApplicants, NoErrors
  <1> HIDE DEF x, y
  <1>3. /\ ValidName(x.first) /\ ValidName(x.last) /\ ValidLast4(x.last4)
        /\ PlaceErrors(x) = {} /\ JobErrors(x) = {}
    BY <1>2, ValidApplicant
  <1>4. /\ y.first = CleanStr(x.first) /\ y.last = CleanStr(x.last) /\ y.last4 = x.last4
    BY <1>2, CleanKeeps
  <1>5. /\ Where(ValidName(y.first), "first_name") \subseteq Where(y.first.text # "", "first_name")
        /\ Where(ValidName(y.last), "last_name") \subseteq Where(y.last.text # "", "last_name")
    BY <1>2, <1>3, <1>4, SoftName DEF IsApplicant
  <1>6. /\ {"dob", "email"} \subseteq Softened(y)
        /\ Where(y.first.text # "", "first_name") \subseteq Softened(y)
        /\ Where(y.last.text # "", "last_name") \subseteq Softened(y)
    BY DEF Softened
  <1>7. SoftErrors(y) \subseteq {"dob", "email"}
    BY <1>3, <1>4 DEF SoftErrors, Where, ValidLast4
  <1>8. TypedErrors(y) \subseteq Softened(y)
    <2>1. Where(ValidLast4(y.last4), "ssn_last4") = {}
      BY <1>3, <1>4 DEF Where
    <2>2. Where(ValidEmail(y.email), "email") \subseteq {"email"}
      BY DEF Where
    <2>3. Where(DatedInPast(y.dob) /\ OfAge(y.dob), "dob") \subseteq {"dob"}
      BY DEF Where
    <2>4. QED
      BY <1>5, <1>6, <2>1, <2>2, <2>3 DEF TypedErrors
  <1>9. PlaceErrors(y) \subseteq Softened(y) /\ JobErrors(y) \subseteq Softened(y)
    BY <1>2, <1>3, SoftPlaces, SoftJob
  <1>10. QED
    BY <1>6, <1>7, <1>8, <1>9 DEF y

-----------------------------------------------------------------------------
(* What the comparison makes sure of. *)

LEMMA YearsAgree ==
    ASSUME NEW year \in Nat
    PROVE  year \in 1931..2030 => MrzYear(year) = year
  <1>1. CASE year \in 1931..1999
    BY <1>1 DEF MrzYear
  <1>2. CASE year \in 2000..2030
    BY <1>2 DEF MrzYear
  <1>3. QED
    BY <1>1, <1>2

(* A name that equals a printed one has its text.                          *)
LEMMA NamesAgree ==
    ASSUME NEW name, NEW printed, IsText(printed), name # None, name = NormalizeName(printed)
    PROVE  printed.text = name.text
  <1>1. printed # None /\ name = [printed EXCEPT !.marks = "none", !.pad = FALSE]
    BY DEF NormalizeName, Given
  <1>2. QED
    BY <1>1 DEF IsText, Texts

LEMMA MatchBearsOut ==
    ASSUME NEW r \in Requests, Accepted(r), NEW i \in DOMAIN Normalized(r).applicants,
           NEW file \in Files, HasBeenRead(file), Matches(Normalized(r).applicants[i], file)
    PROVE  BearsOut(Normalized(r).applicants[i], file)
  <1> DEFINE x == r.applicants[i]  y == Normalized(r).applicants[i]
  <1>1. /\ IsApplicant(x) /\ y = CleanApplicant(x) /\ ApplicantErrors(x) = {}
    BY NormalizedApplicants, NoErrors
  <1>2. y.last # None /\ y.first # None /\ y.dob # None
    <2>1. /\ ValidName(x.first) /\ ValidName(x.last) /\ DatedInPast(x.dob)
          /\ IsText(x.first) /\ IsText(x.last)
      BY <1>1, ValidApplicant DEF IsApplicant
    <2>2. x.first # None /\ x.last # None /\ x.dob # None
      BY <2>1 DEF ValidName, Given, DatedInPast
    <2>3. y.first = CleanStr(x.first) /\ y.last = CleanStr(x.last) /\ y.dob = x.dob
      BY <1>1, CleanKeeps
    <2>4. QED
      BY <2>1, <2>2, <2>3, CleanText
  <1>3. IsReading(file) /\ file.type \in {"passport", "drivers_license", "ssn_card"}
    BY InputsAssumption DEF HasBeenRead, IdentityTypes
  <1> HIDE DEF x, y
  <1>4. CASE file.type = "passport"
    <2> DEFINE mrz == file.content.mrz
    <2>1. /\ IsText(mrz.surname) /\ mrz.birth \in Nat
          /\ \A name \in mrz.given : IsText(name)
      BY <1>3, <1>4 DEF IsReading, HasBeenRead
    <2>2. PassportMatches(y, mrz)
      BY <1>4 DEF Matches, y
    <2>3. /\ y.last.text # "" => y.last = NormalizeName(mrz.surname)
          /\ y.first.text # "" => y.first \in {NormalizeName(name) : name \in mrz.given}
          /\ y.dob = MrzYear(mrz.birth)
      BY <2>2 DEF PassportMatches
    <2>4. y.last.text # "" => mrz.surname.text = y.last.text
      BY <1>2, <2>1, <2>3, NamesAgree
    <2>5. y.first.text # "" => \E name \in mrz.given : name.text = y.first.text
      BY <1>2, <2>1, <2>3, NamesAgree
    <2>6. mrz.birth \in 1931..2030 => mrz.birth = y.dob
      <3>1. mrz.birth \in Nat /\ y.dob = MrzYear(mrz.birth)
        BY <2>1, <2>3
      <3> HIDE DEF mrz
      <3>2. QED
        BY ONLY <3>1, YearsAgree
    <2>7. QED
      BY <1>4, <2>4, <2>5, <2>6 DEF BearsOut, y
  <1>5. CASE file.type = "drivers_license"
    <2> DEFINE c == file.content
    <2>1. IsText(c.last)
      BY <1>3, <1>5 DEF IsReading
    <2>2. LicenceMatches(y, c)
      BY <1>5 DEF Matches, y
    <2>3. /\ y.last = NormalizeName(Printed(c, "last_name", c.last))
          /\ y.dob = Printed(c, "date_of_birth", c.birth)
          /\ y.addresses # <<>> =>
                 \E j \in DOMAIN y.addresses : y.addresses[j] = CanonicalAddress(c)
      BY <2>2 DEF LicenceMatches
    <2>4. c.birth = y.dob
      BY <1>2, <2>3 DEF Printed
    <2>5. Printed(c, "last_name", c.last) = c.last
      BY <1>2, <2>3 DEF Printed, NormalizeName, Given
    <2>6. c.last.text = y.last.text
      BY <1>2, <2>1, <2>3, <2>5, NamesAgree
    <2>7. "state" \notin c.missing => CanonicalAddress(c).state = c.state
      BY DEF CanonicalAddress, Printed
    <2>8. QED
      BY <1>5, <2>3, <2>4, <2>6, <2>7 DEF BearsOut, y
  <1>6. CASE file.type = "ssn_card"
    BY <1>6 DEF Matches, BearsOut, CardMatches, y
  <1>7. QED
    BY <1>3, <1>4, <1>5, <1>6

(* An income document that is accepted has no phrase that it must not.     *)
LEMMA NoForbiddenPhrase ==
    ASSUME NEW type, NEW phrases, KeywordsMatch(type, phrases)
    PROVE  /\ type = "pay_stub" => "W-2" \notin phrases
           /\ type = "w2" => phrases \cap {"NET PAY", "PAY PERIOD"} = {}
  <1>1. TextOf(phrases) \cap Forbidden(type) = {}
    BY DEF KeywordsMatch
  <1>2. phrases \subseteq TextOf(phrases)
    BY DEF TextOf
  <1>3. QED
    BY <1>1, <1>2 DEF Forbidden, W2Mandatory

(* What PassportOCR leaves in the bucket shows a passport.                 *)
LEMMA WhatStaysIsAPassport ==
    ASSUME NEW c, NEW call, c.zone \in Seq(Nat), call # "raised",
           ~RemovedFromBucket(PassportReading(c, call))
    PROVE  IsPassport(c.text) /\ Cardinality(MrzLines(c.zone)) > 1
  <1>1. IsPassport(c.text) /\ ParseMrz(c) # None
    BY DEF RemovedFromBucket, PassportReading
  <1>2. ~(Cardinality(MrzLines(c.zone)) < 2)
    BY <1>1 DEF ParseMrz
  <1>3. Cardinality(MrzLines(c.zone)) \in Nat
    <2>1. MrzLines(c.zone) \subseteq 1..Len(c.zone) /\ Len(c.zone) \in Nat
      BY LenProperties DEF MrzLines
    <2>2. IsFiniteSet(1..Len(c.zone))
      BY <2>1, FS_Interval
    <2>3. QED
      BY <2>1, <2>2, FS_Subset, FS_CardinalityType
  <1>4. QED
    BY <1>1, <1>2, <1>3

-----------------------------------------------------------------------------
(* What the steps of an upload have in common. *)

Ended(w) ==
    /\ handler' \in [Workers -> Handler]
    /\ handler'[w] = Idle
    /\ \A v \in Workers \ {w} : handler'[v] = handler[v]
Advanced(w, pc) ==
    /\ handler' \in [Workers -> Handler]
    /\ handler'[w].pc = pc /\ handler'[w].app = AppOf(w) /\ handler'[w].file = FileOf(w)
    /\ \A v \in Workers \ {w} : handler'[v] = handler[v]

(* A worker whose request ends, or a file that gets a step further: the    *)
(* database does not change.                                               *)
UploadStep(w) ==
    /\ UNCHANGED <<dbVars, begun, overlapped>>
    /\ \/ Ended(w)
       \/ At(w, "check") /\ Advanced(w, "read")
       \/ At(w, "read") /\ HasBeenRead(FileOf(w)) /\ Advanced(w, "match")
       \/ /\ At(w, "read") \/ At(w, "match")
          /\ Passed(AppOf(w), FileOf(w)) /\ Advanced(w, "store")

LEMMA IdleType == Idle \in Handler
  BY DEF Idle, Handler, Handlers

LEMMA NoTemp == {} \in SUBSET {"upload"}
  OBVIOUS

LEMMA Ending ==
    ASSUME TypeOK, NEW w \in Workers, handler' = [handler EXCEPT ![w] = Idle]
    PROVE  Ended(w)
  BY IdleType DEF TypeOK, Ended

LEMMA Advancing ==
    ASSUME TypeOK, NEW w \in Workers, NEW pc \in Handlers, NEW temp \in SUBSET {"upload"},
           handler' = [handler EXCEPT ![w] = [handler[w] EXCEPT !.pc = pc, !.temp = temp]]
    PROVE  Advanced(w, pc)
  <1>1. handler[w] \in Handler
    BY DEF TypeOK
  <1> DEFINE h == [handler[w] EXCEPT !.pc = pc, !.temp = temp]
  <1>2. h \in Handler /\ h.pc = pc /\ h.app = handler[w].app /\ h.file = handler[w].file
    BY <1>1 DEF Handler
  <1> HIDE DEF h
  <1>3. handler' = [handler EXCEPT ![w] = h]
    BY DEF h
  <1>4. QED
    BY <1>2, <1>3 DEF TypeOK, Advanced, AppOf, FileOf

LEMMA CheckFileStep ==
    ASSUME TypeOK, NEW w \in Workers, CheckFile(w)
    PROVE  UploadStep(w)
  <1>1. CASE FitsItsType(FileOf(w))
    <2>1. handler' = [handler EXCEPT ![w] = [handler[w] EXCEPT !.pc = "read", !.temp = {"upload"}]]
      BY <1>1 DEF CheckFile, TypeOK, Handler
    <2>2. Advanced(w, "read")
      BY <2>1, Advancing DEF Handlers
    <2>3. QED
      BY <2>2 DEF CheckFile, UploadStep
  <1>2. CASE ~FitsItsType(FileOf(w))
    BY <1>2, Ending DEF CheckFile, Finish, UploadStep
  <1>3. QED
    BY <1>1, <1>2

LEMMA ReadLicenceStep ==
    ASSUME TypeOK, NEW w \in Workers, ReadLicence(w)
    PROVE  UploadStep(w)
  <1>1. CASE handler' = [handler EXCEPT ![w].pc = "match"]
    <2>1. handler[w] \in Handler
      BY DEF TypeOK
    <2>2. handler' = [handler EXCEPT ![w] =
                         [handler[w] EXCEPT !.pc = "match", !.temp = handler[w].temp]]
      BY <1>1, <2>1 DEF TypeOK, Handler
    <2>3. Advanced(w, "match")
      BY <2>1, <2>2, Advancing DEF Handlers, Handler
    <2>4. HasBeenRead(FileOf(w))
      BY DEF ReadLicence, HasBeenRead, IdentityTypes
    <2>5. QED
      BY <2>3, <2>4 DEF ReadLicence, UploadStep
  <1>2. CASE Finish(w)
    BY <1>2, Ending DEF ReadLicence, Finish, UploadStep
  <1>3. QED
    BY <1>1, <1>2 DEF ReadLicence

LEMMA ReadPassportStep ==
    ASSUME TypeOK, NEW w \in Workers, ReadPassport(w)
    PROVE  UploadStep(w)
  <1>1. PICK put \in BucketOutcomes, call \in ReaderOutcomes :
          LET uploaded == ImageIsReadable(FileOf(w)) /\ put = "done"
              reading == IF uploaded THEN PassportReading(FileOf(w).content, call) ELSE "not_uploaded"
          IN  handler' = [handler EXCEPT ![w] =
                             IF reading = "success" THEN [@ EXCEPT !.pc = "match", !.temp = {}]
                             ELSE Idle]
    BY DEF ReadPassport
  <1> DEFINE uploaded == ImageIsReadable(FileOf(w)) /\ put = "done"
             reading == IF uploaded THEN PassportReading(FileOf(w).content, call) ELSE "not_uploaded"
  <1>2. At(w, "read") /\ FileOf(w).type = "passport" /\ UNCHANGED <<dbVars, begun, overlapped>>
    BY DEF ReadPassport
  <1>3. CASE reading = "success"
    <2>1. handler' = [handler EXCEPT ![w] = [handler[w] EXCEPT !.pc = "match", !.temp = {}]]
      BY <1>1, <1>3 DEF TypeOK
    <2>2. Advanced(w, "match")
      BY <2>1, Advancing, NoTemp DEF Handlers
    <2>3. PassportReading(FileOf(w).content, call) = "success"
      BY <1>3
    <2>4. FileOf(w).content.mrz # None
      BY <2>3 DEF PassportReading, ParseMrz
    <2>5. QED
      BY <1>2, <2>2, <2>4 DEF UploadStep, HasBeenRead, IdentityTypes
  <1>4. CASE reading # "success"
    BY <1>1, <1>2, <1>4, Ending DEF UploadStep
  <1>5. QED
    BY <1>3, <1>4

LEMMA ReadCardStep ==
    ASSUME TypeOK, NEW w \in Workers, ReadCard(w)
    PROVE  UploadStep(w)
  <1>1. /\ At(w, "read") /\ FileOf(w).type = "ssn_card"
        /\ UNCHANGED <<dbVars, begun, overlapped>>
    BY DEF ReadCard
  <1>2. \/ handler' = [handler EXCEPT ![w] = Idle]
        \/ handler' = [handler EXCEPT ![w] = [@ EXCEPT !.pc = "match", !.temp = {}]]
    BY DEF ReadCard, Finish
  <1>3. CASE handler' = [handler EXCEPT ![w] = [@ EXCEPT !.pc = "match", !.temp = {}]]
    <2>1. handler' = [handler EXCEPT ![w] = [handler[w] EXCEPT !.pc = "match", !.temp = {}]]
      BY <1>3 DEF TypeOK
    <2>2. Advanced(w, "match")
      BY <2>1, Advancing, NoTemp DEF Handlers
    <2>3. QED
      BY <1>1, <2>2 DEF UploadStep, HasBeenRead, IdentityTypes
  <1>4. CASE handler' = [handler EXCEPT ![w] = Idle]
    BY <1>1, <1>4, Ending DEF UploadStep
  <1>5. QED
    BY <1>2, <1>3, <1>4

LEMMA ReadIncomeDocumentStep ==
    ASSUME TypeOK, NEW w \in Workers, ReadIncomeDocument(w)
    PROVE  UploadStep(w)
  <1>1. CASE /\ KeywordsMatch(FileOf(w).type, FileOf(w).content)
             /\ handler' = [handler EXCEPT ![w].pc = "store", ![w].temp = {}]
    <2>1. handler' = [handler EXCEPT ![w] = [handler[w] EXCEPT !.pc = "store", !.temp = {}]]
      BY <1>1 DEF TypeOK, Handler
    <2>2. Advanced(w, "store")
      BY <2>1, Advancing, NoTemp DEF Handlers
    <2>3. Passed(AppOf(w), FileOf(w))
      BY <1>1 DEF ReadIncomeDocument, Passed
    <2>4. QED
      BY <2>2, <2>3 DEF ReadIncomeDocument, UploadStep
  <1>2. CASE Finish(w)
    BY <1>2, Ending DEF ReadIncomeDocument, Finish, UploadStep
  <1>3. QED
    BY <1>1, <1>2 DEF ReadIncomeDocument

LEMMA MatchApplicantStep ==
    ASSUME TypeOK, FilesPassed, NEW w \in Workers, MatchApplicant(w)
    PROVE  UploadStep(w)
  <1>1. At(w, "match") /\ UNCHANGED <<dbVars, begun, overlapped>>
    BY DEF MatchApplicant
  <1>2. ASSUME NEW i \in DOMAIN application[AppOf(w)].applicants,
               Matches(application[AppOf(w)].applicants[i], FileOf(w)),
               handler' = [handler EXCEPT ![w].pc = "store", ![w].temp = {}]
        PROVE  UploadStep(w)
    <2>1. handler' = [handler EXCEPT ![w] = [handler[w] EXCEPT !.pc = "store", !.temp = {}]]
      BY <1>2 DEF TypeOK, Handler
    <2>2. Advanced(w, "store")
      BY <2>1, Advancing, NoTemp DEF Handlers
    <2>3. HasBeenRead(FileOf(w))
      BY <1>1 DEF FilesPassed
    <2>4. Passed(AppOf(w), FileOf(w))
      BY <1>2, <2>3 DEF Passed, HasBeenRead
    <2>5. QED
      BY <1>1, <2>2, <2>4 DEF UploadStep
  <1>3. CASE Finish(w)
    BY <1>1, <1>3, Ending DEF Finish, UploadStep
  <1>4. QED
    BY <1>2, <1>3 DEF MatchApplicant

LEMMA CrashStep ==
    ASSUME TypeOK, NEW w \in Workers, Crash(w)
    PROVE  UploadStep(w)
  BY Ending DEF Crash, UploadStep

-----------------------------------------------------------------------------
(* How each kind of step leaves the applications and the handlers. *)

LEMMA StepKinds ==
    ASSUME TypeOK, FilesPassed, Next
    PROVE  \/ \E a \in Applications, request \in Requests : SubmitApplication(a, request)
           \/ \E w \in Workers : UploadStep(w)
           \/ \E w \in Workers, a \in Applications, file \in Files : ReceiveFile(w, a, file)
           \/ \E w \in Workers : StoreDocument(w)
           \/ \E w \in Workers, a \in Applications, d \in Decisions : BeginReview(w, a, d)
           \/ \E w \in Workers : StoreReview(w)
  BY CheckFileStep, ReadLicenceStep, ReadPassportStep, ReadCardStep, ReadIncomeDocumentStep,
     MatchApplicantStep, CrashStep DEF Next

LEMMA ExistingRow ==
    ASSUME TypeOK, NEW a \in Applications, Exists(a)
    PROVE  \E s \in Statuses, r \in Requests : Accepted(r) /\ application[a] = ApplicationRow(s, r)
  <1>1. application[a] \in Rows
    BY DEF TypeOK
  <1>2. application[a] # NoApplication
    BY DEF Exists, NoApplication
  <1>3. QED
    BY <1>1, <1>2 DEF Rows

(* A submitted application is a new one.                                   *)
LEMMA Submitted ==
    ASSUME TypeOK, NEW a \in Applications, NEW r \in Requests, SubmitApplication(a, r)
    PROVE  /\ application' \in [Applications -> Rows]
           /\ application'[a] = ApplicationRow("SUBMITTED", r) /\ application'[a].status = "SUBMITTED"
           /\ \A b \in Applications \ {a} : application'[b] = application[b]
  <1>1. ApplicationRow("SUBMITTED", r) \in Rows
    BY DEF SubmitApplication, Statuses, Rows
  <1>2. ApplicationRow("SUBMITTED", r).status = "SUBMITTED"
    BY DEF ApplicationRow
  <1>3. QED
    BY <1>1, <1>2 DEF SubmitApplication, TypeOK

(* A review changes the status and nothing else.                           *)
LEMMA StatusIsSet ==
    ASSUME TypeOK, NEW a \in Applications, Exists(a), NEW status \in Statuses,
           application' = [application EXCEPT ![a].status = status]
    PROVE  /\ application' \in [Applications -> Rows]
           /\ application'[a].status = status
           /\ application'[a].applicants = application[a].applicants
           /\ application'[a].issues = application[a].issues
           /\ \A b \in Applications \ {a} : application'[b] = application[b]
  <1>1. PICK s \in Statuses, r \in Requests : Accepted(r) /\ application[a] = ApplicationRow(s, r)
    BY ExistingRow
  <1>2. [application[a] EXCEPT !.status = status] = ApplicationRow(status, r)
    BY <1>1 DEF ApplicationRow
  <1>3. application' = [application EXCEPT ![a] = ApplicationRow(status, r)]
    BY <1>2 DEF TypeOK
  <1>4. ApplicationRow(status, r) \in Rows
    BY <1>1 DEF Rows
  <1>5. /\ ApplicationRow(status, r).status = status
        /\ ApplicationRow(status, r).applicants = application[a].applicants
        /\ ApplicationRow(status, r).issues = application[a].issues
    BY <1>1 DEF ApplicationRow
  <1>6. QED
    BY <1>3, <1>4, <1>5 DEF TypeOK

LEMMA StatusType ==
    ASSUME NEW d
    PROVE  StatusOf(d) \in {"APPROVED", "REVISION_REQUIRED"}
  BY DEF StatusOf

(* A review that is committed ends, and is appended with its status, or    *)
(* leaves everything as it was.                                            *)
LEMMA ReviewStored ==
    ASSUME TypeOK, HandlersBusy, NEW w \in Workers, StoreReview(w)
    PROVE  /\ Ended(w) /\ AppOf(w) \in Applications /\ Exists(AppOf(w)) /\ At(w, "review")
           /\ application' \in [Applications -> Rows]
           /\ \A b \in Applications : /\ application'[b].applicants = application[b].applicants
                                      /\ application'[b].issues = application[b].issues
                                      /\ Exists(b)' <=> Exists(b)
           /\ \/ UNCHANGED <<reviews, application>>
              \/ /\ reviews' = [reviews EXCEPT ![AppOf(w)] = Append(@, ReviewOf(w))]
                 /\ application'[AppOf(w)].status = StatusOf(handler[w].decision)
                 /\ \A b \in Applications \ {AppOf(w)} : application'[b] = application[b]
  <1>1. Ended(w) /\ AppOf(w) \in Applications /\ Exists(AppOf(w)) /\ At(w, "review")
    BY Ending DEF StoreReview, Finish, HandlersBusy, At
  <1>2. CASE UNCHANGED <<reviews, application>>
    BY <1>1, <1>2 DEF TypeOK, Exists
  <1>3. CASE /\ reviews' = [reviews EXCEPT ![AppOf(w)] = Append(@, ReviewOf(w))]
             /\ application' = [application EXCEPT ![AppOf(w)].status = StatusOf(handler[w].decision)]
    <2>1. StatusOf(handler[w].decision) \in Statuses /\ StatusOf(handler[w].decision) # "NONE"
      BY StatusType DEF Statuses
    <2>2. /\ application' \in [Applications -> Rows]
          /\ application'[AppOf(w)].status = StatusOf(handler[w].decision)
          /\ application'[AppOf(w)].applicants = application[AppOf(w)].applicants
          /\ application'[AppOf(w)].issues = application[AppOf(w)].issues
          /\ \A b \in Applications \ {AppOf(w)} : application'[b] = application[b]
      <3> DEFINE a == AppOf(w)
                 status == StatusOf(handler[w].decision)
      <3>1. /\ a \in Applications /\ Exists(a) /\ status \in Statuses
            /\ application' = [application EXCEPT ![a].status = status]
        BY <1>1, <1>3, <2>1
      <3> HIDE DEF a, status
      <3>2. /\ application' \in [Applications -> Rows]
            /\ application'[a].status = status
            /\ application'[a].applicants = application[a].applicants
            /\ application'[a].issues = application[a].issues
            /\ \A b \in Applications \ {a} : application'[b] = application[b]
        BY <3>1, StatusIsSet
      <3>3. QED
        BY <3>2 DEF a, status
    <2>3. QED
      BY <1>1, <1>3, <2>1, <2>2 DEF Exists
  <1>4. QED
    BY <1>2, <1>3 DEF StoreReview

LEMMA FileReceived ==
    ASSUME TypeOK, NEW w \in Workers, NEW a \in Applications, NEW file \in Files,
           ReceiveFile(w, a, file)
    PROVE  /\ handler' \in [Workers -> Handler]
           /\ handler'[w].pc = "check" /\ handler'[w].app = a /\ handler'[w].file = file
           /\ \A v \in Workers \ {w} : handler'[v] = handler[v]
           /\ begun' \in [Applications -> 0..MaxBegun]
           /\ begun' = [begun EXCEPT ![a] = begun[a] + 1]
  <1> DEFINE h == [Idle EXCEPT !.pc = "check", !.app = a, !.file = file]
  <1>1. h \in Handler /\ h.pc = "check" /\ h.app = a /\ h.file = file
    BY IdleType DEF Handler, Handlers
  <1> HIDE DEF h
  <1>2. handler' = [handler EXCEPT ![w] = h]
    BY DEF ReceiveFile, h
  <1>3. begun' \in [Applications -> 0..MaxBegun] /\ begun' = [begun EXCEPT ![a] = begun[a] + 1]
    BY LoanIntakeAssumption DEF ReceiveFile, TypeOK
  <1>4. QED
    BY <1>1, <1>2, <1>3 DEF TypeOK

LEMMA ReviewBegun ==
    ASSUME TypeOK, NEW w \in Workers, NEW a \in Applications, NEW d \in Decisions,
           BeginReview(w, a, d)
    PROVE  /\ handler' \in [Workers -> Handler]
           /\ handler'[w].pc = "review" /\ handler'[w].app = a
           /\ handler'[w].created = begun[a] + 1 /\ handler'[w].decision = d
           /\ \A v \in Workers \ {w} : handler'[v] = handler[v]
           /\ begun' \in [Applications -> 0..MaxBegun]
           /\ begun' = [begun EXCEPT ![a] = begun[a] + 1]
  <1> DEFINE h == [Idle EXCEPT !.pc = "review", !.app = a, !.created = begun[a] + 1, !.decision = d]
  <1>0. begun[a] + 1 \in Nat
    BY DEF TypeOK
  <1>1. /\ h \in Handler /\ h.pc = "review" /\ h.app = a
        /\ h.created = begun[a] + 1 /\ h.decision = d
    BY <1>0, IdleType DEF Handler, Handlers
  <1> HIDE DEF h
  <1>2. handler' = [handler EXCEPT ![w] = h]
    BY DEF BeginReview, h
  <1>3. begun' \in [Applications -> 0..MaxBegun] /\ begun' = [begun EXCEPT ![a] = begun[a] + 1]
    BY LoanIntakeAssumption DEF BeginReview, TypeOK
  <1>4. QED
    BY <1>1, <1>2, <1>3 DEF TypeOK

LEMMA DocumentStored ==
    ASSUME TypeOK, HandlersBusy, NEW w \in Workers, StoreDocument(w)
    PROVE  /\ Ended(w) /\ At(w, "store") /\ AppOf(w) \in Applications /\ Exists(AppOf(w))
           /\ FileOf(w) \in Files
           /\ documents' \in [Applications -> SUBSET Files]
           /\ \/ UNCHANGED <<documents, audit>>
              \/ /\ documents' = [documents EXCEPT ![AppOf(w)] = @ \cup {FileOf(w)}]
                 /\ audit' = audit \cup {Created(AppOf(w), "pgsqldocument", FileOf(w))}
  <1>1. /\ Ended(w) /\ At(w, "store") /\ AppOf(w) \in Applications /\ Exists(AppOf(w))
        /\ FileOf(w) \in Files
    BY Ending DEF StoreDocument, Finish, HandlersBusy, At
  <1>2. \/ UNCHANGED <<documents, audit>>
        \/ /\ documents' = [documents EXCEPT ![AppOf(w)] = @ \cup {FileOf(w)}]
           /\ audit' = audit \cup {Created(AppOf(w), "pgsqldocument", FileOf(w))}
    BY DEF StoreDocument
  <1>3. documents' \in [Applications -> SUBSET Files]
    <2>1. documents \in [Applications -> SUBSET Files]
      BY DEF TypeOK
    <2>2. CASE documents' = documents
      BY <2>1, <2>2
    <2>3. CASE documents' = [documents EXCEPT ![AppOf(w)] = @ \cup {FileOf(w)}]
      <3>1. documents[AppOf(w)] \cup {FileOf(w)} \in SUBSET Files
        BY <1>1, <2>1
      <3>2. QED
        BY <1>1, <2>1, <2>3, <3>1
    <2>4. QED
      BY <1>2, <2>2, <2>3
  <1>4. QED
    BY <1>1, <1>2, <1>3

-----------------------------------------------------------------------------
(* The bucket and the disk: only the readers of licences, passports and    *)
(* cards touch the bucket, and nobody but ReadPassport the passports.      *)

Passports(a) == bucket[<<a, "passport">>]

LEMMA SetInBucket ==
    ASSUME TypeOK, NEW a \in Applications, NEW type \in IdentityTypes,
           NEW file \in Files \cup {None}, bucket' = [bucket EXCEPT ![<<a, type>>] = file]
    PROVE  /\ bucket' \in [Applications \X IdentityTypes -> Files \cup {None}]
           /\ bucket'[<<a, type>>] = file
           /\ type # "passport" => \A b \in Applications : Passports(b)' = Passports(b)
           /\ \A b \in Applications \ {a} : Passports(b)' = Passports(b)
  BY DEF TypeOK, Passports, IdentityTypes

BucketAsBefore ==
    /\ bucket' \in [Applications \X IdentityTypes -> Files \cup {None}]
    /\ faulted' \in BOOLEAN /\ (faulted => faulted')
    /\ \A a \in Applications : Passports(a)' = Passports(a)
    /\ litter' \subseteq litter \cup {"image"} \/ faulted'
    /\ unread' = unread

LEMMA UnchangedBucket ==
    ASSUME TypeOK, UNCHANGED <<bucket, unread, faulted>>, litter' = litter
    PROVE  BucketAsBefore
  BY DEF TypeOK, BucketAsBefore, Passports

LEMMA LicenceBucket ==
    ASSUME TypeOK, HandlersBusy, NEW w \in Workers, ReadLicence(w)
    PROVE  BucketAsBefore
  <1>1. /\ AppOf(w) \in Applications /\ FileOf(w) \in Files /\ FileOf(w).type = "drivers_license"
        /\ UNCHANGED <<litter, unread, faulted>>
    BY DEF ReadLicence, HandlersBusy, At, Finish
  <1>2. CASE bucket' = bucket
    BY <1>1, <1>2, UnchangedBucket
  <1>3. CASE bucket' = [bucket EXCEPT ![KeyOf(w)] = FileOf(w)]
    <2> DEFINE a == AppOf(w)  file == FileOf(w)
    <2>1. /\ a \in Applications /\ "drivers_license" \in IdentityTypes
          /\ file \in Files \cup {None}
          /\ bucket' = [bucket EXCEPT ![<<a, "drivers_license">>] = file]
      BY <1>1, <1>3 DEF KeyOf, IdentityTypes
    <2> HIDE DEF a, file
    <2>2. /\ bucket' \in [Applications \X IdentityTypes -> Files \cup {None}]
          /\ \A b \in Applications : Passports(b)' = Passports(b)
      BY <2>1, SetInBucket
    <2>3. QED
      BY <1>1, <2>2 DEF BucketAsBefore, TypeOK
  <1>4. QED
    BY <1>2, <1>3 DEF ReadLicence, Put

LEMMA CardBucket ==
    ASSUME TypeOK, HandlersBusy, NEW w \in Workers, ReadCard(w)
    PROVE  BucketAsBefore
  <1>1. /\ AppOf(w) \in Applications /\ FileOf(w) \in Files /\ FileOf(w).type = "ssn_card"
        /\ litter' \subseteq litter \cup {"image"} /\ unread' = unread
    BY DEF ReadCard, HandlersBusy, At, Finish
  <1>2. CASE bucket' = bucket /\ faulted' = faulted
    BY <1>1, <1>2 DEF BucketAsBefore, TypeOK, Passports
  <1>3. CASE \E file \in {FileOf(w), None}, fault \in BOOLEAN :
               /\ bucket' = [bucket EXCEPT ![KeyOf(w)] = file]
               /\ faulted' = (faulted \/ fault)
    <2> PICK file \in {FileOf(w), None}, fault \in BOOLEAN :
               /\ bucket' = [bucket EXCEPT ![KeyOf(w)] = file]
               /\ faulted' = (faulted \/ fault)
      BY <1>3
    <2> DEFINE a == AppOf(w)
    <2>1. /\ a \in Applications /\ "ssn_card" \in IdentityTypes
          /\ file \in Files \cup {None}
          /\ bucket' = [bucket EXCEPT ![<<a, "ssn_card">>] = file]
      BY <1>1 DEF KeyOf, IdentityTypes
    <2> HIDE DEF a
    <2>2. /\ bucket' \in [Applications \X IdentityTypes -> Files \cup {None}]
          /\ \A b \in Applications : Passports(b)' = Passports(b)
      BY <2>1, SetInBucket
    <2>3. QED
      BY <1>1, <2>2 DEF BucketAsBefore, TypeOK
  <1>4. CASE ~PreprocessRaises(FileOf(w))
    <2> PICK put \in BucketOutcomes, delete \in BucketOutcomes, call \in ReaderOutcomes :
               LET card == FileOf(w).content
                   uploaded == ImageIsReadable(FileOf(w)) /\ put = "done"
                   removes == /\ uploaded
                              /\ call = "refused" \/ (call = "done" /\ ~card.lines)
               IN  /\ bucket' = IF ~uploaded THEN bucket
                                ELSE [bucket EXCEPT ![KeyOf(w)] =
                                        IF removes /\ delete = "done" THEN None ELSE FileOf(w)]
                   /\ faulted' = (faulted \/ (removes /\ delete = "refused"))
      BY <1>4 DEF ReadCard
    <2> DEFINE uploaded == ImageIsReadable(FileOf(w)) /\ put = "done"
    <2>1. CASE ~uploaded
      BY <1>2, <2>1 DEF TypeOK
    <2>2. CASE uploaded
      BY <1>3, <2>2
    <2>3. QED
      BY <2>1, <2>2
  <1>5. CASE PreprocessRaises(FileOf(w))
    BY <1>2, <1>5 DEF ReadCard
  <1>6. QED
    BY <1>4, <1>5

(* What becomes of the picture of a passport: it is none, the one it was,  *)
(* one that Textract raised on, or one that was read.                      *)
PassportAfter(a) ==
    \/ Passports(a)' = None
    \/ Passports(a)' = Passports(a) /\ (a \in unread => a \in unread')
    \/ a \in unread'
    \/ /\ Passports(a)' \in Files /\ Passports(a)'.type = "passport"
       /\ \/ faulted'
          \/ \E call \in ReaderOutcomes \ {"raised"} :
                ~RemovedFromBucket(PassportReading(Passports(a)'.content, call))

LEMMA PassportBucket ==
    ASSUME TypeOK, HandlersBusy, NEW w \in Workers, ReadPassport(w)
    PROVE  /\ bucket' \in [Applications \X IdentityTypes -> Files \cup {None}]
           /\ faulted' \in BOOLEAN /\ (faulted => faulted')
           /\ litter' \subseteq litter \cup {"image"} /\ unread' \subseteq Applications
           /\ \A a \in Applications : PassportAfter(a)
  <1>1. /\ AppOf(w) \in Applications /\ FileOf(w) \in Files /\ FileOf(w).type = "passport"
    BY DEF ReadPassport, HandlersBusy, At
  <1> PICK put \in BucketOutcomes, delete \in BucketOutcomes, call \in ReaderOutcomes :
         LET uploaded == ImageIsReadable(FileOf(w)) /\ put = "done"
             reading == IF uploaded THEN PassportReading(FileOf(w).content, call) ELSE "not_uploaded"
             removes == RemovedFromBucket(reading)
         IN  /\ IF uploaded
                THEN /\ bucket' = [bucket EXCEPT ![KeyOf(w)] =
                                     IF removes /\ delete = "done" THEN None ELSE FileOf(w)]
                     /\ unread' = IF call = "raised" THEN unread \cup {AppOf(w)}
                                  ELSE unread \ {AppOf(w)}
                ELSE UNCHANGED <<bucket, unread>>
             /\ faulted' = (faulted \/ (removes /\ delete = "refused"))
             /\ litter' = litter \cup (IF LeftOnDisk(reading) THEN {"image"} ELSE {})
    BY DEF ReadPassport
  <1> DEFINE uploaded == ImageIsReadable(FileOf(w)) /\ put = "done"
             reading == IF uploaded THEN PassportReading(FileOf(w).content, call) ELSE "not_uploaded"
             removes == RemovedFromBucket(reading)
             a == AppOf(w)  file == FileOf(w)
  <1>2. /\ faulted' = (faulted \/ (removes /\ delete = "refused"))
        /\ litter' \subseteq litter \cup {"image"}
        /\ ~uploaded => bucket' = bucket /\ unread' = unread
        /\ uploaded => unread' = IF call = "raised" THEN unread \cup {a} ELSE unread \ {a}
        /\ uploaded => bucket' = [bucket EXCEPT ![KeyOf(w)] =
                                     IF removes /\ delete = "done" THEN None ELSE file]
    OBVIOUS
  <1>3. /\ faulted' \in BOOLEAN /\ (faulted => faulted')
        /\ unread' \subseteq Applications
        /\ \A b \in Applications \ {a} : b \in unread => b \in unread'
    BY <1>1, <1>2 DEF TypeOK
  <1>4. CASE ~uploaded
    <2>1. bucket' = bucket /\ unread' = unread
      BY <1>2, <1>4
    <2>2. QED
      BY <1>2, <1>3, <2>1 DEF TypeOK, Passports, PassportAfter
  <1>5. CASE uploaded /\ removes /\ delete = "done"
    <2>1. /\ a \in Applications /\ "passport" \in IdentityTypes /\ None \in Files \cup {None}
          /\ bucket' = [bucket EXCEPT ![<<a, "passport">>] = None]
      BY <1>1, <1>2, <1>5 DEF KeyOf, IdentityTypes
    <2> HIDE DEF a
    <2>2. /\ bucket' \in [Applications \X IdentityTypes -> Files \cup {None}]
          /\ bucket'[<<a, "passport">>] = None
          /\ \A b \in Applications \ {a} : Passports(b)' = Passports(b)
      BY <2>1, SetInBucket
    <2>3. QED
      BY <1>2, <1>3, <2>2 DEF Passports, PassportAfter
  <1>6. CASE uploaded /\ ~(removes /\ delete = "done")
    <2>1. /\ a \in Applications /\ "passport" \in IdentityTypes /\ file \in Files \cup {None}
          /\ bucket' = [bucket EXCEPT ![<<a, "passport">>] = file]
          /\ file \in Files /\ file.type = "passport"
      BY <1>1, <1>2, <1>6 DEF KeyOf, IdentityTypes
    <2>2. a \in unread' \/ faulted' \/ (call # "raised" /\ ~RemovedFromBucket(PassportReading(file.content, call)))
      <3>1. reading = PassportReading(file.content, call)
        BY <1>6
      <3>2. delete \in {"done", "refused"}
        BY LoanIntakeAssumption
      <3>3. call = "raised" => a \in unread'
        BY <1>2, <1>6
      <3>4. QED
        BY <1>2, <1>6, <3>1, <3>2, <3>3
    <2> HIDE DEF a, file
    <2>3. /\ bucket' \in [Applications \X IdentityTypes -> Files \cup {None}]
          /\ bucket'[<<a, "passport">>] = file
          /\ \A b \in Applications \ {a} : Passports(b)' = Passports(b)
      BY <2>1, SetInBucket
    <2>4. ASSUME NEW b \in Applications, b = a
          PROVE  PassportAfter(b)
      <3>1. Passports(b)' = file
        BY <2>3, <2>4 DEF Passports
      <3>2. QED
        BY <2>1, <2>2, <2>4, <3>1 DEF PassportAfter
    <2>5. \A b \in Applications \ {a} : PassportAfter(b)
      BY <1>3, <2>3 DEF PassportAfter
    <2>6. QED
      BY <1>2, <1>3, <2>1, <2>3, <2>4, <2>5
  <1>7. QED
    BY <1>4, <1>5, <1>6

LEMMA BucketStep ==
    ASSUME TypeOK, HandlersBusy, RefusedIsRemoved, [Next]_vars
    PROVE  /\ bucket' \in [Applications \X IdentityTypes -> Files \cup {None}]
           /\ faulted' \in BOOLEAN /\ unread' \subseteq Applications
           /\ RefusedIsRemoved'
  <1>1. CASE BucketAsBefore
    BY <1>1 DEF BucketAsBefore, RefusedIsRemoved, Passports, TypeOK
  <1>2. CASE \E w \in Workers : ReadPassport(w)
    <2>1. PICK w \in Workers : ReadPassport(w)
      BY <1>2
    <2>2. /\ bucket' \in [Applications \X IdentityTypes -> Files \cup {None}]
          /\ faulted' \in BOOLEAN /\ (faulted => faulted')
          /\ litter' \subseteq litter \cup {"image"} /\ unread' \subseteq Applications
          /\ \A a \in Applications : PassportAfter(a)
      BY <2>1, PassportBucket
    <2>3. ASSUME ~faulted', NEW a \in Applications, a \notin unread', Passports(a)' # None
          PROVE  /\ IsPassport(Passports(a)'.content.text)
                 /\ Cardinality(MrzLines(Passports(a)'.content.zone)) > 1
      <3>1. CASE Passports(a)' = Passports(a) /\ a \notin unread
        BY <2>2, <2>3, <3>1 DEF RefusedIsRemoved, Passports
      <3>2. CASE /\ Passports(a)' \in Files /\ Passports(a)'.type = "passport"
                 /\ \E call \in ReaderOutcomes \ {"raised"} :
                       ~RemovedFromBucket(PassportReading(Passports(a)'.content, call))
        <4>1. Passports(a)'.content.zone \in Seq(Nat)
          BY <3>2, InputsAssumption DEF IsReading
        <4>2. QED
          BY <3>2, <4>1, WhatStaysIsAPassport
      <3>3. QED
        BY <2>2, <2>3, <3>1, <3>2 DEF PassportAfter
    <2>4. QED
      BY <2>2, <2>3 DEF RefusedIsRemoved, Passports
  <1>3. CASE \E w \in Workers : Crash(w)
    BY <1>1, <1>3 DEF Crash, BucketAsBefore, TypeOK, Passports
  <1>4. CASE \E w \in Workers : ReadLicence(w) \/ ReadCard(w)
    BY <1>1, <1>4, LicenceBucket, CardBucket
  <1>5. CASE UNCHANGED <<bucket, litter, unread, faulted>>
    BY <1>1, <1>5, UnchangedBucket
  <1>6. QED
    <2>1. CASE UNCHANGED vars
      BY <1>5, <2>1 DEF vars
    <2>2. CASE \E a \in Applications, request \in Requests : SubmitApplication(a, request)
      BY <1>5, <2>2 DEF SubmitApplication
    <2>3. CASE \E w \in Workers : \/ \E a \in Applications, file \in Files : ReceiveFile(w, a, file)
                                  \/ \E a \in Applications, d \in Decisions : BeginReview(w, a, d)
      BY <1>5, <2>3 DEF ReceiveFile, BeginReview
    <2>4. CASE \E w \in Workers : CheckFile(w) \/ ReadIncomeDocument(w) \/ MatchApplicant(w)
      BY <1>5, <2>4 DEF CheckFile, ReadIncomeDocument, MatchApplicant, Finish
    <2>5. CASE \E w \in Workers : StoreDocument(w) \/ StoreReview(w)
      BY <1>5, <2>5 DEF StoreDocument, StoreReview, Finish
    <2>6. QED
      BY <1>2, <1>3, <1>4, <2>1, <2>2, <2>3, <2>4, <2>5 DEF Next

-----------------------------------------------------------------------------
(* Handlers and files. *)

(* What holds of a file goes on holding while no applicant changes.        *)
LEMMA PassedStays ==
    ASSUME NEW a, NEW file, application'[a].applicants = application[a].applicants,
           Passed(a, file)
    PROVE  Passed(a, file)'
  BY DEF Passed

LEMMA TypeStep ==
    ASSUME TypeOK, HandlersBusy, FilesPassed, RefusedIsRemoved, ReviewsFollow, [Next]_vars
    PROVE  TypeOK'
  <1>0. /\ bucket' \in [Applications \X IdentityTypes -> Files \cup {None}]
        /\ faulted' \in BOOLEAN /\ unread' \subseteq Applications
    BY BucketStep
  <1>1. CASE UNCHANGED vars
    BY <1>1 DEF TypeOK, vars, dbVars
  <1>2. CASE \E a \in Applications, r \in Requests : SubmitApplication(a, r)
    <2>1. application' \in [Applications -> Rows]
      BY <1>2, Submitted
    <2>2. UNCHANGED <<documents, reviews, handler, begun>>
      BY <1>2 DEF SubmitApplication
    <2>3. QED
      BY <1>0, <2>1, <2>2 DEF TypeOK
  <1>3. CASE \E w \in Workers : UploadStep(w)
    <2>1. handler' \in [Workers -> Handler]
      BY <1>3 DEF UploadStep, Ended, Advanced
    <2>2. UNCHANGED <<application, documents, reviews, begun>>
      BY <1>3 DEF UploadStep, dbVars
    <2>3. QED
      BY <1>0, <2>1, <2>2 DEF TypeOK
  <1>4. CASE \E w \in Workers, a \in Applications, file \in Files : ReceiveFile(w, a, file)
    <2>1. handler' \in [Workers -> Handler] /\ begun' \in [Applications -> 0..MaxBegun]
      BY <1>4, FileReceived
    <2>2. UNCHANGED <<application, documents, reviews>>
      BY <1>4 DEF ReceiveFile, dbVars
    <2>3. QED
      BY <1>0, <2>1, <2>2 DEF TypeOK
  <1>5. CASE \E w \in Workers : StoreDocument(w)
    <2>1. handler' \in [Workers -> Handler] /\ documents' \in [Applications -> SUBSET Files]
      BY <1>5, DocumentStored DEF Ended
    <2>2. UNCHANGED <<application, reviews, begun>>
      BY <1>5 DEF StoreDocument
    <2>3. QED
      BY <1>0, <2>1, <2>2 DEF TypeOK
  <1>6. CASE \E w \in Workers, a \in Applications, d \in Decisions : BeginReview(w, a, d)
    <2>1. handler' \in [Workers -> Handler] /\ begun' \in [Applications -> 0..MaxBegun]
      BY <1>6, ReviewBegun
    <2>2. UNCHANGED <<application, documents, reviews>>
      BY <1>6 DEF BeginReview, dbVars
    <2>3. QED
      BY <1>0, <2>1, <2>2 DEF TypeOK
  <1>7. CASE \E w \in Workers : StoreReview(w)
    <2>1. PICK w \in Workers : StoreReview(w)
      BY <1>7
    <2>2. /\ handler' \in [Workers -> Handler] /\ application' \in [Applications -> Rows]
          /\ AppOf(w) \in Applications /\ At(w, "review")
          /\ \/ reviews' = reviews
             \/ reviews' = [reviews EXCEPT ![AppOf(w)] = Append(@, ReviewOf(w))]
      BY <2>1, ReviewStored DEF Ended
    <2>3. UNCHANGED <<documents, begun>>
      BY <2>1 DEF StoreReview
    <2>4. reviews' \in [Applications -> Seq([created : Nat, decision : Decisions])]
      <3>1. handler[w] \in Handler /\ handler[w].decision \in Decisions
        BY <2>2 DEF TypeOK, ReviewsFollow
      <3>2. ReviewOf(w) \in [created : Nat, decision : Decisions]
        BY <3>1 DEF Handler, ReviewOf
      <3>3. reviews[AppOf(w)] \in Seq([created : Nat, decision : Decisions])
        BY <2>2 DEF TypeOK
      <3>4. Append(reviews[AppOf(w)], ReviewOf(w)) \in Seq([created : Nat, decision : Decisions])
        BY <3>2, <3>3, AppendProperties
      <3>5. QED
        BY <2>2, <3>4 DEF TypeOK
    <2>5. QED
      BY <1>0, <2>2, <2>3, <2>4 DEF TypeOK
  <1>8. QED
    BY <1>1, <1>2, <1>3, <1>4, <1>5, <1>6, <1>7, StepKinds

LEMMA HandlersStep ==
    ASSUME TypeOK, HandlersBusy, FilesPassed, [Next]_vars
    PROVE  HandlersBusy' /\ FilesPassed'
  <1>1. CASE UNCHANGED vars
    BY <1>1 DEF HandlersBusy, FilesPassed, Passed, At, AppOf, FileOf, Exists, vars, dbVars
  <1>2. CASE \E a \in Applications, r \in Requests : SubmitApplication(a, r)
    <2>1. PICK a \in Applications, r \in Requests : SubmitApplication(a, r)
      BY <1>2
    <2>2. /\ application'[a].status = "SUBMITTED" /\ ~Exists(a)
          /\ \A b \in Applications \ {a} : application'[b] = application[b]
          /\ UNCHANGED <<documents, handler>>
      BY <2>1, Submitted DEF SubmitApplication
    <2>3. \A b \in Applications : Exists(b) => b # a /\ Exists(b)' /\ application'[b] = application[b]
      BY <2>2 DEF Exists
    <2>4. HandlersBusy'
      BY <2>2, <2>3 DEF HandlersBusy, At, AppOf, FileOf
    <2>5. ASSUME NEW w \in Workers, At(w, "store")
          PROVE  Passed(AppOf(w), FileOf(w))'
      <3>1. AppOf(w) \in Applications /\ Exists(AppOf(w)) /\ Passed(AppOf(w), FileOf(w))
        BY <2>5 DEF HandlersBusy, FilesPassed, At
      <3>2. QED
        BY <2>2, <2>3, <3>1 DEF Passed, AppOf, FileOf
    <2>6. ASSUME NEW b \in Applications, documents[b] # {}
          PROVE  Exists(b)' /\ \A file \in documents[b] : Passed(b, file)'
      <3>1. Exists(b) /\ \A file \in documents[b] : Passed(b, file)
        BY <2>6 DEF FilesPassed
      <3>2. QED
        BY <2>3, <3>1, PassedStays
    <2>7. QED
      BY <2>2, <2>4, <2>5, <2>6 DEF FilesPassed, At, FileOf
  <1>3. CASE \E w \in Workers : UploadStep(w)
    <2>1. PICK w \in Workers : UploadStep(w)
      BY <1>3
    <2>2. UNCHANGED <<application, documents>>
      BY <2>1 DEF UploadStep, dbVars
    <2>3. \A v \in Workers \ {w} : handler'[v] = handler[v]
      BY <2>1 DEF UploadStep, Ended, Advanced
    <2>4. /\ ~At(w, "idle")' => ~At(w, "idle") /\ handler'[w].app = AppOf(w)
          /\ handler'[w].pc \in {"check", "read", "match", "store"} =>
                /\ handler[w].pc \in {"check", "read", "match", "store"}
                /\ handler'[w].file = FileOf(w) /\ handler'[w].app = AppOf(w)
          /\ At(w, "match")' => HasBeenRead(FileOf(w))
          /\ At(w, "store")' => Passed(AppOf(w), FileOf(w))
      <3>1. CASE Ended(w)
        BY <3>1 DEF Ended, Idle, At
      <3>2. CASE ~Ended(w)
        BY <2>1, <3>2 DEF UploadStep, Advanced, At
      <3>3. QED
        BY <3>1, <3>2
    <2>5. HandlersBusy'
      BY <2>2, <2>3, <2>4 DEF HandlersBusy, At, AppOf, FileOf, Exists
    <2>6. ASSUME NEW v \in Workers
          PROVE  /\ At(v, "match")' => HasBeenRead(FileOf(v))'
                 /\ At(v, "store")' => Passed(AppOf(v), FileOf(v))'
      <3>1. CASE v = w
        BY <2>2, <2>4, <3>1 DEF Passed, AppOf, FileOf, At
      <3>2. CASE v # w
        BY <2>2, <2>3, <3>2 DEF FilesPassed, Passed, AppOf, FileOf, At
      <3>3. QED
        BY <3>1, <3>2
    <2>7. \A b \in Applications : /\ documents'[b] # {} => Exists(b)'
                                  /\ \A file \in documents'[b] : Passed(b, file)'
      BY <2>2, PassedStays DEF FilesPassed, Exists
    <2>8. QED
      BY <2>5, <2>6, <2>7 DEF FilesPassed
  <1>4. CASE \E w \in Workers, a \in Applications, file \in Files : ReceiveFile(w, a, file)
    <2>1. PICK w \in Workers, a \in Applications, file \in Files : ReceiveFile(w, a, file)
      BY <1>4
    <2>2. /\ UNCHANGED <<application, documents>> /\ Exists(a) /\ file.type \in UploadedTypes
          /\ handler'[w].pc = "check" /\ handler'[w].app = a /\ handler'[w].file = file
          /\ \A v \in Workers \ {w} : handler'[v] = handler[v]
      <3>1. UNCHANGED <<application, documents>> /\ Exists(a) /\ file.type \in UploadedTypes
        BY <2>1 DEF ReceiveFile, dbVars
      <3>2. /\ handler'[w].pc = "check" /\ handler'[w].app = a /\ handler'[w].file = file
            /\ \A v \in Workers \ {w} : handler'[v] = handler[v]
        BY <2>1, FileReceived
      <3>3. QED
        BY <3>1, <3>2
    <2>3. HandlersBusy'
      BY <2>2 DEF HandlersBusy, At, AppOf, FileOf, Exists
    <2>4. FilesPassed'
      BY <2>2 DEF FilesPassed, At, AppOf, FileOf, Exists, Passed
    <2>5. QED
      BY <2>3, <2>4
  <1>5. CASE \E w \in Workers : StoreDocument(w)
    <2>1. PICK w \in Workers : StoreDocument(w)
      BY <1>5
    <2>2. /\ Ended(w) /\ At(w, "store") /\ AppOf(w) \in Applications /\ Exists(AppOf(w))
          /\ UNCHANGED application
          /\ \/ documents' = documents
             \/ documents' = [documents EXCEPT ![AppOf(w)] = @ \cup {FileOf(w)}]
      BY <2>1, DocumentStored DEF StoreDocument
    <2>3. handler'[w].pc = "idle" /\ \A v \in Workers \ {w} : handler'[v] = handler[v]
      BY <2>2 DEF Ended, Idle
    <2>4. HandlersBusy'
      BY <2>2, <2>3 DEF HandlersBusy, At, AppOf, FileOf, Exists
    <2>5. \A v \in Workers : /\ At(v, "match")' => HasBeenRead(FileOf(v))'
                             /\ At(v, "store")' => Passed(AppOf(v), FileOf(v))'
      BY <2>2, <2>3 DEF FilesPassed, Passed, AppOf, FileOf, At
    <2>6. Passed(AppOf(w), FileOf(w))
      BY <2>2 DEF FilesPassed
    <2>7. ASSUME NEW b \in Applications
          PROVE  /\ documents'[b] # {} => Exists(b)
                 /\ \A file \in documents'[b] : Passed(b, file)
      <3>1. documents'[b] = documents[b] \/ (b = AppOf(w) /\ documents'[b] = documents[b] \cup {FileOf(w)})
        BY <2>2 DEF TypeOK
      <3>2. QED
        BY <2>2, <2>6, <3>1 DEF FilesPassed
    <2>8. QED
      BY <2>2, <2>4, <2>5, <2>7 DEF FilesPassed, Exists, Passed
  <1>6. CASE \E w \in Workers, a \in Applications, d \in Decisions : BeginReview(w, a, d)
    <2>1. PICK w \in Workers, a \in Applications, d \in Decisions : BeginReview(w, a, d)
      BY <1>6
    <2>2. /\ UNCHANGED <<application, documents>> /\ Exists(a)
          /\ handler'[w].pc = "review" /\ handler'[w].app = a
          /\ \A v \in Workers \ {w} : handler'[v] = handler[v]
      BY <2>1, ReviewBegun DEF BeginReview, dbVars
    <2>3. HandlersBusy'
      BY <2>2 DEF HandlersBusy, At, AppOf, FileOf, Exists
    <2>4. FilesPassed'
      BY <2>2 DEF FilesPassed, At, AppOf, FileOf, Exists, Passed
    <2>5. QED
      BY <2>3, <2>4
  <1>7. CASE \E w \in Workers : StoreReview(w)
    <2>1. PICK w \in Workers : StoreReview(w)
      BY <1>7
    <2>2. /\ Ended(w) /\ UNCHANGED documents
          /\ \A b \in Applications : /\ application'[b].applicants = application[b].applicants
                                     /\ Exists(b)' <=> Exists(b)
      BY <2>1, ReviewStored DEF StoreReview
    <2>3. handler'[w].pc = "idle" /\ \A v \in Workers \ {w} : handler'[v] = handler[v]
      BY <2>2 DEF Ended, Idle
    <2>4. HandlersBusy'
      BY <2>2, <2>3 DEF HandlersBusy, At, AppOf, FileOf
    <2>5. ASSUME NEW v \in Workers, At(v, "store")'
          PROVE  Passed(AppOf(v), FileOf(v))'
      <3>1. v # w /\ handler'[v] = handler[v] /\ At(v, "store")
        BY <2>3, <2>5 DEF At
      <3>2. AppOf(v) \in Applications /\ Passed(AppOf(v), FileOf(v))
        BY <3>1 DEF HandlersBusy, FilesPassed, At
      <3>3. QED
        BY <2>2, <3>1, <3>2 DEF Passed, AppOf, FileOf
    <2>6. \A v \in Workers : At(v, "match")' => HasBeenRead(FileOf(v))'
      BY <2>3 DEF FilesPassed, FileOf, At
    <2>7. \A b \in Applications : /\ documents'[b] # {} => Exists(b)'
                                  /\ \A file \in documents'[b] : Passed(b, file)'
      BY <2>2, PassedStays DEF FilesPassed
    <2>8. QED
      BY <2>4, <2>5, <2>6, <2>7 DEF FilesPassed
  <1>8. QED
    BY <1>1, <1>2, <1>3, <1>4, <1>5, <1>6, <1>7, StepKinds

-----------------------------------------------------------------------------
(* The log. *)

LEMMA UnionGrows ==
    ASSUME NEW S, NEW a \in S, NEW f, NEW g, NEW X,
           \A b \in S \ {a} : g[b] = f[b], g[a] = f[a] \cup X
    PROVE  UNION {g[b] : b \in S} = (UNION {f[b] : b \in S}) \cup X
  <1>1. ASSUME NEW x \in UNION {g[b] : b \in S}
        PROVE  x \in (UNION {f[b] : b \in S}) \cup X
    <2>1. PICK b \in S : x \in g[b]
      OBVIOUS
    <2>2. x \in f[b] \/ x \in X
      BY <2>1
    <2>3. QED
      BY <2>2
  <1>2. ASSUME NEW x \in UNION {f[b] : b \in S}
        PROVE  x \in UNION {g[b] : b \in S}
    <2>1. PICK b \in S : x \in f[b]
      OBVIOUS
    <2>2. x \in g[b]
      BY <2>1
    <2>3. QED
      BY <2>2
  <1>3. X \subseteq UNION {g[b] : b \in S}
    OBVIOUS
  <1>4. QED
    BY <1>1, <1>2, <1>3

LEMMA LogGrows ==
    ASSUME LogIsExact, NEW a \in Applications, NEW X,
           \A b \in Applications \ {a} : LogOf(b)' = LogOf(b),
           LogOf(a)' = LogOf(a) \cup X, audit' = audit \cup X
    PROVE  LogIsExact'
  <1>1. PICK f : f = [b \in Applications |-> LogOf(b)]
    OBVIOUS
  <1>2. PICK g : g = [b \in Applications |-> LogOf(b)']
    OBVIOUS
  <1>3. \A b \in Applications : f[b] = LogOf(b) /\ g[b] = LogOf(b)'
    BY <1>1, <1>2
  <1>4. audit = UNION {f[b] : b \in Applications}
    BY <1>3 DEF LogIsExact
  <1>5. UNION {g[b] : b \in Applications} = (UNION {f[b] : b \in Applications}) \cup X
    <2>1. \A b \in Applications \ {a} : g[b] = f[b]
      BY <1>3
    <2>2. g[a] = f[a] \cup X
      BY <1>3
    <2>3. QED
      BY <2>1, <2>2, UnionGrows
  <1>6. audit' = UNION {g[b] : b \in Applications}
    BY <1>4, <1>5
  <1>7. QED
    BY <1>3, <1>6 DEF LogIsExact

LEMMA LogUnchanged ==
    ASSUME LogIsExact, audit' = audit,
           \A b \in Applications : /\ Exists(b)' <=> Exists(b)
                                   /\ application'[b].applicants = application[b].applicants
                                   /\ documents'[b] = documents[b]
    PROVE  LogIsExact'
  <1>1. \A b \in Applications : LogOf(b)' = LogOf(b)
    BY DEF LogOf, RowsOf
  <1>2. QED
    BY <1>1 DEF LogIsExact

LEMMA LogStep ==
    ASSUME TypeOK, HandlersBusy, FilesPassed, LogIsExact, [Next]_vars
    PROVE  LogIsExact'
  <1>1. CASE UNCHANGED <<application, documents, audit>>
    BY <1>1, LogUnchanged DEF Exists
  <1>2. CASE \E a \in Applications, r \in Requests : SubmitApplication(a, r)
    <2>1. PICK a \in Applications, r \in Requests : SubmitApplication(a, r)
      BY <1>2
    <2> DEFINE X == RowsOf(a, Normalized(r))
    <2>2. /\ ~Exists(a) /\ documents' = documents /\ audit' = audit \cup X
          /\ application'[a] = ApplicationRow("SUBMITTED", r) /\ application'[a].status = "SUBMITTED"
          /\ \A b \in Applications \ {a} : application'[b] = application[b]
      BY <2>1, Submitted DEF SubmitApplication
    <2>3. \A b \in Applications \ {a} : LogOf(b)' = LogOf(b)
      BY <2>2 DEF LogOf, RowsOf, Exists
    <2>4. LogOf(a)' = LogOf(a) \cup X
      <3>1. LogOf(a) = {}
        BY <2>2 DEF LogOf
      <3>2. documents[a] = {} /\ Exists(a)'
        BY <2>2 DEF FilesPassed, Exists
      <3>3. RowsOf(a, application[a])' = X
        BY <2>2 DEF RowsOf, ApplicationRow
      <3>4. LogOf(a)' = X
        BY <2>2, <3>2, <3>3 DEF LogOf
      <3>5. QED
        BY <3>1, <3>4
    <2> HIDE DEF X
    <2>5. QED
      BY <2>2, <2>3, <2>4, LogGrows
  <1>3. CASE \E w \in Workers : StoreDocument(w)
    <2>1. PICK w \in Workers : StoreDocument(w)
      BY <1>3
    <2>0. /\ AppOf(w) \in Applications /\ Exists(AppOf(w)) /\ application' = application
          /\ \/ UNCHANGED <<documents, audit>>
             \/ /\ documents' = [documents EXCEPT ![AppOf(w)] = @ \cup {FileOf(w)}]
                /\ audit' = audit \cup {Created(AppOf(w), "pgsqldocument", FileOf(w))}
      BY <2>1, DocumentStored DEF StoreDocument
    <2> PICK a \in Applications : a = AppOf(w)
      BY <2>0
    <2> PICK received : received = FileOf(w)
      OBVIOUS
    <2> DEFINE X == {Created(a, "pgsqldocument", received)}
    <2>2. /\ Exists(a) /\ application' = application
          /\ \/ UNCHANGED <<documents, audit>>
             \/ /\ documents' = [documents EXCEPT ![a] = @ \cup {received}]
                /\ audit' = audit \cup X
      BY <2>0
    <2>3. CASE UNCHANGED <<documents, audit>>
      BY <1>1, <2>2, <2>3
    <2>4. CASE /\ documents' = [documents EXCEPT ![a] = @ \cup {received}]
               /\ audit' = audit \cup X
      <3>1. documents'[a] = documents[a] \cup {received}
            /\ \A b \in Applications \ {a} : documents'[b] = documents[b]
        BY <2>2, <2>4 DEF TypeOK
      <3>2. \A b \in Applications \ {a} : LogOf(b)' = LogOf(b)
        BY <2>2, <3>1 DEF LogOf, RowsOf, Exists
      <3>3. {Created(a, "pgsqldocument", file) : file \in documents'[a]}
               = {Created(a, "pgsqldocument", file) : file \in documents[a]} \cup X
        BY <3>1
      <3>4. LogOf(a) = RowsOf(a, application[a])
                           \cup {Created(a, "pgsqldocument", file) : file \in documents[a]}
        BY <2>2 DEF LogOf
      <3>5. LogOf(a)' = RowsOf(a, application[a])
                            \cup {Created(a, "pgsqldocument", file) : file \in documents'[a]}
        BY <2>2 DEF LogOf, RowsOf, Exists
      <3>6. LogOf(a)' = LogOf(a) \cup X
        BY <3>3, <3>4, <3>5
      <3> HIDE DEF X
      <3>7. QED
        BY <2>2, <2>4, <3>2, <3>6, LogGrows
    <2>5. QED
      BY <2>2, <2>3, <2>4
  <1>4. CASE \E w \in Workers : StoreReview(w)
    <2>1. PICK w \in Workers : StoreReview(w)
      BY <1>4
    <2>2. UNCHANGED <<documents, audit>>
      BY <2>1 DEF StoreReview
    <2>3. QED
      BY <2>1, <2>2, ReviewStored, LogUnchanged
  <1>5. CASE \/ \E w \in Workers : UploadStep(w)
             \/ \E w \in Workers, a \in Applications, file \in Files : ReceiveFile(w, a, file)
             \/ \E w \in Workers, a \in Applications, d \in Decisions : BeginReview(w, a, d)
             \/ UNCHANGED vars
    BY <1>1, <1>5 DEF UploadStep, ReceiveFile, BeginReview, dbVars, vars
  <1>6. QED
    BY <1>2, <1>3, <1>4, <1>5, StepKinds

-----------------------------------------------------------------------------
(* Reviews. *)

(* A step that neither begins nor commits a review.                        *)
LEMMA ReviewsAside ==
    ASSUME TypeOK, ReviewsFollow, reviews' = reviews, overlapped' = overlapped,
           begun' \in [Applications -> 0..MaxBegun],
           \A b \in Applications :
              /\ begun[b] <= begun'[b]
              /\ \/ application'[b].status = application[b].status
                 \/ /\ application[b].status = "NONE"
                    /\ application'[b].status = "SUBMITTED",
           \A v \in Workers : At(v, "review")' =>
              handler'[v] = handler[v] /\ AppOf(v) \in Applications
    PROVE  ReviewsFollow'
  <1>0. /\ begun \in [Applications -> 0..MaxBegun] /\ MaxBegun \in Nat
        /\ reviews \in [Applications -> Seq([created : Nat, decision : Decisions])]
    BY LoanIntakeAssumption DEF TypeOK
  <1>1. ASSUME NEW w \in Workers, At(w, "review")'
        PROVE  /\ handler'[w].created \in 1..begun'[AppOf(w)']
               /\ handler'[w].decision \in Decisions
    <2>1. /\ At(w, "review") /\ AppOf(w)' = AppOf(w) /\ AppOf(w) \in Applications
          /\ handler'[w] = handler[w]
      BY <1>1 DEF At, AppOf
    <2>2. handler[w].created \in 1..begun[AppOf(w)] /\ handler[w].decision \in Decisions
      BY <2>1 DEF ReviewsFollow
    <2>3. /\ begun[AppOf(w)] \in Nat /\ begun'[AppOf(w)] \in Nat
          /\ begun[AppOf(w)] <= begun'[AppOf(w)]
      BY <1>0, <2>1
    <2>4. QED
      BY <2>1, <2>2, <2>3
  <1>2. ASSUME NEW a \in Applications
        PROVE  /\ \A i \in DOMAIN reviews[a] : reviews[a][i].created \in 1..begun'[a]
               /\ reviews[a] = <<>> => application'[a].status \in {"NONE", "SUBMITTED"}
               /\ reviews[a] # <<>> =>
                     /\ application'[a].status = StatusOf(reviews[a][Len(reviews[a])].decision)
                     /\ \E i \in DOMAIN reviews[a] : Newest(reviews[a], reviews[a][i])
    <2>1. /\ \A i \in DOMAIN reviews[a] : reviews[a][i].created \in 1..begun[a]
          /\ reviews[a] = <<>> => application[a].status \in {"NONE", "SUBMITTED"}
          /\ reviews[a] # <<>> =>
                /\ application[a].status = StatusOf(reviews[a][Len(reviews[a])].decision)
                /\ \E i \in DOMAIN reviews[a] : Newest(reviews[a], reviews[a][i])
      BY DEF ReviewsFollow
    <2>2. begun[a] \in Nat /\ begun'[a] \in Nat /\ begun[a] <= begun'[a]
      BY <1>0
    <2>3. reviews[a] # <<>> => application[a].status # "NONE"
      BY <2>1, StatusType
    <2>4. \A i \in DOMAIN reviews[a] : reviews[a][i].created \in 1..begun'[a]
      BY <2>1, <2>2
    <2>5. QED
      BY <2>1, <2>3, <2>4
  <1>3. ASSUME NEW a \in Applications, a \notin overlapped
        PROVE  /\ \A v, w \in Reviewing(a)' : v = w
               /\ \A w \in Reviewing(a)' : \A i \in DOMAIN reviews[a] :
                      reviews[a][i].created < handler'[w].created
               /\ \A i, j \in DOMAIN reviews[a] :
                      i < j => reviews[a][i].created < reviews[a][j].created
    <2>1. \A w \in Reviewing(a)' : w \in Reviewing(a) /\ handler'[w] = handler[w]
      BY DEF Reviewing, At, AppOf
    <2>2. /\ \A v, w \in Reviewing(a) : v = w
          /\ \A w \in Reviewing(a) : \A i \in DOMAIN reviews[a] :
                 reviews[a][i].created < handler[w].created
          /\ \A i, j \in DOMAIN reviews[a] :
                 i < j => reviews[a][i].created < reviews[a][j].created
      BY <1>3 DEF ReviewsFollow
    <2>3. QED
      BY <2>1, <2>2
  <1>4. QED
    BY <1>1, <1>2, <1>3 DEF ReviewsFollow

LEMMA BeginReviewFollows ==
    ASSUME TypeOK, ReviewsFollow, HandlersBusy,
           NEW w \in Workers, NEW a \in Applications, NEW d \in Decisions, BeginReview(w, a, d)
    PROVE  ReviewsFollow'
  <1>0. /\ begun \in [Applications -> 0..MaxBegun] /\ MaxBegun \in Nat
    BY LoanIntakeAssumption DEF TypeOK
  <1>1. /\ UNCHANGED <<application, reviews>> /\ At(w, "idle")
        /\ overlapped' = IF Reviewing(a) # {} THEN overlapped \cup {a} ELSE overlapped
    BY DEF BeginReview, dbVars
  <1>2. /\ handler'[w].pc = "review" /\ handler'[w].app = a
        /\ handler'[w].created = begun[a] + 1 /\ handler'[w].decision = d
        /\ \A v \in Workers \ {w} : handler'[v] = handler[v]
        /\ begun' = [begun EXCEPT ![a] = begun[a] + 1]
    BY ReviewBegun
  <1>3. \A b \in Applications : /\ begun[b] \in Nat /\ begun'[b] \in Nat
                                /\ begun[b] <= begun'[b]
    BY <1>0, <1>2
  <1>3a. begun'[a] = begun[a] + 1
    BY <1>0, <1>2
  <1>4. ASSUME NEW v \in Workers, At(v, "review")'
        PROVE  /\ handler'[v].created \in 1..begun'[AppOf(v)']
               /\ handler'[v].decision \in Decisions
    <2>1. CASE v = w
      BY <1>2, <1>3, <1>3a, <2>1 DEF AppOf
    <2>2. CASE v # w
      <3>1. At(v, "review") /\ handler'[v] = handler[v] /\ AppOf(v)' = AppOf(v)
            /\ AppOf(v) \in Applications
        BY <1>2, <1>4, <2>2 DEF At, AppOf, HandlersBusy
      <3>2. handler[v].created \in 1..begun[AppOf(v)] /\ handler[v].decision \in Decisions
        BY <3>1 DEF ReviewsFollow
      <3>3. QED
        BY <1>3, <3>1, <3>2
    <2>3. QED
      BY <2>1, <2>2
  <1>5. ASSUME NEW b \in Applications
        PROVE  /\ \A i \in DOMAIN reviews[b] : reviews[b][i].created \in 1..begun'[b]
               /\ reviews[b] = <<>> => application[b].status \in {"NONE", "SUBMITTED"}
               /\ reviews[b] # <<>> =>
                     /\ application[b].status = StatusOf(reviews[b][Len(reviews[b])].decision)
                     /\ \E i \in DOMAIN reviews[b] : Newest(reviews[b], reviews[b][i])
    <2>1. \A i \in DOMAIN reviews[b] : reviews[b][i].created \in 1..begun[b]
      BY DEF ReviewsFollow
    <2>2. \A i \in DOMAIN reviews[b] : reviews[b][i].created \in 1..begun'[b]
      BY <1>3, <2>1
    <2>3. QED
      BY <2>2 DEF ReviewsFollow
  <1>6. ASSUME NEW b \in Applications, b \notin overlapped'
        PROVE  /\ \A u, v \in Reviewing(b)' : u = v
               /\ \A v \in Reviewing(b)' : \A i \in DOMAIN reviews[b] :
                      reviews[b][i].created < handler'[v].created
               /\ \A i, j \in DOMAIN reviews[b] :
                      i < j => reviews[b][i].created < reviews[b][j].created
    <2>1. b \notin overlapped
      BY <1>1, <1>6
    <2>2. /\ \A u, v \in Reviewing(b) : u = v
          /\ \A v \in Reviewing(b) : \A i \in DOMAIN reviews[b] :
                 reviews[b][i].created < handler[v].created
          /\ \A i, j \in DOMAIN reviews[b] :
                 i < j => reviews[b][i].created < reviews[b][j].created
          /\ \A i \in DOMAIN reviews[b] : reviews[b][i].created \in 1..begun[b]
      BY <2>1 DEF ReviewsFollow
    <2>3. CASE b = a
      <3>1. Reviewing(b) = {}
        BY <1>1, <1>6, <2>3
      <3>2. \A v \in Reviewing(b)' : v = w
        BY <1>2, <3>1 DEF Reviewing, At, AppOf
      <3>3. \A i \in DOMAIN reviews[b] : reviews[b][i].created < handler'[w].created
        BY <1>2, <1>3, <2>2, <2>3
      <3>4. QED
        BY <2>2, <3>2, <3>3
    <2>4. CASE b # a
      <3>1. \A v \in Reviewing(b)' : v \in Reviewing(b) /\ handler'[v] = handler[v]
        BY <1>2, <2>4 DEF Reviewing, At, AppOf
      <3>2. QED
        BY <2>2, <3>1
    <2>5. QED
      BY <2>3, <2>4
  <1>7. QED
    BY <1>1, <1>4, <1>5, <1>6 DEF ReviewsFollow

(* A review that is committed becomes the last row, and gives its status.  *)
LEMMA StoreReviewFollows ==
    ASSUME TypeOK, ReviewsFollow, HandlersBusy, NEW w \in Workers, StoreReview(w)
    PROVE  ReviewsFollow'
  <1>0. /\ begun \in [Applications -> 0..MaxBegun] /\ MaxBegun \in Nat
        /\ UNCHANGED <<begun, overlapped>>
    BY LoanIntakeAssumption DEF TypeOK, StoreReview
  <1>1. /\ Ended(w) /\ AppOf(w) \in Applications /\ Exists(AppOf(w)) /\ At(w, "review")
        /\ \/ UNCHANGED <<reviews, application>>
           \/ /\ reviews' = [reviews EXCEPT ![AppOf(w)] = Append(@, ReviewOf(w))]
              /\ application'[AppOf(w)].status = StatusOf(handler[w].decision)
              /\ \A b \in Applications \ {AppOf(w)} : application'[b] = application[b]
    BY ReviewStored
  <1>2. handler'[w].pc = "idle" /\ \A v \in Workers \ {w} : handler'[v] = handler[v]
    BY <1>1 DEF Ended, Idle
  <1>3. \A v \in Workers : At(v, "review")' =>
           v # w /\ At(v, "review") /\ handler'[v] = handler[v] /\ AppOf(v) \in Applications
    BY <1>2 DEF At, HandlersBusy
  <1>4. CASE UNCHANGED <<reviews, application>>
    <2>1. /\ reviews' = reviews /\ overlapped' = overlapped
          /\ begun' \in [Applications -> 0..MaxBegun]
      BY <1>0, <1>4
    <2>2. \A b \in Applications : /\ begun[b] <= begun'[b]
                                  /\ application'[b].status = application[b].status
      BY <1>0, <1>4
    <2>3. \A v \in Workers : At(v, "review")' =>
             handler'[v] = handler[v] /\ AppOf(v) \in Applications
      BY <1>3
    <2>4. QED
      BY <2>1, <2>2, <2>3, ReviewsAside
  <1>5. CASE /\ reviews' = [reviews EXCEPT ![AppOf(w)] = Append(@, ReviewOf(w))]
             /\ application'[AppOf(w)].status = StatusOf(handler[w].decision)
             /\ \A b \in Applications \ {AppOf(w)} : application'[b] = application[b]
    <2> PICK a \in Applications : a = AppOf(w)
      BY <1>1
    <2> PICK row : row = ReviewOf(w)
      OBVIOUS
    <2> PICK rows : rows = reviews[a]
      OBVIOUS
    <2>1. /\ row \in [created : 1..begun[a], decision : Decisions]
          /\ row.created = handler[w].created /\ row.decision = handler[w].decision
      <3>1. handler[w].created \in 1..begun[a] /\ handler[w].decision \in Decisions
        BY <1>1 DEF ReviewsFollow
      <3>2. QED
        BY <3>1 DEF ReviewOf
    <2>2. begun[a] \in Nat
      BY <1>0
    <2>3. /\ rows \in Seq([created : Nat, decision : Decisions])
          /\ row \in [created : Nat, decision : Decisions]
      <3>1. reviews[a] \in Seq([created : Nat, decision : Decisions])
        BY DEF TypeOK
      <3>2. \A k \in 1..begun[a] : k \in Nat
        BY <2>2
      <3>3. row \in [created : Nat, decision : Decisions]
        BY <2>1, <3>2
      <3>4. QED
        BY <3>1, <3>3
    <2> DEFINE n == Len(rows) + 1
    <2>4. /\ DOMAIN rows = 1..Len(rows) /\ Len(rows) \in Nat
          /\ DOMAIN Append(rows, row) = 1..n /\ Len(Append(rows, row)) = n
          /\ \A i \in 1..Len(rows) : Append(rows, row)[i] = rows[i]
          /\ Append(rows, row)[n] = row
      <3>1. /\ Append(rows, row) \in Seq([created : Nat, decision : Decisions])
            /\ Len(Append(rows, row)) = Len(rows) + 1
            /\ \A i \in 1..Len(rows) : Append(rows, row)[i] = rows[i]
            /\ Append(rows, row)[Len(rows) + 1] = row
        BY <2>3, AppendProperties
      <3>2. QED
        BY <2>3, <3>1, LenProperties
    <2>5. /\ reviews'[a] = Append(rows, row)
          /\ \A b \in Applications \ {a} : reviews'[b] = reviews[b]
          /\ application'[a].status = StatusOf(row.decision)
          /\ \A b \in Applications \ {a} : application'[b] = application[b]
      BY <1>5, <2>1 DEF TypeOK
    <2> PICK new : new = Append(rows, row)
      OBVIOUS
    <2>6. \A i \in 1..Len(rows) : rows[i].created \in 1..begun[a] /\ rows[i].created \in Nat
      <3>1. \A i \in DOMAIN rows : rows[i].created \in 1..begun[a]
        BY DEF ReviewsFollow
      <3>2. QED
        BY <2>4, <3>1
    <2>7. \A i \in DOMAIN new : new[i].created \in 1..begun[a]
      BY <2>1, <2>4, <2>6
    <2>8. new # <<>> /\ application'[a].status = StatusOf(new[Len(new)].decision)
      BY <2>4, <2>5
    <2>9. \E i \in DOMAIN new : Newest(new, new[i])
      <3>1. CASE \A i \in 1..Len(rows) : rows[i].created <= row.created
        <4>1. \A i \in 1..n : new[n].created >= new[i].created
          BY <2>1, <2>2, <2>4, <2>6, <3>1
        <4>2. n \in DOMAIN new
          BY <2>4
        <4>3. QED
          BY <2>4, <4>1, <4>2 DEF Newest
      <3>2. CASE \E i \in 1..Len(rows) : ~(rows[i].created <= row.created)
        <4>1. rows # <<>>
          BY <2>4, <3>2
        <4>2. PICK i \in DOMAIN rows : Newest(rows, rows[i])
          BY <4>1 DEF ReviewsFollow
        <4>3. \A j \in 1..Len(rows) : rows[i].created >= rows[j].created
          BY <2>4, <4>2 DEF Newest
        <4>4. rows[i].created >= row.created
          <5>1. PICK k \in 1..Len(rows) : ~(rows[k].created <= row.created)
            BY <3>2
          <5>2. i \in 1..Len(rows)
            BY <2>4
          <5>3. rows[i].created \in Nat /\ rows[k].created \in Nat
                /\ rows[i].created >= rows[k].created
            BY <2>6, <4>3, <5>1, <5>2
          <5>4. row.created \in Nat
            BY <2>3
          <5>5. QED
            BY <5>1, <5>3, <5>4
        <4>5. i \in 1..n /\ new[i] = rows[i]
          BY <2>4
        <4>6. \A j \in 1..n : new[i].created >= new[j].created
          BY <2>4, <4>3, <4>4, <4>5
        <4>7. QED
          BY <2>4, <4>5, <4>6 DEF Newest
      <3>3. QED
        BY <3>1, <3>2
    <2>10. ASSUME a \notin overlapped
           PROVE  /\ Reviewing(a)' = {}
                  /\ \A i, j \in DOMAIN new : i < j => new[i].created < new[j].created
      <3>1. w \in Reviewing(a)
        BY <1>1 DEF Reviewing
      <3>2. /\ \A u, v \in Reviewing(a) : u = v
            /\ \A i \in DOMAIN rows : rows[i].created < handler[w].created
            /\ \A i, j \in DOMAIN rows : i < j => rows[i].created < rows[j].created
        BY <2>10, <3>1 DEF ReviewsFollow
      <3>3. \A v \in Reviewing(a)' : v \in Reviewing(a) /\ v # w
        BY <1>3 DEF Reviewing, At, AppOf
      <3>4. Reviewing(a)' = {}
        BY <3>1, <3>2, <3>3
      <3>5. \A i, j \in DOMAIN new : i < j => new[i].created < new[j].created
        <4>1. ASSUME NEW i \in 1..n, NEW j \in 1..n, i < j
              PROVE  new[i].created < new[j].created
          <5>1. i \in 1..Len(rows) /\ new[i] = rows[i]
            BY <2>4, <4>1
          <5>2. CASE j = n
            BY <2>1, <2>4, <3>2, <5>1, <5>2
          <5>3. CASE j # n
            <6>1. j \in 1..Len(rows) /\ new[j] = rows[j]
              BY <2>4, <5>3
            <6>2. QED
              BY <2>4, <3>2, <4>1, <5>1, <6>1
          <5>4. QED
            BY <5>2, <5>3
        <4>2. DOMAIN new = 1..n
          BY <2>4
        <4>3. QED
          BY ONLY <4>1, <4>2
      <3>6. QED
        BY <3>4, <3>5
    <2>11. ASSUME NEW v \in Workers, At(v, "review")'
           PROVE  handler'[v].created \in 1..begun'[AppOf(v)'] /\ handler'[v].decision \in Decisions
      <3>1. At(v, "review") /\ handler'[v] = handler[v] /\ AppOf(v)' = AppOf(v)
        BY <1>3, <2>11 DEF AppOf
      <3>2. QED
        BY <1>0, <3>1 DEF ReviewsFollow
    <2>12. ASSUME NEW b \in Applications
           PROVE  /\ \A i \in DOMAIN reviews'[b] : reviews'[b][i].created \in 1..begun'[b]
                  /\ reviews'[b] = <<>> => application'[b].status \in {"NONE", "SUBMITTED"}
                  /\ reviews'[b] # <<>> =>
                        /\ application'[b].status = StatusOf(reviews'[b][Len(reviews'[b])].decision)
                        /\ \E i \in DOMAIN reviews'[b] : Newest(reviews'[b], reviews'[b][i])
      <3>1. CASE b = a
        BY <1>0, <2>5, <2>7, <2>8, <2>9, <3>1
      <3>2. CASE b # a
        <4>1. reviews'[b] = reviews[b] /\ application'[b] = application[b] /\ begun'[b] = begun[b]
          BY <1>0, <2>5, <3>2
        <4>2. QED
          BY <4>1 DEF ReviewsFollow
      <3>3. QED
        BY <3>1, <3>2
    <2>13. ASSUME NEW b \in Applications, b \notin overlapped'
           PROVE  /\ \A u, v \in Reviewing(b)' : u = v
                  /\ \A v \in Reviewing(b)' : \A i \in DOMAIN reviews'[b] :
                         reviews'[b][i].created < handler'[v].created
                  /\ \A i, j \in DOMAIN reviews'[b] :
                         i < j => reviews'[b][i].created < reviews'[b][j].created
      <3>1. CASE b = a
        <4>1. a \notin overlapped /\ reviews'[b] = new
          BY <1>0, <2>5, <2>13, <3>1
        <4>2. Reviewing(b)' = {}
          BY <2>10, <3>1, <4>1
        <4>3. \A i, j \in DOMAIN new : i < j => new[i].created < new[j].created
          BY <2>10, <4>1
        <4>4. QED
          BY <4>1, <4>2, <4>3
      <3>2. CASE b # a
        <4>1. b \notin overlapped /\ reviews'[b] = reviews[b]
          BY <1>0, <2>5, <2>13, <3>2
        <4>2. \A v \in Reviewing(b)' : v \in Reviewing(b) /\ handler'[v] = handler[v]
          BY <1>3 DEF Reviewing, At, AppOf
        <4>3. QED
          BY <4>1, <4>2 DEF ReviewsFollow
      <3>3. QED
        BY <3>1, <3>2
    <2>14. QED
      BY <2>11, <2>12, <2>13 DEF ReviewsFollow
  <1>6. QED
    BY <1>1, <1>4, <1>5

LEMMA ReviewsStep ==
    ASSUME TypeOK, HandlersBusy, FilesPassed, ReviewsFollow, [Next]_vars
    PROVE  ReviewsFollow'
  <1>0. /\ begun \in [Applications -> 0..MaxBegun] /\ MaxBegun \in Nat
        /\ \A b \in Applications : begun[b] \in Nat
    BY LoanIntakeAssumption DEF TypeOK
  <1>1. CASE UNCHANGED vars
    <2>1. \A v \in Workers : At(v, "review")' => handler'[v] = handler[v] /\ AppOf(v) \in Applications
      BY <1>1 DEF vars, At, HandlersBusy
    <2>2. QED
      BY <1>0, <1>1, <2>1, ReviewsAside DEF vars, dbVars
  <1>2. CASE \E a \in Applications, r \in Requests : SubmitApplication(a, r)
    <2>1. PICK a \in Applications, r \in Requests : SubmitApplication(a, r)
      BY <1>2
    <2>2. \A b \in Applications : \/ application'[b].status = application[b].status
                                  \/ /\ application[b].status = "NONE"
                                     /\ application'[b].status = "SUBMITTED"
      BY <2>1, Submitted DEF SubmitApplication, Exists
    <2>3. UNCHANGED <<reviews, overlapped, begun, handler>>
      BY <2>1 DEF SubmitApplication
    <2>4. \A v \in Workers : At(v, "review")' => handler'[v] = handler[v] /\ AppOf(v) \in Applications
      BY <2>3 DEF At, HandlersBusy
    <2>5. QED
      BY <1>0, <2>2, <2>3, <2>4, ReviewsAside
  <1>3. CASE \E w \in Workers : UploadStep(w) \/ StoreDocument(w)
    <2>1. PICK w \in Workers : UploadStep(w) \/ StoreDocument(w)
      BY <1>3
    <2>2. UNCHANGED <<application, reviews, overlapped, begun>>
      BY <2>1 DEF UploadStep, StoreDocument, dbVars
    <2>3. handler'[w].pc # "review" /\ \A v \in Workers \ {w} : handler'[v] = handler[v]
      <3>1. Ended(w) \/ \E pc \in {"read", "match", "store"} : Advanced(w, pc)
        BY <2>1, DocumentStored DEF UploadStep
      <3>2. QED
        BY <3>1 DEF Ended, Advanced, Idle
    <2>4. \A v \in Workers : At(v, "review")' => handler'[v] = handler[v] /\ AppOf(v) \in Applications
      BY <2>3 DEF At, HandlersBusy
    <2>5. QED
      BY <1>0, <2>2, <2>4, ReviewsAside
  <1>4. CASE \E w \in Workers, a \in Applications, file \in Files : ReceiveFile(w, a, file)
    <2>1. PICK w \in Workers, a \in Applications, file \in Files : ReceiveFile(w, a, file)
      BY <1>4
    <2>2. UNCHANGED <<application, reviews, overlapped>>
      BY <2>1 DEF ReceiveFile, dbVars
    <2>3. /\ handler'[w].pc = "check" /\ \A v \in Workers \ {w} : handler'[v] = handler[v]
          /\ begun' \in [Applications -> 0..MaxBegun]
          /\ begun' = [begun EXCEPT ![a] = begun[a] + 1]
      BY <2>1, FileReceived
    <2>4. \A v \in Workers : At(v, "review")' => handler'[v] = handler[v] /\ AppOf(v) \in Applications
      BY <2>3 DEF At, HandlersBusy
    <2>5. \A b \in Applications : begun[b] <= begun'[b]
      BY <1>0, <2>3
    <2>6. QED
      BY <2>2, <2>3, <2>4, <2>5, ReviewsAside
  <1>5. CASE \E w \in Workers, a \in Applications, d \in Decisions : BeginReview(w, a, d)
    BY <1>5, BeginReviewFollows
  <1>6. CASE \E w \in Workers : StoreReview(w)
    BY <1>6, StoreReviewFollows
  <1>7. QED
    BY <1>1, <1>2, <1>3, <1>4, <1>5, <1>6, StepKinds

-----------------------------------------------------------------------------
(* The theorems. *)

LEMMA LoanInit ==
    ASSUME Init
    PROVE  LoanInv
  <1>1. /\ \A a \in Applications : /\ application[a] = NoApplication /\ ~Exists(a)
                                   /\ documents[a] = {} /\ reviews[a] = <<>> /\ begun[a] = 0
        /\ \A k \in Applications \X IdentityTypes : bucket[k] = None
        /\ audit = {} /\ litter = {} /\ unread = {}
        /\ \A w \in Workers : handler[w] = Idle /\ At(w, "idle")
    BY DEF Init, Exists, NoApplication, At, Idle
  <1>2. TypeOK
    <2>1. NoApplication \in Rows /\ <<>> \in Seq([created : Nat, decision : Decisions])
          /\ 0 \in 0..MaxBegun
      BY LoanIntakeAssumption DEF Rows
    <2>2. QED
      BY <2>1, IdleType DEF Init, TypeOK
  <1>3. HandlersBusy /\ FilesPassed
    BY <1>1 DEF HandlersBusy, FilesPassed, At, Idle
  <1>4. RefusedIsRemoved
    BY <1>1 DEF RefusedIsRemoved, IdentityTypes
  <1>5. ReviewsFollow
    <2>1. \A a \in Applications : application[a].status = "NONE" /\ Reviewing(a) = {}
      BY <1>1 DEF NoApplication, Reviewing, At, Idle
    <2>2. QED
      BY <1>1, <2>1 DEF ReviewsFollow, At, Idle
  <1>6. LogIsExact
    BY <1>1 DEF LogIsExact, LogOf
  <1>7. QED
    BY <1>2, <1>3, <1>4, <1>5, <1>6 DEF LoanInv

(* What the handlers know of their files, which of a file that was read    *)
(* goes on holding until the document is stored, and how the reviews of an *)
(* application follow one another, hold in every state.                    *)
THEOREM LoanInvariant == Spec => []LoanInv
  <1>1. LoanInv /\ [Next]_vars => LoanInv'
    <2> SUFFICES ASSUME LoanInv, [Next]_vars
                 PROVE  LoanInv'
      OBVIOUS
    <2>1. TypeOK /\ HandlersBusy /\ FilesPassed /\ RefusedIsRemoved /\ ReviewsFollow /\ LogIsExact
      BY DEF LoanInv
    <2>2. TypeOK' /\ HandlersBusy' /\ FilesPassed' /\ RefusedIsRemoved' /\ ReviewsFollow'
          /\ LogIsExact'
      BY <2>1, TypeStep, HandlersStep, BucketStep, ReviewsStep, LogStep
    <2>3. QED
      BY <2>2 DEF LoanInv
  <1>2. QED
    BY LoanInit, <1>1, PTL DEF Spec

(* The applications, the documents, the reviews, the bucket and the        *)
(* handlers always have their types.                                       *)
THEOREM LoanTypeCorrect == Spec => []TypeOK
  BY LoanInvariant, PTL DEF LoanInv

(* The audit log has an entry for what is stored, and for nothing else,    *)
(* however many requests are handled at once and however they end.         *)
THEOREM LogExact == Spec => []LogIsExact
  BY LoanInvariant, PTL DEF LoanInv

(* No upload that is over has left its file on the disk, and the bucket    *)
(* keeps as a passport only what was read as one, or what Textract raised  *)
(* on.                                                                     *)
THEOREM RefusedRemoved == Spec => []RefusedIsRemoved
  BY LoanInvariant, PTL DEF LoanInv

(* A stored application has no issues but the soft ones and what its       *)
(* normalisation made, of any form that passed the blocking validation:    *)
(* texts of blanks that are empty or too short now, and ZIP codes of nine  *)
(* digits without their dash.                                              *)
THEOREM SoftOnly == Spec => []OnlySoftIssues
  <1>1. LoanInv => OnlySoftIssues
    <2> SUFFICES ASSUME LoanInv, NEW a \in Applications
                 PROVE  application[a].issues \subseteq
                            UNION {Softened(application[a].applicants[i]) :
                                       i \in DOMAIN application[a].applicants}
      BY DEF OnlySoftIssues
    <2>1. TypeOK
      BY DEF LoanInv
    <2>2. CASE application[a] = NoApplication
      BY <2>2 DEF NoApplication
    <2>3. CASE application[a] # NoApplication
      <3>1. application[a] \in Rows
        BY <2>1 DEF TypeOK
      <3>2. PICK s \in Statuses, r \in Requests :
               Accepted(r) /\ application[a] = ApplicationRow(s, r)
        BY <2>3, <3>1 DEF Rows
      <3>3. /\ application[a].issues = IssuesOf(Normalized(r))
            /\ application[a].applicants = Normalized(r).applicants
        BY <3>2 DEF ApplicationRow
      <3>4. QED
        BY <3>2, <3>3, SoftIssues
    <2>4. QED
      BY <2>2, <2>3
  <1>2. QED
    BY <1>1, LoanInvariant, PTL

(* Whatever was read between, a document that is stored bears out an       *)
(* applicant of the application it is stored with, in the names that the   *)
(* applicant has.                                                          *)
THEOREM DocumentsBear == Spec => []DocumentsBearOut
  <1>1. LoanInv => DocumentsBearOut
    <2> SUFFICES ASSUME LoanInv, NEW a \in Applications, NEW file \in documents[a]
                 PROVE  /\ file.type \in IdentityTypes =>
                              \E i \in DOMAIN application[a].applicants :
                                  BearsOut(application[a].applicants[i], file)
                        /\ file.type = "pay_stub" => "W-2" \notin file.content
                        /\ file.type = "w2" => file.content \cap {"NET PAY", "PAY PERIOD"} = {}
      BY DEF DocumentsBearOut
    <2>1. TypeOK /\ FilesPassed
      BY DEF LoanInv
    <2>2. Exists(a) /\ Passed(a, file) /\ file \in Files
      BY <2>1 DEF FilesPassed, TypeOK
    <2>3. CASE file.type \in IdentityTypes
      <3>1. HasBeenRead(file)
        BY <2>2, <2>3 DEF Passed
      <3>2. PICK i \in DOMAIN application[a].applicants :
               Matches(application[a].applicants[i], file)
        BY <2>2, <2>3 DEF Passed
      <3>3. PICK s \in Statuses, r \in Requests :
               Accepted(r) /\ application[a] = ApplicationRow(s, r)
        BY <2>1, <2>2, ExistingRow
      <3>4. application[a].applicants = Normalized(r).applicants
        BY <3>3 DEF ApplicationRow
      <3>5. BearsOut(Normalized(r).applicants[i], file)
        BY <2>2, <3>1, <3>2, <3>3, <3>4, MatchBearsOut
      <3>6. file.type # "pay_stub" /\ file.type # "w2"
        BY <2>3 DEF IdentityTypes
      <3>7. QED
        BY <3>4, <3>5, <3>6
    <2>4. CASE file.type \notin IdentityTypes
      <3>1. KeywordsMatch(file.type, file.content)
        BY <2>2, <2>4 DEF Passed
      <3>2. QED
        BY <2>4, <3>1, NoForbiddenPhrase
    <2>5. QED
      BY <2>3, <2>4
  <1>2. QED
    BY <1>1, LoanInvariant, PTL

(* The review by created_at is a stored one that no other is newer than.   *)
LEMMA LatestIsNewest ==
    ASSUME NEW a, \E i \in DOMAIN reviews[a] : Newest(reviews[a], reviews[a][i])
    PROVE  \E i \in DOMAIN reviews[a] : LatestReview(a) = reviews[a][i]
                                        /\ Newest(reviews[a], reviews[a][i])
  <1> DEFINE S == {reviews[a][i] : i \in DOMAIN reviews[a]}
             P(r) == \A i \in DOMAIN reviews[a] : r.created >= reviews[a][i].created
  <1>1. PICK r \in S : P(r)
    BY DEF Newest
  <1>2. LatestReview(a) \in S /\ P(LatestReview(a))
    BY <1>1 DEF LatestReview
  <1>3. QED
    BY <1>2 DEF Newest

(* The status of an application and its latest review agree, unless two of *)
(* its reviews have overlapped.                                            *)
THEOREM StatusReviewed == Spec => []StatusIsReviewed
  <1>1. LoanInv => StatusIsReviewed
    <2> SUFFICES ASSUME LoanInv, NEW a \in Applications
                 PROVE  LET shown == Shown(a)
                        IN  /\ shown.latest = None <=> shown.status \in {"NONE", "SUBMITTED"}
                            /\ shown.latest # None =>
                                 /\ \E i \in DOMAIN reviews[a] :
                                        shown.status = StatusOf(reviews[a][i].decision)
                                 /\ a \notin overlapped =>
                                        shown.status = StatusOf(shown.latest.decision)
      BY DEF StatusIsReviewed
    <2> PICK rows : rows = reviews[a]
      OBVIOUS
    <2>1. /\ rows = <<>> => application[a].status \in {"NONE", "SUBMITTED"}
          /\ rows # <<>> => /\ application[a].status = StatusOf(rows[Len(rows)].decision)
                            /\ \E i \in DOMAIN rows : Newest(rows, rows[i])
          /\ a \notin overlapped =>
                \A i, j \in DOMAIN rows : i < j => rows[i].created < rows[j].created
      BY DEF LoanInv, ReviewsFollow
    <2>2. rows \in Seq([created : Nat, decision : Decisions])
      BY DEF LoanInv, TypeOK
    <2>3. CASE rows = <<>>
      <3>1. Shown(a).latest = None /\ Shown(a).status = application[a].status
        BY <2>3 DEF Shown
      <3>2. QED
        BY <2>1, <2>3, <3>1
    <2>4. CASE rows # <<>>
      <3>1. Shown(a).latest = LatestReview(a) /\ Shown(a).status = application[a].status
        BY <2>4 DEF Shown
      <3>2. PICK k \in DOMAIN rows : LatestReview(a) = rows[k] /\ Newest(rows, rows[k])
        BY <2>1, <2>4, LatestIsNewest
      <3>3. Len(rows) \in DOMAIN rows /\ DOMAIN rows = 1..Len(rows) /\ Len(rows) \in Nat
        BY <2>2, <2>4, LenProperties, EmptySeq
      <3>4. rows[k] # None
        <4>1. rows[k] \in [created : Nat, decision : Decisions]
          BY <2>2, <3>2, <3>3, ElementOfSeq
        <4>2. QED
          BY <4>1, InputsAssumption DEF Decisions
      <3>5. application[a].status \notin {"NONE", "SUBMITTED"}
        BY <2>1, <2>4, StatusType
      <3>6. ASSUME a \notin overlapped
            PROVE  k = Len(rows)
        <4>1. rows[k].created \in Nat /\ rows[Len(rows)].created \in Nat
              /\ rows[k].created >= rows[Len(rows)].created
          <5>1. rows[k] \in [created : Nat, decision : Decisions]
                /\ rows[Len(rows)] \in [created : Nat, decision : Decisions]
            BY <2>2, <3>2, <3>3, ElementOfSeq
          <5>2. rows[k].created >= rows[Len(rows)].created
            BY <3>2, <3>3 DEF Newest
          <5>3. QED
            BY <5>1, <5>2
        <4>2. k < Len(rows) => rows[k].created < rows[Len(rows)].created
          BY <2>1, <3>2, <3>3, <3>6
        <4>3. QED
          BY <3>2, <3>3, <4>1, <4>2
      <3>7. /\ Shown(a).latest = rows[k] /\ Shown(a).latest # None
            /\ Shown(a).status \notin {"NONE", "SUBMITTED"}
            /\ Shown(a).status = StatusOf(rows[Len(rows)].decision)
            /\ a \notin overlapped => Shown(a).status = StatusOf(Shown(a).latest.decision)
        BY <2>1, <2>4, <3>1, <3>2, <3>4, <3>5, <3>6
      <3>8. QED
        BY <3>3, <3>7
    <2>5. QED
      BY <2>3, <2>4
  <1>2. QED
    BY <1>1, LoanInvariant, PTL
=============================================================================
