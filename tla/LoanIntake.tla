------------------------------ MODULE LoanIntake ------------------------------
(***************************************************************************)
(* A loan application in the intake agent: it is submitted, its documents  *)
(* are uploaded, read and compared with its applicants, and reviewers      *)
(* decide on it.  The request ids that keep these operations from running  *)
(* twice are IntakeRequests' subject: here an application is submitted     *)
(* once and nobody uploads a file that is being uploaded.                  *)
(*                                                                         *)
(* The agent is one process with one event loop, so an action is what a    *)
(* handler does between two awaits that others can get between: a picture  *)
(* is put into the bucket, read and removed in one go, for these calls     *)
(* block the loop.                                                         *)
(***************************************************************************)
EXTENDS DocumentRules

CONSTANTS Workers, Applications,
          Requests,        \* the forms that can be submitted
          Files,           \* the documents that can be uploaded
          WriteOutcomes,   \* how a commit ends, as in IntakeRequests
          BucketOutcomes,  \* how a call of the bucket ends: "done", "refused"
          ReaderOutcomes,  \* how a call of Textract ends: "raised" is an error
                           \* that is no ClientError, such as a timeout
          MayCrash,
          MaxBegun         \* bound: uploads and reviews of an application
ASSUME LoanIntakeAssumption ==
    /\ WriteOutcomes \subseteq {"done", "refused", "unacknowledged"} /\ "done" \in WriteOutcomes
    /\ BucketOutcomes \subseteq {"done", "refused"} /\ "done" \in BucketOutcomes
    /\ ReaderOutcomes \subseteq {"done", "refused", "raised"} /\ "done" \in ReaderOutcomes
    /\ MayCrash \in BOOLEAN /\ MaxBegun \in Nat
ASSUME InputsAssumption ==
    /\ \A request \in Requests : IsForm(request)
    /\ \A file \in Files : IsReading(file)
    /\ None \notin [created : Nat, decision : {"APPROVE", "REJECT"}]

VARIABLES application,  \* loan_application with its applicants and validation results
          documents,    \* pgsqldocument
          reviews,      \* human_review, in the order of the commits
          audit,        \* audit_logs
          bucket,       \* the file under each key, one per application and type
          litter,       \* kinds of temporary files nobody will remove
          handler,      \* the requests being handled
          begun,        \* history: uploads and reviews that have begun
          unread,       \* history: applications in whose passport in the bucket
                        \* Textract has raised
          overlapped,   \* history: applications two of whose reviews overlapped
          faulted       \* history: a crash, or a removal that failed
dbVars == <<application, documents, reviews, audit>>
vars == <<dbVars, bucket, litter, handler, begun, unread, overlapped, faulted>>

NoApplication == [status |-> "NONE", applicants |-> <<>>, issues |-> {}]
Exists(a) == application[a].status # "NONE"
Decisions == {"APPROVE", "REJECT"}
IdentityTypes == {"passport", "drivers_license", "ssn_card"}

Idle == [pc |-> "idle", app |-> None, file |-> None, temp |-> {}, created |-> 0, decision |-> None]

Init ==
    /\ application = [a \in Applications |-> NoApplication]
    /\ documents = [a \in Applications |-> {}]
    /\ reviews = [a \in Applications |-> <<>>]
    /\ audit = {}
    /\ bucket = [k \in Applications \X IdentityTypes |-> None]
    /\ litter = {}
    /\ handler = [w \in Workers |-> Idle]
    /\ begun = [a \in Applications |-> 0]
    /\ unread = {}
    /\ overlapped = {}
    /\ faulted = FALSE

-----------------------------------------------------------------------------
At(w, pc) == handler[w].pc = pc
AppOf(w) == handler[w].app
FileOf(w) == handler[w].file
KeyOf(w) == <<AppOf(w), FileOf(w).type>>
Stored(outcome) == outcome # "refused"

(* after_insert: the rows a flush creates are logged in its transaction;   *)
(* a review is not, nor is the UPDATE that sets an application's status.   *)
Created(a, table, row) == [action |-> "CREATE", application |-> a, table |-> table, row |-> row]
RowsOf(a, request) ==
    {Created(a, "loan_application", None)}
        \cup {Created(a, "applicant", request.applicants[i]) : i \in DOMAIN request.applicants}

(* A handler that ends, with an answer or an error: `finally` removes the  *)
(* uploaded file.                                                          *)
Finish(w) == handler' = [handler EXCEPT ![w] = Idle] /\ UNCHANGED litter

-----------------------------------------------------------------------------
(* Submitting an application *)

(* submit_application: nothing is stored of a form that is blocked, or     *)
(* that the normalisation trips over; an e-mail address is used once.      *)
Accepted(request) ==
    /\ WellFormed(request)
    /\ BlockingErrors(request) = {}
    /\ ~NormalizeRaises(request)
EmailsOf(applicants) ==
    {applicants[i].email : i \in DOMAIN applicants} \ {None}
EmailIsUsed(request) ==
    \/ \E i, j \in DOMAIN request.applicants :
         i # j /\ request.applicants[i].email # None
               /\ request.applicants[i].email = request.applicants[j].email
    \/ \E a \in Applications : EmailsOf(application[a].applicants) \cap EmailsOf(request.applicants) # {}

ApplicationRow(status, request) ==
    [status |-> status, applicants |-> Normalized(request).applicants,
     issues |-> IssuesOf(Normalized(request))]

SubmitApplication(a, request) ==
    /\ ~Exists(a)
    /\ Accepted(request) /\ ~EmailIsUsed(request)
    /\ application' = [application EXCEPT ![a] = ApplicationRow("SUBMITTED", request)]
    /\ audit' = audit \cup RowsOf(a, Normalized(request))
    /\ UNCHANGED <<documents, reviews, bucket, litter, handler, begun, unread, overlapped, faulted>>

-----------------------------------------------------------------------------
(* Uploading a document *)

(* upload_document, for an application that exists and a file that is not  *)
(* empty, up to the execution by the guard.                                *)
ReceiveFile(w, a, file) ==
    /\ At(w, "idle")
    /\ Exists(a)
    /\ file.type \in UploadedTypes
    /\ file \notin documents[a]
    /\ \A v \in Workers : ~(AppOf(v) = a /\ FileOf(v) = file)
    /\ begun[a] < MaxBegun
    /\ begun' = [begun EXCEPT ![a] = @ + 1]
    /\ handler' = [handler EXCEPT ![w] = [Idle EXCEPT !.pc = "check", !.app = a, !.file = file]]
    /\ UNCHANGED <<dbVars, bucket, litter, unread, overlapped, faulted>>

(* The checks of type, MIME type, size and resolution, then the temporary  *)
(* file.                                                                   *)
CheckFile(w) ==
    /\ At(w, "check")
    /\ IF FitsItsType(FileOf(w))
       THEN /\ handler' = [handler EXCEPT ![w].pc = "read", ![w].temp = {"upload"}]
            /\ UNCHANGED litter
       ELSE Finish(w)
    /\ UNCHANGED <<dbVars, bucket, begun, unread, overlapped, faulted>>

(* An upload into the bucket: a refusal is swallowed by whoever called.    *)
Put(w, outcome) == IF outcome = "done" THEN [bucket EXCEPT ![KeyOf(w)] = FileOf(w)] ELSE bucket

(* process_single_dl up to the comparison: a licence that is valid in      *)
(* itself is uploaded, one without a barcode is refused.                   *)
ReadLicence(w) ==
    /\ At(w, "read") /\ FileOf(w).type = "drivers_license"
    /\ LET licence == FileOf(w).content
       IN  IF licence.barcode # "PDF417"
           THEN Finish(w) /\ UNCHANGED bucket
           ELSE /\ IF LicenceIsValid(licence) THEN \E o \in BucketOutcomes : bucket' = Put(w, o)
                   ELSE UNCHANGED bucket
                /\ handler' = [handler EXCEPT ![w].pc = "match"]
                /\ UNCHANGED litter
    /\ UNCHANGED <<dbVars, begun, unread, overlapped, faulted>>

(* What PassportOCR does about a reading: the picture is removed from the  *)
(* bucket unless it was read or something raised, and the image made of it *)
(* from the disk unless it is no passport or something raised.             *)
RemovedFromBucket(reading) == reading \in {"ocr_failed", "not_passport", "invalid_mrz"}
LeftOnDisk(reading) == reading \in {"not_passport", "raises"}

\* mutant: what is no passport stays in the bucket
ReadPassport_KeepsOthers(w) ==
    /\ At(w, "read") /\ FileOf(w).type = "passport"
    /\ LET reading == PassportReading(FileOf(w).content, "done")
       IN  /\ bucket' = IF reading = "ocr_failed" THEN [bucket EXCEPT ![KeyOf(w)] = None]
                        ELSE [bucket EXCEPT ![KeyOf(w)] = FileOf(w)]
           /\ IF reading = "success"
              THEN handler' = [handler EXCEPT ![w].pc = "match", ![w].temp = {}] /\ UNCHANGED litter
              ELSE Finish(w)
    /\ UNCHANGED <<dbVars, begun, unread, overlapped, faulted>>

(* PassportOCR.process_file.  A reading that failed has no data, on which  *)
(* the comparison raises: the answer is an error anyway.                   *)
ReadPassport(w) ==
    /\ At(w, "read") /\ FileOf(w).type = "passport"
    /\ \E put, delete \in BucketOutcomes, call \in ReaderOutcomes :
         LET uploaded == ImageIsReadable(FileOf(w)) /\ put = "done"
             reading == IF uploaded THEN PassportReading(FileOf(w).content, call) ELSE "not_uploaded"
             removes == RemovedFromBucket(reading)
         IN  /\ IF uploaded
                THEN /\ bucket' = [bucket EXCEPT ![KeyOf(w)] =
                                     IF removes /\ delete = "done" THEN None ELSE FileOf(w)]
                     /\ unread' = IF call = "raised" THEN unread \cup {AppOf(w)}
                                  ELSE unread \ {AppOf(w)}
                ELSE UNCHANGED <<bucket, unread>>
             /\ faulted' = (faulted \/ (removes /\ delete = "refused"))
             /\ litter' = litter \cup (IF LeftOnDisk(reading) THEN {"image"} ELSE {})
             /\ handler' = [handler EXCEPT ![w] =
                              IF reading = "success" THEN [@ EXCEPT !.pc = "match", !.temp = {}]
                              ELSE Idle]
    /\ UNCHANGED <<dbVars, begun, overlapped>>

(* The image is preprocessed, which may raise, then AWSOCR.process_file    *)
(* and validate_ssn.  A picture in which there is a line, or on which      *)
(* Textract raised, stays in the bucket, whatever it shows.                *)
ReadCard(w) ==
    /\ At(w, "read") /\ FileOf(w).type = "ssn_card"
    /\ IF PreprocessRaises(FileOf(w))
       THEN Finish(w) /\ UNCHANGED <<bucket, faulted>>
       ELSE \E put, delete \in BucketOutcomes, call \in ReaderOutcomes :
              LET card == FileOf(w).content
                  uploaded == ImageIsReadable(FileOf(w)) /\ put = "done"
                  removes == /\ uploaded
                             /\ call = "refused" \/ (call = "done" /\ ~card.lines)
              IN  /\ bucket' = IF ~uploaded THEN bucket
                               ELSE [bucket EXCEPT ![KeyOf(w)] =
                                       IF removes /\ delete = "done" THEN None ELSE FileOf(w)]
                  /\ faulted' = (faulted \/ (removes /\ delete = "refused"))
                  /\ litter' = litter \cup (IF uploaded /\ call = "raised" THEN {"image"} ELSE {})
                  /\ handler' = [handler EXCEPT ![w] =
                                   IF uploaded /\ call = "done" /\ CardIsValid(card)
                                   THEN [@ EXCEPT !.pc = "match", !.temp = {}] ELSE Idle]
    /\ UNCHANGED <<dbVars, begun, unread, overlapped>>

(* Textract, any error of which escapes, and KeywordDocumentValidator.     *)
(* The temporary file is removed before it is uploaded, so that the bucket *)
(* never gets one.                                                         *)
ReadIncomeDocument(w) ==
    /\ At(w, "read") /\ FileOf(w).type \notin IdentityTypes
    /\ \E call \in ReaderOutcomes :
         LET file == FileOf(w)
         IN  IF /\ ~PreprocessRaises(file) /\ call = "done"
                /\ KeywordsMatch(file.type, file.content)
           THEN handler' = [handler EXCEPT ![w].pc = "store", ![w].temp = {}] /\ UNCHANGED litter
           ELSE Finish(w)
    /\ UNCHANGED <<dbVars, bucket, begun, unread, overlapped, faulted>>

(* CrossValidationService: get_primary_by_application_id takes any of the  *)
(* applicants, and raises where there is none.  A licence is refused after *)
(* the comparison only, and then licences and passports are preprocessed.  *)
Matches(applicant, file) ==
    CASE file.type = "passport"        -> PassportMatches(applicant, file.content.mrz)
      [] file.type = "drivers_license" -> LicenceMatches(applicant, file.content)
                                              /\ LicenceIsValid(file.content)
      [] OTHER                         -> CardMatches(applicant, file.content)

MatchApplicant(w) ==
    /\ At(w, "match")
    /\ \/ application[AppOf(w)].applicants = <<>> /\ Finish(w)
       \/ \E i \in DOMAIN application[AppOf(w)].applicants :
            IF /\ Matches(application[AppOf(w)].applicants[i], FileOf(w))
               /\ ~PreprocessRaises(FileOf(w))
            THEN handler' = [handler EXCEPT ![w].pc = "store", ![w].temp = {}] /\ UNCHANGED litter
            ELSE Finish(w)
    /\ UNCHANGED <<dbVars, bucket, begun, unread, overlapped, faulted>>

\* mutant: the log is written by a transaction of its own
StoreDocument_LogsApart(w) ==
    /\ At(w, "store")
    /\ \E outcome \in WriteOutcomes :
         /\ documents' = IF Stored(outcome) THEN [documents EXCEPT ![AppOf(w)] = @ \cup {FileOf(w)}]
                         ELSE documents
         /\ audit' = audit \cup {Created(AppOf(w), "pgsqldocument", FileOf(w))}
    /\ Finish(w)
    /\ UNCHANGED <<application, reviews, bucket, begun, unread, overlapped, faulted>>

(* The document and its log entry are committed; marking the request as    *)
(* completed changes nothing here.                                         *)
StoreDocument(w) ==
    /\ At(w, "store")
    /\ \E outcome \in WriteOutcomes :
         IF Stored(outcome)
         THEN /\ documents' = [documents EXCEPT ![AppOf(w)] = @ \cup {FileOf(w)}]
              /\ audit' = audit \cup {Created(AppOf(w), "pgsqldocument", FileOf(w))}
         ELSE UNCHANGED <<documents, audit>>
    /\ Finish(w)
    /\ UNCHANGED <<application, reviews, bucket, begun, unread, overlapped, faulted>>

-----------------------------------------------------------------------------
(* Reviews *)

Reviewing(a) == {w \in Workers : AppOf(w) = a /\ At(w, "review")}

(* submit_review: the first statement begins the transaction, whose time   *)
(* will be the review's created_at.                                        *)
BeginReview(w, a, decision) ==
    /\ At(w, "idle")
    /\ Exists(a)
    /\ begun[a] < MaxBegun
    /\ begun' = [begun EXCEPT ![a] = @ + 1]
    /\ handler' = [handler EXCEPT ![w] = [Idle EXCEPT !.pc = "review", !.app = a,
                                            !.created = begun[a] + 1, !.decision = decision]]
    /\ overlapped' = IF Reviewing(a) # {} THEN overlapped \cup {a} ELSE overlapped
    /\ UNCHANGED <<dbVars, bucket, litter, unread, faulted>>

StatusOf(decision) == IF decision = "APPROVE" THEN "APPROVED" ELSE "REVISION_REQUIRED"
ReviewOf(w) == [created |-> handler[w].created, decision |-> handler[w].decision]

\* mutant: the review is committed on its own, and the status with the answer
StoreReview_TwoCommits(w) ==
    /\ At(w, "review")
    /\ \E first, second \in WriteOutcomes :
         /\ reviews' = IF Stored(first) THEN [reviews EXCEPT ![AppOf(w)] = Append(@, ReviewOf(w))]
                       ELSE reviews
         /\ application' = IF first = "done" /\ Stored(second)
                           THEN [application EXCEPT ![AppOf(w)].status = StatusOf(handler[w].decision)]
                           ELSE application
    /\ Finish(w)
    /\ UNCHANGED <<documents, audit, bucket, begun, unread, overlapped, faulted>>

(* The UPDATE locks the application until the session is committed, with   *)
(* the review, behind the handler's back: so both are one step.            *)
StoreReview(w) ==
    /\ At(w, "review")
    /\ \E outcome \in WriteOutcomes :
         IF Stored(outcome)
         THEN /\ reviews' = [reviews EXCEPT ![AppOf(w)] = Append(@, ReviewOf(w))]
              /\ application' = [application EXCEPT ![AppOf(w)].status = StatusOf(handler[w].decision)]
         ELSE UNCHANGED <<reviews, application>>
    /\ Finish(w)
    /\ UNCHANGED <<documents, audit, bucket, begun, unread, overlapped, faulted>>

\* mutant: the oldest review is taken for the latest
LatestReview_Oldest(a) ==
    CHOOSE r \in {reviews[a][i] : i \in DOMAIN reviews[a]} :
        \A i \in DOMAIN reviews[a] : r.created <= reviews[a][i].created

(* get_latest_human_review, by created_at.                                 *)
LatestReview(a) ==
    CHOOSE r \in {reviews[a][i] : i \in DOMAIN reviews[a]} :
        \A i \in DOMAIN reviews[a] : r.created >= reviews[a][i].created

(* get_by_application_id, which reads and changes nothing.                 *)
Shown(a) ==
    [status |-> application[a].status,
     latest |-> IF reviews[a] = <<>> THEN None ELSE LatestReview(a)]

Crash(w) ==
    /\ MayCrash
    /\ ~At(w, "idle")
    /\ handler' = [handler EXCEPT ![w] = Idle]
    /\ litter' = litter \cup handler[w].temp
    /\ faulted' = TRUE
    /\ UNCHANGED <<dbVars, bucket, begun, unread, overlapped>>

Next ==
    \/ \E a \in Applications, request \in Requests : SubmitApplication(a, request)
    \/ \E w \in Workers :
         \/ \E a \in Applications, file \in Files : ReceiveFile(w, a, file)
         \/ CheckFile(w) \/ ReadLicence(w) \/ ReadPassport(w) \/ ReadCard(w)
         \/ ReadIncomeDocument(w) \/ MatchApplicant(w) \/ StoreDocument(w)
         \/ \E a \in Applications, d \in Decisions : BeginReview(w, a, d)
         \/ StoreReview(w) \/ Crash(w)

Spec == Init /\ [][Next]_vars

-----------------------------------------------------------------------------
Handlers == {"idle", "check", "read", "match", "store", "review"}

Statuses == {"SUBMITTED", "APPROVED", "REVISION_REQUIRED"}
Rows == {NoApplication} \cup
            {ApplicationRow(s, r) : s \in Statuses, r \in {r \in Requests : Accepted(r)}}
Handler == [pc : Handlers, app : Applications \cup {None}, file : Files \cup {None},
            temp : SUBSET {"upload"}, created : Nat, decision : Decisions \cup {None}]

TypeOK ==
    /\ application \in [Applications -> Rows]
    /\ documents \in [Applications -> SUBSET Files]
    /\ reviews \in [Applications -> Seq([created : Nat, decision : Decisions])]
    /\ bucket \in [Applications \X IdentityTypes -> Files \cup {None}]
    /\ handler \in [Workers -> Handler]
    /\ begun \in [Applications -> 0..MaxBegun]
    /\ unread \subseteq Applications /\ faulted \in BOOLEAN

(* What a stored document has in common with an applicant.  A passport     *)
(* prints two digits of the year of birth, so that the years are equal     *)
(* only within the hundred years the reader takes them for, and it may     *)
(* show any name where the applicant's was nothing but blanks.             *)
BearsOut(applicant, file) ==
    CASE file.type = "passport" ->
             /\ applicant.last.text # "" =>
                    file.content.mrz.surname.text = applicant.last.text
             /\ applicant.first.text # "" =>
                    \E name \in file.content.mrz.given : name.text = applicant.first.text
             /\ file.content.mrz.birth \in 1931..2030 => file.content.mrz.birth = applicant.dob
      [] file.type = "drivers_license" ->
             /\ file.content.last.text = applicant.last.text
             /\ file.content.birth = applicant.dob
             /\ applicant.addresses # <<>> /\ "state" \notin file.content.missing =>
                    \E j \in DOMAIN applicant.addresses :
                        file.content.state = applicant.addresses[j].state
      [] OTHER -> file.content.last4 = applicant.last4

(* A document that is stored with an application bears out one of its      *)
(* applicants: a passport and a licence show the name and the date of      *)
(* birth, a licence the state as well, a card the last digits of the       *)
(* number.  Only an applicant stored without a surname is borne out by the *)
(* passport of a person of any.  An income document does not show what     *)
(* only a document of another type does.  The comparison runs after an     *)
(* await, and on another row than the one the document is stored in.       *)
DocumentsBearOut ==
    \A a \in Applications : \A file \in documents[a] :
        /\ file.type \in IdentityTypes =>
               \E i \in DOMAIN application[a].applicants :
                   BearsOut(application[a].applicants[i], file)
        /\ file.type = "pay_stub" => "W-2" \notin file.content
        /\ file.type = "w2" => file.content \cap {"NET PAY", "PAY PERIOD"} = {}

(* What the normalisation can have made of an applicant that passed the    *)
(* blocking validation: a text of blanks is empty now, or too short.       *)
Softened(applicant) ==
    {"dob", "email"}
        \cup Where(applicant.first.text # "", "first_name")
        \cup Where(applicant.last.text # "", "last_name")
        \cup (IF applicant.employment = None THEN {}
              ELSE Where(applicant.employment.employer.text \notin {"", "short"}, "employer_name")
                       \cup Where(applicant.employment.title.text \notin {"", "short"}, "job_title"))
        \cup UNION {LET address == applicant.addresses[j]
                    IN  Where(address.line.text \notin {"", "short"}, "line1")
                            \cup Where(address.city.text \notin {"", "short"}, "city")
                            \cup Where(~address.zip.plus4, "zip") : j \in DOMAIN applicant.addresses}

(* The issues of a stored application are minors, e-mail addresses, and    *)
(* what the normalisation did to values that had passed: it empties or     *)
(* shortens a text of blanks, and takes the dash out of a ZIP code of nine *)
(* digits.  Names with digits, last digits of another form, states, types  *)
(* of employment and incomes that docs/error-semantics.md would have among *)
(* them have all been blocked.                                             *)
OnlySoftIssues ==
    \A a \in Applications :
        LET row == application[a]
        IN  row.issues \subseteq UNION {Softened(row.applicants[i]) : i \in DOMAIN row.applicants}

(* Unless a crash or a failed removal prevents it, no uploaded file stays  *)
(* on the disk once its request has ended, however it ended, and the       *)
(* bucket keeps no picture as a passport that turned out to be none.  What *)
(* does stay are the images made of refused passports and of any picture   *)
(* on which Textract raised, and the picture itself in the bucket until    *)
(* another one is put there.                                               *)
RefusedIsRemoved ==
    ~faulted => /\ litter \subseteq {"image"}
                /\ \A a \in Applications \ unread :
                     LET kept == bucket[<<a, "passport">>]
                     IN  kept # None => /\ IsPassport(kept.content.text)
                                        /\ Cardinality(MrzLines(kept.content.zone)) > 1

(* A status other than SUBMITTED goes back to a review that is stored, and *)
(* where reviews did not overlap it is the latest one's: the two that      *)
(* get_by_application_id shows agree.  Two that overlap are ordered one    *)
(* way by their beginning and another by their commits.                    *)
StatusIsReviewed ==
    \A a \in Applications :
        LET shown == Shown(a)
        IN  /\ shown.latest = None <=> shown.status \in {"NONE", "SUBMITTED"}
            /\ shown.latest # None =>
                 /\ \E i \in DOMAIN reviews[a] : shown.status = StatusOf(reviews[a][i].decision)
                 /\ a \notin overlapped => shown.status = StatusOf(shown.latest.decision)

LogOf(a) ==
    IF ~Exists(a) THEN {}
    ELSE RowsOf(a, application[a])
             \cup {Created(a, "pgsqldocument", file) : file \in documents[a]}

(* The log has an entry for a document, an applicant or an application if  *)
(* and only if it is stored: the listeners write in the transaction of     *)
(* what they log.                                                          *)
LogIsExact == audit = UNION {LogOf(a) : a \in Applications}

-----------------------------------------------------------------------------
(* What the handlers know, and how the reviews of an application follow    *)
(* one another: the strengthening with which the properties above are      *)
(* inductive.                                                              *)

(* Who is busy is so with an application that exists, and has read a file. *)
HandlersBusy ==
    \A w \in Workers :
        /\ ~At(w, "idle") => AppOf(w) \in Applications /\ Exists(AppOf(w))
        /\ handler[w].pc \in {"check", "read", "match", "store"} =>
               FileOf(w) \in Files /\ FileOf(w).type \in UploadedTypes

(* What has been made sure of a file before it is compared, and before it *)
(* is stored.                                                              *)
HasBeenRead(file) ==
    /\ file.type \in IdentityTypes
    /\ file.type = "passport" => file.content.mrz # None
Passed(a, file) ==
    IF file.type \in IdentityTypes
    THEN HasBeenRead(file) /\ \E i \in DOMAIN application[a].applicants :
                                 Matches(application[a].applicants[i], file)
    ELSE KeywordsMatch(file.type, file.content)

FilesPassed ==
    /\ \A w \in Workers : /\ At(w, "match") => HasBeenRead(FileOf(w))
                          /\ At(w, "store") => Passed(AppOf(w), FileOf(w))
    /\ \A a \in Applications : /\ documents[a] # {} => Exists(a)
                               /\ \A file \in documents[a] : Passed(a, file)

Newest(rows, r) == \A i \in DOMAIN rows : r.created >= rows[i].created

(* The status is that of the review committed last; unless reviews have    *)
(* overlapped, they were committed in the order in which they began.       *)
ReviewsFollow ==
    /\ \A w \in Workers : At(w, "review") => /\ handler[w].created \in 1..begun[AppOf(w)]
                                              /\ handler[w].decision \in Decisions
    /\ \A a \in Applications :
          LET rows == reviews[a]
          IN  /\ \A i \in DOMAIN rows : rows[i].created \in 1..begun[a]
              /\ rows = <<>> => application[a].status \in {"NONE", "SUBMITTED"}
              /\ rows # <<>> => /\ application[a].status = StatusOf(rows[Len(rows)].decision)
                                /\ \E i \in DOMAIN rows : Newest(rows, rows[i])
              /\ a \notin overlapped =>
                     /\ \A v, w \in Reviewing(a) : v = w
                     /\ \A w \in Reviewing(a) : \A i \in DOMAIN rows :
                            rows[i].created < handler[w].created
                     /\ \A i, j \in DOMAIN rows : i < j => rows[i].created < rows[j].created

LoanInv == TypeOK /\ HandlersBusy /\ FilesPassed /\ RefusedIsRemoved /\ ReviewsFollow /\ LogIsExact
=============================================================================
