# A verification project for the loan agents

The repository is a loan pipeline built from five services: an intake agent, a KYC
agent, a decisioning agent, a disbursement agent, and an orchestrator that calls the
last three over HTTP and talks to the user. This directory holds TLA+ models of all
five, the TLC runs that check them, and proofs, checked by TLAPS, of every safety
property that holds in the runs. It started at the end of the pipeline, where a mistake
costs most, and worked backwards.

    user --HTTP/SSE--> orchestrator --HTTP--> KYC agent
                            |     \---HTTP--> decisioning agent
                            \---HTTP--> disbursement agent --> database, gateway
    user --HTTP--> intake agent --> database, callback to the client

## The system

Paths are relative to `src/`; "agent" paths are below `agents/<name>/src`.

### Disbursement agent (`agents/disbursment_agent`) - modelled

`POST /disburse` runs `services/orchestrator.py`. A request is hashed, the
idempotency row of its application is read and resolved (`services/idempotency.py`:
409 for other terms, the cached receipt if COMPLETED, 202 if PROCESSING), the row
is inserted, the graph runs (validate, schedule, transfer, receipt), then the
record, each transition, the completed row and the audit row are stored.

- State: four tables (idempotency row per application, records, transitions,
  service audit), a node audit log, and the gateway's transfers.
- Interaction: every repository method commits by itself, so requests interleave
  between any two of them; one session serves a request and is never rolled back.
- Hard: two requests that both find no row; a process that dies between the
  transfer and the completed row; a commit whose acknowledgement is lost; an
  error handler that runs on a session that is itself broken; an audit write in
  `finally` whose exception replaces a good answer; a pool of five connections.
- Correct if: money moves at most once and only under a claim of the same terms,
  books and answers agree with the transfer, and claims get settled.

### Orchestrator (`orchestrator`) - modelled

`services/pipeline_service.py` runs KYC and underwriting, parks an offer in the
in-memory store (`store/pipeline_state_store.py`), and on confirmation calls the
disbursement agent. `api/routes.py` also has background runs, a `ProgressBroker`
with a bounded event buffer per application, and an SSE stream of it.

- State: the store, the buffers, subscriber queues, end times and running tasks.
- Interaction: asyncio; code between two awaited calls is atomic. The broker's
  lock is never waited for, because nothing is awaited while it is held.
- Hard: a cancel, a re-run or a restart while a confirmation waits for the agent;
  a timeout after which the agent goes on, or is only then reached; a 202 that
  passes `raise_for_status`; clients that subscribe while events are published;
  the buffer of one run reused by the next; services that disagree on a payload.
- Correct if: what is paid was offered and confirmed, what is reported is about
  what was claimed, offers survive failures, and streams miss nothing and end.

### Decisioning agent (`agents/decisioning_agent`) - modelled

`services/underwriting_service.py` looks for a failed thread, invokes a LangGraph
(masking, seven parallel analyses, an aggregation, a decision, perhaps a counter
offer, a final response) on the checkpoint thread `underwriting_<application>`,
commits the decision, and deletes or upserts the failure record. The analyses and
the decision are asked of a language model through `services/llm_executor.py`,
which retries, runs into a time limit, and may have a fallback.

- State: decisions, failure records, checkpoints.
- Hard: two runs of an application share a thread and a failure record; an
  earlier run's counter offer and its list of completed tasks stay in the
  checkpoint; the decision is committed before the failure record goes.
- Correct if: a stored decision is built from its own request and an answer is
  stored; the tier follows the weights, and a hard decline overrides every score.

### KYC agent (`agents/kyc_agent`) - modelled

`services/kyc_services/kyc_orchestrator.py` looks up the idempotency key, opens a
case, runs a graph (four checks in parallel, the risk rules of
`workflows/kyc_engine/rules/kyc_rules.yaml`, an explanation) on the thread of the
applicant, stores the identity check and closes the case. Checks ask a mock bureau
and write audit rows in sessions of their own.

- State: cases, identity checks, failure records, node audit rows, checkpoints.
- Hard: the request row is looked up but nothing creates it, so every repeat is a
  new run on the same thread; the failure record's commit also commits the case;
  case and check are settled in a second transaction.
- Correct if: a case ends in the status of its own check, an answer is stored and
  audited, and no fatal flag is outweighed by good signs.

### Intake agent (`agents/intake_agent`) - modelled, but for routes not mounted

`services/idempotency_guard.py` wraps three operations over one table: submitting
an application, uploading a document (its id is a hash of the file), and `/intake`,
which stores metadata and callback, starts a task of the process
(`services/inprocess_executor.py`) and answers "accepted". The task marks the
callback as sent and then sends it (`services/callback_service.py`).

A submission is validated, normalized, and validated again for issues that do not
block (`utils/validation`, `domain/validation`, `domain/normalization`). A document
is checked, put into a bucket, read (`domain/document_validation`), compared with
an applicant (`services/cross_validation_service.py`) and stored.
`services/human_in_loop_services` reviews applications. Listeners
(`audit/mapper_event`) log what is stored.

- State: the idempotency table, applications and their parts, documents, bucket
  and temporary files, reviews, the change log, callbacks, jobs in memory.
- Hard: check-then-insert; a row left RECEIVED blocks its id; an upload that
  fails deletes the row by id, perhaps that of another upload; a restart between
  acceptance and callback; files kept by a refusal half-way; what is stored is not
  what was validated; reviews ordered one way by time and another by commit.
- Correct if: a request id is stored once, an answer is about what was stored for
  that payload, a rejected document can be sent again, a callback is sent at most
  once; a stored document bears out an applicant, a refused one leaves nothing, and
  status, reviews and log agree with what is stored.

### The rest

The vault wrappers (`vault`) are thin calls of an external service and unused;
`tools`, `infra` and `docs` do not take part in serving an application.

## Modules

| module | models | how it corresponds |
|---|---|---|
| `DisbursementFlow` | the terms, the gateway's answer, the final graph state, the receipt, the derived history | pure operators, one per function; money in integers, times left out |
| `DisbursementGraph` | the LangGraph | one action per node, routing edge included |
| `Disbursement` | the service, its repositories and tables | one action per committed call, see below |
| `PayoutContract` | what the agent promises | abstract: open, claimed, paid, settled, void, disowned |
| `DisbursementProofs`, `PipelineProofs`, `StreamProofs`, `KycProofs`, `UnderwritingProofs` | theorems about the modules of these names | |
| `GraphProofs` | theorems about `DisbursementGraph` and `Amortization` | |
| `IntakeProofs`, `LoanProofs` | theorems about `IntakeRequests` and `LoanIntake` | |
| `Pipeline` | the orchestrator's pipeline and store | one action per stretch between two HTTP calls; the agent is `PayoutContract` |
| `ProgressStream` | broker, background runs, SSE clients | one action per broker call or run stretch |
| `Amortization` | `disbursement_calculator.py` | one action per installment |
| `Underwriting`, `DecisionRules` | the decisioning service with its graph; what the nodes compute | one action per superstep of the graph and per committed call; one operator per prompt, node or fallback |
| `KycVerification`, `KycRules` | the KYC service with its graph; bureau, checks and rules | as above |
| `IntakeRequests` | the intake agent's guard, submission, upload, jobs and callbacks | one action per stretch up to a commit, and one per step of a job |
| `LoanIntake`, `ApplicationRules`, `DocumentRules` | what the guarded operations do: validation, normalization, reading and comparing documents, storage, reviews, change log | one action per stretch between two awaits; one operator per validator, normalizer, reader or comparison |
| `MC...` | the instances TLC checks | |

**Disbursement.** `handler[w]` is the local state of a request: program counter,
arguments, the receipt in hand, the transitions still to store, whether the row was
created, whether the session is broken. `ReadRow`, `CreateRow`, `SaveRecord`,
`SaveTransition`, `MarkCompleted`, `MarkFailed` and `SaveAudit` are the awaited calls in
the order of the code, `RunGraph` the graph run between them (it does not await). A
database call ends "done", "refused" (raises, nothing stored) or "unacknowledged"
(stored, and raises); either of the last two breaks the session, because the code never
rolls it back. A call that begins with `session.execute` (`get`, `mark_completed`,
`mark_failed`) may also end "unconnected": each commit gives the connection back, and
one that cannot be had again (the pool of five is exhausted, `core/database.py:19`, or a
connect fails) raises before a transaction has begun and leaves the session usable. So
`mark_failed` in the error handler works when the exception came from the graph, and
when `mark_completed` was given no connection: then a payout that was made and recorded
is marked FAILED. `Crash` drops a handler at any point. The payload hash is taken to be
injective.

**Pipeline.** A job is one HTTP request being served. `Deliver`, `Receipted` and
`DisburseFails` are the ways the call of the agent can go; a call the client has given
up on may still reach the agent (`late`). Underwriting answers are sets of keys. The
decisioning service returns them "flat" (`approved_tenure`, no `application_id`), while
`_normalize_underwriting_response` is written for the "nested" payload its final node
builds, which its state schema then drops. Both shapes are in the safety run. With flat
answers alone no payload the orchestrator sends is complete, so nothing is ever paid:
properties about payouts bite on the nested ones. `offered`, `newest` (the approval
announced last), `consent`, `withdrawn` (what has taken it back: the user, a restart or
a report; a counter offer resets `newest`) and `reports` are history variables for the
properties, no step reads them. `SelectOffer` can only fail: the saved options are the
whole counter-offer object, and the search indexes its keys. The resume routes pass no
progress callback and so do not publish.

**ProgressStream.** One application; other applications matter only as the
moments at which `Sweep` may happen. `published`, and `next` and `shown` of a
stream, are history variables. `Expire` lets the half hour pass.

**IntakeRequests.** `handler[w]` is a request being served, `row` the
idempotency table. `ReadRow` and `CreateRow` are the guard; `Reject`,
`StoreApplication`, `StoreDocument` and `Accept` the ways the guarded operation
can go; `Complete` is `mark_completed` and `Delete` the error handler of an
upload. Database calls fail as in `Disbursement`, but these handlers roll their
session back, so the error handler can go on using it. What the checks of a
document or an application look at is left open here, so `Reject` may happen to any
(`LoanIntake` says which). An
intake never completes its row, so each repeat is refused, where
`agents/intake_agent/docs/prd.md` has a duplicate answered from the cache; a
submission that fails leaves its row RECEIVED and its id blocked. `answers` and
`faulted` are history variables.

**Underwriting.** A run is numbered by the request it serves; the channels of the graph
carry the number of the run that wrote them, so the properties can tell what was taken
from another run. A superstep writes its channels and the checkpoint at once;
`GraphFails` may happen before each, for an evaluation may exhaust its attempts and a
checkpoint may not be written. An analysis or a masking by a language model is taken to
come out as its prompt lays down, or not at all. The decision may be the one its prompt
lays down, none, or any other that can be parsed (`ComposedDecisions`), for nothing in
the code compares it with the policy; so may a counter offer. When a model does not
reply, `ExecuteLlm` gives the code's fallback. A deletion of the failure record that is
given no connection leaves the session usable, as in `Disbursement`. Scores are integers
in hundredths, money in dollars or cents. The income is the 15000 the service passes,
whatever the request says.

**KycVerification.** Runs are numbered in the same way. `OpenCase` is inside the
first transaction: the case is in no table before `ForgetFailure` or `RecordFailure`
commits. The audit rows of the nodes are numbered by their run, too, but as history:
the decorator (`utils/audit_decorator.py:20`) finds no application id in the state of
this graph and stores them under UNKNOWN. `CheckIsAudited` therefore says that the rows
were written before the check, not that one could find them. `KycRules` has
the rule file as a value, its evaluation, and the bureau's answers as functions of
what it looks at: area of the number, number of words of a name, date of birth.

**LoanIntake.** A form is a record of abstract texts, places and dates, with the
features the validators tell apart (which marks a name has, whether a text is empty, too
short, or padded with blanks, whether a ZIP code has nine digits and a dash). Blanks
count for the blocking validation and `_clean_str` strips them after it, so a name of
blanks is stored as the empty one. A file is its MIME type, size, picture quality and
what can be read on it. A call of Textract ends "done", "refused" (a `ClientError`,
which the readers take for a picture without text) or "raised" (any other error, such as
a timeout, which escapes from them after the picture was put into bucket and disk). The
process has one event loop and the calls of bucket and OCR block it, so `ReadPassport`
and `ReadCard` are one step each; `MatchApplicant` comes after an await.
`get_primary_by_application_id` has no order, so any applicant may be compared; where
the application has none the comparison raises. `BeginReview` starts the transaction
whose time becomes `created_at`, and `StoreReview` commits review and status together.
`litter` are the temporary files nobody will remove; `begun`, `unread` (the applications
whose passport in the bucket Textract raised on), `overlapped` and `faulted` are history
variables.

**Amortization.** Amounts are cents and rates are fractions, so rounding is exact;
on a tie either neighbour is allowed, as binary floats may fall either way. Due
dates are left out.

Every state machine has a type invariant, `TypeOK` (`ScheduleTypeOK`). They document the
state and are not among the runs' properties; all are proved, each from its module's
inductive invariant.

## What is checked

| run | instance | question |
|---|---|---|
| `disbursement_graph` | 120 requests | do the nodes compute what `Disbursement` assumes in one step; are receipt and history true |
| `disbursement_faults` | 2 workers, 1 application, 5 requests, all faults, crashes | is money moved once; do row, records, trail, audit and answers agree; is the contract implemented |
| `disbursement_reliable` | 3 workers, no faults, fair | are claims settled |
| `pipeline_safety` | 2 jobs, 2 offers, both shapes | was what is paid confirmed; are reports about the claim; does the newest approval stay confirmable |
| `cancel_paid` | 2 jobs | finding |
| `progress_stream` | 1 client, 2 streams, 2 runs, buffer of 3, fair | does a stream miss or repeat an event; does the sweep take a needed buffer; does every run end with a terminal event, and every stream |
| `underwriting` | 2 workers, 2 runs of an application, 3 reports, all faults, crashes | is a stored decision about its own request and complete; is an answer stored; does a hard decline survive weights and fallback |
| `chargeoff` | 2 applicants who differ in their payments | finding |
| `kyc_verification` | 2 workers, 2 runs of an applicant, 5 profiles, all faults, crashes | do case, check, audit rows and answer agree; is the check about its own request; does a fatal flag win |
| `intake_requests` | 2 workers, an id of each kind, two payloads, all faults, crashes | is an id stored once; are answers true; can a rejected document be sent again; is a callback sent once and on record |
| `loan_intake` | 2 workers, 1 application of 10 forms, 15 files, 3 uploads or reviews, all faults, crashes | are stored documents borne out; do stored applications have only the issues their normalization explains; are refused files removed; do status, reviews and log agree |
| `amortization` | 656 loans | is the principal repaid, is the last installment ordinary |

**Bounds.** Every race of the disbursement agent is between two requests for one
application (a third only repeats the second's part, and the reliable run has
three); rows of different applications share no state, and the proofs below hold
for any number of both. The five requests are one per outcome the code tells
apart: settled, left pending, refused by the gateway, invalid, schedule raises.
Nothing bounds the number of retries or crashes: the state is finite because the
row is inserted once. In the pipeline two jobs suffice for one to overtake the
other, and two offers for a re-run to change the terms; runs, confirmations,
cancels and restarts are unbounded. The stream's buffer of three is smaller than
a run's five events, so eviction happens; two runs let one inherit the buffer of
the other, and one client with two streams shows what two clients would, since
each stream has a queue of its own.

`MaxRuns` bounds the requests that arrive in `underwriting`, `kyc_verification` and
`progress_stream`: two runs let the second find what the first left on the thread, and
overlap it at every step. In `loan_intake`, `MaxBegun` of three allows an upload between
or beside two reviews, or three uploads that take the same key of the bucket. In the
intake run `MaxStored` stops new requests for an id that has stored two documents, which
only a fault allows. `MaxRuns`, `MaxStreams`, `MaxStored` and `MaxBegun` are the only
bounds that cut behaviours. The reports, profiles, forms and files of the instances are
chosen on both sides of each rule: a decision by each of the model's verdicts, a
verification by each way the checks can go, a form that is malformed, blocked, tripped
over, refused for its e-mail address, stored as it came or stored without its blanks,
and for each kind of document one that is kept and one for each stage at which it can be
refused.

Loans of 20 to 60 cents over up to four months make rounding as large a part of
the amounts as it can be. Where an installment is hardly larger than the rounding
the code's clamp (`disbursement_calculator.py:71`) hides an overshoot, and the
components no longer add up to the principal; such loans are outside the instance
(`Sizeable`, below).

**Deadlock** is checked for `Disbursement`, `Pipeline` and `IntakeRequests`. A graph
run, a schedule and the bounded streams stop by design, and the runs with `MaxRuns`
or `MaxBegun` stop at their bound; their configurations say so.

**Fairness.** `Disbursement!FairSpec`: a worker that handles a request takes its
next step (the event loop runs ready tasks); used only where nothing fails, as a
process that dies is not fair. `ProgressStream!FairSpec`: a run goes on, since its
HTTP calls time out, and a stream yields what it holds. Nobody has to send a
request, open a stream, or let time pass.

## Findings

| run | what the code does |
|---|---|
| `cancel_paid` | a cancel clears the store only; a confirmation already under way is paid |
| `chargeoff` | the worst behaviour score, 0, is taken for a missing one and becomes 50, above that of late payers |

Seen while modelling, and visible in the models, but given no run of their own:

- Disbursement: a row left PROCESSING by a dead process is never reclaimed, and every
  retry is told "already in progress"; a payout whose completion is given no connection
  is marked FAILED although the money has moved and the record and the transitions are
  stored, and a retry is refused by the primary key, so it is never paid twice; with a
  negative tenure the derived history jumps from VALIDATED to "SCHEDULED ->
  TRANSFER_INITIATED".
- Orchestrator: a 202 passes `raise_for_status`, so a second confirmation is reported
  DISBURSED with no receipt and clears the offer; a re-run that declines leaves the
  earlier offer confirmable; a disbursement that finishes after a re-run clears the
  newer offer, which the agent would then refuse as a conflict; a re-run that ends in a
  counter offer takes the place of a confirmed approval, whose confirmation is then
  answered with 400; an approval is saved and announced, and then answered with 500, as
  the reply reads `approved_tenure` and `monthly_emi`, which no answer has together
  (`pipeline_service.py:249`); a stream opened during a second run replays the first
  run's terminal event and stops (`routes.py:214`).
- Decisioning: the income of the request is ignored; a decision of the model against its
  policy, such as an approval of an applicant in the last tier, is stored unchecked; a
  decision may be stored whose request was answered with 500, when the failure record
  cannot be deleted.
- KYC: the audit rows of the checks are stored under application id UNKNOWN;
  NEEDS_HUMAN_REVIEW cannot be reached, with two soft rules and a threshold of three;
  exposed persons and minors pass; a repeated idempotency key runs again.
- Intake: an upload whose completion fails deletes its row although the document is
  stored, so that a retry stores it again; a callback that is lost after it was marked
  as sent is never sent again, where `agents/intake_agent/docs/prd.md` asks for exactly
  one delivery; income documents never reach the bucket, their file being removed before
  it is uploaded (`document_upload_service.py:380`); a file refused after another of its
  type was stored overwrites or deletes that one in the bucket; an employment without a
  phone number raises in the normalization and blocks its request id; names with a
  hyphen or an apostrophe match no document; an e-mail address applies once; a name, a
  line of an address or a job title of blanks passes the blocking validation and is
  stored empty, and an applicant without a surname is borne out by the passport of
  anybody with the same first name, date of birth and gender; that validation refuses
  what `docs/error-semantics.md` would have flagged and stored ("Intake is never blocked
  by dirty data"); a ZIP code of nine digits is accepted with its dash and stored
  without, in which form it is invalid and matches no licence; a passport that is no
  passport leaves its picture on the disk; a picture on which Textract raises anything
  but a `ClientError` stays on the disk and in the bucket.

## What is proved

`DisbursementProofs` proves, for any sets of workers, applications and requests,
any settlement limit and tenure, any mix of faults, and with or without
crashes (the assumptions are `FlowAssumption` and `DisbursementAssumption`):

- `TypeCorrect`: `Spec => []TypeOK`
- `AtMostOnce`: `Spec => []AtMostOneTransfer`
- `MutualExclusion`: `Spec => []OneExecutor`
- `MoneyClaimed`: `Spec => []MoneyIsClaimed`
- `SettledBacked`: `Spec => []SettledIsBacked`
- `AnswersAreTheRows`: `Spec => []AnswersAgree`
- `BooksOrdered`: `Spec => []BooksAreInOrder`
- `AuditHonest`: `Spec => []AuditIsHonest`
- `SettledForGood`: `Spec => RowIsSettledOnce`
- `Implements`: `Spec => ContractKept`, the refinement of `PayoutContract`

None of the next three is inductive: that at most one transfer is made says
nothing of a second worker about to run the graph. The argument is about a claim.
A worker *holds* an application from its insert until it settles the row or its
session breaks; in the error handler it still does as long as its session is usable.
`ClaimInv` says that an application has at most one holder (`OneHolder`); that a
holder's row is PROCESSING and carries its terms (`HolderHasClaim`), so that no other
insert can succeed, the key being taken; and that before the graph has run no money has
moved for the application (`NotYetPaid`), so that the one transfer a holder makes is
the first, and is covered by its claim (`MoneyHasClaim`).
With the type invariant and what a handler carries at each point
(`HandlersGood`) this is inductive (`ClaimInvariant`), and the properties above
are among its conjuncts or follow from them. A crash only removes a holder; a
lost acknowledgement of the insert creates a row without one, which blocks the
application but pays nothing.

The properties about the books need to know them exactly. `BooksInv` says, beside
`ClaimInv`, what record, trail and ledger of an application can be given its row
(`BooksFit`: all of it once COMPLETED, all or none of it once FAILED, and in between a
first part in the order of the code), and what they are given the place of the worker
that holds the claim (`WorkFits`: what it has stored, followed by what it has still to
store, is the history of its terms; an error handler that can still write comes from a
graph that left nothing or from a completion that followed everything); answers and
audit rows speak of a completed row only (`TalkFits`). So whoever settles the row has
stored everything before, or nothing at all; `MoneyClaimed` and `SettledBacked` follow.
The refinement reads the contract's phase off row and ledger, and under these invariants
each call is the one step of the contract it should be: the insert claims, a graph run
that moves money pays, the completion settles, the failure voids, or disowns what was
paid, a 200 tells, and everything else stutters. A disowned application is never told of
and never claimed again.

`GraphProofs` proves for any terms all that `disbursement_graph` checks on 120 of
them (`GraphInvariant`, `ComputesFinalState`, `ReceiptIsTrue`, `HistoryPath`).
`GraphInv` says of each node what the ones before it have left in the state; with it
`RunGraph` of `Disbursement`, which takes `FinalState` in one step, is justified.
`HistoryPath` has no exempted terms: it says that the moves of the history join, but
for one `Gaps` names, and that this gap is there exactly if a negative tenure is paid.

Its second half is about the schedule the graph's second node makes, for any loans
(assumption `LoansAssumption`: a principal and a tenure of at least one, a rate that
is a fraction):

- `ScheduleTypeCorrect`: `ScheduleSpec => []ScheduleTypeOK`, so that no balance is
  ever negative or above the principal
- `NothingIsOwed`: at the end the balance is 0, at least the principal was repaid,
  and what was charged is what was repaid and the interest
- `LastNearEmi`: `ScheduleSpec => LastIsNearEmi`
- `RepaidInFull`: `ScheduleSpec => [](Sizeable(loan) => LoanIsRepaid)`

The last needs its hypothesis. 100 cents over 150 months without interest have an
installment of one cent, and are repaid after 100 months; the clamp
(`disbursement_calculator.py:71`) then keeps the balance at 0, and 49 more principal
components are booked before the last, which is 0. A loan is `Sizeable` if its
installment, rounded down, is at least what saving one cent a month would come to by
the end: 60 cents over five years without interest, 82 at one percent a month, 35
dollars over thirty years at that rate. The loans of the run are sizeable, which
`MCAmortization` asserts.

`ScheduleInv` relates the balance to the one an unrounded schedule would have.
`OnTrack` says that they differ by no more than half a cent of the installment and
half a cent of interest in each month so far, with the interest these have borne
since (`Near`, where everything is multiplied through by the denominators). Each
month adds its own half cents to the bound (`NearStep`). In a sizeable loan the bound
is less than what the months to come repay, so the balance is not negative and is
never clamped (`NearAbove`); in the last month the bound is the one `LastIsNearEmi`
states (`NearLast`). Any other loan is on track until it is clamped, and has nothing
left to repay after that. That an installment covers its interest, without which the
principal would grow, is `InterestWithin`. The powers of the rate are a recursive
function; that it is one, and what holds of every exponent, is proved by induction
from the fact that `<` is well-founded, with the statement as a set of numbers
(`Induction`), as the library's induction theorem cannot be instantiated.

`PipelineProofs` proves, for any sets of jobs, applications and offers and any
shapes of the answers (assumptions `FlowAssumption` and `PipelineAssumption`):

- `PipelineTypeCorrect`: `Spec => []TypeOK`
- `PaidConfirmed`: `Spec => []PaidWasConfirmed`
- `ReportsMatch`: `Spec => []ReportsMatchClaim`
- `OfferKept`: `Spec => []OfferIsKeptForRetry`
- `TalksToTheContract`: `Spec => Agent!Spec`, so that the pipeline asks nothing of
  the agent that `PayoutContract` does not allow

`ConfirmInv` follows the terms on their way: a saved approval was offered
(`SavedIsOffered`); a job that carries terms to the agent, and a call that is still
to arrive there, carry confirmed ones (`CarriedIsConfirmed`, `LateIsConfirmed`), so
whatever call the agent takes, it claims confirmed terms; a job that the agent has
taken, or answered, is about the claimed terms, and has a 200 only from a settled
payout (`AnswerIsAboutClaim`). That a claim is never replaced, and a settled payout
never reopened, comes from the contract; `OpenIsUnclaimed` ties the two together,
since a reported application has a claim and is therefore not open to another. The
proof shows once that nothing a job relies on is taken back (`JobStep`,
`OtherStep`), so that each action has only its own job and its own book left.
`OfferKept` is inductive beside it: what writes the store of an application writes
`newest` or `withdrawn` with it, and a claim that was reported is not replaced.
With `Implements`, `TalksToTheContract` makes the two models one: the contract is
what the agent keeps and all the orchestrator relies on.

`StreamProofs` proves, for any clients and runs and any size of the buffer,
`StreamIsComplete` (`NothingIsMissed`), `LateClientCatchesUp` (`BufferHasRun`) and
`RunSaysItEnded` (`RunEndsTerminal`). The first is nearly inductive: it needs that a
client is subscribed exactly while its generator lives, and that a generator is
through with its history when it turns to the queue (`ClientsFit`). The others rest
on one run publishing at a time: from its first event on nothing published is
another's, and no terminal time is set until it ends (`RunsFit`), so the sweep, which
goes by that time, leaves its buffer alone.

`KycProofs` proves, for any sets of workers, applicants and
profiles, any commit faults, and with or without crashes (assumption
`KycAssumption`), everything `kyc_verification` checks:

- `CaseSettled`: `Spec => []CaseMatchesCheck`
- `CheckOwn`: `Spec => []CheckIsOwn`
- `CheckAudited`: `Spec => []CheckIsAudited`
- `AnswerRecorded`: `Spec => []AnswerIsRecorded`
- `SanctionedFailed`: `Spec => []SanctionedIsFailed`
- `KycTypeCorrect`: `Spec => []TypeOK`

Runs of an applicant, also at once, start from the channels others left on the
thread, and overwrite the checkpoint of each other. `VerifyInv` says why that does
no harm: nothing is read back from the checkpoint once a run has started, and at
each place of the graph the channels that the rest of it reads have been written by
this run (`StageGood`), the audit rows of its vendor nodes included. That a case is
settled once needs two more facts: a run has one handler (`OneHandler`), and has
stored no check while that handler is active (`NoCheckYet`), so a check and the
status of its case appear together. `SanctionInv` adds that from the rule engine on
a run about a dead or fraudulent applicant carries FAIL; the rest is a lemma about
the rules (`SanctionFails`) and `CaseMatchesCheck`, by which a case is PENDING or
has the status of its check.

`UnderwritingProofs` proves, for any workers, applications,
terms and reports and any faults, everything `underwriting` checks (assumptions
`UnderwritingAssumption`; `NoneAssumption`, that no offer is the missing value;
`ReportAssumption`, that a report has a finite list of records with a kind and an
age):

- `DecisionOwn`: `Spec => []DecisionIsOwn`
- `AnswerRecorded`: `Spec => []AnswerIsRecorded`
- `HardDeclined`: `Spec => []HardDeclineIsDeclined`
- `UnderwritingTypeCorrect`: `Spec => []TypeOK`

The argument is the same (`DecideInv`), with two paths through the graph: only a counter
offer writes the offer channel, and only then does the answer read it (`OfferGood`); the
list of executed nodes grows and has those of the run at each place. `DeclineInv` adds
what score and decision a run carries whose report calls for a decline: the last tier in
every case, and a decline unless the model departed from its policy
(`DeclinesByPolicy`), which the code leaves it free to do; it rests on lemmas about the
masked records (`SevereRecords`), the score (`HardScore`) and the two decisions
(`HardDecision`).

`IntakeProofs` proves, for any workers, ids of any kind, payloads and faults, all
that `intake_requests` checks: `StoredAtMostOnce` (`StoredOnce`), `ToldTheTruth`
(`AnswersAgree`), `RetryIsPossible` (`RejectedCanRetry`), `AcceptedRecorded`
(`AcceptedIsRecorded`) and `CalledBackOnce` (`CallbackOnce`). `RequestInv` is about
the one that executes under an id: it is alone, its row is RECEIVED with its
payload, and until it stores nothing has been stored (`RowFits`, `WorkFits`). For
an upload the last holds only while no fault has hit the id, because the error
handler may delete the row of a document that is stored; which is what the property
excludes as well. `CallbackInv` adds that a callback is sent, or still in the hands
of its one sender, at most once, and only after it was marked.

`LoanProofs` proves, for any forms, files, workers and faults, all that
`loan_intake` checks: `DocumentsBear` (`DocumentsBearOut`), `SoftOnly`
(`OnlySoftIssues`), `RefusedRemoved` (`RefusedIsRemoved`), `StatusReviewed`
(`StatusIsReviewed`) and `LogExact` (`LogIsExact`). Its assumptions about the inputs
(`InputsAssumption`, `TodayAssumption`) say that a form has the fields of
`LoanIntakeRequest` (`IsForm`) and that a reading has what its reader returns
(`IsReading`); neither restricts a value. `LoanInv` has four parts beside the types
and the log:

- `HandlersBusy`: a handler works for an application that exists;
- `FilesPassed`: a file that is about to be stored, or is stored, has passed the
  comparison with an applicant of its application, which holds on while the
  document waits, as no step changes an applicant;
- `ReviewsFollow`: the status is that of the review committed last, and unless
  reviews overlapped they were committed in the order in which they began;
- `RefusedIsRemoved` itself, which is inductive.

The rest is about the rules: that normalization keeps what the blocking validation made
sure of, but for ZIP codes of nine digits and for texts its stripping leaves empty or
too short, which `Softened` finds in what is stored (`SoftIssues`), and that an equality
between normalized names, dates and places says what `BearsOut` says of the printed ones
(`MatchBearsOut`). A passport prints two digits of the year of birth, which the code
reads as 1931 to 2030: there only are the years equal. A licence shows the state only if
that field was printed.

**Only model-checked.** Liveness (`ClaimIsSettled`, `StreamEnds`), which is beyond
the prover. Every other property of the runs that pass is proved, `LoanIsRepaid` of
sizeable loans.

## Not modelled, and why

- The node audit log of the disbursement agent: written by tasks nobody awaits,
  and read by nothing. Its rows may come in any order, after the answer or never.
- The field-level mapping between the services (`shared/data_mappers.py`), beyond
  the keys whose absence decides an answer; log wording; timestamps and durations.
- The synchronous trigger, which is a pipeline job like the other but is not
  registered and does not publish.
- What a picture, a barcode or a page reads as: reading is external, its result an
  input of `DocumentRules`. What a language model says beyond its prompt, but
  for the decision and the counter offer.
- Code no route reaches: the KYC vendor callback, credit report generator, AML, USPS
  and SSN adapters, face liveness and idempotency middleware; the decisioning
  agent's idempotency and service audit repositories; the intake agent's
  finalization, enrichment, evidence store, separate document rule files and
  perspective correction. The rate limiter serves one demonstration endpoint.
- Vault wrappers, whose calls are commented out; tools; deployment; migrations.

## Plan

What is left is the handover: the pipeline composed with `KycVerification` and
`Underwriting` through contracts like `PayoutContract`, and proofs that both keep
theirs.
