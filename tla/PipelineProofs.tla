---------------------------- MODULE PipelineProofs ----------------------------
(***************************************************************************)
(* Proofs about Pipeline, for any number of jobs and applications, any     *)
(* offers and any shapes of the underwriting answers: what is paid was     *)
(* offered and confirmed, and what is reported is about what was claimed.  *)
(***************************************************************************)
EXTENDS Pipeline, TLAPS

-----------------------------------------------------------------------------
(* What the operators return. *)

LEMMA FinalStateType ==
    ASSUME NEW t \in Terms
    PROVE  /\ FinalState(t) \in FlowState
           /\ FinalState(t).disbursement_status \in FinalStatuses
  <1>1. GatewayAnswer(t) \in {"SUCCESS", "PENDING", "FAILED"}
    BY DEF GatewayAnswer
  <1>2. TransferOutcome(GatewayAnswer(t)) \in FinalStatuses
    BY <1>1 DEF TransferOutcome, FinalStatuses
  <1>3. Installments(t) \in Nat
    BY DEF Installments, Terms
  <1>4. CASE ValidTerms(t)
    BY <1>1, <1>2, <1>3, <1>4 DEF FinalState, FlowState, Statuses, TransferStatuses
  <1>5. CASE ~ValidTerms(t)
    BY <1>5 DEF FinalState, FlowState, InitialState, Statuses, FinalStatuses, TransferStatuses
  <1>6. QED
    BY <1>4, <1>5

LEMMA ReceiptType ==
    ASSUME NEW t \in Terms, NEW n \in Nat
    PROVE  BuildReceipt(t, FinalState(t), n) \in Receipt
  BY FinalStateType DEF BuildReceipt, Receipt, FlowState

LEMMA TheReceiptType ==
    ASSUME NEW r \in Requests
    PROVE  Agent!TheReceipt(r) \in Receipt
  <1>1. r \in Terms
    BY PipelineAssumption
  <1>2. Agent!FinalState(r) = FinalState(r)
    BY DEF Agent!FinalState, FinalState, Agent!InitialState, InitialState,
       Agent!ValidTerms, ValidTerms, Agent!MissingFields, MissingFields,
       Agent!Installments, Installments, Agent!TransferOutcome, TransferOutcome,
       Agent!GatewayAnswer, GatewayAnswer
  <1>3. Agent!BuildReceipt(r, FinalState(r), 1) = BuildReceipt(r, FinalState(r), 1)
    BY DEF Agent!BuildReceipt, BuildReceipt, Agent!HasTransaction, HasTransaction
  <1>4. QED
    BY <1>1, <1>2, <1>3, ReceiptType DEF Agent!TheReceipt

LEMMA StoredType ==
    ASSUME NEW shape \in Shapes, NEW d \in Decisions, NEW p \in SavedPhases,
           NEW r \in Requests
    PROVE  Saved(p, Normalize(Keys(shape, d)), r) \in Stored
  <1> DEFINE sets == {{Saved(q, Normalize(Keys(s, e)), t) : e \in Decisions, t \in Requests} :
                      q \in SavedPhases, s \in Shapes}
             mine == {Saved(p, Normalize(Keys(shape, e)), t) : e \in Decisions, t \in Requests}
  <1>1. Saved(p, Normalize(Keys(shape, d)), r) \in mine
    OBVIOUS
  <1>2. mine \in sets
    OBVIOUS
  <1> HIDE DEF sets, mine
  <1>3. Saved(p, Normalize(Keys(shape, d)), r) \in UNION sets
    BY <1>1, <1>2
  <1>4. QED
    BY <1>3 DEF Stored, sets

(* A saved state is one of an offer, or none.                              *)
LEMMA SavedTerms ==
    ASSUME NEW s \in Stored, s.phase = "AWAITING_APPROVAL_CONFIRMATION"
    PROVE  s.terms \in Requests
  BY DEF Stored, NoState, Saved

-----------------------------------------------------------------------------
(* What a job carries stays true. *)

(* What ConfirmInv says of one job.                                        *)
GoodJob(n) ==
    /\ n \in Job
    /\ n.pc # "idle" => n.app \in Apps
    /\ n.pc \in {"sent", "executing", "answered"} => n.terms \in consent[n.app]
    /\ n.pc = "answered" <=> n.http # "none"
    /\ n.pc \in {"executing", "answered"} => claim[n.app] = n.terms
    /\ n.http = "200" => phase[n.app] = "settled"
GoodJobs == job \in [Jobs -> Job] /\ \A j \in Jobs : GoodJob(job[j])

(* Nothing a job relies on is ever taken back.                             *)
Keeps == \A a \in Apps :
    /\ consent[a] \subseteq consent'[a]
    /\ phase[a] # "open" => claim'[a] = claim[a]
    /\ phase[a] = "settled" => phase'[a] = "settled"

(* The part of ConfirmInv that is not about jobs.                          *)
Books ==
    /\ store \in [Apps -> Stored]
    /\ late \in [Apps -> SUBSET Requests]
    /\ phase \in [Apps -> Agent!Phases]
    /\ claim \in [Apps -> Requests \cup {None}]
    /\ told \in [Apps -> SUBSET [req : Requests, receipt : Receipt]]
    /\ offered \in [Apps -> SUBSET Requests]
    /\ consent \in [Apps -> SUBSET Requests]
    /\ newest \in [Apps -> Requests \cup {None}]
    /\ withdrawn \in [Apps -> Withdrawals]
    /\ reports \in [Apps -> SUBSET [terms : Requests, http : {"200", "202"}]]
    /\ PaidWasConfirmed /\ ReportsMatchClaim
    /\ SavedIsOffered /\ LateIsConfirmed /\ OpenIsUnclaimed

LEMMA Parts == ConfirmInv <=> Books /\ GoodJobs
  BY DEF ConfirmInv, Books, GoodJobs, GoodJob, TypeOK, CarriedIsConfirmed,
     AnswerIsAboutClaim, Carrying, At, AppOf

LEMMA JobStep ==
    ASSUME Books, GoodJobs, Keeps, NEW j \in Jobs, NEW n, Become(j, n), GoodJob(n)'
    PROVE  GoodJobs'
  <1>1. job' = [job EXCEPT ![j] = n] /\ job \in [Jobs -> Job] /\ n \in Job
    BY DEF Become, GoodJobs, GoodJob
  <1>2. job' \in [Jobs -> Job]
    BY <1>1
  <1>3. ASSUME NEW k \in Jobs, k # j PROVE GoodJob(job[k])'
    <2>1. job'[k] = job[k] /\ GoodJob(job[k])
      BY <1>1, <1>3 DEF GoodJobs
    <2>2. ASSUME job[k].pc \in {"executing", "answered"}
          PROVE  phase[job[k].app] # "open" /\ job[k].app \in Apps
      BY <2>1, <2>2, PipelineAssumption DEF GoodJob, Books, OpenIsUnclaimed
    <2>3. QED
      BY <2>1, <2>2 DEF GoodJob, Keeps
  <1>4. GoodJob(job[j])'
    BY <1>1
  <1>5. QED
    BY <1>2, <1>3, <1>4 DEF GoodJobs

-----------------------------------------------------------------------------
(* The steps. *)

(* A step that touches no more than the job and the store of one           *)
(* application, which it may only clear or keep.                           *)
LEMMA QuietStep ==
    ASSUME Books, UNCHANGED <<late, agent, offered, consent, reports>>,
           store' \in [Apps -> Stored], withdrawn' \in [Apps -> Withdrawals],
           newest' \in [Apps -> Requests \cup {None}],
           \A a \in Apps : store'[a].phase = "AWAITING_APPROVAL_CONFIRMATION" =>
                             store'[a] = store[a]
    PROVE  Books' /\ Keeps
  BY DEF Books, Keeps, agent, PaidWasConfirmed, ReportsMatchClaim, SavedIsOffered,
     LateIsConfirmed, OpenIsUnclaimed

LEMMA IdleGood ==
    ASSUME NEW reply \in Replies
    PROVE  GoodJob([Idle EXCEPT !.reply = reply])'
  BY DEF GoodJob, Idle, Job, Replies

(* Answering is always safe.                                               *)
LEMMA AnswerStep ==
    ASSUME Books, GoodJobs, Keeps, NEW j \in Jobs, NEW reply \in Replies, Answer(j, reply)
    PROVE  GoodJobs'
  <1>1. PICK n : n = [Idle EXCEPT !.reply = reply] /\ Become(j, n)
    BY DEF Answer
  <1>2. GoodJob(n)'
    BY <1>1, IdleGood
  <1>3. QED
    BY <1>1, <1>2, JobStep

LEMMA TriggerStep ==
    ASSUME Books, GoodJobs, NEW j \in Jobs, NEW a \in Apps, Trigger(j, a)
    PROVE  Books' /\ GoodJobs'
  <1>1. Books' /\ Keeps
    BY QuietStep DEF Trigger, history, Books
  <1>2. PICK n : n = [Idle EXCEPT !.pc = "kyc", !.app = a] /\ Become(j, n)
    BY DEF Trigger
  <1>3. GoodJob(n)'
    BY <1>2 DEF GoodJob, Idle, Job, Replies
  <1>4. QED
    BY <1>1, <1>2, <1>3, JobStep

LEMMA KycAnswerStep ==
    ASSUME Books, GoodJobs, NEW j \in Jobs, KycAnswer(j)
    PROVE  Books' /\ GoodJobs'
  <1>1. Books' /\ Keeps
    BY QuietStep DEF KycAnswer, history, Books
  <1>2. CASE Become(j, [job[j] EXCEPT !.pc = "underwriting"])
    <2>1. PICK n : n = [job[j] EXCEPT !.pc = "underwriting"] /\ Become(j, n)
      BY <1>2
    <2>2. GoodJob(job[j]) /\ job[j].pc = "kyc"
      BY DEF KycAnswer, At, GoodJobs
    <2>3. GoodJob(n)'
      BY <2>1, <2>2 DEF GoodJob, Job
    <2>4. QED
      BY <1>1, <2>1, <2>3, JobStep
  <1>3. CASE Answer(j, "REJECTED_AT_KYC") \/ Answer(j, "500")
    BY <1>1, <1>3, AnswerStep DEF Replies
  <1>4. QED
    BY <1>2, <1>3 DEF KycAnswer

LEMMA NoOfferStep ==
    ASSUME Books, GoodJobs, NEW j \in Jobs, UnderwritingFails(j) \/ Decline(j)
    PROVE  Books' /\ GoodJobs'
  <1>1. Books' /\ Keeps
    BY QuietStep DEF UnderwritingFails, Decline, history, Books
  <1>2. Answer(j, "DECLINED") \/ Answer(j, "500")
    BY DEF UnderwritingFails, Decline
  <1>3. QED
    BY <1>1, <1>2, AnswerStep DEF Replies

LEMMA SelectOfferStep ==
    ASSUME Books, GoodJobs, NEW j \in Jobs, NEW a \in Apps, SelectOffer(j, a)
    PROVE  Books' /\ GoodJobs'
  <1>1. Books' /\ Keeps
    BY QuietStep DEF SelectOffer, history, Books
  <1>2. Answer(j, "500") \/ Answer(j, "400")
    BY DEF SelectOffer
  <1>3. QED
    BY <1>1, <1>2, AnswerStep DEF Replies

LEMMA ApproveStep ==
    ASSUME Books, GoodJobs, NEW j \in Jobs, Approve(j)
    PROVE  Books' /\ GoodJobs'
  <1> DEFINE a == AppOf(j)
  <1>1. PICK shape \in Shapes, r \in Requests :
          LET keys == Normalize(Keys(shape, "APPROVE"))
          IN  /\ store' = [store EXCEPT ![a] =
                             Saved("AWAITING_APPROVAL_CONFIRMATION", keys, r)]
              /\ Answer(j, IF ReplyKeys \subseteq keys
                           THEN "AWAITING_APPROVAL_CONFIRMATION" ELSE "500")
              /\ offered' = [offered EXCEPT ![a] = @ \cup {r}]
              /\ newest' = [newest EXCEPT ![a] = r]
              /\ withdrawn' = [withdrawn EXCEPT ![a] = "no"]
    BY DEF Approve, save_state
  <1>2. UNCHANGED <<late, agent, consent, reports>> /\ a \in Apps
    BY DEF Approve, At, AppOf, GoodJobs, GoodJob
  <1>3. PICK s : /\ s = Saved("AWAITING_APPROVAL_CONFIRMATION",
                              Normalize(Keys(shape, "APPROVE")), r)
                 /\ store' = [store EXCEPT ![a] = s]
    BY <1>1
  <1>4. s \in Stored /\ s.terms = r
    BY <1>3, StoredType DEF Decisions, SavedPhases, Saved
  <1>5. Keeps
    BY <1>2 DEF Keeps, agent, Books
  <1>6. SavedIsOffered'
    BY <1>1, <1>2, <1>3, <1>4 DEF SavedIsOffered, Books
  <1>7. Books'
    BY <1>1, <1>2, <1>3, <1>4, <1>6 DEF Books, Withdrawals, agent, PaidWasConfirmed,
       ReportsMatchClaim, LateIsConfirmed, OpenIsUnclaimed
  <1>8. GoodJobs'
    BY <1>1, <1>5, AnswerStep DEF Replies, SavedPhases
  <1>9. QED
    BY <1>7, <1>8

LEMMA CounterOfferStep ==
    ASSUME Books, GoodJobs, NEW j \in Jobs, CounterOffer(j)
    PROVE  Books' /\ GoodJobs'
  <1> DEFINE a == AppOf(j)
  <1>1. UNCHANGED <<late, agent, offered, consent, reports>>
    BY DEF CounterOffer
  <1>2. CASE Answer(j, "500") /\ UNCHANGED <<store, newest, withdrawn>>
    <2>1. Books' /\ Keeps
      BY <1>1, <1>2, QuietStep DEF Books
    <2>2. QED
      BY <1>2, <2>1, AnswerStep DEF Replies
  <1>3. CASE \E shape \in Shapes, r \in Requests :
               /\ save_state(a, Saved("AWAITING_OFFER_SELECTION",
                                      Normalize(Keys(shape, "COUNTER_OFFER")), r))
               /\ Answer(j, "COUNTER_OFFER_PENDING")
               /\ newest' = [newest EXCEPT ![a] = None]
               /\ withdrawn' = [withdrawn EXCEPT ![a] = "no"]
    <2>1. PICK s : s \in Stored /\ s.phase = "AWAITING_OFFER_SELECTION"
                   /\ store' = [store EXCEPT ![a] = s]
      BY <1>3, StoredType DEF save_state, Saved, Decisions, SavedPhases
    <2>2. /\ withdrawn' \in [Apps -> Withdrawals]
          /\ newest' \in [Apps -> Requests \cup {None}]
      BY <1>3 DEF Books, Withdrawals
    <2>3. \A b \in Apps : store'[b].phase = "AWAITING_APPROVAL_CONFIRMATION" =>
                            store'[b] = store[b]
      BY <2>1 DEF Books
    <2>4. store' \in [Apps -> Stored]
      BY <2>1 DEF Books
    <2>5. Books' /\ Keeps
      BY <1>1, <2>2, <2>3, <2>4, QuietStep
    <2>6. QED
      BY <1>3, <2>5, AnswerStep DEF Replies
  <1>4. QED
    BY <1>2, <1>3 DEF CounterOffer

LEMMA ConfirmStep ==
    ASSUME Books, GoodJobs, NEW j \in Jobs, NEW a \in Apps, Confirm(j, a)
    PROVE  Books' /\ GoodJobs'
  <1>1. UNCHANGED <<store, late, agent, offered, newest, withdrawn, reports>>
    BY DEF Confirm
  <1>2. CASE Answer(j, "400") /\ UNCHANGED consent
    <2>1. Books' /\ Keeps
      BY <1>1, <1>2, QuietStep DEF Books
    <2>2. QED
      BY <1>2, <2>1, AnswerStep DEF Replies
  <1>3. CASE /\ store[a].phase = "AWAITING_APPROVAL_CONFIRMATION"
             /\ Become(j, [Idle EXCEPT !.pc = "sent", !.app = a, !.terms = store[a].terms,
                               !.complete = PayloadKeys \subseteq store[a].keys])
             /\ consent' = [consent EXCEPT ![a] = @ \cup {store[a].terms}]
    <2>1. store[a].terms \in Requests /\ store[a].terms \in offered[a]
      BY <1>3, SavedTerms DEF Books, SavedIsOffered
    <2>2. \A b \in Apps : consent'[b] = consent[b] \cup
                             (IF b = a THEN {store[a].terms} ELSE {})
      BY <1>3 DEF Books
    <2>3. Keeps
      BY <1>1, <2>2 DEF Keeps, agent
    <2>4. PaidWasConfirmed'
      BY <1>1, <2>1, <2>2 DEF Books, PaidWasConfirmed, agent
    <2>5. Books'
      BY <1>1, <1>3, <2>1, <2>2, <2>4 DEF Books, agent, ReportsMatchClaim, SavedIsOffered,
         LateIsConfirmed, OpenIsUnclaimed
    <2>6. PICK n : /\ n = [Idle EXCEPT !.pc = "sent", !.app = a, !.terms = store[a].terms,
                               !.complete = PayloadKeys \subseteq store[a].keys]
                   /\ Become(j, n)
      BY <1>3
    <2>7. GoodJob(n)'
      BY <2>1, <2>2, <2>6 DEF GoodJob, Idle, Job, Replies
    <2>8. QED
      BY <2>3, <2>5, <2>6, <2>7, JobStep
  <1>4. QED
    BY <1>2, <1>3 DEF Confirm

LEMMA CancelStep ==
    ASSUME Books, GoodJobs, NEW j \in Jobs, NEW a \in Apps, Cancel(j, a)
    PROVE  Books' /\ GoodJobs'
  <1>1. /\ store' = [store EXCEPT ![a] = NoState]
        /\ withdrawn' = [withdrawn EXCEPT ![a] = "user"]
        /\ UNCHANGED <<late, agent, offered, consent, newest, reports>>
    BY DEF Cancel, clear_state
  <1>2. NoState \in Stored /\ NoState.phase = "NONE"
    BY DEF Stored, NoState, Saved
  <1>3. Books' /\ Keeps
    BY <1>1, <1>2, QuietStep DEF Books, Withdrawals
  <1>4. QED
    BY <1>3, AnswerStep DEF Cancel, Replies

(* The agent may claim an open application for confirmed terms, and go on. *)
LEMMA ClaimStep ==
    ASSUME Books, UNCHANGED <<store, history>>, NEW a \in Apps, NEW r \in consent[a],
           Agent!Claim(a, r), \A b \in Apps : late'[b] \subseteq late[b]
    PROVE  /\ late' \in [Apps -> SUBSET Requests] => Books'
           /\ Keeps /\ claim'[a] = r
  <1>1. /\ phase[a] = "open" /\ phase' = [phase EXCEPT ![a] = "claimed"]
        /\ claim' = [claim EXCEPT ![a] = r] /\ UNCHANGED told
    BY DEF Agent!Claim
  <1>2. r \in Requests /\ r # None /\ r \in consent[a] /\ claim[a] = None
    BY <1>1, PipelineAssumption DEF Books, OpenIsUnclaimed
  <1>3. \A b \in Apps : /\ claim'[b] = IF b = a THEN r ELSE claim[b]
                        /\ phase'[b] = IF b = a THEN "claimed" ELSE phase[b]
    BY <1>1 DEF Books
  <1>4. Keeps
    BY <1>1, <1>3 DEF Keeps, Books, history
  <1>5. reports[a] = {}
    <2>1. ASSUME NEW rep \in reports[a] PROVE FALSE
      BY <1>2, <2>1, PipelineAssumption DEF Books, ReportsMatchClaim
    <2>2. QED
      BY <2>1
  <1>6. PaidWasConfirmed' /\ ReportsMatchClaim'
    BY <1>2, <1>3, <1>5 DEF Books, PaidWasConfirmed, ReportsMatchClaim, history
  <1>7. SavedIsOffered' /\ LateIsConfirmed' /\ OpenIsUnclaimed'
    BY <1>2, <1>3 DEF Books, SavedIsOffered, LateIsConfirmed, OpenIsUnclaimed, history
  <1>8. /\ claim' \in [Apps -> Requests \cup {None}]
        /\ phase' \in [Apps -> Agent!Phases]
    BY <1>1, <1>2 DEF Books, Agent!Phases
  <1>9. QED
    BY <1>1, <1>3, <1>4, <1>6, <1>7, <1>8 DEF Books, history

(* The rest of what the agent does leaves the claim alone.                 *)
LEMMA AgentStep ==
    ASSUME Books, UNCHANGED <<store, late, history>>, NEW a \in Apps,
           \/ Agent!Pay(a) \/ Agent!Settle(a) \/ Agent!Void(a) \/ Agent!Disown(a)
           \/ Agent!Tell(a)
    PROVE  Books' /\ Keeps
  <1>1. UNCHANGED claim
    BY DEF Agent!Pay, Agent!Settle, Agent!Void, Agent!Disown, Agent!Tell
  <1>2. CASE UNCHANGED told /\ ~Agent!Tell(a)
    <2>1. PICK p \in {"paid", "settled", "void", "disowned"} :
            phase' = [phase EXCEPT ![a] = p]
      BY <1>2 DEF Agent!Pay, Agent!Settle, Agent!Void, Agent!Disown
    <2>2. phase[a] \in {"claimed", "paid"} /\ (phase[a] = "settled" => p = "settled")
      BY <1>2 DEF Agent!Pay, Agent!Settle, Agent!Void, Agent!Disown
    <2>3. \A b \in Apps : phase'[b] = IF b = a THEN p ELSE phase[b]
      BY <2>1 DEF Books
    <2>4. Keeps
      BY <1>1, <2>2, <2>3 DEF Keeps, history
    <2>5. ReportsMatchClaim' /\ OpenIsUnclaimed'
      BY <1>1, <2>2, <2>3 DEF Books, ReportsMatchClaim, OpenIsUnclaimed, history
    <2>6. phase' \in [Apps -> Agent!Phases]
      BY <2>1 DEF Books, Agent!Phases
    <2>7. QED
      BY <1>1, <1>2, <2>4, <2>5, <2>6 DEF Books, history, PaidWasConfirmed, SavedIsOffered,
         LateIsConfirmed
  <1>3. CASE Agent!Tell(a)
    <2>1. /\ phase[a] = "settled" /\ UNCHANGED phase
          /\ told' = [told EXCEPT ![a] = @ \cup {[req |-> claim[a],
                                                receipt |-> Agent!TheReceipt(claim[a])]}]
      BY <1>3 DEF Agent!Tell
    <2>2. claim[a] \in Requests
      BY <2>1 DEF Books, OpenIsUnclaimed
    <2>3. Agent!TheReceipt(claim[a]) \in Receipt
      BY <2>2, TheReceiptType
    <2>4. told' \in [Apps -> SUBSET [req : Requests, receipt : Receipt]]
      BY <2>1, <2>2, <2>3 DEF Books
    <2>5. Keeps
      BY <1>1, <2>1 DEF Keeps, history
    <2>6. QED
      BY <1>1, <2>1, <2>4, <2>5 DEF Books, history, PaidWasConfirmed, SavedIsOffered,
         LateIsConfirmed, ReportsMatchClaim, OpenIsUnclaimed
  <1>4. QED
    BY <1>2, <1>3 DEF Agent!Pay, Agent!Settle, Agent!Void, Agent!Disown

LEMMA DeliverStep ==
    ASSUME Books, GoodJobs, NEW j \in Jobs, Deliver(j)
    PROVE  Books' /\ GoodJobs'
  <1> DEFINE a == AppOf(j)
  <1>1. /\ GoodJob(job[j]) /\ job[j].pc = "sent"
        /\ a \in Apps /\ job[j].terms \in consent[a]
        /\ UNCHANGED <<store, late, history>>
    BY DEF Deliver, At, AppOf, GoodJobs, GoodJob
  <1>2. CASE /\ Agent!Claim(a, job[j].terms)
             /\ Become(j, [job[j] EXCEPT !.pc = "executing"])
    <2>1. PICK r \in consent[a] : r = job[j].terms
      BY <1>1
    <2>2. Books' /\ Keeps /\ claim'[a] = r
      BY <1>1, <1>2, <2>1, ClaimStep DEF Books
    <2>3. PICK n : n = [job[j] EXCEPT !.pc = "executing"] /\ Become(j, n)
      BY <1>2
    <2>4. job[j].http = "none"
      BY <1>1 DEF GoodJob
    <2>5. GoodJob(n)'
      BY <1>1, <2>1, <2>2, <2>3, <2>4 DEF GoodJob, Job, Keeps, AppOf
    <2>6. QED
      BY <2>2, <2>3, <2>5, JobStep
  <1>3. CASE /\ claim[a] = job[j].terms
             /\ UNCHANGED agent
             /\ Become(j, [job[j] EXCEPT !.pc = "answered", !.http = "202"])
    <2>1. Books' /\ Keeps
      BY <1>1, <1>3, QuietStep DEF Books, history
    <2>2. PICK n : n = [job[j] EXCEPT !.pc = "answered", !.http = "202"] /\ Become(j, n)
      BY <1>3
    <2>3. GoodJob(n)'
      BY <1>1, <1>3, <2>2 DEF GoodJob, Job, AppOf, agent, history
    <2>4. QED
      BY <2>1, <2>2, <2>3, JobStep
  <1>4. CASE /\ claim[a] = job[j].terms
             /\ Agent!Tell(a)
             /\ Become(j, [job[j] EXCEPT !.pc = "answered", !.http = "200"])
    <2>1. Books' /\ Keeps
      BY <1>1, <1>4, AgentStep
    <2>2. phase[a] = "settled" /\ UNCHANGED <<phase, claim>>
      BY <1>4 DEF Agent!Tell
    <2>3. PICK n : n = [job[j] EXCEPT !.pc = "answered", !.http = "200"] /\ Become(j, n)
      BY <1>4
    <2>4. GoodJob(n)'
      BY <1>1, <1>4, <2>2, <2>3 DEF GoodJob, Job, AppOf, history
    <2>5. QED
      BY <2>1, <2>3, <2>4, JobStep
  <1>5. QED
    BY <1>2, <1>3, <1>4 DEF Deliver

LEMMA ReceiptedStep ==
    ASSUME Books, GoodJobs, NEW j \in Jobs, Receipted(j)
    PROVE  Books' /\ GoodJobs'
  <1> DEFINE a == AppOf(j)
  <1>1. /\ GoodJob(job[j]) /\ job[j].pc = "executing" /\ a \in Apps
        /\ UNCHANGED <<store, late, history>> /\ Agent!Tell(a)
    BY DEF Receipted, At, AppOf, GoodJobs, GoodJob
  <1>2. Books' /\ Keeps
    BY <1>1, AgentStep
  <1>3. phase[a] = "settled" /\ UNCHANGED <<phase, claim>>
    BY <1>1 DEF Agent!Tell
  <1>4. PICK n : n = [job[j] EXCEPT !.pc = "answered", !.http = "200"] /\ Become(j, n)
    BY DEF Receipted
  <1>5. GoodJob(n)'
    BY <1>1, <1>3, <1>4 DEF GoodJob, Job, AppOf, history
  <1>6. QED
    BY <1>2, <1>4, <1>5, JobStep

(* Jobs do not notice a step of the agent that they do not take part in.   *)
LEMMA OtherStep ==
    ASSUME Books, GoodJobs, Keeps, UNCHANGED job
    PROVE  GoodJobs'
  <1>1. ASSUME NEW k \in Jobs PROVE GoodJob(job[k])'
    <2>1. GoodJob(job[k]) /\ job'[k] = job[k]
      BY DEF GoodJobs
    <2>2. ASSUME job[k].pc \in {"executing", "answered"}
          PROVE  phase[job[k].app] # "open" /\ job[k].app \in Apps
      BY <2>1, <2>2, PipelineAssumption DEF GoodJob, Books, OpenIsUnclaimed
    <2>3. QED
      BY <2>1, <2>2 DEF GoodJob, Keeps
  <1>2. QED
    BY <1>1 DEF GoodJobs

LEMMA AgentWorksStep ==
    ASSUME Books, GoodJobs, NEW a \in Apps, AgentWorks(a)
    PROVE  Books' /\ GoodJobs'
  <1>1. Books' /\ Keeps
    BY AgentStep DEF AgentWorks
  <1>2. QED
    BY <1>1, OtherStep DEF AgentWorks

LEMMA LateClaimStep ==
    ASSUME Books, GoodJobs, NEW a \in Apps, NEW r \in Requests, LateClaim(a, r)
    PROVE  Books' /\ GoodJobs'
  <1>1. /\ r \in consent[a] /\ UNCHANGED <<store, job, history>>
        /\ late' = [late EXCEPT ![a] = @ \ {r}]
    BY DEF LateClaim, Books, LateIsConfirmed
  <1>2. /\ \A b \in Apps : late'[b] \subseteq late[b]
        /\ late' \in [Apps -> SUBSET Requests]
    BY <1>1 DEF Books
  <1>3. CASE Agent!Claim(a, r)
    <2>1. Books' /\ Keeps
      BY <1>1, <1>2, <1>3, ClaimStep
    <2>2. QED
      BY <1>1, <2>1, OtherStep
  <1>4. CASE UNCHANGED agent
    <2>1. Books' /\ Keeps
      BY <1>1, <1>2, <1>4 DEF Books, Keeps, agent, history, PaidWasConfirmed,
         ReportsMatchClaim, SavedIsOffered, LateIsConfirmed, OpenIsUnclaimed
    <2>2. QED
      BY <1>1, <2>1, OtherStep
  <1>5. QED
    BY <1>3, <1>4 DEF LateClaim

LEMMA DisburseFailsStep ==
    ASSUME Books, GoodJobs, NEW j \in Jobs, DisburseFails(j)
    PROVE  Books' /\ GoodJobs'
  <1> DEFINE a == AppOf(j)
  <1>1. /\ GoodJob(job[j]) /\ a \in Apps /\ Answer(j, "500")
        /\ job[j].terms \in consent[a]
        /\ UNCHANGED <<store, agent, history>>
    BY DEF DisburseFails, AppOf, GoodJobs, GoodJob
  <1>2. job[j].terms \in Requests
    BY <1>1 DEF Books
  <1>3. UNCHANGED late \/ late' = [late EXCEPT ![a] = @ \cup {job[j].terms}]
    BY DEF DisburseFails
  <1>4. late' \in [Apps -> SUBSET Requests] /\ LateIsConfirmed'
    BY <1>1, <1>2, <1>3 DEF Books, LateIsConfirmed, history
  <1>5. Books' /\ Keeps
    BY <1>1, <1>4 DEF Books, Keeps, agent, history, PaidWasConfirmed,
       ReportsMatchClaim, SavedIsOffered, OpenIsUnclaimed
  <1>6. QED
    BY <1>1, <1>5, AnswerStep DEF Replies

LEMMA DisbursedStep ==
    ASSUME Books, GoodJobs, NEW j \in Jobs, Disbursed(j)
    PROVE  Books' /\ GoodJobs'
  <1> DEFINE a == AppOf(j)
             rep == [terms |-> job[j].terms, http |-> job[j].http]
  <1>1. /\ GoodJob(job[j]) /\ job[j].pc = "answered" /\ a \in Apps
        /\ store' = [store EXCEPT ![a] = NoState] /\ Answer(j, "DISBURSED")
        /\ reports' = [reports EXCEPT ![a] = @ \cup {rep}]
        /\ withdrawn' = [withdrawn EXCEPT ![a] = IF @ = "no" THEN "reported" ELSE @]
        /\ UNCHANGED <<late, agent, offered, consent, newest>>
    BY DEF Disbursed, At, AppOf, GoodJobs, GoodJob, clear_state
  <1>2. /\ job[j].terms \in Requests /\ job[j].http \in {"200", "202"}
        /\ claim[a] = job[j].terms
        /\ job[j].http = "200" => phase[a] = "settled"
    BY <1>1 DEF GoodJob, Job, AppOf, Books
  <1>3. ReportsMatchClaim'
    BY <1>1, <1>2 DEF Books, ReportsMatchClaim, agent
  <1>4. reports' \in [Apps -> SUBSET [terms : Requests, http : {"200", "202"}]]
    BY <1>1, <1>2 DEF Books
  <1>5. NoState \in Stored /\ NoState.phase = "NONE"
    BY DEF Stored, NoState, Saved
  <1>6. store' \in [Apps -> Stored] /\ SavedIsOffered'
    BY <1>1, <1>5 DEF Books, SavedIsOffered
  <1>7. Books' /\ Keeps
    BY <1>1, <1>3, <1>4, <1>6 DEF Books, Withdrawals, Keeps, agent, PaidWasConfirmed,
       LateIsConfirmed, OpenIsUnclaimed
  <1>8. QED
    BY <1>1, <1>7, AnswerStep DEF Replies

LEMMA RestartStep ==
    ASSUME Books, GoodJobs, Restart
    PROVE  Books' /\ GoodJobs'
  <1>1. /\ store' = [a \in Apps |-> NoState] /\ job' = [j \in Jobs |-> Idle]
        /\ withdrawn' = [a \in Apps |-> "restart"]
        /\ UNCHANGED <<agent, offered, consent, newest, reports>>
    BY DEF Restart
  <1>2. NoState \in Stored /\ NoState.phase = "NONE"
    BY DEF Stored, NoState, Saved
  <1>3. ASSUME NEW a \in Apps PROVE late'[a] \subseteq consent[a]
    <2>1. ASSUME NEW r \in late'[a] PROVE r \in consent[a]
      <3>1. CASE r \in late[a]
        BY <3>1 DEF Books, LateIsConfirmed
      <3>2. CASE \E k \in Jobs : At(k, "sent") /\ AppOf(k) = a /\ r = job[k].terms
        BY <3>2 DEF GoodJobs, GoodJob, At, AppOf
      <3>3. QED
        BY <2>1, <3>1, <3>2 DEF Restart
    <2>2. QED
      BY <2>1
  <1>4. late' \in [Apps -> SUBSET Requests] /\ LateIsConfirmed'
    <2>1. late' = [a \in Apps |-> late'[a]]
      BY DEF Restart
    <2>2. \A a \in Apps : late'[a] \in SUBSET Requests
      BY <1>3 DEF Books
    <2>3. LateIsConfirmed'
      BY <1>1, <1>3 DEF LateIsConfirmed
    <2>4. QED
      BY <2>1, <2>2, <2>3
  <1>5. Books'
    BY <1>1, <1>2, <1>4 DEF Books, Withdrawals, agent, PaidWasConfirmed, ReportsMatchClaim,
       SavedIsOffered, OpenIsUnclaimed
  <1>6. GoodJobs'
    BY <1>1 DEF GoodJobs, GoodJob, Idle, Job, Replies
  <1>7. QED
    BY <1>5, <1>6

-----------------------------------------------------------------------------
(* The theorems. *)

LEMMA InitConfirmInv == Init => ConfirmInv
  <1> SUFFICES ASSUME Init PROVE Books /\ GoodJobs
    BY Parts
  <1>1. NoState \in Stored /\ NoState.phase = "NONE"
    BY DEF Stored, NoState, Saved
  <1>2. Books
    BY <1>1 DEF Init, Agent!Init, Books, Withdrawals, Agent!Phases, PaidWasConfirmed, ReportsMatchClaim,
       SavedIsOffered, LateIsConfirmed, OpenIsUnclaimed
  <1>3. GoodJobs
    BY DEF Init, GoodJobs, GoodJob, Idle, Job, Replies
  <1>4. QED
    BY <1>2, <1>3

LEMMA NextConfirmInv == ConfirmInv /\ [Next]_vars => ConfirmInv'
  <1> SUFFICES ASSUME Books, GoodJobs, [Next]_vars PROVE Books' /\ GoodJobs'
    <2>1. ConfirmInv' <=> Books' /\ GoodJobs'
      BY Parts, PTL
    <2>2. QED
      BY <2>1, Parts
  <1>1. CASE \E j \in Jobs : Serve(j) \/ Deliver(j) \/ Receipted(j)
    BY <1>1, KycAnswerStep, NoOfferStep, ApproveStep, CounterOfferStep, DisburseFailsStep,
       DisbursedStep, DeliverStep, ReceiptedStep DEF Serve
  <1>2. CASE \E j \in Jobs, a \in Apps :
               Trigger(j, a) \/ Confirm(j, a) \/ SelectOffer(j, a) \/ Cancel(j, a)
    BY <1>2, TriggerStep, ConfirmStep, SelectOfferStep, CancelStep
  <1>3. CASE \E a \in Apps : AgentWorks(a) \/ \E r \in Requests : LateClaim(a, r)
    BY <1>3, AgentWorksStep, LateClaimStep
  <1>4. CASE Restart
    BY <1>4, RestartStep
  <1>5. CASE UNCHANGED vars
    BY <1>5 DEF vars, agent, history, Books, GoodJobs, GoodJob, PaidWasConfirmed,
       ReportsMatchClaim, SavedIsOffered, LateIsConfirmed, OpenIsUnclaimed
  <1>6. QED
    BY <1>1, <1>2, <1>3, <1>4, <1>5 DEF Next

(* Terms pass from offer to confirmation, call, claim and report           *)
(* unexchanged, for any jobs, offers, cancels, restarts and late calls.    *)
THEOREM ConfirmInvariant == Spec => []ConfirmInv
  <1>1. Init => ConfirmInv
    BY InitConfirmInv
  <1>2. ConfirmInv /\ [Next]_vars => ConfirmInv'
    BY NextConfirmInv
  <1>3. QED
    BY <1>1, <1>2, PTL DEF Spec

(* The orchestrator's state keeps its type.                                *)
THEOREM PipelineTypeCorrect == Spec => []TypeOK
  <1>1. ConfirmInv => TypeOK
    BY DEF ConfirmInv
  <1>2. QED
    BY <1>1, ConfirmInvariant, PTL

(* Only terms that were offered, and confirmed by the user, are claimed.   *)
THEOREM PaidConfirmed == Spec => []PaidWasConfirmed
  <1>1. ConfirmInv => PaidWasConfirmed
    BY DEF ConfirmInv
  <1>2. QED
    BY <1>1, ConfirmInvariant, PTL

(* "DISBURSED" is reported about the claimed terms, and with a receipt     *)
(* only of a settled payout.                                               *)
THEOREM ReportsMatch == Spec => []ReportsMatchClaim
  <1>1. ConfirmInv => ReportsMatchClaim
    BY DEF ConfirmInv
  <1>2. QED
    BY <1>1, ConfirmInvariant, PTL

-----------------------------------------------------------------------------
(* The newest approval is kept for a retry. *)

(* A step that leaves the offers alone and takes back no report or claim.  *)
LEMMA KeepsOffer ==
    ASSUME Books, Keeps, OfferIsKeptForRetry, UNCHANGED <<store, newest, withdrawn, reports>>
    PROVE  OfferIsKeptForRetry'
  <1>1. ASSUME NEW a \in Apps, NEW rep \in reports[a], rep.terms = claim[a]
        PROVE  claim'[a] = claim[a]
    BY <1>1, PipelineAssumption DEF Books, OpenIsUnclaimed, Keeps
  <1>2. QED
    BY <1>1 DEF OfferIsKeptForRetry, Confirmable

(* What one application saves, and what that takes back, is no other's.    *)
LEMMA SavesOffer ==
    ASSUME Books, OfferIsKeptForRetry, UNCHANGED <<claim, reports>>, NEW a \in Apps,
           NEW s, NEW r, NEW w,
           store' = [store EXCEPT ![a] = s], newest' = [newest EXCEPT ![a] = r],
           withdrawn' = [withdrawn EXCEPT ![a] = w],
           r # None /\ w = "no" =>
               s.phase = "AWAITING_APPROVAL_CONFIRMATION" /\ s.terms = r,
           w # "reported"
    PROVE  OfferIsKeptForRetry'
  <1>1. /\ store'[a] = s /\ newest'[a] = r /\ withdrawn'[a] = w
        /\ \A b \in Apps \ {a} : /\ store'[b] = store[b] /\ newest'[b] = newest[b]
                                 /\ withdrawn'[b] = withdrawn[b]
    BY DEF Books
  <1>2. QED
    BY <1>1 DEF OfferIsKeptForRetry, Confirmable

LEMMA CancelKeepsOffer ==
    ASSUME Books, OfferIsKeptForRetry, NEW j \in Jobs, NEW a \in Apps, Cancel(j, a)
    PROVE  OfferIsKeptForRetry'
  <1>1. /\ store' = [store EXCEPT ![a] = NoState]
        /\ withdrawn' = [withdrawn EXCEPT ![a] = "user"]
        /\ UNCHANGED <<claim, newest, reports>>
    BY DEF Cancel, clear_state, agent
  <1>2. newest' = [newest EXCEPT ![a] = newest[a]]
    BY <1>1 DEF Books
  <1>3. QED
    BY <1>1, <1>2, SavesOffer

(* What is reported is about the claim, see AnswerIsAboutClaim.            *)
LEMMA DisbursedKeepsOffer ==
    ASSUME Books, GoodJobs, OfferIsKeptForRetry, NEW j \in Jobs, Disbursed(j)
    PROVE  OfferIsKeptForRetry'
  <1> DEFINE a == AppOf(j)
             rep == [terms |-> job[j].terms, http |-> job[j].http]
  <1>1. /\ store' = [store EXCEPT ![a] = NoState]
        /\ reports' = [reports EXCEPT ![a] = @ \cup {rep}]
        /\ withdrawn' = [withdrawn EXCEPT ![a] = IF @ = "no" THEN "reported" ELSE @]
        /\ UNCHANGED <<claim, newest>>
    BY DEF Disbursed, clear_state, agent
  <1>2. a \in Apps /\ rep.terms = claim[a]
    BY DEF Disbursed, At, AppOf, GoodJobs, GoodJob
  <1>3. /\ rep \in reports'[a] /\ withdrawn'[a] # "no"
        /\ \A b \in Apps \ {a} : /\ store'[b] = store[b] /\ reports'[b] = reports[b]
                                 /\ withdrawn'[b] = withdrawn[b]
    BY <1>1, <1>2 DEF Books
  <1>4. QED
    BY <1>1, <1>2, <1>3 DEF OfferIsKeptForRetry, Confirmable

LEMMA ServeKeepsOffer ==
    ASSUME Books, GoodJobs, OfferIsKeptForRetry, NEW j \in Jobs, Serve(j)
    PROVE  OfferIsKeptForRetry'
  <1> DEFINE a == AppOf(j)
  <1>1. CASE KycAnswer(j) \/ UnderwritingFails(j) \/ Decline(j) \/ DisburseFails(j)
    <2>1. UNCHANGED <<claim, store, newest, withdrawn, reports>>
      BY <1>1 DEF KycAnswer, UnderwritingFails, Decline, DisburseFails, agent, history
    <2>2. QED
      BY <2>1 DEF OfferIsKeptForRetry, Confirmable
  <1>2. CASE Approve(j)
    <2>1. a \in Apps
      BY <1>2 DEF Approve, At, AppOf, GoodJobs, GoodJob
    <2>2. PICK s, r : /\ s.phase = "AWAITING_APPROVAL_CONFIRMATION" /\ s.terms = r
                      /\ store' = [store EXCEPT ![a] = s]
                      /\ newest' = [newest EXCEPT ![a] = r]
                      /\ withdrawn' = [withdrawn EXCEPT ![a] = "no"]
                      /\ UNCHANGED <<claim, reports>>
      BY <1>2 DEF Approve, save_state, Saved, agent
    <2>3. QED
      BY <2>1, <2>2, SavesOffer
  <1>3. CASE CounterOffer(j)
    <2>1. a \in Apps /\ UNCHANGED <<claim, reports>>
      BY <1>3 DEF CounterOffer, At, AppOf, GoodJobs, GoodJob, agent
    <2>2. CASE UNCHANGED <<store, newest, withdrawn>>
      BY <2>1, <2>2 DEF OfferIsKeptForRetry, Confirmable
    <2>3. CASE \E s : /\ store' = [store EXCEPT ![a] = s]
                      /\ newest' = [newest EXCEPT ![a] = None]
                      /\ withdrawn' = [withdrawn EXCEPT ![a] = "no"]
      BY <2>1, <2>3, SavesOffer
    <2>4. QED
      BY <1>3, <2>2, <2>3 DEF CounterOffer, save_state
  <1>4. CASE Disbursed(j)
    BY <1>4, DisbursedKeepsOffer
  <1>5. QED
    BY <1>1, <1>2, <1>3, <1>4 DEF Serve

(* The agent never gives a claim back.                                     *)
LEMMA AgentKeeps ==
    ASSUME Books, GoodJobs, UNCHANGED <<store, history>>,
           \/ \E j \in Jobs : Deliver(j) \/ Receipted(j)
           \/ \E a \in Apps : AgentWorks(a) \/ \E r \in Requests : LateClaim(a, r)
    PROVE  Keeps
  <1>1. UNCHANGED consent
    BY DEF history
  <1>2. CASE \E a \in Apps, r \in Requests : Agent!Claim(a, r)
    <2>1. PICK a \in Apps, r \in Requests : Agent!Claim(a, r)
      BY <1>2
    <2>2. /\ phase[a] = "open" /\ phase' = [phase EXCEPT ![a] = "claimed"]
          /\ claim' = [claim EXCEPT ![a] = r]
      BY <2>1 DEF Agent!Claim
    <2>3. QED
      BY <1>1, <2>2 DEF Keeps, Books
  <1>3. CASE UNCHANGED agent
    BY <1>1, <1>3 DEF Keeps, agent
  <1>4. CASE \E a \in Apps : \/ Agent!Pay(a) \/ Agent!Settle(a) \/ Agent!Void(a)
                             \/ Agent!Disown(a) \/ Agent!Tell(a)
    BY <1>1, <1>4 DEF Keeps, Books, Agent!Pay, Agent!Settle, Agent!Void, Agent!Disown, Agent!Tell
  <1>5. \A j \in Jobs : At(j, "sent") \/ At(j, "executing") =>
                           AppOf(j) \in Apps /\ job[j].terms \in Requests
    BY DEF GoodJobs, GoodJob, At, AppOf, Books
  <1>6. QED
    BY <1>2, <1>3, <1>4, <1>5 DEF Deliver, Receipted, AgentWorks, LateClaim

LEMMA NextKeepsOffer ==
    ASSUME Books, GoodJobs, OfferIsKeptForRetry, [Next]_vars
    PROVE  OfferIsKeptForRetry'
  <1>1. CASE \E j \in Jobs : Serve(j)
    BY <1>1, ServeKeepsOffer
  <1>2. CASE \/ \E j \in Jobs : Deliver(j) \/ Receipted(j)
             \/ \E a \in Apps : AgentWorks(a) \/ \E r \in Requests : LateClaim(a, r)
    <2>1. UNCHANGED <<store, history>>
      BY <1>2 DEF Deliver, Receipted, AgentWorks, LateClaim
    <2>2. Keeps
      BY <1>2, <2>1, AgentKeeps
    <2>3. QED
      BY <2>1, <2>2, KeepsOffer DEF history
  <1>3. CASE \/ \E j \in Jobs, a \in Apps : \/ Trigger(j, a) \/ SelectOffer(j, a)
                                            \/ Confirm(j, a)
             \/ UNCHANGED vars
    <2>1. UNCHANGED <<claim, store, newest, withdrawn, reports>>
      BY <1>3 DEF Trigger, SelectOffer, Confirm, agent, history, vars
    <2>2. QED
      BY <2>1 DEF OfferIsKeptForRetry, Confirmable
  <1>4. CASE \E j \in Jobs, a \in Apps : Cancel(j, a)
    BY <1>4, CancelKeepsOffer
  <1>5. CASE Restart
    BY <1>5 DEF Restart, OfferIsKeptForRetry
  <1>6. QED
    BY <1>1, <1>2, <1>3, <1>4, <1>5 DEF Next

(* The newest approval survives every failed disbursement: it can be       *)
(* confirmed again, in its own terms, until a counter offer, the user, a   *)
(* restart or "DISBURSED" takes it back, and the last only for an          *)
(* application whose claimed terms it reports.                             *)
THEOREM OfferKept == Spec => []OfferIsKeptForRetry
  <1>1. Init => OfferIsKeptForRetry
    BY DEF Init, OfferIsKeptForRetry
  <1>2. ConfirmInv /\ OfferIsKeptForRetry /\ [Next]_vars => OfferIsKeptForRetry'
    BY Parts, NextKeepsOffer
  <1>3. QED
    BY <1>1, <1>2, ConfirmInvariant, PTL DEF Spec

-----------------------------------------------------------------------------
(* The agent the pipeline talks to is the one PayoutContract describes. *)

LEMMA DrivesAgent ==
    ASSUME Books, GoodJobs, [Next]_vars
    PROVE  [Agent!Next]_(Agent!vars)
  <1>1. CASE \E j \in Jobs : Deliver(j) \/ Receipted(j)
    <2>1. PICK j \in Jobs : Deliver(j) \/ Receipted(j)
      BY <1>1
    <2>2. /\ AppOf(j) \in Apps
          /\ At(j, "sent") => job[j].terms \in Requests
      BY <2>1 DEF Deliver, Receipted, At, AppOf, GoodJobs, GoodJob, Books
    <2>3. \/ Agent!Claim(AppOf(j), job[j].terms) /\ At(j, "sent")
          \/ Agent!Tell(AppOf(j))
          \/ UNCHANGED agent
      BY <2>1 DEF Deliver, Receipted
    <2>4. QED
      BY <2>2, <2>3 DEF Agent!Next, Agent!vars, agent
  <1>2. CASE \E a \in Apps : AgentWorks(a) \/ \E r \in Requests : LateClaim(a, r)
    BY <1>2 DEF AgentWorks, LateClaim, Agent!Next, Agent!vars, agent
  <1>3. CASE \/ \E j \in Jobs : Serve(j)
             \/ \E j \in Jobs, a \in Apps :
                  Trigger(j, a) \/ Confirm(j, a) \/ SelectOffer(j, a) \/ Cancel(j, a)
             \/ Restart
             \/ UNCHANGED vars
    <2>1. UNCHANGED agent
      BY <1>3 DEF Serve, KycAnswer, UnderwritingFails, Decline, Approve, CounterOffer,
         DisburseFails, Disbursed, Trigger, Confirm, SelectOffer, Cancel, Restart, vars
    <2>2. QED
      BY <2>1 DEF Agent!vars, agent
  <1>4. QED
    BY <1>1, <1>2, <1>3 DEF Next

(* Whatever the orchestrator does, what it sees of the agent is a          *)
(* behaviour of the contract that the disbursement agent implements: the   *)
(* two models fit together.                                                *)
THEOREM TalksToTheContract == Spec => Agent!Spec
  <1>1. Init => Agent!Init
    BY DEF Init
  <1>2. ConfirmInv /\ [Next]_vars => [Agent!Next]_(Agent!vars)
    BY Parts, DrivesAgent
  <1>3. QED
    BY <1>1, <1>2, ConfirmInvariant, PTL DEF Spec, Agent!Spec
=============================================================================
