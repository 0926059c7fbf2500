------------------------------- MODULE Pipeline -------------------------------
(***************************************************************************)
(* The orchestrator: one asyncio process that runs KYC and underwriting    *)
(* for an application, parks the offer in an in-memory store until the     *)
(* user confirms or cancels it, and then calls the disbursement agent.     *)
(* Every HTTP request it serves is a job; jobs interleave only where the   *)
(* code awaits an HTTP call, and a step here is the code between two such  *)
(* awaits.  The agent is what PayoutContract (which Disbursement           *)
(* implements) lets callers see; its own work goes on after the            *)
(* orchestrator has stopped waiting, and a call may arrive late.           *)
(***************************************************************************)
EXTENDS DisbursementFlow

CONSTANTS Apps, Jobs, Requests, None,
          Shapes          \* the forms of an underwriting answer, see Keys

ASSUME PipelineAssumption ==
    /\ Requests \subseteq Terms
    /\ Shapes \subseteq {"flat", "nested"}
    /\ None \notin Apps \cup Requests

VARIABLES store,      \* pipeline_state_store._store
          job,        \* the HTTP requests being served
          late,       \* calls of the agent that nobody waits for any more
          phase, claim, told,           \* the agent, see PayoutContract
          offered, consent,   \* history: terms offered, confirmed
          newest, withdrawn,  \* history: the terms of the newest approval,
                              \* and what has taken the newest offer back
          reports             \* history: who was told "DISBURSED"
agent == <<phase, claim, told>>
history == <<offered, consent, newest, withdrawn, reports>>
vars == <<store, job, late, agent, history>>

Agent == INSTANCE PayoutContract

Decisions == {"APPROVE", "DECLINE", "COUNTER_OFFER", "OTHER"}
SavedPhases == {"AWAITING_APPROVAL_CONFIRMATION", "AWAITING_OFFER_SELECTION"}
Replies == SavedPhases \cup
    {"none", "REJECTED_AT_KYC", "DECLINED", "COUNTER_OFFER_PENDING", "DISBURSED",
     "CANCELLED_BY_USER", "400", "500"}

(* The keys an underwriting answer has.  "flat" is the decision as the     *)
(* decisioning service returns it, "nested" the payload its final_response *)
(* node builds and the orchestrator's normalisation expects.               *)
Keys(shape, decision) ==
    IF shape = "flat"
    THEN {"approved_amount", "approved_tenure", "interest_rate", "disbursement_amount"}
         \cup {k \in {"counter_offer_data"} : decision = "COUNTER_OFFER"}
    ELSE {"application_id"}
         \cup {k \in {"loan_details"} : decision = "APPROVE"}
         \cup {k \in {"counter_offer"} : decision = "COUNTER_OFFER"}

(* _normalize_underwriting_response: loan_details are lifted to the top,   *)
(* and the EMI is computed where amount and tenure_months are both there.  *)
Normalize(keys) ==
    LET lifted == IF "loan_details" \notin keys THEN keys
                  ELSE keys \cup {"approved_amount", "approved_tenure_months",
                                  "interest_rate", "disbursement_amount"}
    IN  IF {"approved_amount", "approved_tenure_months"} \subseteq lifted
        THEN lifted \cup {"monthly_emi", "disbursement_amount"} ELSE lifted

(* The fields execute_until_decision reads by index after saving the state *)
ReplyKeys == {"approved_amount", "approved_tenure", "interest_rate", "monthly_emi"}
(* The required fields of DisbursementRequest                              *)
PayloadKeys == {"application_id", "approved_amount", "approved_tenure_months",
                "interest_rate", "disbursement_amount"}

Saved(p, keys, r) == [phase |-> p, keys |-> keys, terms |-> r]
NoState == Saved("NONE", {}, None)
Stored == {NoState} \cup
    UNION {{Saved(p, Normalize(Keys(s, d)), r) : d \in Decisions, r \in Requests} :
           p \in SavedPhases, s \in Shapes}

Withdrawals == {"no", "user", "restart", "reported"}

Idle == [pc |-> "idle", app |-> None, terms |-> None, complete |-> FALSE,
         http |-> "none", reply |-> "none"]
Job == [pc : {"idle", "kyc", "underwriting", "sent", "executing", "answered"},
        app : Apps \cup {None}, terms : Requests \cup {None}, complete : BOOLEAN,
        http : {"none", "200", "202"}, reply : Replies]

TypeOK ==
    /\ store \in [Apps -> Stored]
    /\ job \in [Jobs -> Job]
    /\ late \in [Apps -> SUBSET Requests]
    /\ phase \in [Apps -> Agent!Phases]
    /\ claim \in [Apps -> Requests \cup {None}]
    /\ told \in [Apps -> SUBSET [req : Requests, receipt : Receipt]]
    /\ offered \in [Apps -> SUBSET Requests]
    /\ consent \in [Apps -> SUBSET Requests]
    /\ newest \in [Apps -> Requests \cup {None}]
    /\ withdrawn \in [Apps -> Withdrawals]
    /\ reports \in [Apps -> SUBSET [terms : Requests, http : {"200", "202"}]]

Init ==
    /\ Agent!Init
    /\ store = [a \in Apps |-> NoState]
    /\ job = [j \in Jobs |-> Idle]
    /\ late = [a \in Apps |-> {}]
    /\ offered = [a \in Apps |-> {}]
    /\ consent = [a \in Apps |-> {}]
    /\ newest = [a \in Apps |-> None]
    /\ withdrawn = [a \in Apps |-> "no"]
    /\ reports = [a \in Apps |-> {}]

-----------------------------------------------------------------------------
At(j, pc) == job[j].pc = pc
AppOf(j) == job[j].app
Become(j, rec) == job' = [job EXCEPT ![j] = rec]
(* The job answers its caller and is free for the next request.            *)
Answer(j, reply) == Become(j, [Idle EXCEPT !.reply = reply])

save_state(a, s) == store' = [store EXCEPT ![a] = s]
clear_state(a) == store' = [store EXCEPT ![a] = NoState]

(* Either trigger endpoint: execute_until_decision up to the KYC call.     *)
Trigger(j, a) ==
    /\ At(j, "idle")
    /\ Become(j, [Idle EXCEPT !.pc = "kyc", !.app = a])
    /\ UNCHANGED <<store, late, agent, history>>

KycAnswer(j) ==
    /\ At(j, "kyc")
    /\ \/ Become(j, [job[j] EXCEPT !.pc = "underwriting"])
       \/ Answer(j, "REJECTED_AT_KYC")
       \/ Answer(j, "500")
    /\ UNCHANGED <<store, late, agent, history>>

UnderwritingFails(j) ==
    /\ At(j, "underwriting")
    /\ Answer(j, "500")
    /\ UNCHANGED <<store, late, agent, history>>

(* A DECLINE, or a decision the code does not know, leaves the store alone *)
Decline(j) ==
    /\ At(j, "underwriting")
    /\ Answer(j, "DECLINED") \/ Answer(j, "500")
    /\ UNCHANGED <<store, late, agent, history>>

(* APPROVE saves the offer, then builds the reply from keys the answer may *)
(* not have.                                                               *)
Approve(j) ==
    /\ At(j, "underwriting")
    /\ LET a == AppOf(j)
       IN  \E shape \in Shapes, r \in Requests :
             LET keys == Normalize(Keys(shape, "APPROVE"))
             IN  /\ save_state(a, Saved("AWAITING_APPROVAL_CONFIRMATION", keys, r))
                 /\ Answer(j, IF ReplyKeys \subseteq keys
                              THEN "AWAITING_APPROVAL_CONFIRMATION" ELSE "500")
                 /\ offered' = [offered EXCEPT ![a] = @ \cup {r}]
                 /\ newest' = [newest EXCEPT ![a] = r]
                 /\ withdrawn' = [withdrawn EXCEPT ![a] = "no"]
    /\ UNCHANGED <<late, agent, consent, reports>>

(* COUNTER_OFFER raises, before anything is saved, on an answer without    *)
(* counter_offer_data.                                                     *)
CounterOffer(j) ==
    /\ At(j, "underwriting")
    /\ LET a == AppOf(j)
       IN  /\ \E shape \in Shapes, r \in Requests :
                LET keys == Normalize(Keys(shape, "COUNTER_OFFER"))
                IN  IF "counter_offer_data" \in keys
                    THEN /\ save_state(a, Saved("AWAITING_OFFER_SELECTION", keys, r))
                         /\ Answer(j, "COUNTER_OFFER_PENDING")
                         /\ newest' = [newest EXCEPT ![a] = None]
                         /\ withdrawn' = [withdrawn EXCEPT ![a] = "no"]
                    ELSE Answer(j, "500") /\ UNCHANGED <<store, newest, withdrawn>>
    /\ UNCHANGED <<late, agent, offered, consent, reports>>

-----------------------------------------------------------------------------
\* mutant: any saved state can be confirmed
Confirm_AnyPhase(j, a) ==
    /\ At(j, "idle")
    /\ LET s == store[a]
       IN  IF s = NoState
           THEN Answer(j, "400") /\ UNCHANGED consent
           ELSE /\ Become(j, [Idle EXCEPT !.pc = "sent", !.app = a, !.terms = s.terms,
                                 !.complete = PayloadKeys \subseteq s.keys])
                /\ consent' = [consent EXCEPT ![a] = @ \cup {s.terms}]
    /\ UNCHANGED <<store, late, agent, offered, newest, withdrawn, reports>>


(* POST /confirm_approval, accepted: resume_after_approval_confirmation up *)
(* to the call of the agent.  The offer stays in the store.                *)
Confirm(j, a) ==
    /\ At(j, "idle")
    /\ LET s == store[a]
       IN  IF s.phase # "AWAITING_APPROVAL_CONFIRMATION"
           THEN Answer(j, "400") /\ UNCHANGED consent
           ELSE /\ Become(j, [Idle EXCEPT !.pc = "sent", !.app = a, !.terms = s.terms,
                                 !.complete = PayloadKeys \subseteq s.keys])
                /\ consent' = [consent EXCEPT ![a] = @ \cup {s.terms}]
    /\ UNCHANGED <<store, late, agent, offered, newest, withdrawn, reports>>

(* POST /select_counter_offer: the saved options are a dict, so the search *)
(* for the chosen offer looks up "offer_id" in its keys and raises.        *)
SelectOffer(j, a) ==
    /\ At(j, "idle")
    /\ Answer(j, IF store[a].phase = "AWAITING_OFFER_SELECTION" THEN "500" ELSE "400")
    /\ UNCHANGED <<store, late, agent, history>>

(* POST /confirm_approval, not accepted: whatever is saved is dropped.     *)
Cancel(j, a) ==
    /\ At(j, "idle")
    /\ clear_state(a)
    /\ Answer(j, "CANCELLED_BY_USER")
    /\ withdrawn' = [withdrawn EXCEPT ![a] = "user"]
    /\ UNCHANGED <<late, agent, offered, consent, newest, reports>>

-----------------------------------------------------------------------------
\* mutant: the agent does not compare the terms with the claimed ones
Deliver_NoHashCheck(j) ==
    /\ At(j, "sent")
    /\ job[j].complete
    /\ LET a == AppOf(j)
       IN  \/ /\ Agent!Claim(a, job[j].terms)
              /\ Become(j, [job[j] EXCEPT !.pc = "executing"])
           \/ /\ phase[a] \in {"claimed", "paid"}
              /\ Become(j, [job[j] EXCEPT !.pc = "answered", !.http = "202"])
              /\ UNCHANGED agent
           \/ /\ Agent!Tell(a)
              /\ Become(j, [job[j] EXCEPT !.pc = "answered", !.http = "200"])
    /\ UNCHANGED <<store, late, history>>
(* The agent takes the call: it claims the application, or finds the row   *)
(* of an earlier call with the same terms and answers 202 or the receipt.  *)
(* (What it refuses with 409, 422 or 500 is DisburseFails.)                *)
Deliver(j) ==
    /\ At(j, "sent")
    /\ job[j].complete
    /\ LET a == AppOf(j)
       IN  \/ /\ Agent!Claim(a, job[j].terms)
              /\ Become(j, [job[j] EXCEPT !.pc = "executing"])
           \/ /\ phase[a] \in {"claimed", "paid"}
              /\ claim[a] = job[j].terms
              /\ Become(j, [job[j] EXCEPT !.pc = "answered", !.http = "202"])
              /\ UNCHANGED agent
           \/ /\ claim[a] = job[j].terms
              /\ Agent!Tell(a)
              /\ Become(j, [job[j] EXCEPT !.pc = "answered", !.http = "200"])
    /\ UNCHANGED <<store, late, history>>

(* The agent's own work, whoever still waits for it.                       *)
AgentWorks(a) ==
    /\ Agent!Pay(a) \/ Agent!Settle(a) \/ Agent!Void(a) \/ Agent!Disown(a)
    /\ UNCHANGED <<store, job, late, history>>

LateClaim(a, r) ==
    /\ r \in late[a]
    /\ late' = [late EXCEPT ![a] = @ \ {r}]
    /\ Agent!Claim(a, r) \/ (phase[a] # "open" /\ UNCHANGED agent)
    /\ UNCHANGED <<store, job, history>>

Receipted(j) ==
    /\ At(j, "executing")
    /\ Agent!Tell(AppOf(j))
    /\ Become(j, [job[j] EXCEPT !.pc = "answered", !.http = "200"])
    /\ UNCHANGED <<store, late, history>>

\* mutant: the offer is dropped when the disbursement fails
DisburseFails_Clears(j) ==
    /\ job[j].pc \in {"sent", "executing"}
    /\ Answer(j, "500")
    /\ clear_state(AppOf(j))
    /\ \/ UNCHANGED late
       \/ /\ At(j, "sent") /\ job[j].complete
          /\ late' = [late EXCEPT ![AppOf(j)] = @ \cup {job[j].terms}]
    /\ UNCHANGED <<agent, history>>
(* 4xx, 5xx, a lost connection, or 120 s without an answer: the job raises *)
(* and the offer stays.  A call not yet taken may still reach the agent.   *)
DisburseFails(j) ==
    /\ job[j].pc \in {"sent", "executing"}
    /\ Answer(j, "500")
    /\ \/ UNCHANGED late
       \/ /\ At(j, "sent") /\ job[j].complete
          /\ late' = [late EXCEPT ![AppOf(j)] = @ \cup {job[j].terms}]
    /\ UNCHANGED <<store, agent, history>>

(* raise_for_status lets every 2xx through: the body is the "receipt", and *)
(* whatever the store holds by now is cleared.                             *)
Disbursed(j) ==
    /\ At(j, "answered")
    /\ clear_state(AppOf(j))
    /\ reports' = [reports EXCEPT ![AppOf(j)] =
                     @ \cup {[terms |-> job[j].terms, http |-> job[j].http]}]
    /\ withdrawn' = [withdrawn EXCEPT ![AppOf(j)] = IF @ = "no" THEN "reported" ELSE @]
    /\ Answer(j, "DISBURSED")
    /\ UNCHANGED <<late, agent, offered, consent, newest>>

(* The orchestrator's process restarts: the store is in memory only.       *)
Restart ==
    /\ store' = [a \in Apps |-> NoState]
    /\ job' = [j \in Jobs |-> Idle]
    /\ late' = [a \in Apps |-> late[a] \cup
                  {job[j].terms : j \in {k \in Jobs : At(k, "sent") /\ AppOf(k) = a
                                                      /\ job[k].complete}}]
    /\ withdrawn' = [a \in Apps |-> "restart"]
    /\ UNCHANGED <<agent, offered, consent, newest, reports>>

Serve(j) == \/ KycAnswer(j) \/ UnderwritingFails(j) \/ Decline(j) \/ Approve(j)
            \/ CounterOffer(j) \/ DisburseFails(j) \/ Disbursed(j)

Next ==
    \/ \E j \in Jobs :
         \/ Serve(j) \/ Deliver(j) \/ Receipted(j)
         \/ \E a \in Apps : Trigger(j, a) \/ Confirm(j, a) \/ SelectOffer(j, a)
                            \/ Cancel(j, a)
    \/ \E a \in Apps : AgentWorks(a) \/ \E r \in Requests : LateClaim(a, r)
    \/ Restart

Spec == Init /\ [][Next]_vars

-----------------------------------------------------------------------------
(* Safety *)

(* Nothing is claimed, and so nothing paid, that underwriting did not      *)
(* approve and offer, and the user did not confirm, in these very terms.   *)
PaidWasConfirmed ==
    \A a \in Apps :
        /\ consent[a] \subseteq offered[a]
        /\ claim[a] # None => claim[a] \in consent[a]

(* "DISBURSED" is about the terms the agent's row is claimed by, and with  *)
(* a receipt in hand it is about a settled payout.                         *)
ReportsMatchClaim ==
    \A a \in Apps : \A rep \in reports[a] :
        /\ rep.terms = claim[a]
        /\ rep.http = "200" => phase[a] = "settled"

(* POST /confirm_approval for a would call the agent, with the terms r.    *)
Confirmable(a, r) ==
    /\ store[a].phase = "AWAITING_APPROVAL_CONFIRMATION"
    /\ store[a].terms = r

(* The newest approval stays confirmable, in its own terms, however often  *)
(* it is confirmed and whatever fails: a failed disbursement can be        *)
(* retried.  Only a counter offer, a cancel, a restart or "DISBURSED"      *)
(* takes it back.  "DISBURSED" may be about an older offer and drop this   *)
(* one; but then the agent's row is claimed by the reported terms, and it  *)
(* accepts no others for this application.                                 *)
OfferIsKeptForRetry ==
    \A a \in Apps : newest[a] # None =>
        /\ withdrawn[a] = "no" => Confirmable(a, newest[a])
        /\ withdrawn[a] = "reported" => \E rep \in reports[a] : rep.terms = claim[a]

-----------------------------------------------------------------------------
(* The inductive invariant behind PaidWasConfirmed and ReportsMatchClaim:  *)
(* terms are followed from the offer to the report, through a restart and  *)
(* through calls nobody waits for.                                         *)

Carrying(j) == job[j].pc \in {"sent", "executing", "answered"}

SavedIsOffered ==
    \A a \in Apps : store[a].phase = "AWAITING_APPROVAL_CONFIRMATION" =>
                       store[a].terms \in offered[a]
CarriedIsConfirmed ==
    \A j \in Jobs : /\ ~At(j, "idle") => AppOf(j) \in Apps
                    /\ Carrying(j) => job[j].terms \in consent[AppOf(j)]
LateIsConfirmed == \A a \in Apps : late[a] \subseteq consent[a]
OpenIsUnclaimed == \A a \in Apps : (phase[a] = "open") <=> (claim[a] = None)
AnswerIsAboutClaim ==
    \A j \in Jobs :
        /\ At(j, "answered") <=> (job[j].http # "none")
        /\ job[j].pc \in {"executing", "answered"} => claim[AppOf(j)] = job[j].terms
        /\ job[j].http = "200" => phase[AppOf(j)] = "settled"

(* Terms move from the offer to the confirmation, the call, the claim and  *)
(* the report without being exchanged for others on the way.               *)
ConfirmInv ==
    /\ TypeOK /\ PaidWasConfirmed /\ ReportsMatchClaim
    /\ SavedIsOffered /\ CarriedIsConfirmed /\ LateIsConfirmed
    /\ OpenIsUnclaimed /\ AnswerIsAboutClaim

-----------------------------------------------------------------------------
(* What the documents say and the code does not do *)

(* The plan: accepted = false means "no disbursement".                     *)
CancelledIsNotPaid ==
    [][\A a \in Apps : withdrawn[a] = "user" /\ phase'[a] = "paid" => phase[a] = "paid"]_vars
=============================================================================
