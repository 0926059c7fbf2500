----------------------------- MODULE Disbursement -----------------------------
(***************************************************************************)
(* The disbursement agent: POST /disburse executed by any number of        *)
(* concurrent workers (requests of one process interleave at every await,  *)
(* and several processes may serve the same database).                     *)
(*                                                                         *)
(* One action is one awaited database round trip, which commits before the *)
(* next one starts, or the run of the graph, which does not await.  The    *)
(* database keeps the idempotency rows, the disbursement records, the      *)
(* transition log and the service audit log; the gateway keeps its ledger. *)
(*                                                                         *)
(* WriteOutcomes says how a database call may end: "done"; "refused", it   *)
(* raises and nothing is stored; "unacknowledged", it is stored and raises *)
(* (the connection is lost during COMMIT).  After a call that raises, the  *)
(* SQLAlchemy session refuses every further call, as the code never rolls  *)
(* it back: the handler is "broken".  One failure leaves the session as it *)
(* was: a call that opens with session.execute (get, mark_completed and    *)
(* mark_failed) and is given no connection, as every commit gave the last  *)
(* one back to a pool of five: it is "unconnected".  A call that opens     *)
(* with a flush (create and the three save_...) is broken by that as well. *)
(***************************************************************************)
EXTENDS DisbursementFlow

CONSTANTS Workers, Apps, Requests, None,
          WriteOutcomes,          \* how a database call may end
          MayCrash                \* whether a worker's process may die

ASSUME DisbursementAssumption ==
    /\ Requests \subseteq Terms
    /\ WriteOutcomes \subseteq {"done", "refused", "unacknowledged"}
    /\ "done" \in WriteOutcomes
    /\ MayCrash \in BOOLEAN
    /\ None \notin Receipt \cup Terms \cup Apps

VARIABLES row,        \* disbursement_idempotency, one row per application
          records,    \* disbursement_records, in insertion order
          trail,      \* disbursement_transition_logs, in insertion order
          audit,      \* service_audit_logs, as a set of (status, error?) pairs
          ledger,     \* the transfers the gateway has executed
          answers,    \* what callers were told with a 200: (terms sent, receipt)
          handler     \* the requests being handled
dbVars == <<row, records, trail, audit>>
vars == <<row, records, trail, audit, ledger, answers, handler>>

RowStatuses == {"NONE", "PROCESSING", "COMPLETED", "FAILED"}
AuditStatuses == {"SUCCESS", "IDEMPOTENT_HIT", "CONFLICT", "IN_PROGRESS"}
Codes == {"200", "202", "409", "500"}
Locations == {"idle", "get", "create", "run", "record", "trail", "complete",
              "fail", "audit"}

Row == [status : RowStatuses, request : Requests \cup {None},
        response : Receipt \cup {None}]
Handler == [pc : Locations, app : Apps \cup {None}, req : Requests \cup {None},
            receipt : Receipt \cup {None}, todo : Seq(Transition),
            created : BOOLEAN, broken : BOOLEAN,
            status : AuditStatuses, code : Codes]

Answer == [req : Requests, receipt : Receipt]

NoRow == [status |-> "NONE", request |-> None, response |-> None]
Idle == [pc |-> "idle", app |-> None, req |-> None, receipt |-> None,
         todo |-> <<>>, created |-> FALSE, broken |-> FALSE,
         status |-> "SUCCESS", code |-> "200"]

TypeOK ==
    /\ row \in [Apps -> Row]
    /\ records \in [Apps -> Seq(Receipt)]
    /\ trail \in [Apps -> Seq(Transition)]
    /\ audit \in [Apps -> SUBSET (AuditStatuses \X BOOLEAN)]
    /\ ledger \in [Apps -> Seq(Requests)]
    /\ answers \in [Apps -> SUBSET Answer]
    /\ handler \in [Workers -> Handler]

Init ==
    /\ row = [a \in Apps |-> NoRow]
    /\ records = [a \in Apps |-> <<>>]
    /\ trail = [a \in Apps |-> <<>>]
    /\ audit = [a \in Apps |-> {}]
    /\ ledger = [a \in Apps |-> <<>>]
    /\ answers = [a \in Apps |-> {}]
    /\ handler = [w \in Workers |-> Idle]

-----------------------------------------------------------------------------
(* How a call that opens with session.execute may end.                     *)
StatementOutcomes ==
    WriteOutcomes \cup (IF "refused" \in WriteOutcomes THEN {"unconnected"} ELSE {})

Stored(outcome) == outcome \in {"done", "unacknowledged"}
Raised(outcome) == outcome # "done"
Breaks(outcome) == outcome \in {"refused", "unacknowledged"}

AppOf(w) == handler[w].app
At(w, location) == handler[w].pc = location
Become(w, h) == handler' = [handler EXCEPT ![w] = h]

(* except Exception: mark_failed runs only if the row was created.         *)
Raising(h) == [h EXCEPT !.pc = IF h.created THEN "fail" ELSE "audit", !.code = "500"]
(* The same for an exception raised by the session, which it leaves broken *)
Broken(h) == Raising([h EXCEPT !.broken = TRUE])
(* A database call of h ended with outcome; h2 is the handler if it is done *)
After(outcome, h, h2) == IF ~Raised(outcome) THEN h2
                         ELSE IF Breaks(outcome) THEN Broken(h) ELSE Raising(h)

(* A request arrives: a first call, a retry or a duplicate.                *)
Receive(w, a, r) ==
    /\ At(w, "idle")
    /\ Become(w, [Idle EXCEPT !.pc = "get", !.app = a, !.req = r])
    /\ UNCHANGED <<dbVars, ledger, answers>>

\* mutant: the stored hash is not compared
Resolve_NoHashCheck(h, r) ==
    IF r.status = "COMPLETED" /\ r.response # None
    THEN [h EXCEPT !.pc = "audit", !.status = "IDEMPOTENT_HIT",
                   !.receipt = r.response]
    ELSE IF r.status = "PROCESSING"
    THEN [h EXCEPT !.pc = "audit", !.status = "IN_PROGRESS", !.code = "202"]
    ELSE [h EXCEPT !.pc = "create"]

(* resolve_idempotent_response on the row just read                        *)
Resolve(h, r) ==
    IF r.status = "NONE" THEN [h EXCEPT !.pc = "create"]
    ELSE IF r.request # h.req
    THEN [h EXCEPT !.pc = "audit", !.status = "CONFLICT", !.code = "409"]
    ELSE IF r.status = "COMPLETED" /\ r.response # None
    THEN [h EXCEPT !.pc = "audit", !.status = "IDEMPOTENT_HIT",
                   !.receipt = r.response]
    ELSE IF r.status = "PROCESSING"
    THEN [h EXCEPT !.pc = "audit", !.status = "IN_PROGRESS", !.code = "202"]
    ELSE [h EXCEPT !.pc = "create"]

(* get, and the decision on what it returned.                              *)
ReadRow(w) ==
    /\ At(w, "get")
    /\ \E outcome \in StatementOutcomes :
         Become(w, After(outcome, handler[w], Resolve(handler[w], row[AppOf(w)])))
    /\ UNCHANGED <<dbVars, ledger, answers>>

\* mutant: the insert is an upsert
CreateRow_Upsert(w) ==
    /\ At(w, "create")
    /\ row' = [row EXCEPT ![AppOf(w)] = [status |-> "PROCESSING",
                                        request |-> handler[w].req, response |-> None]]
    /\ Become(w, [handler[w] EXCEPT !.pc = "run", !.created = TRUE])
    /\ UNCHANGED <<records, trail, audit, ledger, answers>>
\* mutant: a row that FAILED is taken over by the retry
CreateRow_RetryFailed(w) ==
    /\ At(w, "create")
    /\ row[AppOf(w)].status \in {"NONE", "FAILED"}
    /\ row' = [row EXCEPT ![AppOf(w)] = [status |-> "PROCESSING",
                                        request |-> handler[w].req, response |-> None]]
    /\ Become(w, [handler[w] EXCEPT !.pc = "run", !.created = TRUE])
    /\ UNCHANGED <<records, trail, audit, ledger, answers>>
\* mutant: the outcome of the insert is not looked at
CreateRow_Unchecked(w) ==
    /\ At(w, "create")
    /\ row[AppOf(w)].status = "NONE"
    /\ \E outcome \in WriteOutcomes :
         row' = IF Stored(outcome)
                THEN [row EXCEPT ![AppOf(w)] = [status |-> "PROCESSING",
                                                request |-> handler[w].req, response |-> None]]
                ELSE row
    /\ Become(w, [handler[w] EXCEPT !.pc = "run", !.created = TRUE])
    /\ UNCHANGED <<records, trail, audit, ledger, answers>>

(* INSERT: the application id is the primary key, so the insert raises if  *)
(* a row exists by now, whatever its status.                               *)
CreateRow(w) ==
    /\ At(w, "create")
    /\ LET a == AppOf(w)
           h == handler[w]
       IN  IF row[a].status # "NONE"
           THEN Become(w, Broken(h)) /\ UNCHANGED row
           ELSE \E outcome \in WriteOutcomes :
                  /\ row' = IF Stored(outcome)
                            THEN [row EXCEPT ![a] = [status |-> "PROCESSING",
                                                     request |-> h.req,
                                                     response |-> None]]
                            ELSE row
                  /\ Become(w, After(outcome, h, [h EXCEPT !.pc = "run", !.created = TRUE]))
    /\ UNCHANGED <<records, trail, audit, ledger, answers>>

(* _graph.invoke: the schedule may raise, otherwise the gateway is called  *)
(* once, unless the terms are invalid, and a receipt is built.             *)
RunGraph(w) ==
    /\ At(w, "run")
    /\ LET a == AppOf(w)
           h == handler[w]
           receipt == BuildReceipt(h.req, FinalState(h.req), Len(ledger[a]) + 1)
       IN  IF ValidTerms(h.req) /\ ScheduleRaises(h.req)
           THEN Become(w, Raising(h)) /\ UNCHANGED ledger
           ELSE /\ ledger' = IF MovesMoney(h.req)
                             THEN [ledger EXCEPT ![a] = Append(@, h.req)] ELSE ledger
                /\ Become(w, [h EXCEPT !.pc = "record", !.receipt = receipt,
                                       !.todo = TransitionHistory(FinalState(h.req))])
    /\ UNCHANGED <<dbVars, answers>>

\* mutant: a record that cannot be stored is logged and skipped
SaveRecord_BestEffort(w) ==
    /\ At(w, "record")
    /\ \E outcome \in WriteOutcomes :
         records' = IF Stored(outcome)
                    THEN [records EXCEPT ![AppOf(w)] = Append(@, handler[w].receipt)]
                    ELSE records
    /\ Become(w, [handler[w] EXCEPT !.pc = "trail"])
    /\ UNCHANGED <<row, trail, audit, ledger, answers>>

SaveRecord(w) ==
    /\ At(w, "record")
    /\ LET a == AppOf(w)
           h == handler[w]
       IN  \E outcome \in WriteOutcomes :
             /\ records' = IF Stored(outcome)
                           THEN [records EXCEPT ![a] = Append(@, h.receipt)] ELSE records
             /\ Become(w, After(outcome, h, [h EXCEPT !.pc = "trail"]))
    /\ UNCHANGED <<row, trail, audit, ledger, answers>>

\* mutant: a transition whose commit raised is tried again
SaveTransition_Retry(w) ==
    /\ At(w, "trail")
    /\ handler[w].todo # <<>>
    /\ LET a == AppOf(w)
           h == handler[w]
           rest == Tail(h.todo)
       IN  \E outcome \in WriteOutcomes :
             /\ trail' = IF Stored(outcome)
                         THEN [trail EXCEPT ![a] = Append(@, Head(h.todo))] ELSE trail
             /\ Become(w, IF Raised(outcome) THEN h
                          ELSE [h EXCEPT !.todo = rest,
                                    !.pc = IF rest = <<>> THEN "complete" ELSE "trail"])
    /\ UNCHANGED <<row, records, audit, ledger, answers>>

(* One turn of the loop over the derived history.                          *)
SaveTransition(w) ==
    /\ At(w, "trail")
    /\ handler[w].todo # <<>>
    /\ LET a == AppOf(w)
           h == handler[w]
           rest == Tail(h.todo)
       IN  \E outcome \in WriteOutcomes :
             /\ trail' = IF Stored(outcome)
                         THEN [trail EXCEPT ![a] = Append(@, Head(h.todo))] ELSE trail
             /\ Become(w, After(outcome, h,
                          [h EXCEPT !.todo = rest,
                                    !.pc = IF rest = <<>> THEN "complete" ELSE "trail"]))
    /\ UNCHANGED <<row, records, audit, ledger, answers>>

\* mutant: the receipt is returned even if the row could not be completed
MarkCompleted_BestEffort(w) ==
    /\ At(w, "complete")
    /\ \E outcome \in StatementOutcomes :
         row' = IF Stored(outcome)
                THEN [row EXCEPT ![AppOf(w)].status = "COMPLETED",
                                 ![AppOf(w)].response = handler[w].receipt]
                ELSE row
    /\ Become(w, [handler[w] EXCEPT !.pc = "audit"])
    /\ UNCHANGED <<records, trail, audit, ledger, answers>>

(* If the update is given no connection, the session is usable and what    *)
(* mark_failed then marks is a payout that was made and recorded.          *)
MarkCompleted(w) ==
    /\ At(w, "complete")
    /\ LET a == AppOf(w)
           h == handler[w]
       IN  \E outcome \in StatementOutcomes :
             /\ row' = IF Stored(outcome)
                       THEN [row EXCEPT ![a].status = "COMPLETED",
                                        ![a].response = h.receipt]
                       ELSE row
             /\ Become(w, After(outcome, h, [h EXCEPT !.pc = "audit"]))
    /\ UNCHANGED <<records, trail, audit, ledger, answers>>

\* mutant: the session is rolled back first, so mark_failed always works
MarkFailed_AfterRollback(w) ==
    /\ At(w, "fail")
    /\ row' = [row EXCEPT ![AppOf(w)].status = "FAILED"]
    /\ Become(w, [handler[w] EXCEPT !.pc = "audit", !.broken = FALSE])
    /\ UNCHANGED <<records, trail, audit, ledger, answers>>
\* mutant: a run that raised leaves its row alone
MarkFailed_Skipped(w) ==
    /\ At(w, "fail")
    /\ Become(w, [handler[w] EXCEPT !.pc = "audit"])
    /\ UNCHANGED <<row, records, trail, audit, ledger, answers>>

(* mark_failed on a broken session raises and stores nothing.              *)
MarkFailed(w) ==
    /\ At(w, "fail")
    /\ LET a == AppOf(w)
           h == handler[w]
       IN  IF h.broken
           THEN Become(w, [h EXCEPT !.pc = "audit"]) /\ UNCHANGED row
           ELSE \E outcome \in StatementOutcomes :
                  /\ row' = IF Stored(outcome)
                            THEN [row EXCEPT ![a].status = "FAILED"] ELSE row
                  /\ Become(w, [h EXCEPT !.pc = "audit", !.broken = Breaks(outcome)])
    /\ UNCHANGED <<records, trail, audit, ledger, answers>>

(* The caller gets the answer and the worker is free again.                *)
Reply(w, code) ==
    /\ answers' = IF code = "200"
                  THEN [answers EXCEPT ![AppOf(w)] = @ \cup
                            {[req |-> handler[w].req, receipt |-> handler[w].receipt]}]
                  ELSE answers
    /\ Become(w, Idle)

(* finally: save_log, whose exception replaces whatever was returned.      *)
SaveAudit(w) ==
    /\ At(w, "audit")
    /\ LET a == AppOf(w)
           h == handler[w]
       IN  IF h.broken
           THEN Reply(w, "500") /\ UNCHANGED audit
           ELSE \E outcome \in WriteOutcomes :
                  /\ audit' = IF Stored(outcome)
                              THEN [audit EXCEPT ![a] = @ \cup {<<h.status, h.code # "200">>}]
                              ELSE audit
                  /\ Reply(w, IF Raised(outcome) THEN "500" ELSE h.code)
    /\ UNCHANGED <<row, records, trail, ledger>>

(* The process dies: what is committed stays, the caller gets no answer.   *)
Crash(w) ==
    /\ MayCrash
    /\ ~At(w, "idle")
    /\ Become(w, Idle)
    /\ UNCHANGED <<dbVars, ledger, answers>>

Step(w) == \/ ReadRow(w) \/ CreateRow(w) \/ RunGraph(w) \/ SaveRecord(w)
           \/ SaveTransition(w) \/ MarkCompleted(w) \/ MarkFailed(w) \/ SaveAudit(w)

Next == \E w \in Workers :
            \/ \E a \in Apps, r \in Requests : Receive(w, a, r)
            \/ Step(w)
            \/ Crash(w)

(* A worker that is handling a request goes on; nobody has to send one.    *)
Spec == Init /\ [][Next]_vars
FairSpec == Spec /\ \A w \in Workers : WF_vars(Step(w))

-----------------------------------------------------------------------------
(* Safety *)

Executing(w) == handler[w].pc \in {"run", "record", "trail", "complete"}
Completed(a) == row[a].status = "COMPLETED"

(* However many calls, retries, crashes and lost acknowledgements there    *)
(* are, the gateway is asked to pay an application at most once: the       *)
(* README's "idempotent execution for disbursement requests".              *)
AtMostOneTransfer == \A a \in Apps : Len(ledger[a]) <= 1

(* Two workers never execute the same application at the same time,        *)
(* although the row is read in one transaction and inserted in another.    *)
OneExecutor ==
    \A v, w \in Workers :
        Executing(v) /\ Executing(w) /\ AppOf(v) = AppOf(w) => v = w

(* Money that moved is covered by a claim of the same terms, and if that   *)
(* claim says FAILED, which a payout that could not be completed may end   *)
(* as, the record of the payout is stored: nobody who looks at the books   *)
(* takes a payment that was made for one that was not.                     *)
MoneyIsClaimed ==
    \A a \in Apps : ledger[a] # <<>> =>
        /\ row[a].status # "NONE"
        /\ row[a].request = ledger[a][1]
        /\ row[a].status = "FAILED" => records[a] # <<>>

(* What a run leaves: one record, the whole transition history, and in the *)
(* ledger exactly the transfer the record claims; or nothing at all.       *)
LeavesAll(a) == /\ Len(records[a]) = 1
                /\ trail[a] = TransitionHistory(FinalState(row[a].request))
                /\ records[a][1].txn = Len(ledger[a])
                /\ ledger[a] \in {<<>>, <<row[a].request>>}
LeavesNothing(a) == ledger[a] = <<>> /\ records[a] = <<>> /\ trail[a] = <<>>

(* A COMPLETED row is backed by everything the run had to leave behind,    *)
(* and the record is the cached receipt.  A FAILED one stands for all of a *)
(* run or for nothing of it, never for a run stopped half-way.             *)
SettledIsBacked ==
    \A a \in Apps :
        /\ Completed(a) => LeavesAll(a) /\ records[a][1] = row[a].response
        /\ row[a].status = "FAILED" =>
             \/ LeavesNothing(a)
             \/ LeavesAll(a) /\ records[a][1].terms = row[a].request

(* Every 200 for an application carries the one receipt its row keeps, and *)
(* goes to a caller that sent the terms the receipt is about.              *)
AnswersAgree ==
    \A a \in Apps : \A answer \in answers[a] :
        /\ Completed(a)
        /\ answer.receipt = row[a].response
        /\ answer.req = answer.receipt.terms

(* The books never run ahead: the transition log is a prefix of the        *)
(* history of the claimed terms, nothing is logged before the record is    *)
(* stored, and a stored record tells what the gateway did.                 *)
BooksAreInOrder ==
    \A a \in Apps :
        /\ Len(records[a]) <= 1
        /\ trail[a] # <<>> =>
             /\ records[a] # <<>>
             /\ LET h == TransitionHistory(FinalState(row[a].request))
                IN  Len(trail[a]) <= Len(h) /\ trail[a] = SubSeq(h, 1, Len(trail[a]))
        /\ records[a] # <<>> => records[a][1].txn = Len(ledger[a])

(* An audit row that reports success without an error is about a run whose *)
(* result is stored.                                                       *)
AuditIsHonest ==
    \A a \in Apps :
        audit[a] \cap {<<"SUCCESS", FALSE>>, <<"IDEMPOTENT_HIT", FALSE>>} # {} => Completed(a)

-----------------------------------------------------------------------------
(* Action properties *)

(* A row is written at most twice: claimed, then settled, for good, and    *)
(* always by the terms that claimed it.                                    *)
RowIsSettledOnce ==
    [][\A a \in Apps : row[a].status # "NONE" =>
          /\ row'[a].request = row[a].request
          /\ row[a].status \in {"COMPLETED", "FAILED"} => row'[a] = row[a]]_row

-----------------------------------------------------------------------------
(* The inductive invariant behind the safety properties *)

(* A worker holds the claim of its application from the insert it made     *)
(* until it settles the row or its session breaks.                         *)
Holding(h) == \/ h.pc \in {"run", "record", "trail", "complete"}
              \/ h.pc = "fail" /\ ~h.broken
Holds(w) == Holding(handler[w])

(* What a handler carries at each point of the code.                       *)
GoodHandler ==
    {h \in Handler :
        /\ h.pc # "idle" => h.app \in Apps /\ h.req \in Requests
        /\ h.pc \in {"get", "create"} => ~h.created
        /\ h.pc \in {"record", "trail", "complete"} => h.receipt \in Receipt
        /\ h.pc = "fail" => h.code = "500"
        /\ h.pc = "audit" /\ h.code = "200" => h.receipt \in Receipt}
HandlersGood == handler \in [Workers -> GoodHandler]

OneHolder ==
    \A v, w \in Workers : Holds(v) /\ Holds(w) /\ AppOf(v) = AppOf(w) => v = w
HolderHasClaim ==
    \A w \in Workers : Holds(w) =>
        /\ row[AppOf(w)].status = "PROCESSING"
        /\ row[AppOf(w)].request = handler[w].req
(* Until the graph has run no money has moved.                             *)
NotYetPaid ==
    \A w \in Workers : At(w, "run") => ledger[AppOf(w)] = <<>>
(* Money that moved belongs to a claim of the same terms.                  *)
MoneyHasClaim ==
    \A a \in Apps : ledger[a] # <<>> =>
        row[a].status # "NONE" /\ row[a].request = ledger[a][1]

ClaimInv == /\ TypeOK
            /\ HandlersGood
            /\ OneHolder
            /\ HolderHasClaim
            /\ NotYetPaid
            /\ AtMostOneTransfer
            /\ MoneyHasClaim

(* What the terms r come to: the receipt, the history and the transfer.    *)
TheReceipt(r) == BuildReceipt(r, FinalState(r), 1)
TheHistory(r) == TransitionHistory(FinalState(r))
TheTransfer(r) == IF MovesMoney(r) THEN <<r>> ELSE <<>>
FirstPart(moves, h) == Len(moves) <= Len(h) /\ moves = SubSeq(h, 1, Len(moves))

(* What a run of the terms r leaves in the end, and what it has left when  *)
(* nothing is done yet.                                                    *)
AllBooks(r, recs, moves, money) ==
    recs = <<TheReceipt(r)>> /\ moves = TheHistory(r) /\ money = TheTransfer(r)
NoBooks(recs, moves, money) == recs = <<>> /\ moves = <<>> /\ money = <<>>

(* The books of an application, as its row lets expect them: nothing, or   *)
(* the transfer, or also the record and a first part of the history.       *)
BooksFit(r, recs, moves, money) ==
    CASE r.status = "COMPLETED" ->
           /\ r.response = TheReceipt(r.request)
           /\ AllBooks(r.request, recs, moves, money)
      [] r.status = "PROCESSING" ->
           \/ NoBooks(recs, moves, money)
           \/ /\ money = TheTransfer(r.request)
              /\ \/ recs = <<>> /\ moves = <<>>
                 \/ /\ recs = <<TheReceipt(r.request)>>
                    /\ FirstPart(moves, TheHistory(r.request))
      [] r.status = "FAILED" ->
           NoBooks(recs, moves, money) \/ AllBooks(r.request, recs, moves, money)
      [] OTHER -> NoBooks(recs, moves, money)

(* The same books, as the place of the worker that holds the claim tells   *)
(* them exactly; and a caller about to be told 200 gets what the row keeps.*)
(* A run that raised has left nothing, and a completion that was given no  *)
(* connection everything.                                                  *)
WorkFits(h, r, recs, moves, money) ==
    /\ h.pc = "run" => NoBooks(recs, moves, money)
    /\ h.pc = "fail" /\ ~h.broken =>
         NoBooks(recs, moves, money) \/ AllBooks(h.req, recs, moves, money)
    /\ h.pc \in {"record", "trail", "complete"} =>
         h.receipt = TheReceipt(h.req) /\ money = TheTransfer(h.req)
    /\ h.pc = "record" => recs = <<>> /\ moves = <<>> /\ h.todo = TheHistory(h.req)
    /\ h.pc = "trail" => /\ recs = <<h.receipt>>
                         /\ h.todo # <<>> /\ moves \o h.todo = TheHistory(h.req)
    /\ h.pc = "complete" => recs = <<h.receipt>> /\ moves = TheHistory(h.req)
    /\ h.pc = "audit" /\ h.code = "200" =>
         r.status = "COMPLETED" /\ r.request = h.req /\ r.response = h.receipt

(* What was told, to callers and in the audit log, is what the row keeps.  *)
TalkFits(r, told, log) ==
    /\ \A answer \in told : /\ r.status = "COMPLETED"
                           /\ answer.receipt = r.response
                           /\ answer.req = r.request
    /\ \A status \in {"SUCCESS", "IDEMPOTENT_HIT"} :
         <<status, FALSE>> \in log => r.status = "COMPLETED"

BooksInv ==
    /\ \A a \in Apps : /\ BooksFit(row[a], records[a], trail[a], ledger[a])
                       /\ TalkFits(row[a], answers[a], audit[a])
    /\ \A w \in Workers : ~At(w, "idle") =>
         WorkFits(handler[w], row[AppOf(w)], records[AppOf(w)], trail[AppOf(w)],
                  ledger[AppOf(w)])

-----------------------------------------------------------------------------
(* Refinement *)

PhaseOf(a) == CASE row[a].status = "NONE"      -> "open"
                [] row[a].status = "COMPLETED" -> "settled"
                [] row[a].status = "FAILED"    ->
                     IF ledger[a] = <<>> THEN "void" ELSE "disowned"
                [] OTHER -> IF ledger[a] = <<>> THEN "claimed" ELSE "paid"
Phase == [a \in Apps |-> PhaseOf(a)]
Claimed == [a \in Apps |-> row[a].request]

Contract == INSTANCE PayoutContract WITH
    phase <- Phase, claim <- Claimed, told <- answers

(* The agent keeps the contract whatever fails.                            *)
ContractKept == Contract!Spec

-----------------------------------------------------------------------------
(* Liveness *)

(* Where nothing fails, a claimed application is settled: no caller is     *)
(* told "in progress" for ever.                                            *)
ClaimIsSettled ==
    \A a \in Apps : (row[a].status = "PROCESSING") ~> (row[a].status \in {"COMPLETED", "FAILED"})
=============================================================================
