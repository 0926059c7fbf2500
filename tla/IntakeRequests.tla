---------------------------- MODULE IntakeRequests ----------------------------
(***************************************************************************)
(* The intake agent's three idempotent operations over its one table of    *)
(* request ids: submitting an application, uploading a document (whose id  *)
(* is the hash of the document), and the asynchronous intake, which        *)
(* answers at once and calls its client back from a task of the process.   *)
(*                                                                         *)
(* A request that fails validation before it reaches the guard changes     *)
(* nothing and is left out.  One action is what a handler does up to the   *)
(* end of a transaction; WriteOutcomes is as in Disbursement, except that  *)
(* here a session is rolled back, so an error handler can still use it.    *)
(***************************************************************************)
EXTENDS Integers, Sequences

CONSTANTS Workers, Keys,
          Kind,             \* what each request id is used for
          Payloads,         \* the payloads sent under each request id
          WriteOutcomes, MayCrash,
          MaxStored         \* bound: no new request for an id that has stored this much

ASSUME IntakeAssumption ==
    /\ Kind \in [Keys -> {"submit", "upload", "intake"}]
    /\ DOMAIN Payloads = Keys
    (* an upload's id is the hash of its payload *)
    /\ \A k \in Keys : Kind[k] = "upload" => \A p, q \in Payloads[k] : p = q
    /\ WriteOutcomes \subseteq {"done", "refused", "unacknowledged"}
    /\ "done" \in WriteOutcomes
    /\ MayCrash \in BOOLEAN
    /\ MaxStored \in Nat \ {0}

VARIABLES row,        \* intake_idempotency
          made,       \* the applications, or documents, stored under an id
          callback,   \* callback_status (and request_metadata, stored with it)
          waiting,    \* tasks that have yet to call back
          sending,    \* tasks that have marked their callback as sent
          delivered,  \* callbacks that reached the client
          handler,    \* the requests being handled
          answers,    \* history: the successful answers given
          faulted     \* history: ids a database fault or a crash has hit
dbVars == <<row, made, callback>>
jobVars == <<waiting, sending, delivered>>
vars == <<dbVars, jobVars, handler, answers, faulted>>

AllPayloads == UNION {Payloads[k] : k \in Keys}
NoPayload == "none"

NoRow == [status |-> "NONE", request |-> NoPayload, response |-> 0]
Idle == [pc |-> "idle", key |-> "none", payload |-> NoPayload, stored |-> 0]

Row == [status : {"NONE", "RECEIVED", "COMPLETED"},
        request : AllPayloads \cup {NoPayload}, response : Nat]
Handler == [pc : {"idle", "get", "create", "execute", "complete", "delete"},
            key : Keys \cup {"none"}, payload : AllPayloads \cup {NoPayload}, stored : Nat]

TypeOK ==
    /\ row \in [Keys -> Row]
    /\ made \in [Keys -> Seq(AllPayloads)]
    /\ callback \in [Keys -> {"NONE", "PENDING", "SENT"}]
    /\ waiting \in [Keys -> Nat] /\ sending \in [Keys -> Nat] /\ delivered \in [Keys -> Nat]
    /\ handler \in [Workers -> Handler]
    /\ answers \in [Keys -> SUBSET [payload : AllPayloads, stored : Nat]]
    /\ faulted \in [Keys -> BOOLEAN]

Init ==
    /\ row = [k \in Keys |-> NoRow]
    /\ made = [k \in Keys |-> <<>>]
    /\ callback = [k \in Keys |-> "NONE"]
    /\ waiting = [k \in Keys |-> 0]
    /\ sending = [k \in Keys |-> 0]
    /\ delivered = [k \in Keys |-> 0]
    /\ handler = [w \in Workers |-> Idle]
    /\ answers = [k \in Keys |-> {}]
    /\ faulted = [k \in Keys |-> FALSE]

-----------------------------------------------------------------------------
KeyOf(w) == handler[w].key
At(w, pc) == handler[w].pc = pc
Stored(outcome) == outcome # "refused"
Raised(outcome) == outcome # "done"
Note(k, outcome) == faulted' = [faulted EXCEPT ![k] = @ \/ Raised(outcome)]

GoTo(w, pc) == handler' = [handler EXCEPT ![w].pc = pc] /\ UNCHANGED answers
(* The caller gets an error, whatever its code.                            *)
Fail(w) == handler' = [handler EXCEPT ![w] = Idle] /\ UNCHANGED answers
Succeed(w, stored) ==
    /\ handler' = [handler EXCEPT ![w] = Idle]
    /\ answers' = [answers EXCEPT ![KeyOf(w)] =
                     @ \cup {[payload |-> handler[w].payload, stored |-> stored]}]
(* Where an exception of the execution leads: only an upload has a handler *)
(* that deletes the row.                                                   *)
Abort(w) == IF Kind[KeyOf(w)] = "upload" THEN GoTo(w, "delete") ELSE Fail(w)

Receive(w, k, p) ==
    /\ At(w, "idle")
    /\ Len(made[k]) < MaxStored
    /\ handler' = [handler EXCEPT ![w] = [pc |-> "get", key |-> k, payload |-> p, stored |-> 0]]
    /\ UNCHANGED <<dbVars, jobVars, answers, faulted>>

\* mutant: the hashes are not compared
ReadRow_NoHashCheck(w) ==
    /\ At(w, "get")
    /\ LET r == row[KeyOf(w)]
       IN  CASE r.status = "NONE"      -> GoTo(w, "create")
             [] r.status = "COMPLETED" -> Succeed(w, r.response)
             [] OTHER                  -> Fail(w)
    /\ UNCHANGED <<dbVars, jobVars, faulted>>

(* IdempotencyGuard.execute up to the insert: a stored row answers (its    *)
(* result, a mismatch, or "currently processing").                         *)
ReadRow(w) ==
    /\ At(w, "get")
    /\ LET r == row[KeyOf(w)]
       IN  \/ CASE r.status = "NONE" -> GoTo(w, "create")
                [] r.status = "COMPLETED" /\ r.request = handler[w].payload ->
                       Succeed(w, r.response)
                [] OTHER -> Fail(w)
           \/ WriteOutcomes # {"done"} /\ Fail(w)
    /\ UNCHANGED <<dbVars, jobVars, faulted>>

\* mutant: the insert replaces a row that is there
CreateRow_Upsert(w) ==
    /\ At(w, "create")
    /\ row' = [row EXCEPT ![KeyOf(w)] = [status |-> "RECEIVED",
                                         request |-> handler[w].payload, response |-> 0]]
    /\ GoTo(w, "execute")
    /\ UNCHANGED <<made, callback, jobVars, faulted>>

(* The insert, which the primary key refuses if a row is there by now.     *)
CreateRow(w) ==
    /\ At(w, "create")
    /\ LET k == KeyOf(w)
       IN  IF row[k] # NoRow
           THEN Fail(w) /\ UNCHANGED <<row, faulted>>
           ELSE \E outcome \in WriteOutcomes :
                  /\ row' = IF Stored(outcome)
                            THEN [row EXCEPT ![k] = [status |-> "RECEIVED",
                                      request |-> handler[w].payload, response |-> 0]]
                            ELSE row
                  /\ IF Raised(outcome) THEN Fail(w) ELSE GoTo(w, "execute")
                  /\ Note(k, outcome)
    /\ UNCHANGED <<made, callback, jobVars>>

\* mutant: a rejected document is answered without cleaning up
Reject_KeepsRow(w) ==
    /\ At(w, "execute")
    /\ Fail(w)
    /\ UNCHANGED <<dbVars, jobVars, faulted>>

(* The execution raises before it stores anything: a document is rejected  *)
(* by its checks, or an application cannot be normalised or written.       *)
Reject(w) ==
    /\ At(w, "execute")
    /\ Abort(w)
    /\ UNCHANGED <<dbVars, jobVars, faulted>>

(* What the execution has prepared is stored in one commit.                *)
Store(w) ==
    /\ LET k == KeyOf(w)
       IN  \E outcome \in WriteOutcomes :
             /\ made' = IF Stored(outcome)
                        THEN [made EXCEPT ![k] = Append(@, handler[w].payload)] ELSE made
             /\ IF Raised(outcome) THEN Abort(w)
                ELSE /\ handler' = [handler EXCEPT ![w].pc = "complete",
                                                   ![w].stored = Len(made[k]) + 1]
                     /\ UNCHANGED answers
             /\ Note(k, outcome)
    /\ UNCHANGED <<row, callback, jobVars>>

(* The application with all its applicants and their parts.                *)
StoreApplication(w) == At(w, "execute") /\ Kind[KeyOf(w)] = "submit" /\ Store(w)
(* A document that has passed its checks.                                  *)
StoreDocument(w) == At(w, "execute") /\ Kind[KeyOf(w)] = "upload" /\ Store(w)

\* mutant: metadata and callback are written behind the answer
Accept_Early(w) ==
    /\ At(w, "execute")
    /\ Kind[KeyOf(w)] = "intake"
    /\ LET k == KeyOf(w)
       IN  \E outcome \in WriteOutcomes :
             /\ callback' = IF Stored(outcome) THEN [callback EXCEPT ![k] = "PENDING"]
                            ELSE callback
             /\ waiting' = [waiting EXCEPT ![k] = @ + 1]
             /\ Succeed(w, 0)
             /\ Note(k, outcome)
    /\ UNCHANGED <<row, made, sending, delivered>>

(* The intake stores metadata, whose request id is unique, and callback in *)
(* one commit, starts its task and answers "accepted".                     *)
Accept(w) ==
    /\ At(w, "execute")
    /\ Kind[KeyOf(w)] = "intake"
    /\ LET k == KeyOf(w)
       IN  IF callback[k] # "NONE"
           THEN Fail(w) /\ UNCHANGED <<callback, waiting, faulted>>
           ELSE \E outcome \in WriteOutcomes :
                  /\ callback' = IF Stored(outcome) THEN [callback EXCEPT ![k] = "PENDING"]
                                 ELSE callback
                  /\ IF Raised(outcome)
                     THEN Fail(w) /\ UNCHANGED waiting
                     ELSE Succeed(w, 0) /\ waiting' = [waiting EXCEPT ![k] = @ + 1]
                  /\ Note(k, outcome)
    /\ UNCHANGED <<row, made, sending, delivered>>


(* mark_completed: an UPDATE, which finds no row if it has been deleted.   *)
Complete(w) ==
    /\ At(w, "complete")
    /\ LET k == KeyOf(w)
       IN  \E outcome \in WriteOutcomes :
             /\ row' = IF Stored(outcome) /\ row[k] # NoRow
                       THEN [row EXCEPT ![k].status = "COMPLETED",
                                        ![k].response = handler[w].stored]
                       ELSE row
             /\ IF Raised(outcome) THEN Abort(w) ELSE Succeed(w, handler[w].stored)
             /\ Note(k, outcome)
    /\ UNCHANGED <<made, callback, jobVars>>

(* The upload's error handler deletes the row, by id.                      *)
Delete(w) ==
    /\ At(w, "delete")
    /\ \E outcome \in WriteOutcomes :
         /\ row' = IF Stored(outcome) THEN [row EXCEPT ![KeyOf(w)] = NoRow] ELSE row
         /\ Note(KeyOf(w), outcome)
    /\ Fail(w)
    /\ UNCHANGED <<made, callback, jobVars>>

Crash(w) ==
    /\ MayCrash
    /\ ~At(w, "idle")
    /\ faulted' = [faulted EXCEPT ![KeyOf(w)] = TRUE]
    /\ Fail(w)
    /\ UNCHANGED <<dbVars, jobVars>>

-----------------------------------------------------------------------------
(* The callback task *)

(* After its work the task looks up the callback and marks it as sent, if  *)
(* it is pending: only then it goes on to send.                            *)
MarkSent(k) ==
    /\ waiting[k] > 0
    /\ waiting' = [waiting EXCEPT ![k] = @ - 1]
    /\ \E outcome \in WriteOutcomes :
         LET marks == callback[k] = "PENDING"
         IN  /\ callback' = IF marks /\ Stored(outcome)
                            THEN [callback EXCEPT ![k] = "SENT"] ELSE callback
             /\ sending' = IF marks /\ ~Raised(outcome)
                           THEN [sending EXCEPT ![k] = @ + 1] ELSE sending
             /\ Note(k, outcome)
    /\ UNCHANGED <<row, made, delivered, handler, answers>>

\* mutant: a POST that got no answer is sent again
Post_Again(k) ==
    /\ sending[k] > 0
    /\ delivered[k] < 2
    /\ delivered' = [delivered EXCEPT ![k] = @ + 1]
    /\ sending' \in {sending, [sending EXCEPT ![k] = @ - 1]}
    /\ UNCHANGED <<dbVars, waiting, handler, answers, faulted>>

(* One POST, which may get lost; an error is logged, and that is all.      *)
Post(k) ==
    /\ sending[k] > 0
    /\ sending' = [sending EXCEPT ![k] = @ - 1]
    /\ delivered' \in {delivered, [delivered EXCEPT ![k] = @ + 1]}
    /\ UNCHANGED <<dbVars, waiting, handler, answers, faulted>>

(* Tasks are in memory only and die with their process.                    *)
LoseTask(k) ==
    /\ MayCrash
    /\ \/ waiting[k] > 0 /\ waiting' = [waiting EXCEPT ![k] = @ - 1] /\ UNCHANGED sending
       \/ sending[k] > 0 /\ sending' = [sending EXCEPT ![k] = @ - 1] /\ UNCHANGED waiting
    /\ UNCHANGED <<dbVars, delivered, handler, answers, faulted>>

Next ==
    \/ \E w \in Workers :
         \/ \E k \in Keys : \E p \in Payloads[k] : Receive(w, k, p)
         \/ ReadRow(w) \/ CreateRow(w) \/ Reject(w) \/ StoreApplication(w)
         \/ StoreDocument(w) \/ Accept(w) \/ Complete(w) \/ Delete(w) \/ Crash(w)
    \/ \E k \in Keys : MarkSent(k) \/ Post(k) \/ LoseTask(k)

Spec == Init /\ [][Next]_vars

-----------------------------------------------------------------------------
Executing(w) == handler[w].pc \in {"execute", "complete", "delete"}

(* However often it is sent and whatever fails, a request id creates at    *)
(* most one loan application.  A document is stored once, too, unless a    *)
(* fault hit one of its uploads: then the row may be deleted although the  *)
(* document has been stored.                                               *)
StoredOnce ==
    \A k \in Keys : Kind[k] = "submit" \/ ~faulted[k] => Len(made[k]) <= 1

(* Whoever is told of success is told of what was stored for the very      *)
(* payload it sent.                                                        *)
AnswersAgree ==
    \A k \in Keys : Kind[k] # "intake" => \A answer \in answers[k] :
        answer.stored \in DOMAIN made[k] /\ made[k][answer.stored] = answer.payload

(* A rejected document can be sent again: the id of an upload is blocked   *)
(* only while somebody executes it, or after a fault.                      *)
RejectedCanRetry ==
    \A k \in Keys : Kind[k] = "upload" /\ row[k].status = "RECEIVED" =>
        faulted[k] \/ \E w \in Workers : Executing(w) /\ KeyOf(w) = k

(* An intake that was accepted is on record, so that a restart could       *)
(* recover its callback.                                                   *)
AcceptedIsRecorded ==
    \A k \in Keys : Kind[k] = "intake" /\ answers[k] # {} => callback[k] # "NONE"

(* A client is called back at most once.                                   *)
CallbackOnce == \A k \in Keys : delivered[k] <= 1

-----------------------------------------------------------------------------
(* The inductive invariant behind the safety properties *)

(* Where the insert keeps a second execution out for good.                 *)
Clean(k) == Kind[k] = "submit" \/ ~faulted[k]

OneExecutor ==
    \A v, w \in Workers :
        Executing(v) /\ Executing(w) /\ KeyOf(v) = KeyOf(w) => v = w

(* What a row says of the things stored under its id.                      *)
RowFits(k, r, things) ==
    /\ r = NoRow /\ Clean(k) => things = <<>>
    /\ Clean(k) => Len(things) <= 1
    /\ r.status = "COMPLETED" =>
         /\ Kind[k] # "intake"
         /\ r.response \in DOMAIN things /\ things[r.response] = r.request

(* What a handler knows of the row it executes for.                        *)
WorkFits(h, r, things) ==
    /\ h.pc # "idle" => h.key \in Keys /\ h.payload \in Payloads[h.key]
    /\ h.pc \in {"execute", "complete", "delete"} => r # NoRow
    /\ h.pc \in {"execute", "complete"} => r.status = "RECEIVED" /\ r.request = h.payload
    /\ h.pc \in {"execute", "delete"} /\ Clean(h.key) => things = <<>>
    /\ h.pc = "complete" => /\ Kind[h.key] # "intake"
                            /\ h.stored \in DOMAIN things /\ things[h.stored] = h.payload
    /\ h.pc = "delete" => Kind[h.key] = "upload"

RequestInv ==
    /\ TypeOK
    /\ OneExecutor
    /\ \A k \in Keys : RowFits(k, row[k], made[k])
    /\ \A w \in Workers : ~At(w, "idle") =>
         WorkFits(handler[w], row[KeyOf(w)], made[KeyOf(w)])
    /\ AnswersAgree
    /\ RejectedCanRetry

(* A callback is sent by the one task that found it pending.               *)
CallbackInv ==
    /\ \A k \in Keys : /\ callback[k] # "SENT" => sending[k] = 0 /\ delivered[k] = 0
                       /\ sending[k] + delivered[k] <= 1
    /\ AcceptedIsRecorded
=============================================================================
