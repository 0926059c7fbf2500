----------------------------- MODULE IntakeProofs -----------------------------
(***************************************************************************)
(* Proofs about IntakeRequests, for any number of workers and request ids, *)
(* any payloads, and any database faults and crashes: what an id stores,   *)
(* what its callers are told, and when its client is called back.          *)
(***************************************************************************)
EXTENDS IntakeRequests, SequenceTheorems, TLAPS

-----------------------------------------------------------------------------
(* One worker's step on the row and the things of one id. *)

ExecutingIn(h) == h.pc \in {"execute", "complete", "delete"}

(* The types of what the requests do not look at.                          *)
JobsTyped ==
    /\ callback \in [Keys -> {"NONE", "PENDING", "SENT"}]
    /\ waiting \in [Keys -> Nat] /\ sending \in [Keys -> Nat] /\ delivered \in [Keys -> Nat]

(* Nothing is told of k that is not stored.                                *)
ToldIsStored(k) ==
    Kind[k] # "intake" => \A answer \in answers[k] :
        answer.stored \in DOMAIN made[k] /\ made[k][answer.stored] = answer.payload

(* What is stored stays, and a fault is not forgotten.                     *)
Kept(k) ==
    /\ faulted[k] => faulted'[k]
    /\ \A i \in DOMAIN made[k] : i \in DOMAIN made'[k] /\ made'[k][i] = made[k][i]

(* A step on k keeps RequestInv if it leaves a row that fits what is       *)
(* stored, a handler that fits the row, and either leaves row and things   *)
(* alone or is made by the only worker that can be executing k.            *)
LEMMA WorkerStep ==
    ASSUME RequestInv, NEW w \in Workers, NEW k \in Keys, NEW h \in Handler,
           handler' = [handler EXCEPT ![w] = h],
           h.pc # "idle" => h.key = k,
           Executing(w) => KeyOf(w) = k,
           row' \in [Keys -> Row], made' \in [Keys -> Seq(AllPayloads)],
           answers' \in [Keys -> SUBSET [payload : AllPayloads, stored : Nat]],
           faulted' \in [Keys -> BOOLEAN], JobsTyped',
           \A b \in Keys \ {k} : /\ row'[b] = row[b] /\ made'[b] = made[b]
                                 /\ answers'[b] = answers[b] /\ faulted'[b] = faulted[b],
           Kept(k),
           \/ row'[k] = row[k] /\ made'[k] = made[k] /\ (ExecutingIn(h) => Executing(w))
           \/ \A v \in Workers \ {w} : Executing(v) => KeyOf(v) # k,
           RowFits(k, row[k], made[k])',
           h.pc # "idle" => WorkFits(h, row[k], made[k])',
           ToldIsStored(k)',
           Kind[k] = "upload" /\ row'[k].status = "RECEIVED" =>
              \/ faulted'[k] \/ ExecutingIn(h)
              \/ row[k].status = "RECEIVED" /\ ~Executing(w)
    PROVE  RequestInv'
  <1>1. /\ handler \in [Workers -> Handler] /\ faulted \in [Keys -> BOOLEAN]
        /\ OneExecutor /\ \A b \in Keys : RowFits(b, row[b], made[b])
        /\ \A v \in Workers : ~At(v, "idle") =>
             WorkFits(handler[v], row[KeyOf(v)], made[KeyOf(v)])
    BY DEF RequestInv, TypeOK
  <1>2. \A v \in Workers : handler'[v] = IF v = w THEN h ELSE handler[v]
    BY <1>1
  <1>3. TypeOK'
    BY <1>1 DEF TypeOK, JobsTyped
  <1>4. \A v \in Workers \ {w} : Executing(v) /\ KeyOf(v) = k /\ ExecutingIn(h) => FALSE
    BY <1>1 DEF OneExecutor
  <1>5. OneExecutor'
    BY <1>1, <1>2, <1>4 DEF OneExecutor, Executing, ExecutingIn, KeyOf
  <1>6. \A b \in Keys : RowFits(b, row[b], made[b])'
    BY <1>1 DEF RowFits, Clean
  <1>7. ASSUME NEW v \in Workers, v # w, handler[v].pc # "idle"
        PROVE  WorkFits(handler[v], row[KeyOf(v)], made[KeyOf(v)])'
    <2>1. /\ WorkFits(handler[v], row[KeyOf(v)], made[KeyOf(v)]) /\ KeyOf(v) \in Keys
          /\ handler'[v] = handler[v] /\ KeyOf(v)' = KeyOf(v)
      BY <1>1, <1>2, <1>7 DEF At, WorkFits, KeyOf
    <2>2. CASE KeyOf(v) # k
      BY <2>1, <2>2 DEF WorkFits, Clean, KeyOf
    <2>3. CASE KeyOf(v) = k /\ row'[k] = row[k] /\ made'[k] = made[k]
      BY <2>1, <2>3 DEF WorkFits, Clean, KeyOf, Kept
    <2>4. CASE KeyOf(v) = k /\ ~Executing(v)
      BY <2>1, <2>4 DEF WorkFits, Executing
    <2>5. QED
      BY <1>7, <2>2, <2>3, <2>4
  <1>8. \A v \in Workers : ~At(v, "idle")' => WorkFits(handler[v], row[KeyOf(v)], made[KeyOf(v)])'
    BY <1>2, <1>7 DEF At, KeyOf
  <1>9. AnswersAgree'
    <2>1. \A b \in Keys : ToldIsStored(b)
      BY DEF RequestInv, AnswersAgree, ToldIsStored
    <2>2. ASSUME NEW b \in Keys, b # k  PROVE  ToldIsStored(b)'
      <3>1. answers'[b] = answers[b] /\ made'[b] = made[b]
        BY <2>2
      <3>2. QED
        BY ONLY <2>1, <2>2, <3>1 DEF ToldIsStored
    <2>3. \A b \in Keys : ToldIsStored(b)'
      BY <2>2
    <2>4. QED
      BY <2>3 DEF AnswersAgree, ToldIsStored
  <1>10. RejectedCanRetry'
    <2>1. ASSUME NEW b \in Keys, Kind[b] = "upload", row'[b].status = "RECEIVED", ~faulted'[b]
          PROVE  \E v \in Workers : (Executing(v) /\ KeyOf(v) = b)'
      <3>1. CASE b = k /\ ExecutingIn(h)
        BY <1>2, <3>1 DEF Executing, ExecutingIn, KeyOf
      <3>2. CASE b # k \/ (row[k].status = "RECEIVED" /\ ~Executing(w))
        <4>1. PICK v \in Workers : Executing(v) /\ KeyOf(v) = b
          BY <2>1, <3>2 DEF RequestInv, RejectedCanRetry, Kept
        <4>2. v # w
          BY <3>2, <4>1
        <4>3. QED
          BY <1>2, <4>1, <4>2 DEF Executing, KeyOf
      <3>3. QED
        BY <2>1, <3>1, <3>2
    <2>2. QED
      BY <2>1 DEF RejectedCanRetry
  <1>11. QED
    BY <1>3, <1>5, <1>6, <1>8, <1>9, <1>10 DEF RequestInv
(* What the invariant says of a worker that is at work.                    *)
LEMMA AtWork ==
    ASSUME RequestInv, NEW w \in Workers, ~At(w, "idle")
    PROVE  \E k \in Keys : \E g \in Handler :
             /\ k = KeyOf(w) /\ g = handler[w] /\ g.key = k
             /\ g.payload \in Payloads[k] /\ g.payload \in AllPayloads
             /\ WorkFits(g, row[k], made[k])
             /\ RowFits(k, row[k], made[k])
             /\ row[k] \in Row /\ made[k] \in Seq(AllPayloads) /\ faulted[k] \in BOOLEAN
             /\ ToldIsStored(k)
             /\ Executing(w) => \A v \in Workers \ {w} : Executing(v) => KeyOf(v) # k
  <1>1. /\ WorkFits(handler[w], row[KeyOf(w)], made[KeyOf(w)])
        /\ handler[w] \in Handler /\ handler[w].pc # "idle"
    BY DEF RequestInv, TypeOK, At
  <1>2. /\ KeyOf(w) \in Keys /\ handler[w].payload \in Payloads[KeyOf(w)]
        /\ handler[w].key = KeyOf(w)
    BY <1>1 DEF WorkFits, KeyOf
  <1>3. handler[w].payload \in AllPayloads
    BY <1>2 DEF AllPayloads
  <1>4. /\ RowFits(KeyOf(w), row[KeyOf(w)], made[KeyOf(w)])
        /\ row[KeyOf(w)] \in Row /\ made[KeyOf(w)] \in Seq(AllPayloads)
        /\ faulted[KeyOf(w)] \in BOOLEAN
    BY <1>2 DEF RequestInv, TypeOK
  <1>5. ToldIsStored(KeyOf(w))
    BY <1>2 DEF RequestInv, AnswersAgree, ToldIsStored
  <1>6. Executing(w) => \A v \in Workers \ {w} : Executing(v) => KeyOf(v) # KeyOf(w)
    BY DEF RequestInv, OneExecutor
  <1>7. QED
    BY <1>1, <1>2, <1>3, <1>4, <1>5, <1>6

(* A step that only moves the handler, and at most notes a fault.          *)
LEMMA QuietStep ==
    ASSUME RequestInv, NEW w \in Workers, NEW k \in Keys, NEW h \in Handler,
           handler' = [handler EXCEPT ![w] = h],
           h.pc # "idle" => h.key = k,
           Executing(w) => KeyOf(w) = k,
           UNCHANGED <<row, made, answers>>, JobsTyped',
           faulted' = faulted \/ faulted' = [faulted EXCEPT ![k] = TRUE],
           ExecutingIn(h) => Executing(w),
           h.pc # "idle" => WorkFits(h, row[k], made[k])',
           Kind[k] = "upload" /\ row[k].status = "RECEIVED" =>
              faulted'[k] \/ ExecutingIn(h) \/ ~Executing(w)
    PROVE  RequestInv'
  <1>1. /\ row \in [Keys -> Row] /\ made \in [Keys -> Seq(AllPayloads)]
        /\ answers \in [Keys -> SUBSET [payload : AllPayloads, stored : Nat]]
        /\ faulted \in [Keys -> BOOLEAN] /\ RowFits(k, row[k], made[k])
    BY DEF RequestInv, TypeOK
  <1>2. /\ faulted' \in [Keys -> BOOLEAN] /\ (faulted[k] => faulted'[k])
        /\ \A b \in Keys \ {k} : faulted'[b] = faulted[b]
    BY <1>1
  <1>3. row' = row /\ made' = made /\ answers' = answers
    OBVIOUS
  <1>4. RowFits(k, row[k], made[k])'
    BY <1>1, <1>2, <1>3 DEF RowFits, Clean
  <1>5. Kept(k)
    BY <1>2, <1>3 DEF Kept
  <1>6. ToldIsStored(k)'
    BY <1>3 DEF RequestInv, AnswersAgree, ToldIsStored
  <1>7. QED
    BY <1>1, <1>2, <1>3, <1>4, <1>5, <1>6, WorkerStep
LEMMA IdleHandler == Idle \in Handler /\ Idle.pc = "idle"
  BY DEF Idle, Handler

LEMMA StillTyped ==
    ASSUME RequestInv, UNCHANGED <<callback, jobVars>>  PROVE  JobsTyped'
  BY DEF RequestInv, TypeOK, JobsTyped, jobVars

LEMMA ReceiveStep ==
    ASSUME RequestInv, NEW w \in Workers, NEW k \in Keys, NEW p \in Payloads[k],
           Receive(w, k, p)
    PROVE  RequestInv'
  <1> DEFINE h == [pc |-> "get", key |-> k, payload |-> p, stored |-> 0]
  <1>1. h \in Handler /\ h.pc = "get" /\ h.key = k /\ h.payload = p
    BY DEF Handler, AllPayloads
  <1>2. /\ handler' = [handler EXCEPT ![w] = h] /\ ~Executing(w)
        /\ row' = row /\ made' = made /\ answers' = answers /\ faulted' = faulted
        /\ UNCHANGED <<callback, jobVars>>
    BY DEF Receive, dbVars, At, Executing
  <1>3. JobsTyped'
    BY <1>2, StillTyped
  <1> HIDE DEF h
  <1>4. WorkFits(h, row[k], made[k])'
    BY <1>1 DEF WorkFits
  <1>5. QED
    BY <1>1, <1>2, <1>3, <1>4, QuietStep DEF ExecutingIn

LEMMA ReadRowStep ==
    ASSUME RequestInv, NEW w \in Workers, ReadRow(w)
    PROVE  RequestInv'
  <1>1. ~At(w, "idle") /\ ~Executing(w) /\ At(w, "get")
    BY DEF ReadRow, At, Executing
  <1>2. PICK k \in Keys, g \in Handler :
             /\ k = KeyOf(w) /\ g = handler[w] /\ g.key = k
             /\ g.payload \in Payloads[k] /\ g.payload \in AllPayloads
             /\ RowFits(k, row[k], made[k])
             /\ row[k] \in Row /\ made[k] \in Seq(AllPayloads) /\ ToldIsStored(k)
    BY <1>1, AtWork
  <1>3. /\ row' = row /\ made' = made /\ faulted' = faulted
        /\ UNCHANGED <<callback, jobVars>> /\ JobsTyped'
    BY StillTyped DEF ReadRow, dbVars
  <1>4. CASE Fail(w)
    BY <1>1, <1>2, <1>3, <1>4, IdleHandler, QuietStep DEF Fail, ExecutingIn
  <1>5. CASE GoTo(w, "create")
    <2> DEFINE h == [g EXCEPT !.pc = "create"]
    <2>1. handler \in [Workers -> Handler]
      BY DEF RequestInv, TypeOK
    <2>2. /\ h \in Handler /\ h.pc = "create" /\ h.key = k /\ h.payload = g.payload
          /\ handler' = [handler EXCEPT ![w] = h] /\ answers' = answers
      BY <1>2, <1>5, <2>1 DEF GoTo, Handler
    <2> HIDE DEF h
    <2>3. WorkFits(h, row[k], made[k])'
      BY <1>2, <2>2 DEF WorkFits
    <2>4. QED
      BY <1>1, <1>2, <1>3, <2>2, <2>3, QuietStep DEF ExecutingIn
  <1>6. CASE /\ row[k].status = "COMPLETED" /\ row[k].request = g.payload
             /\ Succeed(w, row[k].response)
    <2>1. /\ handler' = [handler EXCEPT ![w] = Idle]
          /\ answers' = [answers EXCEPT ![k] =
               @ \cup {[payload |-> g.payload, stored |-> row[k].response]}]
      BY <1>2, <1>6 DEF Succeed
    <2>2. /\ answers \in [Keys -> SUBSET [payload : AllPayloads, stored : Nat]]
          /\ row \in [Keys -> Row] /\ made \in [Keys -> Seq(AllPayloads)]
          /\ faulted \in [Keys -> BOOLEAN] /\ row[k].response \in Nat
      BY <1>2 DEF RequestInv, TypeOK, Row
    <2>3. answers' \in [Keys -> SUBSET [payload : AllPayloads, stored : Nat]]
      BY <1>2, <2>1, <2>2
    <2>4. \A answer \in answers'[k] :
             answer \in answers[k] \/ (answer.payload = g.payload /\ answer.stored = row[k].response)
      BY <2>1, <2>2
    <2>5. ToldIsStored(k)'
      BY <1>2, <1>3, <1>6, <2>4 DEF ToldIsStored, RowFits
    <2>6. \A b \in Keys \ {k} : answers'[b] = answers[b]
      BY <2>1, <2>2
    <2>7. RowFits(k, row[k], made[k])' /\ Kept(k)
      BY <1>2, <1>3 DEF RowFits, Clean, Kept
    <2>8. QED
      BY <1>1, <1>2, <1>3, <2>1, <2>2, <2>3, <2>5, <2>6, <2>7, IdleHandler, WorkerStep
         DEF ExecutingIn
  <1>7. QED
    BY <1>2, <1>4, <1>5, <1>6 DEF ReadRow

LEMMA RejectStep ==
    ASSUME RequestInv, NEW w \in Workers, Reject(w)
    PROVE  RequestInv'
  <1>1. ~At(w, "idle") /\ At(w, "execute")
    BY DEF Reject, At
  <1>2. PICK k \in Keys, g \in Handler :
             /\ k = KeyOf(w) /\ g = handler[w] /\ g.key = k
             /\ g.payload \in Payloads[k] /\ WorkFits(g, row[k], made[k])
             /\ row[k] \in Row
    BY <1>1, AtWork
  <1>3. /\ row' = row /\ made' = made /\ faulted' = faulted
        /\ UNCHANGED <<callback, jobVars>> /\ JobsTyped'
    BY StillTyped DEF Reject, dbVars
  <1>4. CASE Kind[k] # "upload"
    <2>1. handler' = [handler EXCEPT ![w] = Idle] /\ answers' = answers
      BY <1>2, <1>4 DEF Reject, Abort, Fail
    <2>2. QED
      BY <1>2, <1>3, <1>4, <2>1, IdleHandler, QuietStep DEF ExecutingIn
  <1>5. CASE Kind[k] = "upload"
    <2> DEFINE h == [g EXCEPT !.pc = "delete"]
    <2>1. handler \in [Workers -> Handler]
      BY DEF RequestInv, TypeOK
    <2>2. /\ h \in Handler /\ h.pc = "delete" /\ h.key = k /\ h.payload = g.payload
          /\ handler' = [handler EXCEPT ![w] = h] /\ answers' = answers
      BY <1>2, <1>5, <2>1 DEF Reject, Abort, GoTo, Handler
    <2> HIDE DEF h
    <2>3. WorkFits(h, row[k], made[k])'
      BY <1>1, <1>2, <1>3, <1>5, <2>2 DEF WorkFits, Clean, At
    <2>4. QED
      BY <1>1, <1>2, <1>3, <2>2, <2>3, QuietStep DEF ExecutingIn, Executing, At
  <1>6. QED
    BY <1>4, <1>5
LEMMA NoteFacts ==
    ASSUME RequestInv, NEW k \in Keys, NEW outcome \in WriteOutcomes, Note(k, outcome)
    PROVE  /\ faulted' \in [Keys -> BOOLEAN]
           /\ faulted'[k] <=> faulted[k] \/ Raised(outcome)
           /\ \A b \in Keys \ {k} : faulted'[b] = faulted[b]
           /\ outcome = "done" \/ Raised(outcome)
           /\ ~Raised(outcome) => outcome = "done" /\ Stored(outcome)
  <1>1. faulted \in [Keys -> BOOLEAN]
    BY DEF RequestInv, TypeOK
  <1>2. faulted' = [faulted EXCEPT ![k] = @ \/ Raised(outcome)]
    BY DEF Note
  <1>3. Raised(outcome) \in BOOLEAN
    BY DEF Raised
  <1>4. QED
    BY <1>1, <1>2, <1>3 DEF Raised, Stored

LEMMA CreateRowStep ==
    ASSUME RequestInv, NEW w \in Workers, CreateRow(w)
    PROVE  RequestInv'
  <1>1. ~At(w, "idle") /\ ~Executing(w) /\ At(w, "create")
    BY DEF CreateRow, At, Executing
  <1>2. PICK k \in Keys, g \in Handler :
             /\ k = KeyOf(w) /\ g = handler[w] /\ g.key = k
             /\ g.payload \in Payloads[k] /\ g.payload \in AllPayloads
             /\ RowFits(k, row[k], made[k])
             /\ row[k] \in Row /\ made[k] \in Seq(AllPayloads) /\ ToldIsStored(k)
    BY <1>1, AtWork
  <1>3. /\ made' = made /\ answers' = answers
        /\ UNCHANGED <<callback, jobVars>> /\ JobsTyped'
    BY StillTyped DEF CreateRow, Fail, GoTo, dbVars
  <1>4. CASE row[k] # NoRow
    <2>1. handler' = [handler EXCEPT ![w] = Idle] /\ row' = row /\ faulted' = faulted
      BY <1>2, <1>4 DEF CreateRow, Fail
    <2>2. QED
      BY <1>1, <1>2, <1>3, <2>1, IdleHandler, QuietStep DEF ExecutingIn
  <1>5. CASE row[k] = NoRow
    <2> DEFINE r == [status |-> "RECEIVED", request |-> g.payload, response |-> 0]
    <2>1. PICK outcome \in WriteOutcomes :
             /\ row' = IF Stored(outcome) THEN [row EXCEPT ![k] = r] ELSE row
             /\ IF Raised(outcome) THEN Fail(w) ELSE GoTo(w, "execute")
             /\ Note(k, outcome)
      BY <1>2, <1>5 DEF CreateRow
    <2>2. /\ handler \in [Workers -> Handler] /\ row \in [Keys -> Row]
          /\ made \in [Keys -> Seq(AllPayloads)]
          /\ answers \in [Keys -> SUBSET [payload : AllPayloads, stored : Nat]]
      BY DEF RequestInv, TypeOK
    <2>3. /\ r \in Row /\ r # NoRow /\ r.status = "RECEIVED" /\ r.request = g.payload
      BY <1>2 DEF Row, NoRow
    <2> HIDE DEF r
    <2>4. /\ row' \in [Keys -> Row] /\ \A b \in Keys \ {k} : row'[b] = row[b]
          /\ row'[k] = IF Stored(outcome) THEN r ELSE row[k]
      BY <2>1, <2>2, <2>3
    <2>5. /\ faulted' \in [Keys -> BOOLEAN] /\ (faulted'[k] <=> faulted[k] \/ Raised(outcome))
          /\ \A b \in Keys \ {k} : faulted'[b] = faulted[b]
          /\ (~Raised(outcome) => Stored(outcome))
      BY <2>1, NoteFacts
    <2>6. Clean(k)' => Clean(k)
      BY <2>5 DEF Clean
    <2>7. \A v \in Workers \ {w} : Executing(v) => KeyOf(v) # k
      BY <1>5 DEF RequestInv, WorkFits, Executing, At, KeyOf
    <2>8. RowFits(k, row[k], made[k])'
      BY <1>2, <1>3, <1>5, <2>3, <2>4, <2>6 DEF RowFits, NoRow
    <2>9. Kept(k) /\ ToldIsStored(k)'
      BY <1>2, <1>3, <2>5 DEF Kept, ToldIsStored
    <2>10. CASE Raised(outcome)
      <3>1. handler' = [handler EXCEPT ![w] = Idle]
        BY <2>1, <2>10 DEF Fail
      <3>2. QED
        BY <1>1, <1>2, <1>3, <2>2, <2>4, <2>5, <2>7, <2>8, <2>9, <2>10, <3>1,
           IdleHandler, WorkerStep
    <2>11. CASE ~Raised(outcome)
      <3> DEFINE h == [g EXCEPT !.pc = "execute"]
      <3>1. /\ h \in Handler /\ h.pc = "execute" /\ h.key = k /\ h.payload = g.payload
            /\ handler' = [handler EXCEPT ![w] = h]
        BY <1>2, <2>1, <2>2, <2>11 DEF GoTo, Handler
      <3> HIDE DEF h
      <3>2. Clean(k)' => made'[k] = <<>>
        BY <1>2, <1>3, <1>5, <2>6 DEF RowFits
      <3>3. WorkFits(h, row[k], made[k])'
        BY <1>2, <2>3, <2>4, <2>5, <2>11, <3>1, <3>2 DEF WorkFits
      <3>4. QED
        BY <1>1, <1>2, <1>3, <2>2, <2>4, <2>5, <2>7, <2>8, <2>9, <3>1, <3>3,
           WorkerStep DEF ExecutingIn
    <2>12. QED
      BY <2>10, <2>11
  <1>6. QED
    BY <1>4, <1>5

LEMMA DeleteStep ==
    ASSUME RequestInv, NEW w \in Workers, Delete(w)
    PROVE  RequestInv'
  <1>1. ~At(w, "idle") /\ Executing(w) /\ At(w, "delete")
    BY DEF Delete, At, Executing
  <1>2. PICK k \in Keys, g \in Handler :
             /\ k = KeyOf(w) /\ g = handler[w] /\ WorkFits(g, row[k], made[k])
             /\ RowFits(k, row[k], made[k]) /\ row[k] \in Row /\ ToldIsStored(k)
             /\ \A v \in Workers \ {w} : Executing(v) => KeyOf(v) # k
    BY <1>1, AtWork
  <1>3. /\ made' = made /\ answers' = answers
        /\ handler' = [handler EXCEPT ![w] = Idle]
        /\ UNCHANGED <<callback, jobVars>> /\ JobsTyped'
    BY StillTyped DEF Delete, Fail, dbVars
  <1>4. PICK outcome \in WriteOutcomes :
             /\ row' = IF Stored(outcome) THEN [row EXCEPT ![k] = NoRow] ELSE row
             /\ Note(k, outcome)
    BY <1>2 DEF Delete
  <1>5. /\ row \in [Keys -> Row] /\ made \in [Keys -> Seq(AllPayloads)] /\ NoRow \in Row
        /\ answers \in [Keys -> SUBSET [payload : AllPayloads, stored : Nat]]
    BY DEF RequestInv, TypeOK, NoRow, Row
  <1>6. /\ row' \in [Keys -> Row] /\ \A b \in Keys \ {k} : row'[b] = row[b]
        /\ row'[k] = IF Stored(outcome) THEN NoRow ELSE row[k]
    BY <1>4, <1>5
  <1>7. /\ faulted' \in [Keys -> BOOLEAN] /\ (faulted'[k] <=> faulted[k] \/ Raised(outcome))
        /\ \A b \in Keys \ {k} : faulted'[b] = faulted[b]
        /\ (~Raised(outcome) => Stored(outcome))
    BY <1>4, NoteFacts
  <1>8. RowFits(k, row[k], made[k])'
    <2>1. Clean(k)' => Clean(k)
      BY <1>7 DEF Clean
    <2>2. Clean(k) => made[k] = <<>>
      BY <1>1, <1>2 DEF WorkFits, At, KeyOf, Clean
    <2>3. NoRow.status = "NONE"
      BY DEF NoRow
    <2>4. QED
      BY <1>2, <1>3, <1>6, <2>1, <2>2, <2>3 DEF RowFits
  <1>9. Kept(k) /\ ToldIsStored(k)'
    BY <1>2, <1>3, <1>7 DEF Kept, ToldIsStored
  <1>10. row'[k].status = "RECEIVED" => faulted'[k]
    BY <1>6, <1>7 DEF NoRow
  <1>11. QED
    BY <1>1, <1>2, <1>3, <1>5, <1>6, <1>7, <1>8, <1>9, <1>10, IdleHandler, WorkerStep

LEMMA CrashStep ==
    ASSUME RequestInv, NEW w \in Workers, Crash(w)
    PROVE  RequestInv'
  <1>1. ~At(w, "idle")
    BY DEF Crash
  <1>2. PICK k \in Keys, g \in Handler : k = KeyOf(w) /\ g = handler[w]
    BY <1>1, AtWork
  <1>3. /\ row' = row /\ made' = made /\ answers' = answers
        /\ faulted' = [faulted EXCEPT ![k] = TRUE]
        /\ handler' = [handler EXCEPT ![w] = Idle]
        /\ UNCHANGED <<callback, jobVars>> /\ JobsTyped'
    BY <1>2, StillTyped DEF Crash, Fail, dbVars
  <1>4. faulted'[k]
    BY <1>3 DEF RequestInv, TypeOK
  <1>5. QED
    BY <1>2, <1>3, <1>4, IdleHandler, QuietStep DEF ExecutingIn
LEMMA StoreStep ==
    ASSUME RequestInv, NEW w \in Workers, StoreApplication(w) \/ StoreDocument(w)
    PROVE  RequestInv'
  <1>1. ~At(w, "idle") /\ Executing(w) /\ At(w, "execute") /\ Store(w)
    BY DEF StoreApplication, StoreDocument, At, Executing
  <1>2. PICK k \in Keys, g \in Handler :
             /\ k = KeyOf(w) /\ g = handler[w] /\ g.key = k
             /\ g.payload \in Payloads[k] /\ g.payload \in AllPayloads
             /\ WorkFits(g, row[k], made[k])
             /\ row[k] \in Row /\ made[k] \in Seq(AllPayloads) /\ ToldIsStored(k)
             /\ \A v \in Workers \ {w} : Executing(v) => KeyOf(v) # k
    BY <1>1, AtWork
  <1>3. row' = row /\ UNCHANGED <<callback, jobVars>> /\ JobsTyped' /\ Kind[k] # "intake"
    BY <1>2, StillTyped DEF StoreApplication, StoreDocument, Store
  <1>4. PICK outcome \in WriteOutcomes :
             /\ made' = IF Stored(outcome) THEN [made EXCEPT ![k] = Append(@, g.payload)]
                        ELSE made
             /\ IF Raised(outcome) THEN Abort(w)
                ELSE /\ handler' = [handler EXCEPT ![w].pc = "complete",
                                                   ![w].stored = Len(made[k]) + 1]
                     /\ UNCHANGED answers
             /\ Note(k, outcome)
    BY <1>1, <1>2 DEF Store
  <1>5. /\ row \in [Keys -> Row] /\ made \in [Keys -> Seq(AllPayloads)]
        /\ handler \in [Workers -> Handler]
        /\ answers \in [Keys -> SUBSET [payload : AllPayloads, stored : Nat]]
    BY DEF RequestInv, TypeOK
  <1>6. answers' = answers
    BY <1>4 DEF Abort, GoTo, Fail
  <1>7. PICK things \in Seq(AllPayloads), n \in Nat :
             /\ things = Append(made[k], g.payload)
             /\ n = Len(made[k]) /\ Len(things) = n + 1
             /\ n + 1 \in DOMAIN things /\ things[n + 1] = g.payload
             /\ \A i \in DOMAIN made[k] : i \in DOMAIN things /\ things[i] = made[k][i]
    <2>1. /\ Append(made[k], g.payload) \in Seq(AllPayloads)
          /\ Len(Append(made[k], g.payload)) = Len(made[k]) + 1
          /\ \A i \in 1 .. Len(made[k]) : Append(made[k], g.payload)[i] = made[k][i]
          /\ Append(made[k], g.payload)[Len(made[k]) + 1] = g.payload
      BY <1>2, AppendProperties
    <2>2. /\ Len(made[k]) \in Nat /\ DOMAIN made[k] = 1 .. Len(made[k])
          /\ DOMAIN Append(made[k], g.payload) = 1 .. Len(Append(made[k], g.payload))
      BY <1>2, <2>1
    <2>3. /\ Len(made[k]) + 1 \in DOMAIN Append(made[k], g.payload)
          /\ \A i \in DOMAIN made[k] : i \in DOMAIN Append(made[k], g.payload)
      BY <2>1, <2>2
    <2>4. QED
      BY <2>1, <2>2, <2>3
  <1>8. /\ made' \in [Keys -> Seq(AllPayloads)] /\ \A b \in Keys \ {k} : made'[b] = made[b]
        /\ made'[k] = IF Stored(outcome) THEN things ELSE made[k]
    BY <1>4, <1>5, <1>7
  <1>9. /\ faulted' \in [Keys -> BOOLEAN] /\ (faulted'[k] <=> faulted[k] \/ Raised(outcome))
        /\ \A b \in Keys \ {k} : faulted'[b] = faulted[b]
        /\ (~Raised(outcome) => Stored(outcome))
    BY <1>4, NoteFacts
  <1>10. /\ row[k] # NoRow /\ row[k].status = "RECEIVED" /\ row[k].request = g.payload
         /\ (Clean(k) => made[k] = <<>>)
    BY <1>1, <1>2 DEF WorkFits, At
  <1>11. /\ Clean(k)' => Clean(k)
         /\ Clean(k)' /\ Raised(outcome) => Kind[k] = "submit"
    BY <1>9 DEF Clean
  <1>12. RowFits(k, row[k], made[k])'
    <2>1. Clean(k)' => Len(made'[k]) <= 1
      BY <1>7, <1>8, <1>10, <1>11
    <2>2. QED
      BY <1>3, <1>10, <2>1 DEF RowFits
  <1>13. Kept(k)
    BY <1>7, <1>8, <1>9 DEF Kept
  <1>14. ToldIsStored(k)'
    BY <1>2, <1>6, <1>13 DEF ToldIsStored, Kept
  <1>15. CASE Raised(outcome) /\ Kind[k] # "upload"
    <2>1. handler' = [handler EXCEPT ![w] = Idle]
      BY <1>2, <1>4, <1>15 DEF Abort, Fail
    <2>2. QED
      BY <1>2, <1>3, <1>5, <1>6, <1>8, <1>9, <1>12, <1>13, <1>14, <1>15, <2>1,
         IdleHandler, WorkerStep
  <1>16. CASE Raised(outcome) /\ Kind[k] = "upload"
    <2> DEFINE h == [g EXCEPT !.pc = "delete"]
    <2>1. /\ h \in Handler /\ h.pc = "delete" /\ h.key = k /\ h.payload = g.payload
          /\ handler' = [handler EXCEPT ![w] = h]
      BY <1>2, <1>4, <1>5, <1>16 DEF Abort, GoTo, Handler
    <2> HIDE DEF h
    <2>2. ~Clean(k)'
      BY <1>11, <1>16
    <2>3. WorkFits(h, row[k], made[k])'
      BY <1>2, <1>3, <1>10, <1>16, <2>1, <2>2 DEF WorkFits
    <2>4. QED
      BY <1>2, <1>3, <1>5, <1>6, <1>8, <1>9, <1>12, <1>13, <1>14, <2>1, <2>3, WorkerStep
         DEF ExecutingIn
  <1>17. CASE ~Raised(outcome)
    <2> DEFINE h == [g EXCEPT !.pc = "complete", !.stored = n + 1]
    <2>1. /\ h \in Handler /\ h.pc = "complete" /\ h.key = k /\ h.payload = g.payload
          /\ h.stored = n + 1
      <3>1. n + 1 \in Nat /\ g \in Handler /\ g.key = k
        BY <1>2
      <3>2. QED
        BY ONLY <3>1 DEF Handler
    <2>2. /\ handler' = [handler EXCEPT ![w].pc = "complete", ![w].stored = n + 1]
          /\ answers' = answers
      BY <1>4, <1>7, <1>17
    <2>3. handler' = [handler EXCEPT ![w] = h]
      BY <1>2, <1>5, <2>2
    <2> HIDE DEF h
    <2>4. h.stored \in DOMAIN made'[k] /\ made'[k][h.stored] = h.payload
      BY <1>7, <1>8, <1>9, <1>17, <2>1
    <2>5. WorkFits(h, row[k], made[k])'
      BY <1>2, <1>3, <1>10, <2>1, <2>4 DEF WorkFits
    <2>6. QED
      BY <1>2, <1>3, <1>5, <1>6, <1>8, <1>9, <1>12, <1>13, <1>14, <2>1, <2>3, <2>5, WorkerStep
         DEF ExecutingIn
  <1>18. QED
    BY <1>15, <1>16, <1>17

LEMMA CompleteStep ==
    ASSUME RequestInv, NEW w \in Workers, Complete(w)
    PROVE  RequestInv'
  <1>1. ~At(w, "idle") /\ Executing(w) /\ At(w, "complete")
    BY DEF Complete, At, Executing
  <1>2. PICK k \in Keys, g \in Handler :
             /\ k = KeyOf(w) /\ g = handler[w] /\ g.key = k
             /\ g.payload \in Payloads[k] /\ g.payload \in AllPayloads
             /\ WorkFits(g, row[k], made[k]) /\ RowFits(k, row[k], made[k])
             /\ row[k] \in Row /\ made[k] \in Seq(AllPayloads) /\ ToldIsStored(k)
             /\ \A v \in Workers \ {w} : Executing(v) => KeyOf(v) # k
    BY <1>1, AtWork
  <1>3. made' = made /\ UNCHANGED <<callback, jobVars>> /\ JobsTyped'
    BY StillTyped DEF Complete
  <1>4. /\ row[k] # NoRow /\ row[k].request = g.payload /\ Kind[k] # "intake"
        /\ g.stored \in DOMAIN made[k] /\ made[k][g.stored] = g.payload
        /\ g.stored \in Nat
    BY <1>1, <1>2 DEF WorkFits, At, Handler
  <1> DEFINE r == [row[k] EXCEPT !.status = "COMPLETED", !.response = g.stored]
  <1>5. /\ row \in [Keys -> Row] /\ made \in [Keys -> Seq(AllPayloads)]
        /\ handler \in [Workers -> Handler] /\ faulted \in [Keys -> BOOLEAN]
        /\ answers \in [Keys -> SUBSET [payload : AllPayloads, stored : Nat]]
    BY DEF RequestInv, TypeOK
  <1>6. PICK outcome \in WriteOutcomes :
             /\ row' = IF Stored(outcome) THEN [row EXCEPT ![k] = r] ELSE row
             /\ IF Raised(outcome) THEN Abort(w) ELSE Succeed(w, g.stored)
             /\ Note(k, outcome)
    BY <1>2, <1>4, <1>5 DEF Complete
  <1>7. /\ r \in Row /\ r # NoRow /\ r.status = "COMPLETED"
        /\ r.request = g.payload /\ r.response = g.stored
    BY <1>2, <1>4 DEF Row, NoRow
  <1>8. /\ row' \in [Keys -> Row] /\ \A b \in Keys \ {k} : row'[b] = row[b]
        /\ row'[k] = IF Stored(outcome) THEN r ELSE row[k]
    BY <1>5, <1>6, <1>7
  <1> HIDE DEF r
  <1>9. /\ faulted' \in [Keys -> BOOLEAN] /\ (faulted'[k] <=> faulted[k] \/ Raised(outcome))
        /\ \A b \in Keys \ {k} : faulted'[b] = faulted[b]
        /\ (~Raised(outcome) => Stored(outcome))
    BY <1>6, NoteFacts
  <1>10. /\ Clean(k)' => Clean(k)
         /\ Clean(k)' /\ Raised(outcome) => Kind[k] = "submit"
    BY <1>9 DEF Clean
  <1>11. RowFits(k, row[k], made[k])'
    BY <1>2, <1>3, <1>4, <1>7, <1>8, <1>10 DEF RowFits
  <1>12. Kept(k)
    BY <1>3, <1>9 DEF Kept
  <1>13. CASE Raised(outcome) /\ Kind[k] # "upload"
    <2>1. handler' = [handler EXCEPT ![w] = Idle] /\ answers' = answers
      BY <1>2, <1>6, <1>13 DEF Abort, Fail
    <2>2. ToldIsStored(k)'
      BY <1>2, <1>3, <2>1 DEF ToldIsStored
    <2>3. QED
      BY <1>2, <1>3, <1>5, <1>8, <1>9, <1>11, <1>12, <1>13, <2>1, <2>2, IdleHandler, WorkerStep
  <1>14. CASE Raised(outcome) /\ Kind[k] = "upload"
    <2> DEFINE h == [g EXCEPT !.pc = "delete"]
    <2>1. /\ h \in Handler /\ h.pc = "delete" /\ h.key = k /\ h.payload = g.payload
          /\ handler' = [handler EXCEPT ![w] = h] /\ answers' = answers
      BY <1>2, <1>5, <1>6, <1>14 DEF Abort, GoTo, Handler
    <2> HIDE DEF h
    <2>2. ~Clean(k)'
      BY <1>10, <1>14
    <2>3. WorkFits(h, row[k], made[k])'
      BY <1>2, <1>4, <1>7, <1>8, <1>14, <2>1, <2>2 DEF WorkFits
    <2>4. ToldIsStored(k)'
      BY <1>2, <1>3, <2>1 DEF ToldIsStored
    <2>5. QED
      BY <1>2, <1>3, <1>5, <1>8, <1>9, <1>11, <1>12, <2>1, <2>3, <2>4, WorkerStep
         DEF ExecutingIn
  <1>15. CASE ~Raised(outcome)
    <2>1. /\ handler' = [handler EXCEPT ![w] = Idle]
          /\ answers' = [answers EXCEPT ![k] =
               @ \cup {[payload |-> g.payload, stored |-> g.stored]}]
      BY <1>2, <1>6, <1>15 DEF Succeed
    <2>2. answers' \in [Keys -> SUBSET [payload : AllPayloads, stored : Nat]]
      BY <1>2, <1>4, <1>5, <2>1
    <2>3. \A answer \in answers'[k] :
             answer \in answers[k] \/ (answer.payload = g.payload /\ answer.stored = g.stored)
      BY <1>5, <2>1
    <2>4. ToldIsStored(k)'
      BY <1>2, <1>3, <1>4, <2>3 DEF ToldIsStored
    <2>5. \A b \in Keys \ {k} : answers'[b] = answers[b]
      BY <1>5, <2>1
    <2>6. row'[k].status # "RECEIVED"
      BY <1>7, <1>8, <1>9, <1>15
    <2>7. QED
      BY <1>2, <1>3, <1>5, <1>8, <1>9, <1>11, <1>12, <2>1, <2>2, <2>4, <2>5, <2>6,
         IdleHandler, WorkerStep
  <1>16. QED
    BY <1>13, <1>14, <1>15
LEMMA AcceptStep ==
    ASSUME RequestInv, NEW w \in Workers, Accept(w)
    PROVE  RequestInv'
  <1>1. ~At(w, "idle") /\ Executing(w) /\ At(w, "execute")
    BY DEF Accept, At, Executing
  <1>2. PICK k \in Keys, g \in Handler :
             /\ k = KeyOf(w) /\ g = handler[w] /\ g.key = k /\ g.payload \in AllPayloads
             /\ RowFits(k, row[k], made[k]) /\ ToldIsStored(k)
    BY <1>1, AtWork
  <1>3. row' = row /\ made' = made /\ Kind[k] = "intake"
        /\ sending' = sending /\ delivered' = delivered
    BY <1>2 DEF Accept
  <1>4. /\ row \in [Keys -> Row] /\ made \in [Keys -> Seq(AllPayloads)]
        /\ faulted \in [Keys -> BOOLEAN]
        /\ answers \in [Keys -> SUBSET [payload : AllPayloads, stored : Nat]]
        /\ callback \in [Keys -> {"NONE", "PENDING", "SENT"}]
        /\ waiting \in [Keys -> Nat] /\ sending \in [Keys -> Nat] /\ delivered \in [Keys -> Nat]
    BY DEF RequestInv, TypeOK
  <1>5. handler' = [handler EXCEPT ![w] = Idle]
    BY <1>2 DEF Accept, Fail, Succeed
  <1>6. /\ faulted' \in [Keys -> BOOLEAN] /\ (faulted[k] => faulted'[k])
        /\ \A b \in Keys \ {k} : faulted'[b] = faulted[b]
    <2>1. CASE callback[k] # "NONE"
      BY <1>2, <1>4, <2>1 DEF Accept
    <2>2. CASE callback[k] = "NONE"
      <3>1. PICK outcome \in WriteOutcomes : Note(k, outcome)
        BY <1>2, <2>2 DEF Accept
      <3>2. QED
        BY <3>1, NoteFacts
    <2>3. QED
      BY <2>1, <2>2
  <1>7. answers' = answers \/ answers' = [answers EXCEPT ![k] =
                               @ \cup {[payload |-> g.payload, stored |-> 0]}]
    BY <1>2 DEF Accept, Fail, Succeed
  <1>8. /\ answers' \in [Keys -> SUBSET [payload : AllPayloads, stored : Nat]]
        /\ \A b \in Keys \ {k} : answers'[b] = answers[b]
    <2>1. CASE answers' = answers
      BY <1>4, <2>1
    <2>2. CASE answers' = [answers EXCEPT ![k] = @ \cup {[payload |-> g.payload, stored |-> 0]}]
      <3>1. [payload |-> g.payload, stored |-> 0] \in [payload : AllPayloads, stored : Nat]
        BY <1>2
      <3>2. QED
        BY <1>4, <2>2, <3>1
    <2>3. QED
      BY <1>7, <2>1, <2>2
  <1>9. JobsTyped'
    <2>1. callback' = callback \/ callback' = [callback EXCEPT ![k] = "PENDING"]
      BY <1>2 DEF Accept
    <2>2. waiting' = waiting \/ waiting' = [waiting EXCEPT ![k] = @ + 1]
      BY <1>2 DEF Accept
    <2>3. callback' \in [Keys -> {"NONE", "PENDING", "SENT"}]
      BY <1>4, <2>1
    <2>4. waiting' \in [Keys -> Nat]
      <3>1. waiting[k] + 1 \in Nat
        BY <1>4
      <3>2. CASE waiting' = [waiting EXCEPT ![k] = @ + 1]
        BY <1>4, <3>1, <3>2
      <3>3. QED
        BY <1>4, <2>2, <3>2
    <2>5. QED
      BY <1>3, <1>4, <2>3, <2>4 DEF JobsTyped
  <1>10. RowFits(k, row[k], made[k])' /\ Kept(k) /\ ToldIsStored(k)'
    BY <1>2, <1>3, <1>6 DEF RowFits, Clean, Kept, ToldIsStored
  <1>11. QED
    BY <1>1, <1>2, <1>3, <1>4, <1>5, <1>6, <1>8, <1>9, <1>10, IdleHandler, WorkerStep
       DEF ExecutingIn

(* A task touches neither rows nor handlers.                               *)
LEMMA TaskStep ==
    ASSUME RequestInv, NEW k \in Keys, MarkSent(k) \/ Post(k) \/ LoseTask(k)
    PROVE  RequestInv'
  <1>1. row' = row /\ made' = made /\ handler' = handler /\ answers' = answers
    BY DEF MarkSent, Post, LoseTask, dbVars
  <1>2. /\ callback \in [Keys -> {"NONE", "PENDING", "SENT"}]
        /\ waiting \in [Keys -> Nat] /\ sending \in [Keys -> Nat] /\ delivered \in [Keys -> Nat]
        /\ faulted \in [Keys -> BOOLEAN]
    BY DEF RequestInv, TypeOK
  <1>3. faulted' \in [Keys -> BOOLEAN] /\ \A b \in Keys : faulted[b] => faulted'[b]
    <2>1. CASE MarkSent(k)
      <3>1. PICK outcome \in WriteOutcomes : Note(k, outcome)
        BY <2>1 DEF MarkSent
      <3>2. QED
        BY <1>2, <3>1, NoteFacts
    <2>2. CASE Post(k) \/ LoseTask(k)
      BY <1>2, <2>2 DEF Post, LoseTask
    <2>3. QED
      BY <2>1, <2>2
  <1>4. callback' \in [Keys -> {"NONE", "PENDING", "SENT"}]
    BY <1>2 DEF MarkSent, Post, LoseTask, dbVars
  <1>5. /\ waiting' \in {waiting, [waiting EXCEPT ![k] = @ - 1]}
        /\ waiting' = waiting \/ waiting[k] > 0
    BY DEF MarkSent, Post, LoseTask
  <1>6. /\ sending' \in {sending, [sending EXCEPT ![k] = @ - 1], [sending EXCEPT ![k] = @ + 1]}
        /\ sending' = [sending EXCEPT ![k] = @ - 1] => sending[k] > 0
    <2>1. CASE MarkSent(k)
      <3>1. sending' = sending \/ sending' = [sending EXCEPT ![k] = @ + 1]
        BY <2>1 DEF MarkSent
      <3>2. sending[k] + 1 # sending[k] - 1 /\ sending[k] # sending[k] - 1
        BY <1>2
      <3>3. QED
        BY <1>2, <3>1, <3>2
    <2>2. CASE Post(k)
      BY <2>2 DEF Post
    <2>3. CASE LoseTask(k)
      <3>1. sending' = sending \/ (sending[k] > 0 /\ sending' = [sending EXCEPT ![k] = @ - 1])
        BY <2>3 DEF LoseTask
      <3>2. sending[k] # sending[k] - 1
        BY <1>2
      <3>3. QED
        BY <1>2, <3>1, <3>2
    <2>4. QED
      BY <2>1, <2>2, <2>3
  <1>7. delivered' = delivered \/ delivered' = [delivered EXCEPT ![k] = @ + 1]
    BY DEF MarkSent, Post, LoseTask
  <1>8. waiting' \in [Keys -> Nat] /\ sending' \in [Keys -> Nat] /\ delivered' \in [Keys -> Nat]
    BY <1>2, <1>5, <1>6, <1>7
  <1>9. TypeOK'
    BY <1>1, <1>3, <1>4, <1>8 DEF RequestInv, TypeOK
  <1>10. OneExecutor' /\ AnswersAgree'
    BY <1>1 DEF RequestInv, OneExecutor, Executing, KeyOf, AnswersAgree
  <1>11. \A b \in Keys : RowFits(b, row[b], made[b])'
    BY <1>1, <1>3 DEF RequestInv, RowFits, Clean
  <1>12. ASSUME NEW w \in Workers, ~At(w, "idle")
         PROVE  WorkFits(handler[w], row[KeyOf(w)], made[KeyOf(w)])'
    <2>1. PICK b \in Keys, g \in Handler :
             b = KeyOf(w) /\ g = handler[w] /\ g.key = b /\ WorkFits(g, row[b], made[b])
      BY <1>12, AtWork
    <2>2. WorkFits(g, row[b], made[b])'
      BY <1>1, <1>3, <2>1 DEF WorkFits, Clean
    <2>3. KeyOf(w)' = b /\ handler'[w] = g
      BY <1>1, <2>1 DEF KeyOf
    <2>4. QED
      BY <2>2, <2>3
  <1>13. RejectedCanRetry'
    BY <1>1, <1>3 DEF RequestInv, RejectedCanRetry, Executing, KeyOf
  <1>14. QED
    BY <1>1, <1>9, <1>10, <1>11, <1>12, <1>13 DEF RequestInv, At

LEMMA RequestInit == Init => RequestInv
  <1> SUFFICES ASSUME Init PROVE RequestInv
    OBVIOUS
  <1> USE DEF Init
  <1>1. TypeOK
    BY EmptySeq DEF TypeOK, Row, Handler, NoRow, Idle
  <1>2. OneExecutor /\ AnswersAgree /\ RejectedCanRetry
    BY DEF OneExecutor, Executing, Idle, AnswersAgree, RejectedCanRetry, NoRow
  <1>3. \A k \in Keys : RowFits(k, row[k], made[k])
    BY DEF RowFits, NoRow
  <1>4. \A w \in Workers : At(w, "idle")
    BY DEF At, Idle
  <1>5. QED
    BY <1>1, <1>2, <1>3, <1>4 DEF RequestInv

LEMMA RequestNext == RequestInv /\ [Next]_vars => RequestInv'
  <1> SUFFICES ASSUME RequestInv, [Next]_vars  PROVE RequestInv'
    OBVIOUS
  <1>1. ASSUME NEW w \in Workers, NEW k \in Keys, NEW p \in Payloads[k], Receive(w, k, p)
        PROVE  RequestInv'
    BY <1>1, ReceiveStep
  <1>2. ASSUME NEW w \in Workers, ReadRow(w)  PROVE RequestInv'
    BY <1>2, ReadRowStep
  <1>3. ASSUME NEW w \in Workers, CreateRow(w)  PROVE RequestInv'
    BY <1>3, CreateRowStep
  <1>4. ASSUME NEW w \in Workers, Reject(w)  PROVE RequestInv'
    BY <1>4, RejectStep
  <1>5. ASSUME NEW w \in Workers, StoreApplication(w) \/ StoreDocument(w)  PROVE RequestInv'
    BY <1>5, StoreStep
  <1>6. ASSUME NEW w \in Workers, Accept(w)  PROVE RequestInv'
    BY <1>6, AcceptStep
  <1>7. ASSUME NEW w \in Workers, Complete(w)  PROVE RequestInv'
    BY <1>7, CompleteStep
  <1>8. ASSUME NEW w \in Workers, Delete(w)  PROVE RequestInv'
    BY <1>8, DeleteStep
  <1>9. ASSUME NEW w \in Workers, Crash(w)  PROVE RequestInv'
    BY <1>9, CrashStep
  <1>10. ASSUME NEW k \in Keys, MarkSent(k) \/ Post(k) \/ LoseTask(k)  PROVE RequestInv'
    BY <1>10, TaskStep
  <1>11. CASE UNCHANGED vars
    BY <1>11 DEF vars, dbVars, jobVars, RequestInv, TypeOK, OneExecutor, RowFits, Clean,
       WorkFits, AnswersAgree, RejectedCanRetry, Executing, At, KeyOf
  <1>12. QED
    BY <1>1, <1>2, <1>3, <1>4, <1>5, <1>6, <1>7, <1>8, <1>9, <1>10, <1>11 DEF Next

(* For any workers, request ids and payloads, any database faults and      *)
(* crashes: one request at a time executes under an id, its row and what   *)
(* is stored fit what it is about to do, and callers were told the truth.  *)
THEOREM RequestInvariant == Spec => []RequestInv
  BY RequestInit, RequestNext, PTL DEF Spec

(* The intake tables, tasks and answers keep their types.                  *)
THEOREM IntakeTypeCorrect == Spec => []TypeOK
  <1>1. RequestInv => TypeOK
    BY DEF RequestInv
  <1>2. QED
    BY <1>1, RequestInvariant, PTL

(* A request id creates at most one application, however often it is sent  *)
(* and whatever fails; a document is stored once unless a fault hit it.    *)
THEOREM StoredAtMostOnce == Spec => []StoredOnce
  <1>1. RequestInv => StoredOnce
    BY DEF RequestInv, StoredOnce, RowFits, Clean
  <1>2. QED
    BY <1>1, RequestInvariant, PTL

(* Whoever is told of success is told of what was stored for its payload.  *)
THEOREM ToldTheTruth == Spec => []AnswersAgree
  <1>1. RequestInv => AnswersAgree
    BY DEF RequestInv
  <1>2. QED
    BY <1>1, RequestInvariant, PTL

(* A rejected document can be sent again.                                  *)
THEOREM RetryIsPossible == Spec => []RejectedCanRetry
  <1>1. RequestInv => RejectedCanRetry
    BY DEF RequestInv
  <1>2. QED
    BY <1>1, RequestInvariant, PTL

-----------------------------------------------------------------------------
(* The callback *)

(* A worker's step sends nothing; only Accept sets a callback, and nobody  *)
(* answers for an intake without one.                                      *)
LEMMA CallbackWorkerStep ==
    ASSUME RequestInv, CallbackInv, NEW w \in Workers,
           sending' = sending, delivered' = delivered, callback' = callback,
           \A k \in Keys : Kind[k] = "intake" => answers'[k] = answers[k]
    PROVE  CallbackInv'
  BY DEF CallbackInv, AcceptedIsRecorded

LEMMA CallbackAccept ==
    ASSUME RequestInv, CallbackInv, NEW w \in Workers, Accept(w)
    PROVE  CallbackInv'
  <1>1. ~At(w, "idle")
    BY DEF Accept, At
  <1>2. PICK k \in Keys, g \in Handler : k = KeyOf(w) /\ g = handler[w]
    BY <1>1, AtWork
  <1>3. sending' = sending /\ delivered' = delivered
    BY DEF Accept
  <1>4. /\ callback \in [Keys -> {"NONE", "PENDING", "SENT"}]
        /\ answers \in [Keys -> SUBSET [payload : AllPayloads, stored : Nat]]
    BY DEF RequestInv, TypeOK
  <1>5. CASE callback[k] # "NONE"
    <2>1. callback' = callback /\ answers' = answers
      BY <1>2, <1>5 DEF Accept, Fail
    <2>2. QED
      BY <1>3, <2>1 DEF CallbackInv, AcceptedIsRecorded
  <1>6. CASE callback[k] = "NONE"
    <2>1. PICK outcome \in WriteOutcomes :
             /\ callback' = IF Stored(outcome) THEN [callback EXCEPT ![k] = "PENDING"]
                            ELSE callback
             /\ IF Raised(outcome) THEN Fail(w)
                ELSE Succeed(w, 0) /\ waiting' = [waiting EXCEPT ![k] = @ + 1]
      BY <1>2, <1>6 DEF Accept
    <2>2. /\ callback'[k] \in {"NONE", "PENDING"}
          /\ \A b \in Keys \ {k} : callback'[b] = callback[b]
          /\ Stored(outcome) => callback'[k] = "PENDING"
      BY <1>4, <1>6, <2>1
    <2>3. /\ \A b \in Keys \ {k} : answers'[b] = answers[b]
          /\ Raised(outcome) => answers' = answers
      BY <1>2, <1>4, <2>1 DEF Fail, Succeed
    <2>4. ~Raised(outcome) => Stored(outcome)
      BY DEF Raised, Stored
    <2>5. \A b \in Keys : /\ callback'[b] # "SENT" => sending[b] = 0 /\ delivered[b] = 0
                          /\ sending[b] + delivered[b] <= 1
      BY <1>6, <2>2 DEF CallbackInv
    <2>6. answers[k] # {} => Kind[k] # "intake"
      BY <1>6 DEF CallbackInv, AcceptedIsRecorded
    <2>7. AcceptedIsRecorded'
      <3>1. ASSUME NEW b \in Keys, Kind[b] = "intake", answers'[b] # {}
            PROVE  callback'[b] # "NONE"
        <4>1. CASE b # k
          BY <2>2, <2>3, <3>1, <4>1 DEF CallbackInv, AcceptedIsRecorded
        <4>2. CASE b = k
          BY <2>2, <2>3, <2>4, <2>6, <3>1, <4>2
        <4>3. QED
          BY <4>1, <4>2
      <3>2. QED
        BY <3>1 DEF AcceptedIsRecorded
    <2>8. QED
      BY <1>3, <2>5, <2>7 DEF CallbackInv
  <1>7. QED
    BY <1>5, <1>6

(* Marking a callback takes it from PENDING, when nothing was sent.        *)
LEMMA CallbackMark ==
    ASSUME RequestInv, CallbackInv, NEW k \in Keys, MarkSent(k)
    PROVE  CallbackInv'
  <1>1. delivered' = delivered /\ answers' = answers
    BY DEF MarkSent
  <1>2. /\ callback \in [Keys -> {"NONE", "PENDING", "SENT"}]
        /\ sending \in [Keys -> Nat] /\ delivered \in [Keys -> Nat]
    BY DEF RequestInv, TypeOK
  <1>3. PICK outcome \in WriteOutcomes :
           /\ callback' = IF callback[k] = "PENDING" /\ Stored(outcome)
                          THEN [callback EXCEPT ![k] = "SENT"] ELSE callback
           /\ sending' = IF callback[k] = "PENDING" /\ ~Raised(outcome)
                         THEN [sending EXCEPT ![k] = @ + 1] ELSE sending
    BY DEF MarkSent
  <1>4. ~Raised(outcome) => Stored(outcome)
    BY DEF Raised, Stored
  <1>5. CASE sending' = sending
    <2>1. \A b \in Keys : /\ callback'[b] # "SENT" => callback[b] # "SENT"
                          /\ callback[b] # "NONE" => callback'[b] # "NONE"
      BY <1>2, <1>3
    <2>2. QED
      BY <1>1, <1>5, <2>1 DEF CallbackInv, AcceptedIsRecorded
  <1>6. CASE sending' # sending
    <2>1. /\ callback[k] = "PENDING" /\ callback' = [callback EXCEPT ![k] = "SENT"]
          /\ sending' = [sending EXCEPT ![k] = @ + 1]
      BY <1>3, <1>4, <1>6
    <2>2. sending[k] = 0 /\ delivered[k] = 0
      BY <2>1 DEF CallbackInv
    <2>3. /\ sending'[k] = 1 /\ callback'[k] = "SENT"
          /\ \A b \in Keys \ {k} : sending'[b] = sending[b] /\ callback'[b] = callback[b]
      BY <1>2, <2>1, <2>2
    <2>4. QED
      BY <1>1, <2>2, <2>3 DEF CallbackInv, AcceptedIsRecorded
  <1>7. QED
    BY <1>5, <1>6

(* Posting moves the one callback on, or loses it.                         *)
LEMMA CallbackPost ==
    ASSUME RequestInv, CallbackInv, NEW k \in Keys, Post(k) \/ LoseTask(k)
    PROVE  CallbackInv'
  <1>1. callback' = callback /\ answers' = answers
    BY DEF Post, LoseTask, dbVars
  <1>2. sending \in [Keys -> Nat] /\ delivered \in [Keys -> Nat]
    BY DEF RequestInv, TypeOK
  <1>3. \/ sending' = sending /\ delivered' = delivered
        \/ /\ sending[k] > 0 /\ sending' = [sending EXCEPT ![k] = @ - 1]
           /\ delivered' \in {delivered, [delivered EXCEPT ![k] = @ + 1]}
    BY DEF Post, LoseTask
  <1>4. CASE sending' = sending /\ delivered' = delivered
    BY <1>1, <1>4 DEF CallbackInv, AcceptedIsRecorded
  <1>5. CASE /\ sending[k] > 0 /\ sending' = [sending EXCEPT ![k] = @ - 1]
             /\ delivered' \in {delivered, [delivered EXCEPT ![k] = @ + 1]}
    <2>1. callback[k] = "SENT" /\ sending[k] = 1 /\ delivered[k] = 0
      BY <1>2, <1>5 DEF CallbackInv
    <2>2. sending'[k] = 0 /\ delivered'[k] \in {0, 1}
      BY <1>2, <1>5, <2>1
    <2>3. \A b \in Keys \ {k} : sending'[b] = sending[b] /\ delivered'[b] = delivered[b]
      BY <1>2, <1>5
    <2>4. QED
      BY <1>1, <2>1, <2>2, <2>3 DEF CallbackInv, AcceptedIsRecorded
  <1>6. QED
    BY <1>3, <1>4, <1>5

(* Only an intake whose row was completed could be answered from it, and   *)
(* none ever is.                                                           *)
LEMMA CallbackAnswer ==
    ASSUME RequestInv, CallbackInv, NEW w \in Workers, ReadRow(w) \/ Complete(w)
    PROVE  CallbackInv'
  <1>1. ~At(w, "idle")
    BY DEF ReadRow, Complete, At
  <1>2. PICK k \in Keys, g \in Handler :
             /\ k = KeyOf(w) /\ g = handler[w] /\ WorkFits(g, row[k], made[k])
             /\ RowFits(k, row[k], made[k])
    BY <1>1, AtWork
  <1>3. callback' = callback /\ sending' = sending /\ delivered' = delivered
    BY DEF ReadRow, Complete, dbVars, jobVars
  <1>4. answers \in [Keys -> SUBSET [payload : AllPayloads, stored : Nat]]
    BY DEF RequestInv, TypeOK
  <1>5. \/ answers' = answers
        \/ /\ row[k].status = "COMPLETED" \/ g.pc = "complete"
           /\ \E stored : answers' = [answers EXCEPT ![k] =
                             @ \cup {[payload |-> g.payload, stored |-> stored]}]
    BY <1>2 DEF ReadRow, Complete, GoTo, Fail, Abort, Succeed, At
  <1>6. \A b \in Keys : Kind[b] = "intake" => answers'[b] = answers[b]
    BY <1>1, <1>2, <1>4, <1>5 DEF RowFits, WorkFits, At, KeyOf
  <1>7. QED
    BY <1>3, <1>6, CallbackWorkerStep

LEMMA CallbackNext == RequestInv /\ CallbackInv /\ [Next]_vars => CallbackInv'
  <1> SUFFICES ASSUME RequestInv, CallbackInv, [Next]_vars  PROVE CallbackInv'
    OBVIOUS
  <1>1. ASSUME NEW w \in Workers,
               \/ \E k \in Keys : \E p \in Payloads[k] : Receive(w, k, p)
               \/ CreateRow(w) \/ Reject(w) \/ StoreApplication(w) \/ StoreDocument(w)
               \/ Delete(w) \/ Crash(w)
        PROVE  CallbackInv'
    <2>1. UNCHANGED <<callback, jobVars>>
      BY <1>1 DEF Receive, CreateRow, Reject, StoreApplication, StoreDocument, Store, Delete,
         Crash, dbVars
    <2>2. answers' = answers
      BY <1>1 DEF Receive, CreateRow, Reject, StoreApplication, StoreDocument, Store, Delete,
         Crash, Fail, GoTo, Abort
    <2>3. QED
      BY <2>1, <2>2, CallbackWorkerStep DEF jobVars
  <1>2. ASSUME NEW w \in Workers, ReadRow(w) \/ Complete(w)  PROVE CallbackInv'
    BY <1>2, CallbackAnswer
  <1>3. ASSUME NEW w \in Workers, Accept(w)  PROVE CallbackInv'
    BY <1>3, CallbackAccept
  <1>4. ASSUME NEW k \in Keys, MarkSent(k)  PROVE CallbackInv'
    BY <1>4, CallbackMark
  <1>5. ASSUME NEW k \in Keys, Post(k) \/ LoseTask(k)  PROVE CallbackInv'
    BY <1>5, CallbackPost
  <1>6. CASE UNCHANGED vars
    BY <1>6 DEF vars, dbVars, jobVars, CallbackInv, AcceptedIsRecorded
  <1>7. QED
    BY <1>1, <1>2, <1>3, <1>4, <1>5, <1>6 DEF Next

LEMMA CallbackInvariant == Spec => []CallbackInv
  <1>1. Init => CallbackInv
    BY DEF Init, CallbackInv, AcceptedIsRecorded
  <1>2. QED
    BY <1>1, RequestInvariant, CallbackNext, PTL DEF Spec

(* An intake that was accepted is on record: the callback is stored with   *)
(* the metadata before the caller is told.                                 *)
THEOREM AcceptedRecorded == Spec => []AcceptedIsRecorded
  <1>1. CallbackInv => AcceptedIsRecorded
    BY DEF CallbackInv
  <1>2. QED
    BY <1>1, CallbackInvariant, PTL

(* A client is called back at most once: a callback is marked as sent      *)
(* before it is sent, and nobody sends one that he has not marked.         *)
THEOREM CalledBackOnce == Spec => []CallbackOnce
  <1>1. RequestInv /\ CallbackInv => CallbackOnce
    BY DEF RequestInv, TypeOK, CallbackInv, CallbackOnce
  <1>2. QED
    BY <1>1, RequestInvariant, CallbackInvariant, PTL
=============================================================================
