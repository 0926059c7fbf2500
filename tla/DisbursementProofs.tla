-------------------------- MODULE DisbursementProofs --------------------------
(***************************************************************************)
(* Proofs about Disbursement, for any number of workers and applications,  *)
(* any requests, and any combination of database faults and crashes.       *)
(***************************************************************************)
EXTENDS Disbursement, SequenceTheorems, TLAPS

-----------------------------------------------------------------------------
(* What the operators of DisbursementFlow return. *)

LEMMA FinalStateType ==
    ASSUME NEW t \in Terms
    PROVE  /\ FinalState(t) \in FlowState
           /\ FinalState(t).disbursement_status \in FinalStatuses
  <1>1. GatewayAnswer(t) \in {"SUCCESS", "PENDING", "FAILED"}
    BY DEF GatewayAnswer
  <1>2. TransferOutcome(GatewayAnswer(t)) \in FinalStatuses
    BY <1>1 DEF TransferOutcome, FinalStatuses
  <1>3. Installments(t) \in Nat
    BY DEF Installments, Terms
  <1>4. CASE ValidTerms(t)
    BY <1>1, <1>2, <1>3, <1>4 DEF FinalState, FlowState, Statuses, TransferStatuses
  <1>5. CASE ~ValidTerms(t)
    BY <1>5 DEF FinalState, FlowState, InitialState, Statuses, FinalStatuses, TransferStatuses
  <1>6. QED
    BY <1>4, <1>5

LEMMA ReceiptType ==
    ASSUME NEW t \in Terms, NEW n \in Nat
    PROVE  BuildReceipt(t, FinalState(t), n) \in Receipt
  BY FinalStateType DEF BuildReceipt, Receipt, FlowState

LEMMA TransactionIffMoney ==
    ASSUME NEW r
    PROVE  HasTransaction(FinalState(r)) <=> MovesMoney(r)
  <1>1. GatewayAnswer(r) \in {"SUCCESS", "PENDING", "FAILED"}
    BY DEF GatewayAnswer
  <1>2. QED
    BY <1>1 DEF HasTransaction, FinalState, InitialState, MovesMoney

-----------------------------------------------------------------------------
(* The derived history is what its type says. *)

LEMMA MovesIfType ==
    ASSUME NEW from \in Statuses \cup {"NONE"}, NEW to \in Statuses,
           NEW condition
    PROVE  MovesIf(condition, from, to) \in Seq(Transition)
  <1>1. Move(from, to) \in Transition
    BY DEF Move, Transition
  <1>2. <<Move(from, to)>> \in Seq(Transition) /\ <<>> \in Seq(Transition)
    BY <1>1
  <1>3. QED
    BY <1>2 DEF MovesIf

LEMMA MoreMoves ==
    ASSUME NEW moves \in Seq(Transition), moves # <<>>, NEW more \in Seq(Transition)
    PROVE  moves \o more \in Seq(Transition) /\ moves \o more # <<>>
  BY ConcatProperties, ConcatEqualIffEmpty

LEMMA ProgressType ==
    ASSUME NEW s \in FlowState
    PROVE  /\ ProgressMoves(s) \in Seq(Transition)
           /\ ProgressMoves(s) # <<>>
  <1> DEFINE m1 == <<Move("NONE", "PENDING")>>
             m2 == MovesIf(s.validation_passed, "PENDING", "VALIDATED")
             m3 == MovesIf(s.validation_passed /\ s.installments > 0, "VALIDATED", "SCHEDULED")
             m4 == MovesIf(s.validation_passed /\ HasTransaction(s),
                           "SCHEDULED", "TRANSFER_INITIATED")
  <1>1. m1 \in Seq(Transition) /\ m1 # <<>>
    BY DEF Move, Transition, Statuses, FinalStatuses
  <1>2. m2 \in Seq(Transition) /\ m3 \in Seq(Transition) /\ m4 \in Seq(Transition)
    BY MovesIfType DEF FlowState, Statuses, HasTransaction
  <1> HIDE DEF m1, m2, m3, m4
  <1>3. m1 \o m2 \in Seq(Transition) /\ m1 \o m2 # <<>>
    BY <1>1, <1>2, MoreMoves
  <1>4. m1 \o m2 \o m3 \in Seq(Transition) /\ m1 \o m2 \o m3 # <<>>
    BY <1>2, <1>3, MoreMoves
  <1>5. m1 \o m2 \o m3 \o m4 \in Seq(Transition) /\ m1 \o m2 \o m3 \o m4 # <<>>
    BY <1>2, <1>4, MoreMoves
  <1>6. ProgressMoves(s) = m1 \o m2 \o m3 \o m4
    BY DEF ProgressMoves, m1, m2, m3, m4
  <1>7. QED
    BY <1>5, <1>6

LEMMA HistoryType ==
    ASSUME NEW t \in Terms
    PROVE  /\ TransitionHistory(FinalState(t)) \in Seq(Transition)
           /\ TransitionHistory(FinalState(t)) # <<>>
  <1> DEFINE s == FinalState(t)
             moves == ProgressMoves(s)
             last == MovesIf(s.disbursement_status \in FinalStatuses,
                             moves[Len(moves)].to, s.disbursement_status)
  <1>1. s \in FlowState
    BY FinalStateType
  <1> HIDE DEF s
  <1>2. moves \in Seq(Transition) /\ moves # <<>>
    BY <1>1, ProgressType
  <1> HIDE DEF moves
  <1>3. moves[Len(moves)] \in Transition
    BY <1>2
  <1>4. last \in Seq(Transition)
    <2>1. moves[Len(moves)].to \in Statuses
      BY <1>3 DEF Transition
    <2>2. s.disbursement_status \in Statuses
      BY <1>1 DEF FlowState
    <2>3. QED
      BY <2>1, <2>2, MovesIfType
  <1> HIDE DEF last
  <1>5. moves \o last \in Seq(Transition) /\ moves \o last # <<>>
    BY <1>2, <1>4, MoreMoves
  <1>6. TransitionHistory(s) = moves \o last
    BY DEF TransitionHistory, moves, last
  <1>7. QED
    BY <1>5, <1>6 DEF s

-----------------------------------------------------------------------------
(* Handlers stay well formed. *)

LEMMA RaisingGood ==
    ASSUME NEW h \in GoodHandler, h.pc # "idle"
    PROVE  /\ Raising(h) \in GoodHandler
           /\ Raising(h).app = h.app /\ Raising(h).req = h.req
           /\ Raising(h).pc = IF h.created THEN "fail" ELSE "audit"
           /\ Raising(h).broken = h.broken
  BY DEF Raising, GoodHandler, Handler, Locations, Codes

LEMMA BrokenGood ==
    ASSUME NEW h \in GoodHandler, h.pc # "idle"
    PROVE  /\ Broken(h) \in GoodHandler
           /\ ~Holding(Broken(h))
  BY DEF Broken, Raising, Holding, GoodHandler, Handler, Locations, Codes

LEMMA IdleGood == Idle \in GoodHandler /\ ~Holding(Idle)
  <1>1. Idle.todo \in Seq(Transition)
    BY EmptySeq DEF Idle
  <1>2. QED
    BY <1>1 DEF Idle, GoodHandler, Handler, Holding, Locations, Codes, AuditStatuses

LEMMA BreaksType == \A outcome : Breaks(outcome) \in BOOLEAN
  BY DEF Breaks

(* A call that opens with a flush is done or breaks the session.           *)
LEMMA AfterWrite ==
    ASSUME NEW h, NEW h2, NEW outcome \in WriteOutcomes
    PROVE  /\ After(outcome, h, h2) = IF outcome = "done" THEN h2 ELSE Broken(h)
           /\ Stored(outcome) <=> outcome # "refused"
  BY DisbursementAssumption DEF After, Raised, Breaks, Stored

(* One that opens with a statement may also leave it as it was.            *)
LEMMA AfterStatement ==
    ASSUME NEW h, NEW h2, NEW outcome \in StatementOutcomes
    PROVE  \/ After(outcome, h, h2) \in {h2, Broken(h)}
           \/ After(outcome, h, h2) = Raising(h) /\ ~Stored(outcome)
  BY DisbursementAssumption DEF After, Raised, Breaks, Stored, StatementOutcomes

LEMMA AfterGood ==
    ASSUME NEW h \in GoodHandler, h.pc # "idle", NEW h2 \in GoodHandler,
           NEW outcome \in WriteOutcomes
    PROVE  /\ After(outcome, h, h2) \in GoodHandler
           /\ Holding(After(outcome, h, h2)) => After(outcome, h, h2) = h2
  BY AfterWrite, BrokenGood

LEMMA ResolveGood ==
    ASSUME NEW h \in GoodHandler, h.pc = "get", NEW r \in Row
    PROVE  Resolve(h, r) \in GoodHandler /\ ~Holding(Resolve(h, r))
  <1>1. h \in Handler /\ h.app \in Apps /\ h.req \in Requests /\ ~h.created
    BY DEF GoodHandler
  <1> DEFINE create == [h EXCEPT !.pc = "create"]
             conflict == [h EXCEPT !.pc = "audit", !.status = "CONFLICT", !.code = "409"]
             hit == [h EXCEPT !.pc = "audit", !.status = "IDEMPOTENT_HIT",
                              !.receipt = r.response]
             busy == [h EXCEPT !.pc = "audit", !.status = "IN_PROGRESS", !.code = "202"]
  <1>2. create \in GoodHandler /\ ~Holding(create)
    BY <1>1 DEF GoodHandler, Handler, Holding, Locations
  <1>3. conflict \in GoodHandler /\ ~Holding(conflict)
    BY <1>1 DEF GoodHandler, Handler, Holding, Locations, Codes, AuditStatuses
  <1>4. r.response # None => hit \in GoodHandler /\ ~Holding(hit)
    BY <1>1 DEF GoodHandler, Handler, Holding, Locations, AuditStatuses, Row
  <1>5. busy \in GoodHandler /\ ~Holding(busy)
    BY <1>1 DEF GoodHandler, Handler, Holding, Locations, Codes, AuditStatuses
  <1>6. Resolve(h, r) \in {create, conflict, busy} \/ (r.response # None /\ Resolve(h, r) = hit)
    BY DEF Resolve
  <1>7. QED
    BY <1>2, <1>3, <1>4, <1>5, <1>6

-----------------------------------------------------------------------------
(* The inductive step, split into what a step does to the type of the      *)
(* state and what it does to the claims.                                   *)

ClaimParts == OneHolder /\ HolderHasClaim /\ NotYetPaid
LedgerParts == AtMostOneTransfer /\ MoneyHasClaim

(* A step that leaves rows and ledger alone, and whose worker holds a      *)
(* claim afterwards only if it held it before.                             *)
LEMMA KeepsClaims ==
    ASSUME HandlersGood, ClaimParts, LedgerParts,
           NEW w \in Workers, NEW h \in GoodHandler, Become(w, h),
           UNCHANGED <<row, ledger>>,
           Holding(h) => /\ Holds(w)
                         /\ h.app = AppOf(w) /\ h.req = handler[w].req
                         /\ h.pc = "run" => ledger[h.app] = <<>>
    PROVE  HandlersGood' /\ ClaimParts' /\ LedgerParts'
  <1>1. handler' = [handler EXCEPT ![w] = h] /\ handler \in [Workers -> GoodHandler]
    BY DEF Become, HandlersGood
  <1>2. HandlersGood'
    BY <1>1 DEF HandlersGood
  <1>3. \A v \in Workers : handler'[v] = IF v = w THEN h ELSE handler[v]
    BY <1>1
  <1>4. OneHolder'
    BY <1>3 DEF OneHolder, ClaimParts, Holds, AppOf
  <1>5. HolderHasClaim'
    BY <1>3 DEF HolderHasClaim, ClaimParts, Holds, AppOf
  <1>6. NotYetPaid'
    BY <1>3 DEF NotYetPaid, ClaimParts, Holding, AppOf, At
  <1>7. LedgerParts'
    BY DEF LedgerParts, AtMostOneTransfer, MoneyHasClaim
  <1>8. QED
    BY <1>2, <1>4, <1>5, <1>6, <1>7 DEF ClaimParts

(* The worker at hand is the only one that holds its application's claim.  *)
LEMMA OthersHoldOthers ==
    ASSUME ClaimParts, NEW w \in Workers,
           Holds(w) \/ row[AppOf(w)].status # "PROCESSING"
    PROVE  \A v \in Workers \ {w} : Holds(v) => AppOf(v) # AppOf(w)
  BY DEF ClaimParts, OneHolder, HolderHasClaim

LEMMA ReceiveStep ==
    ASSUME ClaimInv, NEW w \in Workers, NEW a \in Apps, NEW r \in Requests,
           Receive(w, a, r)
    PROVE  ClaimInv'
  <1> DEFINE h == [Idle EXCEPT !.pc = "get", !.app = a, !.req = r]
  <1>1. h \in GoodHandler /\ ~Holding(h)
    BY IdleGood DEF Idle, GoodHandler, Handler, Holding, Locations
  <1>2. Become(w, h) /\ UNCHANGED <<dbVars, ledger, answers>>
    BY DEF Receive
  <1> HIDE DEF h
  <1>3. HandlersGood' /\ ClaimParts' /\ LedgerParts'
    BY <1>1, <1>2, KeepsClaims DEF ClaimInv, ClaimParts, LedgerParts, dbVars
  <1>4. TypeOK'
    BY <1>2, <1>3 DEF ClaimInv, TypeOK, HandlersGood, GoodHandler, dbVars
  <1>5. QED
    BY <1>3, <1>4 DEF ClaimInv, ClaimParts, LedgerParts

(* A handler that is not idle, as every action of Step finds it.           *)
LEMMA Busy ==
    ASSUME ClaimInv, NEW w \in Workers, ~At(w, "idle")
    PROVE  /\ handler[w] \in GoodHandler /\ handler[w] \in Handler
           /\ AppOf(w) \in Apps /\ handler[w].req \in Requests
           /\ row[AppOf(w)] \in Row
  BY DEF ClaimInv, HandlersGood, GoodHandler, At, AppOf, TypeOK

LEMMA ReadRowStep ==
    ASSUME ClaimInv, NEW w \in Workers, ReadRow(w)
    PROVE  ClaimInv'
  <1>1. At(w, "get") /\ UNCHANGED <<dbVars, ledger, answers>>
    BY DEF ReadRow
  <1>2. handler[w] \in GoodHandler /\ handler[w].pc = "get" /\ row[AppOf(w)] \in Row
    BY <1>1, Busy DEF At
  <1>3. PICK h : Become(w, h) /\ h \in GoodHandler /\ ~Holding(h)
    <2>1. Resolve(handler[w], row[AppOf(w)]) \in GoodHandler
            /\ ~Holding(Resolve(handler[w], row[AppOf(w)]))
      BY <1>2, ResolveGood
    <2>2. Raising(handler[w]) \in GoodHandler /\ ~Holding(Raising(handler[w]))
      BY <1>2, RaisingGood DEF GoodHandler, Holding
    <2>3. Broken(handler[w]) \in GoodHandler /\ ~Holding(Broken(handler[w]))
      BY <1>2, BrokenGood
    <2>4. QED
      BY <2>1, <2>2, <2>3, AfterStatement DEF ReadRow
  <1>4. HandlersGood' /\ ClaimParts' /\ LedgerParts'
    BY <1>1, <1>3, KeepsClaims DEF ClaimInv, ClaimParts, LedgerParts, dbVars
  <1>5. TypeOK'
    BY <1>1, <1>4 DEF ClaimInv, TypeOK, HandlersGood, GoodHandler, dbVars
  <1>6. QED
    BY <1>4, <1>5 DEF ClaimInv, ClaimParts, LedgerParts

LEMMA CreateRowStep ==
    ASSUME ClaimInv, NEW w \in Workers, CreateRow(w)
    PROVE  ClaimInv'
  <1> DEFINE a == AppOf(w)
             created == [status |-> "PROCESSING", request |-> handler[w].req,
                         response |-> None]
             next == [handler[w] EXCEPT !.pc = "run", !.created = TRUE]
  <1>1. At(w, "create") /\ UNCHANGED <<records, trail, audit, ledger, answers>>
    BY DEF CreateRow
  <1>2. /\ handler[w] \in GoodHandler /\ handler[w] \in Handler /\ handler[w].pc = "create"
        /\ a \in Apps /\ handler[w].req \in Requests
    BY <1>1, Busy DEF At
  <1>3. Broken(handler[w]) \in GoodHandler /\ ~Holding(Broken(handler[w]))
    BY <1>2, BrokenGood
  <1>4. next \in GoodHandler
    BY <1>2 DEF GoodHandler, Handler, Locations
  <1>5. created \in Row
    BY <1>2 DEF Row, RowStatuses
  <1>6. \/ UNCHANGED row /\ Become(w, Broken(handler[w]))
        \/ /\ row[a].status = "NONE"
           /\ row' = [row EXCEPT ![a] = created]
           /\ Become(w, Broken(handler[w])) \/ Become(w, next)
    BY AfterWrite DEF CreateRow
  <1> HIDE DEF created, next
  <1>7. CASE UNCHANGED row /\ Become(w, Broken(handler[w]))
    <2>1. HandlersGood' /\ ClaimParts' /\ LedgerParts'
      BY <1>1, <1>3, <1>7, KeepsClaims DEF ClaimInv, ClaimParts, LedgerParts
    <2>2. TypeOK'
      BY <1>1, <1>7, <2>1 DEF ClaimInv, TypeOK, HandlersGood, GoodHandler
    <2>3. QED
      BY <2>1, <2>2 DEF ClaimInv, ClaimParts, LedgerParts
  <1>8. CASE /\ row[a].status = "NONE"
             /\ row' = [row EXCEPT ![a] = created]
             /\ Become(w, Broken(handler[w])) \/ Become(w, next)
    <2>1. PICK h : Become(w, h) /\ h \in GoodHandler /\ (Holding(h) => h = next)
      BY <1>3, <1>4, <1>8
    <2>2. ledger[a] = <<>>
      BY <1>2, <1>8 DEF ClaimInv, MoneyHasClaim
    <2>3. \A v \in Workers \ {w} : Holds(v) => AppOf(v) # a
      BY <1>8, OthersHoldOthers DEF ClaimInv, ClaimParts
    <2>4. \A v \in Workers : handler'[v] = IF v = w THEN h ELSE handler[v]
      BY <2>1 DEF Become, ClaimInv, HandlersGood
    <2>5. HandlersGood'
      BY <2>1 DEF Become, ClaimInv, HandlersGood
    <2>6. \A b \in Apps : row'[b] = IF b = a THEN created ELSE row[b]
      BY <1>2, <1>8 DEF ClaimInv, TypeOK
    <2>7. Holding(h) => /\ h.app = a /\ h.req = handler[w].req
      BY <2>1, <1>2 DEF next, Handler, AppOf
    <2>8. /\ created.status = "PROCESSING" /\ created.request = handler[w].req
      BY DEF created
    <2>9. \A v \in Workers : Holds(v) => AppOf(v) \in Apps
      BY DEF ClaimInv, HandlersGood, GoodHandler, Holds, Holding, AppOf
    <2>10. OneHolder'
      BY <2>3, <2>4, <2>7 DEF ClaimInv, OneHolder, Holds, AppOf
    <2>11. HolderHasClaim'
      BY <1>2, <2>3, <2>4, <2>6, <2>7, <2>8, <2>9 DEF ClaimInv, HolderHasClaim, Holds, AppOf
    <2>12. NotYetPaid'
      BY <1>1, <2>2, <2>4, <2>7 DEF ClaimInv, NotYetPaid, Holding, AppOf, At
    <2>13. AtMostOneTransfer' /\ MoneyHasClaim'
      BY <1>1, <2>2, <2>6 DEF ClaimInv, AtMostOneTransfer, MoneyHasClaim
    <2>14. TypeOK'
      BY <1>1, <1>2, <1>5, <1>8, <2>5 DEF ClaimInv, TypeOK, HandlersGood, GoodHandler
    <2>15. QED
      BY <2>5, <2>10, <2>11, <2>12, <2>13, <2>14 DEF ClaimInv
  <1>9. QED
    BY <1>6, <1>7, <1>8

LEMMA RunGraphStep ==
    ASSUME ClaimInv, NEW w \in Workers, RunGraph(w)
    PROVE  ClaimInv'
  <1> DEFINE a == AppOf(w)
             t == handler[w].req
             receipt == BuildReceipt(t, FinalState(t), Len(ledger[a]) + 1)
             next == [handler[w] EXCEPT !.pc = "record", !.receipt = receipt,
                                        !.todo = TransitionHistory(FinalState(t))]
  <1>1. At(w, "run") /\ UNCHANGED <<dbVars, answers>>
    BY DEF RunGraph
  <1>2. /\ handler[w] \in GoodHandler /\ handler[w] \in Handler /\ handler[w].pc = "run"
        /\ a \in Apps /\ t \in Requests /\ t \in Terms
    BY <1>1, Busy, DisbursementAssumption DEF At
  <1>3. Holds(w)
    BY <1>2 DEF Holds, Holding
  <1>4. ledger[a] = <<>> /\ row[a].status = "PROCESSING" /\ row[a].request = t
    BY <1>1, <1>2, <1>3 DEF ClaimInv, NotYetPaid, HolderHasClaim
  <1>5. receipt \in Receipt
    BY <1>2, <1>4, ReceiptType
  <1>6. TransitionHistory(FinalState(t)) \in Seq(Transition)
    BY <1>2, HistoryType
  <1>7. next \in GoodHandler
    BY <1>2, <1>5, <1>6 DEF GoodHandler, Handler, Locations
  <1>8. next.pc = "record" /\ next.app = a /\ next.req = t
    BY <1>2 DEF Handler, AppOf
  <1>9. \/ Become(w, Raising(handler[w])) /\ UNCHANGED ledger
        \/ Become(w, next) /\ UNCHANGED ledger
        \/ Become(w, next) /\ ledger' = [ledger EXCEPT ![a] = Append(@, t)]
    BY DEF RunGraph
  <1> HIDE DEF next
  <1>10. CASE UNCHANGED ledger
    <2>1. PICK h : /\ Become(w, h) /\ h \in GoodHandler
                   /\ h.app = a /\ h.req = t
      BY <1>2, <1>7, <1>8, <1>9, RaisingGood DEF AppOf
    <2>2. HandlersGood' /\ ClaimParts' /\ LedgerParts'
      BY <1>1, <1>3, <1>4, <1>10, <2>1, KeepsClaims DEF ClaimInv, ClaimParts, LedgerParts, dbVars
    <2>3. TypeOK'
      BY <1>1, <1>10, <2>2 DEF ClaimInv, TypeOK, HandlersGood, GoodHandler, dbVars
    <2>4. QED
      BY <2>2, <2>3 DEF ClaimInv, ClaimParts, LedgerParts
  <1>11. CASE Become(w, next) /\ ledger' = [ledger EXCEPT ![a] = Append(@, t)]
    <2>1. ledger' = [ledger EXCEPT ![a] = <<t>>]
      BY <1>2, <1>4, <1>11 DEF ClaimInv, TypeOK
    <2>2. \A v \in Workers \ {w} : Holds(v) => AppOf(v) # a
      BY <1>3, OthersHoldOthers DEF ClaimInv, ClaimParts
    <2>3. \A v \in Workers : handler'[v] = IF v = w THEN next ELSE handler[v]
      BY <1>11 DEF Become, ClaimInv, HandlersGood
    <2>4. HandlersGood'
      BY <1>7, <1>11 DEF Become, ClaimInv, HandlersGood
    <2>5. \A b \in Apps : ledger'[b] = IF b = a THEN <<t>> ELSE ledger[b]
      BY <1>2, <2>1 DEF ClaimInv, TypeOK
    <2>6. \A v \in Workers : Holds(v) => AppOf(v) \in Apps
      BY DEF ClaimInv, HandlersGood, GoodHandler, Holds, Holding, AppOf
    <2>7. UNCHANGED row
      BY <1>1 DEF dbVars
    <2>8. OneHolder'
      BY <1>8, <2>2, <2>3 DEF ClaimInv, OneHolder, Holds, AppOf
    <2>9. HolderHasClaim'
      BY <1>4, <1>8, <2>3, <2>7 DEF ClaimInv, HolderHasClaim, Holds, AppOf
    <2>10. NotYetPaid'
      BY <1>8, <2>2, <2>3, <2>5, <2>6 DEF ClaimInv, NotYetPaid, Holds, Holding, AppOf, At
    <2>11. AtMostOneTransfer' /\ MoneyHasClaim'
      <3>1. Len(<<t>>) = 1 /\ <<t>>[1] = t
        OBVIOUS
      <3>2. AtMostOneTransfer'
        <4>1. ASSUME NEW b \in Apps PROVE Len(ledger'[b]) <= 1
          <5>1. CASE b = a
            <6>1. ledger'[b] = <<t>>
              BY <2>5, <5>1
            <6>2. 1 <= 1
              OBVIOUS
            <6>3. QED
              BY <3>1, <6>1, <6>2, Zenon
          <5>2. CASE b # a
            BY <2>5, <5>2 DEF ClaimInv, AtMostOneTransfer
          <5>3. QED
            BY <5>1, <5>2
        <4>2. QED
          BY <4>1 DEF AtMostOneTransfer
      <3>3. MoneyHasClaim'
        BY <3>1, <1>4, <2>5, <2>7 DEF ClaimInv, MoneyHasClaim
      <3>4. QED
        BY <3>2, <3>3
    <2>12. ledger' \in [Apps -> Seq(Requests)]
      BY <1>2, <2>1 DEF ClaimInv, TypeOK
    <2>13. TypeOK'
      BY <1>1, <2>4, <2>12 DEF ClaimInv, TypeOK, HandlersGood, GoodHandler, dbVars
    <2>14. QED
      BY <2>4, <2>8, <2>9, <2>10, <2>11, <2>13 DEF ClaimInv
  <1>12. QED
    BY <1>9, <1>10, <1>11

LEMMA SaveRecordStep ==
    ASSUME ClaimInv, NEW w \in Workers, SaveRecord(w)
    PROVE  ClaimInv'
  <1> DEFINE a == AppOf(w)
             next == [handler[w] EXCEPT !.pc = "trail"]
  <1>1. At(w, "record") /\ UNCHANGED <<row, trail, audit, ledger, answers>>
    BY DEF SaveRecord
  <1>2. /\ handler[w] \in GoodHandler /\ handler[w] \in Handler /\ handler[w].pc = "record"
        /\ a \in Apps /\ handler[w].receipt \in Receipt
    BY <1>1, Busy DEF At, GoodHandler
  <1>3. Holds(w)
    BY <1>2 DEF Holds, Holding
  <1>4. /\ next \in GoodHandler
        /\ next.pc = "trail" /\ next.app = a /\ next.req = handler[w].req
    BY <1>2 DEF GoodHandler, Handler, Locations, AppOf
  <1> HIDE DEF next
  <1>5. PICK h : Become(w, h) /\ h \in GoodHandler /\ (Holding(h) => h = next)
    BY <1>2, <1>4, AfterGood DEF SaveRecord, next
  <1>6. HandlersGood' /\ ClaimParts' /\ LedgerParts'
    BY <1>1, <1>3, <1>4, <1>5, KeepsClaims DEF ClaimInv, ClaimParts, LedgerParts
  <1>7. records' \in [Apps -> Seq(Receipt)]
    <2>1. Append(records[a], handler[w].receipt) \in Seq(Receipt)
      BY <1>2 DEF ClaimInv, TypeOK
    <2>2. records' = records \/ records' = [records EXCEPT ![a] = Append(@, handler[w].receipt)]
      BY DEF SaveRecord
    <2>3. QED
      BY <1>2, <2>1, <2>2 DEF ClaimInv, TypeOK
  <1>8. TypeOK'
    BY <1>1, <1>6, <1>7 DEF ClaimInv, TypeOK, HandlersGood, GoodHandler
  <1>9. QED
    BY <1>6, <1>8 DEF ClaimInv, ClaimParts, LedgerParts

LEMMA SaveTransitionStep ==
    ASSUME ClaimInv, NEW w \in Workers, SaveTransition(w)
    PROVE  ClaimInv'
  <1> DEFINE a == AppOf(w)
             rest == Tail(handler[w].todo)
             next == [handler[w] EXCEPT !.todo = rest,
                                        !.pc = IF rest = <<>> THEN "complete" ELSE "trail"]
  <1>1. /\ At(w, "trail") /\ handler[w].todo # <<>>
        /\ UNCHANGED <<row, records, audit, ledger, answers>>
    BY DEF SaveTransition
  <1>2. /\ handler[w] \in GoodHandler /\ handler[w] \in Handler /\ handler[w].pc = "trail"
        /\ a \in Apps /\ handler[w].todo \in Seq(Transition)
    BY <1>1, Busy DEF At, Handler
  <1>3. Holds(w)
    BY <1>2 DEF Holds, Holding
  <1>4. rest \in Seq(Transition) /\ Head(handler[w].todo) \in Transition
    BY <1>1, <1>2, HeadTailProperties
  <1> HIDE DEF rest
  <1>5. /\ next \in GoodHandler
        /\ next.pc \in {"trail", "complete"} /\ next.app = a /\ next.req = handler[w].req
    BY <1>2, <1>4 DEF GoodHandler, Handler, Locations, AppOf
  <1> HIDE DEF next
  <1>6. PICK h : Become(w, h) /\ h \in GoodHandler /\ (Holding(h) => h = next)
    BY <1>2, <1>5, AfterGood DEF SaveTransition, next, rest
  <1>7. HandlersGood' /\ ClaimParts' /\ LedgerParts'
    BY <1>1, <1>3, <1>5, <1>6, KeepsClaims DEF ClaimInv, ClaimParts, LedgerParts
  <1>8. trail' \in [Apps -> Seq(Transition)]
    <2>1. Append(trail[a], Head(handler[w].todo)) \in Seq(Transition)
      BY <1>2, <1>4 DEF ClaimInv, TypeOK
    <2>2. trail' = trail \/ trail' = [trail EXCEPT ![a] = Append(@, Head(handler[w].todo))]
      BY DEF SaveTransition
    <2>3. QED
      BY <1>2, <2>1, <2>2 DEF ClaimInv, TypeOK
  <1>9. TypeOK'
    BY <1>1, <1>7, <1>8 DEF ClaimInv, TypeOK, HandlersGood, GoodHandler
  <1>10. QED
    BY <1>7, <1>9 DEF ClaimInv, ClaimParts, LedgerParts

(* A step of a holder that settles its row and gives up the claim.         *)
LEMMA Settles ==
    ASSUME ClaimInv, NEW w \in Workers, Holds(w),
           NEW h \in GoodHandler, ~Holding(h), Become(w, h),
           NEW r \in Row, row' = [row EXCEPT ![AppOf(w)] = r],
           r.request = handler[w].req,
           r.status \in {"COMPLETED", "FAILED"},
           UNCHANGED <<records, trail, audit, ledger, answers>>
    PROVE  ClaimInv'
  <1> DEFINE a == AppOf(w)
  <1>1. a \in Apps /\ row[a].status = "PROCESSING" /\ row[a].request = handler[w].req
    BY DEF ClaimInv, HandlersGood, GoodHandler, Holds, Holding, AppOf, HolderHasClaim
  <1>2. \A v \in Workers \ {w} : Holds(v) => AppOf(v) # a
    BY OthersHoldOthers DEF ClaimInv, ClaimParts
  <1>3. \A v \in Workers : handler'[v] = IF v = w THEN h ELSE handler[v]
    BY DEF Become, ClaimInv, HandlersGood
  <1>4. HandlersGood'
    BY DEF Become, ClaimInv, HandlersGood
  <1>5. \A b \in Apps : row'[b] = IF b = a THEN r ELSE row[b]
    BY <1>1 DEF ClaimInv, TypeOK
  <1>6. \A v \in Workers : Holds(v) => AppOf(v) \in Apps
    BY DEF ClaimInv, HandlersGood, GoodHandler, Holds, Holding, AppOf
  <1>7. OneHolder'
    BY <1>3 DEF ClaimInv, OneHolder, Holds, AppOf
  <1>8. HolderHasClaim'
    BY <1>2, <1>3, <1>5, <1>6 DEF ClaimInv, HolderHasClaim, Holds, AppOf
  <1>9. NotYetPaid'
    BY <1>3 DEF ClaimInv, NotYetPaid, Holding, AppOf, At
  <1>10. AtMostOneTransfer' /\ MoneyHasClaim'
    BY <1>1, <1>5 DEF ClaimInv, AtMostOneTransfer, MoneyHasClaim
  <1>11. TypeOK'
    BY <1>1, <1>4 DEF ClaimInv, TypeOK, HandlersGood, GoodHandler
  <1>12. QED
    BY <1>4, <1>7, <1>8, <1>9, <1>10, <1>11 DEF ClaimInv

(* A step of a holder that fails to settle its row.                        *)
LEMMA FailsToSettle ==
    ASSUME ClaimInv, NEW w \in Workers,
           NEW h \in GoodHandler, ~Holding(h), Become(w, h),
           UNCHANGED <<row, records, trail, audit, ledger, answers>>
    PROVE  ClaimInv'
  <1>1. HandlersGood' /\ ClaimParts' /\ LedgerParts'
    BY KeepsClaims DEF ClaimInv, ClaimParts, LedgerParts
  <1>2. TypeOK'
    BY <1>1 DEF ClaimInv, TypeOK, HandlersGood, GoodHandler
  <1>3. QED
    BY <1>1, <1>2 DEF ClaimInv, ClaimParts, LedgerParts

LEMMA MarkCompletedStep ==
    ASSUME ClaimInv, NEW w \in Workers, MarkCompleted(w)
    PROVE  ClaimInv'
  <1> DEFINE a == AppOf(w)
             done == [row[a] EXCEPT !.status = "COMPLETED", !.response = handler[w].receipt]
             next == [handler[w] EXCEPT !.pc = "audit"]
  <1>1. At(w, "complete") /\ UNCHANGED <<records, trail, audit, ledger, answers>>
    BY DEF MarkCompleted
  <1>2. /\ handler[w] \in GoodHandler /\ handler[w] \in Handler /\ handler[w].pc = "complete"
        /\ a \in Apps /\ handler[w].receipt \in Receipt /\ row[a] \in Row
    BY <1>1, Busy DEF At, GoodHandler
  <1>3. Holds(w) /\ row[a].request = handler[w].req
    BY <1>2 DEF Holds, Holding, ClaimInv, HolderHasClaim
  <1>4. /\ done \in Row /\ done.status = "COMPLETED" /\ done.request = handler[w].req
    BY <1>2, <1>3 DEF Row, RowStatuses
  <1>5. next \in GoodHandler /\ ~Holding(next)
    BY <1>2 DEF GoodHandler, Handler, Holding, Locations
  <1>6. Broken(handler[w]) \in GoodHandler /\ ~Holding(Broken(handler[w]))
    BY <1>2, BrokenGood
  <1>7. \/ /\ row' = row \/ row' = [row EXCEPT ![a] = done]
           /\ Become(w, next) \/ Become(w, Broken(handler[w]))
        \/ row' = row /\ Become(w, Raising(handler[w]))
    BY <1>2, AfterStatement DEF MarkCompleted, ClaimInv, TypeOK
  <1> HIDE DEF next, done
  <1>8. CASE row' = row /\ Become(w, Raising(handler[w]))
    <2>1. /\ Raising(handler[w]) \in GoodHandler /\ Raising(handler[w]).app = a
          /\ Raising(handler[w]).req = handler[w].req /\ Raising(handler[w]).pc # "run"
      BY <1>2, RaisingGood DEF AppOf
    <2>2. HandlersGood' /\ ClaimParts' /\ LedgerParts'
      BY <1>1, <1>3, <1>8, <2>1, KeepsClaims DEF ClaimInv, ClaimParts, LedgerParts
    <2>3. TypeOK'
      BY <1>1, <1>8, <2>2 DEF ClaimInv, TypeOK, HandlersGood, GoodHandler
    <2>4. QED
      BY <2>2, <2>3 DEF ClaimInv, ClaimParts, LedgerParts
  <1>9. CASE /\ row' = row \/ row' = [row EXCEPT ![a] = done]
             /\ Become(w, next) \/ Become(w, Broken(handler[w]))
    <2>1. PICK h : Become(w, h) /\ h \in GoodHandler /\ ~Holding(h)
      BY <1>5, <1>6, <1>9
    <2>2. CASE row' = row
      BY <1>1, <2>1, <2>2, FailsToSettle
    <2>3. CASE row' = [row EXCEPT ![a] = done]
      BY <1>1, <1>3, <1>4, <2>1, <2>3, Settles
    <2>4. QED
      BY <1>9, <2>2, <2>3
  <1>10. QED
    BY <1>7, <1>8, <1>9

LEMMA MarkFailedStep ==
    ASSUME ClaimInv, NEW w \in Workers, MarkFailed(w)
    PROVE  ClaimInv'
  <1> DEFINE a == AppOf(w)
             failed == [row[a] EXCEPT !.status = "FAILED"]
  <1>1. At(w, "fail") /\ UNCHANGED <<records, trail, audit, ledger, answers>>
    BY DEF MarkFailed
  <1>2. /\ handler[w] \in GoodHandler /\ handler[w] \in Handler /\ handler[w].pc = "fail"
        /\ a \in Apps /\ row[a] \in Row
    BY <1>1, Busy DEF At
  <1>3. failed \in Row /\ failed.status = "FAILED" /\ failed.request = row[a].request
    BY <1>2 DEF Row, RowStatuses
  <1>4. PICK broken \in BOOLEAN :
            Become(w, [handler[w] EXCEPT !.pc = "audit", !.broken = broken])
    <2>1. CASE handler[w].broken
      <3>1. [handler[w] EXCEPT !.pc = "audit"]
              = [handler[w] EXCEPT !.pc = "audit", !.broken = TRUE]
        BY <1>2, <2>1 DEF Handler
      <3>2. QED
        BY <2>1, <3>1 DEF MarkFailed
    <2>2. CASE ~handler[w].broken
      BY <2>2, BreaksType DEF MarkFailed
    <2>3. QED
      BY <2>1, <2>2
  <1> DEFINE h == [handler[w] EXCEPT !.pc = "audit", !.broken = broken]
  <1>5. h \in GoodHandler /\ ~Holding(h)
    BY <1>2 DEF GoodHandler, Handler, Holding, Locations
  <1> HIDE DEF h
  <1>6. Become(w, h)
    BY <1>4 DEF h
  <1>7. row' = row \/ (~handler[w].broken /\ row' = [row EXCEPT ![a] = failed])
    BY <1>2 DEF MarkFailed, ClaimInv, TypeOK
  <1> HIDE DEF failed
  <1>8. CASE row' = row
    BY <1>1, <1>5, <1>6, <1>8, FailsToSettle
  <1>9. CASE ~handler[w].broken /\ row' = [row EXCEPT ![a] = failed]
    <2>1. Holds(w)
      BY <1>2, <1>9 DEF Holds, Holding
    <2>2. row[a].request = handler[w].req
      BY <2>1 DEF ClaimInv, HolderHasClaim
    <2>3. QED
      BY <1>1, <1>3, <1>5, <1>6, <1>9, <2>1, <2>2, Settles
  <1>10. QED
    BY <1>7, <1>8, <1>9

LEMMA SaveAuditStep ==
    ASSUME ClaimInv, NEW w \in Workers, SaveAudit(w)
    PROVE  ClaimInv'
  <1> DEFINE a == AppOf(w)
             answer == [req |-> handler[w].req, receipt |-> handler[w].receipt]
             line == <<handler[w].status, handler[w].code # "200">>
  <1>1. At(w, "audit") /\ UNCHANGED <<row, records, trail, ledger>>
    BY DEF SaveAudit
  <1>2. /\ handler[w] \in GoodHandler /\ handler[w] \in Handler /\ handler[w].pc = "audit"
        /\ a \in Apps /\ handler[w].req \in Requests
    BY <1>1, Busy DEF At
  <1>3. Become(w, Idle)
    BY DEF SaveAudit, Reply
  <1>4. HandlersGood' /\ ClaimParts' /\ LedgerParts'
    BY <1>1, <1>3, IdleGood, KeepsClaims DEF ClaimInv, ClaimParts, LedgerParts
  <1>5. audit' \in [Apps -> SUBSET (AuditStatuses \X BOOLEAN)]
    <2>1. line \in AuditStatuses \X BOOLEAN
      BY <1>2 DEF Handler
    <2>2. audit' = audit \/ audit' = [audit EXCEPT ![a] = @ \cup {line}]
      BY DEF SaveAudit
    <2> HIDE DEF line
    <2>3. audit \in [Apps -> SUBSET (AuditStatuses \X BOOLEAN)]
      BY DEF ClaimInv, TypeOK
    <2>4. audit[a] \cup {line} \in SUBSET (AuditStatuses \X BOOLEAN)
      BY <1>2, <2>1, <2>3
    <2>5. QED
      BY <1>2, <2>2, <2>3, <2>4
  <1>6. answers' \in [Apps -> SUBSET Answer]
    <2>1. handler[w].code = "200" => answer \in Answer
      BY <1>2 DEF GoodHandler, Answer
    <2>2. \/ answers' = answers
          \/ handler[w].code = "200" /\ answers' = [answers EXCEPT ![a] = @ \cup {answer}]
      BY DEF SaveAudit, Reply
    <2>3. QED
      BY <1>2, <2>1, <2>2 DEF ClaimInv, TypeOK
  <1>7. TypeOK'
    BY <1>1, <1>4, <1>5, <1>6 DEF ClaimInv, TypeOK, HandlersGood, GoodHandler
  <1>8. QED
    BY <1>4, <1>7 DEF ClaimInv, ClaimParts, LedgerParts

LEMMA CrashStep ==
    ASSUME ClaimInv, NEW w \in Workers, Crash(w)
    PROVE  ClaimInv'
  BY IdleGood, FailsToSettle DEF Crash, dbVars

-----------------------------------------------------------------------------
(* ClaimInv holds initially and is kept by every step.                     *)
LEMMA InitClaimInv ==
    ASSUME Init
    PROVE  ClaimInv
  <1>1. \A w \in Workers : handler[w] = Idle
    BY DEF Init
  <1>2. HandlersGood
    BY IdleGood DEF Init, HandlersGood
  <1>3. OneHolder /\ HolderHasClaim /\ NotYetPaid
    BY <1>1, IdleGood DEF OneHolder, HolderHasClaim, NotYetPaid, Holds, At, Idle
  <1>4. AtMostOneTransfer
    BY DEF Init, AtMostOneTransfer
  <1>5. MoneyHasClaim
    BY DEF Init, MoneyHasClaim
  <1>6. TypeOK
    <2>1. NoRow \in Row
      BY DEF NoRow, Row, RowStatuses
    <2>2. QED
      BY <1>2, <2>1 DEF Init, TypeOK, HandlersGood, GoodHandler
  <1>7. QED
    BY <1>2, <1>3, <1>4, <1>5, <1>6 DEF ClaimInv

LEMMA NextClaimInv ==
    ASSUME ClaimInv, [Next]_vars
    PROVE  ClaimInv'
  <1>1. CASE Next
    <2>1. PICK w \in Workers : \/ \E a \in Apps, r \in Requests : Receive(w, a, r)
                              \/ Step(w)
                              \/ Crash(w)
      BY <1>1 DEF Next
    <2>2. CASE \E a \in Apps, r \in Requests : Receive(w, a, r)
      BY <2>2, ReceiveStep
    <2>3. CASE Step(w)
      BY <2>3, ReadRowStep, CreateRowStep, RunGraphStep, SaveRecordStep, SaveTransitionStep,
         MarkCompletedStep, MarkFailedStep, SaveAuditStep DEF Step
    <2>4. CASE Crash(w)
      BY <2>4, CrashStep
    <2>5. QED
      BY <2>1, <2>2, <2>3, <2>4
  <1>2. CASE UNCHANGED vars
    BY <1>2 DEF vars, ClaimInv, TypeOK, HandlersGood, OneHolder, HolderHasClaim, NotYetPaid,
       AtMostOneTransfer, MoneyHasClaim, Holds, AppOf, At
  <1>3. QED
    BY <1>1, <1>2

(* The invariant every result below rests on.                              *)
THEOREM ClaimInvariant == Spec => []ClaimInv
  <1>1. Init => ClaimInv
    BY InitClaimInv
  <1>2. ClaimInv /\ [Next]_vars => ClaimInv'
    BY NextClaimInv
  <1>3. QED
    BY <1>1, <1>2, PTL DEF Spec

(* The state keeps its type: no answer is ever given without a receipt.    *)
THEOREM TypeCorrect == Spec => []TypeOK
  <1>1. ClaimInv => TypeOK
    BY DEF ClaimInv
  <1>2. QED
    BY <1>1, ClaimInvariant, PTL

(* The gateway is asked to pay an application at most once, for any number *)
(* of workers, retries, database faults and crashes.                       *)
THEOREM AtMostOnce == Spec => []AtMostOneTransfer
  <1>1. ClaimInv => AtMostOneTransfer
    BY DEF ClaimInv
  <1>2. QED
    BY <1>1, ClaimInvariant, PTL

(* No two workers execute the same application at once.                    *)
THEOREM MutualExclusion == Spec => []OneExecutor
  <1>1. ClaimInv => OneExecutor
    BY DEF ClaimInv, OneHolder, OneExecutor, Holds, Holding, Executing
  <1>2. QED
    BY <1>1, ClaimInvariant, PTL

-----------------------------------------------------------------------------
(***************************************************************************)
(* What Disbursement leaves in its books and tells its callers, and that   *)
(* it implements PayoutContract.                                           *)
(***************************************************************************)

(* What a set of terms comes to. *)

LEMMA TheReceiptSays ==
    ASSUME NEW r
    PROVE  /\ TheReceipt(r).terms = r
           /\ TheReceipt(r).txn = Len(TheTransfer(r))
           /\ TheTransfer(r) \in {<<>>, <<r>>}
  <1>1. TheReceipt(r).terms = r
    BY DEF TheReceipt, BuildReceipt
  <1>2. TheReceipt(r).txn = IF MovesMoney(r) THEN 1 ELSE 0
    BY TransactionIffMoney DEF TheReceipt, BuildReceipt
  <1>3. Len(<<r>>) = 1 /\ Len(<<>>) = 0
    OBVIOUS
  <1>4. QED
    BY <1>1, <1>2, <1>3 DEF TheTransfer

LEMMA FirstPartOfConcat ==
    ASSUME NEW S, NEW moves \in Seq(S), NEW rest \in Seq(S)
    PROVE  FirstPart(moves, moves \o rest)
  <1>1. Len(moves \o rest) = Len(moves) + Len(rest)
    BY ConcatProperties
  <1>2. Len(moves) \in Nat /\ Len(rest) \in Nat
    BY LenProperties
  <1>3. Len(moves) <= Len(moves \o rest)
    BY <1>1, <1>2
  <1>4. moves = SubSeq(moves \o rest, 1, Len(moves))
    <2>1. CASE Len(moves) = 0
      BY <2>1
    <2>2. CASE Len(moves) # 0
      <3>1. SubSeq(moves \o rest, 1, Len(moves)) = SubSeq(moves, 1, Len(moves))
        BY <1>2, <2>2, SubSeqOfConcat1
      <3>2. QED
        BY <3>1, SubSeqFull
    <2>3. QED
      BY <2>1, <2>2
  <1>5. QED
    BY <1>3, <1>4 DEF FirstPart

LEMMA NextPart ==
    ASSUME NEW S, NEW moves \in Seq(S), NEW todo \in Seq(S), todo # <<>>
    PROVE  /\ Append(moves, Head(todo)) \in Seq(S)
           /\ Append(moves, Head(todo)) \o Tail(todo) = moves \o todo
           /\ FirstPart(Append(moves, Head(todo)), moves \o todo)
  <1>1. Head(todo) \in S /\ Tail(todo) \in Seq(S) /\ todo = <<Head(todo)>> \o Tail(todo)
    BY HeadTailProperties
  <1>2. Append(moves, Head(todo)) = moves \o <<Head(todo)>>
    BY <1>1, AppendIsConcat
  <1>3. <<Head(todo)>> \in Seq(S)
    BY <1>1
  <1>4. (moves \o <<Head(todo)>>) \o Tail(todo) = moves \o (<<Head(todo)>> \o Tail(todo))
    BY <1>1, <1>3, ConcatAssociative
  <1>5. Append(moves, Head(todo)) \in Seq(S)
    BY <1>1, AppendProperties
  <1>6. Append(moves, Head(todo)) \o Tail(todo) = moves \o todo
    BY <1>1, <1>2, <1>4
  <1>7. QED
    BY <1>1, <1>5, <1>6, FirstPartOfConcat

-----------------------------------------------------------------------------
(* Handlers that carry no claim and no 200 fit whatever the books are. *)

Silent(h) == /\ ~Holding(h)
             /\ h.pc = "audit" => h.code # "200"

LEMMA SilentFits ==
    ASSUME NEW h \in Handler, Silent(h), NEW r, NEW recs, NEW moves, NEW money
    PROVE  WorkFits(h, r, recs, moves, money)
  BY DEF Silent, Holding, WorkFits

LEMMA BrokenSilent ==
    ASSUME NEW h \in GoodHandler, h.pc # "idle"
    PROVE  /\ Broken(h) \in Handler /\ Broken(h).app = h.app
           /\ Silent(Broken(h))
  BY DEF Broken, Raising, Silent, Holding, GoodHandler, Handler, Locations, Codes

(* A step of one worker on the books of its application keeps BooksInv if  *)
(* it leaves books that fit the row, work that fits the books, and if a    *)
(* change is made only by the sole holder of a claim that is not settled.  *)
LEMMA BooksStep ==
    ASSUME ClaimInv, BooksInv,
           NEW w \in Workers, NEW a \in Apps, NEW h \in Handler,
           Become(w, h), h.pc # "idle" => h.app = a,
           \A b \in Apps \ {a} :
              /\ row'[b] = row[b] /\ records'[b] = records[b] /\ trail'[b] = trail[b]
              /\ ledger'[b] = ledger[b] /\ answers'[b] = answers[b] /\ audit'[b] = audit[b],
           \/ /\ row'[a] = row[a] /\ records'[a] = records[a]
              /\ trail'[a] = trail[a] /\ ledger'[a] = ledger[a]
           \/ /\ row[a].status # "COMPLETED"
              /\ \A v \in Workers \ {w} : Holds(v) => AppOf(v) # a,
           BooksFit(row'[a], records'[a], trail'[a], ledger'[a]),
           TalkFits(row'[a], answers'[a], audit'[a]),
           h.pc # "idle" => WorkFits(h, row'[a], records'[a], trail'[a], ledger'[a])
    PROVE  BooksInv'
  <1>1. \A b \in Apps : /\ BooksFit(row'[b], records'[b], trail'[b], ledger'[b])
                        /\ TalkFits(row'[b], answers'[b], audit'[b])
    BY DEF BooksInv
  <1>2. handler' = [handler EXCEPT ![w] = h] /\ handler \in [Workers -> GoodHandler]
    BY DEF Become, ClaimInv, HandlersGood
  <1>3. ASSUME NEW v \in Workers, v # w, handler[v].pc # "idle"
        PROVE  WorkFits(handler[v], row'[AppOf(v)], records'[AppOf(v)], trail'[AppOf(v)],
                        ledger'[AppOf(v)])
    <2>1. /\ WorkFits(handler[v], row[AppOf(v)], records[AppOf(v)], trail[AppOf(v)],
                      ledger[AppOf(v)])
          /\ AppOf(v) \in Apps /\ handler[v] \in Handler
      BY <1>2, <1>3 DEF BooksInv, At, GoodHandler, AppOf
    <2>2. CASE AppOf(v) # a
      BY <2>1, <2>2
    <2>3. CASE /\ AppOf(v) = a
               /\ row'[a] = row[a] /\ records'[a] = records[a]
               /\ trail'[a] = trail[a] /\ ledger'[a] = ledger[a]
      BY <2>1, <2>3
    <2>4. CASE /\ AppOf(v) = a
               /\ row[a].status # "COMPLETED"
               /\ \A u \in Workers \ {w} : Holds(u) => AppOf(u) # a
      <3>1. ~Holding(handler[v])
        BY <1>3, <2>4 DEF Holds
      <3>2. handler[v].pc = "audit" => handler[v].code # "200"
        BY <2>1, <2>4 DEF WorkFits
      <3>3. QED
        BY <2>1, <3>1, <3>2, SilentFits DEF Silent
    <2>5. QED
      BY <2>2, <2>3, <2>4
  <1>4. \A v \in Workers : handler'[v] = IF v = w THEN h ELSE handler[v]
    BY <1>2
  <1>5. ASSUME NEW v \in Workers, handler'[v].pc # "idle"
        PROVE  WorkFits(handler'[v], row'[handler'[v].app], records'[handler'[v].app],
                        trail'[handler'[v].app], ledger'[handler'[v].app])
    BY <1>3, <1>4, <1>5 DEF AppOf
  <1>6. QED
    BY <1>1, <1>5 DEF BooksInv, At, AppOf

(* A step that only moves the worker.                                      *)
LEMMA OnlyMoves ==
    ASSUME ClaimInv, BooksInv, NEW w \in Workers, NEW h \in Handler, Become(w, h),
           UNCHANGED <<row, records, trail, audit, ledger, answers>>,
           h.pc # "idle" =>
              /\ h.app \in Apps
              /\ WorkFits(h, row[h.app], records[h.app], trail[h.app], ledger[h.app])
    PROVE  BooksInv'
  <1>1. handler' = [handler EXCEPT ![w] = h] /\ handler \in [Workers -> GoodHandler]
    BY DEF Become, ClaimInv, HandlersGood
  <1>2. \A v \in Workers : handler'[v] = IF v = w THEN h ELSE handler[v]
    BY <1>1
  <1>3. QED
    BY <1>2 DEF BooksInv, At, AppOf

(* What BooksInv says of a worker at hand.                                 *)
LEMMA AtHand ==
    ASSUME BooksInv, NEW w \in Workers, ~At(w, "idle"), AppOf(w) \in Apps
    PROVE  /\ BooksFit(row[AppOf(w)], records[AppOf(w)], trail[AppOf(w)], ledger[AppOf(w)])
           /\ TalkFits(row[AppOf(w)], answers[AppOf(w)], audit[AppOf(w)])
           /\ WorkFits(handler[w], row[AppOf(w)], records[AppOf(w)], trail[AppOf(w)],
                       ledger[AppOf(w)])
  BY DEF BooksInv
-----------------------------------------------------------------------------
(* Every action keeps the books. *)

LEMMA ReceiveKeepsBooks ==
    ASSUME ClaimInv, BooksInv, NEW w \in Workers, NEW a \in Apps, NEW r \in Requests,
           Receive(w, a, r)
    PROVE  BooksInv'
  <1> DEFINE h == [Idle EXCEPT !.pc = "get", !.app = a, !.req = r]
  <1>1. h \in Handler /\ h.pc = "get" /\ h.app = a
    BY IdleGood DEF Idle, GoodHandler, Handler, Locations
  <1>2. Become(w, h) /\ UNCHANGED <<row, records, trail, audit, ledger, answers>>
    BY DEF Receive, dbVars
  <1> HIDE DEF h
  <1>3. Silent(h)
    BY <1>1 DEF Silent, Holding
  <1>4. QED
    BY <1>1, <1>2, <1>3, SilentFits, OnlyMoves

LEMMA ResolveFits ==
    ASSUME NEW h \in GoodHandler, h.pc = "get", NEW r \in Row,
           NEW recs, NEW moves, NEW money
    PROVE  /\ Resolve(h, r) \in Handler /\ Resolve(h, r).app = h.app
           /\ WorkFits(Resolve(h, r), r, recs, moves, money)
  <1>1. h \in Handler /\ ~h.created
    BY DEF GoodHandler
  <1> DEFINE create == [h EXCEPT !.pc = "create"]
             conflict == [h EXCEPT !.pc = "audit", !.status = "CONFLICT", !.code = "409"]
             hit == [h EXCEPT !.pc = "audit", !.status = "IDEMPOTENT_HIT",
                              !.receipt = r.response]
             busy == [h EXCEPT !.pc = "audit", !.status = "IN_PROGRESS", !.code = "202"]
  <1>2. Resolve(h, r) \in Handler
    BY ResolveGood DEF GoodHandler
  <1>3. create.app = h.app /\ WorkFits(create, r, recs, moves, money)
    BY <1>1 DEF Handler, WorkFits, NoBooks
  <1>4. conflict.app = h.app /\ WorkFits(conflict, r, recs, moves, money)
    BY <1>1 DEF Handler, WorkFits, NoBooks
  <1>5. hit.app = h.app
    BY <1>1 DEF Handler
  <1>6. r.status = "COMPLETED" /\ r.request = h.req => WorkFits(hit, r, recs, moves, money)
    BY <1>1 DEF Handler, WorkFits, NoBooks
  <1>7. busy.app = h.app /\ WorkFits(busy, r, recs, moves, money)
    BY <1>1 DEF Handler, WorkFits, NoBooks
  <1>8. \/ Resolve(h, r) \in {create, conflict, busy}
        \/ r.status = "COMPLETED" /\ r.request = h.req /\ Resolve(h, r) = hit
    BY DEF Resolve
  <1> HIDE DEF create, conflict, hit, busy
  <1>9. QED
    BY <1>2, <1>3, <1>4, <1>5, <1>6, <1>7, <1>8

LEMMA ReadRowKeepsBooks ==
    ASSUME ClaimInv, BooksInv, NEW w \in Workers, ReadRow(w)
    PROVE  BooksInv'
  <1> DEFINE a == AppOf(w)
             fits(h) == /\ h \in Handler /\ h.app = a
                        /\ WorkFits(h, row[a], records[a], trail[a], ledger[a])
  <1>1. At(w, "get") /\ UNCHANGED <<row, records, trail, audit, ledger, answers>>
    BY DEF ReadRow, dbVars
  <1>2. /\ handler[w] \in GoodHandler /\ handler[w].pc = "get" /\ ~handler[w].created
        /\ a \in Apps /\ row[a] \in Row
    BY <1>1, Busy DEF At, GoodHandler
  <1>3. fits(Resolve(handler[w], row[a]))
    BY <1>2, ResolveFits DEF AppOf
  <1>4. fits(Broken(handler[w]))
    BY <1>2, BrokenSilent, SilentFits DEF AppOf
  <1>5. fits(Raising(handler[w]))
    <2>1. Raising(handler[w]) \in Handler /\ Raising(handler[w]).app = a
      BY <1>2, RaisingGood DEF GoodHandler, AppOf
    <2>2. Silent(Raising(handler[w]))
      BY <1>2 DEF Silent, Raising, Holding, GoodHandler, Handler
    <2>3. QED
      BY <2>1, <2>2, SilentFits
  <1>6. PICK h : Become(w, h) /\ fits(h)
    BY <1>3, <1>4, <1>5, AfterStatement DEF ReadRow
  <1>7. QED
    BY <1>1, <1>2, <1>6, OnlyMoves

LEMMA CreateRowKeepsBooks ==
    ASSUME ClaimInv, BooksInv, NEW w \in Workers, CreateRow(w)
    PROVE  BooksInv'
  <1> DEFINE a == AppOf(w)
             created == [status |-> "PROCESSING", request |-> handler[w].req,
                         response |-> None]
             next == [handler[w] EXCEPT !.pc = "run", !.created = TRUE]
  <1>1. At(w, "create") /\ UNCHANGED <<records, trail, audit, ledger, answers>>
    BY DEF CreateRow
  <1>2. /\ handler[w] \in GoodHandler /\ handler[w] \in Handler /\ handler[w].pc = "create"
        /\ a \in Apps
    BY <1>1, Busy DEF At
  <1>3. /\ Broken(handler[w]) \in Handler /\ Broken(handler[w]).app = a
        /\ Silent(Broken(handler[w]))
    BY <1>2, BrokenSilent DEF AppOf
  <1>4. \/ UNCHANGED row /\ Become(w, Broken(handler[w]))
        \/ /\ row[a].status = "NONE"
           /\ row' = [row EXCEPT ![a] = created]
           /\ Become(w, Broken(handler[w])) \/ Become(w, next)
    BY AfterWrite DEF CreateRow
  <1>5. CASE UNCHANGED row /\ Become(w, Broken(handler[w]))
    BY <1>1, <1>2, <1>3, <1>5, SilentFits, OnlyMoves
  <1>6. CASE /\ row[a].status = "NONE"
             /\ row' = [row EXCEPT ![a] = created]
             /\ Become(w, Broken(handler[w])) \/ Become(w, next)
    <2>1. records[a] = <<>> /\ trail[a] = <<>> /\ ledger[a] = <<>>
      BY <1>1, <1>2, <1>6, AtHand DEF At, BooksFit, NoBooks
    <2>2. \A b \in Apps : row'[b] = IF b = a THEN created ELSE row[b]
      BY <1>2, <1>6 DEF ClaimInv, TypeOK
    <2>3. BooksFit(row'[a], records'[a], trail'[a], ledger'[a])
      BY <1>1, <1>2, <2>1, <2>2 DEF BooksFit, NoBooks
    <2>4. TalkFits(row'[a], answers'[a], audit'[a])
      <3>1. TalkFits(row[a], answers[a], audit[a])
        BY <1>1, <1>2, AtHand DEF At
      <3>2. QED
        BY <1>1, <1>2, <1>6, <2>2, <3>1 DEF TalkFits
    <2>5. next \in Handler /\ next.app = a /\ WorkFits(next, row'[a], <<>>, <<>>, <<>>)
      BY <1>2 DEF Handler, Locations, AppOf, WorkFits, NoBooks
    <2>6. PICK h \in Handler : /\ Become(w, h) /\ h.app = a
                               /\ WorkFits(h, row'[a], <<>>, <<>>, <<>>)
      BY <1>3, <1>6, <2>5, SilentFits
    <2>7. \A v \in Workers \ {w} : Holds(v) => AppOf(v) # a
      BY <1>6, OthersHoldOthers DEF ClaimInv, ClaimParts
    <2>8. QED
      BY <1>1, <1>2, <1>6, <2>1, <2>2, <2>3, <2>4, <2>6, <2>7, BooksStep
  <1>7. QED
    BY <1>4, <1>5, <1>6

(* What a worker that holds its application's claim finds.                 *)
LEMMA HolderFinds ==
    ASSUME ClaimInv, BooksInv, NEW w \in Workers, Holds(w)
    PROVE  /\ handler[w] \in GoodHandler /\ handler[w] \in Handler
           /\ AppOf(w) \in Apps /\ handler[w].req \in Requests /\ handler[w].req \in Terms
           /\ row[AppOf(w)] \in Row
           /\ row[AppOf(w)].status = "PROCESSING"
           /\ row[AppOf(w)].request = handler[w].req
           /\ BooksFit(row[AppOf(w)], records[AppOf(w)], trail[AppOf(w)], ledger[AppOf(w)])
           /\ TalkFits(row[AppOf(w)], answers[AppOf(w)], audit[AppOf(w)])
           /\ WorkFits(handler[w], row[AppOf(w)], records[AppOf(w)], trail[AppOf(w)],
                       ledger[AppOf(w)])
           /\ \A v \in Workers \ {w} : Holds(v) => AppOf(v) # AppOf(w)
  <1>1. ~At(w, "idle")
    BY DEF Holds, Holding, At
  <1>2. /\ handler[w] \in GoodHandler /\ handler[w] \in Handler
        /\ AppOf(w) \in Apps /\ handler[w].req \in Requests /\ row[AppOf(w)] \in Row
    BY <1>1, Busy
  <1>3. handler[w].req \in Terms
    BY <1>2, DisbursementAssumption
  <1>4. row[AppOf(w)].status = "PROCESSING" /\ row[AppOf(w)].request = handler[w].req
    BY DEF ClaimInv, HolderHasClaim
  <1>5. \A v \in Workers \ {w} : Holds(v) => AppOf(v) # AppOf(w)
    BY OthersHoldOthers DEF ClaimInv, ClaimParts
  <1>6. QED
    BY <1>1, <1>2, <1>3, <1>4, <1>5, AtHand

LEMMA RunGraphKeepsBooks ==
    ASSUME ClaimInv, BooksInv, NEW w \in Workers, RunGraph(w)
    PROVE  BooksInv'
  <1> DEFINE a == AppOf(w)
             t == handler[w].req
             next == [handler[w] EXCEPT !.pc = "record", !.receipt = TheReceipt(t),
                                        !.todo = TheHistory(t)]
  <1>1. At(w, "run") /\ UNCHANGED <<row, records, trail, audit, answers>>
    BY DEF RunGraph, dbVars
  <1>2. Holds(w) /\ handler[w].pc = "run"
    BY <1>1 DEF At, Holds, Holding
  <1>3. /\ handler[w] \in GoodHandler /\ handler[w] \in Handler
        /\ a \in Apps /\ t \in Terms
        /\ row[a].status = "PROCESSING" /\ row[a].request = t
        /\ TalkFits(row[a], answers[a], audit[a])
        /\ \A v \in Workers \ {w} : Holds(v) => AppOf(v) # a
    BY <1>2, HolderFinds
  <1>4. records[a] = <<>> /\ trail[a] = <<>> /\ ledger[a] = <<>>
    BY <1>2, HolderFinds DEF WorkFits, NoBooks
  <1>5. BuildReceipt(t, FinalState(t), Len(ledger[a]) + 1) = TheReceipt(t)
    <2>1. Len(<<>>) + 1 = 1
      OBVIOUS
    <2>2. QED
      BY <1>4, <2>1 DEF TheReceipt
  <1>6. \/ Become(w, Raising(handler[w])) /\ UNCHANGED ledger
        \/ /\ Become(w, next)
           /\ ledger' = IF MovesMoney(t) THEN [ledger EXCEPT ![a] = Append(@, t)] ELSE ledger
    BY <1>5 DEF RunGraph, TheHistory
  <1>7. CASE Become(w, Raising(handler[w])) /\ UNCHANGED ledger
    <2>1. Raising(handler[w]) \in Handler /\ Raising(handler[w]).app = a
      BY <1>2, <1>3, RaisingGood DEF GoodHandler, AppOf
    <2>2. WorkFits(Raising(handler[w]), row[a], records[a], trail[a], ledger[a])
      BY <1>3, <1>4 DEF WorkFits, NoBooks, Raising, Handler
    <2>3. QED
      BY <1>1, <1>3, <1>7, <2>1, <2>2, OnlyMoves
  <1>8. CASE /\ Become(w, next)
             /\ ledger' = IF MovesMoney(t) THEN [ledger EXCEPT ![a] = Append(@, t)] ELSE ledger
    <2>1. Append(<<>>, t) = <<t>>
      OBVIOUS
    <2>2. /\ ledger'[a] = TheTransfer(t)
          /\ \A b \in Apps \ {a} : ledger'[b] = ledger[b]
      BY <1>3, <1>4, <1>8, <2>1 DEF TheTransfer, ClaimInv, TypeOK
    <2>3. BooksFit(row'[a], records'[a], trail'[a], ledger'[a])
      BY <1>1, <1>3, <1>4, <2>2 DEF BooksFit, NoBooks
    <2>4. TheReceipt(t) \in Receipt /\ TheHistory(t) \in Seq(Transition)
      BY <1>3, ReceiptType, HistoryType DEF TheReceipt, TheHistory
    <2>5. next \in Handler /\ next.app = a /\ next.pc = "record" /\ next.req = t
      BY <1>3, <2>4 DEF Handler, Locations, AppOf
    <2>6. next.receipt = TheReceipt(t) /\ next.todo = TheHistory(t)
      BY <1>3 DEF Handler
    <2> HIDE DEF next
    <2>7. WorkFits(next, row'[a], records'[a], trail'[a], ledger'[a])
      BY <1>1, <1>4, <2>2, <2>5, <2>6 DEF WorkFits, NoBooks
    <2>8. QED
      BY <1>1, <1>3, <1>8, <2>2, <2>3, <2>5, <2>7, BooksStep
  <1>9. QED
    BY <1>6, <1>7, <1>8

LEMMA SaveRecordKeepsBooks ==
    ASSUME ClaimInv, BooksInv, NEW w \in Workers, SaveRecord(w)
    PROVE  BooksInv'
  <1> DEFINE a == AppOf(w)
             t == handler[w].req
             next == [handler[w] EXCEPT !.pc = "trail"]
  <1>1. At(w, "record") /\ UNCHANGED <<row, trail, audit, ledger, answers>>
    BY DEF SaveRecord
  <1>2. Holds(w) /\ handler[w].pc = "record"
    BY <1>1 DEF At, Holds, Holding
  <1>3. /\ handler[w] \in GoodHandler /\ handler[w] \in Handler
        /\ a \in Apps /\ t \in Terms
        /\ row[a].status = "PROCESSING" /\ row[a].request = t
        /\ TalkFits(row[a], answers[a], audit[a])
        /\ \A v \in Workers \ {w} : Holds(v) => AppOf(v) # a
    BY <1>2, HolderFinds
  <1>4. /\ records[a] = <<>> /\ trail[a] = <<>> /\ ledger[a] = TheTransfer(t)
        /\ handler[w].receipt = TheReceipt(t) /\ handler[w].todo = TheHistory(t)
    BY <1>2, HolderFinds DEF WorkFits, NoBooks
  <1>5. /\ Broken(handler[w]) \in Handler /\ Broken(handler[w]).app = a
        /\ Silent(Broken(handler[w]))
    BY <1>2, <1>3, BrokenSilent DEF AppOf
  <1>6. \/ Become(w, Broken(handler[w])) /\ UNCHANGED records
        \/ /\ Become(w, Broken(handler[w])) \/ Become(w, next)
           /\ records' = [records EXCEPT ![a] = Append(@, handler[w].receipt)]
    BY AfterWrite DEF SaveRecord
  <1>7. CASE Become(w, Broken(handler[w])) /\ UNCHANGED records
    BY <1>1, <1>3, <1>5, <1>7, SilentFits, OnlyMoves
  <1>8. CASE /\ Become(w, Broken(handler[w])) \/ Become(w, next)
             /\ records' = [records EXCEPT ![a] = Append(@, handler[w].receipt)]
    <2>1. Append(<<>>, TheReceipt(t)) = <<TheReceipt(t)>>
      OBVIOUS
    <2>2. /\ records'[a] = <<TheReceipt(t)>>
          /\ \A b \in Apps \ {a} : records'[b] = records[b]
      BY <1>3, <1>4, <1>8, <2>1 DEF ClaimInv, TypeOK
    <2>3. TheHistory(t) \in Seq(Transition) /\ TheHistory(t) # <<>>
      BY <1>3, HistoryType DEF TheHistory
    <2>4. <<>> \o TheHistory(t) = TheHistory(t)
      BY <2>3, ConcatEmptySeq
    <2>5. FirstPart(<<>>, TheHistory(t))
      BY <2>3, <2>4, EmptySeq, FirstPartOfConcat
    <2>6. BooksFit(row'[a], records'[a], trail'[a], ledger'[a])
      BY <1>1, <1>3, <1>4, <2>2, <2>5 DEF BooksFit, NoBooks
    <2>7. next \in Handler /\ next.app = a /\ next.pc = "trail" /\ next.req = t
      BY <1>3 DEF Handler, Locations, AppOf
    <2>8. next.receipt = TheReceipt(t) /\ next.todo = TheHistory(t)
      BY <1>3, <1>4 DEF Handler
    <2> HIDE DEF next
    <2>9. WorkFits(next, row'[a], records'[a], trail'[a], ledger'[a])
      BY <1>1, <1>4, <2>2, <2>3, <2>4, <2>7, <2>8 DEF WorkFits, NoBooks
    <2>10. PICK h \in Handler : /\ Become(w, h) /\ h.app = a
                                /\ WorkFits(h, row'[a], records'[a], trail'[a], ledger'[a])
      BY <1>5, <1>8, <2>7, <2>9, SilentFits
    <2>11. QED
      BY <1>1, <1>3, <2>2, <2>6, <2>10, BooksStep
  <1>9. QED
    BY <1>6, <1>7, <1>8

LEMMA SaveTransitionKeepsBooks ==
    ASSUME ClaimInv, BooksInv, NEW w \in Workers, SaveTransition(w)
    PROVE  BooksInv'
  <1> DEFINE a == AppOf(w)
             t == handler[w].req
             todo == handler[w].todo
             longer == Append(trail[a], Head(todo))
             next == [handler[w] EXCEPT !.todo = Tail(todo),
                                        !.pc = IF Tail(todo) = <<>> THEN "complete" ELSE "trail"]
  <1>1. At(w, "trail") /\ UNCHANGED <<row, records, audit, ledger, answers>>
    BY DEF SaveTransition
  <1>2. Holds(w) /\ handler[w].pc = "trail"
    BY <1>1 DEF At, Holds, Holding
  <1>3. /\ handler[w] \in GoodHandler /\ handler[w] \in Handler
        /\ a \in Apps /\ t \in Terms
        /\ row[a].status = "PROCESSING" /\ row[a].request = t
        /\ TalkFits(row[a], answers[a], audit[a])
        /\ \A v \in Workers \ {w} : Holds(v) => AppOf(v) # a
    BY <1>2, HolderFinds
  <1>4. /\ records[a] = <<handler[w].receipt>> /\ ledger[a] = TheTransfer(t)
        /\ handler[w].receipt = TheReceipt(t)
        /\ todo # <<>> /\ trail[a] \o todo = TheHistory(t)
    BY <1>2, HolderFinds DEF WorkFits, NoBooks
  <1>5. /\ Broken(handler[w]) \in Handler /\ Broken(handler[w]).app = a
        /\ Silent(Broken(handler[w]))
    BY <1>2, <1>3, BrokenSilent DEF AppOf
  <1>6. \/ Become(w, Broken(handler[w])) /\ UNCHANGED trail
        \/ /\ Become(w, Broken(handler[w])) \/ Become(w, next)
           /\ trail' = [trail EXCEPT ![a] = longer]
    <2>1. PICK outcome \in WriteOutcomes :
             /\ trail' = IF Stored(outcome) THEN [trail EXCEPT ![a] = longer] ELSE trail
             /\ Become(w, After(outcome, handler[w], next))
      BY DEF SaveTransition
    <2>2. /\ After(outcome, handler[w], next) \in {next, Broken(handler[w])}
          /\ Stored(outcome) <=> outcome # "refused"
          /\ ~Stored(outcome) => After(outcome, handler[w], next) = Broken(handler[w])
      BY AfterWrite
    <2> HIDE DEF next, longer
    <2>3. QED
      BY <2>1, <2>2
  <1>7. todo \in Seq(Transition) /\ trail[a] \in Seq(Transition)
    BY <1>3 DEF Handler, ClaimInv, TypeOK
  <1>8. /\ longer \in Seq(Transition) /\ Tail(todo) \in Seq(Transition)
        /\ longer \o Tail(todo) = TheHistory(t)
        /\ FirstPart(longer, TheHistory(t))
    <2> HIDE DEF todo, a
    <2>1. longer \in Seq(Transition)
      BY <1>4, <1>7, NextPart
    <2>2. Tail(todo) \in Seq(Transition)
      BY <1>4, <1>7, HeadTailProperties
    <2>3. longer \o Tail(todo) = trail[a] \o todo /\ FirstPart(longer, trail[a] \o todo)
      BY <1>4, <1>7, NextPart
    <2>4. QED
      BY <1>4, <2>1, <2>2, <2>3
  <1>9. longer \o <<>> = longer
    BY <1>8, ConcatEmptySeq
  <1> HIDE DEF longer
  <1>10. CASE Become(w, Broken(handler[w])) /\ UNCHANGED trail
    BY <1>1, <1>3, <1>5, <1>10, SilentFits, OnlyMoves
  <1>11. CASE /\ Become(w, Broken(handler[w])) \/ Become(w, next)
              /\ trail' = [trail EXCEPT ![a] = longer]
    <2>1. trail'[a] = longer /\ \A b \in Apps \ {a} : trail'[b] = trail[b]
      BY <1>3, <1>11 DEF ClaimInv, TypeOK
    <2>2. BooksFit(row'[a], records'[a], trail'[a], ledger'[a])
      BY <1>1, <1>3, <1>4, <1>8, <2>1 DEF BooksFit, NoBooks
    <2>3. next \in Handler /\ next.app = a /\ next.req = t
      BY <1>3, <1>8 DEF Handler, Locations, AppOf
    <2>4. /\ next.receipt = TheReceipt(t) /\ next.todo = Tail(todo)
          /\ next.pc = IF Tail(todo) = <<>> THEN "complete" ELSE "trail"
      BY <1>3, <1>4 DEF Handler
    <2> HIDE DEF next
    <2>5. WorkFits(next, row'[a], records'[a], trail'[a], ledger'[a])
      BY <1>1, <1>4, <1>8, <1>9, <2>1, <2>3, <2>4 DEF WorkFits, NoBooks
    <2>6. PICK h \in Handler : /\ Become(w, h) /\ h.app = a
                               /\ WorkFits(h, row'[a], records'[a], trail'[a], ledger'[a])
      BY <1>5, <1>11, <2>3, <2>5, SilentFits
    <2>7. QED
      BY <1>1, <1>3, <2>1, <2>2, <2>6, BooksStep
  <1>12. QED
    BY <1>6, <1>10, <1>11

LEMMA MarkCompletedKeepsBooks ==
    ASSUME ClaimInv, BooksInv, NEW w \in Workers, MarkCompleted(w)
    PROVE  BooksInv'
  <1> DEFINE a == AppOf(w)
             t == handler[w].req
             done == [row[a] EXCEPT !.status = "COMPLETED", !.response = handler[w].receipt]
             next == [handler[w] EXCEPT !.pc = "audit"]
  <1>1. At(w, "complete") /\ UNCHANGED <<records, trail, audit, ledger, answers>>
    BY DEF MarkCompleted
  <1>2. Holds(w) /\ handler[w].pc = "complete"
    BY <1>1 DEF At, Holds, Holding
  <1>3. /\ handler[w] \in GoodHandler /\ handler[w] \in Handler /\ row[a] \in Row
        /\ a \in Apps /\ t \in Terms
        /\ row[a].status = "PROCESSING" /\ row[a].request = t
        /\ TalkFits(row[a], answers[a], audit[a])
        /\ \A v \in Workers \ {w} : Holds(v) => AppOf(v) # a
    BY <1>2, HolderFinds
  <1>4. /\ records[a] = <<handler[w].receipt>> /\ trail[a] = TheHistory(t)
        /\ ledger[a] = TheTransfer(t) /\ handler[w].receipt = TheReceipt(t)
    BY <1>2, HolderFinds DEF WorkFits, NoBooks
  <1>5. /\ Broken(handler[w]) \in Handler /\ Broken(handler[w]).app = a
        /\ Silent(Broken(handler[w]))
    BY <1>2, <1>3, BrokenSilent DEF AppOf
  <1>6. \/ /\ Become(w, Broken(handler[w])) \/ Become(w, Raising(handler[w]))
           /\ UNCHANGED row
        \/ /\ Become(w, Broken(handler[w])) \/ Become(w, next)
           /\ row' = [row EXCEPT ![a] = done]
    BY <1>3 DEF MarkCompleted, After, Stored, Raised, Breaks, StatementOutcomes, ClaimInv, TypeOK
  <1>7. CASE /\ Become(w, Broken(handler[w])) \/ Become(w, Raising(handler[w]))
             /\ UNCHANGED row
    <2>1. Raising(handler[w]) \in Handler /\ Raising(handler[w]).app = a
      BY <1>2, <1>3, RaisingGood DEF GoodHandler, AppOf
    <2>2. /\ Raising(handler[w]).pc \in {"fail", "audit"} /\ Raising(handler[w]).req = t
          /\ Raising(handler[w]).code = "500"
      BY <1>3 DEF Raising, Handler
    <2>3. AllBooks(t, records[a], trail[a], ledger[a])
      BY <1>4 DEF AllBooks
    <2>4. WorkFits(Raising(handler[w]), row[a], records[a], trail[a], ledger[a])
      BY <2>2, <2>3 DEF WorkFits
    <2>5. PICK h \in Handler : /\ Become(w, h) /\ h.app = a
                               /\ WorkFits(h, row[a], records[a], trail[a], ledger[a])
      BY <1>5, <1>7, <2>1, <2>4, SilentFits
    <2>6. QED
      BY <1>1, <1>3, <1>7, <2>5, OnlyMoves
  <1>8. CASE /\ Become(w, Broken(handler[w])) \/ Become(w, next)
             /\ row' = [row EXCEPT ![a] = done]
    <2>1. /\ done.status = "COMPLETED" /\ done.request = t /\ done.response = TheReceipt(t)
      BY <1>3, <1>4 DEF Row
    <2> HIDE DEF done
    <2>2. row'[a] = done /\ \A b \in Apps \ {a} : row'[b] = row[b]
      BY <1>3, <1>8 DEF ClaimInv, TypeOK
    <2>3. BooksFit(row'[a], records'[a], trail'[a], ledger'[a])
      BY <1>1, <1>4, <2>1, <2>2 DEF BooksFit, AllBooks
    <2>4. TalkFits(row'[a], answers'[a], audit'[a])
      BY <1>1, <1>3, <2>1, <2>2 DEF TalkFits
    <2>5. /\ next \in Handler /\ next.app = a /\ next.pc = "audit" /\ next.req = t
          /\ next.receipt = TheReceipt(t)
      BY <1>3, <1>4 DEF Handler, Locations, AppOf
    <2> HIDE DEF next
    <2>6. WorkFits(next, row'[a], records'[a], trail'[a], ledger'[a])
      BY <2>1, <2>2, <2>5 DEF WorkFits, NoBooks
    <2>7. PICK h \in Handler : /\ Become(w, h) /\ h.app = a
                               /\ WorkFits(h, row'[a], records'[a], trail'[a], ledger'[a])
      BY <1>5, <1>8, <2>5, <2>6, SilentFits
    <2>8. QED
      BY <1>1, <1>3, <2>2, <2>3, <2>4, <2>7, BooksStep
  <1>9. QED
    BY <1>6, <1>7, <1>8

LEMMA MarkFailedKeepsBooks ==
    ASSUME ClaimInv, BooksInv, NEW w \in Workers, MarkFailed(w)
    PROVE  BooksInv'
  <1> DEFINE a == AppOf(w)
             failed == [row[a] EXCEPT !.status = "FAILED"]
  <1>1. At(w, "fail") /\ UNCHANGED <<records, trail, audit, ledger, answers>>
    BY DEF MarkFailed
  <1>2. /\ handler[w] \in GoodHandler /\ handler[w] \in Handler /\ handler[w].pc = "fail"
        /\ handler[w].code = "500" /\ a \in Apps /\ row[a] \in Row
    BY <1>1, Busy DEF At, GoodHandler
  <1>3. PICK h : /\ Become(w, h)
                 /\ \/ h = [handler[w] EXCEPT !.pc = "audit"]
                    \/ \E broken \in BOOLEAN :
                         h = [handler[w] EXCEPT !.pc = "audit", !.broken = broken]
    BY BreaksType DEF MarkFailed
  <1>4. h \in Handler /\ h.app = a /\ Silent(h)
    BY <1>2, <1>3 DEF Handler, Locations, AppOf, Silent, Holding
  <1>5. row' = row \/ (~handler[w].broken /\ row' = [row EXCEPT ![a] = failed])
    BY <1>2 DEF MarkFailed, ClaimInv, TypeOK
  <1>6. CASE row' = row
    BY <1>1, <1>2, <1>3, <1>4, <1>6, SilentFits, OnlyMoves
  <1>7. CASE ~handler[w].broken /\ row' = [row EXCEPT ![a] = failed]
    <2>1. Holds(w)
      BY <1>2, <1>7 DEF Holds, Holding
    <2>2. /\ row[a].status = "PROCESSING" /\ row[a].request = handler[w].req
          /\ TalkFits(row[a], answers[a], audit[a])
          /\ \A v \in Workers \ {w} : Holds(v) => AppOf(v) # a
      BY <2>1, HolderFinds
    <2>3. \/ NoBooks(records[a], trail[a], ledger[a])
          \/ AllBooks(handler[w].req, records[a], trail[a], ledger[a])
      BY <1>2, <1>7, <2>1, HolderFinds DEF WorkFits
    <2>4. failed.status = "FAILED" /\ failed.request = handler[w].req
      BY <1>2, <2>2 DEF Row
    <2> HIDE DEF failed
    <2>5. row'[a] = failed /\ \A b \in Apps \ {a} : row'[b] = row[b]
      BY <1>2, <1>7 DEF ClaimInv, TypeOK
    <2>6. BooksFit(row'[a], records'[a], trail'[a], ledger'[a])
      BY <1>1, <2>3, <2>4, <2>5 DEF BooksFit
    <2>7. TalkFits(row'[a], answers'[a], audit'[a])
      BY <1>1, <2>2 DEF TalkFits
    <2>8. QED
      BY <1>1, <1>2, <1>3, <1>4, <2>2, <2>5, <2>6, <2>7, SilentFits, BooksStep
  <1>8. QED
    BY <1>5, <1>6, <1>7

LEMMA SaveAuditKeepsBooks ==
    ASSUME ClaimInv, BooksInv, NEW w \in Workers, SaveAudit(w)
    PROVE  BooksInv'
  <1> DEFINE a == AppOf(w)
             answer == [req |-> handler[w].req, receipt |-> handler[w].receipt]
             line == <<handler[w].status, handler[w].code # "200">>
  <1>1. At(w, "audit") /\ UNCHANGED <<row, records, trail, ledger>> /\ Become(w, Idle)
    BY DEF SaveAudit, Reply
  <1>2. a \in Apps /\ handler[w].pc = "audit"
    BY <1>1, Busy DEF At
  <1>3. /\ BooksFit(row[a], records[a], trail[a], ledger[a])
        /\ TalkFits(row[a], answers[a], audit[a])
        /\ handler[w].code = "200" =>
             /\ row[a].status = "COMPLETED" /\ row[a].request = handler[w].req
             /\ row[a].response = handler[w].receipt
    BY <1>1, <1>2, AtHand DEF At, WorkFits, NoBooks
  <1>4. audit' = audit \/ audit' = [audit EXCEPT ![a] = @ \cup {line}]
    BY DEF SaveAudit
  <1>5. \/ answers' = answers
        \/ handler[w].code = "200" /\ answers' = [answers EXCEPT ![a] = @ \cup {answer}]
    BY DEF SaveAudit, Reply
  <1>6. /\ \A b \in Apps \ {a} : audit'[b] = audit[b] /\ answers'[b] = answers[b]
        /\ audit'[a] = audit[a] \/ audit'[a] = audit[a] \cup {line}
        /\ \/ answers'[a] = answers[a]
           \/ handler[w].code = "200" /\ answers'[a] = answers[a] \cup {answer}
    BY <1>2, <1>4, <1>5 DEF ClaimInv, TypeOK
  <1>7. TalkFits(row[a], answers'[a], audit'[a])
    <2>1. ASSUME NEW told \in answers'[a]
          PROVE  /\ row[a].status = "COMPLETED"
                 /\ told.receipt = row[a].response /\ told.req = row[a].request
      BY <1>3, <1>6, <2>1 DEF TalkFits
    <2>2. ASSUME NEW status \in {"SUCCESS", "IDEMPOTENT_HIT"}, <<status, FALSE>> \in audit'[a]
          PROVE  row[a].status = "COMPLETED"
      <3>1. CASE <<status, FALSE>> \in audit[a]
        BY <1>3, <3>1 DEF TalkFits
      <3>2. CASE <<status, FALSE>> = line
        BY <1>3, <3>2
      <3>3. QED
        BY <1>6, <2>2, <3>1, <3>2
    <2>3. QED
      BY <2>1, <2>2 DEF TalkFits
  <1>8. Idle \in Handler /\ Idle.pc = "idle"
    BY IdleGood DEF GoodHandler, Idle
  <1>9. QED
    BY <1>1, <1>2, <1>3, <1>6, <1>7, <1>8, BooksStep

LEMMA CrashKeepsBooks ==
    ASSUME ClaimInv, BooksInv, NEW w \in Workers, Crash(w)
    PROVE  BooksInv'
  <1>1. Become(w, Idle) /\ UNCHANGED <<row, records, trail, audit, ledger, answers>>
    BY DEF Crash, dbVars
  <1>2. Idle \in Handler /\ Idle.pc = "idle"
    BY IdleGood DEF GoodHandler, Idle
  <1>3. QED
    BY <1>1, <1>2, OnlyMoves

-----------------------------------------------------------------------------
(* BooksInv holds initially and is kept by every step. *)

LEMMA InitBooksInv ==
    ASSUME Init
    PROVE  BooksInv
  <1>1. \A a \in Apps : BooksFit(row[a], records[a], trail[a], ledger[a])
    BY DEF Init, NoRow, BooksFit, NoBooks
  <1>2. \A a \in Apps : TalkFits(row[a], answers[a], audit[a])
    BY DEF Init, TalkFits
  <1>3. \A w \in Workers : At(w, "idle")
    BY DEF Init, Idle, At
  <1>4. QED
    BY <1>1, <1>2, <1>3 DEF BooksInv

LEMMA NextBooksInv ==
    ASSUME ClaimInv, BooksInv, [Next]_vars
    PROVE  BooksInv'
  <1>1. CASE Next
    <2>1. PICK w \in Workers : \/ \E a \in Apps, r \in Requests : Receive(w, a, r)
                              \/ Step(w)
                              \/ Crash(w)
      BY <1>1 DEF Next
    <2>2. CASE \E a \in Apps, r \in Requests : Receive(w, a, r)
      BY <2>2, ReceiveKeepsBooks
    <2>3. CASE Step(w)
      BY <2>3, ReadRowKeepsBooks, CreateRowKeepsBooks, RunGraphKeepsBooks,
         SaveRecordKeepsBooks, SaveTransitionKeepsBooks, MarkCompletedKeepsBooks,
         MarkFailedKeepsBooks, SaveAuditKeepsBooks DEF Step
    <2>4. CASE Crash(w)
      BY <2>4, CrashKeepsBooks
    <2>5. QED
      BY <2>1, <2>2, <2>3, <2>4
  <1>2. CASE UNCHANGED vars
    BY <1>2 DEF vars, dbVars, BooksInv, At, AppOf
  <1>3. QED
    BY <1>1, <1>2

(* Whatever fails and however calls interleave, the books of every         *)
(* application fit its row and the place of the worker that executes it.   *)
THEOREM BooksInvariant == Spec => []BooksInv
  <1>1. Init => BooksInv
    BY InitBooksInv
  <1>2. ClaimInv /\ BooksInv /\ [Next]_vars => BooksInv'
    BY NextBooksInv
  <1>3. QED
    BY <1>1, <1>2, ClaimInvariant, PTL DEF Spec

(* A COMPLETED row is backed by one record, the whole history and exactly  *)
(* the transfer its receipt claims; a FAILED one by all of that or by      *)
(* nothing at all.                                                         *)
THEOREM SettledBacked == Spec => []SettledIsBacked
  <1>1. ASSUME BooksInv, NEW a \in Apps
        PROVE  /\ Completed(a) => LeavesAll(a) /\ records[a][1] = row[a].response
               /\ row[a].status = "FAILED" =>
                    \/ LeavesNothing(a)
                    \/ LeavesAll(a) /\ records[a][1].terms = row[a].request
    <2> DEFINE r == row[a].request
    <2>1. BooksFit(row[a], records[a], trail[a], ledger[a])
      BY <1>1 DEF BooksInv
    <2>2. AllBooks(r, records[a], trail[a], ledger[a]) =>
            LeavesAll(a) /\ records[a][1] = TheReceipt(r)
      <3>1. Len(<<TheReceipt(r)>>) = 1 /\ <<TheReceipt(r)>>[1] = TheReceipt(r)
        OBVIOUS
      <3>2. QED
        BY <3>1, TheReceiptSays, Zenon DEF AllBooks, LeavesAll, TheHistory
    <2>3. NoBooks(records[a], trail[a], ledger[a]) => LeavesNothing(a)
      BY DEF NoBooks, LeavesNothing
    <2>4. TheReceipt(r).terms = r
      BY TheReceiptSays
    <2>5. ASSUME Completed(a) PROVE LeavesAll(a) /\ records[a][1] = row[a].response
      BY <2>1, <2>2, <2>5 DEF BooksFit, Completed
    <2>6. ASSUME row[a].status = "FAILED"
          PROVE  \/ LeavesNothing(a)
                 \/ LeavesAll(a) /\ records[a][1].terms = r
      <3>1. \/ NoBooks(records[a], trail[a], ledger[a])
            \/ AllBooks(r, records[a], trail[a], ledger[a])
        BY <2>1, <2>6 DEF BooksFit
      <3>2. QED
        BY <2>2, <2>3, <2>4, <3>1
    <2>7. QED
      BY <2>5, <2>6
  <1>2. BooksInv => SettledIsBacked
    BY <1>1 DEF SettledIsBacked
  <1>3. QED
    BY <1>2, BooksInvariant, PTL

(* Money that moved belongs to a claim of the same terms, and if that      *)
(* claim is FAILED the record of the payment is stored.                    *)
THEOREM MoneyClaimed == Spec => []MoneyIsClaimed
  <1>1. ASSUME ClaimInv, BooksInv, NEW a \in Apps, ledger[a] # <<>>
        PROVE  /\ row[a].status # "NONE"
               /\ row[a].request = ledger[a][1]
               /\ row[a].status = "FAILED" => records[a] # <<>>
    <2>1. row[a].status # "NONE" /\ row[a].request = ledger[a][1]
      BY <1>1 DEF ClaimInv, MoneyHasClaim
    <2>2. ASSUME row[a].status = "FAILED" PROVE records[a] # <<>>
      <3>1. AllBooks(row[a].request, records[a], trail[a], ledger[a])
        BY <1>1, <2>2 DEF BooksInv, BooksFit, NoBooks
      <3>2. QED
        BY <3>1 DEF AllBooks
    <2>3. QED
      BY <2>1, <2>2
  <1>2. ClaimInv /\ BooksInv => MoneyIsClaimed
    BY <1>1 DEF MoneyIsClaimed
  <1>3. QED
    BY <1>2, ClaimInvariant, BooksInvariant, PTL

(* Every caller that is told 200 gets the one receipt the row keeps, and   *)
(* had sent the terms that receipt is about.                               *)
THEOREM AnswersAreTheRows == Spec => []AnswersAgree
  <1>1. BooksInv => AnswersAgree
    BY TheReceiptSays DEF BooksInv, BooksFit, TalkFits, AnswersAgree, Completed
  <1>2. QED
    BY <1>1, BooksInvariant, PTL

(* The transition log never runs ahead of the record, nor the record of    *)
(* the gateway.                                                            *)
THEOREM BooksOrdered == Spec => []BooksAreInOrder
  <1>1. ASSUME ClaimInv, BooksInv, NEW a \in Apps
        PROVE  /\ Len(records[a]) <= 1
               /\ trail[a] # <<>> =>
                    records[a] # <<>> /\ FirstPart(trail[a], TheHistory(row[a].request))
               /\ records[a] # <<>> => records[a][1].txn = Len(ledger[a])
    <2> DEFINE r == row[a].request
    <2>1. /\ Len(<<TheReceipt(r)>>) = 1 /\ Len(<<>>) = 0
          /\ <<TheReceipt(r)>>[1] = TheReceipt(r) /\ <<TheReceipt(r)>> # <<>>
      OBVIOUS
    <2>2. FirstPart(trail[a], trail[a])
      BY <1>1, SubSeqFull, LenProperties DEF FirstPart, ClaimInv, TypeOK
    <2>3. \/ records[a] = <<>> /\ trail[a] = <<>>
          \/ /\ records[a] = <<TheReceipt(r)>> /\ ledger[a] = TheTransfer(r)
             /\ FirstPart(trail[a], TheHistory(r))
      BY <1>1, <2>2 DEF BooksInv, BooksFit, NoBooks, AllBooks
    <2>4. TheReceipt(r).txn = Len(TheTransfer(r))
      BY TheReceiptSays
    <2>5. CASE records[a] = <<>> /\ trail[a] = <<>>
      BY <2>5
    <2>6. CASE /\ records[a] = <<TheReceipt(r)>> /\ ledger[a] = TheTransfer(r)
               /\ FirstPart(trail[a], TheHistory(r))
      <3>1. Len(records[a]) <= 1
        BY <2>6
      <3>2. records[a] # <<>> /\ records[a][1].txn = Len(ledger[a])
        BY <2>1, <2>4, <2>6, Zenon
      <3>3. QED
        BY <2>6, <3>1, <3>2
    <2>7. QED
      BY <2>3, <2>5, <2>6
  <1>2. ClaimInv /\ BooksInv => BooksAreInOrder
    BY <1>1 DEF BooksAreInOrder, FirstPart, TheHistory
  <1>3. QED
    BY <1>2, ClaimInvariant, BooksInvariant, PTL

(* An audit line that reports success without an error is about a run      *)
(* whose result is stored.                                                 *)
THEOREM AuditHonest == Spec => []AuditIsHonest
  <1>1. BooksInv => AuditIsHonest
    BY DEF BooksInv, TalkFits, AuditIsHonest, Completed
  <1>2. QED
    BY <1>1, BooksInvariant, PTL

-----------------------------------------------------------------------------
(* A row that is settled is never written again, and no write changes the  *)
(* terms that claimed it. *)

LEMMA StepSettlesOnce ==
    ASSUME ClaimInv, [Next]_vars, NEW a \in Apps, row[a].status # "NONE"
    PROVE  /\ row'[a].request = row[a].request
           /\ row[a].status \in {"COMPLETED", "FAILED"} => row'[a] = row[a]
  <1>1. row \in [Apps -> Row]
    BY DEF ClaimInv, TypeOK
  <1>2. ASSUME NEW w \in Workers, CreateRow(w)
        PROVE  row'[a] = row[a]
    BY <1>1, <1>2 DEF CreateRow
  <1>3. ASSUME NEW w \in Workers, MarkCompleted(w) \/ MarkFailed(w), row'[a] # row[a]
        PROVE  row[a].status = "PROCESSING" /\ row'[a].request = row[a].request
    <2>1. Holds(w) /\ AppOf(w) = a
      BY <1>1, <1>3 DEF MarkCompleted, MarkFailed, At, Holds, Holding
    <2>2. row[a].status = "PROCESSING"
      BY <2>1 DEF ClaimInv, HolderHasClaim
    <2>3. row'[a].request = row[a].request
      <3> DEFINE done == [row[a] EXCEPT !.status = "COMPLETED", !.response = handler[w].receipt]
                 failed == [row[a] EXCEPT !.status = "FAILED"]
      <3>1. row' = [row EXCEPT ![a] = done] \/ row' = [row EXCEPT ![a] = failed]
        BY <1>1, <1>3, <2>1 DEF MarkCompleted, MarkFailed
      <3>2. done.request = row[a].request /\ failed.request = row[a].request
        BY <1>1 DEF Row
      <3> HIDE DEF done, failed
      <3>3. QED
        BY <1>1, <3>1, <3>2
    <2>4. QED
      BY <2>2, <2>3
  <1>4. ASSUME NEW w \in Workers, Step(w)
        PROVE  \/ UNCHANGED row
               \/ CreateRow(w) \/ MarkCompleted(w) \/ MarkFailed(w)
    BY <1>4 DEF Step, ReadRow, RunGraph, SaveRecord, SaveTransition, SaveAudit, dbVars
  <1>5. \/ UNCHANGED row
        \/ \E w \in Workers : CreateRow(w) \/ MarkCompleted(w) \/ MarkFailed(w)
    BY <1>4 DEF Next, Receive, Crash, vars, dbVars
  <1>6. QED
    BY <1>2, <1>3, <1>5

(* A row is claimed, then settled, for good, by the terms that claimed it. *)
THEOREM SettledForGood == Spec => RowIsSettledOnce
  <1>1. ClaimInv /\ [Next]_vars =>
          [\A a \in Apps : row[a].status # "NONE" =>
              /\ row'[a].request = row[a].request
              /\ row[a].status \in {"COMPLETED", "FAILED"} => row'[a] = row[a]]_row
    BY StepSettlesOnce
  <1>2. QED
    BY <1>1, ClaimInvariant, PTL DEF Spec, RowIsSettledOnce

-----------------------------------------------------------------------------
(* The agent implements PayoutContract: what each step does to the phase   *)
(* of its application. *)

LEMMA ContractReceipt ==
    ASSUME NEW r
    PROVE  Contract!TheReceipt(r) = TheReceipt(r)
  BY DEF Contract!TheReceipt, Contract!BuildReceipt, Contract!FinalState,
         Contract!ValidTerms, Contract!MissingFields, Contract!InitialState,
         Contract!Installments, Contract!GatewayAnswer, Contract!TransferOutcome,
         Contract!HasTransaction, TheReceipt, BuildReceipt, FinalState, ValidTerms,
         MissingFields, InitialState, Installments, GatewayAnswer, TransferOutcome,
         HasTransaction

LEMMA ContractMoney ==
    ASSUME NEW r
    PROVE  Contract!MovesMoney(r) <=> MovesMoney(r)
  BY DEF Contract!MovesMoney, Contract!ValidTerms, Contract!MissingFields,
         Contract!GatewayAnswer, MovesMoney, ValidTerms, MissingFields, GatewayAnswer

LEMMA InitContract ==
    ASSUME Init
    PROVE  Contract!Init
  BY DEF Init, Contract!Init, NoRow, Phase, PhaseOf, Claimed

(* The phases change by a pointwise change at one application.             *)
LEMMA PhaseMoves ==
    ASSUME NEW a \in Apps, NEW p,
           PhaseOf(a)' = p, \A b \in Apps \ {a} : PhaseOf(b)' = PhaseOf(b)
    PROVE  Phase' = [Phase EXCEPT ![a] = p]
  BY DEF Phase

LEMMA ContractClaim ==
    ASSUME NEW a \in Apps, NEW r, PhaseOf(a) = "open",
           Phase' = [Phase EXCEPT ![a] = "claimed"],
           Claimed' = [Claimed EXCEPT ![a] = r], UNCHANGED answers
    PROVE  Contract!Claim(a, r)
  <1>1. Phase[a] = "open"
    BY DEF Phase
  <1>2. QED
    BY <1>1 DEF Contract!Claim

LEMMA ContractPay ==
    ASSUME NEW a \in Apps, PhaseOf(a) = "claimed", MovesMoney(row[a].request),
           Phase' = [Phase EXCEPT ![a] = "paid"], UNCHANGED <<Claimed, answers>>
    PROVE  Contract!Pay(a)
  <1>1. Phase[a] = "claimed" /\ Contract!MovesMoney(Claimed[a])
    BY ContractMoney DEF Phase, Claimed
  <1>2. QED
    BY <1>1 DEF Contract!Pay

LEMMA ContractSettle ==
    ASSUME NEW a \in Apps,
           PhaseOf(a) = "paid" \/ (PhaseOf(a) = "claimed" /\ ~MovesMoney(row[a].request)),
           Phase' = [Phase EXCEPT ![a] = "settled"], UNCHANGED <<Claimed, answers>>
    PROVE  Contract!Settle(a)
  <1>1. Phase[a] = "paid" \/ (Phase[a] = "claimed" /\ ~Contract!MovesMoney(Claimed[a]))
    BY ContractMoney DEF Phase, Claimed
  <1>2. QED
    BY <1>1 DEF Contract!Settle

LEMMA ContractVoid ==
    ASSUME NEW a \in Apps, PhaseOf(a) = "claimed",
           Phase' = [Phase EXCEPT ![a] = "void"], UNCHANGED <<Claimed, answers>>
    PROVE  Contract!Void(a)
  <1>1. Phase[a] = "claimed"
    BY DEF Phase
  <1>2. QED
    BY <1>1 DEF Contract!Void

LEMMA ContractDisown ==
    ASSUME NEW a \in Apps, PhaseOf(a) = "paid",
           Phase' = [Phase EXCEPT ![a] = "disowned"], UNCHANGED <<Claimed, answers>>
    PROVE  Contract!Disown(a)
  <1>1. Phase[a] = "paid"
    BY DEF Phase
  <1>2. QED
    BY <1>1 DEF Contract!Disown

LEMMA ContractTell ==
    ASSUME NEW a \in Apps, PhaseOf(a) = "settled",
           answers' = [answers EXCEPT ![a] = @ \cup
               {[req |-> row[a].request, receipt |-> TheReceipt(row[a].request)]}],
           UNCHANGED <<Phase, Claimed>>
    PROVE  Contract!Tell(a)
  <1>1. Phase[a] = "settled" /\ Claimed[a] = row[a].request
    BY DEF Phase, Claimed
  <1>2. Contract!TheReceipt(Claimed[a]) = TheReceipt(row[a].request)
    BY <1>1, ContractReceipt
  <1>3. answers' = [answers EXCEPT ![a] = @ \cup
            {[req |-> Claimed[a], receipt |-> Contract!TheReceipt(Claimed[a])]}]
    BY <1>1, <1>2
  <1>4. QED
    BY <1>1, <1>3 DEF Contract!Tell

LEMMA ContractStutter ==
    ASSUME UNCHANGED <<Phase, Claimed, answers>>
    PROVE  UNCHANGED Contract!vars
  BY DEF Contract!vars

LEMMA CreateRowIsClaim ==
    ASSUME ClaimInv, NEW w \in Workers, CreateRow(w), row' # row
    PROVE  \E a \in Apps : \E r \in Requests : Contract!Claim(a, r)
  <1>0. PICK a \in Apps : a = AppOf(w)
    BY Busy DEF CreateRow, At
  <1> DEFINE created == [status |-> "PROCESSING", request |-> handler[w].req,
                         response |-> None]
  <1>1. At(w, "create") /\ UNCHANGED <<ledger, answers>>
    BY DEF CreateRow
  <1>2. a \in Apps /\ handler[w].req \in Requests
    BY <1>0, <1>1, Busy DEF At
  <1>3. row[a].status = "NONE" /\ row' = [row EXCEPT ![a] = created]
    BY <1>0 DEF CreateRow
  <1>4. created.status = "PROCESSING" /\ created.request = handler[w].req
    OBVIOUS
  <1> HIDE DEF created
  <1>5. \A b \in Apps : row'[b] = IF b = a THEN created ELSE row[b]
    BY <1>2, <1>3 DEF ClaimInv, TypeOK
  <1>6. ledger[a] = <<>>
    BY <1>2, <1>3 DEF ClaimInv, MoneyHasClaim
  <1>7. PhaseOf(a) = "open" /\ PhaseOf(a)' = "claimed"
    BY <1>1, <1>2, <1>3, <1>4, <1>5, <1>6 DEF PhaseOf
  <1>8. \A b \in Apps \ {a} : PhaseOf(b)' = PhaseOf(b)
    BY <1>1, <1>5 DEF PhaseOf
  <1>9. Phase' = [Phase EXCEPT ![a] = "claimed"]
    BY <1>2, <1>7, <1>8, PhaseMoves
  <1>10. Claimed' = [Claimed EXCEPT ![a] = handler[w].req]
    BY <1>2, <1>4, <1>5 DEF Claimed
  <1>11. QED
    BY <1>1, <1>2, <1>7, <1>9, <1>10, ContractClaim

LEMMA RunGraphIsPay ==
    ASSUME ClaimInv, BooksInv, NEW w \in Workers, RunGraph(w), ledger' # ledger
    PROVE  \E a \in Apps : Contract!Pay(a)
  <1>0. PICK a \in Apps : a = AppOf(w)
    BY Busy DEF RunGraph, At
  <1> DEFINE t == handler[w].req
  <1>1. At(w, "run") /\ UNCHANGED <<row, answers>>
    BY DEF RunGraph, dbVars
  <1>2. Holds(w) /\ handler[w].pc = "run"
    BY <1>1 DEF At, Holds, Holding
  <1>3. /\ a \in Apps /\ row[a].status = "PROCESSING" /\ row[a].request = t
        /\ ledger[a] = <<>>
    BY <1>0, <1>2, HolderFinds DEF WorkFits, NoBooks
  <1>4. MovesMoney(t) /\ ledger' = [ledger EXCEPT ![a] = Append(@, t)]
    BY <1>0 DEF RunGraph
  <1>5. Append(<<>>, t) # <<>>
    OBVIOUS
  <1>6. ledger'[a] # <<>> /\ \A b \in Apps \ {a} : ledger'[b] = ledger[b]
    BY <1>3, <1>4, <1>5 DEF ClaimInv, TypeOK
  <1>7. PhaseOf(a) = "claimed" /\ PhaseOf(a)' = "paid"
    BY <1>1, <1>3, <1>6 DEF PhaseOf
  <1>8. \A b \in Apps \ {a} : PhaseOf(b)' = PhaseOf(b)
    BY <1>1, <1>6 DEF PhaseOf
  <1>9. Phase' = [Phase EXCEPT ![a] = "paid"] /\ UNCHANGED <<Claimed, answers>>
    BY <1>1, <1>3, <1>7, <1>8, PhaseMoves DEF Claimed
  <1>10. QED
    BY <1>3, <1>4, <1>7, <1>9, ContractPay

LEMMA MarkCompletedIsSettle ==
    ASSUME ClaimInv, BooksInv, NEW w \in Workers, MarkCompleted(w), row' # row
    PROVE  \E a \in Apps : Contract!Settle(a)
  <1>0. PICK a \in Apps : a = AppOf(w)
    BY Busy DEF MarkCompleted, At
  <1> DEFINE t == handler[w].req
             done == [row[a] EXCEPT !.status = "COMPLETED", !.response = handler[w].receipt]
  <1>1. At(w, "complete") /\ UNCHANGED <<ledger, answers>>
    BY DEF MarkCompleted
  <1>2. Holds(w) /\ handler[w].pc = "complete"
    BY <1>1 DEF At, Holds, Holding
  <1>3. /\ a \in Apps /\ row[a] \in Row /\ row[a].status = "PROCESSING"
        /\ row[a].request = t /\ ledger[a] = TheTransfer(t)
    BY <1>0, <1>2, HolderFinds DEF WorkFits, NoBooks
  <1>4. row' = [row EXCEPT ![a] = done]
    BY <1>0, <1>3 DEF MarkCompleted, ClaimInv, TypeOK
  <1>5. done.status = "COMPLETED" /\ done.request = t
    BY <1>3 DEF Row
  <1> HIDE DEF done
  <1>6. \A b \in Apps : row'[b] = IF b = a THEN done ELSE row[b]
    BY <1>3, <1>4 DEF ClaimInv, TypeOK
  <1>7. <<t>> # <<>>
    OBVIOUS
  <1>8. PhaseOf(a) = IF MovesMoney(t) THEN "paid" ELSE "claimed"
    BY <1>3, <1>7 DEF PhaseOf, TheTransfer
  <1>9. PhaseOf(a)' = "settled"
    BY <1>3, <1>5, <1>6 DEF PhaseOf
  <1>10. \A b \in Apps \ {a} : PhaseOf(b)' = PhaseOf(b)
    BY <1>1, <1>6 DEF PhaseOf
  <1>11. Phase' = [Phase EXCEPT ![a] = "settled"]
    BY <1>3, <1>9, <1>10, PhaseMoves
  <1>12. UNCHANGED Claimed
    BY <1>3, <1>5, <1>6 DEF Claimed
  <1>13. QED
    BY <1>1, <1>3, <1>8, <1>11, <1>12, ContractSettle

LEMMA MarkFailedEnds ==
    ASSUME ClaimInv, BooksInv, NEW w \in Workers, MarkFailed(w), row' # row
    PROVE  \E a \in Apps : Contract!Void(a) \/ Contract!Disown(a)
  <1>0. PICK a \in Apps : a = AppOf(w)
    BY Busy DEF MarkFailed, At
  <1> DEFINE failed == [row[a] EXCEPT !.status = "FAILED"]
  <1>1. At(w, "fail") /\ UNCHANGED <<ledger, answers>> /\ ~handler[w].broken
    BY DEF MarkFailed
  <1>2. Holds(w) /\ handler[w].pc = "fail"
    BY <1>1 DEF At, Holds, Holding
  <1>3. a \in Apps /\ row[a] \in Row /\ row[a].status = "PROCESSING"
    BY <1>0, <1>2, HolderFinds
  <1>4. row' = [row EXCEPT ![a] = failed]
    BY <1>0, <1>3 DEF MarkFailed, ClaimInv, TypeOK
  <1>5. failed.status = "FAILED" /\ failed.request = row[a].request
    BY <1>3 DEF Row
  <1> HIDE DEF failed
  <1>6. \A b \in Apps : row'[b] = IF b = a THEN failed ELSE row[b]
    BY <1>3, <1>4 DEF ClaimInv, TypeOK
  <1>7. \A b \in Apps \ {a} : PhaseOf(b)' = PhaseOf(b)
    BY <1>1, <1>6 DEF PhaseOf
  <1>8. UNCHANGED Claimed
    BY <1>3, <1>5, <1>6 DEF Claimed
  <1>9. CASE ledger[a] = <<>>
    <2>1. PhaseOf(a) = "claimed" /\ PhaseOf(a)' = "void"
      BY <1>1, <1>3, <1>5, <1>6, <1>9 DEF PhaseOf
    <2>2. Phase' = [Phase EXCEPT ![a] = "void"]
      BY <1>3, <1>7, <2>1, PhaseMoves
    <2>3. QED
      BY <1>1, <1>3, <1>8, <2>1, <2>2, ContractVoid
  <1>10. CASE ledger[a] # <<>>
    <2>1. PhaseOf(a) = "paid" /\ PhaseOf(a)' = "disowned"
      BY <1>1, <1>3, <1>5, <1>6, <1>10 DEF PhaseOf
    <2>2. Phase' = [Phase EXCEPT ![a] = "disowned"]
      BY <1>3, <1>7, <2>1, PhaseMoves
    <2>3. QED
      BY <1>1, <1>3, <1>8, <2>1, <2>2, ContractDisown
  <1>11. QED
    BY <1>9, <1>10

LEMMA SaveAuditIsTell ==
    ASSUME ClaimInv, BooksInv, NEW w \in Workers, SaveAudit(w), answers' # answers
    PROVE  \E a \in Apps : Contract!Tell(a)
  <1>0. PICK a \in Apps : a = AppOf(w)
    BY Busy DEF SaveAudit, At
  <1>1. At(w, "audit") /\ UNCHANGED <<row, ledger>>
    BY DEF SaveAudit
  <1>2. a \in Apps /\ handler[w].pc = "audit"
    BY <1>0, <1>1, Busy DEF At
  <1>3. /\ handler[w].code = "200"
        /\ answers' = [answers EXCEPT ![a] = @ \cup
                {[req |-> handler[w].req, receipt |-> handler[w].receipt]}]
    BY <1>0 DEF SaveAudit, Reply
  <1>4. /\ row[a].status = "COMPLETED" /\ row[a].request = handler[w].req
        /\ handler[w].receipt = TheReceipt(row[a].request)
    BY <1>0, <1>1, <1>2, <1>3, AtHand DEF At, WorkFits, BooksFit, AllBooks
  <1>5. PhaseOf(a) = "settled"
    BY <1>4 DEF PhaseOf
  <1>6. UNCHANGED <<Phase, Claimed>>
    BY <1>1 DEF Phase, PhaseOf, Claimed
  <1>7. QED
    BY <1>2, <1>3, <1>4, <1>5, <1>6, ContractTell

LEMMA StepKeepsContract ==
    ASSUME ClaimInv, BooksInv, [Next]_vars
    PROVE  [Contract!Next]_(Contract!vars)
  <1>1. CASE UNCHANGED <<row, ledger, answers>>
    <2>1. UNCHANGED <<Phase, Claimed, answers>>
      BY <1>1 DEF Phase, PhaseOf, Claimed
    <2>2. QED
      BY <2>1, ContractStutter
  <1>2. CASE ~UNCHANGED <<row, ledger, answers>>
    <2>1. PICK w \in Workers :
              \/ CreateRow(w) /\ row' # row
              \/ RunGraph(w) /\ ledger' # ledger
              \/ MarkCompleted(w) /\ row' # row
              \/ MarkFailed(w) /\ row' # row
              \/ SaveAudit(w) /\ answers' # answers
      <3>1. ASSUME NEW w \in Workers
            PROVE  /\ \A a \in Apps, r \in Requests :
                         Receive(w, a, r) => UNCHANGED <<row, ledger, answers>>
                   /\ ReadRow(w) \/ Crash(w) \/ SaveRecord(w) \/ SaveTransition(w)
                         => UNCHANGED <<row, ledger, answers>>
                   /\ CreateRow(w) \/ MarkCompleted(w) \/ MarkFailed(w)
                         => UNCHANGED <<ledger, answers>>
                   /\ RunGraph(w) => UNCHANGED <<row, answers>>
                   /\ SaveAudit(w) => UNCHANGED <<row, ledger>>
        BY DEF Receive, ReadRow, Crash, SaveRecord, SaveTransition, CreateRow,
               MarkCompleted, MarkFailed, RunGraph, SaveAudit, dbVars
      <3>2. Next
        BY <1>2 DEF vars, dbVars
      <3>3. QED
        BY <1>2, <3>1, <3>2 DEF Next, Step
    <2>2. Contract!Next
      BY <2>1, CreateRowIsClaim, RunGraphIsPay, MarkCompletedIsSettle, MarkFailedEnds,
         SaveAuditIsTell DEF Contract!Next
    <2>3. QED
      BY <2>2
  <1>3. QED
    BY <1>1, <1>2

(* The agent, with all its workers, faults and crashes, is an              *)
(* implementation of the payout contract: one claim, at most one payment,  *)
(* of the claimed terms, and one receipt for whoever is told; a payout     *)
(* whose completion could not be written may be left open, or disowned.    *)
THEOREM Implements == Spec => ContractKept
  <1>1. Init => Contract!Init
    BY InitContract
  <1>2. ClaimInv /\ BooksInv /\ [Next]_vars => [Contract!Next]_(Contract!vars)
    BY StepKeepsContract
  <1>3. QED
    BY <1>1, <1>2, ClaimInvariant, BooksInvariant, PTL
       DEF Spec, ContractKept, Contract!Spec
=============================================================================
