------------------------------ MODULE GraphProofs ------------------------------
(***************************************************************************)
(* Proofs about DisbursementGraph, for any terms, settlement limit and     *)
(* longest tenure: node by node the graph computes what DisbursementFlow   *)
(* says of it in one step.  The second half is about the schedule that the *)
(* graph's second node makes, for any loan.                                *)
(***************************************************************************)
EXTENDS DisbursementGraph, Amortization, SequenceTheorems, WellFoundedInduction, TLAPS

-----------------------------------------------------------------------------
(* What the operators of DisbursementFlow return. *)

LEMMA FinalStateType ==
    ASSUME NEW t \in Terms
    PROVE  /\ FinalState(t) \in FlowState
           /\ FinalState(t).disbursement_status \in FinalStatuses
  <1>1. GatewayAnswer(t) \in {"SUCCESS", "PENDING", "FAILED"}
    BY DEF GatewayAnswer
  <1>2. TransferOutcome(GatewayAnswer(t)) \in FinalStatuses
    BY <1>1 DEF TransferOutcome, FinalStatuses
  <1>3. Installments(t) \in Nat
    BY DEF Installments, Terms
  <1>4. CASE ValidTerms(t)
    BY <1>1, <1>2, <1>3, <1>4 DEF FinalState, FlowState, Statuses, TransferStatuses
  <1>5. CASE ~ValidTerms(t)
    BY <1>5 DEF FinalState, FlowState, InitialState, Statuses, FinalStatuses, TransferStatuses
  <1>6. QED
    BY <1>4, <1>5

LEMMA ReceiptType ==
    ASSUME NEW t \in Terms, NEW n \in Nat
    PROVE  BuildReceipt(t, FinalState(t), n) \in Receipt
  BY FinalStateType DEF BuildReceipt, Receipt, FlowState

LEMMA TransactionIffMoney ==
    ASSUME NEW r
    PROVE  HasTransaction(FinalState(r)) <=> MovesMoney(r)
  <1>1. GatewayAnswer(r) \in {"SUCCESS", "PENDING", "FAILED"}
    BY DEF GatewayAnswer
  <1>2. QED
    BY <1>1 DEF HasTransaction, FinalState, InitialState, MovesMoney

-----------------------------------------------------------------------------
(* What the derived history is, spelled out. *)

Declined == <<Move("NONE", "PENDING"), Move("PENDING", "FAILED")>>
Refused == <<Move("NONE", "PENDING"), Move("PENDING", "VALIDATED"),
             Move("VALIDATED", "SCHEDULED"), Move("SCHEDULED", "FAILED")>>
Unplanned == <<Move("NONE", "PENDING"), Move("PENDING", "VALIDATED"), Move("VALIDATED", "FAILED")>>
Skipped(status) ==
    <<Move("NONE", "PENDING"), Move("PENDING", "VALIDATED"),
      Move("SCHEDULED", "TRANSFER_INITIATED"), Move("TRANSFER_INITIATED", status)>>
Transferred(status) ==
    <<Move("NONE", "PENDING"), Move("PENDING", "VALIDATED"), Move("VALIDATED", "SCHEDULED"),
      Move("SCHEDULED", "TRANSFER_INITIATED"), Move("TRANSFER_INITIATED", status)>>

LEMMA JoinMoves ==
    /\ \A a, b : <<a>> \o <<b>> = <<a, b>>
    /\ \A a, b, c : <<a, b>> \o <<c>> = <<a, b, c>>
    /\ \A a, b, c, d : <<a, b, c>> \o <<d>> = <<a, b, c, d>>
    /\ \A a, b, c, d, e : <<a, b, c, d>> \o <<e>> = <<a, b, c, d, e>>
  <1>1. ASSUME NEW S, NEW s \in Seq(S), NEW e \in S, NEW t \in Seq(S),
               Len(t) = Len(s) + 1, \A i \in 1..Len(s) : t[i] = s[i], t[Len(t)] = e
        PROVE  s \o <<e>> = t
    <2>1. Append(s, e) = s \o <<e>>
      BY AppendIsConcat
    <2>2. /\ Append(s, e) \in Seq(S) /\ Len(Append(s, e)) = Len(s) + 1
          /\ \A i \in 1..Len(s) : Append(s, e)[i] = s[i]
          /\ Append(s, e)[Len(s) + 1] = e
      BY AppendProperties
    <2>3. \A i \in 1..Len(t) : Append(s, e)[i] = t[i]
      BY <1>1, <2>2, LenProperties
    <2>4. QED
      BY <1>1, <2>1, <2>2, <2>3, SeqEqual
  <1>2. ASSUME NEW a, NEW b
        PROVE  <<a>> \o <<b>> = <<a, b>>
    <2>1. <<a>> \in Seq({a, b}) /\ <<a, b>> \in Seq({a, b})
      OBVIOUS
    <2>2. Len(<<a, b>>) = Len(<<a>>) + 1 /\ \A i \in 1..Len(<<a>>) : <<a, b>>[i] = <<a>>[i]
      OBVIOUS
    <2>3. <<a, b>>[Len(<<a, b>>)] = b
      OBVIOUS
    <2>4. QED
      BY <1>1, <2>1, <2>2, <2>3
  <1>3. ASSUME NEW a, NEW b, NEW c
        PROVE  <<a, b>> \o <<c>> = <<a, b, c>>
    <2>1. <<a, b>> \in Seq({a, b, c}) /\ <<a, b, c>> \in Seq({a, b, c})
      OBVIOUS
    <2>2. Len(<<a, b, c>>) = Len(<<a, b>>) + 1 /\ \A i \in 1..Len(<<a, b>>) : <<a, b, c>>[i] = <<a, b>>[i]
      OBVIOUS
    <2>3. <<a, b, c>>[Len(<<a, b, c>>)] = c
      OBVIOUS
    <2>4. QED
      BY <1>1, <2>1, <2>2, <2>3
  <1>4. ASSUME NEW a, NEW b, NEW c, NEW d
        PROVE  <<a, b, c>> \o <<d>> = <<a, b, c, d>>
    <2>1. <<a, b, c>> \in Seq({a, b, c, d}) /\ <<a, b, c, d>> \in Seq({a, b, c, d})
      OBVIOUS
    <2>2. Len(<<a, b, c, d>>) = Len(<<a, b, c>>) + 1 /\ \A i \in 1..Len(<<a, b, c>>) : <<a, b, c, d>>[i] = <<a, b, c>>[i]
      OBVIOUS
    <2>3. <<a, b, c, d>>[Len(<<a, b, c, d>>)] = d
      OBVIOUS
    <2>4. QED
      BY <1>1, <2>1, <2>2, <2>3
  <1>5. ASSUME NEW a, NEW b, NEW c, NEW d, NEW e
        PROVE  <<a, b, c, d>> \o <<e>> = <<a, b, c, d, e>>
    <2>1. <<a, b, c, d>> \in Seq({a, b, c, d, e}) /\ <<a, b, c, d, e>> \in Seq({a, b, c, d, e})
      OBVIOUS
    <2>2. Len(<<a, b, c, d, e>>) = Len(<<a, b, c, d>>) + 1 /\ \A i \in 1..Len(<<a, b, c, d>>) : <<a, b, c, d, e>>[i] = <<a, b, c, d>>[i]
      OBVIOUS
    <2>3. <<a, b, c, d, e>>[Len(<<a, b, c, d, e>>)] = e
      OBVIOUS
    <2>4. QED
      BY <1>1, <2>1, <2>2, <2>3
  <1>6. QED
    BY <1>2, <1>3, <1>4, <1>5

LEMMA JoinNone ==
    /\ \A a : <<a>> \o <<>> = <<a>>
    /\ \A a, b : <<a, b>> \o <<>> = <<a, b>>
    /\ \A a, b, c : <<a, b, c>> \o <<>> = <<a, b, c>>
  OBVIOUS

LEMMA DeclinedHistory ==
    ASSUME NEW t \in Terms, ~ValidTerms(t)
    PROVE  TransitionHistory(FinalState(t)) = Declined
  <1> DEFINE s == FinalState(t)
  <1>1. ~s.validation_passed /\ s.disbursement_status = "FAILED"
    BY DEF FinalState, InitialState
  <1>2. ProgressMoves(s) = <<Move("NONE", "PENDING")>>
    BY <1>1, JoinNone DEF ProgressMoves, MovesIf
  <1>3. <<Move("NONE", "PENDING")>>[Len(<<Move("NONE", "PENDING")>>)].to = "PENDING"
    BY DEF Move
  <1>4. QED
    BY <1>1, <1>2, <1>3, JoinMoves DEF TransitionHistory, MovesIf, FinalStatuses, Declined

LEMMA ValidHistory ==
    ASSUME NEW t \in Terms, ValidTerms(t), t.approved_tenure_months >= 0
    PROVE  TransitionHistory(FinalState(t)) =
               IF MovesMoney(t) THEN Transferred(FinalState(t).disbursement_status) ELSE Refused
  <1> DEFINE s == FinalState(t)
  <1>1. t.approved_tenure_months # 0
    BY DEF ValidTerms, MissingFields
  <1>2. s.validation_passed /\ s.installments > 0
    BY <1>1 DEF FinalState, Installments, Terms
  <1>3. HasTransaction(s) <=> MovesMoney(t)
    BY TransactionIffMoney
  <1>4. s.disbursement_status \in FinalStatuses
    BY FinalStateType
  <1> DEFINE planned == <<Move("NONE", "PENDING"), Move("PENDING", "VALIDATED"),
                          Move("VALIDATED", "SCHEDULED")>>
             begun == <<Move("NONE", "PENDING"), Move("PENDING", "VALIDATED"),
                        Move("VALIDATED", "SCHEDULED"), Move("SCHEDULED", "TRANSFER_INITIATED")>>
  <1>5. CASE MovesMoney(t)
    <2>1. ProgressMoves(s) = <<Move("NONE", "PENDING")>> \o <<Move("PENDING", "VALIDATED")>>
                                 \o <<Move("VALIDATED", "SCHEDULED")>>
                                 \o <<Move("SCHEDULED", "TRANSFER_INITIATED")>>
      BY <1>2, <1>3, <1>5 DEF ProgressMoves, MovesIf
    <2>2. ProgressMoves(s) = begun
      <3>1. ProgressMoves(s) = <<Move("NONE", "PENDING"), Move("PENDING", "VALIDATED")>>
                                   \o <<Move("VALIDATED", "SCHEDULED")>>
                                   \o <<Move("SCHEDULED", "TRANSFER_INITIATED")>>
        BY <2>1, JoinMoves
      <3>2. ProgressMoves(s) = planned \o <<Move("SCHEDULED", "TRANSFER_INITIATED")>>
        BY <3>1, JoinMoves
      <3>3. QED
        BY <3>2, JoinMoves
    <2>3. begun[Len(begun)].to = "TRANSFER_INITIATED"
      BY DEF Move
    <2>4. QED
      BY <1>4, <1>5, <2>2, <2>3, JoinMoves DEF TransitionHistory, MovesIf, Transferred
  <1>6. CASE ~MovesMoney(t)
    <2>1. ProgressMoves(s) = <<Move("NONE", "PENDING")>> \o <<Move("PENDING", "VALIDATED")>>
                                 \o <<Move("VALIDATED", "SCHEDULED")>> \o <<>>
      BY <1>2, <1>3, <1>6 DEF ProgressMoves, MovesIf
    <2>2. ProgressMoves(s) = planned
      <3>1. ProgressMoves(s) = <<Move("NONE", "PENDING"), Move("PENDING", "VALIDATED")>>
                                   \o <<Move("VALIDATED", "SCHEDULED")>> \o <<>>
        BY <2>1, JoinMoves
      <3>2. ProgressMoves(s) = planned \o <<>>
        BY <3>1, JoinMoves
      <3>3. QED
        BY <3>2, JoinNone
    <2>3. planned[Len(planned)].to = "SCHEDULED"
      BY DEF Move
    <2>4. s.disbursement_status = "FAILED"
      BY <1>6 DEF MovesMoney, FinalState, TransferOutcome
    <2>5. QED
      BY <1>4, <1>6, <2>2, <2>3, <2>4, JoinMoves DEF TransitionHistory, MovesIf, Refused
  <1>7. QED
    BY <1>5, <1>6

(* The same for a negative tenure, which has no schedule.                  *)
LEMMA UnplannedHistory ==
    ASSUME NEW t \in Terms, ValidTerms(t), t.approved_tenure_months < 0
    PROVE  TransitionHistory(FinalState(t)) =
               IF MovesMoney(t) THEN Skipped(FinalState(t).disbursement_status) ELSE Unplanned
  <1> DEFINE s == FinalState(t)
  <1>1. s.validation_passed /\ ~(s.installments > 0)
    <2>1. ~(t.approved_tenure_months > 0)
      BY DEF Terms
    <2>2. QED
      BY <2>1 DEF FinalState, Installments
  <1>2. HasTransaction(s) <=> MovesMoney(t)
    BY TransactionIffMoney
  <1>3. s.disbursement_status \in FinalStatuses
    BY FinalStateType
  <1> DEFINE passed == <<Move("NONE", "PENDING"), Move("PENDING", "VALIDATED")>>
             begun == <<Move("NONE", "PENDING"), Move("PENDING", "VALIDATED"),
                        Move("SCHEDULED", "TRANSFER_INITIATED")>>
  <1>4. CASE MovesMoney(t)
    <2>1. ProgressMoves(s) = <<Move("NONE", "PENDING")>> \o <<Move("PENDING", "VALIDATED")>>
                                 \o <<>> \o <<Move("SCHEDULED", "TRANSFER_INITIATED")>>
      BY <1>1, <1>2, <1>4 DEF ProgressMoves, MovesIf
    <2>2. ProgressMoves(s) = begun
      <3>1. ProgressMoves(s) = passed \o <<>> \o <<Move("SCHEDULED", "TRANSFER_INITIATED")>>
        BY <2>1, JoinMoves
      <3>2. ProgressMoves(s) = passed \o <<Move("SCHEDULED", "TRANSFER_INITIATED")>>
        BY <3>1, JoinNone
      <3>3. QED
        BY <3>2, JoinMoves
    <2>3. begun[Len(begun)].to = "TRANSFER_INITIATED"
      BY DEF Move
    <2>4. QED
      BY <1>3, <1>4, <2>2, <2>3, JoinMoves DEF TransitionHistory, MovesIf, Skipped
  <1>5. CASE ~MovesMoney(t)
    <2>1. ProgressMoves(s) = <<Move("NONE", "PENDING")>> \o <<Move("PENDING", "VALIDATED")>>
                                 \o <<>> \o <<>>
      BY <1>1, <1>2, <1>5 DEF ProgressMoves, MovesIf
    <2>2. ProgressMoves(s) = passed
      <3>1. ProgressMoves(s) = passed \o <<>> \o <<>>
        BY <2>1, JoinMoves
      <3>2. QED
        BY <3>1, JoinNone
    <2>3. passed[Len(passed)].to = "VALIDATED"
      BY DEF Move
    <2>4. s.disbursement_status = "FAILED"
      BY <1>5 DEF MovesMoney, FinalState, TransferOutcome
    <2>5. QED
      BY <1>3, <1>5, <2>2, <2>3, <2>4, JoinMoves DEF TransitionHistory, MovesIf, Unplanned
  <1>6. QED
    BY <1>4, <1>5

(* A history as HistoryIsAPath wants it: of terms whose tenure is negative *)
(* or not, to the status it ends in, of a run that moved money or not.     *)
Path(h, negative, status, paid) ==
    /\ h[1] = Move("NONE", "PENDING")
    /\ h[Len(h)].to = status
    /\ (\E i \in DOMAIN h : h[i].to = "TRANSFER_INITIATED") <=> paid
    /\ Gaps(h) = {i \in 2..Len(h) : /\ negative
                                    /\ h[i-1].to = "VALIDATED"
                                    /\ h[i] = Move("SCHEDULED", "TRANSFER_INITIATED")}
    /\ Gaps(h) # {} <=> (negative /\ paid)

LEMMA DeclinedIsPath ==
    ASSUME NEW negative \in BOOLEAN
    PROVE  Path(Declined, negative, "FAILED", FALSE)
  BY DEF Path, Gaps, Declined, Move

LEMMA RefusedIsPath == Path(Refused, FALSE, "FAILED", FALSE)
  BY DEF Path, Gaps, Refused, Move

LEMMA UnplannedIsPath == Path(Unplanned, TRUE, "FAILED", FALSE)
  BY DEF Path, Gaps, Unplanned, Move

LEMMA TransferredIsPath ==
    ASSUME NEW status \in FinalStatuses
    PROVE  Path(Transferred(status), FALSE, status, TRUE)
  BY DEF Path, Gaps, Transferred, Move, FinalStatuses

LEMMA SkippedIsPath ==
    ASSUME NEW status \in FinalStatuses
    PROVE  Path(Skipped(status), TRUE, status, TRUE)
  BY DEF Path, Gaps, Skipped, Move, FinalStatuses

-----------------------------------------------------------------------------
(* A graph state is its four channels. *)
LEMMA SameState ==
    ASSUME NEW s \in FlowState, NEW r \in FlowState,
           s.validation_passed = r.validation_passed, s.installments = r.installments,
           s.transfer_status = r.transfer_status,
           s.disbursement_status = r.disbursement_status
    PROVE  s = r
  BY DEF FlowState

(* At each node the state is what the nodes before it have left, and the   *)
(* gateway has been called at most once.                                   *)
THEOREM GraphInvariant == Spec => []GraphInv
  <1>1. Init => GraphInv
    BY RequestsAssumption DEF Init, GraphInv, TypeOK, Nodes, Finished, InitialState, FlowState, Statuses,
           TransferStatuses, FinalStatuses
  <1>2. GraphInv /\ [Next]_vars => GraphInv'
    <2> SUFFICES ASSUME GraphInv, [Next]_vars
                 PROVE  GraphInv'
      OBVIOUS
    <2>0. terms \in Terms /\ state \in FlowState /\ TypeOK
      BY RequestsAssumption DEF GraphInv, TypeOK
    <2>1. CASE ValidateDecision
      <3>1. state = InitialState /\ ledger = 0 /\ receipt = {} /\ terms' = terms
        BY <2>1 DEF GraphInv, ValidateDecision, Finished
      <3>2. CASE ValidTerms(terms)
        <4>1. /\ node' = "generate_schedule"
              /\ state' = [state EXCEPT !.validation_passed = TRUE,
                                        !.disbursement_status = "VALIDATED"]
          BY <2>0, <2>1, <3>2 DEF ValidateDecision, FlowState
        <4>2. state' \in FlowState /\ state'.validation_passed
              /\ state'.transfer_status = "NONE" /\ state'.installments = 0
          BY <3>1, <4>1 DEF InitialState, FlowState, Statuses, TransferStatuses
        <4>3. QED
          BY <2>0, <2>1, <3>1, <3>2, <4>1, <4>2
             DEF GraphInv, TypeOK, Nodes, ValidateDecision, Finished
      <3>3. CASE ~ValidTerms(terms)
        <4>1. node' = "generate_receipt"
          BY <2>0, <2>1, <3>3 DEF ValidateDecision, FlowState
        <4>2. state' = FinalState(terms) /\ ~MovesMoney(terms)
          <5>1. /\ state' \in FlowState /\ ~state'.validation_passed
                /\ state'.installments = 0 /\ state'.transfer_status = "NONE"
                /\ state'.disbursement_status = "FAILED"
            <6>1. ValidTerms(terms) = FALSE
              BY <3>3 DEF ValidTerms
            <6>2. state' = [state EXCEPT !.validation_passed = FALSE,
                                         !.disbursement_status = "FAILED"]
              BY <2>1, <6>1 DEF ValidateDecision
            <6>3. QED
              BY <2>0, <3>1, <6>2 DEF InitialState, FlowState, Statuses, FinalStatuses
          <5>2. LET s == FinalState(terms)
                IN  /\ s \in FlowState /\ ~s.validation_passed
                    /\ s.installments = 0 /\ s.transfer_status = "NONE"
                    /\ s.disbursement_status = "FAILED"
            BY <2>0, <3>3, FinalStateType DEF FinalState, InitialState
          <5>3. QED
            BY <3>3, <5>1, <5>2, SameState DEF FlowState, MovesMoney
        <4>3. state' \in FlowState
          BY <2>0, <4>2, FinalStateType
        <4>4. QED
          BY <2>0, <2>1, <3>1, <4>1, <4>2, <4>3
             DEF GraphInv, TypeOK, Nodes, ValidateDecision, Finished
      <3>4. QED
        BY <3>2, <3>3
    <2>2. CASE GenerateSchedule
      <3>1. /\ ledger = 0 /\ receipt = {} /\ ValidTerms(terms) /\ state.validation_passed
            /\ state.transfer_status = "NONE"
            /\ UNCHANGED <<terms, ledger, receipt>>
        BY <2>2 DEF GraphInv, GenerateSchedule, Finished
      <3>2. CASE ScheduleRaises(terms)
        BY <2>0, <2>2, <3>1, <3>2 DEF GraphInv, TypeOK, Nodes, GenerateSchedule, Finished
      <3>3. CASE ~ScheduleRaises(terms)
        <4>1. /\ node' = "execute_transfer"
              /\ state' = [state EXCEPT !.installments = Installments(terms),
                                        !.disbursement_status = "SCHEDULED"]
          BY <2>2, <3>3 DEF GenerateSchedule
        <4>2. Installments(terms) \in Nat
          BY <2>0 DEF Installments, Terms
        <4>3. /\ state' \in FlowState /\ state'.validation_passed
              /\ state'.transfer_status = "NONE"
              /\ state'.installments = Installments(terms)
          BY <2>0, <3>1, <4>1, <4>2 DEF FlowState, Statuses, TransferStatuses
        <4>4. QED
          BY <2>0, <2>2, <3>1, <4>1, <4>3 DEF GraphInv, TypeOK, Nodes, Finished
      <3>4. QED
        BY <3>2, <3>3
    <2>3. CASE ExecuteTransfer
      <3> DEFINE answer == GatewayAnswer(terms)
      <3>1. /\ ledger = 0 /\ receipt = {} /\ ValidTerms(terms) /\ state.validation_passed
            /\ state.installments = Installments(terms)
            /\ node' = "generate_receipt" /\ terms' = terms /\ receipt' = receipt
        BY <2>3 DEF GraphInv, ExecuteTransfer, Finished
      <3>2. /\ ledger' = IF answer = "FAILED" THEN ledger ELSE ledger + 1
            /\ state' = [state EXCEPT !.transfer_status = answer,
                                      !.disbursement_status = TransferOutcome(answer)]
        BY <2>3 DEF ExecuteTransfer
      <3>3. state' = FinalState(terms)
        <4>1. answer \in TransferStatuses /\ TransferOutcome(answer) \in Statuses
          BY DEF GatewayAnswer, TransferStatuses, TransferOutcome, Statuses, FinalStatuses
        <4>2. /\ state' \in FlowState /\ state'.validation_passed
              /\ state'.installments = Installments(terms) /\ state'.transfer_status = answer
              /\ state'.disbursement_status = TransferOutcome(answer)
          BY <2>0, <3>1, <3>2, <4>1 DEF FlowState
        <4>3. LET s == FinalState(terms)
              IN  /\ s \in FlowState /\ s.validation_passed
                  /\ s.installments = Installments(terms) /\ s.transfer_status = answer
                  /\ s.disbursement_status = TransferOutcome(answer)
          BY <2>0, <3>1, FinalStateType DEF FinalState
        <4>4. QED
          BY <4>2, <4>3, SameState DEF FlowState
      <3>4. state' \in FlowState
        BY <2>0, <3>3, FinalStateType
      <3>5. ledger' = IF MovesMoney(terms) THEN 1 ELSE 0
        BY <3>1, <3>2 DEF MovesMoney
      <3>6. QED
        BY <2>0, <3>1, <3>3, <3>4, <3>5 DEF GraphInv, TypeOK, Nodes, Finished
    <2>4. CASE GenerateReceipt
      <3>1. /\ state = FinalState(terms) /\ receipt = {}
            /\ ledger = IF MovesMoney(terms) THEN 1 ELSE 0
            /\ node' = "END" /\ UNCHANGED <<terms, state, ledger>>
            /\ receipt' = receipt \cup {BuildReceipt(terms, state, ledger)}
        BY <2>4 DEF GraphInv, GenerateReceipt, Finished
      <3>2. BuildReceipt(terms, FinalState(terms), ledger) = BuildReceipt(terms, FinalState(terms), 1)
        BY <3>1, TransactionIffMoney DEF BuildReceipt
      <3>3. receipt' = {BuildReceipt(terms, FinalState(terms), 1)}
        BY <3>1, <3>2
      <3>4. receipt' \subseteq Receipt
        BY <2>0, <3>3, ReceiptType
      <3>5. QED
        BY <2>0, <3>1, <3>3, <3>4 DEF GraphInv, TypeOK, Nodes, Finished
    <2>5. CASE UNCHANGED vars
      BY <2>5 DEF GraphInv, TypeOK, Finished, vars
    <2>6. QED
      BY <2>1, <2>2, <2>3, <2>4, <2>5 DEF Next
  <1>3. QED
    BY <1>1, <1>2, PTL DEF Spec

(* The nodes together compute FinalState and its receipt; a run that       *)
(* raises has moved no money.                                              *)
THEOREM ComputesFinalState == Spec => []NodesComputeFinalState
  <1>1. GraphInv => NodesComputeFinalState
    BY DEF GraphInv, NodesComputeFinalState, Finished
  <1>2. QED
    BY <1>1, GraphInvariant, PTL

(* The receipt is true of the ledger, and of what is left to reconcile.    *)
THEOREM ReceiptIsTrue == Spec => []ReceiptTellsTheTruth
  <1>1. GraphInv => ReceiptTellsTheTruth
    <2> SUFFICES ASSUME GraphInv, NEW r \in receipt
                 PROVE  /\ r.txn = ledger
                        /\ (r.disbursement_status = "FAILED") <=> (ledger = 0)
                        /\ r.reconciliation_required <=> (r.disbursement_status = "TRANSFER_PENDING")
      BY DEF ReceiptTellsTheTruth
    <2>1. /\ r = BuildReceipt(terms, FinalState(terms), 1)
          /\ ledger = IF MovesMoney(terms) THEN 1 ELSE 0
      BY DEF GraphInv, Finished
    <2>2. r.txn = ledger
      BY <2>1, TransactionIffMoney DEF BuildReceipt
    <2>3. GatewayAnswer(terms) \in {"SUCCESS", "PENDING", "FAILED"}
      BY DEF GatewayAnswer
    <2>4. (r.disbursement_status = "FAILED") <=> ~MovesMoney(terms)
      BY <2>1, <2>3 DEF BuildReceipt, FinalState, InitialState, TransferOutcome, MovesMoney
    <2>5. r.reconciliation_required <=> (r.disbursement_status = "TRANSFER_PENDING")
      BY <2>1, <2>3 DEF BuildReceipt, FinalState, InitialState, TransferOutcome
    <2>6. QED
      BY <2>1, <2>2, <2>4, <2>5
  <1>2. QED
    BY <1>1, GraphInvariant, PTL

(* The history derived from the final state leads from the request to the  *)
(* receipt's status, through TRANSFER_INITIATED iff money moved, and has   *)
(* a gap exactly where a negative tenure is paid out without a schedule.   *)
THEOREM HistoryPath == Spec => []HistoryIsAPath
  <1>1. GraphInv => HistoryIsAPath
    <2> DEFINE negative == terms.approved_tenure_months < 0
               status == state.disbursement_status
               paid == ledger > 0
    <2> SUFFICES ASSUME GraphInv, Finished
                 PROVE  Path(TransitionHistory(state), negative, status, paid)
      BY DEF HistoryIsAPath, Path
    <2>1. /\ terms \in Terms /\ state = FinalState(terms)
          /\ ledger = IF MovesMoney(terms) THEN 1 ELSE 0
      BY RequestsAssumption DEF GraphInv, TypeOK, Finished
    <2>2. status \in FinalStatuses /\ negative \in BOOLEAN
      BY <2>1, FinalStateType
    <2>3. /\ MovesMoney(terms) => paid = TRUE
          /\ ~MovesMoney(terms) => paid = FALSE
          /\ negative => negative = TRUE
      BY <2>1
    <2>4. CASE ~ValidTerms(terms)
      <3>1. TransitionHistory(state) = Declined /\ ~MovesMoney(terms) /\ status = "FAILED"
        BY <2>1, <2>4, DeclinedHistory DEF MovesMoney, FinalState, InitialState
      <3> HIDE DEF negative, status, paid
      <3>2. QED
        BY <2>2, <2>3, <3>1, DeclinedIsPath
    <2>5. CASE ValidTerms(terms) /\ terms.approved_tenure_months >= 0
      <3>1. negative = FALSE
        BY <2>1, <2>5 DEF Terms
      <3>2. CASE MovesMoney(terms)
        <4>1. TransitionHistory(state) = Transferred(status)
          BY <2>1, <2>5, <3>2, ValidHistory
        <4> HIDE DEF negative, status, paid
        <4>2. QED
          BY <2>2, <2>3, <3>1, <3>2, <4>1, TransferredIsPath
      <3>3. CASE ~MovesMoney(terms)
        <4>1. TransitionHistory(state) = Refused /\ status = "FAILED"
          BY <2>1, <2>5, <3>3, ValidHistory DEF MovesMoney, FinalState, TransferOutcome
        <4> HIDE DEF negative, status, paid
        <4>2. QED
          BY <2>3, <3>1, <3>3, <4>1, RefusedIsPath
      <3>4. QED
        BY <3>2, <3>3
    <2>6. CASE ValidTerms(terms) /\ negative
      <3>1. CASE MovesMoney(terms)
        <4>1. TransitionHistory(state) = Skipped(status)
          BY <2>1, <2>6, <3>1, UnplannedHistory
        <4> HIDE DEF negative, status, paid
        <4>2. QED
          BY <2>2, <2>3, <2>6, <3>1, <4>1, SkippedIsPath
      <3>2. CASE ~MovesMoney(terms)
        <4>1. TransitionHistory(state) = Unplanned /\ status = "FAILED"
          BY <2>1, <2>6, <3>2, UnplannedHistory DEF MovesMoney, FinalState, TransferOutcome
        <4> HIDE DEF negative, status, paid
        <4>2. QED
          BY <2>3, <2>6, <3>2, <4>1, UnplannedIsPath
      <3>3. QED
        BY <3>1, <3>2
    <2>7. QED
      BY <2>1, <2>4, <2>5, <2>6 DEF Terms
  <1>2. QED
    BY <1>1, GraphInvariant, PTL

-----------------------------------------------------------------------------
(* Induction over the naturals, for a set: < is well-founded.  The powers  *)
(* of the schedule are a recursive function, and what is said of them is   *)
(* said of every exponent.                                                 *)

LEMMA SmallestOf ==
    ASSUME NEW T \in SUBSET Nat, T # {}
    PROVE  \E n \in T : \A m \in T : n <= m
  <1> DEFINE R == {ss \in Nat \X Nat : ss[1] < ss[2]}
  <1>1. OpToRel(<, Nat) = R
    BY Zenon DEF OpToRel
  <1>2. IsWellFoundedOn(R, Nat)
    BY <1>1, NatLessThanWellFounded, Zenon
  <1>3. \A m, n \in Nat : m < n => <<m, n>> \in R
    OBVIOUS
  <1> HIDE DEF R
  <1>4. PICK n \in T : \A m \in T : <<m, n>> \notin R
    BY <1>2, WFMin
  <1>5. \A m \in T : ~(m < n)
    BY <1>3, <1>4
  <1>6. QED
    BY <1>5

LEMMA Induction ==
    ASSUME NEW S \in SUBSET Nat, 0 \in S, \A n \in S : n + 1 \in S
    PROVE  S = Nat
  <1> SUFFICES ASSUME Nat \ S # {} PROVE FALSE
    OBVIOUS
  <1>1. PICK n \in Nat \ S : \A m \in Nat \ S : n <= m
    BY SmallestOf
  <1>2. n # 0 /\ n - 1 \in Nat
    BY <1>1
  <1>3. n - 1 \in S
    BY <1>1, <1>2
  <1>4. QED
    BY <1>1, <1>3

(* The recursion defines a function: the CHOOSE of PowersOf has a witness. *)
LEMMA PowersOfStep ==
    ASSUME NEW x \in Nat
    PROVE  PowersOf(x) = [k \in Nat |-> IF k = 0 THEN 1 ELSE x * PowersOf(x)[k - 1]]
  <1> DEFINE Starts(n, g) == g \in [0..n -> Nat] /\ g[0] = 1 /\ \A k \in 1..n : g[k] = x * g[k - 1]
  <1>1. \A n \in Nat : \E g : Starts(n, g)
    <2> DEFINE S == {n \in Nat : \E g : Starts(n, g)}
    <2>1. 0 \in S
      <3>1. Starts(0, [k \in 0..0 |-> 1])
        OBVIOUS
      <3>2. QED
        BY <3>1
    <2>2. ASSUME NEW n \in S PROVE n + 1 \in S
      <3>1. PICK g : Starts(n, g)
        BY <2>2
      <3> DEFINE h == [k \in 0..n + 1 |-> IF k = n + 1 THEN x * g[n] ELSE g[k]]
      <3>2. h \in [0..n + 1 -> Nat] /\ h[0] = 1
        BY <2>2, <3>1
      <3>3. ASSUME NEW k \in 1..n + 1 PROVE h[k] = x * h[k - 1]
        <4>1. k - 1 \in 0..n + 1 /\ k \in 0..n + 1
          BY <2>2
        <4>2. CASE k = n + 1
          BY <2>2, <3>1, <4>1, <4>2
        <4>3. CASE k # n + 1
          BY <2>2, <3>1, <4>1, <4>3
        <4>4. QED
          BY <4>2, <4>3
      <3>4. Starts(n + 1, h)
        BY ONLY <3>2, <3>3
      <3> HIDE DEF h, Starts
      <3>5. QED
        BY <2>2, <3>4
    <2> HIDE DEF S
    <2>3. S = Nat
      BY <2>1, <2>2, Induction DEF S
    <2>4. QED
      BY <2>3, Zenon DEF S
  <1>2. ASSUME NEW n \in Nat, NEW g, NEW h, Starts(n, g), Starts(n + 1, h)
        PROVE  g[n] = h[n]
    <2> DEFINE S == {k \in Nat : k > n \/ g[k] = h[k]}
    <2>1. 0 \in S
      BY <1>2
    <2>2. ASSUME NEW k \in S PROVE k + 1 \in S
      <3>1. CASE k + 1 > n
        BY <3>1
      <3>2. CASE ~(k + 1 > n)
        <4>1. g[k] = h[k] /\ k + 1 \in 1..n /\ k + 1 \in 1..n + 1 /\ (k + 1) - 1 = k
          BY <3>2
        <4>2. g[k + 1] = x * g[k] /\ h[k + 1] = x * h[k]
          BY <1>2, <4>1
        <4>3. QED
          BY <4>1, <4>2
      <3>3. QED
        BY <3>1, <3>2
    <2> HIDE DEF S
    <2>3. n \in S
      BY <2>1, <2>2, Induction DEF S
    <2>4. QED
      BY <2>3 DEF S
  <1> DEFINE upTo == [n \in Nat |-> CHOOSE g : Starts(n, g)]
             f == [n \in Nat |-> upTo[n][n]]
  <1>3. \A n \in Nat : Starts(n, upTo[n])
    BY <1>1, Zenon
  <1> HIDE DEF upTo
  <1>4. ASSUME NEW n \in Nat
        PROVE  f[n] = IF n = 0 THEN 1 ELSE x * f[n - 1]
    <2>1. CASE n = 0
      BY <1>3, <2>1
    <2>2. CASE n # 0
      <3>1. n - 1 \in Nat /\ n \in 1..n /\ (n - 1) + 1 = n
        BY <2>2
      <3>2. upTo[n][n] = x * upTo[n][n - 1]
        BY <1>3, <3>1
      <3>3. upTo[n - 1][n - 1] = upTo[n][n - 1]
        <4>1. Starts(n - 1, upTo[n - 1]) /\ Starts((n - 1) + 1, upTo[n])
          BY <1>3, <3>1
        <4> HIDE DEF Starts
        <4>2. QED
          BY <1>2, <3>1, <4>1
      <3>4. QED
        BY <2>2, <3>1, <3>2, <3>3
    <2>3. QED
      BY <2>1, <2>2
  <1>5. f = [k \in Nat |-> IF k = 0 THEN 1 ELSE x * f[k - 1]]
    BY <1>4
  <1> HIDE DEF f
  <1>6. QED
    BY <1>5, Zenon DEF PowersOf

LEMMA PowersGrow ==
    ASSUME NEW x \in Nat
    PROVE  /\ PowersOf(x)[0] = 1
           /\ \A n \in Nat : PowersOf(x)[n + 1] = x * PowersOf(x)[n]
           /\ \A n \in Nat : PowersOf(x)[n] \in Nat
  <1> DEFINE p == PowersOf(x)
  <1>1. p = [k \in Nat |-> IF k = 0 THEN 1 ELSE x * p[k - 1]]
    BY PowersOfStep
  <1> HIDE DEF p
  <1>2. p[0] = 1
    BY <1>1
  <1>3. \A n \in Nat : p[n + 1] = x * p[n]
    <2> TAKE n \in Nat
    <2>1. n + 1 \in Nat /\ n + 1 # 0 /\ (n + 1) - 1 = n
      OBVIOUS
    <2>2. QED
      BY <1>1, <2>1
  <1>4. \A n \in Nat : p[n] \in Nat
    <2> DEFINE S == {n \in Nat : p[n] \in Nat}
    <2>1. 0 \in S /\ \A n \in S : n + 1 \in S
      BY <1>2, <1>3
    <2> HIDE DEF S
    <2>2. S = Nat
      BY <2>1, Induction DEF S
    <2>3. QED
      BY <2>2 DEF S
  <1>5. QED
    BY <1>2, <1>3, <1>4 DEF p
-----------------------------------------------------------------------------
(* The arithmetic of the schedule.  A month multiplies what is owed by     *)
(* S/D = (D + N)/D and takes e off it.  With s and d the powers of S and D *)
(* to the months left, Drift is 0 when e a month repays the balance b      *)
(* exactly; p is the power of D to the months gone, g and h those of S and *)
(* D to the tenure.  Near bounds the drift by what rounding has done so    *)
(* far: half a cent of the EMI in each month, half a cent of its interest. *)

LEMMA Scaled ==
    ASSUME NEW c \in Nat, NEW x \in Int, NEW y \in Int, x <= y
    PROVE  c * x <= c * y /\ c * x \in Int /\ c * y \in Int
  OBVIOUS
LEMMA Unscaled ==
    ASSUME NEW c \in Nat, c > 0, NEW x \in Int, NEW y \in Int, c * x <= c * y
    PROVE  x <= y
  OBVIOUS

Drift(b, e, N, D, s, d) == s * (b * N - e * D) + e * D * d
Near(b, e, N, D, s, d, p, g, h) ==
    LET bound == D * (2 * g - h - p * s)
    IN  -bound <= 2 * p * Drift(b, e, N, D, s, d) /\ 2 * p * Drift(b, e, N, D, s, d) <= bound

(* Without rounding, a month leaves the drift as it is.                    *)
LEMMA DriftStep ==
    ASSUME NEW N \in Nat, NEW D \in Nat, NEW S \in Nat, S = D + N, NEW b \in Int, NEW e \in Int, NEW i \in Int,
           NEW s \in Nat, NEW d \in Nat
    PROVE  D * Drift(b - (e - i), e, N, D, s, d)
             = Drift(b, e, N, D, S * s, D * d) + s * N * (i * D - b * N)
  BY DEF Drift

LEMMA NearStep ==
    ASSUME NEW N \in Nat, NEW D \in Nat, NEW S \in Nat, S = D + N, NEW b \in Int, NEW e \in Int, NEW i \in Int,
           NEW s \in Nat, NEW d \in Nat, NEW p \in Nat, NEW g \in Nat, NEW h \in Nat,
           -D <= 2 * (i * D - b * N), 2 * (i * D - b * N) <= D,
           Near(b, e, N, D, S * s, D * d, p, g, h)
    PROVE  Near(b - (e - i), e, N, D, s, d, D * p, g, h)
  <1> DEFINE old == Drift(b, e, N, D, S * s, D * d)
             new == Drift(b - (e - i), e, N, D, s, d)
             off == i * D - b * N
             c == p * (s * N)
  <1>1. D * new = old + s * N * off /\ old \in Int /\ new \in Int /\ off \in Int /\ c \in Nat
    BY DriftStep DEF Drift
  <1>2. /\ -(D * (2 * g - h - p * (S * s))) <= 2 * p * old
        /\ 2 * p * old <= D * (2 * g - h - p * (S * s))
        /\ -D <= 2 * off /\ 2 * off <= D
    BY DEF Near
  <1> HIDE DEF old, new, off
  <1>3. 2 * (D * p) * new = 2 * p * (D * new)
    BY <1>1
  <1>4. 2 * p * (D * new) = 2 * p * old + c * (2 * off)
    BY <1>1
  <1>5. c * (-D) <= c * (2 * off) /\ c * (2 * off) <= c * D
    BY <1>1, <1>2
  <1>6. D * (2 * g - h - p * (S * s)) + c * D = D * (2 * g - h - (D * p) * s)
    OBVIOUS
  <1>7. QED
    BY <1>1, <1>2, <1>3, <1>4, <1>5, <1>6 DEF Near, new

LEMMA NearStart ==
    ASSUME NEW N \in Nat, NEW D \in Nat, NEW P \in Nat, NEW e \in Int, NEW g \in Nat, NEW h \in Nat,
           -(D * (g - h)) <= 2 * (e * (D * (g - h)) - P * N * g),
           2 * (e * (D * (g - h)) - P * N * g) <= D * (g - h)
    PROVE  Near(P, e, N, D, g, h, 1, g, h)
  <1>1. 2 * 1 * Drift(P, e, N, D, g, h) = -(2 * (e * (D * (g - h)) - P * N * g))
    BY DEF Drift
  <1>2. D * (2 * g - h - 1 * g) = D * (g - h)
    OBVIOUS
  <1>3. QED
    BY <1>1, <1>2 DEF Near, Drift

(* A balance on track is not negative when the EMI repays the rounding.    *)
LEMMA NearAbove ==
    ASSUME NEW N \in Nat, N > 0, NEW D \in Nat, D > 0, NEW S \in Nat, S = D + N, NEW b \in Int, NEW e \in Nat,
           NEW s \in Nat, s > 0, NEW d \in Nat, NEW p \in Nat, p > 0, NEW g \in Nat, NEW h \in Nat, h = p * d,
           S * d <= D * s, D * (g - h) <= e * N * h,
           Near(b, e, N, D, s, d, p, g, h)
    PROVE  b >= 0
  <1> DEFINE t == p * s
  <1>1. t \in Nat /\ t > 0
    OBVIOUS
  <1>2. -(D * (2 * g - h - t)) <= 2 * p * (s * (b * N - e * D) + e * D * d)
    BY DEF Near, Drift
  <1>3. 2 * p * (s * (b * N - e * D) + e * D * d) = 2 * (t * N) * b - 2 * D * (e * (t - h))
    OBVIOUS
  <1>4. S * h <= D * t
    <2>1. p * (S * d) <= p * (D * s)
      BY Scaled
    <2>2. QED
      BY <2>1
  <1> HIDE DEF t
  <1>5. N * h <= D * (t - h)
    BY <1>1, <1>4
  <1>6. e * (N * h) <= e * (D * (t - h))
    BY <1>1, <1>5, Scaled
  <1>7. D * (g - h) <= D * (e * (t - h))
    BY <1>1, <1>6
  <1>8. g - h <= e * (t - h)
    BY <1>1, <1>7, Unscaled
  <1>9. D * h <= D * t
    BY <1>1, <1>5
  <1>10. D * (2 * g - h - t) <= 2 * D * (e * (t - h))
    BY <1>1, <1>7, <1>9
  <1>11. 0 <= (t * N) * b
    BY <1>1, <1>2, <1>3, <1>10
  <1>12. t * N > 0 /\ t * N \in Nat
    BY <1>1
  <1>13. (t * N) * 0 <= (t * N) * b
    BY <1>1, <1>11
  <1>14. QED
    BY <1>12, <1>13, Unscaled

(* In the last month, what is owed is hardly more than the EMI.            *)
LEMMA NearLast ==
    ASSUME NEW N \in Nat, N > 0, NEW D \in Nat, D > 0, NEW S \in Nat, S = D + N, NEW b \in Nat, NEW e \in Nat,
           NEW p \in Nat, NEW g \in Nat, NEW h \in Nat, h = D * p, NEW n \in Nat,
           D * (g - h) <= n * N * g,
           Near(b, e, N, D, S, D, p, g, h)
    PROVE  (b - e) * h <= n * g
  <1>1. 2 * p * (S * (b * N - e * D) + e * D * D) <= D * (2 * g - h - p * S)
    BY DEF Near, Drift
  <1>2. 2 * p * (S * (b * N - e * D) + e * D * D) = 2 * (p * N) * (S * b - e * D)
    OBVIOUS
  <1>3. (p * N) * (D * (b - e)) <= (p * N) * (S * b - e * D)
    <2>1. D * (b - e) <= S * b - e * D
      OBVIOUS
    <2>2. QED
      BY <2>1, Scaled
  <1>4. (p * N) * (D * (b - e)) = N * ((b - e) * h)
    OBVIOUS
  <1>5. D * h <= D * (p * S)
    <2>1. p * D <= p * S
      BY Scaled
    <2>2. QED
      BY <2>1, Scaled
  <1>6. 2 * (N * ((b - e) * h)) <= 2 * (D * (g - h))
    BY <1>1, <1>2, <1>3, <1>4, <1>5
  <1>7. N * ((b - e) * h) <= N * (n * g)
    BY <1>6
  <1>8. QED
    BY <1>7, Unscaled

(* The rounded interest of a month is within the rounded EMI.              *)
LEMMA InterestWithin ==
    ASSUME NEW N \in Nat, N > 0, NEW D \in Nat, D > 0, NEW P \in Nat, P > 0, NEW b \in 0..P, NEW e \in Int, NEW i \in Int,
           NEW g \in Nat, NEW h \in Nat, h > 0, g > h,
           -(D * (g - h)) <= 2 * (e * (D * (g - h)) - P * N * g),
           2 * (i * D - b * N) <= D
    PROVE  i <= e
  <1> SUFFICES ASSUME e + 1 <= i PROVE FALSE
    OBVIOUS
  <1> DEFINE w == g - h
  <1>1. w \in Nat /\ w > 0 /\ g = w + h
    OBVIOUS
  <1>2. b * N <= P * N /\ D * (e + 1) <= D * i
    BY Scaled
  <1>3. 2 * (D * e) + D <= 2 * (P * N)
    BY <1>2
  <1> HIDE DEF w
  <1>4. w * (2 * (D * e) + D) <= w * (2 * (P * N))
    BY <1>1, <1>3, Scaled
  <1>5. 2 * (P * N * w) + 2 * (P * N * h) <= 2 * (w * (D * e)) + w * D
    BY <1>1 DEF w
  <1>6. P * N * h > 0
    <2>1. P * N \in Nat /\ P * N > 0
      OBVIOUS
    <2>2. QED
      BY <2>1
  <1>7. QED
    BY <1>1, <1>4, <1>5, <1>6
-----------------------------------------------------------------------------
(* What the operators of Amortization return.                              *)

LEMMA RoundedIsNear ==
    ASSUME NEW a \in Nat, NEW b \in Nat, b > 0, NEW q \in Rounded(a, b)
    PROVE  /\ q \in Nat /\ a \div b <= q
           /\ -b <= 2 * (q * b - a) /\ 2 * (q * b - a) <= b
  <1>1. a \div b \in Int
    OBVIOUS
  <1>2. /\ q \in Int /\ a \div b <= q
        /\ 2 * Abs(q * b - a) <= b
    BY <1>1 DEF Rounded
  <1>3. -b <= 2 * (q * b - a) /\ 2 * (q * b - a) <= b
    BY <1>2 DEF Abs
  <1>4. CASE q < 0
    <2>1. q * b <= -b
      BY <1>2, <1>4
    <2>2. QED
      BY <1>2, <1>3, <2>1
  <1>5. QED
    BY <1>2, <1>3, <1>4

LEMMA PowersOrdered ==
    ASSUME NEW x \in Nat, x > 0, NEW y \in Nat, x <= y
    PROVE  \A n \in Nat : /\ PowersOf(x)[n] > 0
                          /\ PowersOf(x)[n] <= PowersOf(y)[n]
  <1> DEFINE p == PowersOf(x)
             q == PowersOf(y)
             S == {n \in Nat : p[n] > 0 /\ p[n] <= q[n]}
  <1>1. /\ p[0] = 1 /\ q[0] = 1
        /\ \A n \in Nat : /\ p[n] \in Nat /\ q[n] \in Nat
                          /\ p[n + 1] = x * p[n] /\ q[n + 1] = y * q[n]
    BY PowersGrow
  <1> HIDE DEF p, q
  <1>2. 0 \in S
    BY <1>1
  <1>3. ASSUME NEW n \in S
        PROVE  n + 1 \in S
    <2>1. p[n] \in Nat /\ q[n] \in Nat /\ p[n] > 0 /\ p[n] <= q[n]
      BY <1>1, <1>3
    <2>2. x * p[n] <= x * q[n] /\ q[n] * x <= q[n] * y
      BY <2>1, Scaled
    <2>3. x * p[n] > 0
      BY <2>1
    <2>4. QED
      BY <1>1, <1>3, <2>1, <2>2, <2>3
  <1> HIDE DEF S
  <1>4. S = Nat
    BY <1>2, <1>3, Induction DEF S
  <1>5. QED
    BY <1>4 DEF S, p, q

LEMMA PowersApart ==
    ASSUME NEW d \in Nat, d > 0, NEW n \in Nat \ {0}, NEW num \in Nat
    PROVE  LET p == PowersOf(d)
               q == PowersOf(d + num)
           IN  /\ (d + num) * p[n] <= d * q[n]
               /\ num > 0 => p[n] < q[n]
  <1> DEFINE p == PowersOf(d)
             q == PowersOf(d + num)
             s == d + num
  <1>1. n - 1 \in Nat /\ (n - 1) + 1 = n
    OBVIOUS
  <1>2. p[n] = d * p[n - 1] /\ q[n] = s * q[n - 1] /\ p[n - 1] \in Nat /\ q[n - 1] \in Nat
    BY <1>1, PowersGrow
  <1>3. p[n - 1] > 0 /\ p[n - 1] <= q[n - 1]
    BY <1>1, PowersOrdered
  <1> HIDE DEF p, q
  <1>4. (s * d) * p[n - 1] <= (s * d) * q[n - 1]
    BY <1>2, <1>3, Scaled
  <1>5. s * p[n] <= d * q[n]
    BY <1>2, <1>4
  <1>6. ASSUME num > 0
        PROVE  p[n] < q[n]
    <2>1. num * p[n] > 0 /\ p[n] \in Nat /\ q[n] \in Nat
      <3>1. d * p[n - 1] > 0 /\ d * p[n - 1] \in Nat /\ s * q[n - 1] \in Nat
        BY <1>2, <1>3
      <3>2. QED
        BY <1>2, <1>6, <3>1
    <2>2. SUFFICES ASSUME q[n] <= p[n] PROVE FALSE
      BY <2>1
    <2>3. d * q[n] <= d * p[n]
      BY <2>1, <2>2, Scaled
    <2>4. QED
      BY <1>5, <2>1, <2>3
  <1>7. QED
    BY <1>5, <1>6 DEF p, q

(* A cent a month over n months grows to less than n * (1 + rate)^n cents. *)
LEMMA GrowthBound ==
    ASSUME NEW d \in Nat, d > 0, NEW num \in Nat
    PROVE  \A n \in Nat : d * (PowersOf(d + num)[n] - PowersOf(d)[n])
                            <= n * num * PowersOf(d + num)[n]
  <1> DEFINE p == PowersOf(d)
             q == PowersOf(d + num)
             s == d + num
             S == {n \in Nat : d * (q[n] - p[n]) <= n * num * q[n]}
  <1>1. /\ p[0] = 1 /\ q[0] = 1
        /\ \A n \in Nat : /\ p[n] \in Nat /\ q[n] \in Nat
                          /\ p[n + 1] = d * p[n] /\ q[n + 1] = s * q[n]
    BY PowersGrow
  <1>2. \A n \in Nat : p[n] <= q[n]
    BY PowersOrdered
  <1> HIDE DEF p, q
  <1>3. 0 \in S
    BY <1>1
  <1>4. ASSUME NEW n \in S
        PROVE  n + 1 \in S
    <2> DEFINE x == p[n]
               y == q[n]
    <2>1. x \in Nat /\ y \in Nat /\ x <= y /\ p[n + 1] = d * x /\ q[n + 1] = s * y
      BY <1>1, <1>2, <1>4
    <2>2. d * (y - x) <= n * num * y /\ n \in Nat
      BY <1>4
    <2> HIDE DEF x, y
    <2>3. s * (d * (y - x)) <= s * (n * num * y)
      BY <2>1, <2>2, Scaled
    <2>4. (d * num) * x <= (d * num) * y /\ (num * y) * d <= (num * y) * s
      BY <2>1, Scaled
    <2>5. d * (s * y - d * x) = s * (d * (y - x)) + (d * num) * x
      BY <2>1
    <2>6. (n + 1) * num * (s * y) = s * (n * num * y) + (num * y) * s
      BY <2>1, <2>2
    <2>7. d * (s * y - d * x) <= (n + 1) * num * (s * y)
      BY <2>1, <2>2, <2>3, <2>4, <2>5, <2>6
    <2>8. QED
      BY <2>1, <2>2, <2>7
  <1> HIDE DEF S
  <1>5. S = Nat
    BY <1>3, <1>4, Induction DEF S
  <1>6. QED
    BY <1>5 DEF S, p, q

-----------------------------------------------------------------------------
(* The schedule, month by month. *)

(* Where a balance is when month m is due: as far from that of the exact   *)
(* schedule as the cents rounded so far can have taken it.                 *)
OnTrack(l, e, m, b) ==
    LET left == l.tenure + 1 - m
        d == PowersOf(l.den)
        s == PowersOf(l.den + l.num)
    IN  IF l.num = 0 THEN b = l.principal - (m - 1) * e
        ELSE /\ Near(b, e, l.num, l.den, s[left], d[left], d[m - 1], Grown(l), Whole(l))
             /\ Whole(l) = d[m - 1] * d[left]

(* The books of a schedule: what is charged is principal and interest, and *)
(* nothing else; what is repaid and what is still owed add up to the       *)
(* principal, unless rounding up has repaid more than that before the last *)
(* month, which a sizeable loan is safe from.                              *)
ScheduleInv ==
    /\ ScheduleTypeOK
    /\ emi \in CalculateEmi(loan)
    /\ charged = repaid + interest
    /\ month > loan.tenure => balance = 0
    /\ \/ month <= loan.tenure /\ OnTrack(loan, emi, month, balance) /\ repaid + balance = loan.principal
       \/ balance = 0 /\ repaid >= loan.principal
    /\ Sizeable(loan) =>
         /\ repaid + balance = loan.principal
         /\ month <= loan.tenure => OnTrack(loan, emi, month, balance)

(* A loan, its growth and its installment.                                 *)
IsLoan(l) == /\ l.principal \in Nat /\ l.principal > 0 /\ l.tenure \in Nat /\ l.tenure > 0
             /\ l.num \in Nat /\ l.den \in Nat /\ l.den > 0

LEMMA LoanGood ==
    ASSUME NEW l \in Loans
    PROVE  IsLoan(l)
  <1>1. l \in [principal : Nat \ {0}, tenure : Nat \ {0}, num : Nat, den : Nat \ {0}]
    BY LoansAssumption
  <1>2. QED
    BY <1>1 DEF IsLoan

LEMMA GrowthGood ==
    ASSUME NEW l, IsLoan(l)
    PROVE  /\ Grown(l) \in Nat /\ Whole(l) \in Nat /\ Whole(l) > 0
           /\ Whole(l) <= Grown(l)
           /\ l.num > 0 => /\ Whole(l) < Grown(l)
                           /\ l.den * (Grown(l) - Whole(l)) \in Nat
                           /\ l.den * (Grown(l) - Whole(l)) > 0
           /\ l.den * (Grown(l) - Whole(l)) <= l.tenure * l.num * Grown(l)
  <1> USE DEF IsLoan
  <1> DEFINE g == PowersOf(l.den + l.num)[l.tenure]
             h == PowersOf(l.den)[l.tenure]
  <1>1. g \in Nat /\ h \in Nat
    BY PowersGrow
  <1>2. h > 0 /\ h <= g
    BY PowersOrdered
  <1>3. l.num > 0 => h < g
    BY PowersApart
  <1>4. l.den * (g - h) <= l.tenure * l.num * g
    BY GrowthBound
  <1> HIDE DEF g, h
  <1>5. ASSUME l.num > 0
        PROVE  l.den * (g - h) \in Nat /\ l.den * (g - h) > 0
    <2>1. g - h \in Nat /\ g - h > 0
      BY <1>1, <1>3, <1>5
    <2>2. QED
      BY <2>1
  <1>6. QED
    BY <1>1, <1>2, <1>3, <1>4, <1>5 DEF Grown, Whole, g, h

LEMMA EmiGood ==
    ASSUME NEW l, IsLoan(l), NEW e \in CalculateEmi(l)
    PROVE  LET g == Grown(l)
               h == Whole(l)
               w == l.den * (g - h)
           IN  /\ e \in Nat
               /\ l.num = 0 => /\ l.principal \div l.tenure <= e
                               /\ -l.tenure <= 2 * (e * l.tenure - l.principal)
                               /\ 2 * (e * l.tenure - l.principal) <= l.tenure
               /\ l.num > 0 => /\ (l.principal * l.num * g) \div w <= e
                               /\ -w <= 2 * (e * w - l.principal * l.num * g)
                               /\ 2 * (e * w - l.principal * l.num * g) <= w
  <1> DEFINE g == Grown(l)
             h == Whole(l)
             w == l.den * (g - h)
  <1>1. CASE l.num = 0
    <2>1. e \in Rounded(l.principal, l.tenure)
      BY <1>1 DEF CalculateEmi
    <2>2. QED
      BY <1>1, <2>1, RoundedIsNear DEF IsLoan
  <1>2. CASE l.num # 0
    <2>1. e \in Rounded(l.principal * l.num * g, w)
      BY <1>2 DEF CalculateEmi
    <2>2. g \in Nat /\ w \in Nat /\ w > 0 /\ l.num > 0
      BY <1>2, GrowthGood DEF IsLoan
    <2> HIDE DEF g, w
    <2>3. l.principal * l.num * g \in Nat
      BY <2>2 DEF IsLoan
    <2>4. /\ e \in Nat /\ (l.principal * l.num * g) \div w <= e
          /\ -w <= 2 * (e * w - l.principal * l.num * g)
          /\ 2 * (e * w - l.principal * l.num * g) <= w
      BY <2>1, <2>2, <2>3, RoundedIsNear
    <2>5. QED
      BY <1>2, <2>4 DEF g, w
  <1>3. QED
    BY <1>1, <1>2

(* The interest of a month is near balance times rate, and within the EMI. *)
LEMMA InterestGood ==
    ASSUME NEW l, IsLoan(l), NEW e \in CalculateEmi(l),
           NEW b \in 0..l.principal, NEW i \in Rounded(b * l.num, l.den)
    PROVE  /\ i \in Nat /\ i <= e
           /\ -l.den <= 2 * (i * l.den - b * l.num) /\ 2 * (i * l.den - b * l.num) <= l.den
           /\ l.num = 0 \/ b = 0 => i = 0
  <1>1. /\ i \in Nat /\ -l.den <= 2 * (i * l.den - b * l.num)
        /\ 2 * (i * l.den - b * l.num) <= l.den
    <2>1. b * l.num \in Nat
      BY DEF IsLoan
    <2>2. QED
      BY <2>1, RoundedIsNear DEF IsLoan
  <1>2. ASSUME b * l.num = 0
        PROVE  i = 0
    <2>1. 2 * (i * l.den) <= l.den
      BY <1>1, <1>2 DEF IsLoan
    <2>2. i > 0 => l.den <= i * l.den
      BY <1>1 DEF IsLoan
    <2>3. QED
      BY <1>1, <2>1, <2>2 DEF IsLoan
  <1>3. l.num = 0 \/ b = 0 => i = 0
    BY <1>2 DEF IsLoan
  <1>4. e \in Nat
    BY EmiGood
  <1>5. ASSUME l.num > 0
        PROVE  i <= e
    <2> DEFINE g == Grown(l)
               h == Whole(l)
    <2>1. g \in Nat /\ h \in Nat /\ h > 0 /\ g > h
      BY <1>5, GrowthGood
    <2>2. -(l.den * (g - h)) <= 2 * (e * (l.den * (g - h)) - l.principal * l.num * g)
      BY <1>5, EmiGood
    <2> HIDE DEF g, h
    <2>3. QED
      BY <1>1, <1>4, <1>5, <2>1, <2>2, InterestWithin DEF IsLoan
  <1>6. QED
    BY <1>1, <1>3, <1>4, <1>5 DEF IsLoan

LEMMA OnTrackStart ==
    ASSUME NEW l, IsLoan(l), NEW e \in CalculateEmi(l)
    PROVE  OnTrack(l, e, 1, l.principal)
  <1>1. e \in Nat
    BY EmiGood
  <1>2. CASE l.num = 0
    BY <1>1, <1>2 DEF OnTrack, IsLoan
  <1>3. CASE l.num # 0
    <2> DEFINE N == l.num
               D == l.den
               P == l.principal
               g == Grown(l)
               h == Whole(l)
    <2>1. g \in Nat /\ h \in Nat /\ N \in Nat /\ D \in Nat /\ P \in Nat /\ e \in Int
      BY <1>1, GrowthGood DEF IsLoan
    <2>2. /\ -(D * (g - h)) <= 2 * (e * (D * (g - h)) - P * N * g)
          /\ 2 * (e * (D * (g - h)) - P * N * g) <= D * (g - h)
      BY <1>3, EmiGood DEF IsLoan
    <2> HIDE DEF N, D, P, g, h
    <2>3. Near(P, e, N, D, g, h, 1, g, h)
      BY <2>1, <2>2, NearStart
    <2>4. PowersOf(l.den)[0] = 1 /\ l.tenure + 1 - 1 = l.tenure /\ 1 - 1 = 0
      BY PowersGrow DEF IsLoan
    <2>5. h = 1 * h
      BY <2>1
    <2>6. QED
      BY <1>3, <2>3, <2>4, <2>5 DEF OnTrack, N, D, P, g, h, Grown, Whole
  <1>4. QED
    BY <1>2, <1>3

LEMMA OnTrackNext ==
    ASSUME NEW l, IsLoan(l), NEW e \in CalculateEmi(l), NEW m \in 1..l.tenure, m < l.tenure,
           NEW b \in 0..l.principal, OnTrack(l, e, m, b), NEW i \in Rounded(b * l.num, l.den)
    PROVE  OnTrack(l, e, m + 1, b - (e - i))
  <1>1. /\ e \in Nat /\ i \in Nat
        /\ -l.den <= 2 * (i * l.den - b * l.num) /\ 2 * (i * l.den - b * l.num) <= l.den
        /\ l.num = 0 => i = 0
    BY EmiGood, InterestGood
  <1>2. CASE l.num = 0
    <2>1. b = l.principal - (m - 1) * e
      BY <1>2 DEF OnTrack
    <2>2. b - (e - i) = l.principal - ((m + 1) - 1) * e
      BY <1>1, <1>2, <2>1 DEF IsLoan
    <2>3. QED
      BY <1>2, <2>2 DEF OnTrack
  <1>3. CASE l.num # 0
    <2> DEFINE N == l.num
               D == l.den
               S == l.den + l.num
               left == l.tenure - m
               s == PowersOf(S)[left]
               d == PowersOf(D)[left]
               p == PowersOf(D)[m - 1]
               g == Grown(l)
               h == Whole(l)
    <2>1. /\ left \in Nat /\ m - 1 \in Nat
          /\ l.tenure + 1 - m = left + 1 /\ l.tenure + 1 - (m + 1) = left /\ (m + 1) - 1 = (m - 1) + 1
      BY DEF IsLoan
    <2>2. N \in Nat /\ D \in Nat /\ S \in Nat /\ S = D + N
      BY DEF IsLoan
    <2>3. /\ s \in Nat /\ d \in Nat /\ p \in Nat
          /\ PowersOf(S)[left + 1] = S * s
          /\ PowersOf(D)[left + 1] = D * d
          /\ PowersOf(D)[(m - 1) + 1] = D * p
      <3> HIDE DEF left, S, D
      <3>1. s \in Nat /\ PowersOf(S)[left + 1] = S * s
        BY <2>1, <2>2, PowersGrow
      <3>2. d \in Nat /\ PowersOf(D)[left + 1] = D * d
        BY <2>1, <2>2, PowersGrow
      <3>3. p \in Nat /\ PowersOf(D)[(m - 1) + 1] = D * p
        BY <2>1, <2>2, PowersGrow
      <3>4. QED
        BY <3>1, <3>2, <3>3
    <2>4. g \in Nat /\ h \in Nat
      BY GrowthGood
    <2>5. Near(b, e, N, D, S * s, D * d, p, g, h) /\ h = p * (D * d)
      BY <1>3, <2>1, <2>3 DEF OnTrack
    <2>6. /\ -D <= 2 * (i * D - b * N) /\ 2 * (i * D - b * N) <= D
          /\ b \in Int /\ e \in Int /\ i \in Int
      BY <1>1 DEF IsLoan
    <2> HIDE DEF N, D, S, s, d, p, g, h, left
    <2>7. Near(b - (e - i), e, N, D, s, d, D * p, g, h)
      BY <2>2, <2>3, <2>4, <2>5, <2>6, NearStep
    <2>8. h = (D * p) * d
      BY <2>2, <2>3, <2>5
    <2>9. QED
      <3>1. l.num # 0 /\ l.tenure + 1 - (m + 1) = left /\ PowersOf(l.den)[(m + 1) - 1] = D * p
        BY <1>3, <2>1, <2>3 DEF D
      <3>2. QED
        BY <2>7, <2>8, <3>1 DEF OnTrack, N, D, S, s, d, g, h
  <1>4. QED
    BY <1>2, <1>3

(* With installments to come, a sizeable loan is not repaid yet.           *)
LEMMA SizeableIsOwed ==
    ASSUME NEW l, IsLoan(l), Sizeable(l), NEW e \in CalculateEmi(l),
           NEW m \in 1..l.tenure, NEW b \in Int, OnTrack(l, e, m, b)
    PROVE  b >= 0
  <1>1. e \in Nat
    BY EmiGood
  <1>2. CASE l.num = 0
    <2>1. /\ b = l.principal - (m - 1) * e
          /\ 2 * (e * l.tenure - l.principal) <= l.tenure
      BY <1>2, EmiGood DEF OnTrack
    <2>2. l.tenure <= e
      <3>1. l.principal \div l.tenure <= e /\ l.tenure <= l.principal \div l.tenure
        BY <1>2, EmiGood DEF Sizeable
      <3>2. l.principal \div l.tenure \in Int
        BY DEF IsLoan
      <3>3. QED
        BY <1>1, <3>1, <3>2 DEF IsLoan
    <2>3. (m - 1) * e <= (l.tenure - 1) * e
      BY <1>1 DEF IsLoan
    <2>4. 2 * ((l.tenure - 1) * e) <= 2 * l.principal
      BY <1>1, <2>1, <2>2 DEF IsLoan
    <2>5. QED
      BY <1>1, <2>1, <2>3, <2>4 DEF IsLoan
  <1>3. CASE l.num # 0
    <2> DEFINE N == l.num
               D == l.den
               S == l.den + l.num
               left == l.tenure + 1 - m
               s == PowersOf(S)[left]
               d == PowersOf(D)[left]
               p == PowersOf(D)[m - 1]
               g == Grown(l)
               h == Whole(l)
               w == D * (g - h)
               least == (l.principal * l.num * g) \div w
    <2>1. left \in Nat \ {0} /\ m - 1 \in Nat
      BY DEF IsLoan
    <2>2. s \in Nat /\ d \in Nat /\ p \in Nat /\ p > 0 /\ d > 0
      BY <2>1, PowersGrow, PowersOrdered DEF IsLoan
    <2>3. d <= s
      BY <2>1, PowersOrdered DEF IsLoan
    <2>4. S * d <= D * s
      BY <2>1, PowersApart DEF IsLoan
    <2>5. g \in Nat /\ h \in Nat /\ w \in Nat /\ w > 0
      BY <1>3, GrowthGood DEF IsLoan
    <2>6. w <= l.num * h * least /\ least <= e
      BY <1>3, EmiGood DEF Sizeable, IsLoan
    <2>7. Near(b, e, N, D, s, d, p, g, h) /\ h = p * d
      BY <1>3 DEF OnTrack
    <2> HIDE DEF s, d, p, g, h, left
    <2>8. least \in Int
      BY <2>5 DEF IsLoan
    <2> HIDE DEF least
    <2>9. w <= e * l.num * h
      <3>1. l.num * h \in Nat
        BY <2>5 DEF IsLoan
      <3>2. (l.num * h) * least <= (l.num * h) * e
        BY <1>1, <2>6, <2>8, <3>1, Scaled
      <3>3. (l.num * h) * e = e * l.num * h
        BY <1>1, <2>5 DEF IsLoan
      <3> HIDE DEF w
      <3>4. QED
        BY <1>1, <2>5, <2>6, <2>8, <3>1, <3>2, <3>3
    <2>10. D * (g - h) <= e * N * h
      BY <2>9
    <2>11. N \in Nat /\ N > 0 /\ D \in Nat /\ D > 0 /\ S \in Nat /\ S = D + N
      BY <1>3 DEF IsLoan
    <2>12. s > 0
      BY <2>2, <2>3
    <2> HIDE DEF N, D, S, w
    <2>13. QED
      BY <1>1, <2>2, <2>4, <2>5, <2>7, <2>10, <2>11, <2>12, NearAbove
  <1>4. QED
    BY <1>2, <1>3

(* What the last installment adds to the EMI is what rounding took off it. *)
LEMMA LastOwed ==
    ASSUME NEW l, IsLoan(l), NEW e \in CalculateEmi(l), NEW b \in Nat,
           OnTrack(l, e, l.tenure, b)
    PROVE  (b - e) * Whole(l) <= l.tenure * Grown(l)
  <1>1. e \in Nat
    BY EmiGood
  <1> DEFINE g == Grown(l)
             h == Whole(l)
  <1>2. /\ g \in Nat /\ h \in Nat /\ h > 0 /\ h <= g
        /\ l.den * (g - h) <= l.tenure * l.num * g
    BY GrowthGood
  <1>3. CASE l.num = 0
    <2>1. b = l.principal - (l.tenure - 1) * e /\ -l.tenure <= 2 * (e * l.tenure - l.principal)
      BY <1>3, EmiGood DEF OnTrack
    <2>2. 2 * (b - e) <= l.tenure
      BY <1>1, <2>1 DEF IsLoan
    <2>3. b - e <= l.tenure
      BY <1>1, <2>2 DEF IsLoan
    <2> HIDE DEF g, h
    <2>4. h * (b - e) <= h * l.tenure /\ l.tenure * h <= l.tenure * g
      BY <1>1, <1>2, <2>3, Scaled DEF IsLoan
    <2>5. QED
      BY <1>1, <1>2, <2>4 DEF IsLoan, g, h
  <1>4. CASE l.num # 0
    <2> DEFINE N == l.num
               D == l.den
               S == l.den + l.num
               n == l.tenure
               p == PowersOf(D)[n - 1]
    <2>1. /\ N \in Nat /\ N > 0 /\ D \in Nat /\ D > 0 /\ S \in Nat /\ S = D + N
          /\ n \in Nat /\ n - 1 \in Nat /\ n + 1 - n = 0 + 1
      BY <1>4 DEF IsLoan
    <2>2. /\ p \in Nat
          /\ PowersOf(D)[0 + 1] = D
          /\ PowersOf(S)[0 + 1] = S
      <3> HIDE DEF N, D, S, n
      <3>1. p \in Nat
        BY <2>1, PowersGrow
      <3>2. PowersOf(D)[0] = 1 /\ PowersOf(D)[0 + 1] = D * PowersOf(D)[0]
        BY <2>1, PowersGrow
      <3>3. PowersOf(S)[0] = 1 /\ PowersOf(S)[0 + 1] = S * PowersOf(S)[0]
        BY <2>1, PowersGrow
      <3>4. QED
        BY <2>1, <3>1, <3>2, <3>3
    <2>3. Near(b, e, N, D, S, D, p, g, h) /\ h = p * D
      BY <1>4, <2>1, <2>2 DEF OnTrack
    <2>4. D * (g - h) <= n * N * g
      BY <1>2
    <2> HIDE DEF N, D, S, n, p, g, h
    <2>5. h = D * p
      BY <2>1, <2>2, <2>3
    <2>6. (b - e) * h <= n * g
      BY <1>1, <1>2, <2>1, <2>2, <2>3, <2>4, <2>5, NearLast
    <2>7. QED
      BY <2>6 DEF n, g, h
  <1>5. QED
    BY <1>3, <1>4

LEMMA ScheduleStart ==
    ASSUME ScheduleInit
    PROVE  ScheduleInv
  <1>1. IsLoan(loan) /\ loan \in Loans /\ emi \in CalculateEmi(loan)
    BY LoanGood DEF ScheduleInit
  <1>2. emi \in Nat
    BY <1>1, EmiGood
  <1>3. OnTrack(loan, emi, month, balance)
    BY <1>1, OnTrackStart DEF ScheduleInit
  <1>4. ScheduleTypeOK
    BY <1>1, <1>2 DEF ScheduleInit, ScheduleTypeOK, IsLoan
  <1>5. /\ charged = repaid + interest /\ repaid + balance = loan.principal
        /\ month <= loan.tenure
    BY <1>1 DEF ScheduleInit, IsLoan
  <1>6. ~(month > loan.tenure)
    BY <1>1 DEF ScheduleInit, IsLoan
  <1>7. QED
    BY <1>1, <1>3, <1>4, <1>5, <1>6 DEF ScheduleInv

(* A month of the loop keeps the books, and the balance on track unless    *)
(* it is clamped.                                                          *)
LEMMA InstallmentKeeps ==
    ASSUME ScheduleInv, Installment
    PROVE  ScheduleInv'
  <1>1. PICK i \in InterestOn(balance) : Pay(emi - i, i, emi)
    BY DEF Installment
  <1>2. /\ loan \in Loans /\ emi \in CalculateEmi(loan) /\ IsLoan(loan)
        /\ balance \in 0..loan.principal /\ month \in 1..loan.tenure /\ month < loan.tenure
        /\ interest \in Nat /\ repaid \in Nat /\ charged \in Nat
        /\ i \in Rounded(balance * loan.num, loan.den)
    <2>1. loan \in Loans /\ month \in 1..(loan.tenure + 1) /\ month < loan.tenure
      BY DEF ScheduleInv, ScheduleTypeOK, Installment
    <2>2. IsLoan(loan)
      BY <2>1, LoanGood
    <2>3. month \in 1..loan.tenure
      BY <2>1, <2>2 DEF IsLoan
    <2>4. QED
      BY <1>1, <2>1, <2>2, <2>3 DEF ScheduleInv, ScheduleTypeOK, InterestOn
  <1>3. emi \in Nat
    BY <1>2, EmiGood
  <1>4. i \in Nat /\ i <= emi /\ (balance = 0 => i = 0)
    BY <1>2, InterestGood
  <1> DEFINE paid == emi - i
  <1>5. paid \in Nat /\ balance \in Nat
    BY <1>2, <1>3, <1>4 DEF IsLoan
  <1>6. /\ month' = month + 1 /\ month' <= loan.tenure
        /\ balance' = IF balance < paid THEN 0 ELSE balance - paid
        /\ interest' = interest + i /\ repaid' = repaid + paid /\ charged' = charged + emi
        /\ loan' = loan /\ emi' = emi
    BY <1>1, <1>2 DEF Pay, IsLoan
  <1>7. OnTrack(loan, emi, month, balance) => OnTrack(loan, emi, month + 1, balance - paid)
    BY <1>2, OnTrackNext
  <1>8. ScheduleTypeOK'
    <2>1. interest' \in Nat /\ repaid' \in Nat /\ charged' \in Nat
      BY <1>2, <1>3, <1>4, <1>5, <1>6
    <2>2. balance' \in 0..loan.principal
      BY <1>2, <1>5, <1>6 DEF IsLoan
    <2>3. month' \in 1..(loan.tenure + 1)
      BY <1>2, <1>6 DEF IsLoan
    <2>4. QED
      BY <1>2, <1>3, <1>6, <2>1, <2>2, <2>3 DEF ScheduleTypeOK
  <1>9. charged' = repaid' + interest'
    <2>1. charged = repaid + interest
      BY DEF ScheduleInv
    <2>2. QED
      BY <1>2, <1>3, <1>4, <1>6, <2>1
  <1>10. ~(month' > loan.tenure)
    BY <1>2, <1>6 DEF IsLoan
  <1>11. /\ balance' = balance - paid => repaid' + balance' = repaid + balance
         /\ balance < paid => balance' = 0 /\ repaid' > repaid + balance
         /\ ~(balance < paid) => balance' = balance - paid
    BY <1>2, <1>5, <1>6
  <1>12. \/ OnTrack(loan, emi, month', balance') /\ repaid' + balance' = loan.principal
         \/ balance' = 0 /\ repaid' >= loan.principal
    <2>1. CASE OnTrack(loan, emi, month, balance) /\ repaid + balance = loan.principal
      <3>1. CASE balance < paid
        <4>1. balance' = 0 /\ repaid' > loan.principal
          BY <1>11, <2>1, <3>1
        <4>2. QED
          BY <1>2, <1>5, <1>6, <4>1 DEF IsLoan
      <3>2. CASE ~(balance < paid)
        BY <1>6, <1>7, <1>11, <2>1, <3>2
      <3>3. QED
        BY <3>1, <3>2
    <2>2. CASE balance = 0 /\ repaid >= loan.principal
      <3>1. balance' = 0
        BY <1>5, <1>6, <2>2
      <3>2. repaid' >= loan.principal
        BY <1>2, <1>5, <1>6, <2>2 DEF IsLoan
      <3>3. QED
        BY <3>1, <3>2
    <2>3. QED
      BY <2>1, <2>2 DEF ScheduleInv
  <1>13. ASSUME Sizeable(loan)
         PROVE  repaid' + balance' = loan.principal /\ OnTrack(loan, emi, month', balance')
    <2>1. repaid + balance = loan.principal /\ OnTrack(loan, emi, month, balance)
      BY <1>2, <1>13 DEF ScheduleInv
    <2>2. OnTrack(loan, emi, month + 1, balance - paid)
      BY <1>7, <2>1
    <2>3. month + 1 \in 1..loan.tenure /\ balance - paid \in Int
      BY <1>2, <1>5 DEF IsLoan
    <2> HIDE DEF paid
    <2>4. balance - paid >= 0
      BY <1>2, <1>13, <2>2, <2>3, SizeableIsOwed
    <2>5. ~(balance < paid)
      BY <1>5, <2>4
    <2>6. QED
      BY <1>6, <1>11, <2>1, <2>2, <2>5
  <1> HIDE DEF paid
  <1>14. QED
    BY <1>2, <1>6, <1>8, <1>9, <1>10, <1>12, <1>13 DEF ScheduleInv

LEMMA LastInstallmentKeeps ==
    ASSUME ScheduleInv, LastInstallment
    PROVE  ScheduleInv'
  <1> DEFINE rest == IF emi > balance THEN emi - balance ELSE 0
  <1>1. /\ loan \in Loans /\ emi \in CalculateEmi(loan) /\ emi \in Nat
        /\ balance \in 0..loan.principal /\ month = loan.tenure
        /\ interest \in Nat /\ repaid \in Nat /\ charged \in Nat
        /\ charged = repaid + interest
    BY DEF ScheduleInv, ScheduleTypeOK, LastInstallment
  <1>2. IsLoan(loan)
    BY <1>1, LoanGood
  <1>3. balance \in Nat /\ rest \in Nat
    BY <1>1, <1>2 DEF IsLoan
  <1>4. /\ month' = month + 1
        /\ balance' = IF balance < balance THEN 0 ELSE balance - balance
        /\ interest' = interest + rest /\ repaid' = repaid + balance
        /\ charged' = charged + (balance + rest)
        /\ loan' = loan /\ emi' = emi
    BY DEF LastInstallment, Pay
  <1> HIDE DEF rest
  <1>5. balance' = 0 /\ charged' = repaid' + interest'
    BY <1>1, <1>3, <1>4
  <1>6. ScheduleTypeOK'
    <2>1. month' \in 1..(loan.tenure + 1) /\ balance' \in 0..loan.principal
      BY <1>1, <1>2, <1>4, <1>5 DEF IsLoan
    <2>2. interest' \in Nat /\ repaid' \in Nat /\ charged' \in Nat
      BY <1>1, <1>3, <1>4
    <2>3. QED
      BY <1>1, <1>4, <2>1, <2>2 DEF ScheduleTypeOK
  <1>7. repaid' >= loan.principal
    <2>1. \/ repaid + balance = loan.principal
          \/ balance = 0 /\ repaid >= loan.principal
      BY DEF ScheduleInv
    <2>2. QED
      BY <1>1, <1>2, <1>4, <2>1 DEF IsLoan
  <1>8. Sizeable(loan) => repaid' + balance' = loan.principal
    <2>1. Sizeable(loan) => repaid + balance = loan.principal
      BY DEF ScheduleInv
    <2>2. QED
      BY <1>1, <1>3, <1>4, <1>5, <2>1
  <1>9. ~(month' <= loan.tenure)
    BY <1>1, <1>2, <1>4 DEF IsLoan
  <1>10. QED
    BY <1>1, <1>4, <1>5, <1>6, <1>7, <1>8, <1>9 DEF ScheduleInv

LEMMA ScheduleStep ==
    ASSUME ScheduleInv, [ScheduleNext]_scheduleVars
    PROVE  ScheduleInv'
  <1>1. CASE Installment
    BY <1>1, InstallmentKeeps
  <1>2. CASE LastInstallment
    BY <1>2, LastInstallmentKeeps
  <1>3. CASE UNCHANGED scheduleVars
    BY <1>3 DEF scheduleVars, ScheduleInv, ScheduleTypeOK
  <1>4. QED
    BY <1>1, <1>2, <1>3 DEF ScheduleNext

(* generate_schedule keeps its books, for any set of loans, and its        *)
(* balance follows the exact one as closely as rounding to cents allows.   *)
THEOREM ScheduleInvariant ==
    ScheduleSpec => []ScheduleInv
  <1>1. ScheduleInit => ScheduleInv
    BY ScheduleStart
  <1>2. ScheduleInv /\ [ScheduleNext]_scheduleVars => ScheduleInv'
    BY ScheduleStep
  <1>3. QED
    BY <1>1, <1>2, PTL DEF ScheduleSpec

(* Every amount of every schedule has its type: no balance is negative or  *)
(* above the principal, and the sums never fall below zero.                *)
THEOREM ScheduleTypeCorrect ==
    ScheduleSpec => []ScheduleTypeOK
  <1>1. ScheduleInv => ScheduleTypeOK
    BY DEF ScheduleInv
  <1>2. QED
    BY <1>1, ScheduleInvariant, PTL

(* calculate_emi and generate_schedule, for any loan: the books balance,   *)
(* nothing is owed at the end, and no less than the principal is repaid.   *)
THEOREM NothingIsOwed ==
    ScheduleSpec => [](ScheduleFinished => /\ balance = 0 /\ repaid >= loan.principal
                                           /\ charged = repaid + interest)
  <1>1. ScheduleInv => (ScheduleFinished => /\ balance = 0 /\ repaid >= loan.principal
                                            /\ charged = repaid + interest)
    <2> SUFFICES ASSUME ScheduleInv, ScheduleFinished
                 PROVE  balance = 0 /\ repaid >= loan.principal /\ charged = repaid + interest
      OBVIOUS
    <2>1. month = loan.tenure + 1 /\ loan \in Loans /\ repaid \in Nat
      BY DEF ScheduleFinished, ScheduleInv, ScheduleTypeOK
    <2>2. month > loan.tenure /\ ~(month <= loan.tenure)
      BY <2>1, LoanGood DEF IsLoan
    <2>3. QED
      BY <2>2 DEF ScheduleInv
  <1>2. QED
    BY <1>1, ScheduleInvariant, PTL

(* generate_schedule repays a sizeable loan to the cent.                   *)
THEOREM RepaidInFull ==
    ScheduleSpec => [](Sizeable(loan) => LoanIsRepaid)
  <1>1. ScheduleInv => (Sizeable(loan) => LoanIsRepaid)
    <2> SUFFICES ASSUME ScheduleInv, Sizeable(loan), ScheduleFinished
                 PROVE  repaid = loan.principal /\ balance = 0 /\ charged = loan.principal + interest
      BY DEF LoanIsRepaid
    <2>1. month = loan.tenure + 1 /\ loan \in Loans /\ repaid \in Nat
      BY DEF ScheduleFinished, ScheduleInv, ScheduleTypeOK
    <2>2. month > loan.tenure /\ ~(month <= loan.tenure)
      BY <2>1, LoanGood DEF IsLoan
    <2>3. balance = 0 /\ repaid + balance = loan.principal /\ charged = repaid + interest
      BY <2>2 DEF ScheduleInv
    <2>4. QED
      BY <2>1, <2>3
  <1>2. QED
    BY <1>1, ScheduleInvariant, PTL

(* generate_schedule makes the last installment of any loan, sizeable or   *)
(* not, differ from the others by what rounding can have left over at most.*)
THEOREM LastNearEmi ==
    ScheduleSpec => LastIsNearEmi
  <1> DEFINE Close == ScheduleFinished' =>
                        Abs((charged' - charged) - emi) * Whole(loan)
                          <= loan.tenure * Grown(loan)
  <1>1. ScheduleInv /\ [ScheduleNext]_scheduleVars => [Close]_(scheduleVars)
    <2> SUFFICES ASSUME ScheduleInv, ScheduleNext, ScheduleFinished'
                 PROVE  Abs((charged' - charged) - emi) * Whole(loan)
                          <= loan.tenure * Grown(loan)
      OBVIOUS
    <2>1. /\ loan \in Loans /\ emi \in CalculateEmi(loan) /\ emi \in Nat
          /\ balance \in 0..loan.principal /\ charged \in Nat /\ month \in 1..(loan.tenure + 1)
      BY DEF ScheduleInv, ScheduleTypeOK
    <2>2. IsLoan(loan)
      BY <2>1, LoanGood
    <2>3. LastInstallment
      <3>1. ASSUME Installment
            PROVE  FALSE
        <4>1. month < loan.tenure /\ month' = month + 1 /\ month' = loan.tenure + 1
          BY <3>1 DEF Installment, Pay, ScheduleFinished
        <4>2. QED
          BY <2>1, <2>2, <4>1 DEF IsLoan
      <3>2. QED
        BY <3>1 DEF ScheduleNext
    <2> DEFINE rest == IF emi > balance THEN emi - balance ELSE 0
               more == balance + rest - emi
    <2>4. charged' = charged + (balance + rest) /\ month = loan.tenure
      BY <2>3 DEF LastInstallment, Pay
    <2>5. balance \in Nat /\ more \in Nat /\ (more = 0 \/ more = balance - emi)
      BY <2>1, <2>2 DEF IsLoan
    <2>6. Abs((charged' - charged) - emi) = more
      <3>1. rest \in Nat
        BY <2>1, <2>5
      <3> HIDE DEF rest
      <3>2. (charged' - charged) - emi = more
        BY <2>1, <2>4, <2>5, <3>1
      <3>3. QED
        BY <2>5, <3>2 DEF Abs
    <2>7. /\ Whole(loan) \in Nat /\ Grown(loan) \in Nat
          /\ loan.tenure * Grown(loan) \in Nat
      BY <2>2, GrowthGood DEF IsLoan
    <2>8. more * Whole(loan) <= loan.tenure * Grown(loan)
      <3>1. CASE OnTrack(loan, emi, month, balance)
        <4>1. (balance - emi) * Whole(loan) <= loan.tenure * Grown(loan)
          BY <2>1, <2>2, <2>4, <2>5, <3>1, LastOwed
        <4> HIDE DEF more
        <4>2. QED
          BY <2>5, <2>7, <4>1
      <3>2. CASE balance = 0
        <4>1. more = 0
          BY <2>1, <3>2
        <4> HIDE DEF more
        <4>2. QED
          BY <2>7, <4>1
      <3>3. QED
        BY <3>1, <3>2 DEF ScheduleInv
    <2>9. QED
      BY <2>6, <2>8
  <1>2. QED
    BY <1>1, ScheduleInvariant, PTL DEF ScheduleSpec, LastIsNearEmi
=============================================================================
