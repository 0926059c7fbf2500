--------------------------- MODULE DisbursementGraph --------------------------
(***************************************************************************)
(* The LangGraph of the disbursement agent, one action per node: it shows  *)
(* that the one-step operators of DisbursementFlow, which the agent's      *)
(* concurrent model uses, are what the nodes compute together.             *)
(***************************************************************************)
EXTENDS DisbursementFlow

CONSTANT Requests              \* the terms a caller may send
ASSUME RequestsAssumption == Requests \subseteq Terms

VARIABLES terms,     \* the request being executed
          node,      \* the node the graph executes next, "END" or "RAISED"
          state,     \* the graph state
          ledger,    \* transfers the gateway has executed in this run
          receipt    \* set of receipts built (at most one)
vars == <<terms, node, state, ledger, receipt>>

Nodes == {"validate_decision", "generate_schedule", "execute_transfer",
          "generate_receipt", "END", "RAISED"}

TypeOK ==
    /\ terms \in Requests
    /\ node \in Nodes
    /\ state \in FlowState
    /\ ledger \in Nat
    /\ receipt \subseteq Receipt

Init ==
    /\ terms \in Requests
    /\ node = "validate_decision"
    /\ state = InitialState
    /\ ledger = 0
    /\ receipt = {}

\* mutant: the conditional edge after validation is a plain edge
ValidateDecision_NoRouting ==
    /\ node = "validate_decision"
    /\ state' = [state EXCEPT
                   !.validation_passed = ValidTerms(terms),
                   !.disbursement_status = IF ValidTerms(terms) THEN "VALIDATED" ELSE "FAILED"]
    /\ node' = "generate_schedule"
    /\ UNCHANGED <<terms, ledger, receipt>>

(* validate_decision_node and route_after_validation                       *)
ValidateDecision ==
    /\ node = "validate_decision"
    /\ state' = [state EXCEPT
                   !.validation_passed = ValidTerms(terms),
                   !.disbursement_status = IF ValidTerms(terms) THEN "VALIDATED" ELSE "FAILED"]
    /\ node' = IF state'.validation_passed THEN "generate_schedule" ELSE "generate_receipt"
    /\ UNCHANGED <<terms, ledger, receipt>>

GenerateSchedule ==
    /\ node = "generate_schedule"
    /\ IF ScheduleRaises(terms)
       THEN node' = "RAISED" /\ UNCHANGED state
       ELSE /\ node' = "execute_transfer"
            /\ state' = [state EXCEPT !.installments = Installments(terms),
                                      !.disbursement_status = "SCHEDULED"]
    /\ UNCHANGED <<terms, ledger, receipt>>

\* mutant: an edge that starts the transfer alongside the schedule
ExecuteTransfer_Early ==
    /\ node \in {"generate_schedule", "execute_transfer"}
    /\ state.transfer_status = "NONE"
    /\ LET answer == GatewayAnswer(terms)
       IN  /\ ledger' = IF answer = "FAILED" THEN ledger ELSE ledger + 1
           /\ state' = [state EXCEPT !.transfer_status = answer,
                                     !.disbursement_status = TransferOutcome(answer)]
    /\ node' = IF node = "execute_transfer" THEN "generate_receipt" ELSE node
    /\ UNCHANGED <<terms, receipt>>

(* The gateway mints a new transaction id on every accepted call.          *)
ExecuteTransfer ==
    /\ node = "execute_transfer"
    /\ LET answer == GatewayAnswer(terms)
       IN  /\ ledger' = IF answer = "FAILED" THEN ledger ELSE ledger + 1
           /\ state' = [state EXCEPT !.transfer_status = answer,
                                     !.disbursement_status = TransferOutcome(answer)]
    /\ node' = "generate_receipt"
    /\ UNCHANGED <<terms, receipt>>

GenerateReceipt ==
    /\ node = "generate_receipt"
    /\ receipt' = receipt \cup {BuildReceipt(terms, state, ledger)}
    /\ node' = "END"
    /\ UNCHANGED <<terms, state, ledger>>

Next == ValidateDecision \/ GenerateSchedule \/ ExecuteTransfer \/ GenerateReceipt

(* graph.invoke runs node after node without yielding.                     *)
Spec == Init /\ [][Next]_vars

-----------------------------------------------------------------------------
Finished == node = "END"

(* The nodes together compute FinalState, and the receipt the run leaves   *)
(* is the one built from it; a run that raises has not reached the         *)
(* gateway, so that its caller may record it as FAILED.  The agent's model *)
(* takes the graph for one step that does just this.                       *)
NodesComputeFinalState ==
    /\ Finished => /\ state = FinalState(terms)
                   /\ receipt = {BuildReceipt(terms, FinalState(terms), 1)}
    /\ node = "RAISED" => ScheduleRaises(terms) /\ ledger = 0 /\ receipt = {}

(* The receipt's word on the money is true at every point of the run: it   *)
(* claims a transaction exactly when the gateway has executed one, and it  *)
(* asks for reconciliation exactly when that transfer is unsettled         *)
(* (receipt_builder.py, transfer_state.py).                                *)
ReceiptTellsTheTruth ==
    \A r \in receipt :
        /\ r.txn = ledger
        /\ (r.disbursement_status = "FAILED") <=> (ledger = 0)
        /\ r.reconciliation_required <=> (r.disbursement_status = "TRANSFER_PENDING")

(* The history derived at the end starts with the request, ends in the     *)
(* receipt's status, and passes through TRANSFER_INITIATED iff money       *)
(* moved.  It is a path, each move starting where the last one ended, with *)
(* one exception: a negative tenure makes no schedule, and when money is   *)
(* paid out on it the move to TRANSFER_INITIATED is still written as one   *)
(* from SCHEDULED, which the history never reached.                        *)
HistoryIsAPath ==
    Finished =>
        LET h == TransitionHistory(state)
        IN  /\ h[1] = Move("NONE", "PENDING")
            /\ h[Len(h)].to = state.disbursement_status
            /\ (\E i \in DOMAIN h : h[i].to = "TRANSFER_INITIATED") <=> (ledger > 0)
            /\ Gaps(h) = {i \in 2..Len(h) : /\ terms.approved_tenure_months < 0
                                            /\ h[i-1].to = "VALIDATED"
                                            /\ h[i] = Move("SCHEDULED", "TRANSFER_INITIATED")}
            /\ Gaps(h) # {} <=> (terms.approved_tenure_months < 0 /\ ledger > 0)

-----------------------------------------------------------------------------
(* Where the run stands at each node: what the nodes before it have left   *)
(* in the state, and that the gateway has been called by execute_transfer  *)
(* alone.                                                                  *)
GraphInv ==
    /\ TypeOK
    /\ node = "validate_decision" => state = InitialState
    /\ node \in {"generate_schedule", "execute_transfer"} =>
           /\ ValidTerms(terms)
           /\ state.validation_passed
           /\ state.transfer_status = "NONE"
    /\ node = "generate_schedule" => state.installments = 0
    /\ node = "execute_transfer" => state.installments = Installments(terms)
    /\ node \in {"generate_receipt", "END"} => state = FinalState(terms)
    /\ node = "RAISED" => ScheduleRaises(terms)
    /\ ledger = IF node \in {"generate_receipt", "END"} /\ MovesMoney(terms) THEN 1 ELSE 0
    /\ receipt = IF Finished THEN {BuildReceipt(terms, FinalState(terms), 1)} ELSE {}
=============================================================================
