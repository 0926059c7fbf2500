--------------------------- MODULE DisbursementFlow ---------------------------
(***************************************************************************)
(* What one run of the disbursement graph computes, as pure operators:     *)
(* the validation of the loan terms, the answer of the banking gateway,    *)
(* the final graph state, the receipt and the transition history that is   *)
(* derived from the final state.                                           *)
(*                                                                         *)
(* Amounts and tenures are small integers.  SettleLimit stands for the     *)
(* 50 000 above which the gateway leaves a transfer pending.  MaxTenure    *)
(* stands for the tenure above which building the schedule raises (the     *)
(* due date leaves the range of datetime.date, or (1+r)**n overflows).     *)
(***************************************************************************)
EXTENDS Integers, Sequences

CONSTANTS SettleLimit, MaxTenure

ASSUME FlowAssumption == SettleLimit \in Nat /\ MaxTenure \in Nat

(* A DisbursementRequest without its application id.  The API schema makes *)
(* every field mandatory and puts no bound on any of them.                 *)
Terms == [approved_amount : Int, approved_tenure_months : Int,
          interest_rate : Int, disbursement_amount : Int]

FinalStatuses == {"FAILED", "DISBURSED", "TRANSFER_PENDING"}
Statuses == FinalStatuses \cup {"PENDING", "VALIDATED", "SCHEDULED", "TRANSFER_INITIATED"}
TransferStatuses == {"NONE", "SUCCESS", "PENDING", "FAILED"}

(* A zero is reported as a missing field; the sign is not looked at.       *)
MissingFields(t) ==
    {f \in {"approved_amount", "approved_tenure_months", "disbursement_amount"} : t[f] = 0}
ValidTerms(t) == MissingFields(t) = {}

ScheduleRaises(t) == t.approved_tenure_months > MaxTenure
(* range(1, tenure + 1): a negative tenure gives an empty schedule.        *)
Installments(t) == IF t.approved_tenure_months > 0 THEN t.approved_tenure_months ELSE 0

(* The (mock) core banking system.                                         *)
GatewayAnswer(t) ==
    IF t.disbursement_amount <= 0 THEN "FAILED"
    ELSE IF t.disbursement_amount >= SettleLimit THEN "PENDING" ELSE "SUCCESS"
MovesMoney(t) == ValidTerms(t) /\ GatewayAnswer(t) # "FAILED"

\* mutant: a transfer the gateway has not settled is reported as done
TransferOutcome_PendingIsDone(answer) ==
    IF answer \in {"SUCCESS", "PENDING"} THEN "DISBURSED" ELSE "FAILED"
(* build_transfer_result / build_transfer_failure                          *)
TransferOutcome(answer) ==
    CASE answer = "SUCCESS" -> "DISBURSED"
      [] answer = "PENDING" -> "TRANSFER_PENDING"
      [] OTHER              -> "FAILED"

(* The part of DisbursementState the rest of the agent looks at.           *)
FlowState == [validation_passed : BOOLEAN, installments : Nat,
              transfer_status : TransferStatuses, disbursement_status : Statuses]

InitialState ==
    [validation_passed |-> FALSE, installments |-> 0,
     transfer_status |-> "NONE", disbursement_status |-> "PENDING"]

(* The whole graph in one step, for terms whose schedule can be built.     *)
FinalState(t) ==
    IF ~ValidTerms(t)
    THEN [InitialState EXCEPT !.disbursement_status = "FAILED"]
    ELSE [validation_passed |-> TRUE, installments |-> Installments(t),
          transfer_status |-> GatewayAnswer(t),
          disbursement_status |-> TransferOutcome(GatewayAnswer(t))]

HasTransaction(s) == s.transfer_status \in {"SUCCESS", "PENDING"}

(* The receipt: its transaction (0 when the gateway moved nothing) and the *)
(* reconciliation flag, which the transfer result sets for anything the    *)
(* gateway has not settled and a failure clears.                           *)
Receipt == [terms : Terms, disbursement_status : Statuses, txn : Nat,
            reconciliation_required : BOOLEAN]
BuildReceipt(t, s, txn) ==
    [terms |-> t, disbursement_status |-> s.disbursement_status,
     txn |-> IF HasTransaction(s) THEN txn ELSE 0,
     reconciliation_required |-> s.transfer_status = "PENDING"]

-----------------------------------------------------------------------------
(* derive_transition_history                                               *)
Move(from, to) == [from |-> from, to |-> to]
Transition == [from : Statuses \cup {"NONE"}, to : Statuses]

MovesIf(condition, from, to) == IF condition THEN <<Move(from, to)>> ELSE <<>>

ProgressMoves(s) ==
    <<Move("NONE", "PENDING")>>
      \o MovesIf(s.validation_passed, "PENDING", "VALIDATED")
      \o MovesIf(s.validation_passed /\ s.installments > 0, "VALIDATED", "SCHEDULED")
      \o MovesIf(s.validation_passed /\ HasTransaction(s), "SCHEDULED", "TRANSFER_INITIATED")

\* mutant: the last move assumes the usual previous status
TransitionHistory_FixedFrom(s) ==
    ProgressMoves(s) \o MovesIf(s.disbursement_status \in FinalStatuses,
                               "TRANSFER_INITIATED", s.disbursement_status)
TransitionHistory(s) ==
    LET moves == ProgressMoves(s)
    IN  moves \o MovesIf(s.disbursement_status \in FinalStatuses,
                         moves[Len(moves)].to, s.disbursement_status)

(* The moves that do not start where the previous one ended.               *)
Gaps(moves) == {i \in 2..Len(moves) : moves[i].from # moves[i-1].to}
=============================================================================
