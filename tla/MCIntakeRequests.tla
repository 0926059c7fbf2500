--------------------------- MODULE MCIntakeRequests ---------------------------
(* Small instance of IntakeRequests: one id of each kind, the two a client *)
(* chooses being sent with two payloads.                                   *)
EXTENDS IntakeRequests, TLC

MCKeys == {"s", "u", "i"}
MCKind == [k \in MCKeys |-> CASE k = "s" -> "submit" [] k = "u" -> "upload" [] k = "i" -> "intake"]
MCPayloads == [k \in MCKeys |-> IF k = "u" THEN {"p"} ELSE {"p", "q"}]
AllOutcomes == {"done", "refused", "unacknowledged"}
Symmetry == Permutations(Workers)
=============================================================================
