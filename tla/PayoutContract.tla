---------------------------- MODULE PayoutContract ----------------------------
(***************************************************************************)
(* What the disbursement agent promises its callers, without the workers,  *)
(* the database or the faults that implement it: an application is claimed *)
(* by one set of terms, money moves at most once and only for those terms, *)
(* and whoever is told the result is told the one settled receipt.  An     *)
(* application may stay claimed or paid for ever: the agent promises no    *)
(* recovery of an interrupted payout.  Nor does it promise to own up to a  *)
(* payment: one whose completion could not be written may be disowned.     *)
(***************************************************************************)
EXTENDS DisbursementFlow

CONSTANTS Apps, Requests, None

VARIABLES phase,      \* how far the payout of an application has come
          claim,      \* the terms it is claimed by
          told        \* what callers have been told: (terms sent, receipt)
vars == <<phase, claim, told>>

Phases == {"open", "claimed", "paid", "settled", "void", "disowned"}

TheReceipt(r) == BuildReceipt(r, FinalState(r), 1)

Init ==
    /\ phase = [a \in Apps |-> "open"]
    /\ claim = [a \in Apps |-> None]
    /\ told = [a \in Apps |-> {}]

Claim(a, r) ==
    /\ phase[a] = "open"
    /\ phase' = [phase EXCEPT ![a] = "claimed"]
    /\ claim' = [claim EXCEPT ![a] = r]
    /\ UNCHANGED told

Pay(a) ==
    /\ phase[a] = "claimed"
    /\ MovesMoney(claim[a])
    /\ phase' = [phase EXCEPT ![a] = "paid"]
    /\ UNCHANGED <<claim, told>>

(* A payout is settled once paid, or at once if its terms move no money.   *)
Settle(a) ==
    /\ \/ phase[a] = "paid"
       \/ phase[a] = "claimed" /\ ~MovesMoney(claim[a])
    /\ phase' = [phase EXCEPT ![a] = "settled"]
    /\ UNCHANGED <<claim, told>>

(* A payout that has moved no money may be given up.                       *)
Void(a) ==
    /\ phase[a] = "claimed"
    /\ phase' = [phase EXCEPT ![a] = "void"]
    /\ UNCHANGED <<claim, told>>

(* One that was paid may be written off as failed: nobody is ever told a   *)
(* receipt of it, and nobody can pay it again.                             *)
Disown(a) ==
    /\ phase[a] = "paid"
    /\ phase' = [phase EXCEPT ![a] = "disowned"]
    /\ UNCHANGED <<claim, told>>

Tell(a) ==
    /\ phase[a] = "settled"
    /\ told' = [told EXCEPT ![a] = @ \cup {[req |-> claim[a],
                                            receipt |-> TheReceipt(claim[a])]}]
    /\ UNCHANGED <<phase, claim>>

Next == \E a \in Apps :
            \/ \E r \in Requests : Claim(a, r)
            \/ Pay(a) \/ Settle(a) \/ Void(a) \/ Disown(a) \/ Tell(a)

Spec == Init /\ [][Next]_vars
=============================================================================
