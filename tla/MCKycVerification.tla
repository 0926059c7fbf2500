-------------------------- MODULE MCKycVerification ---------------------------
(* Profiles of an applicant: a clean one, one whose bankruptcy the vendor  *)
(* reports as that of an exposed person, a dead one with the same flag, a  *)
(* sanctioned one and one that cannot be sent to the vendor.               *)
EXTENDS KycVerification

Profile(area, words, dob, letters) ==
    [ssnArea |-> area, words |-> words, dob |-> dob, line1Words |-> words, stateLetters |-> letters,
     phone |-> IF words = 1 THEN "malformed" ELSE "fixed", domain |-> "disposable", mx |-> words = 2]
MCProfiles ==
    [clean |-> Profile(550, 2, <<2010, 12, 1>>, 2),
     exposed |-> Profile(575, 3, <<1900, 1, 1>>, 2),
     dead |-> Profile(670, 2, <<1980, 4, 15>>, 2),
     sanctioned |-> Profile(690, 1, <<1980, 4, 15>>, 2),
     unsendable |-> Profile(550, 2, <<1990, 1, 1>>, 3)]

MCToday == <<2026, 3, 1>>
AllOutcomes == {"done", "refused", "unacknowledged"}
Reliable == {"done"}
Symmetry == Permutations(Workers)
=============================================================================
