------------------------- MODULE MCOnboardingDialog -------------------------
(* Finite instances of OnboardingDialog for TLC. *)
EXTENDS OnboardingDialog

(* At most one request fails or one post comes without having been asked,   *)
(* and in a dialog opened a second time one of these, or one more message.  *)
(* None of these steps is fair, so no behaviour is cut short that the       *)
(* fairness lets go on.                                                     *)
FewIncidents ==
  /\ faults + unasked <= 1
  /\ mount > 1 => asks + faults + unasked <= 3
=============================================================================
