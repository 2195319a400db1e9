------------------------- MODULE MCLenderTransmission -------------------------
(* Instances of LenderTransmission for TLC. *)
EXTENDS LenderTransmission, TLC

MCGoals == {"IN_REVIEW", "DOCUMENTS_REQUIRED", "OFF_TO_LENDER", "HOLD"}

Alike == Permutations(Submits) \cup Permutations(Retries) \cup Permutations(Movers)
=============================================================================
