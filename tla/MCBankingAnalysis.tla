-------------------------- MODULE MCBankingAnalysis --------------------------
(* Instances of BankingAnalysis for TLC. *)
EXTENDS BankingAnalysis
=============================================================================
