--------------------------- MODULE MCLenderDispatch ---------------------------
(* Small instances of LenderDispatch for TLC. *)
EXTENDS LenderDispatch, TLC

CONSTANTS l1, l2, s1, s2, w1, w2

OneEmail == [l \in Lenders |-> "email"]
OneDual == [l \in Lenders |-> "dual"]
OneSheet == [l \in Lenders |-> "sheet"]
ConnectorAndApi == [l \in Lenders |-> IF l = l1 THEN "connector" ELSE "api"]

\* Handlers are interchangeable, and so are the worker instances.  (Used by the
\* runs that check no liveness.)
Symmetry == Permutations(Senders) \cup Permutations(Workers)

===============================================================================
