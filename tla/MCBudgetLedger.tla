--------------------------- MODULE MCBudgetLedger ---------------------------
(* Small instance of BudgetLedger for TLC. *)
EXTENDS BudgetLedger, TLC

CONSTANTS c1, c2, b1, v1, v2

TwoClients == {c1, c2}
Attempts == {b1}
Validations == {v1, v2}
AllKeys == Attempts \cup Validations
AllMetrics == {"BUILD_ATTEMPTS", "TOTAL_DURATION"}
KeyMetric == [k \in AllKeys |-> IF k \in Attempts THEN "BUILD_ATTEMPTS" ELSE "TOTAL_DURATION"]
Limits == [m \in AllMetrics |-> 1]
=============================================================================
