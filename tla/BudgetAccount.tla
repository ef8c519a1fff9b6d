---------------------------- MODULE BudgetAccount ----------------------------
(***************************************************************************)
(* What the budget telemetry promises of one budgeted metric, without      *)
(* reservations, settlements, coordinators or clocks: capacity is held      *)
(* before work starts, turned into spending once, and a metric whose true   *)
(* spending is unknown or above what was held accepts no more work.         *)
(***************************************************************************)
EXTENDS Integers

CONSTANTS Metrics, Limit

VARIABLES held, spent, closed

vars == <<held, spent, closed>>

Init ==
    /\ held = [m \in Metrics |-> 0]
    /\ spent = [m \in Metrics |-> 0]
    /\ closed = {}

Hold(m) ==
    /\ m \notin closed
    /\ held'[m] > held[m]
    /\ held'[m] + spent[m] <= Limit[m]
    /\ held' = [held EXCEPT ![m] = held'[m]]
    /\ UNCHANGED <<spent, closed>>

\* The amount a release gives back is spent; more than that closes the metric.
Spend(m) ==
    LET released == held[m] - held'[m]
        paid == spent'[m] - spent[m] IN
    /\ released > 0 /\ paid >= 0
    /\ held' = [held EXCEPT ![m] = held'[m]]
    /\ spent' = [spent EXCEPT ![m] = spent'[m]]
    /\ closed' = IF paid > released THEN closed \cup {m} ELSE closed

Abandon(m) ==
    /\ held'[m] < held[m]
    /\ held' = [held EXCEPT ![m] = held'[m]]
    /\ closed' = closed \cup {m}
    /\ UNCHANGED spent

Next == \E m \in Metrics : Hold(m) \/ Spend(m) \/ Abandon(m)

Spec == Init /\ [][Next]_vars
==============================================================================
