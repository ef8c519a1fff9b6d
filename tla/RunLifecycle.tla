---------------------------- MODULE RunLifecycle ----------------------------
(***************************************************************************)
(* What the run store and the coordinator promise about one run, with no   *)
(* clients, journals or crashes: its revision grows by one at a time, each *)
(* time along an edge of the canonical table, and a counter moves only on  *)
(* the exit of its own phase and never past its budget.                    *)
(***************************************************************************)
EXTENDS RunStateMachine

VARIABLES
    state,      \* the durable state of the run
    attempts,   \* its attempt counters
    revision    \* how many transitions were committed

vars == <<state, attempts, revision>>

Init ==
    /\ state = "CREATED"
    /\ attempts = [k \in AttemptCounterKinds |-> 0]
    /\ revision = 0

Advance(destination, increment) ==
    /\ destination \in permitted_destinations(state)
    /\ increment # NoIncrement =>
          /\ state = AttemptSource(increment)
          /\ attempts[increment] < AttemptLimit(increment)
    /\ state' = destination
    /\ attempts' = [k \in AttemptCounterKinds |->
                       IF k = increment THEN attempts[k] + 1 ELSE attempts[k]]
    /\ revision' = revision + 1

Next ==
    \E destination \in RunStates, increment \in AttemptCounterKinds \cup {NoIncrement} :
        Advance(destination, increment)

Spec == Init /\ [][Next]_vars
=============================================================================
