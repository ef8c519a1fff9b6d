-------------------------- MODULE RunStateMachine --------------------------
(***************************************************************************)
(* The pure state machine of a run: domain/state_machine.py together with  *)
(* the validators of domain/models.py that every Run value must satisfy.   *)
(*                                                                         *)
(* A Run is abstracted to what the transition function reads and writes:   *)
(* its state, its three attempt counters, its last timestamp and the       *)
(* approval evidence it retains.  Task, work package and budgets never     *)
(* change during a run; the attempt budgets are the constants below.       *)
(***************************************************************************)
EXTENDS Integers

CONSTANTS
    MaxBuildAttempts,   \* BudgetLimits.max_build_attempts
    MaxReviewAttempts,  \* BudgetLimits.max_review_attempts
    MaxRepairAttempts   \* BudgetLimits.max_repair_attempts

\* The Field bounds of BudgetLimits (ge=1 for build and review, ge=0 for repair).
ASSUME BudgetAssumption ==
    /\ MaxBuildAttempts \in Nat \ {0}
    /\ MaxReviewAttempts \in Nat \ {0}
    /\ MaxRepairAttempts \in Nat

TerminalStates == {"APPROVED", "FAILED", "BLOCKED", "CANCELLED"}

RunStates ==
    {"CREATED", "PLANNING", "CONTEXT_PREPARING", "WORKSPACE_PREPARING",
     "BUILDING", "VALIDATING", "REVIEWING", "REPAIRING"} \cup TerminalStates

(***************************************************************************)
(* The canonical edges without CANCELLED, which _CANCELLED adds to every   *)
(* state that is not terminal.                                             *)
(***************************************************************************)
ForwardEdges ==
    {<<"CREATED", "PLANNING">>, <<"CREATED", "BLOCKED">>,
     <<"PLANNING", "CONTEXT_PREPARING">>, <<"PLANNING", "BLOCKED">>,
     <<"CONTEXT_PREPARING", "WORKSPACE_PREPARING">>,
     <<"CONTEXT_PREPARING", "BLOCKED">>, <<"CONTEXT_PREPARING", "FAILED">>,
     <<"WORKSPACE_PREPARING", "BUILDING">>, <<"WORKSPACE_PREPARING", "BLOCKED">>,
     <<"BUILDING", "VALIDATING">>, <<"BUILDING", "FAILED">>, <<"BUILDING", "BLOCKED">>,
     <<"VALIDATING", "REVIEWING">>, <<"VALIDATING", "REPAIRING">>,
     <<"VALIDATING", "FAILED">>, <<"VALIDATING", "BLOCKED">>,
     <<"REVIEWING", "APPROVED">>, <<"REVIEWING", "REPAIRING">>,
     <<"REVIEWING", "FAILED">>, <<"REVIEWING", "BLOCKED">>,
     <<"REPAIRING", "VALIDATING">>, <<"REPAIRING", "FAILED">>, <<"REPAIRING", "BLOCKED">>}

\* Defect: CANCELLED is reachable from every state, terminal ones included.
EdgesCancelAnywhere == ForwardEdges \cup (RunStates \X {"CANCELLED"})

Edges == ForwardEdges \cup ((RunStates \ TerminalStates) \X {"CANCELLED"})

permitted_destinations(source) == {d \in RunStates : <<source, d>> \in Edges}

AttemptCounterKinds == {"build", "review", "repair"}
NoIncrement == "none"

\* attempt_sources: the one state whose exit may increment a counter.
AttemptSource(kind) ==
    CASE kind = "build" -> "BUILDING"
      [] kind = "review" -> "REVIEWING"
      [] kind = "repair" -> "REPAIRING"

AttemptLimit(kind) ==
    CASE kind = "build" -> MaxBuildAttempts
      [] kind = "review" -> MaxReviewAttempts
      [] kind = "repair" -> MaxRepairAttempts

AttemptCounters == [AttemptCounterKinds -> Nat]

(***************************************************************************)
(* Approval evidence.  ApprovalGate.failed_gates is a tuple of the names   *)
(* of the local checks that failed; a gate is satisfied when it is empty.  *)
(* Which checks failed never matters to the state machine, so evidence is  *)
(* one of three values.                                                    *)
(***************************************************************************)
NoGate == "no_gate"
Satisfied == "satisfied"
Refused == "refused"
ApprovalGates == {NoGate, Satisfied, Refused}

Runs == [state: RunStates, attempts: AttemptCounters, updated_at: Nat, gate: ApprovalGates]

NewRun(created_at) ==
    [state |-> "CREATED", attempts |-> [k \in AttemptCounterKinds |-> 0],
     updated_at |-> created_at, gate |-> NoGate]

\* Run._validate_state, the model validator that runs on every constructed Run.
ValidRun(run) ==
    /\ (run.state = "APPROVED") <=> (run.gate = Satisfied)
    /\ run.state # "APPROVED" => run.gate = NoGate
    /\ \A k \in AttemptCounterKinds : run.attempts[k] <= AttemptLimit(k)

\* The run that transition_run returns when it accepts.
NextRun(run, destination, occurred_at, gate, increment) ==
    [state |-> destination,
     attempts |-> [k \in AttemptCounterKinds |->
                      IF k = increment THEN run.attempts[k] + 1 ELSE run.attempts[k]],
     updated_at |-> occurred_at,
     gate |-> IF destination = "APPROVED" THEN gate ELSE NoGate]

\* Defect: gate evidence and the validator of the next run are not looked at.
TransitionAcceptedAnyGate(run, destination, occurred_at, gate, increment) ==
    /\ destination \in permitted_destinations(run.state)
    /\ increment # NoIncrement => run.state = AttemptSource(increment)
    /\ occurred_at >= run.updated_at

\* transition_run raises nothing: every check before it builds the next run, and
\* the model validator of that run.
TransitionAccepted(run, destination, occurred_at, gate, increment) ==
    /\ destination \in permitted_destinations(run.state)
    /\ increment # NoIncrement => run.state = AttemptSource(increment)
    /\ occurred_at >= run.updated_at
    /\ IF destination = "APPROVED" THEN gate = Satisfied ELSE gate = NoGate
    /\ ValidRun(NextRun(run, destination, occurred_at, gate, increment))
=============================================================================
