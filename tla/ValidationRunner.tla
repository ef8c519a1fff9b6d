--------------------------- MODULE ValidationRunner ---------------------------
(***************************************************************************)
(* Validation (validation/runner.py, ports/validation.py): the plan that    *)
(* the coordinator caps to the time left, its commands in order through the *)
(* command runner, one result per command and their aggregate.              *)
(***************************************************************************)
EXTENDS CommandRunner, Sums

VARIABLES
    plan,        \* the capped plan, or None
    validation,  \* where execute() is
    results      \* the results so far, in plan order

validationVars == <<plan, validation, results>>

PASSING == {"PASSED", "PASSED_WITH_ADVISORIES"}
INCOMPLETE == {"TIMED_OUT", "CANCELLED", "BLOCKED", "UNAVAILABLE", "INVALID", "NOT_RUN"}
ValidationStatus == PASSING \cup INCOMPLETE \cup {"FAILED"}

\* `command` is the status of the command runner, None when it was not asked, and
\* `ran` the number of the process in exits, 0 when none was launched.
ValidationCommandResult == [status : ValidationStatus, command : CommandStatus \cup {None},
                            ran : Nat, output : Output]

\* `require_complete` when truncated output is no evidence
ValidationCommand == [required : BOOLEAN, timeout : Nat \ {0}, require_complete : BOOLEAN]
ValidationPlan == [commands : Seq(ValidationCommand), fail_fast : BOOLEAN,
                   allow_advisory_failures : BOOLEAN]

ValidationType ==
    /\ plan \in ValidationPlan \cup {None}
    /\ validation \in [pc : {"start", "next", "running", "returned", "raised"},
                       status : ValidationStatus \cup {None}, approvable : BOOLEAN]
    /\ results \in Seq(ValidationCommandResult)

Total(timeouts) == SumOver(timeouts, DOMAIN timeouts)

\* Defect: the last commands may be left without a second.
CapValidationPlanGreedy(timeouts, allowance) ==
    LET available == IF allowance < Total(timeouts) THEN allowance ELSE Total(timeouts)
        cap[n \in 0 .. Len(timeouts)] ==
            IF n = 0 THEN <<>>
            ELSE Append(cap[n - 1], IF timeouts[n] < available THEN timeouts[n] ELSE available)
    IN IF available < Len(timeouts) THEN None ELSE cap[Len(timeouts)]

\* _cap_validation_plan: whole seconds, at least one for every command; None
\* when the allowance cannot give each command one.
CapValidationPlan(timeouts, allowance) ==
    LET total == Total(timeouts)
        available == IF allowance < total THEN allowance ELSE total
        cap[n \in 0 .. Len(timeouts)] ==
            IF n = 0 THEN <<>>
            ELSE LET left == available - Total(cap[n - 1]) - (Len(timeouts) - n)
                 IN Append(cap[n - 1], IF timeouts[n] < left THEN timeouts[n] ELSE left)
    IN IF available < Len(timeouts) THEN None ELSE cap[Len(timeouts)]

Commands == plan.commands
Sequence == Len(results) + 1
Command == Commands[Sequence]

Record(status, command, ran, output) ==
    Append(results, [status |-> status, command |-> command, ran |-> ran, output |-> output])
Unlaunched(status) == Record(status, None, 0, "captured")

\* _not_run_results: NOT_RUN for the commands that follow
NotRun(recorded) ==
    recorded \o [n \in 1 .. Len(Commands) - Len(recorded) |-> 
                    [status |-> "NOT_RUN", command |-> None, ran |-> 0, output |-> "captured"]]

----------------------------------------------------------------------------
(* aggregate_validation_results                                             *)

Required(n) == Commands[n].required
StatusOf(recorded, n) == recorded[n].status

RequiredPassed(recorded) ==
    \A n \in DOMAIN recorded : Required(n) => StatusOf(recorded, n) = "PASSED"

AllComplete(recorded) == \A n \in DOMAIN recorded : StatusOf(recorded, n) \notin INCOMPLETE

OnlyAllowed(recorded) ==
    \A n \in DOMAIN recorded :
        \/ StatusOf(recorded, n) = "PASSED"
        \/ ~Required(n) /\ StatusOf(recorded, n) = "FAILED" /\ plan.allow_advisory_failures

\* _aggregate_failure_status: the first of these that occurs
FailureStatus(recorded) ==
    LET order == <<"CANCELLED", "TIMED_OUT", "INVALID", "UNAVAILABLE", "BLOCKED", "FAILED">>
        found == {i \in DOMAIN order : \E n \in DOMAIN recorded : StatusOf(recorded, n) = order[i]}
    IN IF found = {} THEN "INVALID" ELSE order[Min(found)]

AggregateStatus(recorded) ==
    IF RequiredPassed(recorded) /\ AllComplete(recorded) /\ OnlyAllowed(recorded)
    THEN IF \E n \in DOMAIN recorded : StatusOf(recorded, n) = "FAILED"
         THEN "PASSED_WITH_ADVISORIES" ELSE "PASSED"
    ELSE FailureStatus(recorded)

Aggregate(recorded) ==
    /\ results' = recorded
    /\ validation' = [pc |-> "returned", status |-> AggregateStatus(recorded),
                      approvable |-> /\ AggregateStatus(recorded) \in PASSING
                                     /\ RequiredPassed(recorded) /\ AllComplete(recorded)]

----------------------------------------------------------------------------
(* execute                                                                  *)

\* Workspace, environment and working directories before anything is launched
Preflight ==
    /\ validation.pc = "start" /\ plan # None
    /\ \/ validation' = [validation EXCEPT !.pc = "next"] /\ UNCHANGED results
       \/ Aggregate(NotRun(Unlaunched("INVALID")))
    /\ UNCHANGED <<plan, runnerVars>>

\* Defect: a cancellation is an outcome like any other.
ShouldStopFailFast(status, required) ==
    /\ plan.fail_fast /\ status # "PASSED"
    /\ ~(~required /\ status = "FAILED" /\ plan.allow_advisory_failures)

\* _should_stop
ShouldStop(status, required) ==
    \/ status = "CANCELLED"
    \/ /\ plan.fail_fast /\ status # "PASSED"
       /\ ~(~required /\ status = "FAILED" /\ plan.allow_advisory_failures)

\* The result is appended; the plan stops, ends or goes on.
Advance(recorded, stop) ==
    IF stop \/ Len(recorded) = Len(Commands)
    THEN Aggregate(NotRun(recorded))
    ELSE results' = recorded /\ validation' = [validation EXCEPT !.pc = "next"]

\* The token, the working directory once more, then the command runner.  A
\* workspace that is gone by now raises.
StartCommand ==
    /\ validation.pc = "next"
    /\ \/ /\ cancelled
          /\ Aggregate(NotRun(Unlaunched("CANCELLED")))
          /\ UNCHANGED runnerVars
       \/ /\ ~cancelled
          /\ Run(Command.timeout)
          /\ validation' = [validation EXCEPT !.pc = "running"]
          /\ UNCHANGED <<results, cancelled, exits>>
       \/ /\ ~cancelled
          /\ Advance(Unlaunched("INVALID"), ShouldStop("INVALID", Command.required))
          /\ UNCHANGED runnerVars
       \/ /\ ~cancelled
          /\ validation' = [validation EXCEPT !.pc = "raised"]
          /\ UNCHANGED <<results, runnerVars>>
    /\ UNCHANGED plan

\* Defect: takes any output that was captured for complete evidence.
CommandOutcomeAnyOutput(result) ==
    CASE result.status = "SUCCESS" -> "PASSED"
      [] result.status = "NONZERO_EXIT" -> "FAILED"
      [] result.status = "TIMEOUT" -> "TIMED_OUT"
      [] result.status = "CANCELLED" -> "CANCELLED"
      [] result.status = "EXECUTABLE_UNAVAILABLE" -> "UNAVAILABLE"
      [] result.status \in {"POLICY_REJECTED", "LAUNCH_FAILED"} -> "BLOCKED"
      [] result.status \in {"OUTPUT_ARTIFACT_FAILED", "INTERNAL_ERROR"} -> "INVALID"

\* _require_output_completeness
Incomplete(result) == result.output = "truncated" /\ Command.require_complete

\* _normalize_command_result and _map_command_status: evidence that is required
\* to be complete and was truncated is invalid whatever the command did.
CommandOutcome(result) ==
    IF Incomplete(result) THEN "INVALID"
    ELSE CASE result.status = "SUCCESS" -> "PASSED"
           [] result.status = "NONZERO_EXIT" -> "FAILED"
           [] result.status = "TIMEOUT" -> "TIMED_OUT"
           [] result.status = "CANCELLED" -> "CANCELLED"
           [] result.status = "EXECUTABLE_UNAVAILABLE" -> "UNAVAILABLE"
           [] result.status \in {"POLICY_REJECTED", "LAUNCH_FAILED"} -> "BLOCKED"
           [] result.status \in {"OUTPUT_ARTIFACT_FAILED", "INTERNAL_ERROR"} -> "INVALID"

\* The result of the command runner.  A start before the previous result (the
\* clock was set back) and a vanished artifact are invalid; ValidationCommandResult
\* refuses a negative exit code, which raises out of execute.
CommandReturned ==
    /\ validation.pc = "running" /\ runner.pc = "returned"
    /\ IF runner.result.exit_code = "signal"
       THEN validation' = [validation EXCEPT !.pc = "raised"] /\ UNCHANGED results
       ELSE \E status \in {CommandOutcome(runner.result), "INVALID"} :
              Advance(Record(status, runner.result.status,
                             IF child.state = "exited" THEN Len(exits) ELSE 0,
                             runner.result.output),
                      ShouldStop(status, Command.required))
    /\ runner' = IdleRunner /\ child' = NoChild /\ elapsed' = 0
    /\ UNCHANGED <<plan, cancelled, exits>>

ValidationStep == Preflight \/ StartCommand \/ CommandReturned
=============================================================================
