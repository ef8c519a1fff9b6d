---------------------------- MODULE CommandRunner ----------------------------
(***************************************************************************)
(* The controlled command runner (commands/local.py) on POSIX: policy,      *)
(* launch, the loop that polls the process, the cancellation token and the  *)
(* clock, termination of the process group, and the normalised result.      *)
(* The process, its descendants, the clock and whoever cancels run beside   *)
(* it, so what a poll saw may be out of date at the next one.               *)
(***************************************************************************)
EXTENDS Integers, Sequences, FiniteSets

CONSTANT None

VARIABLES
    runner,     \* where run() is, why it stops the process, timeout, result
    child,      \* the process it launched
    elapsed,    \* seconds since the launch
    cancelled,  \* the cancellation token
    exits       \* ghost: how each launched process ended, in order

runnerVars == <<runner, child, elapsed, cancelled, exits>>

\* EXECUTABLE_UNAVAILABLE is the status POLICY_REJECTED with that failure category, which
\* the callers tell apart.
CommandStatus == {"SUCCESS", "NONZERO_EXIT", "TIMEOUT", "CANCELLED", "POLICY_REJECTED",
                  "EXECUTABLE_UNAVAILABLE", "LAUNCH_FAILED", "OUTPUT_ARTIFACT_FAILED",
                  "INTERNAL_ERROR"}

\* An exit code among the expected ones, another one, or a negative one: the
\* process was ended by a signal.
ExitCodes == {"expected", "other", "signal"}

\* What was kept of the output: all of it, all of it in an artifact, or a part
Output == {"captured", "artifact", "truncated"}

CommandResult == [status : CommandStatus, exit_code : ExitCodes \cup {None}, output : Output]

RunnerSteps == {"idle", "policy", "token", "launch", "poll", "poll_cancel", "poll_timeout",
                "terminate", "grace", "killed", "streams", "finalize", "returned"}

RunnerType ==
    /\ runner \in [pc : RunnerSteps, why : {None, "CANCELLED", "TIMEOUT", "INTERNAL_ERROR"},
                   timeout : Nat, again : BOOLEAN, result : CommandResult \cup {None}]
    /\ child \in [state : {"none", "running", "exited"}, signal : {"none", "TERM", "KILL"},
                  exit_code : ExitCodes \cup {None}]
    /\ elapsed \in 0 .. runner.timeout
    /\ cancelled \in BOOLEAN
    /\ exits \in Seq(ExitCodes)

NoChild == [state |-> "none", signal |-> "none", exit_code |-> None]
IdleRunner == [pc |-> "idle", why |-> None, timeout |-> 0, again |-> FALSE, result |-> None]

RunnerInit ==
    /\ runner = IdleRunner
    /\ child = NoChild
    /\ elapsed = 0
    /\ cancelled = FALSE
    /\ exits = <<>>

Running == child.state = "running"
At(pc) == runner.pc = pc
Goto(pc) == runner' = [runner EXCEPT !.pc = pc]
Return(status, exit, output) ==
    runner' = [runner EXCEPT !.pc = "returned",
                 !.result = [status |-> status, exit_code |-> exit, output |-> output]]
ReturnUnlaunched(status) == Return(status, None, "captured")
Stop(why) == runner' = [runner EXCEPT !.pc = "terminate", !.why = why]

----------------------------------------------------------------------------
(* run, up to the launch                                                    *)

\* The caller's request
Run(timeout) ==
    /\ runner' = [IdleRunner EXCEPT !.pc = "policy", !.timeout = timeout]
    /\ child' = NoChild
    /\ elapsed' = 0

\* An executable that is not authorized, or is but was not found
ExecutableRefusals == {"POLICY_REJECTED", "EXECUTABLE_UNAVAILABLE"}

\* A working or artifact directory outside its roots, an environment key that is not allowed
PathRefusals == {"POLICY_REJECTED"}
EnvironmentRefusals == {"POLICY_REJECTED"}

\* Bounds of the request, then these policies, then the bounds of redaction
Policy ==
    /\ At("policy")
    /\ \/ Goto("token")
       \/ \E status \in ExecutableRefusals \cup PathRefusals \cup EnvironmentRefusals
                           \cup {"POLICY_REJECTED", "INTERNAL_ERROR"} :
            ReturnUnlaunched(status)
    /\ UNCHANGED <<child, elapsed, cancelled, exits>>

\* The token itself may fail
CheckToken ==
    /\ At("token")
    /\ \/ cancelled /\ ReturnUnlaunched("CANCELLED")
       \/ ~cancelled /\ Goto("launch")
       \/ ReturnUnlaunched("INTERNAL_ERROR")
    /\ UNCHANGED <<child, elapsed, cancelled, exits>>

\* _launch: a process group of its own
Launch ==
    /\ At("launch")
    /\ \/ /\ child' = [NoChild EXCEPT !.state = "running"]
          /\ Goto("poll")
       \/ /\ \E status \in {"LAUNCH_FAILED", "INTERNAL_ERROR"} : ReturnUnlaunched(status)
          /\ UNCHANGED child
    /\ UNCHANGED <<elapsed, cancelled, exits>>

----------------------------------------------------------------------------
(* _complete_process                                                        *)

PollExit ==
    /\ At("poll")
    /\ Goto(IF Running THEN "poll_cancel" ELSE "streams")
    /\ UNCHANGED <<child, elapsed, cancelled, exits>>

\* A token that fails leaves the loop with an exception.
PollCancel ==
    /\ At("poll_cancel")
    /\ \/ cancelled /\ Stop("CANCELLED")
       \/ ~cancelled /\ Goto("poll_timeout")
       \/ Stop("INTERNAL_ERROR")
    /\ UNCHANGED <<child, elapsed, cancelled, exits>>

PollTimeout ==
    /\ At("poll_timeout")
    /\ IF elapsed >= runner.timeout THEN Stop("TIMEOUT") ELSE Goto("poll")
    /\ UNCHANGED <<child, elapsed, cancelled, exits>>

\* Defect: signals the process group only once, and does not wait for it.
TerminateOnce ==
    /\ At("terminate")
    /\ child' = IF Running THEN [child EXCEPT !.signal = "TERM"] ELSE child
    /\ Goto("streams")
    /\ UNCHANGED <<elapsed, cancelled, exits>>

\* _terminate: SIGTERM to the group of a process that still runs
Terminate ==
    /\ At("terminate")
    /\ IF Running
       THEN child' = [child EXCEPT !.signal = IF @ = "KILL" THEN @ ELSE "TERM"] /\ Goto("grace")
       ELSE UNCHANGED child /\ Goto("streams")
    /\ UNCHANGED <<elapsed, cancelled, exits>>

\* Defect: waits for the process without a limit.
GraceUnlimited ==
    /\ At("grace")
    /\ ~Running /\ Goto("streams")
    /\ UNCHANGED <<child, elapsed, cancelled, exits>>

\* The wait ends with the process or with the grace period, then SIGKILL
Grace ==
    /\ At("grace")
    /\ \/ ~Running /\ Goto("streams") /\ UNCHANGED child
       \/ Running /\ child' = [child EXCEPT !.signal = "KILL"] /\ Goto("killed")
    /\ UNCHANGED <<elapsed, cancelled, exits>>

\* A process that survives even that raises; the finally clause terminates it
\* a second time.
Killed ==
    /\ At("killed")
    /\ \/ ~Running /\ Goto("streams")
       \/ /\ Running
          /\ runner' = [runner EXCEPT !.why = "INTERNAL_ERROR", !.again = TRUE,
                                      !.pc = IF runner.again THEN "streams" ELSE "terminate"]
    /\ UNCHANGED <<child, elapsed, cancelled, exits>>

\* _finish_streams: the pipes are closed after two grace periods, read or not
FinishStreams ==
    /\ At("streams")
    /\ Goto("finalize")
    /\ UNCHANGED <<child, elapsed, cancelled, exits>>

\* A stop takes precedence over a lost artifact, and that over the exit code.
TerminalStatus(artifactFailed) ==
    IF runner.why # None THEN runner.why
    ELSE IF artifactFailed THEN "OUTPUT_ARTIFACT_FAILED"
    ELSE IF child.exit_code = "expected" THEN "SUCCESS" ELSE "NONZERO_EXIT"

\* _finalize_stream and the result; a clock set back during the command makes
\* the result invalid.  An exception reports neither exit code nor output.
Finalize ==
    /\ At("finalize")
    /\ \/ ReturnUnlaunched("INTERNAL_ERROR")
       \/ /\ runner.why # "INTERNAL_ERROR"
          /\ \E output \in Output : Return(TerminalStatus(FALSE), child.exit_code, output)
       \/ /\ runner.why # "INTERNAL_ERROR"
          /\ Return(TerminalStatus(TRUE), child.exit_code, "truncated")
    /\ UNCHANGED <<child, elapsed, cancelled, exits>>

RunnerStep ==
    \/ Policy \/ CheckToken \/ Launch \/ PollExit \/ PollCancel \/ PollTimeout
    \/ Terminate \/ Grace \/ Killed \/ FinishStreams \/ Finalize

----------------------------------------------------------------------------
(* Beside the runner                                                        *)

\* The process ends by itself or by the signal that was sent; one that handles
\* SIGTERM may still choose its exit code, or ignore it.
ChildExits ==
    /\ Running
    /\ \E code \in (IF child.signal = "KILL" THEN {"signal"} ELSE ExitCodes) :
         /\ child' = [child EXCEPT !.state = "exited", !.exit_code = code]
         /\ exits' = Append(exits, code)
    /\ UNCHANGED <<runner, elapsed, cancelled>>

\* Any reading at or past the timeout is the same to the poll.
Tick ==
    /\ Running /\ elapsed < runner.timeout
    /\ elapsed' = elapsed + 1
    /\ UNCHANGED <<runner, child, cancelled, exits>>

RequestCancel ==
    /\ ~cancelled
    /\ cancelled' = TRUE
    /\ UNCHANGED <<runner, child, elapsed, exits>>

Beside == ChildExits \/ Tick \/ RequestCancel
=============================================================================
