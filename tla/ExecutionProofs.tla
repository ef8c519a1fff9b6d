-------------------------- MODULE ExecutionProofs --------------------------
(***************************************************************************)
(* Theorems of Execution for any declared plans, allowances and roles.     *)
(*                                                                         *)
(* The strengthening says what the command runner knows of its process at  *)
(* each of its steps, that a result on record stays true of the process    *)
(* that it names, and that a plan and an agent never share the runner.     *)
(***************************************************************************)
EXTENDS Execution, ValidationPlanProofs

Unlaunching == {"idle", "policy", "token", "launch"}
Polling == {"poll", "poll_cancel", "poll_timeout"}
Stopping == {"terminate", "grace", "killed"}
Closing == {"streams", "finalize"}

\* What a result of the command runner says of the process.
ResultInv ==
    /\ runner.result \in CommandResult
    /\ Running => runner.result.status = "INTERNAL_ERROR"
    /\ runner.result.status \in {"SUCCESS", "NONZERO_EXIT"} =>
         child.state = "exited" /\ runner.result.exit_code = child.exit_code
    /\ runner.result.status = "SUCCESS" <=> runner.result.status \in {"SUCCESS", "NONZERO_EXIT"}
                                            /\ child.exit_code = "expected"
    /\ runner.result.status = "CANCELLED" => cancelled
    /\ runner.result.status = "EXECUTABLE_UNAVAILABLE" => child.state = "none"

\* What the runner relies on.
RunnerInv ==
    /\ runner.pc \in Unlaunching => child = NoChild
    /\ runner.pc \in Polling \cup Stopping \cup Closing => child.state # "none"
    /\ child.state = "exited" => exits # <<>> /\ child.exit_code = exits[Len(exits)]
    /\ child.state # "exited" => child.exit_code = None
    /\ runner.pc \in Unlaunching \cup Polling => runner.why = None
    /\ runner.pc \in Closing /\ Running => runner.why = "INTERNAL_ERROR"
    /\ runner.why = "CANCELLED" => cancelled
    /\ At("returned") => ResultInv

\* Who uses the runner.
TurnInv ==
    /\ validation.pc \in {"start", "next", "running"} => invocation.pc = "returned" /\ plan # None
    /\ validation.pc # "running" /\ invocation.pc # "running" => runner.pc = "idle"

\* What a recorded result says of the process that it names.
TrueResult(n, result) ==
    /\ result.ran <= Len(exits)
    /\ result.status = "PASSED" => result.ran # 0 /\ exits[result.ran] = "expected"
    /\ result.status = "FAILED" => result.ran # 0 /\ exits[result.ran] = "other"
    /\ result.status \in {"PASSED", "FAILED"} =>
         (Commands[n].require_complete => result.output # "truncated")
    /\ Noticed(result) => cancelled /\ result.status \in {"CANCELLED", "INVALID"}

TrueResults(recorded) == \A n \in DOMAIN recorded : TrueResult(n, recorded[n])

\* A command after one that was cancelled is not started.
Stopped(earlier, later) ==
    /\ later.ran = 0
    /\ later.status \in {"NOT_RUN"} \cup (IF earlier.status = "INVALID" THEN {"CANCELLED"} ELSE {})

CancelLast(recorded) ==
    \A n, m \in DOMAIN recorded :
        Noticed(recorded[n]) /\ n < m => Stopped(recorded[n], recorded[m])

\* No result shows a cancellation.
Unnoticed(recorded) == \A n \in DOMAIN recorded : ~Noticed(recorded[n])

\* The plan goes on.
GoesOn(recorded) ==
    /\ Len(recorded) < Len(Commands)
    /\ \A n \in DOMAIN recorded : recorded[n].status # "CANCELLED"
    /\ CancelLast(recorded)

\* The verdict that execute returns.
Verdict(recorded) ==
    /\ Len(recorded) = Len(Commands)
    /\ CancelLast(recorded)
    /\ validation.status = AggregateStatus(recorded)
    /\ validation.approvable => /\ AggregateStatus(recorded) \in PASSING
                                /\ AllComplete(recorded)

ValidationInv ==
    /\ TrueResults(results)
    /\ validation.pc \in {"start", "next", "running"} => GoesOn(results)
    /\ validation.pc \in {"start", "running", "raised"} => Unnoticed(results)
    /\ validation.pc = "returned" /\ plan # None => Verdict(results)
    /\ validation.pc # "returned" \/ plan = None => ~validation.approvable
    /\ plan = None => results = <<>>

AgentInv ==
    /\ invocation.role = "REVIEWER" => ~wrote
    /\ invocation.pc = "start" => ~wrote
    /\ invocation.pc = "running" /\ wrote => child.state # "none"
    /\ invocation.pc # "returned" => invocation.effects = None
    /\ invocation.pc = "response" /\ wrote /\ invocation.response.side_effects = "NONE" =>
         invocation.response.claimed
    /\ invocation.pc = "response" /\ wrote =>
         invocation.response.side_effects \in SideEffects \/ invocation.response.status = "COMPLETED"

Inv ==
    /\ TypeOK /\ RunnerInv /\ TurnInv /\ ValidationInv /\ AgentInv
    /\ PlanFitsAllowance /\ SideEffectsHonest

-----------------------------------------------------------------------------
(* The command runner.                                                      *)

RunnerRecord == [pc : RunnerSteps, why : {None, "CANCELLED", "TIMEOUT", "INTERNAL_ERROR"},
                 timeout : Nat, again : BOOLEAN, result : CommandResult \cup {None}]
ChildRecord == [state : {"none", "running", "exited"}, signal : {"none", "TERM", "KILL"},
                exit_code : ExitCodes \cup {None}]

\* Going to another step changes nothing else.
LEMMA GotoStep ==
    ASSUME runner \in RunnerRecord, NEW pc \in RunnerSteps, Goto(pc)
    PROVE  /\ runner' \in RunnerRecord
           /\ runner'.pc = pc /\ runner'.why = runner.why /\ runner'.timeout = runner.timeout
BY DEF RunnerRecord, Goto

\* So does deciding to stop the process, which says why.
LEMMA StopStep ==
    ASSUME runner \in RunnerRecord, NEW why \in {"CANCELLED", "TIMEOUT", "INTERNAL_ERROR"}, Stop(why)
    PROVE  /\ runner' \in RunnerRecord
           /\ runner'.pc = "terminate" /\ runner'.why = why /\ runner'.timeout = runner.timeout
BY DEF RunnerRecord, Stop, RunnerSteps

\* Returning a result.
LEMMA ReturnStep ==
    ASSUME runner \in RunnerRecord, NEW status \in CommandStatus, NEW exit \in ExitCodes \cup {None},
           NEW output \in Output, Return(status, exit, output)
    PROVE  /\ runner' \in RunnerRecord
           /\ runner'.pc = "returned" /\ runner'.why = runner.why /\ runner'.timeout = runner.timeout
           /\ runner'.result \in CommandResult
           /\ runner'.result.status = status /\ runner'.result.exit_code = exit
           /\ runner'.result.output = output
<1>1. [status |-> status, exit_code |-> exit, output |-> output] \in CommandResult
  BY DEF CommandResult
<1> QED BY <1>1 DEF RunnerRecord, Return, RunnerSteps

\* What a step of the runner, or beside it, leaves alone.
RunnerFrame ==
    /\ runner' \in RunnerRecord /\ child' \in ChildRecord
    /\ runner'.timeout = runner.timeout
    /\ elapsed' \in 0 .. runner.timeout
    /\ cancelled' \in BOOLEAN /\ (cancelled => cancelled')
    /\ exits' \in Seq(ExitCodes) /\ Len(exits) <= Len(exits')
    /\ \A i \in 1 .. Len(exits) : exits'[i] = exits[i]
    /\ child.state # "none" => child'.state # "none"
    /\ runner.pc = "idle" => runner' = runner

\* Steps that only move the runner.
LEMMA FrameOfMove ==
    ASSUME RunnerType, runner' \in RunnerRecord, runner'.timeout = runner.timeout,
           runner.pc # "idle", child' \in ChildRecord,
           child.state # "none" => child'.state # "none",
           UNCHANGED <<elapsed, cancelled, exits>>
    PROVE  RunnerFrame
BY DEF RunnerFrame, RunnerType

\* A refusal before the launch.
LEMMA RefusalStep ==
    ASSUME RunnerType, RunnerInv, runner.pc \in Unlaunching, NEW status \in CommandStatus,
           status \notin {"SUCCESS", "NONZERO_EXIT"}, status = "CANCELLED" => cancelled,
           ReturnUnlaunched(status), UNCHANGED <<child, elapsed, cancelled, exits>>
    PROVE  /\ runner' \in RunnerRecord /\ runner'.timeout = runner.timeout /\ RunnerInv'
<1>1. runner \in RunnerRecord
  BY DEF RunnerType, RunnerRecord
<1>2. Return(status, None, "captured") /\ "captured" \in Output
  BY DEF ReturnUnlaunched, Output
<1>3. /\ runner' \in RunnerRecord
      /\ runner'.pc = "returned" /\ runner'.why = runner.why /\ runner'.timeout = runner.timeout
      /\ runner'.result \in CommandResult
      /\ runner'.result.status = status
  BY <1>1, <1>2, ReturnStep
<1>4. child = NoChild /\ child.state = "none" /\ child.exit_code = None /\ runner.why = None
  BY DEF RunnerInv, NoChild
<1>5. ResultInv'
  BY <1>3, <1>4 DEF ResultInv, Running
<1>6. runner'.why = None
  BY <1>3, <1>4
<1>7. None # "CANCELLED"
  BY NoneAssumption DEF CommandStatus
<1> QED BY <1>3, <1>4, <1>5, <1>6, <1>7
        DEF RunnerInv, Unlaunching, Polling, Stopping, Closing, At, Running

\* A step of the runner before it has a result.
LEMMA MoveStep ==
    ASSUME RunnerType, RunnerInv, UNCHANGED <<elapsed, cancelled, exits>>,
           runner' \in RunnerRecord, runner'.timeout = runner.timeout,
           runner.pc \in Polling \cup Stopping \cup Closing,
           runner'.pc \in Polling \cup Stopping \cup Closing,
           child' \in ChildRecord, child'.state = child.state, child'.exit_code = child.exit_code,
           runner'.pc \in Polling => runner.pc \in Polling /\ runner'.why = runner.why,
           runner'.pc \in Closing /\ Running => runner'.why = "INTERNAL_ERROR",
           runner'.why \in {runner.why, "TIMEOUT", "INTERNAL_ERROR"} \/ cancelled
    PROVE  RunnerFrame /\ RunnerInv'
<1>1. RunnerFrame
  BY FrameOfMove DEF Polling, Stopping, Closing
<1>2. runner'.why = "CANCELLED" => cancelled'
  BY DEF RunnerInv
<1>3. ~At("returned")' /\ runner'.pc \notin Unlaunching
  BY DEF At, Unlaunching, Polling, Stopping, Closing
<1>4. runner'.pc \in Polling => runner'.why = None
  BY DEF RunnerInv
<1>5. /\ child'.state # "none"
      /\ child'.state = "exited" => exits' # <<>> /\ child'.exit_code = exits'[Len(exits')]
      /\ child'.state # "exited" => child'.exit_code = None
  BY DEF RunnerInv
<1> QED BY <1>1, <1>2, <1>3, <1>4, <1>5 DEF RunnerInv, Running

\* Every step of the runner keeps what it relies on.
LEMMA RunnerMoves ==
    ASSUME RunnerType, RunnerInv, RunnerStep
    PROVE  RunnerFrame /\ RunnerInv'
<1>0. /\ runner \in RunnerRecord /\ child \in ChildRecord
  BY DEF RunnerType, RunnerRecord, ChildRecord
<1>1. CASE Policy
  <2>0. runner.pc = "policy" /\ UNCHANGED <<child, elapsed, cancelled, exits>>
    BY <1>1 DEF Policy, At
  <2>1. CASE Goto("token")
    <3>1. /\ runner' \in RunnerRecord /\ runner'.pc = "token" /\ runner'.why = runner.why
          /\ runner'.timeout = runner.timeout
      BY <1>0, <2>1, GotoStep DEF RunnerSteps
    <3> QED BY <1>0, <2>0, <3>1, FrameOfMove
            DEF RunnerInv, Unlaunching, Polling, Stopping, Closing, At, Running
  <2>2. CASE ~Goto("token")
    <3>1. PICK status \in {"POLICY_REJECTED", "EXECUTABLE_UNAVAILABLE", "INTERNAL_ERROR"} :
             ReturnUnlaunched(status)
      BY <1>1, <2>2 DEF Policy, ExecutableRefusals, PathRefusals, EnvironmentRefusals
    <3>2. /\ status \in CommandStatus /\ status \notin {"SUCCESS", "NONZERO_EXIT", "CANCELLED"}
          /\ runner.pc \in Unlaunching
      BY <2>0, <3>1 DEF CommandStatus, Unlaunching
    <3> QED BY <1>0, <2>0, <3>1, <3>2, RefusalStep, FrameOfMove
  <2> QED BY <2>1, <2>2
<1>2. CASE CheckToken
  <2>0. runner.pc = "token" /\ UNCHANGED <<child, elapsed, cancelled, exits>>
    BY <1>2 DEF CheckToken, At
  <2>1. CASE Goto("launch")
    <3>1. /\ runner' \in RunnerRecord /\ runner'.pc = "launch" /\ runner'.why = runner.why
          /\ runner'.timeout = runner.timeout
      BY <1>0, <2>1, GotoStep DEF RunnerSteps
    <3> QED BY <1>0, <2>0, <3>1, FrameOfMove
            DEF RunnerInv, Unlaunching, Polling, Stopping, Closing, At, Running
  <2>2. CASE ~Goto("launch")
    <3>1. PICK status \in {"CANCELLED", "INTERNAL_ERROR"} :
             ReturnUnlaunched(status) /\ (status = "CANCELLED" => cancelled)
      BY <1>2, <2>2 DEF CheckToken
    <3>2. /\ status \in CommandStatus /\ status \notin {"SUCCESS", "NONZERO_EXIT"}
          /\ runner.pc \in Unlaunching
      BY <2>0, <3>1 DEF CommandStatus, Unlaunching
    <3> QED BY <1>0, <2>0, <3>1, <3>2, RefusalStep, FrameOfMove
  <2> QED BY <2>1, <2>2
<1>3. CASE Launch
  <2>0. runner.pc = "launch" /\ UNCHANGED <<elapsed, cancelled, exits>>
    BY <1>3 DEF Launch, At
  <2>1. CASE Goto("poll")
    <3>1. /\ runner' \in RunnerRecord /\ runner'.pc = "poll" /\ runner'.why = runner.why
          /\ runner'.timeout = runner.timeout
      BY <1>0, <2>1, GotoStep DEF RunnerSteps
    <3>2. child' = [NoChild EXCEPT !.state = "running"]
      BY <1>0, <1>3, <3>1 DEF Launch, ReturnUnlaunched, Return, RunnerRecord
    <3>3. child' \in ChildRecord /\ child'.state = "running" /\ child'.exit_code = None
      BY <3>2 DEF NoChild, ChildRecord
    <3>4. RunnerFrame
      BY <2>0, <3>1, <3>3, FrameOfMove
    <3>5. runner'.why = None /\ None # "CANCELLED"
      BY <2>0, <3>1, NoneAssumption DEF RunnerInv, Unlaunching, CommandStatus
    <3> QED BY <3>1, <3>3, <3>4, <3>5
            DEF RunnerInv, Unlaunching, Polling, Stopping, Closing, At, Running
  <2>2. CASE ~Goto("poll")
    <3>1. PICK status \in {"LAUNCH_FAILED", "INTERNAL_ERROR"} : ReturnUnlaunched(status)
      BY <1>3, <2>2 DEF Launch
    <3>2. UNCHANGED child
      BY <1>3, <2>2 DEF Launch
    <3>3. /\ status \in CommandStatus /\ status \notin {"SUCCESS", "NONZERO_EXIT", "CANCELLED"}
          /\ runner.pc \in Unlaunching
      BY <2>0, <3>1 DEF CommandStatus, Unlaunching
    <3> QED BY <1>0, <2>0, <3>1, <3>2, <3>3, RefusalStep, FrameOfMove
  <2> QED BY <2>1, <2>2
<1>4. CASE PollExit
  <2>0. runner.pc = "poll" /\ UNCHANGED <<child, elapsed, cancelled, exits>>
    BY <1>4 DEF PollExit, At
  <2>1. PICK pc \in {"poll_cancel", "streams"} : Goto(pc) /\ (pc = "streams" => ~Running)
    BY <1>4 DEF PollExit
  <2>2. pc \in RunnerSteps
    BY <2>1 DEF RunnerSteps
  <2>3. /\ runner' \in RunnerRecord /\ runner'.pc = pc /\ runner'.why = runner.why
        /\ runner'.timeout = runner.timeout
    BY <1>0, <2>1, <2>2, GotoStep
  <2> QED BY <1>0, <2>0, <2>1, <2>3, MoveStep DEF Polling, Stopping, Closing
<1>5. CASE PollCancel
  <2>0. runner.pc = "poll_cancel" /\ UNCHANGED <<child, elapsed, cancelled, exits>>
    BY <1>5 DEF PollCancel, At
  <2>1. CASE Goto("poll_timeout")
    <3>1. /\ runner' \in RunnerRecord /\ runner'.pc = "poll_timeout" /\ runner'.why = runner.why
          /\ runner'.timeout = runner.timeout
      BY <1>0, <2>1, GotoStep DEF RunnerSteps
    <3> QED BY <1>0, <2>0, <3>1, MoveStep DEF Polling, Stopping, Closing
  <2>2. CASE ~Goto("poll_timeout")
    <3>1. PICK why \in {"CANCELLED", "INTERNAL_ERROR"} : Stop(why) /\ (why = "CANCELLED" => cancelled)
      BY <1>5, <2>2 DEF PollCancel
    <3>2. /\ runner' \in RunnerRecord /\ runner'.pc = "terminate" /\ runner'.why = why
          /\ runner'.timeout = runner.timeout
      BY <1>0, <3>1, StopStep
    <3> QED BY <1>0, <2>0, <3>1, <3>2, MoveStep DEF Polling, Stopping, Closing
  <2> QED BY <2>1, <2>2
<1>6. CASE PollTimeout
  <2>0. runner.pc = "poll_timeout" /\ UNCHANGED <<child, elapsed, cancelled, exits>>
    BY <1>6 DEF PollTimeout, At
  <2>1. CASE Goto("poll")
    <3>1. /\ runner' \in RunnerRecord /\ runner'.pc = "poll" /\ runner'.why = runner.why
          /\ runner'.timeout = runner.timeout
      BY <1>0, <2>1, GotoStep DEF RunnerSteps
    <3> QED BY <1>0, <2>0, <3>1, MoveStep DEF Polling, Stopping, Closing
  <2>2. CASE Stop("TIMEOUT")
    <3>1. /\ runner' \in RunnerRecord /\ runner'.pc = "terminate" /\ runner'.why = "TIMEOUT"
          /\ runner'.timeout = runner.timeout
      BY <1>0, <2>2, StopStep
    <3> QED BY <1>0, <2>0, <3>1, MoveStep DEF Polling, Stopping, Closing
  <2> QED BY <1>6, <2>1, <2>2 DEF PollTimeout
<1>7. CASE Terminate
  <2>0. runner.pc = "terminate" /\ UNCHANGED <<elapsed, cancelled, exits>>
    BY <1>7 DEF Terminate, At
  <2>1. PICK pc \in {"grace", "streams"} : Goto(pc) /\ (pc = "streams" => ~Running)
    BY <1>7 DEF Terminate
  <2>2. pc \in RunnerSteps
    BY <2>1 DEF RunnerSteps
  <2>3. /\ runner' \in RunnerRecord /\ runner'.pc = pc /\ runner'.why = runner.why
        /\ runner'.timeout = runner.timeout
    BY <1>0, <2>1, <2>2, GotoStep
  <2>4. child' \in ChildRecord /\ child'.state = child.state /\ child'.exit_code = child.exit_code
    BY <1>0, <1>7 DEF Terminate, ChildRecord
  <2> QED BY <1>0, <2>0, <2>1, <2>3, <2>4, MoveStep DEF Polling, Stopping, Closing
<1>8. CASE Grace
  <2>0. runner.pc = "grace" /\ UNCHANGED <<elapsed, cancelled, exits>>
    BY <1>8 DEF Grace, At
  <2>1. PICK pc \in {"killed", "streams"} : Goto(pc) /\ (pc = "streams" => ~Running)
    BY <1>8 DEF Grace
  <2>2. pc \in RunnerSteps
    BY <2>1 DEF RunnerSteps
  <2>3. /\ runner' \in RunnerRecord /\ runner'.pc = pc /\ runner'.why = runner.why
        /\ runner'.timeout = runner.timeout
    BY <1>0, <2>1, <2>2, GotoStep
  <2>4. child' \in ChildRecord /\ child'.state = child.state /\ child'.exit_code = child.exit_code
    BY <1>0, <1>8 DEF Grace, ChildRecord
  <2> QED BY <1>0, <2>0, <2>1, <2>3, <2>4, MoveStep DEF Polling, Stopping, Closing
<1>9. CASE Killed
  <2>0. runner.pc = "killed" /\ UNCHANGED <<child, elapsed, cancelled, exits>>
    BY <1>9 DEF Killed, At
  <2>1. CASE ~Running
    <3>1. Goto("streams")
      BY <1>9, <2>1 DEF Killed
    <3>2. /\ runner' \in RunnerRecord /\ runner'.pc = "streams" /\ runner'.why = runner.why
          /\ runner'.timeout = runner.timeout
      BY <1>0, <3>1, GotoStep DEF RunnerSteps
    <3> QED BY <1>0, <2>0, <2>1, <3>2, MoveStep DEF Polling, Stopping, Closing
  <2>2. CASE Running
    <3>1. /\ runner' \in RunnerRecord /\ runner'.pc \in {"streams", "terminate"}
          /\ runner'.why = "INTERNAL_ERROR" /\ runner'.timeout = runner.timeout
      BY <1>0, <1>9, <2>2 DEF Killed, RunnerRecord, RunnerSteps
    <3> QED BY <1>0, <2>0, <2>2, <3>1, MoveStep DEF Polling, Stopping, Closing
  <2> QED BY <2>1, <2>2
<1>10. CASE FinishStreams
  <2>0. runner.pc = "streams" /\ UNCHANGED <<child, elapsed, cancelled, exits>>
    BY <1>10 DEF FinishStreams, At
  <2>1. /\ runner' \in RunnerRecord /\ runner'.pc = "finalize" /\ runner'.why = runner.why
        /\ runner'.timeout = runner.timeout
    BY <1>0, <1>10, GotoStep DEF FinishStreams, RunnerSteps
  <2>2. Running => runner'.why = "INTERNAL_ERROR"
    BY <2>0, <2>1 DEF RunnerInv, Closing
  <2> QED BY <1>0, <2>0, <2>1, <2>2, MoveStep DEF Polling, Stopping, Closing
<1>11. CASE Finalize
  <2>0. runner.pc = "finalize" /\ UNCHANGED <<child, elapsed, cancelled, exits>>
    BY <1>11 DEF Finalize, At
  <2>1. /\ child.state # "none" /\ (Running => runner.why = "INTERNAL_ERROR")
        /\ child.state = "exited" => exits # <<>> /\ child.exit_code = exits[Len(exits)]
        /\ child.state # "exited" => child.exit_code = None
        /\ runner.why = "CANCELLED" => cancelled
    BY <2>0 DEF RunnerInv, Polling, Stopping, Closing
  <2>2. ASSUME NEW status \in CommandStatus, NEW exit \in ExitCodes \cup {None}, NEW output \in Output,
               Return(status, exit, output), Running => status = "INTERNAL_ERROR",
               status \in {"SUCCESS", "NONZERO_EXIT"} => exit = child.exit_code /\ child.state = "exited",
               status = "SUCCESS" => child.exit_code = "expected",
               status = "NONZERO_EXIT" => child.exit_code # "expected",
               status = "CANCELLED" => cancelled, status # "EXECUTABLE_UNAVAILABLE"
        PROVE  RunnerFrame /\ RunnerInv'
    <3>1. /\ runner' \in RunnerRecord
          /\ runner'.pc = "returned" /\ runner'.why = runner.why /\ runner'.timeout = runner.timeout
          /\ runner'.result \in CommandResult
          /\ runner'.result.status = status /\ runner'.result.exit_code = exit
      BY <1>0, <2>2, ReturnStep
    <3>2. RunnerFrame
      BY <1>0, <2>0, <3>1, FrameOfMove
    <3>3. ResultInv'
      BY <2>0, <2>2, <3>1 DEF ResultInv, Running
    <3> QED BY <2>0, <2>1, <3>1, <3>2, <3>3
            DEF RunnerInv, Unlaunching, Polling, Stopping, Closing, At, Running
  <2>3. CASE ReturnUnlaunched("INTERNAL_ERROR")
    BY <2>2, <2>3 DEF ReturnUnlaunched, CommandStatus, Output
  <2>4. CASE ~ReturnUnlaunched("INTERNAL_ERROR")
    <3>1. runner.why # "INTERNAL_ERROR"
      BY <1>11, <2>4 DEF Finalize
    <3>2. PICK failed \in BOOLEAN, output \in Output :
             Return(TerminalStatus(failed), child.exit_code, output)
      BY <1>11, <2>4 DEF Finalize, Output
    <3>3. ~Running /\ child.state = "exited" /\ child.exit_code \in ExitCodes
      <4>1. ~Running /\ child.state = "exited"
        BY <1>0, <2>1, <3>1 DEF Running, ChildRecord
      <4>2. exits \in Seq(ExitCodes) /\ exits # <<>> /\ child.exit_code = exits[Len(exits)]
        BY <2>1, <4>1 DEF RunnerType
      <4> QED BY <4>1, <4>2
    <3>4. PICK status : status = TerminalStatus(failed)
      OBVIOUS
    <3>5. CASE runner.why # None
      <4>1. status \in {"CANCELLED", "TIMEOUT"} /\ (status = "CANCELLED" => cancelled)
        BY <1>0, <2>1, <3>1, <3>4, <3>5 DEF TerminalStatus, RunnerRecord
      <4> QED BY <2>2, <3>2, <3>3, <3>4, <4>1 DEF CommandStatus
    <3>6. CASE runner.why = None
      <4>1. /\ status \in {"OUTPUT_ARTIFACT_FAILED", "SUCCESS", "NONZERO_EXIT"}
            /\ status = "SUCCESS" => child.exit_code = "expected"
            /\ status = "NONZERO_EXIT" => child.exit_code # "expected"
        BY <3>4, <3>6 DEF TerminalStatus
      <4> QED BY <2>2, <3>2, <3>3, <3>4, <4>1 DEF CommandStatus
    <3> QED BY <3>5, <3>6
  <2> QED BY <2>3, <2>4
<1> QED BY <1>1, <1>2, <1>3, <1>4, <1>5, <1>6, <1>7, <1>8, <1>9, <1>10, <1>11 DEF RunnerStep

\* So does what happens beside it.
LEMMA BesideMoves ==
    ASSUME RunnerType, RunnerInv, Beside
    PROVE  RunnerFrame /\ RunnerInv'
<1>0. /\ runner \in RunnerRecord /\ child \in ChildRecord /\ exits \in Seq(ExitCodes)
  BY DEF RunnerType, RunnerRecord, ChildRecord
<1>1. CASE ChildExits
  <2>1. PICK code \in ExitCodes : /\ child' = [child EXCEPT !.state = "exited", !.exit_code = code]
                                  /\ exits' = Append(exits, code)
    BY <1>1 DEF ChildExits, ExitCodes
  <2>2. Running /\ UNCHANGED <<runner, elapsed, cancelled>>
    BY <1>1 DEF ChildExits
  <2>3. child' \in ChildRecord /\ child'.state = "exited" /\ child'.exit_code = code
    BY <1>0, <2>1 DEF ChildRecord
  <2>4. /\ exits' \in Seq(ExitCodes) /\ Len(exits') = Len(exits) + 1 /\ exits'[Len(exits')] = code
        /\ exits' # <<>> /\ \A i \in 1 .. Len(exits) : exits'[i] = exits[i]
    BY <1>0, <2>1
  <2>5. RunnerFrame
    BY <1>0, <2>2, <2>3, <2>4 DEF RunnerFrame, RunnerType
  <2>6. runner.pc \notin Unlaunching
    BY <2>2 DEF RunnerInv, Running, NoChild
  <2>7. At("returned") => ResultInv'
    BY <2>2, <2>3 DEF RunnerInv, ResultInv, Running
  <2> QED BY <2>2, <2>3, <2>4, <2>5, <2>6, <2>7 DEF RunnerInv, Running, At
<1>2. CASE Tick
  <2>1. elapsed' \in 0 .. runner.timeout /\ UNCHANGED <<runner, child, cancelled, exits>>
    BY <1>0, <1>2 DEF Tick, RunnerType, RunnerRecord
  <2> QED BY <1>0, <2>1 DEF RunnerFrame, RunnerType, RunnerInv, ResultInv, At, Running
<1>3. CASE RequestCancel
  <2>1. cancelled' /\ cancelled' \in BOOLEAN /\ UNCHANGED <<runner, child, elapsed, exits>>
    BY <1>3 DEF RequestCancel
  <2> QED BY <1>0, <2>1 DEF RunnerFrame, RunnerType, RunnerInv, ResultInv, At, Running
<1> QED BY <1>1, <1>2, <1>3 DEF Beside

\* The types of the runner follow from what its steps leave alone.
LEMMA RunnerTypeKept ==
    ASSUME RunnerFrame
    PROVE  RunnerType'
BY DEF RunnerFrame, RunnerType, RunnerRecord, ChildRecord

\* A request to the runner.
LEMMA RunStarts ==
    ASSUME RunnerType, NEW timeout \in Nat, Run(timeout), UNCHANGED <<cancelled, exits>>
    PROVE  RunnerType' /\ RunnerInv' /\ child'.state = "none"
<1>1. /\ runner' \in RunnerRecord /\ runner'.pc = "policy" /\ runner'.why = None
      /\ runner'.timeout = timeout
  BY DEF Run, IdleRunner, RunnerRecord, RunnerSteps
<1>2. /\ child' \in ChildRecord /\ child' = NoChild /\ child'.state = "none"
      /\ child'.exit_code = None /\ elapsed' = 0
  BY DEF Run, NoChild, ChildRecord
<1>3. None # "CANCELLED"
  BY NoneAssumption DEF CommandStatus
<1>4. RunnerType'
  BY <1>1, <1>2 DEF RunnerType, RunnerRecord, ChildRecord
<1> QED BY <1>1, <1>2, <1>3, <1>4
        DEF RunnerInv, Unlaunching, Polling, Stopping, Closing, At, Running

\* The runner after its result was taken.
LEMMA Resets ==
    ASSUME RunnerType, runner' = IdleRunner, child' = NoChild, elapsed' = 0,
           UNCHANGED <<cancelled, exits>>
    PROVE  RunnerType' /\ RunnerInv' /\ runner'.pc = "idle"
<1>1. /\ runner' \in RunnerRecord /\ runner'.pc = "idle" /\ runner'.why = None
      /\ runner'.timeout = 0
  BY DEF IdleRunner, RunnerRecord, RunnerSteps
<1>2. /\ child' \in ChildRecord /\ child'.state = "none" /\ child'.exit_code = None
  BY DEF NoChild, ChildRecord
<1>3. None # "CANCELLED"
  BY NoneAssumption DEF CommandStatus
<1>4. RunnerType'
  BY <1>1, <1>2 DEF RunnerType, RunnerRecord, ChildRecord
<1> QED BY <1>1, <1>2, <1>3, <1>4
        DEF RunnerInv, Unlaunching, Polling, Stopping, Closing, At, Running

-----------------------------------------------------------------------------
(* The results of a plan.                                                   *)

\* Recorded results stay true while processes end and a cancellation comes.
LEMMA TrueResultsKept ==
    ASSUME RunnerType, RunnerFrame, NEW recorded \in Seq(ValidationCommandResult),
           TrueResults(recorded), UNCHANGED plan
    PROVE  \A n \in DOMAIN recorded : TrueResult(n, recorded[n])'
<1> SUFFICES ASSUME NEW n \in DOMAIN recorded PROVE TrueResult(n, recorded[n])'
  OBVIOUS
<1>1. recorded[n] \in ValidationCommandResult
  OBVIOUS
<1>2. recorded[n].ran \in Nat
  BY <1>1 DEF ValidationCommandResult
<1>3. TrueResult(n, recorded[n])
  BY DEF TrueResults
<1>4. /\ Len(exits) \in Nat /\ Len(exits') \in Nat /\ Len(exits) <= Len(exits')
      /\ \A i \in 1 .. Len(exits) : exits'[i] = exits[i]
      /\ cancelled => cancelled'
  BY DEF RunnerType, RunnerFrame
<1>5. recorded[n].ran # 0 => exits'[recorded[n].ran] = exits[recorded[n].ran]
  BY <1>2, <1>3, <1>4 DEF TrueResult
<1> QED BY <1>2, <1>3, <1>4, <1>5 DEF TrueResult, Noticed, Commands

\* _not_run_results completes the results of a plan.
LEMMA NotRunCompletes ==
    ASSUME NEW recorded \in Seq(ValidationCommandResult), plan \in ValidationPlan,
           Len(recorded) <= Len(Commands)
    PROVE  /\ NotRun(recorded) \in Seq(ValidationCommandResult)
           /\ Len(NotRun(recorded)) = Len(Commands)
           /\ \A n \in 1 .. Len(recorded) : NotRun(recorded)[n] = recorded[n]
           /\ \A n \in Len(recorded) + 1 .. Len(Commands) :
                NotRun(recorded)[n] =
                    [status |-> "NOT_RUN", command |-> None, ran |-> 0, output |-> "captured"]
<1> DEFINE blank == [status |-> "NOT_RUN", command |-> None, ran |-> 0, output |-> "captured"]
           rest == [n \in 1 .. Len(Commands) - Len(recorded) |-> blank]
<1>1. blank \in ValidationCommandResult
  BY DEF ValidationCommandResult, ValidationStatus, INCOMPLETE, Output
<1>2. Len(Commands) \in Nat /\ Len(recorded) \in Nat
  BY DEF ValidationPlan, Commands
<1>3. Len(Commands) - Len(recorded) \in Nat
  BY <1>2
<1>4. rest \in Seq(ValidationCommandResult) /\ Len(rest) = Len(Commands) - Len(recorded)
  BY <1>1, <1>3
<1>5. NotRun(recorded) = recorded \o rest
  BY DEF NotRun
<1> HIDE DEF rest
<1>6. /\ recorded \o rest \in Seq(ValidationCommandResult)
      /\ Len(recorded \o rest) = Len(recorded) + Len(rest)
      /\ \A i \in 1 .. Len(recorded) + Len(rest) : (recorded \o rest)[i] =
            IF i <= Len(recorded) THEN recorded[i] ELSE rest[i - Len(recorded)]
  BY <1>4
<1>7. \A n \in Len(recorded) + 1 .. Len(Commands) : rest[n - Len(recorded)] = blank
  BY <1>2, <1>3 DEF rest
<1> QED BY <1>2, <1>4, <1>5, <1>6, <1>7

\* A failed plan has a status of its own, CANCELLED before any other.
LEMMA FailureStatuses ==
    ASSUME NEW recorded
    PROVE  /\ FailureStatus(recorded) \in {"CANCELLED", "TIMED_OUT", "INVALID", "UNAVAILABLE",
                                          "BLOCKED", "FAILED"}
           /\ (\E n \in DOMAIN recorded : recorded[n].status = "CANCELLED") =>
                FailureStatus(recorded) = "CANCELLED"
           /\ (\E n \in DOMAIN recorded : recorded[n].status = "INVALID") =>
                FailureStatus(recorded) \in {"CANCELLED", "TIMED_OUT", "INVALID"}
<1>1. PICK order : order = <<"CANCELLED", "TIMED_OUT", "INVALID", "UNAVAILABLE", "BLOCKED", "FAILED">>
  OBVIOUS
<1>2. PICK found : found = {i \in DOMAIN order : \E n \in DOMAIN recorded : StatusOf(recorded, n) = order[i]}
  OBVIOUS
<1>3. FailureStatus(recorded) = IF found = {} THEN "INVALID" ELSE order[Min(found)]
  BY <1>1, <1>2 DEF FailureStatus
<1>4. DOMAIN order = 1 .. 6 /\ found \subseteq 1 .. 6
  BY <1>1, <1>2
<1>5. ASSUME found # {}
      PROVE  Min(found) \in found /\ \A y \in found : Min(found) <= y
  <2>1. found \subseteq Nat
    BY <1>4
  <2>2. \E x \in found : \A y \in found : x <= y
    BY <1>5, <2>1, LeastNatural
  <2> QED BY <2>2 DEF Min
<1>6. /\ order[1] = "CANCELLED" /\ order[2] = "TIMED_OUT" /\ order[3] = "INVALID"
      /\ order[4] = "UNAVAILABLE" /\ order[5] = "BLOCKED" /\ order[6] = "FAILED"
  BY <1>1
<1>7. found # {} => order[Min(found)] \in {"CANCELLED", "TIMED_OUT", "INVALID", "UNAVAILABLE",
                                           "BLOCKED", "FAILED"}
  <2> SUFFICES ASSUME found # {} PROVE order[Min(found)] \in {"CANCELLED", "TIMED_OUT", "INVALID",
                                                              "UNAVAILABLE", "BLOCKED", "FAILED"}
    OBVIOUS
  <2>1. PICK i \in 1 .. 6 : i = Min(found)
    BY <1>4, <1>5
  <2>2. i = 1 \/ i = 2 \/ i = 3 \/ i = 4 \/ i = 5 \/ i = 6
    OBVIOUS
  <2> QED BY <1>6, <2>1, <2>2
<1>8. ASSUME NEW n \in DOMAIN recorded, recorded[n].status = "CANCELLED"
      PROVE  FailureStatus(recorded) = "CANCELLED"
  <2>1. 1 \in found
    BY <1>2, <1>4, <1>6, <1>8 DEF StatusOf
  <2>2. found # {}
    BY <2>1
  <2>3. Min(found) \in found /\ Min(found) <= 1
    BY <1>5, <2>1, <2>2
  <2>4. PICK i \in 1 .. 6 : i = Min(found)
    BY <1>4, <2>3
  <2>5. i = 1
    BY <2>3, <2>4
  <2> QED BY <1>3, <1>6, <2>2, <2>4, <2>5
<1>9. ASSUME NEW n \in DOMAIN recorded, recorded[n].status = "INVALID"
      PROVE  FailureStatus(recorded) \in {"CANCELLED", "TIMED_OUT", "INVALID"}
  <2>1. 3 \in found
    BY <1>2, <1>4, <1>6, <1>9 DEF StatusOf
  <2>2. found # {}
    BY <2>1
  <2>3. Min(found) \in found /\ Min(found) <= 3
    BY <1>5, <2>1, <2>2
  <2>4. PICK i \in 1 .. 6 : i = Min(found)
    BY <1>4, <2>3
  <2>5. i = 1 \/ i = 2 \/ i = 3
    BY <2>3, <2>4
  <2> QED BY <1>3, <1>6, <2>2, <2>4, <2>5
<1> QED BY <1>3, <1>7, <1>8, <1>9

\* The statuses that the aggregate may have.
LEMMA AggregateStatuses ==
    ASSUME NEW recorded
    PROVE  /\ AggregateStatus(recorded) \in ValidationStatus
           /\ AggregateStatus(recorded) \in PASSING => OnlyAllowed(recorded)
           /\ (\E n \in DOMAIN recorded : recorded[n].status = "CANCELLED") =>
                AggregateStatus(recorded) = "CANCELLED"
           /\ (\E n \in DOMAIN recorded : recorded[n].status = "INVALID") =>
                AggregateStatus(recorded) \in {"CANCELLED", "TIMED_OUT", "INVALID"}
<1>1. /\ FailureStatus(recorded) \in ValidationStatus \ PASSING
      /\ (\E n \in DOMAIN recorded : recorded[n].status = "CANCELLED") =>
           FailureStatus(recorded) = "CANCELLED"
      /\ (\E n \in DOMAIN recorded : recorded[n].status = "INVALID") =>
           FailureStatus(recorded) \in {"CANCELLED", "TIMED_OUT", "INVALID"}
  BY FailureStatuses DEF ValidationStatus, PASSING, INCOMPLETE
<1>2. (\E n \in DOMAIN recorded : recorded[n].status \in {"CANCELLED", "INVALID"}) =>
        ~AllComplete(recorded)
  BY DEF AllComplete, StatusOf, INCOMPLETE
<1> QED BY <1>1, <1>2 DEF AggregateStatus, ValidationStatus, PASSING

\* The aggregate reads the plan and the results only.
LEMMA SameAggregate ==
    ASSUME NEW recorded, UNCHANGED plan
    PROVE  /\ AggregateStatus(recorded)' = AggregateStatus(recorded)
           /\ AllComplete(recorded)' = AllComplete(recorded)
           /\ RequiredPassed(recorded)' = RequiredPassed(recorded)
BY DEF AggregateStatus, AllComplete, RequiredPassed, OnlyAllowed, FailureStatus, StatusOf,
       Required, Commands

\* execute returns: the verdict is about results that are true and complete.
LEMMA AggregateStep ==
    ASSUME RunnerType, plan \in ValidationPlan, UNCHANGED <<plan, exits, cancelled>>,
           NEW recorded \in Seq(ValidationCommandResult), Len(recorded) <= Len(Commands),
           TrueResults(recorded), CancelLast(recorded),
           Aggregate(NotRun(recorded))
    PROVE  ValidationType' /\ ValidationInv' /\ validation'.pc = "returned"
<1>1. PICK all : all = NotRun(recorded)
  OBVIOUS
<1>2. /\ all \in Seq(ValidationCommandResult) /\ Len(all) = Len(Commands)
      /\ \A n \in 1 .. Len(recorded) : all[n] = recorded[n]
      /\ \A n \in Len(recorded) + 1 .. Len(Commands) :
           all[n] = [status |-> "NOT_RUN", command |-> None, ran |-> 0, output |-> "captured"]
  BY <1>1, NotRunCompletes
<1>3. /\ DOMAIN recorded = 1 .. Len(recorded) /\ DOMAIN all = 1 .. Len(Commands)
      /\ Len(recorded) \in Nat /\ Len(Commands) \in Nat /\ Len(exits) \in Nat
  BY <1>2 DEF ValidationPlan, Commands, RunnerType
<1>4. ASSUME NEW n \in DOMAIN all
      PROVE  TrueResult(n, all[n])
  <2>1. CASE n <= Len(recorded)
    BY <1>2, <1>3, <2>1 DEF TrueResults
  <2>2. CASE n > Len(recorded)
    <3>1. all[n].status = "NOT_RUN" /\ all[n].ran = 0 /\ ~Noticed(all[n])
      BY <1>2, <1>3, <2>2, NoneAssumption DEF Noticed, CommandStatus
    <3> QED BY <1>3, <3>1 DEF TrueResult
  <2> QED BY <1>3, <2>1, <2>2
<1>5. CancelLast(all)
  <2> SUFFICES ASSUME NEW n \in DOMAIN all, NEW m \in DOMAIN all, Noticed(all[n]), n < m
               PROVE  Stopped(all[n], all[m])
    BY DEF CancelLast
  <2>1. CASE m <= Len(recorded)
    <3>1. n \in DOMAIN recorded /\ m \in DOMAIN recorded /\ all[n] = recorded[n] /\ all[m] = recorded[m]
      BY <1>2, <1>3, <2>1
    <3> QED BY <3>1 DEF CancelLast
  <2>2. CASE m > Len(recorded)
    <3>1. all[m].status = "NOT_RUN" /\ all[m].ran = 0
      BY <1>2, <1>3, <2>2
    <3> QED BY <3>1 DEF Stopped
  <2> QED BY <1>3, <2>1, <2>2
<1>6. PICK status, approvable :
         /\ status = AggregateStatus(all)
         /\ approvable = (/\ AggregateStatus(all) \in PASSING
                          /\ RequiredPassed(all) /\ AllComplete(all))
  OBVIOUS
<1>7. approvable \in BOOLEAN
  BY <1>6
<1>8. /\ results' = all
      /\ validation' = [pc |-> "returned", status |-> status, approvable |-> approvable]
  BY <1>1, <1>6 DEF Aggregate
<1>9. validation'.pc = "returned" /\ validation'.status = status /\ validation'.approvable = approvable
  BY <1>8
<1>10. ValidationType'
  BY <1>2, <1>6, <1>7, <1>8, AggregateStatuses DEF ValidationType
<1>11. /\ AggregateStatus(all)' = AggregateStatus(all) /\ AllComplete(all)' = AllComplete(all)
       /\ UNCHANGED Commands
  BY SameAggregate DEF Commands
<1>12. Verdict(results)'
  <2>1. AggregateStatus(results)' = AggregateStatus(all)
    BY <1>8, <1>11 DEF AggregateStatus, AllComplete, RequiredPassed, OnlyAllowed, FailureStatus,
                       StatusOf, Required, Commands
  <2>2. AllComplete(results)' = AllComplete(all)
    BY <1>8 DEF AllComplete, StatusOf
  <2>3. CancelLast(results)'
    BY <1>5, <1>8 DEF CancelLast
  <2>4. validation'.approvable => AggregateStatus(all) \in PASSING /\ AllComplete(all)
    BY <1>6, <1>9
  <2> QED BY <1>2, <1>6, <1>8, <1>9, <1>11, <2>1, <2>2, <2>3, <2>4 DEF Verdict
<1>13. TrueResults(results)'
  BY <1>4, <1>8 DEF TrueResults, TrueResult, Commands
<1>14. plan' # None
  BY NoneAssumption
<1> QED BY <1>9, <1>10, <1>12, <1>13, <1>14 DEF ValidationInv

\* Recording one more result of a plan that goes on.
LEMMA Recorded ==
    ASSUME ValidationType, plan \in ValidationPlan, GoesOn(results), TrueResults(results),
           NEW result \in ValidationCommandResult, TrueResult(Sequence, result),
           Unnoticed(results) \/ (result.status = "CANCELLED" /\ result.ran = 0),
           NEW recorded, recorded = Append(results, result)
    PROVE  /\ recorded \in Seq(ValidationCommandResult) /\ TrueResults(recorded)
           /\ Len(recorded) <= Len(Commands) /\ Len(Commands) \in Nat
           /\ DOMAIN recorded = 1 .. Len(recorded) /\ recorded[Len(recorded)] = result
           /\ CancelLast(recorded)
           /\ \A n \in DOMAIN recorded : recorded[n].status = "CANCELLED" => n = Len(recorded)
<1>1. /\ results \in Seq(ValidationCommandResult) /\ Len(results) \in Nat
      /\ Len(Commands) \in Nat /\ Len(results) < Len(Commands)
  BY DEF ValidationType, GoesOn, ValidationPlan, Commands
<1>2. /\ recorded \in Seq(ValidationCommandResult) /\ Len(recorded) = Len(results) + 1
      /\ DOMAIN recorded = 1 .. Len(results) + 1 /\ DOMAIN results = 1 .. Len(results)
      /\ recorded[Len(results) + 1] = result
      /\ \A n \in 1 .. Len(results) : recorded[n] = results[n]
  BY <1>1
<1>3. TrueResults(recorded)
  <2> SUFFICES ASSUME NEW n \in 1 .. Len(results) + 1 PROVE TrueResult(n, recorded[n])
    BY <1>2 DEF TrueResults
  <2>1. CASE n = Len(results) + 1
    BY <1>2, <2>1 DEF Sequence
  <2>2. CASE n \in 1 .. Len(results)
    BY <1>2, <2>2 DEF TrueResults
  <2> QED BY <1>1, <2>1, <2>2
<1>4. \A n \in DOMAIN recorded : recorded[n].status = "CANCELLED" => n = Len(recorded)
  BY <1>1, <1>2 DEF GoesOn
<1>5. CancelLast(recorded)
  <2> SUFFICES ASSUME NEW n \in DOMAIN recorded, NEW m \in DOMAIN recorded,
                      Noticed(recorded[n]), n < m
               PROVE  Stopped(recorded[n], recorded[m])
    BY DEF CancelLast
  <2>1. n \in DOMAIN results /\ recorded[n] = results[n]
    BY <1>1, <1>2
  <2>2. CASE m \in 1 .. Len(results)
    <3>1. m \in DOMAIN results /\ recorded[m] = results[m]
      BY <1>2, <2>2
    <3> QED BY <2>1, <3>1 DEF GoesOn, CancelLast
  <2>3. CASE m = Len(results) + 1
    <3>1. recorded[m] = result /\ result.status = "CANCELLED" /\ result.ran = 0
      BY <1>2, <2>1, <2>3 DEF Unnoticed
    <3>2. recorded[n].status = "INVALID"
      BY <2>1 DEF TrueResults, TrueResult, GoesOn
    <3> QED BY <3>1, <3>2 DEF Stopped
  <2> QED BY <1>1, <1>2, <2>2, <2>3
<1> QED BY <1>1, <1>2, <1>3, <1>4, <1>5

\* The result of a command is recorded; a cancellation ends the plan.
LEMMA AdvancePlan ==
    ASSUME RunnerType, ValidationType, plan \in ValidationPlan, UNCHANGED <<plan, exits, cancelled>>,
           ~validation.approvable, GoesOn(results), TrueResults(results), Unnoticed(results),
           NEW result \in ValidationCommandResult, TrueResult(Sequence, result),
           NEW stop \in BOOLEAN, result.status = "CANCELLED" => stop,
           Advance(Append(results, result), stop)
    PROVE  ValidationType' /\ ValidationInv' /\ validation'.pc \in {"next", "returned"}
<1>1. PICK recorded : recorded = Append(results, result)
  OBVIOUS
<1>2. /\ recorded \in Seq(ValidationCommandResult) /\ TrueResults(recorded)
      /\ Len(recorded) <= Len(Commands) /\ Len(Commands) \in Nat
      /\ DOMAIN recorded = 1 .. Len(recorded) /\ recorded[Len(recorded)] = result
      /\ CancelLast(recorded)
      /\ \A n \in DOMAIN recorded : recorded[n].status = "CANCELLED" => n = Len(recorded)
  <2>1. Unnoticed(results) \/ (result.status = "CANCELLED" /\ result.ran = 0)
    OBVIOUS
  <2> QED BY <1>1, <2>1, Recorded
<1>3. CASE stop \/ Len(recorded) = Len(Commands)
  <2>1. Aggregate(NotRun(recorded))
    BY <1>1, <1>3 DEF Advance
  <2> QED BY <1>2, <2>1, AggregateStep
<1>4. CASE ~(stop \/ Len(recorded) = Len(Commands))
  <2>1. results' = recorded /\ validation' = [validation EXCEPT !.pc = "next"]
    BY <1>1, <1>4 DEF Advance
  <2>2. /\ ValidationType' /\ validation'.pc = "next" /\ validation'.approvable = validation.approvable
    BY <1>2, <2>1 DEF ValidationType
  <2>3. TrueResults(results)'
    BY <1>2, <2>1 DEF TrueResults, TrueResult, Commands
  <2>4. \A n \in DOMAIN recorded : recorded[n].status # "CANCELLED"
    BY <1>2, <1>4
  <2>5. GoesOn(results)'
    BY <1>2, <1>4, <2>1, <2>4 DEF GoesOn, CancelLast, Commands
  <2>6. plan' # None
    BY NoneAssumption
  <2> QED BY <2>2, <2>3, <2>5, <2>6 DEF ValidationInv
<1> QED BY <1>3, <1>4

\* A result that names no process.
LEMMA UnlaunchedTrue ==
    ASSUME RunnerType, NEW n, NEW status \in {"INVALID", "CANCELLED"}, status = "CANCELLED" => cancelled,
           NEW result,
           result = [status |-> status, command |-> None, ran |-> 0, output |-> "captured"]
    PROVE  /\ result \in ValidationCommandResult /\ TrueResult(n, result)
           /\ result.status = status /\ result.ran = 0
<1>1. Len(exits) \in Nat
  BY DEF RunnerType
<1>2. Noticed(result) => status = "CANCELLED"
  BY NoneAssumption DEF Noticed, CommandStatus
<1> QED BY <1>1, <1>2 DEF ValidationCommandResult, ValidationStatus, INCOMPLETE, Output, TrueResult

\* The result of a command is true of the process that it ran.
LEMMA OutcomeTrue ==
    ASSUME RunnerType, RunnerInv, At("returned"), runner.result.exit_code # "signal",
           NEW status \in {CommandOutcome(runner.result), "INVALID"},
           NEW result, result = [status |-> status, command |-> runner.result.status,
                                 ran |-> IF child.state = "exited" THEN Len(exits) ELSE 0,
                                 output |-> runner.result.output]
    PROVE  result \in ValidationCommandResult /\ TrueResult(Sequence, result) /\ result.status = status
<1>1. ResultInv /\ exits \in Seq(ExitCodes) /\ Len(exits) \in Nat
  BY DEF RunnerInv, RunnerType
<1>2. /\ runner.result.status \in CommandStatus /\ runner.result.output \in Output
  BY <1>1 DEF ResultInv, CommandResult
<1>3. /\ status \in ValidationStatus
      /\ status = "PASSED" => runner.result.status = "SUCCESS"
      /\ status = "FAILED" => runner.result.status = "NONZERO_EXIT"
      /\ status = "CANCELLED" => runner.result.status = "CANCELLED"
      /\ runner.result.status = "CANCELLED" => status \in {"CANCELLED", "INVALID"}
      /\ status # "INVALID" => ~Incomplete(runner.result)
  BY <1>2 DEF CommandOutcome, CommandStatus, ValidationStatus, PASSING, INCOMPLETE
<1>4. /\ result.status = status /\ result.output = runner.result.output
      /\ result.command = runner.result.status
      /\ result.ran = IF child.state = "exited" THEN Len(exits) ELSE 0
  OBVIOUS
<1>5. result \in ValidationCommandResult
  BY <1>1, <1>2, <1>3 DEF ValidationCommandResult
<1>6. ASSUME status \in {"PASSED", "FAILED"}
      PROVE  /\ result.ran = Len(exits) /\ result.ran # 0
             /\ exits[Len(exits)] = child.exit_code /\ child.exit_code = runner.result.exit_code
             /\ child.exit_code \in ExitCodes
  <2>1. child.state = "exited" /\ child.exit_code = runner.result.exit_code
    BY <1>1, <1>3, <1>6 DEF ResultInv
  <2>2. exits # <<>> /\ child.exit_code = exits[Len(exits)]
    BY <2>1 DEF RunnerInv
  <2>3. Len(exits) # 0 /\ exits[Len(exits)] \in ExitCodes
    BY <1>1, <2>2
  <2> QED BY <1>4, <2>1, <2>2, <2>3
<1>7. status = "PASSED" => exits[result.ran] = "expected"
  BY <1>1, <1>3, <1>6 DEF ResultInv
<1>8. status = "FAILED" => exits[result.ran] = "other"
  BY <1>1, <1>3, <1>6 DEF ResultInv, ExitCodes
<1>9. status \in {"PASSED", "FAILED"} =>
        (Commands[Sequence].require_complete => result.output # "truncated")
  BY <1>3, <1>4 DEF Incomplete, Command
<1>10. Noticed(result) => cancelled /\ status \in {"CANCELLED", "INVALID"}
  BY <1>1, <1>3, <1>4 DEF ResultInv, Noticed
<1>11. result.ran <= Len(exits)
  BY <1>1, <1>4
<1> QED BY <1>4, <1>5, <1>6, <1>7, <1>8, <1>9, <1>10, <1>11 DEF TrueResult

-----------------------------------------------------------------------------
(* The steps of Execution.                                                  *)

\* The capped plan and the request do not change.
LEMMA PlanKept ==
    ASSUME PlanFitsAllowance, UNCHANGED <<plan, request>>
    PROVE  PlanFitsAllowance'
BY DEF PlanFitsAllowance, request, Commands, Total

\* A step of the plan keeps the invariant.
LEMMA ValidationMoves ==
    ASSUME Inv, ValidationStep, UNCHANGED <<agentVars, request>>
    PROVE  Inv'
<1>0. /\ RunnerType /\ ValidationType /\ AgentType /\ RunnerInv /\ TurnInv /\ ValidationInv
      /\ work \in {"plan", "agent"} /\ allowance \in Nat /\ declared \in Declared \cup {<<>>}
      /\ PlanFitsAllowance /\ SideEffectsHonest /\ AgentInv
  BY DEF Inv, TypeOK
<1>1. /\ validation.pc \in {"start", "next", "running"} /\ UNCHANGED plan
      /\ UNCHANGED <<exits, cancelled>>
  BY DEF ValidationStep, Preflight, StartCommand, CommandReturned, runnerVars
<1>2. /\ invocation.pc = "returned" /\ plan \in ValidationPlan /\ GoesOn(results)
      /\ TrueResults(results) /\ ~validation.approvable
  BY <1>0, <1>1 DEF TurnInv, ValidationType, ValidationInv
<1>3. ASSUME RunnerType', RunnerInv', ValidationType', ValidationInv',
             validation'.pc \in {"next", "running", "returned", "raised"},
             validation'.pc = "running" \/ runner'.pc = "idle"
      PROVE  Inv'
  <2>1. UNCHANGED <<invocation, differs, wrote, work, declared, allowance>>
    BY DEF agentVars, request
  <2>2. TypeOK'
    BY <1>0, <1>3, <2>1 DEF TypeOK, AgentType
  <2>3. TurnInv'
    BY <1>0, <1>1, <1>2, <1>3, <2>1 DEF TurnInv
  <2>4. AgentInv' /\ SideEffectsHonest'
    BY <1>0, <1>2, <2>1 DEF AgentInv, SideEffectsHonest
  <2> QED BY <1>0, <1>1, <1>3, <2>2, <2>3, <2>4, PlanKept DEF Inv
<1>4. ASSUME UNCHANGED results, NEW pc \in {"next", "running", "raised"},
             validation' = [validation EXCEPT !.pc = pc], pc # "next" => Unnoticed(results)
      PROVE  ValidationType' /\ ValidationInv' /\ validation'.pc = pc
  <2>1. ValidationType' /\ validation'.pc = pc /\ validation'.approvable = validation.approvable
    BY <1>0, <1>1, <1>4 DEF ValidationType
  <2>2. TrueResults(results)'
    BY <1>1, <1>2, <1>4 DEF TrueResults, TrueResult, Commands
  <2>3. GoesOn(results)'
    BY <1>1, <1>2, <1>4 DEF GoesOn, CancelLast, Commands
  <2>4. plan' # None
    BY <1>0, <1>1 DEF TurnInv
  <2>5. pc # "next" => Unnoticed(results)'
    BY <1>4 DEF Unnoticed
  <2> QED BY <1>2, <2>1, <2>2, <2>3, <2>4, <2>5 DEF ValidationInv
<1>5. ASSUME NEW status \in {"INVALID", "CANCELLED"}, status = "CANCELLED" => cancelled,
             Unnoticed(results) \/ status = "CANCELLED",
             Aggregate(NotRun(Unlaunched(status)))
      PROVE  ValidationType' /\ ValidationInv' /\ validation'.pc = "returned"
  <2>1. PICK result : result = [status |-> status, command |-> None, ran |-> 0,
                                output |-> "captured"]
    OBVIOUS
  <2>2. /\ result \in ValidationCommandResult /\ TrueResult(Sequence, result)
        /\ result.status = status /\ result.ran = 0
    BY <1>0, <1>5, <2>1, UnlaunchedTrue
  <2>3. PICK recorded : recorded = Append(results, result)
    OBVIOUS
  <2>4. Unlaunched(status) = recorded
    BY <2>1, <2>3 DEF Unlaunched, Record
  <2>5. /\ recorded \in Seq(ValidationCommandResult) /\ TrueResults(recorded)
        /\ Len(recorded) <= Len(Commands)
        /\ CancelLast(recorded)
    BY <1>0, <1>2, <1>5, <2>2, <2>3, Recorded
  <2> QED BY <1>0, <1>1, <1>2, <1>5, <2>4, <2>5, AggregateStep
<1>6. CASE Preflight
  <2>1. UNCHANGED runnerVars /\ validation.pc = "start" /\ Unnoticed(results)
    BY <1>0, <1>6 DEF Preflight, ValidationInv
  <2>2. RunnerType' /\ RunnerInv' /\ runner'.pc = "idle"
    BY <1>0, <1>2, <2>1 DEF runnerVars, RunnerType, RunnerInv, ResultInv, At, Running, TurnInv
  <2>3. CASE Aggregate(NotRun(Unlaunched("INVALID")))
    BY <1>3, <1>5, <2>1, <2>2, <2>3
  <2>4. CASE validation' = [validation EXCEPT !.pc = "next"] /\ UNCHANGED results
    BY <1>3, <1>4, <2>2, <2>4
  <2> QED BY <1>6, <2>3, <2>4 DEF Preflight
<1>7. CASE StartCommand
  <2>0. validation.pc = "next" /\ runner.pc = "idle"
    BY <1>0, <1>2, <1>7 DEF StartCommand, TurnInv
  <2>9. ~cancelled => Unnoticed(results)
    BY <1>2 DEF Unnoticed, TrueResults, TrueResult
  <2>1. UNCHANGED runnerVars => RunnerType' /\ RunnerInv' /\ runner'.pc = "idle"
    BY <1>0, <2>0 DEF runnerVars, RunnerType, RunnerInv, ResultInv, At, Running
  <2>2. CASE cancelled /\ Aggregate(NotRun(Unlaunched("CANCELLED"))) /\ UNCHANGED runnerVars
    BY <1>3, <1>5, <2>1, <2>2
  <2>3. CASE /\ ~cancelled /\ Run(Command.timeout) /\ validation' = [validation EXCEPT !.pc = "running"]
             /\ UNCHANGED <<results, cancelled, exits>>
    <3>1. Sequence \in 1 .. Len(Commands)
      BY <1>0, <1>2 DEF GoesOn, ValidationType, ValidationPlan, Commands, Sequence
    <3>2. Command \in ValidationCommand
      BY <1>2, <3>1 DEF Command, Commands, ValidationPlan
    <3>3. Command.timeout \in Nat
      BY <3>2 DEF ValidationCommand
    <3> QED BY <1>0, <1>3, <1>4, <2>3, <2>9, <3>3, RunStarts
  <2>4. CASE /\ ~cancelled /\ Advance(Unlaunched("INVALID"), ShouldStop("INVALID", Command.required))
             /\ UNCHANGED runnerVars
    <3>1. PICK result : result = [status |-> "INVALID", command |-> None, ran |-> 0,
                                  output |-> "captured"]
      OBVIOUS
    <3>2. /\ result \in ValidationCommandResult /\ TrueResult(Sequence, result)
          /\ result.status = "INVALID"
      BY <1>0, <3>1, UnlaunchedTrue
    <3>3. Unlaunched("INVALID") = Append(results, result)
      BY <3>1 DEF Unlaunched, Record
    <3>4. ShouldStop("INVALID", Command.required) \in BOOLEAN
      BY DEF ShouldStop
    <3>5. ValidationType' /\ ValidationInv' /\ validation'.pc \in {"next", "returned"}
      BY <1>0, <1>1, <1>2, <2>4, <2>9, <3>2, <3>3, <3>4, AdvancePlan
    <3> QED BY <1>3, <2>1, <2>4, <3>5
  <2>5. CASE /\ ~cancelled /\ validation' = [validation EXCEPT !.pc = "raised"]
             /\ UNCHANGED <<results, runnerVars>>
    BY <1>3, <1>4, <2>1, <2>5, <2>9
  <2> QED BY <1>7, <2>2, <2>3, <2>4, <2>5 DEF StartCommand
<1>8. CASE CommandReturned
  <2>0. /\ validation.pc = "running" /\ At("returned") /\ Unnoticed(results)
        /\ runner' = IdleRunner /\ child' = NoChild /\ elapsed' = 0
    BY <1>0, <1>8 DEF CommandReturned, At, ValidationInv
  <2>1. RunnerType' /\ RunnerInv' /\ runner'.pc = "idle"
    BY <1>0, <1>1, <2>0, Resets
  <2>2. CASE runner.result.exit_code = "signal"
    BY <1>3, <1>4, <1>8, <2>0, <2>1, <2>2 DEF CommandReturned
  <2>3. CASE runner.result.exit_code # "signal"
    <3>1. PICK status \in {CommandOutcome(runner.result), "INVALID"} :
             Advance(Record(status, runner.result.status,
                            IF child.state = "exited" THEN Len(exits) ELSE 0,
                            runner.result.output),
                     ShouldStop(status, Command.required))
      BY <1>8, <2>3 DEF CommandReturned
    <3>2. PICK result : result = [status |-> status, command |-> runner.result.status,
                                  ran |-> IF child.state = "exited" THEN Len(exits) ELSE 0,
                                  output |-> runner.result.output]
      OBVIOUS
    <3>3. result \in ValidationCommandResult /\ TrueResult(Sequence, result) /\ result.status = status
      BY <1>0, <2>0, <2>3, <3>2, OutcomeTrue
    <3>4. /\ ShouldStop(status, Command.required) \in BOOLEAN
          /\ status = "CANCELLED" => ShouldStop(status, Command.required)
      BY DEF ShouldStop
    <3>5. Advance(Append(results, result), ShouldStop(status, Command.required))
      BY <3>1, <3>2 DEF Record
    <3>6. ValidationType' /\ ValidationInv' /\ validation'.pc \in {"next", "returned"}
      BY <1>0, <1>1, <1>2, <2>0, <3>3, <3>4, <3>5, AdvancePlan
    <3> QED BY <1>3, <2>1, <3>6
  <2> QED BY <2>2, <2>3
<1> QED BY <1>6, <1>7, <1>8 DEF ValidationStep

\* A step of the runner, or beside it, keeps the invariant.
LEMMA RunnerStepKeeps ==
    ASSUME Inv, RunnerStep \/ Beside, UNCHANGED <<validationVars, agentVars, request>>
    PROVE  Inv'
<1>0. /\ RunnerType /\ ValidationType /\ AgentType /\ RunnerInv /\ TurnInv /\ ValidationInv
      /\ work \in {"plan", "agent"} /\ allowance \in Nat /\ declared \in Declared \cup {<<>>}
      /\ PlanFitsAllowance /\ SideEffectsHonest /\ AgentInv
  BY DEF Inv, TypeOK
<1>1. RunnerFrame /\ RunnerInv' /\ RunnerType'
  BY <1>0, RunnerMoves, BesideMoves, RunnerTypeKept
<1>2. UNCHANGED <<plan, validation, results, invocation, differs, wrote, work, declared, allowance>>
  BY DEF validationVars, agentVars, request
<1>3. TypeOK'
  BY <1>0, <1>1, <1>2 DEF TypeOK, ValidationType, AgentType
<1>4. TurnInv'
  BY <1>0, <1>1, <1>2 DEF TurnInv, RunnerFrame
<1>5. ValidationInv'
  <2>1. results \in Seq(ValidationCommandResult) /\ TrueResults(results)
    BY <1>0 DEF ValidationType, ValidationInv
  <2>2. \A n \in DOMAIN results : TrueResult(n, results[n])'
    BY <1>0, <1>1, <1>2, <2>1, TrueResultsKept DEF TrueResult, Commands
  <2>3. TrueResults(results)'
    BY <1>2, <2>2 DEF TrueResults, TrueResult, Commands
  <2>4. GoesOn(results) => GoesOn(results)'
    BY <1>2 DEF GoesOn, CancelLast, Commands
  <2>5. Verdict(results) => Verdict(results)'
    BY <1>2 DEF Verdict, CancelLast, Commands, AggregateStatus, AllComplete, RequiredPassed,
                OnlyAllowed, FailureStatus, StatusOf, Required
  <2> QED BY <1>0, <1>2, <2>3, <2>4, <2>5 DEF ValidationInv, Unnoticed
<1>6. AgentInv' /\ SideEffectsHonest'
  BY <1>0, <1>1, <1>2 DEF AgentInv, SideEffectsHonest, RunnerFrame
<1> QED BY <1>0, <1>1, <1>2, <1>3, <1>4, <1>5, <1>6, PlanKept DEF Inv

\* A response of the provider that claims no side effects claims them itself.
LEMMA ResponsesClaim ==
    ASSUME NEW output, NEW response \in Translated(output) \cup {Rejected}
    PROVE  /\ response \in AgentResponse
           /\ response.side_effects = "NONE" => response.claimed
           /\ response.side_effects \in SideEffects \/ response.status = "COMPLETED"
<1>1. /\ Rejected \in AgentResponse /\ Rejected.side_effects # "NONE"
      /\ Rejected.side_effects \in SideEffects
  BY DEF Rejected, AgentResponse, AgentStatus, SideEffects
<1>2. CASE response = Rejected
  BY <1>1, <1>2
<1>3. CASE response # Rejected
  <2>1. response \in ProviderResponses
    BY <1>3 DEF Translated, Normalized, Parsed
  <2>2. CASE response = [status |-> "COMPLETED", side_effects |-> None, claimed |-> FALSE]
    BY <2>2, NoneAssumption DEF AgentResponse, AgentStatus, SideEffects
  <2>3. CASE \E status \in AgentStatus \ {"COMPLETED"} :
               response \in [status : {status}, side_effects : ClaimableEffects(status), claimed : {TRUE}]
    BY <2>3 DEF AgentResponse, ClaimableEffects, SideEffects
  <2> QED BY <2>1, <2>2, <2>3 DEF ProviderResponses
<1> QED BY <1>2, <1>3

AgentRecord == [pc : {"start", "running", "response", "returned"},
                role : {"BUILDER", "REPAIRER", "REVIEWER"}, response : AgentResponse \cup {None},
                effects : {None, "KNOWN_NONE", "KNOWN_PRESENT", "AMBIGUOUS"}]

\* A response of the invocation.
LEMMA RespondStep ==
    ASSUME invocation \in AgentRecord, NEW status \in AgentStatus, NEW effects \in SideEffects \cup {None},
           NEW claimed \in BOOLEAN, Respond(status, effects, claimed)
    PROVE  /\ invocation' \in AgentRecord /\ invocation'.pc = "response"
           /\ invocation'.role = invocation.role /\ invocation'.effects = invocation.effects
           /\ invocation'.response.side_effects = effects /\ invocation'.response.claimed = claimed
           /\ invocation'.response.status = status
<1>1. PICK response : response = [status |-> status, side_effects |-> effects, claimed |-> claimed]
  OBVIOUS
<1>2. /\ response \in AgentResponse /\ response.side_effects = effects /\ response.claimed = claimed
      /\ response.status = status
  BY <1>1 DEF AgentResponse
<1>3. invocation' = [invocation EXCEPT !.pc = "response", !.response = response]
  BY <1>1 DEF Respond
<1> QED BY <1>2, <1>3 DEF AgentRecord

\* A step of the invocation keeps the invariant.
LEMMA AgentMoves ==
    ASSUME Inv, AgentStep \/ ProviderWrites, UNCHANGED <<validationVars, request>>
    PROVE  Inv'
<1>0. /\ RunnerType /\ ValidationType /\ AgentType /\ RunnerInv /\ TurnInv /\ ValidationInv
      /\ work \in {"plan", "agent"} /\ allowance \in Nat /\ declared \in Declared \cup {<<>>}
      /\ PlanFitsAllowance /\ SideEffectsHonest /\ AgentInv
      /\ invocation \in AgentRecord /\ wrote \in BOOLEAN /\ differs \in BOOLEAN
  BY DEF Inv, TypeOK, AgentType, AgentRecord
<1>1. UNCHANGED <<plan, validation, results, work, declared, allowance, exits, cancelled>>
  BY DEF AgentStep, PrelaunchChecks, ProviderReturned, ConcludeSideEffects, ProviderWrites,
         validationVars, request, runnerVars
<1>2. ValidationType' /\ ValidationInv' /\ PlanFitsAllowance'
  <2>1. TrueResults(results)'
    BY <1>0, <1>1 DEF ValidationInv, TrueResults, TrueResult, Commands
  <2>2. GoesOn(results) => GoesOn(results)'
    BY <1>1 DEF GoesOn, CancelLast, Commands
  <2>3. Verdict(results) => Verdict(results)'
    BY <1>1 DEF Verdict, CancelLast, Commands, AggregateStatus, AllComplete, RequiredPassed,
                OnlyAllowed, FailureStatus, StatusOf, Required
  <2>4. ValidationType'
    BY <1>0, <1>1 DEF ValidationType
  <2> QED BY <1>0, <1>1, <2>1, <2>2, <2>3, <2>4, PlanKept DEF ValidationInv, Unnoticed
<1>3. invocation.pc # "returned" /\ validation.pc \in {"returned", "raised"}
  <2>1. invocation.pc # "returned"
    BY DEF AgentStep, PrelaunchChecks, ProviderReturned, ConcludeSideEffects, ProviderWrites
  <2> QED BY <1>0, <2>1 DEF TurnInv, ValidationType
<1>4. ASSUME RunnerType', RunnerInv', invocation' \in AgentRecord, wrote' \in BOOLEAN, differs' \in BOOLEAN,
             AgentInv', SideEffectsHonest', invocation'.pc = "running" \/ runner'.pc = "idle"
      PROVE  Inv'
  <2>1. TypeOK'
    BY <1>0, <1>1, <1>2, <1>4 DEF TypeOK, AgentType, AgentRecord
  <2>2. TurnInv'
    BY <1>1, <1>3, <1>4 DEF TurnInv
  <2> QED BY <1>2, <1>4, <2>1, <2>2 DEF Inv
<1>5. UNCHANGED runnerVars => RunnerType' /\ RunnerInv' /\ UNCHANGED <<runner, child>>
  BY <1>0 DEF runnerVars, RunnerType, RunnerInv, ResultInv, At, Running
<1>6. invocation.effects = None /\ None # "KNOWN_NONE"
  BY <1>0, <1>3, NoneAssumption DEF AgentInv
<1>7. CASE PrelaunchChecks
  <2>0. /\ invocation.pc = "start" /\ UNCHANGED <<differs, wrote>> /\ ~wrote
        /\ runner.pc = "idle"
    BY <1>0, <1>3, <1>7 DEF PrelaunchChecks, AgentInv, TurnInv
  <2>1. CASE Run(1) /\ invocation' = [invocation EXCEPT !.pc = "running"] /\ UNCHANGED <<cancelled, exits>>
    <3>1. RunnerType' /\ RunnerInv'
      BY <1>0, <2>1, RunStarts
    <3>2. invocation' \in AgentRecord /\ invocation'.pc = "running" /\ invocation'.effects = None
      BY <1>0, <1>6, <2>1 DEF AgentRecord
    <3>3. AgentInv' /\ SideEffectsHonest'
      BY <1>6, <2>0, <3>2 DEF AgentInv, SideEffectsHonest
    <3> QED BY <1>0, <1>4, <2>0, <3>1, <3>2, <3>3
  <2>2. CASE /\ \E status \in {"FAILED", "UNAVAILABLE"} \cup (IF cancelled THEN {"CANCELLED"} ELSE {}) :
                  Respond(status, "NONE", FALSE)
             /\ UNCHANGED runnerVars
    <3>1. PICK status \in {"FAILED", "UNAVAILABLE", "CANCELLED"} : Respond(status, "NONE", FALSE)
      BY <2>2
    <3>2. UNCHANGED runnerVars
      BY <2>2
    <3>3. status \in AgentStatus /\ "NONE" \in SideEffects
      BY <3>1 DEF AgentStatus, SideEffects
    <3>4. invocation' \in AgentRecord /\ invocation'.pc = "response" /\ invocation'.effects = None
      BY <1>0, <1>6, <3>1, <3>3, RespondStep
    <3>5. AgentInv' /\ SideEffectsHonest'
      BY <1>6, <2>0, <3>4 DEF AgentInv, SideEffectsHonest
    <3> QED BY <1>0, <1>4, <1>5, <2>0, <3>2, <3>4, <3>5
  <2> QED BY <1>7, <2>1, <2>2 DEF PrelaunchChecks
<1>8. CASE ProviderReturned
  <2>0. /\ invocation.pc = "running" /\ At("returned") /\ UNCHANGED <<differs, wrote>>
        /\ runner' = IdleRunner /\ child' = NoChild /\ elapsed' = 0
    BY <1>8 DEF ProviderReturned, At
  <2>1. RunnerType' /\ RunnerInv' /\ runner'.pc = "idle"
    BY <1>0, <1>1, <2>0, Resets
  <2>2. ASSUME NEW status \in AgentStatus, NEW effects \in SideEffects \cup {None},
               NEW claimed \in BOOLEAN, Respond(status, effects, claimed),
               wrote /\ effects = "NONE" => claimed,
               effects \in SideEffects \/ status = "COMPLETED"
        PROVE  Inv'
    <3>1. /\ invocation' \in AgentRecord /\ invocation'.pc = "response"
          /\ invocation'.role = invocation.role /\ invocation'.effects = None
          /\ invocation'.response.side_effects = effects /\ invocation'.response.claimed = claimed
          /\ invocation'.response.status = status
      BY <1>0, <1>6, <2>2, RespondStep
    <3>2. AgentInv'
      BY <1>0, <2>0, <2>2, <3>1 DEF AgentInv
    <3>3. SideEffectsHonest'
      BY <1>6, <3>1 DEF SideEffectsHonest
    <3> QED BY <1>0, <1>4, <2>0, <2>1, <3>1, <3>2, <3>3
  <2>3. CASE runner.result.status = "SUCCESS"
    <3>1. PICK response \in Translated(runner.result.output) \cup {Rejected} :
             Respond(response.status, response.side_effects, response.claimed)
      BY <1>8, <2>3 DEF ProviderReturned, Envelope
    <3>2. /\ response \in AgentResponse /\ (response.side_effects = "NONE" => response.claimed)
          /\ response.side_effects \in SideEffects \/ response.status = "COMPLETED"
      BY <3>1, ResponsesClaim
    <3>3. /\ response.status \in AgentStatus /\ response.side_effects \in SideEffects \cup {None}
          /\ response.claimed \in BOOLEAN
      BY <3>2 DEF AgentResponse
    <3> QED BY <2>2, <3>1, <3>2, <3>3
  <2>4. CASE runner.result.status # "SUCCESS"
    <3>1. PICK status, effects : /\ status = CommandFailureStatus(runner.result.status)
                                /\ effects = CommandFailureEffects(runner.result.status, invocation.role)
      OBVIOUS
    <3>2. Respond(status, effects, FALSE)
      BY <1>8, <2>4, <3>1 DEF ProviderReturned
    <3>3. status \in AgentStatus
      BY <3>1 DEF CommandFailureStatus, AgentStatus
    <3>4. effects \in SideEffects
      BY <3>1 DEF CommandFailureEffects, SideEffects
    <3>5. wrote => runner.result.status # "EXECUTABLE_UNAVAILABLE" /\ invocation.role # "REVIEWER"
      BY <1>0, <2>0 DEF AgentInv, RunnerInv, ResultInv
    <3>6. wrote => effects # "NONE"
      BY <3>1, <3>5 DEF CommandFailureEffects
    <3> QED BY <2>2, <3>2, <3>3, <3>4, <3>6
  <2> QED BY <2>3, <2>4
<1>9. CASE ConcludeSideEffects
  <2>0. /\ invocation.pc = "response" /\ UNCHANGED runnerVars /\ UNCHANGED <<differs, wrote>>
        /\ runner.pc = "idle"
    BY <1>0, <1>3, <1>9 DEF ConcludeSideEffects, TurnInv
  <2>1. PICK effects \in SideEffectsOf(invocation.response) :
           invocation' = [invocation EXCEPT !.pc = "returned", !.effects = effects]
    BY <1>9 DEF ConcludeSideEffects
  <2>2. /\ effects \in {"KNOWN_NONE", "KNOWN_PRESENT", "AMBIGUOUS"}
        /\ effects = "KNOWN_NONE" =>
             \/ invocation.role = "REVIEWER"
             \/ invocation.response.side_effects = "NONE"
             \/ invocation.response.side_effects \notin {"NONE", "POSSIBLE", "CONFIRMED"} /\ ~differs
    <3>1. CASE differs
      BY <2>1, <3>1 DEF SideEffectsOf
    <3>2. CASE ~differs
      BY <2>1, <3>2 DEF SideEffectsOf
    <3> QED BY <3>1, <3>2
  <2>3. /\ invocation' \in AgentRecord /\ invocation'.pc = "returned"
        /\ invocation'.role = invocation.role /\ invocation'.effects = effects
        /\ invocation'.response = invocation.response
    BY <1>0, <2>1, <2>2 DEF AgentRecord
  <2>4. AgentInv'
    BY <1>0, <2>0, <2>3 DEF AgentInv
  <2>5. SideEffectsHonest'
    BY <1>0, <2>0, <2>2, <2>3 DEF AgentInv, SideEffectsHonest, SideEffects
  <2> QED BY <1>0, <1>4, <1>5, <2>0, <2>3, <2>4, <2>5
<1>10. CASE ProviderWrites
  <2>0. /\ invocation.pc = "running" /\ invocation.role # "REVIEWER" /\ wrote' = TRUE
        /\ differs' \in BOOLEAN /\ UNCHANGED <<invocation, runnerVars>> /\ child.state = "running"
    BY <1>10 DEF ProviderWrites, Running
  <2>1. AgentInv' /\ SideEffectsHonest'
    BY <1>0, <1>5, <1>6, <2>0 DEF AgentInv, SideEffectsHonest
  <2> QED BY <1>0, <1>4, <1>5, <2>0, <2>1
<1> QED BY <1>7, <1>8, <1>9, <1>10 DEF AgentStep

-----------------------------------------------------------------------------
(* The theorems.                                                            *)

\* What is capped is the declared plan fitted into the allowance.
LEMMA CappedPlan ==
    ASSUME allowance \in Allowances, declared \in Declared,
           NEW capped, capped = CapValidationPlan(declared, allowance), capped # None,
           plan \in PlansWith(capped)
    PROVE  /\ plan \in ValidationPlan /\ Len(Commands) = Len(declared) /\ declared # <<>>
           /\ \A n \in DOMAIN declared : Commands[n].timeout \in 1 .. declared[n]
           /\ Total([n \in DOMAIN declared |-> Commands[n].timeout]) =
                IF allowance < Total(declared) THEN allowance ELSE Total(declared)
<1>1. declared \in Seq(Nat \ {0}) /\ declared # <<>> /\ allowance \in Nat
  BY ExecutionAssumption
<1>2. /\ capped \in Seq(Nat \ {0}) /\ Len(capped) = Len(declared)
      /\ \A n \in 1 .. Len(declared) : capped[n] <= declared[n]
      /\ Total(capped) = IF allowance < Total(declared) THEN allowance ELSE Total(declared)
  BY <1>1, CapFits
<1>3. /\ DOMAIN capped = 1 .. Len(capped) /\ DOMAIN declared = 1 .. Len(declared)
      /\ DOMAIN capped = DOMAIN declared /\ Len(declared) \in Nat
      /\ capped = [n \in DOMAIN declared |-> capped[n]]
      /\ \A n \in DOMAIN capped : capped[n] \in Nat \ {0} /\ declared[n] \in Nat
  BY <1>1, <1>2
<1>4. PICK class \in [DOMAIN capped -> BOOLEAN], fast \in BOOLEAN, allow \in BOOLEAN :
         plan = [commands |-> [n \in DOMAIN capped |->
                   [required |-> class[n], timeout |-> capped[n], require_complete |-> n = 1]],
                 fail_fast |-> fast, allow_advisory_failures |-> allow]
  BY DEF PlansWith
<1>5. Commands = [n \in 1 .. Len(declared) |->
                   [required |-> class[n], timeout |-> capped[n], require_complete |-> n = 1]]
  BY <1>2, <1>3, <1>4 DEF Commands
<1>6. \A n \in 1 .. Len(declared) : /\ Commands[n] \in ValidationCommand
                                   /\ Commands[n].timeout = capped[n]
  BY <1>2, <1>3, <1>4, <1>5 DEF ValidationCommand
<1>7. Commands \in Seq(ValidationCommand) /\ Len(Commands) = Len(declared)
  BY <1>3, <1>5, <1>6
<1>8. plan \in ValidationPlan
  BY <1>4, <1>7 DEF ValidationPlan, Commands
<1>9. [n \in DOMAIN declared |-> Commands[n].timeout] = capped
  BY <1>3, <1>6
<1>10. \A n \in DOMAIN declared : Commands[n].timeout \in 1 .. declared[n]
  <2> TAKE n \in DOMAIN declared
  <2>1. n \in 1 .. Len(declared) /\ Commands[n].timeout = capped[n]
    BY <1>3, <1>6
  <2>2. capped[n] \in Nat \ {0} /\ declared[n] \in Nat /\ capped[n] <= declared[n]
    BY <1>2, <1>3, <2>1
  <2> QED BY ONLY <2>1, <2>2
<1> QED BY <1>1, <1>2, <1>7, <1>8, <1>9, <1>10

\* An execution starts with an idle runner, and a plan that fits or none.
LEMMA InvInit == Init => Inv
<1> SUFFICES ASSUME Init PROVE Inv
  OBVIOUS
<1>1. /\ RunnerInit /\ work \in {"plan", "agent"} /\ results = <<>> /\ wrote = FALSE
      /\ validation = [pc |-> IF plan = None THEN "returned" ELSE "start", status |-> None,
                       approvable |-> FALSE]
  BY DEF Init
<1>2. RunnerType /\ RunnerInv /\ runner.pc = "idle"
  <2>0. runner = IdleRunner /\ child = NoChild /\ elapsed = 0 /\ cancelled = FALSE /\ exits = <<>>
    BY <1>1 DEF RunnerInit
  <2>1. /\ runner \in RunnerRecord /\ runner.pc = "idle" /\ runner.why = None
        /\ runner.timeout = 0
    BY <2>0 DEF IdleRunner, RunnerRecord, RunnerSteps
  <2>2. child \in ChildRecord /\ child.state = "none" /\ child.exit_code = None
    BY <2>0 DEF NoChild, ChildRecord
  <2>3. None # "CANCELLED"
    BY NoneAssumption DEF CommandStatus
  <2>4. RunnerType
    <3>1. elapsed \in 0 .. runner.timeout
      BY <2>0, <2>1
    <3>2. exits \in Seq(ExitCodes)
      BY <2>0
    <3>3. cancelled \in BOOLEAN
      BY <2>0
    <3> QED BY <2>1, <2>2, <3>1, <3>2, <3>3 DEF RunnerType, RunnerRecord, ChildRecord
  <2> QED BY <2>0, <2>1, <2>2, <2>3, <2>4
          DEF RunnerInv, Unlaunching, Polling, Stopping, Closing, At, Running
<1>3. /\ invocation \in AgentRecord /\ invocation.pc \in {"start", "returned"}
      /\ invocation.effects = None
      /\ plan # None => invocation.pc = "returned"
  <2>1. CASE work = "plan"
    BY <2>1 DEF Init, AgentRecord
  <2>2. CASE work # "plan"
    BY <2>2, ExecutionAssumption DEF Init, AgentRecord
  <2> QED BY <2>1, <2>2
<1>4. /\ plan \in ValidationPlan \cup {None} /\ allowance \in Nat /\ declared \in Declared \cup {<<>>}
      /\ PlanFitsAllowance
      /\ plan # None => Len(Commands) > 0
  <2>1. CASE work # "plan"
    BY <2>1 DEF Init, PlanFitsAllowance
  <2>2. CASE work = "plan"
    <3>1. PICK capped : capped = CapValidationPlan(declared, allowance)
      OBVIOUS
    <3>2. /\ allowance \in Allowances /\ declared \in Declared
          /\ plan \in IF capped = None THEN {None} ELSE PlansWith(capped)
      BY <2>2, <3>1 DEF Init
    <3>3. declared \in Seq(Nat \ {0}) /\ declared # <<>> /\ allowance \in Nat
      BY <3>2, ExecutionAssumption
    <3>4. CASE capped = None
      <4>1. allowance < Len(declared)
        <5>1. capped \notin Seq(Nat \ {0})
          BY <3>4, NoneAssumption
        <5> QED BY <3>1, <3>3, <5>1, CapFits
      <4> QED BY <3>2, <3>3, <3>4, <4>1 DEF PlanFitsAllowance
    <3>5. CASE capped # None
      <4>1. /\ plan \in ValidationPlan /\ Len(Commands) = Len(declared)
            /\ \A n \in DOMAIN declared : Commands[n].timeout \in 1 .. declared[n]
            /\ Total([n \in DOMAIN declared |-> Commands[n].timeout]) =
                 IF allowance < Total(declared) THEN allowance ELSE Total(declared)
        BY <3>1, <3>2, <3>5, CappedPlan
      <4>2. plan # None
        BY <4>1, NoneAssumption
      <4>3. Len(declared) > 0
        BY <3>3
      <4>4. PlanFitsAllowance
        BY <4>1, <4>2 DEF PlanFitsAllowance
      <4> QED BY <3>2, <3>3, <4>1, <4>3, <4>4
    <3> QED BY <3>4, <3>5
  <2> QED BY <1>1, <2>1, <2>2
<1>5. TypeOK
  <2>1. validation \in [pc : {"start", "next", "running", "returned", "raised"},
                       status : ValidationStatus \cup {None}, approvable : BOOLEAN]
    BY <1>1
  <2>2. ValidationType
    BY <1>1, <1>4, <2>1 DEF ValidationType
  <2>3. AgentType
    <3>1. differs \in BOOLEAN
      <4>1. CASE work = "plan"
        BY <4>1 DEF Init
      <4>2. CASE work # "plan"
        BY <4>2 DEF Init
      <4> QED BY <4>1, <4>2
    <3> QED BY <1>1, <1>3, <3>1 DEF AgentType, AgentRecord
  <2> QED BY <1>1, <1>2, <1>4, <2>2, <2>3 DEF TypeOK
<1>6. TurnInv
  BY <1>1, <1>2, <1>3 DEF TurnInv
<1>7. ValidationInv
  <2>1. DOMAIN results = {} /\ Len(results) = 0
    BY <1>1
  <2>2. TrueResults(results)
    BY <2>1 DEF TrueResults
  <2>3. plan # None => GoesOn(results)
    BY <1>4, <2>1 DEF GoesOn, CancelLast
  <2>4. Unnoticed(results)
    BY <2>1 DEF Unnoticed
  <2> QED BY <1>1, <2>2, <2>3, <2>4 DEF ValidationInv
<1>8. AgentInv /\ SideEffectsHonest
  BY <1>1, <1>3, NoneAssumption DEF AgentInv, SideEffectsHonest
<1> QED BY <1>2, <1>4, <1>5, <1>6, <1>7, <1>8 DEF Inv

\* Every step keeps the invariant.
LEMMA InvHolds == Spec => []Inv
<1>1. Inv /\ [Next]_vars => Inv'
  <2> SUFFICES ASSUME Inv, [Next]_vars PROVE Inv'
    OBVIOUS
  <2>1. CASE Next
    BY <2>1, RunnerStepKeeps, ValidationMoves, AgentMoves DEF Next
  <2>2. CASE UNCHANGED vars
    <3>1. UNCHANGED <<runner, child, elapsed, cancelled, exits, plan, validation, results,
                      invocation, differs, wrote, work, declared, allowance>>
      BY <2>2 DEF vars, runnerVars, validationVars, agentVars, request
    <3>2. TypeOK'
      BY <3>1 DEF Inv, TypeOK, RunnerType, ValidationType, AgentType
    <3>3. RunnerInv' /\ TurnInv' /\ AgentInv' /\ SideEffectsHonest'
      <4>1. UNCHANGED Running /\ At("returned")' = At("returned")
        BY <3>1 DEF Running, At
      <4>2. ResultInv => ResultInv'
        BY <3>1, <4>1 DEF ResultInv
      <4>3. RunnerInv'
        BY <3>1, <4>1, <4>2 DEF Inv, RunnerInv
      <4> QED BY <3>1, <4>3 DEF Inv, TurnInv, AgentInv, SideEffectsHonest
    <3>4. ValidationInv'
      <4>1. TrueResults(results)'
        BY <3>1 DEF Inv, ValidationInv, TrueResults, TrueResult, Commands
      <4>2. GoesOn(results) => GoesOn(results)'
        BY <3>1 DEF GoesOn, CancelLast, Commands
      <4>3. Verdict(results) => Verdict(results)'
        BY <3>1 DEF Verdict, CancelLast, Commands, AggregateStatus, AllComplete, RequiredPassed,
                    OnlyAllowed, FailureStatus, StatusOf, Required
      <4> QED BY <3>1, <4>1, <4>2, <4>3 DEF Inv, ValidationInv, Unnoticed
    <3>5. PlanFitsAllowance'
      <4>1. UNCHANGED <<plan, request>>
        BY <3>1 DEF request
      <4> QED BY <4>1, PlanKept DEF Inv
    <3> QED BY <3>2, <3>3, <3>4, <3>5 DEF Inv
  <2> QED BY <2>1, <2>2
<1> QED BY <1>1, InvInit, PTL DEF Spec

(* Runner, plan and invocation stay well typed, for any plans, allowances and  *)
(* roles.                                                                      *)
THEOREM TypeCorrect == Spec => []TypeOK
<1>1. Inv => TypeOK
  BY DEF Inv
<1> QED BY <1>1, InvHolds, PTL

(* _cap_validation_plan fits a declared plan of any length into any number of  *)
(* seconds, and refuses exactly when a command would be left without one.      *)
THEOREM PlansFit == Spec => []PlanFitsAllowance
<1>1. Inv => PlanFitsAllowance
  BY DEF Inv
<1> QED BY <1>1, InvHolds, PTL

(* LocalCommandRunner.run returns with its process ended unless it says that   *)
(* it failed internally.                                                       *)
THEOREM ProcessesEnd == Spec => []ProcessEnded
<1>1. Inv => ProcessEnded
  BY DEF Inv, RunnerInv, ResultInv, ProcessEnded
<1> QED BY <1>1, InvHolds, PTL

(* _agent_side_effects calls no invocation KNOWN_NONE whose process wrote, but *)
(* on that provider's word, or after a completion that left the worktree as it *)
(* was created for all that Git shows.                                         *)
THEOREM EffectsHonest == Spec => []SideEffectsHonest
<1>1. Inv => SideEffectsHonest
  BY DEF Inv
<1> QED BY <1>1, InvHolds, PTL

(* A cancellation on record in a plan of any length was requested, ends the    *)
(* launches, forbids the approval and makes the verdict that execute returns   *)
(* CANCELLED, unless the evidence of the cancelled command was unusable.       *)
THEOREM CancellationDominates == Spec => []CancelDominates
<1>1. Inv => CancelDominates
  <2> SUFFICES ASSUME Inv, NEW n \in DOMAIN results, Noticed(results[n])
               PROVE  /\ cancelled /\ ~validation.approvable
                      /\ \A m \in n + 1 .. Len(results) :
                           /\ results[m].ran = 0
                           /\ results[m].status \in
                                {"NOT_RUN"} \cup (IF results[n].status = "INVALID"
                                                 THEN {"CANCELLED"} ELSE {})
                      /\ validation.pc = "returned" =>
                           validation.status \in
                             {"CANCELLED"} \cup (IF results[n].status = "INVALID"
                                                THEN {"TIMED_OUT", "INVALID"} ELSE {})
    BY DEF CancelDominates
  <2>0. ValidationInv /\ ValidationType /\ results \in Seq(ValidationCommandResult)
    BY DEF Inv, TypeOK, ValidationType
  <2>1. plan # None
    BY <2>0 DEF ValidationInv
  <2>2. cancelled /\ results[n].status \in {"CANCELLED", "INVALID"}
    BY <2>0 DEF ValidationInv, TrueResults, TrueResult
  <2>3. validation.pc \in {"next", "returned"}
    BY <2>0 DEF ValidationInv, ValidationType, Unnoticed
  <2>4. CancelLast(results)
    BY <2>0, <2>1, <2>3 DEF ValidationInv, GoesOn, Verdict
  <2>5. /\ results[n].status = "CANCELLED" => AggregateStatus(results) = "CANCELLED"
        /\ results[n].status = "INVALID" =>
             AggregateStatus(results) \in {"CANCELLED", "TIMED_OUT", "INVALID"}
    BY AggregateStatuses
  <2>6. validation.pc = "returned" => Verdict(results)
    BY <2>0, <2>1 DEF ValidationInv
  <2>7. ~validation.approvable
    BY <2>0, <2>2, <2>3, <2>5, <2>6 DEF ValidationInv, Verdict, PASSING
  <2>8. \A m \in n + 1 .. Len(results) : Stopped(results[n], results[m])
    <3> TAKE m \in n + 1 .. Len(results)
    <3>1. DOMAIN results = 1 .. Len(results) /\ Len(results) \in Nat
      BY <2>0
    <3>2. m \in DOMAIN results /\ n < m
      BY <3>1
    <3> QED BY <2>4, <3>2 DEF CancelLast
  <2> QED BY <2>2, <2>5, <2>6, <2>7, <2>8 DEF Stopped, Verdict
<1> QED BY <1>1, InvHolds, PTL

(* aggregate_validation_results never calls a plan of any length approvable    *)
(* that did not really pass.                                                   *)
THEOREM ApprovablePlansPassed == Spec => []ApprovableIsTrue
<1>1. Inv => ApprovableIsTrue
  <2> SUFFICES ASSUME Inv, validation.approvable, NEW n \in DOMAIN Commands
               PROVE  /\ results[n].ran # 0
                      /\ Commands[n].require_complete => results[n].output # "truncated"
                      /\ \/ exits[results[n].ran] = "expected"
                         \/ /\ ~Required(n) /\ plan.allow_advisory_failures
                            /\ exits[results[n].ran] = "other"
    BY DEF ApprovableIsTrue
  <2>0. ValidationInv /\ results \in Seq(ValidationCommandResult) /\ plan \in ValidationPlan \cup {None}
    BY DEF Inv, TypeOK, ValidationType
  <2>1. validation.pc = "returned" /\ plan # None /\ plan \in ValidationPlan
    BY <2>0 DEF ValidationInv
  <2>2. Verdict(results) /\ TrueResults(results)
    BY <2>0, <2>1 DEF ValidationInv
  <2>3. n \in DOMAIN results
    <3>1. Commands \in Seq(ValidationCommand)
      BY <2>1 DEF ValidationPlan, Commands
    <3> QED BY <2>0, <2>2, <3>1 DEF Verdict
  <2>4. AggregateStatus(results) \in PASSING
    BY <2>2 DEF Verdict
  <2>5. OnlyAllowed(results)
    BY <2>4, AggregateStatuses
  <2>6. \/ results[n].status = "PASSED"
        \/ ~Required(n) /\ results[n].status = "FAILED" /\ plan.allow_advisory_failures
    BY <2>3, <2>5 DEF OnlyAllowed, StatusOf
  <2>7. TrueResult(n, results[n])
    BY <2>2, <2>3 DEF TrueResults
  <2> QED BY <2>6, <2>7 DEF TrueResult
<1> QED BY <1>1, InvHolds, PTL
=============================================================================
