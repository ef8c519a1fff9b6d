--------------------------- MODULE AgentInvocation ---------------------------
(***************************************************************************)
(* One invocation of an agent (agents/codex.py, opencode.py, providers.py,  *)
(* base.py): checks before the launch, the provider's process under the     *)
(* command runner, the translation of its output, and what the coordinator  *)
(* concludes about side effects.                                            *)
(***************************************************************************)
EXTENDS CommandRunner

VARIABLES
    invocation,  \* where invoke() is, the role, and the response
    differs,     \* Git shows a change of the worktree, or HEAD is not where it was created
    wrote        \* ghost: the provider wrote in the worktree

agentVars == <<invocation, differs, wrote>>

AgentStatus == {"COMPLETED", "FAILED", "BLOCKED", "TIMED_OUT", "CANCELLED", "INVALID_OUTPUT",
                "UNAVAILABLE"}
SideEffects == {"NONE", "POSSIBLE", "CONFIRMED"}

\* A response; `claimed` when the side effects are the provider's own words
AgentResponse == [status : AgentStatus, side_effects : SideEffects \cup {None}, claimed : BOOLEAN]

AgentType ==
    /\ invocation \in [pc : {"start", "running", "response", "returned"},
                       role : {"BUILDER", "REPAIRER", "REVIEWER"},
                       response : AgentResponse \cup {None},
                       effects : {None, "KNOWN_NONE", "KNOWN_PRESENT", "AMBIGUOUS"}]
    /\ differs \in BOOLEAN
    /\ wrote \in BOOLEAN

Respond(status, effects, claimed) ==
    invocation' = [invocation EXCEPT !.pc = "response",
                     !.response = [status |-> status, side_effects |-> effects,
                                   claimed |-> claimed]]

\* Model, capabilities, workspace, environment, token, prompt size and secrets:
\* every refusal before the launch claims no side effects.
PrelaunchChecks ==
    /\ invocation.pc = "start"
    /\ \/ /\ ~cancelled
          /\ Run(1)
          /\ invocation' = [invocation EXCEPT !.pc = "running"]
          /\ UNCHANGED <<cancelled, exits>>
       \/ /\ \E status \in {"FAILED", "UNAVAILABLE"} \cup (IF cancelled THEN {"CANCELLED"} ELSE {}) :
               Respond(status, "NONE", FALSE)
          /\ UNCHANGED runnerVars
    /\ UNCHANGED <<differs, wrote>>

\* Defect: a process that was stopped before it finished is taken to have done nothing.
CommandFailureEffectsStopped(status, role) ==
    IF status \in {"EXECUTABLE_UNAVAILABLE", "CANCELLED"} \/ role = "REVIEWER" THEN "NONE"
    ELSE "POSSIBLE"

\* command_failure_response: a writer may have written unless its executable was
\* not even found; a reviewer is launched read-only.
CommandFailureEffects(status, role) ==
    IF status = "EXECUTABLE_UNAVAILABLE" \/ role = "REVIEWER" THEN "NONE" ELSE "POSSIBLE"

CommandFailureStatus(status) ==
    CASE status = "EXECUTABLE_UNAVAILABLE" -> "UNAVAILABLE"
      [] status = "TIMEOUT" -> "TIMED_OUT"
      [] status = "CANCELLED" -> "CANCELLED"
      [] OTHER -> "FAILED"

Rejected == [status |-> "INVALID_OUTPUT", side_effects |-> "POSSIBLE", claimed |-> FALSE]

\* AgentFailure: a failure before the invocation claims no side effects.
ClaimableEffects(status) == IF status = "UNAVAILABLE" THEN {"NONE"} ELSE SideEffects

\* The responses that AgentResponse accepts of a provider
ProviderResponses ==
    {[status |-> "COMPLETED", side_effects |-> None, claimed |-> FALSE]} \cup
    UNION {[status : {status}, side_effects : ClaimableEffects(status), claimed : {TRUE}] :
              status \in AgentStatus \ {"COMPLETED"}}

\* parse_agent_response_envelope: the bytes are no envelope of the schema, or one of these.
Parsed == ProviderResponses \cup {Rejected}

\* normalize_agent_output: another request's envelope, or one beyond its contract, is rejected.
Normalized == Parsed \cup {Rejected}

\* translate_success: so is a truncated output, another identity, a reference to artifacts.
Translated(output) == IF output = "captured" THEN Normalized \cup {Rejected} ELSE {Rejected}

\* parse_codex_jsonl, parse_opencode_jsonl: so is an output outside the event grammar.
Envelope ==
    \E response \in Translated(runner.result.output) \cup {Rejected} :
        Respond(response.status, response.side_effects, response.claimed)

ProviderReturned ==
    /\ invocation.pc = "running" /\ runner.pc = "returned"
    /\ LET status == runner.result.status IN
       IF status = "SUCCESS"
       THEN Envelope
       ELSE Respond(CommandFailureStatus(status), CommandFailureEffects(status, invocation.role),
                    FALSE)
    /\ runner' = IdleRunner /\ child' = NoChild /\ elapsed' = 0
    /\ UNCHANGED <<cancelled, exits, differs, wrote>>

\* _agent_side_effects and agent_side_effect_state: after a completion the worktree
\* is verified, which may fail, and compared with the commit it was created at.
SideEffectsOf(response) ==
    IF invocation.role = "REVIEWER" THEN {"KNOWN_NONE"}
    ELSE CASE response.side_effects = "NONE" -> {"KNOWN_NONE"}
           [] response.side_effects = "POSSIBLE" -> {"AMBIGUOUS"}
           [] response.side_effects = "CONFIRMED" -> {"KNOWN_PRESENT"}
           [] OTHER -> {IF differs THEN "KNOWN_PRESENT" ELSE "KNOWN_NONE", "AMBIGUOUS"}

ConcludeSideEffects ==
    /\ invocation.pc = "response"
    /\ \E effects \in SideEffectsOf(invocation.response) :
         invocation' = [invocation EXCEPT !.pc = "returned", !.effects = effects]
    /\ UNCHANGED <<runnerVars, differs, wrote>>

\* The provider's process writes: a change that Git shows, ignored files only, or
\* the way back to what was created.  A reviewer's sandbox is read-only.
ProviderWrites ==
    /\ Running /\ invocation.pc = "running" /\ invocation.role # "REVIEWER"
    /\ wrote' = TRUE
    /\ differs' \in BOOLEAN
    /\ UNCHANGED <<invocation, runnerVars>>

AgentStep == PrelaunchChecks \/ ProviderReturned \/ ConcludeSideEffects
=============================================================================
