------------------------------ MODULE Execution ------------------------------
(***************************************************************************)
(* What a coordinator executes between an INTENT and its OUTCOME: either a  *)
(* validation plan or an agent, over one command runner, next to processes, *)
(* a clock and a cancellation that do not wait for it.                      *)
(***************************************************************************)
EXTENDS ValidationRunner, AgentInvocation

CONSTANTS
    Declared,   \* timeouts of the commands of a declared plan, sequences
    Allowances, \* whole seconds that may be left for validation
    Roles       \* roles of the agent that may be invoked

VARIABLES
    work,       \* "plan" or "agent"
    declared,   \* the timeouts of the plan before it was capped
    allowance   \* the seconds that were left then

request == <<work, declared, allowance>>
vars == <<runnerVars, validationVars, agentVars, request>>

ASSUME ExecutionAssumption ==
    /\ Declared \subseteq Seq(Nat \ {0}) \ {<<>>}
    /\ Allowances \subseteq Nat
    /\ Roles \subseteq {"BUILDER", "REPAIRER", "REVIEWER"}

ASSUME NoneAssumption ==
    /\ None \notin CommandStatus \cup ExitCodes \cup SideEffects \cup {"KNOWN_NONE"}
    /\ None \notin ValidationPlan /\ None \notin Seq(Nat)

\* ValidationPlan: at least one command is required
PlansWith(capped) ==
    {[commands |-> [n \in DOMAIN capped |->
         [required |-> class[n], timeout |-> capped[n], require_complete |-> n = 1]],
      fail_fast |-> fast, allow_advisory_failures |-> allow] :
        class \in {f \in [DOMAIN capped -> BOOLEAN] : \E n \in DOMAIN capped : f[n]},
        fast \in BOOLEAN, allow \in BOOLEAN}

Init ==
    /\ RunnerInit
    /\ work \in {"plan", "agent"}
    /\ IF work = "plan"
       THEN /\ allowance \in Allowances /\ declared \in Declared
            /\ LET capped == CapValidationPlan(declared, allowance)
               IN plan \in IF capped = None THEN {None} ELSE PlansWith(capped)
            /\ invocation = [pc |-> "returned", role |-> "BUILDER", response |-> None,
                             effects |-> None]
            /\ differs = FALSE
       ELSE /\ allowance = 0 /\ declared = <<>> /\ plan = None
            /\ invocation \in [pc : {"start"}, role : Roles, response : {None}, effects : {None}]
            /\ differs \in BOOLEAN
    /\ validation = [pc |-> IF plan = None THEN "returned" ELSE "start", status |-> None,
                     approvable |-> FALSE]
    /\ results = <<>>
    /\ wrote = FALSE

Ended == validation.pc \in {"returned", "raised"} /\ invocation.pc = "returned"

Next ==
    \/ /\ RunnerStep \/ Beside
       /\ UNCHANGED <<validationVars, agentVars, request>>
    \/ ValidationStep /\ UNCHANGED <<agentVars, request>>
    \/ (AgentStep \/ ProviderWrites) /\ UNCHANGED <<validationVars, request>>

Spec == Init /\ [][Next]_vars

\* The coordinator's thread runs the commands, the plan and the invocation, and
\* time passes; a process need never end by itself, nor anybody cancel.
FairSpec ==
    /\ Spec
    /\ WF_vars((RunnerStep /\ UNCHANGED <<validationVars, agentVars, request>>)
               \/ (ValidationStep /\ UNCHANGED <<agentVars, request>>)
               \/ (AgentStep /\ UNCHANGED <<validationVars, request>>))
    /\ WF_vars(Tick /\ UNCHANGED <<validationVars, agentVars, request>>)

----------------------------------------------------------------------------
(* Properties                                                               *)

(* Type invariant. *)
TypeOK ==
    /\ RunnerType /\ ValidationType /\ AgentType
    /\ work \in {"plan", "agent"} /\ allowance \in Nat /\ declared \in Declared \cup {<<>>}

(* A plan is approvable only if the process of each required command really    *)
(* ended by itself with an expected exit code, whatever cancellations,         *)
(* timeouts, lost artifacts and signals did meanwhile, and every other command *)
(* ended by itself too, at worst with a failure the plan accepts; output that  *)
(* the plan wants complete was kept completely.                                *)
ApprovableIsTrue ==
    validation.approvable =>
        \A n \in DOMAIN Commands :
            /\ results[n].ran # 0
            /\ Commands[n].require_complete => results[n].output # "truncated"
            /\ \/ exits[results[n].ran] = "expected"
               \/ ~Required(n) /\ plan.allow_advisory_failures /\ exits[results[n].ran] = "other"

\* The command was cancelled, or not started because of the cancellation; a
\* cancelled command whose evidence was unusable is on record as INVALID.
Noticed(result) == result.status = "CANCELLED" \/ result.command = "CANCELLED"

(* A cancellation that a result of the plan shows was really requested, makes  *)
(* the plan unapprovable, and no process is started after it: what follows is  *)
(* NOT_RUN.  The plan that returns is CANCELLED whatever else failed in it,    *)
(* with one exception: a cancelled command whose evidence is unusable          *)
(* (truncated although required complete, out of order) counts as INVALID; the *)
(* next command then reports the cancellation, and if the plan ends or stops   *)
(* there it is INVALID, or TIMED_OUT after an earlier timeout.  A plan that    *)
(* raises, as one does whose cancelled command died of a signal, returns no    *)
(* verdict at all (see TimeoutIsTyped).                                        *)
CancelDominates ==
    \A n \in DOMAIN results : Noticed(results[n]) =>
        LET unusable == results[n].status = "INVALID" IN
        /\ cancelled /\ ~validation.approvable
        /\ \A m \in n + 1 .. Len(results) :
             /\ results[m].ran = 0
             /\ results[m].status \in {"NOT_RUN"} \cup (IF unusable THEN {"CANCELLED"} ELSE {})
        /\ validation.pc = "returned" =>
             validation.status \in
                 {"CANCELLED"} \cup (IF unusable THEN {"TIMED_OUT", "INVALID"} ELSE {})

(* The capped plan is the declared one fitted into the seconds that are left:  *)
(* it uses all of them that it can, no command gets more than it declared or   *)
(* less than one, and there is no plan exactly when that is impossible.        *)
PlanFitsAllowance ==
    work = "plan" =>
        IF plan = None THEN allowance < Len(declared)
        ELSE /\ \A n \in DOMAIN declared : Commands[n].timeout \in 1 .. declared[n]
             /\ Total([n \in DOMAIN declared |-> Commands[n].timeout]) =
                  IF allowance < Total(declared) THEN allowance ELSE Total(declared)

(* When the command runner has returned, the process it launched has ended,    *)
(* even one that ignores SIGTERM or exits while it is being stopped; only an   *)
(* INTERNAL_ERROR leaves that open.                                            *)
ProcessEnded == At("returned") /\ Running => runner.result.status = "INTERNAL_ERROR"

(* A writer whose process wrote anything is never KNOWN_NONE because it was    *)
(* stopped, failed, timed out, raced its exit with a cancellation or answered  *)
(* unreadably: only its own claim makes it so, or a completion after which the *)
(* worktree shows nothing but what it was created with.  That comparison does  *)
(* not see ignored files, nor what was undone.                                 *)
SideEffectsHonest ==
    invocation.effects = "KNOWN_NONE" =>
        \/ ~wrote
        \/ invocation.response.claimed
        \/ invocation.response.status = "COMPLETED" /\ ~differs

(* Every plan and every invocation comes to an end although nothing makes a    *)
(* process end: the timeout is noticed, and a process that survives SIGKILL is *)
(* given up.                                                                   *)
EventuallyEnded == <>Ended

(* Every command that times out gives a typed TIMED_OUT result                 *)
(* (tests/integration/test_validation_execution.py).                           *)
TimeoutIsTyped ==
    [][validation.pc = "running" /\ At("returned") /\ runner.result.status = "TIMEOUT"
       => validation'.pc # "raised"]_vars
=============================================================================
