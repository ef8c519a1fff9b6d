--------------------------- MODULE Orchestration ---------------------------
(***************************************************************************)
(* The coordinator of one run (orchestration/service.py) with the calls    *)
(* resume and cancel of application/workflows.py: several coordinator      *)
(* processes, each of which may crash at any step, over the durable run,   *)
(* the attempt journal, the budget ledger and the owned worktree.          *)
(*                                                                         *)
(* Every access to the store is one atomic action (see RunStore): a step   *)
(* of a coordinator is either a read that fixes what it will do next or    *)
(* one write guarded by the snapshot it read.  Any exception ends the call *)
(* and leaves the coordinator idle.  A write that loses the race for the   *)
(* next journal sequence number raises, so it is such an exception too.    *)
(*                                                                         *)
(* Journal records are keyed by attempt: identifiers are digests of run,   *)
(* step, sequence and stage, so each attempt has at most one record per    *)
(* stage; sequences grow over time, so `latest' is `highest'.              *)
(***************************************************************************)
EXTENDS RunStateMachine, FiniteSets, FiniteSetsExt

CONSTANTS
    Coordinators,
    ContextRoles,        \* how many roles need a context manifest
    ValidationPlans,     \* len(request.validation_plans)
    ExternalCeilings,    \* whether runs set max_remote_tokens or max_estimated_cost_usd
    MayExpire,           \* whether max_duration_seconds can run out in this instance
    MayOverrun,          \* whether a validation can outlast its reservation
    AgentEffects,        \* side effects a builder or repairer can be found to have
    MaxCrashes           \* bound on coordinator crashes

ASSUME OrchestrationAssumption ==
    /\ ContextRoles \in Nat \ {0}
    /\ ValidationPlans \in Nat \ {0}
    /\ ExternalCeilings \in SUBSET BOOLEAN
    /\ MayExpire \in BOOLEAN
    /\ MayOverrun \in BOOLEAN
    /\ AgentEffects \subseteq {"KNOWN_NONE", "KNOWN_PRESENT", "AMBIGUOUS"}
    /\ MaxCrashes \in Nat

-----------------------------------------------------------------------------
(* Attempts and their evidence.                                            *)

Steps == {"CONTEXT", "WORKSPACE", "BUILD", "VALIDATION", "REVIEW", "REPAIR"}
MutatingSteps == {"WORKSPACE", "BUILD", "REPAIR"}
MeteredSteps == {"BUILD", "VALIDATION", "REVIEW", "REPAIR"}

StepLimit(step) ==
    CASE step = "CONTEXT" -> ContextRoles
      [] step = "WORKSPACE" -> 1
      [] step = "BUILD" -> MaxBuildAttempts
      [] step = "VALIDATION" -> ValidationPlans
      [] step = "REVIEW" -> MaxReviewAttempts
      [] step = "REPAIR" -> MaxRepairAttempts

Attempts == UNION {{step} \X (1..StepLimit(step)) : step \in Steps}
Metered == {a \in Attempts : a[1] \in MeteredSteps}
Mutating == {a \in Attempts : a[1] \in MutatingSteps}
NoAttempt == <<"NONE", 0>>

Statuses == {"COMPLETED", "BLOCKED", "CANCELLED", "INVALID", "FAILED"}
Effects == {"KNOWN_NONE", "KNOWN_PRESENT", "AMBIGUOUS"}
GateStatuses == {"APPROVABLE", "CHANGES_REQUIRED", "BLOCKED", "INVALID_EVIDENCE"}

(***************************************************************************)
(* A terminal attempt: its status, its side effects, whether it carries    *)
(* the response or result of work that was launched, the gate decision of  *)
(* a review and whether a validation overran its reservation.              *)
(***************************************************************************)
Outcome(status, effects, evidence, gate, over) ==
    [status |-> status, effects |-> effects, evidence |-> evidence, gate |-> gate, over |-> over]

NoOutcome == Outcome("INTENDED", "KNOWN_NONE", FALSE, "none", FALSE)

Outcomes == [status: Statuses, effects: Effects, evidence: BOOLEAN,
             gate: GateStatuses \cup {"none"}, over: BOOLEAN]

\* Refused before launch: adapter unavailable or budget denied.
Refusal == Outcome("BLOCKED", "KNOWN_NONE", FALSE, "none", FALSE)

\* What a builder or repairer can answer.  INVALID is handled as FAILED is.
AgentOutcomes ==
    {Outcome(s, e, TRUE, "none", FALSE) :
        s \in {"COMPLETED", "BLOCKED", "CANCELLED", "FAILED"}, e \in AgentEffects}

\* INVALID stands for invalid or timed-out evidence, FAILED for defects.
ValidationOutcomes ==
    {Outcome(s, "KNOWN_NONE", TRUE, "none", o) : s \in Statuses, o \in {FALSE, MayOverrun}}

\* The reviewer's status with the gate's decision (_refusal_status for the refusals).
ReviewOutcomes ==
    {Outcome(p[1], "KNOWN_NONE", TRUE, p[2], FALSE) :
        p \in {<<"COMPLETED", "APPROVABLE">>, <<"COMPLETED", "CHANGES_REQUIRED">>,
               <<"COMPLETED", "INVALID_EVIDENCE">>, <<"CANCELLED", "BLOCKED">>,
               <<"BLOCKED", "BLOCKED">>, <<"FAILED", "BLOCKED">>,
               <<"FAILED", "INVALID_EVIDENCE">>, <<"BLOCKED", "INVALID_EVIDENCE">>,
               <<"CANCELLED", "INVALID_EVIDENCE">>}}

ContextOutcomes ==
    {Outcome("COMPLETED", "KNOWN_NONE", TRUE, "none", FALSE),
     Outcome("BLOCKED", "KNOWN_NONE", FALSE, "none", FALSE),
     Outcome("INVALID", "KNOWN_NONE", FALSE, "none", FALSE)}

WorktreeCreated == Outcome("COMPLETED", "KNOWN_PRESENT", TRUE, "none", FALSE)
WorktreeRefused == Outcome("BLOCKED", "AMBIGUOUS", FALSE, "none", FALSE)

-----------------------------------------------------------------------------
VARIABLES
    state, attempts, revision,  \* the run row
    ceiling,    \* its budgets set a remote-token or cost ceiling
    journal,    \* attempt -> revision of its INTENT, its OUTCOME, its RECONCILIATION
    ledger,     \* metered attempt -> status of its budget reservation
    overage,    \* a usage record carries validation_duration_overage
    measured,   \* context sequences whose usage is recorded
    worktree,   \* the owned worktree: absent, active or broken
    clock,      \* remaining run duration: ample, short or expired
    co,         \* coordinator -> its program counter and locals
    crashes,    \* how many coordinators crashed
    invoked,    \* ghost: how often the effect of an attempt was launched
    validated   \* ghost: the worktree passed validation since the last agent wrote to it

runVars == <<state, attempts, revision, ceiling>>
ghosts == <<invoked, validated>>
vars == <<state, attempts, revision, ceiling, journal, ledger, overage, measured, worktree,
          clock, co, crashes, invoked, validated>>

Run == [state |-> state, attempts |-> attempts, revision |-> revision]
FirstRun == [state |-> "CREATED", attempts |-> [k \in AttemptCounterKinds |-> 0], revision |-> 0]
NoIntent == -1
NoGoal == [destination |-> "CREATED", increment |-> NoIncrement, then |-> "idle"]

PCs == {"idle", "enter", "sweep_list", "sweep", "loop", "context", "select", "measure",
        "intend", "refuse", "reserve", "invoke", "record", "settle", "reconcile", "commit"}

Idle == [pc |-> "idle", snap |-> FirstRun, att |-> NoAttempt, out |-> NoOutcome,
         goal |-> NoGoal, known |-> {}, todo |-> {}]

Init ==
    /\ state = "CREATED"
    /\ attempts = [k \in AttemptCounterKinds |-> 0]
    /\ revision = 0
    /\ ceiling \in ExternalCeilings
    /\ journal = [a \in Attempts |-> [intent |-> NoIntent, outcome |-> NoOutcome, recon |-> "none"]]
    /\ ledger = [a \in Metered |-> "none"]
    /\ overage = FALSE
    /\ measured = {}
    /\ worktree = "absent"
    /\ clock = "ample"
    /\ co = [c \in Coordinators |-> Idle]
    /\ crashes = 0
    /\ invoked = [a \in Attempts |-> 0]
    /\ validated = FALSE

-----------------------------------------------------------------------------
(* Queries on the journal and the ledger.                                  *)

\* Defect: an attempt without an outcome counts as not begun.
HasIntentOnceDone(a) == journal[a].intent # NoIntent /\ journal[a].outcome # NoOutcome

HasIntent(a) == journal[a].intent # NoIntent
HasOutcome(a) == journal[a].outcome # NoOutcome
Sequences(step) == {s \in 1..StepLimit(step) : HasIntent(<<step, s>>)}

\* _next_attempt_sequence: the boundary of this revision, else the oldest attempt
\* without an outcome, else a new one.
NextSequence(step) ==
    LET current == {s \in Sequences(step) : journal[<<step, s>>].intent = revision}
        pending == {s \in Sequences(step) : ~HasOutcome(<<step, s>>)}
    IN  IF current # {} THEN Max(current)
        ELSE IF pending # {} THEN Min(pending)
        ELSE 1 + Cardinality(Sequences(step))

RepairCount == Cardinality(Sequences("REPAIR"))

\* Defect: only pending intents count, ambiguous outcomes do not.
UnresolvedPending ==
    \E a \in Mutating : journal[a].recon # "safe" /\ HasIntent(a) /\ ~HasOutcome(a)

\* _has_unresolved_mutating_side_effects, pending intents included.
UnresolvedEffects ==
    \E a \in Mutating :
        /\ journal[a].recon # "safe"
        /\ \/ HasIntent(a) /\ ~HasOutcome(a)
           \/ HasOutcome(a) /\ journal[a].outcome.effects = "AMBIGUOUS"

\* _latest_validation, and what _review asks of it.
ValidationPassed ==
    LET done == {s \in Sequences("VALIDATION") : HasOutcome(<<"VALIDATION", s>>)}
    IN  done # {} /\ journal[<<"VALIDATION", Max(done)>>].outcome.status = "COMPLETED"

Unresolved(step) == \E a \in Metered : a[1] = step /\ ledger[a] = "UNRESOLVED"

\* The attempt budgets of reserve_if_allowed: settled usage plus active reservations.
Charged(step) ==
    Cardinality({a \in Metered : a[1] = step /\ ledger[a] \in {"ACTIVE", "SETTLED"}})

-----------------------------------------------------------------------------
(* Control of one coordinator.                                             *)

Current(c) == Run = co[c].snap
Goto(c, new) == co' = [co EXCEPT ![c] = new]
Stop(c) == Goto(c, Idle)
At(c, pc) == co[c].pc = pc

\* A coordinator about to persist a transition from snap.
Committing(snap, destination, increment, then) ==
    [Idle EXCEPT !.pc = "commit", !.snap = snap,
        !.goal = [destination |-> destination, increment |-> increment, then |-> then]]

Advancing(snap, destination, increment) == Committing(snap, destination, increment, "loop")
Terminating(snap, destination, increment) == Committing(snap, destination, increment, "idle")

Working(pc, snap, a) == [Idle EXCEPT !.pc = pc, !.snap = snap, !.att = a]

CounterOf(step) == CASE step = "BUILD" -> "build" [] step = "REPAIR" -> "repair"

\* Defect: the phase exit forgets the counter.
AfterAgentUncounted(snap, step, o) ==
    IF o.status = "COMPLETED" THEN Advancing(snap, "VALIDATING", NoIncrement) ELSE Idle

\* How _build and _repair act on a terminal attempt.
AfterAgent(snap, step, o) ==
    LET k == CounterOf(step)
    IN  CASE o.status = "BLOCKED" -> Terminating(snap, "BLOCKED", k)
          [] o.status = "CANCELLED" -> Terminating(snap, "CANCELLED", k)
          [] o.status = "COMPLETED" \/ (o.status = "FAILED" /\ o.effects # "KNOWN_NONE") ->
                Advancing(snap, "VALIDATING", k)
          [] OTHER -> Terminating(snap, "FAILED", k)

\* How _validate acts on a result.
AfterValidation(snap, o) ==
    CASE o.status = "COMPLETED" -> Advancing(snap, "REVIEWING", NoIncrement)
      [] o.status = "CANCELLED" -> Terminating(snap, "CANCELLED", NoIncrement)
      [] o.status = "BLOCKED" -> Terminating(snap, "BLOCKED", NoIncrement)
      [] o.status = "INVALID" -> Terminating(snap, "FAILED", NoIncrement)
      [] o.status = "FAILED" /\ RepairCount >= MaxRepairAttempts ->
            Terminating(snap, "FAILED", NoIncrement)
      [] OTHER -> Advancing(snap, "REPAIRING", NoIncrement)

\* How _review acts on a terminal attempt; cancellation takes precedence over the gate.
AfterReview(snap, o) ==
    CASE o.status = "BLOCKED" /\ o.gate = "none" -> Terminating(snap, "BLOCKED", NoIncrement)
      [] o.status = "CANCELLED" -> Terminating(snap, "CANCELLED", "review")
      [] o.gate = "APPROVABLE" -> Advancing(snap, "APPROVED", "review")
      [] o.gate = "BLOCKED" /\ o.status # "CANCELLED" -> Terminating(snap, "BLOCKED", "review")
      [] o.gate = "INVALID_EVIDENCE" -> Terminating(snap, "FAILED", "review")
      [] o.gate = "CHANGES_REQUIRED" /\ RepairCount >= MaxRepairAttempts ->
            Terminating(snap, "FAILED", NoIncrement)
      [] OTHER -> Advancing(snap, "REPAIRING", "review")

After(snap, step, o) ==
    CASE step \in {"BUILD", "REPAIR"} -> AfterAgent(snap, step, o)
      [] step = "VALIDATION" -> AfterValidation(snap, o)
      [] step = "REVIEW" -> AfterReview(snap, o)

-----------------------------------------------------------------------------
(* The public calls.                                                       *)

\* execute: the run and the journal as _reconcile_telemetry reads them.
Entering ==
    [Idle EXCEPT !.pc = "sweep_list", !.snap = Run,
        !.known = {a \in Metered : HasOutcome(a) /\ journal[a].outcome.evidence}]

execute(c) ==
    /\ At(c, "idle")
    /\ Goto(c, Entering)
    /\ UNCHANGED <<runVars, journal, ledger, overage, measured, worktree, clock, crashes, ghosts>>

\* Defect: live ownership is taken for granted.
WorktreeAssumed == TRUE

\* verify_owned_worktree answers only for an active worktree, and may refuse even that.
WorktreeVerified == worktree = "active"

\* _validate_runtime_identity, the gate of resume and cancel: from BUILDING on, and once a
\* worktree creation is recorded as completed, they are refused without a verified worktree.
Identified ==
    \/ WorktreeVerified
    \/ /\ state \notin {"BUILDING", "VALIDATING", "REVIEWING", "REPAIRING", "APPROVED"}
       /\ journal[<<"WORKSPACE", 1>>].outcome.status # "COMPLETED"

\* cancel: from the state read now, without touching reservations.
cancel(c) ==
    /\ At(c, "idle")
    /\ state \notin TerminalStates
    /\ Identified
    /\ Goto(c, Terminating(Run, "CANCELLED", NoIncrement))
    /\ UNCHANGED <<runVars, journal, ledger, overage, measured, worktree, clock, crashes, ghosts>>

Pending == {a \in Attempts : HasIntent(a) /\ ~HasOutcome(a) /\ journal[a].recon = "none"}

\* SideEffectReconciler.reconcile: nothing but a worktree that verifies may be continued,
\* and that only if it also matches the request in the intent.
SafeToContinue(a) == IF a[1] = "WORKSPACE" /\ WorktreeVerified THEN BOOLEAN ELSE {FALSE}

\* resume: reconcile one incomplete boundary if there is one, then execute.
resume(c) ==
    /\ At(c, "idle")
    /\ state \notin TerminalStates
    /\ Identified
    /\ \/ Pending = {} /\ Goto(c, [Idle EXCEPT !.pc = "enter", !.snap = Run])
       \/ \E a \in Pending :
             \/ /\ journal[a].intent # revision
                /\ Goto(c, Terminating(Run, "BLOCKED", NoIncrement))
             \/ /\ journal[a].intent = revision
                /\ \E safe \in SafeToContinue(a) :
                      Goto(c, [Working("reconcile", Run, a) EXCEPT
                                  !.goal.then = IF safe THEN "enter" ELSE "idle"])
    /\ UNCHANGED <<runVars, journal, ledger, overage, measured, worktree, clock, crashes, ghosts>>

\* _persist_reconciliation, and the transition reconcile chooses.
reconcile(c) ==
    LET a == co[c].att
        snap == co[c].snap
        safe == co[c].goal.then = "enter"
        record == IF safe THEN "safe" ELSE "unsafe"
        next == CASE safe -> Committing(snap, "BUILDING", NoIncrement, "enter")
                  [] ~safe /\ a[1] \in MutatingSteps -> Terminating(snap, "BLOCKED", NoIncrement)
                  [] OTHER -> Terminating(snap, "FAILED", NoIncrement)
    IN  /\ At(c, "reconcile")
        /\ \/ /\ Current(c) /\ journal[a].recon \in {"none", record}
              /\ journal' = [journal EXCEPT ![a].recon = record]
              /\ Goto(c, next)
           \/ /\ ~(Current(c) /\ journal[a].recon \in {"none", record})
              /\ Stop(c)
              /\ UNCHANGED journal
        /\ UNCHANGED <<runVars, ledger, overage, measured, worktree, clock, crashes, ghosts>>

\* execute as the second half of resume: a moved revision is a stale no-op.
enter(c) ==
    /\ At(c, "enter")
    /\ IF revision = co[c].snap.revision THEN Goto(c, Entering) ELSE Stop(c)
    /\ UNCHANGED <<runVars, journal, ledger, overage, measured, worktree, clock, crashes, ghosts>>

-----------------------------------------------------------------------------
(* _reconcile_telemetry: the reservations are listed after the journal was *)
(* read, and each is settled or marked in a transaction of its own.        *)

\* Defect: the pass looks only for reservations without an outcome.
sweep_list_pending(c) ==
    /\ At(c, "sweep_list")
    /\ Goto(c, [co[c] EXCEPT !.pc = "sweep",
                  !.todo = {a \in Metered : ledger[a] = "ACTIVE" /\ ~HasOutcome(a)}])
    /\ UNCHANGED <<runVars, journal, ledger, overage, measured, worktree, clock, crashes, ghosts>>

sweep_list(c) ==
    /\ At(c, "sweep_list")
    /\ Goto(c, [co[c] EXCEPT !.pc = "sweep", !.todo = {a \in Metered : ledger[a] = "ACTIVE"}])
    /\ UNCHANGED <<runVars, journal, ledger, overage, measured, worktree, clock, crashes, ghosts>>

\* Defect: a closed reservation can be settled again.
CanSettleAgain(a) == ledger[a] # "none"

\* settle_reservation: appends usage and settlement, accepts the identical retry and
\* refuses any other settlement of a closed reservation.  A second mark_unresolved
\* carries another timestamp, so it never is identical.
CanSettle(a) == ledger[a] \in {"ACTIVE", "SETTLED"}

Settled(a) ==
    /\ ledger' = [ledger EXCEPT ![a] = "SETTLED"]
    /\ overage' = (overage \/ journal[a].outcome.over)

sweep(c) ==
    /\ At(c, "sweep")
    /\ \E a \in co[c].todo :
          LET next == [co[c] EXCEPT !.todo = @ \ {a}]
          IN  \/ a \in co[c].known /\ CanSettle(a) /\ Settled(a) /\ Goto(c, next)
              \/ /\ a \notin co[c].known /\ ledger[a] = "ACTIVE"
                 /\ ledger' = [ledger EXCEPT ![a] = "UNRESOLVED"]
                 /\ Goto(c, next)
                 /\ UNCHANGED overage
              \/ /\ IF a \in co[c].known THEN ~CanSettle(a) ELSE ledger[a] # "ACTIVE"
                 /\ Stop(c)
                 /\ UNCHANGED <<ledger, overage>>
    /\ UNCHANGED <<runVars, journal, measured, worktree, clock, crashes, ghosts>>

\* _restore_all_context needs a completed manifest per role that still selects alike.
ContextComplete ==
    \A s \in 1..ContextRoles : journal[<<"CONTEXT", s>>].outcome.status = "COMPLETED"

\* After the pass: stop at a terminal run or an unresolved reservation, restore context.
admit(c) ==
    LET snap == co[c].snap
        needs == snap.state \notin {"CREATED", "PLANNING", "CONTEXT_PREPARING"}
        unresolved == \E a \in Metered : ledger[a] = "UNRESOLVED"
    IN  /\ At(c, "sweep") /\ co[c].todo = {}
        /\ \/ snap.state \in TerminalStates /\ Stop(c)
           \/ /\ snap.state \notin TerminalStates
              /\ unresolved \/ needs
              /\ Goto(c, Terminating(snap, "BLOCKED", NoIncrement))
           \/ /\ snap.state \notin TerminalStates
              /\ ~unresolved
              /\ needs => ContextComplete
              /\ Goto(c, [Idle EXCEPT !.pc = "loop"])
        /\ UNCHANGED <<runVars, journal, ledger, overage, measured, worktree, clock,
                       crashes, ghosts>>

-----------------------------------------------------------------------------
(* The loop of execute.  A turn reads the run, then leaves at the first    *)
(* check that applies, or works on the phase of the state it read.         *)

\* _duration_budget_decision with one millisecond requested: an overage is final, and an
\* active validation reservation may hold all that is left.
DurationDenied ==
    overage \/ \E a \in Metered : a[1] = "VALIDATION" /\ ledger[a] = "ACTIVE"

\* Defect: exhaustion always asks for FAILED.
leave_loop_failed(c) ==
    /\ At(c, "loop")
    /\ \/ state \in TerminalStates /\ Stop(c)
       \/ /\ state \notin TerminalStates /\ clock = "expired"
          /\ Goto(c, Terminating(Run, "FAILED", NoIncrement))
    /\ UNCHANGED <<runVars, journal, ledger, overage, measured, worktree, clock, crashes, ghosts>>

leave_loop(c) ==
    /\ At(c, "loop")
    /\ \/ state \in TerminalStates /\ Stop(c)
       \/ /\ state \notin TerminalStates /\ clock = "expired"
          /\ Goto(c, Terminating(Run,
                 IF "FAILED" \in permitted_destinations(state) THEN "FAILED" ELSE "BLOCKED",
                 NoIncrement))
       \/ /\ state \notin TerminalStates /\ clock # "expired"
          /\ \/ Unresolved("VALIDATION") /\ Goto(c, Terminating(Run, "BLOCKED", NoIncrement))
             \/ /\ DurationDenied /\ ~Unresolved("VALIDATION")
                /\ Goto(c, Terminating(Run, "FAILED", NoIncrement))
             \/ /\ ~overage /\ ~Unresolved("VALIDATION")  \* the cancellation token is set
                /\ Goto(c, Terminating(Run, "CANCELLED", NoIncrement))
    /\ UNCHANGED <<runVars, journal, ledger, overage, measured, worktree, clock, crashes, ghosts>>

\* A turn that reaches the phase of the run.
Turn(c, phase) ==
    /\ At(c, "loop")
    /\ state = phase
    /\ clock # "expired"
    /\ ~overage
    /\ ~Unresolved("VALIDATION")

start_planning(c) ==
    /\ \/ Turn(c, "CREATED") /\ Goto(c, Advancing(Run, "PLANNING", NoIncrement))
       \/ Turn(c, "PLANNING") /\ Goto(c, Advancing(Run, "CONTEXT_PREPARING", NoIncrement))
       \/ Turn(c, "CONTEXT_PREPARING") /\ Goto(c, Working("context", Run, <<"CONTEXT", 1>>))
    /\ UNCHANGED <<runVars, journal, ledger, overage, measured, worktree, clock, crashes, ghosts>>

\* An attempt of the phase whose outcome exists is consumed, one whose intent exists is
\* owned elsewhere, and any other is begun.
Continue(c, a, consumed) ==
    \/ HasOutcome(a) /\ Goto(c, consumed)
    \/ ~HasOutcome(a) /\ HasIntent(a) /\ Stop(c)
    \/ ~HasIntent(a) /\ Goto(c, Working("intend", Run, a))

\* GitError from the ownership check, which every phase below begins with.
Unverified(c) == Goto(c, Terminating(Run, "BLOCKED", NoIncrement))

\* _workspace.  A persisted outcome of either status leads to BUILDING once the
\* worktree verifies.
prepare_workspace(c) ==
    LET a == <<"WORKSPACE", 1>>
    IN  /\ Turn(c, "WORKSPACE_PREPARING")
        /\ \/ HasOutcome(a) /\ Unverified(c)
           \/ /\ HasOutcome(a) => WorktreeVerified
              /\ Continue(c, a, Advancing(Run, "BUILDING", NoIncrement))
        /\ UNCHANGED <<runVars, journal, ledger, overage, measured, worktree, clock,
                       crashes, ghosts>>

\* _agent_attempt up to its first write: an unavailable adapter takes the refusal path.
BeginAgent(c, a) ==
    \/ Continue(c, a, After(Run, a[1], journal[a].outcome))
    \/ ~HasIntent(a) /\ Goto(c, [Working("refuse", Run, a) EXCEPT !.out = Refusal])

build(c) ==
    LET s == NextSequence("BUILD")
        exhausted == attempts["build"] >= MaxBuildAttempts \/ s > MaxBuildAttempts
    IN  /\ Turn(c, "BUILDING")
        /\ \/ exhausted /\ Goto(c, Terminating(Run, "FAILED", NoIncrement))
           \/ ~exhausted /\ Unverified(c)
           \/ ~exhausted /\ WorktreeVerified /\ BeginAgent(c, <<"BUILD", s>>)
        /\ UNCHANGED <<runVars, journal, ledger, overage, measured, worktree, clock,
                       crashes, ghosts>>

\* _validate up to its first write.  _cap_validation_plan finds no whole second per
\* command only when wall time or earlier validations used up the duration.  A consumed
\* outcome without a result fails the assertion, which ends the call.
validate(c) ==
    LET s == NextSequence("VALIDATION")
        a == <<"VALIDATION", s>>
        spent == clock # "ample" \/ Charged("VALIDATION") > 0
    IN  /\ Turn(c, "VALIDATING")
        /\ \/ Unverified(c)
           \/ /\ WorktreeVerified /\ s > ValidationPlans
              /\ Goto(c, Terminating(Run, "FAILED", NoIncrement))
           \/ /\ WorktreeVerified /\ s <= ValidationPlans
              /\ Continue(c, a, IF journal[a].outcome.evidence
                                THEN AfterValidation(Run, journal[a].outcome)
                                ELSE Idle)
           \/ /\ WorktreeVerified /\ s <= ValidationPlans /\ ~HasIntent(a) /\ spent
              /\ Goto(c, Terminating(Run, "FAILED", NoIncrement))
        /\ UNCHANGED <<runVars, journal, ledger, overage, measured, worktree, clock,
                       crashes, ghosts>>

\* _review up to its first write; BLOCKED also when no read-only reviewer is available.
review(c) ==
    LET s == NextSequence("REVIEW")
        exhausted == attempts["review"] >= MaxReviewAttempts \/ s > MaxReviewAttempts
    IN  /\ Turn(c, "REVIEWING")
        /\ \/ Unverified(c)
           \/ /\ WorktreeVerified
              /\ exhausted \/ ~ValidationPassed
              /\ Goto(c, Terminating(Run, "FAILED", NoIncrement))
           \/ /\ WorktreeVerified /\ ~exhausted /\ ValidationPassed
              /\ LET a == <<"REVIEW", s>>
                 IN  Continue(c, a, AfterReview(Run, journal[a].outcome))
        /\ UNCHANGED <<runVars, journal, ledger, overage, measured, worktree, clock,
                       crashes, ghosts>>

\* RepairPolicy.decide.  Unresolved effects or no repair left refuse; so does the scope
\* finding of the latest review, which is open before the first intent and cannot change
\* after it.  A missing authority or adapter blocks; LOCAL_BUILDER and CODEX_REPAIR repair.
RepairStrategies(a) ==
    IF UnresolvedEffects \/ RepairCount >= MaxRepairAttempts THEN {"NO_REPAIR"}
    ELSE IF ~HasIntent(a) /\ \E r \in Sequences("REVIEW") : HasOutcome(<<"REVIEW", r>>)
    THEN {"REPAIR", "BLOCKED", "NO_REPAIR"}
    ELSE {"REPAIR", "BLOCKED"}

repair(c) ==
    LET s == NextSequence("REPAIR")
        a == <<"REPAIR", s>>
        exhausted == attempts["repair"] >= MaxRepairAttempts \/ s > MaxRepairAttempts
    IN  /\ Turn(c, "REPAIRING")
        /\ \/ Unverified(c)
           \/ /\ WorktreeVerified
              /\ exhausted \/ "NO_REPAIR" \in RepairStrategies(a)
              /\ Goto(c, Terminating(Run, "FAILED", NoIncrement))
           \/ /\ WorktreeVerified /\ ~exhausted /\ "BLOCKED" \in RepairStrategies(a)
              /\ Goto(c, Terminating(Run, "BLOCKED", NoIncrement))
           \/ /\ WorktreeVerified /\ ~exhausted /\ "REPAIR" \in RepairStrategies(a)
              /\ BeginAgent(c, a)
        /\ UNCHANGED <<runVars, journal, ledger, overage, measured, worktree, clock,
                       crashes, ghosts>>

-----------------------------------------------------------------------------
(* Context selection, one role after the other.                            *)

Restored(c, a) ==
    /\ measured' = measured \cup {a[2]}
    /\ Goto(c, [co[c] EXCEPT !.att[2] = @ + 1])

\* A manifest in the journal is restored, measured and passed over; a role without one
\* is selected under an intent, old or new.
context(c) ==
    LET a == co[c].att
        snap == co[c].snap
        last == a[2] > ContextRoles
    IN  /\ At(c, "context")
        /\ \/ /\ last
              /\ Goto(c, Advancing(snap, "WORKSPACE_PREPARING", NoIncrement))
              /\ UNCHANGED <<journal, measured>>
           \/ /\ ~last /\ HasOutcome(a)  \* incomplete, or no longer selects alike
              /\ Goto(c, Terminating(snap, "BLOCKED", NoIncrement))
              /\ UNCHANGED <<journal, measured>>
           \/ /\ ~last /\ HasOutcome(a) /\ journal[a].outcome.status = "COMPLETED"
              /\ Restored(c, a)
              /\ UNCHANGED journal
           \/ /\ ~last /\ ~HasOutcome(a)
              /\ IF HasIntent(a) \/ ~Current(c)
                 THEN UNCHANGED journal
                 ELSE journal' = [journal EXCEPT ![a].intent = snap.revision]
              /\ \/ Current(c) /\ Goto(c, [co[c] EXCEPT !.pc = "select"])
                 \/ /\ ~Current(c) \/ (HasIntent(a) /\ Coordinators # {c})
                    /\ Stop(c)  \* stale, or another coordinator's intent came first
              /\ UNCHANGED measured
        /\ UNCHANGED <<runVars, ledger, overage, worktree, clock, crashes, ghosts>>

\* _require_current, the selection and its outcome record.  An outcome of another
\* coordinator is accepted only when it is the same.
select(c) ==
    LET a == co[c].att
        snap == co[c].snap
    IN  /\ At(c, "select")
        /\ \E o \in ContextOutcomes :
              LET accepted == Current(c) /\ journal[a].outcome \in {NoOutcome, o}
              IN  \/ ~accepted /\ Stop(c) /\ UNCHANGED journal
                  \/ /\ accepted
                     /\ journal' = [journal EXCEPT ![a].outcome = o]
                     /\ Goto(c, CASE o.status = "COMPLETED" -> [co[c] EXCEPT !.pc = "measure"]
                                  [] o.status = "BLOCKED" ->
                                        Terminating(snap, "BLOCKED", NoIncrement)
                                  [] OTHER -> Terminating(snap, "FAILED", NoIncrement))
        /\ UNCHANGED <<runVars, ledger, overage, measured, worktree, clock, crashes, ghosts>>

\* Defect: the sequence is advanced before the usage is recorded.
measure_next(c) ==
    /\ At(c, "measure")
    /\ measured' = measured \cup {co[c].att[2] + 1}
    /\ Goto(c, [co[c] EXCEPT !.pc = "context", !.att[2] = @ + 1])
    /\ UNCHANGED <<runVars, journal, ledger, overage, worktree, clock, crashes, ghosts>>

\* The usage of the manifest just recorded, in a transaction of its own.
measure(c) ==
    /\ At(c, "measure")
    /\ measured' = measured \cup {co[c].att[2]}
    /\ Goto(c, [co[c] EXCEPT !.pc = "context", !.att[2] = @ + 1])
    /\ UNCHANGED <<runVars, journal, ledger, overage, worktree, clock, crashes, ghosts>>

-----------------------------------------------------------------------------
(* An attempt: intent, reservation, effect, outcome, settlement.           *)

\* Defect: whether the INTENT was created is not looked at.
intend_unowned(c) ==
    /\ At(c, "intend")
    /\ Current(c)
    /\ journal' = [journal EXCEPT ![co[c].att].intent = revision]
    /\ Goto(c, [co[c] EXCEPT !.pc = "reserve"])
    /\ UNCHANGED <<runVars, ledger, overage, measured, worktree, clock, crashes, ghosts>>

\* _persist of the INTENT: created exactly once, under an unchanged run.
intend(c) ==
    LET a == co[c].att
    IN  /\ At(c, "intend")
        /\ \/ /\ Current(c) /\ ~HasIntent(a)
              /\ journal' = [journal EXCEPT ![a].intent = revision]
              /\ Goto(c, [co[c] EXCEPT !.pc = "reserve"])
           \/ /\ ~Current(c) \/ HasIntent(a)
              /\ Stop(c)
              /\ UNCHANGED journal
        /\ UNCHANGED <<runVars, ledger, overage, measured, worktree, clock, crashes, ghosts>>

\* _record_prelaunch_blocked_agent: the INTENT of an equal boundary counts as written,
\* whoever wrote it.
refuse(c) ==
    LET a == co[c].att
    IN  /\ At(c, "refuse")
        /\ \/ /\ Current(c)
              /\ journal' = [journal EXCEPT ![a].intent = revision]
              /\ Goto(c, [co[c] EXCEPT !.pc = "record"])
           \/ /\ ~Current(c)
              /\ Stop(c)
              /\ UNCHANGED journal
        /\ UNCHANGED <<runVars, ledger, overage, measured, worktree, clock, crashes, ghosts>>

Launch(c, a) ==
    /\ invoked' = [invoked EXCEPT ![a] = @ + 1]
    /\ validated' = (validated /\ a[1] \notin MutatingSteps)
    /\ Goto(c, [co[c] EXCEPT !.pc = "invoke"])

\* reserve_if_allowed denies an attempt: an unresolved reservation of its metric, an
\* overage, or the attempt budget; max_remote_tokens and max_estimated_cost_usd deny
\* every agent.
Denied(a) ==
    \/ Unresolved(a[1])
    \/ a[1] = "VALIDATION" /\ overage
    \/ a[1] # "VALIDATION" /\ (ceiling \/ Charged(a[1]) >= StepLimit(a[1]))

\* _require_current, then the reservation, then the launch.  A worktree is not metered.
reserve(c) ==
    LET a == co[c].att
    IN  /\ At(c, "reserve")
        /\ \/ ~Current(c) /\ Stop(c) /\ UNCHANGED <<ledger, invoked, validated>>
           \/ /\ Current(c) /\ a \notin Metered
              /\ Launch(c, a)
              /\ UNCHANGED ledger
           \/ /\ Current(c) /\ a \in Metered /\ Denied(a)
              /\ Goto(c, [co[c] EXCEPT !.pc = "record", !.out = Refusal])
              /\ UNCHANGED <<ledger, invoked, validated>>
           \/ /\ Current(c) /\ a \in Metered /\ ~Denied(a)
              /\ ledger' = [ledger EXCEPT ![a] = "ACTIVE"]
              /\ Launch(c, a)
        /\ UNCHANGED <<runVars, journal, overage, measured, worktree, clock, crashes>>

\* The effect returns.  The gate approves only with every mutating effect resolved.
invoke(c) ==
    LET a == co[c].att
        step == a[1]
        Return(o) == Goto(c, [co[c] EXCEPT !.pc = "record", !.out = o])
    IN  /\ At(c, "invoke")
        /\ \/ /\ step \in {"BUILD", "REPAIR"}
              /\ \E o \in AgentOutcomes : Return(o)
              /\ validated' = FALSE
              /\ UNCHANGED worktree
           \/ /\ step = "VALIDATION"
              /\ \E o \in ValidationOutcomes :
                    Return(o) /\ validated' = (o.status = "COMPLETED")
              /\ UNCHANGED worktree
           \/ /\ step = "REVIEW"
              /\ \E o \in ReviewOutcomes :
                    (o.gate = "APPROVABLE" => ~UnresolvedEffects) /\ Return(o)
              /\ UNCHANGED <<worktree, validated>>
           \/ /\ step = "WORKSPACE"
              /\ \/ worktree' = "active" /\ Return(WorktreeCreated)
                 \/ worktree' \in {"absent", "active", "broken"} /\ Return(WorktreeRefused)
              /\ UNCHANGED validated
        /\ UNCHANGED <<runVars, journal, ledger, overage, measured, clock, crashes, invoked>>

\* What follows a recorded outcome that needs no settlement.
Unmetered(snap, a, o) ==
    CASE a[1] = "WORKSPACE" /\ o.status = "COMPLETED" -> Advancing(snap, "BUILDING", NoIncrement)
      [] a[1] = "WORKSPACE" /\ o.status # "COMPLETED" -> Terminating(snap, "BLOCKED", NoIncrement)
      [] a[1] = "VALIDATION" ->
            Terminating(snap, IF Unresolved("VALIDATION") THEN "BLOCKED" ELSE "FAILED", NoIncrement)
      [] OTHER -> After(snap, a[1], o)

\* _persist of the OUTCOME: refused once the run moved or another outcome stands.
record(c) ==
    LET a == co[c].att
        o == co[c].out
        accepted == Current(c) /\ journal[a].outcome \in {NoOutcome, o}
    IN  /\ At(c, "record")
        /\ \/ ~accepted /\ Stop(c) /\ UNCHANGED journal
           \/ /\ accepted
              /\ journal' = [journal EXCEPT ![a].outcome = o]
              /\ Goto(c, IF a \in Metered /\ o.evidence
                         THEN [co[c] EXCEPT !.pc = "settle"]
                         ELSE Unmetered(co[c].snap, a, o))
        /\ UNCHANGED <<runVars, ledger, overage, measured, worktree, clock, crashes, ghosts>>

\* _settle_agent_reservation or _settle_validation_reservation, then the verdict.
settle(c) ==
    LET a == co[c].att
    IN  /\ At(c, "settle")
        /\ \/ CanSettle(a) /\ Settled(a) /\ Goto(c, After(co[c].snap, a[1], co[c].out))
           \/ ~CanSettle(a) /\ Stop(c) /\ UNCHANGED <<ledger, overage>>
        /\ UNCHANGED <<runVars, journal, measured, worktree, clock, crashes, ghosts>>

-----------------------------------------------------------------------------
(* _transition: transition_run and persist_transition.                     *)

\* transition_run and the Run validator accept the goal of coordinator c.
GoalAccepted(c) ==
    LET snap == co[c].snap
        goal == co[c].goal
    IN  /\ goal.destination \in permitted_destinations(snap.state)
        /\ goal.increment # NoIncrement =>
              /\ snap.state = AttemptSource(goal.increment)
              /\ snap.attempts[goal.increment] < AttemptLimit(goal.increment)

\* Defect: the other counters start again from zero.
GoalRunResetsCounters(c) ==
    [state |-> co[c].goal.destination, revision |-> co[c].snap.revision + 1,
     attempts |-> [k \in AttemptCounterKinds |->
         IF k = co[c].goal.increment THEN co[c].snap.attempts[k] + 1 ELSE 0]]

GoalRun(c) ==
    LET snap == co[c].snap
        goal == co[c].goal
    IN  [state |-> goal.destination, revision |-> snap.revision + 1,
         attempts |-> [k \in AttemptCounterKinds |->
             IF k = goal.increment THEN snap.attempts[k] + 1 ELSE snap.attempts[k]]]

Committable(c) == GoalAccepted(c) /\ Current(c)

\* Committed under the unchanged snapshot.  Otherwise refused, or answered as a replay when
\* another coordinator wrote the very same transition (same reason and time too).
commit(c) ==
    LET new == GoalRun(c)
        next == IF co[c].goal.then = "idle" THEN Idle
                ELSE IF co[c].goal.then = "loop" THEN [Idle EXCEPT !.pc = "loop"]
                ELSE [Idle EXCEPT !.pc = co[c].goal.then, !.snap = new]
    IN  /\ At(c, "commit")
        /\ \/ /\ Committable(c)
              /\ state' = new.state /\ attempts' = new.attempts /\ revision' = new.revision
              /\ UNCHANGED ceiling
              /\ Goto(c, next)
           \/ /\ ~Committable(c) /\ GoalAccepted(c) /\ Run = new
              /\ Goto(c, next)
              /\ UNCHANGED runVars
           \/ /\ ~Committable(c)
              /\ Stop(c)
              /\ UNCHANGED runVars
        /\ UNCHANGED <<journal, ledger, overage, measured, worktree, clock, crashes, ghosts>>

-----------------------------------------------------------------------------
(* The environment.                                                        *)

\* A coordinator process dies.  Its agent dies with it; a worktree creation may have got
\* anywhere.
Crash(c) ==
    /\ crashes < MaxCrashes
    /\ ~At(c, "idle")
    /\ crashes' = crashes + 1
    /\ Stop(c)
    /\ IF At(c, "invoke") /\ co[c].att[1] = "WORKSPACE"
       THEN worktree' \in {"absent", "active", "broken"}
       ELSE UNCHANGED worktree
    /\ UNCHANGED <<runVars, journal, ledger, overage, measured, clock, ghosts>>

\* Time passes towards max_duration_seconds.
Tick ==
    /\ MayExpire
    /\ \/ clock = "ample" /\ clock' = "short"
       \/ clock = "short" /\ clock' = "expired"
    /\ UNCHANGED <<runVars, journal, ledger, overage, measured, worktree, co, crashes, ghosts>>

\* A step of coordinator c inside a call.
Step(c) ==
    \/ enter(c) \/ sweep_list(c) \/ sweep(c) \/ admit(c) \/ leave_loop(c)
    \/ start_planning(c) \/ context(c) \/ select(c) \/ measure(c) \/ prepare_workspace(c)
    \/ build(c) \/ validate(c) \/ review(c) \/ repair(c) \/ intend(c) \/ refuse(c) \/ reserve(c)
    \/ invoke(c) \/ record(c) \/ settle(c) \/ reconcile(c) \/ commit(c)

Next ==
    \/ Tick
    \/ \E c \in Coordinators : execute(c) \/ resume(c) \/ cancel(c) \/ Step(c) \/ Crash(c)

Spec == Init /\ [][Next]_vars

(***************************************************************************)
(* Fairness.  A call that was begun goes on: every adapter, validation and *)
(* Git command it waits for has a timeout.  Wall time passes.  Somebody    *)
(* keeps resuming the run.                                                 *)
(***************************************************************************)
FairSpec ==
    /\ Spec
    /\ WF_vars(Tick)
    /\ \A c \in Coordinators : WF_vars(Step(c)) /\ SF_vars(resume(c))

-----------------------------------------------------------------------------
(* Safety.                                                                 *)

\* Every variable, snapshot and local of a coordinator stays in its type.
TypeOK ==
    /\ state \in RunStates
    /\ attempts \in [AttemptCounterKinds -> Nat]
    /\ revision \in Nat
    /\ ceiling \in BOOLEAN
    /\ journal \in [Attempts -> [intent: Nat \cup {NoIntent}, outcome: Outcomes \cup {NoOutcome},
                                 recon: {"none", "safe", "unsafe"}]]
    /\ ledger \in [Metered -> {"none", "ACTIVE", "SETTLED", "UNRESOLVED"}]
    /\ overage \in BOOLEAN
    /\ measured \subseteq 1..ContextRoles
    /\ worktree \in {"absent", "active", "broken"}
    /\ clock \in {"ample", "short", "expired"}
    /\ DOMAIN co = Coordinators
    /\ \A c \in Coordinators :
          /\ co[c].pc \in PCs
          /\ co[c].snap.revision \in 0..revision
          /\ co[c].att \in Attempts \cup {NoAttempt, <<"CONTEXT", ContextRoles + 1>>}
          /\ co[c].out \in Outcomes \cup {NoOutcome}
          /\ co[c].known \subseteq Metered /\ co[c].todo \subseteq Metered
    /\ crashes \in 0..MaxCrashes
    /\ invoked \in [Attempts -> Nat]
    /\ validated \in BOOLEAN

\* No agent, validation or worktree creation is ever launched twice for one attempt, nor
\* without its INTENT in the journal, nor while another coordinator is inside an effect,
\* whatever crashes, restarts and races happen: nothing but the journal keeps them apart.
EffectsAtMostOnce ==
    /\ \A a \in Attempts : invoked[a] > 0 => invoked[a] = 1 /\ journal[a].intent # NoIntent
    /\ \A c, d \in Coordinators : At(c, "invoke") /\ At(d, "invoke") => c = d

\* An APPROVED run: the worktree passed validation after the last agent was launched on it,
\* nobody is working on it, and every build and repair has resolved effects.
ApprovedIsValidated ==
    state = "APPROVED" =>
        /\ validated
        /\ \A a \in Mutating :
              /\ HasIntent(a) => HasOutcome(a) \/ journal[a].recon = "safe"
              /\ journal[a].outcome.effects = "AMBIGUOUS" => journal[a].recon = "safe"
        /\ \A c \in Coordinators : ~At(c, "invoke")

\* The budget fails closed, with one coordinator at a time, crashes included: only an attempt
\* with a recorded response or result is settled, a run is APPROVED only when every
\* reservation it made is settled, and under a remote-token or cost ceiling no builder,
\* reviewer or repairer is launched, whoever resumes the run and wherever it crashed.
BudgetFailsClosed ==
    /\ \A a \in Metered : ledger[a] = "SETTLED" => journal[a].outcome.evidence
    /\ state = "APPROVED" => \A a \in Metered : ledger[a] \in {"none", "SETTLED"}
    /\ ceiling => \A a \in Metered : a[1] # "VALIDATION" => invoked[a] = 0 /\ ledger[a] = "none"

\* The counters of the run agree with the journal: while a result is validated or reviewed,
\* every build and repair that was begun has an outcome and has been counted; once a review
\* led to a repair or to the approval, so has every review.  Past CONTEXT_PREPARING the usage
\* of every role's manifest is recorded, also after a crash between the two.
CountersMatchJournal ==
    LET Counted(step, counter) ==
            /\ \A s \in Sequences(step) : HasOutcome(<<step, s>>)
            /\ attempts[counter] = Cardinality(Sequences(step))
    IN  /\ state \in {"VALIDATING", "REVIEWING"} =>
              Counted("BUILD", "build") /\ Counted("REPAIR", "repair")
        /\ state \in {"REPAIRING", "APPROVED"} => Counted("REVIEW", "review")
        /\ state \in {"WORKSPACE_PREPARING", "BUILDING", "VALIDATING", "REVIEWING", "REPAIRING"} =>
              ContextComplete /\ measured = 1..ContextRoles

\* No step rewrites evidence: an INTENT, an OUTCOME, a RECONCILIATION and a closed
\* reservation stay as they are, and no recorded usage disappears.  A run that ended,
\* cancelled from outside or by its own coordinator, takes no more evidence: the result of a
\* call that was still in flight is refused.
EvidenceFinal ==
    [][/\ \A a \in Attempts :
             /\ HasIntent(a) => journal'[a].intent = journal[a].intent
             /\ HasOutcome(a) => journal'[a].outcome = journal[a].outcome
             /\ journal[a].recon # "none" => journal'[a].recon = journal[a].recon
       /\ \A a \in Metered : ledger[a] \in {"SETTLED", "UNRESOLVED"} => ledger'[a] = ledger[a]
       /\ measured \subseteq measured'
       /\ state \in TerminalStates => UNCHANGED <<runVars, journal>>]_vars

\* The coordinators drive the run only as the abstract lifecycle allows.
Lifecycle == INSTANCE RunLifecycle
ImplementsLifecycle == Lifecycle!Spec

-----------------------------------------------------------------------------
(* Liveness.                                                               *)

\* As long as somebody keeps resuming it, a run ends once its duration is over, whatever
\* the crashes left behind.
EventuallyTerminal == <>(state \in TerminalStates)

\* A trusted OUTCOME is settled in the end, wherever the coordinator died between the two:
\* resume finds no incomplete attempt, and the sweep of its execute comes before anything
\* that may end the run.  Only cancel, which releases nothing, may come first and leave the
\* reservation ACTIVE.  (A reservation WITHOUT an outcome has no such promise: reconcile ends
\* its run BLOCKED or FAILED before execute could write it off.)
SettlementRecovered ==
    []<>(\/ state = "CANCELLED"
         \/ \A a \in Metered : journal[a].outcome.evidence => ledger[a] = "SETTLED")

-----------------------------------------------------------------------------
(* What the documentation says and the code does not do.                   *)

\* docs/WORKFLOW_STATE_MACHINE.md: a persisted outcome at the current revision is consumed,
\* so a completed repair goes on to validation.  (With no limit on the duration.)
CompletedRepairIsConsumed ==
    [][state = "REPAIRING" /\ state' = "FAILED" =>
          \A s \in Sequences("REPAIR") :
              journal[<<"REPAIR", s>>].intent = revision =>
                  journal[<<"REPAIR", s>>].outcome.status # "COMPLETED"]_vars

\* docs/ARCHITECTURE.md: live ownership establishes a created worktree, so a run whose
\* worktree creation was reconciled as safe goes on.
SafeReconciliationContinues ==
    journal[<<"WORKSPACE", 1>>].recon = "safe" ~> state # "WORKSPACE_PREPARING"
=============================================================================
