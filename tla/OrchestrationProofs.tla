------------------------ MODULE OrchestrationProofs ------------------------
(***************************************************************************)
(* Theorems of Orchestration for any number of coordinators, crashes,      *)
(* roles, plans and attempts.                                              *)
(*                                                                         *)
(* The strengthening numbers the attempts of a step: at one revision there *)
(* is a single attempt that may be begun, the one after all that were      *)
(* begun at earlier revisions.  Whoever creates its INTENT owns it, and no *)
(* coordinator leaves the phase for another one but on its evidence.       *)
(***************************************************************************)
EXTENDS Orchestration, SumLemmas, FiniteSetTheorems

Phase(step) ==
    CASE step = "CONTEXT" -> "CONTEXT_PREPARING"
      [] step = "WORKSPACE" -> "WORKSPACE_PREPARING"
      [] step = "BUILD" -> "BUILDING"
      [] step = "VALIDATION" -> "VALIDATING"
      [] step = "REVIEW" -> "REVIEWING"
      [] step = "REPAIR" -> "REPAIRING"

Counter(step) ==
    CASE step = "BUILD" -> "build"
      [] step = "REVIEW" -> "review"
      [] step = "REPAIR" -> "repair"
      [] OTHER -> NoIncrement

WorktreeAttempt == <<"WORKSPACE", 1>>
Refusing == {"FAILED", "BLOCKED", "CANCELLED"}
Working5 == {"WORKSPACE_PREPARING", "BUILDING", "VALIDATING", "REVIEWING", "REPAIRING"}

Snapshots == [state : RunStates, attempts : [AttemptCounterKinds -> Nat], revision : Nat]
Goals == [destination : RunStates, increment : AttemptCounterKinds \cup {NoIncrement},
          then : {"idle", "loop", "enter"}]
Locals == [pc : PCs, snap : Snapshots,
           att : Attempts \cup {NoAttempt, <<"CONTEXT", ContextRoles + 1>>},
           out : Outcomes \cup {NoOutcome}, goal : Goals,
           known : SUBSET Metered, todo : SUBSET Metered]

Types ==
    /\ Run \in Snapshots /\ ceiling \in BOOLEAN
    /\ journal \in [Attempts -> [intent : Nat \cup {NoIntent}, outcome : Outcomes \cup {NoOutcome},
                                 recon : {"none", "safe", "unsafe"}]]
    /\ ledger \in [Metered -> {"none", "ACTIVE", "SETTLED", "UNRESOLVED"}]
    /\ overage \in BOOLEAN
    /\ measured \subseteq 1 .. ContextRoles
    /\ worktree \in {"absent", "active", "broken"}
    /\ clock \in {"ample", "short", "expired"}
    /\ co \in [Coordinators -> Locals]
    /\ crashes \in 0 .. MaxCrashes
    /\ invoked \in [Attempts -> Nat]
    /\ validated \in BOOLEAN

Evidence(a) == journal[a].outcome.evidence

\* Exactly the first n attempts of the step were begun at earlier revisions.
Begun(step, n) ==
    \A s \in 1 .. StepLimit(step) : journal[<<step, s>>].intent \in 0 .. revision - 1 <=> s <= n

\* The first roles have their manifest and its usage.
ContextUpTo(n) ==
    \A s \in 1 .. ContextRoles : s < n =>
        journal[<<"CONTEXT", s>>].outcome.status = "COMPLETED" /\ s \in measured

\* The worktree creation was launched and is over.
Made ==
    /\ invoked[WorktreeAttempt] > 0
    /\ \A c \in Coordinators : ~(At(c, "invoke") /\ co[c].att = WorktreeAttempt)

\* What lets the run leave its present phase for another one.
Grounds(goal) ==
    \/ state \in {"CREATED", "PLANNING"} /\ goal.increment = NoIncrement
    \/ state = "CONTEXT_PREPARING" /\ goal.increment = NoIncrement /\ ContextUpTo(ContextRoles + 1)
    \/ /\ state = "WORKSPACE_PREPARING" /\ goal.increment = NoIncrement
       /\ HasOutcome(WorktreeAttempt) \/ journal[WorktreeAttempt].recon = "safe"
    \/ \E a \in Metered :
          /\ journal[a].intent = revision /\ Evidence(a)
          /\ goal.increment = Counter(a[1])
          /\ goal.destination = "REVIEWING" => journal[a].outcome.status = "COMPLETED"
          /\ goal.destination = "APPROVED" => journal[a].outcome.gate = "APPROVABLE"

Attempting == {"intend", "refuse", "reserve", "invoke", "record", "settle"}
Selecting == {"context", "select", "measure"}

\* The coordinator created the INTENT and has not got rid of the attempt.
Owning(l) == l.pc \in {"reserve", "invoke"} \/ (l.pc = "record" /\ l.out # Refusal)

\* What a coordinator relies on while the run is the one it read.
SoundNow(l) ==
    /\ l.pc \in Attempting => Begun(l.att[1], l.att[2] - 1)
    /\ l.pc \in {"reserve", "invoke", "record"} => journal[l.att].intent = revision
    /\ Owning(l) => ~Evidence(l.att) /\ (l.att = WorktreeAttempt => ~HasOutcome(l.att))
    /\ l.pc = "reserve" => invoked[l.att] = 0
    /\ l.pc = "record" =>
          /\ l.att[1] = "VALIDATION" /\ l.out.status = "COMPLETED" => validated
          /\ l.att[1] = "REVIEW" /\ l.out.gate = "APPROVABLE" => ~UnresolvedEffects
    /\ l.pc = "commit" => l.goal.destination \in Refusing \/ Grounds(l.goal)

\* What it relies on in any case.
SoundEver(l) ==
    /\ l.snap.revision <= revision
    /\ l.snap.revision = revision => l.snap = Run
    /\ l.pc \in Attempting \cup {"reconcile"} =>
          l.att \in Attempts /\ l.snap.state = Phase(l.att[1])
    /\ l.pc \in Attempting => l.att[1] # "CONTEXT"
    /\ l.pc = "invoke" => invoked[l.att] > 0
    /\ l.pc = "refuse" => l.att[1] \in {"BUILD", "REPAIR"} /\ l.out = Refusal
    /\ l.pc = "record" =>
          /\ l.out \in Outcomes
          /\ l.att[1] \in MeteredSteps => l.out.evidence \/ l.out = Refusal
          /\ l.att = WorktreeAttempt => l.out # Refusal
    /\ l.pc = "settle" =>
          /\ journal[l.att].intent = l.snap.revision
          /\ journal[l.att].outcome = l.out /\ l.out.evidence /\ l.att \in Metered
    /\ l.pc \in Selecting =>
          /\ l.snap.state = "CONTEXT_PREPARING"
          /\ l.att[1] = "CONTEXT" /\ l.att[2] \in 1 .. ContextRoles + 1
          /\ ContextUpTo(l.att[2])
    /\ l.pc \in {"select", "measure"} => l.att[2] <= ContextRoles /\ HasIntent(l.att)
    /\ l.pc = "measure" => journal[l.att].outcome.status = "COMPLETED"
    /\ l.pc = "reconcile" /\ l.goal.then = "enter" => l.att = WorktreeAttempt /\ Made
    /\ \A a \in l.known : Evidence(a)

Sound(l) == SoundEver(l) /\ (l.snap = Run => SoundNow(l))

\* The journal.
JournalInv ==
    /\ revision = 0 => Run = FirstRun
    /\ \A a \in Attempts :
          /\ journal[a].intent <= revision
          /\ HasOutcome(a) => HasIntent(a)
          /\ journal[a].intent = revision => state = Phase(a[1])
          /\ a \in Metered /\ HasOutcome(a) => Evidence(a) \/ journal[a].outcome = Refusal
    /\ \A a, b \in Attempts :
          a[1] = b[1] /\ a[1] # "CONTEXT" /\ a[2] < b[2] /\ HasIntent(b) =>
              HasIntent(a) /\ journal[a].intent < journal[b].intent

\* What was begun at earlier revisions of a run that is not refused is over and counted.
CountInv ==
    state \notin Refusing =>
        /\ \A a \in Metered : journal[a].intent \in 0 .. revision - 1 => HasOutcome(a)
        /\ Begun("BUILD", attempts["build"]) /\ Begun("REVIEW", attempts["review"])
        /\ Begun("REPAIR", attempts["repair"])
        /\ state \in Working5 => ContextUpTo(ContextRoles + 1)

\* Effects and who is inside them.
EffectInv ==
    /\ \A a \in Attempts : invoked[a] <= 1 /\ (invoked[a] > 0 => HasIntent(a))
    /\ \A a \in Metered : ledger[a] # "none" => invoked[a] > 0
    /\ \A c, d \in Coordinators :
          Owning(co[c]) /\ Owning(co[d]) /\ Current(c) /\ Current(d) => c = d
    /\ \A c, d \in Coordinators : At(c, "invoke") /\ At(d, "invoke") => c = d
    /\ \A c \in Coordinators : At(c, "invoke") => Current(c) \/ state \in Refusing
    /\ worktree # "absent" \/ journal[WorktreeAttempt].recon = "safe" => Made

\* Validation and review say what they say of the present worktree.
VerdictInv ==
    /\ state \in {"REVIEWING", "APPROVED"} => validated
    /\ state = "APPROVED" => ~UnresolvedEffects
    /\ \A a \in Metered : journal[a].intent = revision =>
          /\ a[1] = "VALIDATION" /\ journal[a].outcome.status = "COMPLETED" => validated
          /\ a[1] = "REVIEW" /\ journal[a].outcome.gate = "APPROVABLE" => ~UnresolvedEffects

SoundOf(c) == Sound(co[c])

Inv ==
    /\ Types /\ JournalInv /\ CountInv /\ EffectInv /\ VerdictInv
    /\ \A c \in Coordinators : SoundOf(c)

-----------------------------------------------------------------------------
(* Attempts, outcomes and the records of a coordinator.                     *)

LEMMA Limits == \A step \in Steps : StepLimit(step) \in Nat
BY OrchestrationAssumption, BudgetAssumption DEF Steps, StepLimit

\* An attempt is a step and a number within its limit.
LEMMA AttemptPairs ==
    /\ \A a \in Attempts : /\ a[1] \in Steps /\ a[2] \in 1 .. StepLimit(a[1])
                           /\ a = <<a[1], a[2]>>
    /\ \A step \in Steps : \A s \in 1 .. StepLimit(step) : <<step, s>> \in Attempts
BY DEF Attempts

LEMMA KnownAttempts ==
    /\ Metered \subseteq Attempts /\ \A a \in Attempts : a \in Metered <=> a[1] \in MeteredSteps
    /\ Mutating \subseteq Attempts /\ \A a \in Attempts : a \in Mutating <=> a[1] \in MutatingSteps
    /\ WorktreeAttempt \in Attempts /\ WorktreeAttempt[1] = "WORKSPACE"
    /\ \A a \in Attempts : a[1] = "WORKSPACE" => a = WorktreeAttempt
    /\ \A s \in 1 .. ContextRoles : <<"CONTEXT", s>> \in Attempts
<1>1. StepLimit("WORKSPACE") = 1 /\ StepLimit("CONTEXT") = ContextRoles
  BY DEF StepLimit
<1>2. {"WORKSPACE", "CONTEXT"} \subseteq Steps
  BY DEF Steps
<1>3. WorktreeAttempt \in Attempts /\ WorktreeAttempt[1] = "WORKSPACE"
  BY <1>1, <1>2, AttemptPairs DEF WorktreeAttempt
<1>4. \A a \in Attempts : a[1] = "WORKSPACE" => a = WorktreeAttempt
  BY <1>1, AttemptPairs DEF WorktreeAttempt
<1>5. \A s \in 1 .. ContextRoles : <<"CONTEXT", s>> \in Attempts
  BY <1>1, <1>2, AttemptPairs
<1> QED BY <1>3, <1>4, <1>5 DEF Metered, Mutating

\* The phases of different steps differ and are not final.
LEMMA Phases ==
    \A step \in Steps :
        /\ Phase(step) \in RunStates \ TerminalStates
        /\ Phase(step) \notin {"CREATED", "PLANNING", "APPROVED"} \cup Refusing
        /\ \A other \in Steps : Phase(step) = Phase(other) => step = other
BY DEF Steps, Phase, RunStates, TerminalStates, Refusing

LEMMA OutcomeValues ==
    /\ NoOutcome \notin Outcomes /\ NoOutcome.evidence = FALSE /\ NoOutcome.status = "INTENDED"
    /\ NoOutcome.effects = "KNOWN_NONE" /\ NoOutcome.gate = "none"
    /\ Refusal \in Outcomes /\ Refusal.evidence = FALSE /\ Refusal.status = "BLOCKED"
    /\ Refusal.gate = "none" /\ Refusal.effects = "KNOWN_NONE"
BY DEF NoOutcome, Refusal, Outcome, Outcomes, Statuses, Effects, GateStatuses

\* What a selection, an agent, a validation, a review and a worktree creation can end with.
LEMMA OutcomeSets ==
    /\ ContextOutcomes \subseteq Outcomes
    /\ \A o \in AgentOutcomes \cup ValidationOutcomes \cup ReviewOutcomes : o \in Outcomes /\ o.evidence = TRUE
    /\ \A o \in {WorktreeCreated, WorktreeRefused} : o \in Outcomes /\ o # Refusal
<1>1. ASSUME NEW o \in ContextOutcomes PROVE o \in Outcomes
  <2>1. PICK s \in {"COMPLETED", "BLOCKED", "INVALID"}, e \in BOOLEAN : o = Outcome(s, "KNOWN_NONE", e, "none", FALSE)
    BY DEF ContextOutcomes
  <2>2. s \in Statuses /\ "KNOWN_NONE" \in Effects
    BY DEF Statuses, Effects
  <2> QED BY <2>1, <2>2 DEF Outcome, Outcomes
<1>2. ASSUME NEW o \in AgentOutcomes PROVE o \in Outcomes /\ o.evidence = TRUE
  <2>1. PICK s \in {"COMPLETED", "BLOCKED", "CANCELLED", "FAILED"}, e \in AgentEffects :
           o = Outcome(s, e, TRUE, "none", FALSE)
    BY DEF AgentOutcomes, Outcome
  <2>2. s \in Statuses /\ e \in Effects
    BY OrchestrationAssumption DEF Statuses, Effects
  <2> QED BY <2>1, <2>2 DEF Outcome, Outcomes
<1>3. ASSUME NEW o \in ValidationOutcomes PROVE o \in Outcomes /\ o.evidence = TRUE
  <2>1. PICK s \in Statuses, v \in {FALSE, MayOverrun} : o = Outcome(s, "KNOWN_NONE", TRUE, "none", v)
    BY DEF ValidationOutcomes, Outcome
  <2>2. v \in BOOLEAN /\ "KNOWN_NONE" \in Effects
    BY OrchestrationAssumption DEF Effects
  <2> QED BY <2>1, <2>2 DEF Outcome, Outcomes
<1>4. ASSUME NEW o \in ReviewOutcomes PROVE o \in Outcomes /\ o.evidence = TRUE
  <2>1. PICK p \in {<<"COMPLETED", "APPROVABLE">>, <<"COMPLETED", "CHANGES_REQUIRED">>,
                    <<"COMPLETED", "INVALID_EVIDENCE">>, <<"CANCELLED", "BLOCKED">>,
                    <<"BLOCKED", "BLOCKED">>, <<"FAILED", "BLOCKED">>,
                    <<"FAILED", "INVALID_EVIDENCE">>, <<"BLOCKED", "INVALID_EVIDENCE">>,
                    <<"CANCELLED", "INVALID_EVIDENCE">>} : o = Outcome(p[1], "KNOWN_NONE", TRUE, p[2], FALSE)
    BY DEF ReviewOutcomes
  <2>2. p[1] \in Statuses /\ p[2] \in GateStatuses /\ "KNOWN_NONE" \in Effects
    BY <2>1 DEF Statuses, GateStatuses, Effects
  <2> QED BY <2>1, <2>2 DEF Outcome, Outcomes
<1>5. /\ WorktreeCreated \in Outcomes /\ WorktreeCreated.evidence = TRUE
      /\ WorktreeRefused \in Outcomes /\ WorktreeRefused.effects = "AMBIGUOUS"
  BY DEF WorktreeCreated, WorktreeRefused, Outcome, Outcomes, Statuses, Effects
<1> QED BY <1>1, <1>2, <1>3, <1>4, <1>5, OutcomeValues

LEMMA RunFields == Run.state = state /\ Run.attempts = attempts /\ Run.revision = revision
BY DEF Run

LEMMA IdleFields ==
    /\ Idle \in Locals /\ Idle.pc = "idle" /\ Idle.snap = FirstRun /\ FirstRun.revision = 0
    /\ Idle.known = {} /\ Idle.todo = {} /\ Idle.out = NoOutcome /\ Idle.att = NoAttempt
<1>1. FirstRun \in Snapshots /\ FirstRun.revision = 0
  BY DEF FirstRun, Snapshots, RunStates
<1>2. NoGoal \in Goals
  BY DEF NoGoal, Goals, RunStates
<1> QED BY <1>1, <1>2 DEF Idle, Locals, PCs

\* A coordinator about to commit, and one about to work on an attempt.
LEMMA CommittingFields ==
    ASSUME NEW snap \in Snapshots, NEW destination \in RunStates,
           NEW increment \in AttemptCounterKinds \cup {NoIncrement}, NEW then \in {"idle", "loop", "enter"},
           NEW l, l = Committing(snap, destination, increment, then)
    PROVE  /\ l \in Locals /\ l.pc = "commit" /\ l.snap = snap /\ l.known = {} /\ l.todo = {}
           /\ l.goal.destination = destination /\ l.goal.increment = increment /\ l.goal.then = then
<1>1. PICK goal : goal = [destination |-> destination, increment |-> increment, then |-> then]
  OBVIOUS
<1>2. /\ goal \in Goals /\ goal.destination = destination /\ goal.increment = increment
      /\ goal.then = then
  BY <1>1 DEF Goals
<1>3. l = [Idle EXCEPT !.pc = "commit", !.snap = snap, !.goal = goal]
  BY <1>1 DEF Committing
<1> QED BY <1>2, <1>3, IdleFields DEF Locals, PCs

LEMMA WorkingFields ==
    ASSUME NEW snap \in Snapshots, NEW pc \in PCs, NEW a \in Attempts,
           NEW l, l = Working(pc, snap, a)
    PROVE  /\ l \in Locals /\ l.pc = pc /\ l.snap = snap /\ l.att = a /\ l.known = {} /\ l.todo = {}
           /\ l.out = NoOutcome /\ l.goal = NoGoal
BY IdleFields DEF Working, Locals, Idle

-----------------------------------------------------------------------------
(* Steps that leave the run where it is.                                    *)

\* What a write does to the attempt of the present phase: evidence is added, never replaced.
Grown(a) ==
    /\ state = Phase(a[1])
    /\ \/ journal'[a].intent = journal[a].intent
       \/ /\ ~HasIntent(a) /\ journal'[a].intent = revision
          /\ a[1] = "CONTEXT" \/ Begun(a[1], a[2] - 1)
    /\ \/ journal'[a].outcome = journal[a].outcome
       \/ /\ ~HasOutcome(a) /\ journal'[a].outcome \in Outcomes /\ journal'[a].intent # NoIntent
          /\ a \in Metered => journal'[a].outcome.evidence \/ journal'[a].outcome = Refusal
    /\ journal'[a].recon = journal[a].recon \/ journal[a].recon = "none"

Grows == \A a \in Attempts : journal'[a] = journal[a] \/ Grown(a)

\* What Grows says of each attempt.
LEMMA GrowsKeeps ==
    ASSUME Types, JournalInv, Grows, NEW a \in Attempts
    PROVE  /\ journal'[a].intent = journal[a].intent
              \/ (~HasIntent(a) /\ journal'[a].intent = revision)
           /\ HasIntent(a) => journal'[a].intent = journal[a].intent
           /\ HasOutcome(a) => journal'[a].outcome = journal[a].outcome
           /\ Evidence(a) => journal'[a].outcome = journal[a].outcome
           /\ journal[a].outcome.status = "COMPLETED" => journal'[a].outcome = journal[a].outcome
           /\ journal[a].recon = "safe" => journal'[a].recon = "safe"
           /\ journal[a].intent \in 0 .. revision - 1 <=> journal'[a].intent \in 0 .. revision - 1
<1>1. Evidence(a) \/ journal[a].outcome.status = "COMPLETED" => HasOutcome(a)
  BY OutcomeValues DEF Evidence, HasOutcome
<1>2. revision \in Nat /\ journal[a].intent \in Nat \cup {NoIntent}
  BY RunFields DEF Types, Snapshots
<1>3. NoIntent \notin Nat
  BY DEF NoIntent
<1>4. CASE journal'[a] = journal[a]
  BY <1>4 DEF HasIntent
<1>5. CASE Grown(a)
  <2>1. /\ journal'[a].intent = journal[a].intent
           \/ (~HasIntent(a) /\ journal'[a].intent = revision)
        /\ HasOutcome(a) => journal'[a].outcome = journal[a].outcome
        /\ journal[a].recon = "safe" => journal'[a].recon = "safe"
    BY <1>5 DEF Grown
  <2>2. HasIntent(a) => journal'[a].intent = journal[a].intent
    BY <2>1
  <2>3. journal[a].intent \in 0 .. revision - 1 <=> journal'[a].intent \in 0 .. revision - 1
    BY <1>2, <1>3, <2>1 DEF HasIntent
  <2> QED BY <1>1, <2>1, <2>2, <2>3
<1> QED BY <1>4, <1>5 DEF Grows

LEMMA BegunKept ==
    ASSUME Types, JournalInv, Grows, revision' = revision, NEW step \in Steps, NEW n
    PROVE  Begun(step, n) <=> Begun(step, n)'
<1>1. \A s \in 1 .. StepLimit(step) :
         journal[<<step, s>>].intent \in 0 .. revision - 1 <=> journal'[<<step, s>>].intent \in 0 .. revision - 1
  BY AttemptPairs, GrowsKeeps
<1> QED BY <1>1 DEF Begun, StepLimit

LEMMA ContextKept ==
    ASSUME Types, JournalInv, Grows, measured \subseteq measured', NEW n, ContextUpTo(n)
    PROVE  ContextUpTo(n)'
<1>1. \A s \in 1 .. ContextRoles :
         journal[<<"CONTEXT", s>>].outcome.status = "COMPLETED" =>
            journal'[<<"CONTEXT", s>>].outcome.status = "COMPLETED"
  BY KnownAttempts, GrowsKeeps
<1> QED BY <1>1 DEF ContextUpTo

\* Builds and repairs write nothing while a review is under way, or after it.
LEMMA EffectsKept ==
    ASSUME Types, Grows, state \in {"REVIEWING", "APPROVED"} \/ state \in TerminalStates
    PROVE  UnresolvedEffects' <=> UnresolvedEffects
<1>1. \A a \in Mutating : journal'[a] = journal[a]
  <2> TAKE a \in Mutating
  <2>1. a \in Attempts /\ a[1] \in MutatingSteps
    BY KnownAttempts
  <2>2. Phase(a[1]) \notin {"REVIEWING", "APPROVED"} \cup TerminalStates
    BY <2>1 DEF MutatingSteps, Phase, TerminalStates
  <2> QED BY <2>1, <2>2 DEF Grows, Grown
<1> QED BY <1>1 DEF UnresolvedEffects, HasIntent, HasOutcome, Mutating, Attempts, StepLimit

LEMMA GroundsKept ==
    ASSUME Types, JournalInv, Grows, UNCHANGED runVars, measured \subseteq measured', NEW goal, Grounds(goal)
    PROVE  Grounds(goal)'
<1>0. UNCHANGED <<state, revision>>
  BY DEF runVars
<1>1. CASE state \in {"CREATED", "PLANNING"} /\ goal.increment = NoIncrement
  BY <1>0, <1>1 DEF Grounds
<1>2. CASE state = "CONTEXT_PREPARING" /\ goal.increment = NoIncrement /\ ContextUpTo(ContextRoles + 1)
  BY <1>0, <1>2, ContextKept DEF Grounds
<1>3. CASE /\ state = "WORKSPACE_PREPARING" /\ goal.increment = NoIncrement
           /\ HasOutcome(WorktreeAttempt) \/ journal[WorktreeAttempt].recon = "safe"
  <2>1. HasOutcome(WorktreeAttempt)' \/ journal'[WorktreeAttempt].recon = "safe"
    BY <1>3, KnownAttempts, GrowsKeeps DEF HasOutcome
  <2> QED BY <1>0, <1>3, <2>1 DEF Grounds
<1>4. CASE \E a \in Metered :
              /\ journal[a].intent = revision /\ Evidence(a)
              /\ goal.increment = Counter(a[1])
              /\ goal.destination = "REVIEWING" => journal[a].outcome.status = "COMPLETED"
              /\ goal.destination = "APPROVED" => journal[a].outcome.gate = "APPROVABLE"
  <2>1. PICK a \in Metered :
              /\ journal[a].intent = revision /\ Evidence(a)
              /\ goal.increment = Counter(a[1])
              /\ goal.destination = "REVIEWING" => journal[a].outcome.status = "COMPLETED"
              /\ goal.destination = "APPROVED" => journal[a].outcome.gate = "APPROVABLE"
    BY <1>4
  <2>2. a \in Attempts /\ revision \in Nat
    BY KnownAttempts, RunFields DEF Types, Snapshots
  <2>3. journal'[a].outcome = journal[a].outcome /\ journal'[a].intent = journal[a].intent
    BY <2>1, <2>2, GrowsKeeps DEF HasIntent, NoIntent
  <2> QED BY <1>0, <2>1, <2>3 DEF Grounds, Evidence, Metered, Attempts, StepLimit
<1> QED BY <1>1, <1>2, <1>3, <1>4 DEF Grounds

\* A coordinator keeps what it relies on while the journal grows beside it, unless it owns
\* the attempt that is written to.
LEMMA SoundKept ==
    ASSUME Types, JournalInv, Grows, UNCHANGED runVars, measured \subseteq measured', Made => Made',
           \A a \in Attempts : invoked'[a] >= invoked[a],
           invoked \in [Attempts -> Nat], invoked' \in [Attempts -> Nat],
           NEW d \in Coordinators, NEW l \in Locals, co'[d] = l, Sound(l),
           l.snap = Run =>
              /\ Owning(l) => \/ journal'[l.att].outcome = journal[l.att].outcome
                              \/ journal'[l.att].outcome = Refusal /\ l.att # WorktreeAttempt
              /\ l.pc = "reserve" => invoked'[l.att] = invoked[l.att]
              /\ l.pc = "record" /\ l.att[1] = "VALIDATION" /\ l.out.status = "COMPLETED" /\ validated => validated'
    PROVE  SoundOf(d)'
<1>0. /\ UNCHANGED <<state, attempts, revision>> /\ Run' = Run
      /\ SoundEver(l) /\ (l.snap = Run => SoundNow(l))
  BY DEF runVars, Run, Sound
<1>1. l.pc \in Attempting \cup {"reconcile"} => l.att \in Attempts /\ l.snap.state = Phase(l.att[1])
  BY <1>0 DEF SoundEver
<1>2. SoundEver(l)'
  <2>1. l.pc = "invoke" => invoked'[l.att] > 0
    <3>1. l.pc = "invoke" => l.att \in Attempts /\ invoked[l.att] > 0
      BY <1>0, <1>1 DEF SoundEver, Attempting
    <3> QED BY <3>1
  <2>2. l.pc = "settle" => /\ journal'[l.att].intent = l.snap.revision
                           /\ journal'[l.att].outcome = l.out
    <3>1. l.pc = "settle" => /\ journal[l.att].intent = l.snap.revision
                             /\ journal[l.att].outcome = l.out /\ l.out.evidence /\ l.att \in Metered
      BY <1>0 DEF SoundEver
    <3>2. l.snap.revision \in Nat
      BY DEF Locals, Snapshots
    <3> QED BY <3>1, <3>2, KnownAttempts, GrowsKeeps DEF Evidence, HasIntent, NoIntent
  <2>3. l.pc \in Selecting => ContextUpTo(l.att[2])'
    BY <1>0, ContextKept DEF SoundEver
  <2>4. l.pc \in {"select", "measure"} => HasIntent(l.att)'
    <3>1. l.pc \in {"select", "measure"} => l.att[2] \in 1 .. ContextRoles /\ l.att[1] = "CONTEXT" /\ HasIntent(l.att)
      BY <1>0, OrchestrationAssumption DEF SoundEver, Selecting
    <3>2. l.pc \in {"select", "measure"} => l.att \in Attempts
      <4>1. NoAttempt[1] = "NONE"
        BY DEF NoAttempt
      <4>2. l.att # <<"CONTEXT", ContextRoles + 1>> \/ l.att[2] = ContextRoles + 1
        OBVIOUS
      <4> QED BY <3>1, <4>1, <4>2, OrchestrationAssumption DEF Locals
    <3> QED BY <3>1, <3>2, GrowsKeeps DEF HasIntent
  <2>5. l.pc = "measure" => journal'[l.att].outcome.status = "COMPLETED"
    <3>1. l.pc = "measure" => l.att[2] \in 1 .. ContextRoles /\ l.att[1] = "CONTEXT"
      BY <1>0, OrchestrationAssumption DEF SoundEver, Selecting
    <3>2. l.pc = "measure" => l.att \in Attempts
      <4>1. NoAttempt[1] = "NONE"
        BY DEF NoAttempt
      <4>2. l.att # <<"CONTEXT", ContextRoles + 1>> \/ l.att[2] = ContextRoles + 1
        OBVIOUS
      <4> QED BY <3>1, <4>1, <4>2, OrchestrationAssumption DEF Locals
    <3> QED BY <1>0, <3>1, <3>2, GrowsKeeps DEF SoundEver
  <2>6. \A a \in l.known : Evidence(a)'
    <3>1. l.known \subseteq Attempts
      BY KnownAttempts DEF Locals
    <3> QED BY <1>0, <3>1, GrowsKeeps DEF SoundEver, Evidence
  <2> QED BY <1>0, <2>1, <2>2, <2>3, <2>4, <2>5, <2>6 DEF SoundEver
<1>3. ASSUME l.snap = Run PROVE SoundNow(l)'
  <2>0. SoundNow(l)
    BY <1>0, <1>3
  <2>1. l.pc \in Attempting => l.att \in Attempts /\ l.att[1] \in Steps
    BY <1>1, AttemptPairs
  <2>2. l.pc \in Attempting => Begun(l.att[1], l.att[2] - 1)'
    BY <1>0, <2>0, <2>1, BegunKept DEF SoundNow
  <2>3. l.pc \in {"reserve", "invoke", "record"} => journal'[l.att].intent = revision'
    <3>1. revision \in Nat
      BY RunFields DEF Types, Snapshots
    <3> QED BY <1>0, <2>0, <2>1, <3>1, GrowsKeeps DEF SoundNow, Attempting, HasIntent, NoIntent
  <2>4. Owning(l) => ~Evidence(l.att)' /\ (l.att = WorktreeAttempt => ~HasOutcome(l.att)')
    BY <1>3, <2>0, OutcomeValues DEF SoundNow, Evidence, HasOutcome
  <2>5. l.pc = "reserve" => invoked'[l.att] = 0
    BY <1>3, <2>0 DEF SoundNow
  <2>6. l.pc = "record" => /\ l.att[1] = "VALIDATION" /\ l.out.status = "COMPLETED" => validated'
                           /\ l.att[1] = "REVIEW" /\ l.out.gate = "APPROVABLE" => ~UnresolvedEffects'
    <3>1. l.pc = "record" /\ l.att[1] = "REVIEW" => state = "REVIEWING"
      BY <1>1, <1>3, RunFields DEF Phase, Attempting
    <3> QED BY <1>3, <2>0, <3>1, EffectsKept DEF SoundNow
  <2>7. l.pc = "commit" => l.goal.destination \in Refusing \/ Grounds(l.goal)'
    <3>1. PICK goal : goal = l.goal
      OBVIOUS
    <3>2. l.pc = "commit" /\ goal.destination \notin Refusing => Grounds(goal)
      BY <2>0, <3>1 DEF SoundNow
    <3>3. l.pc = "commit" /\ goal.destination \notin Refusing => Grounds(goal)'
      BY <3>2, GroundsKept
    <3> QED BY <3>1, <3>3 DEF Grounds
  <2> QED BY <2>2, <2>3, <2>4, <2>5, <2>6, <2>7 DEF SoundNow, Owning
<1> QED BY <1>0, <1>2, <1>3 DEF SoundOf, Sound, SoundEver, SoundNow, Owning, Grounds

\* The journal stays in order while it grows.
LEMMA JournalKept ==
    ASSUME Types, Types', JournalInv, Grows, UNCHANGED runVars
    PROVE  JournalInv'
<1>0. UNCHANGED <<state, attempts, revision>> /\ Run' = Run /\ revision \in Nat
  BY RunFields DEF runVars, Run, Types, Snapshots
<1>1. revision' = 0 => Run' = FirstRun
  BY <1>0 DEF JournalInv
<1>2. ASSUME NEW a \in Attempts
      PROVE  /\ journal'[a].intent <= revision
             /\ HasOutcome(a)' => HasIntent(a)'
             /\ journal'[a].intent = revision => state = Phase(a[1])
             /\ a \in Metered /\ HasOutcome(a)' => Evidence(a)' \/ journal'[a].outcome = Refusal
  <2>1. /\ journal[a].intent <= revision /\ (HasOutcome(a) => HasIntent(a))
        /\ journal[a].intent = revision => state = Phase(a[1])
        /\ a \in Metered /\ HasOutcome(a) => Evidence(a) \/ journal[a].outcome = Refusal
    BY <1>2 DEF JournalInv
  <2>2. CASE journal'[a] = journal[a]
    BY <2>1, <2>2 DEF HasOutcome, HasIntent, Evidence
  <2>3. CASE Grown(a)
    <3>1. journal'[a].intent <= revision /\ state = Phase(a[1])
      BY <1>0, <2>1, <2>3 DEF Grown
    <3>2. HasIntent(a) => HasIntent(a)'
      BY <1>0, <2>3 DEF Grown, HasIntent
    <3>3. CASE journal'[a].outcome = journal[a].outcome
      BY <2>1, <3>1, <3>2, <3>3 DEF HasOutcome, Evidence
    <3>4. CASE journal'[a].outcome # journal[a].outcome
      BY <2>3, <3>1, <3>4 DEF Grown, HasIntent, Evidence
    <3> QED BY <3>3, <3>4
  <2> QED BY <1>2, <2>2, <2>3 DEF Grows
<1>3. ASSUME NEW a \in Attempts, NEW b \in Attempts,
             a[1] = b[1], a[1] # "CONTEXT", a[2] < b[2], HasIntent(b)'
      PROVE  HasIntent(a)' /\ journal'[a].intent < journal'[b].intent
  <2>1. HasIntent(b) => HasIntent(a) /\ journal[a].intent < journal[b].intent
    BY <1>3 DEF JournalInv
  <2>2. CASE HasIntent(b)
    <3>1. journal'[a].intent = journal[a].intent /\ journal'[b].intent = journal[b].intent
      BY <2>1, <2>2, GrowsKeeps
    <3> QED BY <2>1, <2>2, <3>1 DEF HasIntent
  <2>3. CASE ~HasIntent(b)
    <3>1. journal'[b] # journal[b]
      BY <1>3, <2>3 DEF HasIntent
    <3>2. journal'[b].intent # journal[b].intent
      BY <1>3, <2>3 DEF HasIntent
    <3>3. journal'[b].intent = revision /\ Begun(b[1], b[2] - 1)
      BY <1>3, <3>1, <3>2 DEF Grows, Grown
    <3>4. a[2] \in 1 .. StepLimit(b[1]) /\ a = <<b[1], a[2]>> /\ a[2] <= b[2] - 1
      BY <1>3, AttemptPairs, Limits
    <3>5. journal[a].intent \in 0 .. revision - 1
      BY <3>3, <3>4 DEF Begun
    <3>6. HasIntent(a)
      BY <3>5 DEF HasIntent, NoIntent
    <3>7. journal'[a].intent = journal[a].intent
      BY <3>6, GrowsKeeps
    <3> QED BY <1>0, <3>3, <3>5, <3>6, <3>7 DEF HasIntent
  <2> QED BY <2>2, <2>3
<1> QED BY <1>0, <1>1, <1>2, <1>3 DEF JournalInv, HasIntent, HasOutcome, Evidence, Metered, Attempts, StepLimit

\* So do the counters.
LEMMA CountKept ==
    ASSUME Types, JournalInv, CountInv, Grows, UNCHANGED runVars, measured \subseteq measured'
    PROVE  CountInv'
<1>0. UNCHANGED <<state, attempts, revision>>
  BY DEF runVars
<1>1. \A a \in Metered : journal'[a].intent \in 0 .. revision - 1 /\ state \notin Refusing => HasOutcome(a)'
  <2> TAKE a \in Metered
  <2>1. a \in Attempts
    BY KnownAttempts
  <2> QED BY <2>1, GrowsKeeps DEF CountInv, HasOutcome
<1>2. {"BUILD", "REVIEW", "REPAIR"} \subseteq Steps
  BY DEF Steps
<1>3. PICK builds, reviews, repairs : builds = attempts["build"] /\ reviews = attempts["review"]
                                      /\ repairs = attempts["repair"]
  OBVIOUS
<1>4. state \notin Refusing => Begun("BUILD", builds)' /\ Begun("REVIEW", reviews)' /\ Begun("REPAIR", repairs)'
  BY <1>0, <1>2, <1>3, BegunKept DEF CountInv
<1>5. state \notin Refusing /\ state \in Working5 => ContextUpTo(ContextRoles + 1)'
  BY ContextKept DEF CountInv
<1>6. state \notin Refusing => Begun("BUILD", attempts["build"])' /\ Begun("REVIEW", attempts["review"])'
                               /\ Begun("REPAIR", attempts["repair"])'
  BY <1>0, <1>3, <1>4 DEF Begun
<1> QED BY <1>0, <1>1, <1>5, <1>6 DEF CountInv, Metered, Attempts, StepLimit

\* And what validation and review say.
LEMMA VerdictKept ==
    ASSUME Types, JournalInv, VerdictInv, Grows, UNCHANGED runVars,
           validated /\ state \in {"VALIDATING", "REVIEWING", "APPROVED"} => validated',
           \A a \in Metered :
              \/ journal'[a].outcome = journal[a].outcome
              \/ /\ a[1] = "VALIDATION" /\ journal'[a].outcome.status = "COMPLETED" => validated'
                 /\ a[1] = "REVIEW" /\ journal'[a].outcome.gate = "APPROVABLE" => ~UnresolvedEffects
    PROVE  VerdictInv'
<1>0. UNCHANGED <<state, revision>>
  BY DEF runVars
<1>1. state = "APPROVED" => ~UnresolvedEffects'
  BY EffectsKept DEF VerdictInv
<1>2. ASSUME NEW a \in Metered, journal'[a].intent = revision
      PROVE  /\ a[1] = "VALIDATION" /\ journal'[a].outcome.status = "COMPLETED" => validated'
             /\ a[1] = "REVIEW" /\ journal'[a].outcome.gate = "APPROVABLE" => ~UnresolvedEffects'
  <2>1. a \in Attempts
    BY KnownAttempts
  <2>2. state = Phase(a[1]) /\ (~HasIntent(a) => journal[a].outcome = NoOutcome)
    BY <1>2, <2>1 DEF Grows, Grown, JournalInv, HasOutcome
  <2>3. a[1] = "VALIDATION" => state = "VALIDATING"
    BY <2>2 DEF Phase
  <2>4. a[1] = "REVIEW" => state = "REVIEWING"
    BY <2>2 DEF Phase
  <2>5. CASE journal'[a].outcome = journal[a].outcome
    <3>1. CASE journal[a].intent = revision
      BY <2>3, <2>4, <2>5, <3>1, EffectsKept DEF VerdictInv
    <3>2. CASE journal[a].intent # revision
      <4>1. ~HasIntent(a)
        BY <1>2, <2>1, <3>2, GrowsKeeps
      <4> QED BY <2>2, <2>5, <4>1, OutcomeValues
    <3> QED BY <3>1, <3>2
  <2>6. CASE journal'[a].outcome # journal[a].outcome
    BY <2>4, <2>6, EffectsKept
  <2> QED BY <2>5, <2>6
<1> QED BY <1>0, <1>1, <1>2 DEF VerdictInv, Metered, Attempts, StepLimit

\* A step that launches nothing and after which no two coordinators own an attempt.
LEMMA EffectKept ==
    ASSUME Types, Types', EffectInv, JournalInv, Grows, UNCHANGED <<runVars, invoked>>,
           NEW c \in Coordinators, NEW new \in Locals, co' = [co EXCEPT ![c] = new], new.pc # "invoke",
           Owning(new) /\ new.snap = Run => \A d \in Coordinators : Owning(co[d]) /\ Current(d) => d = c,
           \A a \in Metered : ledger'[a] # "none" => ledger[a] # "none",
           \/ worktree' = worktree
           \/ At(c, "invoke") /\ co[c].att = WorktreeAttempt /\ invoked[WorktreeAttempt] > 0,
           journal'[WorktreeAttempt].recon = "safe" => journal[WorktreeAttempt].recon = "safe" \/ Made
    PROVE  EffectInv' /\ (Made => Made')
<1>0. /\ UNCHANGED <<state, attempts, revision, invoked>> /\ Run' = Run
      /\ co'[c] = new /\ \A d \in Coordinators : d # c => co'[d] = co[d]
  BY DEF runVars, Run, Types
<1>1. \A a \in Attempts : invoked'[a] <= 1 /\ (invoked'[a] > 0 => HasIntent(a)')
  <2> TAKE a \in Attempts
  <2>1. invoked[a] <= 1 /\ (invoked[a] > 0 => HasIntent(a))
    BY DEF EffectInv
  <2> QED BY <1>0, <2>1, GrowsKeeps DEF HasIntent
<1>2. \A a \in Metered : ledger'[a] # "none" => invoked'[a] > 0
  BY <1>0 DEF EffectInv
<1>3. \A d, e \in Coordinators : Owning(co[d])' /\ Owning(co[e])' /\ Current(d)' /\ Current(e)' => d = e
  BY <1>0 DEF EffectInv, Owning, Current
<1>5. \A d, e \in Coordinators : At(d, "invoke")' /\ At(e, "invoke")' => d = e
  BY <1>0 DEF EffectInv, At
<1>6. \A d \in Coordinators : At(d, "invoke")' => Current(d)' \/ state' \in Refusing
  BY <1>0 DEF EffectInv, At, Current
<1>7. Made => Made'
  BY <1>0 DEF Made, At
<1>8. worktree' # "absent" \/ journal'[WorktreeAttempt].recon = "safe" => Made'
  <2>1. CASE worktree' # worktree
    <3>1. \A d \in Coordinators : d # c => ~At(d, "invoke")
      BY <2>1 DEF EffectInv
    <3> QED BY <1>0, <2>1, <3>1 DEF Made, At
  <2>2. CASE worktree' = worktree
    BY <1>7, <2>2 DEF EffectInv
  <2> QED BY <2>1, <2>2
<1> QED BY <1>1, <1>2, <1>3, <1>5, <1>6, <1>7, <1>8 DEF EffectInv, Metered, Attempts, StepLimit

\* A step that launches nothing.
LEMMA Transfers ==
    ASSUME Inv, Types', Grows, UNCHANGED <<runVars, invoked>>, measured \subseteq measured', VerdictInv',
           NEW c \in Coordinators, NEW new \in Locals, co' = [co EXCEPT ![c] = new], new.pc # "invoke",
           Owning(new) /\ new.snap = Run => \A d \in Coordinators : Owning(co[d]) /\ Current(d) => d = c,
           \A a \in Metered : ledger'[a] # "none" => ledger[a] # "none",
           \/ worktree' = worktree
           \/ At(c, "invoke") /\ co[c].att = WorktreeAttempt /\ invoked[WorktreeAttempt] > 0,
           journal'[WorktreeAttempt].recon = "safe" => journal[WorktreeAttempt].recon = "safe" \/ Made,
           \A d \in Coordinators : d # c /\ Owning(co[d]) /\ Current(d) =>
              /\ \/ journal'[co[d].att].outcome = journal[co[d].att].outcome
                 \/ journal'[co[d].att].outcome = Refusal /\ co[d].att # WorktreeAttempt
              /\ co[d].att[1] = "VALIDATION" /\ validated => validated',
           SoundOf(c)'
    PROVE  Inv'
<1>0. /\ Types /\ JournalInv /\ CountInv /\ EffectInv
      /\ \A d \in Coordinators : d # c => co'[d] = co[d] /\ SoundOf(d) /\ co[d] \in Locals
      /\ UNCHANGED runVars /\ UNCHANGED invoked
  BY DEF Inv, Types
<1>1. EffectInv' /\ (Made => Made')
  BY <1>0, EffectKept
<1>2. ASSUME NEW d \in Coordinators, d # c PROVE SoundOf(d)'
  <2>1. PICK l : l = co[d]
    OBVIOUS
  <2>2. l \in Locals /\ co'[d] = l /\ Sound(l)
    BY <1>0, <1>2, <2>1 DEF SoundOf
  <2>3. l.snap = Run /\ Owning(l) =>
           /\ \/ journal'[l.att].outcome = journal[l.att].outcome
              \/ journal'[l.att].outcome = Refusal /\ l.att # WorktreeAttempt
           /\ l.att[1] = "VALIDATION" /\ validated => validated'
    BY <1>2, <2>1 DEF Current
  <2>4. /\ \A a \in Attempts : invoked'[a] >= invoked[a]
        /\ invoked \in [Attempts -> Nat] /\ invoked' \in [Attempts -> Nat]
    BY <1>0 DEF Types
  <2>5. /\ invoked'[l.att] = invoked[l.att]
        /\ l.pc = "record" /\ l.out.status = "COMPLETED" => Owning(l)
    BY <1>0, OutcomeValues DEF Owning
  <2> QED BY <1>0, <1>1, <2>2, <2>3, <2>4, <2>5, SoundKept
<1>3. JournalInv' /\ CountInv'
  BY <1>0, JournalKept, CountKept
<1> QED BY <1>1, <1>2, <1>3 DEF Inv

\* A step that launches nothing, ends no effect, and after which no two coordinators own an attempt.
LEMMA Moves ==
    ASSUME Inv, Types', Grows, UNCHANGED <<runVars, invoked, validated>>, measured \subseteq measured',
           NEW c \in Coordinators, NEW new \in Locals, co' = [co EXCEPT ![c] = new], new.pc # "invoke",
           Owning(new) /\ new.snap = Run => \A d \in Coordinators : Owning(co[d]) /\ Current(d) => d = c,
           \A a \in Metered : ledger'[a] # "none" => ledger[a] # "none",
           \/ worktree' = worktree
           \/ At(c, "invoke") /\ co[c].att = WorktreeAttempt /\ invoked[WorktreeAttempt] > 0,
           journal'[WorktreeAttempt].recon = "safe" => journal[WorktreeAttempt].recon = "safe" \/ Made,
           \A a \in Metered :
              \/ journal'[a].outcome = journal[a].outcome
              \/ /\ a[1] = "VALIDATION" /\ journal'[a].outcome.status = "COMPLETED" => validated
                 /\ a[1] = "REVIEW" /\ journal'[a].outcome.gate = "APPROVABLE" => ~UnresolvedEffects,
           \A d \in Coordinators : d # c /\ Owning(co[d]) /\ Current(d) =>
              \/ journal'[co[d].att].outcome = journal[co[d].att].outcome
              \/ journal'[co[d].att].outcome = Refusal /\ co[d].att # WorktreeAttempt,
           SoundOf(c)'
    PROVE  Inv'
<1>1. Types /\ JournalInv /\ VerdictInv /\ UNCHANGED runVars /\ UNCHANGED invoked /\ UNCHANGED validated
  BY DEF Inv
<1>2. VerdictInv'
  BY <1>1, VerdictKept
<1>3. \A d \in Coordinators : d # c /\ Owning(co[d]) /\ Current(d) =>
         /\ \/ journal'[co[d].att].outcome = journal[co[d].att].outcome
            \/ journal'[co[d].att].outcome = Refusal /\ co[d].att # WorktreeAttempt
         /\ co[d].att[1] = "VALIDATION" /\ validated => validated'
  BY <1>1
<1>4. UNCHANGED <<runVars, invoked>>
  BY <1>1
<1> QED BY <1>2, <1>3, <1>4, Transfers

\* A step that writes nothing but the ledger, and after which c owns no attempt.
LEMMA Quiet ==
    ASSUME Inv, UNCHANGED <<runVars, journal, measured, ghosts>>,
           NEW c \in Coordinators, NEW new \in Locals, co' = [co EXCEPT ![c] = new], ~Owning(new), Sound(new),
           ledger' \in [Metered -> {"none", "ACTIVE", "SETTLED", "UNRESOLVED"}],
           \A a \in Metered : ledger'[a] # "none" => ledger[a] # "none",
           overage' \in BOOLEAN, clock' = clock, crashes' \in 0 .. MaxCrashes,
           worktree' \in {"absent", "active", "broken"},
           \/ worktree' = worktree
           \/ At(c, "invoke") /\ co[c].att = WorktreeAttempt /\ invoked[WorktreeAttempt] > 0
    PROVE  Inv'
<1>0. /\ Types /\ JournalInv /\ EffectInv
      /\ UNCHANGED runVars /\ UNCHANGED journal /\ UNCHANGED measured /\ UNCHANGED invoked /\ UNCHANGED validated
  BY DEF Inv, ghosts
<1>1. Grows
  BY <1>0 DEF Grows
<1>2. Types'
  <2>1. co' \in [Coordinators -> Locals]
    BY <1>0 DEF Types
  <2>2. Run' = Run /\ ceiling' = ceiling
    BY <1>0 DEF Run, runVars
  <2> QED BY <1>0, <2>1, <2>2 DEF Types
<1>a. new.pc # "invoke"
  BY DEF Owning
<1>3. Made => Made'
  BY <1>0, <1>1, <1>2, <1>a, EffectKept
<1>4. SoundOf(c)'
  <2>1. co'[c] = new
    BY <1>0 DEF Types
  <2>2. /\ \A a \in Attempts : invoked'[a] >= invoked[a]
        /\ invoked \in [Attempts -> Nat] /\ invoked' \in [Attempts -> Nat]
    BY <1>0 DEF Types
  <2> QED BY <1>0, <1>1, <1>3, <2>1, <2>2, SoundKept
<1> QED BY <1>0, <1>1, <1>2, <1>a, <1>4, Moves

-----------------------------------------------------------------------------
(* What coordinators go to.                                                 *)

Silent == UNCHANGED <<runVars, journal, ledger, overage, measured, worktree, clock, crashes, ghosts>>

\* A step that only reads.
LEMMA Reads ==
    ASSUME Inv, Silent, NEW c \in Coordinators, NEW new, new \in Locals, Goto(c, new), ~Owning(new), Sound(new)
    PROVE  Inv'
<1>1. /\ UNCHANGED <<runVars, journal, measured, ghosts>> /\ co' = [co EXCEPT ![c] = new]
      /\ UNCHANGED ledger /\ UNCHANGED overage /\ UNCHANGED clock /\ UNCHANGED crashes /\ UNCHANGED worktree
  BY DEF Silent, Goto
<1>2. /\ ledger \in [Metered -> {"none", "ACTIVE", "SETTLED", "UNRESOLVED"}]
      /\ overage \in BOOLEAN /\ crashes \in 0 .. MaxCrashes /\ worktree \in {"absent", "active", "broken"}
  BY DEF Inv, Types
<1> QED BY <1>1, <1>2, Quiet

LEMMA SoundResting ==
    ASSUME Types, JournalInv, NEW l \in Locals, l.pc \in {"idle", "loop", "enter", "sweep_list", "sweep"},
           l.snap.revision <= revision, l.snap.revision = revision => l.snap = Run,
           \A a \in l.known : Evidence(a)
    PROVE  Sound(l) /\ ~Owning(l)
<1>1. ~Owning(l) /\ l.pc \notin Attempting \cup Selecting \cup {"reconcile", "commit"}
  BY DEF Owning, Attempting, Selecting
<1>2. SoundEver(l)
  BY <1>1 DEF SoundEver, Attempting, Selecting
<1>3. SoundNow(l)
  BY <1>1 DEF SoundNow, Attempting
<1> QED BY <1>1, <1>2, <1>3 DEF Sound

LEMMA SoundIdle ==
    ASSUME Types, JournalInv, NEW l, l = Idle \/ l = [Idle EXCEPT !.pc = "loop"]
    PROVE  l \in Locals /\ Sound(l) /\ ~Owning(l)
<1>1. l \in Locals /\ l.pc \in {"idle", "loop"} /\ l.snap = FirstRun /\ l.known = {}
  BY IdleFields DEF Locals, PCs
<1>2. FirstRun.revision = 0 /\ revision \in Nat
  BY IdleFields, RunFields DEF Types, Snapshots
<1>3. revision = 0 => Run = FirstRun
  BY DEF JournalInv
<1> QED BY <1>1, <1>2, <1>3, SoundResting

LEMMA SoundCommitting ==
    ASSUME Types, NEW l \in Locals, l.pc = "commit", l.known = {},
           l.snap.revision <= revision, l.snap.revision = revision => l.snap = Run,
           l.snap = Run => l.goal.destination \in Refusing \/ Grounds(l.goal)
    PROVE  Sound(l) /\ ~Owning(l)
<1>1. ~Owning(l) /\ l.pc \notin Attempting \cup Selecting \cup {"reconcile"}
  BY DEF Owning, Attempting, Selecting
<1>2. SoundEver(l)
  BY <1>1 DEF SoundEver, Attempting, Selecting
<1>3. l.snap = Run => SoundNow(l)
  BY <1>1 DEF SoundNow, Attempting
<1> QED BY <1>1, <1>2, <1>3 DEF Sound

\* Ending a run is always possible.
LEMMA SoundTerminating ==
    ASSUME Types, NEW snap \in Snapshots, snap.revision <= revision, snap.revision = revision => snap = Run,
           NEW destination \in Refusing, NEW increment \in AttemptCounterKinds \cup {NoIncrement},
           NEW l, l = Terminating(snap, destination, increment)
    PROVE  l \in Locals /\ Sound(l) /\ ~Owning(l)
<1>1. destination \in RunStates
  BY DEF Refusing, RunStates, TerminalStates
<1>2. /\ l \in Locals /\ l.pc = "commit" /\ l.snap = snap /\ l.known = {}
      /\ l.goal.destination = destination
  BY <1>1, CommittingFields DEF Terminating
<1> QED BY <1>2, SoundCommitting

\* Going on to another phase needs grounds.
LEMMA SoundAdvancing ==
    ASSUME Types, NEW snap \in Snapshots, snap.revision <= revision, snap.revision = revision => snap = Run,
           NEW destination \in RunStates, NEW increment \in AttemptCounterKinds \cup {NoIncrement},
           NEW then \in {"loop", "enter"}, NEW l, l = Committing(snap, destination, increment, then),
           snap = Run => Grounds([destination |-> destination, increment |-> increment, then |-> then])
    PROVE  l \in Locals /\ Sound(l) /\ ~Owning(l)
<1>1. /\ l \in Locals /\ l.pc = "commit" /\ l.snap = snap /\ l.known = {}
  BY CommittingFields
<1>2. l.goal = [destination |-> destination, increment |-> increment, then |-> then]
  BY IdleFields DEF Committing, Locals
<1> QED BY <1>1, <1>2, SoundCommitting

LEMMA RunNow == ASSUME Types PROVE Run \in Snapshots /\ Run.revision <= revision /\ revision \in Nat
BY RunFields DEF Types, Snapshots

\* How a phase acts on a recorded outcome.
LEMMA SoundAfter ==
    ASSUME Types, JournalInv, NEW snap \in Snapshots, snap.revision <= revision,
           snap.revision = revision => snap = Run,
           NEW a \in Metered, HasOutcome(a), snap = Run => journal[a].intent = revision,
           a[1] = "VALIDATION" => Evidence(a),
           NEW l, l = After(snap, a[1], journal[a].outcome)
    PROVE  l \in Locals /\ Sound(l) /\ ~Owning(l)
<1>0. PICK o : o = journal[a].outcome
  OBVIOUS
<1>1. /\ a \in Attempts /\ a[1] \in MeteredSteps
      /\ o.evidence \/ o = Refusal
  BY <1>0, KnownAttempts DEF JournalInv, Evidence
<1>2. ASSUME NEW destination \in RunStates, l = Advancing(snap, destination, Counter(a[1])), o.evidence,
             destination = "REVIEWING" => o.status = "COMPLETED",
             destination = "APPROVED" => o.gate = "APPROVABLE"
      PROVE  l \in Locals /\ Sound(l) /\ ~Owning(l)
  <2>1. Counter(a[1]) \in AttemptCounterKinds \cup {NoIncrement}
    BY <1>1 DEF Counter, AttemptCounterKinds, MeteredSteps
  <2>2. PICK goal : goal = [destination |-> destination, increment |-> Counter(a[1]), then |-> "loop"]
    OBVIOUS
  <2>3. snap = Run => Grounds(goal)
    BY <1>0, <1>2, <2>2 DEF Grounds, Evidence
  <2> QED BY <1>2, <2>1, <2>2, <2>3, SoundAdvancing DEF Advancing
<1>3. ASSUME NEW destination \in Refusing, NEW increment \in AttemptCounterKinds \cup {NoIncrement},
             l = Terminating(snap, destination, increment)
      PROVE  l \in Locals /\ Sound(l) /\ ~Owning(l)
  BY <1>3, SoundTerminating
<1>4. CASE a[1] \in {"BUILD", "REPAIR"}
  <2>1. l = AfterAgent(snap, a[1], o) /\ CounterOf(a[1]) = Counter(a[1])
        /\ Counter(a[1]) \in AttemptCounterKinds
    BY <1>0, <1>4 DEF After, CounterOf, Counter, AttemptCounterKinds
  <2>2. \/ o.evidence /\ l = Advancing(snap, "VALIDATING", Counter(a[1]))
        \/ \E destination \in Refusing : l = Terminating(snap, destination, Counter(a[1]))
    <3>1. Refusal.status = "BLOCKED"
      BY OutcomeValues
    <3> QED BY <1>1, <2>1, <3>1 DEF AfterAgent, Refusing
  <2>3. "VALIDATING" \in RunStates
    BY DEF RunStates
  <2> QED BY <1>2, <1>3, <2>1, <2>2, <2>3
<1>5. CASE a[1] = "VALIDATION"
  <2>1. l = AfterValidation(snap, o) /\ Counter(a[1]) = NoIncrement /\ o.evidence
    BY <1>0, <1>5 DEF After, Counter, Evidence
  <2>2. \/ o.status = "COMPLETED" /\ l = Advancing(snap, "REVIEWING", Counter(a[1]))
        \/ l = Advancing(snap, "REPAIRING", Counter(a[1]))
        \/ \E destination \in Refusing : l = Terminating(snap, destination, NoIncrement)
    BY <2>1 DEF AfterValidation, Refusing
  <2>3. {"REVIEWING", "REPAIRING"} \subseteq RunStates
    BY DEF RunStates
  <2> QED BY <1>2, <1>3, <2>1, <2>2, <2>3
<1>6. CASE a[1] = "REVIEW"
  <2>1. l = AfterReview(snap, o) /\ Counter(a[1]) = "review"
    BY <1>0, <1>6 DEF After, Counter
  <2>2. CASE o = Refusal
    <3>1. l = Terminating(snap, "BLOCKED", NoIncrement)
      BY <2>1, <2>2, OutcomeValues DEF AfterReview
    <3> QED BY <1>3, <3>1 DEF Refusing
  <2>3. CASE o.evidence
    <3>1. \/ o.gate = "APPROVABLE" /\ l = Advancing(snap, "APPROVED", Counter(a[1]))
          \/ l = Advancing(snap, "REPAIRING", Counter(a[1]))
          \/ \E destination \in Refusing, increment \in AttemptCounterKinds \cup {NoIncrement} :
                l = Terminating(snap, destination, increment)
      BY <2>1 DEF AfterReview, Refusing, AttemptCounterKinds
    <3>2. {"APPROVED", "REPAIRING"} \subseteq RunStates
      BY DEF RunStates, TerminalStates
    <3> QED BY <1>2, <1>3, <2>3, <3>1, <3>2
  <2> QED BY <1>1, <2>2, <2>3
<1> QED BY <1>1, <1>4, <1>5, <1>6 DEF MeteredSteps

-----------------------------------------------------------------------------
(* The number of an attempt.                                                *)

\* The attempts of a step that were begun are the first ones.
LEMMA Contiguous ==
    ASSUME Types, JournalInv, NEW step \in Steps \ {"CONTEXT"}
    PROVE  \E n \in 0 .. StepLimit(step) : Sequences(step) = 1 .. n
<1>0. StepLimit(step) \in Nat
  BY Limits
<1>1. PICK T : T = {k \in Nat : k + 1 \notin Sequences(step)}
  OBVIOUS
<1>2. StepLimit(step) \in T /\ T \subseteq Nat
  BY <1>0, <1>1 DEF Sequences
<1>3. PICK n \in T : \A k \in T : n <= k
  BY <1>2, LeastNatural
<1>4. n \in 0 .. StepLimit(step) /\ n + 1 \notin Sequences(step)
  BY <1>0, <1>1, <1>2, <1>3
<1>5. ASSUME NEW s \in 1 .. n PROVE s \in Sequences(step)
  <2>1. s - 1 \in Nat /\ s - 1 < n
    BY <1>4, <1>5
  <2>2. s - 1 \notin T
    BY <1>3, <1>4, <2>1
  <2> QED BY <1>1, <2>1, <2>2
<1>6. ASSUME NEW s \in Sequences(step) PROVE s \in 1 .. n
  <2>1. s \in 1 .. StepLimit(step) /\ HasIntent(<<step, s>>)
    BY DEF Sequences
  <2>2. SUFFICES ASSUME s > n + 1 PROVE FALSE
    BY <1>0, <1>4, <1>6, <2>1
  <2>3. n + 1 \in 1 .. StepLimit(step)
    BY <1>0, <1>4, <2>1, <2>2
  <2>4. PICK a, b : a = <<step, n + 1>> /\ b = <<step, s>>
    OBVIOUS
  <2>5. /\ a \in Attempts /\ b \in Attempts /\ a[1] = b[1] /\ a[1] # "CONTEXT" /\ a[2] < b[2]
        /\ HasIntent(b)
    BY <2>1, <2>2, <2>3, <2>4, AttemptPairs
  <2>6. HasIntent(a)
    BY <2>5 DEF JournalInv
  <2> QED BY <1>4, <2>3, <2>4, <2>6 DEF Sequences
<1> QED BY <1>4, <1>5, <1>6

\* At one revision one attempt of a step is begun at most.
LEMMA OneNow ==
    ASSUME Types, JournalInv, NEW a \in Attempts, NEW b \in Attempts, a[1] = b[1], a[1] # "CONTEXT",
           journal[a].intent = revision, journal[b].intent = revision
    PROVE  a = b
<1>1. HasIntent(a) /\ HasIntent(b)
  BY RunNow DEF HasIntent, NoIntent
<1>2. a[2] \in Nat /\ b[2] \in Nat /\ a = <<a[1], a[2]>> /\ b = <<b[1], b[2]>>
  BY AttemptPairs, Limits
<1>3. ~(a[2] < b[2]) /\ ~(b[2] < a[2])
  BY <1>1, RunNow DEF JournalInv
<1> QED BY <1>2, <1>3

\* _next_attempt_sequence: an outcome found under it is of this revision, and an attempt it
\* begins is the one after those of earlier revisions.
LEMMA NextAttempt ==
    ASSUME Types, JournalInv, NEW step \in Steps \ {"CONTEXT"},
           NEW s, s = NextSequence(step), NEW a, a = <<step, s>>
    PROVE  /\ s \in Nat
           /\ s <= StepLimit(step) =>
                 /\ a \in Attempts /\ a[1] = step /\ a[2] = s
                 /\ HasOutcome(a) => journal[a].intent = revision
                 /\ ~HasIntent(a) => Begun(step, s - 1)
<1>0. /\ StepLimit(step) \in Nat /\ revision \in Nat
      /\ Sequences(step) = {t \in 1 .. StepLimit(step) : HasIntent(<<step, t>>)}
  BY Limits, RunNow DEF Sequences
<1>1. PICK current, pending :
         /\ current = {t \in Sequences(step) : journal[<<step, t>>].intent = revision}
         /\ pending = {t \in Sequences(step) : ~HasOutcome(<<step, t>>)}
  OBVIOUS
<1>2. s = IF current # {} THEN Max(current)
          ELSE IF pending # {} THEN Min(pending) ELSE 1 + Cardinality(Sequences(step))
  BY <1>1 DEF NextSequence
<1>3. ASSUME NEW t \in Sequences(step), s = t
      PROVE  s \in Nat /\ a \in Attempts /\ a[1] = step /\ a[2] = s /\ HasIntent(a)
  BY <1>0, <1>3, AttemptPairs
<1>4. CASE current # {}
  <2>1. PICK t \in current : TRUE
    BY <1>4
  <2>2. \A u \in current : u = t
    <3> TAKE u \in current
    <3>1. PICK x, y : x = <<step, t>> /\ y = <<step, u>>
      OBVIOUS
    <3>2. x \in Attempts /\ y \in Attempts /\ journal[x].intent = revision /\ journal[y].intent = revision
      BY <1>0, <1>1, <2>1, <3>1, AttemptPairs
    <3>3. x = y
      BY <3>1, <3>2, OneNow
    <3> QED BY <3>1, <3>3
  <2>3. t \in Int /\ t \in Sequences(step)
    BY <1>0, <1>1
  <2>4. current = {t}
    BY <2>2
  <2>5. Max(current) = t
    BY <2>3, <2>4 DEF Max
  <2> QED BY <1>1, <1>2, <1>3, <1>4, <2>3, <2>5
<1>5. CASE current = {} /\ pending # {}
  <2>1. pending \subseteq Nat
    BY <1>0, <1>1
  <2>2. \E t \in pending : \A u \in pending : t <= u
    BY <1>5, <2>1, LeastNatural
  <2>3. Min(pending) \in pending
    BY <2>2, Zenon DEF Min
  <2> QED BY <1>1, <1>2, <1>3, <1>5, <2>3
<1>6. CASE current = {} /\ pending = {}
  <2>1. PICK n \in 0 .. StepLimit(step) : Sequences(step) = 1 .. n
    BY Contiguous
  <2>2. Cardinality(1 .. n) = n
    BY <1>0, <2>1, FS_Interval
  <2>3. s = n + 1
    <3>1. s = 1 + Cardinality(Sequences(step))
      BY ONLY <1>2, <1>6
    <3>2. n \in Nat
      BY <1>0
    <3> QED BY ONLY <2>1, <2>2, <3>1, <3>2
  <2> SUFFICES ASSUME s <= StepLimit(step)
               PROVE  /\ a \in Attempts /\ a[1] = step /\ a[2] = s
                      /\ HasOutcome(a) => journal[a].intent = revision
                      /\ ~HasIntent(a) => Begun(step, s - 1)
    BY <1>0, <2>1, <2>3
  <2>4. s \in 1 .. StepLimit(step) /\ s \notin Sequences(step)
    BY <1>0, <2>1, <2>3
  <2>5. a \in Attempts /\ a[1] = step /\ a[2] = s /\ ~HasIntent(a)
    BY <1>0, <2>4, AttemptPairs
  <2>6. ~HasOutcome(a)
    BY <2>5 DEF JournalInv
  <2>7. Begun(step, n)
    <3>1. SUFFICES ASSUME NEW t \in 1 .. StepLimit(step)
                   PROVE  journal[<<step, t>>].intent \in 0 .. revision - 1 <=> t <= n
      BY DEF Begun
    <3>2. PICK x : x = <<step, t>>
      OBVIOUS
    <3>3. x \in Attempts
      BY <3>2, AttemptPairs
    <3>4. journal[x].intent \in Nat \cup {NoIntent} /\ journal[x].intent <= revision
      BY <3>3 DEF Types, JournalInv
    <3>5. HasIntent(x) <=> t <= n
      BY <1>0, <2>1, <3>2
    <3>6. HasIntent(x) => journal[x].intent # revision
      BY <1>0, <1>1, <1>6, <3>2
    <3> QED BY <1>0, <3>2, <3>4, <3>5, <3>6 DEF HasIntent, NoIntent
  <2> QED BY <1>0, <2>1, <2>3, <2>5, <2>6, <2>7
<1> QED BY <1>4, <1>5, <1>6

-----------------------------------------------------------------------------
(* Steps that only read.                                                    *)

\* A coordinator that found its attempt not begun.
LEMMA SoundWorking ==
    ASSUME Types, JournalInv, NEW a \in Attempts, a[1] # "CONTEXT", state = Phase(a[1]), Begun(a[1], a[2] - 1),
           NEW l, \/ l = Working("intend", Run, a)
                  \/ l = [Working("refuse", Run, a) EXCEPT !.out = Refusal] /\ a[1] \in {"BUILD", "REPAIR"}
    PROVE  l \in Locals /\ Sound(l) /\ ~Owning(l)
<1>1. Run \in Snapshots /\ Run.revision <= revision /\ Run.state = state
  BY RunNow, RunFields
<1>2. {"intend", "refuse"} \subseteq PCs
  BY DEF PCs
<1>3. PICK w : w = Working("refuse", Run, a)
  OBVIOUS
<1>4. /\ w \in Locals /\ w.pc = "refuse" /\ w.snap = Run /\ w.att = a /\ w.known = {}
  BY <1>1, <1>2, <1>3, WorkingFields
<1>5. /\ l \in Locals /\ l.snap = Run /\ l.att = a /\ l.known = {}
      /\ \/ l.pc = "intend" 
         \/ l.pc = "refuse" /\ l.out = Refusal /\ a[1] \in {"BUILD", "REPAIR"}
  <2>1. CASE l = Working("intend", Run, a)
    BY <1>1, <1>2, <2>1, WorkingFields
  <2>2. CASE l = [w EXCEPT !.out = Refusal] /\ a[1] \in {"BUILD", "REPAIR"}
    BY <1>4, <2>2, OutcomeValues DEF Locals
  <2> QED BY <1>3, <2>1, <2>2
<1>6. SoundEver(l)
  BY <1>1, <1>5 DEF SoundEver, Attempting, Selecting
<1>7. SoundNow(l) /\ ~Owning(l)
  BY <1>5 DEF SoundNow, Owning, Attempting
<1> QED BY <1>5, <1>6, <1>7 DEF Sound

LEMMA Continues ==
    ASSUME Inv, Silent, NEW c \in Coordinators, NEW a \in Attempts, a[1] # "CONTEXT", state = Phase(a[1]),
           ~HasIntent(a) => Begun(a[1], a[2] - 1), NEW consumed, Continue(c, a, consumed),
           HasOutcome(a) => consumed \in Locals /\ Sound(consumed) /\ ~Owning(consumed)
    PROVE  Inv'
<1>0. Types /\ JournalInv
  BY DEF Inv
<1>1. CASE HasOutcome(a) /\ Goto(c, consumed)
  BY <1>1, Reads
<1>2. CASE Stop(c)
  BY <1>0, <1>2, SoundIdle, Reads DEF Stop
<1>3. CASE ~HasIntent(a) /\ Goto(c, Working("intend", Run, a))
  BY <1>0, <1>3, SoundWorking, Reads
<1> QED BY <1>1, <1>2, <1>3 DEF Continue

\* Giving up on the run as it was read.
LEMMA Ends ==
    ASSUME Inv, Silent, NEW c \in Coordinators, NEW destination \in Refusing,
           Goto(c, Terminating(Run, destination, NoIncrement))
    PROVE  Inv'
BY SoundTerminating, RunNow, Reads DEF Inv

LEMMA Rests ==
    ASSUME Inv, Silent, NEW c \in Coordinators, Stop(c) \/ Goto(c, [Idle EXCEPT !.pc = "loop"])
    PROVE  Inv'
BY SoundIdle, Reads DEF Inv, Stop

LEMMA SoundEntering ==
    ASSUME Inv PROVE Entering \in Locals /\ Sound(Entering) /\ ~Owning(Entering)
<1>0. Types /\ JournalInv /\ Run \in Snapshots /\ Run.revision <= revision
  BY RunNow DEF Inv
<1>1. PICK known : known = {a \in Metered : HasOutcome(a) /\ journal[a].outcome.evidence}
  OBVIOUS
<1>2. PICK l : l = [Idle EXCEPT !.pc = "sweep_list", !.snap = Run, !.known = known]
  OBVIOUS
<1>3. l \in Locals /\ l.pc = "sweep_list" /\ l.snap = Run /\ l.known = known
  BY <1>0, <1>1, <1>2, IdleFields DEF Locals, PCs
<1>4. \A a \in known : Evidence(a)
  BY <1>1 DEF Evidence
<1> QED BY <1>0, <1>1, <1>2, <1>3, <1>4, SoundResting DEF Entering

LEMMA Execute == ASSUME Inv, NEW c \in Coordinators, execute(c) PROVE Inv'
BY SoundEntering, Reads DEF execute, Silent

LEMMA Enter == ASSUME Inv, NEW c \in Coordinators, enter(c) PROVE Inv'
<1>1. Silent /\ (Goto(c, Entering) \/ Stop(c))
  BY DEF enter, Silent
<1> QED BY <1>1, SoundEntering, Reads, Rests

LEMMA Cancel == ASSUME Inv, NEW c \in Coordinators, cancel(c) PROVE Inv'
BY Ends DEF cancel, Silent, Refusing

LEMMA LeaveLoop == ASSUME Inv, NEW c \in Coordinators, leave_loop(c) PROVE Inv'
<1>1. Silent
  BY DEF leave_loop, Silent
<1>2. Stop(c) \/ \E destination \in Refusing : Goto(c, Terminating(Run, destination, NoIncrement))
  BY DEF leave_loop, Refusing
<1> QED BY <1>1, <1>2, Ends, Rests

LEMMA Admit == ASSUME Inv, NEW c \in Coordinators, admit(c) PROVE Inv'
<1>1. Silent
  BY DEF admit, Silent
<1>2. CASE Stop(c) \/ Goto(c, [Idle EXCEPT !.pc = "loop"])
  BY <1>1, <1>2, Rests
<1>3. CASE Goto(c, Terminating(co[c].snap, "BLOCKED", NoIncrement))
  <2>1. PICK snap : snap = co[c].snap
    OBVIOUS
  <2>2. Types /\ snap \in Snapshots /\ snap.revision <= revision /\ (snap.revision = revision => snap = Run)
    BY <2>1 DEF Inv, Types, Locals, SoundOf, Sound, SoundEver
  <2>3. "BLOCKED" \in Refusing
    BY DEF Refusing
  <2> QED BY <1>1, <1>3, <2>1, <2>2, <2>3, SoundTerminating, Reads
<1> QED BY <1>2, <1>3 DEF admit

LEMMA SweepList == ASSUME Inv, NEW c \in Coordinators, sweep_list(c) PROVE Inv'
<1>1. PICK l, new, todo : /\ l = co[c] /\ todo = {a \in Metered : ledger[a] = "ACTIVE"}
                          /\ new = [l EXCEPT !.pc = "sweep", !.todo = todo]
  OBVIOUS
<1>2. Silent /\ Goto(c, new)
  BY <1>1 DEF sweep_list, Silent
<1>3. l \in Locals /\ Sound(l) /\ Types /\ JournalInv
  BY <1>1 DEF Inv, Types, SoundOf
<1>4. new \in Locals /\ new.pc = "sweep" /\ new.snap = l.snap /\ new.known = l.known
  BY <1>1, <1>3 DEF Locals, PCs
<1>5. Sound(new) /\ ~Owning(new)
  BY <1>3, <1>4, SoundResting DEF Sound, SoundEver
<1> QED BY <1>2, <1>4, <1>5, Reads

LEMMA Resume == ASSUME Inv, NEW c \in Coordinators, resume(c) PROVE Inv'
<1>0. /\ Types /\ JournalInv /\ EffectInv /\ Silent
      /\ Run \in Snapshots /\ Run.revision <= revision /\ Run.state = state
  BY RunNow, RunFields DEF Inv, resume, Silent
<1>1. ASSUME Goto(c, [Idle EXCEPT !.pc = "enter", !.snap = Run]) PROVE Inv'
  <2>1. PICK l : l = [Idle EXCEPT !.pc = "enter", !.snap = Run]
    OBVIOUS
  <2>2. l \in Locals /\ l.pc = "enter" /\ l.snap = Run /\ l.known = {}
    BY <1>0, <2>1, IdleFields DEF Locals, PCs
  <2>3. Sound(l) /\ ~Owning(l)
    BY <1>0, <2>2, SoundResting
  <2> QED BY <1>0, <1>1, <2>1, <2>2, <2>3, Reads
<1>2. ASSUME Goto(c, Terminating(Run, "BLOCKED", NoIncrement)) PROVE Inv'
  BY <1>0, <1>2, Ends DEF Refusing
<1>3. ASSUME NEW a \in Pending, journal[a].intent = revision, NEW safe \in SafeToContinue(a),
             Goto(c, [Working("reconcile", Run, a) EXCEPT !.goal.then = IF safe THEN "enter" ELSE "idle"])
      PROVE  Inv'
  <2>1. a \in Attempts /\ state = Phase(a[1])
    BY <1>0, <1>3 DEF Pending, JournalInv
  <2>2. PICK w, then : w = Working("reconcile", Run, a) /\ then = IF safe THEN "enter" ELSE "idle"
    OBVIOUS
  <2>3. PICK l : l = [w EXCEPT !.goal.then = then]
    OBVIOUS
  <2>4. w \in Locals /\ w.pc = "reconcile" /\ w.snap = Run /\ w.att = a /\ w.known = {}
    <3>1. "reconcile" \in PCs
      BY DEF PCs
    <3> QED BY <1>0, <2>1, <2>2, <3>1, WorkingFields
  <2>5. then \in {"idle", "enter"}
    BY <2>2
  <2>6. /\ l \in Locals /\ l.pc = "reconcile" /\ l.snap = Run /\ l.att = a /\ l.known = {}
        /\ l.goal.then = then
    BY <2>3, <2>4, <2>5 DEF Locals, Goals
  <2>7. then = "enter" => a = WorktreeAttempt /\ Made
    <3>1. then = "enter" => a[1] = "WORKSPACE" /\ WorktreeVerified
      BY <1>3, <2>2 DEF SafeToContinue
    <3> QED BY <1>0, <2>1, <3>1, KnownAttempts DEF WorktreeVerified, EffectInv
  <2>8. SoundEver(l)
    BY <1>0, <2>1, <2>6, <2>7 DEF SoundEver, Attempting, Selecting
  <2>9. SoundNow(l) /\ ~Owning(l)
    BY <2>6 DEF SoundNow, Owning, Attempting
  <2> QED BY <1>0, <1>3, <2>2, <2>3, <2>6, <2>8, <2>9, Reads DEF Sound
<1> QED BY <1>1, <1>2, <1>3 DEF resume

LEMMA StartPlanning == ASSUME Inv, NEW c \in Coordinators, start_planning(c) PROVE Inv'
<1>0. /\ Types /\ JournalInv /\ Silent
      /\ Run \in Snapshots /\ Run.revision <= revision /\ Run.state = state
  BY RunNow, RunFields DEF Inv, start_planning, Silent
<1>1. ASSUME NEW destination \in RunStates, state \in {"CREATED", "PLANNING"},
             Goto(c, Advancing(Run, destination, NoIncrement))
      PROVE  Inv'
  <2>1. PICK goal : goal = [destination |-> destination, increment |-> NoIncrement, then |-> "loop"]
    OBVIOUS
  <2>2. Grounds(goal)
    BY <1>1, <2>1 DEF Grounds
  <2>3. PICK l : l = Committing(Run, destination, NoIncrement, "loop")
    OBVIOUS
  <2>4. l \in Locals /\ Sound(l) /\ ~Owning(l)
    BY <1>0, <2>1, <2>2, <2>3, SoundAdvancing
  <2> QED BY <1>0, <1>1, <2>3, <2>4, Reads DEF Advancing
<1>2. ASSUME state = "CONTEXT_PREPARING", Goto(c, Working("context", Run, <<"CONTEXT", 1>>)) PROVE Inv'
  <2>1. PICK a, l : a = <<"CONTEXT", 1>> /\ l = Working("context", Run, a)
    OBVIOUS
  <2>2. a \in Attempts /\ a[1] = "CONTEXT" /\ a[2] = 1 /\ 1 \in 1 .. ContextRoles + 1
    BY <2>1, KnownAttempts, OrchestrationAssumption
  <2>3. "context" \in PCs
    BY DEF PCs
  <2>4. l \in Locals /\ l.pc = "context" /\ l.snap = Run /\ l.att = a /\ l.known = {}
    BY <1>0, <2>1, <2>2, <2>3, WorkingFields
  <2>5. ContextUpTo(a[2])
    BY <2>2 DEF ContextUpTo
  <2>6. SoundEver(l)
    BY <1>0, <1>2, <2>2, <2>4, <2>5 DEF SoundEver, Attempting, Selecting
  <2>7. SoundNow(l) /\ ~Owning(l)
    BY <2>4 DEF SoundNow, Owning, Attempting
  <2> QED BY <1>0, <1>2, <2>1, <2>4, <2>6, <2>7, Reads DEF Sound
<1>3. {"PLANNING", "CONTEXT_PREPARING"} \subseteq RunStates
  BY DEF RunStates
<1> QED BY <1>1, <1>2, <1>3 DEF start_planning, Turn

\* Consumed outcomes.
LEMMA Consumes ==
    ASSUME Inv, NEW a \in Metered, HasOutcome(a), journal[a].intent = revision,
           NEW l, \/ l = After(Run, a[1], journal[a].outcome) /\ (a[1] = "VALIDATION" => Evidence(a))
                  \/ l = Idle
    PROVE  l \in Locals /\ Sound(l) /\ ~Owning(l)
BY SoundAfter, SoundIdle, RunNow DEF Inv

LEMMA BeginsAgent ==
    ASSUME Inv, Silent, NEW c \in Coordinators, NEW step \in {"BUILD", "REPAIR"}, state = Phase(step),
           NEW s, s = NextSequence(step), ~(s > StepLimit(step)), NEW a, a = <<step, s>>, BeginAgent(c, a)
    PROVE  Inv'
<1>0. Types /\ JournalInv /\ step \in Steps \ {"CONTEXT"} /\ step \in MeteredSteps
  BY DEF Inv, Steps, MeteredSteps
<1>1. /\ a \in Attempts /\ a[1] = step /\ a[2] = s
      /\ HasOutcome(a) => journal[a].intent = revision
      /\ ~HasIntent(a) => Begun(a[1], a[2] - 1)
  BY <1>0, NextAttempt, Limits
<1>2. a \in Metered
  BY <1>0, <1>1, KnownAttempts
<1>3. CASE Continue(c, a, After(Run, a[1], journal[a].outcome))
  <2>1. PICK l : l = After(Run, a[1], journal[a].outcome)
    OBVIOUS
  <2>2. HasOutcome(a) => l \in Locals /\ Sound(l) /\ ~Owning(l)
    BY <1>1, <1>2, <2>1, Consumes
  <2> QED BY <1>1, <1>3, <2>1, <2>2, Continues
<1>4. CASE ~HasIntent(a) /\ Goto(c, [Working("refuse", Run, a) EXCEPT !.out = Refusal])
  <2>1. PICK l : l = [Working("refuse", Run, a) EXCEPT !.out = Refusal]
    OBVIOUS
  <2>2. l \in Locals /\ Sound(l) /\ ~Owning(l)
    BY <1>0, <1>1, <1>4, <2>1, SoundWorking
  <2> QED BY <1>4, <2>1, <2>2, Reads
<1> QED BY <1>3, <1>4 DEF BeginAgent

LEMMA Build == ASSUME Inv, NEW c \in Coordinators, build(c) PROVE Inv'
<1>0. Silent /\ state = Phase("BUILD") /\ StepLimit("BUILD") = MaxBuildAttempts
  BY DEF build, Silent, Turn, Phase, StepLimit
<1>1. CASE \E destination \in Refusing : Goto(c, Terminating(Run, destination, NoIncrement))
  BY <1>0, <1>1, Ends
<1>2. CASE ~(NextSequence("BUILD") > MaxBuildAttempts) /\ BeginAgent(c, <<"BUILD", NextSequence("BUILD")>>)
  BY <1>0, <1>2, BeginsAgent
<1> QED BY <1>1, <1>2 DEF build, Unverified, Refusing

LEMMA Repair == ASSUME Inv, NEW c \in Coordinators, repair(c) PROVE Inv'
<1>0. Silent /\ state = Phase("REPAIR") /\ StepLimit("REPAIR") = MaxRepairAttempts
  BY DEF repair, Silent, Turn, Phase, StepLimit
<1>1. CASE \E destination \in Refusing : Goto(c, Terminating(Run, destination, NoIncrement))
  BY <1>0, <1>1, Ends
<1>2. CASE ~(NextSequence("REPAIR") > MaxRepairAttempts) /\ BeginAgent(c, <<"REPAIR", NextSequence("REPAIR")>>)
  BY <1>0, <1>2, BeginsAgent
<1> QED BY <1>1, <1>2 DEF repair, Unverified, Refusing

LEMMA Validate == ASSUME Inv, NEW c \in Coordinators, validate(c) PROVE Inv'
<1>0. /\ Types /\ JournalInv
      /\ Silent /\ state = Phase("VALIDATION") /\ StepLimit("VALIDATION") = ValidationPlans
      /\ "VALIDATION" \in Steps \ {"CONTEXT"} /\ "VALIDATION" \in MeteredSteps
  BY DEF Inv, validate, Silent, Turn, Phase, StepLimit, Steps, MeteredSteps
<1>1. CASE \E destination \in Refusing : Goto(c, Terminating(Run, destination, NoIncrement))
  BY <1>0, <1>1, Ends
<1>2. PICK s, a, consumed :
         /\ s = NextSequence("VALIDATION") /\ a = <<"VALIDATION", s>>
         /\ consumed = IF journal[a].outcome.evidence THEN AfterValidation(Run, journal[a].outcome) ELSE Idle
  OBVIOUS
<1>3. CASE s <= ValidationPlans /\ Continue(c, a, consumed)
  <2>1. /\ a \in Attempts /\ a[1] = "VALIDATION" /\ a[2] = s
        /\ HasOutcome(a) => journal[a].intent = revision
        /\ ~HasIntent(a) => Begun(a[1], a[2] - 1)
    BY <1>0, <1>2, <1>3, NextAttempt, Limits
  <2>2. a \in Metered
    BY <1>0, <2>1, KnownAttempts
  <2>3. consumed = Idle \/ (consumed = After(Run, a[1], journal[a].outcome) /\ Evidence(a))
    BY <1>2, <2>1 DEF After, Evidence
  <2>4. HasOutcome(a) => consumed \in Locals /\ Sound(consumed) /\ ~Owning(consumed)
    BY <2>1, <2>2, <2>3, Consumes
  <2> QED BY <1>0, <1>3, <2>1, <2>4, Continues
<1> QED BY <1>1, <1>2, <1>3 DEF validate, Unverified, Refusing

LEMMA Review == ASSUME Inv, NEW c \in Coordinators, review(c) PROVE Inv'
<1>0. /\ Types /\ JournalInv
      /\ Silent /\ state = Phase("REVIEW") /\ StepLimit("REVIEW") = MaxReviewAttempts
      /\ "REVIEW" \in Steps \ {"CONTEXT"} /\ "REVIEW" \in MeteredSteps
  BY DEF Inv, review, Silent, Turn, Phase, StepLimit, Steps, MeteredSteps
<1>1. CASE \E destination \in Refusing : Goto(c, Terminating(Run, destination, NoIncrement))
  BY <1>0, <1>1, Ends
<1>2. PICK s, a, consumed :
         /\ s = NextSequence("REVIEW") /\ a = <<"REVIEW", s>> /\ consumed = AfterReview(Run, journal[a].outcome)
  OBVIOUS
<1>3. CASE ~(s > MaxReviewAttempts) /\ Continue(c, a, consumed)
  <2>1. /\ a \in Attempts /\ a[1] = "REVIEW" /\ a[2] = s
        /\ HasOutcome(a) => journal[a].intent = revision
        /\ ~HasIntent(a) => Begun(a[1], a[2] - 1)
    BY <1>0, <1>2, <1>3, NextAttempt, Limits
  <2>2. a \in Metered
    BY <1>0, <2>1, KnownAttempts
  <2>3. consumed = After(Run, a[1], journal[a].outcome)
    BY <1>2, <2>1 DEF After
  <2>4. HasOutcome(a) => consumed \in Locals /\ Sound(consumed) /\ ~Owning(consumed)
    BY <2>1, <2>2, <2>3, Consumes
  <2> QED BY <1>0, <1>3, <2>1, <2>4, Continues
<1> QED BY <1>1, <1>2, <1>3 DEF review, Unverified, Refusing

LEMMA PrepareWorkspace == ASSUME Inv, NEW c \in Coordinators, prepare_workspace(c) PROVE Inv'
<1>0. Types /\ JournalInv /\ Silent /\ state = "WORKSPACE_PREPARING"
  BY DEF Inv, prepare_workspace, Silent, Turn
<1>1. CASE Unverified(c)
  BY <1>0, <1>1, Ends DEF Unverified, Refusing
<1>2. CASE Continue(c, WorktreeAttempt, Advancing(Run, "BUILDING", NoIncrement))
  <2>1. PICK a, l : a = WorktreeAttempt /\ l = Advancing(Run, "BUILDING", NoIncrement)
    OBVIOUS
  <2>2. a \in Attempts /\ a[1] = "WORKSPACE" /\ a[2] = 1
    BY <2>1, KnownAttempts DEF WorktreeAttempt
  <2>3. state = Phase(a[1])
    BY <1>0, <2>2 DEF Phase
  <2>4. ~HasIntent(a) => Begun(a[1], a[2] - 1)
    <3>1. StepLimit("WORKSPACE") = 1 /\ a = <<"WORKSPACE", 1>>
      BY <2>1 DEF StepLimit, WorktreeAttempt
    <3> QED BY <2>2, <3>1 DEF Begun, HasIntent, NoIntent
  <2>5. HasOutcome(a) => l \in Locals /\ Sound(l) /\ ~Owning(l)
    <3>1. PICK goal : goal = [destination |-> "BUILDING", increment |-> NoIncrement, then |-> "loop"]
      OBVIOUS
    <3>2. HasOutcome(a) => Grounds(goal)
      BY <1>0, <2>1, <3>1 DEF Grounds
    <3>3. "BUILDING" \in RunStates
      BY DEF RunStates
    <3> QED BY <1>0, <2>1, <3>1, <3>2, <3>3, SoundAdvancing, RunNow DEF Advancing
  <2> QED BY <1>0, <1>2, <2>1, <2>2, <2>3, <2>4, <2>5, Continues
<1> QED BY <1>1, <1>2 DEF prepare_workspace, WorktreeAttempt

LEMMA Dies == ASSUME Inv, NEW c \in Coordinators, Crash(c) PROVE Inv'
<1>1. /\ UNCHANGED <<runVars, journal, measured, ghosts>> /\ UNCHANGED <<ledger, overage, clock>>
      /\ crashes' = crashes + 1 /\ crashes < MaxCrashes /\ co' = [co EXCEPT ![c] = Idle]
  BY DEF Crash, Stop, Goto
<1>2. Types /\ JournalInv /\ Idle \in Locals /\ Sound(Idle) /\ ~Owning(Idle)
  BY SoundIdle DEF Inv
<1>3. /\ ledger' \in [Metered -> {"none", "ACTIVE", "SETTLED", "UNRESOLVED"}]
      /\ \A a \in Metered : ledger'[a] # "none" => ledger[a] # "none"
      /\ overage' \in BOOLEAN
  BY <1>1, <1>2 DEF Types
<1>4. crashes' \in 0 .. MaxCrashes
  BY <1>1, <1>2, OrchestrationAssumption DEF Types
<1>5. /\ worktree' \in {"absent", "active", "broken"}
      /\ \/ worktree' = worktree
         \/ At(c, "invoke") /\ co[c].att[1] = "WORKSPACE"
  BY <1>2 DEF Crash, Types
<1>6. At(c, "invoke") /\ co[c].att[1] = "WORKSPACE" =>
         co[c].att = WorktreeAttempt /\ invoked[WorktreeAttempt] > 0
  <2>1. SoundEver(co[c])
    BY DEF Inv, SoundOf, Sound
  <2> QED BY <2>1, KnownAttempts DEF SoundEver, At, Attempting
<1> QED BY <1>1, <1>2, <1>3, <1>4, <1>5, <1>6, Quiet

LEMMA Waits ==
    ASSUME Inv, UNCHANGED <<runVars, journal, ledger, overage, measured, worktree, co, crashes, invoked, validated>>,
           clock' \in {"ample", "short", "expired"}
    PROVE  Inv'
<1>0. /\ UNCHANGED <<runVars, journal, ledger, overage, measured, worktree, co, crashes, invoked, validated>>
      /\ Types /\ JournalInv /\ CountInv /\ EffectInv /\ VerdictInv
      /\ \A c \in Coordinators : SoundOf(c) /\ co'[c] = co[c] /\ co[c] \in Locals
  BY DEF Inv, Types
<1>1. Run' = Run /\ UNCHANGED <<state, attempts, revision, ceiling>> /\ Grows
  BY <1>0 DEF Run, runVars, Grows
<1>2. Types'
  BY <1>0, <1>1 DEF Types
<1>3. JournalInv' /\ CountInv' /\ VerdictInv'
  BY <1>0, <1>1, <1>2, JournalKept, CountKept, VerdictKept
<1>4. Made <=> Made'
  BY <1>0 DEF Made, At
<1>5. EffectInv'
  BY <1>0, <1>1, <1>4, ZenonT(40) DEF EffectInv, HasIntent, Current, At, Owning, Metered, Attempts, StepLimit
<1>6. ASSUME NEW c \in Coordinators PROVE SoundOf(c)'
  <2>1. PICK l : l = co[c]
    OBVIOUS
  <2>2. /\ \A a \in Attempts : invoked'[a] >= invoked[a]
        /\ invoked \in [Attempts -> Nat] /\ invoked' \in [Attempts -> Nat]
    BY <1>0 DEF Types
  <2>3. l \in Locals /\ Sound(l) /\ co'[c] = l
    BY <1>0, <2>1 DEF SoundOf
  <2> QED BY <1>0, <1>1, <1>4, <2>2, <2>3, SoundKept
<1> QED BY <1>2, <1>3, <1>5, <1>6 DEF Inv

-----------------------------------------------------------------------------
(* Steps that write to the ledger.                                          *)

\* settle_reservation opens no reservation.
LEMMA Settles ==
    ASSUME Types, NEW a \in Metered, CanSettle(a), Settled(a)
    PROVE  /\ ledger' \in [Metered -> {"none", "ACTIVE", "SETTLED", "UNRESOLVED"}]
           /\ \A b \in Metered : ledger'[b] # "none" => ledger[b] # "none"
           /\ overage' \in BOOLEAN
<1>1. ledger' = [ledger EXCEPT ![a] = "SETTLED"] /\ ledger[a] # "none"
  BY DEF Settled, CanSettle
<1>2. overage' \in BOOLEAN
  BY DEF Settled
<1> QED BY <1>1, <1>2 DEF Types

LEMMA Sweep == ASSUME Inv, NEW c \in Coordinators, sweep(c) PROVE Inv'
<1>0. /\ Types /\ JournalInv /\ UNCHANGED <<runVars, journal, measured, ghosts>>
      /\ clock' = clock /\ crashes' = crashes /\ worktree' = worktree
      /\ crashes \in 0 .. MaxCrashes /\ worktree \in {"absent", "active", "broken"}
  BY DEF sweep, Inv, Types
<1>1. PICK l : l = co[c]
  OBVIOUS
<1>2. l \in Locals /\ Sound(l) /\ l.pc = "sweep"
  BY <1>0, <1>1 DEF Inv, Types, SoundOf, sweep, At
<1>3. ASSUME NEW new, new \in Locals, Sound(new), ~Owning(new), Goto(c, new),
             ledger' \in [Metered -> {"none", "ACTIVE", "SETTLED", "UNRESOLVED"}],
             \A b \in Metered : ledger'[b] # "none" => ledger[b] # "none",
             overage' \in BOOLEAN
      PROVE  Inv'
  BY <1>0, <1>3, Quiet DEF Goto
<1>4. PICK a \in l.todo :
         \/ a \in l.known /\ CanSettle(a) /\ Settled(a) /\ Goto(c, [l EXCEPT !.todo = @ \ {a}])
         \/ /\ ledger[a] = "ACTIVE" /\ ledger' = [ledger EXCEPT ![a] = "UNRESOLVED"]
            /\ Goto(c, [l EXCEPT !.todo = @ \ {a}]) /\ UNCHANGED overage
         \/ Stop(c) /\ UNCHANGED <<ledger, overage>>
  BY <1>1 DEF sweep
<1>5. PICK new : new = [l EXCEPT !.todo = @ \ {a}]
  OBVIOUS
<1>6. new \in Locals /\ Sound(new) /\ ~Owning(new) /\ a \in Metered
  <2>1. new \in Locals /\ new.pc = "sweep" /\ new.snap = l.snap /\ new.known = l.known
    BY <1>2, <1>5 DEF Locals
  <2> QED BY <1>0, <1>2, <2>1, SoundResting DEF Sound, SoundEver, Locals
<1>7. CASE CanSettle(a) /\ Settled(a) /\ Goto(c, new)
  BY <1>0, <1>3, <1>6, <1>7, Settles
<1>8. CASE ledger[a] = "ACTIVE" /\ ledger' = [ledger EXCEPT ![a] = "UNRESOLVED"] /\ Goto(c, new) /\ UNCHANGED overage
  <2>1. /\ ledger' \in [Metered -> {"none", "ACTIVE", "SETTLED", "UNRESOLVED"}]
        /\ \A b \in Metered : ledger'[b] # "none" => ledger[b] # "none"
    BY <1>0, <1>6, <1>8 DEF Types
  <2>2. overage' \in BOOLEAN
    BY <1>0, <1>8 DEF Types
  <2> QED BY <1>3, <1>6, <1>8, <2>1, <2>2
<1>9. CASE Stop(c) /\ UNCHANGED <<ledger, overage>>
  <2>1. /\ ledger' \in [Metered -> {"none", "ACTIVE", "SETTLED", "UNRESOLVED"}]
        /\ \A b \in Metered : ledger'[b] # "none" => ledger[b] # "none"
        /\ overage' \in BOOLEAN
    BY <1>0, <1>9 DEF Types
  <2> QED BY <1>0, <1>3, <1>9, <2>1, SoundIdle DEF Stop
<1> QED BY <1>4, <1>5, <1>7, <1>8, <1>9

LEMMA Settle == ASSUME Inv, NEW c \in Coordinators, settle(c) PROVE Inv'
<1>0. /\ Types /\ JournalInv /\ UNCHANGED <<runVars, journal, measured, ghosts>>
      /\ clock' = clock /\ crashes' = crashes /\ worktree' = worktree
      /\ crashes \in 0 .. MaxCrashes /\ worktree \in {"absent", "active", "broken"}
  BY DEF settle, Inv, Types
<1>1. PICK l, a : l = co[c] /\ a = l.att
  OBVIOUS
<1>2. l \in Locals /\ Sound(l) /\ l.pc = "settle"
  BY <1>0, <1>1 DEF Inv, Types, SoundOf, settle, At
<1>3. ASSUME NEW new, new \in Locals, Sound(new), ~Owning(new), Goto(c, new),
             ledger' \in [Metered -> {"none", "ACTIVE", "SETTLED", "UNRESOLVED"}],
             \A b \in Metered : ledger'[b] # "none" => ledger[b] # "none",
             overage' \in BOOLEAN
      PROVE  Inv'
  BY <1>0, <1>3, Quiet DEF Goto
<1>4. /\ a \in Metered /\ journal[a].intent = l.snap.revision /\ journal[a].outcome = l.out /\ Evidence(a)
      /\ l.snap.revision <= revision /\ (l.snap.revision = revision => l.snap = Run) /\ l.snap \in Snapshots
  BY <1>1, <1>2 DEF Sound, SoundEver, Evidence, Locals
<1>5. CASE CanSettle(a) /\ Settled(a) /\ Goto(c, After(l.snap, a[1], l.out))
  <2>1. PICK new : new = After(l.snap, a[1], l.out)
    OBVIOUS
  <2>2. HasOutcome(a) /\ (l.snap = Run => journal[a].intent = revision)
    BY <1>4, OutcomeValues, RunFields DEF HasOutcome, Evidence
  <2>3. new \in Locals /\ Sound(new) /\ ~Owning(new)
    BY <1>0, <1>4, <2>1, <2>2, SoundAfter
  <2> QED BY <1>0, <1>3, <1>4, <1>5, <2>1, <2>3, Settles
<1>6. CASE Stop(c) /\ UNCHANGED <<ledger, overage>>
  <2>1. /\ ledger' \in [Metered -> {"none", "ACTIVE", "SETTLED", "UNRESOLVED"}]
        /\ \A b \in Metered : ledger'[b] # "none" => ledger[b] # "none"
        /\ overage' \in BOOLEAN
    BY <1>0, <1>6 DEF Types
  <2> QED BY <1>0, <1>3, <1>6, <2>1, SoundIdle DEF Stop
<1> QED BY <1>1, <1>5, <1>6 DEF settle

-----------------------------------------------------------------------------
(* Steps that write to the journal.                                         *)

Entries == [intent : Nat \cup {NoIntent}, outcome : Outcomes \cup {NoOutcome}, recon : {"none", "safe", "unsafe"}]

\* Nothing but the entry of attempt w is written.
Wrote(w) == journal' \in [Attempts -> Entries] /\ \A b \in Attempts : b # w => journal'[b] = journal[b]

LEMMA WroteIntent ==
    ASSUME Types, NEW w \in Attempts, NEW value \in Nat, journal' = [journal EXCEPT ![w].intent = value]
    PROVE  /\ Wrote(w) /\ journal'[w].intent = value
           /\ journal'[w].outcome = journal[w].outcome /\ journal'[w].recon = journal[w].recon
BY DEF Types, Wrote, Entries

LEMMA WroteOutcome ==
    ASSUME Types, NEW w \in Attempts, NEW value \in Outcomes, journal' = [journal EXCEPT ![w].outcome = value]
    PROVE  /\ Wrote(w) /\ journal'[w].outcome = value
           /\ journal'[w].intent = journal[w].intent /\ journal'[w].recon = journal[w].recon
BY DEF Types, Wrote, Entries

LEMMA WroteRecon ==
    ASSUME Types, NEW w \in Attempts, NEW value \in {"safe", "unsafe"}, journal' = [journal EXCEPT ![w].recon = value]
    PROVE  /\ Wrote(w) /\ journal'[w].recon = value
           /\ journal'[w].intent = journal[w].intent /\ journal'[w].outcome = journal[w].outcome
BY DEF Types, Wrote, Entries

LEMMA Writes ==
    ASSUME Inv, UNCHANGED <<runVars, ledger, overage, worktree, clock, crashes, ghosts>>,
           measured \subseteq measured', measured' \subseteq 1 .. ContextRoles,
           NEW w \in Attempts, Wrote(w), journal'[w] = journal[w] \/ Grown(w),
           NEW c \in Coordinators, NEW new \in Locals, Goto(c, new), new.pc # "invoke",
           Owning(new) /\ new.snap = Run => \A d \in Coordinators : Owning(co[d]) /\ Current(d) => d = c,
           w = WorktreeAttempt /\ journal'[w].recon = "safe" => journal[w].recon = "safe" \/ Made,
           \/ journal'[w].outcome = journal[w].outcome
           \/ /\ w[1] = "VALIDATION" /\ journal'[w].outcome.status = "COMPLETED" => validated
              /\ w[1] = "REVIEW" /\ journal'[w].outcome.gate = "APPROVABLE" => ~UnresolvedEffects
              /\ \A d \in Coordinators : d # c /\ Owning(co[d]) /\ Current(d) /\ co[d].att = w =>
                    journal'[w].outcome = Refusal /\ w # WorktreeAttempt,
           SoundOf(c)'
    PROVE  Inv'
<1>0. /\ Types /\ \A b \in Attempts : b # w => journal'[b] = journal[b]
      /\ UNCHANGED <<runVars, invoked, validated>>
      /\ UNCHANGED <<ledger, overage, worktree, clock, crashes, invoked, validated>>
  BY DEF Inv, ghosts, Wrote
<1>1. Grows
  BY <1>0 DEF Grows
<1>2. Types'
  <2>1. co' \in [Coordinators -> Locals]
    BY <1>0 DEF Types, Goto
  <2>2. Run' = Run /\ ceiling' = ceiling
    BY <1>0 DEF Run, runVars
  <2> QED BY <1>0, <2>1, <2>2 DEF Types, Wrote, Entries
<1>3. journal'[WorktreeAttempt].recon = "safe" => journal[WorktreeAttempt].recon = "safe" \/ Made
  BY <1>0, KnownAttempts
<1>4. \A a \in Metered :
         \/ journal'[a].outcome = journal[a].outcome
         \/ /\ a[1] = "VALIDATION" /\ journal'[a].outcome.status = "COMPLETED" => validated
            /\ a[1] = "REVIEW" /\ journal'[a].outcome.gate = "APPROVABLE" => ~UnresolvedEffects
  BY <1>0, KnownAttempts
<1>5. ASSUME NEW d \in Coordinators, d # c, Owning(co[d]), Current(d)
      PROVE  \/ journal'[co[d].att].outcome = journal[co[d].att].outcome
             \/ journal'[co[d].att].outcome = Refusal /\ co[d].att # WorktreeAttempt
  <2>1. co[d].att \in Attempts
    <3>1. SoundEver(co[d])
      BY DEF Inv, SoundOf, Sound
    <3> QED BY <1>5, <3>1 DEF SoundEver, Owning, Attempting
  <2> QED BY <1>0, <1>5, <2>1
<1>6. co' = [co EXCEPT ![c] = new] /\ \A a \in Metered : ledger'[a] # "none" => ledger[a] # "none"
  BY <1>0 DEF Goto
<1> QED BY <1>0, <1>1, <1>2, <1>3, <1>4, <1>5, <1>6, Moves

\* What a coordinator relied on before the write it relies on after it, if it owns nothing then.
LEMMA SoundThen ==
    ASSUME Inv, UNCHANGED <<runVars, ledger, overage, worktree, clock, crashes, ghosts>>,
           measured \subseteq measured', NEW w \in Attempts, Wrote(w), journal'[w] = journal[w] \/ Grown(w),
           NEW c \in Coordinators, NEW new \in Locals, Goto(c, new), ~Owning(new), Sound(new)
    PROVE  SoundOf(c)'
<1>0. /\ Types /\ JournalInv /\ UNCHANGED runVars /\ UNCHANGED invoked /\ UNCHANGED validated
      /\ co'[c] = new /\ \A d \in Coordinators : d # c => co'[d] = co[d]
  BY DEF Inv, ghosts, Types, Goto
<1>1. Grows
  BY DEF Grows, Wrote
<1>2. Made => Made'
  BY <1>0 DEF Made, At, Owning
<1>3. /\ \A a \in Attempts : invoked'[a] >= invoked[a]
      /\ invoked \in [Attempts -> Nat] /\ invoked' \in [Attempts -> Nat]
  BY <1>0 DEF Types
<1>4. new.pc = "reserve" => invoked'[new.att] = invoked[new.att]
  BY <1>0
<1> QED BY <1>0, <1>1, <1>2, <1>3, <1>4, SoundKept

\* The coordinator of a selection.
LEMMA SelectingFields ==
    ASSUME Inv, NEW c \in Coordinators, NEW l, l = co[c], l.pc \in Selecting
    PROVE  /\ l \in Locals /\ l.snap \in Snapshots /\ SoundEver(l)
           /\ l.snap.revision <= revision /\ (l.snap.revision = revision => l.snap = Run)
           /\ l.snap.state = "CONTEXT_PREPARING" /\ ContextUpTo(l.att[2])
           /\ l.att[1] = "CONTEXT" /\ l.att[2] \in 1 .. ContextRoles + 1 /\ l.att = <<"CONTEXT", l.att[2]>>
           /\ l.att[2] <= ContextRoles => l.att \in Attempts
<1>1. l \in Locals /\ SoundEver(l)
  BY DEF Inv, Types, SoundOf, Sound
<1>2. /\ l.snap.revision <= revision /\ (l.snap.revision = revision => l.snap = Run)
      /\ l.snap.state = "CONTEXT_PREPARING" /\ ContextUpTo(l.att[2])
      /\ l.att[1] = "CONTEXT" /\ l.att[2] \in 1 .. ContextRoles + 1
  BY <1>1 DEF SoundEver
<1>3. l.att \in Attempts \cup {NoAttempt, <<"CONTEXT", ContextRoles + 1>>} /\ l.snap \in Snapshots
  BY <1>1 DEF Locals
<1>4. l.att = <<"CONTEXT", l.att[2]>>
  <2>1. NoAttempt[1] = "NONE"
    BY DEF NoAttempt
  <2> QED BY <1>2, <1>3, <2>1, AttemptPairs
<1>5. l.att[2] <= ContextRoles => l.att \in Attempts
  <2>1. l.att[2] <= ContextRoles => l.att[2] \in 1 .. ContextRoles
    BY <1>2, OrchestrationAssumption
  <2> QED BY <1>4, <2>1, KnownAttempts
<1> QED BY <1>1, <1>2, <1>3, <1>4, <1>5

\* The usage of a completed manifest is recorded and the next role is at hand.
LEMMA NextRole ==
    ASSUME Inv, UNCHANGED <<runVars, ledger, overage, worktree, clock, crashes, ghosts>>, UNCHANGED journal,
           NEW c \in Coordinators, NEW l, l = co[c], l.pc \in Selecting, l.att[2] <= ContextRoles,
           journal[l.att].outcome.status = "COMPLETED",
           measured' = measured \cup {l.att[2]}, NEW new, new = [l EXCEPT !.pc = "context", !.att[2] = @ + 1],
           Goto(c, new)
    PROVE  Inv'
<1>0. /\ l \in Locals /\ l.snap \in Snapshots /\ SoundEver(l)
      /\ l.snap.revision <= revision /\ (l.snap.revision = revision => l.snap = Run)
      /\ l.snap.state = "CONTEXT_PREPARING" /\ ContextUpTo(l.att[2])
      /\ l.att[1] = "CONTEXT" /\ l.att[2] \in 1 .. ContextRoles + 1 /\ l.att = <<"CONTEXT", l.att[2]>>
      /\ l.att \in Attempts /\ Types
  BY SelectingFields DEF Inv
<1>1. PICK n : n = l.att[2]
  OBVIOUS
<1>2. n \in 1 .. ContextRoles
  BY <1>0, <1>1, OrchestrationAssumption
<1>3. PICK b : b = <<"CONTEXT", n + 1>>
  OBVIOUS
<1>4. b \in Attempts \cup {NoAttempt, <<"CONTEXT", ContextRoles + 1>>}
  <2>1. n + 1 \in 1 .. ContextRoles \/ n + 1 = ContextRoles + 1
    BY <1>2, OrchestrationAssumption
  <2> QED BY <1>3, <2>1, KnownAttempts
<1>5. [l.att EXCEPT ![2] = l.att[2] + 1] = b
  <2>1. PICK t : t = l.att
    OBVIOUS
  <2>2. t = <<"CONTEXT", n>>
    BY <1>0, <1>1, <2>1
  <2>3. [t EXCEPT ![2] = n + 1] = b
    BY <1>3, <2>2
  <2> QED BY <1>1, <2>1, <2>3
<1>6. new = [l EXCEPT !.pc = "context", !.att = b]
  BY <1>0, <1>5 DEF Locals
<1>7. /\ new \in Locals /\ new.pc = "context" /\ new.snap = l.snap /\ new.att = b /\ new.known = l.known
  BY <1>0, <1>4, <1>6 DEF Locals, PCs
<1>8. ~Owning(new)
  BY <1>7 DEF Owning
<1>9. ContextUpTo(n + 1)'
  <2> SUFFICES ASSUME NEW s \in 1 .. ContextRoles, s < n + 1
               PROVE  journal'[<<"CONTEXT", s>>].outcome.status = "COMPLETED" /\ s \in measured'
    BY DEF ContextUpTo
  <2>1. CASE s < n
    BY <1>0, <1>1, <2>1 DEF ContextUpTo
  <2>2. CASE s = n
    BY <1>0, <1>1, <2>2
  <2> QED BY <1>2, <2>1, <2>2
<1>10. UNCHANGED <<state, attempts, revision>> /\ Run' = Run
  BY DEF runVars, Run
<1>11. SoundEver(new)'
  <2>1. \A a \in new.known : Evidence(a)'
    BY <1>0, <1>7 DEF SoundEver, Evidence
  <2>2. b[1] = "CONTEXT" /\ b[2] = n + 1 /\ b[2] \in 1 .. ContextRoles + 1
    BY <1>2, <1>3, OrchestrationAssumption
  <2>3. ContextUpTo(b[2])'
    BY <1>9, <2>2
  <2> QED BY <1>0, <1>7, <1>10, <2>1, <2>2, <2>3 DEF SoundEver, Attempting, Selecting
<1>12. SoundNow(new)'
  BY <1>7, <1>8 DEF SoundNow, Attempting, Owning
<1>13. SoundOf(c)'
  <2>1. co'[c] = new
    BY <1>0 DEF Goto, Types
  <2> QED BY <1>11, <1>12, <2>1 DEF SoundOf, Sound, SoundEver, SoundNow, Owning, Grounds
<1>14. Wrote(l.att) /\ journal'[l.att] = journal[l.att]
  BY <1>0 DEF Wrote, Types, Entries
<1>15. measured \subseteq measured' /\ measured' \subseteq 1 .. ContextRoles
  BY <1>0, <1>1, <1>2 DEF Types
<1> QED BY <1>0, <1>7, <1>8, <1>13, <1>14, <1>15, Writes DEF Owning

LEMMA Measure == ASSUME Inv, NEW c \in Coordinators, measure(c) PROVE Inv'
<1>1. PICK l : l = co[c]
  OBVIOUS
<1>2. /\ l.pc = "measure" /\ l.pc \in Selecting /\ SoundEver(l)
      /\ UNCHANGED <<runVars, ledger, overage, worktree, clock, crashes, ghosts>> /\ UNCHANGED journal
  BY <1>1 DEF measure, At, Selecting, Inv, SoundOf, Sound
<1>3. l.att[2] <= ContextRoles /\ journal[l.att].outcome.status = "COMPLETED"
  BY <1>2 DEF SoundEver
<1>4. /\ measured' = measured \cup {l.att[2]}
      /\ Goto(c, [l EXCEPT !.pc = "context", !.att[2] = @ + 1])
  BY <1>1 DEF measure
<1> QED BY <1>1, <1>2, <1>3, <1>4, NextRole

LEMMA Context == ASSUME Inv, NEW c \in Coordinators, context(c) PROVE Inv'
<1>1. PICK l, a : l = co[c] /\ a = l.att
  OBVIOUS
<1>2. /\ l.pc = "context" /\ l.pc \in Selecting
      /\ UNCHANGED <<runVars, ledger, overage, worktree, clock, crashes, ghosts>>
  BY <1>1 DEF context, At, Selecting
<1>3. /\ l \in Locals /\ l.snap \in Snapshots /\ SoundEver(l)
      /\ l.snap.revision <= revision /\ (l.snap.revision = revision => l.snap = Run)
      /\ l.snap.state = "CONTEXT_PREPARING" /\ ContextUpTo(a[2])
      /\ a[1] = "CONTEXT" /\ a[2] \in 1 .. ContextRoles + 1 /\ a = <<"CONTEXT", a[2]>>
      /\ a[2] <= ContextRoles => a \in Attempts
      /\ Types /\ JournalInv /\ revision \in Nat
  BY <1>1, <1>2, SelectingFields, RunNow DEF Inv
<1>4. CASE a[2] > ContextRoles /\ Goto(c, Advancing(l.snap, "WORKSPACE_PREPARING", NoIncrement)) /\ UNCHANGED <<journal, measured>>
  <2>1. Silent
    BY <1>2, <1>4 DEF Silent
  <2>2. PICK goal : goal = [destination |-> "WORKSPACE_PREPARING", increment |-> NoIncrement, then |-> "loop"]
    OBVIOUS
  <2>3. a[2] = ContextRoles + 1
    BY <1>3, <1>4, OrchestrationAssumption
  <2>4. l.snap = Run => Grounds(goal)
    BY <1>3, <2>2, <2>3, RunFields DEF Grounds
  <2>5. "WORKSPACE_PREPARING" \in RunStates
    BY DEF RunStates
  <2> QED BY <1>3, <1>4, <2>1, <2>2, <2>4, <2>5, SoundAdvancing, Reads DEF Advancing
<1>5. CASE Goto(c, Terminating(l.snap, "BLOCKED", NoIncrement)) /\ UNCHANGED <<journal, measured>>
  <2>1. Silent /\ "BLOCKED" \in Refusing
    BY <1>2, <1>5 DEF Silent, Refusing
  <2> QED BY <1>3, <1>5, <2>1, SoundTerminating, Reads
<1>6. CASE ~(a[2] > ContextRoles) /\ journal[a].outcome.status = "COMPLETED" /\ Restored(c, a) /\ UNCHANGED journal
  <2>1. PICK new : new = [l EXCEPT !.att[2] = @ + 1]
    OBVIOUS
  <2>2. new = [l EXCEPT !.pc = "context", !.att[2] = @ + 1]
    BY <1>2, <1>3, <2>1 DEF Locals
  <2>3. measured' = measured \cup {a[2]} /\ Goto(c, new)
    BY <1>1, <1>6, <2>1 DEF Restored
  <2>4. a[2] <= ContextRoles
    BY <1>3, <1>6, OrchestrationAssumption
  <2> QED BY <1>1, <1>2, <1>6, <2>2, <2>3, <2>4, NextRole
<1>7. CASE /\ ~(a[2] > ContextRoles) /\ ~HasOutcome(a)
           /\ IF HasIntent(a) \/ ~Current(c) THEN UNCHANGED journal
              ELSE journal' = [journal EXCEPT ![a].intent = l.snap.revision]
           /\ \/ Current(c) /\ Goto(c, [l EXCEPT !.pc = "select"])
              \/ Stop(c)
           /\ UNCHANGED measured
  <2>1. a[2] <= ContextRoles /\ a \in Attempts
    BY <1>3, <1>7, OrchestrationAssumption
  <2>2. Current(c) => l.snap.revision = revision /\ state = "CONTEXT_PREPARING"
    BY <1>1, <1>3, RunFields DEF Current
  <2>3. /\ Wrote(a) /\ (journal'[a] = journal[a] \/ Grown(a)) /\ journal'[a].outcome = journal[a].outcome
        /\ journal'[a].recon = journal[a].recon /\ (Current(c) => HasIntent(a)')
    <3>1. CASE HasIntent(a) \/ ~Current(c)
      BY <1>3, <1>7, <3>1 DEF Wrote, Types, Entries, HasIntent
    <3>2. CASE ~HasIntent(a) /\ Current(c)
      <4>1. /\ Wrote(a) /\ journal'[a].intent = revision /\ journal'[a].outcome = journal[a].outcome
            /\ journal'[a].recon = journal[a].recon
        BY <1>3, <1>7, <2>1, <2>2, <3>2, WroteIntent
      <4>2. state = Phase(a[1])
        BY <1>3, <2>2, <3>2 DEF Phase
      <4>3. Grown(a)
        BY <1>3, <3>2, <4>1, <4>2 DEF Grown
      <4>4. HasIntent(a)'
        BY <1>3, <4>1 DEF HasIntent, NoIntent
      <4> QED BY <4>1, <4>3, <4>4
    <3> QED BY <3>1, <3>2
  <2>4. measured \subseteq measured' /\ measured' \subseteq 1 .. ContextRoles
    BY <1>3, <1>7 DEF Types
  <2>5. CASE Stop(c)
    <3>1. Idle \in Locals /\ Sound(Idle) /\ ~Owning(Idle) /\ Idle.pc # "invoke"
      BY <1>3, SoundIdle, IdleFields
    <3>2. SoundOf(c)'
      BY <1>2, <2>1, <2>3, <2>4, <2>5, <3>1, SoundThen DEF Stop
    <3> QED BY <1>2, <2>1, <2>3, <2>4, <2>5, <3>1, <3>2, Writes DEF Stop
  <2>6. CASE Current(c) /\ Goto(c, [l EXCEPT !.pc = "select"])
    <3>1. PICK new : new = [l EXCEPT !.pc = "select"]
      OBVIOUS
    <3>2. new \in Locals /\ new.pc = "select" /\ new.snap = l.snap /\ new.att = a /\ new.known = l.known
      BY <1>1, <1>3, <3>1 DEF Locals, PCs
    <3>3. ~Owning(new) /\ new.pc # "invoke"
      BY <3>2 DEF Owning
    <3>4. UNCHANGED <<state, attempts, revision>> /\ Run' = Run /\ Grows
      BY <1>2, <2>3 DEF runVars, Run, Grows, Wrote
    <3>5. ContextUpTo(a[2])'
      BY <1>3, <2>4, <3>4, ContextKept
    <3>6. \A b \in new.known : Evidence(b)'
      <4>1. new.known \subseteq Attempts /\ \A b \in new.known : Evidence(b)
        BY <1>3, <3>2, KnownAttempts DEF Locals, SoundEver
      <4> QED BY <2>3, <4>1 DEF Wrote, Evidence
    <3>7. SoundEver(new)'
      BY <1>3, <2>1, <2>3, <2>6, <3>2, <3>4, <3>5, <3>6 DEF SoundEver, Attempting, Selecting
    <3>8. SoundNow(new)'
      BY <3>2, <3>3 DEF SoundNow, Attempting, Owning
    <3>9. SoundOf(c)'
      <4>1. co'[c] = new
        BY <1>3, <2>6, <3>1 DEF Goto, Types
      <4> QED BY <3>7, <3>8, <4>1 DEF SoundOf, Sound, SoundEver, SoundNow, Owning, Grounds
    <3> QED BY <1>2, <2>1, <2>3, <2>4, <2>6, <3>1, <3>2, <3>3, <3>9, Writes
  <2> QED BY <1>7, <2>5, <2>6
<1> QED BY <1>1, <1>4, <1>5, <1>6, <1>7 DEF context

LEMMA Select == ASSUME Inv, NEW c \in Coordinators, select(c) PROVE Inv'
<1>1. PICK l, a : l = co[c] /\ a = l.att
  OBVIOUS
<1>2. /\ l.pc = "select" /\ l.pc \in Selecting
      /\ UNCHANGED <<runVars, ledger, overage, worktree, clock, crashes, ghosts>> /\ UNCHANGED measured
  BY <1>1 DEF select, At, Selecting
<1>3. /\ l \in Locals /\ l.snap \in Snapshots /\ SoundEver(l)
      /\ l.snap.revision <= revision /\ (l.snap.revision = revision => l.snap = Run)
      /\ l.snap.state = "CONTEXT_PREPARING" /\ ContextUpTo(a[2])
      /\ a[1] = "CONTEXT" /\ a[2] \in 1 .. ContextRoles + 1 /\ a = <<"CONTEXT", a[2]>>
      /\ a[2] <= ContextRoles => a \in Attempts
      /\ Types /\ JournalInv /\ revision \in Nat
  BY <1>1, <1>2, SelectingFields, RunNow DEF Inv
<1>4. a \in Attempts /\ a[2] <= ContextRoles /\ HasIntent(a)
  BY <1>1, <1>2, <1>3 DEF SoundEver
<1>5. CASE Stop(c) /\ UNCHANGED journal
  BY <1>2, <1>5, Rests DEF Silent
<1>6. ASSUME NEW o \in ContextOutcomes, Current(c), journal[a].outcome \in {NoOutcome, o},
             journal' = [journal EXCEPT ![a].outcome = o],
             NEW new, Goto(c, new),
             new = CASE o.status = "COMPLETED" -> [l EXCEPT !.pc = "measure"]
                     [] o.status = "BLOCKED" -> Terminating(l.snap, "BLOCKED", NoIncrement)
                     [] OTHER -> Terminating(l.snap, "FAILED", NoIncrement)
      PROVE  Inv'
  <2>1. o \in Outcomes
    BY OutcomeSets
  <2>2. /\ Wrote(a) /\ journal'[a].outcome = o
        /\ journal'[a].intent = journal[a].intent /\ journal'[a].recon = journal[a].recon
    BY <1>3, <1>4, <1>6, <2>1, WroteOutcome
  <2>3. state = Phase(a[1]) /\ a \notin Metered
    <3>1. state = "CONTEXT_PREPARING"
      BY <1>1, <1>3, <1>6, RunFields DEF Current
    <3>2. "CONTEXT" \notin MeteredSteps /\ Phase("CONTEXT") = "CONTEXT_PREPARING"
      BY DEF MeteredSteps, Phase
    <3> QED BY <1>3, <1>4, <3>1, <3>2, KnownAttempts
  <2>4. journal'[a] = journal[a] \/ Grown(a)
    <3>1. Grown(a)
      BY <1>4, <1>6, <2>1, <2>2, <2>3 DEF Grown, HasIntent, HasOutcome
    <3> QED BY <3>1
  <2>5. measured \subseteq measured' /\ measured' \subseteq 1 .. ContextRoles
    BY <1>2, <1>3 DEF Types
  <2>6. \A d \in Coordinators : Owning(co[d]) => co[d].att # a
    <3>1. \A d \in Coordinators : SoundEver(co[d])
      BY DEF Inv, SoundOf, Sound
    <3> QED BY <1>3, <3>1 DEF SoundEver, Owning, Attempting
  <2>7. a # WorktreeAttempt
    BY <1>3 DEF WorktreeAttempt
  <2>8. ASSUME new \in Locals, Sound(new), ~Owning(new) PROVE Inv'
    <3>1. SoundOf(c)' /\ new.pc # "invoke"
      BY <1>2, <1>4, <1>6, <2>2, <2>4, <2>5, <2>8, SoundThen DEF Owning
    <3> QED BY <1>2, <1>3, <1>4, <1>6, <2>2, <2>4, <2>5, <2>6, <2>7, <2>8, <3>1, Writes
  <2>9. CASE o.status = "COMPLETED"
    <3>1. new = [l EXCEPT !.pc = "measure"]
      BY <1>6, <2>9
    <3>2. new \in Locals /\ new.pc = "measure" /\ new.snap = l.snap /\ new.att = a /\ new.known = l.known
      BY <1>1, <1>3, <3>1 DEF Locals, PCs
    <3>3. ~Owning(new) /\ new.pc # "invoke"
      BY <3>2 DEF Owning
    <3>4. UNCHANGED <<state, attempts, revision>> /\ Run' = Run /\ Grows
      BY <1>2, <2>2, <2>4 DEF runVars, Run, Grows, Wrote
    <3>5. ContextUpTo(a[2])' /\ HasIntent(a)'
      BY <1>3, <1>4, <2>2, <2>5, <3>4, ContextKept DEF HasIntent
    <3>6. \A b \in new.known : Evidence(b)'
      <4>1. new.known \subseteq Metered /\ \A b \in new.known : Evidence(b)
        BY <1>3, <3>2 DEF Locals, SoundEver
      <4> QED BY <2>2, <2>3, <4>1, KnownAttempts DEF Wrote, Evidence
    <3>7. SoundEver(new)'
      BY <1>3, <1>4, <2>2, <2>9, <3>2, <3>4, <3>5, <3>6 DEF SoundEver, Attempting, Selecting
    <3>8. SoundNow(new)'
      BY <3>2, <3>3 DEF SoundNow, Attempting, Owning
    <3>9. SoundOf(c)'
      <4>1. co'[c] = new
        BY <1>3, <1>6 DEF Goto, Types
      <4> QED BY <3>7, <3>8, <4>1 DEF SoundOf, Sound, SoundEver, SoundNow, Owning, Grounds
    <3> QED BY <1>2, <1>3, <1>4, <1>6, <2>2, <2>4, <2>5, <2>6, <2>7, <3>2, <3>3, <3>9, Writes
  <2>10. CASE o.status # "COMPLETED"
    <3>1. \E destination \in Refusing : new = Terminating(l.snap, destination, NoIncrement)
      BY <1>6, <2>10 DEF Refusing
    <3> QED BY <1>3, <2>8, <3>1, SoundTerminating
  <2> QED BY <2>9, <2>10
<1> QED BY <1>1, <1>5, <1>6 DEF select

-----------------------------------------------------------------------------
(* The steps of an attempt.                                                 *)

\* The coordinator of an attempt.
LEMMA AttemptFields ==
    ASSUME Inv, NEW c \in Coordinators, NEW l, l = co[c], l.pc \in Attempting \cup {"reconcile"}
    PROVE  /\ Types /\ JournalInv /\ EffectInv /\ revision \in Nat
           /\ l \in Locals /\ l.snap \in Snapshots /\ SoundEver(l) /\ (Current(c) => SoundNow(l))
           /\ l.snap.revision <= revision /\ (l.snap.revision = revision => l.snap = Run)
           /\ l.att \in Attempts /\ l.att[1] \in Steps /\ l.att[2] \in 1 .. StepLimit(l.att[1])
           /\ l.att = <<l.att[1], l.att[2]>>
           /\ Current(c) => state = Phase(l.att[1]) /\ l.snap = Run /\ l.snap.revision = revision
<1>1. /\ Types /\ JournalInv /\ EffectInv /\ revision \in Nat /\ l \in Locals /\ l.snap \in Snapshots
      /\ SoundEver(l) /\ (Current(c) => SoundNow(l))
  BY RunNow DEF Inv, Types, Locals, SoundOf, Sound, Current
<1>2. /\ l.snap.revision <= revision /\ (l.snap.revision = revision => l.snap = Run)
      /\ l.att \in Attempts /\ l.snap.state = Phase(l.att[1])
  BY <1>1 DEF SoundEver
<1>3. Current(c) => state = Phase(l.att[1]) /\ l.snap = Run /\ l.snap.revision = revision
  BY <1>2, RunFields DEF Current
<1> QED BY <1>1, <1>2, <1>3, AttemptPairs

\* The first attempts of a step are counted once.
LEMMA BegunOnce ==
    ASSUME NEW step \in Steps, NEW m \in 1 .. StepLimit(step), NEW n \in 1 .. StepLimit(step),
           Begun(step, m - 1), Begun(step, n - 1)
    PROVE  m = n
<1>1. StepLimit(step) \in Nat
  BY Limits
<1>2. /\ journal[<<step, m>>].intent \in 0 .. revision - 1 <=> m <= m - 1
      /\ journal[<<step, m>>].intent \in 0 .. revision - 1 <=> m <= n - 1
      /\ journal[<<step, n>>].intent \in 0 .. revision - 1 <=> n <= n - 1
      /\ journal[<<step, n>>].intent \in 0 .. revision - 1 <=> n <= m - 1
  BY DEF Begun
<1> QED BY <1>1, <1>2

\* Coordinators inside the same revision are inside the same attempt.
LEMMA SameAttempt ==
    ASSUME Inv, NEW c \in Coordinators, NEW d \in Coordinators, Current(c), Current(d),
           co[c].pc \in Attempting, co[d].pc \in Attempting
    PROVE  co[c].att = co[d].att
<1>1. PICK l, k : l = co[c] /\ k = co[d]
  OBVIOUS
<1>2. /\ l.att[1] \in Steps /\ l.att[2] \in 1 .. StepLimit(l.att[1]) /\ l.att = <<l.att[1], l.att[2]>>
      /\ state = Phase(l.att[1]) /\ SoundNow(l)
  BY <1>1, AttemptFields
<1>3. /\ k.att[1] \in Steps /\ k.att[2] \in 1 .. StepLimit(k.att[1]) /\ k.att = <<k.att[1], k.att[2]>>
      /\ state = Phase(k.att[1]) /\ SoundNow(k)
  BY <1>1, AttemptFields
<1>4. l.att[1] = k.att[1]
  BY <1>2, <1>3, Phases
<1>5. Begun(l.att[1], l.att[2] - 1) /\ Begun(k.att[1], k.att[2] - 1)
  BY <1>1, <1>2, <1>3 DEF SoundNow
<1>6. l.att[2] = k.att[2]
  BY <1>2, <1>3, <1>4, <1>5, BegunOnce
<1> QED BY <1>1, <1>2, <1>3, <1>4, <1>6

LEMMA Intend == ASSUME Inv, NEW c \in Coordinators, intend(c) PROVE Inv'
<1>1. PICK l, a : l = co[c] /\ a = l.att
  OBVIOUS
<1>2. /\ l.pc = "intend" /\ l.pc \in Attempting
      /\ UNCHANGED <<runVars, ledger, overage, worktree, clock, crashes, ghosts>> /\ UNCHANGED measured
  BY <1>1 DEF intend, At, Attempting
<1>3. /\ Types /\ JournalInv /\ EffectInv /\ revision \in Nat
      /\ l \in Locals /\ l.snap \in Snapshots /\ SoundEver(l) /\ (Current(c) => SoundNow(l))
      /\ a \in Attempts
      /\ Current(c) => state = Phase(a[1]) /\ l.snap = Run
  BY <1>1, <1>2, AttemptFields
<1>4. CASE Stop(c) /\ UNCHANGED journal
  BY <1>2, <1>4, Rests DEF Silent
<1>5. CASE /\ Current(c) /\ ~HasIntent(a)
           /\ journal' = [journal EXCEPT ![a].intent = revision]
           /\ Goto(c, [l EXCEPT !.pc = "reserve"])
  <2>1. /\ Wrote(a) /\ journal'[a].intent = revision
        /\ journal'[a].outcome = journal[a].outcome /\ journal'[a].recon = journal[a].recon
    BY <1>3, <1>5, WroteIntent
  <2>2. a[1] # "CONTEXT" /\ Begun(a[1], a[2] - 1) /\ a[1] \in Steps
    BY <1>1, <1>2, <1>3, <1>5, AttemptPairs DEF SoundEver, SoundNow
  <2>3. Grown(a)
    BY <1>3, <1>5, <2>1, <2>2 DEF Grown
  <2>4. PICK new : new = [l EXCEPT !.pc = "reserve"]
    OBVIOUS
  <2>5. /\ new \in Locals /\ new.pc = "reserve" /\ new.snap = Run /\ new.att = a /\ new.known = l.known
    BY <1>1, <1>3, <1>5, <2>4 DEF Locals, PCs
  <2>6. journal[a].outcome = NoOutcome /\ invoked[a] = 0
    BY <1>3, <1>5 DEF JournalInv, EffectInv, HasOutcome, Types
  <2>7. ASSUME NEW d \in Coordinators, Owning(co[d]), Current(d) PROVE d = c
    <3>1. co[d].pc \in Attempting /\ co[d].pc \in {"reserve", "invoke", "record"} /\ SoundNow(co[d])
      BY <2>7 DEF Owning, Attempting, Inv, SoundOf, Sound, Current
    <3>2. co[d].att = a
      BY <1>1, <1>2, <1>5, <2>7, <3>1, SameAttempt
    <3>3. journal[a].intent = revision
      BY <3>1, <3>2 DEF SoundNow
    <3> QED BY <1>3, <1>5, <3>3 DEF HasIntent, NoIntent
  <2>8. UNCHANGED <<state, attempts, revision, invoked>> /\ Run' = Run /\ Grows
    BY <1>2, <2>1, <2>3 DEF runVars, Run, Grows, Wrote, ghosts
  <2>9. SoundEver(new)'
    <3>1. \A b \in new.known : Evidence(b)'
      <4>1. new.known \subseteq Attempts /\ \A b \in new.known : Evidence(b)
        BY <1>3, <2>5, KnownAttempts DEF Locals, SoundEver
      <4> QED BY <2>1, <4>1 DEF Wrote, Evidence
    <3> QED BY <1>3, <1>5, <2>2, <2>5, <2>8, <3>1, RunFields, RunNow DEF SoundEver, Attempting, Selecting
  <2>10. SoundNow(new)'
    <3>1. Begun(a[1], a[2] - 1)'
      BY <1>3, <2>2, <2>8, BegunKept
    <3>2. ~Evidence(a)' /\ ~HasOutcome(a)'
      BY <2>1, <2>6, OutcomeValues DEF Evidence, HasOutcome
    <3> QED BY <2>1, <2>5, <2>6, <2>8, <3>1, <3>2 DEF SoundNow
  <2>11. SoundOf(c)'
    <3>1. co'[c] = new
      BY <1>3, <1>5, <2>4 DEF Goto, Types
    <3> QED BY <2>9, <2>10, <3>1 DEF SoundOf, Sound, SoundEver, SoundNow, Owning, Grounds
  <2>12. measured \subseteq measured' /\ measured' \subseteq 1 .. ContextRoles
    BY <1>2, <1>3 DEF Types
  <2> QED BY <1>2, <1>3, <1>5, <2>1, <2>3, <2>4, <2>5, <2>7, <2>11, <2>12, Writes
<1> QED BY <1>1, <1>4, <1>5 DEF intend

LEMMA Refuse == ASSUME Inv, NEW c \in Coordinators, refuse(c) PROVE Inv'
<1>1. PICK l, a : l = co[c] /\ a = l.att
  OBVIOUS
<1>2. /\ l.pc = "refuse" /\ l.pc \in Attempting
      /\ UNCHANGED <<runVars, ledger, overage, worktree, clock, crashes, ghosts>> /\ UNCHANGED measured
  BY <1>1 DEF refuse, At, Attempting
<1>3. /\ Types /\ JournalInv /\ EffectInv /\ revision \in Nat
      /\ l \in Locals /\ l.snap \in Snapshots /\ SoundEver(l) /\ (Current(c) => SoundNow(l))
      /\ a \in Attempts /\ a[2] \in 1 .. StepLimit(a[1]) /\ a = <<a[1], a[2]>> /\ a[1] \in Steps
      /\ Current(c) => state = Phase(a[1]) /\ l.snap = Run
  BY <1>1, <1>2, AttemptFields
<1>4. CASE Stop(c) /\ UNCHANGED journal
  BY <1>2, <1>4, Rests DEF Silent
<1>5. CASE /\ Current(c)
           /\ journal' = [journal EXCEPT ![a].intent = revision]
           /\ Goto(c, [l EXCEPT !.pc = "record"])
  <2>1. /\ Wrote(a) /\ journal'[a].intent = revision
        /\ journal'[a].outcome = journal[a].outcome /\ journal'[a].recon = journal[a].recon
    BY <1>3, <1>5, WroteIntent
  <2>2. a[1] \in {"BUILD", "REPAIR"} /\ l.out = Refusal /\ Begun(a[1], a[2] - 1)
    BY <1>1, <1>2, <1>3, <1>5 DEF SoundEver, SoundNow
  <2>3. journal[a].intent = revision \/ ~HasIntent(a)
    <3>1. ~(journal[a].intent \in 0 .. revision - 1)
      BY <1>3, <2>2, Limits DEF Begun
    <3>2. journal[a].intent \in Nat \cup {NoIntent} /\ journal[a].intent <= revision
      BY <1>3 DEF Types, JournalInv
    <3> QED BY <1>3, <3>1, <3>2 DEF HasIntent, NoIntent
  <2>4. Grown(a)
    BY <1>3, <1>5, <2>1, <2>2, <2>3 DEF Grown
  <2>5. PICK new : new = [l EXCEPT !.pc = "record"]
    OBVIOUS
  <2>6. /\ new \in Locals /\ new.pc = "record" /\ new.snap = Run /\ new.att = a /\ new.known = l.known
        /\ new.out = Refusal
    BY <1>1, <1>3, <1>5, <2>2, <2>5 DEF Locals, PCs
  <2>7. ~Owning(new) /\ a # WorktreeAttempt
    BY <2>2, <2>6 DEF Owning, WorktreeAttempt
  <2>8. UNCHANGED <<state, attempts, revision, invoked>> /\ Run' = Run /\ Grows
    BY <1>2, <2>1, <2>4 DEF runVars, Run, Grows, Wrote, ghosts
  <2>9. SoundEver(new)'
    <3>1. \A b \in new.known : Evidence(b)'
      <4>1. new.known \subseteq Attempts /\ \A b \in new.known : Evidence(b)
        BY <1>3, <2>6, KnownAttempts DEF Locals, SoundEver
      <4> QED BY <2>1, <4>1 DEF Wrote, Evidence
    <3> QED BY <1>3, <1>5, <2>2, <2>6, <2>7, <2>8, <3>1, RunFields, RunNow, OutcomeValues DEF SoundEver, Attempting, Selecting
  <2>10. SoundNow(new)'
    <3>1. Begun(a[1], a[2] - 1)'
      BY <1>3, <2>2, <2>8, BegunKept
    <3> QED BY <2>1, <2>2, <2>6, <2>7, <2>8, <3>1 DEF SoundNow, Owning
  <2>11. SoundOf(c)'
    <3>1. co'[c] = new
      BY <1>3, <1>5, <2>5 DEF Goto, Types
    <3> QED BY <2>9, <2>10, <3>1 DEF SoundOf, Sound, SoundEver, SoundNow, Owning, Grounds
  <2>12. measured \subseteq measured' /\ measured' \subseteq 1 .. ContextRoles
    BY <1>2, <1>3 DEF Types
  <2> QED BY <1>2, <1>3, <1>5, <2>1, <2>4, <2>5, <2>6, <2>7, <2>11, <2>12, Writes
<1> QED BY <1>1, <1>4, <1>5 DEF refuse

LEMMA Reconcile == ASSUME Inv, NEW c \in Coordinators, reconcile(c) PROVE Inv'
<1>1. PICK l, a : l = co[c] /\ a = l.att
  OBVIOUS
<1>2. /\ l.pc = "reconcile"
      /\ UNCHANGED <<runVars, ledger, overage, worktree, clock, crashes, ghosts>> /\ UNCHANGED measured
  BY <1>1 DEF reconcile, At
<1>3. /\ Types /\ JournalInv /\ revision \in Nat
      /\ l \in Locals /\ l.snap \in Snapshots /\ SoundEver(l) /\ a \in Attempts
      /\ l.snap.revision <= revision /\ (l.snap.revision = revision => l.snap = Run)
      /\ Current(c) => state = Phase(a[1]) /\ l.snap = Run
  BY <1>1, <1>2, AttemptFields
<1>4. CASE Stop(c) /\ UNCHANGED journal
  BY <1>2, <1>4, Rests DEF Silent
<1>5. ASSUME Current(c), NEW verdict \in {"safe", "unsafe"}, verdict = IF l.goal.then = "enter" THEN "safe" ELSE "unsafe",
             journal[a].recon \in {"none", verdict}, journal' = [journal EXCEPT ![a].recon = verdict],
             NEW new, Goto(c, new),
             \/ l.goal.then = "enter" /\ new = Committing(l.snap, "BUILDING", NoIncrement, "enter")
             \/ l.goal.then # "enter" /\ \E destination \in Refusing : new = Terminating(l.snap, destination, NoIncrement)
      PROVE  Inv'
  <2>1. /\ Wrote(a) /\ journal'[a].recon = verdict
        /\ journal'[a].intent = journal[a].intent /\ journal'[a].outcome = journal[a].outcome
    BY <1>3, <1>5, WroteRecon
  <2>2. journal'[a] = journal[a] \/ Grown(a)
    <3>1. Grown(a)
      BY <1>3, <1>5, <2>1 DEF Grown
    <3> QED BY <3>1
  <2>3. measured \subseteq measured' /\ measured' \subseteq 1 .. ContextRoles
    BY <1>2, <1>3 DEF Types
  <2>4. l.goal.then = "enter" => a = WorktreeAttempt /\ Made
    BY <1>1, <1>2, <1>3 DEF SoundEver
  <2>5. a = WorktreeAttempt /\ journal'[a].recon = "safe" => journal[a].recon = "safe" \/ Made
    BY <1>5, <2>1, <2>4
  <2>6. ASSUME new \in Locals, ~Owning(new), SoundOf(c)' PROVE Inv'
    <3>1. new.pc # "invoke"
      BY <2>6 DEF Owning
    <3> QED BY <1>2, <1>3, <1>5, <2>1, <2>2, <2>3, <2>5, <2>6, <3>1, Writes
  <2>7. CASE l.goal.then # "enter"
    <3>1. new \in Locals /\ ~Owning(new) /\ Sound(new)
      BY <1>3, <1>5, <2>7, SoundTerminating
    <3>2. SoundOf(c)'
      BY <1>2, <1>3, <1>5, <2>1, <2>2, <2>3, <3>1, SoundThen
    <3> QED BY <2>6, <3>1, <3>2
  <2>8. CASE l.goal.then = "enter"
    <3>1. new = Committing(l.snap, "BUILDING", NoIncrement, "enter") /\ "BUILDING" \in RunStates
      BY <1>5, <2>8 DEF RunStates
    <3>2. /\ new \in Locals /\ new.pc = "commit" /\ new.snap = l.snap /\ new.known = {}
          /\ new.goal.destination = "BUILDING" /\ new.goal.increment = NoIncrement
      BY <1>3, <3>1, CommittingFields
    <3>3. ~Owning(new)
      BY <3>2 DEF Owning
    <3>4. UNCHANGED <<state, attempts, revision>> /\ Run' = Run
      BY <1>2 DEF runVars, Run
    <3>5. PICK goal : goal = new.goal
      OBVIOUS
    <3>6. Grounds(goal)'
      <4>1. state' = "WORKSPACE_PREPARING"
        BY <1>3, <1>5, <2>4, <2>8, <3>4, KnownAttempts DEF Phase
      <4>2. journal'[WorktreeAttempt].recon = "safe"
        BY <1>5, <2>1, <2>4, <2>8
      <4> QED BY <3>2, <3>5, <4>1, <4>2 DEF Grounds
    <3>7. SoundEver(new)'
      BY <1>3, <3>2, <3>4 DEF SoundEver, Attempting, Selecting
    <3>8. SoundNow(new)'
      BY <3>2, <3>3, <3>5, <3>6 DEF SoundNow, Attempting, Owning, Grounds
    <3>9. SoundOf(c)'
      <4>1. co'[c] = new
        BY <1>3, <1>5 DEF Goto, Types
      <4> QED BY <3>7, <3>8, <4>1 DEF SoundOf, Sound, SoundEver, SoundNow, Owning, Grounds
    <3> QED BY <2>6, <3>2, <3>3, <3>9
  <2> QED BY <2>7, <2>8
<1> QED BY <1>1, <1>4, <1>5 DEF reconcile, Refusing

\* An outcome that needs no settlement ends the call, but for a created worktree.
LEMMA UnmeteredEnds ==
    ASSUME NEW snap, NEW a \in Attempts, a[1] # "CONTEXT", NEW o, a[1] \in MeteredSteps => o = Refusal,
           ~(a[1] = "WORKSPACE" /\ o.status = "COMPLETED")
    PROVE  \E destination \in Refusing, increment \in AttemptCounterKinds \cup {NoIncrement} :
              Unmetered(snap, a, o) = Terminating(snap, destination, increment)
<1>1. CASE a[1] = "WORKSPACE"
  <2>1. Unmetered(snap, a, o) = Terminating(snap, "BLOCKED", NoIncrement)
    BY <1>1 DEF Unmetered
  <2> QED BY <2>1 DEF Refusing
<1>2. CASE a[1] = "VALIDATION"
  <2>1. \E destination \in {"BLOCKED", "FAILED"} : Unmetered(snap, a, o) = Terminating(snap, destination, NoIncrement)
    BY <1>2 DEF Unmetered
  <2> QED BY <2>1 DEF Refusing
<1>3. CASE a[1] \in {"BUILD", "REPAIR"}
  <2>1. o.status = "BLOCKED" /\ CounterOf(a[1]) \in AttemptCounterKinds
    BY <1>3, OutcomeValues DEF MeteredSteps, CounterOf, AttemptCounterKinds
  <2>2. Unmetered(snap, a, o) = Terminating(snap, "BLOCKED", CounterOf(a[1]))
    BY <1>3, <2>1 DEF Unmetered, After, AfterAgent
  <2> QED BY <2>1, <2>2 DEF Refusing
<1>4. CASE a[1] = "REVIEW"
  <2>1. o.status = "BLOCKED" /\ o.gate = "none"
    BY <1>4, OutcomeValues DEF MeteredSteps
  <2>2. Unmetered(snap, a, o) = Terminating(snap, "BLOCKED", NoIncrement)
    BY <1>4, <2>1 DEF Unmetered, After, AfterReview
  <2> QED BY <2>2 DEF Refusing
<1> QED BY <1>1, <1>2, <1>3, <1>4, AttemptPairs DEF Steps

LEMMA Record == ASSUME Inv, NEW c \in Coordinators, record(c) PROVE Inv'
<1>1. PICK l, a, o : l = co[c] /\ a = l.att /\ o = l.out
  OBVIOUS
<1>2. /\ l.pc = "record" /\ l.pc \in Attempting
      /\ UNCHANGED <<runVars, ledger, overage, worktree, clock, crashes, ghosts>> /\ UNCHANGED measured
  BY <1>1 DEF record, At, Attempting
<1>3. /\ Types /\ JournalInv /\ EffectInv /\ revision \in Nat
      /\ l \in Locals /\ l.snap \in Snapshots /\ SoundEver(l) /\ (Current(c) => SoundNow(l))
      /\ l.snap.revision <= revision /\ (l.snap.revision = revision => l.snap = Run)
      /\ a \in Attempts /\ a[1] \in Steps
      /\ Current(c) => state = Phase(a[1]) /\ l.snap = Run /\ l.snap.revision = revision
  BY <1>1, <1>2, AttemptFields
<1>4. CASE Stop(c) /\ UNCHANGED journal
  BY <1>2, <1>4, Rests DEF Silent
<1>5. ASSUME Current(c), journal[a].outcome \in {NoOutcome, o}, journal' = [journal EXCEPT ![a].outcome = o],
             NEW new, Goto(c, new),
             new = IF a \in Metered /\ o.evidence THEN [l EXCEPT !.pc = "settle"] ELSE Unmetered(l.snap, a, o)
      PROVE  Inv'
  <2>1. /\ o \in Outcomes /\ (a[1] \in MeteredSteps => o.evidence \/ o = Refusal)
        /\ a = WorktreeAttempt => o # Refusal
        /\ a[1] # "CONTEXT"
    BY <1>1, <1>2, <1>3 DEF SoundEver
  <2>2. /\ Begun(a[1], a[2] - 1) /\ journal[a].intent = revision
        /\ a[1] = "VALIDATION" /\ o.status = "COMPLETED" => validated
        /\ a[1] = "REVIEW" /\ o.gate = "APPROVABLE" => ~UnresolvedEffects
    BY <1>1, <1>2, <1>3, <1>5 DEF SoundNow
  <2>3. /\ Wrote(a) /\ journal'[a].outcome = o
        /\ journal'[a].intent = journal[a].intent /\ journal'[a].recon = journal[a].recon
    BY <1>3, <1>5, <2>1, WroteOutcome
  <2>4. journal'[a] = journal[a] \/ Grown(a)
    <3>1. Grown(a)
      BY <1>3, <1>5, <2>1, <2>2, <2>3, KnownAttempts DEF Grown, HasOutcome, NoIntent
    <3> QED BY <3>1
  <2>5. measured \subseteq measured' /\ measured' \subseteq 1 .. ContextRoles
    BY <1>2, <1>3 DEF Types
  <2>6. ASSUME NEW d \in Coordinators, d # c, Owning(co[d]), Current(d), co[d].att = a
        PROVE  journal'[a].outcome = Refusal /\ a # WorktreeAttempt
    <3>1. o # Refusal => Owning(co[c])
      BY <1>1, <1>2 DEF Owning
    <3>2. o = Refusal
      BY <1>3, <1>5, <2>6, <3>1 DEF EffectInv
    <3> QED BY <2>1, <2>3, <3>2
  <2>7. ASSUME new \in Locals, ~Owning(new), SoundOf(c)' PROVE Inv'
    <3>1. new.pc # "invoke"
      BY <2>7 DEF Owning
    <3> QED BY <1>2, <1>3, <1>5, <2>2, <2>3, <2>4, <2>5, <2>6, <2>7, <3>1, Writes
  <2>8. ASSUME NEW destination \in Refusing, NEW increment \in AttemptCounterKinds \cup {NoIncrement},
               new = Terminating(l.snap, destination, increment)
        PROVE  Inv'
    <3>1. new \in Locals /\ ~Owning(new) /\ Sound(new)
      BY <1>3, <2>8, SoundTerminating
    <3>2. SoundOf(c)'
      BY <1>2, <1>3, <1>5, <2>3, <2>4, <2>5, <3>1, SoundThen
    <3> QED BY <2>7, <3>1, <3>2
  <2>9. UNCHANGED <<state, attempts, revision>> /\ Run' = Run /\ Grows
    BY <1>2, <2>3, <2>4 DEF runVars, Run, Grows, Wrote
  <2>10. CASE a \in Metered /\ o.evidence
    <3>1. new = [l EXCEPT !.pc = "settle"]
      BY <1>5, <2>10
    <3>2. /\ new \in Locals /\ new.pc = "settle" /\ new.snap = l.snap /\ new.att = a /\ new.known = l.known
          /\ new.out = o
      BY <1>1, <1>3, <3>1 DEF Locals, PCs
    <3>3. ~Owning(new)
      BY <3>2 DEF Owning
    <3>4. \A b \in new.known : Evidence(b)'
      <4>1. new.known \subseteq Attempts /\ \A b \in new.known : Evidence(b)
        BY <1>3, <3>2, KnownAttempts DEF Locals, SoundEver
      <4> QED BY <1>3, <2>9, <4>1, GrowsKeeps DEF Evidence
    <3>5. Begun(a[1], a[2] - 1)'
      BY <1>3, <2>2, <2>9, BegunKept
    <3>6. SoundEver(new)'
      <4>1. l.snap.state = Phase(a[1]) /\ l.snap.revision = revision /\ l.snap = Run
        BY <1>1, <1>2, <1>3, <1>5 DEF SoundEver
      <4>2. journal'[a].intent = l.snap.revision /\ journal'[a].outcome = o
        BY <2>2, <2>3, <4>1
      <4>3. a \in Metered'
        BY <2>10 DEF Metered, Attempts, StepLimit
      <4> QED BY <1>3, <2>1, <2>9, <2>10, <3>2, <3>4, <4>1, <4>2, <4>3 DEF SoundEver, Attempting, Selecting
    <3>7. SoundNow(new)'
      BY <3>2, <3>3, <3>5 DEF SoundNow, Owning
    <3>8. SoundOf(c)'
      <4>1. co'[c] = new
        BY <1>3, <1>5 DEF Goto, Types
      <4> QED BY <3>6, <3>7, <4>1 DEF SoundOf, Sound, SoundEver, SoundNow, Owning, Grounds
    <3> QED BY <2>7, <3>2, <3>3, <3>8
  <2>11. CASE ~(a \in Metered /\ o.evidence)
    <3>1. new = Unmetered(l.snap, a, o)
      BY <1>5, <2>11
    <3>2. CASE a[1] = "WORKSPACE" /\ o.status = "COMPLETED"
      <4>1. new = Committing(l.snap, "BUILDING", NoIncrement, "loop") /\ "BUILDING" \in RunStates
        BY <3>1, <3>2 DEF Unmetered, Advancing, RunStates
      <4>2. /\ new \in Locals /\ new.pc = "commit" /\ new.snap = l.snap /\ new.known = {}
            /\ new.goal.destination = "BUILDING" /\ new.goal.increment = NoIncrement
        BY <1>3, <4>1, CommittingFields
      <4>3. ~Owning(new)
        BY <4>2 DEF Owning
      <4>4. PICK goal : goal = new.goal
        OBVIOUS
      <4>5. Grounds(goal)'
        <5>1. state' = "WORKSPACE_PREPARING" /\ a = WorktreeAttempt
          BY <1>3, <1>5, <2>9, <3>2, KnownAttempts DEF Phase
        <5>2. HasOutcome(WorktreeAttempt)'
          BY <2>1, <2>3, <5>1, OutcomeValues DEF HasOutcome
        <5> QED BY <4>2, <4>4, <5>1, <5>2 DEF Grounds
      <4>6. SoundEver(new)'
        BY <1>3, <2>9, <4>2 DEF SoundEver, Attempting, Selecting
      <4>7. SoundNow(new)'
        BY <4>2, <4>3, <4>4, <4>5 DEF SoundNow, Attempting, Owning, Grounds
      <4>8. SoundOf(c)'
        <5>1. co'[c] = new
          BY <1>3, <1>5 DEF Goto, Types
        <5> QED BY <4>6, <4>7, <5>1 DEF SoundOf, Sound, SoundEver, SoundNow, Owning, Grounds
      <4> QED BY <2>7, <4>2, <4>3, <4>8
    <3>3. CASE ~(a[1] = "WORKSPACE" /\ o.status = "COMPLETED")
      <4>1. a[1] \in MeteredSteps => o = Refusal
        BY <1>3, <2>1, <2>11, KnownAttempts
      <4>2. \E destination \in Refusing, increment \in AttemptCounterKinds \cup {NoIncrement} :
               new = Terminating(l.snap, destination, increment)
        BY <1>3, <2>1, <3>1, <3>3, <4>1, UnmeteredEnds
      <4> QED BY <2>8, <4>2
    <3> QED BY <3>2, <3>3
  <2> QED BY <2>10, <2>11
<1> QED BY <1>1, <1>4, <1>5 DEF record

LEMMA Launches ==
    ASSUME Inv, NEW c \in Coordinators, NEW l, l = co[c], l.pc = "reserve", Current(c), NEW a, a = l.att,
           Launch(c, a), ledger' \in [Metered -> {"none", "ACTIVE", "SETTLED", "UNRESOLVED"}],
           \A b \in Metered : ledger'[b] # "none" => ledger[b] # "none" \/ b = a,
           UNCHANGED <<runVars, journal, overage, measured, worktree, clock, crashes>>
    PROVE  Inv'
<1>0. l.pc \in Attempting
  BY DEF Attempting
<1>1. /\ Types /\ JournalInv /\ EffectInv /\ CountInv /\ VerdictInv /\ revision \in Nat
      /\ l \in Locals /\ SoundEver(l) /\ SoundNow(l) /\ l.snap = Run /\ Owning(l)
      /\ a \in Attempts /\ a[1] \in Steps /\ state = Phase(a[1])
  BY <1>0, AttemptFields DEF Inv, Owning
<1>2. /\ a[1] # "CONTEXT" /\ Begun(a[1], a[2] - 1) /\ journal[a].intent = revision
      /\ ~Evidence(a) /\ (a = WorktreeAttempt => ~HasOutcome(a)) /\ invoked[a] = 0
  BY <1>0, <1>1 DEF SoundEver, SoundNow
<1>3. PICK new : new = [l EXCEPT !.pc = "invoke"]
  OBVIOUS
<1>4. new \in Locals /\ new.pc = "invoke" /\ new.snap = Run /\ new.att = a /\ new.known = l.known
  BY <1>1, <1>3 DEF Locals, PCs
<1>5. /\ invoked' = [invoked EXCEPT ![a] = @ + 1] /\ validated' = (validated /\ a[1] \notin MutatingSteps)
      /\ co' = [co EXCEPT ![c] = new] /\ co'[c] = new /\ \A d \in Coordinators : d # c => co'[d] = co[d]
  BY <1>1, <1>3 DEF Launch, Goto, Types
<1>6. /\ invoked'[a] = 1 /\ \A b \in Attempts : b # a => invoked'[b] = invoked[b]
      /\ invoked' \in [Attempts -> Nat] /\ invoked \in [Attempts -> Nat]
      /\ \A b \in Attempts : invoked'[b] >= invoked[b]
  BY <1>1, <1>2, <1>5 DEF Types
<1>7. /\ UNCHANGED <<state, attempts, revision, ceiling>> /\ Run' = Run /\ Grows
      /\ UNCHANGED runVars /\ UNCHANGED <<journal, overage, measured, worktree, clock, crashes>>
  BY DEF runVars, Run, Grows
<1>8. Types'
  <2>1. co' \in [Coordinators -> Locals] /\ validated' \in BOOLEAN
    BY <1>1, <1>4, <1>5 DEF Types
  <2> QED BY <1>1, <1>6, <1>7, <2>1 DEF Types
<1>9. JournalInv' /\ CountInv'
  BY <1>1, <1>7, <1>8, JournalKept, CountKept
<1>10. validated /\ state \in {"VALIDATING", "REVIEWING", "APPROVED"} => validated'
  BY <1>1, <1>5 DEF Phase, Steps, MutatingSteps
<1>11. VerdictInv'
  BY <1>1, <1>7, <1>10, VerdictKept
<1>12. \A d \in Coordinators : d # c => ~(Owning(co[d]) /\ Current(d))
  BY <1>1 DEF EffectInv
<1>13. \A d \in Coordinators : d # c => ~At(d, "invoke")
  <2>1. state \notin Refusing
    BY <1>1, Phases
  <2> QED BY <1>1, <1>12, <2>1 DEF EffectInv, At, Owning
<1>14. Made => Made'
  BY <1>2, <1>5, <1>6, <1>4, <1>13, KnownAttempts DEF Made, At
<1>15. EffectInv'
  <2>1. \A b \in Attempts : invoked'[b] <= 1 /\ (invoked'[b] > 0 => HasIntent(b)')
    <3> TAKE b \in Attempts
    <3>1. CASE b = a
      BY <1>1, <1>2, <1>6, <1>7, <3>1 DEF HasIntent, NoIntent
    <3>2. CASE b # a
      BY <1>1, <1>6, <1>7, <3>2 DEF EffectInv, HasIntent
    <3> QED BY <3>1, <3>2
  <2>2. \A b \in Metered : ledger'[b] # "none" => invoked'[b] > 0
    <3> TAKE b \in Metered
    <3>1. b \in Attempts /\ (ledger[b] # "none" => invoked[b] > 0)
      BY <1>1, KnownAttempts DEF EffectInv
    <3>2. invoked'[b] >= invoked[b] /\ invoked'[b] \in Nat /\ invoked[b] \in Nat
      BY <1>6, <3>1
    <3> QED BY <1>6, <3>1, <3>2
  <2>3. \A d, e \in Coordinators : Owning(co[d])' /\ Owning(co[e])' /\ Current(d)' /\ Current(e)' => d = e
    BY <1>5, <1>7, <1>12 DEF Owning, Current
  <2>4. \A d, e \in Coordinators : At(d, "invoke")' /\ At(e, "invoke")' => d = e
    BY <1>5, <1>13 DEF At
  <2>5. \A d \in Coordinators : At(d, "invoke")' => Current(d)' \/ state' \in Refusing
    BY <1>4, <1>5, <1>7, <1>13 DEF At, Current
  <2>6. worktree' # "absent" \/ journal'[WorktreeAttempt].recon = "safe" => Made'
    BY <1>1, <1>7, <1>14 DEF EffectInv
  <2> QED BY <2>1, <2>2, <2>3, <2>4, <2>5, <2>6 DEF EffectInv, Metered, Attempts, StepLimit
<1>16. ASSUME NEW d \in Coordinators, d # c PROVE SoundOf(d)'
  <2>1. PICK k : k = co[d]
    OBVIOUS
  <2>2. k \in Locals /\ co'[d] = k /\ Sound(k)
    BY <1>1, <1>5, <1>16, <2>1 DEF SoundOf, Inv, Types
  <2>3. k.snap = Run => ~Owning(k)
    BY <1>12, <1>16, <2>1 DEF Current
  <2>4. k.pc = "reserve" \/ (k.pc = "record" /\ k.out.status = "COMPLETED") => Owning(k)
    BY OutcomeValues DEF Owning
  <2> QED BY <1>1, <1>6, <1>7, <1>14, <2>2, <2>3, <2>4, SoundKept
<1>17. SoundOf(c)'
  <2>1. SoundEver(new)'
    <3>1. \A b \in new.known : Evidence(b)'
      BY <1>1, <1>4, <1>7 DEF SoundEver, Evidence
    <3>2. Run.revision = revision /\ Run.state = state
      BY RunFields
    <3> QED BY <1>1, <1>2, <1>4, <1>6, <1>7, <3>1, <3>2 DEF SoundEver, Attempting, Selecting
  <2>2. SoundNow(new)'
    <3>1. Begun(a[1], a[2] - 1)'
      BY <1>1, <1>2, <1>7, BegunKept
    <3>2. ~Evidence(a)' /\ (a = WorktreeAttempt => ~HasOutcome(a)')
      BY <1>2, <1>7 DEF Evidence, HasOutcome
    <3> QED BY <1>2, <1>4, <1>7, <3>1, <3>2 DEF SoundNow
  <2> QED BY <1>5, <2>1, <2>2 DEF SoundOf, Sound, SoundEver, SoundNow, Owning, Grounds
<1> QED BY <1>8, <1>9, <1>11, <1>15, <1>16, <1>17 DEF Inv

LEMMA Reserve == ASSUME Inv, NEW c \in Coordinators, reserve(c) PROVE Inv'
<1>1. PICK l, a : l = co[c] /\ a = l.att
  OBVIOUS
<1>2. /\ l.pc = "reserve" /\ l.pc \in Attempting
      /\ UNCHANGED <<runVars, journal, overage, measured, worktree, clock, crashes>>
  BY <1>1 DEF reserve, At, Attempting
<1>3. /\ Types /\ JournalInv /\ EffectInv /\ revision \in Nat
      /\ l \in Locals /\ SoundEver(l) /\ (Current(c) => SoundNow(l))
      /\ a \in Attempts
      /\ l.snap.revision <= revision /\ (l.snap.revision = revision => l.snap = Run)
      /\ Current(c) => state = Phase(a[1]) /\ l.snap = Run
  BY <1>1, <1>2, AttemptFields
<1>4. CASE Stop(c) /\ UNCHANGED <<ledger, invoked, validated>>
  <2>1. Silent
    BY <1>2, <1>4 DEF Silent, ghosts
  <2> QED BY <1>4, <2>1, Rests
<1>5. CASE /\ Current(c) /\ a \in Metered
           /\ Goto(c, [l EXCEPT !.pc = "record", !.out = Refusal]) /\ UNCHANGED <<ledger, invoked, validated>>
  <2>1. Silent
    BY <1>2, <1>5 DEF Silent, ghosts
  <2>2. PICK new : new = [l EXCEPT !.pc = "record", !.out = Refusal]
    OBVIOUS
  <2>3. /\ new \in Locals /\ new.pc = "record" /\ new.snap = l.snap /\ new.att = a /\ new.known = l.known
        /\ new.out = Refusal
    BY <1>1, <1>3, <2>2, OutcomeValues DEF Locals, PCs
  <2>4. a # WorktreeAttempt
    BY <1>3, <1>5, KnownAttempts DEF MeteredSteps
  <2>5. SoundEver(new)
    BY <1>1, <1>2, <1>3, <2>3, <2>4, OutcomeValues DEF SoundEver, Attempting, Selecting
  <2>6. SoundNow(new) /\ ~Owning(new)
    BY <1>1, <1>2, <1>3, <1>5, <2>3, OutcomeValues DEF SoundNow, Owning
  <2> QED BY <1>5, <2>1, <2>2, <2>3, <2>5, <2>6, Reads DEF Sound
<1>6. CASE Current(c) /\ Launch(c, a) /\ UNCHANGED ledger
  <2>1. /\ ledger' \in [Metered -> {"none", "ACTIVE", "SETTLED", "UNRESOLVED"}]
        /\ \A b \in Metered : ledger'[b] # "none" => ledger[b] # "none" \/ b = a
    BY <1>3, <1>6 DEF Types
  <2> QED BY <1>1, <1>2, <1>6, <2>1, Launches
<1>7. CASE Current(c) /\ a \in Metered /\ Launch(c, a) /\ ledger' = [ledger EXCEPT ![a] = "ACTIVE"]
  <2>1. /\ ledger' \in [Metered -> {"none", "ACTIVE", "SETTLED", "UNRESOLVED"}]
        /\ \A b \in Metered : ledger'[b] # "none" => ledger[b] # "none" \/ b = a
    BY <1>3, <1>7 DEF Types
  <2> QED BY <1>1, <1>2, <1>7, <2>1, Launches
<1> QED BY <1>1, <1>4, <1>5, <1>6, <1>7 DEF reserve

LEMMA Returns ==
    ASSUME Inv, NEW c \in Coordinators, NEW l, l = co[c], l.pc = "invoke", NEW a, a = l.att,
           NEW o \in Outcomes, Goto(c, [l EXCEPT !.pc = "record", !.out = o]),
           a[1] \in MeteredSteps => o.evidence, a = WorktreeAttempt => o # Refusal,
           a[1] = "VALIDATION" /\ o.status = "COMPLETED" => validated',
           a[1] = "REVIEW" /\ o.gate = "APPROVABLE" => ~UnresolvedEffects,
           validated' \in BOOLEAN, validated' = validated \/ a[1] \in {"BUILD", "REPAIR", "VALIDATION"},
           worktree' = worktree \/ (a[1] = "WORKSPACE" /\ worktree' \in {"absent", "active", "broken"}),
           UNCHANGED <<runVars, journal, ledger, overage, measured, clock, crashes, invoked>>
    PROVE  Inv'
<1>0. l.pc \in Attempting
  BY DEF Attempting
<1>1. /\ Types /\ JournalInv /\ EffectInv /\ VerdictInv /\ revision \in Nat
      /\ l \in Locals /\ SoundEver(l) /\ (Current(c) => SoundNow(l)) /\ Owning(l) /\ At(c, "invoke")
      /\ l.snap.revision <= revision /\ (l.snap.revision = revision => l.snap = Run)
      /\ a \in Attempts /\ a[1] \in Steps /\ (Current(c) => state = Phase(a[1]) /\ l.snap = Run)
  BY <1>0, AttemptFields DEF Inv, Owning, At
<1>2. /\ UNCHANGED <<state, attempts, revision, ceiling>> /\ Run' = Run /\ Grows
      /\ UNCHANGED runVars /\ UNCHANGED <<journal, ledger, overage, measured, clock, crashes, invoked>>
  BY DEF runVars, Run, Grows
<1>3. PICK new : new = [l EXCEPT !.pc = "record", !.out = o]
  OBVIOUS
<1>4. /\ new \in Locals /\ new.pc = "record" /\ new.snap = l.snap /\ new.att = a /\ new.known = l.known
      /\ new.out = o
  BY <1>1, <1>3 DEF Locals, PCs
<1>5. co' = [co EXCEPT ![c] = new] /\ co'[c] = new
  BY <1>1, <1>3 DEF Goto, Types
<1>6. Types'
  <2>1. co' \in [Coordinators -> Locals]
    BY <1>1, <1>4, <1>5 DEF Types
  <2>2. worktree' \in {"absent", "active", "broken"}
    BY <1>1 DEF Types
  <2> QED BY <1>1, <1>2, <2>1, <2>2 DEF Types
<1>7. \A d \in Coordinators : Owning(co[d]) /\ Current(d) => d = c
  <2> TAKE d \in Coordinators
  <2>1. CASE Current(c)
    BY <1>1, <2>1 DEF EffectInv
  <2>2. CASE ~Current(c)
    <3>1. state \in Refusing
      BY <1>1, <2>2 DEF EffectInv
    <3>2. Owning(co[d]) => co[d].pc \in Attempting
      BY DEF Owning, Attempting
    <3>3. Owning(co[d]) /\ Current(d) => co[d].att[1] \in Steps /\ state = Phase(co[d].att[1])
      BY <3>2, AttemptFields
    <3> QED BY <3>1, <3>3, Phases
  <2> QED BY <2>1, <2>2
<1>8. UnresolvedEffects' <=> UnresolvedEffects
  BY <1>2 DEF UnresolvedEffects, HasIntent, HasOutcome, Mutating, Attempts, StepLimit
<1>9. VerdictInv'
  <2>1. state \in {"REVIEWING", "APPROVED"} => validated'
    <3>1. CASE validated' = validated
      BY <1>1, <3>1 DEF VerdictInv
    <3>2. CASE a[1] \in {"BUILD", "REPAIR", "VALIDATION"}
      <4>1. Phase(a[1]) \notin {"REVIEWING", "APPROVED"}
        BY <3>2 DEF Phase
      <4>2. state = Phase(a[1]) \/ state \in Refusing
        BY <1>1 DEF EffectInv
      <4> QED BY <4>1, <4>2 DEF Refusing
    <3> QED BY <3>1, <3>2
  <2>2. ASSUME NEW b \in Metered, journal[b].intent = revision, b[1] = "VALIDATION",
               journal[b].outcome.status = "COMPLETED"
        PROVE  validated'
    <3>1. CASE validated' = validated
      BY <1>1, <2>2, <3>1 DEF VerdictInv
    <3>2. CASE validated' # validated
      <4>1. b \in Attempts /\ state = Phase("VALIDATION") /\ HasOutcome(b) /\ "VALIDATION" \in Steps
        BY <1>1, <2>2, KnownAttempts, OutcomeValues DEF JournalInv, HasOutcome, Steps
      <4>2. Current(c)
        BY <1>1, <4>1, Phases DEF EffectInv
      <4>3. a[1] = "VALIDATION"
        BY <1>1, <4>1, <4>2, Phases
      <4>4. journal[a].intent = revision /\ ~Evidence(a)
        BY <1>1, <4>2 DEF SoundNow
      <4>5. a = b
        BY <1>1, <2>2, <4>1, <4>3, <4>4, OneNow
      <4>6. Evidence(b) \/ journal[b].outcome = Refusal
        BY <1>1, <2>2, <4>1 DEF JournalInv
      <4> QED BY <2>2, <4>4, <4>5, <4>6, OutcomeValues
    <3> QED BY <3>1, <3>2
  <2> QED BY <1>1, <1>2, <1>8, <2>1, <2>2 DEF VerdictInv, Metered, Attempts, StepLimit
<1>10. SoundEver(new)'
  <2>1. \A b \in new.known : Evidence(b)'
    BY <1>1, <1>2, <1>4 DEF SoundEver, Evidence
  <2>2. l.snap.state = Phase(a[1]) /\ a[1] # "CONTEXT"
    BY <1>0, <1>1 DEF SoundEver
  <2> QED BY <1>1, <1>2, <1>4, <2>1, <2>2 DEF SoundEver, Attempting, Selecting
<1>11. ASSUME new.snap = Run' PROVE SoundNow(new)'
  <2>1. Current(c) /\ SoundNow(l)
    BY <1>1, <1>2, <1>4, <1>11 DEF Current
  <2>2. Begun(a[1], a[2] - 1)' /\ journal'[a].intent = revision'
    <3>1. Begun(a[1], a[2] - 1) /\ journal[a].intent = revision
      BY <1>0, <2>1 DEF SoundNow
    <3> QED BY <1>1, <1>2, <3>1, BegunKept
  <2>3. ~Evidence(a)' /\ (a = WorktreeAttempt => ~HasOutcome(a)')
    BY <1>1, <1>2, <2>1 DEF SoundNow, Evidence, HasOutcome
  <2> QED BY <1>4, <1>8, <2>2, <2>3 DEF SoundNow
<1>12. SoundOf(c)'
  BY <1>5, <1>10, <1>11 DEF SoundOf, Sound, SoundEver, SoundNow, Owning, Grounds
<1>13. \/ worktree' = worktree
       \/ At(c, "invoke") /\ co[c].att = WorktreeAttempt /\ invoked[WorktreeAttempt] > 0
  BY <1>1, KnownAttempts DEF SoundEver
<1>14. UNCHANGED <<runVars, invoked>> /\ measured \subseteq measured' /\ new.pc # "invoke"
       /\ (\A b \in Metered : ledger'[b] # "none" => ledger[b] # "none")
       /\ (journal'[WorktreeAttempt].recon = "safe" => journal[WorktreeAttempt].recon = "safe" \/ Made)
  BY <1>2, <1>4
<1>15. \A d \in Coordinators : d # c /\ Owning(co[d]) /\ Current(d) =>
          /\ \/ journal'[co[d].att].outcome = journal[co[d].att].outcome
             \/ journal'[co[d].att].outcome = Refusal /\ co[d].att # WorktreeAttempt
          /\ co[d].att[1] = "VALIDATION" /\ validated => validated'
  BY <1>7
<1> QED BY <1>2, <1>4, <1>5, <1>6, <1>7, <1>9, <1>12, <1>13, <1>14, <1>15, Transfers

LEMMA Invoke == ASSUME Inv, NEW c \in Coordinators, invoke(c) PROVE Inv'
<1>1. PICK l, a : l = co[c] /\ a = l.att
  OBVIOUS
<1>2. /\ l.pc = "invoke" /\ l.pc \in Attempting /\ Types /\ a \in Attempts
      /\ UNCHANGED <<runVars, journal, ledger, overage, measured, clock, crashes, invoked>>
  <2>1. l.pc = "invoke" /\ UNCHANGED <<runVars, journal, ledger, overage, measured, clock, crashes, invoked>>
    BY <1>1 DEF invoke, At
  <2>2. l.pc \in Attempting
    BY <2>1 DEF Attempting
  <2> QED BY <1>1, <2>1, <2>2, AttemptFields
<1>3. validated \in BOOLEAN
  BY <1>2 DEF Types
<1>4. CASE /\ a[1] \in {"BUILD", "REPAIR"} /\ validated' = FALSE /\ UNCHANGED worktree
           /\ \E o \in AgentOutcomes : Goto(c, [l EXCEPT !.pc = "record", !.out = o])
  <2>1. PICK o \in AgentOutcomes : Goto(c, [l EXCEPT !.pc = "record", !.out = o])
    BY <1>4
  <2>2. o \in Outcomes /\ o.evidence /\ a # WorktreeAttempt /\ a[1] \notin {"VALIDATION", "REVIEW"}
    BY <1>4, OutcomeSets DEF WorktreeAttempt
  <2>3. validated' \in BOOLEAN /\ worktree' = worktree /\ a[1] \in {"BUILD", "REPAIR", "VALIDATION"}
    BY <1>4
  <2> QED BY <1>1, <1>2, <2>1, <2>2, <2>3, Returns
<1>5. CASE /\ a[1] = "VALIDATION" /\ UNCHANGED worktree
           /\ \E o \in ValidationOutcomes : /\ Goto(c, [l EXCEPT !.pc = "record", !.out = o])
                                            /\ validated' = (o.status = "COMPLETED")
  <2>1. PICK o \in ValidationOutcomes : /\ Goto(c, [l EXCEPT !.pc = "record", !.out = o])
                                        /\ validated' = (o.status = "COMPLETED")
    BY <1>5
  <2>2. o \in Outcomes /\ o.evidence /\ a # WorktreeAttempt
    BY <1>5, OutcomeSets DEF WorktreeAttempt
  <2>3. validated' \in BOOLEAN /\ (o.status = "COMPLETED" => validated')
    BY <2>1
  <2> QED BY <1>1, <1>2, <1>5, <2>1, <2>2, <2>3, Returns
<1>6. CASE /\ a[1] = "REVIEW" /\ UNCHANGED <<worktree, validated>>
           /\ \E o \in ReviewOutcomes : /\ o.gate = "APPROVABLE" => ~UnresolvedEffects
                                        /\ Goto(c, [l EXCEPT !.pc = "record", !.out = o])
  <2>1. PICK o \in ReviewOutcomes : /\ o.gate = "APPROVABLE" => ~UnresolvedEffects
                                    /\ Goto(c, [l EXCEPT !.pc = "record", !.out = o])
    BY <1>6
  <2>2. o \in Outcomes /\ o.evidence /\ a # WorktreeAttempt
    BY <1>6, OutcomeSets DEF WorktreeAttempt
  <2>3. validated' \in BOOLEAN /\ validated' = validated /\ worktree' = worktree
    BY <1>3, <1>6
  <2> QED BY <1>1, <1>2, <1>6, <2>1, <2>2, <2>3, Returns
<1>7. CASE /\ a[1] = "WORKSPACE" /\ UNCHANGED validated /\ worktree' \in {"absent", "active", "broken"}
           /\ \E o \in {WorktreeCreated, WorktreeRefused} : Goto(c, [l EXCEPT !.pc = "record", !.out = o])
  <2>1. PICK o \in {WorktreeCreated, WorktreeRefused} : Goto(c, [l EXCEPT !.pc = "record", !.out = o])
    BY <1>7
  <2>2. o \in Outcomes /\ o # Refusal /\ a[1] \notin MeteredSteps
    BY <1>7, OutcomeSets DEF MeteredSteps
  <2>3. validated' \in BOOLEAN /\ validated' = validated
    BY <1>3, <1>7
  <2> QED BY <1>1, <1>2, <1>7, <2>1, <2>2, <2>3, Returns
<1> QED BY <1>1, <1>4, <1>5, <1>6, <1>7 DEF invoke

-----------------------------------------------------------------------------
(* The transition of the run.                                               *)

\* A phase is left for another one only on its grounds.
LEMMA CommitGrounds ==
    ASSUME Inv, NEW c \in Coordinators, At(c, "commit"), Committable(c),
           NEW goal, goal = co[c].goal, goal.destination \notin Refusing
    PROVE  /\ state \notin Refusing /\ Grounds(goal)
           /\ \A b \in Metered : journal[b].intent = revision => Evidence(b) /\ goal.increment = Counter(b[1])
           /\ \A d \in Coordinators : ~At(d, "invoke")
<1>1. /\ Types /\ JournalInv /\ EffectInv /\ revision \in Nat /\ SoundOf(c) /\ Current(c)
      /\ goal.destination \in permitted_destinations(state)
  BY RunNow, RunFields DEF Inv, Committable, GoalAccepted, Current
<1>2. Grounds(goal)
  BY <1>1 DEF SoundOf, Sound, SoundNow, Current, At
<1>3. state \notin Refusing
  BY <1>1 DEF permitted_destinations, Edges, ForwardEdges, TerminalStates, Refusing
<1>4. ASSUME NEW b \in Attempts, b[1] # "CONTEXT", journal[b].intent = revision, state = Phase(b[1])
      PROVE  \/ b = WorktreeAttempt /\ (HasOutcome(b) \/ journal[b].recon = "safe")
             \/ b \in Metered /\ Evidence(b) /\ goal.increment = Counter(b[1])
  <2>1. b[1] \in Steps
    BY AttemptPairs
  <2>2. state \notin {"CREATED", "PLANNING", "CONTEXT_PREPARING"}
    BY <1>4, <2>1 DEF Steps, Phase
  <2>3. CASE state = "WORKSPACE_PREPARING" /\ (HasOutcome(WorktreeAttempt) \/ journal[WorktreeAttempt].recon = "safe")
    <3>1. b[1] = "WORKSPACE"
      BY <1>4, <2>1, <2>3 DEF Steps, Phase
    <3> QED BY <2>3, <3>1, KnownAttempts
  <2>4. CASE \E a \in Metered : journal[a].intent = revision /\ Evidence(a) /\ goal.increment = Counter(a[1])
    <3>1. PICK a \in Metered : journal[a].intent = revision /\ Evidence(a) /\ goal.increment = Counter(a[1])
      BY <2>4
    <3>2. a \in Attempts /\ a[1] \in Steps /\ state = Phase(a[1])
      BY <1>1, <3>1, KnownAttempts, AttemptPairs DEF JournalInv
    <3>3. a[1] = b[1]
      BY <1>4, <2>1, <3>2, Phases
    <3>4. a = b
      BY <1>1, <1>4, <3>1, <3>2, <3>3, OneNow
    <3> QED BY <3>1, <3>4
  <2> QED BY <1>2, <2>2, <2>3, <2>4 DEF Grounds
<1>5. \A b \in Metered : journal[b].intent = revision => Evidence(b) /\ goal.increment = Counter(b[1])
  <2> TAKE b \in Metered
  <2>1. b \in Attempts /\ b[1] # "CONTEXT" /\ b # WorktreeAttempt
    BY KnownAttempts DEF MeteredSteps
  <2>2. journal[b].intent = revision => state = Phase(b[1])
    BY <1>1, <2>1 DEF JournalInv
  <2> QED BY <1>4, <2>1, <2>2
<1>6. ASSUME NEW d \in Coordinators, At(d, "invoke") PROVE FALSE
  <2>1. PICK l, a : l = co[d] /\ a = l.att
    OBVIOUS
  <2>2. l.pc = "invoke" /\ l.pc \in Attempting /\ Current(d)
    BY <1>1, <1>3, <1>6, <2>1 DEF At, Attempting, EffectInv
  <2>3. a \in Attempts /\ state = Phase(a[1]) /\ SoundNow(l) /\ SoundEver(l)
    BY <2>1, <2>2, AttemptFields
  <2>4. /\ a[1] # "CONTEXT" /\ journal[a].intent = revision
        /\ ~Evidence(a) /\ (a = WorktreeAttempt => ~HasOutcome(a))
    BY <2>1, <2>2, <2>3 DEF SoundNow, SoundEver, Owning
  <2>5. a = WorktreeAttempt /\ journal[a].recon = "safe"
    BY <1>4, <2>3, <2>4
  <2> QED BY <1>1, <1>6, <2>1, <2>5 DEF EffectInv, Made
<1> QED BY <1>2, <1>3, <1>5, <1>6

\* The counter of a phase that is left follows the journal.
LEMMA CountsNext ==
    ASSUME Types, JournalInv, NEW step \in {"BUILD", "REVIEW", "REPAIR"}, NEW k \in Nat, NEW n \in Nat,
           Begun(step, k), UNCHANGED journal, revision' = revision + 1,
           IF \E s \in 1 .. StepLimit(step) : journal[<<step, s>>].intent = revision THEN n = k + 1 ELSE n = k
    PROVE  Begun(step, n)'
<1>0. revision \in Nat /\ step \in Steps /\ step # "CONTEXT" /\ StepLimit(step) \in Nat
  BY RunNow, Limits DEF Steps
<1>1. ASSUME NEW s \in 1 .. StepLimit(step)
      PROVE  /\ journal[<<step, s>>].intent \in Nat \cup {NoIntent} /\ journal[<<step, s>>].intent <= revision
             /\ journal[<<step, s>>].intent \in 0 .. revision - 1 <=> s <= k
             /\ <<step, s>> \in Attempts
  BY <1>0, AttemptPairs DEF Types, JournalInv, Begun
<1>2. \A s \in 1 .. StepLimit(step) :
         journal[<<step, s>>].intent \in 0 .. revision <=> s <= k \/ journal[<<step, s>>].intent = revision
  BY <1>0, <1>1 DEF NoIntent
<1>3. CASE \E s \in 1 .. StepLimit(step) : journal[<<step, s>>].intent = revision
  <2>1. PICK m \in 1 .. StepLimit(step) : journal[<<step, m>>].intent = revision
    BY <1>3
  <2>2. PICK b : b = <<step, m>>
    OBVIOUS
  <2>3. b \in Attempts /\ b[1] = step /\ b[2] = m /\ HasIntent(b)
    BY <1>0, <1>1, <2>1, <2>2 DEF HasIntent, NoIntent
  <2>4. ASSUME NEW s \in 1 .. StepLimit(step), s < m PROVE s <= k
    <3>1. PICK a : a = <<step, s>>
      OBVIOUS
    <3>2. a \in Attempts /\ a[1] = step /\ a[2] = s
      BY <1>1, <3>1
    <3>3. HasIntent(a) /\ journal[a].intent < journal[b].intent
      BY <1>0, <2>3, <2>4, <3>2 DEF JournalInv
    <3> QED BY <1>0, <1>1, <2>1, <2>2, <3>1, <3>3 DEF HasIntent
  <2>5. ~(m <= k)
    BY <1>0, <1>1, <2>1
  <2>6. m = k + 1
    <3>1. m - 1 \in 1 .. StepLimit(step) \/ m = 1
      BY <1>0
    <3>2. m - 1 <= k
      BY <1>0, <2>4, <3>1
    <3> QED BY <1>0, <2>5, <3>2
  <2>7. ASSUME NEW s \in 1 .. StepLimit(step), journal[<<step, s>>].intent = revision PROVE s = m
    <3>1. PICK a : a = <<step, s>>
      OBVIOUS
    <3>2. a \in Attempts /\ a[1] = step /\ a[2] = s /\ journal[a].intent = revision
      BY <1>1, <2>7, <3>1
    <3>3. a = b
      BY <1>0, <2>1, <2>2, <2>3, <3>2, OneNow
    <3> QED BY <2>3, <3>2, <3>3
  <2>8. \A s \in 1 .. StepLimit(step) : journal[<<step, s>>].intent \in 0 .. revision <=> s <= n
    BY <1>0, <1>2, <1>3, <2>1, <2>6, <2>7
  <2> QED BY <1>0, <2>8 DEF Begun, StepLimit
<1>4. CASE ~\E s \in 1 .. StepLimit(step) : journal[<<step, s>>].intent = revision
  <2>1. \A s \in 1 .. StepLimit(step) : journal[<<step, s>>].intent \in 0 .. revision <=> s <= n
    BY <1>2, <1>4
  <2> QED BY <1>0, <2>1 DEF Begun, StepLimit
<1> QED BY <1>3, <1>4

\* The transition of the committing coordinator.
Transition(c) ==
    /\ At(c, "commit") /\ Committable(c)
    /\ state' = co[c].goal.destination /\ revision' = revision + 1 /\ UNCHANGED ceiling
    /\ attempts' = [k \in AttemptCounterKinds |->
                       IF k = co[c].goal.increment THEN attempts[k] + 1 ELSE attempts[k]]
    /\ UNCHANGED <<journal, ledger, overage, measured, worktree, clock, crashes, ghosts>>

LEMMA CountsAfter ==
    ASSUME Inv, NEW c \in Coordinators, Transition(c)
    PROVE  CountInv'
<1>0. PICK goal : goal = co[c].goal
  OBVIOUS
<1>1. /\ Types /\ JournalInv /\ revision \in Nat /\ attempts \in [AttemptCounterKinds -> Nat]
      /\ revision' = revision + 1 /\ UNCHANGED journal /\ UNCHANGED measured /\ state' = goal.destination
      /\ attempts' = [k \in AttemptCounterKinds |-> IF k = goal.increment THEN attempts[k] + 1 ELSE attempts[k]]
  BY <1>0, RunNow, RunFields DEF Inv, Transition, Snapshots
<1>2. SUFFICES ASSUME goal.destination \notin Refusing PROVE CountInv'
  BY <1>1 DEF CountInv
<1>3. /\ state \notin Refusing /\ Grounds(goal) /\ CountInv
      /\ \A b \in Metered : journal[b].intent = revision => Evidence(b) /\ goal.increment = Counter(b[1])
      /\ goal.destination \in permitted_destinations(state)
  BY <1>0, <1>2, CommitGrounds, RunFields DEF Transition, Inv, Committable, GoalAccepted, Current
<1>4. \A a \in Metered : journal[a].intent \in 0 .. revision => HasOutcome(a)
  <2> TAKE a \in Metered
  <2>1. CASE journal[a].intent = revision
    BY <1>3, <2>1, OutcomeValues DEF Evidence, HasOutcome
  <2>2. CASE journal[a].intent # revision
    <3>1. journal[a].intent \in 0 .. revision => journal[a].intent \in 0 .. revision - 1
      BY <1>1, <2>2
    <3> QED BY <1>3, <3>1 DEF CountInv
  <2> QED BY <2>1, <2>2
<1>5. ASSUME NEW step \in {"BUILD", "REVIEW", "REPAIR"}, NEW kind \in AttemptCounterKinds, Counter(step) = kind,
             Begun(step, attempts[kind])
      PROVE  Begun(step, attempts[kind])'
  <2>1. PICK k, n : k = attempts[kind] /\ n = attempts'[kind]
    OBVIOUS
  <2>2. k \in Nat /\ n = (IF kind = goal.increment THEN k + 1 ELSE k) /\ n \in Nat
    BY <1>1, <2>1
  <2>3. (\E s \in 1 .. StepLimit(step) : journal[<<step, s>>].intent = revision) <=> kind = goal.increment
    <3>1. ASSUME NEW s \in 1 .. StepLimit(step), journal[<<step, s>>].intent = revision PROVE kind = goal.increment
      <4>1. PICK b : b = <<step, s>>
        OBVIOUS
      <4>2. b \in Attempts /\ b[1] = step /\ step \in MeteredSteps
        BY <4>1, AttemptPairs DEF Steps, MeteredSteps
      <4>3. b \in Metered
        BY <4>2, KnownAttempts
      <4> QED BY <1>3, <1>5, <3>1, <4>1, <4>2, <4>3
    <3>2. ASSUME kind = goal.increment PROVE \E s \in 1 .. StepLimit(step) : journal[<<step, s>>].intent = revision
      <4>1. kind # NoIncrement
        BY DEF AttemptCounterKinds, NoIncrement
      <4>2. PICK a \in Metered : journal[a].intent = revision /\ goal.increment = Counter(a[1])
        BY <1>3, <3>2, <4>1 DEF Grounds
      <4>3. a \in Attempts /\ a[2] \in 1 .. StepLimit(a[1]) /\ a = <<a[1], a[2]>>
        BY KnownAttempts, AttemptPairs
      <4>4. a[1] = step
        <5>1. a[1] \in MeteredSteps
          BY KnownAttempts
        <5> QED BY <1>5, <3>2, <4>2, <5>1 DEF MeteredSteps, Counter, NoIncrement
      <4> QED BY <4>2, <4>3, <4>4
    <3> QED BY <3>1, <3>2
  <2>4. Begun(step, n)'
    BY <1>1, <1>5, <2>1, <2>2, <2>3, CountsNext
  <2> QED BY <2>1, <2>4 DEF Begun
<1>6. /\ Begun("BUILD", attempts["build"])' /\ Begun("REVIEW", attempts["review"])'
      /\ Begun("REPAIR", attempts["repair"])'
  <2>1. {"build", "review", "repair"} = AttemptCounterKinds
    BY DEF AttemptCounterKinds
  <2>2. Counter("BUILD") = "build" /\ Counter("REVIEW") = "review" /\ Counter("REPAIR") = "repair"
    BY DEF Counter
  <2>3. /\ Begun("BUILD", attempts["build"]) /\ Begun("REVIEW", attempts["review"])
        /\ Begun("REPAIR", attempts["repair"])
    BY <1>3 DEF CountInv
  <2> QED BY <1>5, <2>1, <2>2, <2>3
<1>7. state' \in Working5 => ContextUpTo(ContextRoles + 1)'
  <2>1. state' \in Working5 => ContextUpTo(ContextRoles + 1)
    <3>1. CASE state \in Working5
      BY <1>3, <3>1 DEF CountInv
    <3>2. CASE state \notin Working5
      <4>1. state' \in Working5 => state = "CONTEXT_PREPARING"
        BY <1>1, <1>3, <3>2 DEF permitted_destinations, Edges, ForwardEdges, Working5
      <4>2. \A a \in Metered : journal[a].intent = revision => state # "CONTEXT_PREPARING"
        <5> TAKE a \in Metered
        <5>1. a \in Attempts /\ a[1] \in MeteredSteps
          BY KnownAttempts
        <5> QED BY <1>1, <5>1 DEF JournalInv, MeteredSteps, Phase
      <4> QED BY <1>3, <4>1, <4>2 DEF Grounds
    <3> QED BY <3>1, <3>2
  <2> QED BY <1>1, <2>1 DEF ContextUpTo
<1>8. \A a \in Metered : journal'[a].intent \in 0 .. revision' - 1 => HasOutcome(a)'
  <2>1. revision' - 1 = revision
    BY <1>1
  <2> QED BY <1>1, <1>4, <2>1 DEF HasOutcome
<1> QED BY <1>6, <1>7, <1>8 DEF CountInv, Metered, Attempts, StepLimit

LEMMA Transitions ==
    ASSUME Inv, NEW c \in Coordinators, Transition(c), NEW new \in Locals, Goto(c, new),
           new.pc \in {"idle", "loop", "enter"}, new.known = {}, new.snap = FirstRun \/ new.snap = Run'
    PROVE  Inv'
<1>0. PICK goal : goal = co[c].goal
  OBVIOUS
<1>1. /\ Types /\ JournalInv /\ EffectInv /\ VerdictInv /\ revision \in Nat /\ Run \in Snapshots
      /\ attempts \in [AttemptCounterKinds -> Nat]
      /\ revision' = revision + 1 /\ state' = goal.destination /\ UNCHANGED ceiling
      /\ UNCHANGED <<journal, ledger, overage, measured, worktree, clock, crashes, invoked, validated>>
      /\ attempts' = [k \in AttemptCounterKinds |-> IF k = goal.increment THEN attempts[k] + 1 ELSE attempts[k]]
  BY <1>0, RunNow, RunFields DEF Inv, Transition, ghosts, Snapshots
<1>2. /\ co[c] \in Locals /\ co[c].pc = "commit" /\ goal.destination \in RunStates
      /\ goal.destination \in permitted_destinations(state)
  BY <1>0, <1>1, RunFields DEF Types, Locals, Goals, Transition, At, Committable, GoalAccepted, Current
<1>3. Run' \in Snapshots /\ Run'.revision = revision + 1 /\ Run'.state = state'
  <2>1. attempts' \in [AttemptCounterKinds -> Nat]
    BY <1>1
  <2> QED BY <1>1, <1>2, <2>1 DEF Run, Snapshots
<1>4. /\ co'[c] = new /\ \A d \in Coordinators : d # c => co'[d] = co[d]
      /\ co' \in [Coordinators -> Locals]
  BY <1>1 DEF Goto, Types
<1>5. Types'
  BY <1>1, <1>3, <1>4 DEF Types
<1>6. \A d \in Coordinators : co[d] \in Locals /\ SoundEver(co[d]) /\ co[d].snap.revision <= revision
                              /\ co[d].snap.revision \in Nat
  BY <1>1 DEF Inv, Types, Locals, Snapshots, SoundOf, Sound, SoundEver
<1>7. Made <=> Made'
  BY <1>1, <1>2, <1>4 DEF Made, At
<1>8. JournalInv'
  <2>1. \A a \in Attempts : journal[a].intent <= revision /\ journal[a].intent \in Nat \cup {NoIntent}
    BY <1>1 DEF JournalInv, Types
  <2>2. \A a \in Attempts : journal[a].intent <= revision + 1 /\ journal[a].intent # revision + 1
    BY <1>1, <2>1 DEF NoIntent
  <2>3. revision' # 0
    BY <1>1
  <2> QED BY <1>1, <2>2, <2>3 DEF JournalInv, HasIntent, HasOutcome, Evidence, Metered, Attempts, StepLimit
<1>9. CountInv'
  BY CountsAfter
<1>10. ~Owning(new) /\ new.pc # "invoke"
  BY DEF Owning
<1>11. EffectInv'
  <2>1. \A d \in Coordinators : d # c => ~Current(d)'
    BY <1>1, <1>3, <1>4, <1>6 DEF Current
  <2>2. \A d, e \in Coordinators : Owning(co[d])' /\ Owning(co[e])' /\ Current(d)' /\ Current(e)' => d = e
    BY <1>4, <1>10, <2>1 DEF Owning
  <2>3. \A d \in Coordinators : At(d, "invoke")' => At(d, "invoke")
    BY <1>4, <1>10 DEF At
  <2>4. \A d, e \in Coordinators : At(d, "invoke")' /\ At(e, "invoke")' => d = e
    BY <1>1, <2>3 DEF EffectInv
  <2>5. \A d \in Coordinators : At(d, "invoke")' => Current(d)' \/ state' \in Refusing
    BY <1>0, <1>1, <2>3, CommitGrounds DEF Transition
  <2> QED BY <1>1, <1>7, <2>2, <2>4, <2>5 DEF EffectInv, HasIntent, Metered, Attempts, StepLimit
<1>12. VerdictInv'
  <2>1. state' \in {"REVIEWING", "APPROVED"} => Grounds(goal)
    BY <1>0, <1>1, CommitGrounds DEF Transition, Refusing
  <2>2. state' \in {"REVIEWING", "APPROVED"} => state \notin {"CREATED", "PLANNING", "CONTEXT_PREPARING", "WORKSPACE_PREPARING"}
    BY <1>1, <1>2 DEF permitted_destinations, Edges, ForwardEdges
  <2>3. ASSUME state' = "REVIEWING" PROVE validated
    <3>1. state = "VALIDATING"
      BY <1>1, <1>2, <2>3 DEF permitted_destinations, Edges, ForwardEdges
    <3>2. PICK a \in Metered : journal[a].intent = revision /\ journal[a].outcome.status = "COMPLETED"
      BY <1>1, <2>1, <2>2, <2>3 DEF Grounds
    <3>3. a[1] = "VALIDATION"
      <4>1. a[1] \in MeteredSteps /\ state = Phase(a[1])
        BY <1>1, <3>2, KnownAttempts DEF JournalInv
      <4> QED BY <3>1, <4>1 DEF MeteredSteps, Phase
    <3> QED BY <1>1, <3>2, <3>3 DEF VerdictInv
  <2>4. ASSUME state' = "APPROVED" PROVE validated /\ ~UnresolvedEffects
    <3>1. state = "REVIEWING"
      BY <1>1, <1>2, <2>4 DEF permitted_destinations, Edges, ForwardEdges
    <3>2. PICK a \in Metered : journal[a].intent = revision /\ journal[a].outcome.gate = "APPROVABLE"
      BY <1>1, <2>1, <2>2, <2>4 DEF Grounds
    <3>3. a[1] = "REVIEW"
      <4>1. a[1] \in MeteredSteps /\ state = Phase(a[1])
        BY <1>1, <3>2, KnownAttempts DEF JournalInv
      <4> QED BY <3>1, <4>1 DEF MeteredSteps, Phase
    <3> QED BY <1>1, <3>1, <3>2, <3>3 DEF VerdictInv
  <2>5. UnresolvedEffects' <=> UnresolvedEffects
    BY <1>1 DEF UnresolvedEffects, HasIntent, HasOutcome, Mutating, Attempts, StepLimit
  <2>6. \A a \in Metered : journal[a].intent # revision + 1
    <3> TAKE a \in Metered
    <3>1. a \in Attempts
      BY KnownAttempts
    <3>2. journal[a].intent <= revision /\ journal[a].intent \in Nat \cup {NoIntent}
      BY <1>1, <3>1 DEF JournalInv, Types
    <3> QED BY <1>1, <3>2 DEF NoIntent
  <2> QED BY <1>1, <2>3, <2>4, <2>5, <2>6 DEF VerdictInv, Metered, Attempts, StepLimit
<1>13. ASSUME NEW d \in Coordinators, d # c PROVE SoundOf(d)'
  <2>1. PICK l : l = co[d]
    OBVIOUS
  <2>2. /\ SoundEver(l) /\ l.snap.revision <= revision /\ l.snap.revision \in Nat /\ co'[d] = l
    BY <1>4, <1>6, <1>13, <2>1
  <2>3. l.snap # Run' /\ l.snap.revision <= revision' /\ l.snap.revision # revision'
    BY <1>1, <1>3, <2>2
  <2>4. SoundEver(l)'
    BY <1>1, <1>7, <2>2, <2>3 DEF SoundEver, Evidence, HasIntent, ContextUpTo, Metered, Attempts, StepLimit
  <2> QED BY <2>2, <2>3, <2>4 DEF SoundOf, Sound, SoundEver
<1>14. SoundOf(c)'
  <2>1. new.snap.revision <= revision' /\ (new.snap.revision = revision' => new.snap = Run')
    BY <1>1, <1>3, IdleFields
  <2>2. SoundEver(new)'
    BY <2>1 DEF SoundEver, Attempting, Selecting
  <2>3. SoundNow(new)'
    BY <1>10 DEF SoundNow, Attempting, Owning
  <2> QED BY <1>4, <2>2, <2>3 DEF SoundOf, Sound, SoundEver, SoundNow, Owning, Grounds
<1> QED BY <1>5, <1>8, <1>9, <1>11, <1>12, <1>13, <1>14 DEF Inv

LEMMA Commit == ASSUME Inv, NEW c \in Coordinators, commit(c) PROVE Inv'
<1>1. PICK goal, run, next :
         /\ goal = co[c].goal /\ run = GoalRun(c)
         /\ next = IF goal.then = "idle" THEN Idle
                   ELSE IF goal.then = "loop" THEN [Idle EXCEPT !.pc = "loop"]
                   ELSE [Idle EXCEPT !.pc = goal.then, !.snap = run]
  OBVIOUS
<1>2. /\ At(c, "commit") /\ UNCHANGED <<journal, ledger, overage, measured, worktree, clock, crashes, ghosts>>
      /\ \/ /\ Committable(c)
            /\ state' = run.state /\ attempts' = run.attempts /\ revision' = run.revision
            /\ UNCHANGED ceiling
            /\ Goto(c, next)
         \/ GoalAccepted(c) /\ Run = run /\ Goto(c, next) /\ UNCHANGED runVars
         \/ Stop(c) /\ UNCHANGED runVars
  BY <1>1 DEF commit
<1>3. Types /\ JournalInv /\ co[c] \in Locals /\ goal \in Goals
  BY <1>1 DEF Inv, Types, Locals
<1>4. CASE Stop(c) /\ UNCHANGED runVars
  BY <1>2, <1>4, Rests DEF Silent
<1>5. ASSUME run \in Snapshots
      PROVE  /\ next \in Locals /\ next.pc \in {"idle", "loop", "enter"} /\ next.known = {}
             /\ next.snap = FirstRun \/ next.snap = run
  BY <1>1, <1>3, <1>5, IdleFields, ZenonT(40) DEF Goals, Locals, PCs
<1>6. CASE GoalAccepted(c) /\ Run = run /\ Goto(c, next) /\ UNCHANGED runVars
  <2>1. Silent /\ run \in Snapshots /\ Run.revision <= revision
    BY <1>2, <1>3, <1>6, RunNow DEF Silent
  <2>2. next.snap.revision <= revision /\ (next.snap.revision = revision => next.snap = Run)
    <3>1. FirstRun.revision = 0 /\ revision \in Nat /\ (revision = 0 => Run = FirstRun)
      BY <1>3, IdleFields, RunNow DEF JournalInv
    <3> QED BY <1>5, <1>6, <2>1, <3>1
  <2>3. next \in Locals /\ Sound(next) /\ ~Owning(next)
    BY <1>3, <1>5, <2>1, <2>2, SoundResting
  <2> QED BY <1>6, <2>1, <2>3, Reads
<1>7. CASE /\ Committable(c)
           /\ state' = run.state /\ attempts' = run.attempts /\ revision' = run.revision
           /\ UNCHANGED ceiling
           /\ Goto(c, next)
  <2>1. co[c].snap = Run
    BY <1>7 DEF Committable, Current
  <2>2. run = [state |-> goal.destination, revision |-> revision + 1,
               attempts |-> [k \in AttemptCounterKinds |->
                   IF k = goal.increment THEN attempts[k] + 1 ELSE attempts[k]]]
    BY <1>1, <2>1, RunFields DEF GoalRun
  <2>3. Transition(c)
    BY <1>1, <1>2, <1>7, <2>2 DEF Transition
  <2>4. run \in Snapshots /\ Run' = run
    <3>1. attempts \in [AttemptCounterKinds -> Nat] /\ revision \in Nat
      BY <1>3, RunFields, RunNow DEF Types, Snapshots
    <3>2. run \in Snapshots
      BY <1>3, <2>2, <3>1 DEF Snapshots, Goals
    <3>3. Run' = [state |-> run.state, attempts |-> run.attempts, revision |-> run.revision]
      BY <1>7 DEF Run
    <3> QED BY <3>2, <3>3 DEF Snapshots
  <2> QED BY <1>5, <1>7, <2>3, <2>4, Transitions
<1> QED BY <1>2, <1>4, <1>6, <1>7

-----------------------------------------------------------------------------
(* The invariant.                                                           *)

LEMMA Starts == Init => Inv
<1> SUFFICES ASSUME Init PROVE Inv
  OBVIOUS
<1>0. \A a \in Attempts : /\ journal[a].intent = NoIntent /\ journal[a].outcome = NoOutcome
                          /\ journal[a].recon = "none" /\ invoked[a] = 0
  BY DEF Init
<1>1. Types
  <2>1. Run \in Snapshots
    BY DEF Init, Run, Snapshots, RunStates
  <2>2. co \in [Coordinators -> Locals]
    BY IdleFields DEF Init
  <2>3. journal \in [Attempts -> [intent : Nat \cup {NoIntent}, outcome : Outcomes \cup {NoOutcome},
                                  recon : {"none", "safe", "unsafe"}]]
    BY DEF Init
  <2>4. ceiling \in BOOLEAN /\ crashes \in 0 .. MaxCrashes
    BY OrchestrationAssumption DEF Init
  <2> QED BY <2>1, <2>2, <2>3, <2>4 DEF Init, Types
<1>2. Run = FirstRun /\ revision = 0 /\ state = "CREATED"
  BY DEF Init, Run, FirstRun
<1>3. JournalInv
  BY <1>0, <1>2 DEF JournalInv, HasIntent, HasOutcome, NoIntent, Metered
<1>4. CountInv
  <2>1. \A step \in Steps : Begun(step, 0)
    <3> TAKE step \in Steps
    <3>1. ASSUME NEW s \in 1 .. StepLimit(step) PROVE journal[<<step, s>>].intent = NoIntent /\ ~(s <= 0)
      BY <1>0, <3>1, AttemptPairs, Limits
    <3> QED BY <1>2, <3>1 DEF Begun, NoIntent
  <2>2. attempts["build"] = 0 /\ attempts["review"] = 0 /\ attempts["repair"] = 0
    BY DEF Init, AttemptCounterKinds
  <2> QED BY <1>0, <1>2, <2>1, <2>2, KnownAttempts DEF CountInv, Working5, Steps, NoIntent
<1>5. \A c \in Coordinators : co[c] = Idle /\ ~At(c, "invoke") /\ ~Owning(co[c])
  BY IdleFields DEF Init, At, Owning
<1>6. EffectInv
  <2>1. \A a \in Metered : ledger[a] = "none"
    BY DEF Init
  <2>2. worktree = "absent" /\ journal[WorktreeAttempt].recon # "safe"
    BY <1>0, KnownAttempts DEF Init
  <2> QED BY <1>0, <1>5, <2>1, <2>2 DEF EffectInv
<1>7. VerdictInv
  BY <1>0, <1>2, KnownAttempts DEF VerdictInv, NoIntent
<1>8. \A c \in Coordinators : SoundOf(c)
  BY <1>1, <1>3, <1>5, SoundIdle DEF SoundOf
<1> QED BY <1>1, <1>3, <1>4, <1>6, <1>7, <1>8 DEF Inv

LEMMA Keeps == Inv /\ [Next]_vars => Inv'
<1> SUFFICES ASSUME Inv, [Next]_vars PROVE Inv'
  OBVIOUS
<1>1. CASE UNCHANGED vars
  <2>1. clock \in {"ample", "short", "expired"}
    BY DEF Inv, Types
  <2>2. /\ UNCHANGED <<runVars, journal, ledger, overage, measured, worktree, co, crashes, invoked, validated>>
        /\ clock' = clock
    BY <1>1 DEF vars, runVars
  <2> QED BY <2>1, <2>2, Waits
<1>2. CASE Tick
  <2>1. /\ UNCHANGED <<runVars, journal, ledger, overage, measured, worktree, co, crashes, invoked, validated>>
        /\ clock' \in {"ample", "short", "expired"}
    BY <1>2 DEF Tick, ghosts
  <2> QED BY <2>1, Waits
<1>3. ASSUME NEW c \in Coordinators, execute(c) \/ resume(c) \/ cancel(c) \/ Crash(c) PROVE Inv'
  BY <1>3, Execute, Resume, Cancel, Dies
<1>4. ASSUME NEW c \in Coordinators, Step(c) PROVE Inv'
  BY <1>4, Enter, SweepList, Sweep, Admit, LeaveLoop, StartPlanning, Context, Select, Measure, PrepareWorkspace,
     Build, Validate, Review, Repair, Intend, Refuse, Reserve, Invoke, Record, Settle, Reconcile, Commit DEF Step
<1> QED BY <1>1, <1>2, <1>3, <1>4 DEF Next

LEMMA Invariant == Spec => []Inv
BY Starts, Keeps, PTL DEF Spec

-----------------------------------------------------------------------------
(* What it implies.                                                         *)

\* Every variable and every local of every coordinator keeps its type, whatever the coordinators
\* of orchestration/service.py do.
THEOREM TypeCorrect == Spec => []TypeOK
<1>1. Inv => TypeOK
  <2> SUFFICES ASSUME Inv PROVE TypeOK
    OBVIOUS
  <2>1. Types /\ state \in RunStates /\ attempts \in [AttemptCounterKinds -> Nat] /\ revision \in Nat
    BY RunFields DEF Inv, Types, Snapshots
  <2>2. ASSUME NEW c \in Coordinators
        PROVE  /\ co[c].pc \in PCs
               /\ co[c].snap.revision \in 0 .. revision
               /\ co[c].att \in Attempts \cup {NoAttempt, <<"CONTEXT", ContextRoles + 1>>}
               /\ co[c].out \in Outcomes \cup {NoOutcome}
               /\ co[c].known \subseteq Metered /\ co[c].todo \subseteq Metered
    <3>1. co[c] \in Locals /\ SoundEver(co[c])
      BY <2>1 DEF Inv, Types, SoundOf, Sound
    <3>2. co[c].snap.revision \in Nat /\ co[c].snap.revision <= revision
      BY <3>1 DEF Locals, Snapshots, SoundEver
    <3> QED BY <2>1, <3>1, <3>2 DEF Locals
  <2> QED BY <2>1, <2>2 DEF Types, TypeOK
<1> QED BY <1>1, Invariant, PTL

\* However many coordinators race, crash and are restarted, no agent, validation or worktree
\* creation is launched twice for one attempt or without its INTENT, and no two are under way at
\* once (_agent_attempt, _validate and _workspace behind _persist).
THEOREM LaunchedAtMostOnce == Spec => []EffectsAtMostOnce
<1>1. Inv => EffectsAtMostOnce
  <2> SUFFICES ASSUME Inv PROVE EffectsAtMostOnce
    OBVIOUS
  <2>1. ASSUME NEW a \in Attempts, invoked[a] > 0 PROVE invoked[a] = 1 /\ journal[a].intent # NoIntent
    <3>1. invoked[a] \in Nat /\ invoked[a] <= 1 /\ HasIntent(a)
      BY <2>1 DEF Inv, Types, EffectInv
    <3> QED BY <2>1, <3>1 DEF HasIntent
  <2>2. \A c, d \in Coordinators : At(c, "invoke") /\ At(d, "invoke") => c = d
    BY DEF Inv, EffectInv
  <2> QED BY <2>1, <2>2 DEF EffectsAtMostOnce
<1> QED BY <1>1, Invariant, PTL

\* An APPROVED run has a worktree that passed validation after the last agent was launched on it,
\* resolved builds and repairs, and nobody inside an effect (_review and _transition).
THEOREM ApprovalSound == Spec => []ApprovedIsValidated
<1>1. Inv => ApprovedIsValidated
  <2> SUFFICES ASSUME Inv, state = "APPROVED" PROVE ApprovedIsValidated
    BY DEF ApprovedIsValidated
  <2>1. validated /\ ~UnresolvedEffects
    BY DEF Inv, VerdictInv
  <2>2. ASSUME NEW a \in Mutating
        PROVE  /\ HasIntent(a) => HasOutcome(a) \/ journal[a].recon = "safe"
               /\ journal[a].outcome.effects = "AMBIGUOUS" => journal[a].recon = "safe"
    <3>1. journal[a].outcome.effects = "AMBIGUOUS" => HasOutcome(a)
      BY OutcomeValues DEF HasOutcome
    <3> QED BY <2>1, <3>1 DEF UnresolvedEffects
  <2>3. ASSUME NEW c \in Coordinators, At(c, "invoke") PROVE FALSE
    <3>1. Current(c)
      BY <2>3 DEF Inv, EffectInv, Refusing
    <3>2. PICK l : l = co[c]
      OBVIOUS
    <3>3. l.pc \in Attempting
      BY <2>3, <3>2 DEF At, Attempting
    <3>4. l.att[1] \in Steps /\ state = Phase(l.att[1])
      BY <3>1, <3>2, <3>3, AttemptFields
    <3> QED BY <3>4, Phases
  <2> QED BY <2>1, <2>2, <2>3 DEF ApprovedIsValidated
<1> QED BY <1>1, Invariant, PTL

\* The run moves only by the transition of a committing coordinator.
LEMMA RunMoves ==
    ASSUME [Next]_vars PROVE UNCHANGED runVars \/ \E c \in Coordinators : Transition(c)
<1>1. CASE UNCHANGED vars \/ Tick
  BY <1>1 DEF vars, runVars, Tick
<1>2. ASSUME NEW c \in Coordinators, commit(c) PROVE UNCHANGED runVars \/ Transition(c)
  <2>1. CASE UNCHANGED runVars
    BY <2>1
  <2>2. CASE /\ Committable(c) /\ UNCHANGED ceiling
             /\ state' = GoalRun(c).state /\ attempts' = GoalRun(c).attempts /\ revision' = GoalRun(c).revision
    <3>1. co[c].snap = Run
      BY <2>2 DEF Committable, Current
    <3>2. /\ GoalRun(c).state = co[c].goal.destination /\ GoalRun(c).revision = revision + 1
          /\ GoalRun(c).attempts = [k \in AttemptCounterKinds |->
                IF k = co[c].goal.increment THEN attempts[k] + 1 ELSE attempts[k]]
      BY <3>1, RunFields DEF GoalRun
    <3> QED BY <1>2, <2>2, <3>2 DEF Transition, commit
  <2> QED BY <1>2, <2>1, <2>2 DEF commit
<1>3. ASSUME NEW c \in Coordinators,
             execute(c) \/ resume(c) \/ cancel(c) \/ Crash(c) \/ enter(c) \/ sweep_list(c) \/ sweep(c) \/ admit(c)
      PROVE  UNCHANGED runVars
  BY <1>3 DEF execute, resume, cancel, Crash, enter, sweep_list, sweep, admit
<1>4. ASSUME NEW c \in Coordinators,
             leave_loop(c) \/ start_planning(c) \/ context(c) \/ select(c) \/ measure(c) \/ prepare_workspace(c)
             \/ build(c) \/ validate(c) \/ review(c) \/ repair(c)
      PROVE  UNCHANGED runVars
  BY <1>4 DEF leave_loop, start_planning, context, select, measure, prepare_workspace, build, validate, review, repair
<1>5. ASSUME NEW c \in Coordinators,
             intend(c) \/ refuse(c) \/ reserve(c) \/ invoke(c) \/ record(c) \/ settle(c) \/ reconcile(c)
      PROVE  UNCHANGED runVars
  BY <1>5 DEF intend, refuse, reserve, invoke, record, settle, reconcile
<1> QED BY <1>1, <1>2, <1>3, <1>4, <1>5 DEF Next, Step

\* What a transition does and when it is possible.
LEMMA TransitionIs ==
    ASSUME Inv, NEW c \in Coordinators, Transition(c), NEW goal, goal = co[c].goal
    PROVE  /\ goal.destination \in permitted_destinations(state) /\ goal.destination \in RunStates
           /\ goal.increment \in AttemptCounterKinds \cup {NoIncrement}
           /\ goal.increment # NoIncrement =>
                 state = AttemptSource(goal.increment) /\ attempts[goal.increment] < AttemptLimit(goal.increment)
           /\ state' = goal.destination /\ revision' = revision + 1
           /\ attempts' = [k \in AttemptCounterKinds |->
                              IF k = goal.increment THEN attempts[k] + 1 ELSE attempts[k]]
           /\ UNCHANGED <<ceiling, journal, ledger, measured>>
<1>1. goal \in Goals /\ Committable(c) /\ co[c].snap = Run
  BY DEF Inv, Types, Locals, Transition, Committable, Current
<1> QED BY <1>1, RunFields DEF Transition, Committable, GoalAccepted, Goals

WithinBudgets == \A k \in AttemptCounterKinds : attempts[k] <= AttemptLimit(k)

LEMMA CountersBounded == Spec => []WithinBudgets
<1>0. \A k \in AttemptCounterKinds : AttemptLimit(k) \in Nat
  BY BudgetAssumption DEF AttemptCounterKinds, AttemptLimit
<1>1. Init => WithinBudgets
  BY <1>0 DEF Init, WithinBudgets
<1>2. Inv /\ WithinBudgets /\ [Next]_vars => WithinBudgets'
  <2> SUFFICES ASSUME Inv, WithinBudgets, [Next]_vars PROVE WithinBudgets'
    OBVIOUS
  <2>1. CASE UNCHANGED runVars
    BY <2>1 DEF runVars, WithinBudgets, AttemptLimit
  <2>2. CASE \E c \in Coordinators : Transition(c)
    <3>1. PICK c \in Coordinators : Transition(c)
      BY <2>2
    <3>2. PICK goal : goal = co[c].goal
      OBVIOUS
    <3>3. /\ goal.increment # NoIncrement => attempts[goal.increment] < AttemptLimit(goal.increment)
          /\ attempts' = [k \in AttemptCounterKinds |->
                             IF k = goal.increment THEN attempts[k] + 1 ELSE attempts[k]]
      BY <3>1, <3>2, TransitionIs
    <3>4. attempts \in [AttemptCounterKinds -> Nat] /\ NoIncrement \notin AttemptCounterKinds
      BY RunFields DEF Inv, Types, Snapshots, AttemptCounterKinds, NoIncrement
    <3>5. ASSUME NEW k \in AttemptCounterKinds PROVE attempts'[k] <= AttemptLimit(k)
      BY <1>0, <3>3, <3>4 DEF WithinBudgets
    <3> QED BY <3>5 DEF WithinBudgets, AttemptLimit
  <2> QED BY <2>1, <2>2, RunMoves
<1> QED BY <1>1, <1>2, Invariant, PTL DEF Spec

\* Outside its phase, every attempt of a step was begun at an earlier revision, has an outcome
\* and was counted.
LEMMA CountedThen ==
    ASSUME Inv, WithinBudgets, state \notin Refusing, NEW step \in {"BUILD", "REVIEW", "REPAIR"}, state # Phase(step),
           NEW kind, kind = Counter(step)
    PROVE  /\ \A s \in Sequences(step) : HasOutcome(<<step, s>>)
           /\ attempts[kind] = Cardinality(Sequences(step))
<1>0. /\ Types /\ JournalInv /\ revision \in Nat /\ attempts \in [AttemptCounterKinds -> Nat]
      /\ kind \in AttemptCounterKinds /\ step \in Steps /\ step \in MeteredSteps
      /\ StepLimit(step) \in Nat /\ AttemptLimit(kind) = StepLimit(step)
      /\ Begun(step, attempts[kind])
  BY RunNow, RunFields, Limits
     DEF Inv, Snapshots, Counter, AttemptCounterKinds, Steps, MeteredSteps, AttemptLimit, StepLimit, CountInv
<1>1. PICK n : n = attempts[kind]
  OBVIOUS
<1>2. n \in Nat /\ n <= StepLimit(step)
  BY <1>0, <1>1 DEF WithinBudgets
<1>3. ASSUME NEW s \in 1 .. StepLimit(step)
      PROVE  /\ HasIntent(<<step, s>>) <=> s <= n
             /\ HasIntent(<<step, s>>) => HasOutcome(<<step, s>>)
  <2>1. PICK a : a = <<step, s>>
    OBVIOUS
  <2>2. a \in Attempts /\ a \in Metered /\ a[1] = step
    BY <1>0, <2>1, AttemptPairs, KnownAttempts
  <2>3. journal[a].intent \in Nat \cup {NoIntent} /\ journal[a].intent <= revision /\ journal[a].intent # revision
    BY <1>0, <2>2 DEF Types, JournalInv
  <2>4. journal[a].intent \in 0 .. revision - 1 <=> HasIntent(a)
    BY <1>0, <2>3 DEF HasIntent, NoIntent
  <2>5. journal[a].intent \in 0 .. revision - 1 <=> s <= n
    BY <1>0, <1>1, <2>1 DEF Begun
  <2>6. journal[a].intent \in 0 .. revision - 1 => HasOutcome(a)
    BY <2>2 DEF Inv, CountInv
  <2> QED BY <2>1, <2>4, <2>5, <2>6
<1>4. Sequences(step) = 1 .. n
  BY <1>0, <1>2, <1>3 DEF Sequences
<1>5. Cardinality(1 .. n) = n
  BY <1>2, FS_Interval
<1> QED BY <1>1, <1>3, <1>4, <1>5 DEF Sequences

\* The counters of the run, which _transition increments, agree with the attempts that _persist
\* wrote to the journal, and no manifest is left unmeasured behind the context phase.
THEOREM CountersAgree == Spec => []CountersMatchJournal
<1>1. Inv /\ WithinBudgets => CountersMatchJournal
  <2> SUFFICES ASSUME Inv, WithinBudgets PROVE CountersMatchJournal
    OBVIOUS
  <2>1. /\ Phase("BUILD") = "BUILDING" /\ Phase("REVIEW") = "REVIEWING" /\ Phase("REPAIR") = "REPAIRING"
        /\ Counter("BUILD") = "build" /\ Counter("REVIEW") = "review" /\ Counter("REPAIR") = "repair"
    BY DEF Phase, Counter
  <2>2. state \in {"VALIDATING", "REVIEWING"} =>
           /\ \A s \in Sequences("BUILD") : HasOutcome(<<"BUILD", s>>)
           /\ attempts["build"] = Cardinality(Sequences("BUILD"))
           /\ \A s \in Sequences("REPAIR") : HasOutcome(<<"REPAIR", s>>)
           /\ attempts["repair"] = Cardinality(Sequences("REPAIR"))
    BY <2>1, CountedThen DEF Refusing
  <2>3. state \in {"REPAIRING", "APPROVED"} =>
           /\ \A s \in Sequences("REVIEW") : HasOutcome(<<"REVIEW", s>>)
           /\ attempts["review"] = Cardinality(Sequences("REVIEW"))
    BY <2>1, CountedThen DEF Refusing
  <2>4. state \in Working5 => ContextComplete /\ measured = 1 .. ContextRoles
    <3>1. state \in Working5 => ContextUpTo(ContextRoles + 1)
      BY DEF Inv, CountInv, Working5, Refusing
    <3>2. \A s \in 1 .. ContextRoles : s < ContextRoles + 1
      BY OrchestrationAssumption
    <3>3. measured \subseteq 1 .. ContextRoles
      BY DEF Inv, Types
    <3> QED BY <3>1, <3>2, <3>3 DEF ContextUpTo, ContextComplete
  <2> QED BY <2>2, <2>3, <2>4 DEF CountersMatchJournal, Working5
<1> QED BY <1>1, Invariant, CountersBounded, PTL

-----------------------------------------------------------------------------
(* What the coordinators do to the run.                                     *)

\* The coordinators implement the lifecycle of a run: every step of theirs is one transition of
\* RunLifecycle or leaves the run alone.
THEOREM CoordinatorsImplementLifecycle == Spec => ImplementsLifecycle
<1>1. Init => Lifecycle!Init
  BY DEF Init, Lifecycle!Init, Lifecycle!AttemptCounterKinds, AttemptCounterKinds
<1>2. Inv /\ [Next]_vars => [Lifecycle!Next]_(Lifecycle!vars)
  <2> SUFFICES ASSUME Inv, [Next]_vars PROVE [Lifecycle!Next]_(Lifecycle!vars)
    OBVIOUS
  <2>1. CASE UNCHANGED runVars
    BY <2>1 DEF runVars, Lifecycle!vars
  <2>2. CASE \E c \in Coordinators : Transition(c)
    <3>1. PICK c \in Coordinators : Transition(c)
      BY <2>2
    <3>2. PICK goal, destination, increment :
             goal = co[c].goal /\ destination = goal.destination /\ increment = goal.increment
      OBVIOUS
    <3>3. /\ destination \in permitted_destinations(state) /\ destination \in RunStates
          /\ increment \in AttemptCounterKinds \cup {NoIncrement}
          /\ increment # NoIncrement =>
                state = AttemptSource(increment) /\ attempts[increment] < AttemptLimit(increment)
          /\ state' = destination /\ revision' = revision + 1
          /\ attempts' = [k \in AttemptCounterKinds |->
                             IF k = increment THEN attempts[k] + 1 ELSE attempts[k]]
      BY <3>1, <3>2, TransitionIs
    <3>4. Lifecycle!Advance(destination, increment)
      BY <3>3 DEF Lifecycle!Advance, Lifecycle!permitted_destinations, Lifecycle!RunStates, Lifecycle!Edges,
          Lifecycle!ForwardEdges, Lifecycle!TerminalStates, Lifecycle!NoIncrement, Lifecycle!AttemptSource,
          Lifecycle!AttemptLimit, Lifecycle!AttemptCounterKinds, permitted_destinations, RunStates, Edges,
          ForwardEdges, TerminalStates, NoIncrement, AttemptSource, AttemptLimit, AttemptCounterKinds
    <3>5. destination \in Lifecycle!RunStates /\ increment \in Lifecycle!AttemptCounterKinds \cup {Lifecycle!NoIncrement}
      BY <3>3 DEF Lifecycle!RunStates, Lifecycle!TerminalStates, Lifecycle!NoIncrement, Lifecycle!AttemptCounterKinds,
          RunStates, TerminalStates, NoIncrement, AttemptCounterKinds
    <3> QED BY <3>4, <3>5 DEF Lifecycle!Next
  <2> QED BY <2>1, <2>2, RunMoves
<1> QED BY <1>1, <1>2, Invariant, PTL DEF Spec, ImplementsLifecycle, Lifecycle!Spec

-----------------------------------------------------------------------------
(* What the coordinators do to the evidence.                                *)

\* A write to the journal adds to one attempt of the present phase.
Appends == UNCHANGED runVars /\ \E w \in Attempts : Wrote(w) /\ Grown(w)

LEMMA ContextAppends == ASSUME Inv, NEW c \in Coordinators, context(c) PROVE UNCHANGED journal \/ Appends
<1>1. PICK l, a : l = co[c] /\ a = l.att
  OBVIOUS
<1>2. l.pc \in Selecting /\ UNCHANGED runVars
  BY <1>1 DEF context, At, Selecting
<1>3. /\ l.snap.state = "CONTEXT_PREPARING" /\ a[1] = "CONTEXT" /\ a[2] \in 1 .. ContextRoles + 1
      /\ a[2] <= ContextRoles => a \in Attempts
      /\ Types /\ revision \in Nat
  BY <1>1, <1>2, SelectingFields, RunNow DEF Inv
<1>4. \/ UNCHANGED journal
      \/ /\ ~(a[2] > ContextRoles) /\ ~HasIntent(a) /\ Current(c)
         /\ journal' = [journal EXCEPT ![a].intent = l.snap.revision]
  BY <1>1 DEF context
<1>5. CASE /\ ~(a[2] > ContextRoles) /\ ~HasIntent(a) /\ Current(c)
           /\ journal' = [journal EXCEPT ![a].intent = l.snap.revision]
  <2>1. a \in Attempts /\ l.snap.revision = revision /\ state = Phase(a[1])
    BY <1>1, <1>3, <1>5, RunFields, OrchestrationAssumption DEF Current, Phase
  <2>2. /\ Wrote(a) /\ journal'[a].intent = revision
        /\ journal'[a].outcome = journal[a].outcome /\ journal'[a].recon = journal[a].recon
    BY <1>3, <1>5, <2>1, WroteIntent
  <2>3. Grown(a)
    BY <1>3, <1>5, <2>1, <2>2 DEF Grown
  <2> QED BY <1>2, <2>1, <2>2, <2>3 DEF Appends
<1> QED BY <1>4, <1>5

LEMMA SelectAppends == ASSUME Inv, NEW c \in Coordinators, select(c) PROVE UNCHANGED journal \/ Appends
<1>1. PICK l, a : l = co[c] /\ a = l.att
  OBVIOUS
<1>2. l.pc = "select" /\ l.pc \in Selecting /\ UNCHANGED runVars
  BY <1>1 DEF select, At, Selecting
<1>3. /\ l.snap.state = "CONTEXT_PREPARING" /\ a[1] = "CONTEXT" /\ SoundEver(l)
      /\ a[2] <= ContextRoles => a \in Attempts
      /\ Types
  BY <1>1, <1>2, SelectingFields DEF Inv
<1>4. a \in Attempts /\ HasIntent(a)
  BY <1>1, <1>2, <1>3 DEF SoundEver
<1>5. ASSUME NEW o \in ContextOutcomes, Current(c), journal[a].outcome \in {NoOutcome, o},
             journal' = [journal EXCEPT ![a].outcome = o]
      PROVE  Appends
  <2>1. o \in Outcomes
    BY OutcomeSets
  <2>2. /\ Wrote(a) /\ journal'[a].outcome = o
        /\ journal'[a].intent = journal[a].intent /\ journal'[a].recon = journal[a].recon
    BY <1>3, <1>4, <1>5, <2>1, WroteOutcome
  <2>3. state = Phase(a[1]) /\ a \notin Metered
    <3>1. state = "CONTEXT_PREPARING"
      BY <1>1, <1>3, <1>5, RunFields DEF Current
    <3>2. "CONTEXT" \notin MeteredSteps /\ Phase("CONTEXT") = "CONTEXT_PREPARING"
      BY DEF MeteredSteps, Phase
    <3> QED BY <1>3, <1>4, <3>1, <3>2, KnownAttempts
  <2>4. Grown(a)
    BY <1>4, <1>5, <2>1, <2>2, <2>3 DEF Grown, HasIntent, HasOutcome
  <2> QED BY <1>2, <1>4, <2>2, <2>4 DEF Appends
<1> QED BY <1>1, <1>5 DEF select

LEMMA AttemptAppends ==
    ASSUME Inv, NEW c \in Coordinators, intend(c) \/ refuse(c) \/ record(c) \/ reconcile(c)
    PROVE  UNCHANGED journal \/ Appends
<1>1. PICK l, a, o : l = co[c] /\ a = l.att /\ o = l.out
  OBVIOUS
<1>2. l.pc \in {"intend", "refuse", "record", "reconcile"} /\ UNCHANGED runVars
  BY <1>1 DEF intend, refuse, record, reconcile, At
<1>3. /\ Types /\ JournalInv /\ revision \in Nat /\ SoundEver(l) /\ (Current(c) => SoundNow(l)) /\ a \in Attempts
      /\ a[1] \in Steps /\ a[2] \in 1 .. StepLimit(a[1]) /\ a = <<a[1], a[2]>>
      /\ Current(c) => state = Phase(a[1])
  BY <1>1, <1>2, AttemptFields DEF Attempting
<1>4. ASSUME l.pc \in {"intend", "refuse"}, Current(c), journal' = [journal EXCEPT ![a].intent = revision]
      PROVE  Appends
  <2>1. /\ Wrote(a) /\ journal'[a].intent = revision
        /\ journal'[a].outcome = journal[a].outcome /\ journal'[a].recon = journal[a].recon
    BY <1>3, <1>4, WroteIntent
  <2>2. Begun(a[1], a[2] - 1)
    BY <1>1, <1>3, <1>4 DEF SoundNow, Attempting
  <2>3. journal[a].intent = revision \/ ~HasIntent(a)
    <3>1. ~(journal[a].intent \in 0 .. revision - 1)
      BY <1>3, <2>2, Limits DEF Begun
    <3>2. journal[a].intent \in Nat \cup {NoIntent} /\ journal[a].intent <= revision
      BY <1>3 DEF Types, JournalInv
    <3> QED BY <1>3, <3>1, <3>2 DEF HasIntent, NoIntent
  <2>4. Grown(a)
    BY <1>3, <1>4, <2>1, <2>2, <2>3 DEF Grown
  <2> QED BY <1>2, <1>3, <2>1, <2>4 DEF Appends
<1>5. ASSUME l.pc = "record", Current(c), journal[a].outcome \in {NoOutcome, o},
             journal' = [journal EXCEPT ![a].outcome = o]
      PROVE  Appends
  <2>1. o \in Outcomes /\ (a[1] \in MeteredSteps => o.evidence \/ o = Refusal) /\ journal[a].intent = revision
    BY <1>1, <1>3, <1>5 DEF SoundEver, SoundNow
  <2>2. /\ Wrote(a) /\ journal'[a].outcome = o
        /\ journal'[a].intent = journal[a].intent /\ journal'[a].recon = journal[a].recon
    BY <1>3, <1>5, <2>1, WroteOutcome
  <2>3. Grown(a)
    BY <1>3, <1>5, <2>1, <2>2, KnownAttempts DEF Grown, HasOutcome, NoIntent
  <2> QED BY <1>2, <1>3, <2>2, <2>3 DEF Appends
<1>6. ASSUME Current(c), NEW verdict \in {"safe", "unsafe"}, journal[a].recon \in {"none", verdict},
             journal' = [journal EXCEPT ![a].recon = verdict]
      PROVE  Appends
  <2>1. /\ Wrote(a) /\ journal'[a].recon = verdict
        /\ journal'[a].intent = journal[a].intent /\ journal'[a].outcome = journal[a].outcome
    BY <1>3, <1>6, WroteRecon
  <2>2. Grown(a)
    BY <1>3, <1>6, <2>1 DEF Grown
  <2> QED BY <1>2, <1>3, <2>1, <2>2 DEF Appends
<1>7. CASE intend(c) \/ refuse(c)
  BY <1>1, <1>4, <1>7 DEF intend, refuse, At
<1>8. CASE record(c)
  BY <1>1, <1>5, <1>8 DEF record, At
<1>9. CASE reconcile(c)
  <2>1. \/ UNCHANGED journal
        \/ \E verdict \in {"safe", "unsafe"} :
              /\ Current(c) /\ journal[a].recon \in {"none", verdict}
              /\ journal' = [journal EXCEPT ![a].recon = verdict]
    BY <1>1, <1>9 DEF reconcile
  <2> QED BY <1>6, <2>1
<1> QED BY <1>7, <1>8, <1>9

\* Whatever a step does, the journal stays as it is or takes one addition.
LEMMA JournalMoves == ASSUME Inv, [Next]_vars PROVE UNCHANGED journal \/ Appends
<1>1. CASE UNCHANGED vars \/ Tick
  BY <1>1 DEF vars, Tick
<1>2. ASSUME NEW c \in Coordinators,
             context(c) \/ select(c) \/ intend(c) \/ refuse(c) \/ record(c) \/ reconcile(c)
      PROVE  UNCHANGED journal \/ Appends
  BY <1>2, ContextAppends, SelectAppends, AttemptAppends
<1>3. ASSUME NEW c \in Coordinators,
             execute(c) \/ resume(c) \/ cancel(c) \/ Crash(c) \/ enter(c) \/ sweep_list(c) \/ sweep(c) \/ admit(c)
      PROVE  UNCHANGED journal
  BY <1>3 DEF execute, resume, cancel, Crash, enter, sweep_list, sweep, admit
<1>4. ASSUME NEW c \in Coordinators,
             leave_loop(c) \/ start_planning(c) \/ measure(c) \/ prepare_workspace(c)
             \/ build(c) \/ validate(c) \/ review(c) \/ repair(c)
      PROVE  UNCHANGED journal
  BY <1>4 DEF leave_loop, start_planning, measure, prepare_workspace, build, validate, review, repair
<1>5. ASSUME NEW c \in Coordinators, reserve(c) \/ invoke(c) \/ settle(c) \/ commit(c)
      PROVE  UNCHANGED journal
  BY <1>5 DEF reserve, invoke, settle, commit
<1> QED BY <1>1, <1>2, <1>3, <1>4, <1>5 DEF Next, Step

\* What a step may do to the ledger: open the reservation of an attempt about to be launched,
\* settle that of recorded work, or give an active one up.
Opens ==
    \E a \in Metered :
        /\ ledger[a] = "none" /\ ledger' = [ledger EXCEPT ![a] = "ACTIVE"]
        /\ ~Denied(a) /\ state = Phase(a[1]) /\ UNCHANGED runVars

Closes ==
    \E a \in Metered :
        /\ CanSettle(a) /\ Evidence(a) /\ ledger' = [ledger EXCEPT ![a] = "SETTLED"]
        /\ UNCHANGED runVars

GivesUp ==
    \E a \in Metered :
        /\ ledger[a] = "ACTIVE" /\ ledger' = [ledger EXCEPT ![a] = "UNRESOLVED"]
        /\ UNCHANGED runVars

LEMMA LedgerMoves ==
    ASSUME Inv, [Next]_vars
    PROVE  UNCHANGED ledger \/ Opens \/ Closes \/ GivesUp
<1>1. CASE UNCHANGED vars \/ Tick
  BY <1>1 DEF vars, Tick
<1>2. ASSUME NEW c \in Coordinators,
             execute(c) \/ resume(c) \/ cancel(c) \/ Crash(c) \/ enter(c) \/ sweep_list(c) \/ admit(c) \/ context(c) \/ select(c)
      PROVE  UNCHANGED ledger
  BY <1>2 DEF execute, resume, cancel, Crash, enter, sweep_list, admit, context, select
<1>3. ASSUME NEW c \in Coordinators,
             leave_loop(c) \/ start_planning(c) \/ measure(c) \/ prepare_workspace(c)
             \/ build(c) \/ validate(c) \/ review(c) \/ repair(c)
      PROVE  UNCHANGED ledger
  BY <1>3 DEF leave_loop, start_planning, measure, prepare_workspace, build, validate, review, repair
<1>4. ASSUME NEW c \in Coordinators,
             intend(c) \/ refuse(c) \/ invoke(c) \/ record(c) \/ reconcile(c) \/ commit(c)
      PROVE  UNCHANGED ledger
  BY <1>4 DEF intend, refuse, invoke, record, reconcile, commit
<1>5. ASSUME NEW c \in Coordinators, sweep(c) PROVE UNCHANGED ledger \/ Closes \/ GivesUp
  <2>1. PICK l : l = co[c]
    OBVIOUS
  <2>2. l.todo \subseteq Metered /\ (\A a \in l.known : Evidence(a)) /\ UNCHANGED runVars
    BY <1>5, <2>1 DEF Inv, Types, Locals, SoundOf, Sound, SoundEver, sweep
  <2>3. PICK a \in l.todo :
           \/ a \in l.known /\ CanSettle(a) /\ ledger' = [ledger EXCEPT ![a] = "SETTLED"]
           \/ ledger[a] = "ACTIVE" /\ ledger' = [ledger EXCEPT ![a] = "UNRESOLVED"]
           \/ UNCHANGED ledger
    BY <1>5, <2>1 DEF sweep, Settled
  <2> QED BY <2>2, <2>3 DEF Closes, GivesUp
<1>6. ASSUME NEW c \in Coordinators, settle(c) PROVE UNCHANGED ledger \/ Closes
  <2>1. PICK l, a : l = co[c] /\ a = l.att
    OBVIOUS
  <2>2. a \in Metered /\ Evidence(a)
    BY <1>6, <2>1 DEF Inv, SoundOf, Sound, SoundEver, settle, At, Evidence
  <2> QED BY <1>6, <2>1, <2>2 DEF settle, Settled, Closes
<1>7. ASSUME NEW c \in Coordinators, reserve(c) PROVE UNCHANGED ledger \/ Opens
  <2>1. PICK l, a : l = co[c] /\ a = l.att
    OBVIOUS
  <2>2. l.pc = "reserve" /\ l.pc \in Attempting
    BY <1>7, <2>1 DEF reserve, At, Attempting
  <2>3. Current(c) => SoundNow(l) /\ state = Phase(a[1])
    BY <2>1, <2>2, AttemptFields
  <2>4. Current(c) => invoked[a] = 0
    BY <2>1, <2>2, <2>3 DEF SoundNow
  <2>5. Current(c) /\ a \in Metered => ledger[a] = "none"
    BY <2>4 DEF Inv, EffectInv
  <2> QED BY <1>7, <2>1, <2>3, <2>5 DEF reserve, Opens
<1> QED BY <1>1, <1>2, <1>3, <1>4, <1>5, <1>6, <1>7 DEF Next, Step

\* No step of any coordinator rewrites evidence: an INTENT, an OUTCOME, a RECONCILIATION and a
\* closed reservation stay as they are, recorded usage stays, and a run that ended takes no more
\* evidence (_persist, settle_reservation and persist_transition).
THEOREM EvidenceIsFinal == Spec => EvidenceFinal
<1> DEFINE Final ==
      /\ \A a \in Attempts :
            /\ HasIntent(a) => journal'[a].intent = journal[a].intent
            /\ HasOutcome(a) => journal'[a].outcome = journal[a].outcome
            /\ journal[a].recon # "none" => journal'[a].recon = journal[a].recon
      /\ \A a \in Metered : ledger[a] \in {"SETTLED", "UNRESOLVED"} => ledger'[a] = ledger[a]
      /\ measured \subseteq measured'
      /\ state \in TerminalStates => UNCHANGED <<runVars, journal>>
<1>1. ASSUME Inv, [Next]_vars, NEW a \in Attempts
      PROVE  /\ HasIntent(a) => journal'[a].intent = journal[a].intent
             /\ HasOutcome(a) => journal'[a].outcome = journal[a].outcome
             /\ journal[a].recon # "none" => journal'[a].recon = journal[a].recon
  <2>1. CASE Appends
    <3>1. Types /\ JournalInv /\ Grows
      BY <1>1, <2>1 DEF Inv, Appends, Wrote, Grows
    <3>2. journal'[a].recon = journal[a].recon \/ journal[a].recon = "none"
      BY <3>1 DEF Grows, Grown
    <3> QED BY <3>1, <3>2, GrowsKeeps
  <2> QED BY <1>1, <2>1, JournalMoves
<1>2. ASSUME Inv, [Next]_vars, NEW a \in Metered, ledger[a] \in {"SETTLED", "UNRESOLVED"}
      PROVE  ledger'[a] = ledger[a]
  <2>1. ledger \in [Metered -> {"none", "ACTIVE", "SETTLED", "UNRESOLVED"}]
    BY <1>2 DEF Inv, Types
  <2> QED BY <1>2, <2>1, LedgerMoves DEF CanSettle, Opens, Closes, GivesUp
<1>3. ASSUME Inv, [Next]_vars PROVE measured \subseteq measured'
  <2>1. CASE UNCHANGED vars \/ Tick
    BY <2>1 DEF vars, Tick
  <2>2. ASSUME NEW c \in Coordinators,
               execute(c) \/ resume(c) \/ cancel(c) \/ Crash(c) \/ enter(c) \/ sweep_list(c) \/ sweep(c) \/ admit(c)
        PROVE  UNCHANGED measured
    BY <2>2 DEF execute, resume, cancel, Crash, enter, sweep_list, sweep, admit
  <2>3. ASSUME NEW c \in Coordinators,
               leave_loop(c) \/ start_planning(c) \/ prepare_workspace(c) \/ build(c) \/ validate(c) \/ review(c) \/ repair(c)
        PROVE  UNCHANGED measured
    BY <2>3 DEF leave_loop, start_planning, prepare_workspace, build, validate, review, repair
  <2>4. ASSUME NEW c \in Coordinators,
               select(c) \/ intend(c) \/ refuse(c) \/ reserve(c) \/ invoke(c) \/ record(c) \/ settle(c)
               \/ reconcile(c) \/ commit(c)
        PROVE  UNCHANGED measured
    BY <2>4 DEF select, intend, refuse, reserve, invoke, record, settle, reconcile, commit
  <2>5. ASSUME NEW c \in Coordinators, context(c) \/ measure(c)
        PROVE  measured \subseteq measured'
    BY <2>5 DEF context, measure, Restored
  <2> QED BY <1>3, <2>1, <2>2, <2>3, <2>4, <2>5 DEF Next, Step
<1>4. ASSUME Inv, [Next]_vars, state \in TerminalStates PROVE UNCHANGED <<runVars, journal>>
  <2>1. UNCHANGED runVars
    <3>1. ASSUME NEW c \in Coordinators, Transition(c) PROVE FALSE
      <4>1. co[c].goal.destination \in permitted_destinations(state)
        BY <1>4, <3>1, TransitionIs
      <4> QED BY <1>4, <4>1 DEF permitted_destinations, Edges, ForwardEdges, TerminalStates, RunStates
    <3> QED BY <1>4, <3>1, RunMoves
  <2>2. ~Appends
    BY <1>4, AttemptPairs, Phases DEF Appends, Grown
  <2> QED BY <1>4, <2>1, <2>2, JournalMoves
<1>5. Inv /\ [Next]_vars => [Final]_vars
  BY <1>1, <1>2, <1>3, <1>4
<1> QED BY <1>5, Invariant, PTL DEF Spec, EvidenceFinal

-----------------------------------------------------------------------------
(* The budget.                                                              *)

\* No reservation is open or given up, except that of attempt a.
CleanBut(a) == \A b \in Metered : b # a => ledger[b] \in {"none", "SETTLED"}
Clean == \A b \in Metered : ledger[b] \in {"none", "SETTLED"}

\* Only work that was recorded is settled, and a ceiling keeps every agent from its launch.
SettledInv ==
    /\ \A a \in Metered : ledger[a] = "SETTLED" => Evidence(a)
    /\ ceiling => \A a \in Metered : a[1] # "VALIDATION" => invoked[a] = 0 /\ ledger[a] = "none"

\* What the only coordinator knows of the ledger.
Books(l) ==
    /\ l.pc \in {"loop", "context", "select", "measure", "intend", "refuse", "reserve"} => Clean
    /\ l.pc \in {"invoke", "record", "settle"} => CleanBut(l.att)
    /\ l.pc = "sweep" => \A a \in Metered : ledger[a] = "ACTIVE" => a \in l.todo
    /\ l.pc = "commit" =>
          /\ l.goal.then = "loop" => Clean
          /\ l.goal.destination = "APPROVED" => l.goal.then = "loop"

BookInv == (state = "APPROVED" => Clean) /\ \A c \in Coordinators : Books(co[c])

\* What a step does to the launches.
LEMMA LaunchMoves ==
    ASSUME Inv, [Next]_vars
    PROVE  \/ UNCHANGED invoked
           \/ \E a \in Attempts :
                 /\ invoked' = [invoked EXCEPT ![a] = @ + 1]
                 /\ a \in Metered => ~Denied(a)
<1>1. CASE UNCHANGED vars \/ Tick
  BY <1>1 DEF vars, Tick, ghosts
<1>2. ASSUME NEW c \in Coordinators,
             execute(c) \/ resume(c) \/ cancel(c) \/ Crash(c) \/ enter(c) \/ sweep_list(c) \/ sweep(c) \/ admit(c)
      PROVE  UNCHANGED invoked
  BY <1>2 DEF execute, resume, cancel, Crash, enter, sweep_list, sweep, admit, ghosts
<1>3. ASSUME NEW c \in Coordinators,
             leave_loop(c) \/ start_planning(c) \/ context(c) \/ select(c) \/ measure(c) \/ prepare_workspace(c)
             \/ build(c) \/ validate(c) \/ review(c) \/ repair(c)
      PROVE  UNCHANGED invoked
  BY <1>3 DEF leave_loop, start_planning, context, select, measure, prepare_workspace, build, validate, review, repair,
              ghosts
<1>4. ASSUME NEW c \in Coordinators,
             intend(c) \/ refuse(c) \/ invoke(c) \/ record(c) \/ settle(c) \/ reconcile(c) \/ commit(c)
      PROVE  UNCHANGED invoked
  BY <1>4 DEF intend, refuse, invoke, record, settle, reconcile, commit, ghosts
<1>5. ASSUME NEW c \in Coordinators, reserve(c)
      PROVE  \/ UNCHANGED invoked
             \/ \E a \in Attempts :
                   /\ invoked' = [invoked EXCEPT ![a] = @ + 1]
                   /\ a \in Metered => ~Denied(a)
  <2>1. PICK l, a : l = co[c] /\ a = l.att
    OBVIOUS
  <2>2. l.pc \in Attempting
    BY <1>5, <2>1 DEF reserve, At, Attempting
  <2>3. a \in Attempts
    BY <2>1, <2>2, AttemptFields
  <2> QED BY <1>5, <2>1, <2>3 DEF reserve, Launch
<1> QED BY <1>1, <1>2, <1>3, <1>4, <1>5 DEF Next, Step

LEMMA SettledKept == Inv /\ SettledInv /\ [Next]_vars => SettledInv'
<1> SUFFICES ASSUME Inv, SettledInv, [Next]_vars PROVE SettledInv'
  OBVIOUS
<1>0. /\ Types /\ JournalInv /\ ledger \in [Metered -> {"none", "ACTIVE", "SETTLED", "UNRESOLVED"}]
      /\ invoked \in [Attempts -> Nat] /\ Metered \subseteq Attempts
  BY KnownAttempts DEF Inv, Types
<1>1. ceiling' = ceiling
  BY RunMoves DEF runVars, Transition
<1>2. ASSUME NEW a \in Metered, ledger'[a] = "SETTLED" PROVE Evidence(a)'
  <2>1. Evidence(a)
    BY <1>0, <1>2, LedgerMoves DEF SettledInv, Opens, Closes, GivesUp
  <2>2. CASE Appends
    <3>1. Grows
      BY <2>2 DEF Appends, Wrote, Grows
    <3> QED BY <1>0, <2>1, <3>1, GrowsKeeps DEF Evidence
  <2> QED BY <2>1, <2>2, JournalMoves DEF Evidence
<1>3. ASSUME ceiling, NEW a \in Metered, a[1] # "VALIDATION" PROVE invoked'[a] = 0 /\ ledger'[a] = "none"
  <2>1. invoked[a] = 0 /\ ledger[a] = "none" /\ Denied(a)
    BY <1>3 DEF SettledInv, Denied
  <2>2. invoked'[a] = 0
    BY <1>0, <2>1, LaunchMoves
  <2>3. ledger'[a] = "none"
    BY <1>0, <2>1, LedgerMoves DEF CanSettle, Opens, Closes, GivesUp
  <2> QED BY <2>2, <2>3
<1> QED BY <1>1, <1>2, <1>3 DEF SettledInv, Metered, Attempts, StepLimit

\* However many coordinators there are, settle_reservation settles only an attempt whose response
\* or result is in the journal, and under a ceiling no agent is launched (reserve_if_allowed).
THEOREM OnlyWorkIsSettled == Spec => []SettledInv
<1>1. Init => SettledInv
  <2> SUFFICES ASSUME Init PROVE SettledInv
    OBVIOUS
  <2>1. \A a \in Metered : ledger[a] = "none" /\ invoked[a] = 0
    BY KnownAttempts DEF Init
  <2> QED BY <2>1 DEF SettledInv
<1> QED BY <1>1, SettledKept, Invariant, PTL DEF Spec

\* The coordinator approves a run only from within its loop.
Shaped(l) == l.pc = "commit" /\ l.goal.destination = "APPROVED" => l.goal.then = "loop"

LEMMA Shapes ==
    /\ Shaped(Idle) /\ Idle.pc = "idle"
    /\ \A snap, increment : \A destination \in Refusing :
          /\ Shaped(Terminating(snap, destination, increment))
          /\ Terminating(snap, destination, increment).pc = "commit"
          /\ Terminating(snap, destination, increment).goal.then = "idle"
    /\ \A snap, destination, increment : Shaped(Advancing(snap, destination, increment))
    /\ \A snap, a : Shaped(Working("context", snap, a)) /\ Shaped(Working("intend", snap, a))
    /\ \A snap, a, o : Shaped([Working("refuse", snap, a) EXCEPT !.out = o])
BY DEF Shaped, Idle, Terminating, Advancing, Committing, Working, Refusing

LEMMA AfterShaped == ASSUME NEW snap, NEW step \in MeteredSteps, NEW o PROVE Shaped(After(snap, step, o))
<1>1. {"FAILED", "BLOCKED", "CANCELLED"} \subseteq Refusing
  BY DEF Refusing
<1>2. CASE step \in {"BUILD", "REPAIR"}
  <2>1. After(snap, step, o) = AfterAgent(snap, step, o)
    BY <1>2 DEF After
  <2>2. PICK k : k = CounterOf(step)
    OBVIOUS
  <2> QED BY <1>1, <2>1, <2>2, Shapes DEF AfterAgent
<1>3. CASE step = "VALIDATION"
  <2>1. After(snap, step, o) = AfterValidation(snap, o)
    BY <1>3 DEF After
  <2> QED BY <1>1, <2>1, Shapes DEF AfterValidation
<1>4. CASE step = "REVIEW"
  <2>1. After(snap, step, o) = AfterReview(snap, o)
    BY <1>4 DEF After
  <2> QED BY <1>1, <2>1, Shapes DEF AfterReview
<1> QED BY <1>2, <1>3, <1>4 DEF MeteredSteps

\* With a clean ledger there is nothing else to know.
LEMMA Tidy == ASSUME Clean, NEW l, Shaped(l) PROVE Books(l)
BY DEF Books, Clean, CleanBut, Shaped

\* Nor is there for a coordinator that ends its call.
LEMMA Untidy ==
    ASSUME NEW l, l.pc \in {"idle", "enter", "sweep_list", "reconcile"} \/ (l.pc = "commit" /\ l.goal.then = "idle" /\ Shaped(l))
    PROVE  Books(l)
BY DEF Books, Shaped

\* The turns of the loop.
LEMMA TurnsShaped ==
    ASSUME NEW c \in Coordinators,
           leave_loop(c) \/ start_planning(c) \/ prepare_workspace(c) \/ build(c) \/ validate(c) \/ review(c) \/ repair(c)
    PROVE  UNCHANGED <<runVars, ledger>> /\ At(c, "loop") /\ \E new : Goto(c, new) /\ Shaped(new)
<1>1. {"FAILED", "BLOCKED", "CANCELLED"} \subseteq Refusing
  BY DEF Refusing
<1>2. ASSUME NEW a, NEW consumed, Continue(c, a, consumed), Shaped(consumed)
      PROVE  \E new : Goto(c, new) /\ Shaped(new)
  BY <1>2, Shapes DEF Continue, Stop
<1>3. ASSUME NEW a, a[1] \in MeteredSteps, BeginAgent(c, a) PROVE \E new : Goto(c, new) /\ Shaped(new)
  BY <1>2, <1>3, AfterShaped, Shapes DEF BeginAgent
<1>4. ASSUME NEW destination \in Refusing, Goto(c, Terminating(Run, destination, NoIncrement))
      PROVE  \E new : Goto(c, new) /\ Shaped(new)
  BY <1>4, Shapes
<1>5. Stop(c) => \E new : Goto(c, new) /\ Shaped(new)
  BY Shapes DEF Stop
<1>6. Unverified(c) => \E new : Goto(c, new) /\ Shaped(new)
  BY <1>1, <1>4 DEF Unverified
<1>7. CASE leave_loop(c)
  <2>1. UNCHANGED <<runVars, ledger>> /\ At(c, "loop")
    BY <1>7 DEF leave_loop
  <2>2. Stop(c) \/ \E destination \in Refusing : Goto(c, Terminating(Run, destination, NoIncrement))
    BY <1>1, <1>7 DEF leave_loop
  <2> QED BY <1>4, <1>5, <2>1, <2>2
<1>8. CASE start_planning(c)
  BY <1>8, Shapes DEF start_planning, Turn
<1>9. CASE prepare_workspace(c)
  <2>1. UNCHANGED <<runVars, ledger>> /\ At(c, "loop")
    BY <1>9 DEF prepare_workspace, Turn
  <2>2. Unverified(c) \/ Continue(c, WorktreeAttempt, Advancing(Run, "BUILDING", NoIncrement))
    BY <1>9 DEF prepare_workspace, WorktreeAttempt
  <2> QED BY <1>2, <1>6, <2>1, <2>2, Shapes
<1>10. CASE build(c)
  <2>1. UNCHANGED <<runVars, ledger>> /\ At(c, "loop")
    BY <1>10 DEF build, Turn
  <2>2. PICK a : a = <<"BUILD", NextSequence("BUILD")>>
    OBVIOUS
  <2>3. a[1] \in MeteredSteps
    BY <2>2 DEF MeteredSteps
  <2>4. Goto(c, Terminating(Run, "FAILED", NoIncrement)) \/ Unverified(c) \/ BeginAgent(c, a)
    BY <1>10, <2>2 DEF build
  <2> QED BY <1>1, <1>3, <1>4, <1>6, <2>1, <2>3, <2>4
<1>11. CASE repair(c)
  <2>1. UNCHANGED <<runVars, ledger>> /\ At(c, "loop")
    BY <1>11 DEF repair, Turn
  <2>2. PICK a : a = <<"REPAIR", NextSequence("REPAIR")>>
    OBVIOUS
  <2>3. a[1] \in MeteredSteps
    BY <2>2 DEF MeteredSteps
  <2>4. \/ \E destination \in Refusing : Goto(c, Terminating(Run, destination, NoIncrement))
        \/ Unverified(c) \/ BeginAgent(c, a)
    BY <1>1, <1>11, <2>2 DEF repair
  <2> QED BY <1>3, <1>4, <1>6, <2>1, <2>3, <2>4
<1>12. CASE validate(c)
  <2>1. UNCHANGED <<runVars, ledger>> /\ At(c, "loop")
    BY <1>12 DEF validate, Turn
  <2>2. PICK a, o : a = <<"VALIDATION", NextSequence("VALIDATION")>> /\ o = journal[a].outcome
    OBVIOUS
  <2>3. Shaped(Idle) /\ Shaped(AfterValidation(Run, o))
    <3>1. "VALIDATION" \in MeteredSteps /\ After(Run, "VALIDATION", o) = AfterValidation(Run, o)
      BY DEF MeteredSteps, After
    <3> QED BY <3>1, AfterShaped, Shapes
  <2>4. \/ Goto(c, Terminating(Run, "FAILED", NoIncrement)) \/ Unverified(c)
        \/ Continue(c, a, IF o.evidence THEN AfterValidation(Run, o) ELSE Idle)
    BY <1>12, <2>2 DEF validate
  <2> QED BY <1>1, <1>2, <1>4, <1>6, <2>1, <2>3, <2>4
<1>13. CASE review(c)
  <2>1. UNCHANGED <<runVars, ledger>> /\ At(c, "loop")
    BY <1>13 DEF review, Turn
  <2>2. PICK a, o : a = <<"REVIEW", NextSequence("REVIEW")>> /\ o = journal[a].outcome
    OBVIOUS
  <2>3. Shaped(AfterReview(Run, o))
    <3>1. "REVIEW" \in MeteredSteps /\ After(Run, "REVIEW", o) = AfterReview(Run, o)
      BY DEF MeteredSteps, After
    <3> QED BY <3>1, AfterShaped
  <2>4. Goto(c, Terminating(Run, "FAILED", NoIncrement)) \/ Unverified(c) \/ Continue(c, a, AfterReview(Run, o))
    BY <1>13, <2>2 DEF review
  <2> QED BY <1>1, <1>2, <1>4, <1>6, <2>1, <2>3, <2>4
<1> QED BY <1>7, <1>8, <1>9, <1>10, <1>11, <1>12, <1>13

\* Coordinator c moves to where it knows of the ledger what it must.
Keeping(c) == \E new : Goto(c, new) /\ Books(new)'

LEMMA SameBooks == ASSUME UNCHANGED ledger, NEW l, Books(l) PROVE Books(l)'
BY DEF Books, Clean, CleanBut, Metered, Attempts, StepLimit

\* The ways a step ends when it does not touch the ledger.
LEMMA KeepsBooks ==
    ASSUME NEW c \in Coordinators, UNCHANGED ledger
    PROVE  /\ Stop(c) => Keeping(c)
           /\ \A snap, increment : \A destination \in Refusing :
                 Goto(c, Terminating(snap, destination, increment)) => Keeping(c)
           /\ \A new : Clean /\ Shaped(new) /\ Goto(c, new) => Keeping(c)
           /\ \A new : new.pc \in {"enter", "sweep_list", "reconcile"} /\ Goto(c, new) => Keeping(c)
<1>1. \A new : Books(new) /\ Goto(c, new) => Keeping(c)
  BY SameBooks DEF Keeping
<1>2. Books(Idle)
  BY Shapes, Untidy
<1>3. ASSUME NEW snap, NEW increment, NEW destination \in Refusing PROVE Books(Terminating(snap, destination, increment))
  BY Shapes, Untidy
<1>4. \A new : Clean /\ Shaped(new) => Books(new)
  BY Tidy
<1>5. \A new : new.pc \in {"enter", "sweep_list", "reconcile"} => Books(new)
  BY Untidy
<1> QED BY <1>1, <1>2, <1>3, <1>4, <1>5 DEF Stop

LEMMA CallsKeep ==
    ASSUME Inv, NEW c \in Coordinators, Books(co[c]),
           execute(c) \/ resume(c) \/ cancel(c) \/ Crash(c) \/ enter(c) \/ reconcile(c) \/ sweep_list(c)
    PROVE  Keeping(c)
<1>0. {"FAILED", "BLOCKED", "CANCELLED"} \subseteq Refusing
  BY DEF Refusing
<1>1. UNCHANGED ledger
  BY DEF execute, resume, cancel, Crash, enter, reconcile, sweep_list
<1>2. Entering.pc = "sweep_list"
  BY DEF Entering, Idle
<1>3. CASE execute(c) \/ enter(c) \/ Crash(c)
  BY <1>1, <1>2, <1>3, KeepsBooks DEF execute, enter, Crash
<1>4. CASE cancel(c)
  BY <1>0, <1>1, <1>4, KeepsBooks DEF cancel
<1>5. CASE resume(c)
  <2>1. ASSUME NEW new, new.pc \in {"enter", "reconcile"}, Goto(c, new) PROVE Keeping(c)
    BY <1>1, <2>1, KeepsBooks
  <2>2. CASE Goto(c, [Idle EXCEPT !.pc = "enter", !.snap = Run])
    <3>1. PICK new : new = [Idle EXCEPT !.pc = "enter", !.snap = Run]
      OBVIOUS
    <3>2. new.pc = "enter" /\ Goto(c, new)
      BY <2>2, <3>1 DEF Idle, Goto
    <3> QED BY <2>1, <3>2
  <2>3. ASSUME NEW a \in Pending, NEW safe \in SafeToContinue(a),
               Goto(c, [Working("reconcile", Run, a) EXCEPT !.goal.then = IF safe THEN "enter" ELSE "idle"])
        PROVE  Keeping(c)
    <3>1. PICK w, then : w = Working("reconcile", Run, a) /\ then = IF safe THEN "enter" ELSE "idle"
      OBVIOUS
    <3>2. PICK new : new = [w EXCEPT !.goal.then = then]
      OBVIOUS
    <3>3. new.pc = "reconcile"
      BY <3>1, <3>2 DEF Working, Idle, NoGoal
    <3>4. Goto(c, new)
      BY <2>3, <3>1, <3>2 DEF Goto
    <3> QED BY <2>1, <3>3, <3>4
  <2>4. CASE Goto(c, Terminating(Run, "BLOCKED", NoIncrement))
    BY <1>0, <1>1, <2>4, KeepsBooks
  <2> QED BY <1>5, <2>2, <2>3, <2>4 DEF resume
<1>6. CASE reconcile(c)
  <2>1. PICK l, snap : l = co[c] /\ snap = l.snap
    OBVIOUS
  <2>2. PICK new : new = Committing(snap, "BUILDING", NoIncrement, "enter")
    OBVIOUS
  <2>3. Books(new)
    BY <2>2 DEF Committing, Idle, Books
  <2>4. \/ Stop(c) \/ Goto(c, new)
        \/ \E destination \in Refusing : Goto(c, Terminating(snap, destination, NoIncrement))
    BY <1>0, <1>6, <2>1, <2>2 DEF reconcile
  <2> QED BY <1>1, <2>3, <2>4, KeepsBooks, SameBooks DEF Keeping
<1>7. CASE sweep_list(c)
  <2>1. PICK l, new : l = co[c] /\ new = [l EXCEPT !.pc = "sweep", !.todo = {a \in Metered : ledger[a] = "ACTIVE"}]
    OBVIOUS
  <2>2. l \in Locals
    BY <2>1 DEF Inv, Types
  <2>3. new.pc = "sweep" /\ new.todo = {a \in Metered : ledger[a] = "ACTIVE"}
    BY <2>1, <2>2 DEF Locals
  <2>4. Books(new)
    BY <2>3 DEF Books
  <2> QED BY <1>1, <1>7, <2>1, <2>4, SameBooks DEF sweep_list, Keeping
<1> QED BY <1>3, <1>4, <1>5, <1>6, <1>7

LEMMA SweepKeeps == ASSUME Inv, NEW c \in Coordinators, Books(co[c]), sweep(c) \/ admit(c) PROVE Keeping(c)
<1>0. "BLOCKED" \in Refusing /\ ledger \in [Metered -> {"none", "ACTIVE", "SETTLED", "UNRESOLVED"}]
  BY DEF Refusing, Inv, Types
<1>1. PICK l : l = co[c]
  OBVIOUS
<1>2. l \in Locals /\ l.pc = "sweep" /\ l.todo \subseteq Metered /\ \A a \in Metered : ledger[a] = "ACTIVE" => a \in l.todo
  BY <1>1 DEF Inv, Types, Locals, Books, sweep, admit, At
<1>3. CASE sweep(c)
  <2>1. PICK a \in l.todo :
           \/ \E value \in {"SETTLED", "UNRESOLVED"} :
                 ledger' = [ledger EXCEPT ![a] = value] /\ Goto(c, [l EXCEPT !.todo = @ \ {a}])
           \/ Stop(c) /\ UNCHANGED ledger
    BY <1>1, <1>3 DEF sweep, Settled
  <2>2. ASSUME NEW value \in {"SETTLED", "UNRESOLVED"}, ledger' = [ledger EXCEPT ![a] = value],
               NEW new, new = [l EXCEPT !.todo = @ \ {a}]
        PROVE  Books(new)'
    <3>1. new.pc = "sweep" /\ new.todo = l.todo \ {a}
      BY <1>2, <2>2 DEF Locals
    <3>2. \A b \in Metered : ledger'[b] = "ACTIVE" => b \in new.todo
      BY <1>0, <1>2, <2>1, <2>2, <3>1
    <3> QED BY <3>1, <3>2 DEF Books, Metered, Attempts, StepLimit
  <2> QED BY <2>1, <2>2, KeepsBooks DEF Keeping
<1>4. CASE admit(c)
  <2>1. UNCHANGED ledger /\ l.todo = {}
    BY <1>1, <1>4 DEF admit
  <2>2. PICK new : new = [Idle EXCEPT !.pc = "loop"]
    OBVIOUS
  <2>3. Shaped(new)
    BY <2>2 DEF Idle, Shaped
  <2>4. \/ Stop(c) \/ Goto(c, Terminating(l.snap, "BLOCKED", NoIncrement))
        \/ ~(\E a \in Metered : ledger[a] = "UNRESOLVED") /\ Goto(c, new)
    BY <1>1, <1>4, <2>2 DEF admit
  <2>5. ~(\E a \in Metered : ledger[a] = "UNRESOLVED") => Clean
    BY <1>0, <1>2, <2>1 DEF Clean
  <2> QED BY <1>0, <2>1, <2>3, <2>4, <2>5, KeepsBooks
<1> QED BY <1>3, <1>4

LEMMA TurnsKeep ==
    ASSUME NEW c \in Coordinators, Books(co[c]),
           leave_loop(c) \/ start_planning(c) \/ prepare_workspace(c) \/ build(c) \/ validate(c) \/ review(c) \/ repair(c)
    PROVE  Keeping(c)
<1>1. UNCHANGED ledger /\ At(c, "loop") /\ \E new : Goto(c, new) /\ Shaped(new)
  BY TurnsShaped
<1>2. Clean
  BY <1>1 DEF Books, At
<1> QED BY <1>1, <1>2, KeepsBooks

LEMMA SelectingKeeps ==
    ASSUME Inv, NEW c \in Coordinators, Books(co[c]), context(c) \/ select(c) \/ measure(c)
    PROVE  Keeping(c)
<1>0. {"FAILED", "BLOCKED", "CANCELLED"} \subseteq Refusing
  BY DEF Refusing
<1>1. PICK l : l = co[c]
  OBVIOUS
<1>2. l \in Locals /\ l.pc \in {"context", "select", "measure"} /\ UNCHANGED ledger
  BY <1>1 DEF Inv, Types, context, select, measure, At
<1>3. Clean
  BY <1>1, <1>2 DEF Books
<1>4. ASSUME NEW pc \in {"context", "select", "measure"} PROVE Shaped([l EXCEPT !.pc = pc])
  BY <1>2, <1>4 DEF Locals, Shaped
<1>5. Shaped([l EXCEPT !.att[2] = @ + 1]) /\ Shaped([l EXCEPT !.pc = "context", !.att[2] = @ + 1])
  BY <1>2 DEF Locals, Shaped
<1>6. CASE context(c)
  <2>1. \/ Stop(c) \/ Goto(c, Advancing(l.snap, "WORKSPACE_PREPARING", NoIncrement))
        \/ Goto(c, Terminating(l.snap, "BLOCKED", NoIncrement))
        \/ Goto(c, [l EXCEPT !.att[2] = @ + 1]) \/ Goto(c, [l EXCEPT !.pc = "select"])
    BY <1>1, <1>6 DEF context, Restored
  <2> QED BY <1>0, <1>2, <1>3, <1>4, <1>5, <2>1, KeepsBooks, Shapes
<1>7. CASE select(c)
  <2>1. \/ Stop(c) \/ Goto(c, [l EXCEPT !.pc = "measure"])
        \/ \E destination \in Refusing : Goto(c, Terminating(l.snap, destination, NoIncrement))
    BY <1>0, <1>1, <1>7 DEF select
  <2> QED BY <1>2, <1>3, <1>4, <2>1, KeepsBooks
<1>8. CASE measure(c)
  BY <1>1, <1>2, <1>3, <1>5, <1>8, KeepsBooks DEF measure
<1> QED BY <1>6, <1>7, <1>8

LEMMA AttemptKeeps ==
    ASSUME Inv, NEW c \in Coordinators, Books(co[c]),
           intend(c) \/ refuse(c) \/ reserve(c) \/ invoke(c) \/ record(c) \/ settle(c)
    PROVE  Keeping(c)
<1>0. ledger \in [Metered -> {"none", "ACTIVE", "SETTLED", "UNRESOLVED"}]
  BY DEF Inv, Types
<1>1. PICK l, a, o : l = co[c] /\ a = l.att /\ o = l.out
  OBVIOUS
<1>2. l.pc \in Attempting
  BY <1>1 DEF intend, refuse, reserve, invoke, record, settle, At, Attempting
<1>3. l \in Locals /\ SoundEver(l) /\ a \in Attempts /\ a[1] \in Steps
  BY <1>1, <1>2, AttemptFields
<1>5. ASSUME NEW pc \in PCs, NEW new, new = [l EXCEPT !.pc = pc] PROVE new.pc = pc /\ new.att = a
  BY <1>1, <1>3, <1>5 DEF Locals
<1>6. {"reserve", "record", "invoke", "settle"} \subseteq PCs
  BY DEF PCs
<1>7. CASE intend(c) \/ refuse(c)
  <2>1. UNCHANGED ledger /\ Clean
    BY <1>7 DEF intend, refuse, At, Books
  <2>2. Stop(c) \/ \E pc \in {"reserve", "record"} : Goto(c, [l EXCEPT !.pc = pc])
    BY <1>1, <1>7 DEF intend, refuse
  <2>3. ASSUME NEW pc \in {"reserve", "record"} PROVE Shaped([l EXCEPT !.pc = pc])
    BY <1>3, <2>3 DEF Locals, Shaped
  <2> QED BY <2>1, <2>2, <2>3, KeepsBooks
<1>8. CASE reserve(c)
  <2>1. Clean
    BY <1>8 DEF reserve, At, Books
  <2>2. CASE UNCHANGED ledger
    <3>1. \/ Stop(c) \/ Goto(c, [l EXCEPT !.pc = "invoke"])
          \/ Goto(c, [l EXCEPT !.pc = "record", !.out = Refusal])
      BY <1>1, <1>8 DEF reserve, Launch
    <3>2. Shaped([l EXCEPT !.pc = "invoke"]) /\ Shaped([l EXCEPT !.pc = "record", !.out = Refusal])
      BY <1>3 DEF Locals, Shaped
    <3> QED BY <2>1, <2>2, <3>1, <3>2, KeepsBooks
  <2>3. CASE a \in Metered /\ ledger' = [ledger EXCEPT ![a] = "ACTIVE"] /\ Goto(c, [l EXCEPT !.pc = "invoke"])
    <3>1. PICK new : new = [l EXCEPT !.pc = "invoke"]
      OBVIOUS
    <3>2. new.pc = "invoke" /\ new.att = a
      BY <1>5, <1>6, <3>1
    <3>3. \A b \in Metered : b # a => ledger'[b] \in {"none", "SETTLED"}
      BY <1>0, <2>1, <2>3 DEF Clean
    <3>4. Books(new)'
      BY <3>2, <3>3 DEF Books, CleanBut, Metered, Attempts, StepLimit
    <3> QED BY <2>3, <3>1, <3>4 DEF Keeping
  <2> QED BY <1>1, <1>8, <2>2, <2>3 DEF reserve, Launch
<1>9. CASE invoke(c)
  <2>1. UNCHANGED ledger /\ CleanBut(a)
    BY <1>1, <1>9 DEF invoke, At, Books
  <2>2. PICK out, new : new = [l EXCEPT !.pc = "record", !.out = out] /\ Goto(c, new)
    BY <1>1, <1>9 DEF invoke
  <2>3. new.pc = "record" /\ new.att = a
    BY <1>1, <1>3, <2>2 DEF Locals
  <2>4. Books(new)
    BY <2>1, <2>3 DEF Books
  <2> QED BY <2>1, <2>2, <2>4, SameBooks DEF Keeping
<1>10. CASE record(c)
  <2>1. UNCHANGED ledger /\ CleanBut(a) /\ l.pc = "record"
    BY <1>1, <1>10 DEF record, At, Books
  <2>2. \/ Stop(c) \/ Goto(c, [l EXCEPT !.pc = "settle"])
        \/ ~(a \in Metered /\ o.evidence) /\ Goto(c, Unmetered(l.snap, a, o))
    BY <1>1, <1>10 DEF record
  <2>3. CASE Goto(c, [l EXCEPT !.pc = "settle"])
    <3>1. PICK new : new = [l EXCEPT !.pc = "settle"]
      OBVIOUS
    <3>2. new.pc = "settle" /\ new.att = a
      BY <1>5, <1>6, <3>1
    <3>3. Books(new)
      BY <2>1, <3>2 DEF Books
    <3> QED BY <2>1, <2>3, <3>1, <3>3, SameBooks DEF Keeping
  <2>4. CASE ~(a \in Metered /\ o.evidence) /\ Goto(c, Unmetered(l.snap, a, o))
    <3>1. a[1] # "CONTEXT" /\ (a[1] \in MeteredSteps => o = Refusal)
      BY <1>1, <1>2, <1>3, <2>1, <2>4, KnownAttempts DEF SoundEver
    <3>2. CASE a[1] = "WORKSPACE" /\ o.status = "COMPLETED"
      <4>1. Unmetered(l.snap, a, o) = Advancing(l.snap, "BUILDING", NoIncrement)
        BY <3>2 DEF Unmetered
      <4>2. a \notin Metered
        BY <1>3, <3>2, KnownAttempts DEF MeteredSteps
      <4>3. Clean
        BY <2>1, <4>2 DEF Clean, CleanBut
      <4> QED BY <2>1, <2>4, <4>1, <4>3, KeepsBooks, Shapes
    <3>3. CASE ~(a[1] = "WORKSPACE" /\ o.status = "COMPLETED")
      <4>1. \E destination \in Refusing, increment \in AttemptCounterKinds \cup {NoIncrement} :
               Unmetered(l.snap, a, o) = Terminating(l.snap, destination, increment)
        BY <1>3, <3>1, <3>3, UnmeteredEnds
      <4> QED BY <2>1, <2>4, <4>1, KeepsBooks
    <3> QED BY <3>2, <3>3
  <2> QED BY <2>1, <2>2, <2>3, <2>4, KeepsBooks
<1>11. CASE settle(c)
  <2>1. CleanBut(a) /\ l.pc = "settle"
    BY <1>1, <1>11 DEF settle, At, Books
  <2>2. a \in Metered /\ a[1] \in MeteredSteps
    BY <1>1, <1>3, <2>1, KnownAttempts DEF SoundEver
  <2>3. CASE Stop(c) /\ UNCHANGED ledger
    BY <2>3, KeepsBooks
  <2>4. CASE ledger' = [ledger EXCEPT ![a] = "SETTLED"] /\ Goto(c, After(l.snap, a[1], o))
    <3>1. PICK new : new = After(l.snap, a[1], o)
      OBVIOUS
    <3>2. Shaped(new)
      BY <2>2, <3>1, AfterShaped
    <3>3. \A b \in Metered : ledger'[b] \in {"none", "SETTLED"}
      BY <1>0, <2>1, <2>4 DEF CleanBut
    <3>4. Clean'
      BY <3>3 DEF Clean, Metered, Attempts, StepLimit
    <3>5. Books(new)'
      BY <3>2, <3>4 DEF Books, Clean, CleanBut, Shaped
    <3> QED BY <2>4, <3>1, <3>5 DEF Keeping
  <2> QED BY <1>1, <1>11, <2>3, <2>4 DEF settle, Settled
<1> QED BY <1>7, <1>8, <1>9, <1>10, <1>11

LEMMA CommitKeeps == ASSUME Inv, NEW c \in Coordinators, Books(co[c]), commit(c) PROVE Keeping(c)
<1>1. PICK l, then : l = co[c] /\ then = l.goal.then
  OBVIOUS
<1>2. l \in Locals /\ l.pc = "commit" /\ UNCHANGED ledger /\ then \in {"idle", "loop", "enter"}
  BY <1>1 DEF Inv, Types, Locals, Goals, commit, At
<1>3. then = "loop" => Clean
  BY <1>1, <1>2 DEF Books
<1>4. Shaped([Idle EXCEPT !.pc = "loop"])
  BY DEF Shaped, Idle
<1>5. ASSUME then = "enter", NEW snap, NEW new, new = [Idle EXCEPT !.pc = then, !.snap = snap] PROVE new.pc = "enter"
  BY <1>5 DEF Idle
<1>6. \/ Stop(c) \/ (then = "loop" /\ Goto(c, [Idle EXCEPT !.pc = "loop"]))
      \/ then = "enter" /\ \E snap : Goto(c, [Idle EXCEPT !.pc = then, !.snap = snap])
  BY <1>1, <1>2 DEF commit, Stop
<1> QED BY <1>2, <1>3, <1>4, <1>5, <1>6, KeepsBooks

\* The ledger of an approved run stays clean, and the run is approved only with a clean one.
LEMMA ApprovedClean ==
    ASSUME Inv, BookInv, [Next]_vars, state' = "APPROVED" PROVE Clean'
<1>0. ledger \in [Metered -> {"none", "ACTIVE", "SETTLED", "UNRESOLVED"}] /\ Metered \subseteq Attempts
  BY KnownAttempts DEF Inv, Types
<1>1. CASE \E c \in Coordinators : Transition(c)
  <2>1. PICK c \in Coordinators : Transition(c)
    BY <1>1
  <2>2. PICK l, goal : l = co[c] /\ goal = l.goal
    OBVIOUS
  <2>3. l.pc = "commit" /\ goal.destination = "APPROVED" /\ UNCHANGED ledger /\ Books(l)
    BY <2>1, <2>2, TransitionIs DEF Transition, At, BookInv
  <2>4. Clean
    BY <2>2, <2>3 DEF Books
  <2> QED BY <2>3, <2>4 DEF Clean, Metered, Attempts, StepLimit
<1>2. CASE UNCHANGED runVars
  <2>1. state = "APPROVED" /\ Clean
    BY <1>2 DEF runVars, BookInv
  <2>2. ~Opens
    BY <1>0, <2>1, AttemptPairs, Phases DEF Opens
  <2>3. \A b \in Metered : ledger'[b] \in {"none", "SETTLED"}
    BY <1>0, <2>1, <2>2, LedgerMoves DEF Clean, Closes, GivesUp
  <2> QED BY <2>3 DEF Clean, Metered, Attempts, StepLimit
<1> QED BY <1>1, <1>2, RunMoves

LEMMA BookKept ==
    ASSUME \A c, d \in Coordinators : c = d
    PROVE  Inv /\ BookInv /\ [Next]_vars => BookInv'
<1> SUFFICES ASSUME Inv, BookInv, [Next]_vars PROVE BookInv'
  OBVIOUS
<1>1. (state = "APPROVED" => Clean)'
  BY ApprovedClean
<1>2. ASSUME UNCHANGED <<ledger, co>> PROVE \A c \in Coordinators : Books(co[c])'
  BY <1>2 DEF BookInv, Books, Clean, CleanBut, Metered, Attempts, StepLimit
<1>3. ASSUME NEW c \in Coordinators, Keeping(c) PROVE \A d \in Coordinators : Books(co[d])'
  <2>1. PICK new : Goto(c, new) /\ Books(new)'
    BY <1>3 DEF Keeping
  <2>2. \A d \in Coordinators : co'[d] = new
    BY <2>1 DEF Goto, Inv, Types
  <2> QED BY <2>1, <2>2 DEF Books
<1>4. CASE UNCHANGED vars \/ Tick
  BY <1>1, <1>2, <1>4 DEF vars, Tick, BookInv
<1>5. ASSUME NEW c \in Coordinators,
             execute(c) \/ resume(c) \/ cancel(c) \/ Step(c) \/ Crash(c)
      PROVE  Keeping(c)
  BY <1>5, CallsKeep, SweepKeeps, TurnsKeep, SelectingKeeps, AttemptKeeps, CommitKeeps DEF Step, BookInv
<1> QED BY <1>1, <1>3, <1>4, <1>5 DEF Next, BookInv

\* With one coordinator at a time, which may crash anywhere and be started again, the budget fails
\* closed: a run is APPROVED only when all it reserved is settled, and nothing is settled or
\* launched that may not be (_reconcile_telemetry, reserve_if_allowed and settle_reservation).
THEOREM BudgetClosed ==
    ASSUME \A c, d \in Coordinators : c = d
    PROVE  Spec => []BudgetFailsClosed
<1>1. Init => BookInv
  <2> SUFFICES ASSUME Init PROVE BookInv
    OBVIOUS
  <2>1. \A c \in Coordinators : Books(co[c])
    BY Shapes, Untidy DEF Init
  <2> QED BY <2>1 DEF Init, BookInv
<1>2. SettledInv /\ BookInv => BudgetFailsClosed
  BY DEF SettledInv, BookInv, Clean, BudgetFailsClosed, Evidence
<1>3. Inv /\ BookInv /\ [Next]_vars => BookInv'
  BY BookKept
<1> QED BY <1>1, <1>2, <1>3, Invariant, OnlyWorkIsSettled, PTL DEF Spec
=============================================================================
