# Revanent: TLA+ models and proofs

Revanent runs a coding task through planning, context selection, an isolated Git worktree, a
builder, deterministic validation, a structured review and bounded repairs. Nothing runs in the
background: each command (`run`, `resume`, `cancel`, ...) is a process that reads durable state,
does some work and writes evidence. What makes it hard is that such a process can die anywhere,
that two of them can work on one run, and that agents, validations and worktrees cannot be rolled
back. This directory models that part, checks it with TLC and proves its safety
properties with TLAPS.

## Inventory

| Component | State | Operations | Hard behaviour | Must hold |
|---|---|---|---|---|
| Run state machine (`domain/`) | immutable `Run` | `transition_run`, validators | counters and approval evidence at their limits | only table edges, counters within budget |
| Run store (`storage/sqlite.py`) | runs, events, journal, bindings, usage, reservations, settlements | create, get, `persist_transition`, `persist_orchestration_record`, reserve, settle | optimistic concurrency, retries after unknown commits | log explains run, nothing acknowledged is lost, records have one creator |
| Coordinator (`orchestration/`) | none that survives a call (context package cache only) | `execute`, `reconcile`, `cancel` | crash between any two writes, two coordinators, stale snapshots | effects at most once, approval only on validated work, every run ends |
| Commands (`application/workflows.py`) | none | start, resume, cancel, status | identity gate before any write | refused calls change nothing |
| Budget telemetry (`telemetry/`) | usage, reservations in the store | decision, reserve, settle, mark unresolved | reservations of dead coordinators | settled only on evidence, fail closed |
| Review gate (`review/gates.py`) | none | `evaluate` | precedence of refusal reasons | approvable only with every gate |
| Validation runner (`validation/`) | per-call results | `execute` | cancellation, timeout and fail-fast order | required checks decide |
| Git worktrees (`git/`) | ownership record files, Git's own registry | create, verify, remove | crash between record, `git worktree add` and activation | no foreign or dirty worktree is touched |
| Command runner (`commands/`) | child process, output buffers | `run` | exit, timeout, cancellation and output limit racing | one terminal classification, process tree gone |
| Agent adapters (`agents/`) | none | `invoke` | provider result vs. process result | side effects never under-reported |
| Context selection (`context/`) | none | `select` | files changing while read | deterministic, within the byte budget |
| Reports, init (`application/`, `reporting/`) | files | write, initialise | partial writes | atomic or rolled back |
| Config, CLI, doctor | none | parse, print | - | - |

The components meet in the store. Every command reads a `StoredRun` (run and revision) and passes
that snapshot to every later write; the store refuses a write whose snapshot is no longer current.
The coordinator brackets each external effect by journal records: INTENT before, OUTCOME after, and
RECONCILIATION when a later process finds an intent without an outcome. Attempt and duration budgets
are reserved before an effect and settled after its outcome.

## Modules

- `RunStateMachine` - the transition table, `transition_run` and the `Run` validators as operators.
  A run is its state, three counters, last timestamp and approval evidence (none, satisfied, refused).
- `RunLifecycle` - the abstract specification: what one run may do, without clients or crashes.
- `RunStore` - `storage/sqlite.py` with clients that hold snapshots of any age. One action per
  store method; each is one SQLite transaction (`BEGIN IMMEDIATE`), hence atomic. A raised error is
  a step that changes nothing durable. An event is identified by run, revision and destination, which
  is what the coordinator's identifier factory digests; a record by a name from a small set.
- `Orchestration` - `orchestration/service.py` with `resume` and `cancel` of
  `application/workflows.py`: coordinators with a program counter, the journal per attempt, the
  ledger per attempt, the worktree and the clock. It stands on what `RunStore` shows: a write under
  a stale snapshot is refused, a record is created once.
- `BudgetAccount` - the abstract specification of one budgeted metric: hold, spend, close.
- `BudgetLedger` - reservations, settlements and usage with amounts, and the coordinators that use
  them; implements `BudgetAccount`.
- `GitWorktrees` - `git/local.py` and `git/ownership.py` beside a repository in use.
- `CommandRunner`, `ValidationRunner`, `AgentInvocation` - a child process under control, a plan of
  commands, one agent call. `Execution` composes them: what happens between an INTENT and its OUTCOME.
- `ContextDiscovery` - candidates, their merge, and the scope of paths, as operators.
  `ContextSelection` - selection, the recorded manifest and its restoration after a restart.
- `Sums` - sums of natural numbers over a finite set, without a recursive operator.
- `SumLemmas` - what such a sum is, and how it changes with one of its terms.
- `RunStoreProofs`, `OrchestrationProofs`, `BudgetLedgerProofs`, `GitWorktreesProofs`,
  `ValidationPlanProofs`, `ExecutionProofs`, `ContextSelectionProofs` - theorems about the module of that name
  (`ValidationPlanProofs` about the plan operators of `ValidationRunner`).
- `MCRunStore`, `MCOrchestration`, `MCBudgetLedger`, `MCGitWorktrees`, `MCExecution`,
  `MCContextSelection` - the instances for TLC.

Definitions whose comment begins with "Defect:" are faulty variants of the definition that follows
them, kept so that each property can be seen to fail when the code is wrong in that way.

### How Orchestration corresponds to the code

A coordinator's step is one read or one write of the store, or one external effect. All reads of one
turn of the loop are one step. That is enough because everything they are used for is written under
the run snapshot read first: if the run moved in between, the write is refused; if it did not, the
journal only gained records of this revision, which the write itself checks again (an INTENT must be
new, an OUTCOME must not differ). The reservations are not guarded by a revision, so the pass over
them is split into its reads and its single writes (`execute`, `sweep_list`, `sweep`).

| Code | Actions |
|---|---|
| `execute` up to the loop | `execute`, `sweep_list`, `sweep`, `admit` |
| loop checks | `leave_loop` |
| `_context` | `context`, `select`, `measure` |
| `_workspace`, `_build`, `_validate`, `_review`, `_repair` up to the first write | `prepare_workspace`, `build`, `validate`, `review`, `repair` |
| INTENT, reservation and launch, effect, OUTCOME, settlement | `intend`, `reserve`, `invoke`, `record`, `settle` |
| `_record_prelaunch_blocked_agent` | `refuse`, `record` |
| decision after an outcome | `AfterAgent`, `AfterValidation`, `AfterReview` |
| `_transition`, `_terminate`, `_cancel` | `commit` |
| application `resume`, `cancel` | `resume`, `reconcile`, `enter`, `cancel`, with the gate `Identified` |

Abstractions: attempts are pairs of step and sequence; an outcome keeps status, side effects, whether
it carries a response or result, the gate decision, and whether a validation overran its
reservation. Agents, validation, selection and the gate answer anything their result types allow;
the gate approves only without unresolved mutating effects, as `_review_once` arranges. Verification
of the worktree succeeds only on an active worktree and may fail on any. Time is `ample`, `short`
(too little for a validation plan) or `expired`. An exception ends a call, which is `Stop`.
The policy's strategies are reduced to repair, refuse (FAILED) and block. Reservation amounts are not
modelled: an attempt is reserved, settled or unresolved.

### How BudgetLedger corresponds to the code

Every action is one transaction or one read. `TelemetryService.decision` reads usage and
reservations in two transactions (`DecisionReadsUsage`, `DecisionReadsReservations`), so the
allowance it computes may be stale when `Reserve` (`reserve_if_allowed`) uses it; the store tests
the limit again under its own lock. `Settle` and the sweep (`_reconcile_telemetry`, in
`SweepReadsJournal`, `SweepReadsReservations`, `SweepSettles`) both end in `SettleReservation`,
which writes usage and settlement together. `current` says whether the run revision a coordinator
read is still the stored one; `AdvanceRun` is anybody's transition, which makes it false. An attempt
metric counts units, the duration metric a measured time. A lost answer of `Reserve` is repeated,
which is its retry branch. The optional external ceilings are in `Orchestration`
(`BudgetFailsClosed`), not here. A sweep may happen but need not: only `execute` sweeps, while
`cancel`, and a `resume` whose `reconcile` ends the run, return without it. So a reservation without
an outcome may stay ACTIVE for ever, and the ledger has no liveness property; what the code does
promise, that a recorded outcome is settled in the end, is `SettlementRecovered` of `Orchestration`.
`NoOverCommitment` counts against a limit what was used and everything ever reserved without a known
consumption, the reservations a sweep has written off included: the work behind them may have run.

### How GitWorktrees corresponds to the code

One action per Git command or file write, so that a crash, another process or a user can come
between any two: `CreateBegin`, `Acquire`, `WriteCreating`, `Recheck`, `GitAdd`, `VerifyCreated`,
`Activate`, `PreservePartial`, `Release`, and for cleanup `CleanupLoad`, `CleanupCheck`,
`GitRemove`, `ConfirmDeregistered`, `WriteRemoved`. A registered worktree is on its branch or not,
has a HEAD, and its directory is clean, holds ignored files only, has changes or a lock, or is
something else than the worktree (`foreign`). `Verified` is `_verify_record`: identity of the
repository and of the directory, registration, branch, ancestry. Git is external: it refuses a
colliding `add` and, without force, the removal of changes, of locked worktrees and of a foreign
directory, but not of ignored files; a command that fails may have done its work. Users edit,
commit, switch branches, replace the directory and remove the worktree (`UseWorktree`), and add one
of their own at the path, on the task's branch or another (`AddByHand`), at any time. They never
delete a task's branch. `owner` is a ghost: the identifier a worktree was created for, or nobody
when it was added by hand. `CleanupSparesOthers` says what cleanup guarantees against all this: it
removes only at its recorded path, in the repository of its record, and never a worktree made for
another identifier. It does not say that a user's worktree is spared: one that was added at the
recorded path and branch looks like the recorded one to `_verify_record`, and is removed. The lock
file of a crashed process stays until the operator removes it (`RemoveStaleLock`), which is allowed
only when no running process holds it. Two identifiers may name one path only if they name one
branch, as `make_binding` in `application/runtime_composition.py:177-187` does, which derives both
from the run. Repository identity is a value that `ReplaceRepository` changes while no operation
runs: a replacement in the middle of a Git command is outside what the code can defend against.

### How Execution corresponds to the code

`CommandRunner` splits `_complete_process` at each poll: the exit, the token and the clock are three
reads, and the process exits, the time passes and the cancellation comes between them. Exit codes
are expected, other or signal (negative). A timeout counts whole seconds since the launch; the
output is complete, complete in an artifact, or truncated. It models the POSIX branch; descendants
are not separate from the process group. `exits` records how each launched process really ended and
`wrote` whether a provider wrote anything: ghosts that the properties compare results with. What Git
shows of the worktree after a provider is a variable of its own, `differs`: it may be false although
the provider wrote, when it wrote only ignored files or undid what it did. `ValidationRunner` is
`_cap_validation_plan`, `execute` and `aggregate_validation_results`. `AgentInvocation` is the part
that the Codex and OpenCode adapters share: prelaunch checks, `command_failure_response`, envelope
translation, and the coordinator's `agent_side_effect_state`. The bytes of an envelope are not
modelled: each parsing layer may reject, or give any response its type accepts. A claim by the
provider itself is taken as a claim, and after a completion the code looks at status and HEAD;
`SideEffectsHonest` excepts both and is about all other ways to KNOWN_NONE: stopped, failed, timed
out, unreadable. A result keeps the status of its command beside its own, since a cancelled command
with unusable evidence is recorded INVALID. `CancelDominates` is about every noticed cancellation,
that one included; a plan that raises (`signal_exit`) has no verdict, and nothing is claimed about
one.

### How ContextSelection corresponds to the code

A path is a number with its parts, a text a record of size, size after redaction, digest, nature and
imports. Merge, ordering, role priorities, scope patterns and the budget are computed as the code
does; `_scope_match` is checked against what a pattern means (`Covers`), over any widths of `**`. A
read is three steps, metadata, content and metadata again (`ReadBegin`, `ReadRest`, `ReadCompare`),
and `Write` may come between any two; discovery reads without retry. The reader compares device,
inode, size and modification time, so it notices a `Write` but not an `EvadingWrite`, which puts a
text of the same size and leaves the time as it was. `ContentIsOneVersion` says that this is the
only way to a mixture of two versions; ADR-0010 leaves it open. The scope is about names: what a
link inside the root leads to is read without a new look at the scope, and is not modelled.
`Persist` and `KeepPackage` are the recorded CONTEXT outcome and `_restore_context_package`.
`StampedAs` says how the caller stamps a continued request: `original`, a stable request as the port
allows, or `now`, as the shipped runtime does. Python import resolution is the relation `imports`;
redaction is a smaller size. The loop over the sorted entries keeps the set still to be done
(`todo`) and takes the first of it in the code's order (`entry`). Authority and trust of an entry go
together and are one value, `class`. A request is of `RequestType`, the fields of the code's request
types. `RequestsAssumption` says further that a reference names one thing: `_unique_inline` and
`_unique_artifacts` raise where one identity has two contents, and a file's reference is its path;
that inline evidence and artifacts are not named alike, nor after a path, is the callers' part.

## Runs

| Run | Instance | Shows |
|---|---|---|
| `store_path` | 1 run, 2 clients with stale clocks, every path to a terminal state | log replays to the state, terminal runs frozen, store implements `RunLifecycle` with its counters |
| `store_race` | 2 runs, 2 clients, 2 reasons, 1 worktree and 2 record names both runs want | acknowledged is durable, one creator per record, one run per worktree, records name the right state, nothing is rewritten |
| `coordinator_crash` | 1 coordinator, 2 crashes, 2 roles, 2 plans, 2 reviews, 1 repair, deadline, overruns, ceilings | at-most-once effects, approval only on validated and resolved work, budget fails closed (settlement on evidence, approval only when settled, ceilings), counters and context usage match the journal, refinement of `RunLifecycle`, every run ends, recorded outcomes are settled |
| `coordinator_race` | 2 coordinators, 1 build, 1 validation, 1 review | effects exclusive and at most once, approval only on validated work, evidence never rewritten, an ended run is closed |
| `budget_ledger` | 2 coordinators that stop anywhere, 1 attempt and 2 validations, limit 1, times 0 to 2 | no over-commitment, consumption booked exactly once, append-only, refinement of `BudgetAccount` |
| `worktrees` | 2 processes, 1 crash, 2 identifiers for one path and branch, 2 repositories, 2 bases | exclusive ownership, no orphan worktree, ownership evidence only moves forward, no cleanup removes another identifier's worktree |
| `execution` | plans of 2 commands of 1 or 2 s, 1 to 3 s left, a writing and a read-only agent | approvable means really passed, nothing starts after a noticed cancellation, the capped plan fits, the process is gone, a stopped or failed writer is not taken for harmless, every call ends |
| `context` | 16 requests over 7 paths and 3 texts, 1 or 2 files written at any time, 1 crash, stable requests | required evidence delivered whole, within budget and scope, no mixed reads but by an evading write, a provider sees only the recorded package, selection ends |
| `lost_repair`, `stuck_reconciliation`, `signal_exit`, `resume_context` | smallest instance | disagreements with documentation and tests, below |

The type invariants of `GitWorktrees`, `Execution` and `ContextSelection` describe their state and
hold in the same instances; their cfgs list only what says more about the code.

Why the bounds are enough. Two clients suffice for races on one row: a write is refused or accepted
by comparing one snapshot with the row, so every conflict is between two. Two crashes allow a crash
of the recovery from a crash. One repair and two reviews give a whole second round; the paths of a
third round are those of the second, since a phase looks only at the latest evidence and at the limits.
In `coordinator_race` a coordinator that stops for ever stands for a crashed one. It leaves out
repairs, overruns and agents without or with ambiguous effects, which `coordinator_crash` covers.
In `budget_ledger` a limit of one unit makes every second reservation a conflict, and two validations
let one overrun while the other waits; crashes are unbounded. In `worktrees` both identifiers want the
same path and branch, the only way two locks can meet; one crash leaves one of every intermediate
state behind for the other process. In `execution` two commands give a first and a last one, and
1 to 3 seconds cover no plan, a plan cut short, and (for 1 + 2 s) a plan in full. In `context` the
limits are so small (3 items, 8 bytes, 1 recorded exclusion, 1 retry) that each is met and exceeded
by one of the requests.

Deadlock is checked in the coordinator runs (a terminal run can always be executed again, as a
no-op) and in `worktrees`. It is not in the store runs, where bounded revisions let clients run out of
calls, in `budget_ledger`, where every attempt is made once, and in `execution` and `context`, where
a finished call stops.

### Fairness

- `Orchestration`: weak fairness of time and of the steps of a begun call, because every agent,
  validation and Git command has a timeout, and strong fairness of `resume`: somebody keeps resuming an
  unfinished run. Without the last one a run waits for ever by design, since there is no daemon.
  `EventuallyTerminal` also needs that the worktree keeps its identity while the run is unfinished;
  the commands refuse to touch a run whose worktree does not verify, and it then stays as it is.
  `SettlementRecovered` uses the same: after an OUTCOME no attempt is incomplete, so `resume` goes on to
  `execute`, which sweeps before anything else. A cancellation may come first and leave the reservation.
- `BudgetLedger`, `GitWorktrees` and `RunStore` assume none and claim no liveness.
- `Execution`: weak fairness of the coordinator's own thread and of time. Nothing is assumed of the
  child process, which may ignore everything, or of a cancellation, which need not come.
- `ContextSelection`: weak fairness of the selection's steps; files may change for ever.

## Findings

- `lost_repair`: the last repair is thrown away when a coordinator stops between its recorded outcome
  and the transition: the limit counts the intent and is checked before the outcome is consumed.
- `stuck_reconciliation`: the reconciliation record and the transition it justifies are two
  transactions; after a crash in between nothing continues the run. (The coordinator and its
  reconciler have this path; which evidence collector is composed does not matter for it.)
- `signal_exit`: a validation command that dies of the runner's own signal has a negative exit code,
  which the result type refuses: the timeout raises out of `execute` instead of being recorded.
- `resume_context`: a new process stamps its context request with the present time, the manifest
  contains the stamp and is compared as a whole, so a restart blocks the run over unchanged files.

The first two are properties of the coordinator for any composition with stable requests. With the
shipped runtime a new process meets `resume_context` before it reaches them.

Met as well, without a run of their own: the exit "repair limit exhausted after review" takes a run
to FAILED without counting the review (`docs/WORKFLOW_STATE_MACHINE.md:102`); CANCELLED can be
committed while another process is inside an agent call (`docs/WORKFLOW_STATE_MACHINE.md:24`); a
prelaunch refusal ignores whether its INTENT was created; attempt sequences stop at 100 while 101
validation plans are accepted; an ignored file that appears in a worktree after cleanup checked it
is deleted by Git; a crash between `git worktree remove` and the REMOVED record leaves an ACTIVE
record that cleanup refuses from then on; a reservation without an outcome stays ACTIVE when
reconcile or cancel ends its run, where `docs/ARCHITECTURE.md:334-335` speaks of UNRESOLVED (both
freeze its capacity).

## Proofs

Every theorem holds for all values of the constants that satisfy the assumptions of its module; none
bounds clients, coordinators, runs, commands, amounts or crashes. The assumptions are the field bounds
of the code's own types (`BudgetAssumption`, `LedgerAssumption`, `ExecutionAssumption`, ...), that the
placeholders for "nothing" differ from every real value, and for worktrees the shared branch above.

### RunStore

- `TypeCorrect`: type correctness, including that every stored run satisfies the `Run` validator. It
  is inductive as it stands; it needs that snapshots held by clients are well typed too.
- `LogCorrect`: `LogExplainsRun` and `LogTimesOrdered`. The log of a run has length revision, chains
  from CREATED along the table and ends in the stored state and time.
- `AcknowledgedTransitionsDurable`: needs the strengthening `EventIdsNameRevision` (an event's
  identifier names its position), so that the replay branch, which finds an event by identifier, finds
  the event of the acknowledged revision.
- `JournalAttributesEvidence`: needs the log to be append-only and as long as the revision.
- `RecordsHaveOneCreator`, `StoreAppendOnly`: who was told CREATED wrote the row, and no row changes.
- `TerminalRunsFrozen`: run and event log, from the table (`NoTerminalExit`) and the compare-and-set. The
  journal of an ended run is not frozen by the store; that nothing is added to it is the coordinator's part
  (`EvidenceIsFinal`).
- `StoreImplementsLifecycle`: every step of the store maps to a step or a stutter of `RunLifecycle`.

The argument goes through `CallStep`: what an accepted call does to the stored run is either nothing
or `NextRun` of the very run that is stored.

### Orchestration

`TypeCorrect`, `LaunchedAtMostOnce`, `ApprovalSound`, `CountersAgree`, `EvidenceIsFinal` and
`CoordinatorsImplementLifecycle` are proved for any number of coordinators and crashes. None of these
invariants is inductive. What carries them is that attempts are numbered by revisions: at one revision
exactly one attempt of a step may begin, the one after all that were begun at earlier revisions
(`Begun`). Hence a coordinator whose snapshot is current and which created the INTENT owns the attempt
(`EffectInv`), nobody else can launch it, and one with a stale snapshot is refused at its next
write. A run leaves a phase for another working phase only on the evidence of that attempt
(`Grounds`), so counters equal journal entries (`CountInv`) and a verdict is about the worktree
as it is (`VerdictInv`). The steps are sorted by what they do: steps that leave the run alone and only
add to the journal (`Grows`) keep everything (`Transfers`); `commit` is the only one that moves the
run (`Transitions`).

`BudgetClosed` (`BudgetFailsClosed`) is proved for one coordinator at a time, which is how the
commands are used and what `coordinator_crash` checks: with two, one can commit APPROVED between the
other's reservation and its settlement. Its second invariant says that whoever is past admission has
a ledger with nothing open (`Clean`) but its own attempt (`Books`). Part of it holds without that
restriction and is a theorem of its own: `OnlyWorkIsSettled`, nothing is settled but a launched
attempt with evidence.

### BudgetLedger

`TypeCorrect`, `Balanced`, `AppendOnly`, `WithinLimits` and `AccountImplemented`. The invariant adds
to the types that one client owns a key between INTENT and settlement, what a client knows in each
phase (`PhaseInv`), and which rows exist together (`RowInv`). `WithinLimits` follows from what each
of the three writes does to the sums of a metric (`ReserveSums`, `SettleSums`, `WriteOffSums`); all
other steps leave them alone. The sums are taken over a set of keys of any size: `SumLemmas` gets
the induction it needs from a minimal counterexample, a smallest subset or number for which the
claim fails.

### GitWorktrees

`TypeCorrect`, `ExclusiveOwners`, `NoOrphans`, `EvidenceForward`, `CleanupSparesOtherOwners`. The
invariant says that a process past the lock is the only one of its identifier (`LockInv`), that what
it read before is still so when it acts or is no longer relied on (`Knowledge`), and that a branch
or a worktree that exists is explained by a record (`BranchInv`, `TreeInv`).

### Execution

`CapFits`: for every plan, what `_cap_validation_plan` returns is a prefix of the plan with timeouts of
at least one second and no longer than declared, which fit the remaining time together. `PlansFit`
follows. `ProcessesEnd`, `EffectsHonest`, `CancellationDominates` and `ApprovablePlansPassed` rest on an
invariant per layer: what the runner's locals say of the process (`RunnerInv`, `ResultInv`), whose turn
it is (`TurnInv`), that recorded results are true of the processes that ran (`ValidationInv`) and what
a response may claim (`AgentInv`).

### ContextSelection

`ScopeMatchMeans`: for every path and pattern, the recursion of `_scope_match` computes what the
pattern means (`Covers`). The proof goes through cuts of the path, where each part of the pattern
begins: the cuts satisfy the recursion (`MatchesFrom`), a function that satisfies it exists and has only
one value, and cuts and widths are the same thing told twice. Induction is again by a minimal
counterexample.

`VersionCorrect`, `ScopeCorrect`, `BudgetCorrect`, `RecordCorrect` and `DeliveryCorrect` hold for
any files, requests, limits, writers and crashes, from `PathsAssumption`, `SelectionAssumption` (the
field bounds of `ContextLimits`; equal digests mean equal redacted sizes) and `RequestsAssumption`.
The first needs `ReadInv`: as long as the metadata tells of no change and none was evaded, what has
been read is the text that is there. The last is the hard one, since evidence is merged, sorted,
refused, replaced by references and dropped on its way. The invariant follows a required piece:
`EntriesInv`, a merge keeps an entry that is required and complete if one of the merged was;
`PreparedInv`, every required entry is still to be done or is prepared, and prepared items are
ordered by importance; `PackedInv`, every required entry is still to be packed or is supplied, and
the representative of a duplicate is in the package unless nothing required is left. The order is
what makes references safe: an item without room is dropped only if it is not required, and by then
no required item follows that could refer to it.

### Only model-checked

- Liveness (`EventuallyTerminal`, `SettlementRecovered`, `EventuallyEnded`, `EventuallySelected`):
  the prover does not reason about fairness or ENABLED.
- The runs that show a disagreement.

`LogTimesOrdered`, `SettledInv` and the type invariant of `ContextSelection`, conversely, are proved and
in no run of their own.

## Plan

Done: the store, the coordinator, the ledger, worktrees, execution and context selection are modelled
and checked; all their invariants, action properties and refinements are proved. Left, in this order:

1. `ReviewGate` and `RepairPolicy` as operators checked against their documented precedence.
2. Report writer, project initialisation and migrations.

## Not modelled

Reports and project initialisation (files written once, atomically or with rollback; planned); the
schema and its migrations; the precedence of the review gate's reasons, of which `Orchestration`
keeps only the decision; parsing of provider and Git output, and the many reasons for which the
command policy refuses, which are one refusal; links inside the context root; the Windows branch of
the command runner; descendants that leave the process group; the wording of redaction; status
projections; configuration, the CLI, the doctor and tool detection. Apart from the first two these
are formatting and reading without state that outlives a call.
