------------------------------ MODULE RunStore ------------------------------
(***************************************************************************)
(* The SQLite run repository (storage/sqlite.py): runs, their append-only  *)
(* event log, the orchestration journal and the repository bindings, used  *)
(* by several clients at once.                                             *)
(*                                                                         *)
(* Each public method of SQLiteRunRepository runs in one transaction       *)
(* (BEGIN IMMEDIATE for writes), so each is one atomic action.  What is    *)
(* not atomic is a client: it reads a StoredRun and the length of the      *)
(* journal in one transaction and writes in a later one, by which time     *)
(* both may be stale.  held[c] is the snapshot client c will pass as       *)
(* `expected`.                                                             *)
(***************************************************************************)
EXTENDS RunStateMachine, Sequences, FiniteSets

CONSTANTS
    RunIds, Clients, WorktreeIds,
    Times,       \* clock readings, a set of naturals
    Reasons,     \* the free-text part of a transition
    RecordIds,   \* journal record identifiers: hash of attempt and stage
    Bodies,      \* what a journal record says beyond its identifier
    MaxRevision, \* bound on the transitions of one run
    MaxRecords   \* MAX_ORCHESTRATION_RECORDS, 1024 in the code

ASSUME StoreAssumption ==
    /\ Times \subseteq Nat
    /\ MaxRevision \in Nat
    /\ MaxRecords \in Nat

NoWorktree == "no_worktree"
ASSUME WorktreeAssumption == NoWorktree \notin WorktreeIds

VARIABLES
    exists,     \* the run_id values of table runs
    stored,     \* run_id -> run payload and revision (meaningful for existing runs)
    events,     \* run_id -> table run_events in sequence order
    journal,    \* run_id -> table orchestration_records in sequence order
    bindings,   \* run_id -> worktree of its runtime_bindings row, or NoWorktree
    held,       \* client -> the snapshot it read, as a set of at most one
    acked,      \* ghost: transitions reported to some client as persisted
    created     \* ghost: journal records reported to some client as created by it

dbVars == <<exists, stored, events, journal, bindings>>
vars == <<exists, stored, events, journal, bindings, held, acked, created>>

StoredRuns == [run: Runs, revision: Nat]

(***************************************************************************)
(* Event identifiers are chosen by the only caller, _transition of the     *)
(* coordinator: a digest of run, expected revision and destination.  The   *)
(* digest is taken to be injective.                                        *)
(***************************************************************************)
EventId(run_id, revision, destination) == <<run_id, revision, destination>>
EventIds == RunIds \X Nat \X RunStates

Events == [id: EventIds, source: RunStates, destination: RunStates,
           occurred_at: Nat, reason: Reasons]

Records == [id: RecordIds, body: Bodies, run_revision: Nat, expected_state: RunStates]

Snapshots == [run_id: RunIds, stored: StoredRuns, next_sequence: Nat]

Init ==
    /\ exists = {}
    /\ stored \in [RunIds -> {[run |-> NewRun(t), revision |-> 0] : t \in Times}]
    /\ events = [r \in RunIds |-> <<>>]
    /\ journal = [r \in RunIds |-> <<>>]
    /\ bindings = [r \in RunIds |-> NoWorktree]
    /\ held = [c \in Clients |-> {}]
    /\ acked = {}
    /\ created = {}

-----------------------------------------------------------------------------
(* Creation. A run identifier is inserted once; a second insert raises and *)
(* changes nothing.                                                        *)

create_run(r) ==
    /\ r \notin exists
    /\ exists' = exists \cup {r}
    /\ UNCHANGED <<stored, events, journal, bindings, held, acked, created>>

\* The run row and its binding row are one transaction; worktree_id is UNIQUE.
create_bound_run(r, w) ==
    /\ r \notin exists
    /\ \A other \in RunIds : bindings[other] # w
    /\ exists' = exists \cup {r}
    /\ bindings' = [bindings EXCEPT ![r] = w]
    /\ UNCHANGED <<stored, events, journal, held, acked, created>>

-----------------------------------------------------------------------------
(* Reads.                                                                  *)

get_run(c, r) ==
    /\ r \in exists
    /\ held' = [held EXCEPT ![c] =
                   {[run_id |-> r, stored |-> stored[r], next_sequence |-> Len(journal[r]) + 1]}]
    /\ UNCHANGED <<exists, stored, events, journal, bindings, acked, created>>

\* The coordinator lists the journal again before each append, keeping the run
\* snapshot it already had.
list_orchestration_records(c) ==
    \E expected \in held[c] :
        /\ held' = [held EXCEPT ![c] =
                       {[expected EXCEPT !.next_sequence = Len(journal[expected.run_id]) + 1]}]
        /\ UNCHANGED <<exists, stored, events, journal, bindings, acked, created>>

-----------------------------------------------------------------------------
(* persist_transition.  A call names the snapshot `expected`, an edge out   *)
(* of its state and the rest of the transition; calls that transition_run  *)
(* refuses raise before the database is opened.                            *)

EventIdsInUse == UNION {{events[r][i].id : i \in DOMAIN events[r]} : r \in RunIds}

TransitionEvent(expected, destination, occurred_at, reason) ==
    [id |-> EventId(expected.run_id, expected.stored.revision, destination),
     source |-> expected.stored.run.state, destination |-> destination,
     occurred_at |-> occurred_at, reason |-> reason]

Acknowledged(expected, event) ==
    [run_id |-> expected.run_id, revision |-> expected.stored.revision + 1, event |-> event]

\* Defect: the UPDATE has no revision in its WHERE clause.
CommitTransitionBlind(expected, result, event) ==
    LET r == expected.run_id
    IN  /\ event.id \notin EventIdsInUse
        /\ stored[r].revision < MaxRevision
        /\ stored' = [stored EXCEPT ![r] =
               [run |-> result, revision |-> expected.stored.revision + 1]]
        /\ events' = [events EXCEPT ![r] = Append(@, event)]
        /\ acked' = acked \cup {Acknowledged(expected, event)}
        /\ UNCHANGED <<exists, journal, bindings, held, created>>

\* The compare-and-swap: the row still is what the client read, so the run is
\* replaced and the event appended in the same transaction.
CommitTransition(expected, result, event) ==
    LET r == expected.run_id
    IN  /\ stored[r] = expected.stored
        /\ event.id \notin EventIdsInUse
        /\ stored[r].revision < MaxRevision
        /\ stored' = [stored EXCEPT ![r] =
               [run |-> result, revision |-> expected.stored.revision + 1]]
        /\ events' = [events EXCEPT ![r] = Append(@, event)]
        /\ acked' = acked \cup {Acknowledged(expected, event)}
        /\ UNCHANGED <<exists, journal, bindings, held, created>>

\* Defect: the stored transition is not compared with the one being retried.
IsReplayByRun(expected, result, event) ==
    /\ stored[expected.run_id].revision = expected.stored.revision + 1
    /\ stored[expected.run_id].run = result

\* The row is exactly one revision ahead, holds the run this call would have
\* written, and the event under this identifier records the same transition.
IsReplay(expected, result, event) ==
    LET r == expected.run_id
    IN  /\ stored[r].revision = expected.stored.revision + 1
        /\ stored[r].run = result
        /\ \E i \in DOMAIN events[r] : events[r][i] = event

\* An idempotent retry is acknowledged without a write.
ReplayTransition(c, expected, result, event) ==
    /\ IsReplay(expected, result, event)
    /\ acked' = acked \cup {Acknowledged(expected, event)}
    /\ held' = [held EXCEPT ![c] = {}]
    /\ UNCHANGED <<exists, stored, events, journal, bindings, created>>

\* ConcurrentRunUpdateError or DuplicateEventError: nothing is written and the
\* client must read again.
RejectTransition(c, expected, result, event) ==
    /\ stored[expected.run_id] # expected.stored
    /\ ~IsReplay(expected, result, event)
    /\ held' = [held EXCEPT ![c] = {}]
    /\ UNCHANGED <<exists, stored, events, journal, bindings, acked, created>>

persist_transition(c) ==
    \E expected \in held[c] :
        LET run == expected.stored.run
        IN  \E destination \in permitted_destinations(run.state),
               occurred_at \in Times, reason \in Reasons,
               gate \in ApprovalGates, increment \in AttemptCounterKinds \cup {NoIncrement} :
                LET result == NextRun(run, destination, occurred_at, gate, increment)
                    event == TransitionEvent(expected, destination, occurred_at, reason)
                IN  /\ TransitionAccepted(run, destination, occurred_at, gate, increment)
                    /\ \/ CommitTransition(expected, result, event)
                       \/ ReplayTransition(c, expected, result, event)
                       \/ RejectTransition(c, expected, result, event)

-----------------------------------------------------------------------------
(* persist_orchestration_record.                                           *)

RecordFor(expected, id, body) ==
    [id |-> id, body |-> body, run_revision |-> expected.stored.revision,
     expected_state |-> expected.stored.run.state]

\* record_id is the primary key of the table: unique over all runs.
RecordIdInUse(id) == \E r \in RunIds : \E i \in DOMAIN journal[r] : journal[r][i].id = id

\* Mutants: the snapshot, or the primary key, is not compared.
RecordAcceptedStale(expected, id) ==
    /\ ~RecordIdInUse(id)
    /\ expected.next_sequence = Len(journal[expected.run_id]) + 1
    /\ expected.next_sequence <= MaxRecords

RecordAcceptedTwice(expected, id) ==
    /\ stored[expected.run_id] = expected.stored
    /\ expected.next_sequence = Len(journal[expected.run_id]) + 1
    /\ expected.next_sequence <= MaxRecords

\* The run is unchanged since the snapshot, the identifier is new and the sequence
\* the client computed is still the next one.
RecordAccepted(expected, id) ==
    /\ stored[expected.run_id] = expected.stored
    /\ ~RecordIdInUse(id)
    /\ expected.next_sequence = Len(journal[expected.run_id]) + 1
    /\ expected.next_sequence <= MaxRecords

\* Defect: INSERT OR REPLACE at the sequence number the client computed.
AppendRecordReplacing(c, expected, id, body) ==
    LET r == expected.run_id
    IN  /\ stored[r] = expected.stored
        /\ ~RecordIdInUse(id)
        /\ expected.next_sequence <= MaxRecords
        /\ journal' = [journal EXCEPT ![r] =
               Append(SubSeq(@, 1, expected.next_sequence - 1), RecordFor(expected, id, body))]
        /\ UNCHANGED <<exists, stored, events, bindings, held, acked, created>>

AppendRecord(c, expected, id, body) ==
    LET r == expected.run_id
    IN  /\ RecordAccepted(expected, id)
        /\ journal' = [journal EXCEPT ![r] = Append(@, RecordFor(expected, id, body))]
        /\ created' = created \cup
               {[client |-> c, run_id |-> r, sequence |-> expected.next_sequence, id |-> id]}
        /\ UNCHANGED <<exists, stored, events, bindings, held, acked>>

\* The identifier exists: the client is answered created=False, or with an error when
\* the record names another boundary, and nothing is written.
FindRecord(expected, id) ==
    /\ stored[expected.run_id] = expected.stored
    /\ RecordIdInUse(id)
    /\ UNCHANGED vars

\* ConcurrentRunUpdateError: the run moved on or another record took the sequence
\* number, and the client must read again.  MaxRecords is a CHECK of the table.
RefuseRecord(c, expected, id) ==
    /\ ~RecordAccepted(expected, id)
    /\ ~(stored[expected.run_id] = expected.stored /\ RecordIdInUse(id))
    /\ held' = [held EXCEPT ![c] = {}]
    /\ UNCHANGED <<exists, stored, events, journal, bindings, acked, created>>

persist_orchestration_record(c) ==
    \E expected \in held[c], id \in RecordIds :
        \/ \E body \in Bodies : AppendRecord(c, expected, id, body)
        \/ FindRecord(expected, id)
        \/ RefuseRecord(c, expected, id)

Next ==
    \/ \E r \in RunIds : create_run(r)
    \/ \E r \in RunIds, w \in WorktreeIds : create_bound_run(r, w)
    \/ \E c \in Clients, r \in RunIds : get_run(c, r)
    \/ \E c \in Clients : list_orchestration_records(c)
    \/ \E c \in Clients : persist_transition(c)
    \/ \E c \in Clients : persist_orchestration_record(c)

Spec == Init /\ [][Next]_vars

-----------------------------------------------------------------------------
(* Properties.                                                             *)

\* Every table and every snapshot holds values of its type; the payload of a run row
\* passes the model validator of Run, so it can always be read back.
TypeOK ==
    /\ exists \subseteq RunIds
    /\ stored \in [RunIds -> StoredRuns]
    /\ \A r \in RunIds : ValidRun(stored[r].run)
    /\ events \in [RunIds -> Seq(Events)]
    /\ journal \in [RunIds -> Seq(Records)]
    /\ bindings \in [RunIds -> WorktreeIds \cup {NoWorktree}]
    /\ held \in [Clients -> SUBSET Snapshots]
    /\ acked \subseteq [run_id: RunIds, revision: Nat, event: Events]
    /\ created \subseteq [client: Clients, run_id: RunIds, sequence: Nat, id: RecordIds]

\* The state run r had after its first n transitions, read off the event log.
StateAt(r, n) == IF n = 0 THEN "CREATED" ELSE events[r][n].destination

\* The event log explains the run: one event per revision, each leaving the state
\* the one before it entered along a permitted edge, the last entering the stored
\* state.  persist_transition writes the row and the event in one transaction.
LogExplainsRun ==
    \A r \in RunIds :
        /\ stored[r].revision = Len(events[r])
        /\ stored[r].run.state = StateAt(r, Len(events[r]))
        /\ \A i \in 1..Len(events[r]) :
              /\ events[r][i].source = StateAt(r, i - 1)
              /\ <<events[r][i].source, events[r][i].destination>> \in Edges

\* Timestamps never run backwards along the log, and none is later than the row's.
LogTimesOrdered ==
    \A r \in RunIds : \A i \in 1..Len(events[r]) :
        /\ events[r][i].occurred_at <= stored[r].run.updated_at
        /\ i > 1 => events[r][i - 1].occurred_at <= events[r][i].occurred_at

\* A transition that some client was told is persisted is the event at that revision,
\* whether the client committed it or was answered by the replay check.
AckedDurable ==
    \A a \in acked :
        /\ a.revision \in 1..Len(events[a.run_id])
        /\ events[a.run_id][a.revision] = a.event

\* A journal record was told `created` to one client only, at the place it stands at: of
\* several clients that race to own an intent, or to bind a worktree, one wins.
OneCreator ==
    /\ \A x \in created :
          /\ x.sequence \in 1..Len(journal[x.run_id])
          /\ journal[x.run_id][x.sequence].id = x.id
    /\ \A x, y \in created : x.id = y.id => x = y
    /\ \A r, s \in RunIds : bindings[r] = bindings[s] /\ bindings[r] # NoWorktree => r = s

\* A journal record names a state the run really had at the revision it names, and
\* revisions never decrease along the journal: evidence is never attributed to a
\* boundary that did not exist.
JournalMatchesLog ==
    \A r \in RunIds : \A i \in DOMAIN journal[r] :
        /\ journal[r][i].run_revision <= Len(events[r])
        /\ journal[r][i].expected_state = StateAt(r, journal[r][i].run_revision)
        /\ i > 1 => journal[r][i - 1].run_revision <= journal[r][i].run_revision

\* Nothing recorded is rewritten or removed: events and journal only grow at the end,
\* runs never disappear and a binding never changes.
IsExtension(old, new) ==
    Len(old) <= Len(new) /\ \A i \in 1..Len(old) : new[i] = old[i]

AppendOnly ==
    [][/\ exists \subseteq exists'
       /\ \A r \in RunIds :
             /\ IsExtension(events[r], events'[r])
             /\ IsExtension(journal[r], journal'[r])
             /\ r \in exists => bindings'[r] = bindings[r]]_vars

\* A terminal run is never updated again, whatever snapshot a client still holds.
TerminalFrozen ==
    [][\A r \in RunIds : stored[r].run.state \in TerminalStates =>
           stored'[r] = stored[r] /\ events'[r] = events[r]]_vars

\* Every run in the store follows the abstract life cycle.
Lifecycle(r) ==
    INSTANCE RunLifecycle WITH
        state <- stored[r].run.state,
        attempts <- stored[r].run.attempts,
        revision <- stored[r].revision

\* The store implements RunLifecycle for every run it holds: the conjunction over the
\* runs of the abstract specification under that mapping.
ImplementsLifecycle ==
    /\ \A r \in RunIds : Lifecycle(r)!Init
    /\ [][\A r \in RunIds : [Lifecycle(r)!Next]_(Lifecycle(r)!vars)]_vars
=============================================================================
