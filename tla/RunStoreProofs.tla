--------------------------- MODULE RunStoreProofs ---------------------------
(***************************************************************************)
(* Theorems of RunStore for every set of runs, clients, times and records, *)
(* every attempt budget and every bound.                                   *)
(*                                                                         *)
(* The inductive invariant is TypeOK together with EventIdsNameRevision,   *)
(* the log and the journal invariants.  The strengthening is               *)
(* EventIdsNameRevision: a replayed transition is recognised by the        *)
(* identifier of its event, so an acknowledged replay is at the            *)
(* acknowledged revision only because the identifier names that revision.  *)
(***************************************************************************)
EXTENDS RunStore, TLAPS

\* The event at revision i of run r carries the identifier derived from r, the revision
\* it was accepted at and its destination.
EventIdsNameRevision ==
    \A r \in RunIds : \A i \in 1..Len(events[r]) :
        events[r][i].id = EventId(r, i - 1, events[r][i].destination)

-----------------------------------------------------------------------------
(* The state machine.                                                      *)

\* A terminal state has no permitted destination.
LEMMA NoTerminalExit ==
    ASSUME NEW s \in TerminalStates
    PROVE  permitted_destinations(s) = {}
BY DEF TerminalStates, permitted_destinations, Edges, ForwardEdges, RunStates

\* A new run satisfies its own validator.
LEMMA NewRunValid ==
    ASSUME NEW t \in Nat
    PROVE  NewRun(t) \in Runs /\ ValidRun(NewRun(t)) /\ NewRun(t).state = "CREATED"
BY BudgetAssumption
   DEF NewRun, Runs, ValidRun, RunStates, TerminalStates, AttemptCounters, AttemptCounterKinds,
       ApprovalGates, NoGate, Satisfied, Refused, AttemptLimit

(***************************************************************************)
(* What a call of persist_transition passes: a snapshot, the run that      *)
(* transition_run returned for it and the event to append.  The run is     *)
(* valid, is entered along an edge, no earlier than the one it replaces,   *)
(* and moves at most the counter of the phase it leaves, by one.           *)
(***************************************************************************)
IncrementedBy(inc, old, new) ==
    /\ inc # NoIncrement => old.state = AttemptSource(inc)
    /\ new.attempts = [k \in AttemptCounterKinds |->
                          IF k = inc THEN old.attempts[k] + 1 ELSE old.attempts[k]]

CallOf(expected, result, event) ==
    /\ expected \in Snapshots
    /\ result \in Runs
    /\ ValidRun(result)
    /\ event \in Events
    /\ <<expected.stored.run.state, result.state>> \in Edges
    /\ expected.stored.run.updated_at <= result.updated_at
    /\ \E inc \in AttemptCounterKinds \cup {NoIncrement} :
          IncrementedBy(inc, expected.stored.run, result)
    /\ event.id = EventId(expected.run_id, expected.stored.revision, result.state)
    /\ event.source = expected.stored.run.state
    /\ event.destination = result.state
    /\ event.occurred_at = result.updated_at

\* transition_run and _transition build a call with these properties.
LEMMA AcceptedCall ==
    ASSUME NEW expected \in Snapshots, NEW destination, NEW t \in Nat,
           NEW reason \in Reasons, NEW gate \in ApprovalGates,
           NEW inc \in AttemptCounterKinds \cup {NoIncrement},
           TransitionAccepted(expected.stored.run, destination, t, gate, inc)
    PROVE  CallOf(expected, NextRun(expected.stored.run, destination, t, gate, inc),
                  TransitionEvent(expected, destination, t, reason))
<1> DEFINE run == expected.stored.run
           result == NextRun(run, destination, t, gate, inc)
           event == TransitionEvent(expected, destination, t, reason)
<1>1. /\ run \in Runs
      /\ expected.stored.revision \in Nat
      /\ expected.run_id \in RunIds
  BY DEF Snapshots, StoredRuns
<1>2. /\ destination \in RunStates
      /\ <<run.state, destination>> \in Edges
  BY DEF TransitionAccepted, permitted_destinations
<1>3. [k \in AttemptCounterKinds |-> IF k = inc THEN run.attempts[k] + 1 ELSE run.attempts[k]]
          \in AttemptCounters
  BY <1>1 DEF Runs, AttemptCounters
<1>4. /\ result \in Runs
      /\ ValidRun(result)
      /\ result.state = destination
      /\ result.updated_at = t
      /\ run.updated_at <= t
  BY <1>1, <1>2, <1>3 DEF TransitionAccepted, NextRun, Runs, ApprovalGates
<1>5. IncrementedBy(inc, run, result)
  BY DEF IncrementedBy, TransitionAccepted, NextRun
<1>6. /\ event \in Events
      /\ event.id = EventId(expected.run_id, expected.stored.revision, destination)
      /\ event.source = run.state
      /\ event.destination = destination
      /\ event.occurred_at = t
  BY <1>1, <1>2 DEF TransitionEvent, Events, EventIds, EventId, Runs
<1> QED
  BY <1>2, <1>4, <1>5, <1>6 DEF CallOf

\* Every persist_transition step commits, replays or rejects such a call.
LEMMA CallStep ==
    ASSUME TypeOK, NEW c \in Clients, persist_transition(c)
    PROVE  \E expected, result, event :
              /\ CallOf(expected, result, event)
              /\ expected \in held[c]
              /\ \/ CommitTransition(expected, result, event)
                 \/ ReplayTransition(c, expected, result, event)
                 \/ RejectTransition(c, expected, result, event)
<1>1. PICK expected \in held[c] :
        LET run == expected.stored.run
        IN  \E destination \in permitted_destinations(run.state),
               t \in Times, reason \in Reasons,
               gate \in ApprovalGates, inc \in AttemptCounterKinds \cup {NoIncrement} :
                LET result == NextRun(run, destination, t, gate, inc)
                    event == TransitionEvent(expected, destination, t, reason)
                IN  /\ TransitionAccepted(run, destination, t, gate, inc)
                    /\ \/ CommitTransition(expected, result, event)
                       \/ ReplayTransition(c, expected, result, event)
                       \/ RejectTransition(c, expected, result, event)
  BY Zenon DEF persist_transition
<1>2. expected \in Snapshots
  BY DEF TypeOK
<1>3. \A t \in Times : t \in Nat
  BY StoreAssumption
<1> QED
  BY <1>1, <1>2, <1>3, AcceptedCall, ZenonT(40)

-----------------------------------------------------------------------------
(* Types.                                                                  *)

\* The type invariant holds initially.
LEMMA TypeInit == Init => TypeOK
<1> SUFFICES ASSUME Init PROVE TypeOK
  OBVIOUS
<1>1. \A t \in Times : t \in Nat
  BY StoreAssumption
<1>2. /\ stored \in [RunIds -> StoredRuns]
      /\ \A r \in RunIds : ValidRun(stored[r].run)
  BY <1>1, NewRunValid DEF Init, StoredRuns
<1> QED
  BY <1>2 DEF Init, TypeOK

\* Every step preserves the type invariant.
LEMMA TypeStep == TypeOK /\ [Next]_vars => TypeOK'
<1> SUFFICES ASSUME TypeOK, [Next]_vars PROVE TypeOK'
  OBVIOUS
<1> USE DEF TypeOK
<1>1. ASSUME NEW r \in RunIds, create_run(r) PROVE TypeOK'
  BY <1>1 DEF create_run
<1>2. ASSUME NEW r \in RunIds, NEW w \in WorktreeIds, create_bound_run(r, w) PROVE TypeOK'
  BY <1>2 DEF create_bound_run
<1>3. ASSUME NEW c \in Clients, NEW r \in RunIds, get_run(c, r) PROVE TypeOK'
  <2>1. [run_id |-> r, stored |-> stored[r], next_sequence |-> Len(journal[r]) + 1] \in Snapshots
    BY DEF Snapshots
  <2> QED BY <1>3, <2>1 DEF get_run
<1>4. ASSUME NEW c \in Clients, list_orchestration_records(c) PROVE TypeOK'
  <2>1. PICK expected \in held[c] : held' = [held EXCEPT ![c] =
            {[expected EXCEPT !.next_sequence = Len(journal[expected.run_id]) + 1]}]
    BY <1>4 DEF list_orchestration_records
  <2>2. [expected EXCEPT !.next_sequence = Len(journal[expected.run_id]) + 1] \in Snapshots
    <3>1. expected \in Snapshots
      OBVIOUS
    <3>2. expected.run_id \in RunIds
      BY <3>1 DEF Snapshots
    <3>3. Len(journal[expected.run_id]) + 1 \in Nat
      BY <3>2
    <3> QED BY <3>1, <3>3 DEF Snapshots
  <2> QED BY <1>4, <2>1, <2>2 DEF list_orchestration_records
<1>5. ASSUME NEW c \in Clients, persist_transition(c) PROVE TypeOK'
  <2>1. PICK expected, result, event :
          /\ CallOf(expected, result, event)
          /\ expected \in held[c]
          /\ \/ CommitTransition(expected, result, event)
             \/ ReplayTransition(c, expected, result, event)
             \/ RejectTransition(c, expected, result, event)
    BY <1>5, CallStep
  <2>2. /\ expected.run_id \in RunIds
        /\ expected.stored.revision \in Nat
        /\ result \in Runs /\ ValidRun(result) /\ event \in Events
    BY <2>1 DEF CallOf, Snapshots, StoredRuns
  <2>3. Acknowledged(expected, event) \in [run_id: RunIds, revision: Nat, event: Events]
    BY <2>2 DEF Acknowledged
  <2>4. CASE CommitTransition(expected, result, event)
    BY <2>2, <2>3, <2>4, SMTT(30) DEF CommitTransition, StoredRuns
  <2>5. CASE ReplayTransition(c, expected, result, event)
    BY <2>3, <2>5 DEF ReplayTransition
  <2>6. CASE RejectTransition(c, expected, result, event)
    BY <2>6 DEF RejectTransition
  <2> QED BY <2>1, <2>4, <2>5, <2>6
<1>6. ASSUME NEW c \in Clients, persist_orchestration_record(c) PROVE TypeOK'
  <2>1. PICK expected \in held[c], id \in RecordIds :
          \/ \E body \in Bodies : AppendRecord(c, expected, id, body)
          \/ FindRecord(expected, id)
          \/ RefuseRecord(c, expected, id)
    BY <1>6 DEF persist_orchestration_record
  <2>2. expected \in Snapshots
    OBVIOUS
  <2>3. ASSUME NEW body \in Bodies, AppendRecord(c, expected, id, body) PROVE TypeOK'
    <3>1. RecordFor(expected, id, body) \in Records
      BY <2>2 DEF RecordFor, Records, Snapshots, StoredRuns, Runs
    <3>2. [client |-> c, run_id |-> expected.run_id, sequence |-> expected.next_sequence, id |-> id]
             \in [client: Clients, run_id: RunIds, sequence: Nat, id: RecordIds]
      BY <2>2 DEF Snapshots
    <3> QED BY <2>2, <2>3, <3>1, <3>2 DEF AppendRecord, Snapshots
  <2>4. CASE FindRecord(expected, id)
    BY <2>4 DEF FindRecord, vars
  <2>5. CASE RefuseRecord(c, expected, id)
    BY <2>5 DEF RefuseRecord
  <2> QED BY <2>1, <2>3, <2>4, <2>5
<1>7. CASE UNCHANGED vars
  BY <1>7 DEF vars
<1> QED
  BY <1>1, <1>2, <1>3, <1>4, <1>5, <1>6, <1>7 DEF Next

\* The type invariant of the store, for every client interleaving.
THEOREM TypeCorrect == Spec => []TypeOK
BY TypeInit, TypeStep, PTL DEF Spec

-----------------------------------------------------------------------------
(* The log.                                                                *)

LogInv == LogExplainsRun /\ LogTimesOrdered /\ EventIdsNameRevision

\* Steps that leave rows and events alone cannot disturb the log invariants.
LEMMA LogUnchanged ==
    LogInv /\ UNCHANGED <<stored, events>> => LogInv'
BY DEF LogInv, LogExplainsRun, LogTimesOrdered, EventIdsNameRevision, StateAt

\* A commit extends the log by the one event that explains the new row.
LEMMA LogCommit ==
    ASSUME TypeOK, LogInv, NEW expected, NEW result, NEW event,
           CallOf(expected, result, event), CommitTransition(expected, result, event)
    PROVE  LogInv'
<1>0. PICK r0 \in RunIds, n \in Nat : r0 = expected.run_id /\ n = Len(events[r0])
  BY DEF CallOf, Snapshots, TypeOK
<1>1. /\ stored[r0] = expected.stored
      /\ expected.stored.revision \in Nat
      /\ events[r0] \in Seq(Events)
      /\ n = Len(events[r0])
  BY <1>0 DEF CallOf, Snapshots, StoredRuns, CommitTransition, TypeOK
<1>2. /\ stored'[r0] = [run |-> result, revision |-> n + 1]
      /\ events'[r0] = Append(events[r0], event)
      /\ expected.stored.revision = n
      /\ \A r \in RunIds \ {r0} : stored'[r] = stored[r] /\ events'[r] = events[r]
  BY <1>0, <1>1 DEF CommitTransition, TypeOK, LogInv, LogExplainsRun
<1>3. /\ Len(events'[r0]) = n + 1
      /\ events'[r0][n + 1] = event
      /\ \A i \in 1..n : events'[r0][i] = events[r0][i]
  BY <1>1, <1>2, CallOf(expected, result, event) DEF CallOf
<1>4. /\ event.source = stored[r0].run.state
      /\ event.destination = result.state
      /\ <<event.source, event.destination>> \in Edges
      /\ event.id = EventId(r0, n, event.destination)
      /\ event.occurred_at = result.updated_at
      /\ stored[r0].run.updated_at <= result.updated_at
      /\ stored[r0].run.updated_at \in Nat
      /\ result.updated_at \in Nat
  BY <1>0, <1>1, <1>2 DEF CallOf, Snapshots, StoredRuns, Runs
<1>5. LogExplainsRun'
  <2>1. ASSUME NEW i \in 1..(n + 1)
        PROVE  /\ events'[r0][i].source = StateAt(r0, i - 1)'
               /\ <<events'[r0][i].source, events'[r0][i].destination>> \in Edges
    <3>1. CASE i = n + 1
      BY <3>1, <1>1, <1>2, <1>3, <1>4 DEF StateAt, LogInv, LogExplainsRun
    <3>2. CASE i \in 1..n
      BY <3>2, <1>1, <1>2, <1>3 DEF StateAt, LogInv, LogExplainsRun
    <3> QED BY <3>1, <3>2, <1>1
  <2>2. stored'[r0].revision = Len(events'[r0]) /\ stored'[r0].run.state = StateAt(r0, n + 1)'
    BY <1>1, <1>2, <1>3, <1>4 DEF StateAt
  <2>3. ASSUME NEW r \in RunIds \ {r0}
        PROVE  /\ stored'[r].revision = Len(events'[r])
               /\ stored'[r].run.state = StateAt(r, Len(events[r]))'
               /\ \A i \in 1..Len(events'[r]) :
                     /\ events'[r][i].source = StateAt(r, i - 1)'
                     /\ <<events'[r][i].source, events'[r][i].destination>> \in Edges
    BY <1>2 DEF StateAt, LogInv, LogExplainsRun
  <2> QED BY <2>1, <2>2, <2>3, <1>3 DEF LogExplainsRun
<1>6. LogTimesOrdered'
  <2>1. ASSUME NEW i \in 1..(n + 1)
        PROVE  /\ events'[r0][i].occurred_at <= stored'[r0].run.updated_at
               /\ i > 1 => events'[r0][i - 1].occurred_at <= events'[r0][i].occurred_at
    <3>0. \A j \in 1..n : /\ events[r0][j].occurred_at \in Nat
                           /\ events[r0][j].occurred_at <= stored[r0].run.updated_at
      <4>1. \A j \in 1..n : events[r0][j] \in Events
        BY <1>1
      <4> QED BY <4>1, <1>1 DEF Events, LogInv, LogTimesOrdered
    <3>1. CASE i = n + 1
      <4>1. i > 1 => n \in 1..n /\ i - 1 = n
        BY <3>1
      <4>2. events'[r0][i] = event /\ stored'[r0].run = result
        BY <3>1, <1>2, <1>3
      <4> QED BY <4>1, <4>2, <3>0, <1>3, <1>4
    <3>2. CASE i \in 1..n
      BY <3>0, <3>2, <1>1, <1>2, <1>3, <1>4 DEF LogInv, LogTimesOrdered
    <3> QED BY <3>1, <3>2, <1>1
  <2> QED BY <2>1, <1>2, <1>3 DEF LogInv, LogTimesOrdered
<1>7. EventIdsNameRevision'
  <2>1. ASSUME NEW i \in 1..(n + 1)
        PROVE  events'[r0][i].id = EventId(r0, i - 1, events'[r0][i].destination)
    <3>1. CASE i = n + 1
      BY <3>1, <1>3, <1>4
    <3>2. CASE i \in 1..n
      BY <3>2, <1>1, <1>3 DEF LogInv, EventIdsNameRevision
    <3> QED BY <3>1, <3>2, <1>1
  <2>2. ASSUME NEW r \in RunIds \ {r0}, NEW i \in 1..Len(events'[r])
        PROVE  events'[r][i].id = EventId(r, i - 1, events'[r][i].destination)
    BY <1>2 DEF LogInv, EventIdsNameRevision
  <2>3. ASSUME NEW r \in RunIds, NEW i \in 1..Len(events'[r])
        PROVE  events'[r][i].id = EventId(r, i - 1, events'[r][i].destination)
    <3>1. CASE r = r0
      BY <3>1, <2>1, <1>3
    <3>2. CASE r # r0
      BY <3>2, <2>2
    <3> QED BY <3>1, <3>2
  <2> QED BY <2>3 DEF EventIdsNameRevision, EventId
<1> QED
  BY <1>5, <1>6, <1>7 DEF LogInv

\* Every step but a commit leaves rows and events alone.
LEMMA LogStep == TypeOK /\ LogInv /\ [Next]_vars => LogInv'
<1> SUFFICES ASSUME TypeOK, LogInv, [Next]_vars PROVE LogInv'
  OBVIOUS
<1>1. ASSUME NEW c \in Clients, persist_transition(c) PROVE LogInv'
  <2>1. PICK expected, result, event :
          /\ CallOf(expected, result, event)
          /\ \/ CommitTransition(expected, result, event)
             \/ ReplayTransition(c, expected, result, event)
             \/ RejectTransition(c, expected, result, event)
    BY <1>1, CallStep
  <2> QED BY <2>1, LogCommit, LogUnchanged DEF ReplayTransition, RejectTransition
<1>2. CASE UNCHANGED <<stored, events>>
  BY <1>2, LogUnchanged
<1> QED
  BY <1>1, <1>2 DEF Next, create_run, create_bound_run, get_run, list_orchestration_records,
     persist_orchestration_record, AppendRecord, FindRecord, RefuseRecord, vars

\* The log invariants hold of an empty store.
LEMMA LogInit == Init => LogInv
<1> SUFFICES ASSUME Init PROVE LogInv
  OBVIOUS
<1>1. \A r \in RunIds : stored[r].revision = 0 /\ stored[r].run.state = "CREATED"
  <2> SUFFICES ASSUME NEW r \in RunIds
               PROVE  stored[r].revision = 0 /\ stored[r].run.state = "CREATED"
    OBVIOUS
  <2>1. PICK t \in Times : stored[r] = [run |-> NewRun(t), revision |-> 0]
    BY DEF Init
  <2> QED BY <2>1, StoreAssumption, NewRunValid
<1> QED
  BY <1>1 DEF Init, LogInv, LogExplainsRun, LogTimesOrdered, EventIdsNameRevision, StateAt

\* The event log explains every run row, whatever stale snapshots clients write from.
THEOREM LogCorrect == Spec => [](LogExplainsRun /\ LogTimesOrdered)
<1>1. LogInv => LogExplainsRun /\ LogTimesOrdered
  BY DEF LogInv
<1> QED
  BY <1>1, LogInit, LogStep, TypeCorrect, PTL DEF Spec

-----------------------------------------------------------------------------
(* Acknowledged transitions and the journal.                               *)

\* A transition reported to a client as persisted, be it by the commit or by the replay
\* check, is the event at that revision: no client is told of a transition that another
\* one replaced.
THEOREM AcknowledgedTransitionsDurable == Spec => []AckedDurable
<1>1. Init => AckedDurable
  BY DEF Init, AckedDurable
<1>2. TypeOK /\ LogInv /\ AckedDurable /\ [Next]_vars => AckedDurable'
  <2> SUFFICES ASSUME TypeOK, LogInv, AckedDurable, [Next]_vars PROVE AckedDurable'
    OBVIOUS
  <2>1. CASE UNCHANGED <<events, acked>>
    BY <2>1 DEF AckedDurable
  <2>2. ASSUME NEW c \in Clients, persist_transition(c) PROVE AckedDurable'
    <3>1. PICK expected, result, event :
            /\ CallOf(expected, result, event)
            /\ \/ CommitTransition(expected, result, event)
               \/ ReplayTransition(c, expected, result, event)
               \/ RejectTransition(c, expected, result, event)
      BY <2>2, CallStep
    <3>2. PICK r0 \in RunIds, n \in Nat :
            /\ r0 = expected.run_id
            /\ n = Len(events[r0])
            /\ events[r0] \in Seq(Events)
            /\ expected.stored.revision \in Nat
            /\ event \in Events
      BY <3>1 DEF CallOf, Snapshots, StoredRuns, TypeOK
    <3>3. \A a \in acked : /\ a.run_id \in RunIds
                            /\ a.revision \in 1..Len(events[a.run_id])
                            /\ events[a.run_id][a.revision] = a.event
      BY DEF TypeOK, AckedDurable
    <3>4. CASE CommitTransition(expected, result, event)
      <4>1. /\ events'[r0] = Append(events[r0], event)
            /\ \A r \in RunIds \ {r0} : events'[r] = events[r]
            /\ expected.stored.revision = n
            /\ acked' = acked \cup {Acknowledged(expected, event)}
        BY <3>2, <3>4 DEF CommitTransition, TypeOK, LogInv, LogExplainsRun
      <4>2. /\ Len(events'[r0]) = n + 1
            /\ events'[r0][n + 1] = event
            /\ \A i \in 1..n : events'[r0][i] = events[r0][i]
        BY <3>2, <4>1
      <4>3. ASSUME NEW a \in acked
            PROVE  /\ a.revision \in 1..Len(events'[a.run_id])
                   /\ events'[a.run_id][a.revision] = a.event
        <5>1. CASE a.run_id = r0
          BY <5>1, <3>2, <3>3, <4>2
        <5>2. CASE a.run_id # r0
          BY <5>2, <3>3, <4>1
        <5> QED BY <5>1, <5>2
      <4>4. LET a == Acknowledged(expected, event)
            IN  /\ a.revision \in 1..Len(events'[a.run_id])
                /\ events'[a.run_id][a.revision] = a.event
        BY <3>2, <4>1, <4>2 DEF Acknowledged
      <4> QED BY <4>1, <4>3, <4>4 DEF AckedDurable
    <3>5. CASE ReplayTransition(c, expected, result, event)
      <4>1. PICK i \in 1..n : events[r0][i] = event
        BY <3>2, <3>5 DEF ReplayTransition, IsReplay
      <4>2. event.id = EventId(r0, i - 1, event.destination)
        BY <3>2, <4>1 DEF LogInv, EventIdsNameRevision
      <4>3. event.id = EventId(r0, expected.stored.revision, result.state)
        BY <3>1, <3>2 DEF CallOf
      <4>4. i = expected.stored.revision + 1
        BY <3>2, <4>2, <4>3 DEF EventId
      <4> QED BY <3>2, <3>5, <4>1, <4>4 DEF ReplayTransition, Acknowledged, AckedDurable
    <3>6. CASE RejectTransition(c, expected, result, event)
      BY <3>6, <2>1 DEF RejectTransition
    <3> QED BY <3>1, <3>4, <3>5, <3>6
  <2> QED
    BY <2>1, <2>2 DEF Next, create_run, create_bound_run, get_run, list_orchestration_records,
       persist_orchestration_record, AppendRecord, FindRecord, RefuseRecord, vars
<1> QED
  BY <1>1, <1>2, LogInit, LogStep, TypeCorrect, PTL DEF Spec

\* Every journal record names a state its run had at the revision it names, in revision
\* order, so evidence is never attributed to a boundary that did not exist.
THEOREM JournalAttributesEvidence == Spec => []JournalMatchesLog
<1>1. Init => JournalMatchesLog
  BY DEF Init, JournalMatchesLog
<1>2. TypeOK /\ LogInv /\ JournalMatchesLog /\ [Next]_vars => JournalMatchesLog'
  <2> SUFFICES ASSUME TypeOK, LogInv, JournalMatchesLog, [Next]_vars PROVE JournalMatchesLog'
    OBVIOUS
  <2>1. CASE UNCHANGED <<events, journal>>
    BY <2>1 DEF JournalMatchesLog, StateAt
  <2>2. ASSUME NEW r \in RunIds, NEW i \in DOMAIN journal[r]
        PROVE  journal[r][i].run_revision \in 0..Len(events[r])
    <3>1. journal[r][i] \in Records
      BY DEF TypeOK
    <3>2. journal[r][i].run_revision \in Nat
      BY <3>1 DEF Records
    <3>3. Len(events[r]) \in Nat
      BY DEF TypeOK
    <3> QED BY <3>2, <3>3 DEF JournalMatchesLog
  <2>3. ASSUME NEW c \in Clients, persist_transition(c) PROVE JournalMatchesLog'
    <3>1. PICK expected, result, event :
            /\ CallOf(expected, result, event)
            /\ \/ CommitTransition(expected, result, event)
               \/ ReplayTransition(c, expected, result, event)
               \/ RejectTransition(c, expected, result, event)
      BY <2>3, CallStep
    <3>2. CASE CommitTransition(expected, result, event)
      <4>1. PICK r0 \in RunIds : /\ r0 = expected.run_id
                                 /\ events[r0] \in Seq(Events)
                                 /\ event \in Events
        BY <3>1 DEF CallOf, Snapshots, TypeOK
      <4>2. /\ journal' = journal
            /\ events'[r0] = Append(events[r0], event)
            /\ \A r \in RunIds \ {r0} : events'[r] = events[r]
        BY <3>2, <4>1 DEF CommitTransition, TypeOK
      <4>3. ASSUME NEW r \in RunIds, NEW k \in 0..Len(events[r])
            PROVE  k <= Len(events'[r]) /\ StateAt(r, k)' = StateAt(r, k)
        <5>1. CASE r = r0
          BY <5>1, <4>1, <4>2 DEF StateAt
        <5>2. CASE r # r0
          BY <5>2, <4>2 DEF StateAt
        <5> QED BY <5>1, <5>2
      <4> QED BY <4>2, <4>3, <2>2 DEF JournalMatchesLog
    <3>3. CASE UNCHANGED <<events, journal>>
      BY <3>3, <2>1
    <3> QED BY <3>1, <3>2, <3>3 DEF ReplayTransition, RejectTransition
  <2>4. ASSUME NEW c \in Clients, NEW expected \in held[c], NEW id \in RecordIds,
               NEW body \in Bodies, AppendRecord(c, expected, id, body)
        PROVE  JournalMatchesLog'
    <3>1. PICK r0 \in RunIds, n \in Nat :
            /\ r0 = expected.run_id
            /\ journal[r0] \in Seq(Records)
            /\ n = Len(journal[r0])
      BY DEF TypeOK, Snapshots
    <3>2. PICK new : new = RecordFor(expected, id, body)
      OBVIOUS
    <3>3. /\ events' = events
          /\ journal'[r0] = Append(journal[r0], new)
          /\ \A r \in RunIds \ {r0} : journal'[r] = journal[r]
          /\ stored[r0] = expected.stored
      BY <2>4, <3>1, <3>2 DEF AppendRecord, RecordAccepted, TypeOK
    <3>4. /\ new.run_revision = Len(events[r0])
          /\ new.expected_state = StateAt(r0, Len(events[r0]))
      BY <3>1, <3>2, <3>3 DEF RecordFor, LogInv, LogExplainsRun
    <3>5. /\ Len(journal'[r0]) = n + 1
          /\ DOMAIN journal'[r0] = 1..(n + 1)
          /\ DOMAIN journal[r0] = 1..n
          /\ journal'[r0][n + 1] = new
          /\ \A i \in 1..n : journal'[r0][i] = journal[r0][i]
      <4>1. new \in Records
        BY <3>2 DEF RecordFor, Records, Snapshots, StoredRuns, Runs, TypeOK
      <4> QED BY <3>1, <3>3, <4>1
    <3>6. \A r \in RunIds : \A k : StateAt(r, k)' = StateAt(r, k)
      BY <3>3 DEF StateAt
    <3>7. ASSUME NEW r \in RunIds, NEW i \in DOMAIN journal'[r]
          PROVE  /\ journal'[r][i].run_revision <= Len(events'[r])
                 /\ journal'[r][i].expected_state = StateAt(r, journal[r][i].run_revision)'
                 /\ i > 1 => journal'[r][i - 1].run_revision <= journal'[r][i].run_revision
      <4>1. CASE r # r0
        BY <4>1, <3>3, <3>6 DEF JournalMatchesLog
      <4>2. CASE r = r0 /\ i \in 1..n
        <5>1. i > 1 => i - 1 \in 1..n
          BY <4>2
        <5>2. /\ journal[r][i].run_revision <= Len(events[r])
              /\ journal[r][i].expected_state = StateAt(r, journal[r][i].run_revision)
              /\ i > 1 => journal[r][i - 1].run_revision <= journal[r][i].run_revision
          BY <4>2, <3>5 DEF JournalMatchesLog
        <5>3. journal'[r][i] = journal[r][i] /\ (i > 1 => journal'[r][i - 1] = journal[r][i - 1])
          BY <4>2, <5>1, <3>5
        <5> QED BY <5>2, <5>3, <3>3, <3>6
      <4>3. CASE r = r0 /\ i = n + 1
        <5>1. Len(events[r0]) \in Nat
          BY DEF TypeOK
        <5>2. i > 1 => n \in 1..n /\ i - 1 = n
          BY <4>3
        <5> QED BY <5>1, <5>2, <4>3, <2>2, <3>1, <3>3, <3>4, <3>5, <3>6
      <4> QED BY <4>1, <4>2, <4>3, <3>5
    <3> QED BY <3>7 DEF JournalMatchesLog
  <2> QED
    BY <2>1, <2>3, <2>4 DEF Next, create_run, create_bound_run, get_run,
       list_orchestration_records, persist_orchestration_record, FindRecord, RefuseRecord, vars
<1> QED
  BY <1>1, <1>2, LogInit, LogStep, TypeCorrect, PTL DEF Spec

-----------------------------------------------------------------------------
(* Action properties and refinement.                                       *)

\* A terminal run is frozen: no snapshot a client still holds can move it.
THEOREM TerminalRunsFrozen == Spec => TerminalFrozen
<1>1. TypeOK /\ [Next]_vars =>
        \A r \in RunIds : stored[r].run.state \in TerminalStates =>
            stored'[r] = stored[r] /\ events'[r] = events[r]
  <2> SUFFICES ASSUME TypeOK, [Next]_vars, NEW r \in RunIds,
                      stored[r].run.state \in TerminalStates
               PROVE  stored'[r] = stored[r] /\ events'[r] = events[r]
    OBVIOUS
  <2>1. ASSUME NEW c \in Clients, persist_transition(c)
        PROVE  stored'[r] = stored[r] /\ events'[r] = events[r]
    <3>1. PICK expected, result, event :
            /\ CallOf(expected, result, event)
            /\ \/ CommitTransition(expected, result, event)
               \/ ReplayTransition(c, expected, result, event)
               \/ RejectTransition(c, expected, result, event)
      BY <2>1, CallStep
    <3>2. CASE CommitTransition(expected, result, event)
      <4>1. /\ stored[expected.run_id] = expected.stored
            /\ result.state \in permitted_destinations(expected.stored.run.state)
        BY <3>1, <3>2 DEF CommitTransition, CallOf, permitted_destinations, Runs
      <4>2. expected.run_id # r
        <5>1. expected.stored.run.state \notin TerminalStates
          BY <4>1, NoTerminalExit
        <5> QED BY <4>1, <5>1
      <4> QED BY <3>2, <4>2 DEF CommitTransition, TypeOK
    <3> QED BY <3>1, <3>2 DEF ReplayTransition, RejectTransition
  <2> QED
    BY <2>1 DEF Next, create_run, create_bound_run, get_run, list_orchestration_records,
       persist_orchestration_record, AppendRecord, FindRecord, RefuseRecord, vars
<1> QED
  BY <1>1, TypeCorrect, PTL DEF Spec, TerminalFrozen

\* A step that changes the row of a run is one step of its abstract life cycle.
LEMMA LifecycleStep ==
    ASSUME TypeOK, [Next]_vars, NEW r \in RunIds
    PROVE  [Lifecycle(r)!Next]_(Lifecycle(r)!vars)
<1>1. CASE stored'[r] = stored[r]
  BY <1>1 DEF Lifecycle!vars
<1>2. ASSUME NEW c \in Clients, persist_transition(c), stored'[r] # stored[r]
      PROVE  Lifecycle(r)!Next
  <2>1. PICK expected, result, event :
          /\ CallOf(expected, result, event)
          /\ \/ CommitTransition(expected, result, event)
             \/ ReplayTransition(c, expected, result, event)
             \/ RejectTransition(c, expected, result, event)
    BY <1>2, CallStep
  <2>2. /\ CommitTransition(expected, result, event)
        /\ expected.run_id = r
        /\ stored[r] = expected.stored
        /\ stored'[r] = [run |-> result, revision |-> stored[r].revision + 1]
    BY <1>2, <2>1 DEF CommitTransition, ReplayTransition, RejectTransition, TypeOK
  <2>3. PICK inc \in AttemptCounterKinds \cup {NoIncrement} :
            IncrementedBy(inc, stored[r].run, result)
    BY <2>1, <2>2 DEF CallOf
  <2>4. /\ result.state \in RunStates
        /\ <<stored[r].run.state, result.state>> \in Edges
        /\ ValidRun(result)
        /\ stored[r].run.attempts \in AttemptCounters
    BY <2>1, <2>2 DEF CallOf, Runs, TypeOK, StoredRuns
  <2>5. inc # NoIncrement => stored[r].run.attempts[inc] < AttemptLimit(inc)
    <3> SUFFICES ASSUME inc # NoIncrement PROVE stored[r].run.attempts[inc] < AttemptLimit(inc)
      OBVIOUS
    <3>1. inc \in AttemptCounterKinds /\ stored[r].run.attempts[inc] \in Nat
      BY <2>4 DEF AttemptCounters
    <3>2. result.attempts[inc] = stored[r].run.attempts[inc] + 1
      BY <2>3, <3>1 DEF IncrementedBy
    <3>3. AttemptLimit(inc) \in Nat
      BY <3>1, BudgetAssumption DEF AttemptLimit, AttemptCounterKinds
    <3> QED BY <2>4, <3>1, <3>2, <3>3 DEF ValidRun
  <2>6. Lifecycle(r)!Advance(result.state, inc)
    BY <2>2, <2>3, <2>4, <2>5, SMTT(30)
       DEF Lifecycle!Advance, Lifecycle!permitted_destinations, Lifecycle!RunStates,
           Lifecycle!Edges, Lifecycle!ForwardEdges, Lifecycle!TerminalStates,
           Lifecycle!NoIncrement, Lifecycle!AttemptSource, Lifecycle!AttemptLimit,
           Lifecycle!AttemptCounterKinds, IncrementedBy, RunStates, Edges, ForwardEdges,
           TerminalStates, NoIncrement, AttemptSource, AttemptLimit, AttemptCounterKinds
  <2> QED BY <2>4, <2>6 DEF Lifecycle!Next, Lifecycle!RunStates, Lifecycle!AttemptCounterKinds,
        Lifecycle!NoIncrement, Lifecycle!TerminalStates, RunStates, AttemptCounterKinds,
        NoIncrement, TerminalStates
<1> QED
  BY <1>1, <1>2 DEF Next, create_run, create_bound_run, get_run, list_orchestration_records,
     persist_orchestration_record, AppendRecord, FindRecord, RefuseRecord, vars

\* The store implements the abstract life cycle for every run at once.
THEOREM StoreImplementsLifecycle == Spec => ImplementsLifecycle
<1>1. Init => \A r \in RunIds : Lifecycle(r)!Init
  <2> SUFFICES ASSUME Init, NEW r \in RunIds PROVE Lifecycle(r)!Init
    OBVIOUS
  <2>1. PICK t \in Times : stored[r] = [run |-> NewRun(t), revision |-> 0]
    BY DEF Init
  <2> QED BY <2>1 DEF NewRun, Lifecycle!Init, Lifecycle!AttemptCounterKinds, AttemptCounterKinds
<1>2. TypeOK /\ [Next]_vars => \A r \in RunIds : [Lifecycle(r)!Next]_(Lifecycle(r)!vars)
  BY LifecycleStep
<1> QED
  BY <1>1, <1>2, TypeCorrect, PTL DEF Spec, ImplementsLifecycle

-----------------------------------------------------------------------------
(* Creators, and what is never rewritten.                                  *)

\* An append extends one journal by a record under an identifier that none has.
LEMMA AppendStep ==
    ASSUME TypeOK, NEW c \in Clients, NEW expected \in Snapshots, NEW id \in RecordIds,
           NEW body \in Bodies, AppendRecord(c, expected, id, body)
    PROVE  \E r0 \in RunIds, n \in Nat, record \in Records :
             /\ r0 = expected.run_id /\ n = Len(journal[r0]) /\ expected.next_sequence = n + 1
             /\ record.id = id
             /\ Len(journal'[r0]) = n + 1 /\ journal'[r0][n + 1] = record
             /\ \A i \in 1..n : journal'[r0][i] = journal[r0][i]
             /\ \A r \in RunIds \ {r0} : journal'[r] = journal[r]
<1>1. PICK r0 \in RunIds : r0 = expected.run_id
  BY DEF Snapshots
<1>2. journal[r0] \in Seq(Records) /\ Len(journal[r0]) \in Nat
  BY DEF TypeOK
<1>3. RecordFor(expected, id, body) \in Records
  BY DEF RecordFor, Records, Snapshots, StoredRuns, Runs
<1>4. /\ journal'[r0] = Append(journal[r0], RecordFor(expected, id, body))
      /\ \A r \in RunIds \ {r0} : journal'[r] = journal[r]
      /\ expected.next_sequence = Len(journal[r0]) + 1
  BY <1>1 DEF AppendRecord, RecordAccepted, TypeOK
<1>5. PICK record \in Records : record = RecordFor(expected, id, body) /\ record.id = id
  BY <1>3 DEF RecordFor
<1>6. PICK n \in Nat : n = Len(journal[r0])
  BY <1>2
<1>7. /\ Len(journal'[r0]) = n + 1 /\ journal'[r0][n + 1] = record
      /\ \A i \in 1..n : journal'[r0][i] = journal[r0][i]
  BY <1>2, <1>4, <1>5, <1>6
<1> QED BY <1>1, <1>4, <1>5, <1>6, <1>7

\* Who writes which table.
LEMMA Writers ==
    ASSUME TypeOK, [Next]_vars
    PROVE  /\ \/ UNCHANGED <<journal, created>>
              \/ \E c \in Clients, expected \in Snapshots, id \in RecordIds, body \in Bodies :
                    AppendRecord(c, expected, id, body)
           /\ \/ events' = events
              \/ \E expected, result, event :
                    CallOf(expected, result, event) /\ CommitTransition(expected, result, event)
           /\ \/ UNCHANGED <<exists, bindings>>
              \/ \E r \in RunIds : create_run(r)
              \/ \E r \in RunIds, w \in WorktreeIds : create_bound_run(r, w)
<1>1. ASSUME NEW c \in Clients, persist_transition(c)
      PROVE  /\ UNCHANGED <<journal, created, exists, bindings>>
             /\ \/ events' = events
                \/ \E expected, result, event :
                      CallOf(expected, result, event) /\ CommitTransition(expected, result, event)
  <2>1. PICK expected, result, event :
          /\ CallOf(expected, result, event)
          /\ \/ CommitTransition(expected, result, event)
             \/ ReplayTransition(c, expected, result, event)
             \/ RejectTransition(c, expected, result, event)
    BY <1>1, CallStep
  <2>2. UNCHANGED <<journal, created, exists, bindings>>
    BY <2>1 DEF CommitTransition, ReplayTransition, RejectTransition
  <2> QED BY <2>1, <2>2 DEF ReplayTransition, RejectTransition
<1>2. ASSUME NEW c \in Clients, persist_orchestration_record(c)
      PROVE  /\ UNCHANGED <<events, exists, bindings>>
             /\ \/ UNCHANGED <<journal, created>>
                \/ \E expected \in Snapshots, id \in RecordIds, body \in Bodies :
                      AppendRecord(c, expected, id, body)
  <2>1. PICK expected \in held[c], id \in RecordIds :
          \/ \E body \in Bodies : AppendRecord(c, expected, id, body)
          \/ FindRecord(expected, id)
          \/ RefuseRecord(c, expected, id)
    BY <1>2 DEF persist_orchestration_record
  <2>2. expected \in Snapshots
    BY DEF TypeOK
  <2>3. UNCHANGED <<events, exists, bindings>>
    BY <2>1 DEF AppendRecord, FindRecord, RefuseRecord, vars
  <2> QED BY <2>1, <2>2, <2>3 DEF FindRecord, RefuseRecord, vars
<1> QED BY <1>1, <1>2
        DEF Next, create_run, create_bound_run, get_run, list_orchestration_records, vars

\* A journal record is created for one client only and stays where it was created, and a
\* worktree is bound to one run, whichever clients race for them.
THEOREM RecordsHaveOneCreator == Spec => []OneCreator
<1>1. Init => OneCreator
  BY StoreAssumption DEF Init, OneCreator
<1>2. TypeOK /\ OneCreator /\ [Next]_vars => OneCreator'
  <2> SUFFICES ASSUME TypeOK, OneCreator, [Next]_vars PROVE OneCreator'
    OBVIOUS
  <2>1. CASE UNCHANGED <<created, journal, bindings>>
    BY <2>1 DEF OneCreator
  <2>2. ASSUME NEW r \in RunIds, NEW w \in WorktreeIds, create_bound_run(r, w) PROVE OneCreator'
    BY <2>2 DEF create_bound_run, OneCreator, TypeOK
  <2>3. ASSUME NEW c \in Clients, NEW expected \in Snapshots, NEW id \in RecordIds,
               NEW body \in Bodies, AppendRecord(c, expected, id, body)
        PROVE  OneCreator'
    <3>2. PICK r0 \in RunIds, n \in Nat, record \in Records :
             /\ r0 = expected.run_id /\ n = Len(journal[r0]) /\ expected.next_sequence = n + 1
             /\ record.id = id
             /\ Len(journal'[r0]) = n + 1 /\ journal'[r0][n + 1] = record
             /\ \A i \in 1..n : journal'[r0][i] = journal[r0][i]
             /\ \A r \in RunIds \ {r0} : journal'[r] = journal[r]
      BY <2>3, AppendStep
    <3> DEFINE new == [client |-> c, run_id |-> r0, sequence |-> n + 1, id |-> id]
    <3>3. created' = created \cup {new} /\ bindings' = bindings
      BY <2>3, <3>2 DEF AppendRecord
    <3>4. ASSUME NEW x \in created
          PROVE  /\ x.run_id \in RunIds /\ x.sequence \in 1..Len(journal[x.run_id])
                 /\ x.sequence \in 1..Len(journal'[x.run_id])
                 /\ journal'[x.run_id][x.sequence].id = x.id
                 /\ x.id # id
      <4>1. /\ x.run_id \in RunIds /\ x.sequence \in 1..Len(journal[x.run_id])
            /\ journal[x.run_id][x.sequence].id = x.id
        BY DEF TypeOK, OneCreator
      <4>2. x.sequence \in 1..Len(journal'[x.run_id]) /\ journal'[x.run_id][x.sequence].id = x.id
        <5>1. CASE x.run_id = r0
          BY <3>2, <4>1, <5>1
        <5>2. CASE x.run_id # r0
          BY <3>2, <4>1, <5>2
        <5> QED BY <5>1, <5>2
      <4>3. journal[x.run_id] \in Seq(Records)
        BY <4>1 DEF TypeOK
      <4>4. x.sequence \in DOMAIN journal[x.run_id]
        BY <4>1, <4>3
      <4>5. x.id # id
        BY <2>3, <4>1, <4>4 DEF AppendRecord, RecordAccepted, RecordIdInUse
      <4> QED BY <4>1, <4>2, <4>5
    <3>5. new.sequence \in 1..Len(journal'[new.run_id]) /\ journal'[new.run_id][new.sequence].id = new.id
      BY <3>2
    <3>6. \A x, y \in created' : x.id = y.id => x = y
      BY <3>3, <3>4 DEF OneCreator
    <3> QED BY <3>3, <3>4, <3>5, <3>6 DEF OneCreator
  <2> QED BY <2>1, <2>2, <2>3, Writers
          DEF create_run, AppendRecord
<1> QED BY <1>1, <1>2, TypeCorrect, PTL DEF Spec

\* Events and journal records are only appended, runs stay and a binding is final, for
\* every client and every stale snapshot.
THEOREM StoreAppendOnly == Spec => AppendOnly
<1> DEFINE Grows ==
       /\ exists \subseteq exists'
       /\ \A r \in RunIds :
             /\ IsExtension(events[r], events'[r])
             /\ IsExtension(journal[r], journal'[r])
             /\ r \in exists => bindings'[r] = bindings[r]
<1>1. TypeOK /\ [Next]_vars => [Grows]_vars
  <2> SUFFICES ASSUME TypeOK, Next PROVE Grows
    OBVIOUS
  <2>1. /\ \A r \in RunIds : Len(events[r]) \in Nat /\ Len(journal[r]) \in Nat
        /\ \A s : Len(s) \in Nat => IsExtension(s, s)
    BY DEF TypeOK, IsExtension
  <2>2. exists \subseteq exists' /\ \A r \in exists : bindings'[r] = bindings[r]
    BY Writers DEF create_run, create_bound_run, TypeOK
  <2>3. \A r \in RunIds : IsExtension(events[r], events'[r])
    <3>1. CASE events' = events
      BY <2>1, <3>1
    <3>2. CASE events' # events
      <4>1. PICK expected, result, event :
              CallOf(expected, result, event) /\ CommitTransition(expected, result, event)
        BY <3>2, Writers
      <4>2. PICK r0 \in RunIds : /\ r0 = expected.run_id /\ event \in Events
                                 /\ events[r0] \in Seq(Events)
        BY <4>1 DEF CallOf, Snapshots, TypeOK
      <4>3. /\ events'[r0] = Append(events[r0], event)
            /\ \A r \in RunIds \ {r0} : events'[r] = events[r]
        BY <4>1, <4>2 DEF CommitTransition, TypeOK
      <4>4. IsExtension(events[r0], events'[r0])
        BY <4>2, <4>3 DEF IsExtension
      <4> QED BY <2>1, <4>3, <4>4
    <3> QED BY <3>1, <3>2
  <2>4. \A r \in RunIds : IsExtension(journal[r], journal'[r])
    <3>1. CASE journal' = journal
      BY <2>1, <3>1
    <3>2. ASSUME NEW c \in Clients, NEW expected \in Snapshots, NEW id \in RecordIds,
                 NEW body \in Bodies, AppendRecord(c, expected, id, body)
          PROVE  \A r \in RunIds : IsExtension(journal[r], journal'[r])
      <4>2. PICK r0 \in RunIds, n \in Nat :
               /\ n = Len(journal[r0]) /\ Len(journal'[r0]) = n + 1
               /\ \A i \in 1..n : journal'[r0][i] = journal[r0][i]
               /\ \A r \in RunIds \ {r0} : journal'[r] = journal[r]
        BY <3>2, AppendStep
      <4>3. IsExtension(journal[r0], journal'[r0])
        BY <4>2 DEF IsExtension
      <4> QED BY <2>1, <4>2, <4>3
    <3> QED BY <3>1, <3>2, Writers
  <2> QED BY <2>2, <2>3, <2>4
<1> QED BY <1>1, TypeCorrect, PTL DEF Spec, AppendOnly
=============================================================================
