---------------------------- MODULE BudgetLedger ----------------------------
(***************************************************************************)
(* The budget tables of the run store (storage/sqlite.py) and their use by  *)
(* telemetry/service.py and the coordinators: a reservation before an       *)
(* effect, a settlement with its usage rows after it, and the sweep over    *)
(* reservations that a stopped coordinator left active.  Every action is    *)
(* one transaction or one read; a coordinator may stop between any two.     *)
(***************************************************************************)
EXTENDS Integers, FiniteSets, Sums

CONSTANTS
    Clients,        \* coordinators, each a process of its own
    Keys,           \* attempts; each owns one reservation identifier
    Metrics,        \* budgeted metrics of the run's policy
    MetricOf,       \* [Keys -> Metrics]
    DurationMetric, \* the metric measured in time rather than in attempts
    Limit,          \* [Metrics -> limit]
    Elapsed,        \* bound: the times a validation plan may take
    None,           \* no row
    UNRESOLVED      \* the settlement of a reservation written off

ASSUME LedgerAssumption ==
    /\ IsFiniteSet(Keys)
    /\ MetricOf \in [Keys -> Metrics]
    /\ DurationMetric \in Metrics
    /\ Limit \in [Metrics -> Nat \ {0}]
    /\ Elapsed \subseteq Nat

ReservationRecord == [amount : Nat \ {0}, by : Clients]
UsageRecord == [value : Nat, overage : BOOLEAN]

ASSUME NoneAssumption ==
    /\ None \notin Nat /\ UNRESOLVED \notin Nat /\ None # UNRESOLVED
    /\ None \notin ReservationRecord /\ None \notin UsageRecord

VARIABLES
    intents,       \* keys whose INTENT is in the journal
    outcomes,      \* [Keys -> None or the measured consumption in the OUTCOME]
    reservations,  \* [Keys -> None or the reserved amount and its creator]
    settlements,   \* [Keys -> None, UNRESOLVED or the consumption settled]
    usage,         \* [Keys -> None or the usage row written for the key]
    client         \* what each coordinator is doing, and whether the run
                   \* revision it read is still current

vars == <<intents, outcomes, reservations, settlements, usage, client>>
tables == <<reservations, settlements, usage>>

IsDuration(k) == MetricOf[k] = DurationMetric
Of(m) == {k \in Keys : MetricOf[k] = m}

\* COALESCE(SUM(usage)) of the usage rows that count against a budget metric
Used(m) == SumOver([k \in Keys |-> IF usage[k] = None THEN 0 ELSE usage[k].value], Of(m))

\* reservations without a settlement row
IsActive(k) == reservations[k] # None /\ settlements[k] = None
Active(m) == SumOver([k \in Keys |-> IF IsActive(k) THEN reservations[k].amount ELSE 0], Of(m))

Unresolved(m) == \E k \in Of(m) : settlements[k] = UNRESOLVED
Overage(m) == \E k \in Of(m) : usage[k] # None /\ usage[k].overage

Idle == [pc |-> "idle"]
Reading == [pc : {"decide"}, key : Keys, used : Nat, over : BOOLEAN, current : BOOLEAN]
Working == [pc : {"intend", "reserve", "work", "settle"}, key : Keys, amount : Nat \ {0},
            current : BOOLEAN]
Sweeping == [pc : {"sweep"}, seen : SUBSET Keys]
    \cup [pc : {"apply"}, seen : SUBSET Keys, todo : SUBSET Keys]

Init ==
    /\ intents = {}
    /\ outcomes = [k \in Keys |-> None]
    /\ reservations = [k \in Keys |-> None]
    /\ settlements = [k \in Keys |-> None]
    /\ usage = [k \in Keys |-> None]
    /\ client = [c \in Clients |-> Idle]

Become(c, state) == client' = [client EXCEPT ![c] = state]

----------------------------------------------------------------------------
(* A coordinator prepares an attempt.                                       *)

\* An agent attempt asks for one unit without consulting the ledger first.
BeginAgent(c, k) ==
    /\ client[c] = Idle /\ k \notin intents /\ ~IsDuration(k)
    /\ Become(c, [pc |-> "intend", key |-> k, amount |-> 1, current |-> TRUE])
    /\ UNCHANGED <<intents, outcomes, tables>>

\* TelemetryService.decision, first read: the usage rows
DecisionReadsUsage(c, k) ==
    /\ client[c] = Idle /\ k \notin intents /\ IsDuration(k)
    /\ Become(c, [pc |-> "decide", key |-> k, used |-> Used(MetricOf[k]),
                  over |-> Overage(MetricOf[k]), current |-> TRUE])
    /\ UNCHANGED <<intents, outcomes, tables>>

\* TelemetryService.decision, second read, in a transaction of its own: the
\* reservations.  The allowance may also be cut by the wall clock and by the
\* whole seconds of the plan's commands, hence any amount up to it.
DecisionReadsReservations(c) ==
    /\ client[c].pc = "decide"
    /\ LET m == MetricOf[client[c].key]
           remaining == Limit[m] - client[c].used - Active(m)
       IN IF Unresolved(m) \/ client[c].over \/ remaining < 1
          THEN Become(c, Idle)
          ELSE \E amount \in 1 .. remaining :
                 Become(c, [pc |-> "intend", key |-> client[c].key, amount |-> amount,
                            current |-> client[c].current])
    /\ UNCHANGED <<intents, outcomes, tables>>

\* The journal accepts one INTENT per attempt, at the revision that was read.
PersistIntent(c) ==
    LET k == client[c].key IN
    /\ client[c].pc = "intend"
    /\ IF k \notin intents /\ client[c].current
       THEN /\ intents' = intents \cup {k}
            /\ Become(c, [client[c] EXCEPT !.pc = "reserve"])
       ELSE Become(c, Idle) /\ UNCHANGED intents
    /\ UNCHANGED <<outcomes, tables>>

----------------------------------------------------------------------------
(* reserve_if_allowed                                                       *)

Reservation(c) == [amount |-> client[c].amount, by |-> c]

\* Defect: trusts the allowance computed by decision and does not test it again.
MayReserveTrustsDecision(c) ==
    LET k == client[c].key
        m == MetricOf[k] IN
    /\ client[c].current
    /\ \/ reservations[k] = Reservation(c)
       \/ reservations[k] = None /\ ~Unresolved(m) /\ ~Overage(m)

\* Defect: counts an unresolved reservation as given back.
MayReserveForgetsUnresolved(c) ==
    LET k == client[c].key
        m == MetricOf[k] IN
    /\ client[c].current
    /\ \/ reservations[k] = Reservation(c)
       \/ /\ reservations[k] = None
          /\ ~Overage(m)
          /\ client[c].amount <= Limit[m] - Used(m) - Active(m)

\* The retry of a committed reservation is allowed before the limit is looked
\* at; another payload under its identifier is a conflict.
MayReserve(c) ==
    LET k == client[c].key
        m == MetricOf[k] IN
    /\ client[c].current
    /\ \/ reservations[k] = Reservation(c)
       \/ /\ reservations[k] = None
          /\ ~Unresolved(m)
          /\ m = DurationMetric => ~Overage(m)
          /\ client[c].amount <= Limit[m] - Used(m) - Active(m)

\* A coordinator that lost the answer repeats the call: the retry branch.
Reserve(c) ==
    LET k == client[c].key IN
    /\ client[c].pc = "reserve"
    /\ IF MayReserve(c)
       THEN /\ reservations' = [reservations EXCEPT ![k] = Reservation(c)]
            /\ \E lost \in BOOLEAN :
                 Become(c, [client[c] EXCEPT !.pc = IF lost /\ reservations[k] = None
                                                    THEN "reserve" ELSE "work"])
       ELSE Become(c, Idle) /\ UNCHANGED reservations
    /\ UNCHANGED <<intents, outcomes, settlements, usage>>

----------------------------------------------------------------------------
(* The effect, its outcome and the settlement                               *)

\* The effect ran; its OUTCOME is appended unless the run has moved on.
PersistOutcome(c) ==
    LET k == client[c].key IN
    /\ client[c].pc = "work"
    /\ IF client[c].current
       THEN \E consumed \in IF IsDuration(k) THEN Elapsed ELSE {1} :
              /\ outcomes' = [outcomes EXCEPT ![k] = consumed]
              /\ Become(c, [client[c] EXCEPT !.pc = "settle"])
       ELSE Become(c, Idle) /\ UNCHANGED outcomes
    /\ UNCHANGED <<intents, tables>>

\* Defect: books the difference from what was reserved.
UsageRowDifference(k, consumed) ==
    [value |-> consumed - reservations[k].amount, overage |-> consumed > reservations[k].amount]

UsageRow(k, consumed) == [value |-> consumed, overage |-> consumed > reservations[k].amount]

\* Defect: appends the usage of a late settlement before it notices the conflict.
SettleReservationKeepsUsage(k, status, row) ==
    /\ settlements' = IF settlements[k] = None THEN [settlements EXCEPT ![k] = status] ELSE settlements
    /\ usage' = IF usage[k] = None THEN [usage EXCEPT ![k] = row] ELSE usage

\* Defect: a later settlement replaces the first.
SettleReservationReplaces(k, status, row) ==
    /\ settlements' = [settlements EXCEPT ![k] = status]
    /\ usage' = [usage EXCEPT ![k] = row]

\* settle_reservation: usage rows and settlement in one transaction; a second
\* settlement changes nothing, whether it repeats the first or conflicts with it.
SettleReservation(k, status, row) ==
    IF settlements[k] = None
    THEN /\ settlements' = [settlements EXCEPT ![k] = status]
         /\ usage' = [usage EXCEPT ![k] = row]
    ELSE UNCHANGED <<settlements, usage>>

Settle(c) ==
    LET k == client[c].key IN
    /\ client[c].pc = "settle"
    /\ SettleReservation(k, outcomes[k], UsageRow(k, outcomes[k]))
    /\ Become(c, Idle)
    /\ UNCHANGED <<intents, outcomes, reservations>>

----------------------------------------------------------------------------
(* _reconcile_telemetry: every execute starts with a sweep; cancel, and a    *)
(* resume that ends the run in reconcile, do not sweep.                     *)

SweepReadsJournal(c) ==
    /\ client[c] = Idle
    /\ \E k \in Keys : IsActive(k)
    /\ Become(c, [pc |-> "sweep", seen |-> {k \in Keys : outcomes[k] # None /\ settlements[k] = None}])
    /\ UNCHANGED <<intents, outcomes, tables>>

SweepReadsReservations(c) ==
    /\ client[c].pc = "sweep"
    /\ LET active == {k \in Keys : IsActive(k)}
       IN Become(c, IF active = {} THEN Idle
                    ELSE [pc |-> "apply", seen |-> client[c].seen, todo |-> active])
    /\ UNCHANGED <<intents, outcomes, tables>>

\* Each is settled from the outcome read earlier, or frozen when none was.  A
\* settlement committed meanwhile that differs is an error, which ends the sweep.
SweepSettles(c, k) ==
    /\ client[c].pc = "apply" /\ k \in client[c].todo
    /\ LET matched == k \in client[c].seen
           rest == client[c].todo \ {k}
           conflict == settlements[k] # None /\ ~(matched /\ settlements[k] = outcomes[k])
       IN /\ IF matched
             THEN SettleReservation(k, outcomes[k], UsageRow(k, outcomes[k]))
             ELSE SettleReservation(k, UNRESOLVED, None)
          /\ Become(c, IF conflict \/ rest = {} THEN Idle ELSE [client[c] EXCEPT !.todo = rest])
    /\ UNCHANGED <<intents, outcomes, reservations>>

----------------------------------------------------------------------------
(* The environment                                                          *)

Crash(c) ==
    /\ client[c] # Idle
    /\ Become(c, Idle)
    /\ UNCHANGED <<intents, outcomes, tables>>

\* Somebody transitions the run (RunStore, Orchestration): the revision that a
\* coordinator read is no longer the current one.
AdvanceRun ==
    /\ \E c \in Clients : "current" \in DOMAIN client[c] /\ client[c].current
    /\ client' = [c \in Clients |-> IF "current" \in DOMAIN client[c]
                                   THEN [client[c] EXCEPT !.current = FALSE] ELSE client[c]]
    /\ UNCHANGED <<intents, outcomes, tables>>

ClientStep(c) ==
    \/ DecisionReadsReservations(c) \/ PersistIntent(c) \/ Reserve(c)
    \/ PersistOutcome(c) \/ Settle(c)
    \/ SweepReadsReservations(c)
    \/ \E k \in Keys : SweepSettles(c, k)

Next ==
    \/ \E c \in Clients, k \in Keys : BeginAgent(c, k) \/ DecisionReadsUsage(c, k)
    \/ \E c \in Clients : ClientStep(c) \/ SweepReadsJournal(c) \/ Crash(c)
    \/ AdvanceRun

Spec == Init /\ [][Next]_vars

----------------------------------------------------------------------------
(* Properties                                                               *)

(* Type invariant of the tables and of what a coordinator holds. *)
TypeOK ==
    /\ intents \subseteq Keys
    /\ outcomes \in [Keys -> Nat \cup {None}]
    /\ reservations \in [Keys -> ReservationRecord \cup {None}]
    /\ settlements \in [Keys -> Nat \cup {None, UNRESOLVED}]
    /\ usage \in [Keys -> UsageRecord \cup {None}]
    /\ client \in [Clients -> {Idle} \cup Reading \cup Working \cup Sweeping]

\* Reservations whose true consumption is not known
InDoubt(k) == reservations[k] # None /\ settlements[k] \in {None, UNRESOLVED}
Doubtful(m) == SumOver([k \in Keys |-> IF InDoubt(k) THEN reservations[k].amount ELSE 0], Of(m))

(* What a metric has used and everything ever reserved of it without a known *)
(* consumption, written off by a sweep or not, stay within its limit together *)
(* (reserve_if_allowed), however stale the allowance a request was sized with *)
(* and however often a coordinator stops after reserving; only a validation   *)
(* that ran longer than it reserved may exceed it.                            *)
NoOverCommitment ==
    \A m \in Metrics : Used(m) + Doubtful(m) <= Limit[m] \/ Overage(m)

(* settle_reservation writes consumption and settlement together: a usage row *)
(* exists exactly for a key settled with that consumption, which is the one   *)
(* its OUTCOME recorded.                                                      *)
LedgerBalanced ==
    \A k \in Keys :
        /\ usage[k] # None <=> settlements[k] \notin {None, UNRESOLVED}
        /\ usage[k] # None => settlements[k] = usage[k].value /\ outcomes[k] = usage[k].value

(* The ledger is append-only: a reservation, settlement or usage row, once    *)
(* committed, is never changed by a retry, a sweep or a late settlement.      *)
LedgerAppendOnly ==
    [][\A k \in Keys :
        /\ reservations[k] # None => reservations'[k] = reservations[k]
        /\ settlements[k] # None => settlements'[k] = settlements[k]
        /\ usage[k] # None => usage'[k] = usage[k]]_vars

Account == INSTANCE BudgetAccount WITH
    held <- [m \in Metrics |-> Active(m)],
    spent <- [m \in Metrics |-> Used(m)],
    closed <- {m \in Metrics : Unresolved(m) \/ Overage(m)}

(* The tables and their users implement the abstract account: capacity is     *)
(* held before it is spent and a metric in doubt takes no more work.          *)
ImplementsAccount == Account!Spec
=============================================================================
