------------------------- MODULE BudgetLedgerProofs -------------------------
(***************************************************************************)
(* Theorems of BudgetLedger for any coordinators, attempts, metrics and    *)
(* limits, and any times that validations take.                            *)
(*                                                                         *)
(* The strengthening says who may still write for an attempt: the INTENT   *)
(* gives it one owner for ever, so an outcome is recorded once, after the  *)
(* reservation, and a usage row names that outcome.  An attempt metric is  *)
(* counted in units, so it cannot overrun what it reserved.                *)
(***************************************************************************)
EXTENDS BudgetLedger, SumLemmas

\* The coordinator owns the attempt that it works for.
Owns(c) == client[c].pc \in {"reserve", "work", "settle"}

\* An attempt has one owner.
OneOwner ==
    \A c, d \in Clients : Owns(c) /\ Owns(d) /\ client[c].key = client[d].key => c = d

\* What a coordinator relies on.
PhaseOf(c) ==
    /\ Owns(c) => client[c].key \in intents
    /\ client[c].pc \in {"reserve", "work"} => outcomes[client[c].key] = None
    /\ client[c].pc \in {"work", "settle"} => reservations[client[c].key] # None
    /\ client[c].pc = "settle" => outcomes[client[c].key] # None
    /\ client[c].pc = "decide" => IsDuration(client[c].key)
    /\ client[c].pc \in {"intend", "reserve", "work", "settle"} =>
         IsDuration(client[c].key) \/ client[c].amount = 1
    /\ client[c].pc \in {"sweep", "apply"} => \A k \in client[c].seen : outcomes[k] # None
    /\ client[c].pc = "apply" => \A k \in client[c].todo : reservations[k] # None

PhaseInv == OneOwner /\ \A c \in Clients : PhaseOf(c)

\* How the rows of an attempt depend on each other.
RowInv ==
    \A k \in Keys :
        /\ reservations[k] # None => k \in intents
        /\ outcomes[k] # None => reservations[k] # None
        /\ settlements[k] # None => reservations[k] # None
        /\ usage[k] # None => usage[k].overage = (usage[k].value > reservations[k].amount)
        /\ ~IsDuration(k) => /\ reservations[k] # None => reservations[k].amount = 1
                             /\ outcomes[k] # None => outcomes[k] = 1

Inv == TypeOK /\ PhaseInv /\ RowInv /\ LedgerBalanced

ClientState == {Idle} \cup Reading \cup Working \cup Sweeping

-----------------------------------------------------------------------------
(* What a coordinator is doing.                                             *)

\* The step a coordinator is at says what it holds.
LEMMA Kinds ==
    ASSUME NEW x \in ClientState
    PROVE  /\ x.pc = "decide" => x \in Reading
           /\ x.pc \in {"intend", "reserve", "work", "settle"} => x \in Working
           /\ x.pc = "sweep" => x \in [pc : {"sweep"}, seen : SUBSET Keys]
           /\ x.pc = "apply" => x \in [pc : {"apply"}, seen : SUBSET Keys, todo : SUBSET Keys]
           /\ x \in Reading => x.pc = "decide" /\ x.key \in Keys /\ x.used \in Nat
           /\ x \in Working => /\ x.pc \in {"intend", "reserve", "work", "settle"}
                              /\ x.key \in Keys /\ x.amount \in Nat \ {0}
           /\ x = Idle => x.pc = "idle"
BY DEF ClientState, Idle, Reading, Working, Sweeping

\* Become changes what one coordinator does.
LEMMA BecomeStep ==
    ASSUME TypeOK, NEW c \in Clients, NEW x \in ClientState, Become(c, x)
    PROVE  /\ client' \in [Clients -> ClientState]
           /\ client'[c] = x
           /\ \A d \in Clients : d # c => client'[d] = client[d]
BY DEF TypeOK, Become, ClientState

\* A coordinator goes on to another step of its attempt.
LEMMA GoOn ==
    ASSUME NEW x \in Working, NEW pc \in {"intend", "reserve", "work", "settle"}
    PROVE  /\ [x EXCEPT !.pc = pc] \in ClientState
           /\ [x EXCEPT !.pc = pc].pc = pc
           /\ [x EXCEPT !.pc = pc].key = x.key
           /\ [x EXCEPT !.pc = pc].amount = x.amount
           /\ [x EXCEPT !.pc = pc].current = x.current
BY DEF ClientState, Working

\* A transition of the run only makes the revision that coordinators read stale.
LEMMA AdvanceStep ==
    ASSUME TypeOK, AdvanceRun, NEW c \in Clients
    PROVE  /\ client'[c] \in ClientState
           /\ client'[c].pc = client[c].pc
           /\ client[c].pc \in {"decide", "intend", "reserve", "work", "settle"} =>
                client'[c].key = client[c].key
           /\ client[c].pc \in {"intend", "reserve", "work", "settle"} =>
                client'[c].amount = client[c].amount
           /\ client[c].pc \in {"sweep", "apply"} => client'[c] = client[c]
<1> DEFINE x == client[c]
<1>1. x \in ClientState
  BY DEF TypeOK, ClientState
<1>2. client'[c] = IF "current" \in DOMAIN x THEN [x EXCEPT !.current = FALSE] ELSE x
  BY DEF AdvanceRun
<1>3. CASE x \in Reading
  BY <1>2, <1>3, ZenonT(40) DEF Reading, ClientState
<1>4. CASE x \in Working
  BY <1>2, <1>4 DEF Working, ClientState
<1>5. CASE x \in {Idle} \cup Sweeping
  BY <1>1, <1>2, <1>5 DEF Idle, Sweeping
<1> QED BY <1>1, <1>3, <1>4, <1>5 DEF ClientState

-----------------------------------------------------------------------------
(* The sums of a metric.                                                    *)

\* The attempts of a metric are finitely many.
LEMMA OfFinite ==
    ASSUME NEW m
    PROVE  IsFiniteSet(Of(m)) /\ Of(m) \subseteq Keys
BY LedgerAssumption, FS_Subset DEF Of

\* The ledger's sums are naturals.
LEMMA SumsNat ==
    ASSUME TypeOK, NEW m
    PROVE  Used(m) \in Nat /\ Active(m) \in Nat /\ Doubtful(m) \in Nat
<1> DEFINE u == [k \in Keys |-> IF usage[k] = None THEN 0 ELSE usage[k].value]
           a == [k \in Keys |-> IF IsActive(k) THEN reservations[k].amount ELSE 0]
           d == [k \in Keys |-> IF InDoubt(k) THEN reservations[k].amount ELSE 0]
<1>1. \A k \in Of(m) : u[k] \in Nat /\ a[k] \in Nat /\ d[k] \in Nat
  BY OfFinite DEF TypeOK, UsageRecord, ReservationRecord, IsActive, InDoubt
<1>2. SumOver(u, Of(m)) \in Nat /\ SumOver(a, Of(m)) \in Nat /\ SumOver(d, Of(m)) \in Nat
  <2> HIDE DEF u, a, d
  <2> QED BY <1>1, OfFinite, SumNat
<1> QED BY <1>2 DEF Used, Active, Doubtful

-----------------------------------------------------------------------------
(* What a step writes.  Every step writes at most one row of one table, but *)
(* for a settlement, which writes its usage row with it.                    *)

Intends(k) ==
    /\ k \notin intents
    /\ intents' = intents \cup {k}
    /\ UNCHANGED <<outcomes, tables>>

Reserves(c, k) ==
    /\ client[c].pc = "reserve" /\ k = client[c].key
    /\ MayReserve(c) /\ reservations[k] = None
    /\ reservations' = [reservations EXCEPT ![k] = Reservation(c)]
    /\ UNCHANGED <<intents, outcomes, settlements, usage>>

Measures(c, k) ==
    /\ client[c].pc = "work" /\ k = client[c].key
    /\ \E consumed \in Nat : /\ IsDuration(k) \/ consumed = 1
                             /\ outcomes' = [outcomes EXCEPT ![k] = consumed]
    /\ UNCHANGED <<intents, tables>>

SettlesKnown(k) ==
    /\ settlements[k] = None /\ outcomes[k] # None
    /\ settlements' = [settlements EXCEPT ![k] = outcomes[k]]
    /\ usage' = [usage EXCEPT ![k] = UsageRow(k, outcomes[k])]
    /\ UNCHANGED <<intents, outcomes, reservations>>

WritesOff(k) ==
    /\ settlements[k] = None /\ reservations[k] # None
    /\ settlements' = [settlements EXCEPT ![k] = UNRESOLVED]
    /\ usage' = [usage EXCEPT ![k] = None]
    /\ UNCHANGED <<intents, outcomes, reservations>>

Writes ==
    \/ UNCHANGED <<intents, outcomes, tables>>
    \/ \E k \in Keys : Intends(k) \/ SettlesKnown(k) \/ WritesOff(k)
    \/ \E c \in Clients, k \in Keys : Reserves(c, k) \/ Measures(c, k)

\* What a coordinator holds at each of its steps is well formed.
LEMMA Holds ==
    ASSUME TypeOK, NEW c \in Clients
    PROVE  /\ client[c] \in ClientState
           /\ client[c].pc \in {"decide", "intend", "reserve", "work", "settle"} => client[c].key \in Keys
           /\ client[c].pc \in {"intend", "reserve", "work", "settle"} => client[c] \in Working
           /\ client[c].pc \in {"sweep", "apply"} => client[c].seen \subseteq Keys
           /\ client[c].pc = "apply" => client[c].todo \subseteq Keys
<1>1. client[c] \in ClientState
  BY DEF TypeOK, ClientState
<1> QED BY <1>1, Kinds

\* Every step is one of these writes.
LEMMA WriteStep ==
    ASSUME Inv, [Next]_vars
    PROVE  Writes
<1> USE DEF tables
<1>1. TypeOK
  BY DEF Inv
<1>2. ASSUME NEW c \in Clients, NEW k \in Keys, BeginAgent(c, k) \/ DecisionReadsUsage(c, k)
      PROVE  Writes
  BY <1>2 DEF BeginAgent, DecisionReadsUsage, Writes
<1>3. ASSUME NEW c \in Clients, DecisionReadsReservations(c) \/ SweepReadsJournal(c)
                                \/ SweepReadsReservations(c) \/ Crash(c)
      PROVE  Writes
  BY <1>3 DEF DecisionReadsReservations, SweepReadsJournal, SweepReadsReservations, Crash, Writes
<1>4. ASSUME NEW c \in Clients, PersistIntent(c)
      PROVE  Writes
  <2>1. client[c].key \in Keys
    BY <1>1, <1>4, Holds DEF PersistIntent
  <2> QED BY <1>4, <2>1 DEF PersistIntent, Writes, Intends
<1>5. ASSUME NEW c \in Clients, Reserve(c)
      PROVE  Writes
  <2>1. client[c].key \in Keys
    BY <1>1, <1>5, Holds DEF Reserve
  <2>2. CASE MayReserve(c) /\ reservations[client[c].key] = None
    BY <1>5, <2>1, <2>2 DEF Reserve, Writes, Reserves
  <2>3. CASE MayReserve(c) /\ reservations[client[c].key] # None
    <3>1. reservations[client[c].key] = Reservation(c)
      BY <2>3 DEF MayReserve
    <3>2. reservations' = reservations
      BY <1>1, <1>5, <2>1, <2>3, <3>1 DEF Reserve, TypeOK
    <3> QED BY <1>5, <3>2 DEF Reserve, Writes
  <2>4. CASE ~MayReserve(c)
    BY <1>5, <2>4 DEF Reserve, Writes
  <2> QED BY <2>2, <2>3, <2>4
<1>6. ASSUME NEW c \in Clients, PersistOutcome(c)
      PROVE  Writes
  <2>1. client[c].key \in Keys
    BY <1>1, <1>6, Holds DEF PersistOutcome
  <2>2. CASE client[c].current
    <3>1. PICK consumed \in IF IsDuration(client[c].key) THEN Elapsed ELSE {1} :
             outcomes' = [outcomes EXCEPT ![client[c].key] = consumed]
      BY <1>6, <2>2 DEF PersistOutcome
    <3>2. consumed \in Nat /\ (IsDuration(client[c].key) \/ consumed = 1)
      BY LedgerAssumption
    <3>3. Measures(c, client[c].key)
      BY <1>6, <3>1, <3>2 DEF PersistOutcome, Measures
    <3> QED BY <2>1, <3>3 DEF Writes
  <2>3. CASE ~client[c].current
    BY <1>6, <2>3 DEF PersistOutcome, Writes
  <2> QED BY <2>2, <2>3
<1>7. ASSUME NEW c \in Clients, Settle(c)
      PROVE  Writes
  <2>1. client[c].key \in Keys /\ outcomes[client[c].key] # None
    BY <1>1, <1>7, Holds DEF Settle, Inv, PhaseInv, PhaseOf
  <2>2. CASE settlements[client[c].key] = None
    BY <1>7, <2>1, <2>2 DEF Settle, SettleReservation, Writes, SettlesKnown
  <2>3. CASE settlements[client[c].key] # None
    BY <1>7, <2>3 DEF Settle, SettleReservation, Writes
  <2> QED BY <2>2, <2>3
<1>8. ASSUME NEW c \in Clients, NEW k \in Keys, SweepSettles(c, k)
      PROVE  Writes
  <2>1. CASE settlements[k] # None
    BY <1>8, <2>1 DEF SweepSettles, SettleReservation, Writes
  <2>2. CASE settlements[k] = None /\ k \in client[c].seen
    <3>1. outcomes[k] # None
      BY <1>8, <2>2 DEF SweepSettles, Inv, PhaseInv, PhaseOf
    <3>2. SettlesKnown(k)
      BY <1>8, <2>2, <3>1 DEF SweepSettles, SettleReservation, SettlesKnown
    <3> QED BY <3>2 DEF Writes
  <2>3. CASE settlements[k] = None /\ k \notin client[c].seen
    <3>1. reservations[k] # None
      BY <1>8 DEF SweepSettles, Inv, PhaseInv, PhaseOf
    <3>2. WritesOff(k)
      BY <1>8, <2>3, <3>1 DEF SweepSettles, SettleReservation, WritesOff
    <3> QED BY <3>2 DEF Writes
  <2> QED BY <2>1, <2>2, <2>3
<1>9. CASE AdvanceRun
  BY <1>9 DEF AdvanceRun, Writes
<1>10. CASE UNCHANGED vars
  BY <1>10 DEF vars, Writes
<1> QED BY <1>2, <1>3, <1>4, <1>5, <1>6, <1>7, <1>8, <1>9, <1>10 DEF Next, ClientStep

-----------------------------------------------------------------------------
(* The rows.                                                                *)

\* The tables keep their types.
LEMMA TableTypes ==
    ASSUME Inv, Writes
    PROVE  /\ intents' \subseteq Keys
           /\ outcomes' \in [Keys -> Nat \cup {None}]
           /\ reservations' \in [Keys -> ReservationRecord \cup {None}]
           /\ settlements' \in [Keys -> Nat \cup {None, UNRESOLVED}]
           /\ usage' \in [Keys -> UsageRecord \cup {None}]
<1> USE DEF tables
<1>1. TypeOK
  BY DEF Inv
<1>2. CASE UNCHANGED <<intents, outcomes, tables>>
  BY <1>1, <1>2 DEF TypeOK
<1>3. ASSUME NEW k \in Keys, Intends(k) \/ WritesOff(k)
      PROVE  /\ intents' \subseteq Keys
             /\ outcomes' \in [Keys -> Nat \cup {None}]
             /\ reservations' \in [Keys -> ReservationRecord \cup {None}]
             /\ settlements' \in [Keys -> Nat \cup {None, UNRESOLVED}]
             /\ usage' \in [Keys -> UsageRecord \cup {None}]
  BY <1>1, <1>3 DEF TypeOK, Intends, WritesOff
<1>4. ASSUME NEW k \in Keys, SettlesKnown(k)
      PROVE  /\ settlements' \in [Keys -> Nat \cup {None, UNRESOLVED}]
             /\ usage' \in [Keys -> UsageRecord \cup {None}]
  <2>1. outcomes[k] \in Nat
    BY <1>1, <1>4 DEF TypeOK, SettlesKnown
  <2>2. UsageRow(k, outcomes[k]) \in UsageRecord
    BY <2>1 DEF UsageRow, UsageRecord
  <2> QED BY <1>1, <1>4, <2>1, <2>2 DEF TypeOK, SettlesKnown
<1>5. ASSUME NEW c \in Clients, NEW k \in Keys, Reserves(c, k)
      PROVE  reservations' \in [Keys -> ReservationRecord \cup {None}]
  <2>1. client[c] \in Working /\ client[c] \in ClientState
    BY <1>1, <1>5, Holds DEF Reserves
  <2>2. Reservation(c) \in ReservationRecord
    BY <2>1, Kinds DEF Reservation, ReservationRecord
  <2> QED BY <1>1, <1>5, <2>2 DEF TypeOK, Reserves
<1>6. ASSUME NEW c \in Clients, NEW k \in Keys, Measures(c, k)
      PROVE  outcomes' \in [Keys -> Nat \cup {None}]
  BY <1>1, <1>6 DEF TypeOK, Measures
<1> QED BY <1>1, <1>2, <1>3, <1>4, <1>5, <1>6
        DEF Writes, TypeOK, SettlesKnown, Reserves, Measures

\* Rows that exist stay, and an outcome is recorded for an attempt that has none.
LEMMA RowsStay ==
    ASSUME Inv, Writes
    PROVE  /\ intents \subseteq intents'
           /\ \A k \in Keys :
                /\ outcomes[k] # None => outcomes'[k] = outcomes[k]
                /\ reservations[k] # None => reservations'[k] = reservations[k]
                /\ settlements[k] # None => settlements'[k] = settlements[k]
                /\ usage[k] # None => usage'[k] = usage[k]
<1> USE DEF tables
<1>1. TypeOK
  BY DEF Inv
<1>2. ASSUME NEW c \in Clients, NEW k \in Keys, Measures(c, k)
      PROVE  outcomes[k] = None
  BY <1>2 DEF Measures, Inv, PhaseInv, PhaseOf
<1>3. ASSUME NEW k \in Keys, settlements[k] = None
      PROVE  usage[k] = None
  BY <1>3 DEF Inv, LedgerBalanced
<1> QED BY <1>1, <1>2, <1>3
        DEF Writes, TypeOK, Intends, Reserves, Measures, SettlesKnown, WritesOff

\* What the usage row of a consumption says.
LEMMA RowOfUsage ==
    ASSUME NEW k, NEW consumed \in Nat
    PROVE  /\ UsageRow(k, consumed) \in UsageRecord /\ UsageRow(k, consumed) # None
           /\ UsageRow(k, consumed).value = consumed
           /\ UsageRow(k, consumed).overage = (consumed > reservations[k].amount)
<1>1. UsageRow(k, consumed) \in UsageRecord
  BY DEF UsageRow, UsageRecord
<1>2. UsageRow(k, consumed) # None
  BY <1>1, NoneAssumption
<1>3. /\ UsageRow(k, consumed).value = consumed
      /\ UsageRow(k, consumed).overage = (consumed > reservations[k].amount)
  BY DEF UsageRow
<1> QED BY <1>1, <1>2, <1>3

\* The rows of an attempt keep depending on each other as they do.
LEMMA RowStep ==
    ASSUME Inv, Writes
    PROVE  RowInv' /\ LedgerBalanced'
<1> USE DEF tables, IsDuration
<1>0. TypeOK /\ RowInv /\ LedgerBalanced
  BY DEF Inv
<1>1. CASE UNCHANGED <<intents, outcomes, tables>>
  BY <1>0, <1>1 DEF RowInv, LedgerBalanced
<1>2. ASSUME NEW k \in Keys, Intends(k)
      PROVE  RowInv' /\ LedgerBalanced'
  BY <1>0, <1>2 DEF Intends, RowInv, LedgerBalanced
<1>3. ASSUME NEW k \in Keys, SettlesKnown(k)
      PROVE  RowInv' /\ LedgerBalanced'
  <2>1. outcomes[k] \in Nat /\ reservations[k] # None /\ usage[k] = None
    BY <1>0, <1>3 DEF SettlesKnown, RowInv, LedgerBalanced, TypeOK
  <2>2. /\ settlements'[k] = outcomes[k] /\ usage'[k] = UsageRow(k, outcomes[k])
        /\ \A j \in Keys : j # k => settlements'[j] = settlements[j] /\ usage'[j] = usage[j]
        /\ UNCHANGED <<intents, outcomes, reservations>>
    BY <1>0, <1>3 DEF SettlesKnown, TypeOK
  <2>3. /\ usage'[k] # None /\ usage'[k].value = outcomes[k]
        /\ usage'[k].overage = (outcomes[k] > reservations[k].amount)
    BY <2>1, <2>2, RowOfUsage
  <2>4. RowInv'
    BY <1>0, <2>1, <2>2, <2>3 DEF RowInv
  <2>5. LedgerBalanced'
    BY <1>0, <2>1, <2>2, <2>3, NoneAssumption DEF LedgerBalanced
  <2> QED BY <2>4, <2>5
<1>4. ASSUME NEW k \in Keys, WritesOff(k)
      PROVE  RowInv' /\ LedgerBalanced'
  <2>1. usage[k] = None
    BY <1>0, <1>4 DEF WritesOff, LedgerBalanced
  <2>2. /\ settlements'[k] = UNRESOLVED /\ usage' = usage
        /\ \A j \in Keys : j # k => settlements'[j] = settlements[j]
        /\ UNCHANGED <<intents, outcomes, reservations>>
    BY <1>0, <1>4, <2>1 DEF WritesOff, TypeOK
  <2>3. RowInv'
    BY <1>0, <1>4, <2>2 DEF RowInv, WritesOff
  <2>4. LedgerBalanced'
    BY <1>0, <2>1, <2>2 DEF LedgerBalanced
  <2> QED BY <2>3, <2>4
<1>5. ASSUME NEW c \in Clients, NEW k \in Keys, Reserves(c, k)
      PROVE  RowInv' /\ LedgerBalanced'
  <2>1. k \in intents /\ (IsDuration(k) \/ client[c].amount = 1)
    BY <1>5 DEF Reserves, Inv, PhaseInv, PhaseOf, Owns
  <2>2. /\ reservations'[k] = Reservation(c)
        /\ \A j \in Keys : j # k => reservations'[j] = reservations[j]
        /\ UNCHANGED <<intents, outcomes, settlements, usage>>
    BY <1>0, <1>5 DEF Reserves, TypeOK
  <2>3. settlements[k] = None /\ usage[k] = None /\ outcomes[k] = None
    BY <1>0, <1>5 DEF Reserves, RowInv, LedgerBalanced
  <2>4. RowInv'
    BY <1>0, <2>1, <2>2, <2>3 DEF RowInv, Reservation
  <2> QED BY <1>0, <2>2, <2>4 DEF LedgerBalanced
<1>6. ASSUME NEW c \in Clients, NEW k \in Keys, Measures(c, k)
      PROVE  RowInv' /\ LedgerBalanced'
  <2>1. outcomes[k] = None /\ reservations[k] # None
    BY <1>6 DEF Measures, Inv, PhaseInv, PhaseOf
  <2>2. PICK consumed \in Nat : /\ IsDuration(k) \/ consumed = 1
                               /\ outcomes' = [outcomes EXCEPT ![k] = consumed]
    BY <1>6 DEF Measures
  <2>3. usage[k] = None
    BY <1>0, <2>1, NoneAssumption DEF LedgerBalanced, TypeOK, UsageRecord
  <2>4. RowInv'
    BY <1>0, <1>6, <2>1, <2>2 DEF Measures, RowInv, TypeOK
  <2> QED BY <1>0, <1>6, <2>2, <2>3, <2>4 DEF Measures, LedgerBalanced, TypeOK
<1> QED BY <1>1, <1>2, <1>3, <1>4, <1>5, <1>6 DEF Writes

-----------------------------------------------------------------------------
(* The coordinators.                                                        *)

Attempting == {"intend", "reserve", "work", "settle"}

\* What a coordinator relies on stays true while it does not move.
LEMMA PhaseKept ==
    ASSUME Inv, Writes, NEW d \in Clients,
           client'[d].pc = client[d].pc,
           client[d].pc \in Attempting \cup {"decide"} => client'[d].key = client[d].key,
           client[d].pc \in Attempting => client'[d].amount = client[d].amount,
           client[d].pc \in {"sweep", "apply"} => client'[d] = client[d],
           \A k \in Keys : ~Measures(d, k)
    PROVE  PhaseOf(d)'
<1> USE DEF IsDuration, tables, Attempting
<1>1. TypeOK /\ PhaseOf(d)
  BY DEF Inv, PhaseInv
<1>2. CASE Owns(d)
  <2>1. client[d].key \in Keys
    BY <1>1, <1>2, Holds DEF Owns
  <2>2. outcomes'[client[d].key] = outcomes[client[d].key]
    <3>1. CASE UNCHANGED outcomes
      BY <3>1
    <3>2. ASSUME NEW c \in Clients, NEW k \in Keys, Measures(c, k)
          PROVE  outcomes'[client[d].key] = outcomes[client[d].key]
      <4>1. c # d /\ Owns(c) /\ client[c].key = k
        BY <3>2 DEF Measures, Owns
      <4>2. client[d].key # k
        BY <1>2, <4>1 DEF Inv, PhaseInv, PhaseOf, OneOwner
      <4> QED BY <1>1, <2>1, <3>2, <4>2 DEF Measures, TypeOK
    <3> QED BY <3>1, <3>2 DEF Writes, Intends, SettlesKnown, WritesOff, Reserves
  <2> QED BY <1>1, <1>2, <2>1, <2>2, RowsStay DEF PhaseOf, Owns
<1>3. CASE ~Owns(d)
  <2>1. client[d].pc \in {"sweep", "apply"} => client[d].seen \subseteq Keys
    BY <1>1, Holds
  <2>2. client[d].pc = "apply" => client[d].todo \subseteq Keys
    BY <1>1, Holds
  <2>3. /\ \A k \in Keys : outcomes[k] # None => outcomes'[k] # None
        /\ \A k \in Keys : reservations[k] # None => reservations'[k] # None
    BY RowsStay
  <2> QED BY <1>1, <1>3, <2>1, <2>2, <2>3 DEF PhaseOf, Owns
<1> QED BY <1>2, <1>3

\* A coordinator that only continues, or gives up, an attempt it owns leaves one owner.
LEMMA OwnerKept ==
    ASSUME Inv, NEW c \in Clients,
           \A d \in Clients : d # c => client'[d] = client[d],
           Owns(c)' => Owns(c) /\ client'[c].key = client[c].key
    PROVE  OneOwner'
BY DEF Inv, PhaseInv, OneOwner, Owns

\* A step of one coordinator: what remains to show is what it relies on next.
LEMMA OneMoves ==
    ASSUME Inv, Writes, NEW c \in Clients, NEW x \in ClientState, Become(c, x),
           \A d \in Clients, k \in Keys : d # c => ~Measures(d, k),
           PhaseOf(c)', OneOwner'
    PROVE  TypeOK' /\ PhaseInv'
<1>1. TypeOK
  BY DEF Inv
<1>2. /\ client' \in [Clients -> ClientState] /\ client'[c] = x
      /\ \A d \in Clients : d # c => client'[d] = client[d]
  BY <1>1, BecomeStep
<1>3. TypeOK'
  BY <1>2, TableTypes DEF TypeOK, ClientState
<1>4. \A d \in Clients : d # c => PhaseOf(d)'
  BY <1>2, PhaseKept
<1> QED BY <1>3, <1>4 DEF PhaseInv

\* Only the coordinator that moves records an outcome.
LEMMA NoOtherMeasures ==
    ASSUME Inv, NEW c \in Clients,
           UNCHANGED outcomes \/ \E k \in Keys : Measures(c, k)
    PROVE  \A d \in Clients, k \in Keys : d # c => ~Measures(d, k)
<1> SUFFICES ASSUME NEW d \in Clients, NEW k \in Keys, d # c, Measures(d, k) PROVE FALSE
  OBVIOUS
<1>1. TypeOK /\ outcomes[k] = None /\ outcomes'[k] \in Nat
  BY DEF Measures, Inv, PhaseInv, PhaseOf, TypeOK
<1>2. outcomes' # outcomes
  BY <1>1, NoneAssumption
<1>3. PICK j \in Keys : Measures(c, j)
  BY <1>2
<1>4. j # k
  BY <1>3 DEF Measures, Inv, PhaseInv, OneOwner, Owns
<1> QED BY <1>1, <1>3, <1>4, NoneAssumption DEF Measures, TypeOK

\* A coordinator that ends its call relies on nothing.
LEMMA Stops ==
    ASSUME Inv, Writes, NEW c \in Clients, Become(c, Idle),
           UNCHANGED outcomes \/ \E k \in Keys : Measures(c, k)
    PROVE  TypeOK' /\ PhaseInv'
<1>1. TypeOK /\ Idle \in ClientState /\ Idle.pc = "idle"
  BY DEF Inv, ClientState, Idle
<1>2. client'[c] = Idle /\ \A d \in Clients : d # c => client'[d] = client[d]
  BY <1>1, BecomeStep
<1>3. PhaseOf(c)'
  BY <1>1, <1>2 DEF PhaseOf, Owns
<1>4. OneOwner'
  BY <1>1, <1>2, OwnerKept DEF Owns
<1> QED BY <1>1, <1>3, <1>4, NoOtherMeasures, OneMoves

\* Every step keeps the types and what the coordinators rely on.
LEMMA PhaseStep ==
    ASSUME Inv, [Next]_vars
    PROVE  TypeOK' /\ PhaseInv'
<1> USE DEF tables
<1>0. TypeOK /\ Writes /\ RowInv
  BY WriteStep DEF Inv
<1>1. ASSUME NEW c \in Clients, NEW k \in Keys, BeginAgent(c, k)
      PROVE  TypeOK' /\ PhaseInv'
  <2> DEFINE x == [pc |-> "intend", key |-> k, amount |-> 1, current |-> TRUE]
  <2>1. x \in ClientState
    BY DEF ClientState, Working
  <2>2. client'[c] = x /\ \A d \in Clients : d # c => client'[d] = client[d]
    BY <1>0, <1>1, <2>1, BecomeStep DEF BeginAgent
  <2>3. PhaseOf(c)' /\ OneOwner'
    BY <2>2, OwnerKept DEF PhaseOf, Owns
  <2> QED BY <1>0, <1>1, <2>1, <2>3, NoOtherMeasures, OneMoves DEF BeginAgent
<1>2. ASSUME NEW c \in Clients, NEW k \in Keys, DecisionReadsUsage(c, k)
      PROVE  TypeOK' /\ PhaseInv'
  <2> DEFINE x == [pc |-> "decide", key |-> k, used |-> Used(MetricOf[k]),
                   over |-> Overage(MetricOf[k]), current |-> TRUE]
  <2>1. x \in ClientState
    <3>1. Used(MetricOf[k]) \in Nat
      BY <1>0, SumsNat
    <3>2. Overage(MetricOf[k]) \in BOOLEAN
      BY DEF Overage
    <3> QED BY <3>1, <3>2 DEF ClientState, Reading
  <2>2. client'[c] = x /\ \A d \in Clients : d # c => client'[d] = client[d]
    BY <1>0, <1>2, <2>1, BecomeStep DEF DecisionReadsUsage
  <2>3. client'[c].pc = "decide" /\ client'[c].key = k
    BY <2>2
  <2>4. PhaseOf(c)' /\ OneOwner'
    BY <1>2, <2>2, <2>3, OwnerKept DEF PhaseOf, Owns, IsDuration, DecisionReadsUsage
  <2> QED BY <1>0, <1>2, <2>1, <2>4, NoOtherMeasures, OneMoves DEF DecisionReadsUsage
<1>3. ASSUME NEW c \in Clients, DecisionReadsReservations(c)
      PROVE  TypeOK' /\ PhaseInv'
  <2>1. CASE Become(c, Idle)
    BY <1>0, <1>3, <2>1, Stops DEF DecisionReadsReservations
  <2>2. CASE ~Become(c, Idle)
    <3> DEFINE m == MetricOf[client[c].key]
               remaining == Limit[m] - client[c].used - Active(m)
    <3>1. PICK amount \in 1 .. remaining :
             Become(c, [pc |-> "intend", key |-> client[c].key, amount |-> amount,
                        current |-> client[c].current])
      BY <1>3, <2>2 DEF DecisionReadsReservations
    <3>2. client[c] \in Reading /\ m \in Metrics /\ client[c].key \in Keys
      BY <1>0, <1>3, Holds, Kinds, LedgerAssumption DEF DecisionReadsReservations
    <3>3. amount \in Nat \ {0}
      BY <3>1, <3>2, <1>0, SumsNat, LedgerAssumption DEF Reading
    <3> DEFINE x == [pc |-> "intend", key |-> client[c].key, amount |-> amount,
                     current |-> client[c].current]
    <3>4. x \in ClientState
      BY <3>2, <3>3 DEF ClientState, Working, Reading
    <3>5. client'[c] = x /\ \A d \in Clients : d # c => client'[d] = client[d]
      BY <1>0, <3>1, <3>4, BecomeStep
    <3>6. IsDuration(client[c].key)
      BY <1>3 DEF DecisionReadsReservations, Inv, PhaseInv, PhaseOf
    <3>7. client'[c].pc = "intend" /\ client'[c].key = client[c].key
      BY <3>5
    <3>8. PhaseOf(c)' /\ OneOwner'
      BY <3>5, <3>6, <3>7, OwnerKept DEF PhaseOf, Owns, IsDuration
    <3> QED BY <1>0, <1>3, <3>1, <3>4, <3>8, NoOtherMeasures, OneMoves DEF DecisionReadsReservations
  <2> QED BY <2>1, <2>2
<1>4. ASSUME NEW c \in Clients, PersistIntent(c)
      PROVE  TypeOK' /\ PhaseInv'
  <2>1. CASE Become(c, Idle)
    BY <1>0, <1>4, <2>1, Stops DEF PersistIntent
  <2>2. CASE ~Become(c, Idle)
    <3>1. /\ client[c].key \notin intents /\ intents' = intents \cup {client[c].key}
          /\ Become(c, [client[c] EXCEPT !.pc = "reserve"])
          /\ UNCHANGED <<outcomes, tables>> /\ client[c].pc = "intend"
      BY <1>4, <2>2 DEF PersistIntent
    <3>2. client[c] \in Working /\ client[c].key \in Keys
      BY <1>0, <3>1, Holds
    <3>3. PICK x \in ClientState : /\ x = [client[c] EXCEPT !.pc = "reserve"] /\ x.pc = "reserve"
                                   /\ x.key = client[c].key /\ x.amount = client[c].amount
      BY <3>2, GoOn
    <3>4. client'[c] = x /\ \A d \in Clients : d # c => client'[d] = client[d]
      BY <1>0, <3>1, <3>3, BecomeStep
    <3>5. reservations[client[c].key] = None /\ outcomes[client[c].key] = None
      BY <1>0, <3>1, <3>2 DEF RowInv
    <3>6. PhaseOf(c)'
      <4>1. IsDuration(client[c].key) \/ client[c].amount = 1
        BY <3>1 DEF PhaseOf, Inv, PhaseInv
      <4>2. /\ client'[c].pc = "reserve" /\ client'[c].key = client[c].key
            /\ client'[c].amount = client[c].amount
        BY <3>3, <3>4
      <4>3. client[c].key \in intents' /\ outcomes'[client[c].key] = None
        BY <3>1, <3>5
      <4> QED BY <4>1, <4>2, <4>3 DEF PhaseOf, Owns, IsDuration
    <3>7. OneOwner'
      <4>1. \A d \in Clients : d # c /\ Owns(d)' => client'[d].key \in intents /\ Owns(d)
        BY <3>4 DEF Inv, PhaseInv, PhaseOf, Owns
      <4>2. client'[c].key \notin intents
        BY <3>1, <3>3, <3>4
      <4> QED BY <3>4, <4>1, <4>2 DEF Inv, PhaseInv, OneOwner
    <3> QED BY <1>0, <3>1, <3>3, <3>6, <3>7, NoOtherMeasures, OneMoves
  <2> QED BY <2>1, <2>2
<1>5. ASSUME NEW c \in Clients, Reserve(c)
      PROVE  TypeOK' /\ PhaseInv'
  <2>1. CASE Become(c, Idle)
    BY <1>0, <1>5, <2>1, Stops DEF Reserve
  <2>2. CASE ~Become(c, Idle)
    <3>1. PICK pc \in {"reserve", "work"} : Become(c, [client[c] EXCEPT !.pc = pc])
      BY <1>5, <2>2 DEF Reserve
    <3>2. /\ reservations' = [reservations EXCEPT ![client[c].key] = Reservation(c)]
          /\ UNCHANGED <<intents, outcomes>> /\ client[c].pc = "reserve"
      BY <1>5, <2>2 DEF Reserve
    <3>3. client[c] \in Working /\ client[c].key \in Keys
      BY <1>0, <3>2, Holds
    <3>4. PICK x \in ClientState : /\ x = [client[c] EXCEPT !.pc = pc] /\ x.pc = pc
                                   /\ x.key = client[c].key /\ x.amount = client[c].amount
      <4>1. pc \in {"intend", "reserve", "work", "settle"}
        BY <3>1
      <4>2. /\ [client[c] EXCEPT !.pc = pc] \in ClientState
            /\ [client[c] EXCEPT !.pc = pc].pc = pc
            /\ [client[c] EXCEPT !.pc = pc].key = client[c].key
            /\ [client[c] EXCEPT !.pc = pc].amount = client[c].amount
        BY ONLY <3>3, <4>1, GoOn
      <4> QED BY <4>2
    <3>5. client'[c] = x /\ \A d \in Clients : d # c => client'[d] = client[d]
      BY <1>0, <3>1, <3>4, BecomeStep
    <3>6. reservations'[client[c].key] # None
      <4>1. client[c].amount \in Nat \ {0}
        BY <3>3 DEF Working
      <4>2. Reservation(c) \in ReservationRecord
        BY <4>1 DEF Reservation, ReservationRecord
      <4> QED BY <1>0, <3>2, <3>3, <4>2, NoneAssumption DEF TypeOK
    <3>7. PhaseOf(c)'
      BY <3>2, <3>4, <3>5, <3>6 DEF PhaseOf, Owns, IsDuration, Inv, PhaseInv
    <3>8. OneOwner'
      BY <3>2, <3>4, <3>5, OwnerKept DEF Owns
    <3> QED BY <1>0, <3>1, <3>2, <3>4, <3>7, <3>8, NoOtherMeasures, OneMoves
  <2> QED BY <2>1, <2>2
<1>6. ASSUME NEW c \in Clients, PersistOutcome(c)
      PROVE  TypeOK' /\ PhaseInv'
  <2>1. CASE ~client[c].current
    BY <1>0, <1>6, <2>1, Stops DEF PersistOutcome
  <2>2. CASE client[c].current
    <3>1. PICK consumed \in IF IsDuration(client[c].key) THEN Elapsed ELSE {1} :
             /\ outcomes' = [outcomes EXCEPT ![client[c].key] = consumed]
             /\ Become(c, [client[c] EXCEPT !.pc = "settle"])
      BY <1>6, <2>2 DEF PersistOutcome
    <3>2. client[c].pc = "work" /\ UNCHANGED <<intents, tables>>
      BY <1>6 DEF PersistOutcome
    <3>3. client[c] \in Working /\ client[c].key \in Keys
      BY <1>0, <3>2, Holds
    <3>4. consumed \in Nat /\ (IsDuration(client[c].key) \/ consumed = 1)
      BY LedgerAssumption
    <3>5. Measures(c, client[c].key)
      BY <3>1, <3>2, <3>4 DEF Measures
    <3>6. PICK x \in ClientState : /\ x = [client[c] EXCEPT !.pc = "settle"] /\ x.pc = "settle"
                                   /\ x.key = client[c].key /\ x.amount = client[c].amount
      BY <3>3, GoOn
    <3>7. client'[c] = x /\ \A d \in Clients : d # c => client'[d] = client[d]
      BY <1>0, <3>1, <3>6, BecomeStep
    <3>8. outcomes'[client[c].key] # None
      BY <1>0, <3>1, <3>3, <3>4, NoneAssumption DEF TypeOK
    <3>9. PhaseOf(c)'
      BY <3>2, <3>6, <3>7, <3>8 DEF PhaseOf, Owns, IsDuration, Inv, PhaseInv
    <3>10. OneOwner'
      BY <3>2, <3>6, <3>7, OwnerKept DEF Owns
    <3> QED BY <1>0, <3>1, <3>3, <3>5, <3>6, <3>9, <3>10, NoOtherMeasures, OneMoves
  <2> QED BY <2>1, <2>2
<1>7. ASSUME NEW c \in Clients, Settle(c) \/ Crash(c)
      PROVE  TypeOK' /\ PhaseInv'
  BY <1>0, <1>7, Stops DEF Settle, Crash
<1>8. ASSUME NEW c \in Clients, SweepReadsJournal(c)
      PROVE  TypeOK' /\ PhaseInv'
  <2>1. PICK seen \in SUBSET Keys : /\ seen = {k \in Keys : outcomes[k] # None /\ settlements[k] = None}
                                    /\ Become(c, [pc |-> "sweep", seen |-> seen])
    BY <1>8 DEF SweepReadsJournal
  <2>2. PICK x \in ClientState : x = [pc |-> "sweep", seen |-> seen]
    BY DEF ClientState, Sweeping
  <2>3. client'[c] = x /\ \A d \in Clients : d # c => client'[d] = client[d]
    BY <1>0, <2>1, <2>2, BecomeStep
  <2>4. UNCHANGED <<outcomes, reservations>> /\ \A k \in seen : outcomes[k] # None
    BY <1>8, <2>1 DEF SweepReadsJournal
  <2>5. PhaseOf(c)' /\ OneOwner'
    BY <2>2, <2>3, <2>4, OwnerKept DEF PhaseOf, Owns
  <2> QED BY <1>0, <2>1, <2>2, <2>4, <2>5, NoOtherMeasures, OneMoves
<1>9. ASSUME NEW c \in Clients, SweepReadsReservations(c)
      PROVE  TypeOK' /\ PhaseInv'
  <2>1. CASE Become(c, Idle)
    BY <1>0, <1>9, <2>1, Stops DEF SweepReadsReservations
  <2>2. CASE ~Become(c, Idle)
    <3>1. PICK todo \in SUBSET Keys :
             /\ todo = {k \in Keys : IsActive(k)}
             /\ Become(c, [pc |-> "apply", seen |-> client[c].seen, todo |-> todo])
      BY <1>9, <2>2 DEF SweepReadsReservations
    <3>2. client[c].seen \subseteq Keys /\ client[c].pc = "sweep" /\ UNCHANGED <<outcomes, reservations>>
      BY <1>0, <1>9, Holds DEF SweepReadsReservations
    <3>3. PICK x \in ClientState : x = [pc |-> "apply", seen |-> client[c].seen, todo |-> todo]
      BY <3>2 DEF ClientState, Sweeping
    <3>4. client'[c] = x /\ \A d \in Clients : d # c => client'[d] = client[d]
      BY <1>0, <3>1, <3>3, BecomeStep
    <3>5. /\ \A k \in client[c].seen : outcomes[k] # None
          /\ \A k \in todo : reservations[k] # None
      BY <3>1, <3>2 DEF Inv, PhaseInv, PhaseOf, IsActive
    <3>6. PhaseOf(c)' /\ OneOwner'
      BY <3>2, <3>3, <3>4, <3>5, OwnerKept DEF PhaseOf, Owns
    <3> QED BY <1>0, <3>1, <3>2, <3>3, <3>6, NoOtherMeasures, OneMoves
  <2> QED BY <2>1, <2>2
<1>10. ASSUME NEW c \in Clients, NEW k \in Keys, SweepSettles(c, k)
       PROVE  TypeOK' /\ PhaseInv'
  <2>1. CASE Become(c, Idle)
    BY <1>0, <1>10, <2>1, Stops DEF SweepSettles
  <2>2. CASE ~Become(c, Idle)
    <3>1. /\ Become(c, [client[c] EXCEPT !.todo = client[c].todo \ {k}])
          /\ UNCHANGED <<outcomes, reservations>> /\ client[c].pc = "apply"
      BY <1>10, <2>2 DEF SweepSettles
    <3>2. client[c] \in [pc : {"apply"}, seen : SUBSET Keys, todo : SUBSET Keys]
      BY <1>0, <3>1, Holds, Kinds
    <3>3. PICK x \in ClientState :
             /\ x = [client[c] EXCEPT !.todo = client[c].todo \ {k}]
             /\ x.pc = "apply" /\ x.seen = client[c].seen /\ x.todo \subseteq client[c].todo
      <4> DEFINE x == [client[c] EXCEPT !.todo = client[c].todo \ {k}]
      <4>1. /\ x \in [pc : {"apply"}, seen : SUBSET Keys, todo : SUBSET Keys]
            /\ x.pc = "apply" /\ x.seen = client[c].seen /\ x.todo = client[c].todo \ {k}
        BY <3>2
      <4>2. x \in ClientState
        BY <4>1 DEF ClientState, Sweeping
      <4> QED BY <4>1, <4>2
    <3>4. client'[c] = x /\ \A d \in Clients : d # c => client'[d] = client[d]
      BY <1>0, <3>1, <3>3, BecomeStep
    <3>5. PhaseOf(c)' /\ OneOwner'
      <4>1. /\ \A j \in client[c].seen : outcomes'[j] # None
            /\ \A j \in client[c].todo : reservations'[j] # None
        BY <3>1 DEF Inv, PhaseInv, PhaseOf
      <4>2. /\ client'[c].pc = "apply" /\ client'[c].seen = client[c].seen
            /\ client'[c].todo \subseteq client[c].todo
        BY <3>3, <3>4
      <4>3. PhaseOf(c)'
        BY <4>1, <4>2 DEF PhaseOf, Owns
      <4>4. OneOwner'
        BY <3>4, <4>2, OwnerKept DEF Owns
      <4> QED BY <4>3, <4>4
    <3> QED BY <1>0, <3>1, <3>3, <3>5, NoOtherMeasures, OneMoves
  <2> QED BY <2>1, <2>2
<1>11. ASSUME UNCHANGED <<intents, outcomes, tables>>,
              \A d \in Clients :
                /\ client'[d] \in ClientState
                /\ client'[d].pc = client[d].pc
                /\ client[d].pc \in Attempting \cup {"decide"} => client'[d].key = client[d].key
                /\ client[d].pc \in Attempting => client'[d].amount = client[d].amount
                /\ client[d].pc \in {"sweep", "apply"} => client'[d] = client[d],
              client' = [d \in Clients |-> client'[d]]
       PROVE  TypeOK' /\ PhaseInv'
  <2>1. TypeOK'
    BY <1>11, TableTypes, <1>0 DEF TypeOK, ClientState
  <2>2. ASSUME NEW d \in Clients, NEW k \in Keys, Measures(d, k)
        PROVE  FALSE
    BY <1>0, <1>11, <2>2, NoneAssumption DEF Measures, Inv, PhaseInv, PhaseOf, TypeOK
  <2>3. \A d \in Clients : PhaseOf(d)'
    BY <1>0, <1>11, <2>2, PhaseKept
  <2>4. OneOwner'
    BY <1>11 DEF OneOwner, Owns, Inv, PhaseInv, Attempting
  <2> QED BY <2>1, <2>3, <2>4 DEF PhaseInv
<1>12. CASE AdvanceRun
  <2>1. client' = [d \in Clients |-> client'[d]]
    BY <1>12 DEF AdvanceRun
  <2> QED BY <1>0, <1>11, <1>12, <2>1, AdvanceStep DEF AdvanceRun, Attempting
<1>13. CASE UNCHANGED vars
  <2>1. client' = [d \in Clients |-> client'[d]] /\ \A d \in Clients : client[d] \in ClientState
    BY <1>0, <1>13, Holds DEF vars, TypeOK
  <2> QED BY <1>11, <1>13, <2>1 DEF vars
<1> QED BY <1>1, <1>2, <1>3, <1>4, <1>5, <1>6, <1>7, <1>8, <1>9, <1>10, <1>12, <1>13
        DEF Next, ClientStep

\* The initial state satisfies the invariant, and every step keeps it.
LEMMA InvHolds ==
    Spec => []Inv
<1>1. Init => Inv
  <2> SUFFICES ASSUME Init PROVE Inv
    OBVIOUS
  <2>1. \A c \in Clients : client[c].pc = "idle" /\ ~Owns(c)
    BY DEF Init, Idle, Owns
  <2>2. TypeOK
    BY DEF Init, TypeOK
  <2>3. PhaseInv
    BY <2>1 DEF PhaseInv, OneOwner, PhaseOf
  <2>4. RowInv /\ LedgerBalanced
    BY DEF Init, RowInv, LedgerBalanced
  <2> QED BY <2>2, <2>3, <2>4 DEF Inv
<1>2. Inv /\ [Next]_vars => Inv'
  BY WriteStep, PhaseStep, RowStep DEF Inv
<1> QED BY <1>1, <1>2, PTL DEF Spec

(* TypeOK: the tables and the coordinators hold what the store's columns and *)
(* the coordinator's locals can hold.                                        *)
THEOREM TypeCorrect == Spec => []TypeOK
<1>1. Inv => TypeOK
  BY DEF Inv
<1> QED BY <1>1, InvHolds, PTL

(* LedgerBalanced: whatever coordinators stop, repeat a call or sweep        *)
(* concurrently, settle_reservation leaves a usage row exactly for an        *)
(* attempt settled with the consumption that its OUTCOME records.            *)
THEOREM Balanced == Spec => []LedgerBalanced
<1>1. Inv => LedgerBalanced
  BY DEF Inv
<1> QED BY <1>1, InvHolds, PTL

(* LedgerAppendOnly: no retry, sweep or late settlement changes a row of     *)
(* reservations, settlements or usage that was committed.                    *)
THEOREM AppendOnly == Spec => LedgerAppendOnly
<1> DEFINE Kept == \A k \in Keys :
                     /\ reservations[k] # None => reservations'[k] = reservations[k]
                     /\ settlements[k] # None => settlements'[k] = settlements[k]
                     /\ usage[k] # None => usage'[k] = usage[k]
<1>1. Inv /\ [Next]_vars => [Kept]_vars
  BY WriteStep, RowsStay
<1> QED BY <1>1, InvHolds, PTL DEF Spec, LedgerAppendOnly

-----------------------------------------------------------------------------
(* What a write does to the sums.                                           *)

\* What a metric comes to
Figures(m) == <<Used(m), Active(m), Doubtful(m), Overage(m), Unresolved(m)>>

\* Rows of other attempts do not count for a metric.
LEMMA SameFigures ==
    ASSUME NEW m,
           \A k \in Of(m) : /\ reservations'[k] = reservations[k]
                            /\ settlements'[k] = settlements[k]
                            /\ usage'[k] = usage[k]
    PROVE  Figures(m)' = Figures(m)
<1>1. IsFiniteSet(Of(m)) /\ Of(m) \subseteq Keys
  BY OfFinite
<1>2. Used(m)' = Used(m)
  BY <1>1, SumSame DEF Used
<1>3. Active(m)' = Active(m)
  BY <1>1, SumSame DEF Active, IsActive
<1>4. Doubtful(m)' = Doubtful(m)
  BY <1>1, SumSame DEF Doubtful, InDoubt
<1>5. Overage(m)' = Overage(m) /\ Unresolved(m)' = Unresolved(m)
  BY DEF Overage, Unresolved
<1> QED BY <1>2, <1>3, <1>4, <1>5 DEF Figures

\* A write for one attempt changes the sums of its metric by what its rows count.
LEMMA ChangedSums ==
    ASSUME TypeOK, TypeOK', NEW k \in Keys,
           \A j \in Keys \ {k} : /\ reservations'[j] = reservations[j]
                                 /\ settlements'[j] = settlements[j]
                                 /\ usage'[j] = usage[j],
           NEW m, m = MetricOf[k],
           NEW u0, u0 = IF usage[k] = None THEN 0 ELSE usage[k].value,
           NEW u1, u1 = IF usage'[k] = None THEN 0 ELSE usage'[k].value,
           NEW a0, a0 = IF IsActive(k) THEN reservations[k].amount ELSE 0,
           NEW a1, a1 = IF IsActive(k)' THEN reservations'[k].amount ELSE 0,
           NEW d0, d0 = IF InDoubt(k) THEN reservations[k].amount ELSE 0,
           NEW d1, d1 = IF InDoubt(k)' THEN reservations'[k].amount ELSE 0
    PROVE  /\ Used(m)' = Used(m) - u0 + u1
           /\ Active(m)' = Active(m) - a0 + a1
           /\ Doubtful(m)' = Doubtful(m) - d0 + d1
<1>1. IsFiniteSet(Of(m)) /\ Of(m) \subseteq Keys /\ k \in Of(m)
  BY OfFinite DEF Of
<1>2. /\ \A j \in Keys : reservations[j] # None => reservations[j].amount \in Nat
      /\ \A j \in Keys : reservations'[j] # None => reservations'[j].amount \in Nat
      /\ \A j \in Keys : usage[j] # None => usage[j].value \in Nat
      /\ \A j \in Keys : usage'[j] # None => usage'[j].value \in Nat
  BY DEF TypeOK, ReservationRecord, UsageRecord
<1>3. Used(m)' = Used(m) - u0 + u1
  <2>1. PICK f : f = [j \in Keys |-> IF usage[j] = None THEN 0 ELSE usage[j].value]
    OBVIOUS
  <2>2. PICK g : g = [j \in Keys |-> IF usage'[j] = None THEN 0 ELSE usage'[j].value]
    OBVIOUS
  <2>3. /\ \A x \in Of(m) : f[x] \in Nat /\ g[x] \in Nat
        /\ \A x \in Of(m) \ {k} : f[x] = g[x]
        /\ f[k] = u0 /\ g[k] = u1
    BY <1>1, <1>2, <2>1, <2>2
  <2>4. SumOver(g, Of(m)) = SumOver(f, Of(m)) - f[k] + g[k]
    BY <1>1, <2>3, SumUpdate
  <2>5. Used(m) = SumOver(f, Of(m)) /\ Used(m)' = SumOver(g, Of(m))
    BY <2>1, <2>2 DEF Used, Of
  <2> QED BY <2>3, <2>4, <2>5
<1>4. Active(m)' = Active(m) - a0 + a1
  <2>1. PICK f : f = [j \in Keys |-> IF IsActive(j) THEN reservations[j].amount ELSE 0]
    OBVIOUS
  <2>2. PICK g : g = [j \in Keys |-> IF IsActive(j)' THEN reservations'[j].amount ELSE 0]
    OBVIOUS
  <2>3. /\ \A x \in Of(m) : f[x] \in Nat /\ g[x] \in Nat
        /\ \A x \in Of(m) \ {k} : f[x] = g[x]
        /\ f[k] = a0 /\ g[k] = a1
    BY <1>1, <1>2, <2>1, <2>2 DEF IsActive
  <2>4. SumOver(g, Of(m)) = SumOver(f, Of(m)) - f[k] + g[k]
    BY <1>1, <2>3, SumUpdate
  <2>5. Active(m) = SumOver(f, Of(m)) /\ Active(m)' = SumOver(g, Of(m))
    BY <2>1, <2>2 DEF Active, Of
  <2> QED BY <2>3, <2>4, <2>5
<1>5. Doubtful(m)' = Doubtful(m) - d0 + d1
  <2>1. PICK f : f = [j \in Keys |-> IF InDoubt(j) THEN reservations[j].amount ELSE 0]
    OBVIOUS
  <2>2. PICK g : g = [j \in Keys |-> IF InDoubt(j)' THEN reservations'[j].amount ELSE 0]
    OBVIOUS
  <2>3. /\ \A x \in Of(m) : f[x] \in Nat /\ g[x] \in Nat
        /\ \A x \in Of(m) \ {k} : f[x] = g[x]
        /\ f[k] = d0 /\ g[k] = d1
    BY <1>1, <1>2, <2>1, <2>2 DEF InDoubt
  <2>4. SumOver(g, Of(m)) = SumOver(f, Of(m)) - f[k] + g[k]
    BY <1>1, <2>3, SumUpdate
  <2>5. Doubtful(m) = SumOver(f, Of(m)) /\ Doubtful(m)' = SumOver(g, Of(m))
    BY <2>1, <2>2 DEF Doubtful, Of
  <2> QED BY <2>3, <2>4, <2>5
<1> QED BY <1>3, <1>4, <1>5

\* A reservation is held, and may turn out to be consumed.
LEMMA ReserveSums ==
    ASSUME Inv, Inv', NEW c \in Clients, NEW k \in Keys, Reserves(c, k), NEW m, m = MetricOf[k]
    PROVE  /\ Used(m)' = Used(m)
           /\ Active(m)' = Active(m) + client[c].amount
           /\ Doubtful(m)' = Doubtful(m) + client[c].amount
           /\ Overage(m)' = Overage(m) /\ Unresolved(m)' = Unresolved(m)
           /\ client[c].amount \in Nat \ {0}
<1>1. TypeOK /\ TypeOK' /\ RowInv
  BY DEF Inv
<1>2. settlements[k] = None /\ reservations[k] = None
  BY <1>1 DEF RowInv, Reserves
<1>3. client[c].amount \in Nat \ {0}
  BY <1>1, Holds, Kinds DEF Reserves
<1>4. /\ reservations'[k] = Reservation(c) /\ Reservation(c) # None
      /\ Reservation(c).amount = client[c].amount
  BY <1>1, <1>3, NoneAssumption DEF Reserves, TypeOK, Reservation, ReservationRecord
<1>5. /\ \A j \in Keys \ {k} : reservations'[j] = reservations[j]
      /\ settlements' = settlements /\ usage' = usage
  BY <1>1 DEF Reserves, TypeOK
<1>6. /\ ~IsActive(k) /\ ~InDoubt(k) /\ IsActive(k)' /\ InDoubt(k)'
  BY <1>2, <1>4, <1>5 DEF IsActive, InDoubt
<1>7. PICK u : u = IF usage[k] = None THEN 0 ELSE usage[k].value
  OBVIOUS
<1>8. u \in Nat
  BY <1>1, <1>7 DEF TypeOK, UsageRecord
<1>9. /\ Used(m)' = Used(m) - u + u
      /\ Active(m)' = Active(m) - 0 + client[c].amount
      /\ Doubtful(m)' = Doubtful(m) - 0 + client[c].amount
  BY <1>1, <1>4, <1>5, <1>6, <1>7, ChangedSums
<1>10. Overage(m)' = Overage(m) /\ Unresolved(m)' = Unresolved(m)
  BY <1>5 DEF Overage, Unresolved
<1> QED BY <1>1, <1>3, <1>8, <1>9, <1>10, SumsNat

\* A settlement releases what was reserved and books what was consumed.
LEMMA SettleSums ==
    ASSUME Inv, Inv', NEW k \in Keys, SettlesKnown(k), NEW m, m = MetricOf[k]
    PROVE  /\ Used(m)' = Used(m) + outcomes[k]
           /\ Active(m)' = Active(m) - reservations[k].amount
           /\ Doubtful(m)' = Doubtful(m) - reservations[k].amount
           /\ (Overage(m)' <=> Overage(m) \/ outcomes[k] > reservations[k].amount)
           /\ Unresolved(m)' = Unresolved(m)
           /\ outcomes[k] \in Nat /\ reservations[k].amount \in Nat \ {0}
<1>1. TypeOK /\ TypeOK' /\ RowInv /\ LedgerBalanced
  BY DEF Inv
<1>2. settlements[k] = None /\ reservations[k] # None /\ outcomes[k] \in Nat
  BY <1>1 DEF RowInv, SettlesKnown, TypeOK
<1>3. usage[k] = None
  BY <1>1, <1>2 DEF LedgerBalanced
<1>4. reservations[k].amount \in Nat \ {0}
  BY <1>1, <1>2 DEF TypeOK, ReservationRecord
<1>5. /\ settlements'[k] = outcomes[k] /\ usage'[k] = UsageRow(k, outcomes[k])
      /\ reservations' = reservations
      /\ \A j \in Keys \ {k} : settlements'[j] = settlements[j] /\ usage'[j] = usage[j]
  BY <1>1 DEF SettlesKnown, TypeOK
<1>6. /\ usage'[k] # None /\ usage'[k].value = outcomes[k]
      /\ usage'[k].overage = (outcomes[k] > reservations[k].amount)
  BY <1>2, <1>5, RowOfUsage
<1>7. /\ IsActive(k) /\ InDoubt(k) /\ ~IsActive(k)' /\ ~InDoubt(k)'
  BY <1>2, <1>5, NoneAssumption DEF IsActive, InDoubt
<1>8. /\ Used(m)' = Used(m) - 0 + outcomes[k]
      /\ Active(m)' = Active(m) - reservations[k].amount + 0
      /\ Doubtful(m)' = Doubtful(m) - reservations[k].amount + 0
  BY <1>1, <1>3, <1>5, <1>6, <1>7, ChangedSums
<1>9. k \in Of(m) /\ Of(m) \subseteq Keys
  BY DEF Of
<1>10. Overage(m)' <=> Overage(m) \/ outcomes[k] > reservations[k].amount
  BY <1>3, <1>5, <1>6, <1>9 DEF Overage
<1>11. Unresolved(m)' = Unresolved(m)
  BY <1>2, <1>5, <1>9, NoneAssumption DEF Unresolved
<1> QED BY <1>1, <1>2, <1>4, <1>8, <1>10, <1>11, SumsNat

\* A reservation that is written off is no longer held, and stays in doubt.
LEMMA WriteOffSums ==
    ASSUME Inv, Inv', NEW k \in Keys, WritesOff(k), NEW m, m = MetricOf[k]
    PROVE  /\ Used(m)' = Used(m)
           /\ Active(m)' = Active(m) - reservations[k].amount
           /\ Doubtful(m)' = Doubtful(m)
           /\ Overage(m)' = Overage(m) /\ Unresolved(m)'
           /\ reservations[k].amount \in Nat \ {0}
<1>1. TypeOK /\ TypeOK' /\ RowInv /\ LedgerBalanced
  BY DEF Inv
<1>2. settlements[k] = None /\ reservations[k] # None /\ usage[k] = None
  BY <1>1 DEF LedgerBalanced, WritesOff
<1>3. reservations[k].amount \in Nat \ {0}
  BY <1>1, <1>2 DEF TypeOK, ReservationRecord
<1>4. /\ settlements'[k] = UNRESOLVED /\ usage'[k] = None
      /\ reservations' = reservations
      /\ \A j \in Keys \ {k} : settlements'[j] = settlements[j] /\ usage'[j] = usage[j]
  BY <1>1 DEF WritesOff, TypeOK
<1>5. /\ IsActive(k) /\ InDoubt(k) /\ ~IsActive(k)' /\ InDoubt(k)'
  BY <1>2, <1>4, NoneAssumption DEF IsActive, InDoubt
<1>6. /\ Used(m)' = Used(m) - 0 + 0
      /\ Active(m)' = Active(m) - reservations[k].amount + 0
      /\ Doubtful(m)' = Doubtful(m) - reservations[k].amount + reservations[k].amount
  BY <1>1, <1>2, <1>4, <1>5, ChangedSums
<1>7. k \in Of(m) /\ Of(m) \subseteq Keys
  BY DEF Of
<1>8. Overage(m)' = Overage(m) /\ Unresolved(m)'
  BY <1>2, <1>4, <1>7 DEF Overage, Unresolved
<1> QED BY <1>1, <1>3, <1>6, <1>8, SumsNat

\* While nothing was written off, only active reservations are in doubt.
LEMMA DoubtIsActive ==
    ASSUME NEW m, ~Unresolved(m)
    PROVE  Doubtful(m) = Active(m)
<1>1. IsFiniteSet(Of(m)) /\ Of(m) \subseteq Keys
  BY OfFinite
<1>2. \A k \in Of(m) : InDoubt(k) = IsActive(k)
  BY DEF Unresolved, InDoubt, IsActive
<1> QED BY <1>1, <1>2, SumSame DEF Doubtful, Active

\* A write for an attempt leaves the other metrics alone.
LEMMA OtherMetrics ==
    ASSUME Inv, NEW k \in Keys, NEW m, m # MetricOf[k],
           \/ Intends(k) \/ SettlesKnown(k) \/ WritesOff(k)
           \/ \E c \in Clients : Reserves(c, k) \/ Measures(c, k)
    PROVE  Figures(m)' = Figures(m)
<1>1. TypeOK
  BY DEF Inv
<1>2. \A j \in Of(m) : j \in Keys /\ j # k
  BY DEF Of
<1>3. \A j \in Of(m) : /\ reservations'[j] = reservations[j]
                       /\ settlements'[j] = settlements[j]
                       /\ usage'[j] = usage[j]
  <2>1. CASE Intends(k) \/ \E c \in Clients : Measures(c, k)
    BY <2>1 DEF tables, Intends, Measures
  <2>2. CASE SettlesKnown(k) \/ WritesOff(k)
    BY <1>1, <1>2, <2>2 DEF TypeOK, SettlesKnown, WritesOff
  <2>3. CASE \E c \in Clients : Reserves(c, k)
    BY <1>1, <1>2, <2>3 DEF TypeOK, Reserves
  <2> QED BY <2>1, <2>2, <2>3
<1> QED BY <1>3, SameFigures

\* A step changes the figures of one metric at most.
LEMMA WhoseFigures ==
    ASSUME Inv, Writes
    PROVE  \/ \A m \in Metrics : Figures(m)' = Figures(m)
           \/ \E k \in Keys : /\ SettlesKnown(k) \/ WritesOff(k) \/ \E c \in Clients : Reserves(c, k)
                              /\ \A m \in Metrics \ {MetricOf[k]} : Figures(m)' = Figures(m)
<1>1. CASE \/ UNCHANGED <<intents, outcomes, tables>>
           \/ \E k \in Keys : Intends(k)
           \/ \E c \in Clients, k \in Keys : Measures(c, k)
  <2>1. UNCHANGED tables
    BY <1>1 DEF Intends, Measures
  <2> QED BY <2>1, SameFigures DEF tables
<1>2. CASE \E k \in Keys : SettlesKnown(k) \/ WritesOff(k) \/ \E c \in Clients : Reserves(c, k)
  BY <1>2, OtherMetrics
<1> QED BY <1>1, <1>2 DEF Writes

\* No step commits more of a metric than its limit.
LEMMA CommitmentStep ==
    ASSUME Inv, Inv', Writes, NoOverCommitment
    PROVE  NoOverCommitment'
<1> SUFFICES ASSUME NEW m \in Metrics
             PROVE  (Used(m) + Doubtful(m) <= Limit[m] \/ Overage(m))'
  BY DEF NoOverCommitment
<1>1. /\ Used(m) + Doubtful(m) <= Limit[m] \/ Overage(m)
      /\ Used(m) \in Nat /\ Active(m) \in Nat /\ Doubtful(m) \in Nat /\ Limit[m] \in Nat
  BY SumsNat, LedgerAssumption DEF NoOverCommitment, Inv
<1>2. CASE Figures(m)' = Figures(m)
  BY <1>1, <1>2 DEF Figures
<1>3. ASSUME NEW k \in Keys, m = MetricOf[k], NEW c \in Clients, Reserves(c, k)
      PROVE  (Used(m) + Doubtful(m) <= Limit[m] \/ Overage(m))'
  <2>1. ~Unresolved(m) /\ client[c].amount <= Limit[m] - Used(m) - Active(m)
    <3>1. reservations[k] # Reservation(c)
      <4>1. client[c].amount \in Nat \ {0}
        BY <1>3, ReserveSums
      <4> QED BY <1>3, <4>1, NoneAssumption DEF Reserves, Reservation, ReservationRecord
    <3> QED BY <1>3, <3>1 DEF Reserves, MayReserve
  <2>2. Doubtful(m) = Active(m)
    BY <2>1, DoubtIsActive
  <2> QED BY <1>1, <1>3, <2>1, <2>2, ReserveSums
<1>4. ASSUME NEW k \in Keys, m = MetricOf[k], SettlesKnown(k)
      PROVE  (Used(m) + Doubtful(m) <= Limit[m] \/ Overage(m))'
  BY <1>1, <1>4, SettleSums
<1>5. ASSUME NEW k \in Keys, m = MetricOf[k], WritesOff(k)
      PROVE  (Used(m) + Doubtful(m) <= Limit[m] \/ Overage(m))'
  BY <1>1, <1>5, WriteOffSums
<1> QED BY <1>2, <1>3, <1>4, <1>5, WhoseFigures

\* Nothing is used, held or in doubt at first.
LEMMA FiguresInit ==
    ASSUME Init, NEW m
    PROVE  Used(m) = 0 /\ Active(m) = 0 /\ Doubtful(m) = 0 /\ ~Overage(m) /\ ~Unresolved(m)
<1>1. IsFiniteSet(Of(m)) /\ Of(m) \subseteq Keys
  BY OfFinite
<1>2. Used(m) = 0
  BY <1>1, SumZero DEF Init, Used
<1>3. Active(m) = 0
  BY <1>1, SumZero DEF Init, Active, IsActive
<1>4. Doubtful(m) = 0
  BY <1>1, SumZero DEF Init, Doubtful, InDoubt
<1> QED BY <1>1, <1>2, <1>3, <1>4, NoneAssumption DEF Init, Overage, Unresolved

(* NoOverCommitment: what a metric has used and everything reserved of it    *)
(* without a known consumption stay within its limit, unless a validation    *)
(* ran longer than it reserved (reserve_if_allowed and settle_reservation).  *)
THEOREM WithinLimits == Spec => []NoOverCommitment
<1>1. Init => NoOverCommitment
  BY FiguresInit, LedgerAssumption DEF NoOverCommitment
<1>2. Inv /\ Inv' /\ NoOverCommitment /\ [Next]_vars => NoOverCommitment'
  BY WriteStep, CommitmentStep
<1> QED BY <1>1, <1>2, InvHolds, PTL DEF Spec

-----------------------------------------------------------------------------
(* The tables implement the abstract account.                               *)

\* A metric counted in attempts never overruns what it reserved.
LEMMA AttemptsNeverOverrun ==
    ASSUME Inv, NEW m, m # DurationMetric
    PROVE  ~Overage(m)
<1> SUFFICES ASSUME NEW k \in Of(m), usage[k] # None, usage[k].overage PROVE FALSE
  BY DEF Overage
<1>1. k \in Keys /\ ~IsDuration(k)
  BY DEF Of, IsDuration
<1>2. outcomes[k] = usage[k].value /\ usage[k].value \in Nat
  BY <1>1 DEF Inv, LedgerBalanced, TypeOK, UsageRecord
<1>3. outcomes[k] = 1 /\ reservations[k].amount = 1
  BY <1>1, <1>2, NoneAssumption DEF Inv, RowInv
<1>4. usage[k].value > reservations[k].amount
  BY <1>1 DEF Inv, RowInv
<1> QED BY <1>2, <1>3, <1>4

\* A reservation holds capacity of an open metric, within its limit.
LEMMA ReserveHolds ==
    ASSUME Inv, Inv', NEW c \in Clients, NEW k \in Keys, Reserves(c, k),
           \A m \in Metrics \ {MetricOf[k]} : Figures(m)' = Figures(m)
    PROVE  Account!Hold(MetricOf[k])
<1>1. PICK m \in Metrics : m = MetricOf[k]
  BY LedgerAssumption
<1>2. /\ Used(m)' = Used(m) /\ Active(m)' = Active(m) + client[c].amount
      /\ Overage(m)' = Overage(m) /\ Unresolved(m)' = Unresolved(m)
      /\ client[c].amount \in Nat \ {0}
  BY <1>1, ReserveSums
<1>3. reservations[k] # Reservation(c)
  BY <1>2, NoneAssumption DEF Reserves, Reservation, ReservationRecord
<1>4. /\ ~Unresolved(m) /\ (m = DurationMetric => ~Overage(m))
      /\ client[c].amount <= Limit[m] - Used(m) - Active(m)
  BY <1>1, <1>3 DEF Reserves, MayReserve
<1>5. ~Overage(m)
  BY <1>4, AttemptsNeverOverrun
<1>6. Used(m) \in Nat /\ Active(m) \in Nat /\ Limit[m] \in Nat
  BY SumsNat, LedgerAssumption DEF Inv
<1>7. \A n \in Metrics : n # m => /\ Used(n)' = Used(n) /\ Active(n)' = Active(n)
                                  /\ Overage(n)' = Overage(n) /\ Unresolved(n)' = Unresolved(n)
  BY <1>1 DEF Figures
<1>8. m \notin {n \in Metrics : Unresolved(n) \/ Overage(n)}
  BY <1>4, <1>5
<1>9. [n \in Metrics |-> Active(n)'] = [[n \in Metrics |-> Active(n)] EXCEPT ![m] = Active(m)']
  BY <1>7
<1>10. /\ [n \in Metrics |-> Used(n)'] = [n \in Metrics |-> Used(n)]
       /\ {n \in Metrics : Unresolved(n)' \/ Overage(n)'} = {n \in Metrics : Unresolved(n) \/ Overage(n)}
  BY <1>2, <1>7
<1>11. Active(m)' > Active(m) /\ Active(m)' + Used(m) <= Limit[m]
  BY <1>2, <1>4, <1>6
<1> QED BY <1>1, <1>8, <1>9, <1>10, <1>11 DEF Account!Hold

\* A settlement spends what it releases; more than that closes the metric.
LEMMA SettleSpends ==
    ASSUME Inv, Inv', NEW k \in Keys, SettlesKnown(k),
           \A m \in Metrics \ {MetricOf[k]} : Figures(m)' = Figures(m)
    PROVE  Account!Spend(MetricOf[k])
<1>1. PICK m \in Metrics : m = MetricOf[k]
  BY LedgerAssumption
<1>2. /\ Used(m)' = Used(m) + outcomes[k]
      /\ Active(m)' = Active(m) - reservations[k].amount
      /\ (Overage(m)' <=> Overage(m) \/ outcomes[k] > reservations[k].amount)
      /\ Unresolved(m)' = Unresolved(m)
      /\ outcomes[k] \in Nat /\ reservations[k].amount \in Nat \ {0}
  BY <1>1, SettleSums
<1>3. Used(m) \in Nat /\ Active(m) \in Nat
  BY SumsNat DEF Inv
<1>4. \A n \in Metrics : n # m => /\ Used(n)' = Used(n) /\ Active(n)' = Active(n)
                                  /\ Overage(n)' = Overage(n) /\ Unresolved(n)' = Unresolved(n)
  BY <1>1 DEF Figures
<1>5. Active(m) - Active(m)' = reservations[k].amount /\ Used(m)' - Used(m) = outcomes[k]
  BY <1>2, <1>3
<1>6. [n \in Metrics |-> Active(n)'] = [[n \in Metrics |-> Active(n)] EXCEPT ![m] = Active(m)']
  BY <1>4
<1>7. [n \in Metrics |-> Used(n)'] = [[n \in Metrics |-> Used(n)] EXCEPT ![m] = Used(m)']
  BY <1>4
<1>8. {n \in Metrics : Unresolved(n)' \/ Overage(n)'} =
        IF outcomes[k] > reservations[k].amount
        THEN {n \in Metrics : Unresolved(n) \/ Overage(n)} \cup {m}
        ELSE {n \in Metrics : Unresolved(n) \/ Overage(n)}
  BY <1>2, <1>4
<1>9. reservations[k].amount > 0 /\ outcomes[k] >= 0
  BY <1>2
<1> QED BY <1>1, <1>5, <1>6, <1>7, <1>8, <1>9 DEF Account!Spend

\* A reservation that is written off closes the metric.
LEMMA WriteOffAbandons ==
    ASSUME Inv, Inv', NEW k \in Keys, WritesOff(k),
           \A m \in Metrics \ {MetricOf[k]} : Figures(m)' = Figures(m)
    PROVE  Account!Abandon(MetricOf[k])
<1>1. PICK m \in Metrics : m = MetricOf[k]
  BY LedgerAssumption
<1>2. /\ Used(m)' = Used(m) /\ Active(m)' = Active(m) - reservations[k].amount
      /\ Overage(m)' = Overage(m) /\ Unresolved(m)'
      /\ reservations[k].amount \in Nat \ {0}
  BY <1>1, WriteOffSums
<1>3. Used(m) \in Nat /\ Active(m) \in Nat
  BY SumsNat DEF Inv
<1>4. \A n \in Metrics : n # m => /\ Used(n)' = Used(n) /\ Active(n)' = Active(n)
                                  /\ Overage(n)' = Overage(n) /\ Unresolved(n)' = Unresolved(n)
  BY <1>1 DEF Figures
<1>5. [n \in Metrics |-> Active(n)'] = [[n \in Metrics |-> Active(n)] EXCEPT ![m] = Active(m)']
  BY <1>4
<1>6. /\ [n \in Metrics |-> Used(n)'] = [n \in Metrics |-> Used(n)]
      /\ {n \in Metrics : Unresolved(n)' \/ Overage(n)'}
           = {n \in Metrics : Unresolved(n) \/ Overage(n)} \cup {m}
  BY <1>2, <1>4
<1>7. Active(m)' < Active(m)
  BY <1>2, <1>3
<1> QED BY <1>1, <1>5, <1>6, <1>7 DEF Account!Abandon

(* ImplementsAccount: the budget tables, whatever coordinators stop, retry   *)
(* and sweep concurrently, behave as the abstract account: a reservation     *)
(* holds capacity of an open metric within its limit, a settlement spends    *)
(* what it releases, and overrunning or writing off closes the metric.       *)
THEOREM AccountImplemented == Spec => ImplementsAccount
<1>1. Init => Account!Init
  <2> SUFFICES ASSUME Init PROVE Account!Init
    OBVIOUS
  <2>1. \A m \in Metrics : Used(m) = 0 /\ Active(m) = 0 /\ ~Overage(m) /\ ~Unresolved(m)
    BY FiguresInit
  <2> QED BY <2>1 DEF Account!Init
<1>2. Inv /\ Inv' /\ [Next]_vars => [Account!Next]_(Account!vars)
  <2> SUFFICES ASSUME Inv, Inv', [Next]_vars PROVE [Account!Next]_(Account!vars)
    OBVIOUS
  <2>1. CASE \A m \in Metrics : Figures(m)' = Figures(m)
    <3>1. \A m \in Metrics : /\ Used(m)' = Used(m) /\ Active(m)' = Active(m)
                             /\ Overage(m)' = Overage(m) /\ Unresolved(m)' = Unresolved(m)
      BY <2>1 DEF Figures
    <3>2. UNCHANGED Account!vars
      BY <3>1 DEF Account!vars
    <3> QED BY <3>2
  <2>2. ASSUME NEW k \in Keys, SettlesKnown(k) \/ WritesOff(k) \/ \E c \in Clients : Reserves(c, k),
               \A m \in Metrics \ {MetricOf[k]} : Figures(m)' = Figures(m)
        PROVE  Account!Next
    <3>1. MetricOf[k] \in Metrics
      BY LedgerAssumption
    <3>2. Account!Hold(MetricOf[k]) \/ Account!Spend(MetricOf[k]) \/ Account!Abandon(MetricOf[k])
      BY <2>2, ReserveHolds, SettleSpends, WriteOffAbandons
    <3> QED BY <3>1, <3>2 DEF Account!Next
  <2>3. Writes
    BY WriteStep
  <2> QED BY <2>1, <2>2, <2>3, WhoseFigures
<1> QED BY <1>1, <1>2, InvHolds, PTL DEF Spec, ImplementsAccount, Account!Spec
=============================================================================
