------------------------- MODULE CircuitBreakerProofs -------------------------
(***************************************************************************)
(* Theorems about the sync breaker, for every number of threads and every  *)
(* configuration.                                                          *)
(***************************************************************************)
EXTENDS CircuitBreaker, WindowLemmas

-----------------------------------------------------------------------------
(* What the steps of the state machine do to its types.                    *)

LEMMA MoveToType ==
    ASSUME MachineType, NEW s \in States, MoveTo(s)
    PROVE  MachineType'
BY DEF MachineType, MoveTo, EpochStep

LEMMA EventType ==
    ASSUME NEW name \in EventNames, NEW number \in Nat
    PROVE  Event(name, number) \in Seq(Events)
BY DEF Event, Events

LEMMA RejectType ==
    ASSUME CircuitType, Reject, UNCHANGED now
    PROVE  CircuitType' /\ RejectEvents \in Seq(Events)
<1>1. RejectionType'
  BY DEF CircuitType, RejectionType, Reject
<1>2. MachineType' /\ CounterType'
  BY DEF CircuitType, MachineType, CounterType, Reject, machine, counters
<1>3. opened_at' \in Nat /\ probe_in_flight' \in BOOLEAN
  BY DEF CircuitType, Reject
<1>4. RejectEvents \in Seq(Events)
  BY EventType DEF CircuitType, RejectionType, RejectEvents, EventNames
<1> QED
  BY <1>1, <1>2, <1>3, <1>4 DEF CircuitType

LEMMA HalfOpenType ==
    ASSUME CircuitType, HalfOpen, UNCHANGED now
    PROVE  CircuitType' /\ HalfOpenEvents \in Seq(Events)
<1>1. MachineType'
  BY MoveToType DEF CircuitType, HalfOpen, States
<1>2. CounterType' /\ RejectionType'
  BY DEF CircuitType, CounterType, RejectionType, HalfOpen, counters, rejections
<1>3. HalfOpenEvents \in Seq(Events)
  BY EventType DEF HalfOpenEvents, EventNames
<1> QED
  BY <1>1, <1>2, <1>3 DEF CircuitType, HalfOpen

LEMMA AdmitType ==
    ASSUME CircuitType, Admit, UNCHANGED now
    PROVE  CircuitType' /\ Ticket \in Nat
<1>1. MachineType' /\ CounterType' /\ RejectionType'
  BY DEF CircuitType, MachineType, CounterType, RejectionType, Admit,
         machine, counters, rejections
<1>2. probe_in_flight' \in BOOLEAN
  BY DEF CircuitType, Admit
<1>3. Ticket \in Nat
  BY DEF CircuitType, MachineType, Ticket, Probe
<1> QED
  BY <1>1, <1>2, <1>3 DEF CircuitType, Admit

LEMMA EnterOpenType ==
    ASSUME CircuitType, EnterOpen
    PROVE  MachineType' /\ CounterType' /\ RejectionType' /\ opened_at' \in Nat
<1>1. MachineType'
  BY MoveToType DEF CircuitType, EnterOpen, States
<1>2. CounterType'
  BY CircuitAssumption DEF EnterOpen, CounterType
<1>3. RejectionType'
  BY CircuitAssumption DEF CircuitType, EnterOpen, RejectionType, LongAgo, rejections
<1> QED
  BY <1>1, <1>2, <1>3 DEF CircuitType, EnterOpen

LEMMA RecordType ==
    ASSUME CircuitType, NEW tk, NEW outcome \in Outcomes,
           Record(tk, outcome), UNCHANGED now
    PROVE  CircuitType' /\ RecordEvents(tk, outcome) \in Seq(Events)
<1>1. CircuitType'
  <2>1. ASSUME CountsClosed(tk, outcome), RecordClosed(outcome) PROVE CircuitType'
    <3>1. probe_in_flight' \in BOOLEAN
      BY <2>1 DEF CircuitType, RecordClosed
    <3>2. CASE Trips(outcome)
      BY <2>1, <3>1, <3>2, EnterOpenType DEF CircuitType, RecordClosed
    <3>3. CASE ~Trips(outcome)
      <4>1. MachineType' /\ RejectionType' /\ opened_at' \in Nat
        BY <2>1, <3>3 DEF CircuitType, RecordClosed, MachineType, RejectionType,
                          machine, rejections
      <4>2. CounterType'
        BY <2>1, <3>3, CircuitAssumption
        DEF CircuitType, RecordClosed, CountsClosed, CounterType, Trips, Outcomes
      <4> QED
        BY <3>1, <4>1, <4>2 DEF CircuitType
    <3> QED
      BY <3>2, <3>3
  <2>2. ASSUME RecordProbe(outcome) PROVE CircuitType'
    <3>1. probe_in_flight' \in BOOLEAN
      BY <2>2 DEF RecordProbe
    <3>2. CASE RecordProbeSuccess
      <4>1. CASE LastSuccessNeeded
        <5>1. MachineType'
          BY <3>2, <4>1, MoveToType DEF CircuitType, RecordProbeSuccess, Close, States
        <5>2. CounterType'
          BY <3>2, <4>1, CircuitAssumption DEF RecordProbeSuccess, Close, CounterType
        <5>3. RejectionType' /\ opened_at' \in Nat
          BY <3>2, <4>1 DEF CircuitType, RecordProbeSuccess, Close, RejectionType, rejections
        <5> QED
          BY <3>1, <5>1, <5>2, <5>3 DEF CircuitType
      <4>2. CASE ~LastSuccessNeeded
        <5>1. CounterType'
          BY <3>2, <4>2, CircuitAssumption
          DEF CircuitType, RecordProbeSuccess, CounterType, LastSuccessNeeded
        <5>2. MachineType' /\ RejectionType' /\ opened_at' \in Nat
          BY <3>2, <4>2 DEF CircuitType, RecordProbeSuccess, MachineType, RejectionType,
                            machine, rejections
        <5> QED
          BY <3>1, <5>1, <5>2 DEF CircuitType
      <4> QED
        BY <4>1, <4>2
    <3>3. CASE EnterOpen
      BY <3>1, <3>3, EnterOpenType DEF CircuitType
    <3>4. CASE UNCHANGED <<machine, counters, opened_at, rejections, window>>
      <4>1. MachineType' /\ CounterType' /\ RejectionType' /\ opened_at' \in Nat
        BY <3>4 DEF CircuitType, MachineType, CounterType, RejectionType,
                    machine, counters, rejections
      <4> QED
        BY <3>1, <4>1 DEF CircuitType
    <3> QED
      BY <2>2, <3>2, <3>3, <3>4 DEF RecordProbe
  <2>3. ASSUME UNCHANGED circuit PROVE CircuitType'
    BY <2>3 DEF CircuitType, MachineType, CounterType, RejectionType,
                circuit, machine, counters, rejections
  <2> QED
    BY <2>1, <2>2, <2>3 DEF Record
<1>2. RecordEvents(tk, outcome) \in Seq(Events)
  <2>1. consecutive_failures + 1 \in Nat /\ episode_rejections \in Nat
    BY CircuitAssumption DEF CircuitType, CounterType, RejectionType
  <2>2. Event("opened", IF RateMode THEN 0 ELSE consecutive_failures + 1) \in Seq(Events)
    BY <2>1, EventType DEF EventNames
  <2>3. Event("opened", 1) \in Seq(Events)
    BY EventType DEF EventNames
  <2>4. Event("closed", episode_rejections) \in Seq(Events)
    BY <2>1, EventType DEF EventNames
  <2>5. <<>> \in Seq(Events)
    OBVIOUS
  <2> QED
    BY <2>2, <2>3, <2>4, <2>5 DEF RecordEvents
<1> QED
  BY <1>1, <1>2

-----------------------------------------------------------------------------
(* Type correctness.                                                       *)

LEMMA LifecycleIsNat ==
    ASSUME NEW events \in Seq(Events)
    PROVE  Lifecycle(events) \in Nat
<1>1. IsFiniteSet(DOMAIN events)
  BY FS_Interval
<1>2. IsFiniteSet({i \in DOMAIN events : events[i].name # "rejected"})
  BY <1>1, FS_Subset
<1> QED
  BY <1>2, FS_CardinalityType DEF Lifecycle

LEMMA InitType == Init => TypeOK
<1> SUFFICES ASSUME Init PROVE TypeOK
  OBVIOUS
<1>1. CircuitType
  <2>1. MachineType
    BY DEF Init, CircuitInit, MachineType, States
  <2>2. CounterType
    BY CircuitAssumption DEF Init, CircuitInit, CounterType
  <2>3. RejectionType
    BY CircuitAssumption DEF Init, CircuitInit, RejectionType, LongAgo
  <2> QED
    BY <2>1, <2>2, <2>3 DEF Init, CircuitInit, CircuitType
<1>2. pc \in [Threads -> {"idle", "admitting", "announcing", "calling", "reporting"}]
  BY DEF Init
<1>3. ticket \in [Threads -> Nat \cup {NoTicket}]
  BY DEF Init
<1>4. pending \in [Threads -> Seq(Events)]
  BY DEF Init
<1> QED
  BY <1>1, <1>2, <1>3, <1>4 DEF Init, TypeOK

(* The variables outside the circuit.                                      *)
CallerType ==
    /\ pc \in [Threads -> {"idle", "admitting", "announcing", "calling", "reporting"}]
    /\ ticket \in [Threads -> Nat \cup {NoTicket}]
    /\ pending \in [Threads -> Seq(Events)]
    /\ bad \in Nat
    /\ emitted \in Nat

LEMMA SameCircuitType ==
    ASSUME CircuitType, UNCHANGED <<circuit, now>>
    PROVE  CircuitType'
BY DEF CircuitType, MachineType, CounterType, RejectionType,
       circuit, machine, counters, rejections

LEMMA LeaveWithType ==
    ASSUME CallerType, NEW t \in Threads, NEW events \in Seq(Events),
           NEW next \in {"idle", "admitting", "announcing", "calling", "reporting"},
           LeaveWith(t, events, next)
    PROVE  /\ pc' \in [Threads -> {"idle", "admitting", "announcing", "calling", "reporting"}]
           /\ pending' \in [Threads -> Seq(Events)]
BY DEF CallerType, LeaveWith

LEMMA EmitType ==
    ASSUME CallerType, NEW t \in Threads, Emit(t)
    PROVE  emitted' \in Nat /\ pending' \in [Threads -> Seq(Events)]
<1>1. Lifecycle(pending[t]) \in Nat
  BY LifecycleIsNat DEF CallerType
<1>2. emitted' \in Nat
  BY <1>1 DEF CallerType, Emit
<1>3. pending' \in [Threads -> Seq(Events)]
  BY DEF CallerType, Emit
<1> QED
  BY <1>2, <1>3

LEMMA StepType ==
    ASSUME TypeOK, [Next]_vars
    PROVE  TypeOK'
<1>0. CircuitType /\ CallerType
  BY DEF TypeOK, CallerType
<1> SUFFICES CircuitType' /\ CallerType'
  BY DEF TypeOK, CallerType
<1>1. ASSUME NEW t \in Threads, EnterClosed(t) PROVE CircuitType' /\ CallerType'
  <2>1. CircuitType'
    BY <1>0, <1>1, SameCircuitType DEF EnterClosed
  <2>2. closed_ticket \in Nat \cup {NoTicket}
    BY <1>0 DEF CircuitType, MachineType
  <2>3. CallerType'
    BY <1>0, <1>1, <2>2 DEF EnterClosed, CallerType
  <2> QED
    BY <2>1, <2>3
<1>2. ASSUME NEW t \in Threads, EnterTripped(t) PROVE CircuitType' /\ CallerType'
  BY <1>0, <1>2, SameCircuitType DEF EnterTripped, CallerType
<1>3. ASSUME NEW t \in Threads, Refuse(t) PROVE CircuitType' /\ CallerType'
  <2>1. CircuitType' /\ RejectEvents \in Seq(Events)
    BY <1>0, <1>3, RejectType DEF Refuse
  <2>2. Ending(RejectEvents) \in {"idle", "reporting"}
    BY DEF Ending
  <2> QED
    BY <1>0, <1>3, <2>1, <2>2, LeaveWithType DEF Refuse, CallerType
<1>4. ASSUME NEW t \in Threads, TurnHalfOpen(t) PROVE CircuitType' /\ CallerType'
  <2>1. CircuitType' /\ HalfOpenEvents \in Seq(Events)
    BY <1>0, <1>4, HalfOpenType DEF TurnHalfOpen
  <2>2. epoch' + Probe \in Nat
    <3>1. epoch' \in Nat
      BY <2>1 DEF CircuitType, MachineType
    <3>2. \A n \in Nat : n + Probe \in Nat
      BY DEF Probe
    <3> QED
      BY <3>1, <3>2, Zenon
  <2>3. ticket' \in [Threads -> Nat \cup {NoTicket}]
    BY <1>0, <1>4, <2>2 DEF TurnHalfOpen, CallerType
  <2> QED
    BY <1>0, <1>4, <2>1, <2>3, LeaveWithType DEF TurnHalfOpen, CallerType
<1>5. ASSUME NEW t \in Threads, AdmitLocked(t) PROVE CircuitType' /\ CallerType'
  <2>1. CircuitType' /\ Ticket \in Nat
    BY <1>0, <1>5, AdmitType DEF AdmitLocked
  <2> QED
    BY <1>0, <1>5, <2>1 DEF AdmitLocked, CallerType
<1>6. ASSUME NEW t \in Threads, Announce(t) PROVE CircuitType' /\ CallerType'
  <2>1. emitted' \in Nat /\ pending' \in [Threads -> Seq(Events)]
    BY <1>0, <1>6, EmitType DEF Announce
  <2> QED
    BY <1>0, <1>6, <2>1, SameCircuitType DEF Announce, CallerType
<1>7. ASSUME NEW t \in Threads, AnnounceRaises(t) PROVE CircuitType' /\ CallerType'
  <2>1. emitted' \in Nat /\ pending' \in [Threads -> Seq(Events)]
    BY <1>0, <1>7, EmitType DEF AnnounceRaises
  <2> QED
    BY <1>0, <1>7, <2>1, SameCircuitType DEF AnnounceRaises, CallerType
<1>8. ASSUME NEW t \in Threads, NEW outcome \in Outcomes, Return(t, outcome)
      PROVE  CircuitType' /\ CallerType'
  <2> DEFINE events == RecordEvents(ticket[t], outcome)
  <2>1. CircuitType' /\ events \in Seq(Events)
    BY <1>0, <1>8, RecordType DEF Return
  <2>2. Ending(events) \in {"idle", "reporting"}
    BY DEF Ending
  <2>3. bad' \in Nat
    BY <1>0, <1>8 DEF Return, CallerType
  <2>4. ticket' \in [Threads -> Nat \cup {NoTicket}]
    BY <1>0, <1>8 DEF Return, CallerType
  <2>5. LeaveWith(t, events, Ending(events))
    BY <1>8 DEF Return
  <2> HIDE DEF events
  <2>6. /\ pc' \in [Threads -> {"idle", "admitting", "announcing", "calling", "reporting"}]
        /\ pending' \in [Threads -> Seq(Events)]
    BY <1>0, <2>1, <2>2, <2>5, LeaveWithType
  <2> QED
    BY <1>0, <1>8, <2>1, <2>3, <2>4, <2>6 DEF Return, CallerType
<1>9. ASSUME NEW t \in Threads, Report(t) PROVE CircuitType' /\ CallerType'
  <2>1. emitted' \in Nat /\ pending' \in [Threads -> Seq(Events)]
    BY <1>0, <1>9, EmitType DEF Report
  <2> QED
    BY <1>0, <1>9, <2>1, SameCircuitType DEF Report, CallerType
<1>10. ASSUME Tick PROVE CircuitType' /\ CallerType'
  BY <1>0, <1>10 DEF Tick, CallerType, CircuitType, MachineType, CounterType, RejectionType,
                     circuit, machine, counters, rejections
<1>11. ASSUME UNCHANGED vars PROVE CircuitType' /\ CallerType'
  BY <1>0, <1>11, SameCircuitType DEF vars, CallerType
<1> QED
  BY <1>1, <1>2, <1>3, <1>4, <1>5, <1>6, <1>7, <1>8, <1>9, <1>10, <1>11 DEF Next, Step

(* The circuit's attributes, the tickets and the events in flight have     *)
(* their types, and the two counters stay below their thresholds.          *)
THEOREM TypeCorrect == Spec => []TypeOK
<1>1. Init => TypeOK
  BY InitType
<1>2. TypeOK /\ [Next]_vars => TypeOK'
  BY StepType
<1> QED
  BY <1>1, <1>2, PTL DEF Spec

-----------------------------------------------------------------------------
(* Who holds which ticket.  TicketInv is the inductive core: the slot and  *)
(* the epoch alone do not say which thread may still call record().        *)

(* A taken slot has a holder.  Not so if a handler may raise: see          *)
(* AnnounceRaises.                                                         *)
NoLeak == probe_in_flight => \E t \in Threads : ticket[t] = epoch + Probe

LEMMA RecordMoves ==
    ASSUME CircuitType, NEW tk \in Int, NEW outcome \in Outcomes, Record(tk, outcome)
    PROVE  /\ \/ UNCHANGED machine
              \/ MoveTo("OPEN")
              \/ MoveTo("CLOSED")
           /\ CountsProbe(tk) => ~probe_in_flight'
           /\ ~CountsProbe(tk) => UNCHANGED probe_in_flight
           /\ tk # epoch /\ ~CountsProbe(tk) => UNCHANGED circuit
<1>0. ~(tk = epoch /\ tk = epoch + Probe)
  BY DEF CircuitType, MachineType, Probe
<1>1. CASE CountsClosed(tk, outcome) /\ RecordClosed(outcome)
  BY <1>0, <1>1 DEF CountsClosed, CountsProbe, RecordClosed, EnterOpen
<1>2. CASE CountsProbe(tk) /\ RecordProbe(outcome)
  BY <1>2 DEF RecordProbe, RecordProbeSuccess, EnterOpen, Close
<1>3. CASE ~CountsClosed(tk, outcome) /\ ~CountsProbe(tk) /\ UNCHANGED circuit
  BY <1>3 DEF circuit
<1> QED
  BY <1>1, <1>2, <1>3 DEF Record

LEMMA InitTickets == Init => TicketInv /\ NoLeak
BY DEF Init, CircuitInit, TicketInv, ClosedTicketInv, SlotInv, HolderInv, CurrentInv, UniqueInv, NoLeak, NoTicket, Probe

(* A transition leaves every ticket behind.                                *)
LEMMA MoveLeavesTicketsBehind ==
    ASSUME CircuitType, CallerType, TicketInv, NEW s \in States, MoveTo(s)
    PROVE  /\ \A t \in Threads : ticket[t] < epoch'
           /\ epoch' \in Nat
           /\ state' = s
           /\ closed_ticket' = IF s = "CLOSED" THEN epoch' ELSE NoTicket
<1>1. \A t \in Threads : ticket[t] \in Int
  BY DEF CallerType, NoTicket
<1> QED
  BY <1>1 DEF CircuitType, MachineType, CallerType, TicketInv, ClosedTicketInv, SlotInv, HolderInv, CurrentInv, UniqueInv, MoveTo, EpochStep, Probe

LEMMA StepTickets ==
    ASSUME TypeOK, TicketInv, [Next]_vars
    PROVE  TicketInv'
<1>0. CircuitType /\ CallerType
  BY DEF TypeOK, CallerType
<1>n. epoch \in Nat /\ \A t \in Threads : ticket[t] \in Int
  BY <1>0 DEF CircuitType, MachineType, CallerType, NoTicket
<1>1. ASSUME NEW t \in Threads, EnterClosed(t) PROVE TicketInv'
  BY <1>0, <1>n, <1>1 DEF EnterClosed, TicketInv, ClosedTicketInv, SlotInv, HolderInv, CurrentInv, UniqueInv, circuit, machine, CallerType, NoTicket, Probe
<1>2. ASSUME NEW t \in Threads, EnterTripped(t) PROVE TicketInv'
  BY <1>0, <1>n, <1>2 DEF EnterTripped, TicketInv, ClosedTicketInv, SlotInv, HolderInv, CurrentInv, UniqueInv, circuit, machine, CallerType, NoTicket, Probe
<1>3. ASSUME NEW t \in Threads, Refuse(t) PROVE TicketInv'
  <2>1. Ending(RejectEvents) \in {"idle", "reporting"}
    BY DEF Ending
  <2> QED
    BY <1>0, <1>n, <1>3, <2>1 DEF Refuse, Reject, LeaveWith, TicketInv, ClosedTicketInv, SlotInv, HolderInv, CurrentInv, UniqueInv, machine, CallerType, NoTicket, Probe
<1>4. ASSUME NEW t \in Threads, TurnHalfOpen(t) PROVE TicketInv'
  <2>1. /\ \A u \in Threads : ticket[u] < epoch'
        /\ epoch' \in Nat
        /\ state' = "HALF_OPEN"
        /\ closed_ticket' = NoTicket
    BY <1>0, <1>4, MoveLeavesTicketsBehind DEF TurnHalfOpen, HalfOpen, States
  <2>2. probe_in_flight'
    BY <1>4 DEF TurnHalfOpen, HalfOpen
  <2>3. \A u \in Threads :
          ticket'[u] = IF u = t THEN epoch' + Probe ELSE ticket[u]
    BY <1>0, <1>4 DEF TurnHalfOpen, CallerType
  <2>4. \A u \in Threads : pc'[u] = IF u = t THEN "announcing" ELSE pc[u]
    BY <1>0, <1>4 DEF TurnHalfOpen, LeaveWith, CallerType
  <2>5. epoch' + Probe > epoch' /\ epoch' + Probe # NoTicket
    <3>1. \A n \in Nat : n + Probe > n /\ n + Probe # NoTicket
      BY DEF Probe, NoTicket
    <3> QED
      BY <2>1, <3>1, Zenon
  <2>6. HolderInv'
    BY <2>3, <2>4, <2>5 DEF TicketInv, HolderInv
  <2>7. CurrentInv'
    <3>1. \A u \in Threads : ticket'[u] <= epoch' + Probe /\ ticket'[u] # epoch'
      BY <1>n, <2>1, <2>3 DEF Probe
    <3> QED
      BY <2>1, <2>2, <3>1, Zenon DEF CurrentInv
  <2>8. UniqueInv'
    BY <1>n, <2>1, <2>3 DEF UniqueInv, Probe
  <2> QED
    BY <2>1, <2>2, <2>6, <2>7, <2>8 DEF TicketInv, ClosedTicketInv, SlotInv
<1>5. ASSUME NEW t \in Threads, AdmitLocked(t) PROVE TicketInv'
  BY <1>0, <1>n, <1>5 DEF AdmitLocked, Admit, Ticket, Refuses, TurnsHalfOpen, TicketInv, ClosedTicketInv, SlotInv, HolderInv, CurrentInv, UniqueInv, machine,
     CircuitType, MachineType, States, CallerType, NoTicket, Probe
<1>6. ASSUME NEW t \in Threads, Announce(t) PROVE TicketInv'
  BY <1>0, <1>n, <1>6 DEF Announce, TicketInv, ClosedTicketInv, SlotInv, HolderInv, CurrentInv, UniqueInv, circuit, machine, CallerType, NoTicket, Probe
<1>7. ASSUME NEW t \in Threads, AnnounceRaises(t) PROVE TicketInv'
  BY <1>0, <1>n, <1>7 DEF AnnounceRaises, TicketInv, ClosedTicketInv, SlotInv, HolderInv, CurrentInv, UniqueInv, circuit, machine, CallerType, NoTicket, Probe
<1>8. ASSUME NEW t \in Threads, NEW outcome \in Outcomes, Return(t, outcome) PROVE TicketInv'
  <2> DEFINE next == Ending(RecordEvents(ticket[t], outcome))
  <2>1. /\ next \in {"idle", "reporting"}
        /\ pc' = [pc EXCEPT ![t] = next]
        /\ ticket' = [ticket EXCEPT ![t] = NoTicket]
    BY <1>8 DEF Return, LeaveWith, Ending
  <2> HIDE DEF next
  <2>2. \A u \in Threads : ticket'[u] # NoTicket <=> pc'[u] \in {"announcing", "calling"}
    BY <1>0, <2>1 DEF TicketInv, ClosedTicketInv, SlotInv, HolderInv, CurrentInv, UniqueInv, CallerType
  <2>3. \A u \in Threads : ticket'[u] = IF u = t THEN NoTicket ELSE ticket[u]
    BY <1>0, <2>1 DEF CallerType
  <2>4. Record(ticket[t], outcome)
    BY <1>8 DEF Return
  <2>5. CASE UNCHANGED machine
    <3>1. /\ CountsProbe(ticket[t]) => ~probe_in_flight'
          /\ ~CountsProbe(ticket[t]) => UNCHANGED probe_in_flight
      BY <1>0, <1>n, <2>4, RecordMoves
    <3>2. UNCHANGED <<state, epoch, closed_ticket>>
      BY <2>5 DEF machine
    <3>3. ClosedTicketInv' /\ SlotInv'
      BY <3>1, <3>2 DEF TicketInv, ClosedTicketInv, SlotInv
    <3>4. UniqueInv'
      BY <1>n, <2>3, <3>2 DEF TicketInv, UniqueInv, Probe, NoTicket
    <3>5. CurrentInv'
      <4> SUFFICES ASSUME NEW u \in Threads
                   PROVE  /\ ticket'[u] <= epoch + Probe
                          /\ ticket'[u] = epoch => state = "CLOSED"
                          /\ ticket'[u] = epoch + Probe =>
                               state = "HALF_OPEN" /\ probe_in_flight'
        BY <3>2 DEF CurrentInv
      <4>1. CASE u = t
        BY <1>n, <2>3, <4>1 DEF Probe, NoTicket
      <4>2. CASE u # t
        <5>1. ticket'[u] = ticket[u]
          BY <2>3, <4>2
        <5>2. ticket[u] = epoch + Probe => ~CountsProbe(ticket[t])
          BY <4>2 DEF TicketInv, UniqueInv, CountsProbe
        <5> QED
          BY <3>1, <5>1, <5>2 DEF TicketInv, CurrentInv
      <4> QED
        BY <4>1, <4>2
    <3> QED
      BY <2>2, <3>3, <3>4, <3>5 DEF TicketInv, HolderInv
  <2>6. ASSUME NEW s \in {"OPEN", "CLOSED"}, MoveTo(s) PROVE TicketInv'
    <3>1. /\ \A u \in Threads : ticket[u] < epoch'
          /\ epoch' \in Nat
          /\ state' = s
          /\ closed_ticket' = IF s = "CLOSED" THEN epoch' ELSE NoTicket
      BY <1>0, <2>6, MoveLeavesTicketsBehind DEF States
    <3>2. ~probe_in_flight'
      <4>1. CASE CountsProbe(ticket[t])
        BY <1>0, <1>n, <2>4, <4>1, RecordMoves
      <4>2. CASE ~CountsProbe(ticket[t])
        <5>1. UNCHANGED probe_in_flight
          BY <1>0, <1>n, <2>4, <4>2, RecordMoves
        <5>2. ticket[t] = epoch
          <6>1. ticket[t] # epoch => UNCHANGED circuit
            BY <1>0, <1>n, <2>4, <4>2, RecordMoves
          <6>2. epoch' # epoch
            BY <1>n, <2>6 DEF MoveTo, EpochStep
          <6> QED
            BY <6>1, <6>2 DEF circuit, machine
        <5> QED
          BY <5>1, <5>2 DEF TicketInv, ClosedTicketInv, SlotInv, HolderInv, CurrentInv, UniqueInv
      <4> QED
        BY <4>1, <4>2
    <3>3. \A u \in Threads : ticket'[u] < epoch'
      <4>1. NoTicket < epoch'
        BY <3>1 DEF NoTicket
      <4> QED
        BY <2>3, <3>1, <4>1
    <3>4. \A u \in Threads : ticket'[u] \in Int
      BY <1>n, <2>3 DEF NoTicket
    <3>5. CurrentInv' /\ UniqueInv'
      BY <3>1, <3>3, <3>4 DEF CurrentInv, UniqueInv, Probe
    <3> QED
      BY <2>2, <3>1, <3>2, <3>5 DEF TicketInv, ClosedTicketInv, SlotInv, HolderInv
  <2> QED
    BY <1>0, <1>n, <2>4, <2>5, <2>6, RecordMoves
<1>9. ASSUME NEW t \in Threads, Report(t) PROVE TicketInv'
  BY <1>0, <1>n, <1>9 DEF Report, TicketInv, ClosedTicketInv, SlotInv, HolderInv, CurrentInv, UniqueInv, circuit, machine, CallerType, NoTicket, Probe
<1>10. ASSUME Tick PROVE TicketInv'
  BY <1>10 DEF Tick, TicketInv, ClosedTicketInv, SlotInv, HolderInv, CurrentInv, UniqueInv, circuit, machine
<1>11. ASSUME UNCHANGED vars PROVE TicketInv'
  BY <1>11 DEF vars, TicketInv, ClosedTicketInv, SlotInv, HolderInv, CurrentInv, UniqueInv, circuit, machine
<1> QED
  BY <1>1, <1>2, <1>3, <1>4, <1>5, <1>6, <1>7, <1>8, <1>9, <1>10, <1>11 DEF Next, Step

(* The ticket a thread holds tells record() all it needs to know: whether  *)
(* the thread was admitted to this CLOSED period, is the one probe of this *)
(* HALF_OPEN period, or is left over from before a transition.  This holds *)
(* even if logging handlers raise.                                         *)
THEOREM TicketsIdentifyCallers == Spec => []TicketInv
<1>1. Init => TypeOK /\ TicketInv
  BY InitType, InitTickets
<1>2. TypeOK /\ TicketInv /\ [Next]_vars => TypeOK' /\ TicketInv'
  BY StepType, StepTickets
<1> QED
  BY <1>1, <1>2, PTL DEF Spec

(* A thread whose call is on its way can always give the probe slot back.  *)
LEMMA StepNoLeak ==
    ASSUME TypeOK, TicketInv, NoLeak, ~EmitMayRaise, [Next]_vars
    PROVE  NoLeak'
<1>0. CircuitType /\ CallerType
  BY DEF TypeOK, CallerType
<1>n. epoch \in Nat /\ \A t \in Threads : ticket[t] \in Int
  BY <1>0 DEF CircuitType, MachineType, CallerType, NoTicket
<1>1. ASSUME NEW t \in Threads, EnterClosed(t) PROVE NoLeak'
  <2>1. state = "CLOSED"
    BY <1>1 DEF EnterClosed, TicketInv, ClosedTicketInv
  <2>2. ~probe_in_flight
    BY <2>1 DEF TicketInv, SlotInv
  <2> QED
    BY <1>1, <2>2 DEF EnterClosed, NoLeak, circuit
<1>2. ASSUME NEW t \in Threads, TurnHalfOpen(t) PROVE NoLeak'
  BY <1>0, <1>2 DEF TurnHalfOpen, NoLeak, CallerType
<1>3. ASSUME NEW t \in Threads, AdmitLocked(t) PROVE NoLeak'
  <2>1. CASE closed_ticket # NoTicket
    <3>1. ~probe_in_flight
      BY <2>1 DEF TicketInv, ClosedTicketInv, SlotInv
    <3> QED
      BY <1>3, <2>1, <3>1 DEF AdmitLocked, Admit, NoLeak
  <2>2. CASE closed_ticket = NoTicket
    <3>1. ticket'[t] = epoch + Probe
      BY <1>0, <1>3, <2>2 DEF AdmitLocked, Ticket, CallerType
    <3>2. UNCHANGED epoch
      BY <1>3 DEF AdmitLocked, Admit, machine
    <3> QED
      BY <3>1, <3>2 DEF NoLeak
  <2> QED
    BY <2>1, <2>2
<1>4. ASSUME NEW t \in Threads, NEW outcome \in Outcomes, Return(t, outcome) PROVE NoLeak'
  <2>1. Record(ticket[t], outcome) /\ ticket' = [ticket EXCEPT ![t] = NoTicket]
    BY <1>4 DEF Return
  <2>2. CASE CountsProbe(ticket[t])
    BY <1>0, <1>n, <2>1, <2>2, RecordMoves DEF NoLeak
  <2>3. CASE ticket[t] = epoch
    <3>1. state = "CLOSED" /\ ~CountsProbe(ticket[t])
      BY <1>n, <2>3 DEF TicketInv, CurrentInv, CountsProbe, Probe
    <3>2. ~probe_in_flight
      BY <3>1 DEF TicketInv, SlotInv
    <3>3. UNCHANGED probe_in_flight
      BY <1>0, <1>n, <2>1, <3>1, RecordMoves
    <3> QED
      BY <3>2, <3>3 DEF NoLeak
  <2>4. CASE ~CountsProbe(ticket[t]) /\ ticket[t] # epoch
    <3>1. UNCHANGED circuit
      BY <1>0, <1>n, <2>1, <2>4, RecordMoves
    <3>2. UNCHANGED <<epoch, probe_in_flight>>
      BY <3>1 DEF circuit, machine
    <3>3. \A u \in Threads : ticket[u] = epoch + Probe => ticket'[u] = ticket[u]
      BY <1>0, <2>1, <2>4 DEF CountsProbe, CallerType
    <3> QED
      BY <3>2, <3>3 DEF NoLeak
  <2> QED
    BY <2>2, <2>3, <2>4
<1>5. ASSUME UNCHANGED <<epoch, probe_in_flight, ticket>> PROVE NoLeak'
  BY <1>5 DEF NoLeak
<1>6. ASSUME NEW t \in Threads,
             EnterTripped(t) \/ Refuse(t) \/ Announce(t) \/ Report(t)
      PROVE  NoLeak'
  BY <1>5, <1>6 DEF EnterTripped, Refuse, Reject, Announce, Report, circuit, machine
<1>7. ASSUME Tick \/ UNCHANGED vars PROVE NoLeak'
  BY <1>5, <1>7 DEF Tick, vars, circuit, machine
<1> QED
  BY <1>1, <1>2, <1>3, <1>4, <1>6, <1>7 DEF Next, Step, AnnounceRaises

(* In every interleaving of any number of threads the probe slot is taken  *)
(* exactly while one call that can free it is on its way (_probe_in_flight *)
(* and the tickets of admit() and record() agree), provided that no        *)
(* logging handler raises while circuit.half_open is emitted.              *)
THEOREM ProbeSlotNeverLeaks ==
    ASSUME ~EmitMayRaise
    PROVE  Spec => []ProbeSlotOwned
<1> DEFINE IInv == TypeOK /\ TicketInv /\ NoLeak
<1>1. Init => IInv
  BY InitType, InitTickets
<1>2. IInv /\ [Next]_vars => IInv'
  BY StepType, StepTickets, StepNoLeak
<1>3. IInv => ProbeSlotOwned
  <2> SUFFICES ASSUME IInv PROVE ProbeSlotOwned
    OBVIOUS
  <2>1. \A t \in Threads : t \in Holders(epoch + Probe) <=> ticket[t] = epoch + Probe
    BY DEF Holders
  <2>2. Holders(epoch + Probe) \subseteq Threads
    BY DEF Holders
  <2>3. probe_in_flight <=> Holders(epoch + Probe) # {}
    BY <2>1, <2>2 DEF TicketInv, CurrentInv, NoLeak
  <2>4. \A t, u \in Holders(epoch + Probe) : t = u
    BY <2>1, <2>2 DEF TicketInv, UniqueInv
  <2>5. Holders(epoch + Probe) # {} => state = "HALF_OPEN"
    BY <2>1, <2>2 DEF TicketInv, CurrentInv
  <2> QED
    BY <2>3, <2>4, <2>5 DEF ProbeSlotOwned
<1> QED
  BY <1>1, <1>2, <1>3, PTL DEF Spec

-----------------------------------------------------------------------------
(* Reports.  A thread between its critical section and its report is the   *)
(* only one with events: it has emitted them before it is in another.      *)
NothingPending ==
    \A t \in Threads : pc[t] \in {"idle", "admitting", "calling"} => pending[t] = <<>>

(* The lifecycle events each thread has still to emit.                     *)
Unreported == [t \in Threads |-> Lifecycle(pending[t])]

LEMMA LifecycleOfNone == Lifecycle(<<>>) = 0
<1>1. {i \in DOMAIN <<>> : <<>>[i].name # "rejected"} = {}
  OBVIOUS
<1> QED
  BY <1>1, FS_EmptySet DEF Lifecycle

LEMMA LifecycleOfEvent ==
    ASSUME NEW name, NEW number
    PROVE  Lifecycle(Event(name, number)) = IF name = "rejected" THEN 0 ELSE 1
<1> DEFINE e == Event(name, number)
<1>1. DOMAIN e = {1} /\ e[1].name = name
  BY DEF Event
<1> HIDE DEF e
<1>2. {i \in DOMAIN e : e[i].name # "rejected"} = IF name = "rejected" THEN {} ELSE {1}
  BY <1>1
<1>3. Cardinality({}) = 0 /\ Cardinality({1}) = 1
  BY FS_EmptySet, FS_Singleton
<1>4. Lifecycle(e) = IF name = "rejected" THEN 0 ELSE 1
  BY <1>2, <1>3, Zenon DEF Lifecycle
<1> QED
  BY <1>4 DEF e

LEMMA UnreportedSum ==
    ASSUME TypeOK
    PROVE  /\ IsFiniteSet(Threads) /\ Ints(Unreported, Threads)
           /\ SumFunction(Unreported) = SumFunctionOnSet(Unreported, Threads)
           /\ SumFunctionOnSet(Unreported, Threads) \in Int
<1>1. IsFiniteSet(Threads)
  BY ThreadAssumption
<1>2. \A t \in Threads : Lifecycle(pending[t]) \in Nat
  BY LifecycleIsNat DEF TypeOK
<1>3. Ints(Unreported, Threads)
  BY <1>2 DEF Ints, Unreported
<1>4. DOMAIN Unreported = Threads
  BY DEF Unreported
<1> QED
  BY <1>1, <1>3, <1>4, SumIsInt, Zenon DEF SumFunction

(* A thread takes on d events, or reports them.                            *)
LEMMA UnreportedChange ==
    ASSUME TypeOK, TypeOK', NEW t \in Threads, NEW d \in Int,
           Lifecycle(pending'[t]) = Lifecycle(pending[t]) + d,
           \A u \in Threads \ {t} : pending'[u] = pending[u]
    PROVE  SumFunction(Unreported') = SumFunction(Unreported) + d
<1>1. /\ IsFiniteSet(Threads) /\ Ints(Unreported, Threads)
      /\ SumFunction(Unreported) = SumFunctionOnSet(Unreported, Threads)
  BY UnreportedSum
<1>2. Unreported'[t] = Unreported[t] + d
  BY DEF Unreported
<1>3. \A u \in Threads \ {t} : Unreported'[u] = Unreported[u]
  BY DEF Unreported
<1>4. SumFunctionOnSet(Unreported', Threads) = SumFunctionOnSet(Unreported, Threads) + d
  BY <1>1, <1>2, <1>3, SumOfChanged
<1>5. SumFunction(Unreported') = SumFunctionOnSet(Unreported', Threads)
  BY DEF SumFunction, Unreported
<1> QED
  BY <1>1, <1>4, <1>5

(* A critical section takes the epoch on by two for each event it queues.  *)
LEMMA QueueEvents ==
    ASSUME TypeOK, TypeOK', EveryTransitionReported, NothingPending, NEW t \in Threads,
           pc[t] \in {"idle", "admitting", "calling"},
           NEW events, NEW next, LeaveWith(t, events, next), NEW d \in Int,
           Lifecycle(events) = d, epoch' = epoch + EpochStep * d, UNCHANGED emitted
    PROVE  EveryTransitionReported'
<1>1. Lifecycle(pending[t]) = 0
  BY LifecycleOfNone DEF NothingPending
<1>2. /\ pending'[t] = events
      /\ \A u \in Threads \ {t} : pending'[u] = pending[u]
  BY DEF TypeOK, LeaveWith
<1>3. Lifecycle(pending'[t]) = Lifecycle(pending[t]) + d
  BY <1>1, <1>2
<1>4. SumFunction(Unreported') = SumFunction(Unreported) + d
  BY <1>2, <1>3, UnreportedChange
<1>5. emitted \in Int /\ SumFunction(Unreported) \in Int
  BY UnreportedSum DEF TypeOK
<1>6. epoch = EpochStep * (emitted + SumFunction(Unreported))
  BY DEF EveryTransitionReported, Unreported
<1>7. EpochStep * (emitted + SumFunction(Unreported)) + EpochStep * d =
        EpochStep * (emitted + (SumFunction(Unreported) + d))
  BY <1>5 DEF EpochStep
<1>8. epoch' = EpochStep * (emitted' + SumFunction(Unreported'))
  BY <1>4, <1>6, <1>7, Zenon
<1> QED
  BY <1>8 DEF EveryTransitionReported, Unreported

LEMMA EmitEvents ==
    ASSUME TypeOK, TypeOK', EveryTransitionReported, NEW t \in Threads, Emit(t), UNCHANGED epoch
    PROVE  EveryTransitionReported'
<1> DEFINE d == Lifecycle(pending[t])
<1>1. d \in Nat
  BY LifecycleIsNat DEF TypeOK
<1>2. /\ pending'[t] = <<>>
      /\ \A u \in Threads \ {t} : pending'[u] = pending[u]
  BY DEF TypeOK, Emit
<1>3. Lifecycle(pending'[t]) = Lifecycle(pending[t]) + -d
  <2>1. d + -d = 0
    BY <1>1
  <2> QED
    BY <1>2, <2>1, LifecycleOfNone
<1>4. emitted' = emitted + d
  BY DEF Emit
<1> HIDE DEF d
<1>5. SumFunction(Unreported') = SumFunction(Unreported) + -d
  BY <1>1, <1>2, <1>3, UnreportedChange
<1>6. emitted \in Int /\ SumFunction(Unreported) \in Int
  BY UnreportedSum DEF TypeOK
<1>7. emitted + SumFunction(Unreported) = (emitted + d) + (SumFunction(Unreported) + -d)
  BY <1>1, <1>6
<1>8. epoch' = EpochStep * (emitted' + SumFunction(Unreported'))
  BY <1>4, <1>5, <1>7, Zenon DEF EveryTransitionReported, Unreported
<1> QED
  BY <1>8 DEF EveryTransitionReported, Unreported

LEMMA SameReports ==
    ASSUME EveryTransitionReported, UNCHANGED <<epoch, emitted, pending>>
    PROVE  EveryTransitionReported'
BY DEF EveryTransitionReported

(* record() moves the circuit exactly when it queues a lifecycle event.    *)
LEMMA RecordReports ==
    ASSUME CircuitType, NEW tk \in Int, NEW outcome \in Outcomes, Record(tk, outcome)
    PROVE  \/ Lifecycle(RecordEvents(tk, outcome)) = 0 /\ epoch' = epoch
           \/ Lifecycle(RecordEvents(tk, outcome)) = 1 /\ epoch' = epoch + EpochStep
<1>0. ~(tk = epoch /\ tk = epoch + Probe)
  BY DEF CircuitType, MachineType, Probe
<1>1. \A number : /\ Lifecycle(Event("opened", number)) = 1
                  /\ Lifecycle(Event("closed", number)) = 1
  BY LifecycleOfEvent
<1>2. CASE CountsClosed(tk, outcome) /\ RecordClosed(outcome)
  <2>1. ~CountsProbe(tk)
    BY <1>0, <1>2 DEF CountsClosed, CountsProbe
  <2>2. CASE Trips(outcome)
    <3>1. RecordEvents(tk, outcome) =
            Event("opened", IF RateMode THEN 0 ELSE consecutive_failures + 1)
      BY <1>2, <2>1, <2>2 DEF RecordEvents
    <3>2. epoch' = epoch + EpochStep
      BY <1>2, <2>2 DEF RecordClosed, EnterOpen, MoveTo
    <3> QED
      BY <1>1, <3>1, <3>2
  <2>3. CASE ~Trips(outcome)
    <3>1. RecordEvents(tk, outcome) = <<>>
      BY <2>1, <2>3 DEF RecordEvents
    <3>2. epoch' = epoch
      BY <1>2, <2>3 DEF RecordClosed, machine
    <3> QED
      BY <3>1, <3>2, LifecycleOfNone
  <2> QED
    BY <2>2, <2>3
<1>3. CASE CountsProbe(tk) /\ RecordProbe(outcome)
  <2>1. ~CountsClosed(tk, outcome)
    BY <1>0, <1>3 DEF CountsClosed, CountsProbe
  <2>2. CASE outcome = "failure"
    <3>1. RecordEvents(tk, outcome) = Event("opened", 1)
      BY <1>3, <2>1, <2>2 DEF RecordEvents
    <3>2. epoch' = epoch + EpochStep
      BY <1>3, <2>2 DEF RecordProbe, EnterOpen, MoveTo
    <3> QED
      BY <1>1, <3>1, <3>2
  <2>3. CASE outcome = "success" /\ LastSuccessNeeded
    <3>1. RecordEvents(tk, outcome) = Event("closed", episode_rejections)
      BY <1>3, <2>1, <2>3 DEF RecordEvents
    <3>2. epoch' = epoch + EpochStep
      BY <1>3, <2>3 DEF RecordProbe, RecordProbeSuccess, Close, MoveTo
    <3> QED
      BY <1>1, <3>1, <3>2
  <2>4. CASE outcome = "foreign" \/ (outcome = "success" /\ ~LastSuccessNeeded)
    <3>1. RecordEvents(tk, outcome) = <<>>
      BY <2>1, <2>4 DEF RecordEvents
    <3>2. epoch' = epoch
      BY <1>3, <2>4 DEF RecordProbe, RecordProbeSuccess, machine
    <3> QED
      BY <3>1, <3>2, LifecycleOfNone
  <2> QED
    BY <2>2, <2>3, <2>4 DEF Outcomes
<1>4. CASE ~CountsClosed(tk, outcome) /\ ~CountsProbe(tk) /\ UNCHANGED circuit
  <2>1. RecordEvents(tk, outcome) = <<>> /\ epoch' = epoch
    BY <1>4 DEF RecordEvents, circuit, machine
  <2> QED
    BY <2>1, LifecycleOfNone
<1> QED
  BY <1>2, <1>3, <1>4 DEF Record

LEMMA StepPending ==
    ASSUME TypeOK, NothingPending, [Next]_vars
    PROVE  NothingPending'
<1>0. /\ pc \in [Threads -> {"idle", "admitting", "announcing", "calling", "reporting"}]
      /\ pending \in [Threads -> Seq(Events)]
  BY DEF TypeOK
<1>1. ASSUME NEW t \in Threads, EnterClosed(t) \/ EnterTripped(t) \/ AdmitLocked(t)
      PROVE  NothingPending'
  BY <1>0, <1>1 DEF EnterClosed, EnterTripped, AdmitLocked, NothingPending
<1>2. ASSUME NEW t \in Threads, NEW events, LeaveWith(t, events, Ending(events))
      PROVE  NothingPending'
  BY <1>0, <1>2 DEF LeaveWith, Ending, NothingPending
<1>3. ASSUME NEW t \in Threads, TurnHalfOpen(t) PROVE NothingPending'
  BY <1>0, <1>3 DEF TurnHalfOpen, LeaveWith, NothingPending
<1>4. ASSUME NEW t \in Threads, Announce(t) \/ AnnounceRaises(t) \/ Report(t)
      PROVE  NothingPending'
  BY <1>0, <1>4 DEF Announce, AnnounceRaises, Report, Emit, NothingPending
<1>5. ASSUME Tick \/ UNCHANGED vars PROVE NothingPending'
  BY <1>5 DEF Tick, vars, NothingPending
<1>6. ASSUME NEW t \in Threads, Refuse(t) PROVE NothingPending'
  BY <1>2, <1>6 DEF Refuse
<1>7. ASSUME NEW t \in Threads, NEW outcome \in Outcomes, Return(t, outcome)
      PROVE  NothingPending'
  BY <1>2, <1>7 DEF Return
<1> QED
  BY <1>1, <1>3, <1>4, <1>5, <1>6, <1>7 DEF Next, Step

LEMMA StepReports ==
    ASSUME TypeOK, NothingPending, EveryTransitionReported, [Next]_vars
    PROVE  EveryTransitionReported'
<1>0. TypeOK' /\ CircuitType /\ epoch \in Nat
  BY StepType DEF TypeOK, CircuitType, MachineType
<1>1. ASSUME NEW t \in Threads, EnterClosed(t) \/ EnterTripped(t) \/ AdmitLocked(t)
      PROVE  EveryTransitionReported'
  BY <1>1, SameReports DEF EnterClosed, EnterTripped, AdmitLocked, Admit, circuit, machine
<1>2. ASSUME Tick \/ UNCHANGED vars PROVE EveryTransitionReported'
  BY <1>2, SameReports DEF Tick, vars, circuit, machine
<1>3. ASSUME NEW t \in Threads, Announce(t) \/ AnnounceRaises(t) \/ Report(t)
      PROVE  EveryTransitionReported'
  <2>1. Emit(t) /\ UNCHANGED epoch
    BY <1>3 DEF Announce, AnnounceRaises, Report, circuit, machine
  <2> QED
    BY <1>0, <2>1, EmitEvents
<1>4. ASSUME NEW t \in Threads, Refuse(t) PROVE EveryTransitionReported'
  <2>1. Lifecycle(RejectEvents) = 0
    BY LifecycleOfNone, LifecycleOfEvent DEF RejectEvents
  <2>2. epoch' = epoch + EpochStep * 0
    BY <1>0, <1>4 DEF Refuse, Reject, machine, EpochStep
  <2>3. /\ pc[t] \in {"idle", "admitting", "calling"} /\ UNCHANGED emitted
        /\ LeaveWith(t, RejectEvents, Ending(RejectEvents))
    BY <1>4 DEF Refuse
  <2> QED
    BY <1>0, <2>1, <2>2, <2>3, QueueEvents
<1>5. ASSUME NEW t \in Threads, TurnHalfOpen(t) PROVE EveryTransitionReported'
  <2>1. Lifecycle(HalfOpenEvents) = 1
    BY LifecycleOfEvent DEF HalfOpenEvents
  <2>2. epoch' = epoch + EpochStep * 1
    BY <1>0, <1>5 DEF TurnHalfOpen, HalfOpen, MoveTo, EpochStep
  <2>3. /\ pc[t] \in {"idle", "admitting", "calling"} /\ UNCHANGED emitted
        /\ LeaveWith(t, HalfOpenEvents, "announcing")
    BY <1>5 DEF TurnHalfOpen
  <2> QED
    BY <1>0, <2>1, <2>2, <2>3, QueueEvents
<1>6. ASSUME NEW t \in Threads, NEW outcome \in Outcomes, Return(t, outcome)
      PROVE  EveryTransitionReported'
  <2> DEFINE events == RecordEvents(ticket[t], outcome)
  <2>1. /\ pc[t] \in {"idle", "admitting", "calling"} /\ UNCHANGED emitted
        /\ LeaveWith(t, events, Ending(events))
        /\ Record(ticket[t], outcome)
    BY <1>6 DEF Return
  <2>2. ticket[t] \in Int
    BY DEF TypeOK, NoTicket
  <2>3. \/ Lifecycle(events) = 0 /\ epoch' = epoch
        \/ Lifecycle(events) = 1 /\ epoch' = epoch + EpochStep
    BY <1>0, <2>1, <2>2, RecordReports
  <2> HIDE DEF events
  <2>4. \E d \in Int : Lifecycle(events) = d /\ epoch' = epoch + EpochStep * d
    BY <1>0, <2>3 DEF EpochStep
  <2> QED
    BY <1>0, <2>1, <2>4, QueueEvents
<1> QED
  BY <1>1, <1>2, <1>3, <1>4, <1>5, <1>6 DEF Next, Step

LEMMA InitReports == Init => NothingPending /\ EveryTransitionReported
<1> SUFFICES ASSUME Init PROVE NothingPending /\ EveryTransitionReported
  OBVIOUS
<1>1. \A t \in Threads : Unreported[t] = 0
  BY LifecycleOfNone DEF Init, Unreported
<1>2. SumFunctionOnSet(Unreported, Threads) = 0
  BY <1>1, ThreadAssumption, SumOfZeros
<1>3. SumFunction(Unreported) = 0
  BY <1>2 DEF SumFunction, Unreported
<1>4. epoch = EpochStep * (emitted + SumFunction(Unreported))
  BY <1>3 DEF Init, CircuitInit, EpochStep
<1> QED
  BY <1>4 DEF Init, NothingPending, EveryTransitionReported, Unreported

(* No transition goes unreported and none is reported twice, by any number *)
(* of threads that emit after they have let go of the lock.                *)
THEOREM TransitionsReported == Spec => []EveryTransitionReported
<1> DEFINE IInv == TypeOK /\ NothingPending /\ EveryTransitionReported
<1>1. Init => IInv
  BY InitType, InitReports
<1>2. IInv /\ [Next]_vars => IInv'
  BY StepType, StepPending, StepReports
<1> QED
  BY <1>1, <1>2, PTL DEF Spec

-----------------------------------------------------------------------------
(* The breaker implements CircuitContract: every step of a thread is a     *)
(* step of the contract or changes nothing in it.                          *)

Members == Holders(epoch)
Probes == Holders(epoch + Probe)

LEMMA InitRefines == Init => Contract!Init
<1> SUFFICES ASSUME Init PROVE Contract!Init
  OBVIOUS
<1>1. Holders(epoch) = {} /\ Holders(epoch + Probe) = {}
  BY DEF Init, CircuitInit, Holders, NoTicket, Probe
<1> QED
  BY <1>1 DEF Init, CircuitInit, Contract!Init

(* The steps that move no ticket and leave the machine alone.              *)
LEMMA Stutter ==
    ASSUME UNCHANGED <<state, epoch, counters, opened_at, now>>,
           Members' = Members, Probes' = Probes
    PROVE  UNCHANGED Contract!vars
BY DEF Members, Probes, Contract!vars, counters

LEMMA Numbers ==
    ASSUME TypeOK
    PROVE  epoch \in Nat /\ epoch + Probe \in Nat /\ epoch # epoch + Probe
BY DEF TypeOK, CircuitType, MachineType, Probe

(* A caller that takes a ticket joins its holders and no others.           *)
LEMMA TakeTicket ==
    ASSUME TypeOK, NEW t \in Threads, NEW n \in {epoch, epoch + Probe},
           ticket[t] = NoTicket, ticket' = [ticket EXCEPT ![t] = n], UNCHANGED epoch
    PROVE  /\ Members' = IF n = epoch THEN Members \cup {t} ELSE Members
           /\ Probes' = IF n = epoch THEN Probes ELSE Probes \cup {t}
<1>1. epoch \in Nat /\ epoch + Probe \in Nat /\ epoch # epoch + Probe
  BY Numbers
<1>2. \A m \in Nat : {u \in Threads : ticket'[u] = m} =
                        IF m = n THEN Holders(m) \cup {t} ELSE Holders(m)
  BY DEF TypeOK, Holders, NoTicket
<1>3. /\ {u \in Threads : ticket'[u] = epoch} =
            IF epoch = n THEN Members \cup {t} ELSE Members
      /\ {u \in Threads : ticket'[u] = epoch + Probe} =
            IF epoch + Probe = n THEN Probes \cup {t} ELSE Probes
  BY <1>1, <1>2 DEF Members, Probes
<1>4. /\ Members' = {u \in Threads : ticket'[u] = epoch}
      /\ Probes' = {u \in Threads : ticket'[u] = epoch + Probe}
  BY DEF Members, Probes, Holders
<1>5. CASE n = epoch
  BY <1>1, <1>3, <1>4, <1>5, Zenon
<1>6. CASE n = epoch + Probe
  BY <1>1, <1>3, <1>4, <1>6, Zenon
<1> QED
  BY <1>5, <1>6

(* A caller that drops its ticket leaves its holders.                      *)
LEMMA DropTicket ==
    ASSUME TypeOK, NEW t \in Threads, ticket' = [ticket EXCEPT ![t] = NoTicket],
           UNCHANGED epoch
    PROVE  Members' = Members \ {t} /\ Probes' = Probes \ {t}
<1>1. epoch \in Nat /\ epoch + Probe \in Nat
  BY Numbers
<1>2. \A m \in Nat : {u \in Threads : ticket'[u] = m} = Holders(m) \ {t}
  BY DEF TypeOK, Holders, NoTicket
<1>3. /\ Members' = {u \in Threads : ticket'[u] = epoch}
      /\ Probes' = {u \in Threads : ticket'[u] = epoch + Probe}
  BY DEF Members, Probes, Holders
<1> QED
  BY <1>1, <1>2, <1>3 DEF Members, Probes

(* In the state after a transition nobody's outcome counts but the new     *)
(* probe's.                                                                *)
LEMMA FreshEpoch ==
    ASSUME \A u \in Threads : ticket'[u] < epoch', epoch' \in Nat,
           \A u \in Threads : ticket'[u] \in Int
    PROVE  Members' = {} /\ Probes' = {}
<1>1. \A n \in Nat : n + Probe > n
  BY DEF Probe
<1>2. epoch' + Probe > epoch'
  BY <1>1, Zenon
<1>3. \A u \in Threads : ticket'[u] # epoch'
  OBVIOUS
<1>4. \A u \in Threads : ticket'[u] # epoch' + Probe
  BY DEF Probe
<1> QED
  BY <1>3, <1>4 DEF Members, Probes, Holders

LEMMA AdmitStep ==
    ASSUME TypeOK, TicketInv, NEW t \in Threads, ticket[t] = NoTicket,
           state = "CLOSED", ticket' = [ticket EXCEPT ![t] = epoch],
           UNCHANGED <<machine, counters, opened_at, now>>
    PROVE  Contract!Admit(t)
<1>1. UNCHANGED <<state, epoch, consecutive_failures, consecutive_successes, opened_at, now>>
  BY DEF machine, counters
<1>2. Members' = Members \cup {t} /\ Probes' = Probes
  BY <1>1, Numbers, TakeTicket
<1> QED
  BY <1>1, <1>2 DEF Contract!Admit, Members, Probes

LEMMA EnterClosedRefines ==
    ASSUME TypeOK, TicketInv, NEW t \in Threads, EnterClosed(t)
    PROVE  Contract!Admit(t)
<1>1. closed_ticket = epoch /\ state = "CLOSED"
  BY DEF EnterClosed, TicketInv, ClosedTicketInv
<1>2. ticket[t] = NoTicket
  BY DEF EnterClosed, TicketInv, HolderInv
<1> QED
  BY <1>1, <1>2, AdmitStep DEF EnterClosed, circuit

LEMMA TurnHalfOpenRefines ==
    ASSUME TypeOK, TypeOK', TicketInv, TicketInv', NEW t \in Threads, TurnHalfOpen(t)
    PROVE  Contract!AdmitProbe(t)
<1>1. state = "OPEN" /\ now - opened_at >= ResetTimeout
  BY DEF TurnHalfOpen, TurnsHalfOpen, Due
<1>2. Members = {} /\ Probes = {}
  BY <1>1 DEF TicketInv, CurrentInv, Members, Probes, Holders
<1>3. state' = "HALF_OPEN"
  BY DEF TurnHalfOpen, HalfOpen, MoveTo
<1>4. UNCHANGED <<consecutive_failures, consecutive_successes, opened_at, now>>
  BY DEF TurnHalfOpen, HalfOpen, counters
<1>5. Members' = {}
  BY <1>3 DEF TicketInv, CurrentInv, Members, Holders
<1>6. Probes' = {t}
  <2>1. ticket'[t] = epoch' + Probe
    BY DEF TurnHalfOpen, TypeOK
  <2> QED
    BY <2>1 DEF TicketInv, UniqueInv, Probes, Holders
<1> QED
  BY <1>1, <1>2, <1>3, <1>4, <1>5, <1>6 DEF Contract!AdmitProbe, Members, Probes

LEMMA AdmitLockedRefines ==
    ASSUME TypeOK, TicketInv, NEW t \in Threads, AdmitLocked(t)
    PROVE  Contract!Admit(t) \/ Contract!AdmitProbe(t)
<1>1. ticket[t] = NoTicket
  BY DEF AdmitLocked, TicketInv, HolderInv
<1>2. UNCHANGED <<machine, counters, opened_at, now>>
  BY DEF AdmitLocked, Admit
<1>3. CASE closed_ticket # NoTicket
  <2>1. state = "CLOSED" /\ closed_ticket = epoch
    BY <1>3 DEF TicketInv, ClosedTicketInv
  <2> QED
    BY <1>1, <1>2, <1>3, <2>1, AdmitStep DEF AdmitLocked, Ticket
<1>4. CASE closed_ticket = NoTicket
  <2>1. state = "HALF_OPEN" /\ ~probe_in_flight
    <3>1. state # "CLOSED"
      BY <1>4, Numbers DEF TicketInv, ClosedTicketInv, NoTicket
    <3>2. state \in States
      BY DEF TypeOK, CircuitType, MachineType
    <3> QED
      BY <1>4, <3>1, <3>2 DEF AdmitLocked, Refuses, TurnsHalfOpen, States
  <2>2. Probes = {}
    BY <2>1 DEF TicketInv, CurrentInv, Probes, Holders
  <2>3. Members' = Members /\ Probes' = {t}
    <3>1. ticket' = [ticket EXCEPT ![t] = epoch + Probe] /\ UNCHANGED epoch
      BY <1>2, <1>4 DEF AdmitLocked, Ticket, machine
    <3> QED
      BY <1>1, <2>2, <3>1, Numbers, TakeTicket
  <2> QED
    BY <1>2, <2>1, <2>2, <2>3 DEF Contract!AdmitProbe, Members, Probes, machine, counters
<1> QED
  BY <1>3, <1>4

(* A call that ends without touching the counters gives up its place.      *)
LEMMA GiveUp ==
    ASSUME TypeOK, TicketInv, NEW t \in Threads,
           ticket' = [ticket EXCEPT ![t] = NoTicket],
           UNCHANGED <<machine, counters, opened_at, now>>
    PROVE  Contract!Settle(t) \/ Contract!ProbeInconclusive(t) \/ UNCHANGED Contract!vars
<1>1. UNCHANGED <<state, epoch, consecutive_failures, consecutive_successes, opened_at, now>>
  BY DEF machine, counters
<1>2. Members' = Members \ {t} /\ Probes' = Probes \ {t}
  BY <1>1, DropTicket
<1>3. ~(t \in Members /\ t \in Probes)
  BY Numbers DEF Members, Probes, Holders
<1>4. CASE t \in Members
  BY <1>1, <1>2, <1>3, <1>4 DEF Contract!Settle, Members, Probes
<1>5. CASE t \in Probes
  <2>1. Probes' = {}
    BY <1>2, <1>5 DEF TicketInv, UniqueInv, Probes, Holders
  <2> QED
    BY <1>1, <1>2, <1>3, <1>5, <2>1 DEF Contract!ProbeInconclusive, Members, Probes
<1>6. CASE t \notin Members /\ t \notin Probes
  <2>1. Members' = Members /\ Probes' = Probes
    BY <1>2, <1>6
  <2> QED
    BY <1>1, <2>1, Stutter DEF counters
<1> QED
  BY <1>4, <1>5, <1>6

(* An opening is an opening of the contract, whoever causes it.            *)
LEMMA OpenStep ==
    ASSUME TypeOK, TypeOK', TicketInv', EnterOpen, UNCHANGED now
    PROVE  Contract!Open
<1>1. state' = "OPEN" /\ opened_at' = now
      /\ consecutive_failures' = 0 /\ consecutive_successes' = 0
  BY DEF EnterOpen, MoveTo
<1>2. Members' = {} /\ Probes' = {}
  BY <1>1 DEF TicketInv, CurrentInv, Members, Probes, Holders
<1> QED
  BY <1>1, <1>2 DEF Contract!Open, Members, Probes

LEMMA ReturnClosedRefines ==
    ASSUME TypeOK, TypeOK', TicketInv, TicketInv', NEW t \in Threads, NEW outcome \in Outcomes,
           ticket' = [ticket EXCEPT ![t] = NoTicket], UNCHANGED now,
           CountsClosed(ticket[t], outcome), RecordClosed(outcome)
    PROVE  Contract!Settle(t) \/ Contract!Trip(t)
<1>1. t \in Members
  BY DEF CountsClosed, Members, Holders
<1>2. CASE Trips(outcome)
  <2>1. Contract!Open
    BY <1>2, OpenStep DEF RecordClosed
  <2>2. RateMode \/ consecutive_failures + 1 = FailureThreshold
    BY <1>2, CircuitAssumption DEF Trips, TypeOK, CircuitType, CounterType
  <2> QED
    BY <1>1, <2>1, <2>2 DEF Contract!Trip, Members
<1>3. CASE ~Trips(outcome)
  <2>1. UNCHANGED <<state, epoch, consecutive_successes, opened_at, now>>
    BY <1>3 DEF RecordClosed, machine
  <2>2. Members' = Members \ {t} /\ Probes' = Probes \ {t}
    BY <2>1, DropTicket
  <2>3. t \notin Probes
    BY <1>1, Numbers DEF Members, Probes, Holders
  <2>4. \/ consecutive_failures' \in {consecutive_failures, 0}
        \/ /\ ~RateMode
           /\ consecutive_failures + 1 < FailureThreshold
           /\ consecutive_failures' = consecutive_failures + 1
    <3>1. CASE RateMode
      BY <1>3, <3>1 DEF RecordClosed
    <3>2. CASE ~RateMode /\ outcome = "success"
      BY <1>3, <3>2 DEF RecordClosed
    <3>3. CASE ~RateMode /\ outcome = "failure"
      <4>1. consecutive_failures + 1 < FailureThreshold
        BY <1>3, <3>3, CircuitAssumption DEF Trips, TypeOK, CircuitType, CounterType
      <4> QED
        BY <1>3, <3>3, <4>1 DEF RecordClosed
    <3> QED
      BY <3>1, <3>2, <3>3 DEF Outcomes, CountsClosed
  <2> QED
    BY <1>1, <2>1, <2>2, <2>3, <2>4 DEF Contract!Settle, Members, Probes
<1> QED
  BY <1>2, <1>3

LEMMA ReturnProbeRefines ==
    ASSUME TypeOK, TypeOK', TicketInv, TicketInv', NEW t \in Threads, NEW outcome \in Outcomes,
           ticket' = [ticket EXCEPT ![t] = NoTicket], UNCHANGED now,
           CountsProbe(ticket[t]), RecordProbe(outcome)
    PROVE  \/ Contract!ProbeSucceeds(t)
           \/ Contract!ProbeFails(t)
           \/ Contract!Settle(t) \/ Contract!ProbeInconclusive(t) \/ UNCHANGED Contract!vars
<1>1. t \in Probes /\ Members = {}
  BY Numbers DEF CountsProbe, TicketInv, CurrentInv, Members, Probes, Holders
<1>2. CASE outcome = "success" /\ RecordProbeSuccess
  <2>1. CASE LastSuccessNeeded
    <3>1. Close
      BY <1>2, <2>1 DEF RecordProbeSuccess
    <3>2. state' = "CLOSED" /\ consecutive_successes' = 0 /\ consecutive_failures' = 0
      BY <3>1 DEF Close, MoveTo
    <3>3. \A u \in Threads : ticket[u] < epoch'
      BY <3>1, MoveLeavesTicketsBehind DEF Close, States, TypeOK, CallerType
    <3>4. \A u \in Threads : ticket'[u] = IF u = t THEN NoTicket ELSE ticket[u]
      BY DEF TypeOK
    <3>5. epoch' \in Nat /\ \A u \in Threads : ticket[u] \in Int
      BY DEF TypeOK, CircuitType, MachineType, NoTicket
    <3>6. NoTicket < epoch' /\ NoTicket \in Int
      BY <3>5 DEF NoTicket
    <3>7. Members' = {} /\ Probes' = {}
      BY <3>3, <3>4, <3>5, <3>6, FreshEpoch
    <3>8. consecutive_successes + 1 = SuccessThreshold
      BY <2>1, CircuitAssumption DEF LastSuccessNeeded, TypeOK, CircuitType, CounterType
    <3> QED
      BY <1>1, <3>1, <3>2, <3>7, <3>8 DEF Contract!ProbeSucceeds, Close, Members, Probes
  <2>2. CASE ~LastSuccessNeeded
    <3>1. UNCHANGED <<state, epoch, consecutive_failures, opened_at>>
      BY <1>2, <2>2 DEF RecordProbeSuccess, machine
    <3>2. Members' = Members /\ Probes' = {}
      BY <1>1, <3>1, DropTicket DEF TicketInv, UniqueInv, Probes, Holders
    <3>3. consecutive_successes + 1 < SuccessThreshold
          /\ consecutive_successes' = consecutive_successes + 1
      BY <1>2, <2>2, CircuitAssumption
      DEF RecordProbeSuccess, LastSuccessNeeded, TypeOK, CircuitType, CounterType
    <3> QED
      BY <1>1, <3>1, <3>2, <3>3 DEF Contract!ProbeSucceeds, Members, Probes
  <2> QED
    BY <2>1, <2>2
<1>3. CASE outcome = "failure" /\ EnterOpen
  BY <1>1, <1>3, OpenStep DEF Contract!ProbeFails, Probes
<1>4. CASE UNCHANGED <<machine, counters, opened_at, rejections, window>>
  BY <1>4, GiveUp
<1> QED
  BY <1>2, <1>3, <1>4 DEF RecordProbe

LEMMA StepRefines ==
    ASSUME TypeOK, TypeOK', TicketInv, TicketInv', [Next]_vars
    PROVE  [Contract!Next]_(Contract!vars)
<1>1. ASSUME NEW t \in Threads, EnterClosed(t) PROVE Contract!Next
  BY <1>1, EnterClosedRefines DEF Contract!Next
<1>2. ASSUME NEW t \in Threads, TurnHalfOpen(t) PROVE Contract!Next
  BY <1>2, TurnHalfOpenRefines DEF Contract!Next
<1>3. ASSUME NEW t \in Threads, AdmitLocked(t) PROVE Contract!Next
  BY <1>3, AdmitLockedRefines DEF Contract!Next
<1>4. ASSUME NEW t \in Threads, AnnounceRaises(t)
      PROVE  Contract!Next \/ UNCHANGED Contract!vars
  BY <1>4, GiveUp DEF AnnounceRaises, circuit, Contract!Next
<1>5. ASSUME NEW t \in Threads, NEW outcome \in Outcomes, Return(t, outcome)
      PROVE  Contract!Next \/ UNCHANGED Contract!vars
  <2>1. /\ ticket' = [ticket EXCEPT ![t] = NoTicket]
        /\ UNCHANGED now
        /\ Record(ticket[t], outcome)
    BY <1>5 DEF Return
  <2>2. CASE CountsClosed(ticket[t], outcome) /\ RecordClosed(outcome)
    BY <2>1, <2>2, ReturnClosedRefines DEF Contract!Next
  <2>3. CASE CountsProbe(ticket[t]) /\ RecordProbe(outcome)
    BY <2>1, <2>3, ReturnProbeRefines DEF Contract!Next
  <2>4. CASE UNCHANGED circuit
    BY <2>1, <2>4, GiveUp DEF circuit, Contract!Next
  <2> QED
    BY <2>1, <2>2, <2>3, <2>4 DEF Record
<1>6. ASSUME UNCHANGED <<machine, counters, opened_at, now, ticket>>
      PROVE  UNCHANGED Contract!vars
  <2>1. Members' = Members /\ Probes' = Probes
    BY <1>6 DEF Members, Probes, Holders, machine
  <2> QED
    BY <1>6, <2>1, Stutter DEF machine
<1>7. ASSUME NEW t \in Threads,
             EnterTripped(t) \/ Refuse(t) \/ Announce(t) \/ Report(t)
      PROVE  UNCHANGED Contract!vars
  BY <1>6, <1>7 DEF EnterTripped, Refuse, Reject, Announce, Report, circuit
<1>8. ASSUME Tick PROVE Contract!Elapse
  <2>1. UNCHANGED <<machine, counters, opened_at, ticket>> /\ now' = now + 1
    BY <1>8 DEF Tick, circuit
  <2>2. Members' = Members /\ Probes' = Probes
    BY <2>1 DEF Members, Probes, Holders, machine
  <2> QED
    BY <2>1, <2>2 DEF Contract!Elapse, Members, Probes, machine, counters
<1>9. ASSUME UNCHANGED vars PROVE UNCHANGED Contract!vars
  BY <1>6, <1>9 DEF vars, circuit
<1> QED
  BY <1>1, <1>2, <1>3, <1>4, <1>5, <1>7, <1>8, <1>9 DEF Next, Step, Contract!Next

(* Whatever the threads do, the breaker keeps the contract: requests are   *)
(* admitted freely only while CLOSED, one probe at a time and only after   *)
(* reset_timeout otherwise; an outcome counts only in the state its        *)
(* request was admitted under; only failure_threshold consecutive failures *)
(* open the circuit (classic mode) and only success_threshold successful   *)
(* probes close it.  It holds even if logging handlers raise.              *)
THEOREM BreakerKeepsContract == Spec => ImplementsContract
<1> DEFINE IInv == TypeOK /\ TicketInv
<1>1. Init => IInv
  BY InitType, InitTickets
<1>2. IInv /\ [Next]_vars => IInv'
  BY StepType, StepTickets
<1>3. Init => Contract!Init
  BY InitRefines
<1>4. IInv /\ IInv' /\ [Next]_vars => [Contract!Next]_(Contract!vars)
  BY StepRefines
<1> QED
  BY <1>1, <1>2, <1>3, <1>4, PTL DEF Spec, ImplementsContract, Contract!Spec

=============================================================================
